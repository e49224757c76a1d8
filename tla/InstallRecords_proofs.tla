------------------------ MODULE InstallRecords_proofs ------------------------
(* What the operations on install records and namespaces guarantee.        *)
EXTENDS InstallRecords, Integers, SequenceTheorems, TLAPS

-----------------------------------------------------------------------------
(* put stores its record: it drops nothing but the record it replaces, and *)
(* adds nothing else.                                                      *)
LEMMA PutStoresRecord ==
  ASSUME NEW records, NEW record
  PROVE  /\ record \in Put(records, record)
         /\ Put(records, record) \subseteq records \cup {record}
         /\ \A r \in records : \/ r \in Put(records, record)
                               \/ InstallOf(r) = InstallOf(record)
<1>1. CASE Matching(records, InstallOf(record)) = {}
  BY <1>1 DEF Put
<1>2. CASE Matching(records, InstallOf(record)) # {}
  <2>1. Get(records, InstallOf(record)) \in Matching(records, InstallOf(record))
    BY <1>2 DEF Get
  <2> QED
    BY <1>2, <2>1 DEF Put, Matching
<1> QED
  BY <1>1, <1>2

(* put keeps one record per installation.                                  *)
LEMMA PutKeepsUnique ==
  ASSUME NEW records, NEW record, UniqueInstalls(records)
  PROVE  UniqueInstalls(Put(records, record))
<1>1. CASE Matching(records, InstallOf(record)) = {}
  BY <1>1 DEF Put, Matching, UniqueInstalls
<1>2. CASE Matching(records, InstallOf(record)) # {}
  <2> DEFINE existing == Get(records, InstallOf(record))
  <2>1. existing \in records /\ InstallOf(existing) = InstallOf(record)
    BY <1>2 DEF Get, Matching
  <2>2. Put(records, record) = (records \ {existing}) \cup {record}
    BY <1>2 DEF Put
  <2> HIDE DEF existing
  <2> QED
    BY <2>1, <2>2 DEF UniqueInstalls
<1> QED
  BY <1>1, <1>2

(* delete keeps one record per installation.                               *)
LEMMA DeleteKeepsUnique ==
  ASSUME NEW records, NEW install, UniqueInstalls(records)
  PROVE  UniqueInstalls(Delete(records, install))
BY DEF Delete, UniqueInstalls

(* After a put, get finds the new record for its installation, and for any *)
(* other installation what it found before.                                *)
LEMMA GetAfterPut ==
  ASSUME NEW records, NEW record, NEW install, UniqueInstalls(records)
  PROVE  Get(Put(records, record), install) =
           IF install = InstallOf(record) THEN record ELSE Get(records, install)
<1>1. CASE install = InstallOf(record)
  <2>1. Matching(Put(records, record), install) = {record}
    BY <1>1, PutStoresRecord, PutKeepsUnique DEF Matching, UniqueInstalls
  <2> QED
    BY <1>1, <2>1 DEF Get
<1>2. CASE install # InstallOf(record)
  <2>1. Matching(Put(records, record), install) = Matching(records, install)
    BY <1>2, PutStoresRecord DEF Matching
  <2> QED
    BY <1>2, <2>1 DEF Get
<1> QED
  BY <1>1, <1>2

(* After a delete, get finds nothing for that installation, and for any    *)
(* other installation what it found before.                                *)
LEMMA GetAfterDelete ==
  ASSUME NEW records, NEW gone, NEW install
  PROVE  Get(Delete(records, gone), install) =
           IF install = gone THEN None ELSE Get(records, install)
<1>1. CASE install = gone
  BY <1>1 DEF Get, Delete, Matching
<1>2. CASE install # gone
  <2>1. Matching(Delete(records, gone), install) = Matching(records, install)
    BY <1>2 DEF Delete, Matching
  <2> QED
    BY <1>2, <2>1 DEF Get
<1> QED
  BY <1>1, <1>2

-----------------------------------------------------------------------------
(* Joining a colon-free name to a rest loses neither.                      *)
LEMMA JoinIsInjective ==
  ASSUME NEW S, NEW n \in Seq(S), NEW m \in Seq(S),
         NEW s \in Seq(S), NEW t \in Seq(S),
         Len(n) = 1, Len(m) = 1, n \o s = m \o t
  PROVE  n = m /\ s = t
<1>1. Len(s) \in Nat /\ Len(t) \in Nat
  BY LenProperties
<1>2. 1 \in 1 .. Len(n) + Len(s) /\ 1 \in 1 .. Len(m) + Len(t)
  BY <1>1
<1>3. (n \o s)[1] = n[1] /\ (m \o t)[1] = m[1]
  BY <1>2, ConcatProperties
<1>4. n = m
  BY <1>3, SeqEqual
<1>5. s = t
  BY <1>4, ConcatSimplifications
<1> QED
  BY <1>4, <1>5

(* A name without a colon is a sequence of one piece.                      *)
LEMMA OnePiece ==
  ASSUME NEW S, NEW x \in S
  PROVE  <<x>> \in Seq(S) /\ Len(<<x>>) = 1
OBVIOUS

(* unwrap_or("unknown") loses nothing when no name is "unknown".           *)
LEMMA OrUnknownIsInjective ==
  ASSUME NEW n \in OptionalName, NEW m \in OptionalName,
         PlainName(n), PlainName(m)
  PROVE  /\ OrUnknown(n) \in Seq(Piece)
         /\ Len(OrUnknown(n)) = 1
         /\ OrUnknown(n) = OrUnknown(m) => n = m
<1>1. <<"unknown">> \in Seq(Piece) /\ Len(<<"unknown">>) = 1
  BY PieceAssumption, OnePiece
<1>2. CASE n = None
  BY <1>1, <1>2 DEF OptionalName, Name, PlainName, OrUnknown
<1>3. CASE n # None
  BY <1>1, <1>3 DEF OptionalName, Name, PlainName, OrUnknown
<1> QED
  BY <1>2, <1>3

(* A namespace is a joined string, whatever is absent from the tenant.     *)
LEMMA NamespaceIsSeq ==
  ASSUME NEW i \in Install
  PROVE  ProvisionNamespace(i) \in Seq(Piece)
<1>1. <<"unknown">> \in Seq(Piece) /\ <<"provision">> \in Seq(Piece)
  BY PieceAssumption, OnePiece
<1>2. /\ OrUnknown(i.tenant.environment) \in Seq(Piece)
      /\ OrUnknown(i.tenant.tenant) \in Seq(Piece)
      /\ OrUnknown(i.tenant.team) \in Seq(Piece)
      /\ i.provider_id \in Seq(Piece)
      /\ i.install_id \in Seq(Piece)
  BY <1>1 DEF Install, TenantContext, OptionalName, Name, OrUnknown
<1> QED
  BY <1>1, <1>2 DEF ProvisionNamespace

(* The suffix ":secrets" keeps namespaces apart.                           *)
LEMMA SecretsNamespaceIsInjective ==
  ASSUME NEW i \in Install, NEW j \in Install,
         SecretsNamespace(i) = SecretsNamespace(j)
  PROVE  ProvisionNamespace(i) = ProvisionNamespace(j)
<1>1. <<"secrets">> \in Seq(Piece)
  BY PieceAssumption, OnePiece
<1> QED
  BY <1>1, NamespaceIsSeq, ConcatSimplifications DEF SecretsNamespace

(* Installations with such names share a config namespace exactly when     *)
(* they differ in nothing but the user.                                    *)
THEOREM NamespaceIsAllButUser ==
  ASSUME NEW i \in Install, NEW j \in Install, PlainNames(i), PlainNames(j)
  PROVE  ProvisionNamespace(i) = ProvisionNamespace(j) <=>
           WithoutUser(i) = WithoutUser(j)
<1>1. ASSUME NEW k \in Install
      PROVE  /\ WithoutUser(k) \in [tenant : [environment : OptionalName,
                  tenant : OptionalName, team : OptionalName, user : {None}],
                  provider_id : Name, install_id : Name]
             /\ WithoutUser(k).tenant.environment = k.tenant.environment
             /\ WithoutUser(k).tenant.tenant = k.tenant.tenant
             /\ WithoutUser(k).tenant.team = k.tenant.team
             /\ WithoutUser(k).provider_id = k.provider_id
             /\ WithoutUser(k).install_id = k.install_id
  BY <1>1 DEF WithoutUser, Install, TenantContext
<1>2. ASSUME WithoutUser(i) = WithoutUser(j)
      PROVE  ProvisionNamespace(i) = ProvisionNamespace(j)
  <2>1. /\ i.tenant.environment = j.tenant.environment
        /\ i.tenant.tenant = j.tenant.tenant
        /\ i.tenant.team = j.tenant.team
        /\ i.provider_id = j.provider_id
        /\ i.install_id = j.install_id
    BY <1>1, <1>2
  <2> QED
    BY <2>1 DEF ProvisionNamespace
<1>3. ASSUME ProvisionNamespace(i) = ProvisionNamespace(j)
      PROVE  WithoutUser(i) = WithoutUser(j)
  <2> DEFINE ie == OrUnknown(i.tenant.environment)
             je == OrUnknown(j.tenant.environment)
             it == OrUnknown(i.tenant.tenant)
             jt == OrUnknown(j.tenant.tenant)
             im == OrUnknown(i.tenant.team)
             jm == OrUnknown(j.tenant.team)
             i1 == i.provider_id \o i.install_id
             j1 == j.provider_id \o j.install_id
             i2 == im \o i1
             j2 == jm \o j1
             i3 == it \o i2
             j3 == jt \o j2
             i4 == ie \o i3
             j4 == je \o j3
  <2>1. /\ i.tenant \in TenantContext /\ j.tenant \in TenantContext
        /\ i.provider_id \in Seq(Piece) /\ j.provider_id \in Seq(Piece)
        /\ i.install_id \in Seq(Piece) /\ j.install_id \in Seq(Piece)
    BY DEF Install, Name
  <2>2. /\ ie \in Seq(Piece) /\ je \in Seq(Piece) /\ Len(ie) = 1 /\ Len(je) = 1
        /\ ie = je => i.tenant.environment = j.tenant.environment
    BY <2>1, OrUnknownIsInjective DEF TenantContext, PlainNames
  <2>3. /\ it \in Seq(Piece) /\ jt \in Seq(Piece) /\ Len(it) = 1 /\ Len(jt) = 1
        /\ it = jt => i.tenant.tenant = j.tenant.tenant
    BY <2>1, OrUnknownIsInjective DEF TenantContext, PlainNames
  <2>4. /\ im \in Seq(Piece) /\ jm \in Seq(Piece) /\ Len(im) = 1 /\ Len(jm) = 1
        /\ im = jm => i.tenant.team = j.tenant.team
    BY <2>1, OrUnknownIsInjective DEF TenantContext, PlainNames
  <2>5. <<"provision">> \o i4 = <<"provision">> \o j4
    BY <1>3 DEF ProvisionNamespace
  <2> HIDE DEF ie, je, it, jt, im, jm
  <2>6. /\ i1 \in Seq(Piece) /\ j1 \in Seq(Piece)
        /\ i2 \in Seq(Piece) /\ j2 \in Seq(Piece)
        /\ i3 \in Seq(Piece) /\ j3 \in Seq(Piece)
        /\ i4 \in Seq(Piece) /\ j4 \in Seq(Piece)
    BY <2>1, <2>2, <2>3, <2>4
  <2>7. i4 = j4
    <3>1. <<"provision">> \in Seq(Piece) /\ Len(<<"provision">>) = 1
      BY PieceAssumption, OnePiece
    <3> HIDE DEF i4, j4
    <3> QED
      BY <2>5, <2>6, <3>1, JoinIsInjective
  <2>8. ie = je /\ i3 = j3
    <3> HIDE DEF i3, j3
    <3> QED BY <2>2, <2>6, <2>7, JoinIsInjective
  <2>9. it = jt /\ i2 = j2
    <3> HIDE DEF i2, j2
    <3> QED BY <2>3, <2>6, <2>8, JoinIsInjective
  <2>10. im = jm /\ i1 = j1
    <3> HIDE DEF i1, j1
    <3> QED BY <2>4, <2>6, <2>9, JoinIsInjective
  <2>11. i.provider_id = j.provider_id /\ i.install_id = j.install_id
    BY <2>1, <2>10, JoinIsInjective DEF PlainNames
  <2>12. /\ i.tenant.environment = j.tenant.environment
         /\ i.tenant.tenant = j.tenant.tenant
         /\ i.tenant.team = j.tenant.team
    BY <2>2, <2>3, <2>4, <2>8, <2>9, <2>10
  <2> QED
    BY <1>1, <2>11, <2>12
<1> QED
  BY <1>2, <1>3

(* The conditions on the names are needed.  A colon in a provider id moves *)
(* the boundary to the install id, and a name that spells the placeholder  *)
(* is taken for an absent one: in each case two installations, of one      *)
(* tenant or of one provider, share a namespace.                           *)
THEOREM ColonsAndPlaceholdersCollide ==
  ASSUME NEW i \in Install, NEW x \in Piece, NEW y \in Piece, NEW z \in Piece
  PROVE  /\ LET one == [i EXCEPT !.provider_id = <<x, y>>, !.install_id = <<z>>]
                two == [i EXCEPT !.provider_id = <<x>>, !.install_id = <<y, z>>]
            IN  /\ one \in Install /\ two \in Install /\ one # two
                /\ ProvisionNamespace(one) = ProvisionNamespace(two)
         /\ LET one == [i EXCEPT !.tenant.team = None]
                two == [i EXCEPT !.tenant.team = <<"unknown">>]
            IN  /\ one \in Install /\ two \in Install
                /\ ProvisionNamespace(one) = ProvisionNamespace(two)
                /\ None # <<"unknown">> => one # two
<1> DEFINE colonOne == [i EXCEPT !.provider_id = <<x, y>>, !.install_id = <<z>>]
           colonTwo == [i EXCEPT !.provider_id = <<x>>, !.install_id = <<y, z>>]
           teamOne  == [i EXCEPT !.tenant.team = None]
           teamTwo  == [i EXCEPT !.tenant.team = <<"unknown">>]
<1>1. /\ <<x>> \in Name /\ <<z>> \in Name /\ <<"unknown">> \in Name
      /\ <<x, y>> \in Name /\ <<y, z>> \in Name
  BY PieceAssumption DEF Name
<1>2. <<x, y>> \o <<z>> = <<x>> \o <<y, z>>
  <2> DEFINE left == <<x, y>> \o <<z>>
             right == <<x>> \o <<y, z>>
  <2>1. /\ <<x>> \in Seq(Piece) /\ <<z>> \in Seq(Piece)
        /\ <<x, y>> \in Seq(Piece) /\ <<y, z>> \in Seq(Piece)
    BY <1>1 DEF Name
  <2>2. /\ left \in Seq(Piece) /\ Len(left) = 3
        /\ right \in Seq(Piece) /\ Len(right) = 3
    BY <2>1
  <2>3. \A n \in 1 .. 3 : left[n] = right[n]
    <3>1. left[1] = x /\ left[2] = y /\ left[3] = z
      BY <2>1
    <3>2. right[1] = x /\ right[2] = y /\ right[3] = z
      BY <2>1
    <3> QED
      BY <3>1, <3>2
  <2> QED
    BY <2>2, <2>3, SeqEqual
<1>3. /\ colonOne \in Install /\ colonTwo \in Install
      /\ colonOne.tenant = i.tenant /\ colonTwo.tenant = i.tenant
      /\ colonOne.provider_id = <<x, y>> /\ colonOne.install_id = <<z>>
      /\ colonTwo.provider_id = <<x>> /\ colonTwo.install_id = <<y, z>>
  BY <1>1 DEF Install
<1>4. colonOne # colonTwo
  <2>1. Len(<<x, y>>) # Len(<<x>>)
    OBVIOUS
  <2> QED
    BY <1>3, <2>1
<1>5. ProvisionNamespace(colonOne) = ProvisionNamespace(colonTwo)
  BY <1>2, <1>3 DEF ProvisionNamespace
<1>6. /\ teamOne \in Install /\ teamTwo \in Install
      /\ teamOne.tenant.team = None /\ teamTwo.tenant.team = <<"unknown">>
      /\ \A t \in {teamOne, teamTwo} :
           /\ t.tenant.environment = i.tenant.environment
           /\ t.tenant.tenant = i.tenant.tenant
           /\ t.provider_id = i.provider_id
           /\ t.install_id = i.install_id
  BY <1>1 DEF Install, TenantContext, OptionalName
<1>7. OrUnknown(None) = OrUnknown(<<"unknown">>)
  BY DEF OrUnknown
<1>8. ProvisionNamespace(teamOne) = ProvisionNamespace(teamTwo)
  <2> HIDE DEF teamOne, teamTwo
  <2> QED
    BY <1>6, <1>7 DEF ProvisionNamespace
<1> QED
  BY <1>3, <1>4, <1>5, <1>6, <1>8

(* Two well-named installations with one config namespace are the same.    *)
THEOREM NamespaceIsInjective ==
  ASSUME NEW i \in Install, NEW j \in Install, WellNamed(i), WellNamed(j),
         ProvisionNamespace(i) = ProvisionNamespace(j)
  PROVE  i = j
<1>1. ASSUME NEW k \in Install, WellNamed(k) PROVE WithoutUser(k) = k
  BY <1>1 DEF WithoutUser, WellNamed, Install, TenantContext
<1>2. WithoutUser(i) = WithoutUser(j)
  BY NamespaceIsAllButUser DEF WellNamed
<1> QED
  BY <1>1, <1>2

=============================================================================
