------------------------------ MODULE ListLemmas ------------------------------
(***************************************************************************)
(* Facts about numbers and lists that the proofs of several modules need.  *)
(* What a search or a recursive function computes is proved from the least *)
(* place at which it could go wrong.                                       *)
(***************************************************************************)
EXTENDS SequencesExt, FiniteSetTheorems, SequenceTheorems, TLAPS

(* A set of places has a least one: of the initial segments that end in    *)
(* them, one has no other within it.                                       *)
LEMMA LeastPlace ==
  ASSUME NEW I \in SUBSET Nat, I # {}
  PROVE  Min(I) \in I /\ \A i \in I : Min(I) <= i
<1> DEFINE below == {0 .. i : i \in I}
           R == StrictSubsetOrdering(Nat)
<1>1. IsWellFoundedOn(R, FiniteSubsetsOf(Nat))
  BY FS_StrictSubsetOrderingWellFounded
<1>2. below \subseteq FiniteSubsetsOf(Nat) /\ below # {}
  <2>1. \A i \in I : 0 .. i \subseteq Nat /\ IsFiniteSet(0 .. i)
    BY FS_Interval
  <2> QED
    BY <2>1 DEF FiniteSubsetsOf
<1> HIDE DEF R
<1>3. PICK s \in below : \A t \in below : ~(<<t, s>> \in R)
  BY <1>1, <1>2, WFMin
<1>4. PICK m \in I : s = 0 .. m
  BY <1>3
<1>5. ASSUME NEW i \in I, i < m PROVE FALSE
  <2>1. 0 .. i \subseteq 0 .. m /\ 0 .. i # 0 .. m
    <3>1. m \in 0 .. m /\ m \notin 0 .. i
      BY <1>5
    <3> QED
      BY <3>1, <1>5
  <2>2. 0 .. i \in SUBSET Nat /\ 0 .. m \in SUBSET Nat
    OBVIOUS
  <2>3. <<0 .. i, 0 .. m>> \in R
    BY <2>1, <2>2 DEF R, StrictSubsetOrdering
  <2> QED
    BY <2>3, <1>3, <1>4
<1>6. m \in I /\ \A i \in I : m <= i
  BY <1>5
<1> QED
  BY <1>6 DEF Min

-----------------------------------------------------------------------------
(* The partial results of FlattenSeq on the first n lists.                 *)
Flattens(f, lists, n) ==
  f = [i \in 1 .. n |-> IF i = 1 THEN lists[i] ELSE f[i - 1] \o lists[i]]

(* There are such results for every n ...                                  *)
LEMMA FlattensExist ==
  ASSUME NEW lists, NEW n \in Nat
  PROVE  \E f : Flattens(f, lists, n)
<1> DEFINE bad == {k \in Nat : ~ \E f : Flattens(f, lists, k)}
<1>1. ASSUME bad # {} PROVE FALSE
  <2> DEFINE m == Min(bad)
  <2>1. bad \in SUBSET Nat
    OBVIOUS
  <2>2. m \in bad /\ \A k \in bad : m <= k
    BY <1>1, <2>1, LeastPlace
  <2>3. m \in Nat /\ ~ \E f : Flattens(f, lists, m)
    BY <2>2
  <2>4. \A k \in Nat : k < m => \E f : Flattens(f, lists, k)
    <3>1. \A k \in Nat : k < m => k \notin bad
      BY <2>2
    <3> QED
      BY <3>1
  <2> HIDE DEF bad, m
  <2>5. CASE m = 0
    <3>1. 1 .. m = {}
      BY <2>5
    <3>2. Flattens([i \in {} |-> << >>], lists, m)
      BY <3>1 DEF Flattens
    <3> QED
      BY <2>3, <3>2
  <2>6. CASE m # 0
    <3>1. m - 1 \in Nat /\ m - 1 < m
      BY <2>3, <2>6
    <3>2. PICK g : Flattens(g, lists, m - 1)
      BY <2>4, <3>1
    <3> DEFINE h == [i \in 1 .. m |-> IF i < m THEN g[i] ELSE
                       IF i = 1 THEN lists[i] ELSE g[i - 1] \o lists[i]]
    <3>3. ASSUME NEW i \in 1 .. m
          PROVE  h[i] = IF i = 1 THEN lists[i] ELSE h[i - 1] \o lists[i]
      <4>1. i # 1 => i - 1 \in 1 .. m /\ i - 1 < m /\ h[i - 1] = g[i - 1]
        BY <2>3
      <4>2. CASE i < m
        <5>1. i \in 1 .. (m - 1)
          BY <2>3, <4>2
        <5>2. g[i] = IF i = 1 THEN lists[i] ELSE g[i - 1] \o lists[i]
          BY <3>2, <5>1 DEF Flattens
        <5>3. h[i] = g[i]
          BY <4>2
        <5> HIDE DEF h
        <5> QED
          BY <4>1, <5>2, <5>3
      <4>3. CASE ~(i < m)
        <5>1. h[i] = IF i = 1 THEN lists[i] ELSE g[i - 1] \o lists[i]
          BY <4>3
        <5> HIDE DEF h
        <5> QED
          BY <4>1, <5>1
      <4> QED
        BY <4>2, <4>3
    <3>4. h = [i \in 1 .. m |-> h[i]]
      OBVIOUS
    <3> HIDE DEF h
    <3>5. Flattens(h, lists, m)
      BY <3>3, <3>4 DEF Flattens
    <3> QED
      BY <2>3, <3>5
  <2> QED
    BY <2>5, <2>6
<1> QED
  BY <1>1

(* ... they are the same for lists that begin alike ...                    *)
LEMMA FlattensAgree ==
  ASSUME NEW f, NEW g, NEW lists, NEW more, NEW n \in Nat,
         Flattens(f, lists, n), Flattens(g, more, n + 1),
         \A i \in 1 .. n : lists[i] = more[i]
  PROVE  \A i \in 1 .. n : f[i] = g[i]
<1> DEFINE bad == {i \in 1 .. n : f[i] # g[i]}
<1>1. /\ \A i \in 1 .. n : f[i] = IF i = 1 THEN lists[i] ELSE f[i - 1] \o lists[i]
      /\ \A i \in 1 .. n : g[i] = IF i = 1 THEN more[i] ELSE g[i - 1] \o more[i]
  <2>1. \A i \in 1 .. n : f[i] = IF i = 1 THEN lists[i] ELSE f[i - 1] \o lists[i]
    BY DEF Flattens
  <2>2. \A i \in 1 .. (n + 1) : g[i] = IF i = 1 THEN more[i] ELSE g[i - 1] \o more[i]
    BY DEF Flattens
  <2>3. 1 .. n \subseteq 1 .. (n + 1)
    OBVIOUS
  <2> QED
    BY <2>1, <2>2, <2>3
<1>2. ASSUME bad # {} PROVE FALSE
  <2> DEFINE k == Min(bad)
  <2>1. bad \in SUBSET Nat
    OBVIOUS
  <2>2. k \in bad /\ \A i \in bad : k <= i
    BY <1>2, <2>1, LeastPlace
  <2>3. k \in 1 .. n /\ f[k] # g[k]
    BY <2>2
  <2>4. k # 1 => k - 1 \in 1 .. n /\ k - 1 \notin bad
    BY <2>2, <2>3
  <2>5. k # 1 => f[k - 1] = g[k - 1]
    BY <2>4
  <2> HIDE DEF bad, k
  <2> QED
    BY <1>1, <2>3, <2>5
<1> QED
  BY <1>2

(* ... and lists of lists flatten to lists.                                *)
LEMMA FlattensLists ==
  ASSUME NEW f, NEW S, NEW lists \in Seq(Seq(S)), Flattens(f, lists, Len(lists))
  PROVE  \A i \in 1 .. Len(lists) : f[i] \in Seq(S)
<1> DEFINE n == Len(lists)
           bad == {i \in 1 .. n : f[i] \notin Seq(S)}
<1>1. \A i \in 1 .. n : f[i] = IF i = 1 THEN lists[i] ELSE f[i - 1] \o lists[i]
  BY DEF Flattens
<1>2. n \in Nat /\ \A i \in 1 .. n : lists[i] \in Seq(S)
  BY LenProperties
<1>3. ASSUME bad # {} PROVE FALSE
  <2> DEFINE k == Min(bad)
  <2>1. bad \in SUBSET Nat
    BY <1>2
  <2>2. k \in bad /\ \A i \in bad : k <= i
    BY <1>3, <2>1, LeastPlace
  <2>3. k \in 1 .. n /\ f[k] \notin Seq(S)
    BY <2>2
  <2>4. k # 1 => k - 1 \in 1 .. n /\ k - 1 \notin bad
    BY <1>2, <2>2, <2>3
  <2>5. k # 1 => f[k - 1] \in Seq(S)
    BY <2>4
  <2> HIDE DEF bad, k, n
  <2>6. k # 1 => f[k - 1] \o lists[k] \in Seq(S)
    BY <1>2, <2>3, <2>5, ConcatProperties
  <2> QED
    BY <1>1, <1>2, <2>3, <2>6
<1> QED
  BY <1>3

(* FlattenSeq takes the last of these results. *)
LEMMA FlattenIs ==
  ASSUME NEW S, NEW lists \in Seq(S), lists # << >>
  PROVE  \E f : Flattens(f, lists, Len(lists)) /\ FlattenSeq(lists) = f[Len(lists)]
<1> DEFINE n == Len(lists)
           flat == CHOOSE f : f = [i \in 1 .. n |-> IF i = 1 THEN lists[i]
                                                    ELSE f[i - 1] \o lists[i]]
<1>1. n \in Nat /\ n # 0
  BY EmptySeq, LenProperties
<1>2. FlattenSeq(lists) = flat[n]
  BY <1>1 DEF FlattenSeq
<1>3. PICK f : Flattens(f, lists, n)
  BY <1>1, FlattensExist
<1>4. flat = [i \in 1 .. n |-> IF i = 1 THEN lists[i] ELSE flat[i - 1] \o lists[i]]
  BY <1>3, Zenon DEF Flattens
<1> HIDE DEF flat
<1> QED
  BY <1>2, <1>4 DEF Flattens

(* Flattening one more list appends its items.                             *)
LEMMA FlattenAppended ==
  ASSUME NEW S, NEW lists \in Seq(Seq(S)), NEW list \in Seq(S)
  PROVE  FlattenSeq(Append(lists, list)) = FlattenSeq(lists) \o list
<1> DEFINE n == Len(lists)
           more == Append(lists, list)
<1>1. /\ more \in Seq(Seq(S)) /\ more # << >>
      /\ Len(more) = n + 1 /\ n \in Nat
      /\ \A i \in 1 .. n : more[i] = lists[i]
      /\ more[n + 1] = list
  BY AppendProperties, LenProperties
<1> HIDE DEF more
<1>2. PICK g : Flattens(g, more, n + 1) /\ FlattenSeq(more) = g[n + 1]
  BY <1>1, FlattenIs
<1>3. \A i \in 1 .. (n + 1) : g[i] = IF i = 1 THEN more[i] ELSE g[i - 1] \o more[i]
  BY <1>2 DEF Flattens
<1>4. CASE lists = << >>
  <2>1. n = 0 /\ FlattenSeq(lists) = << >>
    BY <1>4 DEF FlattenSeq
  <2>2. g[n + 1] = list
    BY <1>1, <1>3, <2>1
  <2>3. << >> \o list = list
    BY ConcatEmptySeq
  <2> QED
    BY <1>2, <2>1, <2>2, <2>3 DEF more
<1>5. CASE lists # << >>
  <2>1. PICK f : Flattens(f, lists, n) /\ FlattenSeq(lists) = f[n]
    BY <1>5, FlattenIs
  <2>2. n # 0
    BY <1>5, EmptySeq
  <2>3. f[n] = g[n]
    <3>1. n \in Nat /\ \A i \in 1 .. n : lists[i] = more[i]
      BY <1>1
    <3> HIDE DEF n
    <3>2. Flattens(f, lists, n) /\ Flattens(g, more, n + 1)
      BY <1>2, <2>1
    <3>3. \A i \in 1 .. n : f[i] = g[i]
      BY ONLY <3>1, <3>2, FlattensAgree
    <3> QED
      BY <1>1, <2>2, <3>3
  <2>4. g[n + 1] = g[n] \o list
    <3>1. n + 1 \in 1 .. (n + 1) /\ n + 1 # 1 /\ (n + 1) - 1 = n
      BY <1>1, <2>2
    <3> HIDE DEF n
    <3>2. g[n + 1] = g[(n + 1) - 1] \o more[n + 1]
      BY <1>3, <3>1
    <3> QED
      BY <1>1, <3>1, <3>2
  <2> QED
    BY <1>2, <2>1, <2>3, <2>4 DEF more
<1> QED
  BY <1>4, <1>5

(* Lists of lists flatten to a list.                                       *)
LEMMA FlattenIsList ==
  ASSUME NEW S, NEW lists \in Seq(Seq(S))
  PROVE  FlattenSeq(lists) \in Seq(S)
<1>1. CASE lists = << >>
  <2>1. FlattenSeq(lists) = << >>
    BY <1>1 DEF FlattenSeq
  <2> QED
    BY <2>1, EmptySeq
<1>2. CASE lists # << >>
  <2>1. Len(lists) \in 1 .. Len(lists)
    BY <1>2, EmptySeq, LenProperties
  <2> QED
    BY <1>2, <2>1, FlattenIs, FlattensLists
<1> QED
  BY <1>1, <1>2

===============================================================================
