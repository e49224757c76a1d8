-------------------------- MODULE ProvisionIdentity --------------------------
(***************************************************************************)
(* What identifies an installation, and the store namespaces derived from  *)
(* it (TenantContext in types.rs, provision_namespace in apply.rs).        *)
(*                                                                         *)
(* The code joins the parts of a namespace with ":".  A string is modelled *)
(* by the sequence of the pieces between its colons, so a name without a   *)
(* colon is a sequence of length one, and joining with ":" is exactly      *)
(* concatenation: two joined strings are equal iff the sequences are.      *)
(***************************************************************************)
EXTENDS Sequences

CONSTANTS
  None,    \* the absent value of an Option
  Piece    \* the strings without a colon

ASSUME PieceAssumption == {"provision", "secrets", "unknown"} \subseteq Piece

Name         == Seq(Piece) \ {<< >>}
OptionalName == Name \cup {None}

TenantContext ==
  [environment : OptionalName, tenant : OptionalName,
   team : OptionalName, user : OptionalName]

(* The triple that the install stores use as their key. *)
Install == [tenant : TenantContext, provider_id : Name, install_id : Name]

OrUnknown(name) == IF name = None THEN <<"unknown">> ELSE name

(* A faulty ProvisionNamespace: it leaves the install id out.              *)
NamespaceOfProvider(i) ==
  <<"provision">> \o (OrUnknown(i.tenant.environment)
                  \o (OrUnknown(i.tenant.tenant)
                  \o (OrUnknown(i.tenant.team) \o i.provider_id)))

(* provision_namespace: the user is not part of the namespace. *)
ProvisionNamespace(i) ==
  <<"provision">> \o (OrUnknown(i.tenant.environment)
                  \o (OrUnknown(i.tenant.tenant)
                  \o (OrUnknown(i.tenant.team)
                  \o (i.provider_id \o i.install_id))))

SecretsNamespace(i) == ProvisionNamespace(i) \o <<"secrets">>

(* The names that keep namespaces apart: no colon in a name that another   *)
(* name follows, and none that spells the placeholder of an absent one.    *)
PlainName(name) == name = None \/ (Len(name) = 1 /\ name # <<"unknown">>)

PlainNames(i) ==
  /\ PlainName(i.tenant.environment)
  /\ PlainName(i.tenant.tenant)
  /\ PlainName(i.tenant.team)
  /\ Len(i.provider_id) = 1

(* What the namespace keeps of an installation: all but the user.          *)
WithoutUser(i) == [i EXCEPT !.tenant.user = None]

(* Such names, and no two users of one team.                               *)
WellNamed(i) == PlainNames(i) /\ i.tenant.user = None

=============================================================================
