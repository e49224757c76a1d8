---------------------------- MODULE PackDiscovery ----------------------------
(***************************************************************************)
(* Pack discovery (discovery.rs): which flows of a pack the provisioning   *)
(* entries name.  A manifest can declare an entry in its metadata, as a    *)
(* map or as a list of descriptors, or on the flows themselves.            *)
(***************************************************************************)
EXTENDS Integers, SequencesExt, Functions

CONSTANT None   \* the absent value of an Option

(***************************************************************************)
(* A manifest is [id, version, entry_flows, flows].  entry_flows is [kind, *)
(* value]: the value is a function from entries to flow ids when kind is   *)
(* "map", a sequence of [entry, id, name, flow_id] when it is "list",      *)
(* unused when it is "empty".  flows is a sequence of [entry, id, name,    *)
(* entrypoints], with a set of entrypoints.                                *)
(***************************************************************************)
WellFormed(pack) ==
  /\ pack.flows \in Seq(Range(pack.flows))
  /\ pack.entry_flows.kind \in {"empty", "map", "list"}
  /\ pack.entry_flows.kind = "map" => None \notin Range(pack.entry_flows.value)
  /\ pack.entry_flows.kind = "list" =>
       pack.entry_flows.value \in Seq(Range(pack.entry_flows.value))

Or(option, other) == IF option # None THEN option ELSE other

(* The first value that Of gives for an item of the list. *)
FindMap(list, Of(_)) ==
  LET place == SelectInSeq(list, LAMBDA item : Of(item) # None)
  IN  IF place = 0 THEN None ELSE Of(list[place])

EntryFlowFromMeta(entry_flows, entry_name) ==
  CASE entry_flows.kind = "empty" -> None
    [] entry_flows.kind = "map" ->
         IF entry_name \in DOMAIN entry_flows.value
         THEN entry_flows.value[entry_name] ELSE None
    [] entry_flows.kind = "list" ->
         FindMap(entry_flows.value, LAMBDA flow :
           IF Or(flow.entry, flow.name) = entry_name
           THEN Or(flow.id, Or(flow.flow_id, flow.name)) ELSE None)

(* The id of a flow that is for the entry. *)
EntryOfFlow(flow, entry_name) ==
  IF \/ Or(flow.entry, flow.name) = entry_name
     \/ entry_name \in flow.entrypoints
  THEN Or(flow.id, flow.name) ELSE None

(* A faulty EntryFlowId: the flows come before the metadata.               *)
EntryFlowIdFlowsFirst(pack, entry_name) ==
  Or(FindMap(pack.flows, LAMBDA flow : EntryOfFlow(flow, entry_name)),
     EntryFlowFromMeta(pack.entry_flows, entry_name))

EntryFlowId(pack, entry_name) ==
  Or(EntryFlowFromMeta(pack.entry_flows, entry_name),
     FindMap(pack.flows, LAMBDA flow : EntryOfFlow(flow, entry_name)))

(* DefaultProvisionPackDiscovery::discover, without the members that are   *)
(* only copied and printed.                                                *)
Discover(pack) ==
  IF EntryFlowId(pack, "setup") = None THEN None
  ELSE [pack_id            |-> pack.id,
        pack_version       |-> pack.version,
        setup_entry_flow   |-> EntryFlowId(pack, "setup"),
        requirements_flow  |-> EntryFlowId(pack, "requirements"),
        subscriptions_flow |-> EntryFlowId(pack, "subscriptions")]

-----------------------------------------------------------------------------
(* The declarations of an entry: pairs of a place and a flow id.  The      *)
(* metadata stands at places up to 0, the flows come after it.             *)
Declarations(pack, entry_name) ==
  LET listed == IF pack.entry_flows.kind = "list"
                THEN pack.entry_flows.value ELSE << >>
      mapped == IF pack.entry_flows.kind = "map"
                THEN {e \in DOMAIN pack.entry_flows.value : e = entry_name} ELSE {}
      Target(flow) == {flow.entry} \cup {n \in {flow.name} : flow.entry = None}
      Best(ids) == CHOOSE i \in 1 .. Len(ids) :
                     ids[i] # None /\ \A j \in 1 .. (i - 1) : ids[j] = None
  IN  {<<0, pack.entry_flows.value[e]>> : e \in mapped}
        \cup {<<i - Len(listed), LET ids == <<listed[i].id, listed[i].flow_id, listed[i].name>>
                                 IN  ids[Best(ids)]>> :
                i \in {j \in DOMAIN listed :
                         /\ entry_name \in Target(listed[j])
                         /\ {listed[j].id, listed[j].flow_id, listed[j].name} # {None}}}
        \cup {<<i, IF pack.flows[i].id # None THEN pack.flows[i].id ELSE pack.flows[i].name>> :
                i \in {j \in DOMAIN pack.flows :
                         /\ entry_name \in Target(pack.flows[j]) \cup pack.flows[j].entrypoints
                         /\ {pack.flows[j].id, pack.flows[j].name} # {None}}}

(* What an entry should resolve to: the flow id of its first declaration.  *)
FirstDeclared(pack, entry_name) ==
  LET all == Declarations(pack, entry_name)
  IN  IF all = {} THEN None
      ELSE (CHOOSE d \in all : \A other \in all : d[1] <= other[1])[2]

===============================================================================
