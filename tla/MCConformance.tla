---------------------------- MODULE MCConformance ----------------------------
(* Packs and replies for the runs of Conformance. *)
EXTENDS Conformance, TLC

NoFlows == [kind |-> "empty", value |-> None]
MapOf(entries_of) == [kind |-> "map", value |-> entries_of]
ListOf(items) == [kind |-> "list", value |-> items]

Descriptor(e, id, name, flow_id) ==
  [entry |-> e, id |-> id, name |-> name, flow_id |-> flow_id]
Flow(e, id, name, points) ==
  [entry |-> e, id |-> id, name |-> name, entrypoints |-> points]

(* Metadata: none, a map, lists with a descriptor that names nothing, one  *)
(* whose entry hides its name, and two for one entry.                      *)
Metas ==
  {NoFlows,
   MapOf("setup" :> "m1"),
   ListOf(<<Descriptor("setup", None, None, None),
            Descriptor(None, None, "setup", "l2")>>),
   ListOf(<<Descriptor("other", "l1", "setup", None),
            Descriptor("requirements", "l2", "x", "l3"),
            Descriptor("requirements", "l4", None, None)>>)}

(* Flows: for setup and requirements by entry, name and entrypoint, one    *)
(* without an id or a name, one whose entry hides its name.                *)
FlowLists ==
  {<< >>,
   <<Flow("setup", None, None, {}), Flow(None, None, "setup", {})>>,
   <<Flow("other", "f1", "setup", {}),
     Flow("main", "f2", None, {"setup", "requirements"})>>,
   <<Flow("requirements", "f1", None, {}), Flow("setup", "f2", "x", {"requirements"})>>,
   <<Flow("other", "f1", None, {}), Flow("setup", "f2", None, {}),
     Flow("setup", "f3", "x", {})>>}

Text(s)    == [text |-> s]
Number(n)  == [number |-> n]
Object(m)  == [object |-> m]
Meaning(m, f) == "contents" :> [manifest |-> [entry_flows |-> m, flows |-> f]]

Named == ("id" :> Text("p")) @@ ("version" :> Text("1"))
Inner == ("id" :> Text("inner")) @@ ("packVersion" :> Text("3"))
Good  == Meaning(MapOf("setup" :> "m1"), << >>)

Dir(stem, file, doc) == [stem |-> stem, kind |-> "dir", damaged |-> FALSE,
                         files |-> file :> doc]
Archive(stem, doc)   == [Dir(stem, "pack.json", doc) EXCEPT !.kind = "gtpack"]
Lone(stem, doc)      == [Dir(stem, "pack.json", doc) EXCEPT !.kind = "file"]
Damaged(stem)        == [Archive(stem, None) EXCEPT !.damaged = TRUE]

(* Documents that call the pack by other names, by two or three at once,   *)
(* by a number with and without symbols, or not at all.                    *)
Symbols(ids) == "symbols" :> Object("pack_ids" :> [array |-> ids])
Version      == "version" :> Text("1")
Names2       == ("pack_id" :> Text("q")) @@ ("packId" :> Text("r"))
NamedDocs ==
  {Named,
   ("pack_id" :> Text("p")) @@ ("packVersion" :> Text("1")),
   Named @@ ("pack_id" :> Text("q")) @@ ("pack_version" :> Text("2")),
   Names2 @@ ("pack_version" :> Text("1")) @@ ("packVersion" :> Text("2")),
   ("pack_id" :> Number(1)) @@ Version @@ Symbols(<<Text("p"), Text("q")>>),
   ("packId" :> Number(2)) @@ Version @@ Symbols(<<Text("p"), Text("q")>>),
   ("pack_id" :> Number(0)) @@ ("packId" :> Text("q")) @@ Version,
   ("id" :> Number(0)) @@ Names2 @@ Version @@ Symbols(<<Text("p")>>),
   Named @@ ("version" :> Number(1)) @@ ("pack_id" :> Text("q")),
   Version}

(* Manifests that are an array of their fields, of two and three of them,  *)
(* of too few and too many and out of order, and objects whose flows are   *)
(* arrays, alone, nested, and beside a nested manifest.                    *)
Array(docs)  == [array |-> docs]
Contents(d)  == d["contents"]
Rows         == "contents" :> [rows |-> [entry_flows |-> NoFlows,
                                         flows |-> <<Flow("setup", "r1", None, {})>>]]
RowDocs ==
  {Array(<<Text("p")>>), Array(<<Text("p"), Text("1")>>),
   Array(<<Text("p"), Text("1"), Contents(Good)>>),
   Array(<<Text("p"), Text("1"), Contents(Rows)>>),
   Array(<<Text("p"), Contents(Good), Text("1")>>),
   Array(<<Text("p"), Text("1"), Contents(Good), Text("x")>>),
   Object(Named @@ Rows), Object(Inner @@ Rows),
   Object("pack" :> Object(Named @@ Rows)),
   Object(Named @@ Rows @@ ("pack" :> Object(Inner @@ Good))),
   Object(Named @@ Rows @@ ("pack" :> Text("x")))}

(* The same as they are, nested, and beside a manifest nested in them, the *)
(* first of whose members may not be an object.                            *)
Documents ==
  {Object(d @@ Good) : d \in NamedDocs}
    \cup {Object("pack" :> Object(d @@ Good)) : d \in NamedDocs}
    \cup {Object(d @@ Good @@ ("manifest" :> Object(Inner @@ Good)) @@ other) :
            d \in NamedDocs, other \in {"pack" :> Text("x"), Version}}
    \cup RowDocs
    \cup {Object(Named @@ ("contents" :> Text("x"))), Text("x"), None}

MeaningDocs == {Object(Named @@ Meaning(m, f)) : m \in Metas, f \in FlowLists}
GoodDoc     == Object(Named @@ Good)

(* A pack of each meaning beside one that cannot be opened or has no       *)
(* manifest; the second has the stem of the first.  A pack of each         *)
(* document in CBOR, alone or behind a JSON file that goes first, and of   *)
(* those with arrays in JSON.                                              *)
MCPackDirs ==
  {("a.gtpack" :> Archive("a", d)) @@ ("a" :> other) :
     d \in MeaningDocs, other \in {Damaged("a"), Dir("a", "other", None)}}
    \cup {("a.gtpack" :> Archive("a", GoodDoc)) @@ ("b" :> Dir("b", "pack.json", GoodDoc))}
    \cup {"a" :> Dir("a", "manifest.cbor", d) : d \in Documents}
    \cup {"a" :> Dir("a", "pack.json", d) : d \in RowDocs}
    \cup {("a" :> [Dir("a", "x", None) EXCEPT
                     !.files = ("manifest.json" :> d) @@ ("manifest.cbor" :> GoodDoc)])
            : d \in {None, Object(Version)}}
    \cup {"a.json" :> Lone("a", GoodDoc)}

Secrets(v) == [plan |-> [secrets_patch |->
                 [type |-> "object",
                  value |-> [set |-> "token" :> v, delete |-> << >>]]],
               diagnostics |-> << >>, questions |-> None]

Hidden   == Secrets([redacted |-> TRUE, value |-> None])
Shown    == Secrets([redacted |-> FALSE, value |-> "s"])
HalfDone == Secrets([redacted |-> TRUE, value |-> "s"])

(* A reply whose secrets patch does not parse.                             *)
Malformed == [plan |-> [secrets_patch |-> [type |-> "other", value |-> None]],
              diagnostics |-> << >>, questions |-> None]

MCReplies == {Hidden, Shown, HalfDone, Malformed}
===============================================================================
