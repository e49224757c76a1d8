----------------------------- MODULE PackLoading -----------------------------
(***************************************************************************)
(* Pack loading (main.rs): the manifest of a pack.  A pack is a directory, *)
(* an archive or a lone manifest file; its manifest is JSON, read as it    *)
(* is, or CBOR, which may use other names and be nested and is normalized. *)
(*                                                                         *)
(* A document is None when its file does not parse, and otherwise a record *)
(* of one field that is named for the type of the value: text, number,     *)
(* array, object (a function from member names to documents).  The members *)
(* meta and flows are one here, "contents": of type manifest when they and *)
(* every flow are objects, of type rows when one of these is an array.     *)
(***************************************************************************)
EXTENDS PackDiscovery, FiniteSets

IdNames      == <<"id", "pack_id", "packId">>
VersionNames == <<"version", "pack_version", "packVersion">>
NestedNames  == <<"pack", "manifest", "pack_manifest">>

Is(type, doc) == doc # None /\ DOMAIN doc = {type}

(* map.get(..).or_else(|| map.get(..)): the first member that is there,    *)
(* whatever its type.                                                      *)
FirstOf(names, map) ==
  LET places == {i \in DOMAIN names : names[i] \in DOMAIN map}
  IN  IF places = {} THEN None ELSE map[names[Min(places)]]

(* A field of PackManifest that is text and may stand under several names: *)
(* serde refuses a field that is there twice.                              *)
HasText(names, map) ==
  Cardinality(Range(names) \cap DOMAIN map) = 1 /\ Is("text", FirstOf(names, map))

(* The derived Deserialize of a struct also takes an array of its fields   *)
(* in order, the last ones optional when they have a default.              *)
Field == [id |-> 1, version |-> 2, contents |-> 3]

Members(doc) ==
  IF Is("object", doc) THEN doc.object
  ELSE [n \in {m \in DOMAIN Field : Field[m] \in DOMAIN doc.array} |-> doc.array[Field[n]]]

NoContents == [manifest |-> [entry_flows |-> [kind |-> "empty", value |-> None],
                             flows |-> << >>]]

ContentsOf(map) == Or(FirstOf(<<"contents">>, map), NoContents)

(* What serde_json takes for a PackManifest, and what it makes of it.      *)
Decodable(doc) ==
  /\ Is("object", doc) \/ (Is("array", doc) /\ Len(doc.array) <= Cardinality(DOMAIN Field))
  /\ HasText(IdNames, Members(doc))
  /\ HasText(VersionNames, Members(doc))
  /\ Is("manifest", ContentsOf(Members(doc))) \/ Is("rows", ContentsOf(Members(doc)))

PackManifest(map) ==
  LET contents == ContentsOf(map)
      meaning  == IF Is("rows", contents) THEN contents.rows ELSE contents.manifest
  IN  [id          |-> FirstOf(IdNames, map).text,
       version     |-> FirstOf(VersionNames, map).text,
       entry_flows |-> meaning.entry_flows,
       flows       |-> meaning.flows]

Decode(doc) == IF Decodable(doc) THEN PackManifest(Members(doc)) ELSE None

(* ciborium takes only a map for a struct, the other types as serde_json.  *)
MapsOnly(doc) == Is("object", doc) /\ ~Is("rows", ContentsOf(doc.object))

DecodeCbor(doc) == IF MapsOnly(doc) THEN Decode(doc) ELSE None

-----------------------------------------------------------------------------
(* The symbols.pack_ids of an object, an empty list when there are none.   *)
PackIds(map) ==
  LET symbols == FirstOf(<<"symbols">>, map)
      ids     == IF Is("object", symbols) THEN FirstOf(<<"pack_ids">>, symbols.object)
                 ELSE None
  IN  IF Is("array", ids) THEN ids.array ELSE << >>

(* resolve_pack_id: a number is an index from 0 into the symbols. *)
ResolvePackId(map) ==
  LET id  == FirstOf(Tail(IdNames), map)
      ids == PackIds(map)
  IN  IF ~Is("number", id) THEN id
      ELSE IF id.number + 1 \in DOMAIN ids /\ Is("text", ids[id.number + 1])
      THEN ids[id.number + 1] ELSE None

(* A faulty Renamed: the alias replaces the name that is there.            *)
RenamedAlways(map, names, value) ==
  LET added == {Head(names)} \cap {n \in {Head(names)} : value # None}
      kept  == DOMAIN map \ Range(Tail(names))
  IN  [n \in kept \cup added |-> IF n \in added THEN value ELSE map[n]]

(* The object with the value under the first of the names, unless it has   *)
(* that member, and without the others.                                    *)
Renamed(map, names, value) ==
  LET added == {n \in {Head(names)} : n \notin DOMAIN map /\ value # None}
      kept  == DOMAIN map \ Range(Tail(names))
  IN  [n \in kept \cup added |-> IF n \in added THEN value ELSE map[n]]

NormalizeManifestObject(map) ==
  LET identified == Renamed(map, IdNames, ResolvePackId(map))
  IN  Renamed(identified, VersionNames, FirstOf(Tail(VersionNames), identified))

(* The object that the manifest stands in: a nested one goes first, but    *)
(* only the first nesting member that is there is looked at.               *)
ManifestObject(map) ==
  LET nested == FirstOf(NestedNames, map)
  IN  IF Is("object", nested) THEN nested.object ELSE map

(* normalize_manifest_value *)
NormalizeManifestValue(doc) ==
  IF Is("object", doc)
  THEN [object |-> NormalizeManifestObject(ManifestObject(doc.object))] ELSE None

(* A faulty LoadCbor: it normalizes before it tries.                       *)
LoadCborNormalized(doc) == Decode(NormalizeManifestValue(doc))

(* load_manifest_from_cbor_bytes: what ciborium refuses is read as a JSON  *)
(* value, normalized, and decoded as JSON.                                 *)
LoadCbor(doc) == Or(DecodeCbor(doc), Decode(NormalizeManifestValue(doc)))

(* load_manifest: the first manifest file that exists decides, also when   *)
(* it does not decode.  A lone file is loaded by its extension.            *)
JsonFiles == <<"pack.json", "manifest.json">>

LoadManifest(files) ==
  IF Range(JsonFiles) \cap DOMAIN files # {} THEN Decode(FirstOf(JsonFiles, files))
  ELSE IF "manifest.cbor" \in DOMAIN files THEN LoadCbor(files["manifest.cbor"])
  ELSE None

(* resolve_pack_path: a directory and a lone file stand for themselves, an *)
(* archive is extracted, which fails when it is damaged.                   *)
ResolvePackPath(pack) == pack.kind = "gtpack" => ~pack.damaged

===============================================================================
