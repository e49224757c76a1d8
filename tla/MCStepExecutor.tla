---------------------------- MODULE MCStepExecutor ----------------------------
(* Small instances of StepExecutor for TLC. *)
EXTENDS StepExecutor

File(for, root, ext) == [for |-> for, root |-> root, ext |-> ext]

(* An empty pack, one with only a generic component, and one whose generic *)
(* component lies in a directory that is searched before that of the       *)
(* collect component.                                                      *)
MCPacks ==
  {{},
   {File("any", "wasm", "wat")},
   {File("any", "components", "wasm"), File("collect", ".", "wat"),
    File("apply", "wasm", "wasm"), File("apply", "wasm", "wat")}}

(* One page of 64 KiB, two pages, one page more than the limit.            *)
MCMemorySizes == {0, 65536, 131072, 196608}

(* Inputs that fit above InputPtr exactly, by a byte not, and not at all.  *)
MCInputLens == {61440, 61441, 131073}

(* A small region, the ends of the memory and of the output limit, and     *)
(* negative values.                                                        *)
MCReturned == {0, 16, 65537, 131072, -1}
===============================================================================
