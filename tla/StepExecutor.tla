----------------------------- MODULE StepExecutor -----------------------------
(***************************************************************************)
(* WasmtimeExecutor (executor.rs) runs the WebAssembly component of one    *)
(* step: it looks the component up in the pack, starts a timer thread,     *)
(* arms an epoch deadline, compiles and instantiates the component, hands  *)
(* it the input, calls its "run" export and reads the reply.  Only a reply *)
(* that was read and parsed waits for the timer thread; every error        *)
(* returns at once and leaves the thread asleep, holding the Engine.       *)
(*                                                                         *)
(* The host thread makes one call after another.  The timers of earlier    *)
(* calls run beside it.  The epoch is wasmtime's: increment_epoch adds one *)
(* to a counter of the Engine, set_epoch_deadline(n) traps the guest when  *)
(* that counter is n above what it is now, at the guest's next loop or     *)
(* function entry.  The fuel limit is never read.                          *)
(***************************************************************************)
EXTENDS Integers

CONSTANTS
  None,          \* no component, no guest memory
  StepNames,     \* the names that a component is looked up for
  Packs,         \* the sets of component files that a pack may hold
  MaxCalls,      \* the number of calls of a run
  MemorySizes,   \* the sizes of a guest's memory
  MemoryLimit,   \* limits.memory_limit_bytes
  InputLens,     \* the sizes of the serialized input
  Returned,      \* the i32 values that a guest may return
  MaxOutput,     \* limits.max_output_bytes
  UsizeSize      \* 2^64: an i32 n < 0 is n + 2^64 as usize

Calls == 1 .. MaxCalls

ASSUME CallsAssumption == MaxCalls \in Nat

ASSUME NamesAssumption == "any" \notin StepNames

(* An i32 is far smaller than a usize. *)
ASSUME WidthAssumption ==
  /\ MaxOutput \in Nat
  /\ UsizeSize \in Nat
  /\ Returned \subseteq (-UsizeSize) .. UsizeSize

-----------------------------------------------------------------------------
(* A component file: the step that its name ends in, setup_default__step   *)
(* ("any" for setup_default alone), its directory below the pack root, its *)
(* extension.                                                              *)
Paths == [for : StepNames \cup {"any"}, root : {"components", "wasm", "."},
          ext : {"wasm", "wat"}]

(* A faulty Rank: the directories are the outer loop.                      *)
RankByRoot(path) ==
  (CASE path.root = "components" -> 0 [] path.root = "wasm" -> 4 [] OTHER -> 8)
    + (IF path.for = "any" THEN 2 ELSE 0)
    + (IF path.ext = "wasm" THEN 0 ELSE 1)

(* The place of a path in the nested loops of resolve_component. *)
Rank(path) ==
  (IF path.for = "any" THEN 6 ELSE 0)
    + (CASE path.root = "components" -> 0 [] path.root = "wasm" -> 2 [] OTHER -> 4)
    + (IF path.ext = "wasm" THEN 0 ELSE 1)

ASSUME PacksAssumption == \A files \in Packs : files \subseteq Paths

Candidates(files, s) == {p \in files : p.for \in {s, "any"}}

ResolveComponent(files, s) ==
  IF Candidates(files, s) = {} THEN None
  ELSE CHOOSE p \in Candidates(files, s) :
         \A q \in Candidates(files, s) : Rank(p) <= Rank(q)

(* A faulty AsUsize: the limit is compared with the i32.                   *)
AsSigned(n) == n

AsUsize(n) == IF n < 0 THEN n + UsizeSize ELSE n

InputPtr == 4096

(* A faulty EngineOf: the executor keeps one Engine for all its calls.     *)
SharedEngine(c) == 1

(* Each call makes an Engine of its own, which its timer shares. *)
EngineOf(c) == c

-----------------------------------------------------------------------------
VARIABLES
  pack,      \* the component files of the pack
  pc,        \* where the host is: "idle" between calls
  call,      \* the number of the last call made
  step,      \* its step
  component, \* the file it runs
  epoch,     \* the epoch of each Engine
  timer,     \* the timer thread of each call: "none", "sleeping" or "ended"
  deadline,  \* the epoch at which the Store traps
  looping,   \* the guest is in a loop that it will not leave
  memory,    \* the size of the guest's memory
  buffer,    \* the size of the buffer the host allocated for the reply
  reply,     \* the memory region [ptr, len] read into it
  outcome    \* how each call ended

vars == <<pack, pc, call, step, component, epoch, timer, deadline, looping,
          memory, buffer, reply, outcome>>

NoReply == [ptr |-> 0, len |-> 0]

Init ==
  /\ pack \in Packs
  /\ pc = "idle"
  /\ call = 0
  /\ step = None
  /\ component = None
  /\ epoch = [c \in Calls |-> 0]
  /\ timer = [c \in Calls |-> "none"]
  /\ deadline = 0
  /\ looping = FALSE
  /\ memory = 0
  /\ buffer = 0
  /\ reply = NoReply
  /\ outcome = [c \in Calls |-> "none"]

(* A faulty Return: it forgets to reset the guest.                         *)
ReturnStillLooping(how) ==
  /\ pc' = "idle"
  /\ outcome' = [outcome EXCEPT ![call'] = how]
  /\ component' = None
  /\ deadline' = 0
  /\ memory' = 0
  /\ buffer' = 0
  /\ reply' = NoReply
  /\ UNCHANGED looping

(* execute_component returns, and drops the Store and the buffer. *)
Return(how) ==
  /\ pc' = "idle"
  /\ outcome' = [outcome EXCEPT ![call'] = how]
  /\ component' = None
  /\ deadline' = 0
  /\ looping' = FALSE
  /\ memory' = 0
  /\ buffer' = 0
  /\ reply' = NoReply

Calling(s) ==
  /\ pc = "idle"
  /\ call < MaxCalls
  /\ call' = call + 1
  /\ step' = s
  /\ UNCHANGED <<pack, epoch>>

(* No component (ComponentNotFound), one that cannot be read or parsed, no *)
(* Engine.                                                                 *)
NotLoaded(s) ==
  /\ Calling(s)
  /\ Return("error")
  /\ UNCHANGED timer

(* The component is loaded, the Engine and the Store made, the timer       *)
(* thread spawned.                                                         *)
Spawn(s) ==
  /\ Calling(s)
  /\ ResolveComponent(pack, s) # None
  /\ component' = ResolveComponent(pack, s)
  /\ timer' = [timer EXCEPT ![call'] = "sleeping"]
  /\ pc' = "spawned"
  /\ UNCHANGED <<deadline, looping, memory, buffer, reply, outcome>>

(* A faulty Arm: store.set_epoch_deadline(2)                               *)
ArmTooHigh ==
  /\ pc = "spawned"
  /\ deadline' = epoch[EngineOf(call)] + 2
  /\ pc' = "armed"
  /\ UNCHANGED <<pack, call, step, component, epoch, timer, looping, memory,
                 buffer, reply, outcome>>

(* store.set_epoch_deadline(1) *)
Arm ==
  /\ pc = "spawned"
  /\ deadline' = epoch[EngineOf(call)] + 1
  /\ pc' = "armed"
  /\ UNCHANGED <<pack, call, step, component, epoch, timer, looping, memory,
                 buffer, reply, outcome>>

Fail(how) ==
  /\ UNCHANGED <<pack, call, step, epoch, timer>>
  /\ Return(how)

(* Module::new; Instance::new then runs the start function, if any. *)
Compile ==
  /\ pc = "armed"
  /\ \/ /\ pc' = "starting"
        /\ UNCHANGED <<pack, call, step, component, epoch, timer, deadline,
                       looping, memory, buffer, reply, outcome>>
     \/ Fail("error")

GuestRuns == pc \in {"starting", "running"}

(* Instance::new returns; the exports are looked up, the input is written. *)
Instantiate ==
  /\ pc = "starting" /\ ~looping
  /\ \E size \in {m \in MemorySizes : m <= MemoryLimit}, len \in InputLens :
       /\ len <= size
       /\ InputPtr + len <= size
       /\ memory' = size
  /\ pc' = "running"
  /\ UNCHANGED <<pack, call, step, component, epoch, timer, deadline, looping,
                 buffer, reply, outcome>>

(* Missing or wrongly typed exports, a memory above the limit or too small *)
(* for the input.                                                          *)
NotInstantiated ==
  /\ pc = "starting" /\ ~looping
  /\ Fail("error")

GuestTraps ==
  /\ GuestRuns /\ ~looping
  /\ Fail("trap")

GuestLoops ==
  /\ GuestRuns /\ ~looping
  /\ looping' = TRUE
  /\ UNCHANGED <<pack, pc, call, step, component, epoch, timer, deadline,
                 memory, buffer, reply, outcome>>

(* The epoch has reached the deadline: the guest traps, looping or not. *)
Interrupt ==
  /\ GuestRuns
  /\ epoch[EngineOf(call)] >= deadline
  /\ Fail("interrupted")

(* run returns (ptr, len), after it may have grown its memory. *)
GuestReturns ==
  /\ pc = "running" /\ ~looping
  /\ \E ptr \in Returned, len \in Returned,
        size \in {m \in MemorySizes : memory <= m /\ m <= MemoryLimit} :
       IF AsUsize(len) > MaxOutput
       THEN Fail("error")
       ELSE /\ pc' = "reading"
            /\ memory' = size
            /\ buffer' = AsUsize(len)
            /\ reply' = [ptr |-> AsUsize(ptr), len |-> AsUsize(len)]
            /\ UNCHANGED <<pack, call, step, component, epoch, timer,
                           deadline, looping, outcome>>

InMemory(region) == region.ptr + region.len <= memory

(* memory.read, which checks the bounds, and serde_json::from_slice. *)
ReadReply ==
  /\ pc = "reading"
  /\ \/ /\ InMemory(reply)
        /\ pc' = "joining"
        /\ UNCHANGED <<pack, call, step, component, epoch, timer, deadline,
                       looping, memory, buffer, reply, outcome>>
     \/ Fail("error")

(* A faulty Join: the handle is dropped instead.                           *)
JoinDetached ==
  /\ pc = "joining"
  /\ Fail("ok")

(* epoch_handle.join() *)
Join ==
  /\ pc = "joining"
  /\ timer[call] = "ended"
  /\ Fail("ok")

HostStep ==
  \/ Arm \/ Compile \/ Instantiate \/ NotInstantiated \/ GuestTraps
  \/ GuestLoops \/ Interrupt \/ GuestReturns \/ ReadReply \/ Join

(* A faulty SleepEnds: a timer that ends late rewrites the outcome.        *)
SleepEndsLate(c) ==
  /\ timer[c] = "sleeping"
  /\ timer' = [timer EXCEPT ![c] = "ended"]
  /\ epoch' = [epoch EXCEPT ![EngineOf(c)] = @ + 1]
  /\ outcome' = [outcome EXCEPT ![c] = IF @ = "none" THEN @ ELSE "interrupted"]
  /\ UNCHANGED <<pack, pc, call, step, component, deadline, looping, memory,
                 buffer, reply>>

(* The timer thread of a call: thread::sleep returns, increment_epoch. *)
SleepEnds(c) ==
  /\ timer[c] = "sleeping"
  /\ timer' = [timer EXCEPT ![c] = "ended"]
  /\ epoch' = [epoch EXCEPT ![EngineOf(c)] = @ + 1]
  /\ UNCHANGED <<pack, pc, call, step, component, deadline, looping, memory,
                 buffer, reply, outcome>>

Next ==
  \/ \E s \in StepNames : NotLoaded(s) \/ Spawn(s)
  \/ HostStep
  \/ \E c \in Calls : SleepEnds(c)

Spec == Init /\ [][Next]_vars

(* The host thread and the timers keep running; a guest that may return    *)
(* may also loop.  Nothing makes the engine call again.                    *)
FairSpec ==
  Spec /\ WF_vars(HostStep) /\ \A c \in Calls : WF_vars(SleepEnds(c))

-----------------------------------------------------------------------------
(* The host's state, the timers and the regions have their types, and a    *)
(* call that is over, or has not been made, has the outcome it should.     *)
TypeOK ==
  /\ pc \in {"idle", "spawned", "armed", "starting", "running", "reading", "joining"}
  /\ call \in 0 .. MaxCalls
  /\ pc # "idle" => call \in Calls
  /\ step \in StepNames \cup {None}
  /\ component # None => component \in Paths
  /\ epoch \in [Calls -> Nat]
  /\ timer \in [Calls -> {"none", "sleeping", "ended"}]
  /\ deadline \in Nat
  /\ looping \in BOOLEAN
  /\ looping => GuestRuns
  /\ outcome \in [Calls -> {"none", "error", "trap", "interrupted", "ok"}]
  /\ \A c \in Calls : outcome[c] # "none" <=> c < call \/ (c = call /\ pc = "idle")

(* A guest is cut off only when its own time is up: the timers that failed *)
(* calls leave behind never interrupt a later call.                        *)
InterruptOnlyAfterOwnTimeout ==
  \A c \in Calls : outcome[c] = "interrupted" => timer[c] = "ended"

(* Threads that sleep on after their call is over, each with the Engine of *)
(* the call, are left behind only by calls that failed by themselves: not  *)
(* by one that succeeded, and not by one that was cut off.                 *)
OnlyFailuresLeaveThreads ==
  \A c \in Calls :
    timer[c] = "sleeping" /\ outcome[c] # "none" => outcome[c] \in {"error", "trap"}

(* Whatever the guest returns, the host allocates no more than the limit,  *)
(* and the reply that it parses lies in the guest's memory.                *)
OutputWithinLimits ==
  /\ buffer \in 0 .. MaxOutput
  /\ pc = "joining" =>
       reply.ptr >= 0 /\ reply.len = buffer /\ reply.ptr + reply.len <= memory

(* A step runs a component written for it where the pack has one, wherever *)
(* that lies, and the generic one otherwise; never another step's.         *)
ComponentIsForStep ==
  component # None =>
    IF \E p \in pack : p.for = step THEN component.for = step
    ELSE component.for = "any"

(* The time of a call is up, and nothing will interrupt its guest, which   *)
(* is running or still to come.                                            *)
Unstoppable ==
  /\ pc \in {"armed", "starting", "running"}
  /\ timer[call] = "ended"
  /\ epoch[EngineOf(call)] < deadline

(* Only arming the deadline after the time is up lets a guest run without  *)
(* one: a timer that ends later, wherever the guest is by then, always     *)
(* makes it stoppable, and nothing that follows takes that back.           *)
OnlyLateArmingLosesTimeout ==
  [][Unstoppable' => Unstoppable \/ (pc = "spawned" /\ timer[call] = "ended")]_vars

(* Seen by its caller, the executor is StepCalls: in particular the timer  *)
(* threads of earlier calls, which it leaves running, never show.          *)
Abstract == INSTANCE StepCalls WITH
  made <- call, over <- {c \in Calls : timer[c] = "ended"}

ImplementsStepCalls == Abstract!Spec

(* A call whose timer is still asleep when the deadline is armed returns,  *)
(* also one whose guest loops for ever, and one that must wait for its     *)
(* timer thread.                                                           *)
ArmedCallsReturn ==
  pc = "armed" /\ timer[call] = "sleeping" ~> pc = "idle"

(* .codex/GPROV-PR-03.md:63 "Timeouts prevent hangs.": every call returns. *)
CallsReturn == pc # "idle" ~> pc = "idle"

===============================================================================
