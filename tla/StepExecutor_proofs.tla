-------------------------- MODULE StepExecutor_proofs --------------------------
EXTENDS StepExecutor, TLAPS

(***************************************************************************)
(* Why no stale timer interrupts a guest: only the timer of a call         *)
(* advances the epoch of its Engine, and the deadline of an armed Store is *)
(* at least 1.  A call not made yet has neither a timer nor an outcome.    *)
(***************************************************************************)
TimersInv ==
  /\ call \in 0 .. MaxCalls
  /\ pc \in {"idle", "spawned", "armed", "starting", "running", "reading", "joining"}
  /\ pc # "idle" => call \in Calls
  /\ pc \in {"armed", "starting", "running"} => deadline >= 1
  /\ deadline \in Nat
  /\ epoch \in [Calls -> Nat]
  /\ timer \in [Calls -> {"none", "sleeping", "ended"}]
  /\ outcome \in [Calls -> {"none", "error", "trap", "interrupted", "ok"}]
  /\ \A c \in Calls : timer[c] # "ended" => epoch[c] = 0
  /\ \A c \in Calls : c > call => timer[c] = "none" /\ outcome[c] = "none"
  /\ InterruptOnlyAfterOwnTimeout
  /\ OnlyFailuresLeaveThreads

(* A call ends: only its own outcome changes, and one that is interrupted, *)
(* or succeeds, has had its time.                                          *)
LEMMA FailKeepsTimers ==
  ASSUME TimersInv, pc # "idle",
         NEW how \in {"error", "trap", "interrupted", "ok"}, Fail(how),
         how \in {"interrupted", "ok"} => timer[call] = "ended"
  PROVE  TimersInv'
<1>1. /\ call \in Calls
      /\ pc' = "idle" /\ deadline' = 0
      /\ UNCHANGED <<call, epoch, timer>>
      /\ outcome' = [outcome EXCEPT ![call] = how]
  BY DEF Fail, Return, TimersInv
<1>2. outcome' \in [Calls -> {"none", "error", "trap", "interrupted", "ok"}]
  BY <1>1 DEF TimersInv
<1>3. InterruptOnlyAfterOwnTimeout' /\ OnlyFailuresLeaveThreads'
  BY <1>1 DEF TimersInv, InterruptOnlyAfterOwnTimeout, OnlyFailuresLeaveThreads
<1>4. \A c \in Calls : c > call' => timer'[c] = "none" /\ outcome'[c] = "none"
  BY <1>1 DEF TimersInv, Calls
<1> QED
  BY <1>1, <1>2, <1>3, <1>4 DEF TimersInv

(* Every step of the host, of a timer and of the caller keeps it.          *)
LEMMA StepKeepsTimers ==
  ASSUME TimersInv, [Next]_vars
  PROVE  TimersInv'
<1>1. ASSUME NEW s \in StepNames, NotLoaded(s) PROVE TimersInv'
  <2>1. /\ call' = call + 1 /\ call' \in Calls /\ pc' = "idle" /\ deadline' = 0
        /\ UNCHANGED <<epoch, timer>>
        /\ outcome' = [outcome EXCEPT ![call'] = "error"]
    BY <1>1, CallsAssumption DEF NotLoaded, Calling, Return, TimersInv, Calls
  <2>2. /\ outcome' \in [Calls -> {"none", "error", "trap", "interrupted", "ok"}]
        /\ \A c \in Calls : outcome'[c] = IF c = call' THEN "error" ELSE outcome[c]
    BY <2>1 DEF TimersInv
  <2>3. InterruptOnlyAfterOwnTimeout' /\ OnlyFailuresLeaveThreads'
    BY <2>1, <2>2 DEF TimersInv, InterruptOnlyAfterOwnTimeout, OnlyFailuresLeaveThreads
  <2>4. \A c \in Calls : c > call' => timer'[c] = "none" /\ outcome'[c] = "none"
    BY <2>1, <2>2 DEF TimersInv, Calls
  <2> QED
    BY <2>1, <2>2, <2>3, <2>4 DEF TimersInv, Calls
<1>2. ASSUME NEW s \in StepNames, Spawn(s) PROVE TimersInv'
  <2>1. /\ call' = call + 1 /\ call' \in Calls /\ call' > call /\ pc' = "spawned"
        /\ UNCHANGED <<epoch, deadline, outcome>>
        /\ timer' = [timer EXCEPT ![call'] = "sleeping"]
    BY <1>2, CallsAssumption DEF Spawn, Calling, TimersInv, Calls
  <2>2. /\ timer' \in [Calls -> {"none", "sleeping", "ended"}]
        /\ \A c \in Calls : timer'[c] = IF c = call' THEN "sleeping" ELSE timer[c]
    BY <2>1 DEF TimersInv
  <2>3. timer[call'] = "none" /\ outcome[call'] = "none"
    BY <2>1 DEF TimersInv
  <2>4. InterruptOnlyAfterOwnTimeout' /\ OnlyFailuresLeaveThreads'
    BY <2>1, <2>2, <2>3 DEF TimersInv, InterruptOnlyAfterOwnTimeout, OnlyFailuresLeaveThreads
  <2>5. \A c \in Calls : timer'[c] # "ended" => epoch'[c] = 0
    BY <2>1, <2>2, <2>3 DEF TimersInv
  <2>6. \A c \in Calls : c > call' => timer'[c] = "none" /\ outcome'[c] = "none"
    BY <2>1, <2>2 DEF TimersInv, Calls
  <2> QED
    BY <2>1, <2>2, <2>4, <2>5, <2>6 DEF TimersInv, Calls
<1>3. CASE Arm
  BY <1>3 DEF Arm, TimersInv, InterruptOnlyAfterOwnTimeout, OnlyFailuresLeaveThreads, EngineOf
<1>4. CASE Interrupt
  <2>1. pc # "idle" /\ timer[call] = "ended"
    BY <1>4 DEF Interrupt, GuestRuns, EngineOf, TimersInv
  <2> QED
    BY <1>4, <2>1, FailKeepsTimers DEF Interrupt
<1>5. CASE Compile
  BY <1>5, FailKeepsTimers DEF Compile, TimersInv, InterruptOnlyAfterOwnTimeout, OnlyFailuresLeaveThreads
<1>6. CASE Instantiate \/ GuestLoops
  BY <1>6 DEF Instantiate, GuestLoops, GuestRuns, TimersInv, InterruptOnlyAfterOwnTimeout, OnlyFailuresLeaveThreads
<1>7. CASE NotInstantiated \/ GuestTraps
  BY <1>7, FailKeepsTimers DEF NotInstantiated, GuestTraps, GuestRuns
<1>8. CASE GuestReturns
  <2>1. CASE Fail("error")
    BY <1>8, <2>1, FailKeepsTimers DEF GuestReturns
  <2>2. CASE /\ pc' = "reading"
             /\ UNCHANGED <<call, epoch, timer, deadline, outcome>>
    BY <1>8, <2>2 DEF GuestReturns, TimersInv, InterruptOnlyAfterOwnTimeout, OnlyFailuresLeaveThreads
  <2> QED
    BY <1>8, <2>1, <2>2 DEF GuestReturns
<1>9. CASE ReadReply
  BY <1>9, FailKeepsTimers DEF ReadReply, TimersInv, InterruptOnlyAfterOwnTimeout, OnlyFailuresLeaveThreads
<1>12. CASE Join
  BY <1>12, FailKeepsTimers DEF Join
<1>10. ASSUME NEW e \in Calls, SleepEnds(e) PROVE TimersInv'
  BY <1>10 DEF SleepEnds, TimersInv, InterruptOnlyAfterOwnTimeout, OnlyFailuresLeaveThreads, EngineOf
<1>11. CASE UNCHANGED vars
  BY <1>11 DEF vars, TimersInv, InterruptOnlyAfterOwnTimeout, OnlyFailuresLeaveThreads
<1> QED
  BY <1>1, <1>2, <1>3, <1>4, <1>5, <1>6, <1>7, <1>8, <1>9, <1>10, <1>11, <1>12
     DEF Next, HostStep

(* It holds before the first call.                                         *)
LEMMA TimersStart == Init => TimersInv
  BY CallsAssumption
  DEF Init, TimersInv, InterruptOnlyAfterOwnTimeout, OnlyFailuresLeaveThreads, Calls

(* A guest is cut off only after its own timer has ended, for any number   *)
(* of calls and of timers left behind by the calls that failed.            *)
THEOREM InterruptsAreOwn == Spec => []InterruptOnlyAfterOwnTimeout
<1>1. TimersInv => InterruptOnlyAfterOwnTimeout
  BY DEF TimersInv
<1> QED
  BY <1>1, TimersStart, StepKeepsTimers, PTL DEF Spec

(* The threads left asleep, however many calls there are, belong to calls  *)
(* that failed by themselves.                                              *)
THEOREM LeftoverThreadsAreOfFailures == Spec => []OnlyFailuresLeaveThreads
<1>1. TimersInv => OnlyFailuresLeaveThreads
  BY DEF TimersInv
<1> QED
  BY <1>1, TimersStart, StepKeepsTimers, PTL DEF Spec

-----------------------------------------------------------------------------
(* A timer adds one to the epoch of its Engine, and only once; a deadline  *)
(* that is armed while it sleeps is the epoch that this gives.             *)
DeadlineInv ==
  /\ TimersInv
  /\ \A c \in Calls : timer[c] = "ended" => epoch[c] = 1
  /\ pc \in {"armed", "starting", "running"} /\ timer[call] = "sleeping" => deadline = 1

(* Every step keeps it, and no step but arming late loses the timeout.     *)
LEMMA StepKeepsDeadline ==
  ASSUME DeadlineInv, [Next]_vars
  PROVE  /\ DeadlineInv'
         /\ Unstoppable' => Unstoppable \/ (pc = "spawned" /\ timer[call] = "ended")
<1> DEFINE Goal == /\ DeadlineInv'
                   /\ Unstoppable' => \/ Unstoppable
                                      \/ pc = "spawned" /\ timer[call] = "ended"
<1>1. TimersInv'
  BY StepKeepsTimers DEF DeadlineInv
<1>2. ASSUME pc' = "idle" \/ pc' \in {"spawned", "reading", "joining"},
             UNCHANGED epoch, \A c \in Calls : timer'[c] = "ended" => timer[c] = "ended"
      PROVE  Goal
  BY <1>1, <1>2 DEF DeadlineInv, Unstoppable
<1>3. ASSUME pc \in {"armed", "starting", "running"}, UNCHANGED <<call, epoch, timer, deadline>>
      PROVE  Goal
  BY <1>1, <1>3 DEF DeadlineInv, Unstoppable
<1>4. ASSUME NEW s \in StepNames, NotLoaded(s) \/ Spawn(s) PROVE Goal
  <2>1. call' \in Calls /\ UNCHANGED epoch /\ pc' \in {"idle", "spawned"}
    BY <1>4, CallsAssumption DEF NotLoaded, Spawn, Calling, Return, DeadlineInv, TimersInv, Calls
  <2>2. timer' = timer \/ timer' = [timer EXCEPT ![call'] = "sleeping"]
    BY <1>4 DEF NotLoaded, Spawn
  <2>3. \A c \in Calls : timer'[c] = "ended" => timer[c] = "ended"
    BY <2>1, <2>2 DEF DeadlineInv, TimersInv
  <2> QED
    BY <1>2, <2>1, <2>3
<1>5. ASSUME NEW how, Fail(how) PROVE Goal
  BY <1>2, <1>5 DEF Fail, Return
<1>6. CASE Arm
  <2>1. /\ pc = "spawned" /\ call \in Calls
        /\ UNCHANGED <<call, epoch, timer>>
        /\ deadline' = epoch[call] + 1
    BY <1>6 DEF Arm, EngineOf, DeadlineInv, TimersInv
  <2>2. timer[call] = "sleeping" => deadline' = 1
    BY <2>1 DEF DeadlineInv, TimersInv
  <2> QED
    BY <1>1, <2>1, <2>2 DEF DeadlineInv, Unstoppable
<1>7. CASE Compile \/ Instantiate \/ GuestLoops
  BY <1>3, <1>5, <1>7 DEF Compile, Instantiate, GuestLoops, GuestRuns
<1>8. CASE NotInstantiated \/ GuestTraps \/ Interrupt \/ Join
  BY <1>5, <1>8 DEF NotInstantiated, GuestTraps, Interrupt, Join
<1>9. CASE GuestReturns \/ ReadReply
  BY <1>2, <1>5, <1>9 DEF GuestReturns, ReadReply
<1>10. ASSUME NEW c \in Calls, SleepEnds(c) PROVE Goal
  <2>1. /\ timer[c] = "sleeping" /\ epoch[c] = 0
        /\ timer' = [timer EXCEPT ![c] = "ended"]
        /\ epoch' = [epoch EXCEPT ![c] = 1]
        /\ UNCHANGED <<pc, call, deadline>>
    <3>1. timer[c] = "sleeping" /\ epoch[c] = 0
      BY <1>10 DEF SleepEnds, DeadlineInv, TimersInv
    <3>2. epoch' = [epoch EXCEPT ![c] = epoch[c] + 1]
      BY <1>10 DEF SleepEnds, EngineOf
    <3> QED
      BY <3>1, <3>2, <1>10 DEF SleepEnds
  <2>2. /\ \A d \in Calls : timer'[d] = IF d = c THEN "ended" ELSE timer[d]
        /\ \A d \in Calls : epoch'[d] = IF d = c THEN 1 ELSE epoch[d]
    BY <2>1 DEF DeadlineInv, TimersInv
  <2>3. pc # "idle" => call \in Calls
    BY DEF DeadlineInv, TimersInv
  <2>4. DeadlineInv'
    BY <1>1, <2>1, <2>2, <2>3 DEF DeadlineInv
  <2>5. Unstoppable' => Unstoppable
    BY <2>1, <2>2, <2>3 DEF DeadlineInv, Unstoppable, EngineOf
  <2> QED
    BY <2>4, <2>5
<1>11. CASE UNCHANGED vars
  BY <1>1, <1>11 DEF vars, DeadlineInv, Unstoppable
<1> QED
  BY <1>4, <1>6, <1>7, <1>8, <1>9, <1>10, <1>11 DEF Next, HostStep

(* For any number of calls and of leftover timers, only a deadline that is *)
(* armed after the time is up lets a guest run on: the safety that makes   *)
(* ArmedCallsReturn true under fair scheduling.                            *)
THEOREM TimeoutsAreKept == Spec => OnlyLateArmingLosesTimeout
<1>1. Init => DeadlineInv
  BY TimersStart DEF Init, DeadlineInv
<1> QED
  BY <1>1, StepKeepsDeadline, PTL DEF Spec, OnlyLateArmingLosesTimeout

(* A guest that loops and that nothing interrupts.                         *)
Hung == Unstoppable /\ GuestRuns /\ looping

(* Such a guest stays: the call never comes to an outcome, and the host    *)
(* never makes another one.  So a deadline that is armed late is not just  *)
(* a late timeout; with a guest that loops the executor is lost for good,  *)
(* whatever timers of other calls still end.                               *)
THEOREM HangsAreForever ==
  Spec => [][Hung => Hung' /\ UNCHANGED <<pc, call, outcome>>]_vars
<1>1. TimersInv /\ [Next]_vars => (Hung => Hung' /\ UNCHANGED <<pc, call, outcome>>)
  <2> SUFFICES ASSUME TimersInv, [Next]_vars, Hung
               PROVE  Hung' /\ UNCHANGED <<pc, call, outcome>>
    OBVIOUS
  <2>1. /\ pc \in {"starting", "running"} /\ looping
        /\ call \in Calls /\ timer[call] = "ended"
        /\ epoch[call] \in Nat /\ deadline \in Nat /\ epoch[call] < deadline
    BY DEF Hung, Unstoppable, GuestRuns, EngineOf, TimersInv
  <2>2. CASE \E c \in Calls : SleepEnds(c)
    <3>1. PICK c \in Calls : SleepEnds(c)
      BY <2>2
    <3>2. /\ c # call
          /\ timer' = [timer EXCEPT ![c] = "ended"]
          /\ epoch' = [epoch EXCEPT ![c] = @ + 1]
          /\ UNCHANGED <<pc, call, deadline, looping, outcome>>
      BY <2>1, <3>1 DEF SleepEnds, EngineOf
    <3>3. timer'[call] = "ended" /\ epoch'[call] = epoch[call]
      BY <2>1, <3>2 DEF TimersInv
    <3> QED
      BY <2>1, <3>2, <3>3 DEF Hung, Unstoppable, GuestRuns, EngineOf
  <2>3. CASE UNCHANGED vars
    BY <2>3 DEF vars, Hung, Unstoppable, GuestRuns
  <2>4. ~HostStep
    <3>1. ~(Arm \/ Compile \/ Instantiate \/ NotInstantiated \/ GuestTraps \/ GuestLoops
             \/ GuestReturns \/ ReadReply \/ Join)
      BY <2>1 DEF Arm, Compile, Instantiate, NotInstantiated, GuestTraps, GuestLoops,
         GuestReturns, ReadReply, Join
    <3>2. ~Interrupt
      BY <2>1 DEF Interrupt, EngineOf
    <3> QED
      BY <3>1, <3>2 DEF HostStep
  <2>5. ~ \E s \in StepNames : NotLoaded(s) \/ Spawn(s)
    BY <2>1 DEF NotLoaded, Spawn, Calling
  <2> QED
    BY <2>2, <2>3, <2>4, <2>5 DEF Next
<1> QED
  BY <1>1, TimersStart, StepKeepsTimers, PTL DEF Spec

-----------------------------------------------------------------------------
(* The buffer and the region that the host reads, and where they are set.  *)
ReplyInv ==
  /\ buffer \in 0 .. MaxOutput
  /\ reply \in [ptr : Nat, len : Nat]
  /\ pc \in {"reading", "joining"} => reply.len = buffer
  /\ pc = "joining" => InMemory(reply)

(* The conversion to usize of what a guest returns never is negative, and  *)
(* the limit applies to the converted length.                              *)
LEMMA StepKeepsReply ==
  ASSUME ReplyInv, [Next]_vars
  PROVE  ReplyInv'
<1>1. ASSUME pc' = "idle", buffer' = 0, reply' = NoReply PROVE ReplyInv'
  BY <1>1, WidthAssumption DEF ReplyInv, NoReply
<1>2. ASSUME NEW how, Fail(how) PROVE ReplyInv'
  BY <1>1, <1>2 DEF Fail, Return
<1>3. ASSUME NEW s \in StepNames, NotLoaded(s) \/ Spawn(s) PROVE ReplyInv'
  BY <1>1, <1>3 DEF NotLoaded, Spawn, Return, ReplyInv
<1>4. CASE GuestReturns /\ pc' = "reading"
  <2>1. PICK ptr \in Returned, len \in Returned :
          /\ ~(AsUsize(len) > MaxOutput)
          /\ buffer' = AsUsize(len)
          /\ reply' = [ptr |-> AsUsize(ptr), len |-> AsUsize(len)]
    BY <1>4 DEF GuestReturns, Fail, Return
  <2>2. \A n \in Returned : AsUsize(n) \in Nat
    BY WidthAssumption DEF AsUsize
  <2> QED
    BY <1>4, <2>1, <2>2, WidthAssumption DEF ReplyInv
<1>5. CASE GuestReturns /\ pc' # "reading"
  BY <1>2, <1>5 DEF GuestReturns
<1>6. CASE ReadReply
  BY <1>2, <1>6 DEF ReadReply, ReplyInv, InMemory
<1>7. CASE Arm \/ Compile \/ Instantiate \/ GuestLoops
  BY <1>2, <1>7 DEF Arm, Compile, Instantiate, GuestLoops, GuestRuns, ReplyInv
<1>8. CASE NotInstantiated \/ GuestTraps \/ Interrupt \/ Join
  BY <1>2, <1>8 DEF NotInstantiated, GuestTraps, Interrupt, Join
<1>9. ASSUME NEW c \in Calls, SleepEnds(c) PROVE ReplyInv'
  BY <1>9 DEF SleepEnds, ReplyInv, InMemory
<1>10. CASE UNCHANGED vars
  BY <1>10 DEF vars, ReplyInv, InMemory
<1> QED
  BY <1>3, <1>4, <1>5, <1>6, <1>7, <1>8, <1>9, <1>10 DEF Next, HostStep

(* Whatever values a guest returns, the host allocates no more than the    *)
(* output limit and parses only bytes of the guest's memory.               *)
THEOREM OutputIsLimited == Spec => []OutputWithinLimits
<1>1. Init => ReplyInv
  BY WidthAssumption DEF Init, ReplyInv, NoReply
<1>2. ReplyInv => OutputWithinLimits
  BY DEF ReplyInv, OutputWithinLimits, InMemory
<1> QED
  BY <1>1, <1>2, StepKeepsReply, PTL DEF Spec

-----------------------------------------------------------------------------
(* A set of places in the search has a first one.                          *)
LEMMA FirstPlace ==
  ASSUME NEW places \in SUBSET (0 .. 11), places # {}
  PROVE  \E i \in places : \A j \in places : i <= j
<1> SUFFICES ASSUME \A i \in places : \E j \in places : j < i
             PROVE  FALSE
  OBVIOUS
<1>1. \A i \in 0 .. 11 : (\A j \in 0 .. 11 : j < i => j \notin places) => i \notin places
  OBVIOUS
<1>2. 0 \notin places /\ 1 \notin places
  BY <1>1
<1>3. 2 \notin places /\ 3 \notin places
  BY <1>1, <1>2
<1>4. 4 \notin places /\ 5 \notin places
  BY <1>1, <1>2, <1>3
<1>5. 6 \notin places /\ 7 \notin places
  BY <1>1, <1>2, <1>3, <1>4
<1>6. 8 \notin places /\ 9 \notin places
  BY <1>1, <1>2, <1>3, <1>4, <1>5
<1>7. 10 \notin places /\ 11 \notin places
  BY <1>1, <1>2, <1>3, <1>4, <1>5, <1>6
<1>8. \A i \in 0 .. 11 : \/ i \in {0, 1, 2, 3} \/ i \in {4, 5, 6, 7}
                         \/ i \in {8, 9, 10, 11}
  OBVIOUS
<1> QED
  BY <1>2, <1>3, <1>4, <1>5, <1>6, <1>7, <1>8

(* What the nested loops of resolve_component find: one of the files, one  *)
(* for the step when there is any, and the generic one otherwise.          *)
LEMMA ComponentResolved ==
  ASSUME NEW files \in Packs, NEW s \in StepNames,
         ResolveComponent(files, s) # None
  PROVE  /\ ResolveComponent(files, s) \in files
         /\ IF \E p \in files : p.for = s THEN ResolveComponent(files, s).for = s
            ELSE ResolveComponent(files, s).for = "any"
<1> DEFINE all   == Candidates(files, s)
           found == ResolveComponent(files, s)
<1>1. files \subseteq Paths /\ all \subseteq files /\ all # {}
  BY PacksAssumption DEF ResolveComponent, Candidates
<1>2. \A p \in Paths : /\ Rank(p) \in 0 .. 11
                       /\ p.for = "any" <=> Rank(p) >= 6
  BY DEF Rank, Paths
<1>3. \E p \in all : \A q \in all : Rank(p) <= Rank(q)
  <2>1. /\ {Rank(p) : p \in all} \in SUBSET (0 .. 11)
        /\ {Rank(p) : p \in all} # {}
    BY <1>1, <1>2
  <2> QED
    BY <2>1, FirstPlace
<1>4. found \in all /\ \A q \in all : Rank(found) <= Rank(q)
  BY <1>1, <1>3 DEF ResolveComponent
<1>5. found.for \in {s, "any"}
  BY <1>4 DEF Candidates
<1>6. ASSUME NEW p \in files, p.for = s PROVE found.for = s
  BY <1>1, <1>2, <1>4, <1>5, <1>6, NamesAssumption DEF Candidates
<1>7. ASSUME \A p \in files : p.for # s PROVE found.for = "any"
  BY <1>1, <1>4, <1>5, <1>7
<1> QED
  BY <1>1, <1>4, <1>6, <1>7

(* A call ends: the guest is gone, and the call has its outcome.           *)
LEMMA FailKeepsTypes ==
  ASSUME TypeOK, pc # "idle",
         NEW how \in {"error", "trap", "interrupted", "ok"}, Fail(how)
  PROVE  TypeOK'
<1>1. /\ call \in Calls
      /\ pc' = "idle" /\ deadline' = 0 /\ looping' = FALSE /\ component' = None
      /\ UNCHANGED <<call, step, epoch, timer>>
      /\ outcome' = [outcome EXCEPT ![call] = how]
  BY CallsAssumption DEF Fail, Return, TypeOK, Calls
<1>2. /\ outcome' \in [Calls -> {"none", "error", "trap", "interrupted", "ok"}]
      /\ \A c \in Calls : outcome'[c] = IF c = call THEN how ELSE outcome[c]
  BY <1>1 DEF TypeOK
<1>3. \A c \in Calls : outcome'[c] # "none" <=> c < call \/ c = call
  BY <1>1, <1>2 DEF TypeOK
<1> QED
  BY <1>1, <1>2, <1>3 DEF TypeOK

(* Every step keeps the types and the outcomes in place.                   *)
LEMMA StepKeepsTypes ==
  ASSUME TypeOK, pack \in Packs, [Next]_vars
  PROVE  TypeOK'
<1> DEFINE outcomes == {"none", "error", "trap", "interrupted", "ok"}
<1>1. ASSUME NEW s \in StepNames, NotLoaded(s) PROVE TypeOK'
  <2>1. /\ pc = "idle" /\ call' = call + 1 /\ call' \in Calls /\ call \in 0 .. MaxCalls
        /\ pc' = "idle" /\ deadline' = 0 /\ looping' = FALSE /\ component' = None
        /\ step' = s
        /\ UNCHANGED <<epoch, timer>>
        /\ outcome' = [outcome EXCEPT ![call'] = "error"]
    BY <1>1, CallsAssumption DEF NotLoaded, Calling, Return, TypeOK, Calls
  <2>2. /\ outcome' \in [Calls -> outcomes]
        /\ \A c \in Calls : outcome'[c] = IF c = call' THEN "error" ELSE outcome[c]
    BY <2>1 DEF TypeOK
  <2>3. \A c \in Calls : outcome'[c] # "none" <=> c < call' \/ c = call'
    BY <2>1, <2>2, CallsAssumption DEF TypeOK, Calls
  <2>4. call' \in 0 .. MaxCalls
    BY <2>1 DEF Calls
  <2> QED
    BY <2>1, <2>2, <2>3, <2>4 DEF TypeOK
<1>2. ASSUME NEW s \in StepNames, Spawn(s) PROVE TypeOK'
  <2>1. /\ pc = "idle" /\ call' = call + 1 /\ call' \in Calls /\ call \in 0 .. MaxCalls
        /\ pc' = "spawned" /\ step' = s /\ component' = ResolveComponent(pack, s)
        /\ UNCHANGED <<epoch, deadline, looping, outcome>>
        /\ timer' = [timer EXCEPT ![call'] = "sleeping"]
    BY <1>2, CallsAssumption DEF Spawn, Calling, TypeOK, Calls
  <2>2. component' # None => component' \in Paths
    BY <2>1, ComponentResolved, PacksAssumption
  <2>3. looping' = FALSE
    BY <2>1 DEF TypeOK, GuestRuns
  <2>4. \A c \in Calls : outcome'[c] # "none" <=> c < call'
    BY <2>1, CallsAssumption DEF TypeOK, Calls
  <2>5. timer' \in [Calls -> {"none", "sleeping", "ended"}] /\ call' \in 0 .. MaxCalls
    BY <2>1 DEF TypeOK, Calls
  <2>6. \A c \in Calls : c < call' \/ (c = call' /\ pc' = "idle") <=> c < call'
    BY <2>1
  <2> QED
    BY <2>1, <2>2, <2>3, <2>4, <2>5, <2>6 DEF TypeOK
<1>3. CASE Arm
  BY <1>3 DEF Arm, TypeOK, GuestRuns, EngineOf, Calls
<1>4. CASE Compile
  BY <1>4, FailKeepsTypes DEF Compile, TypeOK, GuestRuns
<1>5. CASE Instantiate \/ GuestLoops
  BY <1>5 DEF Instantiate, GuestLoops, GuestRuns, TypeOK
<1>6. CASE NotInstantiated \/ GuestTraps \/ Interrupt \/ Join
  BY <1>6, FailKeepsTypes DEF NotInstantiated, GuestTraps, Interrupt, Join, GuestRuns
<1>7. CASE GuestReturns
  <2>1. CASE Fail("error")
    BY <1>7, <2>1, FailKeepsTypes DEF GuestReturns
  <2>2. CASE /\ pc = "running" /\ ~looping /\ pc' = "reading"
             /\ UNCHANGED <<call, step, component, epoch, timer, deadline, looping, outcome>>
    BY <2>2 DEF TypeOK, GuestRuns
  <2> QED
    BY <1>7, <2>1, <2>2 DEF GuestReturns
<1>8. CASE ReadReply
  BY <1>8, FailKeepsTypes DEF ReadReply, TypeOK, GuestRuns
<1>9. ASSUME NEW c \in Calls, SleepEnds(c) PROVE TypeOK'
  BY <1>9 DEF SleepEnds, TypeOK, GuestRuns, EngineOf
<1>10. CASE UNCHANGED vars
  BY <1>10 DEF vars, TypeOK, GuestRuns
<1> QED
  BY <1>1, <1>2, <1>3, <1>4, <1>5, <1>6, <1>7, <1>8, <1>9, <1>10 DEF Next, HostStep

(* The component in use is the one that the search found in this pack for  *)
(* this step.                                                              *)
ComponentInv ==
  /\ pack \in Packs
  /\ component # None => step \in StepNames /\ component = ResolveComponent(pack, step)

(* No step but a new call changes the component.                           *)
LEMMA StepKeepsComponent ==
  ASSUME ComponentInv, [Next]_vars
  PROVE  ComponentInv'
<1>1. ASSUME UNCHANGED pack, component' = None PROVE ComponentInv'
  BY <1>1 DEF ComponentInv
<1>2. ASSUME UNCHANGED <<pack, step, component>> PROVE ComponentInv'
  BY <1>2 DEF ComponentInv
<1>3. ASSUME NEW how, Fail(how) PROVE ComponentInv'
  BY <1>1, <1>3 DEF Fail, Return
<1>4. ASSUME NEW s \in StepNames, NotLoaded(s) PROVE ComponentInv'
  BY <1>1, <1>4 DEF NotLoaded, Calling, Return
<1>5. ASSUME NEW s \in StepNames, Spawn(s) PROVE ComponentInv'
  BY <1>5 DEF Spawn, Calling, ComponentInv
<1>6. CASE HostStep
  BY <1>2, <1>3, <1>6
  DEF HostStep, Arm, Compile, Instantiate, NotInstantiated, GuestTraps,
      GuestLoops, Interrupt, GuestReturns, ReadReply, Join
<1>7. ASSUME NEW c \in Calls, SleepEnds(c) PROVE ComponentInv'
  BY <1>2, <1>7 DEF SleepEnds
<1>8. CASE UNCHANGED vars
  BY <1>2, <1>8 DEF vars
<1> QED
  BY <1>4, <1>5, <1>6, <1>7, <1>8 DEF Next

(* The host and the timers have their types, and each call the outcome     *)
(* that it should have, for any number of calls.                           *)
THEOREM ExecutorTypes == Spec => []TypeOK
<1>1. Init => TypeOK /\ ComponentInv
  <2> SUFFICES ASSUME Init PROVE TypeOK /\ ComponentInv
    OBVIOUS
  <2>1. /\ call = 0 /\ 0 \in 0 .. MaxCalls
        /\ \A c \in Calls : ~(c < 0) /\ c # 0
    BY CallsAssumption DEF Init, Calls
  <2>2. TypeOK
    BY <2>1 DEF Init, TypeOK
  <2> QED
    BY <2>2 DEF Init, ComponentInv
<1>2. TypeOK /\ ComponentInv /\ [Next]_vars => TypeOK' /\ ComponentInv'
  BY StepKeepsTypes, StepKeepsComponent DEF ComponentInv
<1> QED
  BY <1>1, <1>2, PTL DEF Spec

(* Whatever files a pack holds, a step runs a component that was written   *)
(* for it if there is one, and else the generic one.                       *)
THEOREM ComponentsAreForTheirStep == Spec => []ComponentIsForStep
<1>1. Init => ComponentInv
  BY DEF Init, ComponentInv
<1>2. ComponentInv => ComponentIsForStep
  BY ComponentResolved DEF ComponentInv, ComponentIsForStep
<1> QED
  BY <1>1, <1>2, StepKeepsComponent, PTL DEF Spec

-----------------------------------------------------------------------------
(* The executor implements what its caller sees of it, for any number of   *)
(* calls: the timer threads that it leaves running change no outcome.      *)
THEOREM ExecutorIsStepCalls == Spec => ImplementsStepCalls
<1> DEFINE over == {c \in Calls : timer[c] = "ended"}
<1>1. Init => Abstract!Init
  BY DEF Init, Abstract!Init, Calls
<1>2. TypeOK /\ TimersInv /\ [Next]_vars => [Abstract!Next]_(Abstract!vars)
  <2> SUFFICES ASSUME TypeOK, TimersInv, [Next]_vars
               PROVE  Abstract!Next \/ UNCHANGED <<call, outcome, over>>
    BY DEF Abstract!vars
  <2>1. ASSUME UNCHANGED <<call, outcome, timer>>
        PROVE  UNCHANGED <<call, outcome, over>>
    BY <2>1
  <2>2. pc = "idle" => ~Abstract!Waiting
    BY DEF Abstract!Waiting, TypeOK, Calls
  <2>3. pc # "idle" => Abstract!Waiting /\ call \in Calls
    BY DEF Abstract!Waiting, TypeOK, Calls
  <2>4. ASSUME NEW s \in StepNames, NotLoaded(s) \/ Spawn(s) PROVE Abstract!Make
    <3>1. /\ pc = "idle" /\ call < MaxCalls /\ call' = call + 1 /\ call' \in Calls
          /\ outcome' \in {outcome, [outcome EXCEPT ![call'] = "error"]}
      BY <2>4, CallsAssumption DEF NotLoaded, Spawn, Calling, Return, TypeOK, Calls
    <3>2. timer' = timer \/ timer' = [timer EXCEPT ![call'] = "sleeping"]
      BY <2>4 DEF NotLoaded, Spawn
    <3>3. timer[call'] = "none"
      BY <3>1 DEF TimersInv, TypeOK
    <3>4. over' = over
      BY <3>1, <3>2, <3>3 DEF TypeOK
    <3> QED
      BY <2>2, <3>1, <3>4 DEF Abstract!Make
  <2>5. ASSUME NEW how \in {"error", "trap", "interrupted", "ok"}, Fail(how),
               pc # "idle", how \in {"interrupted", "ok"} => timer[call] = "ended"
        PROVE  Abstract!Next
    <3>1. /\ UNCHANGED <<call, timer>> /\ outcome' = [outcome EXCEPT ![call] = how]
      BY <2>5 DEF Fail, Return
    <3>2. Abstract!End(how)
      BY <2>3, <2>5, <3>1 DEF Abstract!End
    <3> QED
      BY <3>2 DEF Abstract!Next
  <2>6. CASE Arm \/ Instantiate \/ GuestLoops
    BY <2>1, <2>6 DEF Arm, Instantiate, GuestLoops
  <2>7. CASE Compile \/ NotInstantiated \/ GuestTraps \/ GuestReturns \/ ReadReply
    BY <2>1, <2>5, <2>7 DEF Compile, NotInstantiated, GuestTraps, GuestRuns,
       GuestReturns, ReadReply
  <2>8. CASE Interrupt
    <3>1. /\ pc \in {"starting", "running"} /\ Fail("interrupted")
          /\ epoch[call] >= deadline
      BY <2>8 DEF Interrupt, GuestRuns, EngineOf
    <3>2. timer[call] = "ended"
      BY <3>1 DEF TimersInv
    <3> QED
      BY <2>5, <3>1, <3>2
  <2>9. CASE Join
    BY <2>5, <2>9 DEF Join
  <2>10. ASSUME NEW c \in Calls, SleepEnds(c) PROVE Abstract!Next
    <3>1. /\ timer[c] = "sleeping" /\ timer' = [timer EXCEPT ![c] = "ended"]
          /\ UNCHANGED <<call, outcome>>
      BY <2>10 DEF SleepEnds
    <3>2. over' = over \cup {c} /\ c \notin over
      BY <3>1 DEF TypeOK
    <3>3. c \in 1 .. call
      BY <3>1, CallsAssumption DEF TimersInv, TypeOK, Calls
    <3> QED
      BY <3>1, <3>2, <3>3 DEF Abstract!Next, Abstract!TimeIsOver
  <2>11. CASE UNCHANGED vars
    BY <2>1, <2>11 DEF vars
  <2> QED
    BY <2>4, <2>6, <2>7, <2>8, <2>9, <2>10, <2>11 DEF Next, HostStep, Abstract!Next
<1> QED
  BY <1>1, <1>2, TimersStart, StepKeepsTimers, ExecutorTypes, PTL
  DEF Spec, ImplementsStepCalls, Abstract!Spec

===============================================================================
