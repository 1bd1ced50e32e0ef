--------------------------- MODULE OperationsProofs ---------------------------
(***************************************************************************)
(* What the stateful components of MCOperations guarantee for every value  *)
(* of their constants: any events, timeouts, witnesses, callers, nonces    *)
(* and bounds.  Each has an inductive invariant of its own; a step of the  *)
(* composition is a step of one component and leaves the others alone.     *)
(***************************************************************************)
EXTENDS MCOperations, FiniteSetTheorems, WellFoundedInduction, TLAPS

\* A step of the composition is a step of one component; the others stutter.
LEMMA OneComponentSteps ==
  ASSUME [OperationsNext]_operationsVars
  PROVE  /\ [AuthNext]_authVars /\ [NonceNext]_nonceVars /\ [TransferNext]_transferVars
         /\ [ReserveNext]_reserveVars /\ [WalkNext]_walkVars /\ [EventNext]_eventVars
         /\ [PollNext]_pollVars /\ [IndexNext]_indexVars /\ [WorkerNext]_workerVars
  <1>1. CASE UNCHANGED operationsVars
    BY <1>1 DEF operationsVars, authOthers, laterParts
  <1>2. CASE OperationsNext
    BY <1>2 DEF OperationsNext, authOthers, laterParts
  <1>3. QED
    BY <1>1, <1>2

-----------------------------------------------------------------------------
(***************************************************************************)
(* Min finds the smallest of any numbers.  Subsets of Nat that are finite  *)
(* are well-founded under inclusion, and a smaller number has a smaller    *)
(* interval below it.                                                      *)
(***************************************************************************)
LEMMA Smallest ==
  ASSUME NEW S \in SUBSET Nat, S # {}
  PROVE  Min(S) \in S /\ \A y \in S : Min(S) <= y
  <1> DEFINE Below == {0..x : x \in S}
             Order == StrictSubsetOrdering(Nat)
  <1>1. Below \subseteq FiniteSubsetsOf(Nat)
    <2>1. \A x \in S : 0..x \subseteq Nat /\ IsFiniteSet(0..x)
      BY FS_Interval
    <2>2. QED
      BY <2>1 DEF FiniteSubsetsOf
  <1>2. Below # {}
    OBVIOUS
  <1>3. PICK T \in Below : \A U \in Below : ~(<<U, T>> \in Order)
    <2> HIDE DEF Below, Order
    <2>1. IsWellFoundedOn(Order, FiniteSubsetsOf(Nat))
      BY FS_StrictSubsetOrderingWellFounded DEF Order
    <2>2. QED
      BY <1>1, <1>2, <2>1, WFMin
  <1>4. PICK x \in S : T = 0..x
    BY <1>3
  <1>5. \A y \in S : x <= y
    <2> SUFFICES ASSUME NEW y \in S, y < x PROVE FALSE
      OBVIOUS
    <2>1. 0..y \subseteq 0..x /\ 0..y # 0..x /\ 0..y \in SUBSET Nat /\ 0..x \in SUBSET Nat
      OBVIOUS
    <2>2. <<0..y, 0..x>> \in Order
      BY <2>1 DEF StrictSubsetOrdering
    <2>3. QED
      BY <1>3, <1>4, <2>2
  <1>6. QED
    BY <1>5 DEF Min

(***************************************************************************)
(* A validator reports the code of the first check that applies, or what   *)
(* it reports when none does.                                              *)
(***************************************************************************)
LEMMA FirstThatApplies ==
  ASSUME NEW checks, NEW o, DOMAIN checks \subseteq Nat
  PROVE  \/ FirstOf(checks, o) = o /\ \A i \in DOMAIN checks : ~checks[i][1]
         \/ \E i \in DOMAIN checks :
              /\ checks[i][1] /\ FirstOf(checks, o) = checks[i][2]
              /\ \A j \in DOMAIN checks : j < i => ~checks[j][1]
  <1> DEFINE applies == {i \in DOMAIN checks : checks[i][1]}
  <1>1. CASE applies = {}
    BY <1>1 DEF FirstOf
  <1>2. CASE applies # {}
    <2>1. Min(applies) \in applies /\ \A y \in applies : Min(applies) <= y
      BY <1>2, Smallest
    <2>2. FirstOf(checks, o) = checks[Min(applies)][2]
      BY <1>2 DEF FirstOf
    <2> DEFINE first == Min(applies)
    <2>3. first \in DOMAIN checks /\ checks[first][1] /\ first \in Nat
      BY <2>1
    <2>4. \A j \in DOMAIN checks : j < first => ~checks[j][1]
      <3> SUFFICES ASSUME NEW j \in DOMAIN checks, j < first, checks[j][1] PROVE FALSE
        OBVIOUS
      <3>1. j \in applies /\ j \in Nat
        OBVIOUS
      <3>2. first <= j
        BY <2>1, <3>1
      <3>3. QED
        BY <2>3, <3>1, <3>2
    <2> HIDE DEF first
    <2>5. QED
      BY <2>2, <2>3, <2>4 DEF first
  <1>3. QED
    BY <1>1, <1>2

\* A validator that reports none of its codes found nothing.
LEMMA NothingFound ==
  ASSUME NEW checks, NEW o, DOMAIN checks \subseteq Nat, FirstOf(checks, o) = o,
         \A i \in DOMAIN checks : checks[i][2] # o
  PROVE  \A i \in DOMAIN checks : ~checks[i][1]
  BY FirstThatApplies

-----------------------------------------------------------------------------
(***************************************************************************)
(* Events.  An event that passed the comparison with the cursor is not     *)
(* before it until it is saved, whoever resets the cursor meanwhile; and   *)
(* what the detector has recorded was reported or is about to be.          *)
(***************************************************************************)
EventTypeOK ==
  /\ storage \in {"memory", "local"}
  /\ savedCursor \in StreamEvents \cup {<<>>}
  /\ recorded \subseteq StreamEvents /\ accepted \subseteq StreamEvents
  /\ call \in {Idle} \cup [pc : {"detect", "load", "record", "save"}, event : StreamEvents]
  /\ reports \in [StreamEvents -> SUBSET {"success", "error", "duplicate"}]

CheckedAgainstCursor ==
  call.pc \in {"record", "save"} /\ savedCursor # <<>> => NotBefore(call.event, savedCursor)

RecordedIsReported ==
  \A e \in recorded : reports[e] \cap {"success", "error"} # {} \/ (call.pc = "save" /\ call.event = e)

EventInv ==
  EventTypeOK /\ CursorCoversSuccesses /\ DuplicateWasReported /\ CheckedAgainstCursor /\ RecordedIsReported

(***************************************************************************)
(* Positions are totally ordered, and isCursorCorrupted compares them.     *)
(***************************************************************************)
LEMMA PositionOrder ==
  ASSUME NEW e \in StreamEvents, NEW f \in StreamEvents, NEW g \in StreamEvents
  PROVE  /\ NotBefore(e, e)
         /\ NotBefore(e, f) /\ NotBefore(f, g) => NotBefore(e, g)
         /\ NotBefore(e, f) /\ NotBefore(f, e) => e = f
         /\ ~isCursorCorrupted(f, e) => NotBefore(e, f)
  <1>1. /\ \A x \in {e, f, g} : x = <<x[1], x[2], x[3], x[4]>>
        /\ \A x \in {e, f, g} : x[1] \in Nat /\ x[2] \in Nat /\ x[3] \in Nat /\ x[4] \in Nat
    BY EventsAssumption
  <1>2. NotBefore(e, e)
    BY <1>1 DEF NotBefore
  <1>3. NotBefore(e, f) /\ NotBefore(f, g) => NotBefore(e, g)
    BY <1>1 DEF NotBefore
  <1>4. NotBefore(e, f) /\ NotBefore(f, e) => e = f
    <2> SUFFICES ASSUME NotBefore(e, f), NotBefore(f, e) PROVE e = f
      OBVIOUS
    <2>1. e[1] = f[1] /\ e[2] = f[2] /\ e[3] = f[3] /\ e[4] = f[4]
      BY <1>1 DEF NotBefore
    <2>2. QED
      BY <1>1, <2>1
  <1>5. ASSUME ~isCursorCorrupted(f, e) PROVE NotBefore(e, f)
    <2>1. f # <<>>
      <3>1. Len(f) = 4
        BY <1>1
      <3>2. QED
        BY <3>1, SMTT(30)
    <2>2. ASSUME NEW i \in 1..4, e[i] < f[i] PROVE \E j \in 1..(i - 1) : e[j] # f[j]
      BY <1>5, <2>1, <2>2 DEF isCursorCorrupted
    <2>3. ~(e[1] < f[1])
      BY <2>2
    <2>4. e[2] < f[2] => e[1] # f[1]
      BY <2>2
    <2>5. e[3] < f[3] => e[1] # f[1] \/ e[2] # f[2]
      <3>1. \A j \in 1..2 : j = 1 \/ j = 2
        OBVIOUS
      <3>2. QED
        BY <2>2, <3>1
    <2>6. e[4] < f[4] => e[1] # f[1] \/ e[2] # f[2] \/ e[3] # f[3]
      <3>1. \A j \in 1..3 : j = 1 \/ j = 2 \/ j = 3
        OBVIOUS
      <3>2. QED
        BY <2>2, <3>1
    <2>7. QED
      BY <1>1, <2>3, <2>4, <2>5, <2>6 DEF NotBefore
  <1>6. QED
    BY <1>2, <1>3, <1>4, <1>5

\* Every step of the event processor keeps its invariant.
LEMMA EventStep == EventInv /\ [EventNext]_eventVars => EventInv'
  <1> SUFFICES ASSUME EventInv, [EventNext]_eventVars PROVE EventInv'
    OBVIOUS
  <1> USE DEF EventInv, EventTypeOK, CursorCoversSuccesses, DuplicateWasReported, CheckedAgainstCursor,
              RecordedIsReported, Idle
  <1>1. ASSUME NEW e \in StreamEvents, deliver(e) PROVE EventInv'
    BY <1>1 DEF deliver
  <1>2. CASE detectReplay
    BY <1>2 DEF detectReplay, Report
  <1>3. CASE load
    <2>1. call.event \in StreamEvents
      BY <1>3 DEF load
    <2>2. CASE isCursorCorrupted(savedCursor, call.event) /\ Report(call.event, "error")
      BY <1>3, <2>1, <2>2 DEF load, Report
    <2>3. CASE ~isCursorCorrupted(savedCursor, call.event) /\ call' = [call EXCEPT !.pc = "record"] /\ UNCHANGED reports
      <3>1. savedCursor # <<>> => NotBefore(call.event, savedCursor)
        BY <2>1, <2>3, PositionOrder
      <3>2. QED
        BY <1>3, <2>1, <2>3, <3>1 DEF load
    <2>4. QED
      BY <1>3, <2>2, <2>3 DEF load
  <1>4. CASE recordEvent
    BY <1>4 DEF recordEvent
  <1>5. CASE save
    <2>1. call.event \in StreamEvents /\ call.pc = "save" /\ call' = Idle
      BY <1>5 DEF save, Report
    <2>2. CASE /\ savedCursor' = call.event /\ Report(call.event, "success")
               /\ accepted' = accepted \cup {call.event}
      <3>1. \A e \in accepted' : NotBefore(savedCursor', e)
        BY <2>1, <2>2, PositionOrder
      <3>2. savedCursor' # <<>>
        BY <2>1, <2>2, EventsAssumption, SMTT(30)
      <3>3. QED
        BY <1>5, <2>1, <2>2, <3>1, <3>2 DEF save, Report
    <2>3. CASE Report(call.event, "error") /\ UNCHANGED <<savedCursor, accepted>>
      BY <1>5, <2>1, <2>3 DEF save, Report
    <2>4. QED
      BY <1>5, <2>2, <2>3 DEF save
  <1>6. CASE deleteCursor
    BY <1>6 DEF deleteCursor
  <1>7. CASE clearRecords
    BY <1>7 DEF clearRecords
  <1>8. CASE EventCrash
    BY <1>8 DEF EventCrash
  <1>9. CASE UNCHANGED eventVars
    BY <1>9 DEF eventVars
  <1>10. QED
    BY <1>1, <1>2, <1>3, <1>4, <1>5, <1>6, <1>7, <1>8, <1>9 DEF EventNext

\* It holds at the start.
LEMMA EventInitially == EventInit => EventInv
  BY DEF EventInit, EventInv, EventTypeOK, CursorCoversSuccesses, DuplicateWasReported, CheckedAgainstCursor,
         RecordedIsReported, Idle

\* It holds throughout.
LEMMA EventInvariant == OperationsSpec => []EventInv
  <1>1. OperationsInit => EventInv
    BY EventInitially DEF OperationsInit
  <1>2. EventInv /\ [OperationsNext]_operationsVars => EventInv'
    BY EventStep, OneComponentSteps
  <1>3. QED
    BY <1>1, <1>2, PTL DEF OperationsSpec

(***************************************************************************)
(* DeliveriesSound for any stream, through crashes, failed saves, resets   *)
(* and repeated deliveries in any number: the stored cursor covers all     *)
(* successes, and no event is called a duplicate unheard                   *)
(* (IdempotentEventProcessor.processEvent).                                *)
(***************************************************************************)
THEOREM DeliveriesAreSound == OperationsSpec => []DeliveriesSound
  <1>1. EventInv => DeliveriesSound
    BY DEF EventInv, DeliveriesSound
  <1>2. QED
    BY <1>1, EventInvariant, PTL

-----------------------------------------------------------------------------
(***************************************************************************)
(* Polling.  When a status is asked for the deadline has not passed, the   *)
(* answer takes MaxAnswerTime at most, and a sleep of payroll polling ends *)
(* at the deadline at the latest, one of pollTransaction an interval after *)
(* the answer.                                                             *)
(***************************************************************************)
PollTypeOK ==
  /\ pollNow \in Nat /\ cancelled \in BOOLEAN
  /\ poll \in [kind : {"tx", "payroll"}, pc : {"head", "asked", "asleep", "ended"}, timeout : Nat,
               asked : Nat, wake : Nat, final : BOOLEAN,
               outcome : {"none", "running", "answer", "timeout", "cancelled", "throw"}]

AnswerEnds == poll.final => poll.outcome = "answer" /\ poll.pc = "ended"

\* Where the clock may stand at each place of the loop.
PollClock ==
  /\ poll.pc # "ended" => poll.outcome = "running"
  /\ poll.pc = "head" /\ poll.kind = "payroll" => pollNow < poll.timeout /\ poll.wake <= pollNow
  /\ poll.pc = "head" /\ poll.kind = "tx" => pollNow <= poll.timeout + MaxAnswerTime + PollInterval
  /\ poll.pc = "asked" =>
       /\ poll.asked < poll.timeout /\ poll.asked <= pollNow /\ pollNow <= poll.asked + MaxAnswerTime
       /\ poll.kind = "payroll" => poll.wake <= poll.asked
  /\ poll.pc = "asleep" =>
       /\ pollNow <= poll.wake
       /\ poll.kind = "payroll" => poll.wake <= poll.timeout
       /\ poll.kind = "tx" => poll.wake <= poll.timeout + MaxAnswerTime + PollInterval

PollInv == PollTypeOK /\ AnswerEnds /\ PollClock /\ TimeoutOnTime

\* Min and Max of two integers.
LEMMA MinMax ==
  ASSUME NEW m \in Int, NEW n \in Int
  PROVE  /\ Min({m, n}) \in {m, n} /\ Min({m, n}) <= m /\ Min({m, n}) <= n
         /\ Max({m, n}) \in {m, n} /\ Max({m, n}) >= m /\ Max({m, n}) >= n
  <1>1. \E x \in {m, n} : \A y \in {m, n} : x =< y
    OBVIOUS
  <1>2. \E x \in {m, n} : \A y \in {m, n} : x >= y
    OBVIOUS
  <1>3. Min({m, n}) \in {m, n} /\ \A y \in {m, n} : Min({m, n}) =< y
    BY <1>1 DEF Min
  <1>4. Max({m, n}) \in {m, n} /\ \A y \in {m, n} : Max({m, n}) >= y
    BY <1>2 DEF Max
  <1>5. QED
    BY <1>3, <1>4

\* A sleep is no longer than the interval, and payroll polling's ends at the deadline at the latest.
LEMMA SleepLength ==
  ASSUME PollInv, poll.kind = "payroll" => ~timedOut
  PROVE  /\ sleepFor \in Nat /\ sleepFor <= PollInterval
         /\ poll.kind = "payroll" => pollNow + sleepFor <= poll.timeout
  <1>1. poll.kind \in {"tx", "payroll"} /\ poll.timeout \in Nat /\ pollNow \in Nat /\ PollInterval \in Nat
    BY PollAssumption DEF PollInv, PollTypeOK
  <1>2. CASE poll.kind = "tx"
    BY <1>1, <1>2 DEF sleepFor
  <1>3. CASE poll.kind = "payroll"
    <2> DEFINE left == poll.timeout - pollNow
    <2>1. left \in Nat
      BY <1>1, <1>3 DEF timedOut
    <2>2. left \in Int /\ 0 \in Int /\ PollInterval \in Int
      BY <1>1, <2>1
    <2> HIDE DEF left
    <2>3. Max({0, left}) \in {0, left} /\ Max({0, left}) >= 0 /\ Max({0, left}) >= left
      BY <2>2, MinMax, Zenon
    <2>4. Max({0, left}) = left
      BY <2>1, <2>3
    <2>5. Min({PollInterval, left}) \in {PollInterval, left} /\ Min({PollInterval, left}) <= PollInterval
          /\ Min({PollInterval, left}) <= left
      BY <2>2, MinMax, Zenon
    <2>6. sleepFor = Min({PollInterval, left})
      BY <1>3, <2>4 DEF sleepFor, left
    <2>7. QED
      BY <1>1, <1>3, <2>1, <2>5, <2>6 DEF left
  <1>4. QED
    BY <1>1, <1>2, <1>3

\* Every step of the poller keeps its invariant.
LEMMA PollStep == PollInv /\ [PollNext]_pollVars => PollInv'
  <1> SUFFICES ASSUME PollInv, [PollNext]_pollVars PROVE PollInv'
    OBVIOUS
  <1> USE PollAssumption DEF PollInv, PollTypeOK, AnswerEnds, PollClock, TimeoutOnTime, timedOut
  <1>0. /\ poll.kind \in {"tx", "payroll"} /\ poll.timeout \in Nat /\ poll.asked \in Nat /\ poll.wake \in Nat
        /\ poll.final \in BOOLEAN /\ DOMAIN poll = {"kind", "pc", "timeout", "asked", "wake", "final", "outcome"}
        /\ PollInterval \in Nat /\ MaxAnswerTime \in Nat /\ pollNow \in Nat
    OBVIOUS
  \* The loop ends with an outcome.
  <1>11. ASSUME NEW o \in {"answer", "timeout", "cancelled", "throw"}, poll.pc # "ended",
                poll' = [poll EXCEPT !.pc = "ended", !.outcome = o], UNCHANGED <<pollNow, cancelled>>,
                o = "timeout" =>
                  /\ pollNow >= poll.timeout
                  /\ poll.kind = "payroll" =>
                       pollNow <= poll.timeout + MaxAnswerTime /\ (pollNow > poll.timeout => poll.wake < pollNow)
                  /\ poll.kind = "tx" => pollNow <= poll.timeout + MaxAnswerTime + PollInterval
         PROVE  PollInv'
    <2>1. ~poll.final
      BY <1>11
    <2>2. /\ poll'.pc = "ended" /\ poll'.outcome = o /\ poll'.final = poll.final /\ poll'.kind = poll.kind
          /\ poll'.timeout = poll.timeout /\ poll'.wake = poll.wake
      BY <1>11
    <2>3. PollTypeOK'
      BY <1>11
    <2>4. QED
      BY <1>11, <2>1, <2>2, <2>3
  <1>1. CASE askStatus
    <2>1. CASE poll.kind = "tx" /\ timedOut
      BY <1>1, <2>1, <1>11 DEF askStatus, PollEnds
    <2>2. CASE ~(poll.kind = "tx" /\ timedOut) /\ cancelled
      BY <1>1, <2>2, <1>11 DEF askStatus, PollEnds
    <2>3. CASE ~(poll.kind = "tx" /\ timedOut) /\ ~cancelled
      <3>1. poll' = [poll EXCEPT !.pc = "asked", !.asked = pollNow] /\ UNCHANGED <<pollNow, cancelled>> /\ poll.pc = "head"
        BY <1>1, <2>3 DEF askStatus
      <3>2. /\ poll'.pc = "asked" /\ poll'.outcome = poll.outcome /\ poll'.final = poll.final /\ poll'.kind = poll.kind
            /\ poll'.timeout = poll.timeout /\ poll'.wake = poll.wake /\ poll'.asked = pollNow
        BY <3>1
      <3>3. PollTypeOK'
        BY <3>1
      <3>4. QED
        BY <1>0, <2>3, <3>1, <3>2, <3>3
    <2>4. QED
      BY <2>1, <2>2, <2>3
  <1>2. ASSUME NEW status \in {"pending", "final", "throw"}, answered(status) PROVE PollInv'
    <2>1. poll.pc = "asked" /\ ~poll.final /\ UNCHANGED <<pollNow, cancelled>>
      BY <1>2 DEF answered
    <2>2. CASE status = "throw"
      BY <1>2, <2>1, <2>2, <1>11 DEF answered, PollEnds
    <2>3. CASE status = "final"
      <3>1. poll' = [poll EXCEPT !.pc = "ended", !.outcome = "answer", !.final = TRUE]
        BY <1>2, <2>3 DEF answered
      <3>2. poll'.pc = "ended" /\ poll'.outcome = "answer" /\ poll'.final
        BY <3>1
      <3>3. PollTypeOK'
        BY <2>1, <3>1
      <3>4. QED
        BY <3>2, <3>3
    <2>4. CASE status = "pending" /\ poll.kind = "payroll" /\ timedOut
      BY <1>0, <1>2, <2>1, <2>4, <1>11 DEF answered, PollEnds
    <2>5. CASE status = "pending" /\ ~(poll.kind = "payroll" /\ timedOut) /\ cancelled
      BY <1>2, <2>1, <2>5, <1>11 DEF answered, PollEnds
    <2>6. CASE status = "pending" /\ ~(poll.kind = "payroll" /\ timedOut) /\ ~cancelled
      <3>1. /\ sleepFor \in Nat /\ sleepFor <= PollInterval
            /\ poll.kind = "payroll" => pollNow + sleepFor <= poll.timeout
        BY <2>1, <2>6, SleepLength
      <3>2. poll' = [poll EXCEPT !.pc = "asleep", !.wake = pollNow + sleepFor]
        BY <1>2, <2>6 DEF answered
      <3>3. /\ poll'.pc = "asleep" /\ poll'.outcome = poll.outcome /\ poll'.final = poll.final /\ poll'.kind = poll.kind
            /\ poll'.timeout = poll.timeout /\ poll'.wake = pollNow + sleepFor
        BY <1>0, <3>2
      <3>4. PollTypeOK'
        <4>1. pollNow + sleepFor \in Nat
          BY <1>0, <3>1
        <4> HIDE DEF PollClock, TimeoutOnTime, AnswerEnds
        <4>2. QED
          BY <2>1, <3>2, <4>1
      <3>5. QED
        BY <1>0, <2>1, <3>1, <3>3, <3>4
    <2>7. QED
      BY <2>2, <2>3, <2>4, <2>5, <2>6
  <1>3. CASE wakeUp
    <2>1. poll.pc = "asleep" /\ ~poll.final /\ UNCHANGED <<pollNow, cancelled>>
      BY <1>3 DEF wakeUp
    <2>2. CASE cancelled /\ PollEnds("cancelled")
      BY <2>1, <2>2, <1>11 DEF PollEnds
    <2>3. CASE pollNow >= poll.wake /\ poll.kind = "payroll" /\ timedOut /\ PollEnds("timeout")
      BY <1>0, <2>1, <2>3, <1>11 DEF PollEnds
    <2>4. CASE /\ pollNow >= poll.wake /\ ~(poll.kind = "payroll" /\ timedOut)
               /\ poll' = [poll EXCEPT !.pc = "head"]
      <3>1. /\ poll'.pc = "head" /\ poll'.outcome = poll.outcome /\ poll'.final = poll.final /\ poll'.kind = poll.kind
            /\ poll'.timeout = poll.timeout /\ poll'.wake = poll.wake
        BY <2>4
      <3>2. PollTypeOK'
        BY <2>1, <2>4
      <3>3. QED
        BY <1>0, <2>1, <2>4, <3>1, <3>2
    <2>5. QED
      BY <1>3, <2>2, <2>3, <2>4 DEF wakeUp
  <1>4. CASE cancel
    BY <1>4 DEF cancel
  <1>5. CASE PollTick
    BY <1>5 DEF PollTick
  <1>6. CASE UNCHANGED pollVars
    BY <1>6 DEF pollVars
  <1>7. QED
    BY <1>1, <1>2, <1>3, <1>4, <1>5, <1>6 DEF PollNext, pollStep

\* It holds throughout.
LEMMA PollInvariant == OperationsSpec => []PollInv
  <1>1. OperationsInit => PollInv
    <2> USE PollAssumption DEF PollInv, PollTypeOK, AnswerEnds, PollClock, TimeoutOnTime, timedOut
    <2>1. PollInit => PollInv
      <3> SUFFICES ASSUME PollInit PROVE PollInv
        OBVIOUS
      <3>1. /\ poll.kind \in {"tx", "payroll"} /\ poll.timeout \in Nat /\ poll.asked = 0 /\ poll.wake = 0 /\ ~poll.final
            /\ poll.pc = "head" /\ poll.outcome = "running" /\ pollNow = 0
        BY DEF PollInit
      <3>2. PollTypeOK
        <4> HIDE DEF PollClock, TimeoutOnTime, AnswerEnds
        <4>1. PICK k \in {"tx", "payroll"}, t \in Nat :
                poll = [kind |-> k, pc |-> "head", timeout |-> t, asked |-> 0, wake |-> 0, final |-> FALSE, outcome |-> "running"]
          BY DEF PollInit
        <4>2. cancelled = FALSE
          BY DEF PollInit
        <4>3. poll \in [kind : {"tx", "payroll"}, pc : {"head", "asked", "asleep", "ended"}, timeout : Nat,
                        asked : Nat, wake : Nat, final : BOOLEAN,
                        outcome : {"none", "running", "answer", "timeout", "cancelled", "throw"}]
          BY <4>1
        <4>4. QED
          BY <3>1, <4>2, <4>3 DEF PollTypeOK
      <3>3. QED
        BY <3>1, <3>2 DEF PollInit
    <2>2. poll = NoPoll /\ pollNow = 0 /\ cancelled = TRUE => PollInv
      BY DEF NoPoll
    <2>3. QED
      BY <2>1, <2>2 DEF OperationsInit
  <1>2. PollInv /\ [OperationsNext]_operationsVars => PollInv'
    BY PollStep, OneComponentSteps
  <1>3. QED
    BY <1>1, <1>2, PTL DEF OperationsSpec

-----------------------------------------------------------------------------
(***************************************************************************)
(* The worker.  With the types, what is shared is pending and the other    *)
(* way round: SharedIsPending is inductive.                                *)
(***************************************************************************)
WorkerOutcomes == {"pending", "PROOF_RESULT", "PROOF_ERROR", "timeout", "worker error", "terminated"}

WorkerRequests == [witness : WorkerWitnesses, outcome : WorkerOutcomes]

WorkerTypeOK ==
  /\ dispatched \in Seq(WorkerRequests)
  /\ shared \in [WorkerWitnesses -> Nat]
  /\ outbox \subseteq [id : Nat, type : {"PROOF_RESULT", "PROOF_ERROR"}]

WorkerInv == WorkerTypeOK /\ SharedIsPending

\* Settling some pending requests keeps what is shared pending, and changes no other request.
LEMMA SettleStep ==
  ASSUME WorkerInv, NEW ids \in SUBSET pendingIds, NEW o \in WorkerOutcomes \ {"pending"}, Settle(ids, o),
         outbox' \subseteq outbox
  PROVE  WorkerInv' /\ SettlesOnce
  <1> USE DEF WorkerInv, WorkerTypeOK, SharedIsPending
  <1>1. DOMAIN dispatched = 1..Len(dispatched) /\ ids \subseteq DOMAIN dispatched /\ 0 \notin ids
    OBVIOUS
  <1>2. DOMAIN dispatched' = DOMAIN dispatched
    BY DEF Settle
  <1>0. \A i \in DOMAIN dispatched : dispatched[i] \in WorkerRequests
    BY <1>1
  <1>3. \A i \in DOMAIN dispatched :
          /\ dispatched[i].witness \in WorkerWitnesses
          /\ i \in ids => dispatched'[i] = [witness |-> dispatched[i].witness, outcome |-> o]
          /\ i \notin ids => dispatched'[i] = dispatched[i]
    BY <1>0 DEF Settle, WorkerRequests
  <1>4. dispatched' \in Seq(WorkerRequests)
    <2>1. \A i \in 1..Len(dispatched) : dispatched'[i] \in WorkerRequests
      <3> TAKE i \in 1..Len(dispatched)
      <3>1. CASE i \in ids
        <4>1. dispatched'[i] = [witness |-> dispatched[i].witness, outcome |-> o] /\ dispatched[i].witness \in WorkerWitnesses
          BY <1>1, <1>3, <3>1
        <4>2. QED
          BY <4>1 DEF WorkerRequests
      <3>2. CASE i \notin ids
        BY <1>0, <1>1, <1>3, <3>2
      <3>3. QED
        BY <3>1, <3>2
    <2>2. dispatched' = [i \in 1..Len(dispatched) |-> dispatched'[i]]
      BY <1>1 DEF Settle
    <2>3. Len(dispatched) \in Nat
      OBVIOUS
    <2>4. QED
      BY <2>1, <2>2, <2>3
  <1>5. WorkerTypeOK'
    BY <1>4 DEF Settle
  <1>6. \A i \in DOMAIN dispatched' : dispatched'[i].witness = dispatched[i].witness /\ dispatched[i].witness \in WorkerWitnesses
    BY <1>1, <1>2, <1>3
  <1>7. pendingIds' = {id \in DOMAIN dispatched' : dispatched'[id].outcome = "pending"}
    BY <1>1, <1>2, <1>3 DEF Settle
  <1>8. SharedIsPending'
    BY <1>1, <1>2, <1>6, <1>7 DEF Settle
  <1>9. SettlesOnce
    BY <1>1, <1>3 DEF SettlesOnce
  <1>10. QED
    BY <1>5, <1>8, <1>9

\* Every step of the worker client keeps its invariant and settles a request at most once.
LEMMA WorkerStep == WorkerInv /\ [WorkerNext]_workerVars => WorkerInv' /\ SettlesOnce
  <1> SUFFICES ASSUME WorkerInv, [WorkerNext]_workerVars PROVE WorkerInv' /\ SettlesOnce
    OBVIOUS
  <1>1. ASSUME NEW w \in WorkerWitnesses, dispatch(w) PROVE WorkerInv' /\ SettlesOnce
    <2> DEFINE new == Len(dispatched) + 1
    <2> USE DEF WorkerInv, WorkerTypeOK, SharedIsPending
    <2>1. /\ DOMAIN dispatched = 1..Len(dispatched) /\ DOMAIN dispatched' = 1..new /\ new \in Nat \ {0}
          /\ dispatched'[new] = [witness |-> w, outcome |-> "pending"]
          /\ \A i \in 1..Len(dispatched) : dispatched'[i] = dispatched[i]
          /\ dispatched' \in Seq(WorkerRequests)
      <3>1. [witness |-> w, outcome |-> "pending"] \in WorkerRequests
        BY DEF WorkerRequests, WorkerOutcomes
      <3>2. dispatched' = Append(dispatched, [witness |-> w, outcome |-> "pending"])
        BY <1>1 DEF dispatch
      <3>3. QED
        BY <3>1, <3>2
    <2>2. 1..new = (1..Len(dispatched)) \cup {new} /\ new \notin 1..Len(dispatched)
      BY <2>1
    <2>3. pendingIds' = pendingIds \cup {new} /\ shared' = [shared EXCEPT ![w] = new] /\ UNCHANGED outbox /\ shared[w] = 0
      BY <1>1 DEF dispatch
    <2> HIDE DEF new
    <2>4. \A id \in pendingIds : id \in 1..Len(dispatched) /\ dispatched[id].witness # w
      BY <2>1, <2>3
    <2>5. WorkerTypeOK'
      BY <2>1, <2>3
    <2>6. pendingIds' = {id \in DOMAIN dispatched' : dispatched'[id].outcome = "pending"}
      BY <2>1, <2>2, <2>3
    <2>7. \A v \in WorkerWitnesses : shared'[v] # 0 => shared'[v] \in pendingIds' /\ dispatched'[shared'[v]].witness = v
      BY <2>1, <2>2, <2>3
    <2>8. \A id \in pendingIds' : shared'[dispatched'[id].witness] = id
      <3>1. \A id \in pendingIds : dispatched[id].witness \in WorkerWitnesses
        <4>1. \A id \in pendingIds : dispatched[id] \in WorkerRequests
          BY <2>1, <2>4
        <4>2. QED
          BY <4>1 DEF WorkerRequests
      <3>2. QED
        BY <2>1, <2>3, <2>4, <3>1
    <2>9. QED
      BY <2>1, <2>5, <2>6, <2>7, <2>8 DEF SettlesOnce
  <1>2. ASSUME NEW id \in DOMAIN dispatched, workerAnswers(id) PROVE WorkerInv' /\ SettlesOnce
    <2>1. id \in Nat
      BY DEF WorkerInv, WorkerTypeOK
    <2>2. QED
      BY <1>2, <2>1 DEF workerAnswers, WorkerInv, WorkerTypeOK, SharedIsPending, SettlesOnce
  <1>3. ASSUME NEW id \in DOMAIN dispatched, timeout(id) PROVE WorkerInv' /\ SettlesOnce
    BY <1>3, SettleStep DEF timeout, WorkerOutcomes
  <1>4. ASSUME NEW m \in outbox, onMessage(m) PROVE WorkerInv' /\ SettlesOnce
    <2>1. m.type \in WorkerOutcomes \ {"pending"}
      BY DEF WorkerInv, WorkerTypeOK, WorkerOutcomes
    <2>2. QED
      BY <1>4, <2>1, SettleStep DEF onMessage
  <1>5. CASE onError
    BY <1>5, SettleStep DEF onError, WorkerOutcomes
  <1>6. CASE terminate
    BY <1>6, SettleStep DEF terminate, WorkerOutcomes
  <1>7. CASE UNCHANGED workerVars
    BY <1>7 DEF workerVars, WorkerInv, WorkerTypeOK, SharedIsPending, SettlesOnce
  <1>8. QED
    BY <1>1, <1>2, <1>3, <1>4, <1>5, <1>6, <1>7 DEF WorkerNext

\* It holds throughout.
LEMMA WorkerInvariant == OperationsSpec => []WorkerInv
  <1>1. OperationsInit => WorkerInv
    BY DEF OperationsInit, WorkerInit, WorkerInv, WorkerTypeOK, SharedIsPending
  <1>2. WorkerInv /\ [OperationsNext]_operationsVars => WorkerInv'
    BY WorkerStep, OneComponentSteps
  <1>3. QED
    BY <1>1, <1>2, PTL DEF OperationsSpec

(***************************************************************************)
(* WaitingSound for any timeouts, interval, answer times and number of     *)
(* requests: a final status read is returned, payroll polling times out    *)
(* when it is due, and no request joins one that has settled               *)
(* (polling.ts, WorkerProofGenerator.ts).                                  *)
(***************************************************************************)
THEOREM WaitingIsSound == OperationsSpec => []WaitingSound
  <1>1. PollInv /\ WorkerInv => WaitingSound
    BY DEF PollInv, AnswerEnds, WorkerInv, WaitingSound, AnswerBeatsClock
  <1>2. QED
    BY <1>1, PollInvariant, WorkerInvariant, PTL

-----------------------------------------------------------------------------
(***************************************************************************)
(* Confirmation nonces.  A call that begins after a confirmation of its    *)
(* nonce finds the nonce in the store, and never comes to the mark.        *)
(***************************************************************************)
SafeScopes == {SafeScope(s) : s \in NonceScopes} \cup {""}
NonceBytes == OtherRandomBytes \cup {0, 16, 32}
NonceRecords == [scope : SafeScopes, at : Int, bytes : NonceBytes]

RefusedNonce ==
  {"MISSING_NONCE", "INVALID_FORMAT", "OPERATION_MISMATCH", "CLOCK_SKEW", "EXPIRED", "INVALID_SIGNATURE", "ALREADY_USED"}

NonceTypeOK ==
  /\ nonceNow \in Nat
  /\ generated \subseteq NonceRecords
  /\ validation \in [NonceValidators -> [pc : RefusedNonce \cup {"idle", "checking", "marking", "VALID"},
                                         nonce : NonceRecords, late : BOOLEAN]]

LateIsRefused ==
  \A v \in NonceValidators :
    validation[v].late => validation[v].nonce \in usedNonces /\ validation[v].pc \notin {"marking", "VALID"}

NonceInv == NonceTypeOK /\ LateIsRefused /\ ConfirmedIsStored

\* The synchronous checks refuse or go on to the store.
LEMMA SyncChecks == \A n, s : syncChecks(n, s) \in RefusedNonce \cup {"checking"}
  <1> TAKE n, s
  <1> DEFINE list == << <<n = NoNonce, "MISSING_NONCE">>,
             <<n.scope = "", "INVALID_FORMAT">>,
             <<n.scope # SafeScope(s), "OPERATION_MISMATCH">>,
             <<n.at < 0, "INVALID_FORMAT">>,
             <<nonceNow - n.at > NonceSkew, "CLOCK_SKEW">>,
             <<nonceNow > n.at + NonceValidity, "EXPIRED">>,
             <<~isValidHexString(n), "INVALID_SIGNATURE">> >>
  <1>1. DOMAIN list = 1..7
    OBVIOUS
  <1>2. \A i \in DOMAIN list : list[i][2] \in RefusedNonce
    <2>1. \A i \in 1..7 : i = 1 \/ i = 2 \/ i = 3 \/ i = 4 \/ i = 5 \/ i = 6 \/ i = 7
      OBVIOUS
    <2>2. /\ list[1][2] = "MISSING_NONCE" /\ list[2][2] = "INVALID_FORMAT" /\ list[3][2] = "OPERATION_MISMATCH"
          /\ list[4][2] = "INVALID_FORMAT" /\ list[5][2] = "CLOCK_SKEW" /\ list[6][2] = "EXPIRED"
          /\ list[7][2] = "INVALID_SIGNATURE"
      OBVIOUS
    <2> HIDE DEF list
    <2>3. QED
      BY <1>1, <2>1, <2>2 DEF RefusedNonce
  <1>3. syncChecks(n, s) = FirstOf(list, "checking")
    BY DEF syncChecks
  <1> HIDE DEF list
  <1>4. DOMAIN list \subseteq Nat
    BY <1>1
  <1>5. QED
    BY <1>2, <1>3, <1>4, FirstThatApplies

\* The nonces generated have their form.
LEMMA NonceForm ==
  ASSUME NEW at \in Int, NEW bytes \in NonceBytes
  PROVE  /\ Nonce("", at, bytes) \in NonceRecords /\ NoNonce \in NonceRecords
         /\ \A s \in NonceScopes : Nonce(SafeScope(s), at, bytes) \in NonceRecords
  <1>1. "" \in SafeScopes /\ (\A s \in NonceScopes : SafeScope(s) \in SafeScopes)
    BY Zenon DEF SafeScopes
  <1>2. 0 \in NonceBytes /\ -1 \in Int
    BY DEF NonceBytes
  <1>3. QED
    BY <1>1, <1>2 DEF Nonce, NoNonce, NonceRecords

\* Every step of the nonces keeps their invariant.
LEMMA NonceStep == NonceInv /\ [NonceNext]_nonceVars => NonceInv'
  <1> SUFFICES ASSUME NonceInv, [NonceNext]_nonceVars PROVE NonceInv'
    OBVIOUS
  <1> USE DEF NonceInv, NonceTypeOK, LateIsRefused, ConfirmedIsStored
  <1>1. ASSUME NEW s \in NonceScopes, generateExecutionNonce(s) PROVE NonceInv'
    <2>1. nonceNow \in Int /\ GeneratedBytes \in NonceBytes
      BY DEF GeneratedBytes, NonceBytes
    <2>2. Nonce(SafeScope(s), nonceNow, GeneratedBytes) \in NonceRecords
      BY <2>1, NonceForm, Zenon
    <2>3. QED
      BY <1>1, <2>2 DEF generateExecutionNonce
  <1>2. ASSUME NEW v \in NonceValidators, NEW s \in NonceScopes, NEW n \in Presented, validateExecutionNonce(v, n, s)
        PROVE  NonceInv'
    <2> DEFINE pc == syncChecks(n, s)
               late == \E w \in NonceValidators : validation[w].nonce = n /\ validation[w].pc = "VALID"
    <2>1. n \in NonceRecords
      <3>1. 0..nonceNow \subseteq Int /\ -1 \in Int /\ 0 \in Int /\ 32 \in NonceBytes /\ OtherRandomBytes \subseteq NonceBytes
        BY DEF NonceBytes
      <3>2. [scope : {SafeScope(t) : t \in NonceScopes}, at : {-1} \cup (0..nonceNow), bytes : OtherRandomBytes]
              \subseteq NonceRecords
        BY <3>1 DEF NonceRecords, SafeScopes
      <3>3. {NoNonce, Nonce("", 0, 32)} \cup generated \subseteq NonceRecords
        BY <3>1, NonceForm
      <3>4. QED
        BY <3>2, <3>3 DEF Presented
    <2>2. pc \in RefusedNonce \cup {"checking"}
      BY SyncChecks
    <2>3. /\ validation[v].pc = "idle" /\ UNCHANGED <<nonceNow, generated, usedNonces>>
          /\ validation' = [validation EXCEPT ![v] = [pc |-> pc, nonce |-> n, late |-> late]]
      BY <1>2 DEF validateExecutionNonce
    <2>4. late \in BOOLEAN /\ (late => n \in usedNonces)
      OBVIOUS
    <2> HIDE DEF pc, late
    <2>5. validation'[v] = [pc |-> pc, nonce |-> n, late |-> late] /\ \A w \in NonceValidators \ {v} : validation'[w] = validation[w]
      BY <2>3
    <2>6. NonceTypeOK'
      BY <2>1, <2>2, <2>3, <2>4
    <2>7. pc \notin {"marking", "VALID"}
      BY <2>2 DEF RefusedNonce
    <2>8. LateIsRefused'
      BY <2>3, <2>4, <2>5, <2>7
    <2>9. {w \in NonceValidators : validation'[w].pc = "VALID"} = {w \in NonceValidators : validation[w].pc = "VALID"}
      BY <2>3, <2>5, <2>7
    <2>10. ConfirmedIsStored'
      BY <2>3, <2>5, <2>9
    <2>11. QED
      BY <2>6, <2>8, <2>10
  <1>3. ASSUME NEW v \in NonceValidators, checkIfUsed(v) PROVE NonceInv'
    BY <1>3 DEF checkIfUsed, RefusedNonce
  <1>4. ASSUME NEW v \in NonceValidators, markAsUsed(v) PROVE NonceInv'
    BY <1>4 DEF markAsUsed
  <1>5. CASE NonceTick
    BY <1>5 DEF NonceTick
  <1>6. CASE UNCHANGED nonceVars
    BY <1>6 DEF nonceVars
  <1>7. QED
    BY <1>1, <1>2, <1>3, <1>4, <1>5, <1>6 DEF NonceNext

\* It holds throughout.
LEMMA NonceInvariant == OperationsSpec => []NonceInv
  <1>1. NonceInit => NonceInv
    <2>1. 0 \in Int /\ 0 \in NonceBytes
      BY DEF NonceBytes
    <2>2. NoNonce \in NonceRecords
      BY <2>1, NonceForm, Zenon
    <2>3. QED
      BY <2>2 DEF NonceInit, NonceInv, NonceTypeOK, LateIsRefused, ConfirmedIsStored, IdleValidation
  <1>2. OperationsInit => NonceInv
    BY <1>1 DEF OperationsInit
  <1>3. NonceInv /\ [OperationsNext]_operationsVars => NonceInv'
    BY NonceStep, OneComponentSteps
  <1>4. QED
    BY <1>2, <1>3, PTL DEF OperationsSpec

-----------------------------------------------------------------------------
(***************************************************************************)
(* Role transfers and delegations.  Every copy of a transfer record tells  *)
(* its own story: accepted within the window, before it was finalized, and *)
(* not cancelled.  The delegation in the contract passed the checks.       *)
(***************************************************************************)
Moments == Nat \cup {Never}

TransferRecords ==
  [id : Nat, role : TransferRoles, from : Holders, to : Holders,
   status : {"pending", "accepted", "finalized", "cancelled"}, proposedAt : Nat, expiresAt : Int,
   acceptedAt : Moments, finalizedAt : Moments, cancelledAt : Moments]

\* What a copy says when the clock stands at now.
TransferStory(record, now) ==
  /\ record.from # record.to /\ record.proposedAt <= now
  /\ record.status \in {"accepted", "finalized"} =>
       /\ record.acceptedAt \in Nat
       /\ record.proposedAt <= record.acceptedAt /\ record.acceptedAt < record.expiresAt /\ record.acceptedAt <= now
  /\ record.status = "finalized" => record.finalizedAt \in Nat /\ record.acceptedAt <= record.finalizedAt
  /\ record.status # "cancelled" => record.cancelledAt = Never
  /\ record.status # "finalized" => record.finalizedAt = Never

\* Copies of one id are of one transfer, and a finalized one is kept beside the accepted one it comes from.
Unfinalized(record) == [record EXCEPT !.status = "accepted", !.finalizedAt = Never]
CopiesAgree ==
  /\ \A record \in records : record.id <= transferIds
  /\ \A record \in records : record.status = "finalized" => Unfinalized(record) \in records
  /\ \A a, b \in records : a.id = b.id => SameTransfer(a, b)

DelegationChecked ==
  delegation # Never =>
    /\ delegation.from \in Int /\ delegation.until \in Int
    /\ delegation.until - delegation.from <= DEFAULT_MAX_DELEGATION_DURATION_MS

TransferInv ==
  /\ transferNow \in Nat /\ transferIds \in Nat
  /\ records \subseteq TransferRecords
  /\ \A record \in records : TransferStory(record, transferNow)
  /\ CopiesAgree
  /\ DelegationChecked

\* What the checks of the operations establish when they find nothing.
LEMMA ProposalChecks ==
  ASSUME NEW role, NEW from, NEW to, NEW window, proposalError(role, from, to, window) = "ok"
  PROVE  from # to
  <1> DEFINE list == << <<role \notin SIGNER_ROLE_GROUPS, "invalid_role">>,
             <<~isValidAddress(from), "invalid_address">>,
             <<~isValidAddress(to), "invalid_address">>,
             <<from = to, "same_address">>,
             <<window < MIN_ACCEPTANCE_WINDOW_MS \/ window > MAX_ACCEPTANCE_WINDOW_MS, "invalid_window">> >>
  <1>1. DOMAIN list = 1..5
    OBVIOUS
  <1>2. \A i \in DOMAIN list : list[i][2] # "ok"
    <2>1. /\ list[1][2] # "ok" /\ list[2][2] # "ok" /\ list[3][2] # "ok" /\ list[4][2] # "ok" /\ list[5][2] # "ok"
      OBVIOUS
    <2>2. \A i \in 1..5 : i = 1 \/ i = 2 \/ i = 3 \/ i = 4 \/ i = 5
      OBVIOUS
    <2> HIDE DEF list
    <2>3. QED
      BY <1>1, <2>1, <2>2
  <1>3. FirstOf(list, "ok") = "ok"
    BY DEF proposalError
  <1>4. list[4][1] <=> from = to
    OBVIOUS
  <1> HIDE DEF list
  <1>5. DOMAIN list \subseteq Nat /\ 4 \in DOMAIN list
    BY <1>1
  <1>6. ~list[4][1]
    BY <1>2, <1>3, <1>5, NothingFound
  <1>7. QED
    BY <1>4, <1>6

\* An acceptance that passes its checks is in time and of a pending transfer.
LEMMA AcceptChecks ==
  ASSUME NEW record, NEW who, acceptError(record, who) = "ok"
  PROVE  ~(record.status = "expired" \/ transferNow >= record.expiresAt) /\ record.status = "pending"
  <1> DEFINE list == << <<record.status = "expired" \/ transferNow >= record.expiresAt, "expired">>,
             <<record.status # "pending", "not_pending">>,
             <<who # record.to, "not_nominee">> >>
  <1>1. DOMAIN list = 1..3
    OBVIOUS
  <1>2. \A i \in DOMAIN list : list[i][2] # "ok"
    BY <1>1
  <1>3. FirstOf(list, "ok") = "ok"
    BY DEF acceptError
  <1>4. list[1][1] <=> (record.status = "expired" \/ transferNow >= record.expiresAt)
    OBVIOUS
  <1>5. list[2][1] <=> record.status # "pending"
    OBVIOUS
  <1> HIDE DEF list
  <1>6. DOMAIN list \subseteq Nat /\ 1 \in DOMAIN list /\ 2 \in DOMAIN list
    BY <1>1
  <1>7. ~list[1][1] /\ ~list[2][1]
    BY <1>2, <1>3, <1>6, NothingFound
  <1>8. QED
    BY <1>4, <1>5, <1>7

\* A transfer that is finalized has been accepted.
LEMMA FinalizeChecks ==
  ASSUME NEW record, NEW who, finalizeError(record, who) = "ok"
  PROVE  record.status = "accepted"
  <1> DEFINE list == << <<record.status = "finalized", "already_finalized">>,
             <<record.status # "accepted", "not_accepted">>,
             <<who # record.from, "not_current_holder">> >>
  <1>1. DOMAIN list = 1..3
    OBVIOUS
  <1>2. \A i \in DOMAIN list : list[i][2] # "ok"
    BY <1>1
  <1>3. FirstOf(list, "ok") = "ok"
    BY DEF finalizeError
  <1>4. list[2][1] <=> record.status # "accepted"
    OBVIOUS
  <1> HIDE DEF list
  <1>5. DOMAIN list \subseteq Nat /\ 2 \in DOMAIN list
    BY <1>1
  <1>6. ~list[2][1]
    BY <1>2, <1>3, <1>5, NothingFound
  <1>7. QED
    BY <1>4, <1>6

\* A transfer that is cancelled has not been finalized, in the copy that is cancelled.
LEMMA CancelChecks ==
  ASSUME NEW record, NEW who, cancelError(record, who) = "ok"
  PROVE  record.status # "finalized"
  <1> DEFINE list == << <<record.status = "finalized", "already_finalized">>,
             <<record.status = "cancelled", "not_pending">>,
             <<who # record.from, "not_current_holder">> >>
  <1>1. DOMAIN list = 1..3
    OBVIOUS
  <1>2. \A i \in DOMAIN list : list[i][2] # "ok"
    BY <1>1
  <1>3. FirstOf(list, "ok") = "ok"
    BY DEF cancelError
  <1>4. list[1][1] <=> record.status = "finalized"
    OBVIOUS
  <1> HIDE DEF list
  <1>5. DOMAIN list \subseteq Nat /\ 1 \in DOMAIN list
    BY <1>1
  <1>6. ~list[1][1]
    BY <1>2, <1>3, <1>5, NothingFound
  <1>7. QED
    BY <1>4, <1>6

\* A delegation that passes its checks has a duration within the limit.
LEMMA DelegationChecks ==
  ASSUME NEW d, NEW now, delegationError(d, now) = "ok"
  PROVE  Never \notin {d.from, d.until} /\ ~(d.until - d.from > DEFAULT_MAX_DELEGATION_DURATION_MS)
  <1> DEFINE list == << <<"" \in {d.original, d.delegated, d.workflow} \/ Never \in {d.from, d.until}, "MISSING_FIELD">>,
             <<~isValidStellarAddress(d.original), "INVALID_ORIGINAL_APPROVER">>,
             <<~isValidStellarAddress(d.delegated), "INVALID_DELEGATED_APPROVER">>,
             <<d.original = d.delegated, "SAME_APPROVER_ADDRESSES">>,
             <<d.workflow = " ", "INVALID_WORKFLOW_ID">>,
             <<d.from >= d.until, "INVALID_DATE_RANGE">>,
             <<now - d.from > MAX_EFFECTIVE_FROM_PAST_MS, "EFFECTIVE_FROM_TOO_OLD">>,
             <<d.until - now > MAX_EFFECTIVE_UNTIL_FUTURE_MS, "EFFECTIVE_UNTIL_TOO_FAR">>,
             <<d.until - d.from > DEFAULT_MAX_DELEGATION_DURATION_MS, "DURATION_EXCEEDS_MAXIMUM">>,
             <<d.role # "" /\ d.role \notin DELEGATION_AUTHORIZED_ROLES, "ORIGINAL_ROLE_CANNOT_DELEGATE">> >>
  <1>1. DOMAIN list = 1..10
    OBVIOUS
  <1>2. \A i \in DOMAIN list : list[i][2] # "ok"
    <2>1. /\ list[1][2] # "ok" /\ list[2][2] # "ok" /\ list[3][2] # "ok" /\ list[4][2] # "ok" /\ list[5][2] # "ok"
          /\ list[6][2] # "ok" /\ list[7][2] # "ok" /\ list[8][2] # "ok" /\ list[9][2] # "ok" /\ list[10][2] # "ok"
      OBVIOUS
    <2>2. \A i \in 1..10 : i = 1 \/ i = 2 \/ i = 3 \/ i = 4 \/ i = 5 \/ i = 6 \/ i = 7 \/ i = 8 \/ i = 9 \/ i = 10
      OBVIOUS
    <2> HIDE DEF list
    <2>3. QED
      BY <1>1, <2>1, <2>2
  <1>3. FirstOf(list, "ok") = "ok"
    BY DEF delegationError
  <1>4. list[1][1] <=> ("" \in {d.original, d.delegated, d.workflow} \/ Never \in {d.from, d.until})
    OBVIOUS
  <1>5. list[9][1] <=> d.until - d.from > DEFAULT_MAX_DELEGATION_DURATION_MS
    OBVIOUS
  <1> HIDE DEF list
  <1>6. DOMAIN list \subseteq Nat /\ 1 \in DOMAIN list /\ 9 \in DOMAIN list
    BY <1>1
  <1>7. ~list[1][1] /\ ~list[9][1]
    BY <1>2, <1>3, <1>6, NothingFound
  <1>8. QED
    BY <1>4, <1>5, <1>7

\* A copy with an operation applied joins the others.
LEMMA ReturnedStep ==
  ASSUME TransferInv, NEW old \in records, NEW record \in TransferRecords, TransferStory(record, transferNow), Returned(record),
         record.id = old.id, SameTransfer(record, old), record.status = "finalized" => Unfinalized(record) \in records
  PROVE  TransferInv'
  <1>1. records' = records \cup {record} /\ UNCHANGED <<transferNow, transferIds, delegation>>
    BY DEF Returned
  <1>2. CopiesAgree'
    <2>1. \A a \in records : a.id = record.id => SameTransfer(a, record) /\ SameTransfer(record, a)
      BY DEF TransferInv, CopiesAgree, SameTransfer
    <2>2. SameTransfer(record, record)
      BY DEF SameTransfer
    <2>3. \A a, b \in records' : a.id = b.id => SameTransfer(a, b)
      BY <1>1, <2>1, <2>2 DEF TransferInv, CopiesAgree
    <2>4. \A a \in records' : a.id <= transferIds /\ (a.status = "finalized" => Unfinalized(a) \in records')
      BY <1>1 DEF TransferInv, CopiesAgree
    <2>5. QED
      BY <1>1, <2>3, <2>4 DEF CopiesAgree
  <1>3. QED
    BY <1>1, <1>2 DEF TransferInv, DelegationChecked

\* Every step of a transfer keeps its invariant.
LEMMA TransferStep == TransferInv /\ [TransferNext]_transferVars => TransferInv'
  <1> SUFFICES ASSUME TransferInv, [TransferNext]_transferVars PROVE TransferInv'
    OBVIOUS
  <1>0. transferNow \in Nat /\ transferIds \in Nat /\ transferNow \in Moments /\ Never \in Moments
    BY DEF TransferInv, Moments
  <1>1. ASSUME NEW role \in TransferRoles, NEW from \in Holders, NEW to \in Holders, NEW w \in Windows,
               proposeRoleTransfer(role, from, to, w)
        PROVE  TransferInv'
    <2> DEFINE new == [id |-> transferIds + 1, role |-> role, from |-> from, to |-> to, status |-> "pending",
                       proposedAt |-> transferNow, expiresAt |-> transferNow + w,
                       acceptedAt |-> Never, finalizedAt |-> Never, cancelledAt |-> Never]
    <2>1. from # to
      BY <1>1, ProposalChecks DEF proposeRoleTransfer
    <2>2. transferIds + 1 \in Nat /\ transferNow + w \in Int
      BY <1>0, TransferAssumption
    <2>3. new \in TransferRecords
      BY <1>0, <2>2 DEF TransferRecords
    <2>4. TransferStory(new, transferNow)
      BY <1>0, <2>1 DEF TransferStory
    <2>5. records' = records \cup {new} /\ transferIds' = transferIds + 1 /\ UNCHANGED <<transferNow, delegation>>
      BY <1>1 DEF proposeRoleTransfer
    <2>6. new.id = transferIds + 1 /\ new.status = "pending"
      OBVIOUS
    <2> HIDE DEF new
    <2>7. CopiesAgree'
      <3>1. \A a \in records : a.id \in Nat /\ a.id <= transferIds
        BY DEF TransferInv, TransferRecords, CopiesAgree
      <3>2. \A a \in records : a.id # new.id /\ a.id <= transferIds + 1
        BY <1>0, <2>6, <3>1
      <3>3. SameTransfer(new, new)
        BY DEF SameTransfer
      <3>4. \A a, b \in records' : a.id = b.id => SameTransfer(a, b)
        BY <2>5, <3>2, <3>3 DEF TransferInv, CopiesAgree
      <3>5. \A a \in records' : a.status = "finalized" => Unfinalized(a) \in records'
        BY <2>5, <2>6 DEF TransferInv, CopiesAgree
      <3>6. new.id <= transferIds + 1
        BY <1>0, <2>6
      <3>7. QED
        BY <2>5, <3>2, <3>4, <3>5, <3>6 DEF CopiesAgree
    <2>8. QED
      BY <2>2, <2>3, <2>4, <2>5, <2>7 DEF TransferInv, DelegationChecked
  <1>2. ASSUME NEW record \in records, NEW who \in Holders, acceptRoleTransfer(record, who) PROVE TransferInv'
    <2> DEFINE new == [record EXCEPT !.status = "accepted", !.acceptedAt = transferNow]
    <2>1. record \in TransferRecords /\ TransferStory(record, transferNow)
      BY DEF TransferInv
    <2>2. ~(record.status = "expired" \/ transferNow >= record.expiresAt) /\ record.status = "pending"
      BY <1>2, AcceptChecks DEF acceptRoleTransfer
    <2>3. new \in TransferRecords
      BY <1>0, <2>1 DEF TransferRecords
    <2>4. TransferStory(new, transferNow)
      <3>1. /\ new.status = "accepted" /\ new.acceptedAt = transferNow /\ new.from = record.from /\ new.to = record.to
            /\ new.proposedAt = record.proposedAt /\ new.expiresAt = record.expiresAt /\ new.cancelledAt = record.cancelledAt
            /\ new.finalizedAt = record.finalizedAt /\ record.expiresAt \in Int
        BY <2>1 DEF TransferRecords
      <3>2. QED
        BY <1>0, <2>1, <2>2, <3>1 DEF TransferStory
    <2>5. new.id = record.id /\ SameTransfer(new, record) /\ new.status # "finalized"
      BY <2>1 DEF TransferRecords, SameTransfer
    <2> HIDE DEF new
    <2>6. Returned(new)
      BY <1>2 DEF acceptRoleTransfer, new
    <2>7. QED
      BY <2>3, <2>4, <2>5, <2>6, ReturnedStep
  <1>3. ASSUME NEW record \in records, NEW who \in Holders, finalizeRoleTransfer(record, who) PROVE TransferInv'
    <2> DEFINE new == [record EXCEPT !.status = "finalized", !.finalizedAt = transferNow]
    <2>1. record \in TransferRecords /\ TransferStory(record, transferNow)
      BY DEF TransferInv
    <2>2. record.status = "accepted"
      BY <1>3, FinalizeChecks DEF finalizeRoleTransfer
    <2>3. new \in TransferRecords
      BY <1>0, <2>1 DEF TransferRecords
    <2>4. TransferStory(new, transferNow)
      <3>1. /\ new.status = "finalized" /\ new.acceptedAt = record.acceptedAt /\ new.from = record.from /\ new.to = record.to
            /\ new.proposedAt = record.proposedAt /\ new.expiresAt = record.expiresAt /\ new.cancelledAt = record.cancelledAt
            /\ new.finalizedAt = transferNow
        BY <2>1 DEF TransferRecords
      <3>2. QED
        BY <1>0, <2>1, <2>2, <3>1 DEF TransferStory
    <2>5. new.id = record.id /\ SameTransfer(new, record)
      BY <2>1 DEF TransferRecords, SameTransfer
    <2>6. Unfinalized(new) = record
      <3>1. record.finalizedAt = Never
        BY <2>1, <2>2 DEF TransferStory
      <3>2. QED
        BY <2>1, <2>2, <3>1 DEF TransferRecords, Unfinalized
    <2> HIDE DEF new
    <2>7. Returned(new)
      BY <1>3 DEF finalizeRoleTransfer, new
    <2>8. QED
      BY <2>3, <2>4, <2>5, <2>6, <2>7, ReturnedStep
  <1>4. ASSUME NEW record \in records, NEW who \in Holders, cancelRoleTransfer(record, who) PROVE TransferInv'
    <2> DEFINE new == [record EXCEPT !.status = "cancelled", !.cancelledAt = transferNow]
    <2>1. record \in TransferRecords /\ TransferStory(record, transferNow)
      BY DEF TransferInv
    <2>2. new \in TransferRecords
      BY <1>0, <2>1 DEF TransferRecords
    <2>3. TransferStory(new, transferNow)
      <3>1. /\ new.status = "cancelled" /\ new.from = record.from /\ new.to = record.to
            /\ new.proposedAt = record.proposedAt /\ new.finalizedAt = record.finalizedAt
        BY <2>1 DEF TransferRecords
      <3>2. record.status # "finalized"
        BY <1>4, CancelChecks DEF cancelRoleTransfer
      <3>3. QED
        BY <1>0, <2>1, <3>1, <3>2 DEF TransferStory
    <2>4. new.id = record.id /\ SameTransfer(new, record) /\ new.status # "finalized"
      BY <2>1 DEF TransferRecords, SameTransfer
    <2> HIDE DEF new
    <2>5. Returned(new)
      BY <1>4 DEF cancelRoleTransfer, new
    <2>6. QED
      BY <2>2, <2>3, <2>4, <2>5, ReturnedStep
  <1>5. ASSUME NEW d \in Delegations, assignDelegatedApprover(d) PROVE TransferInv'
    <2>1. Never \notin {d.from, d.until} /\ ~(d.until - d.from > DEFAULT_MAX_DELEGATION_DURATION_MS)
      BY <1>5, DelegationChecks DEF assignDelegatedApprover
    <2>2. d.from \in Int /\ d.until \in Int /\ DEFAULT_MAX_DELEGATION_DURATION_MS \in Int
      BY <2>1, TransferAssumption
    <2>3. d.until - d.from <= DEFAULT_MAX_DELEGATION_DURATION_MS
      BY <2>1, <2>2
    <2>4. QED
      BY <1>5, <2>2, <2>3 DEF assignDelegatedApprover, TransferInv, DelegationChecked, CopiesAgree
  <1>6. CASE revokeDelegatedApproverAssignment
    BY <1>6 DEF revokeDelegatedApproverAssignment, TransferInv, DelegationChecked, CopiesAgree
  <1>7. CASE TransferTick
    <2>1. transferNow' = transferNow + 1 /\ UNCHANGED <<transferIds, records, delegation>>
      BY <1>7 DEF TransferTick
    <2>2. \A record \in records : TransferStory(record, transferNow + 1)
      <3> TAKE record \in records
      <3>1. record.proposedAt \in Nat /\ TransferStory(record, transferNow)
        BY DEF TransferInv, TransferRecords
      <3>2. QED
        BY <1>0, <3>1 DEF TransferStory
    <2>3. QED
      BY <1>0, <2>1, <2>2 DEF TransferInv, DelegationChecked, CopiesAgree
  <1>8. CASE UNCHANGED transferVars
    BY <1>8 DEF transferVars, TransferInv, DelegationChecked, CopiesAgree
  <1>9. QED
    BY <1>1, <1>2, <1>3, <1>4, <1>5, <1>6, <1>7, <1>8 DEF TransferNext

\* It holds throughout.
LEMMA TransferInvariant == OperationsSpec => []TransferInv
  <1>1. OperationsInit => TransferInv
    BY DEF OperationsInit, TransferInit, TransferInv, DelegationChecked, CopiesAgree
  <1>2. TransferInv /\ [OperationsNext]_operationsVars => TransferInv'
    BY TransferStep, OneComponentSteps
  <1>3. QED
    BY <1>1, <1>2, PTL DEF OperationsSpec

\* The state of a delegation, and the variant shown for it, say whether it is in force.
LEMMA DelegationShown ==
  ASSUME NEW d, d.from \in Int, d.until \in Int, NEW now \in Int
  PROVE  isDelegatedApproverActive(d, now) <=> delegationVariant(d, now) \in {"success", "warning"}
  <1> DEFINE list == << <<now < d.from, "not_yet_active">>,
             <<now >= d.until, "expired">>,
             <<d.until - now <= DelegationSoon, "expiring_soon">> >>
             state == delegationExpiryState(d, now)
  <1>1. DOMAIN list = 1..3 /\ list[1][2] = "not_yet_active" /\ list[2][2] = "expired" /\ list[3][2] = "expiring_soon"
    OBVIOUS
  <1>2. state = FirstOf(list, "active")
    BY DEF delegationExpiryState
  <1>3. list[1][1] <=> now < d.from
    OBVIOUS
  <1>4. list[2][1] <=> now >= d.until
    OBVIOUS
  <1> HIDE DEF list, state
  <1>5. \/ state = "active" /\ \A i \in DOMAIN list : ~list[i][1]
        \/ \E i \in DOMAIN list : list[i][1] /\ state = list[i][2] /\ \A j \in DOMAIN list : j < i => ~list[j][1]
    <2>1. DOMAIN list \subseteq Nat
      BY <1>1
    <2>2. QED
      BY <1>2, <2>1, FirstThatApplies
  <1>6. \/ state = "active" /\ ~list[1][1] /\ ~list[2][1]
        \/ state = "not_yet_active" /\ list[1][1]
        \/ state = "expired" /\ list[2][1]
        \/ state = "expiring_soon" /\ ~list[1][1] /\ ~list[2][1]
    <2>1. \A i \in 1..3 : i = 1 \/ i = 2 \/ i = 3
      OBVIOUS
    <2>2. QED
      BY <1>1, <1>5, <2>1
  <1>7. delegationVariant(d, now) \in {"success", "warning"} <=> state \in {"active", "expiring_soon"}
    BY <1>6 DEF delegationVariant, state
  <1>8. isDelegatedApproverActive(d, now) <=> ~(now < d.from) /\ ~(now >= d.until)
    BY DEF isDelegatedApproverActive
  <1>9. QED
    BY <1>3, <1>4, <1>6, <1>7, <1>8

\* It says what ApprovalsSound asks of transfers.
LEMMA TransfersSound == TransferInv => FinalizedWasAccepted /\ ExpiredIsDead /\ DelegationViewsAgree
  <1> SUFFICES ASSUME TransferInv PROVE FinalizedWasAccepted /\ ExpiredIsDead /\ DelegationViewsAgree
    OBVIOUS
  <1>1. FinalizedWasAccepted
    <2> SUFFICES ASSUME NEW record \in records, record.status = "finalized"
                 PROVE  /\ record.acceptedAt # Never
                        /\ record.proposedAt <= record.acceptedAt /\ record.acceptedAt < record.expiresAt
                        /\ record.acceptedAt <= record.finalizedAt
                        /\ record.from # record.to
                        /\ record.cancelledAt = Never
                        /\ [record EXCEPT !.status = "accepted", !.finalizedAt = Never] \in records
                        /\ \A other \in records : other.id = record.id => SameTransfer(other, record)
      BY Zenon DEF FinalizedWasAccepted
    <2>1. TransferStory(record, transferNow)
      BY DEF TransferInv
    <2>2. Unfinalized(record) \in records /\ \A other \in records : other.id = record.id => SameTransfer(other, record)
      BY DEF TransferInv, CopiesAgree
    <2>3. QED
      BY <2>1, <2>2, TransferAssumption DEF TransferStory, Unfinalized
  <1>2. ExpiredIsDead
    <2> SUFFICES ASSUME NEW record \in records, NEW who \in Holders,
                        resolveTransferStatus(record, transferNow) = "expired"
                 PROVE  acceptError(record, who) # "ok" /\ finalizeError(record, who) # "ok"
      BY DEF ExpiredIsDead
    <2>1. record.status = "pending" /\ transferNow >= record.expiresAt
      BY DEF resolveTransferStatus, TransferInv, TransferRecords
    <2>2. QED
      BY <2>1, AcceptChecks, FinalizeChecks
  <1>3. DelegationViewsAgree
    <2> SUFFICES ASSUME delegation # Never
                 PROVE  /\ isDelegatedApproverActive(delegation, transferNow)
                             <=> delegationVariant(delegation, transferNow) \in {"success", "warning"}
                        /\ isDelegatedApproverActive(delegation, transferNow) =>
                             delegation.until - transferNow <= DEFAULT_MAX_DELEGATION_DURATION_MS
      BY DEF DelegationViewsAgree
    <2>1. /\ delegation.from \in Int /\ delegation.until \in Int /\ transferNow \in Int
          /\ delegation.until - delegation.from <= DEFAULT_MAX_DELEGATION_DURATION_MS
      BY DEF TransferInv, DelegationChecked
    <2>2. isDelegatedApproverActive(delegation, transferNow) =>
            delegation.until - transferNow <= DEFAULT_MAX_DELEGATION_DURATION_MS
      BY <2>1, TransferAssumption DEF isDelegatedApproverActive
    <2>3. QED
      BY <2>1, <2>2, DelegationShown
  <1>4. QED
    BY <1>1, <1>2, <1>3

-----------------------------------------------------------------------------
(***************************************************************************)
(* Authorization.  A signer signs or rejects once, while the request is    *)
(* open, and only with an address; what is recorded is not changed again.  *)
(***************************************************************************)
SignerStory(s, createdAt, expiresAt, now) ==
  /\ s.state # "expired"
  /\ s.state = "pending" => s.signedAt = Undefined /\ s.rejectedAt = Undefined
  /\ s.state = "signed" => s.signedAt # Undefined
  /\ s.state = "rejected" => s.rejectedAt # Undefined
  /\ s.signedAt = Undefined \/ s.rejectedAt = Undefined
  /\ s.signedAt # Undefined => createdAt <= s.signedAt /\ s.signedAt <= expiresAt /\ s.signedAt <= now
  /\ s.rejectedAt # Undefined => createdAt <= s.rejectedAt /\ s.rejectedAt <= now
  /\ s.address = "" => s.signedAt = Undefined

RequestStory(q, now) ==
  /\ 1 <= q.createdAt /\ q.createdAt <= now /\ q.createdAt <= q.expiresAt
  /\ DOMAIN q.signers = DOMAIN q.policy.roles
  /\ \A i \in DOMAIN q.signers :
       q.signers[i].role = q.policy.roles[i] /\ SignerStory(q.signers[i], q.createdAt, q.expiresAt, now)

NoncesOf(r, a) == {n \in AuthNonces : <<r, a, n>> \in signerHistory}

SignaturesOf(q, a) == {i \in DOMAIN q.signers : q.signers[i].address = a /\ q.signers[i].signedAt # Undefined}

NoncesCounted ==
  \A r \in AuthRequests, a \in AuthAddresses :
    /\ IsFiniteSet(NoncesOf(r, a))
    /\ requests[r] = Undefined => NoncesOf(r, a) = {}
    /\ requests[r] # Undefined => Cardinality(NoncesOf(r, a)) = Cardinality(SignaturesOf(requests[r], a))

AuthInv ==
  /\ authNow \in 1..AuthLastTime
  /\ signerHistory \subseteq AuthRequests \X AuthAddresses \X AuthNonces
  /\ requests \in [AuthRequests -> AuthorizationRequest \cup {Undefined}]
  /\ \A r \in Made : RequestStory(requests[r], authNow)
  /\ NoncesCounted

\* Signatures and nonces stay in step while neither is touched.
LEMMA CountsKept ==
  ASSUME NoncesCounted, UNCHANGED <<requests, signerHistory>> PROVE NoncesCounted'
  <1>1. \A r \in AuthRequests, a \in AuthAddresses : NoncesOf(r, a)' = NoncesOf(r, a)
    BY DEF NoncesOf
  <1>2. \A r \in AuthRequests, a \in AuthAddresses : SignaturesOf(requests[r], a)' = SignaturesOf(requests[r], a)
    BY DEF SignaturesOf
  <1>3. QED
    BY <1>1, <1>2 DEF NoncesCounted

\* The clock and the constants are numbers.
LEMMA AuthFacts ==
  ASSUME AuthInv
  PROVE  /\ authNow \in Nat /\ 1 <= authNow /\ authNow # Undefined /\ AuthLastTime \in Nat /\ authNow <= AuthLastTime
         /\ Undefined \notin Nat /\ "" \notin AuthAddresses /\ Undefined \notin AuthorizationRequest
         /\ MaxExpiry \in Nat /\ ClockSkew \in Nat
         /\ \A policy \in AuthPolicies : policy.roles \in Seq(STRING) /\ policy.expiryMs \in Nat \cup {Undefined}
  <1>1. authNow \in 1..AuthLastTime
    BY DEF AuthInv
  <1>2. AuthLastTime \in Nat /\ Undefined \notin Int
    BY AuthAssumption
  <1>3. authNow \in Nat /\ 1 <= authNow /\ authNow # Undefined /\ Undefined \notin Nat /\ authNow <= AuthLastTime
    BY <1>1, <1>2
  <1>4. QED
    BY <1>2, <1>3, AuthAssumption

\* A request that was made is one, and its times are in order.
LEMMA RequestTypes ==
  ASSUME AuthInv, NEW r \in Made
  PROVE  /\ r \in AuthRequests /\ requests[r] # Undefined
         /\ requests[r] \in AuthorizationRequest /\ RequestStory(requests[r], authNow)
         /\ requests[r].createdAt \in Nat /\ requests[r].expiresAt \in Nat /\ requests[r].policy \in AuthPolicies
         /\ requests[r].signers \in Seq(SignerInfo)
         /\ \A i \in DOMAIN requests[r].signers : requests[r].signers[i] \in SignerInfo
         /\ DOMAIN requests[r].signers \subseteq Nat \ {0} /\ IsFiniteSet(DOMAIN requests[r].signers)
  <1>1. r \in AuthRequests /\ requests[r] # Undefined /\ requests[r] \in AuthorizationRequest /\ RequestStory(requests[r], authNow)
    BY DEF AuthInv, Made
  <1>2. /\ requests[r].createdAt \in Nat /\ requests[r].expiresAt \in Nat /\ requests[r].policy \in AuthPolicies
        /\ requests[r].signers \in Seq(SignerInfo)
    BY <1>1 DEF AuthorizationRequest
  <1> DEFINE signers == requests[r].signers
  <1> HIDE DEF signers
  <1>3. signers \in Seq(SignerInfo)
    BY <1>2 DEF signers
  <1>4. DOMAIN signers = 1..Len(signers) /\ Len(signers) \in Nat /\ \A i \in DOMAIN signers : signers[i] \in SignerInfo
    BY <1>3
  <1>5. DOMAIN signers \subseteq Nat \ {0} /\ IsFiniteSet(DOMAIN signers)
    <2>1. 1 \in Int /\ Len(signers) \in Int /\ 1..Len(signers) \subseteq Nat \ {0}
      BY <1>4
    <2>2. IsFiniteSet(1..Len(signers))
      BY <2>1, FS_Interval, Zenon
    <2>3. QED
      BY <1>4, <2>1, <2>2
  <1>6. QED
    BY <1>1, <1>2, <1>4, <1>5 DEF signers

(***************************************************************************)
(* One signer of a request changes, and the history with it or not.        *)
(***************************************************************************)
LEMMA SignerUpdate ==
  ASSUME AuthInv, NEW r \in Made, NEW i \in DOMAIN requests[r].signers, NEW s \in SignerInfo,
         requests' = [requests EXCEPT ![r].signers[i] = s],
         s.role = requests[r].signers[i].role,
         SignerStory(s, requests[r].createdAt, requests[r].expiresAt, authNow),
         UNCHANGED authNow,
         signerHistory' \subseteq AuthRequests \X AuthAddresses \X AuthNonces,
         NoncesCounted'
  PROVE  AuthInv'
  <1> DEFINE q == requests[r]
             new == [q EXCEPT !.signers[i] = s]
  <1>1. /\ r \in AuthRequests /\ q \in AuthorizationRequest /\ RequestStory(q, authNow) /\ q.signers \in Seq(SignerInfo)
        /\ q # Undefined
    BY RequestTypes
  <1>2. requests' = [requests EXCEPT ![r] = new]
    OBVIOUS
  <1>3. /\ new.createdAt = q.createdAt /\ new.expiresAt = q.expiresAt /\ new.policy = q.policy
        /\ new.signers = [q.signers EXCEPT ![i] = s]
    BY <1>1 DEF AuthorizationRequest
  <1>4. new.signers \in Seq(SignerInfo) /\ DOMAIN new.signers = DOMAIN q.signers
    BY <1>1, <1>3
  <1>5. new \in AuthorizationRequest
    BY <1>1, <1>4 DEF AuthorizationRequest
  <1>6. RequestStory(new, authNow)
    BY <1>1, <1>3, <1>4 DEF RequestStory
  <1>7. /\ requests' \in [AuthRequests -> AuthorizationRequest \cup {Undefined}]
        /\ Made' = Made /\ requests'[r] = new /\ \A p \in Made \ {r} : requests'[p] = requests[p]
    <2> HIDE DEF new
    <2>1. new # Undefined
      BY <1>5, AuthAssumption
    <2>2. QED
      BY <1>1, <1>2, <1>5, <2>1 DEF AuthInv, Made
  <1>8. \A p \in Made' : RequestStory(requests'[p], authNow')
    BY <1>6, <1>7 DEF AuthInv
  <1>9. QED
    BY <1>7, <1>8 DEF AuthInv

\* An update that is no signature.
LEMMA SignerUpdateUnsigned ==
  ASSUME AuthInv, NEW r \in Made, NEW i \in DOMAIN requests[r].signers, NEW s \in SignerInfo,
         requests' = [requests EXCEPT ![r].signers[i] = s],
         s.role = requests[r].signers[i].role,
         SignerStory(s, requests[r].createdAt, requests[r].expiresAt, authNow),
         UNCHANGED <<authNow, signerHistory>>,
         \A a \in AuthAddresses :
           s.address = a /\ s.signedAt # Undefined
             <=> requests[r].signers[i].address = a /\ requests[r].signers[i].signedAt # Undefined
  PROVE  AuthInv'
  <1> DEFINE q == requests[r]
             new == [q EXCEPT !.signers[i] = s]
  <1>1. r \in AuthRequests /\ q \in AuthorizationRequest /\ q.signers \in Seq(SignerInfo) /\ q # Undefined
    BY RequestTypes
  <1>2. requests' = [requests EXCEPT ![r] = new] /\ requests \in [AuthRequests -> AuthorizationRequest \cup {Undefined}]
    BY DEF AuthInv
  <1>3. new.signers = [q.signers EXCEPT ![i] = s]
    BY <1>1 DEF AuthorizationRequest
  <1>4. \A a \in AuthAddresses : SignaturesOf(new, a) = SignaturesOf(q, a)
    BY <1>1, <1>3 DEF SignaturesOf
  <1>5. new # Undefined
    <2>1. new.signers \in Seq(SignerInfo)
      BY <1>1, <1>3
    <2>2. new \in AuthorizationRequest
      BY <1>1, <2>1 DEF AuthorizationRequest
    <2>3. QED
      BY <2>2, AuthAssumption
  <1>6. NoncesCounted'
    <2> HIDE DEF new
    <2> SUFFICES ASSUME NEW p \in AuthRequests, NEW a \in AuthAddresses
                 PROVE  /\ IsFiniteSet(NoncesOf(p, a)')
                        /\ requests'[p] = Undefined => NoncesOf(p, a)' = {}
                        /\ requests'[p] # Undefined => Cardinality(NoncesOf(p, a)') = Cardinality(SignaturesOf(requests'[p], a))
      BY DEF NoncesCounted, SignaturesOf
    <2>1. NoncesOf(p, a)' = NoncesOf(p, a)
      BY DEF NoncesOf
    <2>2. requests'[p] = IF p = r THEN new ELSE requests[p]
      BY <1>2
    <2>3. CASE p = r
      <3>1. requests'[p] = new /\ IsFiniteSet(NoncesOf(p, a)) /\ Cardinality(NoncesOf(p, a)) = Cardinality(SignaturesOf(q, a))
        BY <1>1, <2>2, <2>3 DEF AuthInv, NoncesCounted
      <3>2. QED
        BY <1>4, <1>5, <2>1, <3>1
    <2>4. CASE p # r
      BY <2>1, <2>2, <2>4 DEF AuthInv, NoncesCounted
    <2>5. QED
      BY <2>3, <2>4
  <1>7. signerHistory' \subseteq AuthRequests \X AuthAddresses \X AuthNonces
    BY DEF AuthInv
  <1>8. QED
    BY <1>6, <1>7, SignerUpdate

\* The signer who is found is one of the request.
LEMMA FoundSigner ==
  ASSUME AuthInv, NEW r \in Made, NEW S \in SUBSET DOMAIN requests[r].signers, NEW i, i # 0,
         i = IF S = {} THEN 0 ELSE Min(S)
  PROVE  i \in S
  <1>1. S \subseteq Nat /\ S # {}
    BY RequestTypes
  <1>2. QED
    BY <1>1, Smallest

\* Every step of the multi-signer service keeps its invariant.
LEMMA AuthStep == AuthInv /\ [AuthNext]_authVars => AuthInv'
  <1> SUFFICES ASSUME AuthInv, [AuthNext]_authVars PROVE AuthInv'
    OBVIOUS
  <1>1. ASSUME NEW r \in AuthRequests, NEW policy \in AuthPolicies, createAuthorizationRequest(r, policy) PROVE AuthInv'
    <2> DEFINE expiry == IF policy.expiryMs = Undefined THEN MaxExpiry ELSE policy.expiryMs
               signers == [k \in DOMAIN policy.roles |-> Signer(policy.roles[k])]
               new == [policy |-> policy, createdAt |-> authNow, expiresAt |-> authNow + expiry, signers |-> signers]
    <2>1. expiry \in Nat /\ authNow \in Nat /\ 1 <= authNow /\ policy.roles \in Seq(STRING)
      BY AuthFacts
    <2>2. \A k \in DOMAIN policy.roles : signers[k] = Signer(policy.roles[k]) /\ policy.roles[k] \in STRING
      BY <2>1
    <2>3. \A x \in STRING : Signer(x) \in SignerInfo
      BY DEF Signer, SignerInfo
    <2>4. signers \in Seq(SignerInfo) /\ DOMAIN signers = DOMAIN policy.roles
      <3>1. DOMAIN policy.roles = 1..Len(policy.roles) /\ Len(policy.roles) \in Nat
        BY <2>1
      <3>2. QED
        <4> HIDE DEF signers
        <4>1. \A k \in DOMAIN policy.roles : signers[k] \in SignerInfo
          BY <2>2, <2>3
        <4>2. signers = [k \in 1..Len(policy.roles) |-> signers[k]]
          BY <3>1 DEF signers
        <4>3. QED
          BY <3>1, <4>1, <4>2
    <2>5. requests[r] = Undefined /\ requests' = [requests EXCEPT ![r] = new] /\ UNCHANGED <<authNow, signerHistory>>
      BY <1>1 DEF createAuthorizationRequest
    <2>6. new \in AuthorizationRequest
      <3> HIDE DEF signers, expiry
      <3>1. authNow + expiry \in Nat
        BY <2>1
      <3>2. QED
        BY <2>1, <2>4, <3>1 DEF AuthorizationRequest
    <2>7. \A k \in DOMAIN signers :
            signers[k].signedAt = Undefined /\ signers[k].role = policy.roles[k]
              /\ SignerStory(signers[k], authNow, authNow + expiry, authNow)
      BY <2>2 DEF Signer, SignerStory
    <2>8. RequestStory(new, authNow)
      <3> HIDE DEF signers, expiry
      <3>1. /\ new.signers = signers /\ new.createdAt = authNow /\ new.expiresAt = authNow + expiry /\ new.policy = policy
        OBVIOUS
      <3>2. QED
        BY <2>1, <2>4, <2>7, <3>1 DEF RequestStory
    <2>9. \A a \in AuthAddresses : SignaturesOf(new, a) = {}
      <3> HIDE DEF signers
      <3>1. new.signers = signers
        OBVIOUS
      <3>2. QED
        BY <2>7, <3>1 DEF SignaturesOf
    <2> HIDE DEF new
    <2>10. new # Undefined
      BY <2>6, AuthAssumption
    <2>11. requests' \in [AuthRequests -> AuthorizationRequest \cup {Undefined}]
           /\ \A p \in AuthRequests : requests'[p] = IF p = r THEN new ELSE requests[p]
      BY <2>5, <2>6 DEF AuthInv
    <2>12. \A p \in Made' : RequestStory(requests'[p], authNow')
      BY <2>5, <2>8, <2>11 DEF AuthInv, Made
    <2>13. NoncesCounted'
      <3> SUFFICES ASSUME NEW p \in AuthRequests, NEW a \in AuthAddresses
                   PROVE  /\ IsFiniteSet(NoncesOf(p, a)')
                          /\ requests'[p] = Undefined => NoncesOf(p, a)' = {}
                          /\ requests'[p] # Undefined => Cardinality(NoncesOf(p, a)') = Cardinality(SignaturesOf(requests'[p], a))
        BY DEF NoncesCounted, SignaturesOf
      <3>1. NoncesOf(p, a)' = NoncesOf(p, a)
        BY <2>5 DEF NoncesOf
      <3>2. QED
        BY <2>5, <2>9, <2>10, <2>11, <3>1 DEF AuthInv, NoncesCounted
    <2>14. QED
      BY <2>5, <2>11, <2>12, <2>13 DEF AuthInv
  <1>2. ASSUME NEW r \in AuthRequests, NEW a \in AuthAddresses, NEW role \in SignerRoles, addSigner(r, a, role) PROVE AuthInv'
    <2> DEFINE S == {j \in DOMAIN requests[r].signers : requests[r].signers[j].role = role}
               i == IF S = {} THEN 0 ELSE Min(S)
    <2>1. /\ requests[r] # Undefined /\ i # 0 /\ requests[r].signers[i].address \in {"", a}
          /\ requests' = [requests EXCEPT ![r].signers[i].address = a] /\ UNCHANGED <<authNow, signerHistory>>
      BY <1>2 DEF addSigner, FindSigner
    <2>2. r \in Made
      BY <2>1 DEF Made
    <2>3. i \in S
      <3> HIDE DEF S
      <3>1. S \in SUBSET DOMAIN requests[r].signers
        BY DEF S
      <3>2. QED
        BY <2>1, <2>2, <3>1, FoundSigner
    <2> HIDE DEF i
    <2> DEFINE old == requests[r].signers[i]
               s == [old EXCEPT !.address = a]
    <2>4. i \in DOMAIN requests[r].signers /\ old \in SignerInfo
      BY <2>2, <2>3, RequestTypes
    <2>5. SignerStory(old, requests[r].createdAt, requests[r].expiresAt, authNow)
      BY <2>2, <2>4, RequestTypes DEF RequestStory
    <2>6. /\ s.address = a /\ s.role = old.role /\ s.state = old.state /\ s.signedAt = old.signedAt
          /\ s.rejectedAt = old.rejectedAt /\ s \in SignerInfo
      BY <2>4 DEF SignerInfo
    <2>7. SignerStory(s, requests[r].createdAt, requests[r].expiresAt, authNow)
      BY <2>5, <2>6, AuthFacts DEF SignerStory
    <2>8. \A b \in AuthAddresses : s.address = b /\ s.signedAt # Undefined <=> old.address = b /\ old.signedAt # Undefined
      BY <2>1, <2>5, <2>6 DEF SignerStory
    <2>9. requests' = [requests EXCEPT ![r].signers[i] = s]
      BY <2>1
    <2> HIDE DEF s, S
    <2>10. UNCHANGED <<authNow, signerHistory>>
      BY <2>1
    <2>11. QED
      BY <2>2, <2>4, <2>6, <2>7, <2>8, <2>9, <2>10, SignerUpdateUnsigned
  <1>3. ASSUME NEW r \in AuthRequests, NEW a \in AuthAddresses, NEW role \in SignerRoles, NEW n \in AuthNonces,
               recordSignature(r, a, role, n)
        PROVE  AuthInv'
    <2> DEFINE S == {j \in DOMAIN requests[r].signers : requests[r].signers[j].address = a /\ requests[r].signers[j].role = role}
               i == IF S = {} THEN 0 ELSE Min(S)
    <2>1. /\ requests[r] # Undefined /\ i # 0 /\ ~isExpired(r) /\ requests[r].signers[i].state = "pending"
          /\ <<r, a, n>> \notin signerHistory /\ signerHistory' = signerHistory \cup {<<r, a, n>>} /\ UNCHANGED authNow
          /\ requests' = [requests EXCEPT ![r].signers[i] = [@ EXCEPT !.state = "signed", !.signedAt = authNow]]
      BY <1>3 DEF recordSignature, FindSigner
    <2>2. r \in Made
      BY <2>1 DEF Made
    <2>3. i \in S
      <3> HIDE DEF S
      <3>1. S \in SUBSET DOMAIN requests[r].signers
        BY DEF S
      <3>2. QED
        BY <2>1, <2>2, <3>1, FoundSigner
    <2> HIDE DEF i
    <2> DEFINE old == requests[r].signers[i]
               s == [old EXCEPT !.state = "signed", !.signedAt = authNow]
               q == requests[r]
    <2>4. i \in DOMAIN requests[r].signers /\ old \in SignerInfo /\ old.address = a
      BY <2>2, <2>3, RequestTypes
    <2>5. SignerStory(old, requests[r].createdAt, requests[r].expiresAt, authNow)
      BY <2>2, <2>4, RequestTypes DEF RequestStory
    <2>6. authNow \in Nat /\ authNow # Undefined
      BY AuthFacts
    <2>7. /\ s.address = a /\ s.role = old.role /\ s.state = "signed" /\ s.signedAt = authNow
          /\ s.rejectedAt = old.rejectedAt /\ s \in SignerInfo
      BY <2>4, <2>6 DEF SignerInfo
    <2>8. q.createdAt \in Nat /\ q.expiresAt \in Nat /\ q.createdAt <= authNow /\ authNow <= q.expiresAt
      <3>1. q.createdAt \in Nat /\ q.expiresAt \in Nat /\ 1 <= q.createdAt /\ q.createdAt <= authNow /\ q.createdAt <= q.expiresAt
        BY <2>2, RequestTypes DEF RequestStory
      <3>2. QED
        BY <2>1, <2>6, <3>1 DEF isExpired
    <2>9. SignerStory(s, requests[r].createdAt, requests[r].expiresAt, authNow)
      <3>1. old.rejectedAt = Undefined
        BY <2>1, <2>5 DEF SignerStory
      <3> HIDE DEF s, old
      <3>2. "" # a
        BY AuthFacts
      <3>3. requests[r].createdAt <= authNow /\ authNow <= requests[r].expiresAt /\ authNow <= authNow
        BY <2>6, <2>8
      <3>4. s.rejectedAt = Undefined /\ s.address # ""
        BY <2>7, <3>1, <3>2
      <3>5. QED
        BY <2>6, <2>7, <3>3, <3>4 DEF SignerStory
    <2>10. requests' = [requests EXCEPT ![r].signers[i] = s]
      BY <2>1
    <2> HIDE DEF s, S
    <2> DEFINE new == [q EXCEPT !.signers[i] = s]
    <2>11. /\ q \in AuthorizationRequest /\ q.signers \in Seq(SignerInfo) /\ IsFiniteSet(DOMAIN q.signers)
      BY <2>2, RequestTypes
    <2>12. /\ new.signers = [q.signers EXCEPT ![i] = s] /\ DOMAIN new.signers = DOMAIN q.signers
           /\ requests' = [requests EXCEPT ![r] = new]
      BY <2>10, <2>11 DEF AuthorizationRequest
    <2>13. \A p \in AuthRequests : requests'[p] = IF p = r THEN new ELSE requests[p]
      <3> HIDE DEF new
      <3>1. QED
        BY <2>12 DEF AuthInv
    <2>14. old.signedAt = Undefined /\ i \notin SignaturesOf(q, a)
      BY <2>1, <2>5 DEF SignerStory, SignaturesOf
    <2>15. \A j \in DOMAIN q.signers : new.signers[j] = IF j = i THEN s ELSE q.signers[j]
      BY <2>4, <2>11, <2>12
    <2>16. SignaturesOf(new, a) = SignaturesOf(q, a) \cup {i}
      <3> HIDE DEF new
      <3>1. QED
        BY <2>4, <2>6, <2>7, <2>12, <2>15 DEF SignaturesOf
    <2>17. \A b \in AuthAddresses \ {a} : SignaturesOf(new, b) = SignaturesOf(q, b)
      <3> HIDE DEF new
      <3>1. QED
        BY <2>4, <2>7, <2>12, <2>15 DEF SignaturesOf
    <2> HIDE DEF new
    <2>18. NoncesOf(r, a)' = NoncesOf(r, a) \cup {n} /\ n \notin NoncesOf(r, a)
      BY <2>1 DEF NoncesOf
    <2>19. \A p \in AuthRequests, b \in AuthAddresses : p # r \/ b # a => NoncesOf(p, b)' = NoncesOf(p, b)
      BY <2>1 DEF NoncesOf
    <2>20. /\ IsFiniteSet(NoncesOf(r, a)')
           /\ Cardinality(NoncesOf(r, a)') = Cardinality(SignaturesOf(new, a))
      <3>1. IsFiniteSet(NoncesOf(r, a)) /\ Cardinality(NoncesOf(r, a)) = Cardinality(SignaturesOf(q, a))
        BY <2>1 DEF AuthInv, NoncesCounted
      <3>2. IsFiniteSet(SignaturesOf(q, a))
        <4>1. SignaturesOf(q, a) \subseteq DOMAIN q.signers
          BY DEF SignaturesOf
        <4>2. QED
          BY <2>11, <4>1, FS_Subset
      <3>3. IsFiniteSet(NoncesOf(r, a)') /\ Cardinality(NoncesOf(r, a)') = Cardinality(NoncesOf(r, a)) + 1
        BY <2>18, <3>1, FS_AddElement
      <3>4. Cardinality(SignaturesOf(new, a)) = Cardinality(SignaturesOf(q, a)) + 1
        BY <2>14, <2>16, <3>2, FS_AddElement
      <3>5. QED
        BY <3>1, <3>3, <3>4
    <2>21. NoncesCounted'
      <3> SUFFICES ASSUME NEW p \in AuthRequests, NEW b \in AuthAddresses
                   PROVE  /\ IsFiniteSet(NoncesOf(p, b)')
                          /\ requests'[p] = Undefined => NoncesOf(p, b)' = {}
                          /\ requests'[p] # Undefined => Cardinality(NoncesOf(p, b)') = Cardinality(SignaturesOf(requests'[p], b))
        BY DEF NoncesCounted, SignaturesOf
      <3>1. new # Undefined
        <4>1. new.signers \in Seq(SignerInfo)
          BY <2>4, <2>7, <2>11, <2>12
        <4>2. new \in AuthorizationRequest
          BY <2>11, <4>1 DEF new, AuthorizationRequest
        <4>3. QED
          BY <4>2, AuthAssumption
      <3>2. CASE p = r /\ b = a
        BY <2>13, <2>20, <3>1, <3>2
      <3>3. CASE p = r /\ b # a
        BY <2>1, <2>13, <2>17, <2>19, <3>1, <3>3 DEF AuthInv, NoncesCounted
      <3>4. CASE p # r
        BY <2>13, <2>19, <3>4 DEF AuthInv, NoncesCounted
      <3>5. QED
        BY <3>2, <3>3, <3>4
    <2>22. signerHistory' \subseteq AuthRequests \X AuthAddresses \X AuthNonces
      BY <2>1 DEF AuthInv
    <2>23. QED
      BY <2>1, <2>2, <2>4, <2>7, <2>9, <2>10, <2>21, <2>22, SignerUpdate
  <1>4. ASSUME NEW r \in AuthRequests, NEW a \in AuthAddresses, recordRejection(r, a) PROVE AuthInv'
    <2> DEFINE S == {j \in DOMAIN requests[r].signers : requests[r].signers[j].address = a}
               i == IF S = {} THEN 0 ELSE Min(S)
    <2>1. /\ requests[r] # Undefined /\ i # 0 /\ requests[r].signers[i].state = "pending" /\ UNCHANGED <<authNow, signerHistory>>
          /\ requests' = [requests EXCEPT ![r].signers[i] = [@ EXCEPT !.state = "rejected", !.rejectedAt = authNow]]
      BY <1>4 DEF recordRejection, FindSigner
    <2>2. r \in Made
      BY <2>1 DEF Made
    <2>3. i \in S
      <3> HIDE DEF S
      <3>1. S \in SUBSET DOMAIN requests[r].signers
        BY DEF S
      <3>2. QED
        BY <2>1, <2>2, <3>1, FoundSigner
    <2> HIDE DEF i
    <2> DEFINE old == requests[r].signers[i]
               s == [old EXCEPT !.state = "rejected", !.rejectedAt = authNow]
    <2>4. i \in DOMAIN requests[r].signers /\ old \in SignerInfo /\ old.address = a
      BY <2>2, <2>3, RequestTypes
    <2>5. SignerStory(old, requests[r].createdAt, requests[r].expiresAt, authNow)
      BY <2>2, <2>4, RequestTypes DEF RequestStory
    <2>6. authNow \in Nat /\ authNow # Undefined
      BY AuthFacts
    <2>7. /\ s.address = a /\ s.role = old.role /\ s.state = "rejected" /\ s.signedAt = old.signedAt
          /\ s.rejectedAt = authNow /\ s \in SignerInfo
      BY <2>4, <2>6 DEF SignerInfo
    <2>8. SignerStory(s, requests[r].createdAt, requests[r].expiresAt, authNow)
      <3>1. requests[r].createdAt <= authNow
        BY <2>2, RequestTypes DEF RequestStory
      <3>2. old.signedAt = Undefined
        BY <2>1, <2>5 DEF SignerStory
      <3> HIDE DEF s, old
      <3>3. QED
        BY <2>6, <2>7, <3>1, <3>2 DEF SignerStory
    <2>9. \A b \in AuthAddresses : s.address = b /\ s.signedAt # Undefined <=> old.address = b /\ old.signedAt # Undefined
      BY <2>4, <2>7
    <2>10. requests' = [requests EXCEPT ![r].signers[i] = s]
      BY <2>1
    <2> HIDE DEF s, S
    <2>11. QED
      BY <2>1, <2>2, <2>4, <2>7, <2>8, <2>9, <2>10, SignerUpdateUnsigned, ZenonT(60)
  <1>5. ASSUME NEW r \in AuthRequests, NEW a \in AuthAddresses, revokeSignature(r, a) PROVE AuthInv'
    <2> DEFINE S == {j \in DOMAIN requests[r].signers : requests[r].signers[j].address = a}
               i == IF S = {} THEN 0 ELSE Min(S)
    <2>1. /\ requests[r] # Undefined /\ i # 0 /\ UNCHANGED <<authNow, signerHistory>>
          /\ requests' = [requests EXCEPT ![r].signers[i].state = "revoked"]
      BY <1>5 DEF revokeSignature, FindSigner
    <2>2. r \in Made
      BY <2>1 DEF Made
    <2>3. i \in S
      <3> HIDE DEF S
      <3>1. S \in SUBSET DOMAIN requests[r].signers
        BY DEF S
      <3>2. QED
        BY <2>1, <2>2, <3>1, FoundSigner
    <2> HIDE DEF i
    <2> DEFINE old == requests[r].signers[i]
               s == [old EXCEPT !.state = "revoked"]
    <2>4. i \in DOMAIN requests[r].signers /\ old \in SignerInfo /\ old.address = a
      BY <2>2, <2>3, RequestTypes
    <2>5. SignerStory(old, requests[r].createdAt, requests[r].expiresAt, authNow)
      BY <2>2, <2>4, RequestTypes DEF RequestStory
    <2>6. /\ s.address = a /\ s.role = old.role /\ s.state = "revoked" /\ s.signedAt = old.signedAt
          /\ s.rejectedAt = old.rejectedAt /\ s \in SignerInfo
      BY <2>4 DEF SignerInfo
    <2>7. SignerStory(s, requests[r].createdAt, requests[r].expiresAt, authNow)
      BY <2>4, <2>5, <2>6, AuthFacts DEF SignerStory
    <2>8. \A b \in AuthAddresses : s.address = b /\ s.signedAt # Undefined <=> old.address = b /\ old.signedAt # Undefined
      BY <2>4, <2>6
    <2>9. requests' = [requests EXCEPT ![r].signers[i] = s]
      BY <2>1
    <2> HIDE DEF s, S
    <2>10. UNCHANGED <<authNow, signerHistory>>
      BY <2>1
    <2>11. QED
      BY <2>2, <2>4, <2>6, <2>7, <2>8, <2>9, <2>10, SignerUpdateUnsigned
  <1>6. CASE AuthTick
    <2>1. authNow' = authNow + 1 /\ authNow < AuthLastTime /\ UNCHANGED <<requests, signerHistory>>
      BY <1>6 DEF AuthTick
    <2>2. authNow' \in 1..AuthLastTime /\ authNow \in Nat
      <3>1. authNow \in Nat /\ 1 <= authNow /\ AuthLastTime \in Nat
        BY AuthFacts
      <3>2. QED
        BY <2>1, <3>1
    <2>3. \A r \in Made : RequestStory(requests[r], authNow')
      <3> TAKE r \in Made
      <3> DEFINE q == requests[r]
      <3>1. /\ q.createdAt \in Nat /\ q.expiresAt \in Nat /\ RequestStory(q, authNow)
            /\ \A k \in DOMAIN q.signers : q.signers[k] \in SignerInfo
        BY RequestTypes
      <3>2. \A k \in DOMAIN q.signers : q.signers[k].signedAt \in Nat \cup {Undefined} /\ q.signers[k].rejectedAt \in Nat \cup {Undefined}
        BY <3>1 DEF SignerInfo
      <3> HIDE DEF q
      <3>3. \A k \in DOMAIN q.signers : SignerStory(q.signers[k], q.createdAt, q.expiresAt, authNow')
        <4> TAKE k \in DOMAIN q.signers
        <4> DEFINE s == q.signers[k]
        <4>1. SignerStory(s, q.createdAt, q.expiresAt, authNow)
          BY <3>1 DEF RequestStory
        <4>2. s.signedAt \in Nat \cup {Undefined} /\ s.rejectedAt \in Nat \cup {Undefined}
          BY <3>2
        <4> HIDE DEF s
        <4>3. /\ s.signedAt # Undefined => s.signedAt <= authNow + 1
              /\ s.rejectedAt # Undefined => s.rejectedAt <= authNow + 1
          <5>1. s.signedAt # Undefined => s.signedAt \in Nat /\ s.signedAt <= authNow
            BY <4>1, <4>2 DEF SignerStory
          <5>2. s.rejectedAt # Undefined => s.rejectedAt \in Nat /\ s.rejectedAt <= authNow
            BY <4>1, <4>2 DEF SignerStory
          <5>3. QED
            BY <2>2, <5>1, <5>2
        <4>4. SignerStory(s, q.createdAt, q.expiresAt, authNow + 1)
          BY <4>1, <4>3 DEF SignerStory
        <4>5. QED
          BY <2>1, <4>4 DEF s
      <3>4. QED
        BY <2>1, <2>2, <3>1, <3>3 DEF RequestStory, q
    <2>4. NoncesCounted'
      BY <2>1, CountsKept DEF AuthInv
    <2>5. QED
      BY <2>1, <2>2, <2>3, <2>4 DEF AuthInv, Made
  <1>7. CASE UNCHANGED authVars
    <2>1. UNCHANGED <<authNow, requests, signerHistory>>
      BY <1>7 DEF authVars
    <2>2. NoncesCounted'
      BY <2>1, CountsKept DEF AuthInv
    <2>3. Made' = Made /\ \A r \in Made : RequestStory(requests'[r], authNow')
      BY <2>1 DEF AuthInv, Made
    <2>4. QED
      BY <2>1, <2>2, <2>3 DEF AuthInv
  <1>8. QED
    BY <1>1, <1>2, <1>3, <1>4, <1>5, <1>6, <1>7 DEF AuthNext

\* It holds throughout.
LEMMA AuthInvariant == OperationsSpec => []AuthInv
  <1>1. AuthInit => AuthInv
    <2> SUFFICES ASSUME AuthInit PROVE AuthInv
      OBVIOUS
    <2>1. authNow \in 1..AuthLastTime
      <3>1. AuthLastTime \in Nat /\ AuthLastTime # 0
        BY AuthAssumption
      <3>2. QED
        BY <3>1 DEF AuthInit
    <2>2. /\ requests \in [AuthRequests -> AuthorizationRequest \cup {Undefined}] /\ Made = {}
          /\ \A r \in AuthRequests : requests[r] = Undefined
      BY DEF AuthInit, Made
    <2>3. \A r \in AuthRequests, a \in AuthAddresses : NoncesOf(r, a) = {}
      BY DEF AuthInit, NoncesOf
    <2>4. NoncesCounted
      BY <2>2, <2>3, FS_EmptySet DEF NoncesCounted
    <2>5. QED
      BY <2>1, <2>2, <2>4 DEF AuthInit, AuthInv
  <1>2. OperationsInit => AuthInv
    BY <1>1 DEF OperationsInit
  <1>3. AuthInv /\ [OperationsNext]_operationsVars => AuthInv'
    BY AuthStep, OneComponentSteps
  <1>4. QED
    BY <1>2, <1>3, PTL DEF OperationsSpec

\* A request that was made passes the strict timestamp check.
LEMMA RequestsStandUp ==
  ASSUME AuthInv, NEW r \in Made
  PROVE  validateApprovalTimestamps(requests[r], authNow, TRUE) = {}
  <1> DEFINE q == requests[r]
  <1>1. /\ q.createdAt \in Nat /\ q.expiresAt \in Nat /\ q.createdAt <= authNow /\ q.createdAt <= q.expiresAt
        /\ \A k \in DOMAIN q.signers : q.signers[k] \in SignerInfo
        /\ \A k \in DOMAIN q.signers : SignerStory(q.signers[k], q.createdAt, q.expiresAt, authNow)
    BY RequestTypes DEF RequestStory
  <1>2. authNow \in Nat /\ ClockSkew \in Nat /\ Undefined \notin Nat
    BY AuthFacts
  <1>3. \A k \in DOMAIN q.signers : q.signers[k].signedAt \in Nat \cup {Undefined} /\ q.signers[k].rejectedAt \in Nat \cup {Undefined}
    BY <1>1 DEF SignerInfo
  <1> HIDE DEF q
  <1>4. requestIssues(q, authNow) = {}
    <2>1. isUsableTimestamp(q.createdAt) /\ isUsableTimestamp(q.expiresAt) /\ ~isEarly(q.expiresAt, q) /\ ~isLate(q.createdAt, authNow)
      BY <1>1, <1>2 DEF isUsableTimestamp, isEarly, isLate
    <2>2. QED
      BY <2>1 DEF requestIssues
  <1>5. ASSUME NEW k \in DOMAIN q.signers PROVE signerIssues(q.signers[k], q, authNow, TRUE) = {}
    <2> DEFINE s == q.signers[k]
    <2>1. /\ SignerStory(s, q.createdAt, q.expiresAt, authNow)
          /\ s.signedAt \in Nat \cup {Undefined} /\ s.rejectedAt \in Nat \cup {Undefined}
      BY <1>1, <1>3
    <2> HIDE DEF s
    <2>2. s.signedAt # Undefined =>
            /\ isUsableTimestamp(s.signedAt) /\ ~isEarly(s.signedAt, q) /\ ~isLate(s.signedAt, authNow)
            /\ ~(s.signedAt > q.expiresAt)
      <3>1. s.signedAt # Undefined =>
              s.signedAt \in Nat /\ q.createdAt <= s.signedAt /\ s.signedAt <= q.expiresAt /\ s.signedAt <= authNow
        BY <2>1 DEF SignerStory
      <3>2. QED
        BY <1>1, <1>2, <3>1 DEF isUsableTimestamp, isEarly, isLate
    <2>3. s.rejectedAt # Undefined =>
            isUsableTimestamp(s.rejectedAt) /\ ~isEarly(s.rejectedAt, q) /\ ~isLate(s.rejectedAt, authNow)
      <3>1. s.rejectedAt # Undefined => s.rejectedAt \in Nat /\ q.createdAt <= s.rejectedAt /\ s.rejectedAt <= authNow
        BY <2>1 DEF SignerStory
      <3>2. QED
        BY <1>1, <1>2, <3>1 DEF isUsableTimestamp, isEarly, isLate
    <2>4. /\ s.signedAt = Undefined => ~isUsableTimestamp(s.signedAt)
          /\ s.rejectedAt = Undefined => ~isUsableTimestamp(s.rejectedAt)
      BY DEF isUsableTimestamp
    <2>5. /\ ~(s.signedAt # Undefined /\ s.rejectedAt # Undefined)
          /\ ~(s.state \in {"signed", "rejected"} /\ s.signedAt = Undefined /\ s.rejectedAt = Undefined)
      BY <2>1 DEF SignerStory
    <2>6. signerIssues(s, q, authNow, TRUE) = {}
      BY <2>2, <2>3, <2>4, <2>5 DEF signerIssues
    <2>7. QED
      BY <2>6 DEF s
  <1>6. QED
    BY <1>4, <1>5 DEF validateApprovalTimestamps, q

(***************************************************************************)
(* ApprovalsSound for any requests, policies, signers, nonces, transfers   *)
(* and delegations: the coordinator's records pass the timestamp check, a  *)
(* nonce signs once, a used confirmation nonce is refused, a finalized     *)
(* transfer was accepted in time, a delegation shows whether it is in      *)
(* force (authorization/, core/executionConfirmationNonce.ts).             *)
(***************************************************************************)
THEOREM ApprovalsAreSound == OperationsSpec => []ApprovalsSound
  <1>1. AuthInv => AuthTypeOK /\ RecordsStandUp /\ OneSignaturePerNonce
    <2> SUFFICES ASSUME AuthInv PROVE AuthTypeOK /\ RecordsStandUp /\ OneSignaturePerNonce
      OBVIOUS
    <2>1. RecordsStandUp
      BY RequestsStandUp DEF RecordsStandUp
    <2>2. OneSignaturePerNonce
      BY RequestTypes DEF OneSignaturePerNonce, AuthInv, NoncesCounted, NoncesOf, SignaturesOf
    <2>3. ASSUME NEW r \in Made, NEW i \in DOMAIN requests[r].signers
          PROVE  /\ requests[r].signers[i].address \in AuthAddresses \cup {""}
                 /\ requests[r].signers[i].role = requests[r].policy.roles[i]
                 /\ requests[r].signers[i].state \in {"pending", "signed", "rejected", "revoked"}
      <3>1. /\ requests[r].signers[i] \in SignerInfo /\ requests[r].signers[i].role = requests[r].policy.roles[i]
            /\ SignerStory(requests[r].signers[i], requests[r].createdAt, requests[r].expiresAt, authNow)
        BY RequestTypes DEF RequestStory
      <3>2. QED
        BY <3>1 DEF SignerInfo, SignerStory
    <2>4. authNow \in 0..AuthLastTime
      <3>1. authNow \in Nat /\ AuthLastTime \in Nat /\ authNow <= AuthLastTime
        BY AuthFacts
      <3>2. QED
        BY <3>1
    <2>5. AuthTypeOK
      BY <2>3, <2>4, RequestTypes DEF AuthTypeOK, AuthInv
    <2>6. QED
      BY <2>1, <2>2, <2>5
  <1>2. NonceInv => NoLateConfirmation /\ ConfirmedIsStored
    BY DEF NonceInv, LateIsRefused, NoLateConfirmation
  <1>3. AuthInv /\ NonceInv /\ TransferInv => ApprovalsSound
    BY <1>1, <1>2, TransfersSound DEF ApprovalsSound
  <1>4. QED
    BY <1>3, AuthInvariant, NonceInvariant, TransferInvariant, PTL

-----------------------------------------------------------------------------
(***************************************************************************)
(* Reservations.  The log tells what the contract holds: reserved, then    *)
(* one terminal event, then attempts.  A copy is the reservation as it is  *)
(* or as it was while it was reserved.                                     *)
(***************************************************************************)
ReserveEvents ==
  [type : {"reserved", "released", "finalized", "expired", "duplicate_release_attempt"}, amount : Int, at : Nat,
   conflict : Nat]

\* A reservation the contract may hold, as it is read by a caller.
ReservationRecords ==
  [status : {"none", "reserved", "released", "finalized", "expired"}, amount : Nat, expiresAt : Nat, used : Int, released : Int]

OnChainOK ==
  /\ onChain \in ReservationRecords
  /\ onChain.used <= onChain.amount /\ onChain.released <= onChain.amount
  /\ onChain.status = "none" => onChain = NoReservation
  /\ onChain.status = "reserved" => onChain.used = Unknown /\ onChain.released = Unknown

\* The copy of one who has not looked since the reservation was made.
AsReserved(r) == [r EXCEPT !.status = "reserved", !.used = Unknown, !.released = Unknown]

CopiesOK ==
  /\ copies \in [Callers -> ReservationRecords]
  /\ \A c \in Callers :
       \/ copies[c] = NoReservation
       \/ onChain.status # "none" /\ copies[c] = decodeReservation(onChain)
       \/ onChain.status # "none" /\ copies[c] = AsReserved(onChain)

LogOK ==
  /\ reserveNow \in Nat
  /\ reserveLog \in Seq(ReserveEvents)
  /\ \A i, j \in 1..Len(reserveLog) : i <= j => reserveLog[i].at <= reserveLog[j].at
  /\ \A i \in 1..Len(reserveLog) : reserveLog[i].at <= reserveNow
  /\ onChain.status = "none" => Len(reserveLog) = 0
  /\ onChain.status = "reserved" => Len(reserveLog) = 1
  /\ onChain.status \notin {"none", "reserved"} =>
       /\ Len(reserveLog) >= 2
       /\ reserveLog[2].type = onChain.status
       /\ onChain.status = "released" => reserveLog[2].amount = onChain.released
       /\ onChain.status # "released" => Len(reserveLog) = 2
  /\ Len(reserveLog) >= 1 => reserveLog[1].type = "reserved"
  /\ \A i \in 3..Len(reserveLog) : reserveLog[i].type = "duplicate_release_attempt" /\ reserveLog[i].conflict = 2

ReserveInv == OnChainOK /\ CopiesOK /\ LogOK

\* Copies stay right when the contract keeps the amount and the expiry and leaves the reserved state.
LEMMA CopiesKept ==
  ASSUME ReserveInv, NEW c \in Callers, onChain.status = "reserved",
         onChain' \in ReservationRecords, onChain'.amount = onChain.amount, onChain'.expiresAt = onChain.expiresAt,
         onChain'.status # "none", Reply(c, onChain') \/ UNCHANGED copies
  PROVE  CopiesOK'
  <1> USE DEF ReserveInv, OnChainOK, CopiesOK, ReservationRecords
  <1>1. decodeReservation(onChain') \in ReservationRecords
    BY DEF decodeReservation, Unknown
  <1>2. AsReserved(onChain') = AsReserved(onChain) /\ decodeReservation(onChain) = AsReserved(onChain)
    BY ZenonT(60) DEF AsReserved, decodeReservation, Unknown
  <1>3. \A d \in Callers : copies[d] = NoReservation \/ copies[d] = AsReserved(onChain')
    BY <1>2
  <1>4. copies' \in [Callers -> ReservationRecords] /\ \A d \in Callers : copies'[d] \in {copies[d], decodeReservation(onChain')}
    BY <1>1 DEF Reply
  <1>5. AsReserved(onChain)' = AsReserved(onChain') /\ decodeReservation(onChain)' = decodeReservation(onChain')
    BY DEF AsReserved, decodeReservation
  <1>6. QED
    BY <1>3, <1>4, <1>5

\* An event added to the log leaves the others, and is of now.
LEMMA LogGrows ==
  ASSUME ReserveInv, NEW type \in {"reserved", "released", "finalized", "expired", "duplicate_release_attempt"},
         NEW amount \in Int, NEW conflict \in Nat, reserveLog' = Append(reserveLog, Event(type, amount, conflict)),
         UNCHANGED reserveNow
  PROVE  /\ Len(reserveLog') = Len(reserveLog) + 1 /\ Len(reserveLog) \in Nat
         /\ reserveLog' \in Seq(ReserveEvents)
         /\ reserveLog'[Len(reserveLog) + 1] = Event(type, amount, conflict)
         /\ \A i \in 1..Len(reserveLog) : reserveLog'[i] = reserveLog[i]
         /\ \A i, j \in 1..Len(reserveLog') : i <= j => reserveLog'[i].at <= reserveLog'[j].at
         /\ \A i \in 1..Len(reserveLog') : reserveLog'[i].at <= reserveNow'
  <1> DEFINE e == Event(type, amount, conflict)
             n == Len(reserveLog)
  <1>1. reserveNow \in Nat /\ e \in ReserveEvents /\ e.at = reserveNow
    BY DEF ReserveInv, LogOK, Event, ReserveEvents
  <1>2. reserveLog \in Seq(ReserveEvents) /\ \A i, j \in 1..n : i <= j => reserveLog[i].at <= reserveLog[j].at
    BY DEF ReserveInv, LogOK
  <1>3. \A i \in 1..n : reserveLog[i].at <= reserveNow
    BY DEF ReserveInv, LogOK
  <1> HIDE DEF e
  <1>4. /\ Len(reserveLog') = n + 1 /\ n \in Nat /\ reserveLog' \in Seq(ReserveEvents) /\ reserveLog'[n + 1] = e
        /\ \A i \in 1..n : reserveLog'[i] = reserveLog[i]
    BY <1>1, <1>2 DEF e
  <1> HIDE DEF n
  <1>5. \A i \in 1..(n + 1) : i \in 1..n \/ i = n + 1
    BY <1>4
  <1>6. \A i \in 1..(n + 1) : reserveLog'[i].at <= reserveNow
    BY <1>1, <1>3, <1>4, <1>5
  <1>7. \A i, j \in 1..(n + 1) : i <= j => reserveLog'[i].at <= reserveLog'[j].at
    <2> SUFFICES ASSUME NEW i \in 1..(n + 1), NEW j \in 1..(n + 1), i <= j PROVE reserveLog'[i].at <= reserveLog'[j].at
      OBVIOUS
    <2>1. CASE j = n + 1
      BY <1>1, <1>4, <1>6, <2>1
    <2>2. CASE j \in 1..n
      <3>1. i \in 1..n
        BY <1>4, <2>2
      <3>2. QED
        BY <1>2, <1>4, <2>2, <3>1 DEF n
    <2>3. QED
      BY <1>5, <2>1, <2>2
  <1>8. QED
    BY <1>4, <1>6, <1>7 DEF e, n

\* The contract leaves the reserved state with the second event of the log.
LEMMA SecondEvent ==
  ASSUME ReserveInv, NEW type \in {"released", "finalized", "expired"}, NEW amount \in Int, onChain.status = "reserved",
         reserveLog' = Append(reserveLog, Event(type, amount, 0)), onChain'.status = type,
         type = "released" => onChain'.released = amount, UNCHANGED reserveNow
  PROVE  LogOK'
  <1>1. /\ Len(reserveLog') = Len(reserveLog) + 1 /\ reserveLog' \in Seq(ReserveEvents)
        /\ reserveLog'[Len(reserveLog) + 1] = Event(type, amount, 0)
        /\ \A i \in 1..Len(reserveLog) : reserveLog'[i] = reserveLog[i]
        /\ \A i, j \in 1..Len(reserveLog') : i <= j => reserveLog'[i].at <= reserveLog'[j].at
        /\ \A i \in 1..Len(reserveLog') : reserveLog'[i].at <= reserveNow'
    <2>1. 0 \in Nat
      OBVIOUS
    <2>2. QED
      BY <2>1, LogGrows
  <1>2. Len(reserveLog) = 1 /\ reserveLog[1].type = "reserved" /\ reserveNow \in Nat
    BY DEF ReserveInv, LogOK
  <1>3. Event(type, amount, 0).type = type /\ Event(type, amount, 0).amount = amount
    BY DEF Event
  <1>4. Len(reserveLog') = 2 /\ reserveLog'[1].type = "reserved" /\ reserveLog'[2].type = type /\ reserveLog'[2].amount = amount
    BY <1>1, <1>2, <1>3
  <1>5. QED
    BY <1>1, <1>2, <1>4 DEF LogOK

\* Every step of the reservations keeps their invariant.
LEMMA ReserveStep == ReserveInv /\ [ReserveNext]_reserveVars => ReserveInv'
  <1> SUFFICES ASSUME ReserveInv, [ReserveNext]_reserveVars PROVE ReserveInv'
    OBVIOUS
  <1>0. /\ onChain \in ReservationRecords /\ onChain.amount \in Nat /\ onChain.expiresAt \in Nat /\ onChain.used \in Int
        /\ onChain.released \in Int /\ reserveNow \in Nat
        /\ onChain.used <= onChain.amount /\ onChain.released <= onChain.amount
    BY DEF ReserveInv, OnChainOK, ReservationRecords, LogOK
  <1>10. \A c \in Callers : copies[c].status # "none" => copies[c].amount = onChain.amount
    <2>1. \A c \in Callers :
            \/ copies[c] = NoReservation
            \/ copies[c] = decodeReservation(onChain)
            \/ copies[c] = AsReserved(onChain)
      BY DEF ReserveInv, CopiesOK
    <2>2. decodeReservation(onChain).amount = onChain.amount /\ AsReserved(onChain).amount = onChain.amount
      BY <1>0 DEF decodeReservation, AsReserved, ReservationRecords
    <2>3. NoReservation.status = "none"
      BY DEF NoReservation
    <2>4. QED
      BY <2>1, <2>2, <2>3
  <1>1. ASSUME NEW c \in Callers, NEW amount \in ReservedAmounts, reserve(c, amount) PROVE ReserveInv'
    <2>1. /\ onChain.status = "none" /\ amount \in Nat
          /\ onChain' = [NoReservation EXCEPT !.status = "reserved", !.amount = amount, !.expiresAt = reserveNow + Ttl]
          /\ reserveLog' = Append(reserveLog, Event("reserved", amount, 0)) /\ Reply(c, onChain') /\ UNCHANGED reserveNow
      BY <1>1, ReserveAssumption DEF reserve
    <2>2. reserveNow + Ttl \in Nat
      BY <1>0, ReserveAssumption
    <2>3. onChain' = [status |-> "reserved", amount |-> amount, expiresAt |-> reserveNow + Ttl, used |-> Unknown, released |-> Unknown]
      BY <2>1 DEF NoReservation
    <2>8. Unknown \in Int /\ Unknown < 0
      BY DEF Unknown
    <2>9. /\ onChain' \in ReservationRecords /\ onChain'.status = "reserved" /\ onChain'.amount = amount
          /\ onChain'.used = Unknown /\ onChain'.released = Unknown
      <3> DEFINE later == reserveNow + Ttl
      <3>1. later \in Nat /\ onChain' = [status |-> "reserved", amount |-> amount, expiresAt |-> later, used |-> Unknown, released |-> Unknown]
        BY <2>2, <2>3
      <3> HIDE DEF later
      <3>2. [status |-> "reserved", amount |-> amount, expiresAt |-> later, used |-> Unknown, released |-> Unknown] \in ReservationRecords
        BY <2>1, <2>8, <3>1 DEF ReservationRecords
      <3>3. onChain' \in ReservationRecords
        BY <3>1, <3>2, Zenon
      <3>4. QED
        BY <3>1, <3>3
    <2>4. OnChainOK'
      BY <2>1, <2>8, <2>9 DEF OnChainOK
    <2>5. CopiesOK'
      <3>1. decodeReservation(onChain') \in ReservationRecords /\ NoReservation \in ReservationRecords
        <4>1. NoReservation \in ReservationRecords
          BY <2>8 DEF ReservationRecords, NoReservation
        <4>2. decodeReservation(onChain') \in ReservationRecords
          BY <2>8, <2>9 DEF decodeReservation, ReservationRecords
        <4>3. QED
          BY <4>1, <4>2
      <3>2. \A d \in Callers : copies[d] = NoReservation
        BY <2>1 DEF ReserveInv, CopiesOK
      <3>3. copies' \in [Callers -> ReservationRecords] /\ \A d \in Callers : copies'[d] \in {copies[d], decodeReservation(onChain')}
        BY <2>1, <3>1 DEF Reply, ReserveInv, CopiesOK, ReservationRecords
      <3>4. onChain'.status # "none" /\ decodeReservation(onChain)' = decodeReservation(onChain')
        BY <2>3 DEF decodeReservation
      <3>5. QED
        BY <3>2, <3>3, <3>4 DEF CopiesOK, ReservationRecords
    <2>6. LogOK'
      <3>1. 0 \in Nat /\ amount \in Int /\ Len(reserveLog) = 0
        BY <2>1 DEF ReserveInv, LogOK
      <3>2. /\ Len(reserveLog') = Len(reserveLog) + 1 /\ reserveLog' \in Seq(ReserveEvents)
            /\ reserveLog'[Len(reserveLog) + 1] = Event("reserved", amount, 0)
            /\ \A i, j \in 1..Len(reserveLog') : i <= j => reserveLog'[i].at <= reserveLog'[j].at
            /\ \A i \in 1..Len(reserveLog') : reserveLog'[i].at <= reserveNow'
        BY <2>1, <3>1, LogGrows
      <3>3. Len(reserveLog') = 1 /\ reserveLog'[1].type = "reserved" /\ onChain'.status = "reserved"
        BY <2>3, <3>1, <3>2 DEF Event
      <3>4. QED
        BY <1>0, <2>1, <3>2, <3>3 DEF LogOK
    <2>7. QED
      BY <2>4, <2>5, <2>6 DEF ReserveInv
  <1>2. ASSUME NEW c \in Callers, NEW amount \in 0..(Max(ReservedAmounts) + 1), release(c, amount) PROVE ReserveInv'
    <2>1. amount \in Int /\ amount <= onChain.amount /\ UNCHANGED reserveNow
      BY <1>2, <1>10 DEF release, createPartialReleaseRequest
    <2>2. CASE /\ onChain.status = "reserved"
               /\ onChain' = [onChain EXCEPT !.status = "released", !.released = amount]
               /\ reserveLog' = Append(reserveLog, Event("released", amount, 0))
               /\ Reply(c, onChain')
      <3>1. /\ onChain' \in ReservationRecords /\ onChain'.amount = onChain.amount /\ onChain'.expiresAt = onChain.expiresAt
            /\ onChain'.status = "released" /\ onChain'.released = amount /\ onChain'.used = onChain.used
        BY <1>0, <2>1, <2>2 DEF ReservationRecords
      <3>2. OnChainOK'
        BY <1>0, <2>1, <3>1 DEF OnChainOK, ReservationRecords
      <3>3. CopiesOK'
        BY <2>2, <3>1, CopiesKept
      <3>4. LogOK'
        BY <2>1, <2>2, <3>1, SecondEvent
      <3>5. QED
        BY <3>2, <3>3, <3>4 DEF ReserveInv
    <2>3. CASE /\ onChain.status = "released" /\ UNCHANGED <<onChain, copies>>
               /\ reserveLog' = Append(reserveLog, Event("duplicate_release_attempt", amount, SelectInSeq(reserveLog, LAMBDA e : e.type = "released")))
      <3> DEFINE I == {i \in 1..Len(reserveLog) : reserveLog[i].type = "released"}
      <3>1. /\ Len(reserveLog) \in Nat /\ Len(reserveLog) >= 2 /\ reserveLog[1].type = "reserved" /\ reserveLog[2].type = "released"
            /\ \A i \in 3..Len(reserveLog) : reserveLog[i].type = "duplicate_release_attempt"
        BY <2>3 DEF ReserveInv, LogOK
      <3>2. I = {2}
        <4>1. \A i \in 1..Len(reserveLog) : i = 1 \/ i = 2 \/ i \in 3..Len(reserveLog)
          BY <3>1
        <4>2. QED
          BY <3>1, <4>1
      <3>3. SelectInSeq(reserveLog, LAMBDA e : e.type = "released") = 2
        <4>1. Min(I) \in I
          BY <3>2, Smallest, SMTT(30)
        <4>2. QED
          BY <3>2, <4>1 DEF SelectInSeq
      <3>4. reserveLog' = Append(reserveLog, Event("duplicate_release_attempt", amount, 2)) /\ 2 \in Nat
        BY <2>3, <3>3
      <3>5. /\ Len(reserveLog') = Len(reserveLog) + 1 /\ reserveLog' \in Seq(ReserveEvents)
            /\ reserveLog'[Len(reserveLog) + 1] = Event("duplicate_release_attempt", amount, 2)
            /\ \A i \in 1..Len(reserveLog) : reserveLog'[i] = reserveLog[i]
            /\ \A i, j \in 1..Len(reserveLog') : i <= j => reserveLog'[i].at <= reserveLog'[j].at
            /\ \A i \in 1..Len(reserveLog') : reserveLog'[i].at <= reserveNow'
        BY <2>1, <3>4, LogGrows
      <3>6. \A i \in 3..Len(reserveLog') : reserveLog'[i].type = "duplicate_release_attempt" /\ reserveLog'[i].conflict = 2
        <4>1. \A i \in 3..Len(reserveLog') : i \in 3..Len(reserveLog) \/ i = Len(reserveLog) + 1
          BY <3>1, <3>5
        <4>2. /\ Event("duplicate_release_attempt", amount, 2).type = "duplicate_release_attempt"
              /\ Event("duplicate_release_attempt", amount, 2).conflict = 2
          BY DEF Event
        <4>3. \A i \in 3..Len(reserveLog) : i \in 1..Len(reserveLog)
          BY <3>1
        <4>4. QED
          BY <3>5, <4>1, <4>2, <4>3 DEF ReserveInv, LogOK
      <3>7. /\ reserveLog'[1] = reserveLog[1] /\ reserveLog'[2] = reserveLog[2] /\ Len(reserveLog') >= 2
        BY <3>1, <3>5
      <3>8. LogOK'
        BY <2>1, <2>3, <3>1, <3>5, <3>6, <3>7 DEF ReserveInv, LogOK
      <3>9. QED
        BY <2>3, <3>8 DEF ReserveInv, OnChainOK, CopiesOK, decodeReservation, AsReserved
    <2>4. QED
      BY <1>2, <2>2, <2>3 DEF release
  <1>3. ASSUME NEW c \in Callers, NEW used \in 0..(Max(ReservedAmounts) + 1), finalize(c, used) PROVE ReserveInv'
    <2>1. /\ used \in Int /\ used <= onChain.amount /\ onChain.status = "reserved" /\ UNCHANGED reserveNow
          /\ onChain' = [onChain EXCEPT !.status = "finalized", !.used = used]
          /\ reserveLog' = Append(reserveLog, Event("finalized", used, 0)) /\ Reply(c, onChain')
      BY <1>3, <1>10 DEF finalize
    <2>2. /\ onChain' \in ReservationRecords /\ onChain'.amount = onChain.amount /\ onChain'.expiresAt = onChain.expiresAt
          /\ onChain'.status = "finalized" /\ onChain'.released = onChain.released /\ onChain'.used = used
      BY <1>0, <2>1 DEF ReservationRecords
    <2>3. OnChainOK'
      BY <1>0, <2>1, <2>2 DEF OnChainOK, ReservationRecords
    <2>4. CopiesOK'
      BY <2>1, <2>2, CopiesKept
    <2>5. LogOK'
      BY <2>1, <2>2, SecondEvent
    <2>6. QED
      BY <2>3, <2>4, <2>5 DEF ReserveInv
  <1>4. ASSUME NEW c \in Callers, checkStatus(c) PROVE ReserveInv'
    <2>1. decodeReservation(onChain) \in ReservationRecords
      BY <1>0 DEF decodeReservation, Unknown, ReservationRecords
    <2>2. CopiesOK'
      BY <1>4, <2>1 DEF checkStatus, ReserveInv, CopiesOK, ReservationRecords, decodeReservation, AsReserved
    <2>3. QED
      BY <1>4, <2>2 DEF checkStatus, ReserveInv, OnChainOK, LogOK
  <1>5. CASE ContractExpires
    <2>1. /\ onChain.status = "reserved" /\ onChain' = [onChain EXCEPT !.status = "expired"]
          /\ reserveLog' = Append(reserveLog, Event("expired", onChain.amount, 0)) /\ UNCHANGED <<reserveNow, copies>>
      BY <1>5 DEF ContractExpires
    <2>2. /\ onChain' \in ReservationRecords /\ onChain'.amount = onChain.amount /\ onChain'.expiresAt = onChain.expiresAt
          /\ onChain'.status = "expired" /\ onChain'.released = onChain.released /\ onChain'.used = onChain.used
      BY <1>0, <2>1 DEF ReservationRecords
    <2>3. OnChainOK'
      BY <1>0, <2>2 DEF OnChainOK, ReservationRecords
    <2>4. CopiesOK'
      <3>1. CASE Callers = {}
        BY <2>1, <3>1 DEF CopiesOK, ReserveInv
      <3>2. CASE Callers # {}
        BY <2>1, <2>2, <3>2, CopiesKept
      <3>3. QED
        BY <3>1, <3>2
    <2>5. LogOK'
      BY <1>0, <2>1, <2>2, SecondEvent
    <2>6. QED
      BY <2>3, <2>4, <2>5 DEF ReserveInv
  <1>6. CASE ReserveTick
    <2>1. reserveNow' = reserveNow + 1 /\ UNCHANGED <<onChain, reserveLog, copies>>
      BY <1>6 DEF ReserveTick
    <2>2. \A i \in 1..Len(reserveLog) : reserveLog[i].at <= reserveNow + 1
      <3>1. \A i \in 1..Len(reserveLog) : reserveLog[i] \in ReserveEvents /\ reserveLog[i].at <= reserveNow
        BY DEF ReserveInv, LogOK
      <3>2. \A i \in 1..Len(reserveLog) : reserveLog[i].at \in Nat
        BY <3>1 DEF ReserveEvents
      <3>3. QED
        BY <1>0, <3>1, <3>2
    <2>3. LogOK'
      BY <1>0, <2>1, <2>2 DEF ReserveInv, LogOK
    <2>4. QED
      BY <2>1, <2>3 DEF ReserveInv, OnChainOK, CopiesOK, decodeReservation, AsReserved
  <1>7. CASE UNCHANGED reserveVars
    BY <1>7 DEF reserveVars, ReserveInv, OnChainOK, CopiesOK, LogOK, decodeReservation, AsReserved
  <1>8. QED
    BY <1>1, <1>2, <1>3, <1>4, <1>5, <1>6, <1>7 DEF ReserveNext

\* It holds throughout.
LEMMA ReserveInvariant == OperationsSpec => []ReserveInv
  <1>1. ReserveInit => ReserveInv
    <2> SUFFICES ASSUME ReserveInit PROVE ReserveInv
      OBVIOUS
    <2>1. Unknown \in Int /\ Unknown < 0
      BY DEF Unknown
    <2>2. /\ NoReservation \in ReservationRecords /\ NoReservation.status = "none" /\ NoReservation.amount = 0
          /\ NoReservation.used = Unknown /\ NoReservation.released = Unknown
      BY <2>1 DEF NoReservation, ReservationRecords
    <2>3. OnChainOK
      BY <2>1, <2>2 DEF ReserveInit, OnChainOK
    <2>4. CopiesOK
      BY <2>2 DEF ReserveInit, CopiesOK
    <2>5. LogOK
      BY <2>2 DEF ReserveInit, LogOK
    <2>6. QED
      BY <2>3, <2>4, <2>5 DEF ReserveInv
  <1>2. OperationsInit => ReserveInv
    BY <1>1 DEF OperationsInit
  <1>3. ReserveInv /\ [OperationsNext]_operationsVars => ReserveInv'
    BY ReserveStep, OneComponentSteps
  <1>4. QED
    BY <1>2, <1>3, PTL DEF OperationsSpec

\* What a caller holds, field by field.
LEMMA CopyFields ==
  ASSUME ReserveInv, NEW c \in Callers
  PROVE  /\ copies[c].amount \in Nat /\ copies[c].used \in Int /\ copies[c].used <= copies[c].amount
         /\ copies[c].released = Unknown
  <1>1. /\ copies[c] \in ReservationRecords /\ onChain \in ReservationRecords /\ onChain.used <= onChain.amount
        /\ copies[c] = NoReservation \/ copies[c] = decodeReservation(onChain) \/ copies[c] = AsReserved(onChain)
    BY DEF ReserveInv, OnChainOK, CopiesOK
  <1>2. copies[c].amount \in Nat /\ copies[c].used \in Int /\ onChain.amount \in Nat /\ Unknown < 0 /\ Unknown \in Int
    BY <1>1 DEF ReservationRecords, Unknown
  <1>3. CASE copies[c] = NoReservation
    BY <1>2, <1>3 DEF NoReservation, Unknown
  <1>4. CASE copies[c] = decodeReservation(onChain)
    <2>1. copies[c].amount = onChain.amount /\ copies[c].used = onChain.used /\ copies[c].released = Unknown
      BY <1>1, <1>4 DEF decodeReservation, ReservationRecords
    <2>2. QED
      BY <1>1, <1>2, <2>1
  <1>5. CASE copies[c] = AsReserved(onChain)
    <2>1. copies[c].amount = onChain.amount /\ copies[c].used = Unknown /\ copies[c].released = Unknown
      BY <1>1, <1>5 DEF AsReserved, ReservationRecords
    <2>2. QED
      BY <1>1, <1>2, <2>1
  <1>6. QED
    BY <1>1, <1>3, <1>4, <1>5

\* No more is used and released than was reserved.
LEMMA FundsFromReservation == ReserveInv => NeverMoreThanReserved
  <1> SUFFICES ASSUME ReserveInv PROVE NeverMoreThanReserved
    OBVIOUS
  <1>1. onChain.used <= onChain.amount /\ onChain.released <= onChain.amount
    BY DEF ReserveInv, OnChainOK
  <1>2. ASSUME NEW c \in Callers PROVE calculateReservationRemaining(copies[c]) \in 0..copies[c].amount
    <2> DEFINE a == copies[c].amount
               u == copies[c].used
    <2>1. a \in Nat /\ u \in Int /\ u <= a /\ ~(copies[c].released > 0)
      BY CopyFields DEF Unknown
    <2>2. calculateReservationRemaining(copies[c]) \in {a, 0} \/ (u > 0 /\ calculateReservationRemaining(copies[c]) = a - u)
      BY <2>1 DEF calculateReservationRemaining
    <2>3. QED
      BY <2>1, <2>2
  <1>3. QED
    BY <1>1, <1>2 DEF NeverMoreThanReserved

\* The contract's reservation, when the reconciliation finds nothing.
LEMMA MatchFinds ==
  ASSUME NEW expected, NEW observed, NEW log, reconcileSingleReservation(expected, observed, log) = "match"
  PROVE  /\ expected.status # "none" /\ observed.status # "none"
         /\ expected.status = observed.status /\ ~isExpiredNotMarked(observed)
  <1> DEFINE compared == << <<detectDuplicateReleases(log) # {}, "duplicate_release">>,
                            <<isExpiredNotMarked(observed), "expired_not_marked">>,
                            <<expected.status # observed.status, "status_mismatch">>,
                            <<expected.amount # observed.amount, "amount_mismatch">> >>
             o == compareReservationStates(expected, observed, log)
             present == << <<expected.status = "none" /\ observed.status = "none", "unexpected_on_chain">>,
                           <<observed.status = "none", "missing_on_chain">>,
                           <<expected.status = "none", "unexpected_on_chain">> >>
  <1>1. reconcileSingleReservation(expected, observed, log) = FirstOf(present, o) /\ o = FirstOf(compared, "match")
    BY DEF reconcileSingleReservation, compareReservationStates
  <1>2. DOMAIN present \subseteq Nat /\ \A i \in DOMAIN present : present[i][2] # "match"
    OBVIOUS
  <1>3. DOMAIN compared \subseteq Nat /\ \A i \in DOMAIN compared : compared[i][2] # "match"
    OBVIOUS
  <1>4. 1 \in DOMAIN present /\ 2 \in DOMAIN present /\ 3 \in DOMAIN present
    OBVIOUS
  <1>5. 2 \in DOMAIN compared /\ 3 \in DOMAIN compared
    OBVIOUS
  <1>6. (present[2][1] <=> observed.status = "none") /\ (present[3][1] <=> expected.status = "none")
    OBVIOUS
  <1>7. (compared[2][1] <=> isExpiredNotMarked(observed)) /\ (compared[3][1] <=> expected.status # observed.status)
    OBVIOUS
  <1> HIDE DEF compared, present, o
  <1>8. o = "match" /\ \A i \in DOMAIN present : ~present[i][1]
    BY <1>1, <1>2, FirstThatApplies
  <1>9. \A i \in DOMAIN compared : ~compared[i][1]
    BY <1>1, <1>3, <1>8, NothingFound
  <1>10. QED
    BY <1>4, <1>5, <1>6, <1>7, <1>8, <1>9

\* A copy that matches is up to date.
LEMMA MatchIsCurrent == ReserveInv => MatchMeansCurrent
  <1> SUFFICES ASSUME ReserveInv PROVE MatchMeansCurrent
    OBVIOUS
  <1>1. ASSUME NEW c \in Callers, reconcileSingleReservation(copies[c], onChain, reserveLog) = "match"
        PROVE  /\ copies[c] = decodeReservation(onChain)
               /\ onChain.status = "reserved" => ~isReservationExpired(copies[c])
    <2>1. copies[c].status # "none" /\ copies[c].status = onChain.status /\ ~isExpiredNotMarked(onChain)
      BY <1>1, MatchFinds
    <2>2. onChain \in ReservationRecords
      BY DEF ReserveInv, OnChainOK
    <2>3. copies[c] = decodeReservation(onChain) \/ copies[c] = AsReserved(onChain)
      BY <2>1 DEF ReserveInv, CopiesOK, NoReservation
    <2>4. ASSUME copies[c] = AsReserved(onChain) PROVE copies[c] = decodeReservation(onChain)
      <3>1. onChain.status = "reserved"
        BY <2>1, <2>2, <2>4 DEF AsReserved, ReservationRecords
      <3>2. onChain.used = Unknown /\ onChain.released = Unknown
        BY <3>1 DEF ReserveInv, OnChainOK
      <3>3. AsReserved(onChain) = decodeReservation(onChain)
        BY <2>2, <3>1, <3>2 DEF AsReserved, decodeReservation, ReservationRecords
      <3>4. QED
        BY <2>4, <3>3
    <2>5. decodeReservation(onChain).expiresAt = onChain.expiresAt
      BY <2>2 DEF decodeReservation, ReservationRecords
    <2>6. QED
      BY <2>1, <2>3, <2>4, <2>5 DEF isExpiredNotMarked, isReservationExpired
  <1>2. QED
    BY <1>1 DEF MatchMeansCurrent, isFullyReconciled

\* The log has at most two states, and attempts of a release after them.
LEMMA LogShape ==
  ASSUME ReserveInv
  PROVE  /\ Len(reserveLog) \in Nat /\ DOMAIN reserveLog = 1..Len(reserveLog)
         /\ Len(reserveLog) >= 1 => reserveLog[1].type = "reserved"
         /\ Len(reserveLog) >= 2 => reserveLog[2].type \in {"released", "finalized", "expired"}
         /\ Len(reserveLog) >= 3 => reserveLog[2].type = "released" /\ reserveLog[2].amount = onChain.released
         /\ \A i \in DOMAIN reserveLog : i \in {1, 2} \/ i \in 3..Len(reserveLog)
         /\ \A i \in 3..Len(reserveLog) : reserveLog[i].type = "duplicate_release_attempt" /\ reserveLog[i].conflict = 2
  <1>1. Len(reserveLog) \in Nat /\ DOMAIN reserveLog = 1..Len(reserveLog)
    BY DEF ReserveInv, LogOK
  <1>2. onChain.status \in {"none", "reserved", "released", "finalized", "expired"}
    BY DEF ReserveInv, OnChainOK, ReservationRecords
  <1>3. \A i \in DOMAIN reserveLog : i \in {1, 2} \/ i \in 3..Len(reserveLog)
    BY <1>1
  <1>4. QED
    BY <1>1, <1>2, <1>3 DEF ReserveInv, LogOK

\* A second release, or a release beside a use, is never found; something after the end is, where a release was retried.
LEMMA NoIssueInLog ==
  ASSUME ReserveInv
  PROVE  /\ "finalized and released" \notin detectReservationIssues(reserveLog)
         /\ "multiple releases" \notin detectReservationIssues(reserveLog)
         /\ "after terminal" \in detectReservationIssues(reserveLog)
              <=> \E i \in DOMAIN reserveLog : reserveLog[i].type = "duplicate_release_attempt"
  <1> DEFINE n(types) == Cardinality({i \in DOMAIN reserveLog : reserveLog[i].type \in types})
             late == \E i, j \in DOMAIN reserveLog :
                       i < j /\ reserveLog[i].type \in terminalStates /\ reserveLog[j].type \notin terminalStates
  <1>1. ASSUME NEW types \in {{"released"}, {"finalized", "released"}} PROVE ~(n(types) > 1)
    <2> DEFINE S == {i \in DOMAIN reserveLog : reserveLog[i].type \in types}
    <2>1. S \subseteq {2}
      BY LogShape
    <2>2. IsFiniteSet({2}) /\ Cardinality({2}) = 1
      BY FS_Singleton
    <2>3. Cardinality(S) <= 1 /\ Cardinality(S) \in Nat
      BY <2>1, <2>2, FS_Subset, FS_CardinalityType
    <2>4. QED
      BY <2>3
  <1> DEFINE twice == n({"released"}) > 1
             beside == n({"finalized", "released"}) > 1
  <1>2. ~twice /\ ~beside
    BY <1>1
  <1> DEFINE checks == << <<twice, "multiple releases">>, <<beside, "finalized and released">>, <<late, "after terminal">> >>
  <1>3. detectReservationIssues(reserveLog) = AllOf(checks)
    BY DEF detectReservationIssues
  <1> DEFINE retried == \E i \in DOMAIN reserveLog : reserveLog[i].type = "duplicate_release_attempt"
  <1>a. late <=> retried
    <2>1. ASSUME late PROVE retried
      <3>1. PICK i, j \in DOMAIN reserveLog : i < j /\ reserveLog[i].type \in terminalStates /\ reserveLog[j].type \notin terminalStates
        BY <2>1
      <3>2. i # 1
        BY <3>1, LogShape DEF terminalStates
      <3>3. j # 1 /\ j # 2
        BY <3>1, LogShape DEF terminalStates
      <3>4. j \in 3..Len(reserveLog)
        BY <3>3, LogShape
      <3>5. QED
        BY <3>4, LogShape
    <2>2. ASSUME retried PROVE late
      <3>1. PICK j \in DOMAIN reserveLog : reserveLog[j].type = "duplicate_release_attempt"
        BY <2>2
      <3>2. /\ j \in 1..Len(reserveLog) /\ Len(reserveLog) \in Nat
            /\ Len(reserveLog) >= 1 => reserveLog[1].type = "reserved"
            /\ Len(reserveLog) >= 2 => reserveLog[2].type \in {"released", "finalized", "expired"}
        BY LogShape
      <3>3. j >= 3 /\ Len(reserveLog) >= 3
        BY <3>1, <3>2
      <3>4. 2 \in DOMAIN reserveLog /\ reserveLog[2].type = "released"
        BY <3>3, LogShape
      <3>5. 2 < j /\ reserveLog[2].type \in terminalStates /\ reserveLog[j].type \notin terminalStates
        BY <3>1, <3>3, <3>4 DEF terminalStates
      <3>6. QED
        BY <3>4, <3>5
    <2>3. QED
      BY <2>1, <2>2
  <1> HIDE DEF n, late, twice, beside, retried
  <1>4. DOMAIN checks = 1..3
    OBVIOUS
  <1>5. /\ checks[1][1] = twice /\ checks[2][1] = beside /\ checks[3][1] = late /\ checks[3][2] = "after terminal"
        /\ checks[1][2] # "after terminal" /\ checks[2][2] # "after terminal"
    OBVIOUS
  <1> HIDE DEF checks
  <1>6. \A i \in DOMAIN checks : checks[i][1] => checks[i][2] = "after terminal"
    <2>1. ~checks[1][1] /\ ~checks[2][1]
      BY <1>2, <1>5, Zenon
    <2>2. \A i \in DOMAIN checks : i = 1 \/ i = 2 \/ i = 3
      BY <1>4
    <2>3. QED
      BY <1>5, <2>1, <2>2, Zenon
  <1>7. "after terminal" \in AllOf(checks) <=> late
    <2>1. \A i \in DOMAIN checks : i = 1 \/ i = 2 \/ i = 3
      BY <1>4
    <2>2. 3 \in DOMAIN checks
      BY <1>4
    <2>3. QED
      BY <1>5, <2>1, <2>2 DEF AllOf
  <1>8. QED
    BY <1>3, <1>6, <1>7, <1>a DEF AllOf, retried

\* The sort by time leaves the order of the log as it is.
LEMMA TimeOrder ==
  ASSUME ReserveInv, NEW i \in DOMAIN reserveLog, NEW j \in DOMAIN reserveLog
  PROVE  (reserveLog[i].at < reserveLog[j].at \/ (reserveLog[i].at = reserveLog[j].at /\ i < j)) <=> i < j
  <1>1. /\ reserveLog \in Seq(ReserveEvents) /\ i \in 1..Len(reserveLog) /\ j \in 1..Len(reserveLog)
        /\ i <= j => reserveLog[i].at <= reserveLog[j].at
        /\ j <= i => reserveLog[j].at <= reserveLog[i].at
    BY LogShape DEF ReserveInv, LogOK
  <1>2. reserveLog[i] \in ReserveEvents /\ reserveLog[j] \in ReserveEvents
    BY <1>1
  <1>3. reserveLog[i].at \in Nat /\ reserveLog[j].at \in Nat
    BY <1>2 DEF ReserveEvents
  <1>4. QED
    BY <1>1, <1>3

\* One transition out of the reserved state, and attempts after a release.
LEMMA TimelineShape ==
  ASSUME ReserveInv, NEW t \in buildReservationTimeline(reserveLog)
  PROVE  t = <<"reserved", reserveLog[2].type>> \/ t = <<"released", "duplicate_release_attempt">>
  <1> DEFINE log == reserveLog
             states == {i \in DOMAIN log : log[i].type \in {"reserved"} \cup terminalStates}
             before(i, j) == log[i].at < log[j].at \/ (log[i].at = log[j].at /\ i < j)
  <1>1. PICK p \in states \X DOMAIN log :
          /\ before(p[1], p[2]) /\ log[p[1]].type # log[p[2]].type
          /\ \A k \in states : ~(before(p[1], k) /\ before(k, p[2]))
          /\ t = <<log[p[1]].type, log[p[2]].type>>
    BY DEF buildReservationTimeline
  <1>2. PICK i \in states, j \in DOMAIN log : i = p[1] /\ j = p[2]
    OBVIOUS
  <1>3. \A k, m \in DOMAIN log : before(k, m) <=> k < m
    BY TimeOrder
  <1>4. /\ i < j /\ \A k \in states : ~(i < k /\ k < j)
    BY <1>1, <1>2, <1>3
  <1>5. states \subseteq {1, 2}
    BY LogShape DEF terminalStates
  <1>6. DOMAIN log = 1..Len(log) /\ Len(log) \in Nat
    BY LogShape
  <1>7. CASE i = 1
    <2>1. Len(log) >= 2 /\ log[1].type = "reserved" /\ 2 \in states
      BY <1>4, <1>6, <1>7, LogShape DEF terminalStates
    <2>2. j = 2
      BY <1>4, <1>6, <1>7, <2>1
    <2>3. QED
      BY <1>1, <1>2, <1>7, <2>1, <2>2
  <1>8. CASE i = 2
    <2>1. j \in 3..Len(log) /\ Len(log) >= 3
      BY <1>4, <1>6, <1>8
    <2>2. log[2].type = "released" /\ log[j].type = "duplicate_release_attempt"
      BY <2>1, LogShape
    <2>3. QED
      BY <1>1, <1>2, <1>8, <2>2
  <1>9. QED
    BY <1>5, <1>7, <1>8

\* A repeated request is recognised by what the log already holds.
LEMMA RetriesAreRecognised == ReserveInv => RetriesRecognised
  <1> SUFFICES ASSUME ReserveInv PROVE RetriesRecognised
    OBVIOUS
  <1>1. /\ "finalized and released" \notin detectReservationIssues(reserveLog)
        /\ "multiple releases" \notin detectReservationIssues(reserveLog)
        /\ "after terminal" \in detectReservationIssues(reserveLog)
             <=> \E i \in DOMAIN reserveLog : reserveLog[i].type = "duplicate_release_attempt"
    BY NoIssueInLog
  <1>2. ASSUME NEW t \in buildReservationTimeline(reserveLog), NEW u \in buildReservationTimeline(reserveLog)
        PROVE  /\ t[1] = "reserved" /\ u[1] = "reserved" => t = u
               /\ t[1] # "reserved" => t = <<"released", "duplicate_release_attempt">>
    BY TimelineShape
  <1>3. ASSUME NEW i \in DOMAIN reserveLog, reserveLog[i].type = "duplicate_release_attempt"
        PROVE  classifyDuplicateRelease(reserveLog[i], reserveLog) = "duplicate_release_attempt"
                 <=> reserveLog[i].amount = onChain.released
    <2>1. i \in 3..Len(reserveLog)
      BY <1>3, LogShape
    <2>2. /\ reserveLog[i].conflict = 2 /\ reserveLog[2].amount = onChain.released /\ 2 \in DOMAIN reserveLog
      BY <2>1, LogShape
    <2>3. QED
      BY <2>2 DEF classifyDuplicateRelease
  <1>4. QED
    BY <1>1, <1>2, <1>3 DEF RetriesRecognised

(***************************************************************************)
(* For every number of callers, amounts, lifetime and length of the log:   *)
(* what is released and used never exceeds what was reserved, "match" is   *)
(* only told of a current copy, a retried release after a lost reply is    *)
(* recognised, and it is all that the log is charged with                  *)
(* (TreasuryReservationClient.ts, reservations/helpers.ts,                 *)
(* ReservationReconciliationHelper.ts).                                    *)
(***************************************************************************)
THEOREM ReservationsAreSound == OperationsSpec => []ReservationsSound
  <1>1. ReserveInv => ReservationsSound
    BY FundsFromReservation, MatchIsCurrent, RetriesAreRecognised DEF ReservationsSound
  <1>2. QED
    BY <1>1, ReserveInvariant, PTL

-----------------------------------------------------------------------------
(***************************************************************************)
(* Page walks.  What is about to be asked for was not asked for before,    *)
(* because seen has every cursor that was, or will have when the answer is *)
(* looked at; and the items offered so far were yielded.                   *)
(***************************************************************************)
AnyCursor == PageCursors \cup {NoCursor}

Walks ==
  [kind : {"guarded", "periods"}, pc : {"fetch", "await", "ended"}, cursor : AnyCursor, seen : SUBSET AnyCursor,
   pageNumber : Nat, yielded : Nat, fetched : Seq(AnyCursor), offered : Nat, start : AnyCursor,
   outcome : {"running", "aborted", "page budget", "record budget", "complete", "repeated cursor", "invalid page"}]

WalkTypeOK == walk \in Walks /\ aborted \in BOOLEAN

\* The cursors asked for, but the current one, are those seen and the first.
SeenAll ==
  LET first == IF walk.kind = "guarded" THEN NoCursor ELSE walk.start IN
  /\ walk.kind = "guarded" => walk.start = NoCursor
  /\ walk.pc = "fetch" =>
       /\ walk.pageNumber = Len(walk.fetched) + 1
       /\ \A i \in 1..Len(walk.fetched) :
            /\ walk.fetched[i] \in walk.seen \cup {first}
            /\ walk.fetched[i] = walk.cursor => walk.kind = "periods" /\ walk.cursor = walk.start
       /\ walk.kind = "periods" => walk.cursor \in walk.seen \cup {first}
  /\ walk.pc = "await" =>
       /\ walk.pageNumber = Len(walk.fetched)
       /\ \A i \in 1..Len(walk.fetched) : walk.fetched[i] \in walk.seen \cup {first, walk.cursor}
       /\ walk.kind = "periods" => walk.cursor \in walk.seen \cup {first}

YieldedAll ==
  /\ walk.pc # "ended" => walk.yielded = walk.offered /\ walk.pageNumber <= MaxPages + 1
  /\ walk.pc = "await" => walk.pageNumber <= MaxPages

WalkInv == WalkTypeOK /\ SeenAll /\ YieldedAll /\ NoPageTwice /\ NothingDropped

\* The fields of a walk.
LEMMA WalkFields ==
  ASSUME WalkInv
  PROVE  /\ walk.kind \in {"guarded", "periods"} /\ walk.cursor \in AnyCursor /\ walk.seen \subseteq AnyCursor
         /\ walk.pageNumber \in Nat /\ walk.yielded \in Nat /\ walk.offered \in Nat
         /\ walk.fetched \in Seq(AnyCursor) /\ Len(walk.fetched) \in Nat /\ DOMAIN walk.fetched = 1..Len(walk.fetched)
         /\ MaxPages \in Nat /\ MaxRecords \in Nat
         /\ walk.kind = "guarded" => walk.yielded <= MaxRecords
  <1>1. walk \in Walks
    BY DEF WalkInv, WalkTypeOK
  <1>2. /\ walk.kind \in {"guarded", "periods"} /\ walk.cursor \in AnyCursor /\ walk.seen \subseteq AnyCursor
        /\ walk.pageNumber \in Nat /\ walk.yielded \in Nat /\ walk.offered \in Nat /\ walk.fetched \in Seq(AnyCursor)
    BY <1>1 DEF Walks
  <1>3. Len(walk.fetched) \in Nat /\ DOMAIN walk.fetched = 1..Len(walk.fetched)
    BY <1>2
  <1>4. QED
    BY <1>2, <1>3, LimitsResolved DEF WalkInv, NothingDropped

\* The sum of naturals is one.
LEMMA SumOfNaturals == \A i, j \in Nat : i + j \in Nat
  OBVIOUS

\* A walk that ends keeps what it has fetched.
LEMMA WalkStops ==
  ASSUME WalkInv, NEW yielded \in Nat, NEW offered \in Nat,
         NEW outcome \in {"aborted", "page budget", "record budget", "complete", "repeated cursor", "invalid page"},
         walk' = [walk EXCEPT !.pc = "ended", !.outcome = outcome, !.yielded = yielded, !.offered = offered],
         walk.kind = "guarded" => yielded <= MaxRecords,
         outcome \in {"complete", "page budget", "repeated cursor"} => yielded = offered, aborted' \in BOOLEAN
  PROVE  WalkInv'
  <1>1. /\ walk'.kind = walk.kind /\ walk'.pc = "ended" /\ walk'.outcome = outcome /\ walk'.yielded = yielded
        /\ walk'.offered = offered /\ walk'.fetched = walk.fetched /\ walk'.start = walk.start
    BY DEF WalkInv, WalkTypeOK, Walks
  <1>2. WalkTypeOK'
    BY DEF WalkInv, WalkTypeOK, Walks
  <1>3. SeenAll' /\ YieldedAll'
    BY <1>1 DEF WalkInv, SeenAll, YieldedAll
  <1>4. NoPageTwice'
    <2>1. NoPageTwice
      BY DEF WalkInv
    <2>2. SUFFICES ASSUME NEW i \in DOMAIN walk'.fetched, NEW j \in DOMAIN walk'.fetched,
                          i # j, walk'.fetched[i] = walk'.fetched[j]
                   PROVE  walk'.kind = "periods" /\ walk'.fetched[i] = walk'.start
      BY DEF NoPageTwice
    <2>3. i \in DOMAIN walk.fetched /\ j \in DOMAIN walk.fetched /\ walk.fetched[i] = walk.fetched[j]
      BY <1>1, <2>2, Zenon
    <2>4. walk.kind = "periods" /\ walk.fetched[i] = walk.start
      BY <2>1, <2>2, <2>3, Zenon DEF NoPageTwice
    <2>5. QED
      BY <1>1, <2>4, Zenon
  <1>5. NothingDropped'
    BY <1>1 DEF WalkInv, NothingDropped
  <1>6. QED
    BY <1>2, <1>3, <1>4, <1>5 DEF WalkInv

\* Every step of a walk keeps its invariant.
LEMMA WalkStep == WalkInv /\ [WalkNext]_walkVars => WalkInv'
  <1> SUFFICES ASSUME WalkInv, [WalkNext]_walkVars PROVE WalkInv'
    OBVIOUS
  <1>0. /\ walk.kind \in {"guarded", "periods"} /\ walk.cursor \in AnyCursor /\ walk.seen \subseteq AnyCursor
        /\ walk.pageNumber \in Nat /\ walk.yielded \in Nat /\ walk.offered \in Nat
        /\ walk.fetched \in Seq(AnyCursor) /\ Len(walk.fetched) \in Nat /\ DOMAIN walk.fetched = 1..Len(walk.fetched)
        /\ MaxPages \in Nat /\ MaxRecords \in Nat
        /\ walk.kind = "guarded" => walk.yielded <= MaxRecords
    BY WalkFields
  <1>8. walk \in Walks /\ aborted \in BOOLEAN
    BY DEF WalkInv, WalkTypeOK
  <1>1. ASSUME NEW o \in {"aborted", "page budget", "invalid page"}, walk.pc # "ended", Ended(o), UNCHANGED aborted PROVE WalkInv'
    <2>1. walk' = [walk EXCEPT !.pc = "ended", !.outcome = o, !.yielded = walk.yielded, !.offered = walk.offered]
      BY <1>8, <1>1 DEF Ended, Walks
    <2>2. walk.yielded = walk.offered /\ aborted' \in BOOLEAN
      BY <1>8, <1>1 DEF WalkInv, YieldedAll
    <2>3. o \in {"aborted", "page budget", "record budget", "complete", "repeated cursor", "invalid page"}
      OBVIOUS
    <2>4. QED
      BY <1>0, <2>1, <2>2, <2>3, WalkStops
  <1>2. CASE fetchPage
    <2>1. walk.pc = "fetch" /\ UNCHANGED aborted
      BY <1>2 DEF fetchPage
    <2>2. CASE Ended("page budget") \/ Ended("aborted")
      BY <1>1, <2>1, <2>2
    <2>3. CASE walk.pageNumber <= MaxPages /\ walk' = [walk EXCEPT !.pc = "await", !.fetched = Append(@, walk.cursor)]
      <3> DEFINE n == Len(walk.fetched)
      <3>1. /\ walk'.kind = walk.kind /\ walk'.pc = "await" /\ walk'.outcome = walk.outcome /\ walk'.yielded = walk.yielded
            /\ walk'.offered = walk.offered /\ walk'.fetched = Append(walk.fetched, walk.cursor) /\ walk'.start = walk.start
            /\ walk'.cursor = walk.cursor /\ walk'.seen = walk.seen /\ walk'.pageNumber = walk.pageNumber
        BY <1>8, <2>3 DEF Walks
      <3>2. /\ Len(walk'.fetched) = n + 1 /\ walk'.fetched[n + 1] = walk.cursor
            /\ \A i \in 1..n : walk'.fetched[i] = walk.fetched[i]
            /\ DOMAIN walk'.fetched = 1..(n + 1) /\ walk'.fetched \in Seq(AnyCursor)
        BY <1>0, <3>1
      <3>3. WalkTypeOK'
        BY <1>8, <2>1, <2>3, <3>1, <3>2 DEF WalkTypeOK, Walks
      <3>4. \A i \in 1..(n + 1) : i \in 1..n \/ i = n + 1
        BY <1>0
      <3>5. walk.pageNumber = n + 1 /\ walk.yielded = walk.offered
        BY <2>1 DEF WalkInv, SeenAll, YieldedAll
      <3>6. SeenAll'
        <4>1. \A i \in 1..n : walk.fetched[i] \in walk.seen \cup {IF walk.kind = "guarded" THEN NoCursor ELSE walk.start}
          BY <2>1 DEF WalkInv, SeenAll
        <4>2. QED
          BY <2>1, <3>1, <3>2, <3>4, <3>5, <4>1 DEF WalkInv, SeenAll
      <3>7. YieldedAll'
        BY <1>0, <2>3, <3>1, <3>5 DEF YieldedAll
      <3>8. NoPageTwice'
        <4>1. \A i \in 1..n : walk.fetched[i] = walk.cursor => walk.kind = "periods" /\ walk.cursor = walk.start
          BY <2>1 DEF WalkInv, SeenAll
        <4>2. QED
          BY <1>0, <3>1, <3>2, <3>4, <4>1 DEF WalkInv, NoPageTwice
      <3>9. NothingDropped'
        BY <1>0, <2>3, <3>1, <3>2, <3>5 DEF WalkInv, NothingDropped
      <3>10. QED
        BY <3>3, <3>6, <3>7, <3>8, <3>9 DEF WalkInv
    <2>4. QED
      BY <1>2, <2>2, <2>3 DEF fetchPage
  <1>3. CASE invalidPage
    BY <1>1, <1>3 DEF invalidPage
  <1>4. ASSUME NEW items \in PageItems, NEW next \in PageCursors \cup {NoCursor}, receivePage(items, next) PROVE WalkInv'
    <2> DEFINE count == yieldable(items)
               seenItems == [walk EXCEPT !.yielded = @ + count, !.offered = @ + items]
    <2>1. /\ walk.pc = "await" /\ UNCHANGED aborted /\ items \in Nat /\ walk.yielded = walk.offered
      BY <1>4, LimitsResolved DEF receivePage, WalkInv, YieldedAll
    <2>2. count \in Nat /\ count <= items /\ (walk.kind = "guarded" => walk.yielded + count <= MaxRecords)
      <3>1. CASE walk.kind = "guarded"
        <4>1. MaxRecords - walk.yielded \in Int /\ MaxRecords - walk.yielded >= 0
          BY <1>0, <3>1
        <4>2. /\ Min({items, MaxRecords - walk.yielded}) \in {items, MaxRecords - walk.yielded}
              /\ Min({items, MaxRecords - walk.yielded}) <= items
              /\ Min({items, MaxRecords - walk.yielded}) <= MaxRecords - walk.yielded
          <5>1. items \in Int
            BY <2>1
          <5>2. QED
            BY <4>1, <5>1, MinMax
        <4>3. QED
          BY <1>0, <2>1, <3>1, <4>1, <4>2 DEF yieldable
      <3>2. CASE walk.kind # "guarded"
        BY <2>1, <3>2 DEF yieldable
      <3>3. QED
        BY <3>1, <3>2
    <2>3. \/ walk' = [walk EXCEPT !.pc = "ended", !.outcome = "aborted"]
          \/ count < items /\ walk' = [seenItems EXCEPT !.pc = "ended", !.outcome = "record budget"]
          \/ ~(count < items) /\ walk' = [seenItems EXCEPT !.pc = "ended", !.outcome = "complete"]
          \/ ~(count < items) /\ walk' = [seenItems EXCEPT !.pc = "ended", !.outcome = "repeated cursor"]
          \/ /\ ~(count < items) /\ next # NoCursor /\ ~repeatedCursor(next)
             /\ walk' = [seenItems EXCEPT !.pc = "fetch", !.cursor = next, !.seen = NowSeen(next), !.pageNumber = @ + 1]
      BY <1>4 DEF receivePage
    <2> HIDE DEF count
    <2>4. CASE walk' = [walk EXCEPT !.pc = "ended", !.outcome = "aborted"]
      BY <1>1, <2>1, <2>4 DEF Ended
    <2>5. ASSUME NEW o \in {"record budget", "complete", "repeated cursor"}, o # "record budget" => count = items,
                 walk' = [seenItems EXCEPT !.pc = "ended", !.outcome = o]
          PROVE  WalkInv'
      <3> DEFINE given == walk.yielded + count
                 asked == walk.offered + items
      <3>1. given \in Nat /\ asked \in Nat /\ (o # "record budget" => given = asked) /\ (walk.kind = "guarded" => given <= MaxRecords)
        <4>1. walk.yielded = walk.offered /\ items \in Nat /\ (o # "record budget" => count = items)
          BY <2>1, <2>5
        <4>2. walk.offered \in Nat /\ walk.yielded \in Nat /\ count \in Nat
          BY <1>0, <2>2
        <4>3. given \in Nat /\ asked \in Nat
          BY <4>1, <4>2, SumOfNaturals, Zenon
        <4>4. o # "record budget" => given = asked
          BY <4>1, Zenon
        <4>5. walk.kind = "guarded" => given <= MaxRecords
          BY <2>2
        <4>6. QED
          BY <4>3, <4>4, <4>5
      <3>2. walk' = [walk EXCEPT !.pc = "ended", !.outcome = o, !.yielded = given, !.offered = asked]
        BY <1>8, <2>5 DEF Walks
      <3>3. o \in {"aborted", "page budget", "record budget", "complete", "repeated cursor", "invalid page"}
        OBVIOUS
      <3> HIDE DEF given, asked
      <3>4. aborted' \in BOOLEAN
        BY <1>8, <2>1
      <3>5. QED
        BY <3>1, <3>2, <3>3, <3>4, WalkStops
    <2>6. CASE /\ ~(count < items) /\ next # NoCursor /\ ~repeatedCursor(next)
               /\ walk' = [seenItems EXCEPT !.pc = "fetch", !.cursor = next, !.seen = NowSeen(next), !.pageNumber = @ + 1]
      <3>1. count = items
        BY <2>1, <2>2, <2>6
      <3>2. /\ walk'.kind = walk.kind /\ walk'.pc = "fetch" /\ walk'.outcome = walk.outcome
            /\ walk'.yielded = walk.yielded + items /\ walk'.offered = walk.offered + items
            /\ walk'.fetched = walk.fetched /\ walk'.start = walk.start /\ walk'.cursor = next
            /\ walk'.seen = NowSeen(next) /\ walk'.pageNumber = walk.pageNumber + 1
        BY <1>8, <2>6, <3>1 DEF Walks
      <3>3. NowSeen(next) \subseteq AnyCursor
        BY <1>0 DEF NowSeen, AnyCursor
      <3>4. WalkTypeOK'
        <4> DEFINE y == walk.yielded + items
                   f == walk.offered + items
                   n == walk.pageNumber + 1
        <4>1. y \in Nat /\ f \in Nat /\ n \in Nat /\ next \in AnyCursor
          BY <1>0, <2>1 DEF AnyCursor
        <4>2. walk' = [walk EXCEPT !.pc = "fetch", !.cursor = next, !.seen = NowSeen(next), !.pageNumber = n,
                                   !.yielded = y, !.offered = f]
          BY <1>8, <2>6, <3>1 DEF Walks
        <4> HIDE DEF y, f, n
        <4>3. QED
          BY <1>8, <2>1, <3>3, <4>1, <4>2 DEF WalkTypeOK, Walks
      <3>5. SeenAll'
        <4>1. next # walk.cursor /\ next \notin walk.seen /\ next # NoCursor
          BY <2>6 DEF repeatedCursor
        <4>2. CASE walk.kind = "guarded"
          <5>1. walk'.seen = walk.seen \cup ({walk.cursor} \ {NoCursor})
            BY <3>2, <4>2 DEF NowSeen
          <5>2. \A i \in 1..Len(walk.fetched) : walk.fetched[i] \in walk.seen \cup {NoCursor, walk.cursor}
            BY <2>1, <4>2 DEF WalkInv, SeenAll
          <5>3. QED
            BY <2>1, <3>2, <4>1, <4>2, <5>1, <5>2 DEF WalkInv, SeenAll
        <4>3. CASE walk.kind = "periods"
          <5>1. walk'.seen = walk.seen \cup {next}
            BY <3>2, <4>3 DEF NowSeen
          <5>2. /\ \A i \in 1..Len(walk.fetched) : walk.fetched[i] \in walk.seen \cup {walk.start, walk.cursor}
                /\ walk.cursor \in walk.seen \cup {walk.start}
            BY <2>1, <4>3 DEF WalkInv, SeenAll
          <5>3. QED
            BY <2>1, <3>2, <4>1, <4>3, <5>1, <5>2 DEF WalkInv, SeenAll
        <4>4. QED
          BY <1>0, <4>2, <4>3
      <3>6. YieldedAll'
        <4>1. walk.pageNumber <= MaxPages /\ walk.pageNumber \in Nat
          BY <1>0, <2>1 DEF WalkInv, YieldedAll
        <4>2. QED
          BY <1>0, <2>1, <3>2, <4>1 DEF YieldedAll
      <3>7. NoPageTwice'
        BY <3>2 DEF WalkInv, NoPageTwice
      <3>8. NothingDropped'
        BY <1>0, <2>1, <2>2, <3>1, <3>2 DEF WalkInv, NothingDropped
      <3>9. QED
        BY <3>4, <3>5, <3>6, <3>7, <3>8 DEF WalkInv
    <2>7. QED
      BY <2>1, <2>2, <2>3, <2>4, <2>5, <2>6
  <1>5. CASE abort
    BY <1>8, <1>5 DEF abort, WalkInv, WalkTypeOK, SeenAll, YieldedAll, NoPageTwice, NothingDropped
  <1>6. CASE UNCHANGED walkVars
    BY <1>6 DEF walkVars, WalkInv, WalkTypeOK, SeenAll, YieldedAll, NoPageTwice, NothingDropped
  <1>7. QED
    BY <1>2, <1>3, <1>4, <1>5, <1>6 DEF WalkNext, Answer

(***************************************************************************)
(* For every source, limits and number of items: no page is asked for      *)
(* twice, budgets are kept, and a walk that is complete dropped nothing    *)
(* (pagination-guardrails.ts 178-251, periodPagination.ts 62-74).          *)
(***************************************************************************)
THEOREM WalksAreSound == OperationsSpec => [](NoPageTwice /\ NothingDropped)
  <1>1. ASSUME NEW kind \in {"guarded", "periods"}, NEW c \in PageCursors \cup {NoCursor}, NEW pc \in {"fetch", "ended"},
               \/ walk = Walk(kind, c) /\ pc = "fetch"
               \/ walk = [Walk(kind, c) EXCEPT !.pc = "ended"] /\ pc = "ended",
               kind = "guarded" => c = NoCursor, aborted \in BOOLEAN
        PROVE  WalkInv
    <2>1. walk = [kind |-> kind, pc |-> pc, cursor |-> c, seen |-> {}, pageNumber |-> 1, yielded |-> 0,
                  outcome |-> "running", fetched |-> <<>>, offered |-> 0, start |-> c]
      <3>1. CASE walk = Walk(kind, c) /\ pc = "fetch"
        BY <3>1, Zenon DEF Walk
      <3>2. CASE walk = [Walk(kind, c) EXCEPT !.pc = "ended"] /\ pc = "ended"
        BY <3>2 DEF Walk
      <3>3. QED
        BY <1>1, <3>1, <3>2
    <2>2. c \in AnyCursor /\ <<>> \in Seq(AnyCursor) /\ {} \in SUBSET AnyCursor /\ 0 \in Nat /\ 1 \in Nat
      BY DEF AnyCursor
    <2>3. walk \in Walks
      BY <2>1, <2>2 DEF Walks
    <2>4. /\ walk.kind = kind /\ walk.pc = pc /\ walk.cursor = c /\ walk.seen = {} /\ walk.pageNumber = 1 /\ walk.yielded = 0
          /\ walk.outcome = "running" /\ walk.fetched = <<>> /\ walk.offered = 0 /\ walk.start = c
      BY <2>1
    <2>5. Len(walk.fetched) = 0 /\ DOMAIN walk.fetched = 1..0
      BY <2>4
    <2>6. SeenAll /\ YieldedAll
      BY <1>1, <2>4, <2>5, LimitsResolved DEF SeenAll, YieldedAll
    <2>7. NoPageTwice /\ NothingDropped
      BY <2>4, <2>5, LimitsResolved DEF NoPageTwice, NothingDropped
    <2>8. QED
      BY <1>1, <2>3, <2>6, <2>7 DEF WalkInv, WalkTypeOK
  <1>2. ASSUME OperationsInit PROVE WalkInv
    <2>1. CASE WalkInit
      <3>0. /\ aborted \in BOOLEAN /\ NoCursor \in PageCursors \cup {NoCursor} /\ "fetch" \in {"fetch", "ended"}
            /\ "guarded" \in {"guarded", "periods"} /\ "periods" \in {"guarded", "periods"}
        BY <2>1 DEF WalkInit
      <3>1. CASE walk = Walk("guarded", NoCursor)
        BY <1>1, <3>0, <3>1
      <3>2. CASE \E c \in PageCursors \cup {NoCursor} : walk = Walk("periods", c)
        <4>1. PICK c \in PageCursors \cup {NoCursor} : walk = Walk("periods", c)
          BY <3>2
        <4>2. "periods" # "guarded"
          OBVIOUS
        <4>3. QED
          BY <1>1, <3>0, <4>1, <4>2
      <3>3. QED
        BY <2>1, <3>1, <3>2 DEF WalkInit
    <2>2. CASE walk = [Walk("guarded", NoCursor) EXCEPT !.pc = "ended"] /\ aborted = TRUE
      BY <1>1, <2>2
    <2>3. QED
      BY <1>2, <2>1, <2>2 DEF OperationsInit
  <1>3. WalkInv /\ [OperationsNext]_operationsVars => WalkInv'
    BY WalkStep, OneComponentSteps
  <1>4. WalkInv => NoPageTwice /\ NothingDropped
    BY DEF WalkInv
  <1>5. QED
    BY <1>2, <1>3, <1>4, PTL DEF OperationsSpec

-----------------------------------------------------------------------------
(***************************************************************************)
(* The indexer.  What the caller's checkpoint says is read was returned;   *)
(* what the pass's own says is, or is about to be; a pass with budget left *)
(* has left nothing out behind it.                                         *)
(***************************************************************************)
Checkpoints ==
  [companyCursor : Nat, active : Companies \cup {Nobody}, cursors : [Companies -> [CollectionNames -> Nat]],
   completed : SUBSET Companies, complete : BOOLEAN]

CursorsInside(c) ==
  /\ c.companyCursor < Len(PageEnds)
  /\ \A d \in Companies, k \in CollectionNames : c.cursors[d][k] < CollectionPages[d][k]

Passes ==
  [pc : {"idle", "company", "list", "listed"}, company : Companies \cup {Nobody}, at : 1..5, next : Nat \ {0},
   upto : 0..Len(CompanyList), budget : Nat \cup {Unlimited}, left : Nat \cup {Unlimited}]

PassTypeOK ==
  /\ pass \in Passes
  /\ pass.pc = "company" => pass.company \in Companies
  /\ working.active # Nobody => pass.pc = "company"
  /\ IsFiniteSet(fetched)
  /\ pass.left \in Nat => pass.budget \in Nat /\ Cardinality(fetched) + pass.left <= pass.budget
  /\ pass.left = Unlimited => pass.budget = Unlimited
  /\ pass.pc = "idle" => fetched = {} /\ working = createCheckpoint

ResultTypeOK ==
  /\ passes \in Nat
  /\ lastPass.budget \in Nat \cup {Unlimited} /\ lastPass.left \in Nat \cup {Unlimited}
  /\ lastPass.budget # Unlimited => lastPass.pages <= lastPass.budget

IndexTypeOK ==
  /\ checkpoint \in Checkpoints /\ CursorsInside(checkpoint) /\ working \in Checkpoints /\ CursorsInside(working)
  /\ pagesRead \subseteq AllPages /\ fetched \subseteq AllPages
  /\ PassTypeOK /\ ResultTypeOK

\* All pages before a cursor are there.
CursorsKept(c, pages) ==
  /\ \A n \in 1..c.companyCursor : <<Nobody, "companies", n>> \in pages
  /\ \A d \in Companies, k \in CollectionNames : \A n \in 1..c.cursors[d][k] : <<d, k, n>> \in pages

NoGaps(pages) == \A p \in pages : p[3] > 1 => <<p[1], p[2], p[3] - 1>> \in pages

Have == pagesRead \cup fetched

\* A cursor that does not stand where it stood is at the end: one in the middle would have ended the pass.
CursorsShared ==
  pass.pc # "idle" =>
    \A d \in Companies, k \in CollectionNames : working.cursors[d][k] \in {0, checkpoint.cursors[d][k]}

\* Of a pass: the listing is still to come, or has been.
Listing == pass.pc = "list" \/ (pass.pc = "company" /\ working.active # Nobody)
Listed == pass.pc = "listed" \/ (pass.pc = "company" /\ working.active = Nobody)

NothingLeftOut ==
  pass.pc # "idle" /\ pass.left # 0 =>
    /\ checkpoint.completed \subseteq working.completed
    /\ \A c \in working.completed \ checkpoint.completed : PagesOf(c) \subseteq Have
    /\ pass.pc = "company" =>
         \A i \in 1..(pass.at - 1) : \A n \in 1..CollectionPages[pass.company][Collections[i]] :
            <<pass.company, Collections[i], n>> \in Have
    /\ working.active # Nobody => working.active = checkpoint.active /\ pass.company = working.active
    /\ working.active = Nobody => checkpoint.active \in working.completed \cup {Nobody}
    /\ Listing => working.companyCursor = checkpoint.companyCursor
    /\ Listed =>
         /\ working.companyCursor = 0 /\ pass.upto = Len(CompanyList)
         /\ \A n \in DOMAIN PageEnds : <<Nobody, "companies", n>> \in Have
         /\ \A j \in (listedOn(checkpoint.companyCursor) + 1)..(pass.next - 1) :
              j <= Len(CompanyList) => CompanyList[j] \in working.completed
         /\ pass.pc = "company" => pass.next <= Len(CompanyList) /\ pass.company = CompanyList[pass.next]

IndexInv ==
  /\ IndexTypeOK
  /\ CursorsKept(checkpoint, pagesRead) /\ CursorsKept(working, Have) /\ CursorsShared
  /\ NoGaps(pagesRead) /\ NoGaps(Have)
  /\ passes = 0 => checkpoint = createCheckpoint /\ pagesRead = {}
  /\ NothingLeftOut /\ AmpleBudgetReadsAll

\* What the constants of the indexer are.
LEMMA IndexFacts ==
  /\ Len(Collections) = 5 /\ \A i \in 1..5 : Collections[i] \in CollectionNames
  /\ \A k \in CollectionNames : \E i \in 1..5 : k = Collections[i]
  /\ Companies = {CompanyList[j] : j \in 1..Len(CompanyList)} /\ Len(CompanyList) \in Nat
  /\ Len(PageEnds) \in Nat \ {0} /\ DOMAIN PageEnds = 1..Len(PageEnds)
  /\ \A n \in 1..Len(PageEnds) : PageEnds[n] \in 0..Len(CompanyList)
  /\ PageEnds[Len(PageEnds)] = Len(CompanyList)
  /\ \A c \in Companies, k \in CollectionNames : CollectionPages[c][k] \in Nat \ {0}
  /\ Nobody \notin Companies /\ Unlimited \notin Nat
  <1>1. /\ Len(CompanyList) \in Nat /\ DOMAIN CompanyList = 1..Len(CompanyList) /\ Len(PageEnds) \in Nat
        /\ DOMAIN PageEnds = 1..Len(PageEnds) /\ PageEnds # <<>>
        /\ \A n \in 1..Len(PageEnds) : PageEnds[n] \in 0..Len(CompanyList)
    BY IndexAssumption
  <1>2. Len(PageEnds) # 0
    BY IndexAssumption, <1>1
  <1>3. Companies = {CompanyList[j] : j \in 1..Len(CompanyList)}
    BY <1>1 DEF Companies, ToSet
  <1>4. CollectionNames = {"employees", "payrollRuns", "events", "commitments", "auditPermissions"}
    BY DEF CollectionNames, Collections, ToSet
  <1>5. Len(Collections) = 5 /\ \A i \in 1..5 : Collections[i] \in CollectionNames
    BY <1>4 DEF Collections
  <1>6. \A k \in CollectionNames : \E i \in 1..5 : k = Collections[i]
    BY <1>4 DEF Collections
  <1>7. \A c \in Companies, k \in CollectionNames : CollectionPages[c][k] \in Nat \ {0}
    BY IndexAssumption
  <1>8. QED
    BY <1>1, <1>2, <1>3, <1>5, <1>6, <1>7, IndexAssumption

(***************************************************************************)
(* What is read of a collection goes on from its cursor without a gap, and *)
(* budget that is left means that the collection is at its end.            *)
(***************************************************************************)
Gapless(total, left, cursor, got) ==
  /\ got.next \in Nat /\ got.next < total /\ got.pages \subseteq 1..total /\ IsFiniteSet(got.pages)
  /\ left = Unlimited => got.left = Unlimited
  /\ left \in Nat => got.left \in Nat /\ Cardinality(got.pages) + got.left <= left
  /\ got.left # 0 => left # 0 /\ got.next = 0 /\ got.pages = (cursor + 1)..total
  /\ \A n \in 1..got.next : n <= cursor \/ n \in got.pages
  /\ \A n \in got.pages : n > 1 => n - 1 \in got.pages \/ n - 1 = cursor

\* Reading pages one after the other leaves no gap.
LEMMA PageReads ==
  ASSUME NEW total \in Nat \ {0}, NEW left \in Nat \cup {Unlimited}, NEW cursor \in Nat, cursor < total
  PROVE  Gapless(total, left, cursor, readPages(total, left, cursor))
  <1> DEFINE got == readPages(total, left, cursor)
             n == IF left # Unlimited /\ cursor + left < total THEN left ELSE total - cursor
             next == cursor + n
  <1>0. Unlimited \notin Nat
    BY IndexAssumption
  <1>1. CASE left = 0
    <2>1. got = [pages |-> {}, next |-> cursor, left |-> 0]
      BY <1>1 DEF readPages
    <2>2. got.pages = {} /\ got.next = cursor /\ got.left = 0 /\ left = 0 /\ 0 \in Nat /\ left # Unlimited
      BY <1>0, <1>1, <2>1
    <2> HIDE DEF got
    <2>3. IsFiniteSet(got.pages) /\ Cardinality(got.pages) = 0
      BY <2>2, FS_EmptySet
    <2>4. QED
      BY <2>2, <2>3 DEF got, Gapless
  <1>2. CASE left # 0
    <2>1. got = [pages |-> (cursor + 1)..next, next |-> IF next = total THEN 0 ELSE next,
                 left |-> IF left = Unlimited THEN left ELSE left - n]
      BY <1>2 DEF readPages
    <2>2. /\ n \in Nat /\ n > 0 /\ next \in Nat /\ next <= total /\ next > cursor
          /\ left \in Nat => n <= left
          /\ next < total => left = n /\ left \in Nat
      BY <1>0, <1>2
    <2> HIDE DEF n
    <2>3. IsFiniteSet((cursor + 1)..next) /\ Cardinality((cursor + 1)..next) = n
      BY <2>2, FS_Interval
    <2>4. IsFiniteSet(got.pages) /\ Cardinality(got.pages) = n
      BY <2>1, <2>3
    <2>5. (left = Unlimited => got.left = Unlimited) /\ (left \in Nat => got.left = left - n)
      BY <1>0, <2>1
    <2>6. got.next = (IF next = total THEN 0 ELSE next) /\ got.pages = (cursor + 1)..next
      BY <2>1
    <2> HIDE DEF got
    <2>7. /\ got.next \in Nat /\ got.next < total /\ got.pages \subseteq 1..total /\ got.pages # {}
          /\ \A m \in 1..got.next : m <= cursor \/ m \in got.pages
          /\ \A m \in got.pages : m > 1 => m - 1 \in got.pages \/ m - 1 = cursor
      BY <2>2, <2>6
    <2>8. left \in Nat => got.left \in Nat /\ Cardinality(got.pages) + got.left <= left
      BY <2>2, <2>4, <2>5
    <2>9. got.next = 0 => got.pages = (cursor + 1)..total
      BY <2>2, <2>6
    <2>10. got.left # 0 => got.next = 0
      BY <1>0, <2>2, <2>5, <2>6
    <2>11. QED
      BY <1>2, <2>4, <2>5, <2>7, <2>8, <2>9, <2>10 DEF got, Gapless
  <1>3. QED
    BY <1>1, <1>2

\* Pages that were read count against the budget once at most.
LEMMA FetchedCount ==
  ASSUME NEW pages, IsFiniteSet(pages), NEW numbers, IsFiniteSet(numbers), NEW more, NEW f \in Surjection(numbers, more)
  PROVE  /\ IsFiniteSet(pages \cup more)
         /\ Cardinality(pages \cup more) \in Nat /\ Cardinality(pages) \in Nat /\ Cardinality(numbers) \in Nat
         /\ Cardinality(pages \cup more) <= Cardinality(pages) + Cardinality(numbers)
  <1>1. IsFiniteSet(more) /\ Cardinality(more) <= Cardinality(numbers)
    BY FS_Surjection
  <1>2. IsFiniteSet(pages \cup more) /\ Cardinality(pages \cup more) = Cardinality(pages) + Cardinality(more) - Cardinality(pages \cap more)
    BY <1>1, FS_Union
  <1>3. IsFiniteSet(pages \cap more)
    BY <1>1, FS_Subset
  <1>4. /\ Cardinality(pages) \in Nat /\ Cardinality(more) \in Nat /\ Cardinality(numbers) \in Nat
        /\ Cardinality(pages \cap more) \in Nat /\ Cardinality(pages \cup more) \in Nat
    BY <1>1, <1>2, <1>3, FS_CardinalityType
  <1>5. QED
    BY <1>1, <1>2, <1>4

\* What a pass that returns must bring.
LEMMA PassReturns ==
  ASSUME IndexInv, NEW c \in Checkpoints, CursorsInside(c), NEW left \in Nat \cup {Unlimited}, NEW pages \in SUBSET AllPages,
         toResult(c, left, pages), IsFiniteSet(pages), left = Unlimited => pass.budget = Unlimited,
         left \in Nat => pass.budget \in Nat /\ Cardinality(pages) + left <= pass.budget,
         CursorsKept(c, pagesRead \cup pages), NoGaps(pagesRead \cup pages),
         passes = 0 /\ c.complete /\ left # 0 => pagesRead \cup pages = AllPages
  PROVE  IndexInv'
  <1>1. /\ checkpoint' = c /\ passes' = passes + 1 /\ pagesRead' = pagesRead \cup pages
        /\ lastPass' = [budget |-> pass.budget, left |-> left, pages |-> Cardinality(pages)]
        /\ pass' = NoPass /\ working' = createCheckpoint /\ fetched' = {}
    BY DEF toResult
  <1>2. createCheckpoint \in Checkpoints /\ CursorsInside(createCheckpoint) /\ CursorsKept(createCheckpoint, pagesRead \cup pages)
        /\ createCheckpoint.active = Nobody
    BY IndexFacts DEF createCheckpoint, Checkpoints, CursorsInside, CursorsKept
  <1>3. IsFiniteSet({}) /\ Cardinality({}) = 0
    BY FS_EmptySet
  <1>4. passes \in Nat /\ pass.budget \in Nat \cup {Unlimited} /\ pagesRead \subseteq AllPages
    BY DEF IndexInv, IndexTypeOK, ResultTypeOK, PassTypeOK
  <1>5. Cardinality(pages) \in Nat
    BY FS_CardinalityType
  <1>6. PassTypeOK'
    BY <1>1, <1>2, <1>3, IndexFacts DEF PassTypeOK, NoPass, Passes
  <1>7. ResultTypeOK'
    <2>1. lastPass'.budget = pass.budget /\ lastPass'.left = left /\ lastPass'.pages = Cardinality(pages)
      BY <1>1
    <2>2. pass.budget # Unlimited => Cardinality(pages) <= pass.budget
      BY <1>4, <1>5
    <2>3. QED
      BY <1>1, <1>4, <2>1, <2>2 DEF ResultTypeOK
  <1>8. IndexTypeOK'
    <2>1. checkpoint' \in Checkpoints /\ CursorsInside(checkpoint)' /\ working' \in Checkpoints /\ CursorsInside(working)'
      BY <1>1, <1>2 DEF CursorsInside
    <2>2. AllPages' = AllPages
      BY DEF AllPages
    <2>3. QED
      BY <1>1, <1>4, <1>6, <1>7, <2>1, <2>2 DEF IndexTypeOK
  <1>9. CursorsKept(checkpoint, pagesRead)' /\ CursorsKept(working, Have)' /\ NoGaps(pagesRead)' /\ NoGaps(Have)'
    <2>1. (pagesRead \cup fetched)' = pagesRead \cup pages
      BY <1>1
    <2>2. QED
      BY <1>1, <1>2, <2>1 DEF Have, CursorsKept, NoGaps
  <1>10. pass'.pc = "idle" /\ passes' # 0
    BY <1>1, <1>4 DEF NoPass
  <1>11. AmpleBudgetReadsAll'
    <2>1. lastPass'.left = left
      BY <1>1
    <2>2. passes' = 1 => passes = 0
      BY <1>1, <1>4
    <2>3. AllPages' = AllPages
      BY DEF AllPages
    <2>4. QED
      BY <1>1, <2>1, <2>2, <2>3 DEF AmpleBudgetReadsAll
  <1>12. QED
    BY <1>8, <1>9, <1>10, <1>11 DEF IndexInv, CursorsShared, NothingLeftOut

\* What a pass that goes on must keep.
LEMMA PassGoesOn ==
  ASSUME IndexInv, NEW p, NEW c \in Checkpoints, CursorsInside(c), NEW pages \in SUBSET AllPages,
         goOn(p, c, pages), PassTypeOK', CursorsKept(c, pagesRead \cup pages), NoGaps(pagesRead \cup pages),
         CursorsShared', NothingLeftOut'
  PROVE  IndexInv'
  <1>1. pass' = p /\ working' = c /\ fetched' = pages /\ checkpoint' = checkpoint /\ passes' = passes
        /\ lastPass' = lastPass /\ pagesRead' = pagesRead
    BY DEF goOn, resultVars
  <1>2. IndexTypeOK'
    BY <1>1 DEF IndexInv, IndexTypeOK, ResultTypeOK, CursorsInside, AllPages
  <1>3. CursorsKept(checkpoint, pagesRead)' /\ CursorsKept(working, Have)' /\ NoGaps(pagesRead)' /\ NoGaps(Have)'
    BY <1>1 DEF IndexInv, Have, CursorsKept, NoGaps
  <1>4. AmpleBudgetReadsAll' /\ (passes' = 0 => checkpoint' = createCheckpoint' /\ pagesRead' = {})
    BY <1>1 DEF IndexInv, AmpleBudgetReadsAll, AllPages, createCheckpoint
  <1>5. QED
    BY <1>2, <1>3, <1>4 DEF IndexInv

\* The state of a pass is typed.
LEMMA PassFacts ==
  ASSUME IndexInv
  PROVE  /\ pass.pc \in {"idle", "company", "list", "listed"} /\ pass.company \in Companies \cup {Nobody}
         /\ pass.at \in 1..5 /\ pass.next \in Nat \ {0} /\ pass.upto \in 0..Len(CompanyList)
         /\ pass.budget \in Nat \cup {Unlimited} /\ pass.left \in Nat \cup {Unlimited}
         /\ DOMAIN pass = {"pc", "company", "at", "next", "upto", "budget", "left"}
         /\ working.companyCursor \in Nat /\ working.active \in Companies \cup {Nobody}
         /\ working.cursors \in [Companies -> [CollectionNames -> Nat]]
         /\ working.completed \subseteq Companies /\ working.complete \in BOOLEAN
         /\ \A d \in Companies, k \in CollectionNames : working.cursors[d][k] \in Nat
         /\ checkpoint.companyCursor \in Nat /\ checkpoint.companyCursor < Len(PageEnds)
         /\ listedOn(checkpoint.companyCursor) \in Nat
  <1>1. /\ pass.pc \in {"idle", "company", "list", "listed"} /\ pass.company \in Companies \cup {Nobody}
        /\ pass.at \in 1..5 /\ pass.next \in Nat \ {0} /\ pass.upto \in 0..Len(CompanyList)
        /\ pass.budget \in Nat \cup {Unlimited} /\ pass.left \in Nat \cup {Unlimited}
        /\ DOMAIN pass = {"pc", "company", "at", "next", "upto", "budget", "left"}
    BY DEF IndexInv, IndexTypeOK, PassTypeOK, Passes
  <1>2. /\ working.companyCursor \in Nat /\ working.active \in Companies \cup {Nobody}
        /\ working.cursors \in [Companies -> [CollectionNames -> Nat]]
        /\ working.completed \subseteq Companies /\ working.complete \in BOOLEAN
    BY DEF IndexInv, IndexTypeOK, Checkpoints
  <1>3. \A d \in Companies, k \in CollectionNames : working.cursors[d][k] \in Nat
    BY <1>2
  <1>4. checkpoint.companyCursor \in Nat /\ checkpoint.companyCursor < Len(PageEnds)
    BY DEF IndexInv, IndexTypeOK, Checkpoints, CursorsInside
  <1>5. listedOn(checkpoint.companyCursor) \in Nat
    BY <1>4, IndexFacts DEF listedOn
  <1>6. QED
    BY <1>1, <1>2, <1>3, <1>4, <1>5

\* Beginning a pass keeps the invariant of the indexer.
LEMMA PassBegins ==
  ASSUME IndexInv, NEW b \in PageBudgets, index(b)
  PROVE  IndexInv'
  <1> DEFINE p == [NoPass EXCEPT !.pc = IF checkpoint.active = Nobody THEN "list" ELSE "company",
                                 !.company = checkpoint.active, !.budget = b, !.left = b]
             c == [checkpoint EXCEPT !.complete = FALSE]
  <1>1. goOn(p, c, {})
    BY DEF index
  <1>2. checkpoint \in Checkpoints /\ CursorsInside(checkpoint) /\ CursorsKept(checkpoint, pagesRead) /\ NoGaps(pagesRead)
        /\ b \in Nat \cup {Unlimited}
    BY IndexAssumption DEF IndexInv, IndexTypeOK
  <1>3. c \in Checkpoints /\ c.companyCursor = checkpoint.companyCursor /\ c.active = checkpoint.active
        /\ c.cursors = checkpoint.cursors /\ c.completed = checkpoint.completed
    BY <1>2 DEF Checkpoints
  <1>4. /\ p.pc = (IF checkpoint.active = Nobody THEN "list" ELSE "company") /\ p.company = checkpoint.active
        /\ p.budget = b /\ p.left = b /\ p.at = 1 /\ p.next = 1 /\ p.upto = 0
    BY DEF NoPass
  <1>5. p \in Passes
    <2>1. NoPass \in Passes
      BY <1>2, IndexFacts DEF NoPass, Passes
    <2>2. checkpoint.active \in Companies \cup {Nobody} /\ 0 \in 0..Len(CompanyList)
      BY <1>2, IndexFacts DEF Checkpoints
    <2>3. QED
      BY <1>2, <2>1, <2>2 DEF Passes
  <1>6. pass' = p /\ working' = c /\ fetched' = {} /\ checkpoint' = checkpoint /\ pagesRead' = pagesRead
    BY <1>1 DEF goOn, resultVars
  <1> HIDE DEF p, c
  <1>7. IsFiniteSet({}) /\ Cardinality({}) = 0
    BY FS_EmptySet
  <1>8. checkpoint.active \in Companies \cup {Nobody}
    BY <1>2 DEF Checkpoints
  <1>9. PassTypeOK'
    BY <1>2, <1>3, <1>4, <1>5, <1>6, <1>7, <1>8, IndexFacts DEF PassTypeOK
  <1>10. CursorsInside(c) /\ CursorsKept(c, pagesRead \cup {}) /\ NoGaps(pagesRead \cup {})
    BY <1>2, <1>3 DEF CursorsInside, CursorsKept, NoGaps
  <1>11. CursorsShared'
    BY <1>3, <1>6 DEF CursorsShared
  <1>12. NothingLeftOut'
    BY <1>3, <1>4, <1>6 DEF NothingLeftOut, Listing, Listed
  <1>13. QED
    BY <1>1, <1>3, <1>9, <1>10, <1>11, <1>12, PassGoesOn

\* Reading a collection keeps it.
LEMMA CollectionStep ==
  ASSUME IndexInv, indexCollection
  PROVE  IndexInv'
  <1> DEFINE k == Collections[pass.at]
             d == pass.company
             cursor == working.cursors[d][k]
             got == readCollection(k)
             new == {<<d, k, p>> : p \in got.pages}
             pages == fetched \cup new
             after == [working EXCEPT !.cursors[d][k] = got.next]
             onward == [pass EXCEPT !.left = got.left]
  <1>0. pass.pc = "company"
    BY DEF indexCollection
  <1>1. \/ got.next # 0 /\ toResult([after EXCEPT !.active = d], got.left, pages)
        \/ got.next = 0 /\ pass.at < Len(Collections) /\ goOn([onward EXCEPT !.at = @ + 1], after, pages)
        \/ /\ got.next = 0 /\ pass.at = Len(Collections)
           /\ goOn(IF working.active = Nobody THEN [onward EXCEPT !.pc = "listed", !.next = @ + 1]
                                              ELSE [onward EXCEPT !.pc = "list"],
                   [after EXCEPT !.completed = @ \cup {d}, !.active = Nobody], pages)
    BY Zenon DEF indexCollection
  <1>2. d \in Companies /\ k \in CollectionNames /\ cursor \in Nat /\ cursor < CollectionPages[d][k]
        /\ CollectionPages[d][k] \in Nat \ {0} /\ pass.left \in Nat \cup {Unlimited}
    BY <1>0, IndexFacts, PassFacts DEF IndexInv, IndexTypeOK, PassTypeOK, CursorsInside
  <1>3. got = readPages(CollectionPages[d][k], pass.left, cursor)
    BY DEF readCollection
  <1> HIDE DEF got
  <1>4. /\ got.next \in Nat /\ got.next < CollectionPages[d][k] /\ got.pages \subseteq 1..CollectionPages[d][k]
        /\ IsFiniteSet(got.pages)
        /\ pass.left = Unlimited => got.left = Unlimited
        /\ pass.left \in Nat => got.left \in Nat /\ Cardinality(got.pages) + got.left <= pass.left
        /\ got.left # 0 => pass.left # 0 /\ got.next = 0 /\ got.pages = (cursor + 1)..CollectionPages[d][k]
        /\ \A n \in 1..got.next : n <= cursor \/ n \in got.pages
        /\ \A n \in got.pages : n > 1 => n - 1 \in got.pages \/ n - 1 = cursor
    <2> HIDE DEF d, k, cursor
    <2>1. Gapless(CollectionPages[d][k], pass.left, cursor, got)
      BY <1>2, <1>3, PageReads
    <2>2. QED
      BY <2>1 DEF Gapless
  <1> HIDE DEF d, k, cursor
  <1>5. /\ IsFiniteSet(fetched) /\ fetched \subseteq AllPages
        /\ pass.left \in Nat => pass.budget \in Nat /\ Cardinality(fetched) + pass.left <= pass.budget
        /\ pass.left = Unlimited => pass.budget = Unlimited
    BY DEF IndexInv, IndexTypeOK, PassTypeOK
  <1>6. /\ IsFiniteSet(pages) /\ Cardinality(pages) \in Nat /\ Cardinality(fetched) \in Nat /\ Cardinality(got.pages) \in Nat
        /\ Cardinality(pages) <= Cardinality(fetched) + Cardinality(got.pages)
    <2>1. IsFiniteSet(got.pages) /\ IsFiniteSet(fetched)
      BY <1>4, <1>5
    <2> DEFINE f == [p \in got.pages |-> <<d, k, p>>]
    <2>2. f \in Surjection(got.pages, new)
      BY DEF Surjection
    <2> HIDE DEF new, f
    <2>3. QED
      BY <2>1, <2>2, FetchedCount
  <1>7. \A p \in got.pages : <<d, k, p>> \in AllPages
    BY <1>2, <1>4 DEF AllPages, PagesOf
  <1>8. pages \in SUBSET AllPages
    BY <1>5, <1>7
  <1>9. got.left \in Nat \cup {Unlimited}
    BY <1>2, <1>4
  <1>10. /\ got.left \in Nat => pass.budget \in Nat /\ Cardinality(pages) + got.left <= pass.budget
         /\ got.left = Unlimited => pass.budget = Unlimited
    <2> HIDE DEF pages, new
    <2>1. CASE pass.left = Unlimited
      BY <1>4, <1>5, <2>1, IndexFacts
    <2>2. CASE pass.left \in Nat
      <3>1. pass.budget \in Nat /\ Cardinality(fetched) + pass.left <= pass.budget
        BY <1>5, <2>2
      <3>2. got.left \in Nat /\ Cardinality(got.pages) + got.left <= pass.left
        BY <1>4, <2>2
      <3>3. Cardinality(pages) + got.left <= pass.budget
        BY <1>6, <2>2, <3>1, <3>2
      <3>4. QED
        BY <3>1, <3>2, <3>3, IndexFacts
    <2>3. QED
      BY <1>2, <2>1, <2>2
  <1>11. /\ after \in Checkpoints /\ after.companyCursor = working.companyCursor /\ after.active = working.active
         /\ after.completed = working.completed /\ after.complete = working.complete
         /\ \A e \in Companies, l \in CollectionNames :
              after.cursors[e][l] = IF e = d /\ l = k THEN got.next ELSE working.cursors[e][l]
    <2>1. working \in Checkpoints
      BY DEF IndexInv, IndexTypeOK
    <2>2. working.cursors \in [Companies -> [CollectionNames -> Nat]]
      BY PassFacts
    <2> DEFINE row == [working.cursors[d] EXCEPT ![k] = got.next]
               rows == [working.cursors EXCEPT ![d] = row]
    <2>3. row \in [CollectionNames -> Nat] /\ \A l \in CollectionNames : row[l] = IF l = k THEN got.next ELSE working.cursors[d][l]
      BY <1>2, <1>4, <2>2
    <2>4. after = [working EXCEPT !.cursors = rows]
      BY Zenon
    <2> HIDE DEF row, after
    <2>5. rows \in [Companies -> [CollectionNames -> Nat]] /\ \A e \in Companies : rows[e] = IF e = d THEN row ELSE working.cursors[e]
      BY <1>2, <2>2, <2>3
    <2> HIDE DEF rows
    <2>6. after \in Checkpoints /\ after.cursors = rows /\ after.companyCursor = working.companyCursor
          /\ after.active = working.active /\ after.completed = working.completed /\ after.complete = working.complete
      BY <2>1, <2>4, <2>5 DEF Checkpoints
    <2>7. QED
      BY <2>3, <2>5, <2>6
  <1> HIDE DEF after
  <1>12. CursorsInside(after)
    BY <1>2, <1>4, <1>11 DEF IndexInv, IndexTypeOK, CursorsInside
  <1>13. pagesRead \cup pages = Have \cup new
    BY DEF Have
  <1>14. CursorsKept(working, Have) /\ NoGaps(Have)
    BY DEF IndexInv
  <1>15. \A n \in 1..cursor : <<d, k, n>> \in Have
    BY <1>2, <1>14 DEF CursorsKept, cursor
  <1>16. \A n \in 1..got.next : <<d, k, n>> \in Have \cup new
    BY <1>2, <1>4, <1>15
  <1>17. CursorsKept(after, Have \cup new)
    BY <1>11, <1>14, <1>16 DEF CursorsKept
  <1>18. NoGaps(Have \cup new)
    <2>1. SUFFICES ASSUME NEW p \in Have \cup new, p[3] > 1 PROVE <<p[1], p[2], p[3] - 1>> \in Have \cup new
      BY DEF NoGaps
    <2>2. CASE p \in Have
      BY <1>14, <2>1, <2>2 DEF NoGaps
    <2>3. CASE p \in new
      <3>1. PICK n \in got.pages : p = <<d, k, n>>
        BY <2>3
      <3>2. n \in Nat /\ n > 1 /\ p[1] = d /\ p[2] = k /\ p[3] = n
        BY <1>2, <1>4, <2>1, <3>1
      <3>3. n - 1 \in got.pages \/ (n - 1 = cursor /\ n - 1 \in 1..cursor)
        BY <1>2, <1>4, <3>2
      <3>4. QED
        BY <1>15, <3>2, <3>3
    <2>4. QED
      BY <2>1, <2>2, <2>3
  <1>19. \A n \in 1..CollectionPages[d][k] : got.left # 0 => <<d, k, n>> \in Have \cup new
    BY <1>2, <1>4, <1>15
  <1>20. \A e \in Companies, l \in CollectionNames : got.next = 0 => after.cursors[e][l] \in {0, checkpoint.cursors[e][l]}
    BY <1>0, <1>11 DEF IndexInv, CursorsShared
  <1>21. CASE got.next # 0 /\ toResult([after EXCEPT !.active = d], got.left, pages)
    <2> DEFINE c == [after EXCEPT !.active = d]
    <2>1. c \in Checkpoints /\ c.companyCursor = after.companyCursor /\ c.cursors = after.cursors
      BY <1>2, <1>11 DEF Checkpoints
    <2>2. toResult(c, got.left, pages)
      BY <1>21
    <2> HIDE DEF c, pages, new
    <2>3. CursorsInside(c) /\ CursorsKept(c, pagesRead \cup pages) /\ NoGaps(pagesRead \cup pages)
      BY <1>12, <1>13, <1>17, <1>18, <2>1 DEF CursorsInside, CursorsKept
    <2>4. got.left = 0
      BY <1>4, <1>21
    <2>5. QED
      BY <1>6, <1>8, <1>9, <1>10, <2>1, <2>2, <2>3, <2>4, PassReturns
  <1>22. CASE got.next = 0 /\ pass.at < Len(Collections) /\ goOn([onward EXCEPT !.at = @ + 1], after, pages)
    <2> DEFINE p == [onward EXCEPT !.at = @ + 1]
    <2>1. p \in Passes
      <3>1. pass \in Passes /\ pass.at + 1 \in 1..5
        BY <1>22, IndexFacts, PassFacts DEF IndexInv, IndexTypeOK, PassTypeOK
      <3>2. QED
        BY <1>9, <3>1 DEF Passes
    <2>2. /\ p.pc = "company" /\ p.company = d /\ p.at = pass.at + 1 /\ p.next = pass.next /\ p.upto = pass.upto
          /\ p.budget = pass.budget /\ p.left = got.left
      BY <1>0, PassFacts DEF d
    <2>3. goOn(p, after, pages)
      BY <1>22
    <2>4. pass' = p /\ working' = after /\ fetched' = pages /\ checkpoint' = checkpoint /\ pagesRead' = pagesRead
      BY <2>3 DEF goOn, resultVars
    <2> HIDE DEF p, pages, new
    <2>5. PassTypeOK'
      BY <1>2, <1>6, <1>10, <1>11, <2>1, <2>2, <2>4, IndexFacts DEF PassTypeOK
    <2>6. CursorsShared'
      BY <1>20, <1>22, <2>4 DEF CursorsShared
    <2>7. Have' = Have \cup new
      BY <1>13, <2>4 DEF Have
    <2>8. NothingLeftOut'
      <3> SUFFICES ASSUME got.left # 0 PROVE NothingLeftOut'
        BY <2>2, <2>4 DEF NothingLeftOut
      <3>1. pass.left # 0 /\ pass.pc # "idle"
        BY <1>0, <1>4
      <3>2. \A i \in 1..(p.at - 1) : \A n \in 1..CollectionPages[d][Collections[i]] : <<d, Collections[i], n>> \in Have \cup new
        <4>1. \A i \in 1..(pass.at - 1) : \A n \in 1..CollectionPages[d][Collections[i]] : <<d, Collections[i], n>> \in Have
          BY <1>0, <3>1 DEF IndexInv, NothingLeftOut, d
        <4>2. \A i \in 1..(p.at - 1) : i \in 1..(pass.at - 1) \/ i = pass.at
          BY <2>2, PassFacts
        <4>3. QED
          BY <1>19, <4>1, <4>2 DEF k
      <3>3. QED
        BY <1>0, <1>11, <2>2, <2>4, <2>7, <3>1, <3>2 DEF IndexInv, NothingLeftOut, Listing, Listed, d, PagesOf, listedOn
    <2>9. QED
      BY <1>8, <1>11, <1>12, <1>13, <1>17, <1>18, <2>3, <2>5, <2>6, <2>8, PassGoesOn
  <1>23. CASE /\ got.next = 0 /\ pass.at = Len(Collections)
              /\ goOn(IF working.active = Nobody THEN [onward EXCEPT !.pc = "listed", !.next = @ + 1]
                                                 ELSE [onward EXCEPT !.pc = "list"],
                      [after EXCEPT !.completed = @ \cup {d}, !.active = Nobody], pages)
    <2> DEFINE p == IF working.active = Nobody THEN [onward EXCEPT !.pc = "listed", !.next = @ + 1]
                                               ELSE [onward EXCEPT !.pc = "list"]
               c == [after EXCEPT !.completed = @ \cup {d}, !.active = Nobody]
    <2>1. p \in Passes
      <3>1. pass \in Passes /\ pass.next + 1 \in Nat \ {0}
        BY PassFacts DEF IndexInv, IndexTypeOK, PassTypeOK
      <3>2. QED
        BY <1>9, <3>1 DEF Passes
    <2>2. /\ p.pc = (IF working.active = Nobody THEN "listed" ELSE "list") /\ p.upto = pass.upto
          /\ p.budget = pass.budget /\ p.left = got.left
          /\ working.active = Nobody => p.next = pass.next + 1
      BY <1>0, PassFacts DEF d
    <2>3. goOn(p, c, pages)
      BY <1>23
    <2>4. c \in Checkpoints /\ c.companyCursor = working.companyCursor /\ c.cursors = after.cursors
          /\ c.completed = working.completed \cup {d} /\ c.active = Nobody
      BY <1>2, <1>11 DEF Checkpoints
    <2>5. pass' = p /\ working' = c /\ fetched' = pages /\ checkpoint' = checkpoint /\ pagesRead' = pagesRead
      BY <2>3 DEF goOn, resultVars
    <2> HIDE DEF p, c, pages, new
    <2>6. PassTypeOK'
      BY <1>6, <1>10, <2>1, <2>2, <2>4, <2>5, IndexFacts DEF PassTypeOK
    <2>7. CursorsShared'
      BY <1>20, <1>23, <2>4, <2>5 DEF CursorsShared
    <2>8. Have' = Have \cup new
      BY <1>13, <2>5 DEF Have
    <2>9. NothingLeftOut'
      <3> SUFFICES ASSUME got.left # 0 PROVE NothingLeftOut'
        BY <2>2, <2>5 DEF NothingLeftOut
      <3>1. pass.left # 0 /\ pass.pc # "idle"
        BY <1>0, <1>4
      <3>2. \A i \in 1..5 : \A n \in 1..CollectionPages[d][Collections[i]] : <<d, Collections[i], n>> \in Have \cup new
        <4>1. \A i \in 1..4 : \A n \in 1..CollectionPages[d][Collections[i]] : <<d, Collections[i], n>> \in Have
          BY <1>0, <1>23, <3>1, IndexFacts DEF IndexInv, NothingLeftOut, d
        <4>2. QED
          BY <1>19, <1>23, <4>1, IndexFacts DEF k
      <3>3. PagesOf(d) \subseteq Have \cup new
        BY SMTT(60), <3>2, IndexFacts DEF PagesOf
      <3>4. \A e \in c.completed \ checkpoint.completed : PagesOf(e) \subseteq Have \cup new
        BY <2>4, <3>1, <3>3 DEF IndexInv, NothingLeftOut
      <3>5. checkpoint.completed \subseteq c.completed /\ checkpoint.active \in c.completed \cup {Nobody}
        BY <2>4, <3>1 DEF IndexInv, NothingLeftOut, d
      <3>6. CASE working.active = Nobody
        <4>1. Listed
          BY <1>0, <3>6 DEF Listed
        <4>2. /\ working.companyCursor = 0 /\ pass.upto = Len(CompanyList)
              /\ \A n \in DOMAIN PageEnds : <<Nobody, "companies", n>> \in Have
              /\ \A j \in (listedOn(checkpoint.companyCursor) + 1)..(pass.next - 1) :
                   j <= Len(CompanyList) => CompanyList[j] \in working.completed
              /\ pass.next <= Len(CompanyList) /\ d = CompanyList[pass.next]
          BY <1>0, <3>1, <4>1 DEF IndexInv, NothingLeftOut, d
        <4>3. \A j \in (listedOn(checkpoint.companyCursor) + 1)..(p.next - 1) :
                j <= Len(CompanyList) => CompanyList[j] \in c.completed
          BY <2>2, <2>4, <3>6, <4>2, PassFacts
        <4>4. listedOn(checkpoint.companyCursor)' = listedOn(checkpoint.companyCursor)
          BY <2>5 DEF listedOn
        <4>5. QED
          BY <2>2, <2>4, <2>5, <2>8, <3>4, <3>5, <3>6, <4>2, <4>3, <4>4 DEF NothingLeftOut, Listing, Listed, PagesOf
      <3>7. CASE working.active # Nobody
        <4>1. working.companyCursor = checkpoint.companyCursor
          BY <1>0, <3>1, <3>7 DEF IndexInv, NothingLeftOut, Listing
        <4>2. QED
          BY <2>2, <2>4, <2>5, <2>8, <3>4, <3>5, <3>7, <4>1 DEF NothingLeftOut, Listing, Listed, PagesOf
      <3>8. QED
        BY <3>6, <3>7
    <2>10. CursorsInside(c) /\ CursorsKept(c, pagesRead \cup pages)
      BY <1>11, <1>12, <1>13, <1>17, <2>4 DEF CursorsInside, CursorsKept
    <2>11. QED
      BY <1>8, <1>13, <1>18, <2>3, <2>4, <2>6, <2>7, <2>9, <2>10, PassGoesOn
  <1>24. QED
    BY <1>1, <1>21, <1>22, <1>23

\* Listing companies keeps it.
LEMMA ListingStep ==
  ASSUME IndexInv, listCompanies
  PROVE  IndexInv'
  <1> DEFINE cursor == working.companyCursor
             got == readPages(Len(PageEnds), pass.left, cursor)
             last == IF got.next = 0 /\ got.pages # {} THEN Len(PageEnds) ELSE got.next
             new == {<<Nobody, "companies", n>> : n \in got.pages}
             pages == fetched \cup new
             p == [pass EXCEPT !.pc = "listed", !.left = got.left, !.next = listedOn(cursor) + 1, !.upto = listedOn(last)]
             c == [working EXCEPT !.companyCursor = got.next]
  <1>1. pass.pc = "list" /\ goOn(p, c, pages)
    BY DEF listCompanies
  <1>2. pass' = p /\ working' = c /\ fetched' = pages /\ checkpoint' = checkpoint /\ pagesRead' = pagesRead
    BY <1>1 DEF goOn, resultVars
  <1>3. cursor \in Nat /\ cursor < Len(PageEnds) /\ Len(PageEnds) \in Nat \ {0} /\ pass.left \in Nat \cup {Unlimited}
    BY IndexFacts, PassFacts DEF IndexInv, IndexTypeOK, CursorsInside
  <1> HIDE DEF got
  <1>4. /\ got.next \in Nat /\ got.next < Len(PageEnds) /\ got.pages \subseteq 1..Len(PageEnds)
        /\ IsFiniteSet(got.pages)
        /\ pass.left = Unlimited => got.left = Unlimited
        /\ pass.left \in Nat => got.left \in Nat /\ Cardinality(got.pages) + got.left <= pass.left
        /\ got.left # 0 => pass.left # 0 /\ got.next = 0 /\ got.pages = (cursor + 1)..Len(PageEnds)
        /\ \A n \in 1..got.next : n <= cursor \/ n \in got.pages
        /\ \A n \in got.pages : n > 1 => n - 1 \in got.pages \/ n - 1 = cursor
    <2>1. Gapless(Len(PageEnds), pass.left, cursor, got)
      BY <1>3, PageReads DEF got
    <2>2. QED
      BY <2>1 DEF Gapless
  <1>5. \A n \in Nat : n <= Len(PageEnds) => listedOn(n) \in 0..Len(CompanyList)
    BY IndexFacts DEF listedOn
  <1>6. listedOn(cursor) \in 0..Len(CompanyList) /\ listedOn(last) \in 0..Len(CompanyList)
    <2>1. last \in Nat /\ last <= Len(PageEnds)
      BY <1>3, <1>4
    <2> HIDE DEF last, cursor
    <2>2. QED
      BY <1>3, <1>5, <2>1
  <1>7. got.left \in Nat \cup {Unlimited}
    BY <1>3, <1>4
  <1>8. p \in Passes
    <2>1. pass \in Passes /\ listedOn(cursor) + 1 \in Nat \ {0}
      BY <1>6, IndexFacts DEF IndexInv, IndexTypeOK, PassTypeOK
    <2> HIDE DEF cursor, last
    <2>2. QED
      BY <1>6, <1>7, <2>1 DEF Passes
  <1>9. /\ p.pc = "listed" /\ p.next = listedOn(cursor) + 1 /\ p.upto = listedOn(last)
        /\ p.budget = pass.budget /\ p.left = got.left
    <2> HIDE DEF cursor, last
    <2>1. QED
      BY PassFacts
  <1>10. working.active = Nobody
    BY <1>1 DEF IndexInv, IndexTypeOK, PassTypeOK
  <1>11. /\ c \in Checkpoints /\ c.companyCursor = got.next /\ c.cursors = working.cursors
         /\ c.completed = working.completed /\ c.active = Nobody
    BY <1>4, <1>10 DEF IndexInv, IndexTypeOK, Checkpoints
  <1>12. /\ IsFiniteSet(fetched) /\ fetched \subseteq AllPages
         /\ pass.left \in Nat => pass.budget \in Nat /\ Cardinality(fetched) + pass.left <= pass.budget
         /\ pass.left = Unlimited => pass.budget = Unlimited
    BY DEF IndexInv, IndexTypeOK, PassTypeOK
  <1>13. /\ IsFiniteSet(pages) /\ Cardinality(pages) \in Nat /\ Cardinality(fetched) \in Nat /\ Cardinality(got.pages) \in Nat
         /\ Cardinality(pages) <= Cardinality(fetched) + Cardinality(got.pages)
    <2>1. IsFiniteSet(got.pages) /\ IsFiniteSet(fetched)
      BY <1>4, <1>12
    <2> DEFINE f == [n \in got.pages |-> <<Nobody, "companies", n>>]
    <2>2. f \in Surjection(got.pages, new)
      BY DEF Surjection
    <2> HIDE DEF new, f
    <2>3. QED
      BY <2>1, <2>2, FetchedCount
  <1>14. pages \in SUBSET AllPages
    BY <1>4, <1>12, IndexFacts DEF AllPages
  <1>15. pagesRead \cup pages = Have \cup new /\ Have' = Have \cup new
    BY <1>2 DEF Have
  <1>16. CursorsKept(working, Have) /\ NoGaps(Have)
    BY DEF IndexInv
  <1>17. \A n \in 1..cursor : <<Nobody, "companies", n>> \in Have
    BY <1>16 DEF CursorsKept
  <1>18. \A n \in 1..got.next : <<Nobody, "companies", n>> \in Have \cup new
    BY <1>3, <1>4, <1>17
  <1>19. \A n \in 1..Len(PageEnds) : got.left # 0 => <<Nobody, "companies", n>> \in Have \cup new
    BY <1>3, <1>4, <1>17
  <1>20. NoGaps(Have \cup new)
    <2>1. SUFFICES ASSUME NEW x \in Have \cup new, x[3] > 1 PROVE <<x[1], x[2], x[3] - 1>> \in Have \cup new
      BY DEF NoGaps
    <2>2. CASE x \in Have
      BY <1>16, <2>1, <2>2 DEF NoGaps
    <2>3. CASE x \in new
      <3>1. PICK n \in got.pages : x = <<Nobody, "companies", n>>
        BY <2>3
      <3>2. n \in Nat /\ n > 1 /\ x[1] = Nobody /\ x[2] = "companies" /\ x[3] = n
        BY <1>3, <1>4, <2>1, <3>1
      <3>3. n - 1 \in got.pages \/ (n - 1 = cursor /\ n - 1 \in 1..cursor)
        BY <1>3, <1>4, <3>2
      <3>4. QED
        BY <1>17, <3>2, <3>3
    <2>4. QED
      BY <2>1, <2>2, <2>3
  <1>21. PassTypeOK'
    <2>1. /\ got.left \in Nat => pass.budget \in Nat /\ Cardinality(pages) + got.left <= pass.budget
          /\ got.left = Unlimited => pass.budget = Unlimited
      <3> HIDE DEF pages
      <3>1. CASE pass.left = Unlimited
        BY <1>4, <1>12, <3>1, IndexFacts
      <3>2. CASE pass.left \in Nat
        <4>1. pass.budget \in Nat /\ Cardinality(fetched) + pass.left <= pass.budget
          BY <1>12, <3>2
        <4>2. got.left \in Nat /\ Cardinality(got.pages) + got.left <= pass.left
          BY <1>4, <3>2
        <4>3. Cardinality(pages) + got.left <= pass.budget
          BY <1>13, <3>2, <4>1, <4>2
        <4>4. QED
          BY <4>1, <4>2, <4>3, IndexFacts
      <3>3. QED
        BY <1>3, <3>1, <3>2
    <2> HIDE DEF p, pages, c
    <2>2. QED
      BY <1>2, <1>8, <1>9, <1>11, <1>13, <2>1 DEF PassTypeOK
  <1> HIDE DEF p, c, pages, new
  <1>22. CursorsInside(c) /\ CursorsKept(c, pagesRead \cup pages) /\ NoGaps(pagesRead \cup pages)
    BY <1>4, <1>11, <1>15, <1>16, <1>18, <1>20 DEF IndexInv, IndexTypeOK, CursorsInside, CursorsKept
  <1>23. CursorsShared'
    BY <1>1, <1>2, <1>11 DEF IndexInv, CursorsShared
  <1>24. NothingLeftOut'
    <2> SUFFICES ASSUME got.left # 0 PROVE NothingLeftOut'
      BY <1>2, <1>9 DEF NothingLeftOut
    <2>1. pass.left # 0 /\ got.next = 0 /\ got.pages = (cursor + 1)..Len(PageEnds)
      BY <1>4
    <2>2. last = Len(PageEnds) /\ listedOn(last) = Len(CompanyList)
      <3>1. got.pages # {}
        BY <1>3, <2>1
      <3>2. last = Len(PageEnds)
        BY <2>1, <3>1
      <3>3. QED
        BY <1>3, <3>2, IndexFacts DEF listedOn
    <2>3. cursor = checkpoint.companyCursor
      BY <1>1, <2>1 DEF IndexInv, NothingLeftOut, Listing
    <2>4. listedOn(checkpoint.companyCursor)' = listedOn(cursor)
      BY <1>2, <2>3 DEF listedOn
    <2>5. \A j \in (listedOn(cursor) + 1)..(p.next - 1) : FALSE
      BY <1>6, <1>9
    <2>6. /\ checkpoint.completed \subseteq c.completed
          /\ \A e \in c.completed \ checkpoint.completed : PagesOf(e) \subseteq Have \cup new
          /\ checkpoint.active \in c.completed \cup {Nobody}
      BY <1>1, <1>10, <1>11, <2>1 DEF IndexInv, NothingLeftOut
    <2> HIDE DEF last, cursor
    <2>7. QED
      BY <1>2, <1>9, <1>11, <1>15, <1>19, <2>1, <2>2, <2>4, <2>5, <2>6, IndexFacts DEF NothingLeftOut, Listing, Listed, PagesOf
  <1>25. QED
    BY <1>1, <1>11, <1>14, <1>21, <1>22, <1>23, <1>24, PassGoesOn

\* Turning to the next company listed keeps it.
LEMMA ListedStep ==
  ASSUME IndexInv, nextCompany
  PROVE  IndexInv'
  <1> DEFINE company == CompanyList[pass.next]
  <1>0. pass.pc = "listed" /\ pass.next <= pass.upto
    BY DEF nextCompany
  <1>1. company \in Companies /\ pass.next <= Len(CompanyList)
    BY SMTT(60), <1>0, IndexFacts, PassFacts
  <1>2. /\ working \in Checkpoints /\ CursorsInside(working) /\ fetched \in SUBSET AllPages /\ IsFiniteSet(fetched)
        /\ pass.left \in Nat => pass.budget \in Nat /\ Cardinality(fetched) + pass.left <= pass.budget
        /\ pass.left = Unlimited => pass.budget = Unlimited
        /\ CursorsKept(working, pagesRead \cup fetched) /\ NoGaps(pagesRead \cup fetched)
    BY DEF IndexInv, IndexTypeOK, PassTypeOK, Have
  <1>3. working.active = Nobody
    BY <1>0 DEF IndexInv, IndexTypeOK, PassTypeOK
  <1>4. CASE pass.left = 0 /\ toResult([working EXCEPT !.active = company], 0, fetched)
    <2> DEFINE c == [working EXCEPT !.active = company]
    <2>1. c \in Checkpoints /\ c.companyCursor = working.companyCursor /\ c.cursors = working.cursors
      BY <1>1, <1>2 DEF Checkpoints
    <2>2. toResult(c, 0, fetched)
      BY <1>4
    <2> HIDE DEF c
    <2>3. CursorsInside(c) /\ CursorsKept(c, pagesRead \cup fetched)
      BY <1>2, <2>1 DEF CursorsInside, CursorsKept
    <2>4. 0 \in Nat /\ 0 # Unlimited
      BY IndexFacts
    <2>5. QED
      BY <1>2, <1>4, <2>1, <2>2, <2>3, <2>4, PassReturns
  <1>5. CASE pass.left # 0 /\ company \in working.completed /\ goOn([pass EXCEPT !.next = @ + 1], working, fetched)
    <2> DEFINE p == [pass EXCEPT !.next = @ + 1]
    <2>1. p \in Passes
      <3>1. pass \in Passes /\ pass.next + 1 \in Nat \ {0}
        BY PassFacts DEF IndexInv, IndexTypeOK, PassTypeOK
      <3>2. QED
        BY <3>1 DEF Passes
    <2>2. /\ p.pc = "listed" /\ p.upto = pass.upto /\ p.next = pass.next + 1
          /\ p.budget = pass.budget /\ p.left = pass.left
      BY <1>0, PassFacts
    <2>3. goOn(p, working, fetched)
      BY <1>5
    <2>4. pass' = p /\ working' = working /\ fetched' = fetched /\ checkpoint' = checkpoint /\ pagesRead' = pagesRead
      BY <2>3 DEF goOn, resultVars
    <2> HIDE DEF p
    <2>5. PassTypeOK' /\ CursorsShared'
      BY <1>0, <1>2, <1>3, <2>1, <2>2, <2>4 DEF PassTypeOK, IndexInv, CursorsShared
    <2>6. NothingLeftOut'
      <3>1. \A j \in (listedOn(checkpoint.companyCursor) + 1)..(p.next - 1) :
              j <= Len(CompanyList) => CompanyList[j] \in working.completed
        <4>1. \A j \in (listedOn(checkpoint.companyCursor) + 1)..(pass.next - 1) :
                j <= Len(CompanyList) => CompanyList[j] \in working.completed
          BY <1>0, <1>5 DEF IndexInv, NothingLeftOut, Listed
        <4>2. QED
          BY <1>5, <2>2, <4>1, PassFacts
      <3>2. listedOn(checkpoint.companyCursor)' = listedOn(checkpoint.companyCursor) /\ Have' = Have
        BY <2>4 DEF listedOn, Have
      <3> HIDE DEF company
      <3>3. QED
        BY <1>0, <1>3, <1>5, <2>2, <2>4, <3>1, <3>2 DEF IndexInv, NothingLeftOut, Listing, Listed, PagesOf
    <2>7. QED
      BY <1>2, <2>3, <2>5, <2>6, PassGoesOn
  <1>6. CASE /\ pass.left # 0 /\ company \notin working.completed
             /\ goOn([pass EXCEPT !.pc = "company", !.company = company, !.at = 1], working, fetched)
    <2> DEFINE p == [pass EXCEPT !.pc = "company", !.company = company, !.at = 1]
    <2>1. p \in Passes
      <3>1. pass \in Passes
        BY DEF IndexInv, IndexTypeOK, PassTypeOK
      <3>2. company \in Companies \cup {Nobody} /\ 1 \in 1..5
        BY <1>1
      <3> HIDE DEF company
      <3>3. QED
        BY <3>1, <3>2 DEF Passes
    <2>2. /\ p.pc = "company" /\ p.company = company /\ p.at = 1 /\ p.upto = pass.upto /\ p.next = pass.next
          /\ p.budget = pass.budget /\ p.left = pass.left
      BY PassFacts
    <2>3. goOn(p, working, fetched)
      BY <1>6
    <2>4. pass' = p /\ working' = working /\ fetched' = fetched /\ checkpoint' = checkpoint /\ pagesRead' = pagesRead
      BY <2>3 DEF goOn, resultVars
    <2> HIDE DEF p
    <2>5. PassTypeOK' /\ CursorsShared'
      BY <1>0, <1>1, <1>2, <1>3, <2>1, <2>2, <2>4 DEF PassTypeOK, IndexInv, CursorsShared
    <2>6. NothingLeftOut'
      <3>1. listedOn(checkpoint.companyCursor)' = listedOn(checkpoint.companyCursor) /\ Have' = Have
        BY <2>4 DEF listedOn, Have
      <3>2. QED
        BY <1>0, <1>1, <1>3, <1>6, <2>2, <2>4, <3>1 DEF IndexInv, NothingLeftOut, Listing, Listed, PagesOf
    <2>7. QED
      BY <1>2, <2>3, <2>5, <2>6, PassGoesOn
  <1>7. QED
    BY <1>4, <1>5, <1>6 DEF nextCompany

\* Coming to the end of the list keeps it, and ends the pass as promised.
LEMMA CompleteStep ==
  ASSUME IndexInv, allListed
  PROVE  IndexInv' /\ AmplePassFinishes
  <1> DEFINE c == [working EXCEPT !.complete = working.companyCursor = 0]
  <1>0. pass.pc = "listed" /\ pass.next > pass.upto /\ toResult(c, pass.left, fetched)
    BY DEF allListed
  <1>1. /\ working \in Checkpoints /\ CursorsInside(working) /\ fetched \in SUBSET AllPages /\ IsFiniteSet(fetched)
        /\ pass.left \in Nat => pass.budget \in Nat /\ Cardinality(fetched) + pass.left <= pass.budget
        /\ pass.left = Unlimited => pass.budget = Unlimited
        /\ CursorsKept(working, pagesRead \cup fetched) /\ NoGaps(pagesRead \cup fetched)
        /\ pagesRead \subseteq AllPages
    BY DEF IndexInv, IndexTypeOK, PassTypeOK, Have
  <1>2. working.active = Nobody
    BY <1>0 DEF IndexInv, IndexTypeOK, PassTypeOK
  <1>3. c \in Checkpoints /\ c.companyCursor = working.companyCursor /\ c.cursors = working.cursors
        /\ c.complete = (working.companyCursor = 0)
    BY <1>1 DEF Checkpoints
  <1> HIDE DEF c
  <1>4. CursorsInside(c) /\ CursorsKept(c, pagesRead \cup fetched)
    BY <1>1, <1>3 DEF CursorsInside, CursorsKept
  <1>5. ASSUME pass.left # 0
        PROVE  /\ working.companyCursor = 0 /\ checkpoint.active \in working.completed \cup {Nobody}
               /\ \A n \in DOMAIN PageEnds : <<Nobody, "companies", n>> \in Have
               /\ \A j \in (listedOn(checkpoint.companyCursor) + 1)..Len(CompanyList) : CompanyList[j] \in working.completed
               /\ \A e \in working.completed \ checkpoint.completed : PagesOf(e) \subseteq Have
    <2>1. /\ working.companyCursor = 0 /\ pass.upto = Len(CompanyList)
          /\ checkpoint.active \in working.completed \cup {Nobody}
          /\ \A n \in DOMAIN PageEnds : <<Nobody, "companies", n>> \in Have
          /\ \A j \in (listedOn(checkpoint.companyCursor) + 1)..(pass.next - 1) :
               j <= Len(CompanyList) => CompanyList[j] \in working.completed
          /\ \A e \in working.completed \ checkpoint.completed : PagesOf(e) \subseteq Have
      BY <1>0, <1>2, <1>5 DEF IndexInv, NothingLeftOut, Listed
    <2>2. \A j \in (listedOn(checkpoint.companyCursor) + 1)..Len(CompanyList) :
            j \in (listedOn(checkpoint.companyCursor) + 1)..(pass.next - 1) /\ j <= Len(CompanyList)
      BY <1>0, <2>1, IndexFacts, PassFacts
    <2>3. QED
      BY <2>1, <2>2
  <1>6. passes = 0 /\ c.complete /\ pass.left # 0 => pagesRead \cup fetched = AllPages
    <2> SUFFICES ASSUME passes = 0, pass.left # 0 PROVE AllPages \subseteq Have
      BY <1>1 DEF Have
    <2>1. checkpoint = createCheckpoint
      BY DEF IndexInv
    <2>2. listedOn(checkpoint.companyCursor) = 0 /\ checkpoint.completed = {}
      BY <2>1 DEF createCheckpoint, listedOn
    <2>3. \A j \in 1..Len(CompanyList) : CompanyList[j] \in working.completed
      BY <1>5, <2>2, IndexFacts
    <2>4. \A e \in Companies : PagesOf(e) \subseteq Have
      BY <1>5, <2>2, <2>3, IndexFacts
    <2>5. QED
      BY <1>5, <2>4 DEF AllPages
  <1>7. pass.left \in Nat \cup {Unlimited}
    BY PassFacts
  <1>8. IndexInv'
    BY <1>0, <1>1, <1>3, <1>4, <1>6, <1>7, PassReturns
  <1>9. AmplePassFinishes
    <2> SUFFICES ASSUME lastPass'.left # 0 PROVE AmplePassFinishes
      BY DEF AmplePassFinishes
    <2>1. lastPass'.left = pass.left /\ checkpoint' = c /\ pagesRead' = Have
      BY <1>0 DEF toResult, Have
    <2>2. checkpoint'.complete
      BY <1>3, <1>5, <2>1
    <2>3. ASSUME NEW e \in {checkpoint.active} \cup {CompanyList[n] : n \in (listedOn(checkpoint.companyCursor) + 1)..Len(CompanyList)},
                 e \notin checkpoint.completed \cup {Nobody}
          PROVE  PagesOf(e) \subseteq pagesRead'
      BY <1>5, <2>1, <2>3
    <2>4. QED
      BY <2>2, <2>3 DEF AmplePassFinishes
  <1>10. QED
    BY <1>8, <1>9

\* A page read that fails keeps it.
LEMMA FailureStep ==
  ASSUME IndexInv, readFails
  PROVE  IndexInv'
  <1>1. /\ pass.pc # "idle" /\ checkpoint' = [checkpoint EXCEPT !.cursors = working.cursors]
        /\ pass' = NoPass /\ working' = createCheckpoint /\ fetched' = {} /\ passes' = passes
        /\ lastPass' = lastPass /\ pagesRead' = pagesRead
    BY DEF readFails
  <1>2. /\ checkpoint \in Checkpoints /\ working \in Checkpoints /\ CursorsInside(checkpoint) /\ CursorsInside(working)
        /\ CursorsKept(checkpoint, pagesRead) /\ NoGaps(pagesRead) /\ pagesRead \subseteq AllPages
        /\ \A d \in Companies, k \in CollectionNames : working.cursors[d][k] \in {0, checkpoint.cursors[d][k]}
    BY <1>1 DEF IndexInv, IndexTypeOK, CursorsShared
  <1>3. /\ checkpoint' \in Checkpoints /\ checkpoint'.cursors = working.cursors
        /\ checkpoint'.companyCursor = checkpoint.companyCursor /\ checkpoint'.complete = checkpoint.complete
    BY <1>1, <1>2 DEF Checkpoints
  <1>4. CursorsInside(checkpoint)'
    BY <1>2, <1>3 DEF CursorsInside
  <1>5. CursorsKept(checkpoint, pagesRead)'
    <2>1. \A d \in Companies, k \in CollectionNames : \A n \in 1..working.cursors[d][k] : <<d, k, n>> \in pagesRead
      <3>1. SUFFICES ASSUME NEW d \in Companies, NEW k \in CollectionNames, NEW n \in 1..working.cursors[d][k]
                     PROVE  <<d, k, n>> \in pagesRead
        OBVIOUS
      <3>2. working.cursors[d][k] = checkpoint.cursors[d][k] \/ working.cursors[d][k] = 0
        BY <1>2
      <3>3. QED
        BY <1>2, <3>1, <3>2 DEF CursorsKept
    <2>2. QED
      BY <1>1, <1>2, <1>3, <2>1 DEF CursorsKept
  <1>6. createCheckpoint \in Checkpoints /\ CursorsInside(createCheckpoint) /\ CursorsKept(createCheckpoint, pagesRead)
        /\ createCheckpoint.active = Nobody
    BY IndexFacts DEF createCheckpoint, Checkpoints, CursorsInside, CursorsKept
  <1>7. IsFiniteSet({}) /\ Cardinality({}) = 0
    BY FS_EmptySet
  <1>8. PassTypeOK'
    BY <1>1, <1>6, <1>7, IndexFacts DEF PassTypeOK, NoPass, Passes
  <1>9. IndexTypeOK'
    <2>1. CursorsInside(working)' /\ AllPages' = AllPages /\ ResultTypeOK'
      BY <1>1, <1>6 DEF CursorsInside, AllPages, IndexInv, IndexTypeOK, ResultTypeOK
    <2>2. QED
      BY <1>1, <1>2, <1>3, <1>4, <1>6, <1>8, <2>1 DEF IndexTypeOK
  <1>10. Have' = pagesRead' /\ pass'.pc = "idle"
    BY <1>1 DEF Have, NoPass
  <1>11. CursorsKept(working, Have)' /\ NoGaps(pagesRead)' /\ NoGaps(Have)'
    BY <1>1, <1>2, <1>6, <1>10 DEF CursorsKept, NoGaps
  <1>12. passes' = 0 => checkpoint' = createCheckpoint /\ pagesRead' = {}
    <2> SUFFICES ASSUME passes = 0 PROVE checkpoint' = createCheckpoint /\ pagesRead' = {}
      BY <1>1
    <2>1. checkpoint = createCheckpoint /\ pagesRead = {}
      BY DEF IndexInv
    <2>2. working.cursors = [e \in Companies |-> [k \in CollectionNames |-> 0]]
      <3>1. \A e \in Companies, k \in CollectionNames : working.cursors[e][k] = 0
        BY <1>2, <2>1 DEF createCheckpoint
      <3>2. working.cursors \in [Companies -> [CollectionNames -> Nat]]
        BY <1>2 DEF Checkpoints
      <3>3. QED
        BY <3>1, <3>2
    <2>3. QED
      BY <1>1, <2>1, <2>2 DEF createCheckpoint
  <1>13. AmpleBudgetReadsAll'
    BY <1>1, <1>3 DEF IndexInv, AmpleBudgetReadsAll, AllPages
  <1>14. QED
    BY <1>5, <1>9, <1>10, <1>11, <1>12, <1>13 DEF IndexInv, CursorsShared, NothingLeftOut, createCheckpoint

\* An interrupted collection has used the budget up.
LEMMA CollectionEnds ==
  ASSUME IndexInv, indexCollection
  PROVE  passes' = passes \/ lastPass'.left = 0
  <1> DEFINE d == pass.company
             k == Collections[pass.at]
             cursor == working.cursors[d][k]
             got == readCollection(k)
  <1>1. passes' = passes \/ (got.next # 0 /\ lastPass'.left = got.left)
    BY DEF indexCollection, goOn, resultVars, toResult
  <1>2. d \in Companies /\ k \in CollectionNames /\ cursor \in Nat /\ cursor < CollectionPages[d][k]
        /\ CollectionPages[d][k] \in Nat \ {0} /\ pass.left \in Nat \cup {Unlimited}
    BY IndexFacts, PassFacts DEF IndexInv, IndexTypeOK, PassTypeOK, CursorsInside, indexCollection
  <1>3. got = readPages(CollectionPages[d][k], pass.left, cursor)
    BY DEF readCollection
  <1> HIDE DEF got, d, k, cursor
  <1>4. got.left # 0 => got.next = 0
    <2>1. Gapless(CollectionPages[d][k], pass.left, cursor, got)
      BY <1>2, <1>3, PageReads
    <2>2. QED
      BY <2>1 DEF Gapless
  <1>5. QED
    BY <1>1, <1>4

\* Every step keeps it.
LEMMA IndexStep == IndexInv /\ [IndexNext]_indexVars => IndexInv' /\ [AmplePassFinishes]_indexVars
  <1> SUFFICES ASSUME IndexInv, [IndexNext]_indexVars PROVE IndexInv' /\ AmplePassFinishes
    OBVIOUS
  <1>1. passes \in Nat
    BY DEF IndexInv, IndexTypeOK, ResultTypeOK
  <1>2. ASSUME NEW b \in PageBudgets, index(b) PROVE IndexInv' /\ AmplePassFinishes
    <2>1. passes' = passes
      BY <1>2 DEF index, goOn, resultVars
    <2>2. QED
      BY <1>2, <2>1, PassBegins DEF AmplePassFinishes
  <1>3. CASE indexCollection
    <2>1. passes' = passes \/ lastPass'.left = 0
      BY <1>3, CollectionEnds
    <2>2. QED
      BY <1>3, <2>1, CollectionStep DEF AmplePassFinishes
  <1>4. CASE listCompanies
    <2>1. passes' = passes
      BY <1>4 DEF listCompanies, goOn, resultVars
    <2>2. QED
      BY <1>4, <2>1, ListingStep DEF AmplePassFinishes
  <1>5. CASE nextCompany
    <2>1. passes' = passes \/ lastPass'.left = 0
      BY <1>5 DEF nextCompany, goOn, resultVars, toResult
    <2>2. QED
      BY <1>5, <2>1, ListedStep DEF AmplePassFinishes
  <1>6. CASE allListed
    BY <1>6, CompleteStep
  <1>7. CASE readFails
    <2>1. passes' = passes
      BY <1>7 DEF readFails
    <2>2. QED
      BY <1>7, <2>1, FailureStep DEF AmplePassFinishes
  <1>8. CASE UNCHANGED indexVars
    <2>1. /\ checkpoint' = checkpoint /\ passes' = passes /\ lastPass' = lastPass /\ pagesRead' = pagesRead
          /\ pass' = pass /\ working' = working /\ fetched' = fetched
      BY <1>8 DEF indexVars, resultVars
    <2>2. IndexInv'
      BY <2>1 DEF IndexInv, IndexTypeOK, PassTypeOK, ResultTypeOK, CursorsInside, CursorsKept, NoGaps, Have, CursorsShared,
                  NothingLeftOut, Listing, Listed, AmpleBudgetReadsAll, AllPages, PagesOf, createCheckpoint, listedOn
    <2>3. QED
      BY <2>1, <2>2 DEF AmplePassFinishes
  <1>9. QED
    BY <1>2, <1>3, <1>4, <1>5, <1>6, <1>7, <1>8 DEF IndexNext

\* It holds at the start.
LEMMA IndexInitially == IndexInit => IndexInv
  <1> SUFFICES ASSUME IndexInit PROVE IndexInv
    OBVIOUS
  <1>1. /\ checkpoint = createCheckpoint /\ working = createCheckpoint /\ passes = 0
        /\ lastPass.budget = 0 /\ lastPass.left = 0 /\ lastPass.pages = 0 /\ pagesRead = {} /\ fetched = {} /\ pass = NoPass
    BY DEF IndexInit
  <1>2. createCheckpoint \in Checkpoints /\ CursorsInside(createCheckpoint) /\ CursorsKept(createCheckpoint, {})
        /\ createCheckpoint.active = Nobody
    BY IndexFacts DEF createCheckpoint, Checkpoints, CursorsInside, CursorsKept
  <1>3. IsFiniteSet({}) /\ Cardinality({}) = 0
    BY FS_EmptySet
  <1>4. PassTypeOK /\ ResultTypeOK
    BY <1>1, <1>2, <1>3, IndexFacts DEF PassTypeOK, ResultTypeOK, NoPass, Passes
  <1>5. Have = {} /\ pass.pc = "idle"
    BY <1>1 DEF Have, NoPass
  <1>6. QED
    BY <1>1, <1>2, <1>4, <1>5 DEF IndexInv, IndexTypeOK, NoGaps, CursorsShared, NothingLeftOut, AmpleBudgetReadsAll

\* It holds throughout.
LEMMA IndexInvariant == OperationsSpec => []IndexInv
  <1>1. OperationsInit => IndexInv
    BY IndexInitially DEF OperationsInit
  <1>2. IndexInv /\ [OperationsNext]_operationsVars => IndexInv'
    BY OneComponentSteps, IndexStep
  <1>3. QED
    BY <1>1, <1>2, PTL DEF OperationsSpec

(***************************************************************************)
(* For any contract, budgets and failures of single reads: a walk repeats  *)
(* and drops nothing, and what the indexer's passes have read of a         *)
(* collection is a prefix of it, and everything if the first pass had      *)
(* budget to spare (pagination-guardrails.ts, periodPagination.ts,         *)
(* ContractStateIndexer.ts).                                               *)
(***************************************************************************)
THEOREM ReadingIsSound == OperationsSpec => []ReadingSound
  <1>1. IndexInv => ResumesWhereItStopped /\ AmpleBudgetReadsAll
    BY DEF IndexInv, IndexTypeOK, ResultTypeOK, NoGaps, ResumesWhereItStopped
  <1>2. NoPageTwice /\ NothingDropped /\ IndexInv => ReadingSound
    BY <1>1 DEF ReadingSound
  <1>3. QED
    BY <1>2, WalksAreSound, IndexInvariant, PTL

-----------------------------------------------------------------------------
(***************************************************************************)
(* What no step may do.                                                    *)
(***************************************************************************)

\* An event that succeeds again passed the comparison with a cursor that covers it.
LEMMA RepeatsAtCursor == EventInv /\ [EventNext]_eventVars => RepeatsOnlyAtCursor
  <1> SUFFICES ASSUME EventInv, [EventNext]_eventVars, NEW e \in accepted,
                      "success" \in reports'[e], "success" \notin reports[e]
               PROVE  savedCursor = e
    BY DEF RepeatsOnlyAtCursor
  <1>1. e \in StreamEvents /\ reports \in [StreamEvents -> SUBSET {"success", "error", "duplicate"}]
    BY DEF EventInv, EventTypeOK
  <1>2. save /\ call.event = e
    BY <1>1 DEF EventNext, eventVars, deliver, detectReplay, load, recordEvent, save, deleteCursor, clearRecords,
                EventCrash, Report
  <1>3. savedCursor \in StreamEvents /\ NotBefore(savedCursor, e) /\ NotBefore(e, savedCursor)
    BY <1>2 DEF EventInv, EventTypeOK, CursorCoversSuccesses, CheckedAgainstCursor, save
  <1>4. QED
    BY <1>1, <1>3, PositionOrder

\* The signal is looked at before every request.
LEMMA AbortIsHeard == PollInv /\ [PollNext]_pollVars => NoAskAfterCancel
  <1> SUFFICES ASSUME PollInv, [PollNext]_pollVars, cancelled, poll'.pc = "asked" PROVE poll.pc = "asked"
    BY DEF NoAskAfterCancel
  <1>1. poll \in [kind : {"tx", "payroll"}, pc : {"head", "asked", "asleep", "ended"}, timeout : Nat,
                  asked : Nat, wake : Nat, final : BOOLEAN,
                  outcome : {"none", "running", "answer", "timeout", "cancelled", "throw"}]
    BY DEF PollInv, PollTypeOK
  <1>2. ASSUME NEW o, PollEnds(o) PROVE poll'.pc # "asked"
    BY <1>1, <1>2 DEF PollEnds
  <1>3. ~askStatus
    BY <1>1, <1>2 DEF askStatus
  <1>4. wakeUp => FALSE
    BY <1>1, <1>2 DEF wakeUp
  <1>5. QED
    BY <1>3, <1>4 DEF PollNext, pollStep, answered, cancel, PollTick, pollVars

(***************************************************************************)
(* The weights of a policy.  The loop's sum exists, is a natural number    *)
(* and does not fall when no weight falls: each by the smallest prefix of  *)
(* which it would be false.                                                *)
(***************************************************************************)
SumsUpTo(sum, w, k) ==
  /\ sum \in [0..k -> Nat]
  /\ \A n \in 0..k : sum[n] = IF n = 0 THEN 0 ELSE sum[n - 1] + w[n]

\* The sums of the first weights exist.
LEMMA SumExists ==
  ASSUME NEW w \in Seq(Nat)
  PROVE  \E sum : SumsUpTo(sum, w, Len(w))
  <1> DEFINE Summed(k) == \E sum : SumsUpTo(sum, w, k)
             unsummed == {k \in 0..Len(w) : ~Summed(k)}
  <1>1. SUFFICES ASSUME unsummed # {} PROVE FALSE
    <2>1. Len(w) \in 0..Len(w)
      OBVIOUS
    <2> HIDE DEF Summed
    <2>2. unsummed = {} => Summed(Len(w))
      BY <2>1
    <2>3. QED
      BY <2>2 DEF Summed
  <1>2. PICK k \in 0..Len(w) : k \in unsummed /\ \A j \in unsummed : k <= j
    <2>1. unsummed \in SUBSET Nat /\ unsummed \subseteq 0..Len(w)
      OBVIOUS
    <2> HIDE DEF unsummed
    <2>2. QED
      BY <1>1, <2>1, Smallest
  <1>3. CASE k = 0
    <2>1. SumsUpTo([n \in 0..0 |-> 0], w, 0)
      BY DEF SumsUpTo
    <2>2. QED
      BY <1>2, <1>3, <2>1
  <1>4. CASE k # 0
    <2>1. k - 1 \in 0..Len(w) /\ k \in 1..Len(w) /\ w[k] \in Nat
      BY <1>4
    <2>2. PICK sum : SumsUpTo(sum, w, k - 1)
      BY SMTT(60), <1>2, <2>1
    <2> DEFINE longer == [n \in 0..k |-> IF n = k THEN sum[k - 1] + w[k] ELSE sum[n]]
    <2>3. \A n \in 0..(k - 1) : sum[n] \in Nat /\ longer[n] = sum[n]
      BY <2>1, <2>2 DEF SumsUpTo
    <2>4. longer[k] = longer[k - 1] + w[k] /\ longer[k] \in Nat
      <3>1. k \in 0..k /\ k - 1 \in 0..(k - 1)
        BY <2>1
      <3>2. longer[k] = sum[k - 1] + w[k] /\ longer[k - 1] = sum[k - 1] /\ sum[k - 1] \in Nat
        BY <2>3, <3>1
      <3> HIDE DEF longer
      <3>3. QED
        BY <2>1, <3>2
    <2>5. longer \in [0..k -> Nat]
      <3>1. \A n \in 0..k : n = k \/ n \in 0..(k - 1)
        BY <2>1
      <3>2. \A n \in 0..k : longer[n] \in Nat
        BY <2>3, <2>4, <3>1
      <3>3. QED
        BY <3>2
    <2>6. \A n \in 0..k : longer[n] = IF n = 0 THEN 0 ELSE longer[n - 1] + w[n]
      <3> SUFFICES ASSUME NEW n \in 0..k PROVE longer[n] = IF n = 0 THEN 0 ELSE longer[n - 1] + w[n]
        OBVIOUS
      <3> HIDE DEF longer
      <3>1. CASE n = k
        BY <2>4, <3>1, <1>4
      <3>2. CASE n # k
        <4>1. n \in 0..(k - 1) /\ (n # 0 => n - 1 \in 0..(k - 1))
          BY <3>2
        <4>2. sum[n] = IF n = 0 THEN 0 ELSE sum[n - 1] + w[n]
          BY <2>2, <4>1 DEF SumsUpTo
        <4>3. QED
          BY <2>3, <4>1, <4>2
      <3>3. QED
        BY <3>1, <3>2
    <2>7. SumsUpTo(longer, w, k)
      <3> HIDE DEF longer
      <3>1. QED
        BY <2>5, <2>6 DEF SumsUpTo
    <2>8. QED
      BY <1>2, <2>7
  <1>5. QED
    BY <1>3, <1>4

\* addWeights is the last of them, and a natural.
LEMMA SumOfWeights ==
  ASSUME NEW w \in Seq(Nat)
  PROVE  /\ \E sum : SumsUpTo(sum, w, Len(w)) /\ addWeights(w) = sum[Len(w)]
         /\ addWeights(w) \in Nat
  <1> DEFINE Recurs(sum) == sum = [n \in 0..Len(w) |-> IF n = 0 THEN 0 ELSE sum[n - 1] + w[n]]
             total == CHOOSE sum : Recurs(sum)
  <1>1. \E sum : Recurs(sum)
    <2>1. PICK sum : SumsUpTo(sum, w, Len(w))
      BY SumExists
    <2>2. Recurs(sum)
      BY <2>1 DEF SumsUpTo
    <2>3. QED
      BY <2>2
  <1>2. addWeights(w) = total[Len(w)]
    BY Zenon DEF addWeights
  <1>3. Recurs(total)
    <2> HIDE DEF Recurs
    <2>1. QED
      BY <1>1
  <1> HIDE DEF total
  <1>4. \A n \in 0..Len(w) : total[n] \in Nat
    <2> DEFINE odd == {n \in 0..Len(w) : total[n] \notin Nat}
    <2>1. SUFFICES ASSUME odd # {} PROVE FALSE
      OBVIOUS
    <2>2. PICK n \in 0..Len(w) : n \in odd /\ \A m \in odd : n <= m
      <3>1. odd \in SUBSET Nat /\ odd \subseteq 0..Len(w)
        OBVIOUS
      <3> HIDE DEF odd
      <3>2. QED
        BY <2>1, <3>1, Smallest
    <2>3. total[n] = IF n = 0 THEN 0 ELSE total[n - 1] + w[n]
      BY <1>3
    <2>4. n # 0 /\ n - 1 \in 0..Len(w) /\ w[n] \in Nat
      BY <2>2, <2>3
    <2>5. total[n - 1] \in Nat
      BY <2>2, <2>4
    <2>6. QED
      BY <2>2, <2>3, <2>4, <2>5
  <1>5. SumsUpTo(total, w, Len(w))
    BY <1>3, <1>4 DEF SumsUpTo
  <1>6. Len(w) \in 0..Len(w)
    OBVIOUS
  <1>7. QED
    BY <1>2, <1>4, <1>5, <1>6

\* Larger weights add up to more.
LEMMA SumGrows ==
  ASSUME NEW v \in Seq(Nat), NEW w \in Seq(Nat), Len(v) = Len(w), \A i \in DOMAIN v : v[i] <= w[i]
  PROVE  addWeights(v) <= addWeights(w)
  <1>1. PICK f : SumsUpTo(f, v, Len(v)) /\ addWeights(v) = f[Len(v)]
    BY SumOfWeights
  <1>2. PICK g : SumsUpTo(g, w, Len(w)) /\ addWeights(w) = g[Len(w)]
    BY SumOfWeights
  <1>3. \A n \in 0..Len(v) : f[n] \in Nat /\ g[n] \in Nat
    BY <1>1, <1>2 DEF SumsUpTo
  <1> DEFINE fallen == {n \in 0..Len(v) : ~ (f[n] <= g[n])}
  <1>4. fallen = {}
    <2> SUFFICES ASSUME fallen # {} PROVE FALSE
      OBVIOUS
    <2>1. PICK n \in 0..Len(v) : n \in fallen /\ \A m \in fallen : n <= m
      <3>1. fallen \in SUBSET Nat /\ fallen \subseteq 0..Len(v)
        OBVIOUS
      <3> HIDE DEF fallen
      <3>2. QED
        BY <3>1, Smallest
    <2>2. /\ f[n] = IF n = 0 THEN 0 ELSE f[n - 1] + v[n]
          /\ g[n] = IF n = 0 THEN 0 ELSE g[n - 1] + w[n]
      BY <1>1, <1>2 DEF SumsUpTo
    <2>3. n # 0
      BY <2>1, <2>2
    <2>4. n \in DOMAIN v /\ n - 1 \in 0..Len(v) /\ v[n] \in Nat /\ w[n] \in Nat /\ v[n] <= w[n]
      BY <2>3
    <2>5. f[n - 1] <= g[n - 1]
      <3>1. n - 1 \in fallen => n <= n - 1
        BY <2>1
      <3>2. ~ (n <= n - 1)
        OBVIOUS
      <3>3. QED
        BY <2>4, <3>1, <3>2
    <2>6. f[n] <= g[n]
      <3>1. f[n] = f[n - 1] + v[n] /\ g[n] = g[n - 1] + w[n] /\ f[n - 1] \in Nat /\ g[n - 1] \in Nat
        BY <1>3, <2>2, <2>3, <2>4
      <3>2. QED
        BY SMTT(60), <2>4, <2>5, <3>1
    <2>7. QED
      BY <2>1, <2>6
  <1>5. Len(v) \in 0..Len(v)
    OBVIOUS
  <1>6. QED
    BY <1>1, <1>2, <1>3, <1>4, <1>5

(***************************************************************************)
(* Whoever is no longer pending has decided: if decisions stand, what the  *)
(* policy made of them stays.  Unanimous approval leaves nobody pending,   *)
(* and more signatures never count less.                                   *)
(***************************************************************************)
SameSigners(q, p) ==
  /\ q.policy = p.policy /\ DOMAIN q.signers = DOMAIN p.signers
  /\ \A i \in DOMAIN p.signers : q.signers[i].role = p.signers[i].role

\* The weights of a request's signers are naturals.
LEMMA WeightsTyped ==
  ASSUME NEW q \in AuthorizationRequest, NEW S
  PROVE  weightsOf(q, S) \in Seq(Nat) /\ Len(weightsOf(q, S)) = Len(q.signers) /\ DOMAIN weightsOf(q, S) = DOMAIN q.signers
  <1> DEFINE n == Len(q.signers)
  <1>1. q.signers \in Seq(SignerInfo) /\ q.policy \in AuthPolicies
    BY DEF AuthorizationRequest
  <1>2. n \in Nat /\ DOMAIN q.signers = 1..n
    BY <1>1
  <1>3. \A role \in DOMAIN q.policy.weights : q.policy.weights[role] \in Nat
    BY <1>1, AuthAssumption
  <1>4. weightsOf(q, S) \in [1..n -> Nat]
    BY <1>2, <1>3 DEF weightsOf
  <1> HIDE DEF n
  <1>5. \A w \in [1..n -> Nat] : w \in Seq(Nat) /\ Len(w) = n /\ DOMAIN w = 1..n
    BY <1>2
  <1>6. QED
    BY <1>2, <1>4, <1>5 DEF n

\* A decision that leaves the others alone takes no weight away.
LEMMA DecisionsCount ==
  ASSUME AuthInv, NEW r \in Made, evaluatePolicy(r), requests'[r] \in AuthorizationRequest,
         SameSigners(requests'[r], requests[r]),
         \A i \in DOMAIN requests[r].signers :
           requests[r].signers[i].state # "pending" => requests'[r].signers[i].state = requests[r].signers[i].state
  PROVE  evaluatePolicy(r)'
  <1> DEFINE q == requests[r]
             p == requests'[r]
             all == DOMAIN q.signers
             signed == InState(r, {"signed"})
             signedNow == {i \in DOMAIN p.signers : p.signers[i].state \in {"signed"}}
             against == InState(r, {"rejected"})
             againstNow == {i \in DOMAIN p.signers : p.signers[i].state \in {"rejected"}}
  <1>1. q \in AuthorizationRequest /\ IsFiniteSet(all) /\ q.policy \in AuthPolicies
    BY RequestTypes
  <1>2. p.policy = q.policy /\ DOMAIN p.signers = all /\ \A i \in all : p.signers[i].role = q.signers[i].role
    BY DEF SameSigners
  <1>3. /\ InState(r, {"signed"})' = signedNow /\ InState(r, {"rejected"})' = againstNow
        /\ signed = {i \in all : q.signers[i].state = "signed"} /\ against = {i \in all : q.signers[i].state = "rejected"}
        /\ signedNow = {i \in all : p.signers[i].state = "signed"} /\ againstNow = {i \in all : p.signers[i].state = "rejected"}
    BY <1>2 DEF InState
  <1>4. signed \subseteq signedNow /\ against \subseteq againstNow
    BY <1>3
  <1>5. /\ IsFiniteSet(signed) /\ IsFiniteSet(signedNow) /\ IsFiniteSet(all \ against)
        /\ Cardinality(signed) \in Nat /\ Cardinality(signedNow) \in Nat /\ Cardinality(signed) <= Cardinality(signedNow)
    <2>1. signed \subseteq all /\ signedNow \subseteq all /\ all \ against \subseteq all
      BY <1>3
    <2>2. IsFiniteSet(signed) /\ IsFiniteSet(signedNow) /\ IsFiniteSet(all \ against)
      BY <1>1, <2>1, FS_Subset
    <2>3. QED
      BY <1>4, <2>2, FS_Subset, FS_CardinalityType
  <1>6. CASE q.policy.type = "unanimous"
    <2>1. Cardinality(signed) = Cardinality(all \ against)
      BY <1>6 DEF evaluatePolicy
    <2>2. signed \subseteq all \ against
      BY <1>3
    <2>3. signed = all \ against
      BY <1>5, <2>1, <2>2, FS_Subset
    <2>4. \A i \in all : q.signers[i].state # "pending"
      BY <1>3, <2>3
    <2>5. signedNow = signed /\ againstNow = against
      BY <1>3, <2>4
    <2>6. Cardinality(signedNow) = Cardinality(DOMAIN p.signers \ againstNow)
      BY <1>2, <2>1, <2>5
    <2>7. QED
      BY <1>2, <1>3, <1>6, <2>6 DEF evaluatePolicy
  <1>7. CASE q.policy.type = "threshold"
    <2>1. q.policy.threshold # 0 /\ Cardinality(signed) >= q.policy.threshold /\ q.policy.threshold \in Int
      BY <1>1, <1>7, AuthAssumption DEF evaluatePolicy
    <2>2. Cardinality(signedNow) >= q.policy.threshold
      BY <1>5, <2>1
    <2>3. QED
      BY <1>2, <1>3, <1>7, <2>1, <2>2 DEF evaluatePolicy
  <1>8. CASE q.policy.type = "weighted"
    <2>1. 2 * addWeights(weightsOf(q, signed)) >= addWeights(weightsOf(q, all))
      BY <1>8 DEF evaluatePolicy
    <2>2. weightsOf(p, all) = weightsOf(q, all)
      BY <1>2 DEF weightsOf
    <2>3. /\ weightsOf(q, signed) \in Seq(Nat) /\ weightsOf(p, signedNow) \in Seq(Nat) /\ weightsOf(q, all) \in Seq(Nat)
          /\ Len(weightsOf(q, signed)) = Len(weightsOf(p, signedNow)) /\ DOMAIN weightsOf(q, signed) = all
      <3>1. Len(q.signers) = Len(p.signers)
        <4>1. q.signers \in Seq(SignerInfo) /\ p.signers \in Seq(SignerInfo)
          BY <1>1 DEF AuthorizationRequest
        <4> DEFINE qs == q.signers
                   ps == p.signers
        <4> HIDE DEF qs, ps
        <4>2. qs \in Seq(SignerInfo) /\ ps \in Seq(SignerInfo) /\ DOMAIN qs = DOMAIN ps
          BY <1>2, <4>1 DEF qs, ps
        <4>3. Len(qs) = Len(ps)
          BY <4>2
        <4>4. QED
          BY <4>3 DEF qs, ps
      <3>2. QED
        BY <1>1, <3>1, WeightsTyped
    <2>4. \A i \in all : weightsOf(q, signed)[i] <= weightsOf(p, signedNow)[i]
      <3> SUFFICES ASSUME NEW i \in all PROVE weightsOf(q, signed)[i] <= weightsOf(p, signedNow)[i]
        OBVIOUS
      <3>1. weightsOf(q, signed)[i] \in Nat /\ weightsOf(p, signedNow)[i] \in Nat
        <4>1. DOMAIN weightsOf(p, signedNow) = all
          BY <1>2, WeightsTyped
        <4>2. QED
          BY <2>3, <4>1
      <3>2. CASE i \in signed
        <4>1. i \in signedNow
          BY <1>4, <3>2
        <4>2. weightsOf(q, signed)[i] = weightsOf(p, signedNow)[i]
          BY <1>2, <3>2, <4>1 DEF weightsOf
        <4>3. QED
          BY <3>1, <4>2
      <3>3. CASE i \notin signed
        <4>1. weightsOf(q, signed)[i] = 0
          BY <3>3 DEF weightsOf
        <4>2. QED
          BY <3>1, <4>1
      <3>4. QED
        BY <3>2, <3>3
    <2>5. /\ addWeights(weightsOf(q, signed)) \in Nat /\ addWeights(weightsOf(p, signedNow)) \in Nat
          /\ addWeights(weightsOf(q, signed)) <= addWeights(weightsOf(p, signedNow)) /\ addWeights(weightsOf(q, all)) \in Nat
      <3> HIDE DEF q, p, all, signed, signedNow
      <3>1. addWeights(weightsOf(q, all)) \in Nat
        BY <2>3, SumOfWeights
      <3>2. addWeights(weightsOf(q, signed)) \in Nat /\ addWeights(weightsOf(p, signedNow)) \in Nat
        BY <2>3, SumOfWeights
      <3>3. QED
        BY <2>3, <2>4, <3>1, <3>2, SumGrows
    <2>6. 2 * addWeights(weightsOf(p, signedNow)) >= addWeights(weightsOf(p, DOMAIN p.signers))
      <3>1. DOMAIN p.signers = all
        BY <1>2
      <3> HIDE DEF q, p, all, signed, signedNow
      <3>2. QED
        BY <2>1, <2>2, <2>5, <3>1
    <2>7. QED
      BY <1>2, <1>3, <1>8, <2>6 DEF evaluatePolicy
  <1>9. QED
    BY <1>6, <1>7, <1>8 DEF evaluatePolicy

\* One signer of the request changes: one who is pending, or without a change of state.
OneSignerChanges(r) ==
  \E i \in DOMAIN requests[r].signers, s \in SignerInfo :
    /\ s.role = requests[r].signers[i].role
    /\ requests[r].signers[i].state = "pending" \/ s.state = requests[r].signers[i].state
    /\ requests' = [requests EXCEPT ![r].signers[i] = s]

\* Every operation but a revocation changes one signer and takes no decision back.
LEMMA SignerChanges ==
  ASSUME AuthInv, NEW r \in Made, NEW a \in AuthAddresses
  PROVE  /\ \A role : addSigner(r, a, role) => OneSignerChanges(r)
         /\ \A role, n : recordSignature(r, a, role, n) => OneSignerChanges(r)
         /\ recordRejection(r, a) => OneSignerChanges(r)
  <1>1. authNow \in Nat /\ \A i \in DOMAIN requests[r].signers : requests[r].signers[i] \in SignerInfo
    BY AuthFacts, RequestTypes
  <1>2. ASSUME NEW role, addSigner(r, a, role) PROVE OneSignerChanges(r)
    <2> DEFINE S == {j \in DOMAIN requests[r].signers : requests[r].signers[j].role = role}
               i == IF S = {} THEN 0 ELSE Min(S)
               s == [requests[r].signers[i] EXCEPT !.address = a]
    <2>1. i # 0 /\ requests' = [requests EXCEPT ![r].signers[i] = s]
      BY <1>2 DEF addSigner, FindSigner
    <2>2. i \in DOMAIN requests[r].signers
      <3>1. S \in SUBSET DOMAIN requests[r].signers
        OBVIOUS
      <3> HIDE DEF S
      <3>2. QED
        BY <2>1, <3>1, FoundSigner
    <2> HIDE DEF i
    <2>3. s.role = requests[r].signers[i].role /\ s.state = requests[r].signers[i].state /\ s \in SignerInfo
      BY <1>1, <2>2 DEF SignerInfo
    <2> HIDE DEF s
    <2>4. QED
      BY <2>1, <2>2, <2>3 DEF OneSignerChanges
  <1>3. ASSUME NEW role, NEW n, recordSignature(r, a, role, n) PROVE OneSignerChanges(r)
    <2> DEFINE S == {j \in DOMAIN requests[r].signers : requests[r].signers[j].address = a /\ requests[r].signers[j].role = role}
               i == IF S = {} THEN 0 ELSE Min(S)
               s == [requests[r].signers[i] EXCEPT !.state = "signed", !.signedAt = authNow]
    <2>1. /\ i # 0 /\ requests' = [requests EXCEPT ![r].signers[i] = s]
          /\ requests[r].signers[i].state = "pending"
      BY <1>3 DEF recordSignature, FindSigner
    <2>2. i \in DOMAIN requests[r].signers
      <3>1. S \in SUBSET DOMAIN requests[r].signers
        OBVIOUS
      <3> HIDE DEF S
      <3>2. QED
        BY <2>1, <3>1, FoundSigner
    <2> HIDE DEF i
    <2>3. s.role = requests[r].signers[i].role /\ s \in SignerInfo
      BY <1>1, <2>2 DEF SignerInfo
    <2> HIDE DEF s
    <2>4. QED
      BY <2>1, <2>2, <2>3 DEF OneSignerChanges
  <1>4. ASSUME recordRejection(r, a) PROVE OneSignerChanges(r)
    <2> DEFINE S == {j \in DOMAIN requests[r].signers : requests[r].signers[j].address = a}
               i == IF S = {} THEN 0 ELSE Min(S)
               s == [requests[r].signers[i] EXCEPT !.state = "rejected", !.rejectedAt = authNow]
    <2>1. /\ i # 0 /\ requests' = [requests EXCEPT ![r].signers[i] = s]
          /\ requests[r].signers[i].state = "pending"
      BY <1>4 DEF recordRejection, FindSigner
    <2>2. i \in DOMAIN requests[r].signers
      <3>1. S \in SUBSET DOMAIN requests[r].signers
        OBVIOUS
      <3> HIDE DEF S
      <3>2. QED
        BY <2>1, <3>1, FoundSigner
    <2> HIDE DEF i
    <2>3. s.role = requests[r].signers[i].role /\ s \in SignerInfo
      BY <1>1, <2>2 DEF SignerInfo
    <2> HIDE DEF s
    <2>4. QED
      BY <2>1, <2>2, <2>3 DEF OneSignerChanges
  <1>5. QED
    BY <1>2, <1>3, <1>4

\* No step but a revocation takes an approval back before it expires.
LEMMA ApprovalStands == AuthInv /\ AuthInv' /\ [AuthNext]_authVars => ApprovalKept
  <1> SUFFICES ASSUME AuthInv, AuthInv', [AuthNext]_authVars, NEW r \in Made, isApproved(r), ~isExpired(r)',
                      \A a \in AuthAddresses : ~revokeSignature(r, a)
               PROVE  isApproved(r)'
    BY DEF ApprovalKept
  <1>1. /\ r \in AuthRequests /\ requests[r] # Undefined /\ requests[r] \in AuthorizationRequest
        /\ requests \in [AuthRequests -> AuthorizationRequest \cup {Undefined}]
        /\ \A i \in DOMAIN requests[r].signers : requests[r].signers[i] \in SignerInfo
        /\ requests[r].signers \in Seq(SignerInfo)
    BY RequestTypes DEF AuthInv
  <1>2. evaluatePolicy(r)
    BY DEF isApproved
  <1>3. SUFFICES /\ SameSigners(requests'[r], requests[r]) /\ requests'[r] # Undefined
                 /\ \A i \in DOMAIN requests[r].signers :
                      requests[r].signers[i].state # "pending" => requests'[r].signers[i].state = requests[r].signers[i].state
    <2>1. requests'[r] \in AuthorizationRequest
      BY <1>1, <1>3 DEF AuthInv
    <2>2. evaluatePolicy(r)'
      BY <1>2, <1>3, <2>1, DecisionsCount
    <2>3. QED
      BY <2>2 DEF isApproved
  <1>4. CASE requests'[r] = requests[r]
    BY <1>1, <1>4 DEF SameSigners
  <1>5. ASSUME OneSignerChanges(r)
        PROVE  /\ SameSigners(requests'[r], requests[r]) /\ requests'[r] # Undefined
               /\ \A j \in DOMAIN requests[r].signers :
                    requests[r].signers[j].state # "pending" => requests'[r].signers[j].state = requests[r].signers[j].state
    <2>1. PICK i \in DOMAIN requests[r].signers, s \in SignerInfo :
                 /\ s.role = requests[r].signers[i].role
                 /\ requests[r].signers[i].state = "pending" \/ s.state = requests[r].signers[i].state
                 /\ requests' = [requests EXCEPT ![r].signers[i] = s]
      BY <1>5 DEF OneSignerChanges
    <2>2. requests'[r] = [requests[r] EXCEPT !.signers[i] = s]
      BY <1>1, <2>1
    <2>3. requests'[r].policy = requests[r].policy /\ requests'[r].signers = [requests[r].signers EXCEPT ![i] = s]
      BY <1>1, <2>2 DEF AuthorizationRequest
    <2>4. requests'[r] # Undefined
      <3>1. requests'[r].signers \in Seq(SignerInfo)
        BY <1>1, <2>3
      <3>2. requests'[r] \in AuthorizationRequest
        BY <1>1, <2>2, <3>1 DEF AuthorizationRequest
      <3>3. QED
        BY <3>2, AuthAssumption
    <2>5. QED
      BY <1>1, <2>1, <2>3, <2>4 DEF SameSigners
  <1>6. ASSUME NEW p \in AuthRequests, p # r
        PROVE  /\ \A a \in AuthAddresses, role \in SignerRoles :
                    /\ addSigner(p, a, role) => requests'[r] = requests[r]
                    /\ \A n \in AuthNonces : recordSignature(p, a, role, n) => requests'[r] = requests[r]
               /\ \A a \in AuthAddresses :
                    /\ recordRejection(p, a) => requests'[r] = requests[r]
                    /\ revokeSignature(p, a) => requests'[r] = requests[r]
    BY <1>1, <1>6, Zenon DEF addSigner, recordSignature, recordRejection, revokeSignature
  <1>7. ASSUME NEW p \in AuthRequests, NEW policy \in AuthPolicies, createAuthorizationRequest(p, policy)
        PROVE  requests'[r] = requests[r]
    BY <1>1, <1>7 DEF createAuthorizationRequest
  <1>8. CASE AuthTick \/ UNCHANGED authVars
    BY <1>4, <1>8 DEF AuthTick, authVars
  <1>9. CASE \E p \in AuthRequests, a \in AuthAddresses :
               \/ \E role \in SignerRoles : addSigner(p, a, role)
               \/ \E role \in SignerRoles, n \in AuthNonces : recordSignature(p, a, role, n)
               \/ recordRejection(p, a)
               \/ revokeSignature(p, a)
    <2>1. PICK p \in AuthRequests, a \in AuthAddresses :
                 \/ \E role \in SignerRoles : addSigner(p, a, role)
                 \/ \E role \in SignerRoles, n \in AuthNonces : recordSignature(p, a, role, n)
                 \/ recordRejection(p, a)
                 \/ revokeSignature(p, a)
      BY <1>9
    <2>2. CASE p = r
      <3>1. OneSignerChanges(r)
        BY <2>1, <2>2, SignerChanges
      <3>2. QED
        BY <1>5, <3>1
    <2>3. CASE p # r
      BY <1>4, <1>6, <2>1, <2>3
    <2>4. QED
      BY <2>2, <2>3
  <1>10. QED
    BY <1>4, <1>7, <1>8, <1>9 DEF AuthNext

(***************************************************************************)
(* For any policies, stream, clock and number of requests: an approval is  *)
(* not taken back by a signature or a rejection, an event that succeeds    *)
(* again after a crash is the one the cursor stands at, no status is asked *)
(* for after an abort, a pass of the indexer with budget left finishes,    *)
(* and a worker request settles once (MultiSignerCoordinator.ts,           *)
(* IdempotentEventProcessor.ts, polling.ts, ContractStateIndexer.ts,       *)
(* WorkerProofGenerator.ts).                                               *)
(***************************************************************************)
THEOREM StepsAreSound == OperationsSpec => StepsSound
  <1> DEFINE Inv == AuthInv /\ EventInv /\ PollInv /\ IndexInv /\ WorkerInv
             Kept == ApprovalKept /\ RepeatsOnlyAtCursor /\ NoAskAfterCancel /\ AmplePassFinishes /\ SettlesOnce
  <1>1. ASSUME Inv, AuthInv', [OperationsNext]_operationsVars PROVE [Kept]_operationsVars
    <2>1. ApprovalKept
      BY <1>1, OneComponentSteps, ApprovalStands
    <2>2. RepeatsOnlyAtCursor /\ NoAskAfterCancel /\ SettlesOnce
      BY <1>1, OneComponentSteps, RepeatsAtCursor, AbortIsHeard, WorkerStep
    <2>3. AmplePassFinishes
      <3>1. [AmplePassFinishes]_indexVars
        BY <1>1, OneComponentSteps, IndexStep
      <3>2. CASE indexVars' = indexVars
        <4>1. passes' = passes
          BY <3>2 DEF indexVars, resultVars
        <4>2. QED
          BY <4>1 DEF AmplePassFinishes
      <3>3. QED
        BY <3>1, <3>2
    <2>4. QED
      BY <2>1, <2>2, <2>3
  <1>2. QED
    BY <1>1, AuthInvariant, EventInvariant, PollInvariant, IndexInvariant, WorkerInvariant, PTL DEF OperationsSpec, StepsSound
=============================================================================
