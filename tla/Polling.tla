------------------------------- MODULE Polling -------------------------------
(***************************************************************************)
(* polling.ts: pollTransaction ("tx") and pollPayrollCompletion            *)
(* ("payroll", also behind waitForPayrollRunCompletion).  The clock runs   *)
(* while a status is awaited and during the sleep; the caller may abort at *)
(* any time, which a sleep notices and a request does not.                 *)
(***************************************************************************)
EXTENDS Checks

CONSTANTS
  PollTimeouts,       \* timeoutMs
  PollInterval,       \* intervalMs
  MaxAnswerTime       \* bound: how long a status call takes

\* A timeout below 0 is one of 0: it has passed when the loop begins.
ASSUME PollAssumption == PollTimeouts \subseteq Nat /\ PollInterval \in Nat /\ MaxAnswerTime \in Nat

VARIABLES
  poll,               \* [kind, pc, timeout, asked, wake, final, outcome]
  pollNow,            \* time since the start
  cancelled           \* signal.aborted

pollVars == <<poll, pollNow, cancelled>>

\* assertBoundedPollOptions holds for payroll only; pollTransaction takes any numbers.
PollInit ==
  /\ poll \in [kind : {"tx", "payroll"}, pc : {"head"}, timeout : PollTimeouts, asked : {0}, wake : {0}, final : {FALSE},
               outcome : {"running"}]
  /\ poll.kind = "payroll" => poll.timeout > 0
  /\ pollNow = 0 /\ cancelled = FALSE

PollEnds(outcome) == poll' = [poll EXCEPT !.pc = "ended", !.outcome = outcome]

timedOut == pollNow >= poll.timeout

\* Mutant: the signal is looked at by the sleep only.
askStatus_Deaf ==
  /\ poll.pc = "head"
  /\ IF poll.kind = "tx" /\ timedOut THEN PollEnds("timeout")
     ELSE poll' = [poll EXCEPT !.pc = "asked", !.asked = pollNow]
  /\ UNCHANGED <<pollNow, cancelled>>

\* The head of the loop: pollTransaction looks at the clock here, both at the signal.
askStatus ==
  /\ poll.pc = "head"
  /\ IF poll.kind = "tx" /\ timedOut THEN PollEnds("timeout")
     ELSE IF cancelled THEN PollEnds("cancelled")
     ELSE poll' = [poll EXCEPT !.pc = "asked", !.asked = pollNow]
  /\ UNCHANGED <<pollNow, cancelled>>

\* Mutant: sleeps the whole interval.
sleepFor_Whole == PollInterval

\* pollPayrollCompletion never sleeps past its deadline.
sleepFor == IF poll.kind = "tx" THEN PollInterval ELSE Min({PollInterval, Max({0, poll.timeout - pollNow})})

\* Mutant: the clock goes before the answer.
answered_Late(status) ==
  /\ poll.pc = "asked"
  /\ IF timedOut THEN poll' = [poll EXCEPT !.pc = "ended", !.outcome = "timeout", !.final = status # "pending"]
     ELSE IF status # "pending" THEN poll' = [poll EXCEPT !.pc = "ended", !.outcome = "answer", !.final = TRUE]
     ELSE IF cancelled THEN PollEnds("cancelled")
     ELSE poll' = [poll EXCEPT !.pc = "asleep", !.wake = pollNow + sleepFor]
  /\ UNCHANGED <<pollNow, cancelled>>

\* The answer: a final one is returned at any time, also after an abort; a throw ends the loop.
answered(status) ==
  /\ poll.pc = "asked"
  /\ IF status = "throw" THEN PollEnds(IF poll.kind = "payroll" /\ cancelled THEN "cancelled" ELSE "throw")
     ELSE IF status = "final" THEN poll' = [poll EXCEPT !.pc = "ended", !.outcome = "answer", !.final = TRUE]
     ELSE IF poll.kind = "payroll" /\ timedOut THEN PollEnds("timeout")
     ELSE IF cancelled THEN PollEnds("cancelled")
     ELSE poll' = [poll EXCEPT !.pc = "asleep", !.wake = pollNow + sleepFor]
  /\ UNCHANGED <<pollNow, cancelled>>

\* Mutant: an abort clears the timer and rejects nothing.
wakeUp_Stuck ==
  /\ poll.pc = "asleep" /\ ~cancelled /\ pollNow >= poll.wake
  /\ IF poll.kind = "payroll" /\ timedOut THEN PollEnds("timeout") ELSE poll' = [poll EXCEPT !.pc = "head"]
  /\ UNCHANGED <<pollNow, cancelled>>

\* sleep ends by its timer or by the abort.
wakeUp ==
  /\ poll.pc = "asleep"
  /\ \/ cancelled /\ PollEnds("cancelled")
     \/ /\ pollNow >= poll.wake
        /\ IF poll.kind = "payroll" /\ timedOut THEN PollEnds("timeout") ELSE poll' = [poll EXCEPT !.pc = "head"]
  /\ UNCHANGED <<pollNow, cancelled>>

cancel == poll.pc # "ended" /\ ~cancelled /\ cancelled' = TRUE /\ UNCHANGED <<poll, pollNow>>

\* Time passes while something is awaited; the timers of the runtime are on time.
PollTick ==
  /\ \/ poll.pc = "asked" /\ pollNow < poll.asked + MaxAnswerTime
     \/ poll.pc = "asleep" /\ pollNow < poll.wake /\ ~cancelled
  /\ pollNow' = pollNow + 1
  /\ UNCHANGED <<poll, cancelled>>

pollStep == askStatus \/ (\E status \in {"pending", "final", "throw"} : answered(status)) \/ wakeUp

PollNext == pollStep \/ cancel \/ PollTick

-----------------------------------------------------------------------------
(***************************************************************************)
(* A final status that was read is never lost to the clock or to an abort  *)
(* that came while it was on its way (polling.ts 75-93, 243-261).          *)
(***************************************************************************)
AnswerBeatsClock == poll.final => poll.outcome = "answer"

(***************************************************************************)
(* Payroll polling reports its timeout when it is due: not before, and no  *)
(* later than a status call that was under way takes.  pollTransaction   *)
(* may sleep one interval more (polling.ts 70, 263-278).                   *)
(***************************************************************************)
TimeoutOnTime ==
  poll.outcome = "timeout" =>
    /\ timedOut
    /\ poll.kind = "payroll" => pollNow <= poll.timeout + MaxAnswerTime /\ (pollNow > poll.timeout => poll.wake < pollNow)
    /\ poll.kind = "tx" => pollNow <= poll.timeout + MaxAnswerTime + PollInterval

(***************************************************************************)
(* No status is asked for once the caller has aborted.                     *)
(***************************************************************************)
NoAskAfterCancel == cancelled /\ poll'.pc = "asked" => poll.pc = "asked"

(***************************************************************************)
(* Polling ends, whatever the statuses are, if the status calls settle and *)
(* the timers fire.                                                        *)
(***************************************************************************)
PollingEnds == <>(poll.pc = "ended")
=============================================================================
