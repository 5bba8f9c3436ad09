--------------------------- MODULE EngineExecution ---------------------------
(***************************************************************************)
(* One search: run_engines spawns a task per selected engine, run_one      *)
(* bounds each by its own timeout and by the deadline of the request, and  *)
(* the results are joined in the order in which the tasks end              *)
(* (zoeken-search execution.rs and lib.rs).  The search is dropped when    *)
(* its client goes away, and the JoinSet then aborts the tasks.            *)
(*                                                                         *)
(* The runtime polls a spawned task within StartDelay ticks and a timer    *)
(* that is due before the clock moves on.  What an engine returns is       *)
(* reduced to whether it completed, failed or panicked.                    *)
(***************************************************************************)
EXTENDS Integers

CONSTANTS
  Engines,         \* the selected engines; their names are distinct
  Panicking,       \* the engines whose task may panic
  TimeoutOf,       \* se.timeout, or the default engine timeout
  RequestTimeout,  \* Search::request_timeout
  StartDelay,      \* bound on the delay of a spawned task's first poll
  LastStart,       \* bound: the search starts no later
  MaxClock         \* bound: the clock stops here

ASSUME EnginesAssumption ==
  /\ Panicking \subseteq Engines
  /\ TimeoutOf \in [Engines -> Nat]

ASSUME TimeAssumption ==
  /\ RequestTimeout \in Nat
  /\ StartDelay \in Nat
  /\ StartDelay <= RequestTimeout
  /\ LastStart \in Nat
  /\ MaxClock \in Nat

VARIABLES
  clock,
  search,          \* "idle", "joining", "reported" or "dropped"
  deadline,        \* of the request
  task,            \* state of each engine's task
  startedAt,       \* first poll of each task
  endsAt,          \* end of its budget
  reason,          \* timeout_reason
  outcome,         \* EngineRunOutcome.status once the task has ended
  byName,          \* engines whose outcome has been joined
  report           \* ExecutionReport

taskVars == <<task, startedAt, endsAt, reason, outcome>>
executionVars == <<clock, search, deadline, taskVars, byName, report>>

Searches == {"idle", "joining", "reported", "dropped"}
Tasks == {"none", "spawned", "running", "ended", "panicked", "joined"}
Reasons == {"engine_timeout", "global_deadline"}
Statuses == {"completed", "failed"} \cup Reasons

TypeOK ==
  /\ clock \in Nat
  /\ search \in Searches
  /\ deadline \in Nat
  /\ task \in [Engines -> Tasks]
  /\ startedAt \in [Engines -> Nat]
  /\ endsAt \in [Engines -> Nat]
  /\ reason \in [Engines -> Reasons]
  /\ outcome \in [Engines -> Statuses \cup {"none"}]
  /\ byName \subseteq Engines
  /\ report \in [Engines -> Statuses \cup {"none"}]

ExecutionInit ==
  /\ clock = 0
  /\ search = "idle"
  /\ deadline = 0
  /\ task = [e \in Engines |-> "none"]
  /\ startedAt = [e \in Engines |-> 0]
  /\ endsAt = [e \in Engines |-> 0]
  /\ reason = [e \in Engines |-> "global_deadline"]
  /\ outcome = [e \in Engines |-> "none"]
  /\ byName = {}
  /\ report = [e \in Engines |-> "none"]

Lesser(a, b) == IF a < b THEN a ELSE b

----------------------------------------------------------------------------
(* Search::run_engines and run_engines.                                    *)

\* Select, compute the deadline and spawn every task; nothing awaits between.
Spawn ==
  /\ search = "idle"
  /\ clock <= LastStart
  /\ search' = "joining"
  /\ deadline' = clock + RequestTimeout
  /\ task' = [e \in Engines |-> "spawned"]
  /\ UNCHANGED <<clock, startedAt, endsAt, reason, outcome, byName, report>>

\* join_next returns an outcome, whichever task ended.
Join(e) ==
  /\ search = "joining"
  /\ task[e] = "ended"
  /\ task' = [task EXCEPT ![e] = "joined"]
  /\ byName' = byName \cup {e}
  /\ UNCHANGED <<clock, search, deadline, startedAt, endsAt, reason, outcome,
                 report>>

\* Mutant of JoinError: the failed task stays in the set.
JoinErrorKept(e) ==
  /\ search = "joining"
  /\ task[e] = "panicked"
  /\ UNCHANGED executionVars

\* join_next returns a JoinError, which is only logged.
JoinError(e) ==
  /\ search = "joining"
  /\ task[e] = "panicked"
  /\ task' = [task EXCEPT ![e] = "joined"]
  /\ UNCHANGED <<clock, search, deadline, startedAt, endsAt, reason, outcome,
                 byName, report>>

\* Mutant of Report: stop joining at the deadline.
ReportAtDeadline ==
  /\ search = "joining"
  /\ clock >= deadline \/ \A e \in Engines : task[e] = "joined"
  /\ search' = "reported"
  /\ report' = [e \in Engines |->
                  IF e \in byName THEN outcome[e] ELSE "global_deadline"]
  /\ UNCHANGED <<clock, deadline, taskVars, byName>>

\* The JoinSet is empty: report in selection order, absent names by default.
Report ==
  /\ search = "joining"
  /\ \A e \in Engines : task[e] = "joined"
  /\ search' = "reported"
  /\ report' = [e \in Engines |->
                  IF e \in byName THEN outcome[e] ELSE "global_deadline"]
  /\ UNCHANGED <<clock, deadline, taskVars, byName>>

\* The future of the search is dropped, and its JoinSet with it.
DropSearch ==
  /\ search = "joining"
  /\ search' = "dropped"
  /\ task' = [e \in Engines |-> "none"]
  /\ UNCHANGED <<clock, deadline, startedAt, endsAt, reason, outcome, byName,
                 report>>

----------------------------------------------------------------------------
(* run_one.                                                                *)

\* The first poll comes after the deadline: the engine is not called.
TooLate(e) ==
  /\ task[e] = "spawned"
  /\ deadline <= clock
  /\ task' = [task EXCEPT ![e] = "ended"]
  /\ outcome' = [outcome EXCEPT ![e] = "global_deadline"]
  /\ UNCHANGED <<clock, search, deadline, startedAt, endsAt, reason, byName,
                 report>>

\* Mutants of Budget and BlameOf: unbounded, and the wrong way round.
BudgetOwnTimeout(e, remaining) == TimeoutOf[e]
BlameSwapped(e, remaining) ==
  IF TimeoutOf[e] <= remaining THEN "global_deadline" ELSE "engine_timeout"

Budget(e, remaining) == Lesser(TimeoutOf[e], remaining)

BlameOf(e, remaining) ==
  IF TimeoutOf[e] <= remaining THEN "engine_timeout" ELSE "global_deadline"

RunOne(e) ==
  LET remaining == deadline - clock IN
  /\ task[e] = "spawned"
  /\ remaining > 0
  /\ task' = [task EXCEPT ![e] = "running"]
  /\ startedAt' = [startedAt EXCEPT ![e] = clock]
  /\ endsAt' = [endsAt EXCEPT ![e] = clock + Budget(e, remaining)]
  /\ reason' = [reason EXCEPT ![e] = BlameOf(e, remaining)]
  /\ UNCHANGED <<clock, search, deadline, outcome, byName, report>>

End(e, status) ==
  /\ task[e] = "running"
  /\ task' = [task EXCEPT ![e] = "ended"]
  /\ outcome' = [outcome EXCEPT ![e] = status]
  /\ UNCHANGED <<clock, search, deadline, startedAt, endsAt, reason, byName,
                 report>>

\* The executor answers; at the end of the budget its answer still counts.
EngineAnswers(e) == \E status \in {"completed", "failed"} : End(e, status)

\* tokio::time::timeout drops the executor's future.
TimeOut(e) ==
  /\ clock >= endsAt[e]
  /\ End(e, reason[e])

Panic(e) ==
  /\ e \in Panicking
  /\ task[e] = "running"
  /\ task' = [task EXCEPT ![e] = "panicked"]
  /\ UNCHANGED <<clock, search, deadline, startedAt, endsAt, reason, outcome,
                 byName, report>>

----------------------------------------------------------------------------
Tick ==
  /\ clock < MaxClock
  /\ \A e \in Engines :
       /\ task[e] = "spawned" => clock < (deadline - RequestTimeout) + StartDelay
       /\ task[e] = "running" => clock < endsAt[e]
  /\ search = "joining" =>
       /\ \A e \in Engines : task[e] \notin {"ended", "panicked"}
       /\ \E e \in Engines : task[e] # "joined"
  /\ clock' = clock + 1
  /\ UNCHANGED <<search, deadline, taskVars, byName, report>>

TaskStep(e) == TooLate(e) \/ RunOne(e) \/ EngineAnswers(e) \/ TimeOut(e) \/ Panic(e)
JoinStep == Report \/ \E e \in Engines : Join(e) \/ JoinError(e)

ExecutionNext ==
  \/ Spawn \/ JoinStep \/ DropSearch \/ Tick
  \/ \E e \in Engines : TaskStep(e)

ExecutionSpec == ExecutionInit /\ [][ExecutionNext]_executionVars

\* The runtime polls tasks and the search when they are ready; time passes.
FairSpec ==
  /\ ExecutionSpec
  /\ \A e \in Engines :
       WF_executionVars(TooLate(e) \/ RunOne(e)) /\ WF_executionVars(TimeOut(e))
  /\ WF_executionVars(JoinStep)
  /\ WF_executionVars(Tick)

----------------------------------------------------------------------------
(* Properties.                                                             *)

(***************************************************************************)
(* The search waits for its slowest engine, and still never past the       *)
(* deadline of the request, although the tasks start late.                 *)
(***************************************************************************)
AnswersByDeadline ==
  search = "joining" => clock <= deadline

\* The inductive invariant: how tasks, timers and joins relate.
ExecutionInv ==
  /\ search = "idle" =>
       /\ byName = {}
       /\ \A e \in Engines :
            task[e] = "none" /\ outcome[e] = "none" /\ report[e] = "none"
  /\ search = "joining" =>
       /\ deadline >= RequestTimeout /\ deadline - RequestTimeout <= clock
       /\ clock <= deadline
       /\ \A e \in Engines :
            /\ task[e] # "none" /\ report[e] = "none"
            /\ task[e] \in {"spawned", "running", "panicked"} =>
                 outcome[e] = "none" /\ e \notin byName
            /\ task[e] = "ended" => outcome[e] # "none" /\ e \notin byName
            /\ task[e] = "joined" => (e \in byName <=> outcome[e] # "none")
  /\ search \in {"idle", "reported", "dropped"} =>
       \A e \in Engines : task[e] \in {"none", "joined"}
  /\ \A e \in Engines :
       /\ task[e] = "spawned" => clock <= (deadline - RequestTimeout) + StartDelay
       /\ task[e] = "running" =>
            /\ startedAt[e] < deadline
            /\ endsAt[e] = startedAt[e] + Budget(e, deadline - startedAt[e])
            /\ reason[e] = BlameOf(e, deadline - startedAt[e])
            /\ clock <= endsAt[e]

(***************************************************************************)
(* Nothing that an engine answered is lost between its task and the        *)
(* report: whatever the order of the joins, the report has the status with *)
(* which the task ended.                                                   *)
(***************************************************************************)
AnswersReported ==
  search = "reported" =>
    \A e \in Engines : outcome[e] # "none" => report[e] = outcome[e]

(***************************************************************************)
(* A task that ended on its own is never blamed wrongly: it is charged     *)
(* with a timeout only when it used up its own timeout before the          *)
(* deadline, and with the deadline only when that was reached.             *)
(***************************************************************************)
BlameTrue ==
  \A e \in Engines :
    /\ outcome[e] = "engine_timeout" =>
         /\ startedAt[e] + TimeoutOf[e] <= deadline
         /\ startedAt[e] + TimeoutOf[e] <= clock
    /\ outcome[e] = "global_deadline" => deadline <= clock

(***************************************************************************)
(* Every search that started ends, although engines may hang or panic.     *)
(***************************************************************************)
SearchEnds == search = "joining" ~> search \in {"reported", "dropped"}
==============================================================================
