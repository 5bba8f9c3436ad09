---------------------------- MODULE EngineCircuit ----------------------------
(***************************************************************************)
(* The health circuit of one engine: the rows of engine_health that the    *)
(* storage keeps per hour, and the attempts of NetworkExecutor::execute    *)
(* that look the circuit up, send their request and record the outcome     *)
(* (zoeken-server executor.rs and engine_health.rs).  Attempts of all      *)
(* searches and replicas run concurrently: what an attempt writes depends  *)
(* on the row it read before the request, however long ago that was.       *)
(*                                                                         *)
(* Abstractions.  Time is in ticks, BucketLen ticks are an hour.  Every    *)
(* statement names the engine, so one engine is enough.  Latencies are     *)
(* left out.  SQL NULL is 0 in a cooldown and "none" in a category; there  *)
(* is no cooldown at 0.  "failed" is a history of the attempts that ended  *)
(* badly, recorded or not; no guard reads it.                              *)
(***************************************************************************)
EXTENDS Integers, FiniteSets

CONSTANTS
  Attempts,        \* executions that miss the response cache
  Failures,        \* errors that requests of this engine may end with
  Suspended,       \* SuspensionPolicy: duration of each explicit error
  BanTime,         \* SuspendConfig.base
  Threshold,       \* SuspendConfig.threshold
  DayCap,          \* 24 hours, the cap of an escalated cooldown
  BucketLen,       \* ticks per bucket
  Retention,       \* buckets that maintenance keeps (24 * 7)
  MaxClock         \* bound: the clock stops here

ExplicitErrors == {"access_denied", "cf_access_denied", "captcha", "cf_captcha",
                   "recaptcha_captcha", "too_many_requests"}
CountedErrors == {"parse", "timeout", "unexpected"}
Errors == ExplicitErrors \cup CountedErrors \cup {"queue_expired"}

ASSUME PolicyAssumption ==
  /\ IsFiniteSet(Attempts)
  /\ Failures \subseteq Errors
  /\ Suspended \in [ExplicitErrors -> Nat]
  /\ BanTime \in Nat
  /\ Threshold \in Nat
  /\ DayCap \in Nat \ {0}

ASSUME ClockAssumption ==
  /\ BucketLen \in Nat \ {0}
  /\ Retention \in Nat
  /\ MaxClock \in Nat

VARIABLES
  rows,            \* engine_health: bucket -> row
  clock,
  pc,              \* where each attempt is
  previous,        \* previous_health: the row it saw, NoHealth if none
  outcome,         \* the result it records
  readAt,          \* the `now` of record_health
  failed           \* how many attempts timed out, and how many failed at all

attemptVars == <<pc, previous, outcome, readAt, failed>>
circuitVars == <<rows, clock, attemptVars>>

Statuses == {"closed", "half_open", "open"}
Phases == {"idle", "looking", "checking", "requesting", "dropped", "recording",
           "done"}

\* ErrorCategory::from: the two access-denied errors share a category.
Category(e) == IF e = "cf_access_denied" THEN "access_denied" ELSE e

Rows == [successes : Nat, timeouts : Nat, errors : Nat, status : Statuses,
         until : Nat, category : Errors \cup {"none"}]

\* latest_engine_health returned no row.
NoHealth == [successes |-> 0, timeouts |-> 0, errors |-> 0,
             status |-> "closed", until |-> 0, category |-> "none"]

\* The hour that `now` falls in.
Bucket(now) == now \div BucketLen

TypeOK ==
  /\ DOMAIN rows \subseteq 0..(clock \div BucketLen)
  /\ rows \in [DOMAIN rows -> Rows]
  /\ clock \in Nat
  /\ pc \in [Attempts -> Phases]
  /\ previous \in [Attempts -> Rows]
  /\ outcome \in [Attempts -> Errors \cup {"ok"}]
  /\ readAt \in [Attempts -> Nat]
  /\ failed \in [timeouts : Nat, errors : Nat]

CircuitInit ==
  /\ rows = [b \in {} |-> NoHealth]
  /\ clock = 0
  /\ pc = [a \in Attempts |-> "idle"]
  /\ previous = [a \in Attempts |-> NoHealth]
  /\ outcome = [a \in Attempts |-> "ok"]
  /\ readAt = [a \in Attempts |-> 0]
  /\ failed = [timeouts |-> 0, errors |-> 0]

----------------------------------------------------------------------------
(* The policy.                                                             *)

Lesser(a, b) == IF a < b THEN a ELSE b

\* circuit_is_open, asked of a snapshot at a time.
OpenAt(row, now) == row.status = "open" /\ row.until > now

\* crosses_threshold; timeouts are counted on their own, and among the errors.
Crosses(e, prev) ==
  /\ Threshold # 0
  /\ (IF e = "timeout" THEN prev.timeouts ELSE prev.errors) + 1 >= Threshold

\* Mutant of BaseCooldown: a zero duration falls back to the ban time.
BaseCooldownZeroUnset(e, prev) ==
  IF e \in ExplicitErrors /\ Suspended[e] # 0 THEN Suspended[e] ELSE BanTime

\* The first half of cooldown_for; 0 is None.
BaseCooldown(e, prev) ==
  CASE e \in ExplicitErrors -> Suspended[e]
    [] e \in CountedErrors /\ Crosses(e, prev) -> BanTime
    [] OTHER -> 0

\* Mutant of Escalated: doubled without the cap.
EscalatedUncapped(base) == 2 * base

Escalated(base) == Lesser(2 * base, DayCap)

Recurrent(e, prev) ==
  prev.category = Category(e) /\ prev.status \in {"open", "half_open"}

\* cooldown_for; 0 is None.
CooldownFor(e, prev) ==
  LET base == BaseCooldown(e, prev) IN
  IF base # 0 /\ Recurrent(e, prev) THEN Escalated(base) ELSE base

(***************************************************************************)
(* What record_health writes besides the counters.                         *)
(***************************************************************************)
NextStatus(res, prev) ==
  CASE res = "ok" /\ prev.status = "open" -> "half_open"
    [] res # "ok" /\ CooldownFor(res, prev) # 0 -> "open"
    [] OTHER -> "closed"

NextUntil(res, prev, now) ==
  IF res # "ok" /\ CooldownFor(res, prev) # 0
  THEN now + CooldownFor(res, prev) ELSE 0

Merged(old, res, prev, now) ==
  [successes |-> old.successes + (IF res = "ok" THEN 1 ELSE 0),
   timeouts |-> old.timeouts + (IF res = "timeout" THEN 1 ELSE 0),
   errors |-> old.errors + (IF res # "ok" THEN 1 ELSE 0),
   status |-> NextStatus(res, prev),
   until |-> NextUntil(res, prev, now),
   category |-> IF res = "ok" THEN "none" ELSE Category(res)]

----------------------------------------------------------------------------
(* The table.                                                              *)

IsLatest(b) == b \in DOMAIN rows /\ \A c \in DOMAIN rows : c <= b

\* The verdict that the stored rows give.
CircuitOpen == \E b \in DOMAIN rows : IsLatest(b) /\ OpenAt(rows[b], clock)

(***************************************************************************)
(* UPSERT_ENGINE_HEALTH.  A new row fires the trigger                      *)
(* engine_health_retention; an update of a row does not.                   *)
(***************************************************************************)
RecordEngineHealth(res, prev, now) ==
  LET b == Bucket(now)
      old == IF b \in DOMAIN rows THEN rows[b] ELSE NoHealth
      kept == IF b \in DOMAIN rows THEN DOMAIN rows
              ELSE {c \in DOMAIN rows \cup {b} : c >= b - (Retention - 1)}
  IN
  rows' = [c \in kept \cup {b} |->
             IF c = b THEN Merged(old, res, prev, now) ELSE rows[c]]

(***************************************************************************)
(* The part of maintenance that concerns engines:                          *)
(* CLEAR_EXPIRED_COOLDOWNS and DELETE_OLD_HEALTH.                          *)
(***************************************************************************)
MaintenanceHealth(now) ==
  rows' = [b \in {c \in DOMAIN rows : c >= Bucket(now) - Retention} |->
             IF rows[b].status = "open" /\ rows[b].until <= now
             THEN [rows[b] EXCEPT !.until = 0]
             ELSE rows[b]]

----------------------------------------------------------------------------
(* The steps of an attempt.                                                *)

Goto(a, phase) == pc' = [pc EXCEPT ![a] = phase]

\* An attempt ends with this result.
EndsWith(a, res) ==
  /\ outcome' = [outcome EXCEPT ![a] = res]
  /\ failed' = [timeouts |-> failed.timeouts + (IF res = "timeout" THEN 1 ELSE 0),
                errors |-> failed.errors + (IF res # "ok" THEN 1 ELSE 0)]

\* Nothing of a finished attempt matters any more.
Done(a) ==
  /\ Goto(a, "done")
  /\ previous' = [previous EXCEPT ![a] = NoHealth]
  /\ outcome' = [outcome EXCEPT ![a] = "ok"]
  /\ readAt' = [readAt EXCEPT ![a] = 0]
  /\ UNCHANGED failed

\* The response cache had no answer: ask the storage for the circuit.
Begin(a) ==
  /\ pc[a] = "idle"
  /\ Goto(a, "looking")
  /\ UNCHANGED <<rows, clock, previous, outcome, readAt, failed>>

\* LATEST_ENGINE_HEALTH: the row of the highest bucket.
LookUp(a) ==
  /\ pc[a] = "looking"
  /\ \/ /\ DOMAIN rows = {}
        /\ previous' = [previous EXCEPT ![a] = NoHealth]
     \/ \E b \in DOMAIN rows :
          /\ IsLatest(b)
          /\ previous' = [previous EXCEPT ![a] = rows[b]]
  /\ Goto(a, "checking")
  /\ UNCHANGED <<rows, clock, outcome, readAt, failed>>

\* The circuit is cooling down: the attempt fails, nothing is recorded.
Reject(a) ==
  /\ pc[a] = "checking"
  /\ OpenAt(previous[a], clock)
  /\ Done(a)
  /\ UNCHANGED <<rows, clock>>

\* Mutant of Admit: the circuit is not consulted.
AdmitUnchecked(a) ==
  /\ pc[a] = "checking"
  /\ Goto(a, "requesting")
  /\ UNCHANGED <<rows, clock, previous, outcome, readAt, failed>>

\* The request goes out, guarded by PendingHealth.
Admit(a) ==
  /\ pc[a] = "checking"
  /\ ~OpenAt(previous[a], clock)
  /\ Goto(a, "requesting")
  /\ UNCHANGED <<rows, clock, previous, outcome, readAt, failed>>

\* The storage failed or the future was dropped before there was a guard.
Abandon(a) ==
  /\ pc[a] \in {"looking", "checking"}
  /\ Done(a)
  /\ UNCHANGED <<rows, clock>>

\* Response, network error or parse error: disarm the guard, call record_health.
Finish(a) ==
  /\ pc[a] = "requesting"
  /\ \E res \in Failures \cup {"ok"} : EndsWith(a, res)
  /\ readAt' = [readAt EXCEPT ![a] = clock]
  /\ Goto(a, "recording")
  /\ UNCHANGED <<rows, clock, previous>>

\* The future is dropped: PendingHealth::drop spawns a record of a timeout ...
Drop(a) ==
  /\ pc[a] = "requesting"
  /\ EndsWith(a, "timeout")
  /\ Goto(a, "dropped")
  /\ UNCHANGED <<rows, clock, previous, readAt>>

\* ... that runs when the runtime gets to it.
RecordDropped(a) ==
  /\ pc[a] = "dropped"
  /\ readAt' = [readAt EXCEPT ![a] = clock]
  /\ Goto(a, "recording")
  /\ UNCHANGED <<rows, clock, previous, outcome, failed>>

Record(a) ==
  /\ pc[a] = "recording"
  /\ RecordEngineHealth(outcome[a], previous[a], readAt[a])
  /\ Done(a)
  /\ UNCHANGED clock

(***************************************************************************)
(* The record is lost: the write failed (the error is only counted), its   *)
(* future was dropped after complete(), or the process ended.              *)
(***************************************************************************)
RecordLost(a) ==
  /\ pc[a] \in {"dropped", "recording"}
  /\ Done(a)
  /\ UNCHANGED <<rows, clock>>

\* The storage monitor, with a `now` that may be behind the clock.
Maintain ==
  /\ \E now \in 0..clock : MaintenanceHealth(now)
  /\ UNCHANGED <<clock, attemptVars>>

Tick ==
  /\ clock < MaxClock
  /\ clock' = clock + 1
  /\ UNCHANGED <<rows, attemptVars>>

AttemptStep(a) ==
  \/ Begin(a) \/ LookUp(a) \/ Reject(a) \/ Admit(a) \/ Abandon(a)
  \/ Finish(a) \/ Drop(a) \/ RecordDropped(a) \/ Record(a) \/ RecordLost(a)

CircuitNext ==
  \/ \E a \in Attempts : AttemptStep(a)
  \/ Maintain
  \/ Tick

CircuitSpec == CircuitInit /\ [][CircuitNext]_circuitVars

----------------------------------------------------------------------------
(* Properties.                                                             *)

\* How many attempts have failed in the way that counts against this error.
FailuresLike(e) == IF e = "timeout" THEN failed.timeouts ELSE failed.errors

(***************************************************************************)
(* Whatever order attempts record in, late, twice in an hour or in the     *)
(* hour before: the circuit opens only for an error that policy suspends   *)
(* for, not for one whose duration is zero (DuckDuckGo's captcha), and for *)
(* a counted error only when at least `threshold` attempts have failed so; *)
(* with a threshold of zero never.  Only an open circuit has a cooldown.   *)
(***************************************************************************)
RowsConsistent ==
  \A b \in DOMAIN rows :
    /\ rows[b].status = "open" =>
         \E e \in ExplicitErrors \cup CountedErrors :
           /\ rows[b].category = Category(e)
           /\ e \in ExplicitErrors => Suspended[e] # 0
           /\ e \in CountedErrors =>
                BanTime # 0 /\ Threshold # 0 /\ FailuresLike(e) >= Threshold
    /\ rows[b].status # "open" => rows[b].until = 0

Duration(e) == IF e \in ExplicitErrors THEN Suspended[e] ELSE BanTime

(***************************************************************************)
(* A circuit is never closed to traffic for longer than the duration of    *)
(* the error that closed it, or a day, from now: recurrences do not pile   *)
(* up, whatever rows the attempts that report them had read.               *)
(***************************************************************************)
LockoutBounded ==
  \A b \in DOMAIN rows : rows[b].until > clock =>
    \E e \in Errors : /\ rows[b].category = Category(e)
                      /\ \E d \in {Duration(e), DayCap} : rows[b].until <= clock + d

\* The inductive part: an admitted attempt saw a circuit that was not open.
AdmittedNotOpen ==
  \A a \in Attempts :
    pc[a] \in {"requesting", "dropped", "recording"}
      => ~OpenAt(previous[a], clock)

\* `now` of a pending record is in the past.
RecordsOfThePast ==
  \A a \in Attempts : readAt[a] <= clock

(***************************************************************************)
(* A cooldown that has not run out ends early for two reasons only: an     *)
(* attempt that was let through records its result over a row it has not   *)
(* seen, or the maintenance deletes the row since it is older than the     *)
(* retention, which happens to cooldowns that are longer.  No later        *)
(* attempt, no earlier maintenance and no pruning by an insert ends it.    *)
(***************************************************************************)
OnlyLateResultsClose ==
  [][CircuitOpen /\ ~CircuitOpen' =>
       \/ clock' > clock
       \/ \E a \in Attempts :
            /\ pc[a] = "recording" /\ pc'[a] = "done"
            /\ \A b \in DOMAIN rows : IsLatest(b) => previous[a] # rows[b]
       \/ /\ UNCHANGED attemptVars
          /\ \A b \in DOMAIN rows : b < Bucket(clock) - Retention]_circuitVars

(***************************************************************************)
(* "Retain seven days of hourly aggregates; older data has no bearing on   *)
(* active cooldowns" (sqlite.rs:362): maintenance, which moves neither an  *)
(* attempt nor the clock, does not change the verdict.  The default        *)
(* cooldown after a Cloudflare captcha is longer, and the claim fails.     *)
(***************************************************************************)
RetentionKeepsCooldowns ==
  [][UNCHANGED <<clock, attemptVars>> => CircuitOpen' = CircuitOpen]_circuitVars
==============================================================================
