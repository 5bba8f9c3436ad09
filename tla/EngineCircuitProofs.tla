------------------------ MODULE EngineCircuitProofs ------------------------
(***************************************************************************)
(* Proofs about EngineCircuit, for any number of attempts, any durations   *)
(* and any interleaving of attempts, records and maintenance.              *)
(***************************************************************************)
EXTENDS EngineCircuit, FiniteSetTheorems, TLAPS

----------------------------------------------------------------------------
(* Buckets.                                                                *)

\* A time lies in its bucket.
LEMMA BucketBounds ==
  ASSUME NEW now \in Nat
  PROVE  /\ Bucket(now) \in Nat
         /\ Bucket(now) * BucketLen <= now
         /\ now < (Bucket(now) + 1) * BucketLen
  BY ClockAssumption, SMT DEF Bucket

\* A product with the length of a bucket preserves the order.
LEMMA TimesMonotone ==
  ASSUME NEW m \in Int, NEW n \in Int, m <= n
  PROVE  m * BucketLen <= n * BucketLen
<1>1. (n - m) * BucketLen >= 0
  BY ClockAssumption
<1>2. (n - m) * BucketLen = n * BucketLen - m * BucketLen
  BY ClockAssumption
<1> QED
  BY <1>1, <1>2, ClockAssumption

\* Later times are not in earlier buckets.
LEMMA BucketMonotone ==
  ASSUME NEW m \in Nat, NEW n \in Nat, m <= n
  PROVE  Bucket(m) <= Bucket(n)
<1> SUFFICES ASSUME Bucket(n) + 1 <= Bucket(m) PROVE FALSE
  BY BucketBounds
<1>1. (Bucket(n) + 1) * BucketLen <= Bucket(m) * BucketLen
  BY BucketBounds, TimesMonotone
<1>2. /\ (Bucket(n) + 1) * BucketLen \in Int
      /\ Bucket(m) * BucketLen \in Int
  BY BucketBounds, ClockAssumption
<1> QED
  BY <1>1, <1>2, BucketBounds

----------------------------------------------------------------------------
(* The policy.                                                             *)

\* The category of an error is an error.
LEMMA CategoryType ==
  ASSUME NEW e \in Errors PROVE Category(e) \in Errors
  BY DEF Category, Errors, ExplicitErrors

\* Every cooldown is within the error's duration or a day.
LEMMA CooldownType ==
  ASSUME NEW e \in Errors, NEW prev \in Rows
  PROVE  /\ CooldownFor(e, prev) \in Nat
         /\ Duration(e) \in Nat /\ DayCap \in Nat
         /\ CooldownFor(e, prev) <= Duration(e) \/ CooldownFor(e, prev) <= DayCap
<1>1. /\ BaseCooldown(e, prev) \in Nat
      /\ BaseCooldown(e, prev) = Duration(e) \/ BaseCooldown(e, prev) = 0
      /\ Duration(e) \in Nat /\ DayCap \in Nat
  BY PolicyAssumption DEF BaseCooldown, Duration, ExplicitErrors, CountedErrors
<1>2. Escalated(BaseCooldown(e, prev)) \in Nat /\ Escalated(BaseCooldown(e, prev)) <= DayCap
  BY <1>1 DEF Escalated, Lesser
<1>3. CASE CooldownFor(e, prev) = BaseCooldown(e, prev)
  BY <1>1, <1>3
<1>4. CASE CooldownFor(e, prev) = Escalated(BaseCooldown(e, prev))
  BY <1>1, <1>2, <1>4
<1> QED
  BY <1>3, <1>4 DEF CooldownFor

\* What the upsert writes is a row.
LEMMA MergedType ==
  ASSUME NEW res \in Errors \cup {"ok"}, NEW prev \in Rows, NEW old \in Rows,
         NEW now \in Nat
  PROVE  Merged(old, res, prev, now) \in Rows
<1>1. NextStatus(res, prev) \in Statuses
  BY DEF NextStatus, Statuses
<1>2. NextUntil(res, prev, now) \in Nat
  BY CooldownType DEF NextUntil
<1>3. (IF res = "ok" THEN "none" ELSE Category(res)) \in Errors \cup {"none"}
  BY CategoryType
<1>4. old.successes \in Nat /\ old.timeouts \in Nat /\ old.errors \in Nat
  BY DEF Rows
<1> QED
  BY <1>1, <1>2, <1>3, <1>4 DEF Merged, Rows

\* The snapshot that stands for no row is a row.
LEMMA NoHealthType == NoHealth \in Rows
  BY DEF NoHealth, Rows, Statuses

----------------------------------------------------------------------------
(* What a write does to the table.                                         *)

\* A record replaces the row of its bucket and keeps some of the others.
LEMMA RecordEffect ==
  ASSUME TypeOK, RecordsOfThePast, NEW a \in Attempts, Record(a)
  PROVE  LET b == Bucket(readAt[a]) IN
         /\ b \in DOMAIN rows'
         /\ b \in 0..Bucket(clock)
         /\ DOMAIN rows' \subseteq DOMAIN rows \cup {b}
         /\ \A c \in DOMAIN rows' : c # b => rows'[c] = rows[c]
         /\ \E old \in Rows :
              /\ old = NoHealth \/ (b \in DOMAIN rows /\ old = rows[b])
              /\ rows'[b] = Merged(old, outcome[a], previous[a], readAt[a])
         /\ rows' \in [DOMAIN rows' -> Rows]
<1> DEFINE b == Bucket(readAt[a])
           old == IF b \in DOMAIN rows THEN rows[b] ELSE NoHealth
           kept == IF b \in DOMAIN rows THEN DOMAIN rows
                   ELSE {c \in DOMAIN rows \cup {b} : c >= b - (Retention - 1)}
           new == Merged(old, outcome[a], previous[a], readAt[a])
<1>1. rows' = [c \in kept \cup {b} |-> IF c = b THEN new ELSE rows[c]]
  BY DEF Record, RecordEngineHealth
<1>2. readAt[a] \in Nat /\ clock \in Nat /\ readAt[a] <= clock
  BY DEF TypeOK, RecordsOfThePast
<1>3. b \in 0..Bucket(clock)
  BY <1>2, BucketBounds, BucketMonotone
<1>4. old \in Rows
  BY NoHealthType DEF TypeOK
<1>5. new \in Rows
  BY <1>2, <1>4, MergedType DEF TypeOK
<1>6. /\ kept \subseteq DOMAIN rows \cup {b}
      /\ old = NoHealth \/ (b \in DOMAIN rows /\ old = rows[b])
  OBVIOUS
<1> HIDE DEF b, old, kept, new
<1>7. DOMAIN rows' = kept \cup {b}
  BY <1>1
<1>8. \A c \in DOMAIN rows' : c # b => rows'[c] = rows[c]
  BY <1>1, <1>7
<1>9. rows'[b] = new
  BY <1>1
<1>10. \A c \in DOMAIN rows' : rows'[c] \in Rows
  BY <1>5, <1>6, <1>7, <1>8, <1>9 DEF TypeOK
<1>11. rows' \in [DOMAIN rows' -> Rows]
  BY <1>1, <1>7, <1>10
<1> QED
  BY <1>3, <1>4, <1>6, <1>7, <1>8, <1>9, <1>11 DEF b, new

\* Maintenance deletes rows and clears cooldowns that are over.
LEMMA MaintainEffect ==
  ASSUME TypeOK, Maintain
  PROVE  \E now \in 0..clock :
         /\ DOMAIN rows' = {b \in DOMAIN rows : b >= Bucket(now) - Retention}
         /\ \A b \in DOMAIN rows' :
              \/ rows'[b] = rows[b]
              \/ /\ rows[b].status = "open" /\ rows[b].until <= now
                 /\ rows'[b] = [rows[b] EXCEPT !.until = 0]
         /\ rows' \in [DOMAIN rows' -> Rows]
<1>1. PICK now \in 0..clock : MaintenanceHealth(now)
  BY DEF Maintain
<1> DEFINE kept == {b \in DOMAIN rows : b >= Bucket(now) - Retention}
<1>2. rows' = [b \in kept |->
                 IF rows[b].status = "open" /\ rows[b].until <= now
                 THEN [rows[b] EXCEPT !.until = 0] ELSE rows[b]]
  BY <1>1 DEF MaintenanceHealth
<1>3. DOMAIN rows' = kept
  BY <1>2
<1>4. \A b \in DOMAIN rows' :
        \/ rows'[b] = rows[b]
        \/ /\ rows[b].status = "open" /\ rows[b].until <= now
           /\ rows'[b] = [rows[b] EXCEPT !.until = 0]
  BY <1>2, <1>3
<1>5. \A b \in DOMAIN rows' : rows'[b] \in Rows
  BY <1>3, <1>4 DEF TypeOK, Rows
<1>6. rows' \in [DOMAIN rows' -> Rows]
  BY <1>2, <1>3, <1>5
<1> QED
  BY <1>3, <1>4, <1>6

\* The steps of an attempt that write nothing.
QuietStep(a) ==
  \/ Begin(a) \/ LookUp(a) \/ Reject(a) \/ Admit(a) \/ Abandon(a)
  \/ Finish(a) \/ Drop(a) \/ RecordDropped(a) \/ RecordLost(a)

\* What the steps that do not touch the table leave alone.
LEMMA QuietEffect ==
  ASSUME NEW a \in Attempts, QuietStep(a)
  PROVE  UNCHANGED <<rows, clock>>
  BY DEF QuietStep, Begin, LookUp, Reject, Admit, Abandon, Finish, Drop,
         RecordDropped, RecordLost

\* A step records, maintains, or leaves the table alone.
LEMMA NextCases ==
  ASSUME [CircuitNext]_circuitVars
  PROVE  \/ \E a \in Attempts : QuietStep(a) \/ Record(a)
         \/ Maintain \/ Tick \/ UNCHANGED circuitVars
  BY DEF CircuitNext, AttemptStep, QuietStep

----------------------------------------------------------------------------
(* Types.                                                                  *)

\* Every step of an attempt keeps the types of the attempts.
LEMMA AttemptTypes ==
  ASSUME TypeOK, RecordsOfThePast, NEW a \in Attempts,
         QuietStep(a) \/ Record(a)
  PROVE  /\ pc' \in [Attempts -> Phases]
         /\ previous' \in [Attempts -> Rows]
         /\ outcome' \in [Attempts -> Errors \cup {"ok"}]
         /\ readAt' \in [Attempts -> Nat]
         /\ failed' \in [timeouts : Nat, errors : Nat]
         /\ RecordsOfThePast'
<1> USE NoHealthType DEF TypeOK
<1>1. CASE Begin(a) \/ Admit(a)
  BY <1>1 DEF Begin, Admit, Goto, Phases, RecordsOfThePast
<1>2. CASE LookUp(a)
  BY <1>2 DEF LookUp, Goto, Phases, RecordsOfThePast
<1>3. CASE Reject(a) \/ Abandon(a) \/ RecordLost(a) \/ Record(a)
  <2>1. Done(a) /\ clock' = clock
    BY <1>3 DEF Reject, Abandon, RecordLost, Record
  <2> QED
    BY <2>1 DEF Done, Goto, Phases, RecordsOfThePast
<1>4. CASE Finish(a)
  <2>1. PICK res \in Failures \cup {"ok"} : EndsWith(a, res)
    BY <1>4 DEF Finish
  <2>2. res \in Errors \cup {"ok"}
    BY PolicyAssumption
  <2>3. failed' \in [timeouts : Nat, errors : Nat] /\ outcome' \in [Attempts -> Errors \cup {"ok"}]
    BY <2>1, <2>2 DEF EndsWith
  <2>4. /\ readAt' = [readAt EXCEPT ![a] = clock] /\ pc' = [pc EXCEPT ![a] = "recording"]
        /\ previous' = previous /\ clock' = clock
    BY <1>4 DEF Finish, Goto
  <2>5. clock \in Nat
    OBVIOUS
  <2>6. readAt' \in [Attempts -> Nat] /\ RecordsOfThePast'
    BY <2>4, <2>5 DEF RecordsOfThePast
  <2>7. pc' \in [Attempts -> Phases] /\ previous' \in [Attempts -> Rows]
    BY <2>4 DEF Phases
  <2> QED
    BY <2>3, <2>6, <2>7
<1>5. CASE Drop(a)
  <2>1. failed' \in [timeouts : Nat, errors : Nat] /\ outcome' \in [Attempts -> Errors \cup {"ok"}]
    BY <1>5 DEF Drop, EndsWith, Errors, CountedErrors
  <2> QED
    BY <1>5, <2>1 DEF Drop, Goto, Phases, RecordsOfThePast
<1>6. CASE RecordDropped(a)
  BY <1>6 DEF RecordDropped, Goto, Phases, RecordsOfThePast
<1> QED
  BY <1>1, <1>2, <1>3, <1>4, <1>5, <1>6 DEF QuietStep

\* Every step keeps the types, and records stay in the past.
LEMMA TypeStep ==
  ASSUME TypeOK, RecordsOfThePast, [CircuitNext]_circuitVars
  PROVE  TypeOK' /\ RecordsOfThePast'
<1>1. ASSUME NEW a \in Attempts, QuietStep(a)
      PROVE  TypeOK' /\ RecordsOfThePast'
  BY <1>1, AttemptTypes, QuietEffect DEF TypeOK
<1>2. ASSUME NEW a \in Attempts, Record(a)
      PROVE  TypeOK' /\ RecordsOfThePast'
  <2>1. rows' \in [DOMAIN rows' -> Rows]
    BY <1>2, RecordEffect
  <2>2. DOMAIN rows' \subseteq 0..(clock \div BucketLen)
    BY <1>2, RecordEffect DEF Bucket, TypeOK
  <2>3. clock' = clock
    BY <1>2 DEF Record
  <2> QED
    BY <1>2, <2>1, <2>2, <2>3, AttemptTypes DEF TypeOK
<1>3. CASE Maintain
  <2>1. rows' \in [DOMAIN rows' -> Rows] /\ DOMAIN rows' \subseteq DOMAIN rows
    BY <1>3, MaintainEffect
  <2>2. UNCHANGED <<clock, pc, previous, outcome, readAt, failed>>
    BY <1>3 DEF Maintain, attemptVars
  <2> QED
    BY <2>1, <2>2 DEF TypeOK, RecordsOfThePast
<1>4. CASE Tick
  <2>1. UNCHANGED <<rows, pc, previous, outcome, readAt, failed>>
    BY <1>4 DEF Tick, attemptVars
  <2>2. clock' = clock + 1 /\ clock \in Nat
    BY <1>4 DEF Tick, TypeOK
  <2>3. clock \div BucketLen <= clock' \div BucketLen
        /\ clock \div BucketLen \in Nat /\ clock' \div BucketLen \in Nat
    BY <2>2, BucketMonotone, BucketBounds DEF Bucket
  <2>4. DOMAIN rows' \subseteq 0..(clock' \div BucketLen)
    BY <2>1, <2>3 DEF TypeOK
  <2> QED
    BY <2>1, <2>2, <2>4 DEF TypeOK, RecordsOfThePast
<1>5. CASE UNCHANGED circuitVars
  BY <1>5 DEF circuitVars, attemptVars, TypeOK, RecordsOfThePast
<1> QED
  BY <1>1, <1>2, <1>3, <1>4, <1>5, NextCases

(***************************************************************************)
(* Type correctness: the table never has a row of a future bucket and      *)
(* every row that record_health and maintenance leave is well formed.      *)
(***************************************************************************)
THEOREM CircuitTypes == CircuitSpec => [](TypeOK /\ RecordsOfThePast)
<1>1. CircuitInit => TypeOK /\ RecordsOfThePast
  BY NoHealthType
     DEF CircuitInit, TypeOK, RecordsOfThePast, Phases
<1>2. TypeOK /\ RecordsOfThePast /\ [CircuitNext]_circuitVars => TypeOK' /\ RecordsOfThePast'
  BY TypeStep
<1> QED
  BY <1>1, <1>2, PTL DEF CircuitSpec

----------------------------------------------------------------------------
(* Failures.                                                               *)

(***************************************************************************)
(* A row counts timeouts, and failures of any kind.  The failures that are *)
(* not recorded yet, and those that a row shows, are failures of different *)
(* attempts; and an attempt that has failed is not in the row it had read. *)
(***************************************************************************)
Kinds == {"timeout", "failure"}
Count(row, kind) == IF kind = "timeout" THEN row.timeouts ELSE row.errors
Fails(res, kind) == IF kind = "timeout" THEN res = "timeout" ELSE res # "ok"
One(P) == IF P THEN 1 ELSE 0

Unrecorded(kind) ==
  {a \in Attempts : pc[a] \in {"dropped", "recording"} /\ Fails(outcome[a], kind)}

FailuresCounted ==
  \A kind \in Kinds :
    /\ Cardinality(Unrecorded(kind)) <= FailuresLike(kind)
    /\ \A b \in DOMAIN rows :
         Count(rows[b], kind) + Cardinality(Unrecorded(kind)) <= FailuresLike(kind)
    /\ \A a \in Attempts : pc[a] \in {"checking", "requesting", "dropped", "recording"} =>
         Count(previous[a], kind) + One(a \in Unrecorded(kind)) <= FailuresLike(kind)

\* Counts are natural numbers.
LEMMA CountTypes ==
  ASSUME TypeOK, NEW kind \in Kinds
  PROVE  /\ FailuresLike(kind) \in Nat
         /\ \A row \in Rows : Count(row, kind) \in Nat
         /\ Count(NoHealth, kind) = 0
         /\ IsFiniteSet(Unrecorded(kind))
         /\ Cardinality(Unrecorded(kind)) \in Nat
<1>1. /\ FailuresLike(kind) \in Nat
      /\ \A row \in Rows : Count(row, kind) \in Nat
      /\ Count(NoHealth, kind) = 0
  BY DEF TypeOK, FailuresLike, Count, Rows, NoHealth
<1>2. Unrecorded(kind) \in SUBSET Attempts
  BY DEF Unrecorded
<1>3. IsFiniteSet(Unrecorded(kind))
  BY <1>2, PolicyAssumption, FS_Subset
<1> QED
  BY <1>1, <1>3, FS_CardinalityType

\* An attempt fails: there is one failure more, and one more to be recorded.
LEMMA FailureStep ==
  ASSUME TypeOK, FailuresCounted, NEW a \in Attempts,
         NEW res \in Errors \cup {"ok"}, EndsWith(a, res), pc[a] = "requesting",
         \E phase \in {"dropped", "recording"} : pc' = [pc EXCEPT ![a] = phase],
         UNCHANGED <<rows, previous>>
  PROVE  FailuresCounted'
<1> SUFFICES ASSUME NEW kind \in Kinds
             PROVE  /\ Cardinality(Unrecorded(kind)') <= FailuresLike(kind)'
                    /\ \A b \in DOMAIN rows' :
                         Count(rows'[b], kind) + Cardinality(Unrecorded(kind)') <= FailuresLike(kind)'
                    /\ \A c \in Attempts : pc'[c] \in {"checking", "requesting", "dropped", "recording"} =>
                         Count(previous'[c], kind) + One(c \in Unrecorded(kind)') <= FailuresLike(kind)'
  BY DEF FailuresCounted, Count, One
<1>1. FailuresLike(kind)' = FailuresLike(kind) + One(Fails(res, kind))
  BY DEF FailuresLike, EndsWith, Fails, One, TypeOK, Kinds
<1>2. Unrecorded(kind)' = Unrecorded(kind) \cup (IF Fails(res, kind) THEN {a} ELSE {})
  BY DEF Unrecorded, EndsWith, TypeOK, Fails
<1>3. a \notin Unrecorded(kind)
  BY DEF Unrecorded
<1>4. Cardinality(Unrecorded(kind)') = Cardinality(Unrecorded(kind)) + One(Fails(res, kind))
  <2>1. CASE Fails(res, kind)
    BY <1>2, <1>3, <2>1, CountTypes, FS_AddElement DEF One
  <2>2. CASE ~Fails(res, kind)
    <3>1. Unrecorded(kind)' = Unrecorded(kind)
      BY <1>2, <2>2
    <3> QED
      BY <2>2, <3>1, CountTypes DEF One
  <2> QED
    BY <2>1, <2>2
<1>5. One(Fails(res, kind)) \in Nat
  BY DEF One
<1>6. /\ Cardinality(Unrecorded(kind)) <= FailuresLike(kind)
      /\ \A b \in DOMAIN rows :
           Count(rows[b], kind) + Cardinality(Unrecorded(kind)) <= FailuresLike(kind)
  BY DEF FailuresCounted
<1>7. \A b \in DOMAIN rows : Count(rows[b], kind) \in Nat
  BY CountTypes DEF TypeOK
<1>8. ASSUME NEW c \in Attempts,
             pc'[c] \in {"checking", "requesting", "dropped", "recording"}
      PROVE  Count(previous'[c], kind) + One(c \in Unrecorded(kind)') <= FailuresLike(kind)'
  <2>1. pc[c] \in {"checking", "requesting", "dropped", "recording"}
    BY <1>8 DEF TypeOK
  <2>2. Count(previous[c], kind) + One(c \in Unrecorded(kind)) <= FailuresLike(kind)
    BY <2>1 DEF FailuresCounted
  <2>3. Count(previous[c], kind) \in Nat /\ FailuresLike(kind) \in Nat
    BY CountTypes DEF TypeOK
  <2>4. CASE c = a
    BY <1>1, <1>2, <1>3, <2>2, <2>3, <2>4 DEF One
  <2>5. CASE c # a
    <3>1. c \in Unrecorded(kind)' <=> c \in Unrecorded(kind)
      BY <1>2, <2>5
    <3> QED
      BY <1>1, <1>5, <2>2, <2>3, <3>1 DEF One
  <2> QED
    BY <2>4, <2>5
<1> QED
  BY <1>1, <1>4, <1>5, <1>6, <1>7, <1>8, CountTypes

\* An attempt that is over leaves nothing to be recorded.
LEMMA OverEffect ==
  ASSUME TypeOK, NEW a \in Attempts, Done(a), NEW kind \in Kinds
  PROVE  /\ Unrecorded(kind)' = Unrecorded(kind) \ {a}
         /\ Cardinality(Unrecorded(kind)') + One(a \in Unrecorded(kind)) = Cardinality(Unrecorded(kind))
         /\ Cardinality(Unrecorded(kind)') \in Nat
         /\ FailuresLike(kind)' = FailuresLike(kind)
         /\ pc'[a] = "done"
         /\ \A c \in Attempts : c # a => pc'[c] = pc[c] /\ previous'[c] = previous[c]
<1>1. Unrecorded(kind)' = Unrecorded(kind) \ {a}
  BY DEF Done, Goto, Unrecorded, TypeOK
<1>2. /\ Cardinality(Unrecorded(kind)') + One(a \in Unrecorded(kind)) = Cardinality(Unrecorded(kind))
      /\ Cardinality(Unrecorded(kind)') \in Nat
  <2>1. CASE a \in Unrecorded(kind)
    <3>1. /\ Cardinality(Unrecorded(kind) \ {a}) = Cardinality(Unrecorded(kind)) - 1
          /\ IsFiniteSet(Unrecorded(kind) \ {a})
      BY <2>1, CountTypes, FS_RemoveElement
    <3>2. Cardinality(Unrecorded(kind) \ {a}) \in Nat
      BY <3>1, FS_CardinalityType
    <3> QED
      BY <1>1, <2>1, <3>1, <3>2, CountTypes DEF One
  <2>2. CASE a \notin Unrecorded(kind)
    <3>1. Unrecorded(kind)' = Unrecorded(kind)
      BY <1>1, <2>2
    <3> QED
      BY <2>2, <3>1, CountTypes DEF One
  <2> QED
    BY <2>1, <2>2
<1>3. FailuresLike(kind)' = FailuresLike(kind)
  BY DEF Done, FailuresLike
<1>4. /\ pc'[a] = "done"
      /\ \A c \in Attempts : c # a => pc'[c] = pc[c] /\ previous'[c] = previous[c]
  BY DEF Done, Goto, TypeOK
<1> QED
  BY <1>1, <1>2, <1>3, <1>4

\* Every step keeps the count.
LEMMA FailuresStep ==
  ASSUME TypeOK, RecordsOfThePast, FailuresCounted, [CircuitNext]_circuitVars
  PROVE  FailuresCounted'
<1>1. ASSUME NEW a \in Attempts, Finish(a) \/ Drop(a)
      PROVE  FailuresCounted'
  <2>1. PICK res \in Errors \cup {"ok"} : EndsWith(a, res)
    BY <1>1, PolicyAssumption DEF Finish, Drop, Errors, CountedErrors
  <2>2. /\ pc[a] = "requesting"
        /\ \E phase \in {"dropped", "recording"} : pc' = [pc EXCEPT ![a] = phase]
        /\ UNCHANGED <<rows, previous>>
    BY <1>1 DEF Finish, Drop, Goto
  <2> QED
    BY <2>1, <2>2, FailureStep
<1>2. ASSUME UNCHANGED <<rows, previous, outcome, failed>>,
             \/ UNCHANGED pc
             \/ \E a \in Attempts : \/ Begin(a) \/ Admit(a) \/ RecordDropped(a)
      PROVE  FailuresCounted'
  <2>1. ASSUME NEW kind \in Kinds
        PROVE  Unrecorded(kind)' = Unrecorded(kind) /\ FailuresLike(kind)' = FailuresLike(kind)
    BY <1>2 DEF Unrecorded, FailuresLike, Begin, Admit, RecordDropped, Goto, TypeOK
  <2>2. ASSUME NEW c \in Attempts,
               pc'[c] \in {"checking", "requesting", "dropped", "recording"}
        PROVE  pc[c] \in {"checking", "requesting", "dropped", "recording"}
    BY <1>2, <2>2 DEF Begin, Admit, RecordDropped, Goto, TypeOK
  <2> QED
    BY <1>2, <2>1, <2>2 DEF FailuresCounted
<1>3. ASSUME NEW a \in Attempts, LookUp(a)
      PROVE  FailuresCounted'
  <2>1. ASSUME NEW kind \in Kinds
        PROVE  /\ Unrecorded(kind)' = Unrecorded(kind) /\ FailuresLike(kind)' = FailuresLike(kind)
               /\ a \notin Unrecorded(kind)
    BY <1>3 DEF Unrecorded, FailuresLike, LookUp, Goto, TypeOK
  <2>2. ASSUME NEW kind \in Kinds
        PROVE  Count(previous'[a], kind) <= FailuresLike(kind)
    <3>1. CASE previous'[a] = NoHealth
      BY <3>1, CountTypes
    <3>2. CASE \E b \in DOMAIN rows : previous'[a] = rows[b]
      <4>1. PICK b \in DOMAIN rows : previous'[a] = rows[b]
        BY <3>2
      <4>2. Count(rows[b], kind) + Cardinality(Unrecorded(kind)) <= FailuresLike(kind)
        BY DEF FailuresCounted
      <4>3. Count(rows[b], kind) \in Nat
        BY CountTypes DEF TypeOK
      <4> QED
        BY <4>1, <4>2, <4>3, CountTypes
    <3> QED
      BY <1>3, <3>1, <3>2 DEF LookUp, TypeOK
  <2>3. ASSUME NEW kind \in Kinds, NEW c \in Attempts,
               pc'[c] \in {"checking", "requesting", "dropped", "recording"}
        PROVE  Count(previous'[c], kind) + One(c \in Unrecorded(kind)') <= FailuresLike(kind)'
    <3>1. CASE c = a
      <4>1. Count(previous'[a], kind) \in Nat
        <5>1. previous'[a] \in Rows
          BY <1>3, AttemptTypes DEF QuietStep
        <5> QED
          BY <5>1, CountTypes
      <4> QED
        BY <2>1, <2>2, <3>1, <4>1, CountTypes DEF One
    <3>2. CASE c # a
      <4>1. pc'[c] = pc[c] /\ previous'[c] = previous[c]
        BY <1>3, <3>2 DEF LookUp, Goto, TypeOK
      <4> QED
        BY <2>1, <2>3, <4>1 DEF FailuresCounted
    <3> QED
      BY <3>1, <3>2
  <2>4. rows' = rows
    BY <1>3 DEF LookUp
  <2> QED
    BY <2>1, <2>3, <2>4 DEF FailuresCounted
<1>4. ASSUME NEW a \in Attempts, Done(a),
             \A kind \in Kinds : \A b \in DOMAIN rows' :
               Count(rows'[b], kind) + Cardinality(Unrecorded(kind)') <= FailuresLike(kind)
      PROVE  FailuresCounted'
  <2>1. ASSUME NEW kind \in Kinds
        PROVE  Cardinality(Unrecorded(kind)') <= FailuresLike(kind)'
    <3>1. Cardinality(Unrecorded(kind)) <= FailuresLike(kind)
      BY DEF FailuresCounted
    <3> QED
      BY <1>4, <3>1, OverEffect, CountTypes DEF One
  <2>2. ASSUME NEW kind \in Kinds, NEW c \in Attempts,
               pc'[c] \in {"checking", "requesting", "dropped", "recording"}
        PROVE  Count(previous'[c], kind) + One(c \in Unrecorded(kind)') <= FailuresLike(kind)'
    <3>1. c # a /\ pc'[c] = pc[c] /\ previous'[c] = previous[c]
      BY <1>4, <2>2, OverEffect
    <3>2. c \in Unrecorded(kind)' <=> c \in Unrecorded(kind)
      BY <1>4, <3>1, OverEffect
    <3>3. Count(previous[c], kind) + One(c \in Unrecorded(kind)) <= FailuresLike(kind)
      BY <2>2, <3>1 DEF FailuresCounted
    <3> QED
      BY <1>4, <3>1, <3>2, <3>3, OverEffect DEF One
  <2>3. ASSUME NEW kind \in Kinds
        PROVE  FailuresLike(kind)' = FailuresLike(kind)
    BY <1>4, OverEffect
  <2> QED
    BY <1>4, <2>1, <2>2, <2>3 DEF FailuresCounted
<1>5. ASSUME NEW a \in Attempts, Reject(a) \/ Abandon(a) \/ RecordLost(a)
      PROVE  FailuresCounted'
  <2>1. Done(a) /\ rows' = rows
    BY <1>5 DEF Reject, Abandon, RecordLost
  <2>2. ASSUME NEW kind \in Kinds, NEW b \in DOMAIN rows
        PROVE  Count(rows[b], kind) + Cardinality(Unrecorded(kind)') <= FailuresLike(kind)
    <3>1. Count(rows[b], kind) + Cardinality(Unrecorded(kind)) <= FailuresLike(kind)
      BY DEF FailuresCounted
    <3>2. Count(rows[b], kind) \in Nat
      BY CountTypes DEF TypeOK
    <3> QED
      BY <2>1, <3>1, <3>2, OverEffect, CountTypes DEF One
  <2> QED
    BY <1>4, <2>1, <2>2
<1>6. ASSUME NEW a \in Attempts, Record(a)
      PROVE  FailuresCounted'
  <2> DEFINE b == Bucket(readAt[a])
  <2>1. Done(a) /\ pc[a] = "recording"
    BY <1>6 DEF Record
  <2>2. PICK old \in Rows :
          /\ old = NoHealth \/ (b \in DOMAIN rows /\ old = rows[b])
          /\ rows'[b] = Merged(old, outcome[a], previous[a], readAt[a])
    BY <1>6, RecordEffect
  <2>3. \A c \in DOMAIN rows' : c = b \/ (c \in DOMAIN rows /\ rows'[c] = rows[c])
    BY <1>6, RecordEffect
  <2> HIDE DEF b
  <2>4. ASSUME NEW kind \in Kinds, NEW c \in DOMAIN rows'
        PROVE  Count(rows'[c], kind) + Cardinality(Unrecorded(kind)') <= FailuresLike(kind)
    <3>1. CASE c = b
      <4>1. Count(rows'[b], kind) = Count(old, kind) + One(Fails(outcome[a], kind))
        BY <2>2 DEF Count, Merged, One, Fails, Kinds, Rows
      <4>2. a \in Unrecorded(kind) <=> Fails(outcome[a], kind)
        BY <2>1 DEF Unrecorded
      <4>3. Count(old, kind) + Cardinality(Unrecorded(kind)) <= FailuresLike(kind)
        BY <2>2, CountTypes DEF FailuresCounted
      <4>4. Count(old, kind) \in Nat
        BY CountTypes
      <4> QED
        BY <2>1, <3>1, <4>1, <4>2, <4>3, <4>4, OverEffect, CountTypes DEF One
    <3>2. CASE c # b
      <4>1. c \in DOMAIN rows /\ rows'[c] = rows[c]
        BY <2>3, <3>2
      <4>2. Count(rows[c], kind) + Cardinality(Unrecorded(kind)) <= FailuresLike(kind)
        BY <4>1 DEF FailuresCounted
      <4>3. Count(rows[c], kind) \in Nat
        BY <4>1, CountTypes DEF TypeOK
      <4> QED
        BY <2>1, <4>1, <4>2, <4>3, OverEffect, CountTypes DEF One
    <3> QED
      BY <3>1, <3>2
  <2> QED
    BY <1>4, <2>1, <2>4
<1>7. CASE Maintain
  <2>1. \A b \in DOMAIN rows' :
          /\ b \in DOMAIN rows
          /\ rows'[b] = rows[b] \/ rows'[b] = [rows[b] EXCEPT !.until = 0]
    BY <1>7, MaintainEffect
  <2>2. UNCHANGED <<pc, previous, outcome, failed>>
    BY <1>7 DEF Maintain, attemptVars
  <2>3. ASSUME NEW kind \in Kinds
        PROVE  /\ Unrecorded(kind)' = Unrecorded(kind) /\ FailuresLike(kind)' = FailuresLike(kind)
               /\ \A b \in DOMAIN rows' : Count(rows'[b], kind) = Count(rows[b], kind)
    BY <2>1, <2>2 DEF Unrecorded, FailuresLike, Count, TypeOK, Rows
  <2> QED
    BY <2>1, <2>2, <2>3 DEF FailuresCounted
<1>8. CASE Tick \/ UNCHANGED circuitVars
  BY <1>2, <1>8 DEF Tick, circuitVars, attemptVars
<1>9. ASSUME NEW a \in Attempts, QuietStep(a)
      PROVE  FailuresCounted'
  <2>1. CASE Begin(a) \/ Admit(a) \/ RecordDropped(a)
    BY <1>2, <2>1 DEF Begin, Admit, RecordDropped
  <2> QED
    BY <1>1, <1>3, <1>5, <1>9, <2>1 DEF QuietStep
<1> QED
  BY <1>6, <1>7, <1>8, <1>9, NextCases

----------------------------------------------------------------------------
(* The rows.                                                               *)

\* What opens a circuit, and for how long, by the failures so far.
Justified(row, history) ==
  /\ row.status = "open" =>
       \E e \in ExplicitErrors \cup CountedErrors :
         /\ row.category = Category(e)
         /\ e \in ExplicitErrors => Suspended[e] # 0
         /\ e \in CountedErrors =>
              /\ BanTime # 0 /\ Threshold # 0
              /\ (IF e = "timeout" THEN history.timeouts ELSE history.errors) >= Threshold
  /\ row.status # "open" => row.until = 0

Bounded(row, now) ==
  row.until > now =>
    \E e \in Errors : /\ row.category = Category(e)
                      /\ \E d \in {Duration(e), DayCap} : row.until <= now + d

\* The row that an attempt records.
LEMMA MergedJustified ==
  ASSUME TypeOK, FailuresCounted, NEW a \in Attempts, pc[a] = "recording",
         NEW old \in Rows, NEW row,
         row = Merged(old, outcome[a], previous[a], readAt[a])
  PROVE  Justified(row, failed) /\ Bounded(row, readAt[a])
<1> DEFINE res == outcome[a]
           prev == previous[a]
<1>1. res \in Errors \cup {"ok"} /\ prev \in Rows /\ readAt[a] \in Nat
  BY DEF TypeOK
<1>2. /\ row.status = NextStatus(res, prev)
      /\ row.until = NextUntil(res, prev, readAt[a])
      /\ row.category = IF res = "ok" THEN "none" ELSE Category(res)
  BY DEF Merged
<1>3. CASE res # "ok" /\ CooldownFor(res, prev) # 0
  <2>1. /\ row.status = "open" /\ row.until = readAt[a] + CooldownFor(res, prev)
        /\ row.category = Category(res)
    BY <1>2, <1>3 DEF NextStatus, NextUntil
  <2>2. BaseCooldown(res, prev) # 0
    BY <1>3 DEF CooldownFor
  <2>3. /\ res \in ExplicitErrors \cup CountedErrors
        /\ res \in ExplicitErrors => Suspended[res] # 0
        /\ res \in CountedErrors => BanTime # 0 /\ Crosses(res, prev)
    BY <2>2 DEF BaseCooldown, ExplicitErrors, CountedErrors
  <2>4. ASSUME res \in CountedErrors
        PROVE  Threshold # 0 /\ FailuresLike(res) >= Threshold
    <3> DEFINE kind == IF res = "timeout" THEN "timeout" ELSE "failure"
    <3>1. kind \in Kinds /\ Fails(res, kind) /\ FailuresLike(kind) = FailuresLike(res)
      BY <1>3 DEF Kinds, Fails, FailuresLike
    <3>2. Threshold # 0 /\ Count(prev, kind) + 1 >= Threshold
      BY <2>3, <2>4 DEF Crosses, Count
    <3> HIDE DEF kind
    <3>3. a \in Unrecorded(kind)
      BY <3>1 DEF Unrecorded
    <3>4. Count(prev, kind) + 1 <= FailuresLike(kind)
      BY <3>1, <3>3 DEF FailuresCounted, One
    <3>5. Count(prev, kind) \in Nat /\ FailuresLike(kind) \in Nat /\ Threshold \in Nat
      BY <1>1, <3>1, CountTypes, PolicyAssumption
    <3> QED
      BY <3>1, <3>2, <3>4, <3>5
  <2>5. Justified(row, failed)
    BY <2>1, <2>3, <2>4 DEF Justified, FailuresLike
  <2>6. res \in Errors
    BY <1>1, <1>3
  <2>7. \E d \in {Duration(res), DayCap} : readAt[a] + CooldownFor(res, prev) <= readAt[a] + d
    BY <1>1, <2>6, CooldownType
  <2> QED
    BY <2>1, <2>5, <2>6, <2>7 DEF Bounded
<1>4. CASE ~(res # "ok" /\ CooldownFor(res, prev) # 0)
  <2>1. row.until = 0 /\ row.status # "open"
    BY <1>2, <1>4 DEF NextStatus, NextUntil
  <2> QED
    BY <1>1, <2>1 DEF Justified, Bounded
<1> QED
  BY <1>3, <1>4

\* What justified a row, and bounded it, does so later as well.
LEMMA StaysJustified ==
  ASSUME TypeOK, NEW row \in Rows, Justified(row, failed), NEW now \in Nat, Bounded(row, now),
         clock \in Nat, now <= clock
  PROVE  /\ Bounded(row, clock)
         /\ (/\ failed'.timeouts \in Nat /\ failed'.timeouts >= failed.timeouts
             /\ failed'.errors \in Nat /\ failed'.errors >= failed.errors) => Justified(row, failed')
<1>1. Bounded(row, clock)
  <2>1. row.until \in Nat
    BY DEF Rows
  <2>2. \A e \in Errors : Duration(e) \in Nat /\ DayCap \in Nat
    BY PolicyAssumption DEF Duration
  <2>3. CASE row.until > now
    <3>1. PICK e \in Errors : /\ row.category = Category(e)
                              /\ \E d \in {Duration(e), DayCap} : row.until <= now + d
      BY <2>3 DEF Bounded
    <3>2. PICK d \in {Duration(e), DayCap} : row.until <= now + d
      BY <3>1
    <3>3. row.until <= clock + d
      BY <2>1, <2>2, <3>2
    <3> QED
      BY <3>1, <3>2, <3>3 DEF Bounded
  <2>4. CASE ~(row.until > now)
    BY <2>1, <2>4 DEF Bounded
  <2> QED
    BY <2>3, <2>4
<1>2. ASSUME failed'.timeouts \in Nat, failed'.timeouts >= failed.timeouts,
             failed'.errors \in Nat, failed'.errors >= failed.errors
      PROVE  Justified(row, failed')
  <2>1. \A e \in CountedErrors : /\ FailuresLike(e)' >= FailuresLike(e)
                                 /\ FailuresLike(e)' \in Nat /\ FailuresLike(e) \in Nat
    BY <1>2 DEF FailuresLike, TypeOK
  <2>2. Threshold \in Nat
    BY PolicyAssumption
  <2> QED
    BY <2>1, <2>2 DEF Justified, FailuresLike
<1> QED
  BY <1>1, <1>2

\* The history of failures only grows.
LEMMA HistoryGrows ==
  ASSUME TypeOK, [CircuitNext]_circuitVars
  PROVE  /\ failed'.timeouts \in Nat /\ failed'.timeouts >= failed.timeouts
         /\ failed'.errors \in Nat /\ failed'.errors >= failed.errors
<1>1. CASE failed' = failed
  BY <1>1 DEF TypeOK
<1>2. ASSUME NEW a \in Attempts, Finish(a) \/ Drop(a)
      PROVE  /\ failed'.timeouts \in Nat /\ failed'.timeouts >= failed.timeouts
             /\ failed'.errors \in Nat /\ failed'.errors >= failed.errors
  <2>1. PICK res : EndsWith(a, res)
    BY <1>2 DEF Finish, Drop
  <2> QED
    BY <2>1 DEF EndsWith, TypeOK
<1> QED
  BY <1>1, <1>2
     DEF CircuitNext, AttemptStep, Begin, LookUp, Reject, Admit, Abandon, RecordDropped,
         Record, RecordLost, Done, Maintain, Tick, circuitVars, attemptVars

\* Every step keeps the rows consistent and the lockouts bounded.
LEMMA RowsStep ==
  ASSUME TypeOK, RecordsOfThePast, FailuresCounted, RowsConsistent, LockoutBounded,
         [CircuitNext]_circuitVars
  PROVE  RowsConsistent' /\ LockoutBounded'
<1>1. clock \in Nat /\ clock' \in Nat /\ clock <= clock'
  <2>1. clock \in Nat
    BY DEF TypeOK
  <2> QED
    BY <2>1, NextCases, QuietEffect DEF Record, Maintain, Tick, circuitVars
<1>2. \A b \in DOMAIN rows : Justified(rows[b], failed) /\ Bounded(rows[b], clock)
  BY DEF RowsConsistent, LockoutBounded, Justified, Bounded, FailuresLike
<1>3. ASSUME NEW row \in Rows, Justified(row, failed), Bounded(row, clock)
      PROVE  Justified(row, failed') /\ Bounded(row, clock')
  <2>1. Justified(row, failed')
    BY <1>1, <1>3, StaysJustified, HistoryGrows
  <2>2. Bounded(row, clock')
    <3>1. CASE clock' = clock
      BY <1>3, <3>1
    <3>2. CASE clock' = clock + 1
      <4>1. row.until \in Nat
        BY DEF Rows
      <4>2. \A e \in Errors : Duration(e) \in Nat /\ DayCap \in Nat
        BY PolicyAssumption DEF Duration
      <4>3. CASE row.until > clock
        <5>1. PICK e \in Errors : /\ row.category = Category(e)
                                  /\ \E d \in {Duration(e), DayCap} : row.until <= clock + d
          BY <1>3, <4>3 DEF Bounded
        <5>2. PICK d \in {Duration(e), DayCap} : row.until <= clock + d
          BY <5>1
        <5>3. row.until <= clock' + d
          BY <1>1, <3>2, <4>1, <4>2, <5>2
        <5> QED
          BY <5>1, <5>2, <5>3 DEF Bounded
      <4>4. CASE ~(row.until > clock)
        BY <1>1, <3>2, <4>1, <4>4 DEF Bounded
      <4> QED
        BY <4>3, <4>4
    <3> QED
      BY <1>1, <3>1, <3>2, NextCases, QuietEffect DEF Record, Maintain, Tick, circuitVars
  <2> QED
    BY <2>1, <2>2
<1>4. ASSUME \A b \in DOMAIN rows' : Justified(rows'[b], failed') /\ Bounded(rows'[b], clock')
      PROVE  RowsConsistent' /\ LockoutBounded'
  BY <1>4 DEF RowsConsistent, LockoutBounded, Justified, Bounded, FailuresLike
<1>5. CASE UNCHANGED rows
  <2>1. \A b \in DOMAIN rows : rows[b] \in Rows
    BY DEF TypeOK
  <2>2. \A b \in DOMAIN rows' : Justified(rows'[b], failed') /\ Bounded(rows'[b], clock')
    BY <1>2, <1>3, <1>5, <2>1
  <2> QED
    BY <1>4, <2>2
<1>6. ASSUME NEW a \in Attempts, Record(a)
      PROVE  RowsConsistent' /\ LockoutBounded'
  <2> DEFINE b == Bucket(readAt[a])
  <2>1. PICK old \in Rows :
          rows'[b] = Merged(old, outcome[a], previous[a], readAt[a])
    BY <1>6, RecordEffect
  <2>2. readAt[a] \in Nat /\ readAt[a] <= clock /\ pc[a] = "recording"
    BY <1>6 DEF TypeOK, RecordsOfThePast, Record
  <2>3. Justified(rows'[b], failed) /\ Bounded(rows'[b], readAt[a])
    BY <2>1, <2>2, MergedJustified
  <2>4. \A c \in DOMAIN rows' : rows'[c] \in Rows
    BY <1>6, RecordEffect
  <2>5. b \in DOMAIN rows'
    BY <1>6, RecordEffect
  <2>6. Bounded(rows'[b], clock)
    BY <1>1, <2>2, <2>3, <2>4, <2>5, StaysJustified
  <2>7. \A c \in DOMAIN rows' : c = b \/ (c \in DOMAIN rows /\ rows'[c] = rows[c])
    BY <1>6, RecordEffect
  <2> HIDE DEF b
  <2>8. \A c \in DOMAIN rows' : Justified(rows'[c], failed) /\ Bounded(rows'[c], clock)
    BY <1>2, <2>3, <2>6, <2>7
  <2>9. \A c \in DOMAIN rows' : Justified(rows'[c], failed') /\ Bounded(rows'[c], clock')
    BY <1>3, <2>4, <2>8
  <2> QED
    BY <1>4, <2>9
<1>7. CASE Maintain
  <2>1. PICK now \in 0..clock :
         /\ \A b \in DOMAIN rows' :
              /\ b \in DOMAIN rows
              /\ \/ rows'[b] = rows[b]
                 \/ /\ rows[b].status = "open"
                    /\ rows'[b] = [rows[b] EXCEPT !.until = 0]
         /\ rows' \in [DOMAIN rows' -> Rows]
    BY <1>7, MaintainEffect
  <2>2. ASSUME NEW b \in DOMAIN rows'
        PROVE  Justified(rows'[b], failed) /\ Bounded(rows'[b], clock)
    <3>1. CASE rows'[b] = rows[b]
      BY <1>2, <2>1, <3>1
    <3>2. CASE /\ rows[b].status = "open"
               /\ rows'[b] = [rows[b] EXCEPT !.until = 0]
      <4>1. b \in DOMAIN rows /\ rows[b] \in Rows
        BY <2>1 DEF TypeOK
      <4>2. /\ rows'[b].status = "open" /\ rows'[b].until = 0
            /\ rows'[b].category = rows[b].category
        BY <3>2, <4>1 DEF Rows
      <4> QED
        BY <1>1, <1>2, <3>2, <4>1, <4>2 DEF Justified, Bounded
    <3> QED
      BY <2>1, <3>1, <3>2
  <2>3. \A b \in DOMAIN rows' : Justified(rows'[b], failed') /\ Bounded(rows'[b], clock')
    BY <1>3, <2>1, <2>2
  <2> QED
    BY <1>4, <2>3
<1> QED
  BY <1>5, <1>6, <1>7, NextCases, QuietEffect DEF Tick, circuitVars

(***************************************************************************)
(* Whatever the order in which attempts record: the circuit opens only for *)
(* errors that policy suspends for, counted ones only from the threshold   *)
(* on (a threshold of zero never), and no lockout exceeds its duration.    *)
(***************************************************************************)
THEOREM RowsTheorem == CircuitSpec => [](RowsConsistent /\ LockoutBounded)
<1>1. CircuitInit => FailuresCounted /\ RowsConsistent /\ LockoutBounded
  <2> SUFFICES ASSUME CircuitInit PROVE FailuresCounted /\ RowsConsistent /\ LockoutBounded
    OBVIOUS
  <2>1. \A kind \in Kinds : Unrecorded(kind) = {} /\ FailuresLike(kind) = 0
    BY DEF CircuitInit, Unrecorded, FailuresLike
  <2>2. DOMAIN rows = {} /\ \A a \in Attempts : pc[a] = "idle"
    BY DEF CircuitInit
  <2>3. Cardinality({}) = 0
    BY FS_EmptySet
  <2>4. ASSUME NEW kind \in Kinds
        PROVE  /\ Cardinality(Unrecorded(kind)) <= FailuresLike(kind)
               /\ \A b \in DOMAIN rows :
                    Count(rows[b], kind) + Cardinality(Unrecorded(kind)) <= FailuresLike(kind)
               /\ \A a \in Attempts :
                    pc[a] \in {"checking", "requesting", "dropped", "recording"} =>
                      Count(previous[a], kind) + One(a \in Unrecorded(kind)) <= FailuresLike(kind)
    <3>1. Unrecorded(kind) = {} /\ FailuresLike(kind) = 0
      BY <2>1, <2>4
    <3>2. Cardinality(Unrecorded(kind)) <= FailuresLike(kind)
      BY <2>3, <3>1
    <3>3. \A a \in Attempts : pc[a] \notin {"checking", "requesting", "dropped", "recording"}
      BY <2>2
    <3> QED
      BY <2>2, <3>2, <3>3
  <2>5. FailuresCounted
    BY <2>4 DEF FailuresCounted
  <2> QED
    BY <2>2, <2>5 DEF RowsConsistent, LockoutBounded
<1>2. TypeOK /\ RecordsOfThePast /\ FailuresCounted /\ RowsConsistent /\ LockoutBounded
        /\ [CircuitNext]_circuitVars => FailuresCounted' /\ RowsConsistent' /\ LockoutBounded'
  BY RowsStep, FailuresStep
<1> QED
  BY <1>1, <1>2, CircuitTypes, PTL DEF CircuitSpec

(***************************************************************************)
(* The part of it that users notice: whatever opened a circuit, and        *)
(* however often, it lets a search through again in bounded time.          *)
(***************************************************************************)
THEOREM LockoutsEnd == CircuitSpec => []LockoutBounded
  BY RowsTheorem, PTL

----------------------------------------------------------------------------
(* Cooldowns.                                                              *)

\* No step admits an attempt that saw an open circuit.
LEMMA AdmittedStep ==
  ASSUME TypeOK, AdmittedNotOpen, [CircuitNext]_circuitVars PROVE AdmittedNotOpen'
<1> USE DEF TypeOK
<1>1. ASSUME NEW a \in Attempts, QuietStep(a) \/ Record(a)
      PROVE  AdmittedNotOpen'
  <2>1. clock' = clock
    BY <1>1, QuietEffect DEF Record
  <2>2. ASSUME NEW c \in Attempts,
               pc'[c] \in {"requesting", "dropped", "recording"}
        PROVE  ~OpenAt(previous'[c], clock)
    <3>1. CASE c # a
      <4>1. pc'[c] = pc[c] /\ previous'[c] = previous[c]
        BY <1>1, <3>1
           DEF QuietStep, Begin, LookUp, Reject, Admit, Abandon, Finish, Drop,
               RecordDropped, RecordLost, Record, Done, Goto
      <4> QED
        BY <2>2, <4>1 DEF AdmittedNotOpen
    <3>2. CASE c = a
      <4>1. CASE Admit(a)
        BY <3>2, <4>1 DEF Admit
      <4>2. CASE Finish(a) \/ Drop(a) \/ RecordDropped(a)
        BY <3>2, <4>2 DEF Finish, Drop, RecordDropped, AdmittedNotOpen
      <4>3. CASE \/ Begin(a) \/ LookUp(a) \/ Reject(a) \/ Abandon(a)
                 \/ RecordLost(a) \/ Record(a)
        BY <2>2, <3>2, <4>3
           DEF Begin, LookUp, Reject, Abandon, RecordLost, Record, Done, Goto
      <4> QED
        BY <1>1, <4>1, <4>2, <4>3 DEF QuietStep
    <3> QED
      BY <3>1, <3>2
  <2> QED
    BY <2>1, <2>2 DEF AdmittedNotOpen
<1>2. CASE Maintain \/ Tick \/ UNCHANGED circuitVars
  <2>1. UNCHANGED <<pc, previous>> /\ (clock' = clock \/ clock' = clock + 1)
    BY <1>2 DEF Maintain, Tick, circuitVars, attemptVars
  <2>2. \A a \in Attempts : previous[a].until \in Nat
    BY DEF Rows
  <2> QED
    BY <2>1, <2>2 DEF AdmittedNotOpen, OpenAt
<1> QED
  BY <1>1, <1>2, NextCases

\* Maintenance ends a cooldown only if its row is older than the retention.
LEMMA MaintainKeepsVerdict ==
  ASSUME TypeOK, Maintain, CircuitOpen, ~CircuitOpen'
  PROVE  \A b \in DOMAIN rows : b < Bucket(clock) - Retention
<1>1. PICK now \in 0..clock :
        /\ DOMAIN rows' = {b \in DOMAIN rows : b >= Bucket(now) - Retention}
        /\ \A b \in DOMAIN rows' :
             \/ rows'[b] = rows[b]
             \/ /\ rows[b].status = "open" /\ rows[b].until <= now
                /\ rows'[b] = [rows[b] EXCEPT !.until = 0]
  BY MaintainEffect
<1>2. clock' = clock /\ clock \in Nat /\ now \in Nat /\ now <= clock
      /\ Retention \in Nat
  BY <1>1, ClockAssumption DEF Maintain, TypeOK
<1>3. Bucket(now) \in Nat /\ Bucket(clock) \in Nat /\ Bucket(now) <= Bucket(clock)
  BY <1>2, BucketBounds, BucketMonotone
<1>4. \A b \in DOMAIN rows : b \in Nat /\ rows[b] \in Rows /\ rows[b].until \in Nat
  BY DEF TypeOK, Rows
<1>5. PICK b \in DOMAIN rows : IsLatest(b) /\ OpenAt(rows[b], clock)
  BY DEF CircuitOpen
<1>6. \A c \in DOMAIN rows : c <= b
  BY <1>5 DEF IsLatest
<1>7. b \notin DOMAIN rows'
  <2> SUFFICES ASSUME b \in DOMAIN rows' PROVE FALSE
    OBVIOUS
  <2>1. rows'[b] = rows[b]
    BY <1>1, <1>2, <1>4, <1>5 DEF OpenAt
  <2>2. \A c \in DOMAIN rows' : c <= b
    BY <1>1, <1>6
  <2> QED
    BY <1>2, <1>5, <2>1, <2>2 DEF CircuitOpen, IsLatest, OpenAt
<1>8. b < Bucket(now) - Retention
  BY <1>1, <1>2, <1>3, <1>4, <1>7
<1> QED
  BY <1>2, <1>3, <1>4, <1>6, <1>8

\* The same rows at the same time give the same verdict.
LEMMA SameVerdict ==
  ASSUME UNCHANGED <<rows, clock>> PROVE CircuitOpen' = CircuitOpen
  BY DEF CircuitOpen, IsLatest, OpenAt

(***************************************************************************)
(* For any durations, also those longer than rows are kept, and whatever   *)
(* the order of records: a cooldown that has not run out is ended only by  *)
(* the result of an attempt that had not seen it, or with a row older than *)
(* the retention.                                                          *)
(***************************************************************************)
THEOREM CooldownsHold == CircuitSpec => OnlyLateResultsClose
<1> DEFINE Late(a) == /\ pc[a] = "recording" /\ pc'[a] = "done"
                      /\ \A b \in DOMAIN rows :
                           IsLatest(b) => previous[a] # rows[b]
           Deleted == /\ UNCHANGED attemptVars
                      /\ \A b \in DOMAIN rows : b < Bucket(clock) - Retention
<1>1. TypeOK /\ AdmittedNotOpen /\ [CircuitNext]_circuitVars
        => [CircuitOpen /\ ~CircuitOpen' =>
              clock' > clock \/ (\E a \in Attempts : Late(a)) \/ Deleted]_circuitVars
  <2> SUFFICES ASSUME TypeOK, AdmittedNotOpen, [CircuitNext]_circuitVars,
                      CircuitOpen, ~CircuitOpen'
               PROVE  clock' > clock \/ (\E a \in Attempts : Late(a)) \/ Deleted
    OBVIOUS
  <2>1. ASSUME NEW a \in Attempts, Record(a) PROVE Late(a)
    <3>1. pc[a] = "recording" /\ pc'[a] = "done"
      BY <2>1 DEF Record, Done, Goto, TypeOK
    <3>2. PICK b \in DOMAIN rows : IsLatest(b) /\ OpenAt(rows[b], clock)
      BY DEF CircuitOpen
    <3>3. ~OpenAt(previous[a], clock)
      BY <3>1 DEF AdmittedNotOpen
    <3>4. \A c \in DOMAIN rows : IsLatest(c) => c = b
      BY <3>2 DEF IsLatest, TypeOK
    <3> QED
      BY <3>1, <3>2, <3>3, <3>4
  <2>2. CASE Tick
    BY <2>2 DEF Tick, TypeOK
  <2>3. CASE Maintain
    BY <2>3, MaintainKeepsVerdict DEF Maintain
  <2> QED
    BY <2>1, <2>2, <2>3, NextCases, QuietEffect, SameVerdict DEF circuitVars
<1>2. CircuitInit => AdmittedNotOpen
  BY DEF CircuitInit, AdmittedNotOpen
<1>3. TypeOK /\ AdmittedNotOpen /\ [CircuitNext]_circuitVars => AdmittedNotOpen'
  BY AdmittedStep
<1> QED
  BY <1>1, <1>2, <1>3, CircuitTypes, PTL DEF CircuitSpec, OnlyLateResultsClose
============================================================================
