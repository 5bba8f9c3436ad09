---------------------------- MODULE SearchProofs ----------------------------
(***************************************************************************)
(* Proofs about a search: how it is put together (SearchRequest), and how  *)
(* its engines are run (EngineExecution).                                  *)
(*                                                                         *)
(* What a search is made from is what the operator and the user have       *)
(* decided, for any settings, entries, forms, locales and built-in         *)
(* engines.  The registry is built one entry after the other, so its part  *)
(* speaks of sequences and not of variables; a reply is a function of the  *)
(* request, the settings, the registry and the cookie, and the cookie      *)
(* keeps what the user chose.                                              *)
(*                                                                         *)
(* The run of the engines ends by the deadline and loses no outcome, for   *)
(* any set of engines and any timeouts.                                    *)
(***************************************************************************)
EXTENDS EngineExecution, SearchRequest, FiniteSetTheorems, WellFoundedInduction, TLAPS

-----------------------------------------------------------------------------
(* The run of the engines.                                                   *)

\* Every step of a search keeps the types.
LEMMA ExecutionTypeStep == TypeOK /\ [ExecutionNext]_executionVars => TypeOK'
<1> SUFFICES ASSUME TypeOK, [ExecutionNext]_executionVars PROVE TypeOK'
  OBVIOUS
<1> USE EnginesAssumption, TimeAssumption
        DEF TypeOK, Searches, Tasks, Reasons, Statuses
<1>1. CASE Spawn \/ Report \/ DropSearch \/ Tick
  BY <1>1 DEF Spawn, Report, DropSearch, Tick, taskVars
<1>2. ASSUME NEW e \in Engines, Join(e) \/ JoinError(e) \/ TooLate(e) \/ Panic(e)
      PROVE  TypeOK'
  BY <1>2 DEF Join, JoinError, TooLate, Panic
<1>3. ASSUME NEW e \in Engines, RunOne(e) PROVE TypeOK'
  <2>1. clock + Budget(e, deadline - clock) \in Nat
    BY <1>3 DEF RunOne, Budget, Lesser
  <2>2. BlameOf(e, deadline - clock) \in Reasons
    BY DEF BlameOf
  <2> QED
    BY <1>3, <2>1, <2>2 DEF RunOne
<1>4. ASSUME NEW e \in Engines, EngineAnswers(e) \/ TimeOut(e) PROVE TypeOK'
  BY <1>4 DEF EngineAnswers, TimeOut, End
<1>5. CASE UNCHANGED executionVars
  BY <1>5 DEF executionVars, taskVars
<1> QED
  BY <1>1, <1>2, <1>3, <1>4, <1>5 DEF ExecutionNext, JoinStep, TaskStep

\* Every step keeps tasks, timers, joins and the clock in step.
LEMMA ExecutionInvStep ==
  TypeOK /\ ExecutionInv /\ [ExecutionNext]_executionVars => ExecutionInv'
<1> SUFFICES ASSUME TypeOK, ExecutionInv, [ExecutionNext]_executionVars PROVE ExecutionInv'
  OBVIOUS
<1> USE EnginesAssumption, TimeAssumption
<1> USE DEF TypeOK, ExecutionInv, Searches, Tasks, Reasons, Statuses
<1>1. CASE Spawn
  BY <1>1 DEF Spawn
<1>2. CASE Report
  BY <1>2 DEF Report, taskVars
<1>3. CASE DropSearch
  BY <1>3 DEF DropSearch
<1>4. CASE Tick
  <2>1. UNCHANGED <<search, deadline, task, startedAt, endsAt, reason, outcome,
                    byName, report>> /\ clock' = clock + 1
    BY <1>4 DEF Tick, taskVars
  <2>2. ASSUME search = "joining" PROVE clock + 1 <= deadline
    <3>1. PICK e \in Engines : task[e] \in {"spawned", "running"}
      BY <1>4, <2>2 DEF Tick
    <3>2. CASE task[e] = "spawned"
      BY <1>4, <3>2 DEF Tick
    <3>3. CASE task[e] = "running"
      BY <1>4, <3>3 DEF Tick, Budget, Lesser
    <3> QED
      BY <3>1, <3>2, <3>3
  <2> QED
    BY <1>4, <2>1, <2>2 DEF Tick
<1>5. ASSUME NEW e \in Engines, Join(e) \/ JoinError(e) PROVE ExecutionInv'
  BY <1>5 DEF Join, JoinError
<1>6. ASSUME NEW e \in Engines, TooLate(e) PROVE ExecutionInv'
  BY <1>6 DEF TooLate
<1>7. ASSUME NEW e \in Engines, Panic(e) PROVE ExecutionInv'
  BY <1>7 DEF Panic
<1>8. ASSUME NEW e \in Engines, RunOne(e) PROVE ExecutionInv'
  <2>1. clock <= clock + Budget(e, deadline - clock)
    BY <1>8 DEF RunOne, Budget, Lesser
  <2> QED
    BY <1>8, <2>1 DEF RunOne
<1>9. ASSUME NEW e \in Engines, EngineAnswers(e) \/ TimeOut(e) PROVE ExecutionInv'
  BY <1>9 DEF EngineAnswers, TimeOut, End
<1>10. CASE UNCHANGED executionVars
  BY <1>10 DEF executionVars, taskVars
<1> QED
  BY <1>1, <1>2, <1>3, <1>4, <1>5, <1>6, <1>7, <1>8, <1>9, <1>10
     DEF ExecutionNext, JoinStep, TaskStep

\* The inductive invariant holds throughout.
LEMMA ExecutionInvariance == ExecutionSpec => [](TypeOK /\ ExecutionInv)
<1>1. ExecutionInit => TypeOK /\ ExecutionInv
  BY DEF ExecutionInit, TypeOK, ExecutionInv, Searches, Tasks, Reasons, Statuses
<1> QED
  BY <1>1, ExecutionTypeStep, ExecutionInvStep, PTL DEF ExecutionSpec

(***************************************************************************)
(* run_engines waits for every task and still returns by the deadline, for *)
(* any engine timeouts and any start delays within the request timeout.    *)
(***************************************************************************)
THEOREM DeadlineKept == ExecutionSpec => []AnswersByDeadline
<1>1. ExecutionInv => AnswersByDeadline
  BY DEF ExecutionInv, AnswersByDeadline
<1> QED
  BY <1>1, ExecutionInvariance, PTL

\* No step makes the report differ from the outcomes of the tasks.
LEMMA AnswersReportedStep ==
  TypeOK /\ ExecutionInv /\ AnswersReported /\ [ExecutionNext]_executionVars
    => AnswersReported'
<1> SUFFICES ASSUME TypeOK, ExecutionInv, AnswersReported, [ExecutionNext]_executionVars
             PROVE  AnswersReported'
  OBVIOUS
<1> USE DEF AnswersReported
<1>1. CASE Report
  BY <1>1 DEF Report, taskVars, ExecutionInv
<1>2. CASE Spawn \/ DropSearch \/ Tick \/ UNCHANGED executionVars
  BY <1>2 DEF Spawn, DropSearch, Tick, executionVars, taskVars
<1>3. ASSUME NEW e \in Engines, Join(e) \/ JoinError(e) \/ Panic(e) \/ RunOne(e)
      PROVE  AnswersReported'
  BY <1>3 DEF Join, JoinError, Panic, RunOne
<1>4. ASSUME NEW e \in Engines, TooLate(e) \/ EngineAnswers(e) \/ TimeOut(e)
      PROVE  AnswersReported'
  BY <1>4 DEF TooLate, EngineAnswers, TimeOut, End, ExecutionInv, TypeOK, Searches
<1> QED
  BY <1>1, <1>2, <1>3, <1>4 DEF ExecutionNext, JoinStep, TaskStep

\* No step charges a task with a bound that was not reached.
LEMMA BlameStep ==
  TypeOK /\ ExecutionInv /\ BlameTrue /\ [ExecutionNext]_executionVars => BlameTrue'
<1> SUFFICES ASSUME TypeOK, ExecutionInv, BlameTrue, [ExecutionNext]_executionVars
             PROVE  BlameTrue'
  OBVIOUS
<1> USE EnginesAssumption DEF BlameTrue, TypeOK
<1>1. CASE Spawn
  BY <1>1 DEF Spawn, ExecutionInv
<1>2. CASE Report \/ DropSearch \/ Tick \/ UNCHANGED executionVars
  BY <1>2 DEF Report, DropSearch, Tick, executionVars, taskVars
<1>3. ASSUME NEW e \in Engines, Join(e) \/ JoinError(e) \/ Panic(e)
      PROVE  BlameTrue'
  BY <1>3 DEF Join, JoinError, Panic
<1>4. ASSUME NEW e \in Engines, RunOne(e) PROVE BlameTrue'
  <2>1. outcome[e] = "none"
    BY <1>4 DEF RunOne, ExecutionInv, Searches
  <2> QED
    BY <1>4, <2>1 DEF RunOne
<1>5. ASSUME NEW e \in Engines, TooLate(e) \/ EngineAnswers(e) PROVE BlameTrue'
  BY <1>5 DEF TooLate, EngineAnswers, End
<1>6. ASSUME NEW e \in Engines, TimeOut(e) PROVE BlameTrue'
  <2>1. /\ task[e] = "running" /\ clock >= endsAt[e]
        /\ outcome' = [outcome EXCEPT ![e] = reason[e]]
        /\ UNCHANGED <<clock, deadline, startedAt>>
    BY <1>6 DEF TimeOut, End
  <2>2. /\ startedAt[e] < deadline
        /\ endsAt[e] = startedAt[e] + Budget(e, deadline - startedAt[e])
        /\ reason[e] = BlameOf(e, deadline - startedAt[e])
    BY <2>1 DEF ExecutionInv
  <2>3. CASE reason[e] = "engine_timeout"
    BY <2>1, <2>2, <2>3 DEF BlameOf, Budget, Lesser
  <2>4. CASE reason[e] = "global_deadline"
    BY <2>1, <2>2, <2>4 DEF BlameOf, Budget, Lesser
  <2> QED
    BY <2>3, <2>4 DEF Reasons
<1> QED
  BY <1>1, <1>2, <1>3, <1>4, <1>5, <1>6 DEF ExecutionNext, JoinStep, TaskStep

(***************************************************************************)
(* The report tells the truth about every task that ended: its status is   *)
(* not lost between the task, the join and the report, and a timeout is    *)
(* charged to the bound that was really reached.                           *)
(***************************************************************************)
THEOREM ReportTrue == ExecutionSpec => [](AnswersReported /\ BlameTrue)
<1>1. ExecutionInit => AnswersReported /\ BlameTrue
  BY DEF ExecutionInit, AnswersReported, BlameTrue
<1> QED
  BY <1>1, ExecutionInvariance, AnswersReportedStep, BlameStep, PTL DEF ExecutionSpec

(***************************************************************************)
(* The part of it that the scores rest on: no outcome of a task is lost    *)
(* between the task and the report of the search.                          *)
(***************************************************************************)
THEOREM NothingLost == ExecutionSpec => []AnswersReported
  BY ReportTrue, PTL

-----------------------------------------------------------------------------
(* The registry and the requests.                                            *)

(* What the requests are made from. *)
RequestTyped ==
  /\ entries \in Seq(Entries) /\ next \in 1 .. Len(entries) + 1
  /\ settings \in Configurations

-----------------------------------------------------------------------------
(* Sequences and places.                                                     *)

Before == {ss \in Nat \X Nat : ss[1] < ss[2]}

(* A set of natural numbers has a least member. *)
LEMMA LeastIndex ==
  ASSUME NEW T \in SUBSET Nat, T # {}
  PROVE  Min(T) \in T /\ \A y \in T : Min(T) <= y
<1>1. IsWellFoundedOn(Before, Nat)
  BY NatLessThanWellFounded, Zenon DEF OpToRel, Before
<1>2. PICK x \in T : \A y \in T : ~ (<<y, x>> \in Before)
  BY <1>1, WFMin
<1>3. ASSUME NEW y \in T PROVE x <= y
  <2>1. x \in Nat /\ y \in Nat /\ <<y, x>> \in Nat \X Nat
    OBVIOUS
  <2>2. ~ (y < x)
    BY <1>2, <2>1 DEF Before
  <2> QED
    BY <2>1, <2>2
<1> QED
  BY <1>3 DEF Min

(* position finds the first engine called so, and 0 tells that there is none. *)
LEMMA FirstPosition ==
  ASSUME NEW R, registered \in Seq(R), NEW names
  PROVE  /\ position(names) # 0 =>
              /\ position(names) \in DOMAIN registered
              /\ registered[position(names)].name \in names
              /\ \A j \in DOMAIN registered :
                   j < position(names) => registered[j].name \notin names
         /\ position(names) = 0 => \A j \in DOMAIN registered : registered[j].name \notin names
         /\ position(names) \in Nat
<1> DEFINE I == {j \in 1..Len(registered) : registered[j].name \in names}
<1>1. position(names) = IF I # {} THEN Min(I) ELSE 0
  BY DEF position, SelectInSeq
<1>2. I \in SUBSET Nat /\ DOMAIN registered = 1..Len(registered) /\ Len(registered) \in Nat
  OBVIOUS
<1>3. CASE I # {}
  <2>1. Min(I) \in I /\ \A y \in I : Min(I) <= y
    BY <1>2, <1>3, LeastIndex
  <2>2. /\ position(names) \in 1..Len(registered)
        /\ registered[position(names)].name \in names
    BY <1>1, <1>3, <2>1
  <2>3. ASSUME NEW j \in DOMAIN registered, j < position(names), j \in I PROVE FALSE
    BY <1>1, <1>2, <1>3, <2>1, <2>2, <2>3
  <2> QED
    BY <1>2, <2>2, <2>3
<1>4. CASE I = {}
  BY <1>1, <1>2, <1>4
<1> QED
  BY <1>3, <1>4

(* SetToSeq lists each member of a set once. *)
LEMMA Ordered ==
  ASSUME NEW S, IsFiniteSet(S)
  PROVE  LET order == SetToSeq(S)
             n == Cardinality(S) IN
         /\ n \in Nat /\ order \in [1..n -> S]
         /\ \A i, j \in 1..n : order[i] = order[j] => i = j
         /\ \A x \in S : \E i \in 1..n : order[i] = x
<1> DEFINE n == Cardinality(S)
           order == SetToSeq(S)
<1>1. n \in Nat /\ ExistsBijection(1..n, S)
  BY FS_CardinalityType
<1>2. \E f \in [1..n -> S] : IsInjective(f)
  BY <1>1 DEF ExistsBijection, Bijection, Injection
<1>3. order \in [1..n -> S] /\ IsInjective(order)
  BY <1>2 DEF SetToSeq
<1>4. order \in Injection(1..n, S)
  BY <1>3 DEF Injection
<1>5. Cardinality(1..n) = n
  BY <1>1, FS_Interval
<1>6. order \in Surjection(1..n, S)
  BY <1>4, <1>5, FS_Injection
<1> QED
  BY <1>1, <1>3, <1>6 DEF Surjection, IsInjective

-----------------------------------------------------------------------------
(* One entry.                                                                *)

(* The shape of EngineRegistry::engines. *)
RegisteredEngine ==
  [name: STRING, disabled: BOOLEAN, tokens: SUBSET STRING, shortcuts: SUBSET STRING,
   categories: {None} \cup SUBSET STRING]

(* An entry changes neither the name of an engine nor that it is disabled. *)
LEMMA EntryApplied ==
  ASSUME NEW re \in RegisteredEngine, NEW cfg \in Entries
  PROVE  /\ apply_engine_settings(re, cfg) \in RegisteredEngine
         /\ apply_engine_settings(re, cfg).name = re.name
         /\ re.disabled \/ SwitchedOff(cfg) => apply_engine_settings(re, cfg).disabled
<1>1. cfg \in EngineSettings
  BY RegistryAssumption
<1> QED
  BY <1>1 DEF apply_engine_settings, RegisteredEngine, EngineSettings, SwitchedOff

(* An entry's engine is the one its id stands for, or a generic one of its name. *)
LEMMA EngineOfEntry ==
  ASSUME NEW cfg \in Entries, engine_from_settings(cfg) # None
  PROVE  /\ engine_from_settings(cfg) \in RegisteredEngine
         /\ \/ /\ Key(cfg) \in DOMAIN Alias
               /\ engine_from_settings(cfg).name = Alias[Key(cfg)]
            \/ /\ Key(cfg) \notin DOMAIN Alias /\ Key(cfg) \in Custom
               /\ engine_from_settings(cfg).name = cfg.name
<1>1. cfg \in EngineSettings
  BY RegistryAssumption
<1>2. \A name \in STRING : New(name) \in RegisteredEngine /\ New(name).name = name
  BY DEF New, RegisteredEngine
<1>3. CASE Key(cfg) \in DOMAIN Alias
  <2>1. Alias[Key(cfg)] \in STRING
    BY <1>3, RegistryAssumption
  <2> QED
    BY <1>2, <1>3, <2>1 DEF engine_from_settings
<1>4. CASE Key(cfg) \notin DOMAIN Alias
  <2>1. cfg.name \in STRING
    BY <1>1 DEF EngineSettings
  <2> QED
    BY <1>2, <1>4, <2>1 DEF engine_from_settings
<1> QED
  BY <1>3, <1>4

-----------------------------------------------------------------------------
(* The entries about an engine among the first ones. *)
About(es, m, n) ==
  {l \in 1..m : engine_from_settings(es[l]) # None /\ engine_from_settings(es[l]).name = n}

(* Entries that replace the catalogue each register a copy of their own. *)
OwnCopies(es, m, rs) ==
  \E f \in [DOMAIN rs -> 1..m] :
    /\ \A i, j \in DOMAIN rs : f[i] = f[j] => i = j
    /\ \A i \in DOMAIN rs :
         f[i] \in About(es, m, rs[i].name) /\ (SwitchedOff(es[f[i]]) => rs[i].disabled)

(* The copy that an entry registers is its own. *)
LEMMA CopyAdded ==
  ASSUME NEW es \in Seq(Entries), NEW m \in Nat, m + 1 \in DOMAIN es,
         NEW rs \in Seq(RegisteredEngine), OwnCopies(es, m, rs),
         NEW new \in RegisteredEngine, m + 1 \in About(es, m + 1, new.name),
         SwitchedOff(es[m + 1]) => new.disabled
  PROVE  OwnCopies(es, m + 1, Append(rs, new))
<1> DEFINE rs2 == Append(rs, new)
           top == Len(rs) + 1
<1>1. PICK f \in [DOMAIN rs -> 1..m] :
        /\ \A i, j \in DOMAIN rs : f[i] = f[j] => i = j
        /\ \A i \in DOMAIN rs :
             f[i] \in About(es, m, rs[i].name) /\ (SwitchedOff(es[f[i]]) => rs[i].disabled)
  BY DEF OwnCopies
<1> DEFINE g == [i \in DOMAIN rs2 |-> IF i = top THEN m + 1 ELSE f[i]]
<1>2. /\ DOMAIN rs2 = 1..top /\ DOMAIN rs = 1 .. top - 1 /\ top \in Nat
      /\ rs2[top] = new /\ \A i \in DOMAIN rs : rs2[i] = rs[i]
  OBVIOUS
<1> HIDE DEF rs2, top
<1>3. g \in [DOMAIN rs2 -> 1 .. m + 1]
  BY <1>2
<1>4. \A i, j \in DOMAIN rs2 : g[i] = g[j] => i = j
  BY <1>1, <1>2
<1>5. ASSUME NEW i \in DOMAIN rs2
      PROVE  g[i] \in About(es, m + 1, rs2[i].name) /\ (SwitchedOff(es[g[i]]) => rs2[i].disabled)
  <2>1. CASE i = top
    BY <1>2, <2>1
  <2>2. CASE i # top
    <3>1. i \in DOMAIN rs /\ rs2[i] = rs[i] /\ g[i] = f[i]
      BY <1>2, <2>2
    <3> QED
      BY <1>1, <3>1 DEF About
  <2> QED
    BY <2>1, <2>2
<1> HIDE DEF g
<1>6. OwnCopies(es, m + 1, rs2)
  BY <1>3, <1>4, <1>5 DEF OwnCopies
<1> QED
  BY <1>6 DEF rs2

(* An entry without an engine leaves the copies as they are. *)
LEMMA CopiesStay ==
  ASSUME NEW es, NEW m \in Nat, NEW rs, OwnCopies(es, m, rs)
  PROVE  OwnCopies(es, m + 1, rs)
<1>1. 1..m \subseteq 1 .. m + 1 /\ \A n : About(es, m, n) \subseteq About(es, m + 1, n)
  BY DEF About
<1>2. PICK f \in [DOMAIN rs -> 1..m] :
        /\ \A i, j \in DOMAIN rs : f[i] = f[j] => i = j
        /\ \A i \in DOMAIN rs :
             f[i] \in About(es, m, rs[i].name) /\ (SwitchedOff(es[f[i]]) => rs[i].disabled)
  BY DEF OwnCopies
<1>3. f \in [DOMAIN rs -> 1 .. m + 1]
  BY <1>1
<1> QED
  BY <1>1, <1>2, <1>3 DEF OwnCopies

-----------------------------------------------------------------------------
(* Where the catalogue is. *)
Places == 1 .. Cardinality(DOMAIN Builtin)

(* The catalogue comes first, and what entries add to it is called otherwise. *)
CatalogueFirst(rs) ==
  /\ \A i \in Places : i \in DOMAIN rs /\ rs[i].name \in DOMAIN Builtin
  /\ \A n \in DOMAIN Builtin : \E i \in Places : rs[i].name = n
  /\ \A i \in DOMAIN rs \ Places : rs[i].name \notin DOMAIN Builtin \cup Custom

NamedOnce(rs) == \A i, j \in DOMAIN rs : rs[i].name = rs[j].name => i = j

(* The last entry about an engine can switch it off. *)
LastCounts(es, m, rs) ==
  \A i \in DOMAIN rs :
    About(es, m, rs[i].name) # {} =>
      \E k \in About(es, m, rs[i].name) :
        /\ \A l \in About(es, m, rs[i].name) : l <= k
        /\ SwitchedOff(es[k]) => rs[i].disabled

(* What merging entries that call their engines by their ids keeps. *)
Merged(es, m, rs) == CatalogueFirst(rs) /\ NamedOnce(rs) /\ LastCounts(es, m, rs)

(* What merging any entries keeps: a second copy is an entry's, and an engine  *)
(* is on because the catalogue or an entry says so.                            *)
Sourced(es, m, rs) ==
  /\ \A i, j \in DOMAIN rs :
       rs[i].name = rs[j].name => i = j \/ About(es, m, rs[i].name) # {}
  /\ \A i \in DOMAIN rs :
       \/ rs[i].disabled
       \/ EnabledInCatalogue(rs[i].name)
       \/ \E k \in About(es, m, rs[i].name) : ~SwitchedOff(es[k])

(* An entry without an engine may still switch one off. *)
LEMMA EngineChanged ==
  ASSUME NEW es \in Seq(Entries), NEW m \in Nat, m + 1 \in DOMAIN es,
         NEW rs \in Seq(RegisteredEngine), Merged(es, m, rs),
         NEW p \in DOMAIN rs, NEW new \in RegisteredEngine, new.name = rs[p].name,
         LET re == engine_from_settings(es[m + 1]) IN
           IF re = None THEN rs[p].disabled => new.disabled
           ELSE re.name = rs[p].name /\ (SwitchedOff(es[m + 1]) => new.disabled)
  PROVE  Merged(es, m + 1, [rs EXCEPT ![p] = new])
<1> DEFINE rs2 == [rs EXCEPT ![p] = new]
           re == engine_from_settings(es[m + 1])
<1>1. /\ DOMAIN rs2 = DOMAIN rs /\ rs2[p] = new
      /\ \A i \in DOMAIN rs : i # p => rs2[i] = rs[i]
      /\ \A i \in DOMAIN rs : rs2[i].name = rs[i].name
  OBVIOUS
<1> HIDE DEF rs2
<1>2. CatalogueFirst(rs2)
  BY <1>1 DEF Merged, CatalogueFirst
<1>3. NamedOnce(rs2)
  BY <1>1 DEF Merged, NamedOnce
<1>4. \A n : About(es, m + 1, n) = About(es, m, n) \cup
              (IF re # None /\ re.name = n THEN {m + 1} ELSE {})
  BY DEF About
<1>5. ASSUME NEW i \in DOMAIN rs, About(es, m + 1, rs[i].name) # {}
      PROVE  \E k \in About(es, m + 1, rs[i].name) :
               /\ \A l \in About(es, m + 1, rs[i].name) : l <= k
               /\ SwitchedOff(es[k]) => rs2[i].disabled
  <2>1. CASE i = p /\ re # None
    <3>1. m + 1 \in About(es, m + 1, rs[i].name)
      BY <1>4, <2>1
    <3>2. \A l \in About(es, m + 1, rs[i].name) : l <= m + 1
      BY DEF About
    <3> QED
      BY <1>1, <2>1, <3>1, <3>2
  <2>2. CASE i # p \/ re = None
    <3>1. About(es, m + 1, rs[i].name) = About(es, m, rs[i].name)
      BY <1>4, <2>2 DEF Merged, NamedOnce
    <3>2. rs[i].disabled => rs2[i].disabled
      BY <1>1, <2>2
    <3> QED
      BY <1>5, <3>1, <3>2 DEF Merged, LastCounts
  <2> QED
    BY <2>1, <2>2
<1>6. LastCounts(es, m + 1, rs2)
  BY <1>1, <1>5 DEF LastCounts
<1> QED
  BY <1>2, <1>3, <1>6 DEF Merged, rs2

(* An entry that no engine is called like may add one. *)
LEMMA EngineAdded ==
  ASSUME NEW es \in Seq(Entries), NEW m \in Nat, m + 1 \in DOMAIN es,
         NEW rs \in Seq(RegisteredEngine), Merged(es, m, rs),
         NEW new \in RegisteredEngine, new.name \notin DOMAIN Builtin \cup Custom,
         \A i \in DOMAIN rs : rs[i].name # new.name,
         engine_from_settings(es[m + 1]) # None,
         engine_from_settings(es[m + 1]).name = new.name,
         SwitchedOff(es[m + 1]) => new.disabled
  PROVE  Merged(es, m + 1, Append(rs, new))
<1> DEFINE rs2 == Append(rs, new)
           top == Len(rs) + 1
<1>1. /\ DOMAIN rs2 = 1..top /\ DOMAIN rs = 1 .. top - 1 /\ top \in Nat
      /\ rs2[top] = new /\ \A i \in DOMAIN rs : rs2[i] = rs[i]
  OBVIOUS
<1> HIDE DEF rs2, top
<1>2. CatalogueFirst(rs2)
  <2>1. \A i \in DOMAIN rs2 : i \in DOMAIN rs \/ rs2[i] = new
    BY <1>1
  <2>2. DOMAIN rs \subseteq DOMAIN rs2 /\ CatalogueFirst(rs)
    BY <1>1 DEF Merged
  <2>3. \A i \in Places : i \in DOMAIN rs /\ rs2[i] = rs[i]
    BY <1>1, <2>2 DEF CatalogueFirst
  <2>4. ASSUME NEW i \in DOMAIN rs2 \ Places PROVE rs2[i].name \notin DOMAIN Builtin \cup Custom
    BY <1>1, <2>1, <2>2 DEF CatalogueFirst
  <2> QED
    BY <2>2, <2>3, <2>4 DEF CatalogueFirst
<1>3. NamedOnce(rs2)
  BY <1>1 DEF Merged, NamedOnce
<1>4. \A n : About(es, m + 1, n) = About(es, m, n) \cup
              (IF new.name = n THEN {m + 1} ELSE {})
  BY DEF About
<1>5. ASSUME NEW i \in DOMAIN rs2, About(es, m + 1, rs2[i].name) # {}
      PROVE  \E k \in About(es, m + 1, rs2[i].name) :
               /\ \A l \in About(es, m + 1, rs2[i].name) : l <= k
               /\ SwitchedOff(es[k]) => rs2[i].disabled
  <2>1. CASE i = top
    <3>1. m + 1 \in About(es, m + 1, rs2[i].name)
      BY <1>1, <1>4, <2>1
    <3>2. \A l \in About(es, m + 1, rs2[i].name) : l <= m + 1
      BY DEF About
    <3> QED
      BY <1>1, <2>1, <3>1, <3>2
  <2>2. CASE i # top
    <3>1. i \in DOMAIN rs /\ rs2[i] = rs[i]
      BY <1>1, <2>2
    <3>2. About(es, m + 1, rs[i].name) = About(es, m, rs[i].name)
      <4>1. new.name # rs[i].name
        BY <3>1
      <4> QED
        BY <1>4, <4>1
    <3> QED
      BY <1>5, <3>1, <3>2 DEF Merged, LastCounts
  <2> QED
    BY <2>1, <2>2
<1>6. LastCounts(es, m + 1, rs2)
  BY <1>5 DEF LastCounts
<1> QED
  BY <1>2, <1>3, <1>6 DEF Merged, rs2

(* An entry without an engine that no engine is called like changes nothing. *)
LEMMA NothingMerged ==
  ASSUME NEW es \in Seq(Entries), NEW m \in Nat, m + 1 \in DOMAIN es,
         NEW rs \in Seq(RegisteredEngine), Merged(es, m, rs),
         engine_from_settings(es[m + 1]) = None
  PROVE  Merged(es, m + 1, rs)
<1>1. \A n : About(es, m + 1, n) = About(es, m, n)
  BY DEF About
<1> QED
  BY <1>1 DEF Merged, LastCounts

-----------------------------------------------------------------------------
(* The registry, as the entries that have been read say. *)
RegistryInv ==
  /\ registered \in Seq(RegisteredEngine)
  /\ mode \in {"Replace", "Merge"}
  /\ entries = <<>> \/ mode = "Merge" =>
       /\ Sourced(entries, next - 1, registered)
       /\ AllCalledById => Merged(entries, next - 1, registered)
  /\ entries # <<>> /\ mode = "Replace" => OwnCopies(entries, next - 1, registered)

(* Before any entry is read, the registry is the catalogue. *)
LEMMA CatalogueMerged ==
  ASSUME NEW es
  PROVE  /\ default_engines \in Seq(RegisteredEngine)
         /\ Merged(es, 0, default_engines) /\ Sourced(es, 0, default_engines)
<1> DEFINE order == SetToSeq(DOMAIN Builtin)
           n == Cardinality(DOMAIN Builtin)
<1>1. /\ n \in Nat /\ order \in [1..n -> DOMAIN Builtin]
      /\ \A i, j \in 1..n : order[i] = order[j] => i = j
      /\ \A x \in DOMAIN Builtin : \E i \in 1..n : order[i] = x
  BY Ordered, RegistryAssumption
<1> DEFINE engine(name) == [New(name) EXCEPT !.disabled = Builtin[name].disabled]
<1>2. \A name \in DOMAIN Builtin :
        /\ engine(name) \in RegisteredEngine /\ engine(name).name = name
        /\ engine(name).disabled = Builtin[name].disabled
  BY RegistryAssumption DEF New, RegisteredEngine
<1>3. default_engines = [i \in 1..n |-> engine(order[i])]
  BY <1>1 DEF default_engines
<1> HIDE DEF order, n, engine
<1>4. /\ default_engines \in Seq(RegisteredEngine) /\ DOMAIN default_engines = 1..n
      /\ \A i \in 1..n : default_engines[i].name = order[i]
      /\ \A i \in 1..n : default_engines[i].disabled = Builtin[order[i]].disabled
  BY <1>1, <1>2, <1>3
<1>5. CatalogueFirst(default_engines)
  BY <1>1, <1>4 DEF CatalogueFirst, Places, n
<1>6. NamedOnce(default_engines)
  BY <1>1, <1>4 DEF NamedOnce
<1>7. LastCounts(es, 0, default_engines)
  BY DEF LastCounts, About
<1>8. Sourced(es, 0, default_engines)
  BY <1>1, <1>4 DEF Sourced, EnabledInCatalogue
<1> QED
  BY <1>4, <1>5, <1>6, <1>7, <1>8 DEF Merged

(* The registry starts as the catalogue, or empty if a list replaces it. *)
LEMMA RegistryStarts == Init => RegistryInv
<1> SUFFICES ASSUME Init PROVE RegistryInv
  OBVIOUS
<1>1. /\ mode \in {"Replace", "Merge"} /\ next = 1
      /\ registered = IF entries = <<>> \/ mode = "Merge" THEN default_engines ELSE <<>>
  BY DEF Init, RegistryInit
<1>2. CASE entries = <<>> \/ mode = "Merge"
  BY <1>1, <1>2, CatalogueMerged DEF RegistryInv
<1>3. CASE entries # <<>> /\ mode = "Replace"
  <2>1. registered = <<>>
    BY <1>1, <1>3
  <2>2. [i \in DOMAIN registered |-> 0] \in [DOMAIN registered -> 1..0] /\ DOMAIN registered = {}
    BY <2>1
  <2>3. OwnCopies(entries, 0, registered)
    BY <2>2 DEF OwnCopies
  <2> QED
    BY <1>1, <1>3, <2>1, <2>3 DEF RegistryInv
<1> QED
  BY <1>1, <1>2, <1>3

(* An entry of a list that replaces the catalogue keeps the copies apart. *)
LEMMA ReplaceStep ==
  ASSUME RequestTyped, RegistryInv, ReadEntry, mode = "Replace"
  PROVE  RegistryInv'
<1> DEFINE m == next - 1
           cfg == entries[next]
           re == engine_from_settings(cfg)
           new == apply_engine_settings(re, cfg)
<1>1. /\ m \in Nat /\ next = m + 1 /\ next' - 1 = m + 1 /\ m + 1 \in DOMAIN entries
      /\ cfg \in Entries /\ entries # <<>>
      /\ entries' = entries /\ mode' = mode
      /\ registered' = IF re = None THEN registered ELSE Append(registered, new)
  BY DEF RequestTyped, ReadEntry, registry_replace
<1>2. registered \in Seq(RegisteredEngine) /\ OwnCopies(entries, m, registered)
  BY <1>1 DEF RegistryInv
<1>3. CASE re = None
  BY <1>1, <1>2, <1>3, CopiesStay DEF RegistryInv
<1>4. CASE re # None
  <2>1. re \in RegisteredEngine
    BY <1>1, <1>4, EngineOfEntry
  <2>2. /\ new \in RegisteredEngine /\ new.name = re.name
        /\ SwitchedOff(cfg) => new.disabled
    BY <1>1, <2>1, EntryApplied
  <2>3. m + 1 \in About(entries, m + 1, new.name)
    BY <1>1, <1>4, <2>2 DEF About
  <2> HIDE DEF new
  <2>4. OwnCopies(entries, m + 1, Append(registered, new))
    BY <1>1, <1>2, <2>2, <2>3, CopyAdded DEF RequestTyped
  <2> QED
    BY <1>1, <1>2, <1>4, <2>2, <2>4 DEF RegistryInv
<1> QED
  BY <1>3, <1>4

(* An entry that is merged finds the engine it is about, if there is one. *)
LEMMA MergeStep ==
  ASSUME CalledById(entries[next]), RequestTyped, ReadEntry, mode = "Merge",
         registered \in Seq(RegisteredEngine), Merged(entries, next - 1, registered)
  PROVE  Merged(entries, next, registered')
<1> DEFINE m == next - 1
           cfg == entries[next]
           re == engine_from_settings(cfg)
           names == {Key(cfg), cfg.name}
           p == position(names)
<1>1. /\ m \in Nat /\ next = m + 1 /\ m + 1 \in DOMAIN entries
      /\ cfg \in Entries
      /\ registered' = registry_merge(cfg)
  BY DEF RequestTyped, ReadEntry
<1>2. registered \in Seq(RegisteredEngine) /\ Merged(entries, m, registered)
  OBVIOUS
<1>3. /\ p # 0 => /\ p \in DOMAIN registered /\ registered[p].name \in names
                  /\ \A j \in DOMAIN registered : j < p => registered[j].name \notin names
      /\ p = 0 => \A j \in DOMAIN registered : registered[j].name \notin names
      /\ p \in Nat
  BY <1>2, FirstPosition
<1>4. re # None =>
        /\ re \in RegisteredEngine
        /\ \/ Key(cfg) \in DOMAIN Builtin /\ re.name = Key(cfg)
           \/ /\ Key(cfg) \notin DOMAIN Builtin /\ Key(cfg) \in Custom
              /\ re.name = cfg.name
  BY <1>1, EngineOfEntry, RegistryAssumption DEF CalledById
<1>5. /\ cfg.name \notin Custom
      /\ cfg.name \in DOMAIN Builtin => cfg.name = Key(cfg)
  BY DEF CalledById
<1>6. entries \in Seq(Entries)
  BY DEF RequestTyped
<1>7. SUFFICES Merged(entries, m + 1, registered')
  BY <1>1
<1>8. CASE p # 0
  <2> DEFINE old == IF re = None THEN registered[p] ELSE re
             new == apply_engine_settings(old, cfg)
  <2>1. registered' = [registered EXCEPT ![p] = new]
    BY <1>1, <1>3, <1>8 DEF registry_merge
  <2>2. ASSUME re # None PROVE re.name = registered[p].name
    <3>1. CASE re.name = Key(cfg) /\ Key(cfg) \in DOMAIN Builtin
      <4>1. PICK i \in Places : registered[i].name = Key(cfg)
        BY <1>2, <3>1 DEF Merged, CatalogueFirst
      <4>2. i \in DOMAIN registered /\ i \in 1..Cardinality(DOMAIN Builtin) /\ ~(i < p)
        BY <1>2, <1>3, <1>8, <4>1 DEF Merged, CatalogueFirst, Places
      <4>3. p \in Places
        BY <1>2, <1>3, <1>8, <4>2, FS_CardinalityType, RegistryAssumption DEF Places
      <4>4. registered[p].name \in DOMAIN Builtin
        BY <1>2, <4>3 DEF Merged, CatalogueFirst
      <4> QED
        BY <1>3, <1>5, <1>8, <3>1, <4>4
    <3>2. CASE re.name = cfg.name /\ Key(cfg) \notin DOMAIN Builtin /\ Key(cfg) \in Custom
      <4>1. registered[p].name # Key(cfg)
        BY <1>2, <1>3, <1>8, <3>2 DEF Merged, CatalogueFirst
      <4> QED
        BY <1>3, <1>8, <3>2, <4>1
    <3> QED
      BY <1>4, <2>2, <3>1, <3>2
  <2>3. old \in RegisteredEngine /\ old.name = registered[p].name
    BY <1>2, <1>3, <1>4, <1>8, <2>2
  <2>4. /\ new \in RegisteredEngine /\ new.name = registered[p].name
        /\ old.disabled \/ SwitchedOff(cfg) => new.disabled
    BY <1>1, <2>3, EntryApplied
  <2>5. IF re = None THEN registered[p].disabled => new.disabled
        ELSE re.name = registered[p].name /\ (SwitchedOff(cfg) => new.disabled)
    BY <2>2, <2>4
  <2> HIDE DEF new
  <2>6. Merged(entries, m + 1, [registered EXCEPT ![p] = new])
    BY <1>1, <1>2, <1>3, <1>6, <1>8, <2>4, <2>5, EngineChanged
  <2> QED
    BY <1>2, <1>3, <1>8, <2>1, <2>4, <2>6
<1>9. CASE p = 0 /\ re # None
  <2> DEFINE new == apply_engine_settings(re, cfg)
  <2>1. registered' = Append(registered, new)
    <3>1. registered' = IF p > 0 THEN registered' ELSE Append(registered, new)
      BY <1>1, <1>9, Zenon DEF registry_merge
    <3> HIDE DEF p, new
    <3> QED
      BY <1>9, <3>1
  <2>2. re.name \in names
    BY <1>4, <1>9
  <2>3. re.name \notin DOMAIN Builtin /\ re.name = cfg.name
    BY <1>2, <1>3, <1>4, <1>9, <2>2 DEF Merged, CatalogueFirst
  <2>4. /\ new \in RegisteredEngine /\ new.name = re.name
        /\ SwitchedOff(cfg) => new.disabled
    BY <1>1, <1>4, <1>9, EntryApplied
  <2> HIDE DEF new
  <2>5. \A i \in DOMAIN registered : registered[i].name # new.name
    BY <1>3, <1>9, <2>2, <2>4
  <2>6. Merged(entries, m + 1, Append(registered, new))
    BY <1>1, <1>2, <1>5, <1>6, <1>9, <2>3, <2>4, <2>5, EngineAdded
  <2> QED
    BY <1>2, <2>1, <2>4, <2>6
<1>10. CASE p = 0 /\ re = None
  BY <1>1, <1>2, <1>6, <1>10, NothingMerged DEF registry_merge
<1> QED
  BY <1>8, <1>9, <1>10

(* An entry that is merged replaces one engine by the one it is about, or adds *)
(* that one, whatever it calls it.                                             *)
LEMMA FreeMergeStep ==
  ASSUME RequestTyped, ReadEntry, mode = "Merge",
         registered \in Seq(RegisteredEngine), Sourced(entries, next - 1, registered)
  PROVE  registered' \in Seq(RegisteredEngine) /\ Sourced(entries, next, registered')
<1> DEFINE m == next - 1
           cfg == entries[next]
           re == engine_from_settings(cfg)
           p == position({Key(cfg), cfg.name})
<1>1. /\ m \in Nat /\ next = m + 1 /\ m + 1 \in DOMAIN entries
      /\ cfg \in Entries /\ entries[m + 1] = cfg
      /\ registered' = registry_merge(cfg)
  BY DEF RequestTyped, ReadEntry
<1>2. p \in Nat /\ (p # 0 => p \in DOMAIN registered)
  BY FirstPosition
<1>3. re # None => re \in RegisteredEngine
  BY <1>1, EngineOfEntry
<1>4. \A n : About(entries, m + 1, n) = About(entries, m, n) \cup
              (IF re # None /\ re.name = n THEN {m + 1} ELSE {})
  BY <1>1 DEF About
<1>5. CASE p # 0
  <2> DEFINE old == IF re = None THEN registered[p] ELSE re
             new == apply_engine_settings(old, cfg)
  <2>1. registered' = [registered EXCEPT ![p] = new]
    BY <1>1, <1>2, <1>5 DEF registry_merge
  <2>2. old \in RegisteredEngine
    BY <1>2, <1>3, <1>5
  <2>3. /\ new \in RegisteredEngine /\ new.name = old.name
        /\ old.disabled \/ SwitchedOff(cfg) => new.disabled
    BY <1>1, <2>2, EntryApplied
  <2> HIDE DEF new
  <2>4. /\ registered' \in Seq(RegisteredEngine) /\ DOMAIN registered' = DOMAIN registered
        /\ registered'[p] = new
        /\ \A i \in DOMAIN registered : i # p => registered'[i] = registered[i]
    BY <1>2, <1>5, <2>1, <2>3
  <2> HIDE DEF m, cfg, re, p
  <2>5. CASE re = None
    BY <1>1, <1>2, <1>4, <1>5, <2>3, <2>4, <2>5 DEF Sourced
  <2>6. CASE re # None
    <3>1. new.name = re.name /\ m + 1 \in About(entries, m + 1, re.name)
      BY <1>4, <2>3, <2>6
    <3> QED
      BY <1>1, <1>2, <1>4, <1>5, <2>3, <2>4, <2>6, <3>1 DEF Sourced
  <2> QED
    BY <2>5, <2>6
<1>6. CASE p = 0 /\ re # None
  <2> DEFINE new == apply_engine_settings(re, cfg)
  <2>1. registered' = Append(registered, new)
    <3>1. registered' = IF p > 0 THEN registered' ELSE Append(registered, new)
      BY <1>1, <1>6, Zenon DEF registry_merge
    <3> HIDE DEF p, new
    <3> QED
      BY <1>6, <3>1
  <2>2. /\ new \in RegisteredEngine /\ new.name = re.name
        /\ SwitchedOff(cfg) => new.disabled
    BY <1>1, <1>3, <1>6, EntryApplied
  <2> HIDE DEF new
  <2>3. /\ registered' \in Seq(RegisteredEngine) /\ Len(registered) \in Nat
        /\ DOMAIN registered = 1 .. Len(registered)
        /\ DOMAIN registered' = 1 .. Len(registered) + 1
        /\ registered'[Len(registered) + 1] = new
        /\ \A i \in DOMAIN registered : registered'[i] = registered[i]
    BY <2>1, <2>2
  <2>4. m + 1 \in About(entries, m + 1, new.name)
    BY <1>4, <1>6, <2>2
  <2> HIDE DEF m, cfg, re, p
  <2>5. \A i \in DOMAIN registered' :
          (i \in DOMAIN registered /\ registered'[i] = registered[i]) \/ registered'[i] = new
    BY <2>3
  <2>6. ASSUME NEW i \in DOMAIN registered', NEW j \in DOMAIN registered',
               registered'[i].name = registered'[j].name
        PROVE  i = j \/ About(entries, m + 1, registered'[i].name) # {}
    <3>1. CASE registered'[i] = new \/ registered'[j] = new
      BY <2>4, <2>6, <3>1
    <3>2. CASE ~(registered'[i] = new \/ registered'[j] = new)
      <4>1. /\ i \in DOMAIN registered /\ registered'[i] = registered[i]
            /\ j \in DOMAIN registered /\ registered'[j] = registered[j]
        BY <2>5, <3>2
      <4>2. i = j \/ About(entries, m, registered[i].name) # {}
        BY <1>1, <2>6, <4>1 DEF Sourced
      <4> QED
        BY <1>4, <4>1, <4>2
    <3> QED
      BY <3>1, <3>2
  <2> QED
    BY <1>1, <1>4, <2>2, <2>3, <2>4, <2>5, <2>6 DEF Sourced
<1>7. CASE p = 0 /\ re = None
  <2>1. registered' = registered
    BY <1>1, <1>7 DEF registry_merge
  <2>2. \A n : About(entries, m + 1, n) = About(entries, m, n)
    BY <1>4, <1>7
  <2> QED
    BY <1>1, <2>1, <2>2 DEF Sourced
<1> QED
  BY <1>5, <1>6, <1>7

-----------------------------------------------------------------------------
(* What is looked up for a key before the locale is worked out. *)
Looked(form, k) ==
  IF k \notin settings.lock /\ Given(form, k) THEN form[k]
  ELSE IF k \in settings.lock \/ cookie \in {None, Corrupt}
       THEN apply_settings(settings, EnabledEntries)[k]
       ELSE cookie[k]

(* The language of a search or of a cookie, before it has a locale. *)
Heard(language, detected) ==
  IF language = "auto" /\ detected # None THEN detected ELSE language

(* resolve, key by key: the form over the cookie over the settings. *)
LEMMA ResolvedKeys ==
  ASSUME NEW form, NEW detected
  PROVE  /\ \A k \in PrefKeys \ {"locale", "language"} :
              Resolved(form, detected)[k] = Looked(form, k)
         /\ Resolved(form, detected).language =
              Normal(Heard(Looked(form, "language"), detected))
<1> DEFINE first == apply_settings(settings, EnabledEntries)
           decoded == decode_cookie(cookie)
           second == IF decoded = None THEN first ELSE apply_cookie(first, decoded, settings.lock)
           third == apply_params(second, form, settings.lock)
<1>1. Resolved(form, detected) = apply_data(third, detected)
  BY DEF Resolved, resolve
<1>2. ASSUME NEW k \in PrefKeys PROVE third[k] = Looked(form, k)
  <2>1. third[k] = IF k \notin settings.lock /\ Given(form, k) THEN form[k] ELSE second[k]
    BY DEF apply_params
  <2>2. CASE cookie \in {None, Corrupt}
    BY <2>1, <2>2 DEF decode_cookie, Looked
  <2>3. CASE cookie \notin {None, Corrupt}
    <3>1. second[k] = IF k \in settings.lock THEN first[k] ELSE cookie[k]
      BY <2>3 DEF decode_cookie, apply_cookie
    <3> QED
      BY <2>1, <2>3, <3>1 DEF Looked
  <2> QED
    BY <2>2, <2>3
<1>3. third = [k \in PrefKeys |-> third[k]]
  BY DEF apply_params
<1> HIDE DEF third
<1>4. ASSUME NEW k \in PrefKeys \ {"locale", "language"}
      PROVE  apply_data(third, detected)[k] = third[k]
  BY <1>3 DEF apply_data, PrefKeys
<1>5. apply_data(third, detected).language = Normal(Heard(third.language, detected))
  BY <1>3 DEF apply_data, PrefKeys, Normal, Heard
<1>6. "language" \in PrefKeys
  BY DEF PrefKeys
<1> QED
  BY <1>1, <1>2, <1>4, <1>5, <1>6

(* What is known of a search's reply: it is a function of the request, the  *)
(* settings, the registry and the cookie.                                   *)
Replied ==
  WasSearched =>
    LET prefs == Resolved(reply.form, reply.detected) IN
    /\ Field(reply.form, "q") # None
    /\ reply.query = from_params(reply.form, prefs, settings.lock)
    /\ reply.selected =
         select(reply.query, engine_preferences(prefs), request_tokens(reply.form))
    /\ reply.image_proxy = prefs.image_proxy

(* A reply is given when all entries have been read. *)
ReplyInv ==
  /\ RequestTyped
  /\ reply # None => next > Len(entries)
  /\ Replied

(* What a reply with results says of its search. *)
LEMMA SearchedFields ==
  ASSUME NEW form, NEW detected, NEW prefs, NEW query, NEW found
  PROVE  LET r == Searched(form, detected, prefs, query, found) IN
         /\ r.form = form /\ r.detected = detected /\ r.query = query
         /\ r.selected = select(query, engine_preferences(prefs), request_tokens(form))
         /\ r.image_proxy = prefs.image_proxy
  BY DEF Searched

(* Answer makes replies of the kind that Replied describes. *)
LEMMA AnswerReplies ==
  ASSUME NEW form, NEW detected, NEW found, reply' = Answer(form, detected, found),
         UNCHANGED <<registryVars, settings, cookie, chose>>
  PROVE  Replied'
<1> DEFINE heard == IF Field(form, "q") = None THEN None ELSE detected
           prefs == Resolved(form, heard)
           query == from_params(form, prefs, settings.lock)
<1> SUFFICES ASSUME WasSearched' PROVE Replied'
  BY DEF Replied
<1>0. "refused" \notin {"first", "results"} /\ "panicked" \notin {"first", "results"}
      /\ "external" \notin {"first", "results"}
  OBVIOUS
<1>1. query.verdict \in {"refused", "panicked", "accepted"}
      /\ (query.verdict = "accepted" => Field(form, "q") # None)
  BY DEF from_params, Verdict
<1>2. /\ query.verdict = "accepted"
      /\ reply' = Searched(form, detected, prefs, query, found)
  BY <1>0, <1>1, Zenon DEF Answer, WasSearched, Refusal
<1>3. Field(form, "q") # None /\ heard = detected
  BY <1>1, <1>2
<1>4. /\ reply'.form = form /\ reply'.detected = detected /\ reply'.query = query
      /\ reply'.selected = select(query, engine_preferences(prefs), request_tokens(form))
      /\ reply'.image_proxy = prefs.image_proxy
  <2> HIDE DEF query, prefs
  <2> QED
    BY <1>2, SearchedFields, SMT
<1>5. Resolved(form, detected)' = prefs /\ settings' = settings
  BY <1>3 DEF Resolved, EnabledEntries, registryVars
<1>6. \A q, e, t : select(q, e, t)' = select(q, e, t)
  BY DEF select, registryVars
<1> HIDE DEF prefs, query
<1> QED
  BY <1>3, <1>4, <1>5, <1>6, Zenon DEF Replied, query

(* A reply stays true while nothing it is made from changes. *)
LEMMA RepliedStays ==
  ASSUME Replied, UNCHANGED <<registryVars, settings, cookie, reply>>
  PROVE  Replied'
<1>1. \A form, detected : Resolved(form, detected)' = Resolved(form, detected)
  BY DEF Resolved, EnabledEntries, registryVars
<1>2. \A q, e, t : select(q, e, t)' = select(q, e, t)
  BY DEF select, registryVars
<1>3. WasSearched' = WasSearched /\ reply' = reply /\ settings' = settings
  BY DEF WasSearched
<1> QED
  BY <1>1, <1>2, <1>3, Zenon DEF Replied

(* Every step keeps the replies what they are. *)
LEMMA ReplyStep == ReplyInv /\ [Next]_vars => ReplyInv'
<1> SUFFICES ASSUME ReplyInv, [Next]_vars PROVE ReplyInv'
  OBVIOUS
<1>0. RequestTyped' /\ entries' = entries
  BY DEF Next, vars, requestVars, registryVars, ReadReply, ReadEntry, SavePreferences,
         ClearCookies, Reconfigure, Search, NativeSearch, ReplyInv, RequestTyped
<1>1. CASE reply' = None
  BY <1>0, <1>1 DEF ReplyInv, Replied, WasSearched
<1>2. CASE UNCHANGED vars
  BY <1>0, <1>2, RepliedStays DEF ReplyInv, vars, requestVars, registryVars
<1>3. ASSUME NEW form, NEW detected, NEW found,
             \/ Search(form, detected, found)
             \/ \E request : NativeSearch(request, detected, found) /\ form = to_form_params(request)
      PROVE  ReplyInv'
  <2>1. next' > Len(entries') /\ UNCHANGED <<registryVars, settings, cookie, chose>>
    BY <1>3 DEF Search, NativeSearch, Serving, registryVars
  <2>2. \/ reply' \in {Refusal("refused"), Refusal("page")}
        \/ reply' = Answer(form, detected, found)
    BY <1>3 DEF Search, NativeSearch
  <2>3. CASE reply' = Answer(form, detected, found)
    BY <1>0, <2>1, <2>3, AnswerReplies DEF ReplyInv
  <2>4. CASE reply' \in {Refusal("refused"), Refusal("page")}
    BY <1>0, <2>1, <2>4 DEF ReplyInv, Replied, WasSearched, Refusal
  <2> QED
    BY <2>2, <2>3, <2>4
<1>4. CASE \/ ReadEntry /\ UNCHANGED requestVars
           \/ \E form \in SavedForms : SavePreferences(form)
           \/ ClearCookies
           \/ \E configuration \in Configurations : Reconfigure(configuration)
  <2>1. reply' = reply /\ (reply # None => next <= Len(entries))
    BY <1>4 DEF ReadEntry, requestVars, SavePreferences, ClearCookies, Reconfigure, Serving
  <2>2. Len(entries) \in Nat /\ next \in Nat
    BY DEF ReplyInv, RequestTyped
  <2> QED
    BY <1>1, <2>1, <2>2 DEF ReplyInv
<1> QED
  BY <1>1, <1>2, <1>3, <1>4 DEF Next, ReadReply

(* Replies are what Replied says throughout. *)
LEMMA ReplyInvariance == Spec => []ReplyInv
<1>1. Init => ReplyInv
  BY DEF Init, RegistryInit, SeqOf, ReplyInv, RequestTyped, Replied, WasSearched
<1> QED
  BY <1>1, ReplyStep, PTL DEF Spec

(* from_params, field by field. *)
LEMMA QueryFields ==
  ASSUME NEW form, NEW prefs, NEW locked, Field(form, "q") # None
  PROVE  LET q == from_params(form, prefs, locked)
             raw == parse_raw(form.q) IN
         /\ q.locale = Locale(form, raw, prefs, locked)
         /\ q.safesearch = parse_safesearch(form, prefs, locked)
         /\ q.categories = IF raw.categories # {} THEN raw.categories
                           ELSE parse_categories(form, prefs, locked)
  BY DEF from_params

(* select passes over what the preferences do not list. *)
LEMMA SelectedAreEnabled ==
  ASSUME NEW query, NEW enabled, NEW tokens, enabled # None,
         NEW i \in select(query, enabled, tokens)
  PROVE  registered[i].name \in enabled
  BY DEF select, is_eligible

(* The engines that are on are a set of ids. *)
LEMMA EnabledAreIds == ReplyInv => EnabledEntries # None
<1> SUFFICES ASSUME ReplyInv PROVE EnabledEntries \in SUBSET {Key(e) : e \in Entries}
  BY RegistryAssumption
<1> QED
  BY DEF ReplyInv, RequestTyped, EnabledEntries

(* Locked keys of the resolved preferences are those of the settings, and the *)
(* query takes them from there.                                              *)
LEMMA LocksKept == ReplyInv => LockedPreferencesHold
<1> SUFFICES ASSUME ReplyInv, WasSearched PROVE LockedPreferencesHold
  BY DEF LockedPreferencesHold
<1> DEFINE prefs == Resolved(reply.form, reply.detected)
           first == apply_settings(settings, EnabledEntries)
<1>1. /\ Field(reply.form, "q") # None
      /\ reply.query = from_params(reply.form, prefs, settings.lock)
      /\ reply.selected =
           select(reply.query, engine_preferences(prefs), request_tokens(reply.form))
      /\ reply.image_proxy = prefs.image_proxy
  BY Zenon DEF ReplyInv, Replied
<1>2. /\ reply.query.locale = Locale(reply.form, parse_raw(reply.form.q), prefs, settings.lock)
      /\ reply.query.safesearch = parse_safesearch(reply.form, prefs, settings.lock)
      /\ reply.query.categories =
           IF parse_raw(reply.form.q).categories # {} THEN parse_raw(reply.form.q).categories
           ELSE parse_categories(reply.form, prefs, settings.lock)
  BY <1>1, QueryFields
<1>3. /\ \A k \in PrefKeys \ {"locale", "language"} : k \in settings.lock => prefs[k] = first[k]
      /\ "language" \in settings.lock =>
           prefs.language = Normal(Heard(first.language, reply.detected))
  BY ResolvedKeys, "language" \in PrefKeys DEF Looked, PrefKeys
<1>4. /\ first.language = IF settings.default_lang = "" THEN "all" ELSE settings.default_lang
      /\ first.safesearch = settings.safe_search /\ first.categories = {"general"}
      /\ first.image_proxy = settings.image_proxy
      /\ EnabledEntries # {} => first.engines = EnabledEntries
  BY ConfigurationAssumption DEF apply_settings, Defaults, ReplyInv, RequestTyped
<1> HIDE DEF prefs, first
<1>5. ASSUME "language" \in settings.lock
      PROVE  reply.query.locale = Meant(first.language)
  BY <1>2, <1>3, <1>5 DEF Locale, parse_lang, Meant, Heard
<1>6. ASSUME "safesearch" \in settings.lock
      PROVE  reply.query.safesearch = settings.safe_search
  BY <1>2, <1>3, <1>4, <1>6 DEF parse_safesearch, PrefKeys
<1>7. ASSUME "image_proxy" \in settings.lock
      PROVE  reply.image_proxy = settings.image_proxy
  BY <1>1, <1>3, <1>4, <1>7 DEF PrefKeys
<1>8. ASSUME "engines" \in settings.lock, EnabledEntries # {}, NEW i \in reply.selected
      PROVE  registered[i].name \in EnabledEntries
  <2>1. prefs.engines = EnabledEntries
    BY <1>3, <1>4, <1>8 DEF PrefKeys
  <2>2. engine_preferences(prefs) = EnabledEntries
    BY <1>8, <2>1 DEF engine_preferences
  <2> QED
    BY <1>1, <1>8, <2>2, EnabledAreIds, SelectedAreEnabled
<1>9. ASSUME "categories" \in settings.lock PROVE CategoriesLocked
  <2>1. prefs.categories = {"general"}
    BY <1>3, <1>4, <1>9 DEF PrefKeys
  <2>2. parse_categories(reply.form, prefs, settings.lock) = {"general"}
    BY <1>9, <2>1 DEF parse_categories
  <2> QED
    BY <1>2, <2>2 DEF CategoriesLocked
<1> QED
  BY <1>4, <1>5, <1>6, <1>7, <1>8, <1>9 DEF LockedPreferencesHold, LocaleLocked

(***************************************************************************)
(* What the operator has locked, neither the form nor the cookie, also one *)
(* saved before the lock, changes in any search, and a word of the query   *)
(* changes only categories, whose lock from_params does not look at there. *)
(***************************************************************************)
THEOREM LocksHold == Spec => []LockedPreferencesHold
  BY ReplyInvariance, LocksKept, PTL

(* encode_cookie makes no cookie that is none, or that cannot be read. *)
CookiesReadable == \A prefs : encode_cookie(prefs) \notin {None, Corrupt}

(* The preferences that a search is made with. *)
Effective == {"language", "safesearch", "categories", "image_proxy", "engines"}

(* What the cookie has of a value. *)
Stored(k, value) == IF k = "language" THEN Normal(value) ELSE value

(* What the user chose is what the cookie says, a language by its locale. *)
ChoiceKept ==
  \A k \in Effective : chose[k] # None =>
    cookie \notin {None, Corrupt} /\ cookie[k] = Stored(k, chose[k])

(* A tag that has its locale keeps it. *)
LEMMA NormalIdempotent == \A language : Normal(Normal(language)) = Normal(language)
  BY LocalesAssumption
     DEF Normal, Kept, normalize_language_preference, normalize_locale_preference

(* A preference that is not locked is the form's, or else the user's. *)
LEMMA ChoiceLooked ==
  ASSUME ChoiceKept, NEW form, NEW k \in Effective, k \notin settings.lock
  PROVE  /\ Given(form, k) => Looked(form, k) = form[k]
         /\ ~Given(form, k) /\ chose[k] # None => Looked(form, k) = Stored(k, chose[k])
  BY DEF Looked, ChoiceKept

(* They are keys of the preferences. *)
LEMMA EffectiveKeys == Effective \subseteq PrefKeys
  BY DEF Effective, PrefKeys

(* Saving writes what the form gives and what the cookie has of the rest. *)
LEMMA SaveKeepsChoice ==
  ASSUME CookiesReadable, ChoiceKept, NEW form, SavePreferences(form)
  PROVE  ChoiceKept'
<1> DEFINE prefs == Resolved(form, None)
<1> SUFFICES ASSUME NEW k \in Effective, chose'[k] # None
             PROVE  cookie' \notin {None, Corrupt} /\ cookie'[k] = Stored(k, chose'[k])
  BY DEF ChoiceKept
<1>1. k \in PrefKeys
  BY EffectiveKeys
<1>2. /\ k \notin settings.lock
      /\ Given(form, k) => chose'[k] = form[k]
      /\ ~Given(form, k) => chose'[k] = chose[k]
  BY <1>1 DEF SavePreferences
<1>3. cookie' \notin {None, Corrupt} /\ cookie'[k] = prefs[k]
  BY <1>1 DEF SavePreferences, CookiesReadable, encode_cookie
<1>4. CASE k # "language"
  <2>1. prefs[k] = Looked(form, k)
    BY <1>1, <1>4, ResolvedKeys DEF Effective
  <2> QED
    BY <1>2, <1>3, <1>4, <2>1, ChoiceLooked DEF Stored
<1>5. CASE k = "language"
  <2>1. prefs[k] = Normal(Looked(form, k))
    BY <1>5, ResolvedKeys DEF Heard
  <2> QED
    BY <1>2, <1>3, <1>5, <2>1, ChoiceLooked, NormalIdempotent DEF Stored
<1> QED
  BY <1>4, <1>5

(* Every step keeps the cookie with what the user chose. *)
LEMMA ChoiceStep ==
  CookiesReadable /\ ChoiceKept /\ [Next]_vars => ChoiceKept'
<1> SUFFICES ASSUME CookiesReadable, ChoiceKept, [Next]_vars PROVE ChoiceKept'
  OBVIOUS
<1>1. ASSUME NEW form, SavePreferences(form) PROVE ChoiceKept'
  BY <1>1, SaveKeepsChoice
<1>2. CASE ClearCookies
  BY <1>2, EffectiveKeys DEF ClearCookies, ChoiceKept, Nothing
<1>3. CASE UNCHANGED <<cookie, chose>>
  BY <1>3 DEF ChoiceKept
<1> QED
  BY <1>1, <1>2, <1>3 DEF Next, vars, requestVars, ReadReply, Reconfigure, Search, NativeSearch

(* A search reads from the cookie what is not locked and not overridden. *)
LEMMA ChoicesApply == ReplyInv /\ ChoiceKept => SavedPreferencesApply
<1> SUFFICES ASSUME ReplyInv, ChoiceKept, WasSearched,
                    NEW k \in Effective, chose[k] # None, k \notin settings.lock, ~Overridden(k)
             PROVE  Applied(k)
  <2>1. \A k \in PrefKeys \ Effective : Applied(k)
    BY Zenon DEF Applied, Effective
  <2> QED
    BY <2>1 DEF SavedPreferencesApply
<1> DEFINE prefs == Resolved(reply.form, reply.detected)
<1>1. /\ Field(reply.form, "q") # None
      /\ reply.query = from_params(reply.form, prefs, settings.lock)
      /\ reply.selected =
           select(reply.query, engine_preferences(prefs), request_tokens(reply.form))
      /\ reply.image_proxy = prefs.image_proxy
  BY Zenon DEF ReplyInv, Replied
<1>2. LET raw == parse_raw(reply.form.q) IN
      /\ reply.query.locale = Locale(reply.form, raw, prefs, settings.lock)
      /\ reply.query.safesearch = parse_safesearch(reply.form, prefs, settings.lock)
      /\ reply.query.categories = IF raw.categories # {} THEN raw.categories
                                  ELSE parse_categories(reply.form, prefs, settings.lock)
  BY <1>1, QueryFields
<1>3. Field(reply.form, k) = None /\ ~Given(reply.form, k)
  BY DEF Overridden, Given, Field
<1>4. Looked(reply.form, k) = Stored(k, chose[k])
  BY <1>3, ChoiceLooked
<1>5. /\ k # "language" => prefs[k] = chose[k]
      /\ k = "language" => prefs.language = Meant(Normal(chose[k]))
  BY <1>4, ResolvedKeys, EffectiveKeys DEF Effective, Stored, Meant, Heard
<1> HIDE DEF prefs
<1>6. ASSUME k = "language" PROVE reply.query.locale = Meant(Normal(chose[k]))
  BY <1>2, <1>3, <1>5, <1>6 DEF Locale, parse_lang, Overridden
<1>7. ASSUME k = "safesearch" PROVE reply.query.safesearch = chose[k]
  BY <1>2, <1>3, <1>5, <1>7 DEF parse_safesearch
<1>8. ASSUME k = "categories"
      PROVE  reply.query.categories = IF chose[k] = {} THEN {"general"} ELSE chose[k]
  BY <1>2, <1>3, <1>5, <1>8 DEF parse_categories, Overridden
<1>9. ASSUME k = "image_proxy" PROVE reply.image_proxy = chose[k]
  BY <1>1, <1>5, <1>9
<1>10. ASSUME k = "engines", chose[k] # {}
       PROVE  {registered[i].name : i \in reply.selected} \subseteq chose[k]
  <2>1. engine_preferences(prefs) = chose[k]
    BY <1>5, <1>10 DEF engine_preferences
  <2> QED
    BY <1>1, <1>10, <2>1, SelectedAreEnabled
<1> QED
  BY <1>6, <1>7, <1>8, <1>9, <1>10, Zenon DEF Applied, Effective

(***************************************************************************)
(* A saved preference is used by every search until something else is      *)
(* saved: saving other keys, and locks that come and go, do not lose it.   *)
(***************************************************************************)
THEOREM ChoicesHold ==
  ASSUME CookiesReadable PROVE Spec => []SavedPreferencesApply
<1>1. Init => ChoiceKept
  BY EffectiveKeys DEF Init, Nothing, ChoiceKept
<1> QED
  BY <1>1, ChoiceStep, ReplyInvariance, ChoicesApply, PTL DEF Spec

-----------------------------------------------------------------------------

(* Every step keeps the registry as the entries read so far say. *)
LEMMA RegistryStep ==
  ReplyInv /\ RegistryInv /\ [Next]_vars => RegistryInv'
<1> SUFFICES ASSUME ReplyInv, RegistryInv, [Next]_vars PROVE RegistryInv'
  OBVIOUS
<1>1. CASE ReadEntry /\ mode = "Replace"
  BY <1>1, ReplaceStep DEF ReplyInv
<1>2. CASE ReadEntry /\ mode = "Merge"
  <2>1. /\ RequestTyped /\ next \in DOMAIN entries
        /\ registered \in Seq(RegisteredEngine) /\ Sourced(entries, next - 1, registered)
        /\ AllCalledById => Merged(entries, next - 1, registered)
        /\ entries' = entries /\ mode' = mode /\ next' - 1 = next
    BY <1>2 DEF ReplyInv, RequestTyped, RegistryInv, ReadEntry
  <2>2. registered' \in Seq(RegisteredEngine) /\ Sourced(entries, next, registered')
    BY <1>2, <2>1, FreeMergeStep
  <2>3. AllCalledById => Merged(entries, next, registered')
    BY <1>2, <2>1, MergeStep DEF AllCalledById
  <2>4. AllCalledById' = AllCalledById
    BY <2>1 DEF AllCalledById
  <2> QED
    BY <1>2, <2>1, <2>2, <2>3, <2>4 DEF RegistryInv
<1>3. CASE UNCHANGED registryVars
  BY <1>3 DEF RegistryInv, registryVars, AllCalledById
<1> QED
  BY <1>1, <1>2, <1>3 DEF Next, vars, ReadReply, SavePreferences, ClearCookies, Reconfigure,
     Search, NativeSearch, RegistryInv

(* The registry is as the entries read so far say throughout. *)
LEMMA RegistryInvariance == Spec => [](ReplyInv /\ RegistryInv)
  BY RegistryStarts, RegistryStep, ReplyInvariance, PTL DEF Spec

(* All entries have been read when a search is made. *)
LEMMA AllRead ==
  ASSUME ReplyInv, WasSearched, NEW n
  PROVE  Listed(n) = About(entries, next - 1, n) /\ IsFiniteSet(Listed(n))
<1>1. /\ entries \in Seq(Entries) /\ Len(entries) \in Nat /\ DOMAIN entries = 1..Len(entries)
      /\ next - 1 = Len(entries)
  BY DEF ReplyInv, RequestTyped, WasSearched
<1>2. Listed(n) = About(entries, next - 1, n)
  BY <1>1 DEF Listed, About
<1>3. IsFiniteSet(1..Len(entries)) /\ Listed(n) \in SUBSET (1..Len(entries))
  BY <1>1, FS_Interval DEF Listed
<1> QED
  BY <1>2, <1>3, FS_Subset

(* Whom a search asks is registered, and not disabled unless it was named. *)
LEMMA AskedEligible ==
  ASSUME ReplyInv, WasSearched, NEW i \in reply.selected
  PROVE  /\ i \in DOMAIN registered
         /\ reply.query.engines = {} => ~registered[i].disabled
  BY DEF ReplyInv, Replied, select, is_eligible

(* Two that differ are two. *)
LEMMA PairCounted == ASSUME NEW k, NEW l, k # l PROVE Cardinality({k, l}) = 2
<1>1. IsFiniteSet({k}) /\ Cardinality({k}) = 1
  BY FS_Singleton
<1>2. l \notin {k} /\ {k, l} = {k} \cup {l}
  OBVIOUS
<1>3. Cardinality({k} \cup {l}) = IF l \in {k} THEN Cardinality({k}) ELSE Cardinality({k}) + 1
  BY <1>1, FS_AddElement, Zenon
<1> QED
  BY <1>1, <1>2, <1>3

(* Two places with one name are two copies, each of an entry of its own, or    *)
(* one of an entry that may not have found the other.                          *)
LEMMA TwiceStep == ReplyInv /\ RegistryInv => AskedTwiceOnlyIfListed
<1> SUFFICES ASSUME ReplyInv, RegistryInv, WasSearched,
                    NEW i \in reply.selected, NEW j \in reply.selected,
                    registered[i].name = registered[j].name, i # j
             PROVE  \/ mode = "Replace" /\ Cardinality(Listed(registered[i].name)) > 1
                    \/ /\ mode = "Merge" /\ ~AllCalledById
                       /\ Listed(registered[i].name) # {}
  BY DEF AskedTwiceOnlyIfListed, AskedTwice
<1> DEFINE n == registered[i].name
<1>1. i \in DOMAIN registered /\ j \in DOMAIN registered
  BY AskedEligible
<1>2. Listed(n) = About(entries, next - 1, n) /\ IsFiniteSet(Listed(n))
  BY AllRead
<1>3. CASE entries = <<>> \/ mode = "Merge"
  <2>1. Listed(n) # {}
    BY <1>1, <1>2, <1>3 DEF RegistryInv, Sourced
  <2>2. mode = "Merge"
    BY <1>3, <2>1 DEF Listed
  <2>3. ~AllCalledById
    BY <1>1, <1>3 DEF RegistryInv, Merged, NamedOnce
  <2> QED
    BY <2>1, <2>2, <2>3
<1>4. CASE entries # <<>> /\ mode = "Replace"
  <2>1. OwnCopies(entries, next - 1, registered)
    BY <1>4 DEF RegistryInv
  <2>2. PICK k \in Listed(n), l \in Listed(n) : k # l
    BY <1>1, <1>2, <2>1 DEF OwnCopies
  <2>3. Cardinality({k, l}) = 2
    BY <2>2, PairCounted
  <2>4. {k, l} \in SUBSET Listed(n)
    OBVIOUS
  <2>5. Cardinality(Listed(n)) \in Nat /\ 2 <= Cardinality(Listed(n))
    BY <1>2, <2>3, <2>4, FS_Subset, FS_CardinalityType
  <2> QED
    BY <1>4, <2>5
<1> QED
  BY <1>3, <1>4 DEF RegistryInv

(* An engine that is asked has a decisive entry that does not switch it off,   *)
(* or the copy that is asked has some other reason to be on.                   *)
LEMMA OffStep == ReplyInv /\ RegistryInv => SwitchedOffStaysOff
<1> SUFFICES ASSUME ReplyInv, RegistryInv, WasSearched, reply.query.engines = {},
                    NEW i \in reply.selected, Listed(registered[i].name) # {}
             PROVE  LET n == registered[i].name IN
                    \/ \E k \in Decisive(n) : ~SwitchedOff(entries[k])
                    \/ /\ mode = "Merge" /\ ~AllCalledById
                       /\ \/ EnabledInCatalogue(n)
                          \/ \E k \in Listed(n) : ~SwitchedOff(entries[k])
  BY DEF SwitchedOffStaysOff
<1> DEFINE n == registered[i].name
<1>1. i \in DOMAIN registered /\ ~registered[i].disabled
  BY AskedEligible
<1>2. Listed(n) = About(entries, next - 1, n)
  BY AllRead
<1>3. CASE mode = "Replace" /\ entries # <<>>
  <2>1. OwnCopies(entries, next - 1, registered)
    BY <1>3 DEF RegistryInv
  <2>2. PICK k \in Listed(n) : ~SwitchedOff(entries[k])
    BY <1>1, <1>2, <2>1 DEF OwnCopies
  <2> QED
    BY <1>3, <2>2 DEF Decisive
<1>4. CASE mode = "Merge" /\ AllCalledById
  <2>1. LastCounts(entries, next - 1, registered)
    BY <1>4 DEF RegistryInv, Merged
  <2>2. PICK k \in Listed(n) : (\A l \in Listed(n) : l <= k) /\ ~SwitchedOff(entries[k])
    BY <1>1, <1>2, <2>1 DEF LastCounts
  <2> QED
    BY <1>4, <2>2 DEF Decisive
<1>5. CASE mode = "Merge" /\ ~AllCalledById
  BY <1>1, <1>2, <1>5 DEF RegistryInv, Sourced
<1>6. CASE entries = <<>>
  BY <1>6 DEF Listed
<1> QED
  BY <1>3, <1>4, <1>5, <1>6 DEF RegistryInv

(***************************************************************************)
(* A search asks an engine twice only if a list that replaces the          *)
(* catalogue has it twice, or if an entry about it was merged and some     *)
(* entry calls its engine by something else than its id: registry_merge    *)
(* finds the engine of every other entry in the catalogue.                 *)
(***************************************************************************)
THEOREM EnginesAskedOnce == Spec => []AskedTwiceOnlyIfListed
  BY RegistryInvariance, TwiceStep, PTL

(***************************************************************************)
(* The last word of the operator about an engine counts: an entry that     *)
(* switches it off takes it out of every search that does not name it,     *)
(* whatever cookie or form says.  Where entries are merged of which one    *)
(* calls its engine by something else than its id, an engine that is asked *)
(* still is one that the catalogue or some entry has on.                   *)
(***************************************************************************)
THEOREM EnginesStayOff == Spec => []SwitchedOffStaysOff
  BY RegistryInvariance, OffStep, PTL
=============================================================================
