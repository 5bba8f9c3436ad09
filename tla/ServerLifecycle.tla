--------------------------- MODULE ServerLifecycle ---------------------------
(***************************************************************************)
(* One process of zoeken-server from main to its end: the startup sequence *)
(* (main.rs, boot.rs), the two readiness flags (readiness.rs), the storage *)
(* monitor, and serving until a signal with a bounded drain (serve.rs).    *)
(*                                                                         *)
(* stage is where main is: a step of BootSteps, then "ready" (the flag is  *)
(* set), "serving" (the accept loop runs and the signal handlers are       *)
(* installed), "signalled" (the handler has run, the main task has not     *)
(* seen it yet), "draining" (the grace timer runs) or "ended".             *)
(***************************************************************************)
EXTENDS Naturals, Sequences, FiniteSets, TLAPS

CONSTANTS Requests, None, Grace, LastTick  \* no tick after LastTick but for a drain

ASSUME GraceAssumption == Grace \in Nat /\ LastTick \in Nat /\ None \notin Nat

VARIABLES stage, step, exit,
          serving, storage_healthy,  \* ReadinessState
          monitor,                   \* "none", "sleeping", "checking", "maintaining"
          up,                        \* whether the database answers
          request,                   \* phase of each request
          uptime, drainAt             \* when the grace timer was started

vars == <<stage, step, exit, serving, storage_healthy, monitor, up, request, uptime, drainAt>>

(* boot_with, then main up to the listener, in order.  The monitor is spawned *)
(* between the assets and the application state.                              *)
BootSteps == <<"settings", "data", "network", "storage", "bind", "secret_key",
               "assets", "app", "listen">>

Stages == {"booting", "ready", "serving", "signalled", "draining", "ended"}

LifecycleTypeOK ==
  /\ stage \in Stages /\ step \in 1..Len(BootSteps) + 1
  /\ exit \in {None, "ok", "error", "killed"}
  /\ serving \in BOOLEAN /\ storage_healthy \in BOOLEAN /\ up \in BOOLEAN
  /\ monitor \in {"none", "sleeping", "checking", "maintaining"}
  /\ request \in [Requests -> {"none", "open", "closed", "cut"}]
  /\ uptime \in 0..(LastTick + Grace) /\ drainAt \in Nat \cup {None}

(* ReadinessState::new_not_ready. *)
Init ==
  /\ stage = "booting" /\ step = 1 /\ exit = None
  /\ serving = FALSE /\ storage_healthy = TRUE
  /\ monitor = "none" /\ up \in BOOLEAN
  /\ request = [r \in Requests |-> "none"]
  /\ uptime = 0 /\ drainAt = None

Open == {r \in Requests : request[r] = "open"}

is_ready == serving /\ storage_healthy

(* main returns or the process is killed: the runtime drops every task. *)
EndProcess(code) ==
  /\ stage' = "ended" /\ exit' = code
  /\ monitor' = "none"
  /\ request' = [r \in Requests |-> IF request[r] = "open" THEN "cut" ELSE request[r]]
  /\ UNCHANGED <<step, serving, storage_healthy, up, uptime, drainAt>>

-----------------------------------------------------------------------------
(* A startup step succeeds; connect needs the database. *)
BootStep ==
  /\ stage = "booting" /\ step <= Len(BootSteps)
  /\ BootSteps[step] = "storage" => up
  /\ step' = step + 1
  /\ monitor' = IF BootSteps[step] = "assets" THEN "checking" ELSE monitor
  /\ UNCHANGED <<stage, exit, serving, storage_healthy, up, request, uptime, drainAt>>

(* A startup step fails, and main returns its error. *)
BootFails ==
  /\ stage = "booting" /\ step <= Len(BootSteps)
  /\ EndProcess("error")

SetReady ==
  /\ stage = "booting" /\ step > Len(BootSteps)
  /\ serving' = TRUE
  /\ stage' = "ready"
  /\ UNCHANGED <<step, exit, storage_healthy, monitor, up, request, uptime, drainAt>>

(* serve: the first poll of the server installs the signal handlers. *)
Serve ==
  /\ stage = "ready"
  /\ stage' = "serving"
  /\ UNCHANGED <<step, exit, serving, storage_healthy, monitor, up, request, uptime, drainAt>>

Accept(r) ==
  /\ stage = "serving" /\ request[r] = "none"
  /\ request' = [request EXCEPT ![r] = "open"]
  /\ UNCHANGED <<stage, step, exit, serving, storage_healthy, monitor, up, uptime, drainAt>>

(* The response is sent, or the client goes away. *)
Finish(r) ==
  /\ stage # "ended" /\ request[r] = "open"
  /\ request' = [request EXCEPT ![r] = "closed"]
  /\ UNCHANGED <<stage, step, exit, serving, storage_healthy, monitor, up, uptime, drainAt>>

(* A signal before the handlers exist has its default effect. *)
KilledEarly ==
  /\ stage \in {"booting", "ready"}
  /\ EndProcess("killed")

(* Mutant of ShutdownSignal: the drain begins without clearing readiness. *)
ShutdownSignalStaysReady ==
  /\ stage = "serving"
  /\ stage' = "signalled"
  /\ UNCHANGED <<step, exit, serving, storage_healthy, monitor, up, request, uptime, drainAt>>

(* shutdown_signal: the first SIGINT or SIGTERM begins the drain; the accept  *)
(* loop stops.  Later signals find nobody waiting.                            *)
ShutdownSignal ==
  /\ stage = "serving"
  /\ stage' = "signalled"
  /\ serving' = FALSE
  /\ UNCHANGED <<step, exit, storage_healthy, monitor, up, request, uptime, drainAt>>

(* drain_started.notified() in serve_with_shutdown, and the grace timer. *)
StartGrace ==
  /\ stage = "signalled"
  /\ stage' = "draining" /\ drainAt' = uptime
  /\ UNCHANGED <<step, exit, serving, storage_healthy, monitor, up, request, uptime>>

(* Mutant of Drained: the server is left as soon as the drain has begun. *)
DrainedAtOnce == stage \in {"signalled", "draining"} /\ EndProcess("ok")

(* The server future ends when the last connection is closed. *)
Drained ==
  /\ stage \in {"signalled", "draining"} /\ Open = {}
  /\ EndProcess("ok")

(* Mutant of GraceOver: the drain waits for the last request, however long. *)
GraceNeverOver == stage = "draining" /\ Open = {} /\ uptime >= drainAt + Grace /\ EndProcess("ok")

GraceOver ==
  /\ stage = "draining" /\ uptime >= drainAt + Grace
  /\ EndProcess("ok")

(* The monitor's loop: a tick, healthcheck, then maintenance if healthy. *)
MonitorTick ==
  /\ monitor = "sleeping"
  /\ monitor' = "checking"
  /\ UNCHANGED <<stage, step, exit, serving, storage_healthy, up, request, uptime, drainAt>>

(* Mutant of HealthCheck: a failed check leaves the flag alone. *)
HealthCheckKeeps ==
  /\ monitor = "checking"
  /\ storage_healthy' = (storage_healthy \/ up)
  /\ monitor' = IF up THEN "maintaining" ELSE "sleeping"
  /\ UNCHANGED <<stage, step, exit, serving, up, request, uptime, drainAt>>

HealthCheck ==
  /\ monitor = "checking"
  /\ storage_healthy' = up
  /\ monitor' = IF up THEN "maintaining" ELSE "sleeping"
  /\ UNCHANGED <<stage, step, exit, serving, up, request, uptime, drainAt>>

(* maintenance; an error is only counted. *)
Maintained ==
  /\ monitor = "maintaining"
  /\ monitor' = "sleeping"
  /\ UNCHANGED <<stage, step, exit, serving, storage_healthy, up, request, uptime, drainAt>>

(* The database goes away or comes back. *)
Storage(b) ==
  /\ up # b /\ up' = b
  /\ UNCHANGED <<stage, step, exit, serving, storage_healthy, monitor, request, uptime, drainAt>>

TimePasses ==
  /\ IF stage = "draining" THEN uptime < drainAt + Grace ELSE uptime < LastTick
  /\ uptime' = uptime + 1
  /\ UNCHANGED <<stage, step, exit, serving, storage_healthy, monitor, up, request, drainAt>>

Main == BootStep \/ SetReady \/ Serve \/ StartGrace \/ Drained \/ GraceOver
Monitor == MonitorTick \/ HealthCheck \/ Maintained

Next ==
  \/ Main \/ BootFails \/ KilledEarly \/ ShutdownSignal \/ Monitor \/ TimePasses
  \/ \E r \in Requests : Accept(r) \/ Finish(r)
  \/ \E b \in BOOLEAN : Storage(b)

Spec == Init /\ [][Next]_vars /\ WF_vars(Main) /\ WF_vars(Monitor) /\ WF_vars(TimePasses)

-----------------------------------------------------------------------------
(* Once a drain has begun the process never reports ready again, whatever the *)
(* storage monitor, which keeps running, finds out about the database.        *)
NeverReadyAgain ==
  [][(stage \in {"signalled", "draining"}) => ~(is_ready')]_vars

(* A request is cut off by a shutdown only when the grace period is over.     *)
CutOnlyAfterGrace ==
  [][\A r \in Requests : request[r] = "open" /\ request'[r] = "cut" =>
       drainAt # None /\ uptime >= drainAt + Grace]_vars

(* A signalled process ends, also when a request never does.                  *)
SignalEnds == stage = "signalled" ~> stage = "ended"

(* A database that is gone for good makes the process report not ready, and   *)
(* one that is back for good lets it report ready until it is told to stop.   *)
OutageSeen ==
  /\ (<>[](~up /\ stage = "serving")) => <>[]~is_ready
  /\ (<>[](up /\ stage = "serving")) => <>[]is_ready

-----------------------------------------------------------------------------
(* What a shutdown never does, for any number of requests and any grace       *)
(* period.  A drain that has begun keeps the readiness flag down, and only    *)
(* the serving stage takes requests in, so a process that is killed before it *)
(* serves has none to cut.                                                    *)

(* The drain keeps the flag that the signal cleared. *)
DrainNotReady == stage \in {"signalled", "draining"} => ~serving

(* Only a process that serves, or has served, has requests. *)
NoRequestsBeforeServing ==
  stage \in {"booting", "ready"} => \A r \in Requests : request[r] = "none"

(* The grace timer of a drain has a beginning. *)
DrainHasBegun == stage = "draining" => drainAt \in Nat

(* The inductive invariant. *)
LifecycleInv ==
  /\ request \in [Requests -> {"none", "open", "closed", "cut"}]
  /\ uptime \in Nat
  /\ DrainNotReady
  /\ NoRequestsBeforeServing
  /\ DrainHasBegun

(* Every step of a process, from its start to its end, keeps the invariant. *)
LEMMA LifecycleStep == LifecycleInv /\ [Next]_vars => LifecycleInv'
<1> SUFFICES ASSUME LifecycleInv, [Next]_vars PROVE LifecycleInv'
  OBVIOUS
<1> USE GraceAssumption
        DEF LifecycleInv, DrainNotReady, NoRequestsBeforeServing, DrainHasBegun
<1>1. CASE BootStep
  BY <1>1 DEF BootStep
<1>2. CASE SetReady
  BY <1>2 DEF SetReady
<1>3. CASE Serve
  BY <1>3 DEF Serve
<1>4. CASE StartGrace
  BY <1>4 DEF StartGrace
<1>5. CASE Drained
  BY <1>5 DEF Drained, EndProcess
<1>6. CASE GraceOver
  BY <1>6 DEF GraceOver, EndProcess
<1>7. CASE BootFails
  BY <1>7 DEF BootFails, EndProcess
<1>8. CASE KilledEarly
  BY <1>8 DEF KilledEarly, EndProcess
<1>9. CASE ShutdownSignal
  BY <1>9 DEF ShutdownSignal
<1>10. CASE Monitor
  BY <1>10 DEF Monitor, MonitorTick, HealthCheck, Maintained
<1>11. CASE TimePasses
  BY <1>11 DEF TimePasses
<1>12. ASSUME NEW r \in Requests, Accept(r) PROVE LifecycleInv'
  BY <1>12 DEF Accept
<1>13. ASSUME NEW r \in Requests, Finish(r) PROVE LifecycleInv'
  BY <1>13 DEF Finish
<1>14. ASSUME NEW b \in BOOLEAN, Storage(b) PROVE LifecycleInv'
  BY <1>14 DEF Storage
<1>15. CASE UNCHANGED vars
  BY <1>15 DEF vars
<1> QED
  BY <1>1, <1>2, <1>3, <1>4, <1>5, <1>6, <1>7, <1>8, <1>9, <1>10, <1>11, <1>12,
     <1>13, <1>14, <1>15 DEF Next, Main

(* The lifecycle's invariant holds throughout. *)
LEMMA LifecycleInvariance == Spec => []LifecycleInv
<1>1. Init => LifecycleInv
  BY DEF Init, LifecycleInv, DrainNotReady, NoRequestsBeforeServing, DrainHasBegun
<1> QED
  BY <1>1, LifecycleStep, PTL DEF Spec

(* A step of a process that was told to stop does not make it ready. *)
LEMMA DrainStep ==
  LifecycleInv /\ [Next]_vars /\ stage \in {"signalled", "draining"} => ~(is_ready')
<1> SUFFICES ASSUME LifecycleInv, [Next]_vars, stage \in {"signalled", "draining"}
             PROVE  ~serving'
  BY DEF is_ready
<1>1. ~serving
  BY DEF LifecycleInv, DrainNotReady
<1>2. serving' = serving
  BY DEF Next, Main, BootStep, SetReady, Serve, StartGrace, Drained, GraceOver, BootFails,
         KilledEarly, ShutdownSignal, Monitor, MonitorTick, HealthCheck, Maintained, TimePasses,
         Accept, Finish, Storage, EndProcess, vars
<1> QED
  BY <1>1, <1>2

(***************************************************************************)
(* serve.rs clears the flag on the signal and nothing sets it again: the   *)
(* storage monitor, which outlives the drain, has a flag of its own.       *)
(***************************************************************************)
THEOREM ReadinessGone == Spec => NeverReadyAgain
  BY LifecycleInvariance, DrainStep, PTL DEF Spec, NeverReadyAgain

(* Whichever step cuts a request, the grace period of a drain is over. *)
LEMMA CutStep ==
  ASSUME LifecycleInv, [Next]_vars, NEW r \in Requests,
         request[r] = "open", request'[r] = "cut"
  PROVE  drainAt # None /\ uptime >= drainAt + Grace
<1> USE DEF LifecycleInv
<1>1. CASE GraceOver
  BY <1>1, GraceAssumption DEF GraceOver, DrainHasBegun
<1>2. CASE Drained
  BY <1>2 DEF Drained, Open, EndProcess
<1>3. CASE BootFails \/ KilledEarly
  BY <1>3 DEF BootFails, KilledEarly, NoRequestsBeforeServing
<1>4. ASSUME NEW q \in Requests, Accept(q) \/ Finish(q) PROVE FALSE
  BY <1>4 DEF Accept, Finish
<1>5. CASE request' = request
  BY <1>5
<1> QED
  BY <1>1, <1>2, <1>3, <1>4, <1>5
     DEF Next, Main, BootStep, SetReady, Serve, StartGrace, ShutdownSignal, Monitor,
         MonitorTick, HealthCheck, Maintained, TimePasses, Storage, vars

(***************************************************************************)
(* A request that was taken in is cut off by a shutdown only after the     *)
(* whole grace period, however many requests are open.                     *)
(***************************************************************************)
THEOREM GraceGranted == Spec => CutOnlyAfterGrace
<1>1. LifecycleInv /\ [Next]_vars =>
        \A r \in Requests : request[r] = "open" /\ request'[r] = "cut" =>
          drainAt # None /\ uptime >= drainAt + Grace
  BY CutStep
<1> QED
  BY <1>1, LifecycleInvariance, PTL DEF Spec, CutOnlyAfterGrace
=============================================================================
