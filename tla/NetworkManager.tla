--------------------------- MODULE NetworkManager ---------------------------
(***************************************************************************)
(* NetworkManager::request (zoeken-network): a coordinated request waits   *)
(* for a permit of its origin, sends the HTTP request while it renews the  *)
(* lease of the permit, reports a Retry-After to the storage and releases  *)
(* the lease.  Requests of all replicas run concurrently against one       *)
(* storage.  The future of a request may be dropped at any await (the      *)
(* engine timeout in run_one, a client that went away, a crash of the      *)
(* replica): no guard releases the lease then.                             *)
(*                                                                         *)
(* Time.  A storage call reads the clock when it is made (`readAt`) and    *)
(* its transaction commits up to Latency ticks later.  Sleeps and renewal  *)
(* timers end when they are due, and the HTTP request by its deadline.     *)
(* Tick is disabled when one of these would be violated, so Latency bounds *)
(* storage delay and scheduling delay together.                            *)
(***************************************************************************)
EXTENDS OriginStore

CONSTANTS
  Latency,         \* bound on the age of a pending storage call
  Timeout,         \* NetworkRequest.timeout: permit wait, and again the request
  BusyRetry,       \* retry_after of ConcurrencyLimited (50 ms)
  RetryAfters,     \* Retry-After delays an origin may answer with
  LastStart,       \* bound: no request starts later
  MaxClock         \* bound: the clock stops here

ASSUME TimeAssumption ==
  /\ Latency \in Nat
  /\ Timeout \in Nat
  /\ BusyRetry \in Nat
  /\ RetryAfters \subseteq Nat
  /\ LastStart \in Nat
  /\ MaxClock \in Nat

VARIABLES
  clock,
  pc,              \* where each request is
  readAt,          \* the `now` of its pending storage call
  timer,           \* its next timer: end of a sleep, or the renewal tick
  deadline,        \* its deadline: of the wait, then of the HTTP request
  result,          \* its result so far
  \* History, read by no action:
  grants,          \* permits granted per origin
  notBefore        \* the latest Retry-After recorded for each origin

requestVars == <<pc, readAt, timer, deadline, result>>
historyVars == <<grants, notBefore>>
vars == <<storeVars, clock, requestVars, historyVars>>

Phases == {"idle", "acquiring", "sleeping", "requesting", "renewing",
           "deferring", "releasing", "done"}
Results == {"none", "ok", "http_error", "too_many_requests", "queue_expired",
            "coordination_unavailable", "cancelled"}

\* Phases in which a storage call is pending.
Calling == {"acquiring", "renewing", "deferring", "releasing"}

\* The requests that hold a permit and are talking to their origin.
InFlight == {r \in Requests : pc[r] \in {"requesting", "renewing"}}

\* Mutant of RenewEvery: renew only when the lease has run out.
RenewEveryLease == LeaseDuration

\* renewal_every; lease_seconds >= 1 keeps lease/2 above the 100 ms floor.
RenewEvery == LeaseDuration \div 2

TypeOK ==
  /\ StoreTypeOK
  /\ clock \in Nat
  /\ pc \in [Requests -> Phases]
  /\ readAt \in [Requests -> Nat]
  /\ timer \in [Requests -> Nat]
  /\ deadline \in [Requests -> Nat]
  /\ result \in [Requests -> Results]
  /\ grants \in [Origins -> Nat]
  /\ notBefore \in [Origins -> Nat]

Init ==
  /\ StoreInit
  /\ clock = 0
  /\ pc = [r \in Requests |-> "idle"]
  /\ readAt = [r \in Requests |-> 0]
  /\ timer = [r \in Requests |-> 0]
  /\ deadline = [r \in Requests |-> 0]
  /\ result = [r \in Requests |-> "none"]
  /\ grants = [o \in Origins |-> 0]
  /\ notBefore = [o \in Origins |-> 0]

----------------------------------------------------------------------------
(* Steps of a request.                                                     *)

\* Make a storage call: read the clock and wait for its transaction.
Call(r, phase) ==
  /\ pc' = [pc EXCEPT ![r] = phase]
  /\ readAt' = [readAt EXCEPT ![r] = clock]

\* Return to the caller.  What the request no longer needs is forgotten.
Return(r, res) ==
  /\ pc' = [pc EXCEPT ![r] = "done"]
  /\ result' = [result EXCEPT ![r] = res]
  /\ readAt' = [readAt EXCEPT ![r] = 0]
  /\ timer' = [timer EXCEPT ![r] = 0]
  /\ deadline' = [deadline EXCEPT ![r] = 0]

Start(r) ==
  /\ pc[r] = "idle"
  /\ clock <= LastStart
  /\ Call(r, "acquiring")
  /\ deadline' = [deadline EXCEPT ![r] = clock + Timeout]
  /\ UNCHANGED <<storeVars, clock, timer, result, historyVars>>

\* Mutant of WaitOrExpire: without the early return at the deadline.
WaitForever(r, retryAfter) ==
  /\ pc' = [pc EXCEPT ![r] = "sleeping"]
  /\ timer' = [timer EXCEPT ![r] =
                 clock + Smaller(retryAfter, Larger(deadline[r] - clock, 0))]
  /\ readAt' = [readAt EXCEPT ![r] = 0]
  /\ UNCHANGED <<deadline, result>>

(***************************************************************************)
(* A permit was refused: give up at the deadline, else sleep for the       *)
(* retry_after of the decision or until the deadline.                      *)
(***************************************************************************)
WaitOrExpire(r, retryAfter) ==
  \/ /\ clock >= deadline[r]
     /\ Return(r, "queue_expired")
  \/ /\ clock < deadline[r]
     /\ pc' = [pc EXCEPT ![r] = "sleeping"]
     /\ timer' = [timer EXCEPT
                    ![r] = clock + Smaller(retryAfter, deadline[r] - clock)]
     /\ readAt' = [readAt EXCEPT ![r] = 0]
     /\ UNCHANGED <<deadline, result>>

AcquireRefused(r) ==
  LET o == OriginOf[r]
      now == readAt[r]
  IN
  /\ pc[r] = "acquiring"
  /\ \/ /\ AcquireConcurrencyLimited(o, now)
        /\ WaitOrExpire(r, BusyRetry)
     \/ /\ AcquireBlocked(o, now)
        /\ WaitOrExpire(r, blockedUntil[o] - now)
     \/ /\ AcquireOutOfTokens(o, now)
        /\ WaitOrExpire(r, TokenRetryAfter(RefillTokens(o, now)))
  /\ UNCHANGED <<clock, historyVars>>

(***************************************************************************)
(* The permit is granted: the HTTP request starts with a budget of its     *)
(* own and the first renewal is due half a lease from now.                 *)
(***************************************************************************)
Acquire(r) ==
  /\ pc[r] = "acquiring"
  /\ AcquireGranted(r, readAt[r])
  /\ pc' = [pc EXCEPT ![r] = "requesting"]
  /\ readAt' = [readAt EXCEPT ![r] = 0]
  /\ timer' = [timer EXCEPT ![r] = clock + RenewEvery]
  /\ deadline' = [deadline EXCEPT ![r] = clock + Timeout]
  /\ grants' = [grants EXCEPT ![OriginOf[r]] = @ + 1]
  /\ UNCHANGED <<clock, result, notBefore>>

\* The storage failed: nothing was written, the request fails closed.
AcquireFails(r) ==
  /\ pc[r] = "acquiring"
  /\ Return(r, "coordination_unavailable")
  /\ UNCHANGED <<storeVars, clock, historyVars>>

Wake(r) ==
  /\ pc[r] = "sleeping"
  /\ clock >= timer[r]
  /\ Call(r, "acquiring")
  /\ timer' = [timer EXCEPT ![r] = 0]
  /\ UNCHANGED <<storeVars, clock, deadline, result, historyVars>>

\* The select! loop: the renewal timer fires ...
RenewalDue(r) ==
  /\ pc[r] = "requesting"
  /\ clock >= timer[r]
  /\ Call(r, "renewing")
  /\ timer' = [timer EXCEPT ![r] = clock + RenewEvery]
  /\ UNCHANGED <<storeVars, clock, deadline, result, historyVars>>

\* ... and renew_origin answers true: keep polling the request ...
Renew(r) ==
  /\ pc[r] = "renewing"
  /\ r \in leases
  /\ RenewOrigin(r, readAt[r])
  /\ pc' = [pc EXCEPT ![r] = "requesting"]
  /\ readAt' = [readAt EXCEPT ![r] = 0]
  /\ UNCHANGED <<clock, timer, deadline, result, historyVars>>

\* ... or false, or an error: drop the request and release what may be left.
RenewFails(r) ==
  /\ pc[r] = "renewing"
  /\ Call(r, "releasing")
  /\ timer' = [timer EXCEPT ![r] = 0]
  /\ result' = [result EXCEPT ![r] = "coordination_unavailable"]
  /\ UNCHANGED <<storeVars, clock, deadline, historyVars>>

\* The HTTP request ends, within its deadline, and not with a Retry-After.
RequestEnds(r) ==
  /\ pc[r] = "requesting"
  /\ \E res \in {"ok", "http_error"} : result' = [result EXCEPT ![r] = res]
  /\ Call(r, "releasing")
  /\ timer' = [timer EXCEPT ![r] = 0]
  /\ UNCHANGED <<storeVars, clock, deadline, historyVars>>

\* TooManyRequests with a Retry-After: defer_origin comes before the release.
RequestThrottled(r) ==
  /\ pc[r] = "requesting"
  /\ Call(r, "deferring")
  /\ timer' = [timer EXCEPT ![r] = 0]
  /\ result' = [result EXCEPT ![r] = "too_many_requests"]
  /\ UNCHANGED <<storeVars, clock, deadline, historyVars>>

Defer(r) ==
  /\ pc[r] = "deferring"
  /\ \E delay \in RetryAfters :
       /\ DeferOrigin(OriginOf[r], readAt[r], delay)
       /\ notBefore' = [notBefore EXCEPT
                          ![OriginOf[r]] = Larger(@, readAt[r] + delay)]
  /\ Call(r, "releasing")
  /\ UNCHANGED <<clock, timer, deadline, result, grants>>

DeferFails(r) ==
  /\ pc[r] = "deferring"
  /\ Call(r, "releasing")
  /\ result' = [result EXCEPT ![r] = "coordination_unavailable"]
  /\ UNCHANGED <<storeVars, clock, timer, deadline, historyVars>>

Release(r) ==
  /\ pc[r] = "releasing"
  /\ ReleaseOrigin(r)
  /\ Return(r, result[r])
  /\ UNCHANGED <<clock, historyVars>>

\* A failed release turns even a good response into an error; the row stays.
ReleaseFails(r) ==
  /\ pc[r] = "releasing"
  /\ Return(r, "coordination_unavailable")
  /\ UNCHANGED <<storeVars, clock, historyVars>>

(***************************************************************************)
(* The future is dropped.  A transaction that commits although its caller  *)
(* is gone is the commit followed by this step.                            *)
(***************************************************************************)
Cancel(r) ==
  /\ pc[r] \notin {"idle", "done"}
  /\ Return(r, "cancelled")
  /\ UNCHANGED <<storeVars, clock, historyVars>>

----------------------------------------------------------------------------
(* The rest of the system.                                                 *)

\* The storage monitor's maintenance, with a `now` as old as any call's.
Maintain ==
  /\ \E now \in 0..clock :
       /\ clock - now <= Latency
       /\ MaintenanceOrigins(now)
  /\ UNCHANGED <<clock, requestVars, historyVars>>

Tick ==
  /\ clock < MaxClock
  /\ \A r \in Requests :
       /\ pc[r] \in Calling => clock < readAt[r] + Latency
       /\ pc[r] \in {"sleeping", "requesting"} => clock < timer[r]
       /\ pc[r] = "requesting" => clock < deadline[r]
  /\ clock' = clock + 1
  /\ UNCHANGED <<storeVars, requestVars, historyVars>>

RequestStep(r) ==
  \/ AcquireRefused(r) \/ Acquire(r) \/ AcquireFails(r) \/ Wake(r)
  \/ RenewalDue(r) \/ Renew(r) \/ RenewFails(r)
  \/ RequestEnds(r) \/ RequestThrottled(r) \/ Defer(r) \/ DeferFails(r)
  \/ Release(r) \/ ReleaseFails(r)

Next ==
  \/ \E r \in Requests : Start(r) \/ RequestStep(r) \/ Cancel(r)
  \/ Maintain
  \/ Tick

Spec == Init /\ [][Next]_vars

(***************************************************************************)
(* Fairness: the runtime polls a request whose await is ready, the clock   *)
(* advances, and the storage monitor keeps calling maintenance.  Nothing   *)
(* makes a request start or be cancelled.                                  *)
(***************************************************************************)
FairSpec ==
  /\ Spec
  /\ \A r \in Requests : WF_vars(RequestStep(r))
  /\ WF_vars(Maintain)
  /\ WF_vars(Tick)

----------------------------------------------------------------------------
(* Properties.                                                             *)

(***************************************************************************)
(* A lease outlives the renewal that extends it: the grant may commit      *)
(* Latency after it read the clock, the timer then runs for RenewEvery,    *)
(* and the renewal may take Latency again.  Lease sharing relies on it.    *)
(***************************************************************************)
LeaseOutlivesRenewal == 2 * Latency + RenewEvery < LeaseDuration

(***************************************************************************)
(* No origin ever serves more than max_concurrent coordinated requests at  *)
(* once, counting the requests themselves and not the lease rows: a lease  *)
(* that expires under a request still in flight would let another one in.  *)
(***************************************************************************)
InFlightWithinLimit ==
  \A o \in Origins : Cardinality(OnOrigin(InFlight, o)) <= MaxConcurrent

(***************************************************************************)
(* The inductive invariant behind the properties above and below.          *)
(***************************************************************************)

\* A pending storage call works with a time at most Latency old.
CallsFresh ==
  \A r \in Requests :
    pc[r] \in Calling => readAt[r] <= clock /\ clock <= readAt[r] + Latency

\* The lease of a request in flight is there, and will be at the next renewal.
PermitsLive ==
  \A r \in Requests :
    /\ pc[r] = "requesting" =>
         /\ r \in leases
         /\ expiresAt[r] > clock + Latency
         /\ expiresAt[r] > timer[r] + Latency
    /\ pc[r] = "renewing" =>
         /\ r \in leases
         /\ expiresAt[r] > readAt[r] + Latency
         /\ timer[r] = readAt[r] + RenewEvery

LeasesWithinLimit ==
  \A o \in Origins : Cardinality(OnOrigin(leases, o)) <= MaxConcurrent

\* A Retry-After that has not passed is still in the budget row.
RetryAfterKept ==
  \A o \in Origins : notBefore[o] <= clock \/ notBefore[o] <= blockedUntil[o]

IInv == CallsFresh /\ PermitsLive /\ LeasesWithinLimit /\ RetryAfterKept

(***************************************************************************)
(* A permit is never granted on an origin before the latest Retry-After    *)
(* that defer_origin recorded for it has passed, although acquirers write  *)
(* blocked_until_ms as NULL.                                               *)
(***************************************************************************)
RetryAfterHonoured ==
  [][\A r \in Requests :
       pc[r] = "acquiring" /\ pc'[r] = "requesting"
         => clock >= notBefore[OriginOf[r]]]_vars

(***************************************************************************)
(* The requests, leases and timers implement the pool of permits: a lease  *)
(* is only ever deleted once its request has stopped talking to the        *)
(* origin, whoever deletes it (the request, another acquirer, maintenance).*)
(***************************************************************************)
Pool == INSTANCE PermitPool WITH held <- leases, working <- InFlight

ImplementsPermitPool == Pool!PoolSpec

(***************************************************************************)
(* The token bucket: up to any moment an origin has granted at most burst  *)
(* permits plus what requests_per_second gives for the time that passed.   *)
(***************************************************************************)
GrantsWithinBudget ==
  \A o \in Origins : grants[o] * Unit <= Burst * Unit + Rate * clock

\* Why: granted and unspent tokens never exceed what the refills added.
BudgetInv ==
  \A o \in Origins :
    /\ lastRefill[o] <= clock
    /\ grants[o] * Unit + tokens[o] <= Burst * Unit + Rate * lastRefill[o]

(***************************************************************************)
(* request() returns: no wait for a permit, renewal, deferral or release   *)
(* keeps a caller forever, so there is always a time again when no request *)
(* is under way.                                                           *)
(***************************************************************************)
EveryRequestReturns == []<>(\A r \in Requests : pc[r] \in {"idle", "done"})

(***************************************************************************)
(* A permit is never lost for good: the table of leases is always emptied  *)
(* again, also of those of cancelled requests and of failed releases.      *)
(***************************************************************************)
LeaseReclaimed == []<>(leases = {})
============================================================================
