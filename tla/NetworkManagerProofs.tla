------------------------ MODULE NetworkManagerProofs ------------------------
(***************************************************************************)
(* Proofs about NetworkManager for every number of requests, origins and   *)
(* permits, every lease, latency and timeout.                              *)
(***************************************************************************)
EXTENDS NetworkManager, TLAPS, FiniteSetTheorems

(***************************************************************************)
(* Arithmetic of the token bucket: refill_tokens stays within the burst,   *)
(* and a wait for a token is a natural number of ticks.                    *)
(***************************************************************************)
LEMMA RefillType ==
  ASSUME StoreTypeOK, NEW o \in Origins, NEW now \in Nat
  PROVE  RefillTokens(o, now) \in 0..(Burst * Unit)
<1>1. Burst * Unit \in Nat
  BY PolicyAssumption
<1>2. tokens[o] \in 0..(Burst * Unit) /\ lastRefill[o] \in Nat
  BY DEF StoreTypeOK
<1> DEFINE elapsed == Larger(now - lastRefill[o], 0)
<1>3. elapsed \in Nat
  BY <1>2 DEF Larger
<1>4. elapsed * Rate \in Nat
  <2> HIDE DEF elapsed
  <2> QED BY <1>3, PolicyAssumption
<1> QED
  <2> DEFINE added == elapsed * Rate
  <2>1. RefillTokens(o, now) = Smaller(tokens[o] + added, Burst * Unit)
    BY DEF RefillTokens
  <2> HIDE DEF added, elapsed
  <2>2. added \in Nat
    BY <1>4 DEF added
  <2> QED BY <1>1, <1>2, <2>1, <2>2 DEF Smaller

\* token_retry_after of a bucket that lacks a token is a delay.
LEMMA RetryAfterType ==
  ASSUME NEW units \in Nat, units < Unit
  PROVE  TokenRetryAfter(units) \in Nat
<1> DEFINE missing == (Unit - units) + Rate - 1
<1>1. missing \in Nat /\ Rate \in Nat \ {0}
  BY PolicyAssumption
<1>2. missing \div Rate \in Nat
  <2> HIDE DEF missing
  <2> QED BY <1>1
<1> QED
  BY <1>2 DEF TokenRetryAfter

\* Half a lease is a whole number of ticks.
LEMMA RenewEveryType == RenewEvery \in Nat
  BY PolicyAssumption DEF RenewEvery

----------------------------------------------------------------------------
(* Type correctness.                                                       *)

\* The statements on the tables keep the types of the rows.
LEMMA KeepLeasesType ==
  ASSUME StoreTypeOK, NEW rows \in SUBSET leases, KeepLeases(rows)
  PROVE  leases' \subseteq Requests /\ expiresAt' \in [Requests -> Nat]
BY DEF KeepLeases, StoreTypeOK

\* UPSERT_BUDGET with an admissible bucket keeps the types.
LEMMA UpsertType ==
  ASSUME StoreTypeOK, NEW o \in Origins, NEW now \in Nat,
         NEW units \in 0..(Burst * Unit), UpsertBudget(o, units, now)
  PROVE  /\ tokens' \in [Origins -> 0..(Burst * Unit)]
         /\ lastRefill' \in [Origins -> Nat]
         /\ blockedUntil' \in [Origins -> Nat]
BY DEF UpsertBudget, StoreTypeOK

\* A refused permit leaves the tables well typed, whichever limit refused it.
LEMMA RefusedStoreType ==
  ASSUME StoreTypeOK, NEW o \in Origins, NEW now \in Nat,
         \/ AcquireConcurrencyLimited(o, now)
         \/ AcquireBlocked(o, now)
         \/ AcquireOutOfTokens(o, now)
  PROVE  StoreTypeOK'
<1>1. Live(now) \in SUBSET leases
  BY DEF Live
<1>2. leases' \subseteq Requests /\ expiresAt' \in [Requests -> Nat]
  BY <1>1, KeepLeasesType
     DEF AcquireConcurrencyLimited, AcquireBlocked, AcquireOutOfTokens
<1>3. CASE AcquireConcurrencyLimited(o, now) \/ AcquireBlocked(o, now)
  BY <1>2, <1>3
     DEF AcquireConcurrencyLimited, AcquireBlocked, budgetVars, StoreTypeOK
<1>4. CASE AcquireOutOfTokens(o, now)
  <2>1. UpsertBudget(o, RefillTokens(o, now), now)
    BY <1>4 DEF AcquireOutOfTokens
  <2>2. RefillTokens(o, now) \in 0..(Burst * Unit)
    BY RefillType
  <2> QED
    BY <1>2, <2>1, <2>2, UpsertType DEF StoreTypeOK
<1> QED
  BY <1>3, <1>4

\* A granted permit keeps the types of the store.
LEMMA GrantedStoreType ==
  ASSUME StoreTypeOK, NEW r \in Requests, NEW now \in Nat,
         AcquireGranted(r, now)
  PROVE  StoreTypeOK'
<1> DEFINE o == OriginOf[r]
<1>1. o \in Origins
  BY RequestsAssumption
<1>2. RefillTokens(o, now) \in 0..(Burst * Unit)
  BY <1>1, RefillType
<1>3. RefillTokens(o, now) - Unit \in 0..(Burst * Unit)
  <2>1. RefillTokens(o, now) >= Unit
    BY DEF AcquireGranted
  <2>2. Burst * Unit \in Nat /\ Unit \in Nat
    BY PolicyAssumption
  <2> QED BY <1>2, <2>1, <2>2
<1>4. UpsertBudget(o, RefillTokens(o, now) - Unit, now)
  BY DEF AcquireGranted
<1>5. /\ tokens' \in [Origins -> 0..(Burst * Unit)]
      /\ lastRefill' \in [Origins -> Nat]
      /\ blockedUntil' \in [Origins -> Nat]
  BY <1>1, <1>3, <1>4, UpsertType
<1>6. leases' \subseteq Requests /\ expiresAt' \in [Requests -> Nat]
  BY PolicyAssumption DEF AcquireGranted, Live, StoreTypeOK
<1> QED
  BY <1>5, <1>6 DEF StoreTypeOK

\* Sleeping or giving up keeps the types of the request.
LEMMA WaitType ==
  ASSUME TypeOK, NEW r \in Requests, NEW retryAfter \in Nat,
         WaitOrExpire(r, retryAfter)
  PROVE  /\ pc' \in [Requests -> Phases]
         /\ readAt' \in [Requests -> Nat]
         /\ timer' \in [Requests -> Nat]
         /\ deadline' \in [Requests -> Nat]
         /\ result' \in [Requests -> Results]
<1>1. CASE clock >= deadline[r] /\ Return(r, "queue_expired")
  BY <1>1 DEF Return, TypeOK, Phases, Results
<1>2. CASE clock < deadline[r] /\ ~Return(r, "queue_expired")
  <2>1. clock + Smaller(retryAfter, deadline[r] - clock) \in Nat
    BY <1>2 DEF TypeOK, Smaller
  <2> QED
    BY <1>2, <2>1 DEF WaitOrExpire, TypeOK, Phases
<1>3. CASE clock < deadline[r] /\ Return(r, "queue_expired")
  BY <1>3 DEF Return, TypeOK, Phases, Results
<1> QED
  BY <1>1, <1>2, <1>3 DEF WaitOrExpire, TypeOK

\* Every step keeps the types.
LEMMA TypeStep == TypeOK /\ [Next]_vars => TypeOK'
<1> SUFFICES ASSUME TypeOK, [Next]_vars PROVE TypeOK'
  OBVIOUS
<1> USE DEF Phases, Results
<1>1. ASSUME NEW r \in Requests, Start(r) PROVE TypeOK'
  BY <1>1, TimeAssumption
     DEF Start, Call, TypeOK, StoreTypeOK, storeVars, historyVars
<1>2. ASSUME NEW r \in Requests, AcquireRefused(r) PROVE TypeOK'
  <2> DEFINE o == OriginOf[r]
             now == readAt[r]
  <2>1. o \in Origins /\ now \in Nat /\ StoreTypeOK
    BY RequestsAssumption DEF TypeOK
  <2>2. StoreTypeOK'
    BY <1>2, <2>1, RefusedStoreType DEF AcquireRefused
  <2>3. PICK d \in Nat : WaitOrExpire(r, d)
    <3>1. CASE AcquireConcurrencyLimited(o, now) /\ WaitOrExpire(r, BusyRetry)
      BY <3>1, TimeAssumption
    <3>2. CASE /\ AcquireBlocked(o, now)
               /\ WaitOrExpire(r, blockedUntil[o] - now)
      <4>1. blockedUntil[o] - now \in Nat
        BY <2>1, <3>2 DEF AcquireBlocked, Blocked, StoreTypeOK
      <4> QED BY <3>2, <4>1
    <3>3. CASE /\ AcquireOutOfTokens(o, now)
               /\ WaitOrExpire(r, TokenRetryAfter(RefillTokens(o, now)))
      <4>1. RefillTokens(o, now) \in 0..(Burst * Unit)
        BY <2>1, RefillType
      <4>2. RefillTokens(o, now) \in Nat /\ RefillTokens(o, now) < Unit
        BY <3>3, <4>1, PolicyAssumption DEF AcquireOutOfTokens
      <4> QED BY <3>3, <4>2, RetryAfterType
    <3> QED BY <1>2, <3>1, <3>2, <3>3 DEF AcquireRefused
  <2> QED
    BY <1>2, <2>2, <2>3, WaitType DEF AcquireRefused, historyVars, TypeOK
<1>3. ASSUME NEW r \in Requests, Acquire(r) PROVE TypeOK'
  <2>1. StoreTypeOK'
    BY <1>3, GrantedStoreType DEF Acquire, TypeOK
  <2>2. OriginOf[r] \in Origins
    BY RequestsAssumption
  <2>3. grants' \in [Origins -> Nat]
    BY <1>3, <2>2 DEF Acquire, TypeOK
  <2>4. /\ pc' \in [Requests -> Phases]
        /\ timer' \in [Requests -> Nat]
        /\ deadline' \in [Requests -> Nat]
        /\ readAt' \in [Requests -> Nat]
    BY <1>3, TimeAssumption, RenewEveryType DEF Acquire, TypeOK
  <2> QED
    BY <1>3, <2>1, <2>3, <2>4 DEF Acquire, TypeOK
<1>4. ASSUME NEW r \in Requests,
             AcquireFails(r) \/ ReleaseFails(r) \/ Cancel(r)
      PROVE TypeOK'
  BY <1>4 DEF AcquireFails, ReleaseFails, Cancel, Return, TypeOK, StoreTypeOK,
              storeVars, historyVars
<1>5. ASSUME NEW r \in Requests, Wake(r) \/ RenewalDue(r) PROVE TypeOK'
  BY <1>5, RenewEveryType
     DEF Wake, RenewalDue, Call, TypeOK, StoreTypeOK, storeVars, historyVars
<1>6. ASSUME NEW r \in Requests, Renew(r) PROVE TypeOK'
  BY <1>6, PolicyAssumption
     DEF Renew, RenewOrigin, TypeOK, StoreTypeOK, budgetVars, historyVars
<1>7. ASSUME NEW r \in Requests,
             \/ RenewFails(r) \/ RequestEnds(r)
             \/ RequestThrottled(r) \/ DeferFails(r)
      PROVE TypeOK'
  BY <1>7 DEF RenewFails, RequestEnds, RequestThrottled, DeferFails, Call,
              TypeOK, StoreTypeOK, storeVars, historyVars
<1>8. ASSUME NEW r \in Requests, Defer(r) PROVE TypeOK'
  <2>1. PICK delay \in RetryAfters :
          /\ DeferOrigin(OriginOf[r], readAt[r], delay)
          /\ notBefore' = [notBefore EXCEPT
                             ![OriginOf[r]] = Larger(@, readAt[r] + delay)]
    BY <1>8 DEF Defer
  <2>2. delay \in Nat /\ OriginOf[r] \in Origins /\ readAt[r] \in Nat
    BY TimeAssumption, RequestsAssumption DEF TypeOK
  <2>3. 0 \in 0..(Burst * Unit)
    BY PolicyAssumption
  <2>4. StoreTypeOK'
    BY <2>1, <2>2, <2>3
       DEF DeferOrigin, Larger, TypeOK, StoreTypeOK, leaseVars
  <2>5. notBefore' \in [Origins -> Nat]
    BY <2>1, <2>2 DEF Larger, TypeOK
  <2> QED
    BY <1>8, <2>4, <2>5 DEF Defer, Call, TypeOK
<1>9. ASSUME NEW r \in Requests, Release(r) PROVE TypeOK'
  <2>1. StoreTypeOK'
    BY <1>9, KeepLeasesType
       DEF Release, ReleaseOrigin, budgetVars, TypeOK, StoreTypeOK
  <2> QED
    BY <1>9, <2>1 DEF Release, Return, TypeOK, historyVars
<1>10. ASSUME Maintain PROVE TypeOK'
  <2>1. PICK now \in 0..clock : MaintenanceOrigins(now)
    BY <1>10 DEF Maintain
  <2>2. StoreTypeOK'
    BY <2>1, KeepLeasesType
       DEF MaintenanceOrigins, Live, budgetVars, TypeOK, StoreTypeOK
  <2> QED
    BY <1>10, <2>2 DEF Maintain, TypeOK, requestVars, historyVars
<1>11. CASE Tick
  BY <1>11 DEF Tick, TypeOK, StoreTypeOK, storeVars, requestVars, historyVars
<1>12. CASE UNCHANGED vars
  BY <1>12 DEF vars, TypeOK, StoreTypeOK, storeVars, requestVars, historyVars
<1> QED
  BY <1>1, <1>2, <1>3, <1>4, <1>5, <1>6, <1>7, <1>8, <1>9, <1>10, <1>11, <1>12
     DEF Next, RequestStep

\* The initial state is typed.
LEMMA TypeInit == Init => TypeOK
<1>1. Burst * Unit \in Nat
  BY PolicyAssumption
<1> QED
  BY <1>1 DEF Init, StoreInit, TypeOK, StoreTypeOK, Phases, Results

(***************************************************************************)
(* Every reachable state is well typed: in particular the token bucket     *)
(* stays between empty and the burst and no timer is set in the past of    *)
(* time zero.                                                              *)
(***************************************************************************)
THEOREM TypeCorrect == Spec => []TypeOK
  BY TypeInit, TypeStep, PTL DEF Spec

----------------------------------------------------------------------------
(* The inductive invariant.                                                *)

(***************************************************************************)
(* A deletion of expired leases with any admissible `now` spares the       *)
(* leases of the requests in flight.                                       *)
(***************************************************************************)
LEMMA InFlightLive ==
  ASSUME TypeOK, CallsFresh, PermitsLive, NEW now \in Nat, now <= clock,
         NEW q \in InFlight
  PROVE  q \in Live(now)
<1>1. q \in Requests /\ pc[q] \in {"requesting", "renewing"}
  BY DEF InFlight
<1>2. clock \in Nat /\ readAt[q] \in Nat /\ expiresAt[q] \in Nat
  BY <1>1 DEF TypeOK, StoreTypeOK
<1>3. CASE pc[q] = "requesting"
  BY <1>1, <1>2, <1>3, TimeAssumption DEF PermitsLive, Live
<1>4. CASE pc[q] = "renewing"
  BY <1>1, <1>2, <1>4, TimeAssumption DEF PermitsLive, CallsFresh, Calling, Live
<1> QED BY <1>1, <1>3, <1>4

\* Deleting rows keeps an origin within its limit.
LEMMA FewerLeases ==
  ASSUME TypeOK, LeasesWithinLimit, NEW rows \in SUBSET leases, NEW o \in Origins
  PROVE  /\ IsFiniteSet(OnOrigin(rows, o))
         /\ Cardinality(OnOrigin(rows, o)) \in Nat
         /\ Cardinality(OnOrigin(rows, o)) <= MaxConcurrent
<1>1. OnOrigin(leases, o) \subseteq Requests
  BY DEF TypeOK, StoreTypeOK, OnOrigin
<1>2. IsFiniteSet(OnOrigin(leases, o))
  BY <1>1, FS_Subset, RequestsAssumption
<1>3. OnOrigin(rows, o) \subseteq OnOrigin(leases, o)
  BY DEF OnOrigin
<1>4. /\ IsFiniteSet(OnOrigin(rows, o))
      /\ Cardinality(OnOrigin(rows, o)) <= Cardinality(OnOrigin(leases, o))
  BY <1>2, <1>3, FS_Subset
<1>5. /\ Cardinality(OnOrigin(rows, o)) \in Nat
      /\ Cardinality(OnOrigin(leases, o)) \in Nat
  BY <1>2, <1>4, FS_CardinalityType
<1>6. Cardinality(OnOrigin(leases, o)) <= MaxConcurrent
  BY DEF LeasesWithinLimit
<1> QED BY <1>4, <1>5, <1>6, PolicyAssumption

\* What a refused permit changes: expired leases go, the request waits or ends.
LEMMA RefusedEffect ==
  ASSUME NEW r \in Requests, AcquireRefused(r)
  PROVE  /\ KeepLeases(Live(readAt[r]))
         /\ \E p \in {"sleeping", "done"} : pc' = [pc EXCEPT ![r] = p]
         /\ readAt' = [readAt EXCEPT ![r] = 0]
         /\ \E t : timer' = [timer EXCEPT ![r] = t]
         /\ UNCHANGED <<clock, grants, notBefore>>
<1>1. PICK d : WaitOrExpire(r, d)
  BY DEF AcquireRefused
<1>2. /\ \E p \in {"sleeping", "done"} : pc' = [pc EXCEPT ![r] = p]
      /\ readAt' = [readAt EXCEPT ![r] = 0]
      /\ \E t : timer' = [timer EXCEPT ![r] = t]
  BY <1>1 DEF WaitOrExpire, Return
<1> QED
  BY <1>2 DEF AcquireRefused, AcquireConcurrencyLimited, AcquireBlocked,
              AcquireOutOfTokens, historyVars

\* Every storage call is younger than Latency: Tick waits for the old ones.
LEMMA CallsFreshStep ==
  ASSUME TypeOK, CallsFresh, [Next]_vars PROVE CallsFresh'
<1> USE DEF Calling
<1>1. ASSUME NEW r \in Requests,
             \/ Start(r) \/ Wake(r) \/ RenewalDue(r) \/ RenewFails(r)
             \/ RequestEnds(r) \/ RequestThrottled(r) \/ Defer(r) \/ DeferFails(r)
      PROVE CallsFresh'
  BY <1>1, TimeAssumption
     DEF Start, Wake, RenewalDue, RenewFails, RequestEnds, RequestThrottled,
         Defer, DeferFails, Call, CallsFresh, TypeOK
<1>2. ASSUME NEW r \in Requests, AcquireRefused(r) PROVE CallsFresh'
  BY <1>2, RefusedEffect DEF CallsFresh, TypeOK
<1>3. ASSUME NEW r \in Requests,
             \/ Acquire(r) \/ AcquireFails(r) \/ Renew(r)
             \/ Release(r) \/ ReleaseFails(r) \/ Cancel(r)
      PROVE CallsFresh'
  BY <1>3 DEF Acquire, AcquireFails, Renew, Release, ReleaseFails, Cancel,
              Return, CallsFresh, TypeOK
<1>4. CASE Tick
  BY <1>4, TimeAssumption DEF Tick, requestVars, CallsFresh, TypeOK
<1>5. CASE Maintain
  BY <1>5 DEF Maintain, requestVars, CallsFresh
<1>6. CASE UNCHANGED vars
  BY <1>6 DEF vars, requestVars, CallsFresh
<1> QED
  BY <1>1, <1>2, <1>3, <1>4, <1>5, <1>6 DEF Next, RequestStep

(***************************************************************************)
(* The lease of a request in flight survives every step of everyone else   *)
(* and is renewed in time by its own.                                      *)
(***************************************************************************)
LEMMA PermitsLiveStep ==
  ASSUME LeaseOutlivesRenewal, TypeOK, CallsFresh, PermitsLive, [Next]_vars
  PROVE  PermitsLive'
<1> USE TimeAssumption, PolicyAssumption, RenewEveryType DEF Calling
<1>1. ASSUME NEW r \in Requests,
             \/ Start(r) \/ Wake(r) \/ AcquireFails(r) \/ RenewFails(r)
             \/ RequestEnds(r) \/ RequestThrottled(r) \/ DeferFails(r)
             \/ ReleaseFails(r) \/ Cancel(r)
      PROVE PermitsLive'
  BY <1>1 DEF Start, Wake, AcquireFails, RenewFails, RequestEnds,
              RequestThrottled, DeferFails, ReleaseFails, Cancel, Call, Return,
              storeVars, PermitsLive, TypeOK
<1>2. ASSUME NEW r \in Requests, Defer(r) PROVE PermitsLive'
  BY <1>2 DEF Defer, DeferOrigin, Call, leaseVars, PermitsLive, TypeOK
<1>3. ASSUME NEW r \in Requests, AcquireRefused(r) PROVE PermitsLive'
  <2>1. readAt[r] \in Nat /\ readAt[r] <= clock
    BY <1>3 DEF AcquireRefused, CallsFresh, TypeOK
  <2>2. \A q \in InFlight : q \in Live(readAt[r])
    BY <2>1, InFlightLive
  <2> QED
    BY <1>3, <2>2, RefusedEffect DEF KeepLeases, InFlight, PermitsLive, TypeOK
<1>4. ASSUME NEW r \in Requests, Acquire(r) PROVE PermitsLive'
  <2>1. readAt[r] \in Nat /\ readAt[r] <= clock /\ clock <= readAt[r] + Latency
    BY <1>4 DEF Acquire, CallsFresh, TypeOK
  <2>2. \A q \in InFlight : q \in Live(readAt[r])
    BY <2>1, InFlightLive
  <2>3. /\ pc' = [pc EXCEPT ![r] = "requesting"]
        /\ readAt' = [readAt EXCEPT ![r] = 0]
        /\ timer' = [timer EXCEPT ![r] = clock + RenewEvery]
        /\ leases' = Live(readAt[r]) \cup {r}
        /\ expiresAt' = [l \in Requests |->
                            IF l = r THEN readAt[r] + LeaseDuration
                            ELSE IF l \in Live(readAt[r])
                                 THEN expiresAt[l] ELSE 0]
        /\ clock' = clock
    BY <1>4 DEF Acquire, AcquireGranted
  <2>4. ASSUME NEW q \in Requests, q # r PROVE PermitsLive!(q)'
    BY <2>2, <2>3, <2>4 DEF InFlight, PermitsLive, TypeOK
  <2>5. PermitsLive!(r)'
    BY <2>1, <2>3 DEF LeaseOutlivesRenewal, TypeOK
  <2> QED
    BY <2>4, <2>5 DEF PermitsLive
<1>5. ASSUME NEW r \in Requests, RenewalDue(r) PROVE PermitsLive'
  BY <1>5 DEF RenewalDue, Call, storeVars, PermitsLive, TypeOK, StoreTypeOK
<1>6. ASSUME NEW r \in Requests, Renew(r) PROVE PermitsLive'
  <2>1. readAt[r] \in Nat /\ readAt[r] <= clock /\ clock <= readAt[r] + Latency
    BY <1>6 DEF Renew, CallsFresh, TypeOK
  <2>2. timer[r] = readAt[r] + RenewEvery
    BY <1>6 DEF Renew, PermitsLive
  <2> QED
    BY <1>6, <2>1, <2>2
       DEF Renew, RenewOrigin, LeaseOutlivesRenewal, PermitsLive, TypeOK,
           StoreTypeOK
<1>7. ASSUME NEW r \in Requests, Release(r) PROVE PermitsLive'
  BY <1>7 DEF Release, ReleaseOrigin, KeepLeases, Return, PermitsLive, TypeOK
<1>8. CASE Maintain
  <2>1. PICK now \in 0..clock : MaintenanceOrigins(now)
    BY <1>8 DEF Maintain
  <2>2. \A q \in InFlight : q \in Live(now)
    BY <2>1, InFlightLive DEF TypeOK
  <2> QED
    BY <1>8, <2>1, <2>2 DEF Maintain, MaintenanceOrigins, KeepLeases,
       requestVars, InFlight, PermitsLive, TypeOK
<1>9. CASE Tick
  BY <1>9 DEF Tick, storeVars, requestVars, PermitsLive, TypeOK, StoreTypeOK
<1>10. CASE UNCHANGED vars
  BY <1>10 DEF vars, storeVars, requestVars, PermitsLive
<1> QED
  BY <1>1, <1>2, <1>3, <1>4, <1>5, <1>6, <1>7, <1>8, <1>9, <1>10
     DEF Next, RequestStep

(***************************************************************************)
(* How a step changes the lease rows: it deletes some, or it deletes some  *)
(* and inserts the row of a request whose origin was below the limit.      *)
(***************************************************************************)
LEMMA LeaseRows ==
  ASSUME TypeOK, [Next]_vars
  PROVE  \/ leases' \in SUBSET leases
         \/ \E r \in Requests, now \in Nat :
              /\ leases' = Live(now) \cup {r}
              /\ ~AtLimit(OriginOf[r], now)
<1>1. ASSUME NEW r \in Requests, Acquire(r)
      PROVE \E now \in Nat : /\ leases' = Live(now) \cup {r}
                            /\ ~AtLimit(OriginOf[r], now)
  BY <1>1 DEF Acquire, AcquireGranted, TypeOK
<1>2. ASSUME NEW r \in Requests, AcquireRefused(r)
      PROVE leases' \in SUBSET leases
  BY <1>2, RefusedEffect DEF KeepLeases, Live
<1>3. ASSUME NEW r \in Requests,
             \/ Start(r) \/ AcquireFails(r) \/ Wake(r) \/ RenewalDue(r)
             \/ Renew(r) \/ RenewFails(r) \/ RequestEnds(r)
             \/ RequestThrottled(r) \/ Defer(r) \/ DeferFails(r)
             \/ Release(r) \/ ReleaseFails(r) \/ Cancel(r)
      PROVE leases' \in SUBSET leases
  BY <1>3 DEF Start, AcquireFails, Wake, RenewalDue, Renew, RenewOrigin,
              RenewFails, RequestEnds, RequestThrottled, Defer, DeferOrigin,
              DeferFails, Release, ReleaseOrigin, KeepLeases, ReleaseFails,
              Cancel, storeVars, leaseVars
<1>4. CASE Maintain \/ Tick \/ UNCHANGED vars
  BY <1>4 DEF Maintain, MaintenanceOrigins, KeepLeases, Live, Tick, vars,
              storeVars
<1> QED
  BY <1>1, <1>2, <1>3, <1>4 DEF Next, RequestStep

\* No step leaves an origin with more leases than max_concurrent.
LEMMA LeasesStep ==
  ASSUME TypeOK, LeasesWithinLimit, [Next]_vars PROVE LeasesWithinLimit'
<1> SUFFICES ASSUME NEW o \in Origins
             PROVE  Cardinality(OnOrigin(leases', o)) <= MaxConcurrent
  BY DEF LeasesWithinLimit, OnOrigin
<1>1. CASE leases' \in SUBSET leases
  BY <1>1, FewerLeases
<1>2. CASE \E r \in Requests, now \in Nat :
             leases' = Live(now) \cup {r} /\ ~AtLimit(OriginOf[r], now)
  <2>1. PICK r \in Requests, now \in Nat :
               leases' = Live(now) \cup {r} /\ ~AtLimit(OriginOf[r], now)
    BY <1>2
  <2> DEFINE old == OnOrigin(Live(now), o)
  <2>2. Live(now) \in SUBSET leases
    BY DEF Live
  <2>3. /\ IsFiniteSet(old)
        /\ Cardinality(old) \in Nat
        /\ Cardinality(old) <= MaxConcurrent
    BY <2>2, FewerLeases
  <2>4. CASE o # OriginOf[r]
    <3>1. OnOrigin(leases', o) = old
      BY <2>1, <2>4 DEF OnOrigin
    <3> QED BY <2>3, <3>1
  <2>5. CASE o = OriginOf[r]
    <3>1. OnOrigin(leases', o) = old \cup {r}
      BY <2>1, <2>5 DEF OnOrigin
    <3>2. Cardinality(old) < MaxConcurrent
      BY <2>1, <2>3, <2>5, PolicyAssumption DEF AtLimit
    <3>3. /\ Cardinality(old \cup {r}) \in Nat
          /\ Cardinality(old \cup {r}) <= Cardinality(old) + 1
      <4> HIDE DEF old
      <4>1. /\ IsFiniteSet(old \cup {r})
            /\ Cardinality(old \cup {r}) = IF r \in old THEN Cardinality(old)
                                           ELSE Cardinality(old) + 1
        BY <2>3, FS_AddElement
      <4> QED BY <2>3, <4>1, FS_CardinalityType
    <3> QED BY <2>3, <3>1, <3>2, <3>3, PolicyAssumption
  <2> QED BY <2>4, <2>5
<1> QED BY <1>1, <1>2, LeaseRows

\* No step loses a Retry-After that has not passed.
LEMMA RetryAfterStep ==
  ASSUME TypeOK, CallsFresh, RetryAfterKept, [Next]_vars PROVE RetryAfterKept'
<1> USE DEF Calling
<1>1. ASSUME NEW r \in Requests,
             \/ Start(r) \/ AcquireFails(r) \/ Wake(r) \/ RenewalDue(r)
             \/ Renew(r) \/ RenewFails(r) \/ RequestEnds(r)
             \/ RequestThrottled(r) \/ DeferFails(r)
             \/ Release(r) \/ ReleaseFails(r) \/ Cancel(r)
      PROVE RetryAfterKept'
  BY <1>1 DEF Start, AcquireFails, Wake, RenewalDue, Renew, RenewOrigin,
              RenewFails, RequestEnds, RequestThrottled, DeferFails, Release,
              ReleaseOrigin, ReleaseFails, Cancel, storeVars, budgetVars,
              historyVars, RetryAfterKept
<1>2. ASSUME NEW r \in Requests, NEW units, NEW now \in Nat,
             now <= clock, ~Blocked(OriginOf[r], now),
             UpsertBudget(OriginOf[r], units, now), UNCHANGED <<clock, notBefore>>
      PROVE RetryAfterKept'
  BY <1>2, RequestsAssumption
     DEF Blocked, UpsertBudget, RetryAfterKept, TypeOK, StoreTypeOK
<1>3. ASSUME NEW r \in Requests, AcquireRefused(r) PROVE RetryAfterKept'
  <2>1. readAt[r] \in Nat /\ readAt[r] <= clock
    BY <1>3 DEF AcquireRefused, CallsFresh, TypeOK
  <2>2. UNCHANGED <<clock, notBefore>>
    BY <1>3 DEF AcquireRefused, historyVars
  <2>3. CASE AcquireOutOfTokens(OriginOf[r], readAt[r])
    BY <1>2, <2>1, <2>2, <2>3 DEF AcquireOutOfTokens
  <2>4. CASE UNCHANGED budgetVars
    BY <2>2, <2>4 DEF budgetVars, RetryAfterKept
  <2> QED
    BY <1>3, <2>3, <2>4
       DEF AcquireRefused, AcquireConcurrencyLimited, AcquireBlocked
<1>4. ASSUME NEW r \in Requests, Acquire(r) PROVE RetryAfterKept'
  <2>1. readAt[r] \in Nat /\ readAt[r] <= clock
    BY <1>4 DEF Acquire, CallsFresh, TypeOK
  <2> QED
    BY <1>2, <1>4, <2>1 DEF Acquire, AcquireGranted
<1>5. ASSUME NEW r \in Requests, Defer(r) PROVE RetryAfterKept'
  <2>1. PICK delay \in RetryAfters :
          /\ DeferOrigin(OriginOf[r], readAt[r], delay)
          /\ notBefore' = [notBefore EXCEPT
                             ![OriginOf[r]] = Larger(@, readAt[r] + delay)]
    BY <1>5 DEF Defer
  <2>2. delay \in Nat /\ readAt[r] \in Nat /\ OriginOf[r] \in Origins
    BY TimeAssumption, RequestsAssumption DEF TypeOK
  <2>3. clock' = clock
    BY <1>5 DEF Defer
  <2> QED
    BY <2>1, <2>2, <2>3
       DEF DeferOrigin, Larger, RetryAfterKept, TypeOK, StoreTypeOK
<1>6. CASE Maintain
  BY <1>6 DEF Maintain, MaintenanceOrigins, budgetVars, historyVars,
              RetryAfterKept
<1>7. CASE Tick
  BY <1>7 DEF Tick, storeVars, historyVars, RetryAfterKept, TypeOK
<1>8. CASE UNCHANGED vars
  BY <1>8 DEF vars, storeVars, historyVars, RetryAfterKept
<1> QED
  BY <1>1, <1>3, <1>4, <1>5, <1>6, <1>7, <1>8 DEF Next, RequestStep

\* The inductive invariant holds initially.
LEMMA IInvInit == Init => IInv
<1> SUFFICES ASSUME Init PROVE IInv
  OBVIOUS
<1>1. CallsFresh /\ PermitsLive /\ RetryAfterKept
  BY DEF Init, CallsFresh, PermitsLive, RetryAfterKept, Calling
<1>2. LeasesWithinLimit
  <2>1. \A o \in Origins : OnOrigin(leases, o) = {}
    BY DEF Init, StoreInit, OnOrigin
  <2> QED
    BY <2>1, FS_EmptySet, PolicyAssumption DEF LeasesWithinLimit
<1> QED BY <1>1, <1>2 DEF IInv

\* Every step keeps the inductive invariant.
LEMMA IInvStep ==
  ASSUME LeaseOutlivesRenewal
  PROVE  TypeOK /\ IInv /\ [Next]_vars => IInv'
BY CallsFreshStep, PermitsLiveStep, LeasesStep, RetryAfterStep DEF IInv

(***************************************************************************)
(* The inductive invariant holds for every instance in which a lease       *)
(* outlives its renewal.                                                   *)
(***************************************************************************)
THEOREM Invariance ==
  ASSUME LeaseOutlivesRenewal
  PROVE  Spec => []IInv
<1>1. TypeOK /\ IInv /\ [Next]_vars => IInv'
  BY IInvStep
<1> QED
  BY <1>1, IInvInit, TypeCorrect, PTL DEF Spec

(***************************************************************************)
(* max_concurrent is a bound on the requests in flight, not just on lease  *)
(* rows, whatever is cancelled, lost, delayed or slow, as long as a lease  *)
(* outlives its renewal.                                                   *)
(***************************************************************************)
THEOREM ConcurrencyLimit ==
  ASSUME LeaseOutlivesRenewal
  PROVE  Spec => []InFlightWithinLimit
<1>1. TypeOK /\ IInv => InFlightWithinLimit
  <2> SUFFICES ASSUME TypeOK, IInv, NEW o \in Origins
               PROVE  Cardinality(OnOrigin(InFlight, o)) <= MaxConcurrent
    BY DEF InFlightWithinLimit
  <2>1. InFlight \in SUBSET leases
    BY DEF IInv, PermitsLive, InFlight
  <2> QED
    BY <2>1, FewerLeases DEF IInv
<1> QED
  BY <1>1, Invariance, TypeCorrect, PTL

(***************************************************************************)
(* A Retry-After is honoured by every replica, for every Retry-After and   *)
(* every interleaving of deferrals with acquisitions.  Only the freshness  *)
(* of the calls is needed, not the length of the lease.                    *)
(***************************************************************************)
THEOREM RetryAfter == Spec => RetryAfterHonoured
<1>1. Init => CallsFresh /\ RetryAfterKept
  BY DEF Init, CallsFresh, RetryAfterKept, Calling
<1>2. TypeOK /\ CallsFresh /\ RetryAfterKept /\ [Next]_vars
        => CallsFresh' /\ RetryAfterKept'
  BY CallsFreshStep, RetryAfterStep
<1>3. TypeOK /\ CallsFresh /\ RetryAfterKept /\ [Next]_vars
        => [\A r \in Requests :
              pc[r] = "acquiring" /\ pc'[r] = "requesting"
                => clock >= notBefore[OriginOf[r]]]_vars
  <2> SUFFICES ASSUME TypeOK, CallsFresh, RetryAfterKept, Next,
                      NEW r \in Requests,
                      pc[r] = "acquiring", pc'[r] = "requesting"
               PROVE  clock >= notBefore[OriginOf[r]]
    OBVIOUS
  <2>1. Acquire(r)
    <3>1. \A q \in Requests : AcquireRefused(q) => pc'[r] # "requesting"
      BY RefusedEffect DEF TypeOK
    <3>2. \A q \in Requests : Renew(q) => pc'[r] # "requesting"
      BY DEF Renew, TypeOK
    <3>3. \A q \in Requests : Acquire(q) => q = r
      BY DEF Acquire, TypeOK
    <3> QED
      BY <3>1, <3>2, <3>3
         DEF Next, RequestStep, Start, AcquireFails, Wake, RenewalDue,
             RenewFails, RequestEnds, RequestThrottled, Defer, DeferFails,
             Release, ReleaseFails, Cancel, Maintain, Tick, Call, Return,
             requestVars, TypeOK
  <2>2. readAt[r] \in Nat /\ readAt[r] <= clock /\ OriginOf[r] \in Origins
    BY RequestsAssumption DEF CallsFresh, Calling, TypeOK
  <2>3. ~(blockedUntil[OriginOf[r]] > readAt[r])
    BY <2>1 DEF Acquire, AcquireGranted, Blocked
  <2> QED
    BY <2>2, <2>3 DEF RetryAfterKept, TypeOK, StoreTypeOK
<1> QED
  BY <1>1, <1>2, <1>3, TypeCorrect, PTL DEF Spec, RetryAfterHonoured

----------------------------------------------------------------------------
(* NetworkManager implements PermitPool.                                   *)

\* Steps that delete leases leave the requests in flight alone.
LEMMA TakeBackStep ==
  ASSUME IInv', leases' \in SUBSET leases, InFlight' = InFlight
  PROVE  Pool!TakeBack
<1>1. InFlight \subseteq leases'
  BY DEF IInv, PermitsLive, InFlight
<1>2. leases \ leases' \in SUBSET (leases \ InFlight)
  BY <1>1
<1>3. leases' = leases \ (leases \ leases')
  OBVIOUS
<1> QED
  BY <1>2, <1>3 DEF Pool!TakeBack

\* A granted permit takes a free place of the pool.
LEMMA GrantStep ==
  ASSUME TypeOK, IInv, IInv', NEW r \in Requests, Acquire(r)
  PROVE  Pool!Grant(r)
<1> DEFINE left == leases \ Live(readAt[r])
<1>1. readAt[r] \in Nat /\ readAt[r] <= clock
  BY DEF Acquire, IInv, CallsFresh, Calling, TypeOK
<1>2. \A q \in InFlight : q \in Live(readAt[r])
  BY <1>1, InFlightLive DEF IInv
<1>3. left \in SUBSET (leases \ InFlight)
  BY <1>2
<1>4. Live(readAt[r]) \subseteq leases
  BY DEF Live
<1>5. leases' = Live(readAt[r]) \cup {r}
  BY DEF Acquire, AcquireGranted
<1>6. leases' = (leases \ left) \cup {r}
  BY <1>4, <1>5
<1>7. InFlight' = InFlight \cup {r} /\ r \notin InFlight
  BY DEF Acquire, InFlight, TypeOK
<1>8. Cardinality(Pool!HeldOn(leases', OriginOf[r])) <= MaxConcurrent
  BY RequestsAssumption DEF IInv, LeasesWithinLimit, OnOrigin, Pool!HeldOn
<1>9. Pool!Cardinality(Pool!HeldOn(leases', OriginOf[r]))
        = Cardinality(Pool!HeldOn(leases', OriginOf[r]))
  BY DEF Pool!Cardinality, Pool!IsFiniteSet, Cardinality, IsFiniteSet
<1> QED
  BY <1>3, <1>6, <1>7, <1>8, <1>9 DEF Pool!Grant

\* Every step is a step of the pool of permits or leaves it alone.
LEMMA PoolStep ==
  ASSUME TypeOK, IInv, IInv', [Next]_vars
  PROVE  [Pool!PoolNext]_(Pool!poolVars)
<1> USE DEF Pool!PoolNext, Pool!poolVars
<1>1. ASSUME NEW r \in Requests, Acquire(r) PROVE Pool!PoolNext
  BY <1>1, GrantStep
<1>2. ASSUME NEW r \in Requests,
             \/ RenewFails(r) \/ RequestEnds(r) \/ RequestThrottled(r)
             \/ Cancel(r)
      PROVE [Pool!PoolNext]_(Pool!poolVars)
  <2>1. leases' = leases
    BY <1>2 DEF RenewFails, RequestEnds, RequestThrottled, Cancel, storeVars
  <2>2. InFlight' = InFlight \ {r}
    BY <1>2 DEF RenewFails, RequestEnds, RequestThrottled, Cancel, Call,
                Return, InFlight, TypeOK
  <2>3. CASE r \in InFlight
    BY <2>1, <2>2, <2>3 DEF Pool!Stop
  <2>4. CASE r \notin InFlight
    BY <2>1, <2>2, <2>4
  <2> QED BY <2>3, <2>4
<1>3. ASSUME NEW r \in Requests, AcquireRefused(r) PROVE Pool!PoolNext
  <2>1. InFlight' = InFlight
    <3>1. pc[r] = "acquiring"
      BY <1>3 DEF AcquireRefused
    <3> QED BY <1>3, <3>1, RefusedEffect DEF InFlight, TypeOK
  <2>2. leases' \in SUBSET leases
    BY <1>3, RefusedEffect DEF KeepLeases, Live
  <2> QED BY <2>1, <2>2, TakeBackStep
<1>4. ASSUME NEW r \in Requests,
             \/ Start(r) \/ AcquireFails(r) \/ Wake(r) \/ RenewalDue(r)
             \/ Renew(r) \/ Defer(r) \/ DeferFails(r)
             \/ Release(r) \/ ReleaseFails(r)
      PROVE Pool!PoolNext
  <2>1. InFlight' = InFlight
    BY <1>4 DEF Start, AcquireFails, Wake, RenewalDue, Renew, Defer, DeferFails,
                Release, ReleaseFails, Call, Return, InFlight, TypeOK
  <2>2. leases' \in SUBSET leases
    BY <1>4 DEF Start, AcquireFails, Wake, RenewalDue, Renew, RenewOrigin,
                Defer, DeferOrigin, DeferFails, Release, ReleaseOrigin,
                KeepLeases, ReleaseFails, storeVars, leaseVars
  <2> QED BY <2>1, <2>2, TakeBackStep
<1>5. CASE Maintain \/ Tick
  <2>1. InFlight' = InFlight
    BY <1>5 DEF Maintain, Tick, requestVars, InFlight
  <2>2. leases' \in SUBSET leases
    BY <1>5 DEF Maintain, MaintenanceOrigins, KeepLeases, Live, Tick, storeVars
  <2> QED BY <2>1, <2>2, TakeBackStep
<1>6. CASE UNCHANGED vars
  BY <1>6 DEF vars, storeVars, requestVars, InFlight
<1> QED
  BY <1>1, <1>2, <1>3, <1>4, <1>5, <1>6 DEF Next, RequestStep

(***************************************************************************)
(* The leases of the storage and the loop of NetworkManager::request       *)
(* implement the pool of permits.                                          *)
(***************************************************************************)
THEOREM Refinement ==
  ASSUME LeaseOutlivesRenewal
  PROVE  Spec => ImplementsPermitPool
<1>1. Init => Pool!PoolInit
  BY DEF Init, StoreInit, InFlight, Pool!PoolInit
<1>2. TypeOK /\ IInv /\ IInv' /\ [Next]_vars => [Pool!PoolNext]_(Pool!poolVars)
  BY PoolStep
<1> QED
  BY <1>1, <1>2, Invariance, TypeCorrect, PTL
     DEF Spec, ImplementsPermitPool, Pool!PoolSpec

----------------------------------------------------------------------------
(* The token bucket, as long as no call writes an older time over a newer. *)

\* A budget row written at the present time accounts for every unit.
LEMMA RefillAccounts ==
  ASSUME TypeOK, BudgetInv, NEW o \in Origins, NEW now \in Nat,
         lastRefill[o] <= now
  PROVE  grants[o] * Unit + RefillTokens(o, now)
           <= Burst * Unit + Rate * now
<1>1. /\ Unit \in Nat /\ Rate \in Nat /\ Burst \in Nat
      /\ lastRefill[o] \in Nat /\ tokens[o] \in Nat /\ grants[o] \in Nat
  BY PolicyAssumption DEF TypeOK, StoreTypeOK
<1>2. RefillTokens(o, now) <= tokens[o] + (now - lastRefill[o]) * Rate
  <2> DEFINE add == (now - lastRefill[o]) * Rate
  <2>1. Larger(now - lastRefill[o], 0) = now - lastRefill[o]
    BY <1>1 DEF Larger
  <2>2. add \in Int /\ Burst * Unit \in Int
    BY <1>1
  <2>3. RefillTokens(o, now) = Smaller(tokens[o] + add, Burst * Unit)
    BY <2>1 DEF RefillTokens
  <2> HIDE DEF add
  <2>4. RefillTokens(o, now) <= tokens[o] + add
    BY <1>1, <2>2, <2>3 DEF Smaller
  <2> QED
    BY <2>4 DEF add
<1>3. (now - lastRefill[o]) * Rate = Rate * now - Rate * lastRefill[o]
  BY <1>1
<1>4. grants[o] * Unit + tokens[o] <= Burst * Unit + Rate * lastRefill[o]
  BY DEF BudgetInv
<1> DEFINE g == grants[o] * Unit
           b == Burst * Unit
           x == Rate * now
           y == Rate * lastRefill[o]
<1>5. g \in Int /\ b \in Int /\ x \in Int /\ y \in Int
  BY <1>1
<1>6. RefillTokens(o, now) \in Int
  <2>1. StoreTypeOK
    BY DEF TypeOK
  <2>2. RefillTokens(o, now) \in 0..(Burst * Unit)
    BY <2>1, RefillType
  <2> QED
    BY <2>2
<1> HIDE DEF g, b, x, y
<1>7. RefillTokens(o, now) <= tokens[o] + (x - y)
  BY <1>2, <1>3 DEF x, y
<1>8. g + tokens[o] <= b + y
  BY <1>4 DEF g, b, y
<1>9. g + RefillTokens(o, now) <= b + x
  BY <1>1, <1>5, <1>6, <1>7, <1>8
<1> QED
  BY <1>9 DEF g, b, x

\* What acquire_origin and defer_origin do not see to.
Forward == \A o \in Origins : lastRefill[o] <= lastRefill'[o]

\* A call that does not move the refill back keeps the account of the tokens.
LEMMA BudgetStep ==
  ASSUME TypeOK, CallsFresh, BudgetInv, [Next]_vars, [Forward]_vars
  PROVE  BudgetInv'
<1>1. \A r \in Requests :
        pc[r] \in Calling => readAt[r] \in Nat /\ readAt[r] <= clock
  BY DEF CallsFresh, TypeOK
<1>2. ASSUME NEW r \in Requests, pc[r] = "acquiring",
             NEW units, NEW more \in Nat,
             NEW now, now = readAt[r],
             units + more * Unit = RefillTokens(OriginOf[r], now),
             UpsertBudget(OriginOf[r], units, now),
             grants' = [grants EXCEPT ![OriginOf[r]] = @ + more],
             units \in Nat, clock' = clock
      PROVE  BudgetInv'
  <2> DEFINE o == OriginOf[r]
  <2>1. o \in Origins /\ now \in Nat /\ now <= clock /\ lastRefill[o] <= now
    <3>1. o \in Origins
      BY RequestsAssumption
    <3>2. lastRefill'[o] = now
      BY <1>2, <3>1 DEF UpsertBudget, TypeOK, StoreTypeOK
    <3>3. lastRefill[o] <= lastRefill'[o]
      <4>1. CASE Forward
        BY <3>1, <4>1 DEF Forward
      <4>2. CASE UNCHANGED vars
        BY <3>1, <4>2 DEF vars, storeVars, TypeOK, StoreTypeOK
      <4> QED
        BY <4>1, <4>2
    <3> QED
      BY <1>1, <1>2, <3>1, <3>2, <3>3 DEF Calling
  <2>2. grants[o] * Unit + RefillTokens(o, now) <= Burst * Unit + Rate * now
    BY <2>1, RefillAccounts
  <2>3. /\ grants[o] \in Nat /\ Unit \in Nat
        /\ grants'[o] = grants[o] + more
        /\ tokens'[o] = units /\ lastRefill'[o] = now
    BY <1>2, <2>1, PolicyAssumption DEF TypeOK, StoreTypeOK, UpsertBudget
  <2>4. (grants[o] + more) * Unit = grants[o] * Unit + more * Unit
    BY <1>2, <2>3
  <2>5. grants'[o] * Unit + tokens'[o]
          <= Burst * Unit + Rate * lastRefill'[o]
    <3> DEFINE g == grants[o] * Unit
               k == more * Unit
    <3>1. g \in Int /\ k \in Int
      BY <1>2, <2>3
    <3> HIDE DEF g, k
    <3>2. (g + k) + units = g + (units + k)
      BY <1>2, <3>1
    <3> QED
      BY <1>2, <2>2, <2>3, <2>4, <3>2 DEF g, k
  <2>6. clock \in Nat
    BY DEF TypeOK
  <2>7. ASSUME NEW p \in Origins, p # o
        PROVE  /\ grants'[p] = grants[p] /\ tokens'[p] = tokens[p]
               /\ lastRefill'[p] = lastRefill[p]
    BY <1>2, <2>7 DEF TypeOK, StoreTypeOK, UpsertBudget
  <2> HIDE DEF o
  <2>8. ASSUME NEW p \in Origins
        PROVE  /\ lastRefill'[p] <= clock'
               /\ grants'[p] * Unit + tokens'[p]
                    <= Burst * Unit + Rate * lastRefill'[p]
    <3>1. CASE p = o
      BY <1>2, <2>1, <2>3, <2>5, <2>6, <3>1
    <3>2. CASE p # o
      BY <1>2, <2>7, <3>2 DEF BudgetInv
    <3> QED
      BY <3>1, <3>2
  <2> QED
    BY <2>8 DEF BudgetInv
<1>3. ASSUME NEW r \in Requests, Acquire(r) PROVE BudgetInv'
  <2> DEFINE now == readAt[r]
  <2>1. pc[r] = "acquiring" /\ now \in Nat /\ clock' = clock
    BY <1>1, <1>3 DEF Acquire, Calling
  <2> DEFINE units == RefillTokens(OriginOf[r], now) - Unit
  <2>2. OriginOf[r] \in Origins /\ Unit \in Nat
    BY RequestsAssumption, PolicyAssumption DEF TypeOK
  <2>3. RefillTokens(OriginOf[r], now) \in 0..(Burst * Unit)
    BY <2>2, RefillType DEF TypeOK
  <2>4. RefillTokens(OriginOf[r], now) >= Unit
    BY <1>3, <2>1 DEF Acquire, AcquireGranted
  <2>5. units \in Nat /\ units + 1 * Unit = RefillTokens(OriginOf[r], now)
    BY <2>2, <2>3, <2>4
  <2>6. /\ UpsertBudget(OriginOf[r], units, now)
        /\ grants' = [grants EXCEPT ![OriginOf[r]] = @ + 1]
    BY <1>3, <2>1 DEF Acquire, AcquireGranted
  <2> HIDE DEF units
  <2> QED
    BY <1>2, <2>1, <2>5, <2>6
<1>4. ASSUME NEW r \in Requests, AcquireRefused(r) PROVE BudgetInv'
  <2> DEFINE now == readAt[r]
  <2>1. pc[r] = "acquiring" /\ now \in Nat /\ UNCHANGED <<clock, grants>>
    BY <1>1, <1>4 DEF AcquireRefused, Calling, historyVars
  <2>2. CASE UNCHANGED budgetVars
    BY <2>1, <2>2 DEF BudgetInv, budgetVars
  <2>3. CASE UpsertBudget(OriginOf[r], RefillTokens(OriginOf[r], now), now)
    <3>1. OriginOf[r] \in Origins /\ Unit \in Nat
      BY RequestsAssumption, PolicyAssumption DEF TypeOK
    <3>2. RefillTokens(OriginOf[r], now) \in 0..(Burst * Unit)
      BY <3>1, RefillType DEF TypeOK
    <3>3. /\ RefillTokens(OriginOf[r], now) \in Nat
          /\ RefillTokens(OriginOf[r], now) + 0 * Unit
               = RefillTokens(OriginOf[r], now)
      BY <3>1, <3>2
    <3>4. grants' = [grants EXCEPT ![OriginOf[r]] = @ + 0]
      BY <2>1, <3>1 DEF TypeOK
    <3> QED
      BY <1>2, <2>1, <2>3, <3>3, <3>4
  <2> QED
    BY <1>4, <2>1, <2>2, <2>3
       DEF AcquireRefused, AcquireConcurrencyLimited, AcquireBlocked,
           AcquireOutOfTokens
<1>5. ASSUME NEW r \in Requests, Defer(r) PROVE BudgetInv'
  <2> DEFINE o == OriginOf[r]
             now == readAt[r]
  <2>1. now \in Nat /\ now <= clock /\ UNCHANGED <<clock, grants>>
    BY <1>1, <1>5 DEF Defer, Calling
  <2>2. o \in Origins /\ clock \in Nat /\ Rate \in Nat
    BY RequestsAssumption, PolicyAssumption DEF TypeOK
  <2>3. /\ tokens' = [tokens EXCEPT ![o] = 0]
        /\ lastRefill' = [lastRefill EXCEPT ![o] = now]
    BY <1>5, <2>1 DEF Defer, DeferOrigin
  <2>4. grants[o] * Unit <= Burst * Unit + Rate * now
    <3>1. lastRefill[o] \in Nat /\ lastRefill[o] <= now /\ tokens[o] \in Nat
      <4>1. lastRefill'[o] = now
        BY <2>2, <2>3 DEF TypeOK, StoreTypeOK
      <4>2. lastRefill[o] <= lastRefill'[o]
        <5>1. CASE Forward
          BY <2>2, <5>1 DEF Forward
        <5>2. CASE UNCHANGED vars
          BY <2>2, <5>2 DEF vars, storeVars, TypeOK, StoreTypeOK
        <5> QED
          BY <5>1, <5>2
      <4> QED
        BY <2>2, <4>1, <4>2, PolicyAssumption DEF TypeOK, StoreTypeOK
    <3>2. Rate * lastRefill[o] <= Rate * now
      BY <2>1, <2>2, <3>1
    <3>3. grants[o] * Unit + tokens[o] <= Burst * Unit + Rate * lastRefill[o]
      BY <2>2 DEF BudgetInv
    <3>4. /\ grants[o] * Unit \in Int /\ Burst * Unit \in Int
          /\ Rate * lastRefill[o] \in Int /\ Rate * now \in Int
      BY <2>1, <2>2, <3>1, PolicyAssumption DEF TypeOK
    <3> QED
      BY <3>1, <3>2, <3>3, <3>4
  <2>5. grants[o] * Unit + 0 = grants[o] * Unit
    BY <2>2, PolicyAssumption DEF TypeOK
  <2> HIDE DEF o, now
  <2>6. ASSUME NEW p \in Origins
        PROVE  /\ lastRefill'[p] <= clock'
               /\ grants'[p] * Unit + tokens'[p]
                    <= Burst * Unit + Rate * lastRefill'[p]
    <3>1. CASE p = o
      <4>1. tokens'[p] = 0 /\ lastRefill'[p] = now /\ grants'[p] = grants[o]
        BY <2>1, <2>3, <3>1 DEF TypeOK, StoreTypeOK
      <4> QED
        BY <2>1, <2>2, <2>4, <2>5, <4>1
    <3>2. CASE p # o
      <4>1. tokens'[p] = tokens[p] /\ lastRefill'[p] = lastRefill[p]
        BY <2>3, <3>2 DEF TypeOK, StoreTypeOK
      <4> QED
        BY <2>1, <4>1 DEF BudgetInv
    <3> QED
      BY <3>1, <3>2
  <2> QED
    BY <2>6 DEF BudgetInv
<1>6. ASSUME UNCHANGED <<budgetVars, grants>>, clock' = clock \/ clock' = clock + 1
      PROVE  BudgetInv'
  BY <1>6 DEF BudgetInv, budgetVars, TypeOK, StoreTypeOK
<1>7. ASSUME NEW r \in Requests,
             \/ Start(r) \/ AcquireFails(r) \/ Wake(r) \/ RenewalDue(r)
             \/ Renew(r) \/ RenewFails(r) \/ RequestEnds(r)
             \/ RequestThrottled(r) \/ DeferFails(r) \/ Release(r)
             \/ ReleaseFails(r) \/ Cancel(r)
      PROVE  BudgetInv'
  <2>1. UNCHANGED <<budgetVars, grants, clock>>
    BY <1>7 DEF Start, AcquireFails, Wake, RenewalDue, Renew, RenewOrigin,
                RenewFails, RequestEnds, RequestThrottled, DeferFails, Release,
                ReleaseOrigin, ReleaseFails, Cancel, storeVars, budgetVars,
                historyVars
  <2> QED
    BY <1>6, <2>1
<1>8. CASE Maintain \/ Tick \/ UNCHANGED vars
  <2>1. UNCHANGED <<budgetVars, grants>> /\ (clock' = clock \/ clock' = clock + 1)
    BY <1>8 DEF Maintain, MaintenanceOrigins, Tick, vars, storeVars, budgetVars,
                historyVars
  <2> QED
    BY <1>6, <2>1
<1> QED
  BY <1>3, <1>4, <1>5, <1>7, <1>8 DEF Next, RequestStep

(***************************************************************************)
(* However late transactions commit, the bound can be broken in one way    *)
(* only: a call writes a last_refill_ms that is older than the stored one. *)
(* An UPSERT_BUDGET and a defer_origin that keep the later of the two      *)
(* times would keep the rate; the run finds that the code does not.        *)
(***************************************************************************)
THEOREM Budget == Spec /\ [][Forward]_vars => []GrantsWithinBudget
<1>1. Init => CallsFresh /\ BudgetInv
  BY PolicyAssumption
     DEF Init, StoreInit, CallsFresh, Calling, BudgetInv
<1>2. TypeOK /\ CallsFresh /\ BudgetInv /\ [Next]_vars /\ [Forward]_vars
        => CallsFresh' /\ BudgetInv'
  BY CallsFreshStep, BudgetStep
<1>3. TypeOK /\ BudgetInv => GrantsWithinBudget
  <2> SUFFICES ASSUME TypeOK, BudgetInv, NEW o \in Origins
               PROVE  grants[o] * Unit <= Burst * Unit + Rate * clock
    BY DEF GrantsWithinBudget
  <2>1. /\ lastRefill[o] \in Nat /\ tokens[o] \in Nat /\ grants[o] \in Nat
        /\ clock \in Nat /\ Rate \in Nat /\ Unit \in Nat /\ Burst \in Nat
        /\ lastRefill[o] <= clock
    BY PolicyAssumption DEF TypeOK, StoreTypeOK, BudgetInv
  <2>2. Rate * lastRefill[o] <= Rate * clock
    BY <2>1
  <2>3. grants[o] * Unit + tokens[o] <= Burst * Unit + Rate * lastRefill[o]
    BY DEF BudgetInv
  <2>4. /\ grants[o] * Unit \in Int /\ Burst * Unit \in Int
        /\ Rate * lastRefill[o] \in Int /\ Rate * clock \in Int
    BY <2>1
  <2> QED
    BY <2>1, <2>2, <2>3, <2>4
<1> QED
  BY <1>1, <1>2, <1>3, TypeCorrect, PTL DEF Spec
============================================================================
