---------------------------- MODULE OriginStore ----------------------------
(***************************************************************************)
(* The storage side of per-origin coordination (zoeken-storage): the       *)
(* tables origin_leases and origin_budgets, and the statements that        *)
(* acquire_origin, renew_origin, release_origin, defer_origin and          *)
(* maintenance run on them.  Every operator below is one transaction.  The *)
(* SQLite transactions start with a DELETE and so hold the write lock; the *)
(* Postgres ones hold the advisory lock of the origin.  A transaction      *)
(* works with the time `now` that its caller read BEFORE the transaction   *)
(* began, so `now` may be older than the clock when the rows change.       *)
(*                                                                         *)
(* Abstractions.  A lease id is the request that owns it (new_lease_id     *)
(* gives every grant its own id).  Tokens are counted in units: Unit units *)
(* make one token, Rate units come back per tick, so a fractional number   *)
(* of tokens stays an integer.  A missing budget row acts as a full one.   *)
(* SQL NULL in blocked_until_ms is 0, as COALESCE makes it.                *)
(***************************************************************************)
EXTENDS Integers, FiniteSets

CONSTANTS
  Requests,        \* calls of NetworkManager::request; also the lease ids
  Origins,         \* normalised origins
  OriginOf,        \* the origin of each request's URL
  MaxConcurrent,   \* OriginPolicy.max_concurrent
  Burst,           \* OriginPolicy.burst
  Unit,            \* token units per token
  Rate,            \* token units per tick (OriginPolicy.requests_per_second)
  LeaseDuration    \* OriginPolicy.lease_duration, in ticks

ASSUME RequestsAssumption ==
  /\ IsFiniteSet(Requests)
  /\ OriginOf \in [Requests -> Origins]

\* What the settings loader validates: every limit is greater than zero.
ASSUME PolicyAssumption ==
  /\ MaxConcurrent \in Nat \ {0}
  /\ Burst \in Nat \ {0}
  /\ Unit \in Nat \ {0}
  /\ Rate \in Nat \ {0}
  /\ LeaseDuration \in Nat \ {0}

VARIABLES
  leases,          \* rows of origin_leases, by lease id
  expiresAt,       \* expires_at_ms of each row (0 where there is no row)
  tokens,          \* origin_budgets.tokens, in units
  lastRefill,      \* origin_budgets.last_refill_ms
  blockedUntil     \* origin_budgets.blocked_until_ms, 0 for NULL

leaseVars == <<leases, expiresAt>>
budgetVars == <<tokens, lastRefill, blockedUntil>>
storeVars == <<leases, expiresAt, tokens, lastRefill, blockedUntil>>

StoreTypeOK ==
  /\ leases \subseteq Requests
  /\ expiresAt \in [Requests -> Nat]
  /\ tokens \in [Origins -> 0..(Burst * Unit)]
  /\ lastRefill \in [Origins -> Nat]
  /\ blockedUntil \in [Origins -> Nat]

StoreInit ==
  /\ leases = {}
  /\ expiresAt = [r \in Requests |-> 0]
  /\ tokens = [o \in Origins |-> Burst * Unit]
  /\ lastRefill = [o \in Origins |-> 0]
  /\ blockedUntil = [o \in Origins |-> 0]

Larger(a, b) == IF a > b THEN a ELSE b
Smaller(a, b) == IF a < b THEN a ELSE b

(***************************************************************************)
(* DELETE FROM origin_leases WHERE expires_at_ms <= now: rows of every     *)
(* origin, not only of the one being acquired.                             *)
(***************************************************************************)
Live(now) == {l \in leases : expiresAt[l] > now}

KeepLeases(rows) ==
  /\ leases' = rows
  /\ expiresAt' = [l \in Requests |-> IF l \in rows THEN expiresAt[l] ELSE 0]

OnOrigin(rows, o) == {l \in rows : OriginOf[l] = o}

\* Mutant of RefillTokens: the refill is not capped at the burst.
RefillTokensUncapped(o, now) ==
  tokens[o] + Larger(now - lastRefill[o], 0) * Rate

\* refill_tokens: what the bucket holds at `now`; a clock that went back adds 0.
RefillTokens(o, now) ==
  Smaller(tokens[o] + Larger(now - lastRefill[o], 0) * Rate, Burst * Unit)

\* token_retry_after, rounded up to whole ticks.
TokenRetryAfter(units) == ((Unit - units) + Rate - 1) \div Rate

\* UPSERT_BUDGET writes the three columns of the row, blocked_until_ms as NULL.
UpsertBudget(o, units, now) ==
  /\ tokens' = [tokens EXCEPT ![o] = units]
  /\ lastRefill' = [lastRefill EXCEPT ![o] = now]
  /\ blockedUntil' = [blockedUntil EXCEPT ![o] = 0]

(***************************************************************************)
(* acquire_origin.  Four outcomes, tried in the order of the code; each    *)
(* one commits the deletion of the expired leases.                         *)
(***************************************************************************)
\* Mutant of AtLimit: off by one.
AtLimitOffByOne(o, now) ==
  Cardinality(OnOrigin(Live(now), o)) > MaxConcurrent

AtLimit(o, now) == Cardinality(OnOrigin(Live(now), o)) >= MaxConcurrent

\* Mutant of Blocked: acquirers do not look at blocked_until_ms.
BlockedIgnored(o, now) == FALSE

Blocked(o, now) == blockedUntil[o] > now

AcquireConcurrencyLimited(o, now) ==
  /\ AtLimit(o, now)
  /\ KeepLeases(Live(now))
  /\ UNCHANGED budgetVars

AcquireBlocked(o, now) ==
  /\ ~AtLimit(o, now)
  /\ Blocked(o, now)
  /\ KeepLeases(Live(now))
  /\ UNCHANGED budgetVars

AcquireOutOfTokens(o, now) ==
  /\ ~AtLimit(o, now)
  /\ ~Blocked(o, now)
  /\ RefillTokens(o, now) < Unit
  /\ UpsertBudget(o, RefillTokens(o, now), now)
  /\ KeepLeases(Live(now))

AcquireGranted(r, now) ==
  LET o == OriginOf[r] IN
  /\ ~AtLimit(o, now)
  /\ ~Blocked(o, now)
  /\ RefillTokens(o, now) >= Unit
  /\ UpsertBudget(o, RefillTokens(o, now) - Unit, now)
  /\ leases' = Live(now) \cup {r}
  /\ expiresAt' = [l \in Requests |->
                     IF l = r THEN now + LeaseDuration
                     ELSE IF l \in Live(now) THEN expiresAt[l] ELSE 0]

(***************************************************************************)
(* renew_origin updates the row if it is still there, expired or not, and  *)
(* tells its caller whether it was.                                        *)
(***************************************************************************)
RenewOrigin(r, now) ==
  /\ expiresAt' = IF r \in leases
                  THEN [expiresAt EXCEPT ![r] = now + LeaseDuration]
                  ELSE expiresAt
  /\ UNCHANGED <<leases, budgetVars>>

\* release_origin: DELETE by lease id; deleting a row that is gone is no error.
ReleaseOrigin(r) ==
  /\ KeepLeases(leases \ {r})
  /\ UNCHANGED budgetVars

\* defer_origin: empty the bucket and never shorten an earlier block.
DeferOrigin(o, now, delay) ==
  /\ tokens' = [tokens EXCEPT ![o] = 0]
  /\ lastRefill' = [lastRefill EXCEPT ![o] = now]
  /\ blockedUntil' = [blockedUntil EXCEPT ![o] = Larger(@, now + delay)]
  /\ UNCHANGED leaseVars

\* Mutant of MaintenanceOrigins: expired leases are left to acquirers.
MaintenanceOriginsSkipped(now) == UNCHANGED storeVars

\* The part of maintenance that concerns origins.
MaintenanceOrigins(now) ==
  /\ KeepLeases(Live(now))
  /\ UNCHANGED budgetVars
============================================================================
