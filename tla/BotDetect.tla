------------------------------ MODULE BotDetect ------------------------------
(***************************************************************************)
(* The limiter in front of the router: BotDetectService::call              *)
(* (zoeken-server/src/limiter.rs) and Detector::evaluate_at with the token *)
(* buckets and link tokens of zoeken-botdetect.                            *)
(*                                                                         *)
(* Requests run on threads.  A request reads the clock once, at the top of *)
(* evaluate ("timed"), then asks whether its network is verified           *)
(* ("judged"), then locks the network's bucket; others may do all of this  *)
(* in between, so a bucket sees times out of order.  At most Skew ticks    *)
(* pass between the reading of the clock and the lock.                     *)
(* Tokens are counted in units: a request costs Cost units, and a bucket   *)
(* regains a whole number of units per tick.                               *)
(***************************************************************************)
EXTENDS RequestHeaders, ClientAddress, Integers

CONSTANTS Requests,
          Features,       \* what extract_features may find in a request, but for its sender
          Config,         \* the flags of limiter.toml and the enabled heuristics
          Capacity, Refill, SuspiciousCapacity, SuspiciousRefill, Cost,
          StateCapacity,  \* entries the two caches may hold
          Idle,           \* state_idle_seconds
          Skew, MaxClock

ASSUME LimitAssumption ==
  /\ Capacity \in Nat /\ Refill \in Nat /\ SuspiciousCapacity \in Nat
  /\ SuspiciousRefill \in Nat /\ Cost \in Nat /\ StateCapacity \in Nat \ {0}
  /\ Idle \in Nat /\ Skew \in Nat /\ MaxClock \in Nat

(* The networks that are charged; an address stands for its own network. *)
Nets == {normalize(a) : a \in Addrs}

FeatureSet == [path: {"probe", "challenge", "metered", "other"},
               passed: BOOLEAN, blocked: BOOLEAN, link_local: BOOLEAN,
               token: BOOLEAN, headers: HeaderView]

ASSUME FeaturesAssumption ==
  /\ Features \subseteq FeatureSet
  /\ Config \in [enabled: BOOLEAN, link_token: BOOLEAN, filter_link_local: BOOLEAN,
                heuristics: SUBSET HeaderHeuristics]

VARIABLES clock,
          buckets,   \* buckets[n]: None or [tokens, last, touched]
          verified,  \* verified[n]: None or the time of the last insert
          phase, now, features, suspicious, decision,
          from,      \* from[r]: who sent r, and what the server takes for the sender
          start,     \* history: when the observed interval began
          granted,   \* history: requests of n that got a token since start
          behind,    \* history: by how much requests set back the bucket's clock since
          shown      \* history: whether n has ever shown the valid token

vars == <<clock, buckets, verified, phase, now, features, from, suspicious, decision,
          start, granted, behind, shown>>

history == <<start, granted, behind>>

Decisions == {"Allow", "Block", "TooManyRequests"}

TypeOK ==
  /\ clock \in 0..MaxClock
  /\ buckets \in [Nets -> {None} \cup [tokens: Nat, last: Nat, touched: Nat]]
  /\ verified \in [Nets -> {None} \cup Nat]
  /\ phase \in [Requests -> {"new", "timed", "judged", "done"}]
  /\ now \in [Requests -> Nat]
  /\ features \in [Requests -> {None} \cup FeatureSet] /\ from \in [Requests -> {None} \cup Arrivals]
  /\ suspicious \in [Requests -> BOOLEAN]
  /\ decision \in [Requests -> {None} \cup Decisions]
  /\ start \in 0..clock /\ granted \in [Nets -> Nat]
  /\ behind \in [Nets -> Nat]
  /\ shown \in [Nets -> BOOLEAN]

Init ==
  /\ clock = 0
  /\ buckets = [n \in Nets |-> None] /\ verified = [n \in Nets |-> None]
  /\ phase = [r \in Requests |-> "new"]
  /\ now = [r \in Requests |-> 0] /\ features = [r \in Requests |-> None]
  /\ from = [r \in Requests |-> None]
  /\ suspicious = [r \in Requests |-> FALSE] /\ decision = [r \in Requests |-> None]
  /\ start = 0 /\ granted = [n \in Nets |-> 0]
  /\ behind = [n \in Nets |-> 0]
  /\ shown = [n \in Nets |-> FALSE]

-----------------------------------------------------------------------------
Minimum(a, b) == IF a <= b THEN a ELSE b
Maximum(a, b) == IF a >= b THEN a ELSE b

(* Entries that have gone idle are gone: a lookup of a bucket is a use of it, *)
(* contains_key of a verified network is not.                                 *)
BucketLive(n) == buckets[n] # None /\ clock < buckets[n].touched + Idle
VerifiedLive(n) == verified[n] # None /\ clock < verified[n] + Idle

(* Mutant of step: the state is written back before the cost is taken. *)
StepBeforeCost(prev, capacity, refill, at, cost) ==
  LET refilled == Minimum(prev.tokens + refill * Maximum(at - prev.last, 0), capacity)
  IN [allowed |-> refilled >= cost, tokens |-> refilled, last |-> at]

step(prev, capacity, refill, at, cost) ==
  LET refilled == Minimum(prev.tokens + refill * Maximum(at - prev.last, 0), capacity)
  IN [allowed |-> refilled >= cost,
      tokens |-> IF refilled >= cost THEN refilled - cost ELSE refilled, last |-> at]

(* Mutant of CapacityFor: suspicion only lowers the refill. *)
CapacityForAll(susp) == Capacity

(* RateLimitConfig::params. *)
CapacityFor(susp) == IF susp THEN SuspiciousCapacity ELSE Capacity
RefillFor(susp) == IF susp THEN SuspiciousRefill ELSE Refill

(* evaluate_at up to the link token: who is allowed or blocked outright. *)
EarlyDecision(f) ==
  IF ~Config.enabled \/ f.path \in {"probe", "challenge"} \/ f.passed THEN "Allow"
  ELSE IF f.blocked THEN "Block"
  ELSE IF f.path = "metered" THEN "meter" ELSE "Allow"

(* A request that is decided is forgotten. *)
Decide(r, d) ==
  /\ phase' = [phase EXCEPT ![r] = "done"]
  /\ decision' = [decision EXCEPT ![r] = d]
  /\ now' = [now EXCEPT ![r] = 0] /\ suspicious' = [suspicious EXCEPT ![r] = FALSE]
  /\ features' = [features EXCEPT ![r] = None] /\ from' = [from EXCEPT ![r] = None]

(* BotDetectService::call: a request without a client address is passed on;   *)
(* otherwise evaluate reads the clock and takes the early returns.            *)
Arrive(r, f, a) ==
  /\ phase[r] = "new"
  /\ IF EarlyDecision(f) = "meter"
     THEN /\ phase' = [phase EXCEPT ![r] = "timed"]
          /\ features' = [features EXCEPT ![r] = f] /\ from' = [from EXCEPT ![r] = a]
          /\ now' = [now EXCEPT ![r] = clock]
          /\ UNCHANGED <<suspicious, decision>>
     ELSE Decide(r, EarlyDecision(f))
  /\ UNCHANGED <<clock, buckets, verified, history, shown>>

NoClientAddress(r) ==
  /\ phase[r] = "new"
  /\ Decide(r, "Allow")
  /\ UNCHANGED <<clock, buckets, verified, history, shown>>

(* LinkTokenVerifier::is_suspicious, which pings with the presented token if  *)
(* the network is not verified yet.                                           *)
Judge(r) ==
  LET n == from[r].address IN
  /\ phase[r] = "timed"
  /\ phase' = [phase EXCEPT ![r] = "judged"]
  /\ IF Config.link_token /\ ~VerifiedLive(n)
     THEN /\ suspicious' = [suspicious EXCEPT ![r] = ~features[r].token]
          /\ verified' = IF features[r].token THEN [verified EXCEPT ![n] = clock] ELSE verified
     ELSE /\ suspicious' = [suspicious EXCEPT ![r] = FALSE]
          /\ UNCHANGED verified
  /\ shown' = IF features[r].token THEN [shown EXCEPT ![n] = TRUE] ELSE shown
  /\ UNCHANGED <<clock, buckets, now, features, from, decision, history>>

Verdict(f) ==
  IF HeadersPass(f.headers, Config.heuristics) THEN "Allow" ELSE "TooManyRequests"

(* RateLimiter::check_at with the bucket's lock, then the header heuristics.  *)
(* A link-local client is not charged unless filter_link_local is set.        *)
Charge(r) ==
  LET f == features[r]
      n == from[r].address
      cap == CapacityFor(suspicious[r])
      prev == IF BucketLive(n) THEN buckets[n] ELSE [tokens |-> cap, last |-> now[r]]
      due == IF BucketLive(n) THEN Maximum(prev.last, start) ELSE clock
      next == step(prev, cap, RefillFor(suspicious[r]), now[r], Cost)
  IN /\ phase[r] = "judged"
     /\ IF f.link_local /\ ~Config.filter_link_local
        THEN Decide(r, Verdict(f)) /\ UNCHANGED <<buckets, granted, behind>>
        ELSE /\ buckets' = [buckets EXCEPT ![n] =
                  [tokens |-> next.tokens, last |-> next.last, touched |-> clock]]
             /\ behind' = [behind EXCEPT ![n] = @ + Maximum(due - now[r], 0)]
             /\ granted' = IF next.allowed THEN [granted EXCEPT ![n] = @ + 1] ELSE granted
             /\ Decide(r, IF next.allowed THEN Verdict(f) ELSE "TooManyRequests")
     /\ UNCHANGED <<clock, verified, start, shown>>

(* GET /client{token}.css: the handler of the challenge pings the network. *)
Ping(n) ==
  /\ Config.link_token
  /\ verified' = [verified EXCEPT ![n] = clock]
  /\ shown' = [shown EXCEPT ![n] = TRUE]
  /\ UNCHANGED <<clock, buckets, phase, now, features, from, suspicious, decision, history>>

Restart ==
  /\ start' = clock
  /\ granted' = [n \in Nets |-> 0] /\ behind' = [n \in Nets |-> 0]

(* An observer begins to count, at any moment. *)
Observe ==
  /\ start < clock
  /\ Restart
  /\ UNCHANGED <<clock, buckets, verified, phase, now, features, from, suspicious, decision, shown>>

(* moka drops an entry of a cache that holds more than StateCapacity.  The    *)
(* bucket's network gets a full one next time, so the observer starts over.   *)
EvictBucket(n) ==
  /\ Cardinality({m \in Nets : BucketLive(m)}) > StateCapacity
  /\ BucketLive(n)
  /\ buckets' = [buckets EXCEPT ![n] = None]
  /\ Restart
  /\ UNCHANGED <<clock, verified, phase, now, features, from, suspicious, decision, shown>>

EvictVerified(n) ==
  /\ Cardinality({m \in Nets : VerifiedLive(m)}) > StateCapacity
  /\ VerifiedLive(n)
  /\ verified' = [verified EXCEPT ![n] = None]
  /\ UNCHANGED <<clock, buckets, phase, now, features, from, suspicious, decision, history, shown>>

(* Time passes; a request between its clock and its lock is at most Skew old. *)
Tick ==
  /\ clock < MaxClock
  /\ \A r \in Requests : phase[r] \in {"timed", "judged"} => clock + 1 <= now[r] + Skew
  /\ clock' = clock + 1
  /\ UNCHANGED <<buckets, verified, phase, now, features, from, suspicious, decision, history, shown>>

Next ==
  \/ \E r \in Requests : \/ \E f \in Features, a \in Arrivals : Arrive(r, f, a)
                         \/ NoClientAddress(r) \/ Judge(r) \/ Charge(r)
  \/ \E c \in Clients : Ping(normalize(c))
  \/ \E n \in Nets : EvictBucket(n) \/ EvictVerified(n)
  \/ Tick \/ Observe

Spec == Init /\ [][Next]_vars

-----------------------------------------------------------------------------
(* No network gets more requests through, in any interval in which the store  *)
(* of buckets does not overflow, than a bucket gives: its capacity, what the  *)
(* interval refills, and what requests that came to the lock with an old      *)
(* clock let it refill twice.  Idle buckets are dropped and made anew, and    *)
(* suspicion changes the parameters of the same bucket in between.  With      *)
(* requests in order this is the rate of limiter.toml.                        *)
GrantsWithinRate ==
  \A n \in Nets : granted[n] * Cost <= Capacity + Refill * (clock - start + behind[n])

(* A network that has never shown the link token is held to the suspicious    *)
(* rate from its first request on, also while other requests of the network   *)
(* are between their steps.                                                   *)
UnverifiedWithinSuspiciousRate ==
  \A n \in Nets : Config.link_token /\ ~shown[n] =>
    granted[n] * Cost <= SuspiciousCapacity + SuspiciousRefill * (clock - start + behind[n])

(* A search with the headers a current browser sends, for a page or for one   *)
(* of the fetches of the client, is refused only for want of a token, and     *)
(* never to a link-local client that is not to be charged.                    *)
SentByBrowser(v) ==
  /\ v.accept \in {"html", "json", "any"} /\ v.accept_encoding = "gzip"
  /\ v.accept_language = "set" /\ v.connection # "close"
  /\ v.user_agent = "browser" /\ v.sec_fetch_mode \in {"navigate", "same-origin"}

BrowsersServed ==
  [][\A r \in Requests :
       /\ phase[r] = "judged" /\ phase'[r] = "done"
       /\ SentByBrowser(features[r].headers)
       /\ decision'[r] # "Allow"
       => /\ features[r].link_local => Config.filter_link_local
          /\ granted' = granted]_vars

(* A client that is no proxy is charged under its own address, however many   *)
(* proxies passed its request on and whatever it wrote into the headers       *)
(* itself; if it spoilt the header, under the one its last proxy reports,     *)
(* never under one it chose.                                                  *)
OwnAddress ==
  \A r \in Requests : from[r] # None => from[r].address = from[r].own
==============================================================================
