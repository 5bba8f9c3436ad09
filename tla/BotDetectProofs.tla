--------------------------- MODULE BotDetectProofs ---------------------------
(***************************************************************************)
(* The rate of limiter.toml bounds what passes, for any number of requests *)
(* and networks, any clock skew and any mixture of suspicious and verified *)
(* requests.  The bound needs two things of the configuration: suspicion   *)
(* does not raise the limits, and a bucket that is dropped for idleness    *)
(* would have been full again.                                             *)
(*                                                                         *)
(* A request is charged to its sender, over any chain of proxies, and a    *)
(* browser is refused only by an empty bucket.                             *)
(***************************************************************************)
EXTENDS BotDetect, WellFoundedInduction, TLAPS

Bucket == [tokens: Nat, last: Nat, touched: Nat]

NoneIsNoState == None \notin Bucket /\ None \notin Nat

SuspicionIsStricter == SuspiciousCapacity <= Capacity /\ SuspiciousRefill <= Refill

IdleRefills ==
  Capacity <= Refill * Idle /\ SuspiciousCapacity <= SuspiciousRefill * Idle

-----------------------------------------------------------------------------
(* Arithmetic.                                                                *)
LEMMA MulAdd == \A R \in Nat, a, b \in Int : R * (a + b) = R * a + R * b
  OBVIOUS

LEMMA MulMono == \A R \in Nat, a, b \in Int : a <= b => R * a <= R * b
  OBVIOUS

LEMMA MulRate == \A q, R \in Nat, a \in Nat : q <= R => q * a <= R * a
  OBVIOUS

LEMMA MulNat == \A a, b \in Nat : a * b \in Nat
  OBVIOUS

LEMMA OneMore == \A g, c \in Nat : (g + 1) * c = g * c + c
  OBVIOUS

(* What a bucket has when its clock is moved on to s. *)
Full(tokens, last, s, C, R) == Minimum(tokens + R * (Maximum(last, s) - last), C)

(* The account of a bucket since s: what was granted, G, and what is left are *)
(* covered by the capacity C, the refill R and the ticks h that late requests *)
(* have set it back.                                                          *)
Covered(tokens, last, s, G, h, C, R) ==
  G + Full(tokens, last, s, C, R) <= C + R * (Maximum(last, s) - s + h)

(* A request with the time t on a bucket in use, before its cost is taken. *)
LEMMA RefillCovered ==
  ASSUME NEW C \in Nat, NEW R \in Nat, NEW cap \in Nat, NEW rf \in Nat, cap <= C, rf <= R,
         NEW tokens \in Nat, NEW last \in Nat, NEW s \in Nat, NEW t \in Nat,
         NEW G \in Nat, NEW h \in Nat,
         Covered(tokens, last, s, G, h, C, R)
  PROVE  LET base == Maximum(last, s)
             refilled == Minimum(tokens + rf * Maximum(t - last, 0), cap)
         IN G + refilled + R * (Maximum(t, s) - t)
              <= C + R * (Maximum(t, s) - s + h + Maximum(base - t, 0))
<1> DEFINE base == Maximum(last, s)
           passed == Maximum(t - last, 0)
           refilled == Minimum(tokens + rf * passed, cap)
           to == Maximum(t, s)
           full == Full(tokens, last, s, C, R)
<1>1. base \in Nat /\ passed \in Nat /\ to \in Nat /\ base >= last /\ base >= s /\ to >= t /\ to >= s
  BY DEF Maximum
<1>2. rf * passed <= R * passed /\ rf * passed \in Nat /\ R * passed \in Nat
  BY <1>1, MulRate, MulNat
<1>3. R * (base - last) \in Nat
  BY <1>1, MulNat
<1>4. full = Minimum(tokens + R * (base - last), C) /\ G + full <= C + R * (base - s + h)
  BY DEF Full, Covered
<1>5. CASE t >= base
  <2>1. to = t /\ passed = (base - last) + (t - base) /\ Maximum(base - t, 0) = 0
    BY <1>1, <1>5 DEF Maximum
  <2>2. R * passed = R * (base - last) + R * (t - base) /\ R * (t - base) \in Nat
    BY <1>1, <1>5, <2>1, MulAdd, MulNat
  <2>3. refilled <= full + R * (t - base)
    BY <1>2, <1>3, <1>4, <2>2 DEF Minimum
  <2>4. R * (to - s + h + 0) = R * (base - s + h) + R * (t - base)
    <3>1. to - s + h + 0 = (base - s + h) + (t - base)
      BY <1>1, <2>1
    <3> QED
      BY <1>1, <3>1, MulAdd
  <2>5. R * (to - t) = 0
    BY <2>1
  <2>6. refilled \in Nat /\ full \in Nat
    BY <1>2, <1>3, <1>4 DEF Minimum
  <2> HIDE DEF refilled, full, to, passed, base
  <2>7. R * (base - s + h) \in Int /\ R * (t - base) \in Int
    BY <1>1
  <2>8. G + refilled + R * (to - t) <= C + R * (to - s + h + 0)
    BY <1>4, <2>2, <2>3, <2>4, <2>5, <2>6, <2>7
  <2> QED
    BY <2>1, <2>8 DEF refilled, to, passed, base
<1>6. CASE t < base
  <2>1. Maximum(base - t, 0) = base - t
    BY <1>1, <1>6 DEF Maximum
  <2>2. passed <= base - last
    BY <1>1, <1>6 DEF Maximum
  <2>3. R * passed <= R * (base - last)
    BY <1>1, <2>2, MulMono
  <2>4. refilled <= full
    BY <1>2, <1>3, <1>4, <2>3 DEF Minimum
  <2>5. R * (to - s + h + (base - t)) = R * (base - s + h) + R * (to - t)
    <3>1. to - s + h + (base - t) = (base - s + h) + (to - t)
      BY <1>1
    <3> QED
      BY <1>1, <3>1, MulAdd
  <2>6. refilled \in Nat /\ full \in Nat
    BY <1>2, <1>3, <1>4 DEF Minimum
  <2> HIDE DEF refilled, full, to, passed, base
  <2>7. R * (base - s + h) \in Int /\ R * (to - t) \in Int
    BY <1>1
  <2>8. G + refilled + R * (to - t) <= C + R * (to - s + h + (base - t))
    BY <1>4, <2>4, <2>5, <2>6, <2>7
  <2> QED
    BY <2>1, <2>8 DEF refilled, to, passed, base
<1> QED
  BY <1>1, <1>5, <1>6

(* The same on a new bucket, if what was granted is covered by the time. *)
LEMMA NewCovered ==
  ASSUME NEW C \in Nat, NEW R \in Nat, NEW cap \in Nat, cap <= C,
         NEW s \in Nat, NEW t \in Nat, NEW G \in Nat, NEW h \in Nat, NEW now1 \in Nat,
         t <= now1, s <= now1, G <= R * (now1 - s + h)
  PROVE  G + cap + R * (Maximum(t, s) - t)
           <= C + R * (Maximum(t, s) - s + h + Maximum(now1 - t, 0))
<1> DEFINE to == Maximum(t, s)
<1>1. to \in Nat /\ Maximum(now1 - t, 0) = now1 - t
  BY DEF Maximum
<1>2. to - s + h + (now1 - t) = (now1 - s + h) + (to - t)
  BY <1>1
<1>3. R * (to - s + h + (now1 - t)) = R * (now1 - s + h) + R * (to - t)
  BY <1>1, <1>2, MulAdd
<1> HIDE DEF to
<1>4. R * (now1 - s + h) \in Int /\ R * (to - t) \in Int
  BY <1>1
<1>5. G + cap + R * (to - t) <= C + R * (to - s + h + (now1 - t))
  BY <1>3, <1>4
<1> QED
  BY <1>1, <1>5 DEF to

(* The cost is taken from what is granted later. *)
LEMMA StepCovered ==
  ASSUME NEW C \in Nat, NEW R \in Nat, NEW refilled \in Nat, refilled <= C,
         NEW s \in Nat, NEW t \in Nat, NEW g \in Nat, NEW h \in Nat, NEW tokens, NEW g1,
         \/ refilled >= Cost /\ tokens = refilled - Cost /\ g1 = g + 1
         \/ refilled < Cost /\ tokens = refilled /\ g1 = g,
         g * Cost + refilled + R * (Maximum(t, s) - t) <= C + R * (Maximum(t, s) - s + h)
  PROVE  /\ tokens \in Nat /\ tokens <= C /\ g1 \in Nat
         /\ Covered(tokens, t, s, g1 * Cost, h, C, R)
<1> DEFINE X == R * (Maximum(t, s) - t)
           Y == R * (Maximum(t, s) - s + h)
<1>1. X \in Nat /\ Y \in Int
  <2>1. Maximum(t, s) - t \in Nat /\ Maximum(t, s) - s + h \in Int
    BY DEF Maximum
  <2> QED
    BY <2>1, MulNat
<1>2. Cost \in Nat /\ g * Cost \in Nat
  BY LimitAssumption, MulNat
<1>3. tokens \in Nat /\ tokens <= C /\ g1 \in Nat
  BY <1>2
<1>4. g1 * Cost + tokens = g * Cost + refilled
  BY <1>2, OneMore
<1>5. g1 * Cost \in Nat
  BY <1>2, <1>3, MulNat
<1> HIDE DEF X, Y
<1>6. g * Cost + refilled + X <= C + Y
  BY DEF X, Y
<1>7. g1 * Cost + Minimum(tokens + X, C) <= C + Y
  BY <1>1, <1>2, <1>3, <1>4, <1>5, <1>6 DEF Minimum
<1> QED
  BY <1>3, <1>7 DEF Covered, Full, X, Y

-----------------------------------------------------------------------------
(* The state.                                                                 *)
StateTypes ==
  /\ clock \in Nat /\ start \in Nat /\ start <= clock
  /\ buckets \in [Nets -> {None} \cup Bucket]
  /\ verified \in [Nets -> {None} \cup Nat]
  /\ phase \in [Requests -> {"new", "timed", "judged", "done"}]
  /\ now \in [Requests -> Nat] /\ \A r \in Requests : now[r] <= clock
  /\ features \in [Requests -> {None} \cup FeatureSet]
  /\ \A r \in Requests : phase[r] \in {"timed", "judged"} => features[r] \in FeatureSet
  /\ from \in [Requests -> {None} \cup Arrivals]
  /\ suspicious \in [Requests -> BOOLEAN]
  /\ granted \in [Nets -> Nat] /\ behind \in [Nets -> Nat] /\ shown \in [Nets -> BOOLEAN]

(* A network with a bucket of at most C tokens, refilled by R, whose account  *)
(* is covered; without a bucket nothing was granted since the counting began. *)
Account(n, C, R) ==
  /\ buckets[n] = None => granted[n] = 0
  /\ buckets[n] # None =>
       /\ buckets[n].tokens <= C
       /\ buckets[n].last <= buckets[n].touched /\ buckets[n].touched <= clock
       /\ buckets[n].touched < start => granted[n] = 0
       /\ Covered(buckets[n].tokens, buckets[n].last, start, granted[n] * Cost, behind[n], C, R)

(* The decision of a request whose network has not shown the token is that it *)
(* is suspicious, whatever happened since it was taken.                       *)
UnshownSuspicious ==
  /\ \A n \in Nets : ~shown[n] => verified[n] = None
  /\ \A r \in Requests :
       Config.link_token /\ phase[r] = "judged" /\ from[r].address \in Nets /\ ~shown[from[r].address]
         => suspicious[r]

Unshown(n) == Config.link_token /\ ~shown[n]

AllAccounts == \A n \in Nets : Account(n, Capacity, Refill)
UnshownAccounts == \A n \in Nets : Unshown(n) => Account(n, SuspiciousCapacity, SuspiciousRefill)

LimiterInv == StateTypes /\ UnshownSuspicious /\ AllAccounts /\ UnshownAccounts

(* An account in balance keeps within the bound. *)
LEMMA AccountBound ==
  ASSUME StateTypes, NEW n \in Nets, NEW C \in Nat, NEW R \in Nat, Account(n, C, R)
  PROVE  granted[n] * Cost <= C + R * (clock - start + behind[n])
<1>1. Cost \in Nat /\ granted[n] \in Nat /\ behind[n] \in Nat /\ clock - start \in Nat
  BY LimitAssumption DEF StateTypes
<1>2. CASE granted[n] = 0
  <2>1. R * (clock - start + behind[n]) \in Nat /\ granted[n] * Cost = 0
    BY <1>1, <1>2, MulNat
  <2> QED
    BY <2>1
<1>3. CASE buckets[n] # None
  <2> DEFINE b == buckets[n]
             base == Maximum(b.last, start)
             full == Full(b.tokens, b.last, start, C, R)
  <2>1. b \in Bucket /\ b.last <= clock
    BY <1>3 DEF StateTypes, Account, Bucket
  <2>2. base \in Nat /\ base <= clock /\ base - b.last \in Nat /\ base >= start
    BY <2>1 DEF Maximum, StateTypes, Bucket
  <2>3. full \in Nat
    <3>1. R * (base - b.last) \in Nat
      BY <2>2, MulNat
    <3> QED
      BY <2>1, <3>1 DEF Full, Minimum, Bucket
  <2>4. granted[n] * Cost + full <= C + R * (base - start + behind[n])
    BY <1>3 DEF Account, Covered
  <2>5. R * (base - start + behind[n]) <= R * (clock - start + behind[n])
    BY <1>1, <2>2, MulMono DEF StateTypes
  <2>6. granted[n] * Cost \in Nat
    BY <1>1, MulNat
  <2>7. R * (base - start + behind[n]) \in Int /\ R * (clock - start + behind[n]) \in Int
    BY <1>1, <2>2 DEF StateTypes
  <2> HIDE DEF full, base
  <2> QED
    BY <2>3, <2>4, <2>5, <2>6, <2>7
<1> QED
  BY <1>2, <1>3 DEF Account

(* Time keeps an account in balance. *)
LEMMA AccountKept ==
  ASSUME StateTypes, NEW n \in Nets, NEW C \in Nat, NEW R \in Nat, Account(n, C, R),
         buckets'[n] = buckets[n], granted'[n] = granted[n], behind'[n] = behind[n],
         start' = start, clock' \in {clock, clock + 1}
  PROVE  Account(n, C, R)'
  BY DEF Account, StateTypes, Bucket

(* Whoever begins to count begins with a balance. *)
LEMMA AccountRestarted ==
  ASSUME StateTypes, NEW n \in Nets, NEW C \in Nat, NEW R \in Nat, Account(n, C, R),
         buckets'[n] = buckets[n] \/ buckets'[n] = None, Restart, clock' = clock
  PROVE  Account(n, C, R)'
<1>1. granted'[n] = 0 /\ behind'[n] = 0 /\ start' = clock
  BY DEF Restart
<1>2. CASE buckets'[n] = None
  BY <1>1, <1>2 DEF Account
<1>3. CASE buckets'[n] # None
  <2> DEFINE b == buckets[n]
  <2>1. buckets'[n] = b /\ b \in Bucket /\ b.last <= clock /\ b.touched <= clock /\ b.tokens <= C
        /\ b.last <= b.touched
    BY <1>3 DEF Account, StateTypes, Bucket
  <2>2. Maximum(b.last, clock) = clock
    <3>1. b.last \in Nat /\ clock \in Nat /\ b.last <= clock
      BY <2>1 DEF StateTypes, Bucket
    <3> HIDE DEF b
    <3> QED
      BY <3>1 DEF Maximum
  <2>3. R * (clock - b.last) \in Nat
    BY <2>1, MulNat DEF StateTypes, Bucket
  <2>4. Full(b.tokens, b.last, clock, C, R) <= C
    BY <2>1, <2>2, <2>3 DEF Full, Minimum, Bucket
  <2>5. 0 * Cost = 0 /\ R * (clock - clock + 0) = 0
    BY LimitAssumption DEF StateTypes
  <2>6. Full(b.tokens, b.last, clock, C, R) \in Int
    BY <2>1, <2>2, <2>3 DEF Full, Minimum, Bucket
  <2>7. Covered(b.tokens, b.last, clock, 0 * Cost, 0, C, R)
    BY <2>2, <2>4, <2>5, <2>6 DEF Covered
  <2> QED
    BY <1>1, <1>3, <2>1, <2>7 DEF Account
<1> QED
  BY <1>2, <1>3

(* A charge, whose parameters are within C and R. *)
LEMMA AccountCharged ==
  ASSUME StateTypes, NoneIsNoState, NEW n \in Nets, NEW C \in Nat, NEW R \in Nat,
         Account(n, C, R), C <= R * Idle,
         NEW r \in Requests, Charge(r), from[r].address = n,
         ~(features[r].link_local /\ ~Config.filter_link_local),
         CapacityFor(suspicious[r]) <= C, RefillFor(suspicious[r]) <= R
  PROVE  /\ Account(n, C, R)'
         /\ buckets'[n] \in Bucket /\ granted'[n] \in Nat /\ behind'[n] \in Nat
<1> DEFINE t == now[r]
           b == buckets[n]
           cap == CapacityFor(suspicious[r])
           rf == RefillFor(suspicious[r])
           prev == IF BucketLive(n) THEN b ELSE [tokens |-> cap, last |-> t]
           due == IF BucketLive(n) THEN Maximum(prev.last, start) ELSE clock
           refilled == Minimum(prev.tokens + rf * Maximum(t - prev.last, 0), cap)
           next == step(prev, cap, rf, t, Cost)
           h1 == behind[n] + Maximum(due - t, 0)
           g1 == IF next.allowed THEN granted[n] + 1 ELSE granted[n]
<1>1. /\ cap \in Nat /\ rf \in Nat /\ t \in Nat /\ t <= clock /\ clock \in Nat /\ start \in Nat
      /\ start <= clock /\ granted[n] \in Nat /\ behind[n] \in Nat /\ Cost \in Nat /\ Idle \in Nat
  BY LimitAssumption DEF StateTypes, CapacityFor, RefillFor
<1>2. /\ buckets' = [buckets EXCEPT ![n] = [tokens |-> next.tokens, last |-> next.last, touched |-> clock]]
      /\ behind' = [behind EXCEPT ![n] = @ + Maximum(due - t, 0)]
      /\ granted' = IF next.allowed THEN [granted EXCEPT ![n] = @ + 1] ELSE granted
      /\ clock' = clock /\ start' = start
  BY DEF Charge
<1>3. /\ buckets'[n] = [tokens |-> next.tokens, last |-> next.last, touched |-> clock]
      /\ behind'[n] = h1 /\ granted'[n] = g1
  BY <1>2 DEF StateTypes
<1>4. /\ next.last = t
      /\ \/ refilled >= Cost /\ next.allowed /\ next.tokens = refilled - Cost
         \/ ~(refilled >= Cost) /\ ~next.allowed /\ next.tokens = refilled
  BY DEF step
<1>5. granted[n] * Cost \in Nat
  BY <1>1, MulNat
<1>6. /\ refilled \in Nat /\ h1 \in Nat
      /\ granted[n] * Cost + refilled + R * (Maximum(t, start) - t)
           <= C + R * (Maximum(t, start) - start + h1)
  <2>1. CASE BucketLive(n)
    <3>1. b \in Bucket /\ b # None /\ prev = b /\ due = Maximum(b.last, start)
      BY <2>1 DEF BucketLive, StateTypes
    <3>2. b.tokens \in Nat /\ b.last \in Nat
      BY <3>1 DEF Bucket
    <3>3. Covered(b.tokens, b.last, start, granted[n] * Cost, behind[n], C, R)
      BY <3>1 DEF Account
    <3>r. refilled = Minimum(b.tokens + rf * Maximum(t - b.last, 0), cap)
      BY <3>1
    <3>4. granted[n] * Cost + refilled + R * (Maximum(t, start) - t)
            <= C + R * (Maximum(t, start) - start + behind[n] + Maximum(due - t, 0))
      <4> HIDE DEF refilled, due, prev, b, cap, rf, t
      <4>1. LET base == Maximum(b.last, start)
                new == Minimum(b.tokens + rf * Maximum(t - b.last, 0), cap)
            IN granted[n] * Cost + new + R * (Maximum(t, start) - t)
                 <= C + R * (Maximum(t, start) - start + behind[n] + Maximum(base - t, 0))
        <5>1. cap <= C /\ rf <= R
          BY DEF cap, rf
        <5> QED
          BY <1>1, <1>5, <3>2, <3>3, <5>1, RefillCovered
      <4> QED
        BY <3>1, <3>r, <4>1
    <3>5. Maximum(t, start) - start + behind[n] + Maximum(due - t, 0)
            = Maximum(t, start) - start + h1 /\ h1 \in Nat
      BY <1>1, <3>1, <3>2 DEF Maximum
    <3>6. refilled \in Nat
      <4>1. Maximum(t - b.last, 0) \in Nat
        BY <1>1, <3>2 DEF Maximum
      <4>2. rf * Maximum(t - b.last, 0) \in Nat
        BY <1>1, <4>1, MulNat
      <4> QED
        BY <1>1, <3>1, <3>2, <4>2 DEF Minimum
    <3> QED
      BY <3>4, <3>5, <3>6
  <2>2. CASE ~BucketLive(n)
    <3>1. prev.tokens = cap /\ prev.last = t /\ due = clock
      BY <2>2
    <3>2. Maximum(t - t, 0) = 0 /\ rf * 0 = 0
      BY <1>1 DEF Maximum
    <3>3. refilled = cap
      BY <1>1, <3>1, <3>2 DEF Minimum
    <3>4. clock - start + behind[n] \in Nat
      BY <1>1
    <3>5. granted[n] * Cost <= R * (clock - start + behind[n])
      <4>1. CASE granted[n] = 0
        <5>1. granted[n] * Cost = 0 /\ R * (clock - start + behind[n]) \in Nat
          BY <1>1, <3>4, <4>1, MulNat
        <5> QED
          BY <5>1
      <4>2. CASE granted[n] # 0
        <5> DEFINE base == Maximum(b.last, start)
                   full == Full(b.tokens, b.last, start, C, R)
        <5>1. b # None /\ b \in Bucket /\ b.touched >= start /\ b.touched <= clock
              /\ b.last <= b.touched /\ clock >= b.touched + Idle
          BY <1>1, <2>2, <4>2 DEF Account, StateTypes, BucketLive, Bucket
        <5>2. base \in Nat /\ base >= start /\ clock - base >= Idle /\ base - b.last \in Nat
          BY <1>1, <5>1 DEF Maximum, Bucket
        <5>3. granted[n] * Cost + full <= C + R * (base - start + behind[n])
          BY <5>1 DEF Account, Covered
        <5>4. full \in Nat
          <6>1. R * (base - b.last) \in Nat
            BY <5>2, MulNat
          <6> QED
            BY <5>1, <6>1 DEF Full, Minimum, Bucket
        <5>5. C <= R * (clock - base)
          <6>1. R * Idle <= R * (clock - base)
            BY <1>1, <5>2, MulMono
          <6>2. R * Idle \in Int /\ R * (clock - base) \in Int
            BY <1>1, <5>2
          <6> QED
            BY <6>1, <6>2
        <5>6. R * (clock - start + behind[n]) = R * (clock - base) + R * (base - start + behind[n])
          <6>1. clock - start + behind[n] = (clock - base) + (base - start + behind[n])
            BY <1>1, <5>2
          <6> QED
            BY <1>1, <5>2, <6>1, MulAdd
        <5>7. R * (clock - base) \in Int /\ R * (base - start + behind[n]) \in Int
          BY <1>1, <5>2
        <5> HIDE DEF full, base
        <5> QED
          BY <1>5, <5>3, <5>4, <5>5, <5>6, <5>7
      <4> QED
        BY <4>1, <4>2
    <3>6. granted[n] * Cost + cap + R * (Maximum(t, start) - t)
            <= C + R * (Maximum(t, start) - start + behind[n] + Maximum(clock - t, 0))
      BY <1>1, <1>5, <3>5, NewCovered
    <3>7. Maximum(t, start) - start + behind[n] + Maximum(due - t, 0)
            = Maximum(t, start) - start + h1 /\ h1 \in Nat
      BY <1>1, <3>1 DEF Maximum
    <3> QED
      BY <1>1, <3>1, <3>3, <3>6, <3>7
  <2> QED
    BY <2>1, <2>2
<1>7. refilled <= C
  BY <1>1, <1>6 DEF Minimum
<1>8. /\ next.tokens \in Nat /\ next.tokens <= C
      /\ Covered(next.tokens, t, start, g1 * Cost, h1, C, R)
  <2> HIDE DEF refilled, h1, next
  <2>1. \/ refilled >= Cost /\ next.tokens = refilled - Cost /\ g1 = granted[n] + 1
        \/ refilled < Cost /\ next.tokens = refilled /\ g1 = granted[n]
    BY <1>1, <1>4, <1>6
  <2> DEFINE left == next.tokens
  <2>2. \/ refilled >= Cost /\ left = refilled - Cost /\ g1 = granted[n] + 1
        \/ refilled < Cost /\ left = refilled /\ g1 = granted[n]
    BY <2>1
  <2> HIDE DEF g1, t, left
  <2>3. /\ t \in Nat /\ start \in Nat /\ granted[n] \in Nat /\ h1 \in Nat /\ refilled \in Nat
        /\ granted[n] * Cost + refilled + R * (Maximum(t, start) - t)
             <= C + R * (Maximum(t, start) - start + h1)
    BY <1>1, <1>6
  <2>4. left \in Nat /\ left <= C /\ Covered(left, t, start, g1 * Cost, h1, C, R)
    BY <1>7, <2>2, <2>3, StepCovered
  <2> QED
    BY <2>4 DEF left
<1>9. buckets'[n] \in Bucket /\ buckets'[n] # None
  <2>1. buckets'[n] \in Bucket
    BY <1>1, <1>3, <1>4, <1>8 DEF Bucket
  <2> QED
    BY <2>1 DEF NoneIsNoState
<1>10. granted'[n] \in Nat /\ behind'[n] \in Nat
  BY <1>1, <1>3, <1>6
<1>11. Account(n, C, R)'
  BY <1>1, <1>2, <1>3, <1>4, <1>8, <1>9 DEF Account
<1> QED
  BY <1>9, <1>10, <1>11

(* What a decision does to the types. *)
LEMMA DecideTypes ==
  ASSUME StateTypes, NEW r \in Requests, NEW d, Decide(r, d), clock' = clock
  PROVE  /\ phase' \in [Requests -> {"new", "timed", "judged", "done"}]
         /\ now' \in [Requests -> Nat] /\ \A q \in Requests : now'[q] <= clock'
         /\ features' \in [Requests -> {None} \cup FeatureSet]
         /\ \A q \in Requests : phase'[q] \in {"timed", "judged"} => features'[q] \in FeatureSet
         /\ from' \in [Requests -> {None} \cup Arrivals]
         /\ suspicious' \in [Requests -> BOOLEAN]
         /\ \A q \in Requests : phase'[q] = "judged" =>
              q # r /\ phase[q] = "judged" /\ from'[q] = from[q] /\ suspicious'[q] = suspicious[q]
<1>1. \A q \in Requests : phase'[q] = IF q = r THEN "done" ELSE phase[q]
  BY DEF Decide, StateTypes
<1>2. \A q \in Requests : now'[q] = IF q = r THEN 0 ELSE now[q]
  BY DEF Decide, StateTypes
<1>3. \A q \in Requests : q # r => features'[q] = features[q] /\ suspicious'[q] = suspicious[q]
  BY DEF Decide, StateTypes
<1>4. \A q \in Requests : q # r => from'[q] = from[q]
  BY <1>1 DEF Decide, StateTypes
<1>5. /\ phase' \in [Requests -> {"new", "timed", "judged", "done"}]
      /\ now' \in [Requests -> Nat]
      /\ features' \in [Requests -> {None} \cup FeatureSet]
      /\ from' \in [Requests -> {None} \cup Arrivals]
      /\ suspicious' \in [Requests -> BOOLEAN]
  BY DEF Decide, StateTypes
<1>6. \A q \in Requests : now'[q] <= clock'
  BY <1>2 DEF StateTypes
<1> QED
  BY <1>1, <1>3, <1>4, <1>5, <1>6 DEF StateTypes

Limits == NoneIsNoState /\ SuspicionIsStricter /\ IdleRefills

(* Steps that charge nobody and begin no count. *)
LEMMA AccountsKept ==
  ASSUME LimiterInv, UNCHANGED <<buckets, granted, behind, start>>, clock' \in {clock, clock + 1},
         \A n \in Nets : Unshown(n)' => Unshown(n)
  PROVE  AllAccounts' /\ UnshownAccounts'
<1>1. ASSUME NEW n \in Nets PROVE Account(n, Capacity, Refill)'
  BY <1>1, LimitAssumption, AccountKept DEF LimiterInv, AllAccounts
<1>2. ASSUME NEW n \in Nets, Unshown(n)' PROVE Account(n, SuspiciousCapacity, SuspiciousRefill)'
  BY <1>2, LimitAssumption, AccountKept DEF LimiterInv, UnshownAccounts
<1> QED
  BY <1>1, <1>2 DEF AllAccounts, UnshownAccounts

(* An observer begins to count. *)
LEMMA AccountsRestarted ==
  ASSUME LimiterInv, \A n \in Nets : buckets'[n] = buckets[n] \/ buckets'[n] = None,
         Restart, UNCHANGED <<clock, shown>>
  PROVE  AllAccounts' /\ UnshownAccounts'
<1>1. ASSUME NEW n \in Nets PROVE Account(n, Capacity, Refill)'
  BY <1>1, LimitAssumption, AccountRestarted DEF LimiterInv, AllAccounts
<1>2. ASSUME NEW n \in Nets, Unshown(n)' PROVE Account(n, SuspiciousCapacity, SuspiciousRefill)'
  <2>1. Unshown(n)
    BY <1>2 DEF Unshown
  <2> QED
    BY <2>1, LimitAssumption, AccountRestarted DEF LimiterInv, UnshownAccounts
<1> QED
  BY <1>1, <1>2 DEF AllAccounts, UnshownAccounts

(* A decision that is taken without a charge. *)
LEMMA DecideInv ==
  ASSUME LimiterInv, NEW r \in Requests, NEW d, Decide(r, d),
         UNCHANGED <<clock, buckets, verified, history, shown>>
  PROVE  LimiterInv'
<1>1. StateTypes'
  BY DecideTypes DEF LimiterInv, StateTypes, history
<1>2. UnshownSuspicious'
  BY DecideTypes DEF LimiterInv, UnshownSuspicious
<1>3. AllAccounts' /\ UnshownAccounts'
  BY AccountsKept DEF history, Unshown
<1> QED
  BY <1>1, <1>2, <1>3 DEF LimiterInv

LEMMA ArriveInv ==
  ASSUME LimiterInv, NEW r \in Requests, NEW f \in Features, NEW a \in Arrivals, Arrive(r, f, a)
  PROVE  LimiterInv'
<1>1. CASE EarlyDecision(f) = "meter"
  <2>1. /\ phase' = [phase EXCEPT ![r] = "timed"] /\ features' = [features EXCEPT ![r] = f]
        /\ from' = [from EXCEPT ![r] = a] /\ now' = [now EXCEPT ![r] = clock]
        /\ UNCHANGED <<suspicious, clock, buckets, verified, history, shown>>
    BY <1>1 DEF Arrive
  <2>2. f \in FeatureSet
    BY FeaturesAssumption
  <2>3. StateTypes'
    BY <2>1, <2>2 DEF LimiterInv, StateTypes, history
  <2>4. UnshownSuspicious'
    BY <2>1 DEF LimiterInv, StateTypes, UnshownSuspicious
  <2>5. AllAccounts' /\ UnshownAccounts'
    BY <2>1, AccountsKept DEF history, Unshown
  <2> QED
    BY <2>3, <2>4, <2>5 DEF LimiterInv
<1>2. CASE EarlyDecision(f) # "meter"
  BY <1>2, DecideInv DEF Arrive
<1> QED
  BY <1>1, <1>2

LEMMA JudgeInv ==
  ASSUME LimiterInv, NoneIsNoState, NEW r \in Requests, Judge(r)
  PROVE  LimiterInv'
<1> DEFINE n == from[r].address
           token == features[r].token
           asked == Config.link_token /\ ~VerifiedLive(n)
<1>1. token \in BOOLEAN
  BY DEF Judge, LimiterInv, StateTypes, FeatureSet
<1>2. /\ phase' = [phase EXCEPT ![r] = "judged"]
      /\ suspicious' = [suspicious EXCEPT ![r] = IF asked THEN ~token ELSE FALSE]
      /\ verified' = IF asked /\ token THEN [verified EXCEPT ![n] = clock] ELSE verified
      /\ shown' = IF token THEN [shown EXCEPT ![n] = TRUE] ELSE shown
      /\ UNCHANGED <<clock, buckets, now, features, from, history>>
  BY DEF Judge
<1>3. /\ verified' \in [Nets -> {None} \cup Nat] /\ shown' \in [Nets -> BOOLEAN]
      /\ suspicious' \in [Requests -> BOOLEAN]
  BY <1>1, <1>2 DEF LimiterInv, StateTypes
<1>4. StateTypes'
  BY <1>2, <1>3 DEF LimiterInv, StateTypes, Judge, history
<1>5. \A m \in Nets : shown'[m] = (shown[m] \/ (token /\ m = n))
  BY <1>1, <1>2 DEF LimiterInv, StateTypes
<1>6. \A m \in Nets : verified'[m] = verified[m] \/ (token /\ m = n)
  BY <1>1, <1>2 DEF LimiterInv, StateTypes
<1>7. UnshownSuspicious'
  <2>1. ASSUME NEW m \in Nets, ~shown'[m] PROVE verified'[m] = None
    BY <1>5, <1>6, <2>1 DEF LimiterInv, UnshownSuspicious
  <2>2. ASSUME NEW q \in Requests, Config.link_token, phase'[q] = "judged",
               from[q].address \in Nets, ~shown'[from[q].address]
        PROVE  suspicious'[q]
    <3>1. ~shown[from[q].address]
      BY <1>5, <2>2
    <3>2. CASE q = r
      <4>1. ~token /\ verified[n] = None
        BY <1>1, <1>5, <2>2, <3>1, <3>2 DEF LimiterInv, UnshownSuspicious
      <4>2. asked
        BY <2>2, <4>1 DEF VerifiedLive
      <4> QED
        BY <1>2, <3>2, <4>1, <4>2 DEF LimiterInv, StateTypes
    <3>3. CASE q # r
      <4>1. phase[q] = "judged" /\ suspicious'[q] = suspicious[q]
        BY <1>2, <2>2, <3>3 DEF LimiterInv, StateTypes
      <4> QED
        BY <2>2, <3>1, <4>1 DEF LimiterInv, UnshownSuspicious
    <3> QED
      BY <3>2, <3>3
  <2> QED
    BY <1>2, <2>1, <2>2 DEF UnshownSuspicious
<1>8. AllAccounts' /\ UnshownAccounts'
  BY <1>2, <1>5, AccountsKept DEF history, Unshown
<1> QED
  BY <1>4, <1>7, <1>8 DEF LimiterInv

LEMMA ChargeInv ==
  ASSUME LimiterInv, Limits, NEW r \in Requests, Charge(r)
  PROVE  LimiterInv'
<1> PICK n : n = from[r].address
  OBVIOUS
<1> DEFINE exempt == features[r].link_local /\ ~Config.filter_link_local
<1>1. CASE exempt
  BY <1>1, DecideInv DEF Charge, history
<1>2. CASE ~exempt
  <2>1. PICK d : Decide(r, d)
    BY DEF Charge
  <2>2. UNCHANGED <<clock, verified, start, shown>> /\ phase[r] = "judged"
    BY DEF Charge
  <2>3. \A m \in Nets \ {n} : /\ buckets'[m] = buckets[m] /\ granted'[m] = granted[m]
                             /\ behind'[m] = behind[m]
    BY <1>2 DEF Charge, LimiterInv, StateTypes
  <2>4. CapacityFor(suspicious[r]) <= Capacity /\ RefillFor(suspicious[r]) <= Refill
    BY LimitAssumption DEF Limits, SuspicionIsStricter, CapacityFor, RefillFor
  <2>5. n \in Nets =>
          /\ Account(n, Capacity, Refill)'
          /\ buckets'[n] \in Bucket /\ granted'[n] \in Nat /\ behind'[n] \in Nat
    BY <1>2, <2>4, LimitAssumption, AccountCharged
       DEF LimiterInv, AllAccounts, Limits, IdleRefills
  <2>6. n \in Nets /\ Unshown(n)' => Account(n, SuspiciousCapacity, SuspiciousRefill)'
    <3> SUFFICES ASSUME n \in Nets, Unshown(n) PROVE Account(n, SuspiciousCapacity, SuspiciousRefill)'
      BY <2>2 DEF Unshown
    <3>1. suspicious[r]
      BY <2>2 DEF LimiterInv, UnshownSuspicious, Unshown
    <3>2. CapacityFor(suspicious[r]) = SuspiciousCapacity /\ RefillFor(suspicious[r]) = SuspiciousRefill
      BY <3>1 DEF CapacityFor, RefillFor
    <3> QED
      BY <1>2, <3>2, LimitAssumption, AccountCharged
         DEF LimiterInv, UnshownAccounts, Limits, IdleRefills
  <2>7. ASSUME NEW m \in Nets, m # n, NEW C \in Nat, NEW R \in Nat, Account(m, C, R)
        PROVE  Account(m, C, R)'
    BY <2>2, <2>3, <2>7, AccountKept DEF LimiterInv
  <2>8. StateTypes'
    <3>1. /\ buckets' \in [Nets -> {None} \cup Bucket]
          /\ granted' \in [Nets -> Nat] /\ behind' \in [Nets -> Nat]
      <4>1. /\ DOMAIN buckets' = Nets /\ buckets' = [m \in Nets |-> buckets'[m]]
            /\ DOMAIN granted' = Nets /\ granted' = [m \in Nets |-> granted'[m]]
            /\ DOMAIN behind' = Nets /\ behind' = [m \in Nets |-> behind'[m]]
        BY <1>2 DEF Charge, LimiterInv, StateTypes
      <4>2. \A m \in Nets : /\ buckets'[m] \in {None} \cup Bucket
                            /\ granted'[m] \in Nat /\ behind'[m] \in Nat
        BY <2>3, <2>5 DEF LimiterInv, StateTypes
      <4> QED
        BY <4>1, <4>2
    <3> QED
      BY <2>1, <2>2, <3>1, DecideTypes DEF LimiterInv, StateTypes
  <2>9. UnshownSuspicious'
    BY <2>1, <2>2, DecideTypes DEF LimiterInv, UnshownSuspicious
  <2>10. AllAccounts'
    BY <2>5, <2>7, LimitAssumption DEF LimiterInv, AllAccounts
  <2>11. UnshownAccounts'
    <3> SUFFICES ASSUME NEW m \in Nets, Unshown(m)'
                 PROVE  Account(m, SuspiciousCapacity, SuspiciousRefill)'
      BY DEF UnshownAccounts
    <3>1. Unshown(m)
      BY <2>2 DEF Unshown
    <3> QED
      BY <2>6, <2>7, <3>1, LimitAssumption DEF LimiterInv, UnshownAccounts
  <2> QED
    BY <2>8, <2>9, <2>10, <2>11 DEF LimiterInv
<1> QED
  BY <1>1, <1>2

LEMMA LimiterStep == Limits /\ LimiterInv /\ [Next]_vars => LimiterInv'
<1> SUFFICES ASSUME Limits, LimiterInv, [Next]_vars PROVE LimiterInv'
  OBVIOUS
<1>1. ASSUME NEW r \in Requests, NEW f \in Features, NEW a \in Arrivals, Arrive(r, f, a)
      PROVE  LimiterInv'
  BY <1>1, ArriveInv
<1>2. ASSUME NEW r \in Requests, NoClientAddress(r) PROVE LimiterInv'
  BY <1>2, DecideInv DEF NoClientAddress
<1>3. ASSUME NEW r \in Requests, Judge(r) PROVE LimiterInv'
  BY <1>3, JudgeInv DEF Limits
<1>4. ASSUME NEW r \in Requests, Charge(r) PROVE LimiterInv'
  BY <1>4, ChargeInv
<1>5. ASSUME NEW n, Ping(n) PROVE LimiterInv'
  <2>1. \A m \in Nets : shown'[m] = (shown[m] \/ m = n) /\ (m # n => verified'[m] = verified[m])
    BY <1>5 DEF Ping, LimiterInv, StateTypes
  <2>2. StateTypes'
    BY <1>5 DEF Ping, LimiterInv, StateTypes, history
  <2>3. UnshownSuspicious'
    BY <1>5, <2>1 DEF Ping, LimiterInv, UnshownSuspicious
  <2>4. AllAccounts' /\ UnshownAccounts'
    BY <1>5, <2>1, AccountsKept DEF Ping, history, Unshown
  <2> QED
    BY <2>2, <2>3, <2>4 DEF LimiterInv
<1>6. ASSUME NEW n \in Nets, EvictBucket(n) PROVE LimiterInv'
  <2>1. StateTypes'
    BY <1>6 DEF EvictBucket, Restart, LimiterInv, StateTypes
  <2>2. UnshownSuspicious'
    BY <1>6 DEF EvictBucket, LimiterInv, UnshownSuspicious
  <2>3. \A m \in Nets : buckets'[m] = buckets[m] \/ buckets'[m] = None
    BY <1>6 DEF EvictBucket, LimiterInv, StateTypes
  <2>4. AllAccounts' /\ UnshownAccounts'
    BY <1>6, <2>3, AccountsRestarted DEF EvictBucket
  <2> QED
    BY <2>1, <2>2, <2>4 DEF LimiterInv
<1>7. ASSUME NEW n \in Nets, EvictVerified(n) PROVE LimiterInv'
  <2>1. StateTypes'
    BY <1>7 DEF EvictVerified, LimiterInv, StateTypes, history
  <2>2. UnshownSuspicious'
    BY <1>7 DEF EvictVerified, LimiterInv, StateTypes, UnshownSuspicious
  <2>3. AllAccounts' /\ UnshownAccounts'
    BY <1>7, AccountsKept DEF EvictVerified, history, Unshown
  <2> QED
    BY <2>1, <2>2, <2>3 DEF LimiterInv
<1>8. CASE Tick
  <2>1. StateTypes'
    BY <1>8 DEF Tick, LimiterInv, StateTypes, history
  <2>2. UnshownSuspicious'
    BY <1>8 DEF Tick, LimiterInv, UnshownSuspicious
  <2>3. AllAccounts' /\ UnshownAccounts'
    BY <1>8, AccountsKept DEF Tick, history, Unshown
  <2> QED
    BY <2>1, <2>2, <2>3 DEF LimiterInv
<1>9. CASE Observe
  <2>1. StateTypes'
    BY <1>9 DEF Observe, Restart, LimiterInv, StateTypes
  <2>2. UnshownSuspicious'
    BY <1>9 DEF Observe, LimiterInv, UnshownSuspicious
  <2>3. AllAccounts' /\ UnshownAccounts'
    BY <1>9, AccountsRestarted DEF Observe
  <2> QED
    BY <2>1, <2>2, <2>3 DEF LimiterInv
<1>10. CASE UNCHANGED vars
  <2>1. StateTypes' /\ UnshownSuspicious'
    BY <1>10 DEF vars, LimiterInv, StateTypes, UnshownSuspicious
  <2>2. AllAccounts' /\ UnshownAccounts'
    BY <1>10, AccountsKept DEF vars, Unshown
  <2> QED
    BY <2>1, <2>2 DEF LimiterInv
<1> QED
  BY <1>1, <1>2, <1>3, <1>4, <1>5, <1>6, <1>7, <1>8, <1>9, <1>10 DEF Next

LEMMA LimiterInvariance == ASSUME Limits PROVE Spec => []LimiterInv
<1>1. Init => LimiterInv
  BY DEF Init, LimiterInv, StateTypes, UnshownSuspicious, AllAccounts, UnshownAccounts, Account
<1>2. LimiterInv /\ [Next]_vars => LimiterInv'
  BY LimiterStep
<1> QED
  BY <1>1, <1>2, PTL DEF Spec

(***************************************************************************)
(* No network ever gets more requests through than the configured rate     *)
(* allows, but for the time that requests overtaken on their way to the    *)
(* lock let be refilled twice.                                             *)
(***************************************************************************)
THEOREM Rate == ASSUME Limits PROVE Spec => []GrantsWithinRate
<1>1. LimiterInv => GrantsWithinRate
  BY LimitAssumption, AccountBound DEF LimiterInv, AllAccounts, GrantsWithinRate
<1> QED
  BY <1>1, LimiterInvariance, PTL

(***************************************************************************)
(* A network that has never shown the link token is held to the lower rate *)
(* although its requests are judged and charged in different steps.        *)
(***************************************************************************)
THEOREM SuspiciousRate == ASSUME Limits PROVE Spec => []UnverifiedWithinSuspiciousRate
<1>1. LimiterInv => UnverifiedWithinSuspiciousRate
  BY LimitAssumption, AccountBound
     DEF LimiterInv, UnshownAccounts, Unshown, UnverifiedWithinSuspiciousRate
<1> QED
  BY <1>1, LimiterInvariance, PTL

-----------------------------------------------------------------------------
(* Induction over the natural numbers, for a set.                             *)
Before == {ss \in Nat \X Nat : ss[1] < ss[2]}

LEMMA Smallest ==
  ASSUME NEW T \in SUBSET Nat, T # {}
  PROVE  \E x \in T : \A y \in T : x <= y
<1>1. IsWellFoundedOn(Before, Nat)
  BY NatLessThanWellFounded, Zenon DEF OpToRel, Before
<1>2. PICK x \in T : \A y \in T : ~ (<<y, x>> \in Before)
  BY <1>1, WFMin
<1>3. ASSUME NEW y \in T PROVE x <= y
  <2>1. x \in Nat /\ y \in Nat /\ <<y, x>> \in Nat \X Nat
    OBVIOUS
  <2>2. ~ (y < x)
    BY <1>2, <2>1 DEF Before
  <2> QED
    BY <2>1, <2>2
<1> QED
  BY <1>3

LEMMA Induction ==
  ASSUME NEW T \in SUBSET Nat, 0 \in T, \A n \in Nat : n \in T => n + 1 \in T
  PROVE  \A n \in Nat : n \in T
<1> SUFFICES ASSUME Nat \ T # {} PROVE FALSE
  OBVIOUS
<1>1. PICK x \in Nat \ T : \A y \in Nat \ T : x <= y
  BY Smallest
<1>2. x # 0 /\ x - 1 \in Nat /\ x - 1 \notin Nat \ T
  BY <1>1
<1> QED
  BY <1>1, <1>2

-----------------------------------------------------------------------------
(* Requests come from clients that are no proxies.                            *)
NoClientIsTrusted == None \notin Addrs /\ \A c \in Clients : normalize(c) \notin Trusted

Direct == {t \in Departures : t.sender = t.client}
PassedOn(routes) == routes \cup {Forward(t, p) : t \in routes, p \in Proxies}
Hops(f, n) == f = [h \in 0..n |-> IF h = 0 THEN Direct ELSE PassedOn(f[h - 1])]

LEMMA HopsExist == \A n \in Nat : \E f : Hops(f, n)
<1> DEFINE T == {n \in Nat : \E f : Hops(f, n)}
<1>1. 0 \in T
  <2>1. Hops([h \in 0..0 |-> Direct], 0)
    BY DEF Hops
  <2> QED
    BY <2>1
<1>2. ASSUME NEW n \in T PROVE n + 1 \in T
  <2>1. PICK f : Hops(f, n)
    OBVIOUS
  <2> DEFINE g == [h \in 0..(n + 1) |-> IF h = n + 1 THEN PassedOn(f[n]) ELSE f[h]]
  <2>2. ASSUME NEW h \in 0..(n + 1)
        PROVE  g[h] = IF h = 0 THEN Direct ELSE PassedOn(g[h - 1])
    <3>1. CASE h = n + 1
      <4>1. h # 0 /\ n \in 0..(n+1) /\ h - 1 = n /\ n # n + 1
        BY <3>1
      <4> QED BY <3>1, <4>1
    <3>2. CASE h # n + 1
      <4>1. h \in 0..n /\ g[h] = f[h]
        BY <3>2
      <4>2. f[h] = IF h = 0 THEN Direct ELSE PassedOn(f[h - 1])
        BY <2>1, <4>1 DEF Hops
      <4>3. h # 0 => h - 1 \in 0..(n + 1) /\ h - 1 # n + 1
        BY <3>2
      <4>4. h # 0 => g[h - 1] = f[h - 1]
        BY <4>3
      <4> QED
        BY <4>1, <4>2, <4>4
    <3> QED
      BY <3>1, <3>2
  <2>3. Hops(g, n + 1)
    <3> HIDE DEF g
    <3>1. g = [h \in 0..(n + 1) |-> g[h]]
      BY DEF g
    <3> QED
      BY <2>2, <3>1 DEF Hops
  <2> QED
    BY <2>3
<1>3. T \in SUBSET Nat
  OBVIOUS
<1> HIDE DEF T
<1>4. \A n \in Nat : n \in T
  BY <1>1, <1>2, <1>3, Induction
<1> QED
  BY <1>4 DEF T

LEMMA RelayedHops == Hops(Relayed, MaxHops)
<1>1. \E f : Hops(f, MaxHops)
  BY HopsExist, AddressAssumption
<1>2. Relayed = CHOOSE f : Hops(f, MaxHops)
  BY DEF Relayed, Hops, Direct, PassedOn
<1> QED
  BY <1>1, <1>2

Header == Seq(Addrs \cup {Garbage})

Route == [client: Clients, sender: Addrs, header: Header, real_ip: Addrs \cup {None}]

(* What a proxy passed on ends with the client's address, appended by the     *)
(* first proxy, and the addresses of further proxies.                         *)
Signed(t) ==
  /\ t.sender \in Proxies /\ t.real_ip \in Addrs
  /\ \E k \in DOMAIN t.header :
       /\ t.header[k] = t.client
       /\ \A j \in DOMAIN t.header : j > k => t.header[j] \in Proxies

Sound(t) == t \in Route /\ (t.sender # t.client => Signed(t))

LEMMA DirectSound == \A t \in Direct : Sound(t)
<1> SUFFICES ASSUME NEW t \in Direct PROVE Sound(t)
  OBVIOUS
<1>1. t \in Departures /\ t.sender = t.client
  BY DEF Direct
<1>2. /\ t.client \in Clients /\ t.sender \in Clients /\ t.real_ip \in Addrs \cup {None}
      /\ t.header \in SeqOf(Addrs \cup {Garbage}, MaxTyped)
      /\ t = [client |-> t.client, sender |-> t.sender, header |-> t.header, real_ip |-> t.real_ip]
  BY <1>1 DEF Departures
<1>3. t.header \in Header
  BY <1>2, AddressAssumption DEF SeqOf, Header
<1>4. t \in Route
  BY <1>2, <1>3, AddressAssumption DEF Route
<1> QED
  BY <1>1, <1>4 DEF Sound

LEMMA ForwardSound ==
  ASSUME NEW t, Sound(t), NEW p \in Proxies, NoClientIsTrusted
  PROVE  Sound(Forward(t, p))
<1> DEFINE u == Forward(t, p)
           H == t.header
<1>1. /\ t \in Route /\ t.client \in Clients /\ t.sender \in Addrs /\ H \in Header
      /\ t.sender # t.client => Signed(t)
  BY DEF Sound, Route
<1>2. u.client = t.client /\ u.sender = p /\ u.real_ip = t.sender /\ u.header = Append(H, t.sender)
  BY <1>1 DEF Forward, Route
<1>3. /\ u.header \in Header /\ DOMAIN u.header = 1..(Len(H) + 1) /\ DOMAIN H = 1..Len(H) /\ Len(H) \in Nat
      /\ \A i \in 1..Len(H) : u.header[i] = H[i]
      /\ u.header[Len(H) + 1] = t.sender
  BY <1>1, <1>2 DEF Header
<1>4. u \in Route
  BY <1>1, <1>2, <1>3 DEF Forward, Route, Proxies
<1>5. \E k \in DOMAIN u.header :
        /\ u.header[k] = u.client
        /\ \A j \in DOMAIN u.header : j > k => u.header[j] \in Proxies
  <2>1. CASE t.sender = t.client
    <3>1. \A j \in DOMAIN u.header : ~ (j > Len(H) + 1)
      BY <1>3
    <3> QED
      BY <1>2, <1>3, <2>1, <3>1
  <2>2. CASE t.sender # t.client
    <3>1. PICK k \in DOMAIN H : H[k] = t.client /\ \A j \in DOMAIN H : j > k => H[j] \in Proxies
      BY <1>1, <2>2 DEF Signed
    <3>2. t.sender \in Proxies
      BY <1>1, <2>2 DEF Signed
    <3>3. k \in DOMAIN u.header /\ u.header[k] = u.client
      BY <1>2, <1>3, <3>1
    <3>4. ASSUME NEW j \in DOMAIN u.header, j > k PROVE u.header[j] \in Proxies
      <4>1. CASE j = Len(H) + 1
        BY <1>3, <3>2, <4>1
      <4>2. CASE j # Len(H) + 1
        BY <1>3, <3>1, <3>4, <4>2
      <4> QED
        BY <4>1, <4>2
    <3> QED
      BY <3>3, <3>4
  <2> QED
    BY <2>1, <2>2
<1>6. u.sender \in Proxies /\ u.real_ip \in Addrs
  BY <1>1, <1>2
<1> QED
  BY <1>4, <1>5, <1>6 DEF Sound, Signed

LEMMA RoutesSound == ASSUME NoClientIsTrusted PROVE \A t \in Routes : Sound(t)
<1> DEFINE T == {h \in Nat : h <= MaxHops => \A t \in Relayed[h] : Sound(t)}
<1>1. MaxHops \in Nat
  BY AddressAssumption
<1>2. 0 \in T
  <2>1. Relayed[0] = Direct
    BY <1>1, RelayedHops DEF Hops
  <2> QED
    BY <2>1, DirectSound
<1>3. ASSUME NEW h \in Nat, h \in T PROVE h + 1 \in T
  <2> SUFFICES ASSUME h + 1 <= MaxHops PROVE \A t \in Relayed[h + 1] : Sound(t)
    OBVIOUS
  <2>1. h + 1 \in 0..MaxHops /\ h + 1 # 0 /\ (h + 1) - 1 = h
    BY <1>1
  <2>2. Relayed[h + 1] = PassedOn(Relayed[h])
    BY <2>1, RelayedHops DEF Hops
  <2>3. \A t \in Relayed[h] : Sound(t)
    BY <1>1, <1>3, <2>1
  <2> QED
    BY <2>2, <2>3, ForwardSound DEF PassedOn
<1>4. T \in SUBSET Nat
  OBVIOUS
<1> HIDE DEF T
<1>5. MaxHops \in T
  BY <1>1, <1>2, <1>3, <1>4, Induction
<1> QED
  BY <1>1, <1>5 DEF T, Routes

(* The address the server derives of a request is the sender's own.           *)
LEMMA DerivedOwn ==
  ASSUME NoClientIsTrusted, NEW t \in Routes
  PROVE  Derived(t) = normalize(IF Garbage \in ToSet(t.header) /\ t.sender # t.client
                                THEN t.real_ip ELSE t.client)
<1> DEFINE chain == parse_forwarded_for(t.header)
<1>1. t \in Route /\ (t.sender # t.client => Signed(t))
  BY RoutesSound DEF Sound
<1>2. t.client \in Clients /\ t.client \in Addrs /\ t.sender \in Addrs /\ t.header \in Header
  BY <1>1, AddressAssumption DEF Route
<1>3. CASE t.sender = t.client
  <2>1. ~ peer_is_trusted(t.sender) /\ t.sender # None
    BY <1>2, <1>3 DEF peer_is_trusted, NoClientIsTrusted
  <2> QED
    BY <1>3, <2>1 DEF Derived, derive_client_ip
<1>4. CASE t.sender # t.client
  <2>1. t.sender \in Proxies /\ t.real_ip \in Addrs
    BY <1>1, <1>4 DEF Signed
  <2>2. peer_is_trusted(t.sender) /\ t.real_ip # None
    BY <2>1 DEF peer_is_trusted, NoClientIsTrusted, Proxies, normalize
  <2>3. CASE Garbage \in ToSet(t.header)
    <3>1. chain = <<>>
      BY <2>3 DEF parse_forwarded_for
    <3> QED
      BY <1>4, <2>2, <2>3, <3>1 DEF Derived, derive_client_ip
  <2>4. CASE Garbage \notin ToSet(t.header)
    <3>1. /\ DOMAIN t.header = 1..Len(t.header) /\ Len(t.header) \in Nat
          /\ chain = [i \in DOMAIN t.header |-> normalize(t.header[i])]
      BY <1>2, <2>4 DEF parse_forwarded_for, Header
    <3>2. PICK k \in DOMAIN t.header :
             /\ t.header[k] = t.client
             /\ \A j \in DOMAIN t.header : j > k => t.header[j] \in Proxies
      BY <1>1, <1>4 DEF Signed
    <3> DEFINE untrusted == {i \in DOMAIN chain : chain[i] \notin Trusted}
    <3>3. /\ DOMAIN chain = DOMAIN t.header /\ chain # <<>> /\ chain[k] = normalize(t.client)
          /\ \A j \in DOMAIN chain : chain[j] = normalize(t.header[j])
      BY <3>1, <3>2
    <3>4. k \in untrusted
      BY <1>2, <3>2, <3>3 DEF NoClientIsTrusted
    <3>5. ASSUME NEW j \in untrusted PROVE j <= k
      <4>1. j \in 1..Len(t.header) /\ k \in 1..Len(t.header) /\ chain[j] = normalize(t.header[j])
        BY <3>1, <3>3
      <4>2. t.header[j] \notin Proxies
        BY <3>5, <4>1 DEF Proxies, normalize
      <4> QED
        BY <3>1, <3>2, <4>1, <4>2
    <3>6. untrusted \subseteq Nat
      BY <3>1, <3>3
    <3>7. (CHOOSE i \in untrusted : \A j \in untrusted : j <= i) = k
      <4> HIDE DEF untrusted
      <4>1. ASSUME NEW i \in untrusted, \A j \in untrusted : j <= i PROVE i = k
        BY <3>4, <3>5, <3>6, <4>1
      <4> QED
        BY <3>4, <3>5, <4>1
    <3>8. trusted_remote_addr(chain) = chain[k]
      BY <3>4, <3>7 DEF trusted_remote_addr
    <3>9. normalize(normalize(t.client)) = normalize(t.client)
      BY <1>2, AddressAssumption DEF normalize
    <3> QED
      BY <1>4, <2>2, <2>4, <3>3, <3>8, <3>9 DEF Derived, derive_client_ip
  <2> QED
    BY <2>3, <2>4
<1> QED
  BY <1>3, <1>4

(* A request that is under way has one of the senders that arrive. *)
SendersArrived == from \in [Requests -> {None} \cup Arrivals]

LEMMA SendersStep == SendersArrived /\ [Next]_vars => SendersArrived'
<1> SUFFICES ASSUME SendersArrived, [Next]_vars PROVE SendersArrived'
  OBVIOUS
<1>1. ASSUME NEW r \in Requests, NEW f \in Features, NEW a \in Arrivals, Arrive(r, f, a)
      PROVE  SendersArrived'
  BY <1>1 DEF Arrive, Decide, SendersArrived
<1>2. ASSUME NEW r \in Requests, NoClientAddress(r) \/ Charge(r)
      PROVE  SendersArrived'
  BY <1>2 DEF NoClientAddress, Charge, Decide, SendersArrived
<1>3. CASE UNCHANGED from
  BY <1>3 DEF SendersArrived
<1> QED
  BY <1>1, <1>2, <1>3
     DEF Next, Judge, Ping, EvictBucket, EvictVerified, Tick, Observe, vars

LEMMA ArrivalsOwn ==
  ASSUME NoClientIsTrusted PROVE \A a \in Arrivals : a.address = a.own
<1> SUFFICES ASSUME NEW t \in Routes PROVE
      [address |-> Derived(t),
       own |-> normalize(IF Garbage \in ToSet(t.header) /\ t.sender # t.client
                         THEN t.real_ip ELSE t.client)].address
        = normalize(IF Garbage \in ToSet(t.header) /\ t.sender # t.client
                    THEN t.real_ip ELSE t.client)
  BY DEF Arrivals
<1> QED
  BY DerivedOwn

(***************************************************************************)
(* However many proxies a request comes over and whatever its sender wrote *)
(* into the headers, it is charged to its sender, or to the one the last   *)
(* proxy names if the sender made the header unreadable.                   *)
(***************************************************************************)
THEOREM ChargedToSender == ASSUME NoClientIsTrusted PROVE Spec => []OwnAddress
<1>1. Init => SendersArrived
  BY DEF Init, SendersArrived
<1>2. SendersArrived => OwnAddress
  BY ArrivalsOwn DEF SendersArrived, OwnAddress
<1> QED
  BY <1>1, <1>2, SendersStep, PTL DEF Spec

-----------------------------------------------------------------------------
(* A browser's headers pass every heuristic, whichever are enabled. *)
LEMMA BrowsersPass == \A v : SentByBrowser(v) => Verdict([headers |-> v]) = "Allow"
  BY DEF SentByBrowser, Verdict, HeadersPass, check_accept, check_accept_encoding,
         check_accept_language, check_connection, check_user_agent, is_bot_user_agent,
         check_sec_fetch

(* Every request has a phase and a decision, if only None. *)
RequestsKept == DOMAIN phase = Requests /\ DOMAIN decision = Requests

LEMMA RequestsStep == RequestsKept /\ [Next]_vars => RequestsKept'
<1> SUFFICES ASSUME RequestsKept, [Next]_vars PROVE RequestsKept'
  OBVIOUS
<1>1. ASSUME NEW r \in Requests, NEW f \in Features, NEW a \in Arrivals, Arrive(r, f, a)
      PROVE  RequestsKept'
  BY <1>1 DEF Arrive, Decide, RequestsKept
<1>2. ASSUME NEW r \in Requests, NoClientAddress(r) \/ Judge(r) \/ Charge(r)
      PROVE  RequestsKept'
  BY <1>2 DEF NoClientAddress, Judge, Charge, Decide, RequestsKept
<1>3. CASE UNCHANGED <<phase, decision>>
  BY <1>3 DEF RequestsKept
<1> QED
  BY <1>1, <1>2, <1>3 DEF Next, Ping, EvictBucket, EvictVerified, Tick, Observe, vars

(* Only a charge decides a request that was judged. *)
LEMMA DecidedByCharge ==
  ASSUME RequestsKept, [Next]_vars, NEW r \in Requests, phase[r] = "judged", phase'[r] = "done"
  PROVE  Charge(r)
<1>1. ASSUME NEW q \in Requests, q # r \/ phase[q] # "judged",
             \/ \E f \in Features, a \in Arrivals : Arrive(q, f, a)
             \/ NoClientAddress(q) \/ Judge(q) \/ Charge(q)
      PROVE  phase'[r] = phase[r] \/ Judge(r)
  BY <1>1 DEF Arrive, NoClientAddress, Charge, Judge, Decide, RequestsKept
<1> QED
  BY <1>1 DEF Next, Ping, EvictBucket, EvictVerified, Tick, Observe, vars, Judge, Arrive,
              NoClientAddress

LEMMA BrowserStep ==
  ASSUME RequestsKept, [Next]_vars, NEW r \in Requests, phase[r] = "judged", phase'[r] = "done",
         SentByBrowser(features[r].headers), decision'[r] # "Allow"
  PROVE  (features[r].link_local => Config.filter_link_local) /\ granted' = granted
<1>1. Charge(r)
  BY DecidedByCharge
<1>2. Verdict(features[r]) = "Allow"
  BY BrowsersPass DEF Verdict
<1>3. ~ Decide(r, Verdict(features[r]))
  BY <1>2 DEF Decide, RequestsKept
<1> QED
  BY <1>1, <1>3 DEF Charge

(***************************************************************************)
(* Whatever heuristics are enabled, a browser's search that was judged is  *)
(* refused only by a bucket that has no token for it.                      *)
(***************************************************************************)
THEOREM BrowsersRefusedForTokens == Spec => BrowsersServed
<1>1. Init => RequestsKept
  BY DEF Init, RequestsKept
<1>2. RequestsKept /\ [Next]_vars =>
        \A r \in Requests :
          /\ phase[r] = "judged" /\ phase'[r] = "done"
          /\ SentByBrowser(features[r].headers)
          /\ decision'[r] # "Allow"
          => /\ features[r].link_local => Config.filter_link_local
             /\ granted' = granted
  BY BrowserStep
<1> QED
  BY <1>1, <1>2, RequestsStep, PTL DEF Spec, BrowsersServed
=============================================================================
