----------------------------- MODULE PermitPool -----------------------------
(***************************************************************************)
(* What origin coordination promises, without clocks, leases or storage    *)
(* calls: per origin a pool of MaxConcurrent permits.  A request works     *)
(* only while it holds a permit.  It may stop working at any time and      *)
(* leave the permit behind; such a permit, and no other, is taken back.    *)
(***************************************************************************)
EXTENDS Integers, FiniteSets

CONSTANTS Requests, Origins, OriginOf, MaxConcurrent

VARIABLES
  held,            \* requests in whose name a permit is booked
  working          \* requests that talk to their origin

poolVars == <<held, working>>

HeldOn(rows, o) == {r \in rows : OriginOf[r] = o}

PoolInit ==
  /\ held = {}
  /\ working = {}

\* Permits left behind may be taken back in the step that grants another.
Grant(r) ==
  /\ r \notin working
  /\ \E left \in SUBSET (held \ working) :
       held' = (held \ left) \cup {r}
  /\ Cardinality(HeldOn(held', OriginOf[r])) <= MaxConcurrent
  /\ working' = working \cup {r}

Stop(r) ==
  /\ r \in working
  /\ working' = working \ {r}
  /\ UNCHANGED held

TakeBack ==
  /\ \E left \in SUBSET (held \ working) : held' = held \ left
  /\ UNCHANGED working

PoolNext ==
  \/ \E r \in Requests : Grant(r) \/ Stop(r)
  \/ TakeBack

PoolSpec == PoolInit /\ [][PoolNext]_poolVars
============================================================================
