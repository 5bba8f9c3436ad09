----------------------------- MODULE SharedLoad -----------------------------
(***************************************************************************)
(* moka::future::Cache with try_get_with, as the response cache, the image *)
(* proxy and the autocompleter use it: a cache in which the first caller   *)
(* that misses a key runs its own load and the others wait for it.  The    *)
(* library is not part of the repository; what is written here is what its *)
(* callers in zoeken rely on.                                              *)
(*                                                                         *)
(* stored[k] is the entry of key k, leader[k] the caller whose load is in  *)
(* flight, phase[c] where caller c is, and got[c] what try_get_with gave   *)
(* it: the load's leader (by), whether it ended well and was kept (kind),  *)
(* whether c itself ran the load (led) and how old the entry was (age).    *)
(* loaded[c] is what c's own load found before it is settled, answer[c]   *)
(* what c makes of what it got (calls that end before they ask the cache   *)
(* have none), and before[c], a history, the loads that had ended when c   *)
(* first asked.                                                            *)
(***************************************************************************)
EXTENDS Naturals

CONSTANTS Callers,  \* the calls of the cache; each asks once
          Keys,
          KeyOf,    \* the key a caller asks for
          Nil,
          Ttl(_)    \* time to live of an entry of a class

VARIABLES stored, leader, phase, got, seconds, loaded, answer, before

loadUnchanged == <<stored, leader, got, seconds>>

(* Where a caller is that runs the load it was given. *)
LoadPhases == {"loading", "sending", "reading", "recording"}

Goto(c, p) == phase' = [phase EXCEPT ![c] = p]

(* An entry is served only within its time to live. *)
Fresh(k) == stored[k] # Nil /\ seconds < stored[k].at + Ttl(stored[k].class)

FromCache(k) == [by |-> stored[k].by, kind |-> "kept", led |-> FALSE,
                 age |-> seconds - stored[k].at, class |-> stored[k].class]

CacheInit ==
  /\ stored = [k \in Keys |-> Nil]
  /\ leader = [k \in Keys |-> Nil]
  /\ got = [c \in Callers |-> Nil]
  /\ seconds = 0
  /\ phase = [c \in Callers |-> "new"]
  /\ loaded = [c \in Callers |-> Nil]
  /\ answer = [c \in Callers |-> Nil]
  /\ before = [c \in Callers |-> {}]

(* The caller has its key. *)
BeginAsking(c) ==
  /\ Goto(c, "asking")
  /\ before' = [before EXCEPT ![c] =
       {l \in Callers : phase[l] \in {"answered", "done"} /\ got[l] # Nil /\ got[l].led}]

(* The history of a call that is over is not needed. *)
Forget(c) == before' = [before EXCEPT ![c] = {}]

(* Cache::get: a hit answers, a miss goes on to try_get_with. *)
Ask(c) ==
  /\ phase[c] = "asking"
  /\ IF Fresh(KeyOf[c])
     THEN /\ got' = [got EXCEPT ![c] = FromCache(KeyOf[c])]
          /\ phase' = [phase EXCEPT ![c] = "answered"]
     ELSE /\ phase' = [phase EXCEPT ![c] = "joining"]
          /\ UNCHANGED got
  /\ UNCHANGED <<stored, leader, seconds, loaded, answer, before>>

(* Mutant of TryGetWith: a second caller does not notice the load in flight. *)
TryGetAlways(c) ==
  /\ phase[c] = "joining"
  /\ phase' = [phase EXCEPT ![c] = "loading"]
  /\ leader' = [leader EXCEPT ![KeyOf[c]] = c]
  /\ UNCHANGED <<stored, got, seconds, loaded, answer, before>>

(* try_get_with: take the entry, or lead, or wait for the leader. *)
TryGetWith(c) ==
  LET k == KeyOf[c] IN
  /\ phase[c] = "joining"
  /\ \/ /\ Fresh(k)
        /\ got' = [got EXCEPT ![c] = FromCache(k)]
        /\ phase' = [phase EXCEPT ![c] = "answered"]
        /\ UNCHANGED leader
     \/ /\ ~Fresh(k) /\ leader[k] = Nil
        /\ phase' = [phase EXCEPT ![c] = "loading"]
        /\ leader' = [leader EXCEPT ![k] = c]
        /\ UNCHANGED got
     \/ /\ ~Fresh(k) /\ leader[k] # Nil
        /\ phase' = [phase EXCEPT ![c] = "waiting"]
        /\ UNCHANGED <<leader, got>>
  /\ UNCHANGED <<stored, seconds, loaded, answer, before>>

WaitersFor(k) == {w \in Callers : KeyOf[w] = k /\ phase[w] = "waiting"}

(* The leader's load ended: Ok is stored and shared, Err is only shared. *)
Settle(c, kind, class) ==
  LET k == KeyOf[c]
      Shared(w) == [by |-> c, kind |-> kind, led |-> w = c, age |-> 0, class |-> class]
  IN /\ leader' = [leader EXCEPT ![k] = Nil]
     /\ stored' = IF kind = "kept"
                  THEN [stored EXCEPT ![k] = [by |-> c, class |-> class, at |-> seconds]]
                  ELSE stored
     /\ got' = [w \in Callers |-> IF w = c \/ w \in WaitersFor(k) THEN Shared(w) ELSE got[w]]
     /\ phase' = [w \in Callers |->
                    IF w = c \/ w \in WaitersFor(k) THEN "answered" ELSE phase[w]]

(* Mutant of Abandon: nobody tells the waiters that their leader is gone. *)
AbandonSilently(c) ==
  /\ leader' = [leader EXCEPT ![KeyOf[c]] = Nil]
  /\ phase' = [phase EXCEPT ![c] = "gone"]

(* The leader's future was dropped, or its load panicked: the waiters start *)
(* over, and the first of them leads.                                       *)
Abandon(c) ==
  LET k == KeyOf[c] IN
  /\ leader' = [leader EXCEPT ![k] = Nil]
  /\ phase' = [w \in Callers |-> IF w = c THEN "gone"
                                 ELSE IF w \in WaitersFor(k) THEN "joining"
                                 ELSE phase[w]]

(* Eviction for capacity, or an entry that was never admitted. *)
Evict(k) ==
  /\ stored[k] # Nil
  /\ stored' = [stored EXCEPT ![k] = Nil]
  /\ UNCHANGED <<leader, phase, got, seconds, loaded, answer, before>>
=============================================================================
