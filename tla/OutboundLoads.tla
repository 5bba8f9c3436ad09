--------------------------- MODULE OutboundLoads ---------------------------
(***************************************************************************)
(* The three services of zoeken-server that share loads through a cache:   *)
(* responses of engines, proxied images and suggestions.  Each has a cache *)
(* of its own and nothing else in common, so a behaviour is that of one of *)
(* them, service, with callers that come and go.                           *)
(***************************************************************************)
EXTENDS ResponseCache, ImageProxy, Autocomplete

CONSTANT LastSecond

VARIABLE service

loadsVars == <<stored, leader, phase, got, seconds, loaded, answer, before, hops, service>>

ASSUME CallersAssumption ==
  /\ KeyOf \in [Callers -> Keys] /\ Nil \notin Callers /\ IsFiniteSet(Callers)
  /\ LastSecond \in Nat

(* The time to live of an entry in the cache of its service. *)
LoadTtl(class) ==
  CASE class \in Classes           -> ResponseTtl(class)
    [] class \in {"image", "page"} -> IMAGE_CACHE_TTL
    [] class \in {"list", "empty"} -> SuggestionTtl

ASSUME TtlAssumption ==
  \A class \in Classes \cup {"image", "page", "list", "empty"} : Ttl(class) = LoadTtl(class)

LoadsInit ==
  /\ CacheInit
  /\ hops = [c \in Callers |-> 0]
  /\ service \in {"responses", "images"} \cup Backends

AskCache(c) == Ask(c) /\ UNCHANGED <<hops, service>>

JoinLoad(c) == TryGetWith(c) /\ UNCHANGED <<hops, service>>

SearchCall(c) == service = "responses" /\ SearchStep(c) /\ UNCHANGED <<hops, service>>

ImageCall(c) == service = "images" /\ ImageStep(c) /\ UNCHANGED service

SuggestionCall(c) ==
  service \in Backends /\ SuggestionStep(c, service) /\ UNCHANGED <<hops, service>>

(* The search's timeout or the client's departure drops the call at an await. *)
CancelCall(c) ==
  /\ \/ phase[c] \in LoadPhases /\ Abandon(c)
     \/ /\ phase[c] \in {"identifying", "asking", "joining", "waiting"}
        /\ Goto(c, "gone") /\ UNCHANGED leader
  /\ Forget(c)
  /\ loaded' = [loaded EXCEPT ![c] = Nil]
  /\ hops' = [hops EXCEPT ![c] = 0]
  /\ UNCHANGED <<stored, got, seconds, answer, service>>

EvictEntry(k) == Evict(k) /\ UNCHANGED <<hops, service>>

SecondPasses ==
  /\ seconds < LastSecond
  /\ seconds' = seconds + 1
  /\ UNCHANGED <<stored, leader, phase, got, loaded, answer, before, hops, service>>

Step(c) == AskCache(c) \/ JoinLoad(c) \/ SearchCall(c) \/ ImageCall(c) \/ SuggestionCall(c)

LoadsNext ==
  \/ \E c \in Callers : Step(c) \/ CancelCall(c)
  \/ \E k \in Keys : EvictEntry(k)
  \/ SecondPasses

LoadsSpec == LoadsInit /\ [][LoadsNext]_loadsVars /\ \A c \in Callers : WF_loadsVars(Step(c))

-----------------------------------------------------------------------------
(* A key has at most one load in flight, whoever leads it: two identical      *)
(* searches never send the engine the same request at the same time, and an   *)
(* image that several cards show is fetched once.                             *)
OneLoadPerKey ==
  \A k \in Keys : Cardinality({c \in Callers : KeyOf[c] = k /\ phase[c] \in LoadPhases}) <= 1

(* A caller that waits has a leader that is still loading its key, so the     *)
(* cancellation or the panic of a leader never strands those who joined it.   *)
WaitersHaveLeader ==
  \A c \in Callers : phase[c] = "waiting" =>
    /\ leader[KeyOf[c]] # Nil
    /\ leader[KeyOf[c]] # c
    /\ KeyOf[leader[KeyOf[c]]] = KeyOf[c]
    /\ phase[leader[KeyOf[c]]] \in LoadPhases

(* What a caller gets from a load that had ended before it asked is a success *)
(* that the cache may keep, within its time to live; failures and responses   *)
(* marked private reach only those who waited for them.                       *)
OldAnswersAreFresh ==
  \A c \in Callers : got[c] # Nil /\ got[c].by \in before[c] =>
    /\ got[c].kind = "kept"
    /\ loaded[got[c].by].kind = "kept"
    /\ got[c].age < CASE service = "responses" -> IF got[c].class = "structured"
                                                 THEN StructuredTtl ELSE HtmlTtl
                      [] service = "images"    -> IMAGE_CACHE_TTL
                      [] service \in Backends  -> SuggestionTtl

(* The duration of a kept response is reported by the search that produced it *)
(* and by no other: cache hits and waiters have none.                         *)
ProducerReportsDuration ==
  \A c \in Callers :
    service = "responses" /\ answer[c] # Nil /\ got[c] # Nil /\ got[c].kind = "kept" =>
      (answer[c].timed <=> got[c].by = c)

(* Every call that begins ends, with an answer or with its own end, although  *)
(* leaders may go while others wait and images redirect: there is always a    *)
(* time again when no call is under way.                                      *)
CallersReturn == []<>(\A c \in Callers : phase[c] \in {"new", "done", "gone"})
=============================================================================
