-------------------------- MODULE SharedLoadProofs --------------------------
(***************************************************************************)
(* One load per key, and no waiter without a leader, for any number of     *)
(* callers and keys, any times to live and any number of redirects, in     *)
(* each of the three services.  The services change the table of leaders   *)
(* in four ways only: a call moves and leaves it alone, it joins, its load *)
(* is settled, or its load is abandoned.                                   *)
(***************************************************************************)
EXTENDS OutboundLoads, FaviconService, FiniteSetTheorems, TLAPS

OtherPhases == {"new", "identifying", "asking", "joining", "answered", "done", "gone"}

(* A leader loads the key it is registered for, whoever loads a key is its  *)
(* leader, and waiting is for a leader: the inductive invariant.            *)
FlightInv ==
  /\ phase \in [Callers -> LoadPhases \cup OtherPhases \cup {"waiting"}]
  /\ leader \in [Keys -> Callers \cup {Nil}]
  /\ \A k \in Keys : leader[k] # Nil =>
       KeyOf[leader[k]] = k /\ phase[leader[k]] \in LoadPhases
  /\ \A c \in Callers : phase[c] \in LoadPhases => leader[KeyOf[c]] = c
  /\ \A c \in Callers : phase[c] = "waiting" => leader[KeyOf[c]] # Nil

(* A call goes on, within its load or outside of any. *)
Moves(c) ==
  /\ leader' = leader
  /\ \E p \in LoadPhases \cup OtherPhases :
       /\ Goto(c, p)
       /\ phase[c] \in LoadPhases <=> p \in LoadPhases

(* A load is over, and those who waited for it go elsewhere. *)
LoadEnds(c) ==
  /\ phase[c] \in LoadPhases
  /\ leader' = [leader EXCEPT ![KeyOf[c]] = Nil]
  /\ \E p, q \in OtherPhases :
       phase' = [w \in Callers |-> IF w = c THEN p
                                   ELSE IF w \in WaitersFor(KeyOf[c]) THEN q ELSE phase[w]]

LEMMA MovesKeep ==
  ASSUME FlightInv, NEW c \in Callers, Moves(c)
  PROVE  FlightInv'
  BY CallersAssumption DEF FlightInv, Moves, Goto, LoadPhases, OtherPhases

LEMMA LoadEndsKeeps ==
  ASSUME FlightInv, NEW c \in Callers, LoadEnds(c)
  PROVE  FlightInv'
<1> DEFINE k == KeyOf[c]
<1>1. k \in Keys /\ leader[k] = c
  BY CallersAssumption DEF FlightInv, LoadEnds
<1>2. PICK p \in OtherPhases, q \in OtherPhases :
        phase' = [w \in Callers |-> IF w = c THEN p
                                    ELSE IF w \in WaitersFor(k) THEN q ELSE phase[w]]
  BY DEF LoadEnds
<1>3. p \notin LoadPhases /\ q \notin LoadPhases /\ p # "waiting" /\ q # "waiting"
  BY DEF LoadPhases, OtherPhases
<1>4. leader' = [leader EXCEPT ![k] = Nil]
  BY DEF LoadEnds
<1>5. /\ phase' \in [Callers -> LoadPhases \cup OtherPhases \cup {"waiting"}]
      /\ leader' \in [Keys -> Callers \cup {Nil}]
  BY <1>2, <1>4 DEF FlightInv
<1>6. ASSUME NEW l \in Keys, leader'[l] # Nil
      PROVE  KeyOf[leader'[l]] = l /\ phase'[leader'[l]] \in LoadPhases
  <2>1. l # k /\ leader'[l] = leader[l] /\ leader[l] \in Callers
    BY <1>1, <1>4, <1>6 DEF FlightInv
  <2>2. KeyOf[leader[l]] = l /\ phase[leader[l]] \in LoadPhases
    BY <1>6, <2>1 DEF FlightInv
  <2>3. leader[l] # c /\ leader[l] \notin WaitersFor(k)
    BY <2>1, <2>2 DEF WaitersFor
  <2> QED
    BY <1>2, <2>1, <2>2, <2>3
<1>7. ASSUME NEW d \in Callers, phase'[d] \in LoadPhases PROVE leader'[KeyOf[d]] = d
  <2>1. d # c /\ phase[d] \in LoadPhases
    BY <1>2, <1>3, <1>7
  <2>2. leader[KeyOf[d]] = d /\ KeyOf[d] # k
    BY <1>1, <2>1 DEF FlightInv
  <2> QED
    BY <1>4, <2>2, CallersAssumption DEF FlightInv
<1>8. ASSUME NEW d \in Callers, phase'[d] = "waiting" PROVE leader'[KeyOf[d]] # Nil
  <2>1. phase[d] = "waiting" /\ KeyOf[d] # k
    BY <1>2, <1>3, <1>8 DEF WaitersFor
  <2> QED
    BY <1>4, <2>1, CallersAssumption DEF FlightInv
<1> QED
  BY <1>5, <1>6, <1>7, <1>8 DEF FlightInv

LEMMA JoinKeeps ==
  ASSUME FlightInv, NEW c \in Callers, TryGetWith(c)
  PROVE  FlightInv'
<1> DEFINE k == KeyOf[c]
<1>1. k \in Keys /\ phase[c] = "joining" /\ c # Nil
  BY CallersAssumption DEF TryGetWith
<1>2. CASE leader' = leader /\ Goto(c, "answered")
  BY <1>1, <1>2, MovesKeep DEF Moves, LoadPhases, OtherPhases
<1>3. CASE /\ leader[k] = Nil /\ leader' = [leader EXCEPT ![k] = c]
           /\ phase' = [phase EXCEPT ![c] = "loading"]
  BY <1>1, <1>3, CallersAssumption DEF FlightInv, LoadPhases, OtherPhases
<1>4. CASE /\ leader[k] # Nil /\ leader' = leader
           /\ phase' = [phase EXCEPT ![c] = "waiting"]
  BY <1>1, <1>4, CallersAssumption DEF FlightInv, LoadPhases, OtherPhases
<1> QED
  BY <1>2, <1>3, <1>4 DEF TryGetWith, Goto

(* Settle and Abandon are the two ends of a load. *)
LEMMA SettleEnds ==
  ASSUME FlightInv, NEW c \in Callers, phase[c] \in LoadPhases, NEW kind, NEW class,
         Settle(c, kind, class)
  PROVE  LoadEnds(c)
<1>1. "answered" \in OtherPhases
  BY DEF OtherPhases
<1>2. phase' = [w \in Callers |-> IF w = c THEN "answered"
                                  ELSE IF w \in WaitersFor(KeyOf[c]) THEN "answered"
                                  ELSE phase[w]]
  BY DEF Settle
<1> QED
  BY <1>1, <1>2 DEF Settle, LoadEnds

LEMMA AbandonEnds ==
  ASSUME NEW c \in Callers, phase[c] \in LoadPhases, Abandon(c)
  PROVE  LoadEnds(c)
<1>1. {"gone", "joining"} \subseteq OtherPhases
  BY DEF OtherPhases
<1> QED
  BY <1>1 DEF Abandon, LoadEnds

LEMMA AnsweredKeeps ==
  ASSUME FlightInv, NEW c \in Callers, phase[c] = "answered", Goto(c, "done"),
         leader' = leader
  PROVE  FlightInv'
  BY MovesKeep DEF Moves, LoadPhases, OtherPhases

(* The cached search of a caller. *)
LEMMA SearchKeeps ==
  ASSUME FlightInv, NEW c \in Callers, SearchStep(c)
  PROVE  FlightInv'
<1> USE DEF Goto, LoadPhases, OtherPhases, loadUnchanged
<1>1. CASE Prepare(c)
  BY <1>1, MovesKeep DEF Prepare, BuildRequest, BeginAsking, Moves
<1>2. CASE EnsureClientId(c)
  BY <1>2, MovesKeep DEF EnsureClientId, BuildRequest, BeginAsking, Moves
<1>3. CASE CheckHealth(c)
  <2>1. CASE get_or_load(c, "refused", "html")
    BY <1>3, <2>1, SettleEnds, LoadEndsKeeps DEF CheckHealth, get_or_load
  <2>2. CASE Goto(c, "sending") /\ leader' = leader
    BY <1>3, <2>2, MovesKeep DEF CheckHealth, Moves
  <2> QED
    BY <1>3, <2>1, <2>2 DEF CheckHealth
<1>4. CASE Send(c)
  BY <1>4, MovesKeep DEF Send, Moves
<1>5. CASE ReadBody(c)
  BY <1>5, MovesKeep DEF ReadBody, Moves
<1>6. CASE Record(c)
  BY <1>6, SettleEnds, LoadEndsKeeps DEF Record, get_or_load
<1>7. CASE Reply(c)
  BY <1>7, AnsweredKeeps DEF Reply
<1> QED
  BY <1>1, <1>2, <1>3, <1>4, <1>5, <1>6, <1>7 DEF SearchStep

LEMMA ImageEnds ==
  ASSUME FlightInv, NEW c \in Callers, phase[c] \in LoadPhases, NEW load, EndImageLoad(c, load)
  PROVE  FlightInv'
  BY SettleEnds, LoadEndsKeeps DEF EndImageLoad

(* The proxied image of a caller. *)
LEMMA ImageKeeps ==
  ASSUME FlightInv, NEW c \in Callers, ImageStep(c)
  PROVE  FlightInv'
<1> USE DEF loadUnchanged
<1>1. CASE ImageRequest(c)
  BY <1>1, MovesKeep DEF ImageRequest, BeginAsking, Moves, Goto, LoadPhases, OtherPhases
<1>2. CASE phase[c] \in LoadPhases /\ ImageLoadFails(c)
  BY <1>2, ImageEnds DEF ImageLoadFails
<1>3. CASE phase[c] \in LoadPhases /\ \E load \in ImageLoads : EndImageLoad(c, load)
  BY <1>3, ImageEnds
<1>4. CASE /\ leader' = leader /\ phase[c] \in LoadPhases
           /\ \E p \in LoadPhases : Goto(c, p)
  BY <1>4, MovesKeep DEF Moves
<1>5. CASE ImageReply(c)
  BY <1>5, AnsweredKeeps DEF ImageReply
<1> QED
  BY <1>1, <1>2, <1>3, <1>4, <1>5
     DEF ImageStep, ValidateHop, FollowRedirect, ImageHeaders, ImageBody, LoadPhases

(* The suggestions of a caller. *)
LEMMA SuggestionKeeps ==
  ASSUME FlightInv, NEW c \in Callers, NEW b, SuggestionStep(c, b)
  PROVE  FlightInv'
<1> USE DEF loadUnchanged
<1>1. CASE SuggestionRequest(c, b)
  BY <1>1, MovesKeep DEF SuggestionRequest, BeginAsking, Moves, Goto, LoadPhases, OtherPhases
<1>2. CASE BackendAnswers(c, b)
  <2>1. phase[c] \in LoadPhases
    BY <1>2 DEF BackendAnswers, LoadPhases
  <2>2. Abandon(c) \/ \E load \in SuggestionLoads[b] \cup {BackendError} :
                        Settle(c, load.kind, load.class)
    BY <1>2 DEF BackendAnswers
  <2> QED
    BY <2>1, <2>2, AbandonEnds, SettleEnds, LoadEndsKeeps
<1>3. CASE BackendTimesOut(c)
  BY <1>3, SettleEnds, LoadEndsKeeps DEF BackendTimesOut, LoadPhases
<1>4. CASE run_autocomplete(c)
  BY <1>4, AnsweredKeeps DEF run_autocomplete
<1> QED
  BY <1>1, <1>2, <1>3, <1>4 DEF SuggestionStep

LEMMA FlightStep == FlightInv /\ [LoadsNext]_loadsVars => FlightInv'
<1> SUFFICES ASSUME FlightInv, [LoadsNext]_loadsVars PROVE FlightInv'
  OBVIOUS
<1>1. ASSUME NEW c \in Callers, AskCache(c) PROVE FlightInv'
  BY <1>1, MovesKeep DEF AskCache, Ask, Moves, Goto, LoadPhases, OtherPhases
<1>2. ASSUME NEW c \in Callers, JoinLoad(c) PROVE FlightInv'
  BY <1>2, JoinKeeps DEF JoinLoad
<1>3. ASSUME NEW c \in Callers, SearchCall(c) PROVE FlightInv'
  BY <1>3, SearchKeeps DEF SearchCall
<1>4. ASSUME NEW c \in Callers, ImageCall(c) PROVE FlightInv'
  BY <1>4, ImageKeeps DEF ImageCall
<1>5. ASSUME NEW c \in Callers, SuggestionCall(c) PROVE FlightInv'
  BY <1>5, SuggestionKeeps DEF SuggestionCall
<1>6. ASSUME NEW c \in Callers, CancelCall(c) PROVE FlightInv'
  <2>1. CASE phase[c] \in LoadPhases /\ Abandon(c)
    BY <2>1, AbandonEnds, LoadEndsKeeps
  <2>2. CASE /\ phase[c] \in {"identifying", "asking", "joining", "waiting"}
             /\ Goto(c, "gone") /\ leader' = leader
    BY <2>2, MovesKeep DEF Moves, LoadPhases, OtherPhases
  <2> QED
    BY <1>6, <2>1, <2>2 DEF CancelCall
<1>7. CASE UNCHANGED <<phase, leader>>
  BY <1>7 DEF FlightInv
<1>8. ASSUME NEW k \in Keys, EvictEntry(k) PROVE FlightInv'
  BY <1>7, <1>8 DEF EvictEntry, Evict
<1> QED
  BY <1>1, <1>2, <1>3, <1>4, <1>5, <1>6, <1>7, <1>8 DEF LoadsNext, Step, SecondPasses, loadsVars

LEMMA FlightInvariance == LoadsSpec => []FlightInv
<1>1. LoadsInit => FlightInv
  BY CallersAssumption DEF LoadsInit, CacheInit, FlightInv, LoadPhases, OtherPhases
<1> QED
  BY <1>1, FlightStep, PTL DEF LoadsSpec

(***************************************************************************)
(* However many searches, cards or keystrokes ask for the same thing at    *)
(* the same time, one of them sends the request.                           *)
(***************************************************************************)
THEOREM OneLoad == LoadsSpec => []OneLoadPerKey
<1>1. FlightInv => OneLoadPerKey
  <2> SUFFICES ASSUME FlightInv, NEW k \in Keys
               PROVE  Cardinality({c \in Callers : KeyOf[c] = k /\ phase[c] \in LoadPhases}) <= 1
    BY DEF OneLoadPerKey
  <2> DEFINE loads == {c \in Callers : KeyOf[c] = k /\ phase[c] \in LoadPhases}
  <2>1. loads \subseteq {leader[k]}
    BY DEF FlightInv
  <2>2. loads = {} \/ loads = {leader[k]}
    BY <2>1
  <2>3. Cardinality({}) = 0 /\ Cardinality({leader[k]}) = 1
    BY FS_EmptySet, FS_Singleton
  <2> HIDE DEF loads
  <2>4. Cardinality(loads) \in {0, 1}
    BY <2>2, <2>3
  <2>5. Cardinality(loads) <= 1
    BY <2>4
  <2> QED
    BY <2>5 DEF loads
<1> QED
  BY <1>1, FlightInvariance, PTL

(***************************************************************************)
(* Whoever waits has a leader that still loads its key: a leader that is   *)
(* cancelled, panics or ends well leaves nobody behind.                    *)
(***************************************************************************)
THEOREM NoOrphanedWaiter == LoadsSpec => []WaitersHaveLeader
<1>1. FlightInv => WaitersHaveLeader
  BY CallersAssumption DEF FlightInv, WaitersHaveLeader, LoadPhases
<1> QED
  BY <1>1, FlightInvariance, PTL

-----------------------------------------------------------------------------
(* Who is served what.  The names of the services are told apart by what     *)
(* follows; that they differ is an assumption on the configuration.          *)
ServicesDistinct == Backends \cap {"responses", "images"} = {}

AllClasses == Classes \cup {"image", "page", "list", "empty"}

(* The classes that a service gives the entries of its cache. *)
ServiceClasses ==
  CASE service = "responses" -> Classes
    [] service = "images"    -> {"image", "page"}
    [] service \in Backends  -> {"list", "empty"}

Kinds == {"kept", "uncached", "failed", "refused"}

Loads == [kind: Kinds, class: AllClasses]

(* What try_get_with gives a caller. *)
Shares == [by: Callers, kind: Kinds, led: BOOLEAN, age: Nat, class: AllClasses]

CacheTypes ==
  /\ service \in {"responses", "images"} \cup Backends
  /\ seconds \in Nat
  /\ phase \in [Callers -> LoadPhases \cup OtherPhases \cup {"waiting"}]
  /\ stored \in [Keys -> {Nil} \cup [by: Callers, class: AllClasses, at: Nat]]
  /\ got \in [Callers -> {Nil} \cup Shares]
  /\ loaded \in [Callers -> {Nil} \cup Loads]
  /\ answer \in [Callers -> {Nil} \cup [ok: BOOLEAN, timed: BOOLEAN]]
  /\ before \in [Callers -> SUBSET Callers]
  /\ \A c \in Callers : service = "responses" /\ phase[c] = "recording" =>
       loaded[c] \in [kind: Kinds, class: Classes]
  /\ \A c \in Callers : phase[c] = "answered" => got[c] \in Shares
  /\ \A c \in Callers : service \in Backends \ BackendNames => phase[c] \in {"new", "done", "gone"}

Ended(c) == phase[c] \in {"answered", "done"}

(* An entry was kept by a load that has ended well. *)
EntriesKept ==
  \A k \in Keys : stored[k] # Nil =>
    /\ Ended(stored[k].by)
    /\ loaded[stored[k].by].kind = "kept"
    /\ stored[k].class \in ServiceClasses
    /\ stored[k].at <= seconds

(* Who leads a load knows it, and only who is done asking has got anything. *)
LeadersKnow ==
  \A c \in Callers : got[c] # Nil => Ended(c) /\ (got[c].led <=> got[c].by = c)

(* The history of a call has only loads that have ended. *)
BeforeEnded == \A c \in Callers : \A l \in before[c] : Ended(l)

OldAnswersKept ==
  \A c \in Callers : got[c] # Nil /\ got[c].by \in before[c] =>
    /\ got[c].kind = "kept"
    /\ loaded[got[c].by].kind = "kept"
    /\ got[c].class \in ServiceClasses
    /\ got[c].age < Ttl(got[c].class)

DurationsTrue ==
  \A c \in Callers : service = "responses" /\ answer[c] # Nil =>
    /\ phase[c] = "done"
    /\ got[c] # Nil => answer[c].timed = HttpDuration(got[c])

CacheInv ==
  /\ CacheTypes
  /\ EntriesKept /\ LeadersKnow /\ BeforeEnded /\ OldAnswersKept /\ DurationsTrue

(* What the loads of the three services may end with. *)
LEMMA ResponseLoadTypes == ResponseLoads \subseteq [kind: Kinds, class: Classes]
  BY DEF ResponseLoads, ResponseLoad, Kinds, Classes

LEMMA ImageLoadTypes == ImageLoads \subseteq [kind: Kinds, class: {"image", "page"}]
  BY DEF ImageLoads, ImageKind, ImageClass, Kinds

LEMMA SuggestionLoadTypes ==
  ASSUME NEW b \in BackendNames
  PROVE  SuggestionLoads[b] \subseteq [kind: Kinds, class: {"list", "empty"}] \cup {Panicked}
<1> SUFFICES ASSUME NEW r \in Replies
             PROVE  suggest(b, r) \in [kind: Kinds, class: {"list", "empty"}] \cup {Panicked}
  BY DEF SuggestionLoads
<1> DEFINE T == [kind: Kinds, class: {"list", "empty"}] \cup {Panicked}
<1>1. BackendError \in T /\ Panicked \in T /\ \A rows : Listed(rows) \in T
  BY DEF BackendError, Listed, Kinds
<1>2. \A rows : fetch_json(r, rows) \in T /\ fetch_text(rows) \in T /\ simple_backend(r, rows) \in T
  BY <1>1 DEF fetch_json, fetch_text, simple_backend
<1>3. suggest_google(r) \in T
  <2>1. r.brackets \in {"none", "reversed", "ordered"}
    BY DEF Replies
  <2> QED
    BY <1>1, <1>2, <2>1 DEF suggest_google
<1>4. /\ suggest_bing(r) \in T /\ suggest_brave(r) \in T /\ suggest_dbpedia(r) \in T
      /\ suggest_duckduckgo(r) \in T /\ suggest_sogou(r) \in T /\ suggest_startpage(r) \in T
      /\ suggest_wikipedia(r) \in T
  BY <1>2 DEF suggest_bing, suggest_brave, suggest_dbpedia, suggest_duckduckgo,
              suggest_sogou, suggest_startpage, suggest_wikipedia
<1> HIDE DEF T
<1>5. suggest(b, r) \in T
  BY <1>2, <1>3, <1>4 DEF suggest, BackendNames
<1> QED
  BY <1>5 DEF T

LEMMA TtlNat == \A class \in AllClasses : Ttl(class) \in Nat
<1>1. \A class \in AllClasses : Ttl(class) = LoadTtl(class)
  BY TtlAssumption DEF AllClasses
<1>2. \A class \in AllClasses : LoadTtl(class) \in Nat
  BY ResponseTtlAssumption, ImageAssumption, SuggestionAssumption
     DEF AllClasses, LoadTtl, Classes, ResponseTtl
<1> QED
  BY <1>1, <1>2

LEMMA ServiceClassesKnown == ServicesDistinct /\ CacheTypes => ServiceClasses \subseteq AllClasses
  BY DEF ServicesDistinct, CacheTypes, ServiceClasses, AllClasses, Classes

(* Steps that give nobody anything. *)
LEMMA QuietKeeps ==
  ASSUME CacheInv, CacheTypes',
         service' = service, got' = got, answer' = answer, seconds' \in {seconds, seconds + 1},
         \A k \in Keys : stored'[k] = stored[k] \/ stored'[k] = Nil,
         \A c \in Callers : Ended(c) => phase'[c] = phase[c] /\ loaded'[c] = loaded[c],
         \A c \in Callers : got[c] # Nil => before'[c] \subseteq before[c],
         \A c \in Callers : \A l \in before'[c] : Ended(l)
  PROVE  CacheInv'
<1>1. ServiceClasses' = ServiceClasses
  BY DEF ServiceClasses
<1>2. EntriesKept'
  BY <1>1 DEF CacheInv, CacheTypes, EntriesKept, Ended
<1>3. LeadersKnow'
  BY DEF CacheInv, CacheTypes, LeadersKnow, Ended
<1>4. BeforeEnded'
  BY DEF CacheInv, CacheTypes, BeforeEnded, Ended
<1>5. OldAnswersKept'
  <2> SUFFICES ASSUME NEW c \in Callers, got[c] # Nil, got[c].by \in before'[c]
               PROVE  /\ got[c].kind = "kept"
                      /\ loaded'[got[c].by].kind = "kept"
                      /\ got[c].class \in ServiceClasses
                      /\ got[c].age < Ttl(got[c].class)
    BY <1>1 DEF OldAnswersKept
  <2>1. got[c].by \in before[c] /\ got[c].by \in Callers /\ Ended(got[c].by)
    BY DEF CacheInv, CacheTypes
  <2> QED
    BY <2>1 DEF CacheInv, OldAnswersKept
<1>6. DurationsTrue'
  BY DEF CacheInv, DurationsTrue, Ended, HttpDuration
<1> QED
  BY <1>2, <1>3, <1>4, <1>5, <1>6 DEF CacheInv

(* A hit. *)
LEMMA HitKeeps ==
  ASSUME CacheInv, CacheTypes', ServicesDistinct, NEW c \in Callers, ~Ended(c),
         Fresh(KeyOf[c]), got' = [got EXCEPT ![c] = FromCache(KeyOf[c])],
         phase' = [phase EXCEPT ![c] = "answered"],
         UNCHANGED <<stored, seconds, loaded, answer, before, service>>
  PROVE  CacheInv'
<1> DEFINE k == KeyOf[c]
           e == stored[k]
<1>1. /\ k \in Keys /\ e # Nil /\ seconds < e.at + Ttl(e.class)
      /\ e \in [by: Callers, class: AllClasses, at: Nat]
      /\ Ended(e.by) /\ loaded[e.by].kind = "kept" /\ e.class \in ServiceClasses
      /\ e.at <= seconds
  <2>1. k \in Keys
    BY CallersAssumption
  <2>2. e # Nil /\ seconds < e.at + Ttl(e.class)
    BY DEF Fresh
  <2>3. e \in [by: Callers, class: AllClasses, at: Nat]
    BY <2>1, <2>2 DEF CacheInv, CacheTypes
  <2> QED
    BY <2>1, <2>2, <2>3 DEF CacheInv, EntriesKept
<1>2. ServiceClasses' = ServiceClasses
  BY DEF ServiceClasses
<1>3. \A d \in Callers : Ended(d) => Ended(d)'
  BY DEF Ended, CacheInv, CacheTypes
<1>4. Ended(c)'
  BY DEF Ended, CacheInv, CacheTypes
<1>5. EntriesKept'
  BY <1>2, <1>3 DEF CacheInv, CacheTypes, EntriesKept
<1>6. BeforeEnded'
  BY <1>3 DEF CacheInv, CacheTypes, BeforeEnded
<1>7. got'[c] = FromCache(k) /\ \A d \in Callers : d # c => got'[d] = got[d]
  BY DEF CacheInv, CacheTypes
<1>8. LeadersKnow'
  <2>1. e.by # c
    BY <1>1
  <2>2. ~FromCache(k).led /\ FromCache(k).by # c
    BY <2>1 DEF FromCache
  <2> QED
    BY <1>3, <1>4, <1>7, <2>2 DEF CacheInv, LeadersKnow
<1>9. OldAnswersKept'
  <2>1. /\ FromCache(k).kind = "kept" /\ FromCache(k).by = e.by
        /\ FromCache(k).class = e.class /\ FromCache(k).age = seconds - e.at
    BY DEF FromCache
  <2>2. Ttl(e.class) \in Nat
    BY <1>1, TtlNat
  <2>3. seconds - e.at < Ttl(e.class)
    BY <1>1, <2>2 DEF CacheInv, CacheTypes
  <2> QED
    BY <1>1, <1>2, <1>7, <2>1, <2>3 DEF CacheInv, OldAnswersKept
<1>10. DurationsTrue'
  <2>1. \A d \in Callers : service = "responses" /\ answer[d] # Nil => d # c
    BY DEF CacheInv, DurationsTrue, Ended
  <2>2. \A d \in Callers : d # c => phase'[d] = phase[d]
    BY DEF CacheInv, CacheTypes
  <2> QED
    BY <1>7, <2>1, <2>2 DEF CacheInv, DurationsTrue, HttpDuration
<1> QED
  BY <1>5, <1>6, <1>8, <1>9, <1>10 DEF CacheInv

(* A load that ends shares what it found with those who waited. *)
LEMMA SettleKeeps ==
  ASSUME CacheInv, CacheTypes', NEW c \in Callers, phase[c] \in LoadPhases,
         NEW kind, NEW class, Settle(c, kind, class),
         kind = "kept" => class \in ServiceClasses /\ loaded'[c].kind = "kept",
         \A d \in Callers : d # c => loaded'[d] = loaded[d],
         UNCHANGED <<seconds, answer, before, service>>
  PROVE  CacheInv'
<1> DEFINE k == KeyOf[c]
           served == {c} \cup WaitersFor(k)
<1>1. k \in Keys /\ ~Ended(c) /\ \A w \in served : w \in Callers /\ ~Ended(w)
  BY CallersAssumption DEF WaitersFor, Ended, LoadPhases
<1>2. ServiceClasses' = ServiceClasses
  BY DEF ServiceClasses
<1>3. \A d \in Callers : phase'[d] = IF d \in served THEN "answered" ELSE phase[d]
  BY DEF Settle
<1>4. \A d \in Callers : Ended(d) => Ended(d)' /\ loaded'[d] = loaded[d]
  BY <1>1, <1>3 DEF Ended
<1>5. \A d \in served : Ended(d)'
  BY <1>1, <1>3 DEF Ended
<1>6. /\ \A d \in Callers \ served : got'[d] = got[d]
      /\ \A d \in served : got'[d].by = c /\ (got'[d].led <=> d = c)
  BY <1>1 DEF Settle
<1>7. EntriesKept'
  <2>1. CASE kind = "kept"
    <3>1. stored' = [stored EXCEPT ![k] = [by |-> c, class |-> class, at |-> seconds]]
      BY <2>1 DEF Settle
    <3>2. \A l \in Keys : stored'[l] = IF l = k THEN [by |-> c, class |-> class, at |-> seconds]
                                       ELSE stored[l]
      BY <3>1 DEF CacheInv, CacheTypes
    <3>3. ASSUME NEW l \in Keys, l # k, stored'[l] # Nil
          PROVE  /\ phase'[stored[l].by] \in {"answered", "done"}
                 /\ loaded'[stored[l].by].kind = "kept"
                 /\ stored[l].class \in ServiceClasses /\ stored[l].at <= seconds
      <4>1. stored[l] # Nil /\ stored[l].by \in Callers
        BY <3>2, <3>3 DEF CacheInv, CacheTypes
      <4>2. Ended(stored[l].by) /\ loaded[stored[l].by].kind = "kept"
        BY <4>1 DEF CacheInv, EntriesKept
      <4>3. \A d \in Callers : Ended(d) =>
              phase'[d] \in {"answered", "done"} /\ loaded'[d] = loaded[d]
        BY <1>4 DEF Ended
      <4>4. stored[l].class \in ServiceClasses /\ stored[l].at <= seconds
        BY <4>1 DEF CacheInv, EntriesKept
      <4> QED
        BY <4>1, <4>2, <4>3, <4>4
    <3>4. /\ phase'[c] \in {"answered", "done"} /\ loaded'[c].kind = "kept"
          /\ class \in ServiceClasses /\ seconds <= seconds
      BY <1>5, <2>1 DEF CacheInv, CacheTypes, Ended
    <3>5. ASSUME NEW l \in Keys, stored'[l] # Nil
          PROVE  /\ phase'[stored'[l].by] \in {"answered", "done"}
                 /\ loaded'[stored'[l].by].kind = "kept"
                 /\ stored'[l].class \in ServiceClasses' /\ stored'[l].at <= seconds'
      <4>1. CASE l = k
        BY <1>2, <3>2, <3>4, <4>1
      <4>2. CASE l # k
        BY <1>2, <3>2, <3>3, <3>5, <4>2
      <4> QED
        BY <4>1, <4>2
    <3> QED
      BY <3>5 DEF EntriesKept, Ended
  <2>2. CASE kind # "kept"
    <3>1. stored' = stored
      BY <2>2 DEF Settle
    <3> QED
      BY <1>2, <1>4, <3>1 DEF CacheInv, CacheTypes, EntriesKept
  <2> QED
    BY <2>1, <2>2
<1>8. LeadersKnow'
  BY <1>4, <1>5, <1>6 DEF CacheInv, LeadersKnow
<1>9. BeforeEnded'
  BY <1>4 DEF CacheInv, CacheTypes, BeforeEnded
<1>10. OldAnswersKept'
  <2>1. \A d \in served : got'[d].by \notin before[d]
    BY <1>1, <1>6 DEF CacheInv, BeforeEnded
  <2>2. \A d \in Callers : got[d] # Nil /\ got[d].by \in before[d] =>
          loaded'[got[d].by] = loaded[got[d].by]
    BY <1>4 DEF CacheInv, CacheTypes, BeforeEnded
  <2> QED
    BY <1>2, <1>6, <2>1, <2>2 DEF CacheInv, OldAnswersKept
<1>11. DurationsTrue'
  <2>1. \A d \in Callers : service = "responses" /\ answer[d] # Nil =>
          d \notin served /\ phase'[d] = "done"
    BY <1>1, <1>3 DEF CacheInv, DurationsTrue, Ended
  <2> QED
    BY <1>6, <2>1 DEF CacheInv, DurationsTrue, HttpDuration
<1> QED
  BY <1>7, <1>8, <1>9, <1>10, <1>11 DEF CacheInv

(* A call that takes what it got. *)
LEMMA ReplyKeeps ==
  ASSUME CacheInv, CacheTypes', NEW c \in Callers, phase[c] = "answered", Goto(c, "done"),
         \A d \in Callers : d # c => answer'[d] = answer[d],
         service = "responses" => answer'[c].timed = HttpDuration(got[c]),
         Forget(c), UNCHANGED <<stored, got, seconds, loaded, service>>
  PROVE  CacheInv'
<1>1. ServiceClasses' = ServiceClasses
  BY DEF ServiceClasses
<1>2. \A d \in Callers : Ended(d) => Ended(d)'
  BY DEF Ended, Goto, CacheInv, CacheTypes
<1>3. \A d \in Callers : before'[d] \subseteq before[d]
  BY DEF Forget, CacheInv, CacheTypes
<1>4. EntriesKept' /\ LeadersKnow' /\ BeforeEnded'
  BY <1>1, <1>2, <1>3 DEF CacheInv, CacheTypes, EntriesKept, LeadersKnow, BeforeEnded
<1>5. OldAnswersKept'
  BY <1>1, <1>3 DEF CacheInv, OldAnswersKept
<1>6. DurationsTrue'
  <2>1. phase'[c] = "done" /\ \A d \in Callers : d # c => phase'[d] = phase[d]
    BY DEF Goto, CacheInv, CacheTypes
  <2> QED
    BY <2>1 DEF CacheInv, DurationsTrue, HttpDuration
<1> QED
  BY <1>4, <1>5, <1>6 DEF CacheInv

(* Who is at work has a backend to ask. *)
LEMMA AtWork ==
  ASSUME CacheTypes, NEW c \in Callers, phase[c] \notin {"new", "done", "gone"}
  PROVE  service \in Backends => service \in BackendNames
  BY DEF CacheTypes

(* A load that ends, with the types of what it ends with. *)
LEMMA SettleInv ==
  ASSUME CacheInv, NEW c \in Callers, phase[c] \in LoadPhases,
         NEW kind \in Kinds, NEW class \in AllClasses, Settle(c, kind, class),
         kind = "kept" => class \in ServiceClasses /\ loaded'[c].kind = "kept",
         loaded' \in [Callers -> {Nil} \cup Loads],
         \A d \in Callers : d # c => loaded'[d] = loaded[d],
         UNCHANGED <<seconds, answer, before, service>>
  PROVE  CacheInv'
<1> DEFINE k == KeyOf[c]
           served == {c} \cup WaitersFor(k)
           share == [w \in Callers |-> [by |-> c, kind |-> kind, led |-> w = c, age |-> 0,
                                        class |-> class]]
<1>1. k \in Keys /\ seconds \in Nat
  BY CallersAssumption DEF CacheInv, CacheTypes
<1>2. phase' = [w \in Callers |-> IF w \in served THEN "answered" ELSE phase[w]]
  BY DEF Settle
<1>3. phase' \in [Callers -> LoadPhases \cup OtherPhases \cup {"waiting"}]
  BY <1>2 DEF CacheInv, CacheTypes, OtherPhases
<1>4. stored' \in [Keys -> {Nil} \cup [by: Callers, class: AllClasses, at: Nat]]
  BY <1>1 DEF Settle, CacheInv, CacheTypes
<1>5. got' = [w \in Callers |-> IF w \in served THEN share[w] ELSE got[w]]
  BY DEF Settle
<1>6. \A w \in Callers : share[w] \in Shares
  BY DEF Shares
<1>7. got' \in [Callers -> {Nil} \cup Shares]
  BY <1>5, <1>6 DEF CacheInv, CacheTypes
<1>8. \A d \in Callers : service = "responses" /\ phase'[d] = "recording" =>
        loaded'[d] \in [kind: Kinds, class: Classes]
  BY <1>2 DEF CacheInv, CacheTypes
<1>9. \A d \in Callers : service \in Backends \ BackendNames => phase'[d] \in {"new", "done", "gone"}
  <2>1. phase[c] \notin {"new", "done", "gone"}
    BY DEF LoadPhases
  <2>2. service \notin Backends \ BackendNames
    BY <2>1, AtWork DEF CacheInv
  <2> QED
    BY <2>2
<1>10. \A d \in Callers : phase'[d] = "answered" => got'[d] \in Shares
  BY <1>2, <1>5, <1>6 DEF CacheInv, CacheTypes
<1>11. CacheTypes'
  BY <1>3, <1>4, <1>7, <1>8, <1>9, <1>10 DEF CacheInv, CacheTypes
<1> QED
  BY <1>11, SettleKeeps

(* An entry that is served. *)
LEMMA HitInv ==
  ASSUME CacheInv, ServicesDistinct, NEW c \in Callers, phase[c] \in {"asking", "joining"},
         Fresh(KeyOf[c]), got' = [got EXCEPT ![c] = FromCache(KeyOf[c])],
         phase' = [phase EXCEPT ![c] = "answered"],
         UNCHANGED <<stored, seconds, loaded, answer, before, service>>
  PROVE  CacheInv'
<1> DEFINE e == stored[KeyOf[c]]
<1>1. e \in [by: Callers, class: AllClasses, at: Nat] /\ e.at <= seconds /\ seconds \in Nat
  BY CallersAssumption DEF Fresh, CacheInv, CacheTypes, EntriesKept
<1>2. FromCache(KeyOf[c]) \in Shares
  BY <1>1 DEF FromCache, Kinds, Shares
<1>3. got' \in [Callers -> {Nil} \cup Shares]
  BY <1>2 DEF CacheInv, CacheTypes
<1>4. CacheTypes'
  BY <1>2, <1>3, AtWork DEF CacheInv, CacheTypes, OtherPhases
<1> QED
  BY <1>4, HitKeeps DEF Ended

(* A call that goes on. *)
LEMMA GoOnInv ==
  ASSUME CacheInv, NEW c \in Callers,
         phase[c] \in LoadPhases \cup {"new", "identifying", "asking", "joining", "waiting"},
         NEW p \in LoadPhases \cup (OtherPhases \ {"answered"}) \cup {"waiting"}, Goto(c, p),
         service \in Backends \ BackendNames => p \in {"done", "gone"},
         \/ loaded' = loaded /\ p # "recording"
         \/ \E load \in {Nil} \cup Loads :
              /\ loaded' = [loaded EXCEPT ![c] = load]
              /\ service = "responses" /\ p = "recording" => load \in [kind: Kinds, class: Classes],
         before' = before \/ BeginAsking(c) \/ Forget(c),
         UNCHANGED <<stored, got, seconds, answer, service>>
  PROVE  CacheInv'
<1>1. ~Ended(c) /\ \A d \in Callers : d # c => phase'[d] = phase[d] /\ loaded'[d] = loaded[d]
  BY DEF Goto, CacheInv, CacheTypes, Ended, LoadPhases
<1>2. phase'[c] = p
  BY DEF Goto, CacheInv, CacheTypes
<1>3. /\ phase' \in [Callers -> LoadPhases \cup OtherPhases \cup {"waiting"}]
      /\ loaded' \in [Callers -> {Nil} \cup Loads]
      /\ before' \in [Callers -> SUBSET Callers]
  BY DEF Goto, CacheInv, CacheTypes, Forget, BeginAsking
<1>4. service = "responses" /\ p = "recording" => loaded'[c] \in [kind: Kinds, class: Classes]
  BY DEF CacheInv, CacheTypes
<1>8a. \A d \in Callers : phase'[d] = "answered" => got[d] \in Shares
  BY <1>1, <1>2 DEF CacheInv, CacheTypes, LoadPhases
<1>5. CacheTypes'
  BY <1>1, <1>2, <1>3, <1>4, <1>8a DEF CacheInv, CacheTypes
<1>6. \A d \in Callers : \A l \in before'[d] : Ended(l)
  BY DEF CacheInv, CacheTypes, BeforeEnded, Forget, BeginAsking, Ended
<1>7. \A d \in Callers : got[d] # Nil => before'[d] \subseteq before[d]
  BY <1>1 DEF CacheInv, CacheTypes, LeadersKnow, Forget, BeginAsking
<1> QED
  BY <1>1, <1>5, <1>6, <1>7, QuietKeeps DEF CacheInv, CacheTypes

(* A leader that is gone; its waiters start over. *)
LEMMA AbandonInv ==
  ASSUME CacheInv, NEW c \in Callers, phase[c] \in LoadPhases, Abandon(c),
         loaded' = loaded \/ loaded' = [loaded EXCEPT ![c] = Nil],
         before' = before \/ Forget(c),
         UNCHANGED <<stored, got, seconds, answer, service>>
  PROVE  CacheInv'
<1>1. ~Ended(c) /\ phase[c] \notin {"new", "done", "gone"}
  BY DEF Ended, LoadPhases
<1>2. \A d \in Callers : phase'[d] = IF d = c THEN "gone"
                                    ELSE IF d \in WaitersFor(KeyOf[c]) THEN "joining"
                                    ELSE phase[d]
  BY DEF Abandon
<1>3. \A d \in Callers : Ended(d) => phase'[d] = phase[d] /\ loaded'[d] = loaded[d]
  BY <1>1, <1>2 DEF WaitersFor, Ended, CacheInv, CacheTypes
<1>4. /\ phase' \in [Callers -> LoadPhases \cup OtherPhases \cup {"waiting"}]
      /\ loaded' \in [Callers -> {Nil} \cup Loads]
      /\ before' \in [Callers -> SUBSET Callers]
  BY DEF Abandon, CacheInv, CacheTypes, Forget, OtherPhases
<1>5. \A d \in Callers : service = "responses" /\ phase'[d] = "recording" =>
        loaded'[d] \in [kind: Kinds, class: Classes]
  BY <1>2 DEF CacheInv, CacheTypes
<1>6. service \notin Backends \ BackendNames
  BY <1>1, AtWork DEF CacheInv
<1>8a. \A d \in Callers : phase'[d] = "answered" => got[d] \in Shares
  BY <1>2 DEF CacheInv, CacheTypes
<1>7. CacheTypes'
  BY <1>4, <1>5, <1>6, <1>8a DEF CacheInv, CacheTypes
<1>8. \A d \in Callers : before'[d] \subseteq before[d]
  BY DEF CacheInv, CacheTypes, Forget
<1>9. \A d \in Callers : \A l \in before'[d] : Ended(l)
  BY <1>8 DEF CacheInv, BeforeEnded
<1> QED
  BY <1>3, <1>7, <1>8, <1>9, QuietKeeps DEF CacheInv, CacheTypes

(* A call that returns, with or without a duration. *)
LEMMA ReplyInv ==
  ASSUME CacheInv, NEW c \in Callers, phase[c] = "answered", Goto(c, "done"),
         NEW ok \in BOOLEAN, NEW timed \in BOOLEAN,
         answer' = [answer EXCEPT ![c] = [ok |-> ok, timed |-> timed]],
         service = "responses" => timed = HttpDuration(got[c]),
         Forget(c), UNCHANGED <<stored, got, seconds, loaded, service>>
  PROVE  CacheInv'
<1>1. answer'[c] = [ok |-> ok, timed |-> timed] /\ \A d \in Callers : d # c => answer'[d] = answer[d]
  BY DEF CacheInv, CacheTypes
<1>2. /\ phase' \in [Callers -> LoadPhases \cup OtherPhases \cup {"waiting"}]
      /\ before' \in [Callers -> SUBSET Callers]
      /\ answer' \in [Callers -> {Nil} \cup [ok: BOOLEAN, timed: BOOLEAN]]
  BY DEF Goto, CacheInv, CacheTypes, Forget, OtherPhases
<1>3. \A d \in Callers : /\ phase'[d] = "recording" => phase[d] = "recording"
                         /\ phase'[d] = "answered" => phase[d] = "answered"
  BY DEF Goto, CacheInv, CacheTypes
<1>4. \A d \in Callers : service \in Backends \ BackendNames => phase'[d] \in {"new", "done", "gone"}
  BY DEF Goto, CacheInv, CacheTypes
<1>5. CacheTypes'
  BY <1>2, <1>3, <1>4 DEF CacheInv, CacheTypes
<1> QED
  BY <1>1, <1>5, ReplyKeeps

(* The cached search: what it ends with has a class of responses. *)
LEMMA SearchInv ==
  ASSUME CacheInv, ServicesDistinct, service = "responses", NEW c \in Callers, SearchStep(c),
         UNCHANGED service
  PROVE  CacheInv'
<1>1. service \notin Backends /\ ServiceClasses = Classes
  BY DEF ServicesDistinct, ServiceClasses
<1>2. CASE Prepare(c) \/ EnsureClientId(c)
  <2>1. CASE Goto(c, "done") /\ before' = before
    BY <1>1, <1>2, <2>1, GoOnInv DEF Prepare, EnsureClientId, loadUnchanged, OtherPhases
  <2>2. CASE BeginAsking(c)
    BY <1>1, <1>2, <2>2, GoOnInv
       DEF Prepare, EnsureClientId, loadUnchanged, OtherPhases, BeginAsking
  <2>3. CASE Prepare(c) /\ Goto(c, "identifying") /\ before' = before
    BY <1>1, <2>3, GoOnInv DEF Prepare, loadUnchanged, OtherPhases
  <2> QED
    BY <1>2, <2>1, <2>2, <2>3 DEF Prepare, EnsureClientId, BuildRequest
<1>3. CASE CheckHealth(c)
  <2>1. CASE Goto(c, "sending") /\ UNCHANGED <<stored, leader, got>>
    BY <1>1, <1>3, <2>1, GoOnInv DEF CheckHealth, LoadPhases
  <2>2. CASE Settle(c, "refused", "html")
    <3>1. "refused" \in Kinds /\ "html" \in AllClasses /\ phase[c] \in LoadPhases
      BY <1>3 DEF Kinds, AllClasses, Classes, CheckHealth, LoadPhases
    <3>2. loaded' \in [Callers -> {Nil} \cup Loads]
      BY <1>3 DEF CheckHealth, CacheInv, CacheTypes
    <3> QED
      BY <1>3, <2>2, <3>1, <3>2, SettleInv DEF CheckHealth
  <2> QED
    BY <1>3, <2>1, <2>2 DEF CheckHealth, get_or_load
<1>4. [kind |-> "failed", class |-> "html"] \in [kind: Kinds, class: Classes]
  BY DEF Kinds, Classes
<1>5. [kind: Kinds, class: Classes] \subseteq Loads
  BY DEF Loads, AllClasses
<1>6. CASE Send(c)
  <2>1. CASE Goto(c, "reading") /\ loaded' = loaded
    BY <1>1, <1>6, <2>1, GoOnInv DEF Send, loadUnchanged, LoadPhases
  <2>2. CASE /\ Goto(c, "recording")
             /\ loaded' = [loaded EXCEPT ![c] = [kind |-> "failed", class |-> "html"]]
    BY <1>1, <1>4, <1>5, <1>6, <2>2, GoOnInv DEF Send, loadUnchanged, LoadPhases
  <2> QED
    BY <1>6, <2>1, <2>2 DEF Send
<1>7. CASE ReadBody(c)
  <2>1. PICK load \in [kind: Kinds, class: Classes] : loaded' = [loaded EXCEPT ![c] = load]
    BY <1>4, <1>7, ResponseLoadTypes DEF ReadBody
  <2> QED
    BY <1>1, <1>5, <1>7, <2>1, GoOnInv DEF ReadBody, loadUnchanged, LoadPhases
<1>8. CASE Record(c)
  <2>1. loaded[c] \in [kind: Kinds, class: Classes] /\ phase[c] \in LoadPhases
    BY <1>8 DEF Record, CacheInv, CacheTypes, LoadPhases
  <2>2. loaded' \in [Callers -> {Nil} \cup Loads]
    BY <1>8 DEF Record, CacheInv, CacheTypes
  <2>3. loaded[c].kind \in Kinds /\ loaded[c].class \in Classes /\ loaded[c].class \in AllClasses
    BY <2>1 DEF AllClasses
  <2> QED
    BY <1>1, <1>8, <2>1, <2>2, <2>3, SettleInv DEF Record, get_or_load
<1>9. CASE Reply(c)
  <2>1. got[c] \in Shares
    BY <1>9 DEF Reply, CacheInv, CacheTypes
  <2>2. got[c].kind \in Kinds /\ got[c].led \in BOOLEAN
    BY <2>1 DEF Shares
  <2>3. HttpDuration(got[c]) \in BOOLEAN
    BY <2>2 DEF HttpDuration, Kinds
  <2>4. (got[c].kind \in {"kept", "uncached"}) \in BOOLEAN
    OBVIOUS
  <2> QED
    BY <1>9, <2>3, <2>4, ReplyInv DEF Reply, loadUnchanged
<1> QED
  BY <1>2, <1>3, <1>6, <1>7, <1>8, <1>9 DEF SearchStep

LEMMA ImageEndInv ==
  ASSUME CacheInv, ServicesDistinct, service = "images", NEW c \in Callers,
         phase[c] \in LoadPhases, NEW load \in [kind: Kinds, class: {"image", "page"}],
         EndImageLoad(c, load), UNCHANGED service
  PROVE  CacheInv'
<1>1. ServiceClasses = {"image", "page"}
  BY DEF ServicesDistinct, ServiceClasses
<1>2. load \in Loads /\ load.kind \in Kinds /\ load.class \in AllClasses /\ load.class \in ServiceClasses
  BY <1>1 DEF Loads, AllClasses
<1>3. /\ loaded' \in [Callers -> {Nil} \cup Loads]
      /\ loaded'[c] = load /\ \A d \in Callers : d # c => loaded'[d] = loaded[d]
  BY <1>2 DEF EndImageLoad, CacheInv, CacheTypes
<1> QED
  BY <1>2, <1>3, SettleInv DEF EndImageLoad

(* The proxied image. *)
LEMMA ImageInv ==
  ASSUME CacheInv, ServicesDistinct, service = "images", NEW c \in Callers, ImageStep(c),
         UNCHANGED service
  PROVE  CacheInv'
<1>1. service \notin Backends
  BY DEF ServicesDistinct
<1>2. CASE ImageRequest(c)
  <2>1. CASE Goto(c, "done") /\ before' = before
    BY <1>1, <1>2, <2>1, GoOnInv DEF ImageRequest, loadUnchanged, OtherPhases
  <2>2. CASE BeginAsking(c)
    BY <1>1, <1>2, <2>2, GoOnInv DEF ImageRequest, loadUnchanged, OtherPhases, BeginAsking
  <2> QED
    BY <1>2, <2>1, <2>2 DEF ImageRequest
<1>3. CASE phase[c] \in LoadPhases /\ ImageLoadFails(c)
  <2>1. [kind |-> "failed", class |-> "page"] \in [kind: Kinds, class: {"image", "page"}]
    BY DEF Kinds
  <2> QED
    BY <1>3, <2>1, ImageEndInv DEF ImageLoadFails
<1>4. CASE phase[c] \in LoadPhases /\ \E load \in ImageLoads : EndImageLoad(c, load)
  BY <1>4, ImageLoadTypes, ImageEndInv
<1>5. CASE /\ phase[c] \in LoadPhases /\ \E p \in {"loading", "sending", "reading"} : Goto(c, p)
           /\ UNCHANGED <<loadUnchanged, loaded, answer, before>>
  BY <1>1, <1>5, GoOnInv DEF loadUnchanged, LoadPhases
<1>6. CASE ImageReply(c)
  <2>1. (got[c].kind # "failed" /\ got[c].class = "image") \in BOOLEAN /\ FALSE \in BOOLEAN
    OBVIOUS
  <2> QED
    BY <1>6, <2>1, ReplyInv DEF ImageReply, loadUnchanged
<1> QED
  BY <1>2, <1>3, <1>4, <1>5, <1>6
     DEF ImageStep, ValidateHop, FollowRedirect, ImageHeaders, ImageBody, LoadPhases

(* The suggestions. *)
LEMMA SuggestionInv ==
  ASSUME CacheInv, ServicesDistinct, service \in Backends, NEW c \in Callers,
         SuggestionStep(c, service), UNCHANGED service
  PROVE  CacheInv'
<1>1. service # "responses" /\ ServiceClasses = {"list", "empty"}
  BY DEF ServicesDistinct, ServiceClasses
<1>2. ASSUME NEW load \in [kind: Kinds, class: {"list", "empty"}], phase[c] = "loading",
             Settle(c, load.kind, load.class), loaded' = [loaded EXCEPT ![c] = load],
             UNCHANGED <<seconds, answer, before>>
      PROVE  CacheInv'
  <2>1. /\ load \in Loads /\ load.kind \in Kinds /\ load.class \in AllClasses
        /\ load.class \in ServiceClasses /\ phase[c] \in LoadPhases
    BY <1>1, <1>2 DEF Loads, AllClasses, LoadPhases
  <2>2. /\ loaded' \in [Callers -> {Nil} \cup Loads]
        /\ loaded'[c] = load /\ \A d \in Callers : d # c => loaded'[d] = loaded[d]
    BY <1>2, <2>1 DEF CacheInv, CacheTypes
  <2> QED
    BY <1>2, <2>1, <2>2, SettleInv
<1>3. BackendError \in [kind: Kinds, class: {"list", "empty"}]
  BY DEF BackendError, Kinds
<1>4. CASE SuggestionRequest(c, service)
  <2>1. CASE Goto(c, "done") /\ before' = before
    BY <1>4, <2>1, GoOnInv DEF SuggestionRequest, loadUnchanged, OtherPhases
  <2>2. CASE service \in BackendNames /\ BeginAsking(c)
    BY <1>4, <2>2, GoOnInv DEF SuggestionRequest, loadUnchanged, OtherPhases, BeginAsking
  <2> QED
    BY <1>4, <2>1, <2>2 DEF SuggestionRequest
<1>5. CASE BackendAnswers(c, service)
  <2>1. service \in BackendNames
    BY <1>5, AtWork DEF BackendAnswers, CacheInv
  <2>2. PICK load \in SuggestionLoads[service] \cup {BackendError} :
          IF load = Panicked
          THEN Abandon(c) /\ UNCHANGED <<stored, got, loaded>>
          ELSE Settle(c, load.kind, load.class) /\ loaded' = [loaded EXCEPT ![c] = load]
    BY <1>5 DEF BackendAnswers
  <2>3. CASE load = Panicked
    BY <1>5, <2>2, <2>3, AbandonInv DEF BackendAnswers, LoadPhases
  <2>4. CASE load # Panicked
    <3>1. load \in [kind: Kinds, class: {"list", "empty"}]
      BY <1>3, <2>1, <2>2, <2>4, SuggestionLoadTypes
    <3> QED
      BY <1>2, <1>5, <2>2, <2>4, <3>1 DEF BackendAnswers
  <2> QED
    BY <2>3, <2>4
<1>6. CASE BackendTimesOut(c)
  BY <1>2, <1>3, <1>6 DEF BackendTimesOut
<1>7. CASE run_autocomplete(c)
  <2>1. (got[c].kind = "kept" /\ got[c].class = "list") \in BOOLEAN /\ FALSE \in BOOLEAN
    OBVIOUS
  <2> QED
    BY <1>1, <1>7, <2>1, ReplyInv DEF run_autocomplete, loadUnchanged
<1> QED
  BY <1>4, <1>5, <1>6, <1>7 DEF SuggestionStep

LEMMA CacheStep == ServicesDistinct /\ CacheInv /\ [LoadsNext]_loadsVars => CacheInv'
<1> SUFFICES ASSUME ServicesDistinct, CacheInv, [LoadsNext]_loadsVars PROVE CacheInv'
  OBVIOUS
<1>1. ASSUME NEW c \in Callers, AskCache(c) PROVE CacheInv'
  <2>1. CASE Fresh(KeyOf[c])
    BY <1>1, <2>1, HitInv DEF AskCache, Ask
  <2>2. CASE ~Fresh(KeyOf[c])
    <3>1. service \notin Backends \ BackendNames
      BY <1>1, AtWork DEF AskCache, Ask, CacheInv
    <3> QED
      BY <1>1, <2>2, <3>1, GoOnInv DEF AskCache, Ask, Goto, OtherPhases
  <2> QED
    BY <2>1, <2>2
<1>2. ASSUME NEW c \in Callers, JoinLoad(c) PROVE CacheInv'
  <2>1. service \notin Backends \ BackendNames
    BY <1>2, AtWork DEF JoinLoad, TryGetWith, CacheInv
  <2>2. CASE Fresh(KeyOf[c])
    BY <1>2, <2>2, HitInv DEF JoinLoad, TryGetWith
  <2>3. CASE ~Fresh(KeyOf[c]) /\ Goto(c, "loading") /\ got' = got
    BY <1>2, <2>1, <2>3, GoOnInv DEF JoinLoad, TryGetWith, LoadPhases
  <2>4. CASE ~Fresh(KeyOf[c]) /\ Goto(c, "waiting") /\ got' = got
    BY <1>2, <2>1, <2>4, GoOnInv DEF JoinLoad, TryGetWith
  <2> QED
    BY <1>2, <2>2, <2>3, <2>4 DEF JoinLoad, TryGetWith, Goto
<1>3. ASSUME NEW c \in Callers, SearchCall(c) PROVE CacheInv'
  BY <1>3, SearchInv DEF SearchCall
<1>4. ASSUME NEW c \in Callers, ImageCall(c) PROVE CacheInv'
  BY <1>4, ImageInv DEF ImageCall
<1>5. ASSUME NEW c \in Callers, SuggestionCall(c) PROVE CacheInv'
  BY <1>5, SuggestionInv DEF SuggestionCall
<1>6. ASSUME NEW c \in Callers, CancelCall(c) PROVE CacheInv'
  <2>1. CASE phase[c] \in LoadPhases /\ Abandon(c)
    BY <1>6, <2>1, AbandonInv DEF CancelCall
  <2>2. CASE phase[c] \in {"identifying", "asking", "joining", "waiting"} /\ Goto(c, "gone")
    BY <1>6, <2>2, GoOnInv DEF CancelCall, OtherPhases
  <2> QED
    BY <1>6, <2>1, <2>2 DEF CancelCall
<1>7. ASSUME NEW k \in Keys, EvictEntry(k) PROVE CacheInv'
  <2>1. CacheTypes'
    BY <1>7 DEF EvictEntry, Evict, CacheInv, CacheTypes
  <2>2. \A l \in Keys : stored'[l] = stored[l] \/ stored'[l] = Nil
    BY <1>7 DEF EvictEntry, Evict, CacheInv, CacheTypes
  <2> QED
    BY <1>7, <2>1, <2>2, QuietKeeps DEF EvictEntry, Evict, CacheInv, BeforeEnded
<1>8. CASE SecondPasses
  <2>1. CacheTypes'
    BY <1>8 DEF SecondPasses, CacheInv, CacheTypes
  <2> QED
    BY <1>8, <2>1, QuietKeeps DEF SecondPasses, CacheInv, BeforeEnded
<1>9. CASE UNCHANGED loadsVars
  <2>1. CacheTypes'
    BY <1>9 DEF loadsVars, CacheInv, CacheTypes
  <2> QED
    BY <1>9, <2>1, QuietKeeps DEF loadsVars, CacheInv, BeforeEnded
<1> QED
  BY <1>1, <1>2, <1>3, <1>4, <1>5, <1>6, <1>7, <1>8, <1>9 DEF LoadsNext, Step

LEMMA CacheInvariance == ASSUME ServicesDistinct PROVE LoadsSpec => []CacheInv
<1>1. LoadsInit => CacheInv
  BY DEF LoadsInit, CacheInit, CacheInv, CacheTypes, EntriesKept, LeadersKnow, BeforeEnded,
         OldAnswersKept, DurationsTrue, LoadPhases, OtherPhases
<1>2. CacheInv /\ [LoadsNext]_loadsVars => CacheInv'
  BY CacheStep
<1> QED
  BY <1>1, <1>2, PTL DEF LoadsSpec

(***************************************************************************)
(* Whatever a call gets from a load that was over before the call asked,   *)
(* the load was a success and its time to live has not passed.             *)
(***************************************************************************)
THEOREM OnlyFreshSuccesses == ASSUME ServicesDistinct PROVE LoadsSpec => []OldAnswersAreFresh
<1>1. CacheInv => OldAnswersAreFresh
  <2> SUFFICES ASSUME CacheInv, NEW c \in Callers, got[c] # Nil, got[c].by \in before[c]
               PROVE  /\ got[c].kind = "kept"
                      /\ loaded[got[c].by].kind = "kept"
                      /\ got[c].age <
                           CASE service = "responses" -> IF got[c].class = "structured"
                                                         THEN StructuredTtl ELSE HtmlTtl
                             [] service = "images"    -> IMAGE_CACHE_TTL
                             [] service \in Backends  -> SuggestionTtl
    BY DEF OldAnswersAreFresh
  <2>1. /\ got[c].kind = "kept" /\ loaded[got[c].by].kind = "kept"
        /\ got[c].class \in ServiceClasses /\ got[c].age < Ttl(got[c].class)
    BY DEF CacheInv, OldAnswersKept
  <2>2. got[c].class \in AllClasses
    BY <2>1, ServiceClassesKnown DEF CacheInv
  <2>3. got[c].age < LoadTtl(got[c].class)
    BY <2>1, <2>2, TtlAssumption DEF AllClasses
  <2>4. CASE service = "responses"
    <3>1. got[c].class \in {"html", "structured"}
      BY <2>1, <2>4 DEF ServiceClasses, ServicesDistinct, Classes
    <3>2. LoadTtl(got[c].class) = IF got[c].class = "structured" THEN StructuredTtl ELSE HtmlTtl
      BY <3>1 DEF LoadTtl, ResponseTtl, Classes
    <3> QED
      BY <2>1, <2>3, <2>4, <3>2 DEF ServicesDistinct
  <2>5. CASE service = "images"
    <3>1. got[c].class \in {"image", "page"}
      BY <2>1, <2>5 DEF ServiceClasses, ServicesDistinct
    <3>2. LoadTtl(got[c].class) = IMAGE_CACHE_TTL
      BY <3>1 DEF LoadTtl, Classes
    <3> QED
      BY <2>1, <2>3, <2>5, <3>2 DEF ServicesDistinct
  <2>6. CASE service \in Backends
    <3>1. got[c].class \in {"list", "empty"}
      BY <2>1, <2>6 DEF ServiceClasses, ServicesDistinct
    <3>2. LoadTtl(got[c].class) = SuggestionTtl
      BY <3>1 DEF LoadTtl, Classes
    <3> QED
      BY <2>1, <2>3, <2>6, <3>2 DEF ServicesDistinct
  <2> QED
    BY <2>4, <2>5, <2>6 DEF CacheInv, CacheTypes
<1> QED
  BY <1>1, CacheInvariance, PTL

(***************************************************************************)
(* Of all the searches that are served a response that was kept, exactly   *)
(* the one whose load it was reports how long the engine took.             *)
(***************************************************************************)
THEOREM DurationOfProducer == ASSUME ServicesDistinct PROVE LoadsSpec => []ProducerReportsDuration
<1>1. CacheInv => ProducerReportsDuration
  BY DEF CacheInv, LeadersKnow, DurationsTrue, ProducerReportsDuration, HttpDuration
<1> QED
  BY <1>1, CacheInvariance, PTL
-----------------------------------------------------------------------------
(* The favicon lookups.  The two favicon tables agree for any number of      *)
(* authorities and icons, whatever their sizes, with any number of lookups,   *)
(* failures of resolver and storage, expiry and pruning.                      *)
(* Digests are not among the words the mapping and the resolver use. *)
IconsAreDigests == Icons \cap {"absent", "missing", "none", "error"} = {}

(* What a caller is about to store is an answer of the resolver. *)
StoresAnswers ==
  \A c \in Lookups : pc[c] = "storing" => digest[c] \in Icons \cup {"missing"}

(* The inductive invariant. *)
TablesInv ==
  /\ mapping \in [Authorities -> Icons \cup {"absent", "missing"}]
  /\ pc \in [Lookups -> Phases]
  /\ digest \in [Lookups -> Icons \cup {"none", "missing", "error"}]
  /\ StoresAnswers
  /\ TablesAgree

(* favicon_put adds the blob of its mapping and drops the one nobody refers to. *)
LEMMA PutAgrees ==
  ASSUME mapping \in [Authorities -> Icons \cup {"absent", "missing"}], TablesAgree,
         IconsAreDigests,
         NEW a \in Authorities, NEW value \in Icons \cup {"missing"},
         FaviconPut(a, value)
  PROVE  /\ mapping' \in [Authorities -> Icons \cup {"absent", "missing"}]
         /\ TablesAgree'
<1>1. CASE UNCHANGED favVars
  BY <1>1 DEF favVars, TablesAgree, Referenced
<1>2. CASE ~(value \in Icons /\ SizeOf[value] > MaxBlob)
  <2> DEFINE map == [mapping EXCEPT ![a] = value]
  <2>1. /\ mapping' = map
        /\ blobs' = (blobs \cup ({value} \cap Icons))
                      \ (IF mapping[a] = value THEN {} ELSE Orphans(mapping[a], map))
    BY <1>2 DEF FaviconPut
  <2>2. map \in [Authorities -> Icons \cup {"absent", "missing"}]
    OBVIOUS
  <2>3. ASSUME NEW i \in Referenced(map) PROVE i \in blobs'
    BY <2>1, <2>3 DEF Referenced, Orphans, TablesAgree
  <2>4. ASSUME NEW i \in blobs' PROVE i \in Referenced(map)
    <3>1. i \in Icons /\ (i \in Referenced(mapping) \/ i = value)
      BY <2>1, <2>4 DEF TablesAgree, Referenced
    <3>2. CASE i = value
      BY <3>1, <3>2 DEF Referenced
    <3>3. CASE i # value /\ i = mapping[a]
      BY <2>1, <2>4, <3>1, <3>3 DEF Orphans
    <3>4. CASE i # value /\ i # mapping[a]
      BY <3>1, <3>4 DEF Referenced
    <3> QED
      BY <3>2, <3>3, <3>4
  <2>5. Referenced(mapping') = blobs'
    BY <2>1, <2>3, <2>4
  <2> QED
    BY <2>1, <2>2, <2>5 DEF TablesAgree, Referenced
<1> QED
  BY <1>1, <1>2 DEF FaviconPut

(* Maintenance keeps exactly the blobs whose mappings it keeps. *)
LEMMA MaintenanceAgrees ==
  ASSUME mapping \in [Authorities -> Icons \cup {"absent", "missing"}], TablesAgree,
         IconsAreDigests, MaintenanceFavicons
  PROVE  /\ mapping' \in [Authorities -> Icons \cup {"absent", "missing"}]
         /\ TablesAgree'
<1> DEFINE live == [a \in Authorities |-> Visible(a)]
           held == blobs \cap Referenced(live)
<1>1. PICK kept \in SUBSET held :
        /\ blobs' = kept
        /\ mapping' = [a \in Authorities |->
                         IF live[a] \in held \ kept THEN "absent" ELSE live[a]]
  BY DEF MaintenanceFavicons
<1>2. \A a \in Authorities : live[a] \in {mapping[a], "absent"}
  BY DEF Visible
<1>3. mapping' \in [Authorities -> Icons \cup {"absent", "missing"}]
  BY <1>1, <1>2
<1>4. ASSUME NEW a \in Authorities, live[a] \in Icons PROVE live[a] \in held
  BY <1>2, <1>4 DEF TablesAgree, Referenced, IconsAreDigests
<1>5. ASSUME NEW i \in Referenced(mapping') PROVE i \in kept
  <2>1. PICK a \in Authorities : i = mapping'[a] /\ i \in Icons
    BY <1>5 DEF Referenced
  <2>2. live[a] \notin held \ kept /\ i = live[a]
    BY <1>1, <2>1 DEF IconsAreDigests
  <2> QED
    BY <1>4, <2>1, <2>2
<1>6. ASSUME NEW i \in kept PROVE i \in Referenced(mapping')
  <2>1. PICK a \in Authorities : i = live[a] /\ i \in Icons
    BY <1>6 DEF Referenced
  <2>2. mapping'[a] = i
    BY <1>1, <1>6, <2>1
  <2> QED
    BY <2>1, <2>2 DEF Referenced
<1>7. Referenced(mapping') = blobs'
  BY <1>1, <1>5, <1>6
<1> QED
  BY <1>3, <1>7 DEF TablesAgree, Referenced

(* No step of a call but the put touches the tables. *)
LEMMA CallKeepsTables ==
  ASSUME NEW c \in Lookups, Start(c) \/ CallStep(c) \/ CancelLookup(c), ~Store(c)
  PROVE  UNCHANGED favVars
  BY DEF Start, CallStep, CancelLookup, LookUpMapping, LookUpBlob, ReadMapping, ReadBlob, GetLock,
         Lock, LookUpMappingAgain, LookUpBlobAgain, Resolve, Remove, StorageFails, favVars

(* Every step of a call keeps its types, and what it stores an answer. *)
LEMMA CallTypes ==
  ASSUME TablesInv, IconsAreDigests, NEW c \in Lookups,
         Start(c) \/ CallStep(c) \/ CancelLookup(c)
  PROVE  /\ pc' \in [Lookups -> Phases]
         /\ digest' \in [Lookups -> Icons \cup {"none", "missing", "error"}]
         /\ StoresAnswers'
<1> USE LookupsAssumption DEF TablesInv, StoresAnswers, Proceed, Done, Phases
<1>1. CASE Start(c)
  BY <1>1 DEF Start
<1>2. CASE LookUpMapping(c)
  BY <1>2 DEF LookUpMapping, ReadMapping
<1>3. CASE LookUpBlob(c)
  BY <1>3 DEF LookUpBlob, ReadBlob
<1>4. CASE GetLock(c)
  BY <1>4 DEF GetLock
<1>5. CASE Lock(c)
  BY <1>5 DEF Lock
<1>6. CASE LookUpMappingAgain(c)
  BY <1>6 DEF LookUpMappingAgain, ReadMapping
<1>7. CASE LookUpBlobAgain(c)
  BY <1>7 DEF LookUpBlobAgain, ReadBlob
<1>8. CASE Resolve(c)
  BY <1>8 DEF Resolve
<1>9. CASE Store(c)
  BY <1>9 DEF Store
<1>10. CASE Remove(c)
  BY <1>10 DEF Remove
<1>11. CASE StorageFails(c)
  BY <1>11 DEF StorageFails
<1>12. CASE CancelLookup(c)
  BY <1>12 DEF CancelLookup
<1> QED
  BY <1>1, <1>2, <1>3, <1>4, <1>5, <1>6, <1>7, <1>8, <1>9, <1>10, <1>11, <1>12 DEF CallStep

LEMMA TablesStep == IconsAreDigests /\ TablesInv /\ [LookupNext]_lookupVars => TablesInv'
<1> SUFFICES ASSUME IconsAreDigests, TablesInv, [LookupNext]_lookupVars PROVE TablesInv'
  OBVIOUS
<1>1. ASSUME NEW c \in Lookups, Start(c) \/ CallStep(c) \/ CancelLookup(c) PROVE TablesInv'
  <2>1. CASE Store(c)
    <3>1. AuthorityOf[c] \in Authorities /\ digest[c] \in Icons \cup {"missing"}
      BY <2>1, LookupsAssumption DEF Store, TablesInv, StoresAnswers
    <3>2. FaviconPut(AuthorityOf[c], digest[c])
      BY <2>1 DEF Store
    <3> QED
      BY <1>1, <3>1, <3>2, PutAgrees, CallTypes DEF TablesInv
  <2>2. CASE ~Store(c)
    BY <1>1, <2>2, CallKeepsTables, CallTypes DEF TablesInv, favVars, TablesAgree, Referenced
  <2> QED
    BY <2>1, <2>2
<1>2. CASE TableStep
  <2>1. StoresAnswers' /\ UNCHANGED <<pc, digest>>
    BY <1>2 DEF TableStep, callVars, TablesInv, StoresAnswers
  <2>2. CASE MaintenanceFavicons
    BY <2>1, <2>2, MaintenanceAgrees DEF TablesInv
  <2>3. ASSUME NEW a \in Authorities, Expire(a) PROVE TablesInv'
    BY <2>1, <2>3 DEF Expire, TablesInv, TablesAgree, Referenced
  <2> QED
    BY <1>2, <2>2, <2>3 DEF TableStep
<1>3. CASE UNCHANGED lookupVars
  BY <1>3 DEF lookupVars, favVars, callVars, TablesInv, StoresAnswers, TablesAgree, Referenced
<1> QED
  BY <1>1, <1>2, <1>3 DEF LookupNext

(***************************************************************************)
(* No mapping is left without its blob and no blob without a mapping: the  *)
(* triggers of the migrations, the put and maintenance agree on it, in     *)
(* any interleaving of their transactions.                                 *)
(***************************************************************************)
THEOREM TablesTheorem == ASSUME IconsAreDigests PROVE LookupSpec => []TablesAgree
<1>1. LookupInit => TablesInv
  BY DEF LookupInit, FavInit, TablesInv, StoresAnswers, TablesAgree, Referenced, Phases,
         IconsAreDigests
<1>2. TablesInv /\ [LookupNext]_lookupVars => TablesInv'
  BY TablesStep
<1>3. TablesInv => TablesAgree
  BY DEF TablesInv
<1> QED
  BY <1>1, <1>2, <1>3, PTL DEF LookupSpec
=============================================================================
