---------------------------- MODULE ResponseCache ----------------------------
(***************************************************************************)
(* NetworkExecutor::execute (zoeken-server/src/executor.rs) around         *)
(* ResponseCache::get_or_load (zoeken-server/src/outbound_cache.rs): what  *)
(* several searches that send the same engine the same request get to see. *)
(*                                                                         *)
(* A caller is one execute.  Its load is the closure given to get_or_load: *)
(* it asks for the engine's health ("loading"), sends the request with a   *)
(* permit of the network manager ("sending"), reads the body ("reading")   *)
(* and records the result ("recording").  What storage, network and engine *)
(* answer is a nondeterministic choice here; NetworkManager and            *)
(* EngineCircuit model it.                                                 *)
(***************************************************************************)
EXTENDS SharedLoad, FiniteSets

CONSTANTS HtmlTtl, StructuredTtl

Classes == {"html", "structured"}

(* ResponseExpiry::expire_after_create. *)
ResponseTtl(class) == IF class = "structured" THEN StructuredTtl ELSE HtmlTtl

ASSUME ResponseTtlAssumption == HtmlTtl \in Nat /\ StructuredTtl \in Nat

(* What a response looks like to the cache. *)
Responses == [status: {200, 204}, set_cookie: BOOLEAN,
              cache_control: {"none", "public", "private", "no-store"},
              vary: {"none", "accept", "cookie", "authorization", "*"},
              class: Classes]

response_is_structured(r) == r.class = "structured"

response_is_cacheable(r) ==
  /\ r.status = 200 /\ ~r.set_cookie
  /\ r.cache_control \notin {"private", "no-store"}
  /\ r.vary \notin {"cookie", "authorization", "*"}

(* What a load makes of a response; the class of one that is not kept is *)
(* never looked at.                                                      *)
ResponseLoad(r) ==
  IF response_is_cacheable(r)
  THEN [kind |-> "kept", class |-> IF response_is_structured(r) THEN "structured" ELSE "html"]
  ELSE [kind |-> "uncached", class |-> "html"]

ResponseLoads == {ResponseLoad(r) : r \in Responses}

-----------------------------------------------------------------------------
(* engine.request: without a URL an offline engine parses the default        *)
(* response and an online one has no results; a request that cannot be built *)
(* is an error; otherwise the cache is asked under the request's key.        *)
BuildRequest(c) ==
  \/ Goto(c, "done") /\ UNCHANGED before
  \/ BeginAsking(c)

(* prepare_request.  SoundCloud fetches a client id over the network first. *)
Prepare(c) ==
  /\ phase[c] = "new"
  /\ \/ BuildRequest(c)
     \/ Goto(c, "identifying") /\ UNCHANGED before
  /\ UNCHANGED <<loadUnchanged, loaded, answer>>

(* The client id, or none if it could not be had. *)
EnsureClientId(c) ==
  /\ phase[c] = "identifying"
  /\ BuildRequest(c)
  /\ UNCHANGED <<loadUnchanged, loaded, answer>>

(* Mutant of get_or_load: a failed load is stored like a good one. *)
GetOrLoadKeepsFailures(c, kind, class) ==
  Settle(c, IF kind = "failed" THEN "kept" ELSE kind, class)

(* What the closure returns, through try_get_with: Ok of a cacheable response *)
(* is stored; LoadError::Uncached and LoadError::Failed are not.              *)
get_or_load(c, kind, class) == Settle(c, kind, class)

(* latest_engine_health and circuit_is_open; both refusals end the load with *)
(* no duration.                                                              *)
CheckHealth(c) ==
  /\ phase[c] = "loading"
  /\ \/ Goto(c, "sending") /\ UNCHANGED <<stored, leader, got>>
     \/ get_or_load(c, "refused", "html")
  /\ UNCHANGED <<seconds, loaded, answer, before>>

(* networks.request, which holds a permit until the headers have arrived. *)
Send(c) ==
  /\ phase[c] = "sending"
  /\ \/ Goto(c, "reading") /\ UNCHANGED loaded
     \/ /\ Goto(c, "recording")
        /\ loaded' = [loaded EXCEPT ![c] = [kind |-> "failed", class |-> "html"]]
  /\ UNCHANGED <<loadUnchanged, answer, before>>

(* adapt_response and engine.response: the body breaks off or is too long, or *)
(* the engine rejects it, or it is good.                                      *)
ReadBody(c) ==
  /\ phase[c] = "reading"
  /\ Goto(c, "recording")
  /\ \/ loaded' = [loaded EXCEPT ![c] = [kind |-> "failed", class |-> "html"]]
     \/ \E load \in ResponseLoads : loaded' = [loaded EXCEPT ![c] = load]
  /\ UNCHANGED <<loadUnchanged, answer, before>>

(* record_health, then the closure returns. *)
Record(c) ==
  /\ phase[c] = "recording"
  /\ get_or_load(c, loaded[c].kind, loaded[c].class)
  /\ UNCHANGED <<seconds, loaded, answer, before>>

(* Mutant of HttpDuration: everybody who got the body reports its duration. *)
HttpDurationForAll(g) == g.kind # "refused"

(* Whether the result has an http_duration: the producer's slot was filled by *)
(* its own load; uncached and failed loads carry theirs to every waiter.      *)
HttpDuration(g) ==
  CASE g.kind = "kept"                 -> g.led
    [] g.kind \in {"uncached", "failed"} -> TRUE
    [] g.kind = "refused"              -> FALSE

(* The match on the loaded result, and engine.response on the shared body. *)
Reply(c) ==
  /\ phase[c] = "answered"
  /\ Goto(c, "done")
  /\ answer' = [answer EXCEPT ![c] =
       [ok |-> got[c].kind \in {"kept", "uncached"}, timed |-> HttpDuration(got[c])]]
  /\ Forget(c)
  /\ UNCHANGED <<loadUnchanged, loaded>>

SearchStep(c) ==
  \/ Prepare(c) \/ EnsureClientId(c) \/ CheckHealth(c) \/ Send(c) \/ ReadBody(c) \/ Record(c) \/ Reply(c)
=============================================================================
