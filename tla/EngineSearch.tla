---------------------------- MODULE EngineSearch ----------------------------
(***************************************************************************)
(* One user paging through the results of one engine: the engine is        *)
(* selected or not (zoeken-search/src/selection.rs), builds its request,   *)
(* the transport maps the reply or hands it to the engine                  *)
(* (zoeken-server/src/executor.rs), the user asks for the next page.       *)
(***************************************************************************)
EXTENDS EngineCatalog

CONSTANTS Engines, Queries,
          Replies(_),  \* what an upstream may answer to a query
          MaxPage,
          Threaded,    \* whether clients bring engine_data back with the next page
          \* The engines that are known to fall short of a property below:
          Unfiltered,  \* they declare a period or a filter they do not ask for
          Unpaged,     \* they declare pages they do not ask for
          OwnStatus    \* they read the status of a reply themselves, and not all of it

ASSUME SearchAssumption ==
  /\ Engines \subseteq Names /\ Queries \subseteq SearchQueryView
  /\ MaxPage \in Nat /\ Threaded \in BOOLEAN
  /\ Unfiltered \cup Unpaged \cup OwnStatus \subseteq Names

VARIABLES engine, q, stage,
          params,  \* the request of this page
          last,    \* the request of the page before, or NoRequest
          reply,   \* the reply, or {}
          result   \* EngineResults or EngineError

vars == <<engine, q, stage, params, last, reply, result>>

Init ==
  /\ engine \in Engines /\ q \in Queries
  /\ stage = "new"
  /\ params = NoRequest /\ last = NoRequest
  /\ reply = {} /\ result = NoResults

(* EngineRegistry::select.  An engine that is not eligible is not asked. *)
Select ==
  /\ stage = "new"
  /\ stage' = IF is_eligible(metadata(engine), q) THEN "selected" ELSE "skipped"
  /\ UNCHANGED <<engine, q, params, last, reply, result>>

(* engine.request; without a URL there are no results. *)
Request ==
  /\ stage = "selected"
  /\ params' = request(engine, q)
  /\ stage' = IF request(engine, q).sent THEN "sent" ELSE "done"
  /\ result' = NoResults
  /\ UNCHANGED <<engine, q, last, reply>>

(* Redirects are followed unless the engine wants to see them. *)
Reachable(r) == r.status \in {301, 302, 303} => params.disable_redirects

(* networks.request and adapt_response, then engine.response. *)
Respond(r) ==
  LET error == IF params.raise_for_httperror THEN map_response(r) ELSE "none" IN
  /\ stage = "sent"
  /\ Reachable(r)
  /\ stage' = "done"
  /\ reply' = {r}
  /\ result' = IF error # "none" THEN Err(error) ELSE response(engine, adapt_response(r))
  /\ UNCHANGED <<engine, q, params, last>>

(* The same search for the next page. *)
NextPage ==
  /\ stage = "done" /\ q.page < MaxPage
  /\ params.sent /\ result.err = "none"
  /\ q' = [q EXCEPT !.page = @ + 1, !.nextpage = Threaded]
  /\ stage' = "new" /\ last' = params /\ reply' = {}
  /\ UNCHANGED <<engine, params, result>>

Next == Select \/ Request \/ (\E r \in Replies(q) : Respond(r)) \/ NextPage

Spec == Init /\ [][Next]_vars

-----------------------------------------------------------------------------
(* A user who pages on sees every result once: the request for a page starts  *)
(* where the one for the page before ended, whether the upstream counts       *)
(* pages, results from zero or from one, or has pages of several sizes.       *)
WindowsAbut ==
  stage = "sent" /\ last.sent /\ engine \notin Unpaged => params.from = last.from + last.size

(* What selection promised is asked for: an engine that was selected for a    *)
(* search with a period or a filter passes it on to its upstream, on every    *)
(* page, and Strict never filters less than Moderate.                         *)
FiltersReachUpstream ==
  stage = "sent" /\ engine \notin Unfiltered =>
    /\ q.text # "empty" => params.time = q.time
    /\ (q.safe = "Off") = (params.safe = 0)
    /\ params.safe <= request(engine, [q EXCEPT !.safe = "Strict"]).safe

Suspending == {"TooManyRequests", "AccessDenied", "Captcha", "CloudflareCaptcha",
               "CloudflareAccessDenied", "RecaptchaCaptcha"}

(* A reply whose status says that the upstream refuses or fails, other than   *)
(* 400, 404 and 422, ends as an error, whatever its body and marks, and is    *)
(* not mistaken for one without results; if the status asks to back off, as   *)
(* an error for which the circuit suspends the engine.  Nothing is said of a  *)
(* refusal that comes with status 200 or as a redirect: only some engines     *)
(* look for the signs of their own upstream in it, the others find no results.*)
RefusalsAreErrors ==
  \A r \in reply : stage = "done" /\ engine \notin OwnStatus =>
    /\ r.status \in {401, 403, 429} \/ r.status >= 500 => result.err # "none"
    /\ r.status \in {429, 503} => result.err \in Suspending

(* Startpage refuses by a redirect to its captcha, and the engine, which asks *)
(* to see redirects, makes that a Captcha error, for which it is suspended:   *)
(* "captcha_redirect_maps_to_captcha" (startpage.rs:325).                     *)
CaptchaRedirectSuspends ==
  \A r \in reply :
    stage = "done" /\ engine = "startpage" /\ r.status = 302 /\ "Location" \in r.headers =>
      result.err = "Captcha"
=============================================================================
