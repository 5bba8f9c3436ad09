----------------------------- MODULE EngineCore -----------------------------
(***************************************************************************)
(* The contract between a search and its engines (zoeken-engine-core), and *)
(* what the HTTP transport makes of an upstream's reply before an engine   *)
(* sees it (zoeken-network, executor.rs).                                  *)
(*                                                                         *)
(* A query is what Engine::request is given.  A request is what it asks of *)
(* the upstream: the window of results [from, from + size), counted in     *)
(* results or in pages, the period and the level of filtering it asks for, *)
(* and how the transport shall treat errors and redirects.  A reply is the *)
(* kind of the body, what is in the one item of a good body, the challenge *)
(* marker in it, the status and the names of its headers.                  *)
(***************************************************************************)
EXTENDS Naturals

SafeSearch == {"Off", "Moderate", "Strict"}
TimeRange == {"Day", "Week", "Month", "Year"}

(* Filtering as the upstreams grade it. *)
Level(safe) == CASE safe = "Off" -> 0 [] safe = "Moderate" -> 1 [] safe = "Strict" -> 2
Clamped(safe) == IF safe = "Off" THEN 0 ELSE 1

(* EngineMeta, less the names. *)
Meta(paging, max_page, time_range_support, safesearch, language_support) ==
  [paging |-> paging, max_page |-> max_page, time_range_support |-> time_range_support,
   safesearch |-> safesearch, language_support |-> language_support, online |-> TRUE]

(* What Engine::request reads of a query, where text is its kind and nextpage *)
(* tells whether engine_data says where the next page is.                     *)
SearchQueryView ==
  [text: STRING, page: Nat \ {0}, safe: SafeSearch, time: TimeRange \cup {"Any"},
   locale: STRING, nextpage: BOOLEAN]

(* RequestParams after Engine::request; without a URL nothing is sent. *)
NoRequest == [sent |-> FALSE, from |-> 0, size |-> 0, time |-> "Any", safe |-> 0,
              raise_for_httperror |-> TRUE, disable_redirects |-> FALSE]

Ask(from, size) == [NoRequest EXCEPT !.sent = TRUE, !.from = from, !.size = size]

(* Engines number their pages from one or from zero, or count results. *)
Page(q) == Ask(q.page - 1, 1)
Offset(q, size) == Ask((q.page - 1) * size, size)

Fields == {"url", "title", "content", "media"}
Markers == {"none", "interstitial", "beacon", "cf_js", "cf_captcha", "cf_1020", "recaptcha"}
Bodies == {"good",     \* a result list with one item
           "empty",    \* a result list without items, or the notice of no results
           "shell",    \* the right format without a result list
           "broken",   \* the right format, cut off in the middle
           "refusal",  \* the upstream's own sign that it refuses
           "quota",    \* the upstream's own sign that it was asked too often
           "tiny",     \* a few bytes of anything
           "garbage"}  \* a long text in another format

EngineResponse ==
  [status: Nat, marker: Markers, cloudflare: BOOLEAN, body: Bodies, item: SUBSET Fields,
   headers: SUBSET STRING]

(* What serde_json, or an XML reader, can read. *)
Parses(r) == r.body \notin {"broken", "tiny", "garbage"}

(* EngineResults and EngineError.  A result has a link if its url is not empty. *)
Err(category) == [err |-> category, kept |-> FALSE, link |-> FALSE]
NoResults == [err |-> "none", kept |-> FALSE, link |-> FALSE]

(* The items of a good body that have the fields an engine asks for. *)
Keep(r, need) ==
  [err |-> "none", kept |-> r.body = "good" /\ need \subseteq r.item,
   link |-> r.body = "good" /\ "url" \in r.item]

(* The same for an engine that makes up the link of an item without one. *)
KeepLinked(r, need) ==
  [err |-> "none", kept |-> r.body = "good" /\ need \subseteq r.item,
   link |-> r.body = "good"]

(* A body that must be JSON, and whose items are then kept by need. *)
Json(r, need) == IF Parses(r) THEN Keep(r, need) ELSE Err("Parse")
JsonLinked(r, need) == IF Parses(r) THEN KeepLinked(r, need) ELSE Err("Parse")

-----------------------------------------------------------------------------
(* challenge.rs: markers of interstitials count at any status, beacons only   *)
(* on a refusal.                                                              *)
looks_like_bot_wall(status, marker) ==
  \/ marker = "interstitial"
  \/ status \in {401, 403, 405, 429, 503} /\ marker \in {"beacon", "cf_js"}

classify_challenge(status, cloudflare, marker) ==
  CASE cloudflare /\ (\/ status \in {429, 503} /\ marker = "cf_js"
                      \/ status = 403 /\ marker = "cf_captcha") -> "CloudflareCaptcha"
    [] cloudflare /\ status = 403 /\ marker = "cf_1020" -> "CloudflareAccessDenied"
    [] status = 503 /\ marker = "recaptcha" -> "RecaptchaCaptcha"
    [] looks_like_bot_wall(status, marker) -> "Captcha"
    [] OTHER -> "none"

(* Network::map_response, with map_network_error of the executor: the error   *)
(* of a status, or "none".  Bodies are read only at 403, 429 and 503.         *)
map_response(r) ==
  LET marker == IF r.status \in {403, 429, 503} THEN r.marker ELSE "none"
      challenge == classify_challenge(r.status, r.cloudflare, marker)
  IN IF r.status < 400 THEN "none"
     ELSE IF challenge # "none" THEN challenge
     ELSE IF r.status \in 401..403 THEN "AccessDenied"
     ELSE IF r.status \in {429, 503} THEN "TooManyRequests"
     ELSE "Unexpected"

(* The names of headers reach an engine in lower case. *)
adapt_response(r) ==
  [r EXCEPT !.headers = {CASE h = "Location" -> "location" [] OTHER -> h : h \in r.headers}]

(* EngineRegistry::is_eligible, of an engine that is enabled and in the       *)
(* category.                                                                  *)
is_eligible(meta, q) ==
  /\ q.page > 1 => meta.paging /\ (meta.max_page > 0 => q.page <= meta.max_page)
  /\ q.time # "Any" => meta.time_range_support
  /\ q.safe # "Off" => meta.safesearch
  /\ meta.language_support \/ q.locale \in {"all", "auto"}
=============================================================================
