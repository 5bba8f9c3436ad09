----------------------------- MODULE EnginesWeb -----------------------------
(***************************************************************************)
(* The general web engines of zoeken-engines/src/engines: for each one its *)
(* metadata, what its request asks for and what its response makes of a    *)
(* reply.                                                                  *)
(***************************************************************************)
EXTENDS EngineCore

google_meta == Meta(TRUE, 50, TRUE, TRUE, TRUE)

google_filters(q, ask) == [ask EXCEPT !.time = q.time, !.safe = Level(q.safe)]

google_request(q) == google_filters(q, Offset(q, 10))

google_is_sorry(r) == r.body = "refusal" \/ r.status = 302

google_response(r) ==
  IF google_is_sorry(r) \/ looks_like_bot_wall(r.status, r.marker) THEN Err("Captcha")
  ELSE Keep(r, {"url", "title", "content"})

(* Bing's results are numbered from one. *)
bing_meta == Meta(TRUE, 0, FALSE, TRUE, TRUE)

bing_filters(q, ask) == [ask EXCEPT !.safe = Level(q.safe)]

bing_request(q) == bing_filters(q, Offset(q, 10))

(* A long page without the result list is a consent or bot page. *)
bing_response(r) ==
  IF r.body \in {"refusal", "shell", "broken", "garbage"} THEN Err("Captcha")
  ELSE Keep(r, {"url", "title"})

brave_meta == Meta(TRUE, 10, TRUE, TRUE, TRUE)

brave_filters(q, ask) == [ask EXCEPT !.time = q.time, !.safe = Level(q.safe)]

brave_request(q) == brave_filters(q, Page(q))

(* A search page without results that does not say so is a refusal. *)
brave_response(r) ==
  LET kept == Keep(r, {"url", "title"}) IN
  IF looks_like_bot_wall(r.status, r.marker) THEN Err("Captcha")
  ELSE IF r.status = 429 THEN Err("TooManyRequests")
  ELSE IF r.status = 403 THEN Err("AccessDenied")
  ELSE IF r.body \in {"good", "shell"} /\ ~kept.kept THEN Err("Captcha")
  ELSE kept

startpage_meta == Meta(TRUE, 18, TRUE, TRUE, TRUE)

startpage_filters(q, ask) == [ask EXCEPT !.time = q.time, !.safe = Level(q.safe)]

startpage_request(q) == [startpage_filters(q, Page(q)) EXCEPT !.disable_redirects = TRUE]

(* The results are a JSON text inside a script; a page without it is empty. *)
startpage_response(r) ==
  IF "Location" \in r.headers THEN Err("Captcha")
  ELSE IF r.body \in {"tiny", "garbage", "refusal", "quota"} THEN NoResults
  ELSE IF r.body = "broken" THEN Err("Parse")
  ELSE Keep(r, {})

mojeek_meta == Meta(TRUE, 10, TRUE, TRUE, TRUE)

(* since is the date one unit of the range ago. *)
mojeek_request(q) == [Offset(q, 10) EXCEPT !.time = q.time, !.safe = Clamped(q.safe)]

mojeek_response(r) == Keep(r, {"url"})

qwant_meta == Meta(TRUE, 5, FALSE, TRUE, TRUE)

qwant_request(q) ==
  IF q.text = "empty" THEN NoRequest
  ELSE [Offset(q, 10) EXCEPT !.safe = Level(q.safe), !.raise_for_httperror = FALSE]

(* What is not JSON reads as an error without a code. *)
qwant_response(r) ==
  IF r.status = 429 \/ (r.status # 403 /\ r.body = "quota") THEN Err("TooManyRequests")
  ELSE IF r.status = 403 THEN Err("AccessDenied")
  ELSE IF r.body = "refusal" THEN Err("Captcha")
  ELSE IF ~Parses(r) THEN Err("Parse")
  ELSE Keep(r, {})

(* DuckDuckGo filters on its own and is not told a level.  Its first page has *)
(* ten results, the others fifteen.                                           *)
duckduckgo_meta == Meta(TRUE, 0, TRUE, TRUE, TRUE)

duckduckgo_request(q) ==
  IF q.text = "long" THEN NoRequest
  ELSE [(IF q.page = 1 THEN Ask(0, 10) ELSE Ask(10 + (q.page - 2) * 15, 15))
          EXCEPT !.time = q.time]

duckduckgo_response(r) ==
  IF r.status = 303 THEN NoResults
  ELSE IF r.body = "refusal" THEN Err("Captcha")
  ELSE Keep(r, {"url", "title"})

(* Dogpile, Swisscows and YaCy search a category that is configured. *)
dogpile_meta == Meta(TRUE, 0, FALSE, TRUE, FALSE)

dogpile_request(q) == [Page(q) EXCEPT !.safe = Level(q.safe)]

dogpile_add(r, categ) ==
  IF categ = "images" THEN Keep(r, {"url", "media"}) ELSE Keep(r, {"url"})

dogpile_response(r, categ) == IF Parses(r) THEN dogpile_add(r, categ) ELSE Err("Parse")

swisscows_meta(categ) ==
  Meta(TRUE, IF categ = "images" THEN 2 ELSE 0, categ \in {"web", "news"}, FALSE, TRUE)

(* request_parts and freshness. *)
swisscows_parts(q, categ, ask) ==
  IF categ \in {"web", "news"} THEN [ask EXCEPT !.time = q.time] ELSE ask

swisscows_request(q, categ, results_per_page) ==
  IF categ = "images" /\ q.page > 2 THEN NoRequest
  ELSE swisscows_parts(q, categ, Offset(q, results_per_page))

swisscows_add(r, categ) ==
  IF categ = "images" THEN Keep(r, {"url", "media"}) ELSE Keep(r, {"url"})

(* The answer may be wrapped in a token whose middle part is the JSON. *)
swisscows_decode_payload(r) == r.body # "broken"

swisscows_response(r, categ) ==
  IF Parses(r) /\ swisscows_decode_payload(r) THEN swisscows_add(r, categ) ELSE Err("Parse")

yacy_meta == Meta(TRUE, 0, FALSE, FALSE, TRUE)

yacy_request(q) == Offset(q, 10)

yacy_response(r, search_type) ==
  Json(r, IF search_type = "image" THEN {"url"} ELSE {})

(* Without a key of its own the engine is not registered at all. *)
marginalia_meta == Meta(TRUE, 0, FALSE, TRUE, FALSE)

marginalia_request(q) == [Page(q) EXCEPT !.safe = Clamped(q.safe)]

marginalia_response(r) == Json(r, {"url"})
=============================================================================
