---------------------------- MODULE EnginesPlaces ----------------------------
(***************************************************************************)
(* Social networks, torrent trackers, maps, and the engines an operator    *)
(* runs on an index of their own.                                          *)
(***************************************************************************)
EXTENDS EngineCore

reddit_meta == Meta(FALSE, 0, FALSE, FALSE, FALSE)
reddit_request(q) == Ask(0, 25)
reddit_response(r) == JsonLinked(r, {})

(* Communities, users, posts or comments. *)
lemmy_meta == Meta(TRUE, 0, FALSE, FALSE, FALSE)
lemmy_request(q) == Page(q)
lemmy_response(r) == Json(r, {})

(* Accounts or hashtags. *)
mastodon_meta == Meta(FALSE, 0, FALSE, FALSE, FALSE)
mastodon_request(q) == Ask(0, 40)
mastodon_response(r) == Json(r, {})

(* The JSON is one line of a page that may hold warnings too. *)
tootfinder_meta == Meta(FALSE, 0, FALSE, FALSE, FALSE)
tootfinder_request(q) == Ask(0, 1)
tootfinder_response(r) ==
  CASE r.body = "broken" -> Err("Parse")
    [] r.body \in {"good", "empty"} -> Keep(r, {"url"})
    [] OTHER -> NoResults

-----------------------------------------------------------------------------
(* The answer is a list, and one item with a certain name if it is empty. *)
piratebay_meta == Meta(FALSE, 0, FALSE, FALSE, FALSE)
piratebay_request(q) == Ask(0, 1)
piratebay_response(r) ==
  IF r.body \in {"good", "empty"} THEN JsonLinked(r, {}) ELSE Err("Parse")

nyaa_meta == Meta(TRUE, 0, FALSE, FALSE, FALSE)
nyaa_request(q) == Page(q)
nyaa_response(r) == KeepLinked(r, {"title"})

(* An item without a magnet or torrent link is skipped. *)
solidtorrents_meta == Meta(TRUE, 0, FALSE, FALSE, FALSE)
solidtorrents_request(q) == Page(q)
solidtorrents_response(r) == KeepLinked(r, {"url", "media"})

openstreetmap_meta == Meta(FALSE, 0, FALSE, FALSE, TRUE)
openstreetmap_request(q) == Ask(0, 1)
openstreetmap_response(r) == JsonLinked(r, {"title"})

photon_meta == Meta(FALSE, 0, FALSE, FALSE, TRUE)
photon_request(q) == Ask(0, 10)
photon_response(r) == JsonLinked(r, {"title", "url"})

-----------------------------------------------------------------------------
(* build_query: every type of query but one asks for "key:value". *)
elasticsearch_meta == Meta(TRUE, 0, FALSE, FALSE, FALSE)
build_query(q, query_type) == query_type = "simple_query_string" \/ q.text = "pair"
elasticsearch_request(q, query_type) ==
  IF build_query(q, query_type) THEN Offset(q, 10) ELSE NoRequest
elasticsearch_response(r) ==
  IF r.body \in {"refusal", "quota"} THEN Err("Unexpected") ELSE JsonLinked(r, {})

meilisearch_meta == Meta(TRUE, 0, FALSE, FALSE, FALSE)
meilisearch_request(q) == Offset(q, 10)
meilisearch_response(r) == JsonLinked(r, {})

-----------------------------------------------------------------------------
(* The configured engines: config.pager is the placeholder of the template    *)
(* that carries the page, config.time and config.safe whether the placeholders*)
(* of period and filter are there, config.body whether the template is the    *)
(* body of a POST, whose period and filter are always rendered empty and      *)
(* whose offset counts pages.                                                 *)
generic_meta(config) ==
  Meta(config.paging, 0, config.time_range_support, config.safesearch, TRUE)

render_time_range(q, config) ==
  IF config.time_range_support /\ config.time THEN q.time ELSE "Any"

render_safe_search(q, config) ==
  IF config.safesearch /\ config.safe THEN Level(q.safe) ELSE 0

(* The first page may be asked for without a number. *)
build_search_url(q, config) ==
  LET window == CASE config.pager = "none" -> Ask(0, 1)
                  [] config.pager = "page" -> Page(q)
                  [] config.pager \in {"pageno", "offset"} -> Offset(q, config.page_size)
  IN [window EXCEPT !.time = render_time_range(q, config),
                    !.safe = render_safe_search(q, config)]

template_values_for_body(q, config) == IF config.pager = "none" THEN Ask(0, 1) ELSE Page(q)

apply_generic_request_fields(q, config) ==
  [(IF config.body THEN template_values_for_body(q, config) ELSE build_search_url(q, config))
     EXCEPT !.raise_for_httperror = FALSE]

generic_response_error(status, marker) ==
  IF looks_like_bot_wall(status, marker) THEN "Captcha"
  ELSE IF status <= 399 THEN "none"
  ELSE IF status \in 401..403 THEN "AccessDenied"
  ELSE IF status \in {429, 503} THEN "TooManyRequests"
  ELSE "Unexpected"

(* Mutant of generic_response: only the configured statuses are looked at. *)
GenericResponseTrusting(r, config) ==
  IF r.status \in config.no_result_for_http_status THEN NoResults
  ELSE Json(r, {"url", "title"})

(* parse_xpath_results, parse_css_results: a page is never ill-formed. *)
parse_html_results(r) == Keep(r, {"url", "title"})

(* json_result_items: the list is the root, which must then be one, or is     *)
(* found by a path, where it may be missing.                                  *)
json_result_items(r, config) ==
  IF config.rooted /\ r.body \notin {"good", "empty"} THEN Err("Parse")
  ELSE Json(r, {"url", "title"})

(* A page without results is an error if the configuration says so. *)
generic_response(r, config) ==
  LET error == generic_response_error(r.status, r.marker)
      parsed == IF config.html THEN parse_html_results(r) ELSE json_result_items(r, config)
  IN IF r.status \in config.no_result_for_http_status THEN NoResults
     ELSE IF error # "none" THEN Err(error)
     ELSE IF parsed.err = "none" /\ ~parsed.kept /\ config.empty_result_error # "none"
     THEN Err(config.empty_result_error)
     ELSE parsed
=============================================================================
