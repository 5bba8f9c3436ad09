---------------------------- MODULE EnginesMedia ----------------------------
(***************************************************************************)
(* The engines for images, videos, music and applications.                 *)
(***************************************************************************)
EXTENDS EngineCore

(* Tiles carry their data in an attribute; the page is never rejected. *)
bing_images_meta == Meta(TRUE, 0, TRUE, TRUE, TRUE)
time_range_minutes(q, ask) == [ask EXCEPT !.time = q.time]
bing_images_request(q) == time_range_minutes(q, Offset(q, 35))
bing_images_response(r) == Keep(r, {"url", "media"})

openverse_meta == Meta(TRUE, 0, FALSE, FALSE, FALSE)
openverse_request(q) == Page(q)
openverse_response(r) == Json(r, {"url", "media"})

unsplash_meta == Meta(TRUE, 0, FALSE, FALSE, FALSE)
unsplash_request(q) == Page(q)
unsplash_response(r) == Json(r, {"url", "media"})

-----------------------------------------------------------------------------
dailymotion_meta == Meta(TRUE, 0, TRUE, TRUE, TRUE)

dailymotion_family_filter(q, ask) == [ask EXCEPT !.safe = Clamped(q.safe)]

(* Mutant of dailymotion_request: pages after the first are not asked for. *)
DailymotionFirstPage(q) ==
  IF q.text = "empty" THEN NoRequest ELSE dailymotion_family_filter(q, Ask(0, 1))

dailymotion_request(q) ==
  IF q.text = "empty" THEN NoRequest ELSE dailymotion_family_filter(q, Page(q))

(* The API reports its own errors in a JSON body. *)
dailymotion_response(r) ==
  IF r.body \in {"refusal", "quota"} THEN Err("Unexpected") ELSE Json(r, {"url"})

(* The results are a JSON text in a script of the page. *)
vimeo_meta == Meta(TRUE, 0, FALSE, FALSE, FALSE)
vimeo_request(q) == Page(q)
vimeo_response(r) ==
  CASE r.body = "broken" -> Err("Parse")
    [] r.body \in {"good", "empty"} -> Keep(r, {"url"})
    [] OTHER -> NoResults

(* PeerTube and the index of its instances. *)
peertube_meta == Meta(TRUE, 0, TRUE, TRUE, FALSE)
peertube_nsfw(q, ask) == [ask EXCEPT !.safe = Clamped(q.safe)]
peertube_start_date(q, ask) == [ask EXCEPT !.time = q.time]
peertube_request(q) ==
  IF q.text = "empty" THEN NoRequest
  ELSE peertube_nsfw(q, peertube_start_date(q, Offset(q, 10)))
peertube_response(r) == Json(r, {})

sepiasearch_meta == Meta(TRUE, 0, TRUE, TRUE, TRUE)

(* Mutant of sepiasearch_nsfw: the filter is off for everybody but Strict. *)
SepiasearchNsfwModerate(q, ask) == [ask EXCEPT !.safe = IF q.safe = "Strict" THEN 1 ELSE 0]

sepiasearch_nsfw(q, ask) == [ask EXCEPT !.safe = Clamped(q.safe)]
sepiasearch_start_date(q, ask) == [ask EXCEPT !.time = q.time]
sepiasearch_request(q) ==
  IF q.text = "empty" THEN NoRequest
  ELSE sepiasearch_nsfw(q, sepiasearch_start_date(q, Offset(q, 10)))
sepiasearch_response(r) == Json(r, {})

(* The link is made from the id of the video. *)
invidious_meta == Meta(TRUE, 0, TRUE, FALSE, TRUE)
invidious_time_range(q, ask) == [ask EXCEPT !.time = q.time]
invidious_request(q) == invidious_time_range(q, Page(q))
invidious_response(r) == JsonLinked(r, {"url"})

(* Pages after the first are asked for with the key of the page before, which *)
(* the query must bring along in engine_data.                                 *)
piped_meta == Meta(TRUE, 0, FALSE, FALSE, FALSE)
piped_request(q) == IF q.page > 1 /\ q.nextpage THEN Page(q) ELSE Ask(0, 1)
piped_response(r) == JsonLinked(r, {})

-----------------------------------------------------------------------------
soundcloud_meta == Meta(TRUE, 0, FALSE, FALSE, TRUE)
soundcloud_request(q) == Offset(q, 10)
soundcloud_response(r) == Json(r, {"url"})

bandcamp_meta == Meta(TRUE, 0, FALSE, FALSE, FALSE)
bandcamp_request(q) == Page(q)
bandcamp_response(r) ==
  IF looks_like_bot_wall(r.status, r.marker) THEN Err("Captcha") ELSE Keep(r, {"url"})

(* Hits are lyrics, artists or albums. *)
genius_meta == Meta(TRUE, 0, FALSE, FALSE, FALSE)
genius_request(q) == Page(q)
genius_response(r) == Json(r, {"url"})

imdb_meta == Meta(FALSE, 0, FALSE, FALSE, FALSE)
imdb_request(q) == Ask(0, 1)

(* category_for: the kind of an item is the prefix of its id. *)
imdb_response(r) == JsonLinked(r, {"url", "title"})

senscritique_meta == Meta(TRUE, 0, FALSE, FALSE, FALSE)
senscritique_request(q) == Offset(q, 16)
senscritique_response(r) == JsonLinked(r, {"url", "title"})

ninegag_meta == Meta(TRUE, 0, FALSE, FALSE, FALSE)
ninegag_request(q) == Offset(q, 10)
ninegag_response(r) == Json(r, {"url"})

apple_app_store_meta == Meta(FALSE, 0, FALSE, TRUE, FALSE)
apple_app_store_request(q) == [Ask(0, 1) EXCEPT !.safe = Clamped(q.safe)]
apple_app_store_response(r) == Json(r, {"url", "title"})
=============================================================================
