---------------------------- MODULE EnginesCode ----------------------------
(***************************************************************************)
(* The engines for code, packages and papers.                              *)
(***************************************************************************)
EXTENDS EngineCore

(* One page of repositories, by stars. *)
github_meta == Meta(FALSE, 0, FALSE, FALSE, FALSE)
github_request(q) == Ask(0, 1)
github_response(r) == Json(r, {})

gitlab_meta == Meta(TRUE, 0, FALSE, FALSE, FALSE)
gitlab_request(q) == Page(q)
gitlab_response(r) == Json(r, {})

(* Without a key nothing is sent.  The engine reads the status itself. *)
github_code_meta == Meta(TRUE, 0, FALSE, FALSE, FALSE)

github_code_request(q, api_key) ==
  IF api_key THEN [Page(q) EXCEPT !.raise_for_httperror = FALSE] ELSE NoRequest

github_code_response(r) ==
  IF r.status \in {401, 403} THEN Err("AccessDenied")
  ELSE IF r.status = 422 THEN NoResults
  ELSE IF r.status \notin 200..299 THEN Err("Unexpected")
  ELSE Json(r, {})

(* The link of a crate is made from its name. *)
crates_meta == Meta(TRUE, 0, FALSE, FALSE, FALSE)
crates_request(q) == Page(q)
crates_response(r) == JsonLinked(r, {})

pypi_meta == Meta(TRUE, 0, FALSE, FALSE, FALSE)
pypi_request(q) == Page(q)
pypi_response(r) ==
  IF looks_like_bot_wall(r.status, r.marker) THEN Err("Captcha") ELSE KeepLinked(r, {})

docker_hub_meta == Meta(TRUE, 0, FALSE, FALSE, FALSE)
docker_hub_request(q) == Offset(q, 10)
docker_hub_response(r) == JsonLinked(r, {})

stackexchange_meta == Meta(TRUE, 0, FALSE, FALSE, FALSE)
stackexchange_request(q) == Page(q)
stackexchange_response(r) == JsonLinked(r, {})

(* Stories since a time; without a query the front page, of any time. *)
hackernews_meta == Meta(TRUE, 0, TRUE, FALSE, FALSE)

time_range_epoch(q, ask) == [ask EXCEPT !.time = q.time]

hackernews_request(q) == IF q.text = "empty" THEN Page(q) ELSE time_range_epoch(q, Page(q))

hackernews_response(r) == JsonLinked(r, {})

-----------------------------------------------------------------------------
(* The feed is XML; the id of an entry is its link. *)
arxiv_meta == Meta(TRUE, 0, FALSE, FALSE, FALSE)
arxiv_request(q) == Offset(q, 10)
arxiv_response(r) == Json(r, {})

(* The size of a page is the upstream's default. *)
crossref_meta == Meta(TRUE, 0, FALSE, FALSE, FALSE)
crossref_request(q) == Offset(q, 20)

(* An answer without a message is not a valid one. *)
crossref_response(r) == IF r.body \in {"good", "empty"} THEN Json(r, {}) ELSE Err("Parse")

core_meta == Meta(TRUE, 0, FALSE, FALSE, FALSE)
core_request(q) == [Offset(q, 10) EXCEPT !.raise_for_httperror = FALSE]

(* The status is read for a refused key only. *)
core_response(r) ==
  IF r.status \in {401, 403} THEN Err("AccessDenied") ELSE Json(r, {"url", "title"})

semantic_scholar_meta == Meta(TRUE, 0, FALSE, FALSE, FALSE)
semantic_scholar_request(q) == Page(q)
semantic_scholar_response(r) == JsonLinked(r, {})
=============================================================================
