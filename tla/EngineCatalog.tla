---------------------------- MODULE EngineCatalog ----------------------------
(***************************************************************************)
(* The engines by name: engine_from_settings of zoeken-engines/registry.rs *)
(* and the configurations of the generic engines the catalogue ships.      *)
(***************************************************************************)
EXTENDS EnginesWeb, EnginesAnswers, EnginesCode, EnginesMedia, EnginesPlaces

(* GenericHtmlConfig and GenericJsonConfig with their defaults. *)
GenericDefaults ==
  [html |-> TRUE, rooted |-> FALSE, body |-> FALSE, paging |-> TRUE, pager |-> "pageno",
   page_size |-> 1, time_range_support |-> FALSE, safesearch |-> FALSE, time |-> FALSE,
   safe |-> FALSE, no_result_for_http_status |-> {}, empty_result_error |-> "none"]

(* Kinds of entries of generic_catalog.json: by page, by offset, an API whose *)
(* answer is a list, one with period and filter, a POST, and one that pages   *)
(* and asks for a period by its flags alone.                                  *)
GenericConfig ==
  [pages      |-> GenericDefaults,
   offsets    |-> [GenericDefaults EXCEPT !.pager = "offset", !.page_size = 20],
   api        |-> [GenericDefaults EXCEPT !.html = FALSE, !.rooted = TRUE, !.pager = "page",
                                          !.empty_result_error = "AccessDenied"],
   filtered   |-> [GenericDefaults EXCEPT !.html = FALSE, !.time_range_support = TRUE,
                                          !.safesearch = TRUE, !.time = TRUE, !.safe = TRUE],
   posted     |-> [GenericDefaults EXCEPT !.html = FALSE, !.rooted = TRUE, !.body = TRUE,
                                          !.pager = "offset", !.paging = FALSE],
   search360  |-> [GenericDefaults EXCEPT !.pager = "none", !.time_range_support = TRUE]]

Generic == DOMAIN GenericConfig

Names ==
  {"google", "bing", "brave", "startpage", "mojeek", "qwant", "duckduckgo", "dogpile",
   "dogpile images", "swisscows", "swisscows news", "swisscows images", "yacy", "yacy images",
   "marginalia", "wikipedia", "wikidata", "wikibooks", "dictionary", "translate", "weather",
   "currency", "github", "gitlab", "github code", "crates", "pypi", "docker hub",
   "stackoverflow", "hackernews", "arxiv", "crossref", "core", "semantic scholar",
   "bing_images", "openverse", "unsplash", "dailymotion", "vimeo", "peertube", "sepiasearch",
   "invidious", "piped", "soundcloud", "bandcamp", "genius", "imdb", "senscritique", "9gag",
   "apple_app_store", "reddit", "lemmy", "mastodon", "tootfinder", "piratebay", "nyaa",
   "solidtorrents", "openstreetmap", "photon", "elasticsearch", "meilisearch"} \cup Generic

metadata(e) ==
  CASE e = "google" -> google_meta [] e = "bing" -> bing_meta [] e = "brave" -> brave_meta
    [] e = "startpage" -> startpage_meta [] e = "mojeek" -> mojeek_meta
    [] e = "qwant" -> qwant_meta [] e = "duckduckgo" -> duckduckgo_meta
    [] e \in {"dogpile", "dogpile images"} -> dogpile_meta
    [] e = "swisscows" -> swisscows_meta("web") [] e = "swisscows news" -> swisscows_meta("news")
    [] e = "swisscows images" -> swisscows_meta("images")
    [] e \in {"yacy", "yacy images"} -> yacy_meta [] e = "marginalia" -> marginalia_meta
    [] e = "wikipedia" -> wikipedia_meta [] e = "wikidata" -> wikidata_meta
    [] e = "wikibooks" -> wikibooks_meta [] e = "dictionary" -> dictionary_meta
    [] e = "translate" -> translate_meta [] e = "weather" -> weather_meta
    [] e = "currency" -> currency_meta [] e = "github" -> github_meta
    [] e = "gitlab" -> gitlab_meta [] e = "github code" -> github_code_meta
    [] e = "crates" -> crates_meta [] e = "pypi" -> pypi_meta
    [] e = "docker hub" -> docker_hub_meta [] e = "stackoverflow" -> stackexchange_meta
    [] e = "hackernews" -> hackernews_meta [] e = "arxiv" -> arxiv_meta
    [] e = "crossref" -> crossref_meta [] e = "core" -> core_meta
    [] e = "semantic scholar" -> semantic_scholar_meta [] e = "bing_images" -> bing_images_meta
    [] e = "openverse" -> openverse_meta [] e = "unsplash" -> unsplash_meta
    [] e = "dailymotion" -> dailymotion_meta [] e = "vimeo" -> vimeo_meta
    [] e = "peertube" -> peertube_meta [] e = "sepiasearch" -> sepiasearch_meta
    [] e = "invidious" -> invidious_meta [] e = "piped" -> piped_meta
    [] e = "soundcloud" -> soundcloud_meta [] e = "bandcamp" -> bandcamp_meta
    [] e = "genius" -> genius_meta [] e = "imdb" -> imdb_meta
    [] e = "senscritique" -> senscritique_meta [] e = "9gag" -> ninegag_meta
    [] e = "apple_app_store" -> apple_app_store_meta [] e = "reddit" -> reddit_meta
    [] e = "lemmy" -> lemmy_meta [] e = "mastodon" -> mastodon_meta
    [] e = "tootfinder" -> tootfinder_meta [] e = "piratebay" -> piratebay_meta
    [] e = "nyaa" -> nyaa_meta [] e = "solidtorrents" -> solidtorrents_meta
    [] e = "openstreetmap" -> openstreetmap_meta [] e = "photon" -> photon_meta
    [] e = "elasticsearch" -> elasticsearch_meta [] e = "meilisearch" -> meilisearch_meta
    [] e \in Generic -> generic_meta(GenericConfig[e])

request(e, q) ==
  CASE e = "google" -> google_request(q) [] e = "bing" -> bing_request(q)
    [] e = "brave" -> brave_request(q) [] e = "startpage" -> startpage_request(q)
    [] e = "mojeek" -> mojeek_request(q) [] e = "qwant" -> qwant_request(q)
    [] e = "duckduckgo" -> duckduckgo_request(q)
    [] e \in {"dogpile", "dogpile images"} -> dogpile_request(q)
    [] e = "swisscows" -> swisscows_request(q, "web", 20)
    [] e = "swisscows news" -> swisscows_request(q, "news", 10)
    [] e = "swisscows images" -> swisscows_request(q, "images", 50)
    [] e \in {"yacy", "yacy images"} -> yacy_request(q) [] e = "marginalia" -> marginalia_request(q)
    [] e = "wikipedia" -> wikipedia_request(q) [] e = "wikidata" -> wikidata_request(q)
    [] e = "wikibooks" -> wikibooks_request(q) [] e = "dictionary" -> dictionary_request(q)
    [] e = "translate" -> translate_request(q) [] e = "weather" -> weather_request(q)
    [] e = "currency" -> currency_request(q) [] e = "github" -> github_request(q)
    [] e = "gitlab" -> gitlab_request(q) [] e = "github code" -> github_code_request(q, TRUE)
    [] e = "crates" -> crates_request(q) [] e = "pypi" -> pypi_request(q)
    [] e = "docker hub" -> docker_hub_request(q) [] e = "stackoverflow" -> stackexchange_request(q)
    [] e = "hackernews" -> hackernews_request(q) [] e = "arxiv" -> arxiv_request(q)
    [] e = "crossref" -> crossref_request(q) [] e = "core" -> core_request(q)
    [] e = "semantic scholar" -> semantic_scholar_request(q)
    [] e = "bing_images" -> bing_images_request(q)
    [] e = "openverse" -> openverse_request(q) [] e = "unsplash" -> unsplash_request(q)
    [] e = "dailymotion" -> dailymotion_request(q) [] e = "vimeo" -> vimeo_request(q)
    [] e = "peertube" -> peertube_request(q) [] e = "sepiasearch" -> sepiasearch_request(q)
    [] e = "invidious" -> invidious_request(q) [] e = "piped" -> piped_request(q)
    [] e = "soundcloud" -> soundcloud_request(q) [] e = "bandcamp" -> bandcamp_request(q)
    [] e = "genius" -> genius_request(q) [] e = "imdb" -> imdb_request(q)
    [] e = "senscritique" -> senscritique_request(q) [] e = "9gag" -> ninegag_request(q)
    [] e = "apple_app_store" -> apple_app_store_request(q) [] e = "reddit" -> reddit_request(q)
    [] e = "lemmy" -> lemmy_request(q) [] e = "mastodon" -> mastodon_request(q)
    [] e = "tootfinder" -> tootfinder_request(q) [] e = "piratebay" -> piratebay_request(q)
    [] e = "nyaa" -> nyaa_request(q) [] e = "solidtorrents" -> solidtorrents_request(q)
    [] e = "openstreetmap" -> openstreetmap_request(q) [] e = "photon" -> photon_request(q)
    [] e = "elasticsearch" -> elasticsearch_request(q, "match")
    [] e = "meilisearch" -> meilisearch_request(q)
    [] e \in Generic -> apply_generic_request_fields(q, GenericConfig[e])

response(e, r) ==
  CASE e = "google" -> google_response(r) [] e = "bing" -> bing_response(r)
    [] e = "brave" -> brave_response(r) [] e = "startpage" -> startpage_response(r)
    [] e = "mojeek" -> mojeek_response(r) [] e = "qwant" -> qwant_response(r)
    [] e = "duckduckgo" -> duckduckgo_response(r)
    [] e = "dogpile" -> dogpile_response(r, "web")
    [] e = "dogpile images" -> dogpile_response(r, "images")
    [] e \in {"swisscows", "swisscows news"} -> swisscows_response(r, "web")
    [] e = "swisscows images" -> swisscows_response(r, "images")
    [] e = "yacy" -> yacy_response(r, "text") [] e = "yacy images" -> yacy_response(r, "image")
    [] e = "marginalia" -> marginalia_response(r)
    [] e = "wikipedia" -> wikipedia_response(r) [] e = "wikidata" -> wikidata_response(r)
    [] e = "wikibooks" -> wikibooks_response(r) [] e = "dictionary" -> dictionary_response(r)
    [] e = "translate" -> translate_response(r) [] e = "weather" -> weather_response(r)
    [] e = "currency" -> currency_response(r) [] e = "github" -> github_response(r)
    [] e = "gitlab" -> gitlab_response(r) [] e = "github code" -> github_code_response(r)
    [] e = "crates" -> crates_response(r) [] e = "pypi" -> pypi_response(r)
    [] e = "docker hub" -> docker_hub_response(r) [] e = "stackoverflow" -> stackexchange_response(r)
    [] e = "hackernews" -> hackernews_response(r) [] e = "arxiv" -> arxiv_response(r)
    [] e = "crossref" -> crossref_response(r) [] e = "core" -> core_response(r)
    [] e = "semantic scholar" -> semantic_scholar_response(r)
    [] e = "bing_images" -> bing_images_response(r)
    [] e = "openverse" -> openverse_response(r) [] e = "unsplash" -> unsplash_response(r)
    [] e = "dailymotion" -> dailymotion_response(r) [] e = "vimeo" -> vimeo_response(r)
    [] e = "peertube" -> peertube_response(r) [] e = "sepiasearch" -> sepiasearch_response(r)
    [] e = "invidious" -> invidious_response(r) [] e = "piped" -> piped_response(r)
    [] e = "soundcloud" -> soundcloud_response(r) [] e = "bandcamp" -> bandcamp_response(r)
    [] e = "genius" -> genius_response(r) [] e = "imdb" -> imdb_response(r)
    [] e = "senscritique" -> senscritique_response(r) [] e = "9gag" -> ninegag_response(r)
    [] e = "apple_app_store" -> apple_app_store_response(r) [] e = "reddit" -> reddit_response(r)
    [] e = "lemmy" -> lemmy_response(r) [] e = "mastodon" -> mastodon_response(r)
    [] e = "tootfinder" -> tootfinder_response(r) [] e = "piratebay" -> piratebay_response(r)
    [] e = "nyaa" -> nyaa_response(r) [] e = "solidtorrents" -> solidtorrents_response(r)
    [] e = "openstreetmap" -> openstreetmap_response(r) [] e = "photon" -> photon_response(r)
    [] e = "elasticsearch" -> elasticsearch_response(r)
    [] e = "meilisearch" -> meilisearch_response(r)
    [] e \in Generic -> generic_response(r, GenericConfig[e])
=============================================================================
