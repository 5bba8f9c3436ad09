------------------------- MODULE EngineSearchProofs -------------------------
(***************************************************************************)
(* What every engine of the catalogue keeps, for any query, page and reply *)
(* that there may be: pages that follow on each other, filters that reach  *)
(* the upstream, refusals that end as errors.                              *)
(*                                                                         *)
(* The engines differ in what they ask for, so the proof goes by kinds.    *)
(* One lemma per family reads off each engine's request and metadata which *)
(* kind it is of; three lemmas say what a kind does for two consecutive    *)
(* pages, and for a query and its strictest form; a case analysis over the *)
(* catalogue puts them together.  Names with a blank are beyond the SMT    *)
(* backend, and CASE on a name too, so what mentions names is Zenon's and  *)
(* the arithmetic is done for an engine that is a variable.                *)
(***************************************************************************)
EXTENDS EngineSearch, TLAPS

(* The names of the generic configurations. *)
LEMMA Generics == Generic = {"pages", "offsets", "api", "filtered", "posted", "search360"}
  BY DEF Generic, GenericConfig

-----------------------------------------------------------------------------
(* How a request pages: by counting results in steps of size, by numbering    *)
(* pages, or not at all.                                                      *)
CountsBy(e, u, size) ==
  request(e, u).sent => /\ request(e, u).from = (u.page - 1) * size
                        /\ request(e, u).size = size
NumbersPages(e, u) ==
  request(e, u).sent => request(e, u).from = u.page - 1 /\ request(e, u).size = 1
OnePage(e) == ~metadata(e).paging

(* How it asks for a period. *)
PassesPeriod(e, u) ==
  request(e, u).sent /\ u.text # "empty" => request(e, u).time = u.time
NoPeriod(e, u) ==
  /\ ~metadata(e).time_range_support
  /\ request(e, u).sent => request(e, u).time = "Any"

(* How it asks for a filter.  Three engines send nothing without a text. *)
NeedsText == {"qwant", "peertube", "sepiasearch"}
PassesLevel(e, u) ==
  /\ request(e, u).sent <=> (e \in NeedsText => u.text # "empty")
  /\ request(e, u).sent => request(e, u).safe = Level(u.safe)
PassesSwitch(e, u) ==
  /\ request(e, u).sent <=> (e \in NeedsText => u.text # "empty")
  /\ request(e, u).sent => request(e, u).safe = Clamped(u.safe)
NoFilter(e, u) == ~metadata(e).safesearch /\ request(e, u).safe = 0

(* An engine that has neither. *)
Plain(e, u) == NoPeriod(e, u) /\ NoFilter(e, u)

(* The transport looks at the status. *)
Raises(e, u) == request(e, u).raise_for_httperror

(* The families of the catalogue, besides Generic. *)
Web == {"google", "bing", "brave", "startpage", "mojeek", "qwant", "duckduckgo", "dogpile",
    "dogpile images", "swisscows", "swisscows news", "swisscows images", "yacy", "yacy images",
    "marginalia"}
Answers == {"wikipedia", "wikidata", "wikibooks", "dictionary", "translate", "weather", "currency"}
Code == {"github", "gitlab", "github code", "crates", "pypi", "docker hub", "stackoverflow",
    "hackernews", "arxiv", "crossref", "core", "semantic scholar"}
Media == {"bing_images", "openverse", "unsplash", "dailymotion", "vimeo", "peertube", "sepiasearch",
    "invidious", "piped", "soundcloud", "bandcamp", "genius", "imdb", "senscritique", "9gag",
    "apple_app_store"}
Places == {"reddit", "lemmy", "mastodon", "tootfinder", "piratebay", "nyaa", "solidtorrents",
    "openstreetmap", "photon", "elasticsearch", "meilisearch"}

(* The engines of web search.                                                 *)
LEMMA WebAsk ==
  ASSUME NEW u
  PROVE
  /\ CountsBy("google", u, 10) /\ PassesPeriod("google", u) /\ PassesLevel("google", u)
     /\ Raises("google", u)
  /\ CountsBy("bing", u, 10) /\ NoPeriod("bing", u) /\ PassesLevel("bing", u)
     /\ Raises("bing", u)
  /\ NumbersPages("brave", u) /\ PassesPeriod("brave", u) /\ PassesLevel("brave", u)
     /\ Raises("brave", u)
  /\ NumbersPages("startpage", u) /\ PassesPeriod("startpage", u) /\ PassesLevel("startpage", u)
     /\ Raises("startpage", u)
  /\ CountsBy("mojeek", u, 10) /\ PassesPeriod("mojeek", u) /\ PassesSwitch("mojeek", u)
     /\ Raises("mojeek", u)
  /\ CountsBy("qwant", u, 10) /\ NoPeriod("qwant", u) /\ PassesLevel("qwant", u)
  /\ Raises("duckduckgo", u)
  /\ NumbersPages("dogpile", u) /\ NoPeriod("dogpile", u) /\ PassesLevel("dogpile", u)
     /\ Raises("dogpile", u)
  /\ NumbersPages("dogpile images", u) /\ NoPeriod("dogpile images", u)
     /\ PassesLevel("dogpile images", u) /\ Raises("dogpile images", u)
  /\ CountsBy("swisscows", u, 20) /\ PassesPeriod("swisscows", u) /\ NoFilter("swisscows", u)
     /\ Raises("swisscows", u)
  /\ CountsBy("swisscows news", u, 10) /\ PassesPeriod("swisscows news", u)
     /\ NoFilter("swisscows news", u) /\ Raises("swisscows news", u)
  /\ CountsBy("swisscows images", u, 50) /\ Plain("swisscows images", u)
     /\ Raises("swisscows images", u)
  /\ CountsBy("yacy", u, 10) /\ Plain("yacy", u) /\ Raises("yacy", u)
  /\ CountsBy("yacy images", u, 10) /\ Plain("yacy images", u) /\ Raises("yacy images", u)
  /\ NumbersPages("marginalia", u) /\ NoPeriod("marginalia", u) /\ PassesSwitch("marginalia", u)
     /\ Raises("marginalia", u)
  BY Generics, ZenonT(60) DEF CountsBy, NumbersPages, OnePage, PassesPeriod, NoPeriod,
    PassesLevel, PassesSwitch, NoFilter, NeedsText, Plain, Raises, metadata, request, Meta,
    Page, Offset, Ask, NoRequest, google_meta, google_request, google_filters, bing_meta,
    bing_request, bing_filters, brave_meta, brave_request, brave_filters, startpage_meta,
    startpage_request, startpage_filters, mojeek_meta, mojeek_request, qwant_meta,
    qwant_request, duckduckgo_meta, duckduckgo_request, dogpile_meta, dogpile_request,
    swisscows_meta, swisscows_request, swisscows_parts, yacy_meta, yacy_request,
    marginalia_meta, marginalia_request

(* The engines that answer a question, and Wikimedia.                         *)
LEMMA AnswersAsk ==
  ASSUME NEW u
  PROVE
  /\ OnePage("wikipedia") /\ Plain("wikipedia", u)
  /\ OnePage("wikidata") /\ Plain("wikidata", u)
  /\ CountsBy("wikibooks", u, 5) /\ Plain("wikibooks", u) /\ Raises("wikibooks", u)
  /\ OnePage("dictionary") /\ Plain("dictionary", u) /\ Raises("dictionary", u)
  /\ OnePage("translate") /\ Plain("translate", u) /\ Raises("translate", u)
  /\ OnePage("weather") /\ Plain("weather", u) /\ Raises("weather", u)
  /\ OnePage("currency") /\ Plain("currency", u) /\ Raises("currency", u)
  BY Generics, ZenonT(60) DEF CountsBy, NumbersPages, OnePage, PassesPeriod, NoPeriod,
    PassesLevel, PassesSwitch, NoFilter, NeedsText, Plain, Raises, metadata, request, Meta,
    Page, Offset, Ask, NoRequest, wikipedia_meta, wikipedia_request, wikidata_meta,
    wikidata_request, wikidata_query, wikibooks_meta, wikibooks_request, dictionary_meta,
    dictionary_request, AnswerOnly, translate_meta, translate_request, weather_meta,
    weather_request, weather_location, currency_meta, currency_request, parse_currency_query

(* The engines of software and science.                                       *)
LEMMA CodeAsk ==
  ASSUME NEW u
  PROVE
  /\ OnePage("github") /\ Plain("github", u) /\ Raises("github", u)
  /\ NumbersPages("gitlab", u) /\ Plain("gitlab", u) /\ Raises("gitlab", u)
  /\ NumbersPages("github code", u) /\ Plain("github code", u)
  /\ NumbersPages("crates", u) /\ Plain("crates", u) /\ Raises("crates", u)
  /\ NumbersPages("pypi", u) /\ Plain("pypi", u) /\ Raises("pypi", u)
  /\ CountsBy("docker hub", u, 10) /\ Plain("docker hub", u) /\ Raises("docker hub", u)
  /\ NumbersPages("stackoverflow", u) /\ Plain("stackoverflow", u) /\ Raises("stackoverflow", u)
  /\ NumbersPages("hackernews", u) /\ PassesPeriod("hackernews", u) /\ NoFilter("hackernews", u)
     /\ Raises("hackernews", u)
  /\ CountsBy("arxiv", u, 10) /\ Plain("arxiv", u) /\ Raises("arxiv", u)
  /\ CountsBy("crossref", u, 20) /\ Plain("crossref", u) /\ Raises("crossref", u)
  /\ CountsBy("core", u, 10) /\ Plain("core", u)
  /\ NumbersPages("semantic scholar", u) /\ Plain("semantic scholar", u)
     /\ Raises("semantic scholar", u)
  BY Generics, ZenonT(60) DEF CountsBy, NumbersPages, OnePage, PassesPeriod, NoPeriod,
    PassesLevel, PassesSwitch, NoFilter, NeedsText, Plain, Raises, metadata, request, Meta,
    Page, Offset, Ask, NoRequest, github_meta, github_request, gitlab_meta, gitlab_request,
    github_code_meta, github_code_request, crates_meta, crates_request, pypi_meta, pypi_request,
    docker_hub_meta, docker_hub_request, stackexchange_meta, stackexchange_request,
    hackernews_meta, hackernews_request, time_range_epoch, arxiv_meta, arxiv_request,
    crossref_meta, crossref_request, core_meta, core_request, semantic_scholar_meta,
    semantic_scholar_request

(* The engines of images, videos and music.                                   *)
LEMMA MediaAsk ==
  ASSUME NEW u
  PROVE
  /\ CountsBy("bing_images", u, 35) /\ Raises("bing_images", u)
  /\ NumbersPages("openverse", u) /\ Plain("openverse", u) /\ Raises("openverse", u)
  /\ NumbersPages("unsplash", u) /\ Plain("unsplash", u) /\ Raises("unsplash", u)
  /\ NumbersPages("dailymotion", u) /\ Raises("dailymotion", u)
  /\ NumbersPages("vimeo", u) /\ Plain("vimeo", u) /\ Raises("vimeo", u)
  /\ CountsBy("peertube", u, 10) /\ PassesPeriod("peertube", u) /\ PassesSwitch("peertube", u)
     /\ Raises("peertube", u)
  /\ CountsBy("sepiasearch", u, 10) /\ PassesPeriod("sepiasearch", u)
     /\ PassesSwitch("sepiasearch", u) /\ Raises("sepiasearch", u)
  /\ NumbersPages("invidious", u) /\ PassesPeriod("invidious", u) /\ NoFilter("invidious", u)
     /\ Raises("invidious", u)
  /\ Plain("piped", u) /\ Raises("piped", u)
  /\ CountsBy("soundcloud", u, 10) /\ Plain("soundcloud", u) /\ Raises("soundcloud", u)
  /\ NumbersPages("bandcamp", u) /\ Plain("bandcamp", u) /\ Raises("bandcamp", u)
  /\ NumbersPages("genius", u) /\ Plain("genius", u) /\ Raises("genius", u)
  /\ OnePage("imdb") /\ Plain("imdb", u) /\ Raises("imdb", u)
  /\ CountsBy("senscritique", u, 16) /\ Plain("senscritique", u) /\ Raises("senscritique", u)
  /\ CountsBy("9gag", u, 10) /\ Plain("9gag", u) /\ Raises("9gag", u)
  /\ OnePage("apple_app_store") /\ NoPeriod("apple_app_store", u)
     /\ PassesSwitch("apple_app_store", u) /\ Raises("apple_app_store", u)
  BY Generics, ZenonT(60) DEF CountsBy, NumbersPages, OnePage, PassesPeriod, NoPeriod,
    PassesLevel, PassesSwitch, NoFilter, NeedsText, Plain, Raises, metadata, request, Meta,
    Page, Offset, Ask, NoRequest, bing_images_meta, bing_images_request, time_range_minutes,
    openverse_meta, openverse_request, unsplash_meta, unsplash_request, dailymotion_meta,
    dailymotion_request, dailymotion_family_filter, vimeo_meta, vimeo_request, peertube_meta,
    peertube_request, peertube_nsfw, peertube_start_date, sepiasearch_meta, sepiasearch_request,
    sepiasearch_nsfw, sepiasearch_start_date, invidious_meta, invidious_request,
    invidious_time_range, piped_meta, piped_request, soundcloud_meta, soundcloud_request,
    bandcamp_meta, bandcamp_request, genius_meta, genius_request, imdb_meta, imdb_request,
    senscritique_meta, senscritique_request, ninegag_meta, ninegag_request,
    apple_app_store_meta, apple_app_store_request

(* The social engines, those of files, of places, and of one's own index.     *)
LEMMA PlacesAsk ==
  ASSUME NEW u
  PROVE
  /\ OnePage("reddit") /\ Plain("reddit", u) /\ Raises("reddit", u)
  /\ NumbersPages("lemmy", u) /\ Plain("lemmy", u) /\ Raises("lemmy", u)
  /\ OnePage("mastodon") /\ Plain("mastodon", u) /\ Raises("mastodon", u)
  /\ OnePage("tootfinder") /\ Plain("tootfinder", u) /\ Raises("tootfinder", u)
  /\ OnePage("piratebay") /\ Plain("piratebay", u) /\ Raises("piratebay", u)
  /\ NumbersPages("nyaa", u) /\ Plain("nyaa", u) /\ Raises("nyaa", u)
  /\ NumbersPages("solidtorrents", u) /\ Plain("solidtorrents", u) /\ Raises("solidtorrents", u)
  /\ OnePage("openstreetmap") /\ Plain("openstreetmap", u) /\ Raises("openstreetmap", u)
  /\ OnePage("photon") /\ Plain("photon", u) /\ Raises("photon", u)
  /\ CountsBy("elasticsearch", u, 10) /\ Plain("elasticsearch", u) /\ Raises("elasticsearch", u)
  /\ CountsBy("meilisearch", u, 10) /\ Plain("meilisearch", u) /\ Raises("meilisearch", u)
  BY Generics, ZenonT(60) DEF CountsBy, NumbersPages, OnePage, PassesPeriod, NoPeriod,
    PassesLevel, PassesSwitch, NoFilter, NeedsText, Plain, Raises, metadata, request, Meta,
    Page, Offset, Ask, NoRequest, reddit_meta, reddit_request, lemmy_meta, lemmy_request,
    mastodon_meta, mastodon_request, tootfinder_meta, tootfinder_request, piratebay_meta,
    piratebay_request, nyaa_meta, nyaa_request, solidtorrents_meta, solidtorrents_request,
    openstreetmap_meta, openstreetmap_request, photon_meta, photon_request, elasticsearch_meta,
    elasticsearch_request, build_query, meilisearch_meta, meilisearch_request

(* The generic engines.                                                       *)
LEMMA GenericAsk ==
  ASSUME NEW u
  PROVE
  /\ CountsBy("pages", u, 1) /\ Plain("pages", u)
  /\ CountsBy("offsets", u, 20) /\ Plain("offsets", u)
  /\ NumbersPages("api", u) /\ Plain("api", u)
  /\ CountsBy("filtered", u, 1) /\ PassesPeriod("filtered", u) /\ PassesLevel("filtered", u)
  /\ OnePage("posted") /\ Plain("posted", u)
  BY Generics, ZenonT(60) DEF CountsBy, NumbersPages, OnePage, PassesPeriod, NoPeriod,
    PassesLevel, PassesSwitch, NoFilter, NeedsText, Plain, Raises, metadata, request, Meta,
    Page, Offset, Ask, NoRequest, generic_meta, GenericConfig, GenericDefaults,
    apply_generic_request_fields, template_values_for_body, build_search_url, render_time_range,
    render_safe_search

-----------------------------------------------------------------------------
(* What is needed of two consecutive requests u and v, and of a request u and *)
(* its strictest form w.                                                      *)
Sizes == {1, 5, 10, 16, 20, 35, 50}
Windows(e, u, v) ==
  \/ OnePage(e)
  \/ NumbersPages(e, u) /\ NumbersPages(e, v)
  \/ \E size \in Sizes : CountsBy(e, u, size) /\ CountsBy(e, v, size)

Filters(e, u, w) ==
  /\ PassesPeriod(e, u) \/ NoPeriod(e, u)
  /\ \/ PassesLevel(e, u) /\ PassesLevel(e, w)
     \/ PassesSwitch(e, u) /\ PassesSwitch(e, w)
     \/ NoFilter(e, u) /\ NoFilter(e, w)

(* The engines that fall short of a promise; the constants name at least these. *)
KnownUnfiltered == {"dailymotion", "bing_images", "duckduckgo", "search360"}
KnownOwnStatus == {"wikipedia", "wikidata", "core", "qwant", "github code"}

Keeps(e, u, v) ==
  /\ e \notin {"duckduckgo", "piped", "search360"} => Windows(e, u, v)
  /\ e \notin KnownUnfiltered => Filters(e, u, v)
  /\ e \notin KnownOwnStatus \cup Generic => Raises(e, u)

LEMMA WebKeep ==
  ASSUME NEW e \in Web, NEW u, NEW v
  PROVE  Keeps(e, u, v)
  BY WebAsk, Generics, ZenonT(60)
     DEF Web, Keeps, Windows, Sizes, Filters, Plain, KnownUnfiltered, KnownOwnStatus

LEMMA AnswersKeep ==
  ASSUME NEW e \in Answers, NEW u, NEW v
  PROVE  Keeps(e, u, v)
  BY AnswersAsk, Generics, ZenonT(60)
     DEF Answers, Keeps, Windows, Sizes, Filters, Plain, KnownUnfiltered, KnownOwnStatus

LEMMA CodeKeep ==
  ASSUME NEW e \in Code, NEW u, NEW v
  PROVE  Keeps(e, u, v)
  BY CodeAsk, Generics, ZenonT(60)
     DEF Code, Keeps, Windows, Sizes, Filters, Plain, KnownUnfiltered, KnownOwnStatus

LEMMA MediaKeep ==
  ASSUME NEW e \in Media, NEW u, NEW v
  PROVE  Keeps(e, u, v)
  BY MediaAsk, Generics, ZenonT(60)
     DEF Media, Keeps, Windows, Sizes, Filters, Plain, KnownUnfiltered, KnownOwnStatus

LEMMA PlacesKeep ==
  ASSUME NEW e \in Places, NEW u, NEW v
  PROVE  Keeps(e, u, v)
  BY PlacesAsk, Generics, ZenonT(60)
     DEF Places, Keeps, Windows, Sizes, Filters, Plain, KnownUnfiltered, KnownOwnStatus

LEMMA GenericKeep ==
  ASSUME NEW e \in Generic, NEW u, NEW v
  PROVE  Keeps(e, u, v)
  BY GenericAsk, Generics, ZenonT(60)
     DEF Keeps, Windows, Sizes, Filters, Plain, KnownUnfiltered, KnownOwnStatus

(* Every engine is of one family. *)
LEMMA Catalogue ==
  ASSUME NEW e \in Names
  PROVE  e \in Web \/ e \in Answers \/ e \in Code \/ e \in Media \/ e \in Places \/ e \in Generic
  BY Zenon DEF Names, Web, Answers, Code, Media, Places

(* What the kinds say, for all the catalogue. *)
LEMMA AllKeep ==
  ASSUME NEW e \in Names, NEW u, NEW v
  PROVE  Keeps(e, u, v)
  BY Catalogue, WebKeep, AnswersKeep, CodeKeep, MediaKeep, PlacesKeep, GenericKeep, Zenon

-----------------------------------------------------------------------------
(* The two engines whose first page is not like the others. *)
LEMMA DuckDuckGoAsk ==
  ASSUME NEW u
  PROVE  request("duckduckgo", u).sent =>
           /\ request("duckduckgo", u).from = IF u.page = 1 THEN 0 ELSE 10 + (u.page - 2) * 15
           /\ request("duckduckgo", u).size = IF u.page = 1 THEN 10 ELSE 15
  BY Generics, ZenonT(30) DEF request, duckduckgo_request, Ask, NoRequest

LEMMA PipedAsk ==
  ASSUME NEW u
  PROVE  /\ request("piped", u).from = IF u.page > 1 /\ u.nextpage THEN u.page - 1 ELSE 0
         /\ request("piped", u).size = 1
  BY Generics, ZenonT(30) DEF request, piped_request, Page, Ask, NoRequest

(* DuckDuckGo has ten results on its first page and fifteen on the others. *)
LEMMA DuckDuckGoAbuts ==
  ASSUME NEW u, NEW v, u.page \in Nat \ {0}, v.page = u.page + 1,
         request("duckduckgo", u).sent, request("duckduckgo", v).sent
  PROVE  request("duckduckgo", v).from =
           request("duckduckgo", u).from + request("duckduckgo", u).size
<1>1. /\ request("duckduckgo", u).from = IF u.page = 1 THEN 0 ELSE 10 + (u.page - 2) * 15
      /\ request("duckduckgo", u).size = IF u.page = 1 THEN 10 ELSE 15
  BY DuckDuckGoAsk, Zenon
<1>2. request("duckduckgo", v).from = IF v.page = 1 THEN 0 ELSE 10 + (v.page - 2) * 15
  BY DuckDuckGoAsk, Zenon
<1>3. CASE u.page = 1
  BY <1>1, <1>2, <1>3
<1>4. CASE u.page # 1
  <2>1. u.page >= 2 /\ v.page # 1
    BY <1>4
  <2> QED BY <1>1, <1>2, <1>4, <2>1
<1> QED BY <1>3, <1>4

(* Piped pages on from what engine_data brings. *)
LEMMA PipedAbuts ==
  ASSUME NEW u, NEW v, u.page \in Nat \ {0}, v.page = u.page + 1,
         v.nextpage, u.page > 1 => u.nextpage
  PROVE  request("piped", v).from = request("piped", u).from + request("piped", u).size
  BY PipedAsk

(* Whatever the steps it counts in, a page starts where the one before ended. *)
LEMMA WindowsFollow ==
  ASSUME NEW e, NEW u, NEW v, u.page \in Nat \ {0}, v.page = u.page + 1,
         is_eligible(metadata(e), v), request(e, u).sent, request(e, v).sent,
         Windows(e, u, v)
  PROVE  request(e, v).from = request(e, u).from + request(e, u).size
<1>1. CASE OnePage(e)
  BY <1>1 DEF OnePage, is_eligible
<1>2. CASE NumbersPages(e, u) /\ NumbersPages(e, v)
  BY <1>2 DEF NumbersPages
<1>3. ASSUME NEW size \in Sizes, CountsBy(e, u, size), CountsBy(e, v, size)
      PROVE  request(e, v).from = request(e, u).from + request(e, u).size
  BY <1>3 DEF CountsBy, Sizes
<1> QED BY <1>1, <1>2, <1>3, Zenon DEF Windows

(* All but 360 Search, whose configuration has no pages. *)
LEMMA AllAbut ==
  ASSUME NEW e \in Names \ {"search360"}, NEW u, NEW v,
         u.page \in Nat \ {0}, v.page = u.page + 1, is_eligible(metadata(e), v),
         request(e, u).sent, request(e, v).sent,
         e = "piped" => v.nextpage /\ (u.page > 1 => u.nextpage)
  PROVE  request(e, v).from = request(e, u).from + request(e, u).size
<1>1. CASE e = "duckduckgo"
  BY <1>1, DuckDuckGoAbuts, Zenon
<1>2. CASE e = "piped"
  BY <1>2, PipedAbuts, Zenon
<1>3. CASE e \notin {"duckduckgo", "piped"}
  <2>1. Windows(e, u, v)
    BY <1>3, AllKeep, Zenon DEF Keeps
  <2> QED BY <2>1, WindowsFollow, Zenon
<1> QED BY <1>1, <1>2, <1>3, Zenon

(* Off asks for no filtering, Strict for the most. *)
LEMMA Levels ==
  ASSUME NEW s \in SafeSearch
  PROVE  /\ (s = "Off") = (Level(s) = 0)
         /\ (s = "Off") = (Clamped(s) = 0)
         /\ Level(s) <= Level("Strict") /\ Clamped(s) <= Clamped("Strict")
  BY DEF SafeSearch, Level, Clamped

(* Whatever the kind, a selected engine asks for what the query says. *)
LEMMA FiltersFollow ==
  ASSUME NEW e, NEW u, NEW w, u.safe \in SafeSearch, w.safe = "Strict", w.text = u.text,
         is_eligible(metadata(e), u), request(e, u).sent, Filters(e, u, w)
  PROVE  /\ u.text # "empty" => request(e, u).time = u.time
         /\ (u.safe = "Off") = (request(e, u).safe = 0)
         /\ request(e, u).safe <= request(e, w).safe
<1>1. u.text # "empty" => request(e, u).time = u.time
  BY DEF Filters, PassesPeriod, NoPeriod, is_eligible
<1>2. CASE PassesLevel(e, u) /\ PassesLevel(e, w)
  <2>1. request(e, u).safe = Level(u.safe) /\ request(e, w).safe = Level(w.safe)
    BY <1>2, Zenon DEF PassesLevel
  <2> QED BY <1>1, <2>1, Levels
<1>3. CASE PassesSwitch(e, u) /\ PassesSwitch(e, w)
  <2>1. request(e, u).safe = Clamped(u.safe) /\ request(e, w).safe = Clamped(w.safe)
    BY <1>3, Zenon DEF PassesSwitch
  <2> QED BY <1>1, <2>1, Levels
<1>4. CASE NoFilter(e, u) /\ NoFilter(e, w)
  <2>1. u.safe = "Off" /\ request(e, u).safe = 0 /\ request(e, w).safe = 0
    BY <1>4, Zenon DEF NoFilter, is_eligible
  <2> QED BY <1>1, <2>1
<1> QED BY <1>2, <1>3, <1>4, Zenon DEF Filters
-----------------------------------------------------------------------------
(* RefusalsAreErrors of one reply. *)
Refusal(status, error) ==
  /\ status \in {401, 403, 429} \/ status >= 500 => error # "none"
  /\ status \in {429, 503} => error \in Suspending

(* Every challenge suspends. *)
LEMMA Challenges ==
  ASSUME NEW status, NEW cloudflare, NEW marker
  PROVE  classify_challenge(status, cloudflare, marker) \in Suspending \cup {"none"}
  BY ZenonT(30) DEF classify_challenge, Suspending

(* A refusal that the transport maps is an error, also one with a challenge. *)
LEMMA MappedRefusals ==
  ASSUME NEW r, r.status \in Nat
  PROVE  Refusal(r.status, map_response(r))
<1> DEFINE marker == IF r.status \in {403, 429, 503} THEN r.marker ELSE "none"
           challenge == classify_challenge(r.status, r.cloudflare, marker)
<1> HIDE DEF challenge
<1>1. challenge \in Suspending \cup {"none"}
  BY Challenges DEF challenge
<1>2. map_response(r) = IF r.status < 400 THEN "none"
     ELSE IF challenge # "none" THEN challenge
     ELSE IF r.status \in 401..403 THEN "AccessDenied"
     ELSE IF r.status \in {429, 503} THEN "TooManyRequests"
     ELSE "Unexpected"
  BY Zenon DEF map_response, challenge
<1> HIDE DEF marker
<1> QED BY <1>1, <1>2 DEF Refusal, Suspending

(* Adapting a reply leaves its status. *)
LEMMA Adapted ==
  ASSUME NEW r \in EngineResponse
  PROVE  adapt_response(r).status = r.status
  BY DEF adapt_response, EngineResponse

(* No configuration of the catalogue takes a status for no results. *)
LEMMA GenericStatuses ==
  ASSUME NEW e \in Generic
  PROVE  GenericConfig[e].no_result_for_http_status = {}
<1>1. /\ GenericConfig["pages"].no_result_for_http_status = {}
      /\ GenericConfig["offsets"].no_result_for_http_status = {}
      /\ GenericConfig["api"].no_result_for_http_status = {}
      /\ GenericConfig["filtered"].no_result_for_http_status = {}
      /\ GenericConfig["posted"].no_result_for_http_status = {}
      /\ GenericConfig["search360"].no_result_for_http_status = {}
  BY Zenon DEF GenericConfig, GenericDefaults
<1> QED BY <1>1, Generics, Zenon

(* An error is one. *)
LEMMA ErrorIs ==
  ASSUME NEW category
  PROVE  Err(category).err = category
  BY DEF Err

(* Without such statuses a refusal comes before the body. *)
LEMMA GenericErrors ==
  ASSUME NEW r, NEW config, config.no_result_for_http_status = {},
         generic_response_error(r.status, r.marker) # "none"
  PROVE  generic_response(r, config).err = generic_response_error(r.status, r.marker)
<1> DEFINE error == generic_response_error(r.status, r.marker)
<1>1. generic_response(r, config) = Err(error)
  BY Zenon DEF generic_response
<1> QED BY <1>1, ErrorIs, Zenon

(* The generic engines, which look at the status themselves. *)
LEMMA GenericRefusals ==
  ASSUME NEW e \in Generic, NEW r, r.status \in Nat
  PROVE  Refusal(r.status, response(e, r).err)
<1> DEFINE error == generic_response_error(r.status, r.marker)
<1>1. response(e, r) = generic_response(r, GenericConfig[e])
  BY Generics, Zenon DEF response
<1>2. error # "none" => response(e, r).err = error
  BY <1>1, GenericStatuses, GenericErrors, Zenon
<1>3. Refusal(r.status, error) /\ (error = "none" => r.status < 400)
  BY DEF generic_response_error, Suspending, Refusal
<1> HIDE DEF error
<1> QED BY <1>2, <1>3 DEF Refusal
-----------------------------------------------------------------------------
(* A client that brings engine_data with every page does so on this one. *)
Threading == Threaded /\ \A u \in Queries : u.page > 1 => u.nextpage
Threads(u) == Threading => (u.page > 1 => u.nextpage)

Turned(u) == [u EXCEPT !.page = @ + 1, !.nextpage = Threaded]

(* An engine that was selected is eligible, and so it is when it is asked. *)
Selected == stage \in {"selected", "sent"} => is_eligible(metadata(engine), q)

(* The request is the engine's for this query, and was sent. *)
Asked ==
  /\ stage \in {"sent", "done"} => params = request(engine, q)
  /\ stage = "sent" => params.sent

(* The request before is the same engine's for the page before. *)
Continued ==
  last.sent => \E u \in SearchQueryView :
    last = request(engine, u) /\ q = Turned(u) /\ Threads(u)

(* The result is what the transport and the engine make of the reply. *)
Answered ==
  \A r \in reply :
    /\ stage = "done" /\ r \in EngineResponse
    /\ result = IF params.raise_for_httperror /\ map_response(r) # "none"
                THEN Err(map_response(r)) ELSE response(engine, adapt_response(r))

(* The inductive invariant. *)
SearchInv ==
  /\ engine \in Names /\ q \in SearchQueryView /\ Threads(q)
  /\ Selected /\ Asked /\ Continued /\ Answered

(* What upstreams send are responses. *)
RepliesTyped == \A u \in SearchQueryView : Replies(u) \subseteq EngineResponse

(* The query for the next page is a query, and threads on. *)
LEMMA NextPageTyped ==
  ASSUME NEW u \in SearchQueryView
  PROVE  Turned(u) \in SearchQueryView /\ Threads(Turned(u))
<1>1. ASSUME NEW p \in Nat \ {0}
      PROVE  LET v == [u EXCEPT !.page = p, !.nextpage = Threaded]
             IN v \in SearchQueryView /\ v.nextpage = Threaded
  BY SearchAssumption DEF SearchQueryView
<1>2. u.page + 1 \in Nat \ {0}
  BY DEF SearchQueryView
<1>3. Turned(u) \in SearchQueryView /\ Turned(u).nextpage = Threaded
  BY <1>1, <1>2 DEF Turned
<1> QED BY <1>3 DEF Threads, Threading

(* Selection, request, reply and the next page keep the invariant. *)
LEMMA SearchStep ==
  ASSUME RepliesTyped
  PROVE  SearchInv /\ [Next]_vars => SearchInv'
<1> SUFFICES ASSUME SearchInv, [Next]_vars PROVE SearchInv'
  OBVIOUS
<1> USE DEF SearchInv, Threads, Threading
<1>1. CASE Select
  BY <1>1 DEF Select, Selected, Asked, Continued, Answered
<1>2. CASE Request
  BY <1>2 DEF Request, Selected, Asked, Continued, Answered
<1>3. ASSUME NEW r \in Replies(q), Respond(r) PROVE SearchInv'
  BY <1>3 DEF Respond, Selected, Asked, Continued, Answered, RepliesTyped
<1>4. CASE NextPage
  <2>1. engine' = engine /\ stage' = "new" /\ reply' = {} /\ q' = Turned(q)
    BY <1>4 DEF NextPage, Turned
  <2>2. q' \in SearchQueryView /\ Threads(q')
    BY <2>1, NextPageTyped
  <2>3. last' = request(engine, q)
    BY <1>4 DEF NextPage, Asked
  <2>4. Continued'
    BY <2>1, <2>3 DEF Continued
  <2>5. Selected' /\ Asked' /\ Answered'
    BY <2>1 DEF Selected, Asked, Answered
  <2> QED BY <2>1, <2>2, <2>4, <2>5
<1>5. CASE UNCHANGED vars
  BY <1>5 DEF vars, Selected, Asked, Continued, Answered
<1> QED BY <1>1, <1>2, <1>3, <1>4, <1>5 DEF Next

(* The invariant of a user who pages through an engine's results. *)
LEMMA SearchInvariance ==
  ASSUME RepliesTyped
  PROVE  Spec => []SearchInv
<1>1. Init => SearchInv
  <2>1. ~NoRequest.sent
    BY DEF NoRequest
  <2> QED
    BY <2>1, SearchAssumption
       DEF Init, SearchInv, Threads, Threading, Selected, Asked, Continued, Answered
<1> QED BY <1>1, SearchStep, PTL DEF Spec

(***************************************************************************)
(* Selection and request agree, for each of the engines but four: what an  *)
(* engine declares, and was selected for, is in what it asks its upstream  *)
(* for, on every page, of every text.                                      *)
(***************************************************************************)
THEOREM FiltersAskedFor ==
  ASSUME RepliesTyped, KnownUnfiltered \subseteq Unfiltered
  PROVE  Spec => []FiltersReachUpstream
<1>1. SearchInv => FiltersReachUpstream
  <2> SUFFICES ASSUME SearchInv, stage = "sent", engine \notin Unfiltered
               PROVE  /\ q.text # "empty" => params.time = q.time
                      /\ (q.safe = "Off") = (params.safe = 0)
                      /\ params.safe <= request(engine, [q EXCEPT !.safe = "Strict"]).safe
    BY DEF FiltersReachUpstream
  <2> DEFINE strict == [q EXCEPT !.safe = "Strict"]
  <2>1. strict.safe = "Strict" /\ strict.text = q.text /\ q.safe \in SafeSearch
    BY DEF SearchInv, SearchQueryView
  <2>2. is_eligible(metadata(engine), q) /\ params.sent /\ params = request(engine, q)
    BY DEF SearchInv, Selected, Asked
  <2>3. engine \in Names /\ engine \notin KnownUnfiltered
    BY DEF SearchInv
  <2>4. Filters(engine, q, strict)
    BY <2>3, AllKeep, Zenon DEF Keeps
  <2> HIDE DEF strict
  <2>5. /\ q.text # "empty" => request(engine, q).time = q.time
        /\ (q.safe = "Off") = (request(engine, q).safe = 0)
        /\ request(engine, q).safe <= request(engine, strict).safe
    BY <2>1, <2>2, <2>4, FiltersFollow, Zenon
  <2> QED BY <2>2, <2>5, Zenon DEF strict
<1> QED BY <1>1, SearchInvariance, PTL

(***************************************************************************)
(* A user who pages on sees every result once, with every engine but 360   *)
(* Search; with Piped only as long as clients bring engine_data along.     *)
(***************************************************************************)
THEOREM PagesFollowOn ==
  ASSUME RepliesTyped, "search360" \in Unpaged, "piped" \in Unpaged \/ Threading
  PROVE  Spec => []WindowsAbut
<1>1. SearchInv => WindowsAbut
  <2> SUFFICES ASSUME SearchInv, stage = "sent", last.sent, engine \notin Unpaged
               PROVE  params.from = last.from + last.size
    BY DEF WindowsAbut
  <2>1. PICK u \in SearchQueryView : last = request(engine, u) /\ q = Turned(u) /\ Threads(u)
    BY DEF SearchInv, Continued
  <2>2. is_eligible(metadata(engine), q) /\ params.sent /\ params = request(engine, q)
    BY DEF SearchInv, Selected, Asked
  <2>3. engine \in Names \ {"search360"}
    BY DEF SearchInv
  <2>4. u.page \in Nat \ {0} /\ q.page = u.page + 1 /\ q.nextpage = Threaded
    BY <2>1 DEF SearchQueryView, Turned
  <2>5. engine = "piped" => q.nextpage /\ (u.page > 1 => u.nextpage)
    BY <2>1, <2>4 DEF Threads, Threading
  <2>6. request(engine, q).from = request(engine, u).from + request(engine, u).size
    BY <2>1, <2>2, <2>3, <2>4, <2>5, AllAbut, Zenon
  <2> QED BY <2>1, <2>2, <2>6, Zenon
<1> QED BY <1>1, SearchInvariance, PTL

(***************************************************************************)
(* No engine, but the five that read the status themselves, takes a reply  *)
(* of a refusing or failing status for an answer without results, whatever *)
(* its body and marks, and a status that demands to back off ends as an    *)
(* error that suspends.  Refusals of status 200, and redirects, are not    *)
(* part of this.                                                           *)
(***************************************************************************)
THEOREM RefusalsFail ==
  ASSUME RepliesTyped, KnownOwnStatus \subseteq OwnStatus
  PROVE  Spec => []RefusalsAreErrors
<1>1. SearchInv => RefusalsAreErrors
  <2> SUFFICES ASSUME SearchInv, NEW r \in reply, stage = "done", engine \notin OwnStatus
               PROVE  Refusal(r.status, result.err)
    BY DEF RefusalsAreErrors, Refusal
  <2>1. /\ r \in EngineResponse /\ params = request(engine, q)
        /\ result = IF params.raise_for_httperror /\ map_response(r) # "none"
                    THEN Err(map_response(r)) ELSE response(engine, adapt_response(r))
    BY DEF SearchInv, Answered, Asked
  <2>2. r.status \in Nat /\ adapt_response(r).status = r.status
    BY <2>1, Adapted DEF EngineResponse
  <2>3. engine \in Generic \/ params.raise_for_httperror
    BY <2>1, AllKeep, Zenon DEF SearchInv, Keeps, Raises
  <2>4. Refusal(r.status, map_response(r))
    BY <2>2, MappedRefusals
  <2>5. CASE params.raise_for_httperror /\ map_response(r) # "none"
    BY <2>1, <2>4, <2>5, ErrorIs, Zenon
  <2>6. CASE params.raise_for_httperror /\ map_response(r) = "none"
    BY <2>4, <2>6 DEF Refusal, Suspending
  <2>7. CASE engine \in Generic /\ ~params.raise_for_httperror
    BY <2>1, <2>2, <2>7, GenericRefusals, Zenon
  <2> QED BY <2>3, <2>5, <2>6, <2>7
<1> QED BY <1>1, SearchInvariance, PTL
=============================================================================
