---------------------------- MODULE Autocomplete ----------------------------
(***************************************************************************)
(* GET and POST /autocompleter (zoeken-server/src/autocompleter.rs) over   *)
(* AutocompleteService::suggest and its backends (zoeken-autocomplete).    *)
(*                                                                         *)
(* A caller is one suggest.  Its load asks the configured backend, within  *)
(* the service's timeout.  A reply is what the backends look at: whether   *)
(* it is JSON, whether it has the shape the backend documents, where its   *)
(* outermost brackets are, and which kinds of rows it has.                 *)
(***************************************************************************)
EXTENDS SharedLoad

CONSTANTS Backends,       \* the backends a server may be configured with
          SuggestionTtl

ASSUME SuggestionAssumption == SuggestionTtl \in Nat

BackendNames ==
  {"360search", "baidu", "bing", "brave", "dbpedia", "duckduckgo", "google", "mwmbl",
   "naver", "privacywall", "quark", "qwant", "seznam", "sogou", "startpage", "swisscows",
   "wikipedia", "yandex"}

(* "direct" is a row that is an address, "entity" an object with a name, *)
(* "foreign" a row of another type.                                      *)
Replies == [json: BOOLEAN, own: BOOLEAN, brackets: {"none", "reversed", "ordered"},
            rows: SUBSET {"text", "blank", "direct", "entity", "foreign"}]

Texts(r) == IF r.own THEN r.rows \ {"entity", "foreign"} ELSE {}

(* [query, [text, ...]] *)
parse_opensearch_suggestions(r) == Texts(r)

(* Rows are texts, or objects whose name or q is not empty. *)
parse_brave_suggestions(r) == IF r.own THEN r.rows \ {"foreign"} ELSE {}

(* [[[html, ...], ...], ...] without tags; rows of nothing else are dropped. *)
parse_google_suggestions(r) == Texts(r) \ {"blank"}

parse_baidu_suggestions(r) == Texts(r)
parse_bing_suggestions(r) == Texts(r)
parse_naver_suggestions(r) == Texts(r)
parse_360search_suggestions(r) == Texts(r)
parse_quark_suggestions(r) == Texts(r)
parse_swisscows_suggestions(r) == Texts(r)

(* Status success is part of the shape. *)
parse_qwant_suggestions(r) == Texts(r)

(* ItemType.TEXT with parts that are not all empty. *)
parse_seznam_suggestions(r) == Texts(r) \ {"blank"}

parse_mwmbl_suggestions(r) == parse_opensearch_suggestions(r) \ {"direct"}

(* <Label> elements of any text, without blank ones. *)
parse_dbpedia_labels(r) == Texts(r) \ {"blank"}

(* From the first [ to the last ]; what cannot be read has no suggestions. *)
parse_sogou_suggestions_text(r) ==
  IF r.brackets = "ordered" /\ r.json THEN parse_opensearch_suggestions(r) ELSE {}

-----------------------------------------------------------------------------
(* What a backend's suggest ends with. *)
Listed(rows) == [kind |-> "kept", class |-> IF rows = {} THEN "empty" ELSE "list"]
BackendError == [kind |-> "failed", class |-> "empty"]
Panicked == [kind |-> "panicked", class |-> "empty"]

fetch_json(r, rows) == IF r.json THEN Listed(rows) ELSE BackendError
fetch_text(rows) == Listed(rows)

suggest_duckduckgo(r) == fetch_json(r, parse_opensearch_suggestions(r))
suggest_wikipedia(r) == fetch_json(r, parse_opensearch_suggestions(r))
suggest_brave(r) == fetch_json(r, parse_brave_suggestions(r))
suggest_startpage(r) == fetch_json(r, parse_opensearch_suggestions(r))
suggest_bing(r) == fetch_json(r, parse_bing_suggestions(r))
suggest_dbpedia(r) == fetch_text(parse_dbpedia_labels(r))
suggest_sogou(r) == fetch_text(parse_sogou_suggestions_text(r))

(* text[start..=end]: a last ] more than one place before the first [, as in *)
(* a prefix )]}' whose array was cut off, is not a range of the text.        *)
suggest_google(r) ==
  CASE r.brackets = "none"     -> BackendError
    [] r.brackets = "reversed" -> Panicked
    [] r.brackets = "ordered"  -> fetch_json(r, parse_google_suggestions(r))

simple_backend(r, rows) == fetch_json(r, rows)

(* backend_by_name *)
suggest(b, r) ==
  CASE b = "360search"  -> simple_backend(r, parse_360search_suggestions(r))
    [] b = "baidu"      -> simple_backend(r, parse_baidu_suggestions(r))
    [] b = "bing"       -> suggest_bing(r)
    [] b = "brave"      -> suggest_brave(r)
    [] b = "dbpedia"    -> suggest_dbpedia(r)
    [] b = "duckduckgo" -> suggest_duckduckgo(r)
    [] b = "google"     -> suggest_google(r)
    [] b = "mwmbl"      -> simple_backend(r, parse_mwmbl_suggestions(r))
    [] b = "naver"      -> simple_backend(r, parse_naver_suggestions(r))
    [] b = "quark"      -> simple_backend(r, parse_quark_suggestions(r))
    [] b = "qwant"      -> simple_backend(r, parse_qwant_suggestions(r))
    [] b = "seznam"     -> simple_backend(r, parse_seznam_suggestions(r))
    [] b = "sogou"      -> suggest_sogou(r)
    [] b = "startpage"  -> suggest_startpage(r)
    [] b = "swisscows"  -> simple_backend(r, parse_swisscows_suggestions(r))
    [] b = "wikipedia"  -> suggest_wikipedia(r)
    [] b \in {"privacywall", "yandex"} -> simple_backend(r, parse_opensearch_suggestions(r))

SuggestionLoads == [b \in BackendNames |-> {suggest(b, r) : r \in Replies}]

-----------------------------------------------------------------------------
(* service_for: an unknown or an empty name disables the service. *)
SuggestionRequest(c, backend) ==
  /\ phase[c] = "new"
  /\ IF backend \in BackendNames
     THEN BeginAsking(c)
     ELSE Goto(c, "done") /\ UNCHANGED before
  /\ UNCHANGED <<loadUnchanged, loaded, answer>>

(* The backend answers, fails or panics. *)
BackendAnswers(c, backend) ==
  /\ phase[c] = "loading"
  /\ \E load \in SuggestionLoads[backend] \cup {BackendError} :
       IF load = Panicked
       THEN Abandon(c) /\ UNCHANGED <<stored, got, loaded>>
       ELSE /\ Settle(c, load.kind, load.class)
            /\ loaded' = [loaded EXCEPT ![c] = load]
  /\ UNCHANGED <<seconds, answer, before>>

(* tokio::time::timeout: the same end as an error. *)
BackendTimesOut(c) ==
  /\ phase[c] = "loading"
  /\ Settle(c, BackendError.kind, BackendError.class)
  /\ loaded' = [loaded EXCEPT ![c] = BackendError]
  /\ UNCHANGED <<seconds, answer, before>>

(* unwrap_or_default, then the reply in either of its two formats. *)
run_autocomplete(c) ==
  /\ phase[c] = "answered"
  /\ Goto(c, "done")
  /\ answer' = [answer EXCEPT ![c] =
       [ok |-> got[c].kind = "kept" /\ got[c].class = "list", timed |-> FALSE]]
  /\ Forget(c)
  /\ UNCHANGED <<loadUnchanged, loaded>>

SuggestionStep(c, backend) ==
  \/ SuggestionRequest(c, backend) \/ BackendAnswers(c, backend) \/ BackendTimesOut(c)
  \/ run_autocomplete(c)
=============================================================================
