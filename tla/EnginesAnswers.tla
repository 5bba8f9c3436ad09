--------------------------- MODULE EnginesAnswers ---------------------------
(***************************************************************************)
(* Encyclopedias and the engines that answer one kind of question: they    *)
(* send nothing for any other, and nothing after the first page.           *)
(***************************************************************************)
EXTENDS EngineCore

(* An engine that answers only queries of one kind, on the first page. *)
AnswerOnly(q, kind) == IF q.text = kind /\ q.page = 1 THEN Ask(0, 1) ELSE NoRequest

wikipedia_meta == Meta(FALSE, 0, FALSE, FALSE, TRUE)

(* The page named like the query, in the wiki of the locale's language. *)
wikipedia_request(q) == [Ask(0, 1) EXCEPT !.raise_for_httperror = FALSE]

(* Any JSON is read as a page summary, also that of an error. *)
wikipedia_response(r) ==
  IF r.status = 404 \/ (r.status = 400 /\ r.body = "refusal") THEN NoResults
  ELSE IF ~Parses(r) THEN Err("Parse")
  ELSE [err |-> "none", kept |-> TRUE, link |-> r.body = "good" /\ "url" \in r.item]

wikidata_meta == Meta(FALSE, 0, FALSE, FALSE, TRUE)

(* resolve_language, sparql_string_escape and build_query: one entity. *)
wikidata_query(q) == Ask(0, 1)

wikidata_request(q) == [wikidata_query(q) EXCEPT !.raise_for_httperror = FALSE]

(* The bindings of one entity become one infobox. *)
wikidata_response(r) ==
  IF r.status \in {429, 500, 502, 503, 504} THEN Err("Timeout")
  ELSE IF r.status # 200 THEN NoResults
  ELSE Json(r, {"url"})

wikibooks_meta == Meta(TRUE, 0, FALSE, FALSE, TRUE)

(* Asks the wiki of the locale's language. *)
wikibooks_request(q) == Offset(q, 5)

(* Links are made from the title, always of the English wiki. *)
wikibooks_response(r) == JsonLinked(r, {})

dictionary_meta == Meta(FALSE, 0, FALSE, FALSE, FALSE)

(* define_term: one to three words after a phrase that asks for a meaning. *)
dictionary_request(q) == AnswerOnly(q, "define")

dictionary_response(r) ==
  IF r.body = "good" /\ "content" \in r.item THEN KeepLinked(r, {"content"}) ELSE Err("Parse")

translate_meta == Meta(FALSE, 0, FALSE, FALSE, FALSE)

(* parse_translate_query: a text and a known language. *)
translate_request(q) == AnswerOnly(q, "translate")

translate_response(r) ==
  IF r.body = "good" /\ "content" \in r.item THEN KeepLinked(r, {"content"}) ELSE Err("Parse")

weather_meta == Meta(FALSE, 0, FALSE, FALSE, FALSE)

(* weather_location: what is left of the query without keyword and fillers. *)
weather_location(q) == q.text = "weather"

weather_request(q) ==
  IF weather_location(q) /\ q.page = 1 THEN Ask(0, 1) ELSE NoRequest

(* A condition with neither a temperature nor a description is no weather. *)
weather_response(r) ==
  IF r.body = "good" /\ r.item \cap {"title", "content"} # {}
  THEN KeepLinked(r, {}) ELSE Err("Parse")

currency_meta == Meta(FALSE, 0, FALSE, FALSE, FALSE)

(* parse_currency_query: an amount and two different currencies of the ECB. *)
parse_currency_query(q) == q.text = "convert"

(* Amount and currencies travel as parameters of the URL. *)
currency_request(q) ==
  IF parse_currency_query(q) /\ q.page = 1 THEN Ask(0, 1) ELSE NoRequest

(* rate_of: both currencies have a rate in the ECB's file. *)
rate_of(r) == r.body = "good" /\ "content" \in r.item

currency_response(r) == IF rate_of(r) THEN KeepLinked(r, {}) ELSE Err("Parse")
=============================================================================
