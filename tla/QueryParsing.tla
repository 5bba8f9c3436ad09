---------------------------- MODULE QueryParsing ----------------------------
(***************************************************************************)
(* zoeken-query: a search query from the text and the fields of a form.    *)
(*                                                                         *)
(* The text is a sequence of parts; a part is its kind, which the first    *)
(* characters tell, and its value.  A field that the form lacks, or a      *)
(* value that is no number, is None; text of white space only is <<>>.     *)
(***************************************************************************)
EXTENDS Naturals, Sequences, SequencesExt

CONSTANTS None,
          Corrupt,            \* what cannot be decoded
          EngineTraits,       \* the names !name is looked up in
          KNOWN_CATEGORIES,
          Bangs,              \* the external bangs
          LanguageCodes,      \* the tags is_valid_language_code accepts
          MaxDuration         \* seconds that a Duration holds

Field(form, k) == IF k \in DOMAIN form THEN form[k] ELSE None

RawText == [engines |-> {}, categories |-> {}, languages |-> <<>>, timeout |-> None,
            external_bang |-> None, redirect |-> FALSE, feedback |-> {}, words |-> <<>>]

(* Small numbers are seconds, the others milliseconds. *)
Milliseconds(amount) == IF amount < 100 THEN 1000 * amount ELSE amount

(* A part that is not understood is a word of the query; an unknown bang is   *)
(* reported as well.                                                          *)
parse_query_part(raw, part) ==
  CASE part.kind = "<" /\ part.value # None ->
         [raw EXCEPT !.timeout = Milliseconds(part.value)]
    [] part.kind = ":" /\ part.value \in LanguageCodes ->
         [raw EXCEPT !.languages = IF Contains(@, part.value) THEN @ ELSE Append(@, part.value)]
    [] part.kind = "!!" /\ part.value = "" -> [raw EXCEPT !.redirect = TRUE]
    [] part.kind = "!!" /\ part.value \in Bangs -> [raw EXCEPT !.external_bang = part.value]
    [] part.kind = "!" /\ part.value \in EngineTraits ->
         [raw EXCEPT !.engines = @ \cup {part.value}]
    [] part.kind = "!" /\ part.value \in KNOWN_CATEGORIES \ EngineTraits ->
         [raw EXCEPT !.categories = @ \cup {part.value}]
    [] OTHER ->
         [raw EXCEPT !.words = Append(@, part),
                     !.feedback = IF part.kind = "!!" THEN @ \cup {part.value} ELSE @]

parse_raw(text) == FoldLeft(parse_query_part, RawText, text)

(* Where an external bang leads: to the site's search, or, without words, to  *)
(* the site.                                                                  *)
resolve_external_bang(raw) ==
  IF raw.external_bang = None THEN None
  ELSE [site |-> raw.external_bang, search |-> raw.words # <<>>]

-----------------------------------------------------------------------------
parse_pageno(form) == IF Field(form, "pageno") = None THEN 1 ELSE form.pageno

parse_safesearch(form, prefs, locked) ==
  IF "safesearch" \in locked \/ Field(form, "safesearch") = None THEN prefs.safesearch
  ELSE form.safesearch

parse_time_range(form) == IF Field(form, "time_range") = "" THEN None ELSE Field(form, "time_range")

parse_timeout(form) == IF Field(form, "timeout_limit") = None THEN None ELSE 1000 * form.timeout_limit

(* The form's own value, which apply_params has not normalised. *)
parse_lang(form, prefs, locked) ==
  IF "language" \in locked \/ Field(form, "language") = None THEN prefs.language
  ELSE form.language

Locale(form, raw, prefs, locked) ==
  IF raw.languages # <<>> /\ "language" \notin locked THEN raw.languages[1]
  ELSE parse_lang(form, prefs, locked)

(* category_x=on adds x to those the form has so far, category_x=off removes  *)
(* it.                                                                        *)
apply_category_form(categories, switch) ==
  IF switch.on THEN categories \cup {switch.category} ELSE categories \ {switch.category}

parse_categories(form, prefs, locked) ==
  LET listed == IF Field(form, "categories") = None THEN {} ELSE form.categories
      named  == IF "categories" \in locked THEN {}
                ELSE IF Field(form, "switches") = None THEN listed
                ELSE FoldLeft(apply_category_form, listed, form.switches)
  IN IF named # {} THEN named
     ELSE IF prefs.categories # {} THEN prefs.categories ELSE {"general"}

parse_engines(form) == IF Field(form, "engines") = None THEN {} ELSE form.engines

parse_engine_data(form) == IF Field(form, "engine_data") = None THEN {} ELSE form.engine_data

(* The checks in the order they are made.  A time that is finite but longer   *)
(* than a Duration holds is not refused: Duration::from_secs_f64 panics.      *)
Verdict(form, raw, prefs, locked) ==
  IF \/ Field(form, "q") = None
     \/ parse_pageno(form) < 1
     \/ "safesearch" \notin locked /\ parse_safesearch(form, prefs, locked) \notin 0..2
     \/ parse_time_range(form) \notin {None, "day", "week", "month", "year"}
  THEN "refused"
  ELSE IF parse_timeout(form) # None /\ parse_timeout(form) > 1000 * MaxDuration THEN "panicked"
  ELSE IF \/ "language" \notin locked /\ Locale(form, raw, prefs, locked) \notin LanguageCodes
          \/ parse_engine_data(form) = Corrupt
  THEN "refused"
  ELSE "accepted"

from_params(form, prefs, locked) ==
  LET raw == IF Field(form, "q") = None THEN RawText ELSE parse_raw(form.q)
  IN [verdict       |-> Verdict(form, raw, prefs, locked),
      words         |-> raw.words,
      categories    |-> IF raw.categories # {} THEN raw.categories
                        ELSE parse_categories(form, prefs, locked),
      engines       |-> IF raw.engines # {} THEN raw.engines ELSE parse_engines(form),
      locale        |-> Locale(form, raw, prefs, locked),
      pageno        |-> parse_pageno(form),
      time_range    |-> parse_time_range(form),
      safesearch    |-> parse_safesearch(form, prefs, locked),
      timeout       |-> IF raw.timeout # None THEN raw.timeout ELSE parse_timeout(form),
      external_bang |-> resolve_external_bang(raw),
      redirect      |-> raw.redirect,
      engine_data   |-> parse_engine_data(form)]
=============================================================================
