--------------------------- MODULE SearchRequest ---------------------------
(***************************************************************************)
(* How a search is put together: the operator's settings and registry, the *)
(* cookie that the browser keeps, and the form, become a query and the set *)
(* of engines that is asked (zoeken-server, lib.rs and preferences.rs).    *)
(*                                                                         *)
(* chose is a history variable: what the user has saved and not since      *)
(* cleared, or saved over.                                                 *)
(***************************************************************************)
EXTENDS EngineRegistry, Preferences, FiniteSetsExt

CONSTANTS Configurations,   \* the settings besides the engines
          SavedForms, SearchForms, NativeForms,
          Detected          \* what whatlang may say of a text

(* Settings::validate knows three levels of filtering. *)
ASSUME ConfigurationAssumption == \A c \in Configurations : c.safe_search \in 0..2

VARIABLES settings,
          cookie,           \* the preferences cookie, None or Corrupt
          chose,
          reply             \* to a search, until the browser has read it

requestVars == <<settings, cookie, chose, reply>>
vars == <<registryVars, requestVars>>

Nothing == [k \in PrefKeys |-> None]

Init ==
  /\ RegistryInit
  /\ settings \in Configurations
  /\ cookie \in {None, Corrupt}
  /\ chose = Nothing
  /\ reply = None

(* One browser, which reads an answer before it asks for more. *)
Serving == next > Len(entries) /\ reply = None

(* The ids of the entries that are not switched off. *)
EnabledEntries ==
  {Key(entries[i]) : i \in {j \in DOMAIN entries : ~entries[j].disabled /\ ~entries[j].inactive}}

Resolved(form, detected) == resolve(settings, EnabledEntries, cookie, form, detected)

(* POST /preferences: all that is resolved is saved, also what the form does  *)
(* not mention and what is locked now.                                        *)
SavePreferences(form) ==
  /\ Serving
  /\ cookie' = encode_cookie(Resolved(form, None))
  /\ chose' = [k \in PrefKeys |-> IF k \in settings.lock THEN None
                                  ELSE IF Given(form, k) THEN form[k] ELSE chose[k]]
  /\ UNCHANGED <<registryVars, settings, reply>>

(* GET /clear_cookies *)
ClearCookies ==
  /\ Serving /\ cookie # None
  /\ cookie' = None /\ chose' = Nothing
  /\ UNCHANGED <<registryVars, settings, reply>>

(* A restart with other settings; browsers keep their cookies. *)
Reconfigure(configuration) ==
  /\ Serving /\ configuration # settings
  /\ settings' = configuration
  /\ UNCHANGED <<registryVars, cookie, chose, reply>>

-----------------------------------------------------------------------------
Refusal(kind) == [kind |-> kind]

OutputFormat(form) == IF Field(form, "format") \in {None, ""} THEN "html" ELSE form.format

request_tokens(form) ==
  IF Field(form, "tokens") # None THEN form.tokens
  ELSE IF Field(form, "engine_tokens") # None THEN form.engine_tokens ELSE {}

request_timeout(query) ==
  IF query.timeout = None THEN settings.max_request_timeout
  ELSE Min({query.timeout, settings.max_request_timeout})

(* Search::run of a query, filter and first result.  found tells whether a    *)
(* result with a link was left.                                               *)
Searched(form, detected, prefs, query, found) ==
  LET asked == select(query, engine_preferences(prefs), request_tokens(form))
  IN [kind        |-> IF query.redirect /\ found /\ asked # {} THEN "first" ELSE "results",
      form        |-> form,
      detected    |-> detected,
      query       |-> query,
      selected    |-> asked,
      image_proxy |-> prefs.image_proxy,
      timeout     |-> request_timeout(query)]

Answer(form, detected, found) ==
  LET prefs == Resolved(form, IF Field(form, "q") = None THEN None ELSE detected)
      query == from_params(form, prefs, settings.lock)
  IN IF query.verdict # "accepted" THEN Refusal(query.verdict)
     ELSE IF settings.max_page > 0 /\ query.pageno > settings.max_page THEN Refusal("refused")
     ELSE IF query.external_bang # None THEN [kind |-> "external", to |-> query.external_bang]
     ELSE Searched(form, detected, prefs, query, found)

(* GET and POST /search *)
Search(form, detected, found) ==
  /\ Serving
  /\ reply' = IF OutputFormat(form) \notin settings.formats THEN Refusal("refused")
              ELSE IF OutputFormat(form) = "html" THEN Refusal("page")
              ELSE Answer(form, detected, found)
  /\ UNCHANGED <<registryVars, settings, cookie, chose>>

to_form_params(request) ==
  [k \in DOMAIN request |-> IF k = "pageno" THEN Max({request.pageno, 1}) ELSE request[k]]

(* POST /api/v1/search: blank text is refused as well. *)
NativeSearch(request, detected, found) ==
  /\ Serving
  /\ reply' = IF request.q = <<>> THEN Refusal("refused")
              ELSE Answer(to_form_params(request), detected, found)
  /\ UNCHANGED <<registryVars, settings, cookie, chose>>

ReadReply ==
  /\ reply # None
  /\ reply' = None
  /\ UNCHANGED <<registryVars, settings, cookie, chose>>

Next ==
  \/ ReadReply
  \/ ReadEntry /\ UNCHANGED requestVars
  \/ \E form \in SavedForms : SavePreferences(form)
  \/ ClearCookies
  \/ \E configuration \in Configurations : Reconfigure(configuration)
  \/ \E form \in SearchForms, detected \in Detected, found \in BOOLEAN :
       Search(form, detected, found)
  \/ \E request \in NativeForms, detected \in Detected, found \in BOOLEAN :
       NativeSearch(request, detected, found)

Spec == Init /\ [][Next]_vars

-----------------------------------------------------------------------------
WasSearched == reply # None /\ reply.kind \in {"first", "results"}

Listed(n) == {i \in DOMAIN entries : engine_from_settings(entries[i]) # None
                                     /\ engine_from_settings(entries[i]).name = n}

AskedTwice(i, j) ==
  i # j /\ {i, j} \subseteq reply.selected /\ registered[i].name = registered[j].name

(* No engine is asked twice by a search that a list has not taken the place   *)
(* of the catalogue for: "listed entries overlay the built-in catalog by      *)
(* engine id / name" (registry.rs:11-12).  An entry under an alias that       *)
(* engine_from_settings knows is added beside the catalogue's engine instead, *)
(* whose results are then scored as if two engines had found them.            *)
AskedOnce ==
  WasSearched /\ mode = "Merge" => ~\E i, j \in reply.selected : AskedTwice(i, j)

(* The entry's id is the name of its engine, and its name that of no other.   *)
CalledById(e) ==
  /\ Key(e) \in DOMAIN Alias => Alias[Key(e)] = Key(e)
  /\ e.name \in DOMAIN Builtin => e.name = Key(e)
  /\ e.name \notin Custom
AllCalledById == \A i \in DOMAIN entries : CalledById(entries[i])

(* When an engine can be asked twice, its results scored as those of two: a   *)
(* list that replaces the catalogue has it twice, or an entry about it is     *)
(* merged from a list of which some entry calls its engine by an alias or by  *)
(* the name of another one.                                                   *)
AskedTwiceOnlyIfListed ==
  WasSearched =>
    \A i, j \in reply.selected : AskedTwice(i, j) =>
      LET listed == Listed(registered[i].name) IN
      \/ mode = "Replace" /\ Cardinality(listed) > 1
      \/ mode = "Merge" /\ ~AllCalledById /\ listed # {}

SwitchedOff(e) == e.disabled \/ e.inactive

(* The entries that decide about an engine: the last one, or, in a list that  *)
(* replaces the catalogue, each for the copy it registers.                    *)
Decisive(n) ==
  IF mode = "Replace" THEN Listed(n)
  ELSE {k \in Listed(n) : \A l \in Listed(n) : l <= k}

EnabledInCatalogue(n) == n \in DOMAIN Builtin /\ ~Builtin[n].disabled

(* What an operator says of an engine last is what counts, whatever users     *)
(* have saved: an engine whose entries switch it off is asked only by a       *)
(* search that names it.  Where some entry of a merged list calls its engine  *)
(* by an alias, or by the name of another one, less holds: an entry that      *)
(* leaves the engine on may be an earlier one, and the catalogue's own copy   *)
(* stays on if it was.                                                        *)
SwitchedOffStaysOff ==
  WasSearched /\ reply.query.engines = {} =>
    \A i \in reply.selected :
      LET n == registered[i].name IN
      Listed(n) # {} =>
        \/ \E k \in Decisive(n) : ~SwitchedOff(entries[k])
        \/ /\ mode = "Merge" /\ ~AllCalledById
           /\ EnabledInCatalogue(n) \/ \E k \in Listed(n) : ~SwitchedOff(entries[k])

(* A language by the tag of its locale, and the one a search is made in when  *)
(* this one is preferred.                                                     *)
Normal(language) == Kept(language, normalize_language_preference(language))
Meant(language) ==
  Normal(IF language = "auto" /\ reply.detected # None THEN reply.detected ELSE language)

LocaleLocked ==
  reply.query.locale = Meant(IF settings.default_lang = "" THEN "all" ELSE settings.default_lang)

(* The categories that words of a query name are no preference. *)
CategoriesLocked ==
  LET worded == parse_raw(reply.form.q).categories
  IN reply.query.categories = IF worded = {} THEN {"general"} ELSE worded

(* A preference that the operator has locked is the operator's in every       *)
(* search: neither a cookie, also one saved before the lock, nor the form     *)
(* changes it, and a word of the query changes no locked language and no      *)
(* engines; a word that names categories takes the place of locked ones.      *)
LockedPreferencesHold ==
  WasSearched =>
    /\ "language" \in settings.lock => LocaleLocked
    /\ "safesearch" \in settings.lock => reply.query.safesearch = settings.safe_search
    /\ "categories" \in settings.lock => CategoriesLocked
    /\ "image_proxy" \in settings.lock => reply.image_proxy = settings.image_proxy
    /\ "engines" \in settings.lock /\ EnabledEntries # {} =>
         \A i \in reply.selected : registered[i].name \in EnabledEntries

(* "locked preference keys users cannot change" (zoeken.settings.yml:300):    *)
(* where categories are locked, every search is made in the operator's.       *)
LockedCategoriesKept ==
  WasSearched /\ "categories" \in settings.lock => reply.query.categories = {"general"}

(* The form or a word of the query takes the place of a preference. *)
Overridden(k) ==
  \/ Field(reply.form, k) # None
  \/ k = "language" /\ parse_raw(reply.form.q).languages # <<>>
  \/ k = "categories" /\ (Field(reply.form, "switches") # None
                          \/ parse_raw(reply.form.q).categories # {})

(* No categories stand for the default one, no engines for all. *)
Applied(k) ==
  CASE k = "language"    -> reply.query.locale = Meant(Normal(chose[k]))
    [] k = "safesearch"  -> reply.query.safesearch = chose[k]
    [] k = "categories"  ->
           reply.query.categories = IF chose[k] = {} THEN {"general"} ELSE chose[k]
    [] k = "image_proxy" -> reply.image_proxy = chose[k]
    [] k = "engines"     ->
           chose[k] = {} \/ {registered[i].name : i \in reply.selected} \subseteq chose[k]
    [] OTHER             -> TRUE

(* What a user has saved is what a search uses until the user saves something *)
(* else, over whatever else was saved, locked and unlocked since.             *)
SavedPreferencesApply ==
  WasSearched =>
    \A k \in PrefKeys :
      chose[k] # None /\ k \notin settings.lock /\ ~Overridden(k) => Applied(k)
=============================================================================
