---------------------------- MODULE Preferences ----------------------------
(***************************************************************************)
(* zoeken-prefs: the preferences of a request, from the defaults, the      *)
(* settings, the cookie and the form, each over the one before unless the  *)
(* settings lock the key.  Preferences are a function of their keys.       *)
(***************************************************************************)
EXTENDS QueryParsing

CONSTANT Locales   \* LocaleMap: [tags with a locale -> that locale or its language]

ASSUME LocalesAssumption ==
  /\ None \notin DOMAIN Locales
  /\ \A t \in DOMAIN Locales : Locales[t] \in DOMAIN Locales /\ Locales[Locales[t]] = Locales[t]

PrefKeys == {"locale", "language", "categories", "engines", "safesearch", "autocomplete",
             "image_proxy", "method", "plugins"}

Defaults ==
  [locale |-> "all", language |-> "all", categories |-> {"general"}, engines |-> {},
   safesearch |-> 0, autocomplete |-> "brave", image_proxy |-> FALSE, method |-> "POST",
   plugins |-> {}]

(* Values that are empty or unknown leave the default; enabled are the ids of *)
(* the listed engines that are on.                                            *)
apply_settings(settings, enabled) ==
  [Defaults EXCEPT
     !.locale = IF settings.default_locale = "" THEN @ ELSE settings.default_locale,
     !.language = IF settings.default_lang = "" THEN @ ELSE settings.default_lang,
     !.safesearch = IF settings.safe_search \in 0..2 THEN settings.safe_search ELSE @,
     !.autocomplete = settings.autocomplete,
     !.image_proxy = settings.image_proxy,
     !.method = IF settings.method \in {"GET", "POST"} THEN settings.method ELSE @,
     !.plugins = settings.plugins,
     !.engines = IF enabled = {} THEN @ ELSE enabled]

(* base64url(zlib(json)) of all keys but locked; reading it back undoes that, *)
(* or fails.                                                                  *)
encode_cookie(prefs) == [k \in PrefKeys |-> prefs[k]]
decode_cookie(cookie) == IF cookie \in {None, Corrupt} THEN None ELSE cookie

(* Mutant of apply_cookie: the lock of the language is forgotten. *)
ApplyCookieUnlocked(prefs, decoded, locked) ==
  [k \in PrefKeys |-> IF k \in locked \ {"language"} THEN prefs[k] ELSE decoded[k]]

apply_cookie(prefs, decoded, locked) ==
  [k \in PrefKeys |-> IF k \in locked THEN prefs[k] ELSE decoded[k]]

(* What the form gives for a key: a value that is absent, blank or unknown is *)
(* passed over.                                                               *)
Given(form, k) ==
  /\ k \in DOMAIN form /\ form[k] # None
  /\ k \in {"locale", "language"} => form[k] # ""
  /\ k = "safesearch" => form[k] \in 0..2
  /\ k = "method" => form[k] \in {"GET", "POST"}
  /\ k = "image_proxy" => form[k] \in BOOLEAN

(* Mutant of apply_params: a form without a key sets it to its default. *)
ApplyParamsResets(prefs, form, locked) ==
  [k \in PrefKeys |-> IF k \in locked THEN prefs[k]
                      ELSE IF Given(form, k) THEN form[k] ELSE Defaults[k]]

apply_params(prefs, form, locked) ==
  [k \in PrefKeys |-> IF k \notin locked /\ Given(form, k) THEN form[k] ELSE prefs[k]]

(* ISO 639-3, of which whatlang answers, to ISO 639-1. *)
language_alias(language) ==
  CASE language = "eng" -> "en" [] language \in {"deu", "ger"} -> "de" [] OTHER -> None

normalize_locale_preference(locale) ==
  IF locale \in DOMAIN Locales THEN Locales[locale] ELSE None

normalize_language_preference(language) ==
  IF language \in DOMAIN Locales THEN normalize_locale_preference(language)
  ELSE normalize_locale_preference(language_alias(language))

(* What has no locale is left as it is. *)
Kept(tag, normal) == IF normal = None THEN tag ELSE normal

(* detected is what whatlang makes of the form's q, if there is one. *)
apply_data(prefs, detected) ==
  LET language == IF prefs.language = "auto" /\ detected # None THEN detected ELSE prefs.language
  IN [prefs EXCEPT !.locale   = Kept(@, normalize_locale_preference(@)),
                   !.language = Kept(language, normalize_language_preference(language))]

resolve(settings, enabled, cookie, form, detected) ==
  LET first   == apply_settings(settings, enabled)
      decoded == decode_cookie(cookie)
      second  == IF decoded = None THEN first ELSE apply_cookie(first, decoded, settings.lock)
  IN apply_data(apply_params(second, form, settings.lock), detected)

(* engine_preferences: None is every engine. *)
engine_preferences(prefs) == IF prefs.engines = {} THEN None ELSE prefs.engines
=============================================================================
