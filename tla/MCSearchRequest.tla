-------------------------- MODULE MCSearchRequest --------------------------
(* Three built-in engines, two of them disabled; entries by name, id or alias.       *)
EXTENDS SearchRequest

Meta == [disabled |-> FALSE, categories |-> {"general"}, shortcut |-> {}, paging |-> TRUE,
         max_page |-> 0, time_range_support |-> TRUE, safesearch |-> TRUE,
         language_support |-> TRUE]

MCBuiltin ==
  [weather    |-> [Meta EXCEPT !.shortcut = {"wttr"}, !.time_range_support = FALSE],
   hackernews |-> [Meta EXCEPT !.disabled = TRUE, !.categories = {"it"}, !.shortcut = {"hn"}],
   wikibooks  |-> [Meta EXCEPT !.disabled = TRUE, !.shortcut = {"wb"}]]

MCAlias == [weather |-> "weather", wttr |-> "weather", wikibooks |-> "wikibooks",
            hackernews |-> "hackernews"] @@ ("hacker news" :> "hackernews")

Entry(name) == [name |-> name, engine |-> None, disabled |-> FALSE, inactive |-> FALSE,
                tokens |-> {}, shortcut |-> {}, categories |-> None, valid |-> TRUE]

Listable ==
  {[Entry("wttr") EXCEPT !.disabled = TRUE], [Entry("weather") EXCEPT !.engine = "wikibooks"],
   Entry("hacker news"), [Entry("weather") EXCEPT !.disabled = TRUE],
   [Entry("hackernews") EXCEPT !.tokens = {"t"}],
   [Entry("hackernews") EXCEPT !.inactive = TRUE, !.shortcut = {"x"}],
   [Entry("books") EXCEPT !.engine = "wikibooks", !.categories = {"it"}],
   Entry("nosuch"),
   [Entry("ours") EXCEPT !.engine = "xpath"],
   [Entry("ours") EXCEPT !.engine = "xpath", !.valid = FALSE]}

MCLocales == [t \in {"all", "auto", "en", "de", "de-AT"} |-> IF t = "de-AT" THEN "de" ELSE t]

MCLanguageCodes == {"all", "auto", "en", "de", "de-AT", "deu"}

Settings ==
  [lock |-> {}, default_locale |-> "", default_lang |-> "", safe_search |-> 0,
   autocomplete |-> "", image_proxy |-> FALSE, method |-> "", plugins |-> {},
   formats |-> {"html", "json"}, max_page |-> 1, max_request_timeout |-> 3000]

MCConfigurations ==
  {Settings,
   [Settings EXCEPT !.lock = {"language", "safesearch", "engines"}, !.default_lang = "auto",
                    !.safe_search = 1],
   [Settings EXCEPT !.lock = {"image_proxy", "categories"}, !.default_lang = "en",
                    !.max_page = 0, !.method = "GET"]}

MCSavedForms ==
  {[language |-> "deu", engines |-> {"weather", "wikibooks"}],
   [language |-> "auto", safesearch |-> 1],
   [safesearch |-> 3, image_proxy |-> TRUE, categories |-> {"it"}],
   [language |-> "klingon", engines |-> {}, categories |-> {}]}

Part(kind, value) == [kind |-> kind, value |-> value]
w == Part("", "w")

MCSearchForms ==
  {[q |-> <<w>>, format |-> "json"],
   [q |-> <<w>>, format |-> "rss"],
   [q |-> <<w>>],
   [q |-> <<Part(":", "en"), Part(":", "de"), Part("<", 200), Part("!", "it")>>, format |-> "json"],
   [q |-> <<Part("!", "hackernews"), w, Part("!!", "")>>, format |-> "json",
    tokens |-> {"t"}, categories |-> {}],
   [q |-> <<Part("!!", "g"), w>>, format |-> "json"],
   [q |-> <<Part("!!", "nosuch"), Part("<", None)>>, format |-> "json", timeout_limit |-> 9],
   [q |-> <<w>>, format |-> "json", timeout_limit |-> 11, language |-> ""],
   [q |-> <<w>>, format |-> "json", language |-> "de", engines |-> {"weather", "x"},
    safesearch |-> 2, engine_tokens |-> {"t"}],
   [q |-> <<w>>, format |-> "json", engine_data |-> Corrupt],
   [q |-> <<w>>, format |-> "json", pageno |-> 2, time_range |-> "day"],
   [q |-> <<w>>, format |-> "json",
    switches |-> <<[category |-> "it", on |-> TRUE], [category |-> "general", on |-> FALSE]>>],
   [format |-> "json"]}

MCNativeForms ==
  {[q |-> <<>>], [q |-> <<w>>, pageno |-> 0], [q |-> <<w>>, language |-> "auto", time_range |-> "ever"]}
=============================================================================
