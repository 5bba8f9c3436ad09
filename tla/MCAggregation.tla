---------------------------- MODULE MCAggregation ----------------------------
(* Three engines that list up to two pages and differ on what they say of one, *)
(* two that write the addresses of the same pages in several forms, and a city *)
(* with its namesake, told of by Wikipedia and Wikidata.                       *)
EXTENDS Aggregation

MCWeight == [a |-> 1, b |-> 1, c |-> 2]

Link(page, site, path, text) ==
  [page |-> page, site |-> site, prefix |-> "", path |-> path, params |-> <<>>, scheme |-> "https",
   port |-> 443, fragment |-> FALSE, wrapper |-> "none", text |-> text]

Q == [tracking |-> FALSE, rank |-> 1]
P == [tracking |-> FALSE, rank |-> 2]
Utm == [tracking |-> TRUE, rank |-> 3]

Docs == Link("docs", "one", "/docs", 2)
Home == Link("home", "one", "/", 1)
Wiki == [Link("wiki", "wikipedia", "/docs", 3) EXCEPT !.prefix = "en."]

Real == [title |-> TRUE, content |-> FALSE, stub |-> FALSE]
Other == [title |-> FALSE, content |-> TRUE, stub |-> FALSE]
Stub == [title |-> FALSE, content |-> FALSE, stub |-> TRUE]

Main(url) == [url |-> url, text |-> Real, priority |-> "", kind |-> "Main"]
Worded(url) == [Main(url) EXCEPT !.text = Other]
Stubbed(url) == [Main(url) EXCEPT !.text = Stub]

Lists(S) == UNION {[1..k -> S] : k \in 0..2}

Outcome(e, rs, ss) == [engine |-> e, status |-> "Completed", results |-> rs, suggestions |-> ss,
                         answers |-> <<>>, corrections |-> <<>>, infoboxes |-> <<>>, engine_data |-> <<>>]
Missing(e, why) == [Outcome(e, <<>>, <<>>) EXCEPT !.status = why]
Outcomes(e, S) == {Outcome(e, rs, <<>>) : rs \in Lists(S)} \cup {Missing(e, "Timeout")}

Orders == {<<"a", "b", "c">>, <<"c", "a", "b">>, <<"b", "c", "a">>}
OneOf(e, S) == {Outcome(e, <<x>>, <<>>) : x \in S} \cup {Missing(e, "Failed")}
ThreeOf(S) == UNION {{<<x, y, z>> : x \in Outcomes(p[1], S), y \in OneOf(p[2], S),
                                     z \in Outcomes(p[3], S)} : p \in Orders}

(* Plain lists of three engines, the heavier one first, in the middle or last. *)
Plain == ThreeOf({Main(Docs), Stubbed(Docs), Worded(Docs), Main(Home)})

(* The forms in which two engines write the addresses of the same pages. *)
Aliases ==
  {[Docs EXCEPT !.scheme = "http", !.prefix = "www."], [Docs EXCEPT !.path = "/docs/", !.params = <<Utm>>],
   [Docs EXCEPT !.wrapper = "duckduckgo"], [Docs EXCEPT !.path = "/docs/index.html", !.prefix = "m."],
   [Home EXCEPT !.path = "/de-DE"], [Home EXCEPT !.path = "/index.html", !.wrapper = "google"],
   [Wiki EXCEPT !.prefix = "en.m."], Docs, Home, Wiki,
   [Docs EXCEPT !.params = <<Q, P>>, !.page = "found"],
   [Docs EXCEPT !.params = <<P, Utm, Q>>, !.page = "found"]}
Aliased == {<<x, y>> : x \in Outcomes("a", {Main(u) : u \in Aliases}),
                       y \in OneOf("b", {Main(u) : u \in Aliases})}

Hints == {[text |-> t, capitals |-> k] : t \in 1..2, k \in BOOLEAN}
Suggesting == {<<Outcome("a", <<>>, x), Outcome("b", <<>>, y), Outcome("c", <<>>, z)>> :
                 x \in [1..2 -> Hints], y \in [1..1 -> Hints], z \in {<<>>}}

-----------------------------------------------------------------------------
(* The titles under which an entity goes: the city has two that share no word, *)
(* and one of them is within that of its namesake.                             *)
Titles == [city |-> {{"paris"}, {"lutetia"}}, person |-> {{"paris", "hilton"}}]

Item(e) == <<"item", e>>
Article(e) == <<"article", e>>

Box(e, title, id, engine, content) ==
  [id |-> id, infobox |-> title, content |-> content, engine |-> {engine}, about |-> {e},
   urls |-> {IF engine = "wikidata" THEN Item(e) ELSE Article(e)}]

Boxes ==
  UNION {{Box(e, t, Item(e), "wikidata", c) : t \in Titles[e], c \in {{}, {"known"}}}
         \cup {Box(e, t, i, "wikipedia", {}) : t \in Titles[e], i \in {Item(e), Article(e), Absent}} :
         e \in Entities}

(* The answers of Wikipedia, and one that only has the words of a title. *)
Wikipedia ==
  UNION {{[answer |-> 1, interactive |-> "wikipedia", url |-> Article(e), page |-> Article(e),
           wikidata_id |-> i, title |-> t, description |-> d, about |-> {e}] :
          t \in Titles[e], i \in {e, Absent}, d \in {{}, {"known"}}} : e \in Entities}
Weather ==
  [answer |-> 2, interactive |-> "weather", url |-> Absent, page |-> Absent, wikidata_id |-> Absent,
   title |-> {"paris"}, description |-> {}, about |-> {"city"}]

Typo == [correction |-> 1]

(* The answer and the infoboxes of a search, with a correction and a token. *)
ToldOf(told, boxes) ==
  {<<[Outcome("a", <<>>, <<>>) EXCEPT !.answers = x, !.infoboxes = b[1], !.corrections = <<Typo, Typo>>],
     [Outcome("b", <<>>, <<>>) EXCEPT !.infoboxes = b[2], !.engine_data = [nextpage |-> 1]]>> :
     x \in told, b \in boxes}

Told ==
  ToldOf({<<>>, <<Weather>>} \cup {<<w>> : w \in Wikipedia},
         Lists(Boxes) \X {<<>>, <<Box("city", {"paris"}, Absent, "wikipedia", {})>>,
                          <<Box("person", {"paris", "hilton"}, Item("person"), "wikidata", {})>>})

AllReports == Plain \cup Suggesting \cup Aliased \cup Told

\* What the proofs assume of the lists of results holds of these.
ASSUME PlainReports == \A r \in AllReports : PlainReport(r)
=============================================================================
