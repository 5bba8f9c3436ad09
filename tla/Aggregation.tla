----------------------------- MODULE Aggregation -----------------------------
(***************************************************************************)
(* From the outcomes of the engines to the list a user sees: aggregate of  *)
(* zoeken-search/src/aggregation.rs.  Outcomes come in the order of the    *)
(* registry; the results of each are merged by the canonical form of their *)
(* URL, scored, and sorted.                                                *)
(*                                                                         *)
(* A URL is the record of what its canonical form looks at; "page" is the  *)
(* page it leads to, which the code does not know.  A text is whether its  *)
(* title and its content have the term of the query, and whether it is a   *)
(* stub.  Scores are whole numbers, 12 * 100 times those of the code.      *)
(***************************************************************************)
EXTENDS KnowledgePanels, TLC, FiniteSetsExt

CONSTANTS Weight,   \* EngineWeights
          Reports,  \* what run_engines may return
          HostHits  \* sites whose name is the term of the query

(* A text, the form of an address, and what an engine may list. *)
Text == [title: BOOLEAN, content: BOOLEAN, stub: BOOLEAN]

Url == [page: STRING, site: STRING, prefix: STRING, path: STRING, scheme: STRING,
        params: Seq([tracking: BOOLEAN, rank: Nat]), port: Nat, fragment: BOOLEAN,
        wrapper: STRING, text: Nat]

Result == [url: Url \cup {Absent}, text: Text, priority: STRING, kind: STRING]

EngineRunOutcome ==
  [engine: DOMAIN Weight, status: STRING, results: Seq(Result), answers: Seq(Answer),
   suggestions: Seq([text: Nat, capitals: BOOLEAN]), corrections: Seq([correction: Nat]),
   infoboxes: Seq(Infobox), engine_data: {<<>>} \cup [nextpage: Nat]]

ASSUME ReportsAssumption ==
  /\ DOMAIN Weight \subseteq STRING /\ Weight \in [DOMAIN Weight -> Nat]
  /\ Reports \subseteq Seq(EngineRunOutcome)

VARIABLES report, query,
          next,             \* the outcome that is taken next
          merged,           \* ContainerBuilder
          suggestion_rank,
          answers, corrections, infoboxes,  \* each once
          engine_data,           \* what the engines want back with the next page
          unresponsive_engines,
          results, suggestions, done

said == <<suggestion_rank, answers, corrections, infoboxes, engine_data>>
aggregationVars ==
  <<report, query, next, merged, said, unresponsive_engines, results, suggestions, done>>

Untouched ==
  /\ next = 1 /\ merged = <<>> /\ suggestion_rank = {}
  /\ answers = <<>> /\ corrections = <<>> /\ infoboxes = <<>> /\ engine_data = <<>>
  /\ unresponsive_engines = <<>>
  /\ results = <<>> /\ suggestions = <<>> /\ done = FALSE

AggregationInit == report \in Reports /\ query \in {"empty", "term"} /\ Untouched

-----------------------------------------------------------------------------
(* The wrappers of DuckDuckGo and Google are peeled off, one layer. *)
unwrap_engine_redirect(url) ==
  IF url.wrapper \in {"duckduckgo", "google"} THEN [url EXCEPT !.wrapper = "none"] ELSE url

(* www. and m. go; Wikipedia's mobile host keeps its language. *)
canonical_host(prefix) ==
  CASE prefix \in {"www.", "m.", ""} -> "" [] prefix = "en.m." -> "en." [] OTHER -> prefix

strip_index_file(path) ==
  CASE path \in {"/docs/", "/docs/index.html"} -> "/docs" [] path = "/index.html" -> "/"
    [] OTHER -> path

is_locale_root_path(path) == path \in {"/de", "/de-DE"}

(* A stable sort. *)
Sorted(s, before(_, _)) ==
  LET ahead(i) == {j \in DOMAIN s : before(s[j], s[i]) \/ (~before(s[i], s[j]) /\ j < i)}
  IN [k \in DOMAIN s |-> s[CHOOSE i \in DOMAIN s : Cardinality(ahead(i)) = k - 1]]

(* Parameters that do not change the page go, the others are put in order. *)
strip_tracking_params(params) ==
  Sorted(SelectSeq(params, LAMBDA p : ~p.tracking), LAMBDA p, q : p.rank < q.rank)

(* Scheme, port, fragment and tracking parameters do not count. *)
canonical_merge_key(url) ==
  LET u == unwrap_engine_redirect(url)
      path == strip_index_file(u.path)
  IN [wrapper |-> u.wrapper, site |-> u.site, prefix |-> canonical_host(u.prefix),
      path |-> IF is_locale_root_path(path) THEN "/" ELSE path, params |-> strip_tracking_params(u.params)]

merge_key(result) == IF result.url = Absent THEN Absent ELSE canonical_merge_key(result.url)

(* Mutant of maybe_upgrade_content: the latest text that is no stub is shown. *)
TakesLatestText(m, result) ==
  IF result.text.stub THEN m ELSE [m EXCEPT !.result.text = result.text]

(* A stub is replaced by a text that is none. *)
maybe_upgrade_content(m, result) ==
  IF m.result.text.stub /\ ~result.text.stub THEN [m EXCEPT !.result.text = result.text] ELSE m

keep_best_position(m, i, position) ==
  [m EXCEPT !.positions[i] = IF position < @ THEN position ELSE @]

(* One contribution per engine, that of its best position. *)
record_engine_position(m, engine, position) ==
  LET i == SelectInSeq(m.engines, LAMBDA e : e = engine)
  IN IF i > 0 THEN keep_best_position(m, i, position)
     ELSE [m EXCEPT !.engines = Append(@, engine), !.positions = Append(@, position)]

push_new(ms, engine, result, position) ==
  Append(ms, [key |-> merge_key(result), result |-> result,
              engines |-> <<engine>>, positions |-> <<position>>])

(* Mutant of merge_main: addresses are compared as they were written. *)
MergeByUrl(ms, engine, result, position) ==
  LET existing == SelectInSeq(ms, LAMBDA m : m.result.url = result.url)
  IN IF existing = 0 THEN push_new(ms, engine, result, position)
     ELSE [ms EXCEPT ![existing] =
             record_engine_position(maybe_upgrade_content(@, result), engine, position)]

merge_main(ms, engine, result, position) ==
  LET key == merge_key(result)
      existing == SelectInSeq(ms, LAMBDA m : key # Absent /\ m.key = key)
  IN IF existing = 0 THEN push_new(ms, engine, result, position)
     ELSE [ms EXCEPT ![existing] =
             record_engine_position(maybe_upgrade_content(@, result), engine, position)]

(* Suggestions that differ in case are one, spelled as it came first. *)
rank_suggestion(ranks, s, engine) ==
  LET same == {r \in ranks : r.text = s.text} IN
  IF same = {}
  THEN ranks \cup {[text |-> s.text, spelled |-> s.capitals, weight |-> Weight[engine], count |-> 1]}
  ELSE (ranks \ same) \cup
       {[r EXCEPT !.weight = @ + Weight[engine], !.count = @ + 1] : r \in same}

(* Those of the items whose key, some of their fields, was not seen before. *)
AddUnseen(list, items, key) ==
  FoldLeft(LAMBDA l, x : IF \E i \in DOMAIN l : \A f \in key : l[i][f] = x[f]
                         THEN l ELSE Append(l, x),
           list, items)

(* ContainerBuilder::ingest of a completed engine; one that failed or did not *)
(* answer in time is listed.                                                  *)
ingest ==
  LET outcome == report[next]
      placed == [i \in DOMAIN outcome.results |-> <<i, outcome.results[i]>>]
  IN /\ next <= Len(report)
     /\ next' = next + 1
     /\ IF outcome.status = "Completed"
        THEN /\ merged' = FoldLeft(LAMBDA ms, p : merge_main(ms, outcome.engine, p[2], p[1]),
                                   merged, placed)
             /\ suggestion_rank' =
                  FoldLeft(LAMBDA rs, s : rank_suggestion(rs, s, outcome.engine),
                           suggestion_rank, outcome.suggestions)
             /\ answers' = AddUnseen(answers, outcome.answers, {"answer"})
             /\ corrections' = AddUnseen(corrections, outcome.corrections, {"correction"})
             /\ infoboxes' = AddUnseen(infoboxes, outcome.infoboxes, {"infobox", "id"})
             /\ engine_data' = outcome.engine_data @@ engine_data
             /\ UNCHANGED unresponsive_engines
        ELSE /\ unresponsive_engines' =
                  Append(unresponsive_engines, [engine |-> outcome.engine, cause |-> outcome.status])
             /\ UNCHANGED <<merged, said>>
     /\ UNCHANGED <<report, query, results, suggestions, done>>

-----------------------------------------------------------------------------
host_boost(url) == IF url # Absent /\ url.site \in HostHits THEN 75 ELSE 0

(* For a query of one term. *)
relevance(asked, result) ==
  IF asked = "empty" THEN 100
  ELSE 100 + (IF result.text.title THEN 50 ELSE 0) + (IF result.text.content THEN 15 ELSE 0)
           + host_boost(result.url)

(* weight / position, or weight alone for a result of high priority. *)
score_of(asked, m) ==
  IF m.result.priority = "low" THEN 0
  ELSE relevance(asked, m.result) *
       FoldLeft(LAMBDA sum, i : sum + IF m.result.priority = "high" THEN 12 * Weight[m.engines[i]]
                                      ELSE (12 * Weight[m.engines[i]]) \div m.positions[i],
                0, [i \in DOMAIN m.positions |-> i])

(* Only a Main result lists all of its engines. *)
engine_count(m) == IF m.result.kind = "Main" THEN Len(m.engines) ELSE 1
min_position(m) == Min(ToSet(m.positions))
url_of(m) == IF m.result.url = Absent THEN 0 ELSE m.result.url.text

(* Score, then consensus, then best position, then URL. *)
Before(asked, a, b) ==
  \/ score_of(asked, a) > score_of(asked, b)
  \/ /\ score_of(asked, a) = score_of(asked, b)
     /\ \/ engine_count(a) > engine_count(b)
        \/ /\ engine_count(a) = engine_count(b)
           /\ \/ min_position(a) < min_position(b)
              \/ min_position(a) = min_position(b) /\ url_of(a) < url_of(b)

sort_results(asked, s) == Sorted(s, LAMBDA a, b : Before(asked, a, b))

finish ==
  /\ next > Len(report) /\ ~done
  /\ results' = sort_results(query, merged)
  /\ suggestions' =
       Sorted(SetToSeq(suggestion_rank),
              LAMBDA a, b : \/ a.weight * a.count > b.weight * b.count
                            \/ a.weight * a.count = b.weight * b.count /\ a.text < b.text)
  /\ LET panels == coalesce_knowledge_panels(answers, infoboxes)
     IN answers' = panels.answers /\ infoboxes' = panels.infoboxes
  /\ done' = TRUE
  /\ UNCHANGED <<report, query, next, merged, suggestion_rank, corrections, engine_data,
                 unresponsive_engines>>

AggregationNext == ingest \/ finish

AggregationSpec == AggregationInit /\ [][AggregationNext]_aggregationVars

-----------------------------------------------------------------------------
(* The results that the engines of a report list. *)
CompletedIn(r) == {o \in ToSet(r) : o.status = "Completed"}
Listed(r) == UNION {ToSet(o.results) : o \in CompletedIn(r)}

Completed == CompletedIn(report)
PagesOf(o) == {o.results[i].url.page : i \in DOMAIN o.results}
Finders(page) == {o \in Completed : page \in PagesOf(o)}
Best(o, page) == Min({i \in DOMAIN o.results : o.results[i].url.page = page})
PageShown(m) == m.result.url.page

(* The keys of these results tell their pages apart, and nothing more. *)
KeyedByPage(S) ==
  /\ \A x \in S : merge_key(x) # Absent
  /\ \A x, y \in S : merge_key(x) = merge_key(y) <=> x.url.page = y.url.page

(* A page is on the list once, whatever the forms in which engines write its  *)
(* address, with exactly the engines that found it; and every engine that did *)
(* not answer is told.                                                        *)
EachPageOnce ==
  done =>
    /\ {PageShown(results[i]) : i \in DOMAIN results} = UNION {PagesOf(o) : o \in Completed}
    /\ \A i, j \in DOMAIN results : PageShown(results[i]) = PageShown(results[j]) => i = j
    /\ \A i \in DOMAIN results :
         ToSet(results[i].engines) = {o.engine : o \in Finders(PageShown(results[i]))}
    /\ {u.engine : u \in ToSet(unresponsive_engines)} = {o.engine : o \in ToSet(report) \ Completed}

(* The place in the report of what is shown of a page: the first that is no   *)
(* stub, in the order of the registry, or the first of all.                   *)
ShownAt(page) ==
  LET places == UNION {{<<j, i>> : i \in {k \in DOMAIN report[j].results : report[j].results[k].url.page = page}}
                     : j \in {k \in DOMAIN report : report[k].status = "Completed"}}
      real == {p \in places : ~report[p[1]].results[p[2]].text.stub}
      shown == IF real = {} THEN places ELSE real
  IN CHOOSE p \in shown : \A q \in shown : p[1] < q[1] \/ (p[1] = q[1] /\ p[2] <= q[2])

ShownText(page) == report[ShownAt(page)[1]].results[ShownAt(page)[2]].text

Share(o, page) == (12 * Weight[o.engine]) \div Best(o, page)

(* The rank of a page as the documentation defines it, from the set of the    *)
(* engines that found it: sum(weight / best position) and the relevance of    *)
(* what is shown of it, then consensus, then best position.                   *)
Merit(page, m) ==
  <<(IF query = "empty" THEN 100
     ELSE LET t == ShownText(page)
          IN 100 + (IF t.title THEN 50 ELSE 0) + (IF t.content THEN 15 ELSE 0) + host_boost(m.result.url))
      * FoldSet(LAMBDA o, sum : sum + Share(o, page), 0, Finders(page)),
    Cardinality(Finders(page)),
    100 - Min({Best(o, page) : o \in Finders(page)})>>

AtLeast(a, b) ==
  a[1] > b[1] \/ (a[1] = b[1] /\ (a[2] > b[2] \/ (a[2] = b[2] /\ a[3] >= b[3])))

(* The order of the list is that of the pages' merit.  Of the order of the    *)
(* engines in the registry only the choice of a page's text is left: not who  *)
(* came first with a page, in what form it wrote the address, which stubs     *)
(* stood in for its text for a while, or that an engine lists a page twice.   *)
RankedByMerit ==
  done => \A i, j \in DOMAIN results : i < j =>
    AtLeast(Merit(PageShown(results[i]), results[i]), Merit(PageShown(results[j]), results[j]))

(* The reports for which merit is defined: keys tell pages apart, and each    *)
(* engine answers once, with ordinary results.                                *)
PlainReport(r) ==
  /\ KeyedByPage(Listed(r))
  /\ \A i, j \in DOMAIN r : r[i].engine = r[j].engine => i = j
  /\ \A x \in Listed(r) : x.priority \notin {"high", "low"} /\ x.kind = "Main"

Panels == ToSet(answers) \cup ToSet(infoboxes)

(* What the engines of a report tell of entities. *)
ToldAnswers(r) == UNION {ToSet(o.answers) : o \in CompletedIn(r)}
ToldBoxes(r) == UNION {ToSet(o.infoboxes) : o \in CompletedIn(r)}

(* Every part has the id of what it is about: the infoboxes of Wikidata, which *)
(* no other engine makes, and most articles.                                   *)
Identified(A, B) ==
  /\ \A a \in A : a.interactive = "wikipedia" => a.wikidata_id # Absent
  /\ \A b \in B : qid_of(b) # Absent

(* A thing whose id every part tells has one panel, in whatever order its      *)
(* parts came, however differently they name it, and whatever else has its     *)
(* name: no infobox beside another or beside the answer with its id.           *)
OnePanelPerId ==
  done /\ Identified(ToldAnswers(report), ToldBoxes(report)) =>
    /\ \A i, j \in DOMAIN infoboxes : qid_of(infoboxes[i]) = qid_of(infoboxes[j]) => i = j
    /\ \A a \in ToSet(answers), b \in ToSet(infoboxes) :
         a.interactive = "wikipedia" => a.wikidata_id # qid_of(b)

(* What ties two parts together: for an answer and a box an id, an address or  *)
(* a topic; for two boxes an id, or their names if not both have an id, or     *)
(* their texts, since an answer may take over that of a box.                   *)
AnswerTied(a, b) ==
  a.interactive = "wikipedia" /\ (same_entity(a, b) \/ same_url(a, b) \/ same_topic(a, b))
BoxesTied(b, c) ==
  \/ qid_of(b) # Absent /\ qid_of(b) = qid_of(c)
  \/ (qid_of(b) = Absent \/ qid_of(c) = Absent) /\ topics_match(b.infobox, c.infobox)
  \/ topics_match(b.content, c.content)

Within(p, S) == p.about \subseteq S
Sided(p, S) == Within(p, S) \/ p.about \cap S = {}

(* Nothing that was told ties these entities to any other. *)
Separate(S, A, B) ==
  /\ \A p \in A \cup B : Sided(p, S)
  /\ \A a \in A, b \in B : AnswerTied(a, b) => Within(a, S) = Within(b, S)
  /\ \A b, c \in B : BoxesTied(b, c) => Within(b, S) = Within(c, S)

(* Things that nothing ties together, be it in several steps, never share a    *)
(* panel; two boxes with different ids are not tied by the words their names   *)
(* share, although panels gain ids and longer names while they are merged.     *)
PanelsTellOfTied ==
  done => \A S \in SUBSET Entities :
    Separate(S, ToldAnswers(report), ToldBoxes(report)) => \A p \in Panels : Sided(p, S)

(* "Collapse Wikipedia Answer + Wikidata Infobox (and duplicate Infobox pairs) *)
(* into one coherent knowledge panel" (aggregation.rs:741-742): when all parts *)
(* have ids, no panel tells of one thing what is true of another.              *)
FactsStayWithEntity ==
  done /\ Identified(ToldAnswers(report), ToldBoxes(report)) =>
    \A p \in Panels : Cardinality(p.about) <= 1
=============================================================================
