--------------------------- MODULE KnowledgePanels ---------------------------
(***************************************************************************)
(* The knowledge panels of a result page: coalesce_knowledge_panels of     *)
(* zoeken-search/src/aggregation.rs, which folds the infoboxes of a search *)
(* into its Wikipedia answers and into each other.                         *)
(*                                                                         *)
(* A text is the set of its words, so that one text contains another if    *)
(* its set does.  An address is that of an item of Wikidata or of an       *)
(* article.  Of what a panel shows, its abstract, image, attributes and    *)
(* topics, only the entities they are about ("about") are kept, which the  *)
(* code does not know.                                                     *)
(***************************************************************************)
EXTENDS Naturals, Sequences, FiniteSets, SequencesExt

CONSTANTS Entities, Words,
          Absent

Texts == SUBSET Words
Addresses == {"item", "article"} \X Entities

Answer == [answer: Nat, interactive: STRING, url: Addresses \cup {Absent},
           page: Addresses \cup {Absent}, wikidata_id: Entities \cup {Absent},
           title: Texts, description: Texts, about: SUBSET Entities]

Infobox == [id: Addresses \cup {Absent}, infobox: Texts, content: Texts, urls: SUBSET Addresses,
            engine: SUBSET {"wikipedia", "wikidata", "other"}, about: SUBSET Entities]

topics_match(a, b) == a # {} /\ b # {} /\ (a \subseteq b \/ b \subseteq a)

is_knowledge_engine(engine) == engine \cap {"wikipedia", "wikidata"} # {}

(* Only the address of an item tells an entity. *)
qid_from_url(id) == IF id # Absent /\ id[1] = "item" THEN id[2] ELSE Absent

qid_of(box) == qid_from_url(box.id)

same_entity(answer, box) == answer.wikidata_id # Absent /\ answer.wikidata_id = qid_of(box)

same_url(answer, box) ==
  \/ answer.url # Absent /\ answer.url = box.id
  \/ answer.page # Absent /\ answer.page \in box.urls

same_topic(answer, box) ==
  \/ topics_match(answer.title, box.infobox)
  \/ answer.description # {} /\ topics_match(answer.description, box.content)

(* Mutant of Absorbs: only addresses and topics count. *)
AbsorbsByTopic(answer, box) ==
  /\ answer.interactive = "wikipedia"
  /\ same_url(answer, box) \/ (same_topic(answer, box) /\ is_knowledge_engine(box.engine))

(* The answer that takes in box: one of Wikipedia, if it is about the same. *)
Absorbs(answer, box) ==
  /\ answer.interactive = "wikipedia"
  /\ \/ same_entity(answer, box)
     \/ same_url(answer, box)
     \/ same_topic(answer, box) /\ is_knowledge_engine(box.engine)

absorb_infobox_into_wikipedia_answer(answer, box) ==
  [answer EXCEPT
     !.wikidata_id = IF @ = Absent THEN qid_of(box) ELSE @,
     !.description = IF @ = {} /\ box.engine = {"wikidata"} THEN box.content ELSE @,
     !.about = @ \cup box.about]

(* Mutant of infoboxes_related: two ids that differ do not keep panels apart. *)
RelatedByTitle(a, b) ==
  \/ qid_of(a) # Absent /\ qid_of(a) = qid_of(b)
  \/ /\ is_knowledge_engine(a.engine) /\ is_knowledge_engine(b.engine)
     /\ topics_match(a.infobox, b.infobox)

infoboxes_related(a, b) ==
  IF qid_of(a) # Absent /\ qid_of(b) # Absent THEN qid_of(a) = qid_of(b)
  ELSE /\ is_knowledge_engine(a.engine) /\ is_knowledge_engine(b.engine)
       /\ topics_match(a.infobox, b.infobox)

Longer(a, b) == IF Cardinality(a) < Cardinality(b) THEN b ELSE a

merge_infobox(into, from) ==
  [into EXCEPT
     !.content = Longer(@, from.content),
     !.id = IF qid_from_url(@) = Absent /\ qid_of(from) # Absent THEN from.id ELSE @,
     !.infobox = Longer(@, from.infobox),
     !.urls = @ \cup from.urls,
     !.engine = @ \cup from.engine,
     !.about = @ \cup from.about]

(* The first panel that is related takes the box. *)
MergeOrPush(merged, box) ==
  LET i == SelectInSeq(merged, LAMBDA other : infoboxes_related(other, box))
  IN IF i > 0 THEN [merged EXCEPT ![i] = merge_infobox(@, box)] ELSE Append(merged, box)

merge_related_infoboxes(boxes) ==
  FoldLeft(LAMBDA merged, box : MergeOrPush(merged, box), <<>>, boxes)

(* The first answer that fits takes the infobox. *)
AbsorbOrKeep(panels, box) ==
  LET i == SelectInSeq(panels.answers, LAMBDA a : Absorbs(a, box))
  IN IF i > 0
     THEN [panels EXCEPT !.answers[i] = absorb_infobox_into_wikipedia_answer(@, box)]
     ELSE [panels EXCEPT !.keep = Append(@, box)]

(* The infoboxes that no answer takes are merged. *)
coalesce_knowledge_panels(answers, infoboxes) ==
  LET panels == FoldLeft(LAMBDA kept, box : AbsorbOrKeep(kept, box),
                         [answers |-> answers, keep |-> <<>>], infoboxes)
  IN [answers |-> panels.answers, infoboxes |-> merge_related_infoboxes(panels.keep)]
=============================================================================
