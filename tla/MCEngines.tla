----------------------------- MODULE MCEngines -----------------------------
(* Every engine, every combination of filters, twelve pages; on the first     *)
(* page of a plain search every kind of reply.  And, as parts of their own,   *)
(* the circuit of one engine, which knows of a request only how it ended, and *)
(* what is made of the results of several.                                    *)
EXTENDS EngineSearch, MCEngineCircuit, MCAggregation

QueryTexts == {"words", "empty", "long", "pair", "define", "translate", "weather", "convert"}

PlainQuery == [text |-> "words", page |-> 1, safe |-> "Off", time |-> "Any", locale |-> "all",
               nextpage |-> FALSE]

AllQueries ==
  [text: QueryTexts, page: {1}, safe: SafeSearch, time: TimeRange \cup {"Any"},
   locale: {"all", "de-DE"}, nextpage: {FALSE}]

Good == [status |-> 200, marker |-> "none", cloudflare |-> FALSE, body |-> "good",
         item |-> Fields, headers |-> {}]

(* A redirect to the upstream's captcha. *)
ToCaptcha == [Good EXCEPT !.status = 302, !.body = "garbage", !.headers = {"Location"}]

(* Good lists whose item lacks something, other bodies with and without the   *)
(* marks of a challenge, refusals of every status.                            *)
AllReplies ==
  {[Good EXCEPT !.item = i] : i \in SUBSET Fields}
  \cup {[Good EXCEPT !.body = b, !.marker = m] : b \in Bodies, m \in {"none", "interstitial"}}
  \cup {[Good EXCEPT !.status = s, !.body = b, !.marker = m, !.cloudflare = c] :
          s \in {400, 403, 404, 422, 429, 500, 503}, b \in Bodies, m \in Markers, c \in BOOLEAN}
  \cup {ToCaptcha}

RepliesTo(asked) ==
  IF asked.page = 1 /\ asked.locale = "all" /\ asked.safe = "Off" /\ asked.time = "Any"
  THEN AllReplies ELSE {Good}

VARIABLE part    \* what the behaviour is of; the others stay as they began

partVars == <<vars, circuitVars, aggregationVars, part>>

PlainRequest == engine = "wikipedia" /\ q = PlainQuery
NoReport == report = <<>> /\ query = "empty" /\ Untouched

PartInit ==
  /\ \/ part = "requests" /\ NoReport
     \/ part = "circuit" /\ PlainRequest /\ NoReport
     \/ part = "results" /\ PlainRequest /\ AggregationInit
  /\ Init /\ CircuitInit

PartNext ==
  \/ part = "requests" /\ Next /\ UNCHANGED <<circuitVars, aggregationVars, part>>
  \/ part = "circuit" /\ CircuitNext /\ UNCHANGED <<vars, aggregationVars, part>>
  \/ part = "results" /\ AggregationNext /\ UNCHANGED <<vars, circuitVars, part>>

PartSpec == PartInit /\ [][PartNext]_partVars
=============================================================================
