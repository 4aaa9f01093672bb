------------------------------- MODULE SlotFrames -------------------------------
(***************************************************************************)
(* The slot frame of a question: what has been recognised and what is       *)
(* missing.                                                                *)
(*                                                                         *)
(*   domain/slot_frame_adapter.py      what the model returns is checked    *)
(*   domain/semantic_engine.py         SemanticEngine.analyze               *)
(*   domain/semantic_normalization.py  normalize_slot_frame, to_logical_dsl *)
(*   application/semantic_workflow.py  advance_slot_frame, the patches      *)
(*                                                                         *)
(* A text is a sequence of characters; an expression of time and the name   *)
(* of a bank that no catalogue has are one character each.  What language   *)
(* models return is an input: the extraction (raw), the scores of the       *)
(* embedding or reranker model and the metric picked for a comparison.      *)
(* Lists whose order only decides numbering or layout are sets; where the   *)
(* order of organisations decides, it is any.                               *)
(***************************************************************************)
EXTENDS MetricMatching, TimeExpressions

CONSTANTS
  Comma,           \* what separates the names of a list
  NoTime,          \* None in the slot time
  Times,           \* the expressions of time in texts, as characters
  Meaning,         \* [Times -> what parse_time_expression captures of each]
  BankWords,       \* names of banks no catalogue knows, as characters
  OperationWords,  \* texts such as "ranking" that only name an operation
  ConfigAliases,   \* [names of organisations -> organization_aliases of the configuration]
  MaxCandidates, Similar, AutoSelect, Margin  \* metric_matching of the configuration

Targets == {"metrics", "time", "orgs"}
Slots == Targets \cup {"dimensions", "ops"}
Blocking == {"task", "ops", "filters", "dimensions", "options"}

ASSUME TimesAssumption == NoTime \notin Times /\ Comma \notin {Blank, Mark}
ASSUME MeaningAssumption == \A t \in Times : Meaning[t] \in ExpressionType
ASSUME ThresholdsAssumption == MaxCandidates \in Nat \ {0} /\ Similar <= AutoSelect

Slot(m) == [code |-> m.code, name |-> m.name]
NoFrame == [metrics |-> {}, time |-> NoTime, orgs |-> {}, ops |-> {}, missing |-> {},
            pendingMetrics |-> {}, pendingOrgs |-> {}, texts |-> {}, badTime |-> FALSE]

ParseTime(time, today) == Parse(Meaning[time], today)
Parses(time, today) == ParseTime(time, today).kind # "invalid"

-------------------------------------------------------------------------------
(* Organisations in a text *)

CatalogTerms(o) == {o.name} \cup o.aliases
OrgTerms(o) == (CatalogTerms(o) \cup ConfigAliases[o.name]) \ {<<>>}

\* The places at which str.find, continued after each one, finds a term.
Scan(text, term) ==
  LET found[p \in DOMAIN text] ==
        /\ Occurs(term, text, p)
        /\ \A q \in {x \in DOMAIN text : x < p /\ p < x + Len(term)} : ~found[q]
  IN {p \in DOMAIN text : found[p]}

Span(p, term) == [start |-> p, end |-> p + Len(term)]
LongerSpan(a, b) == Length(a) > Length(b) \/ (Length(a) = Length(b) /\ a.start < b.start)

\* _protect_resolved_entities: the spans of the terms of one organisation only.
OrgSpans(text, matches, orgs) ==
  LET owned == {t \in UNION {OrgTerms(o) : o \in orgs} :
                  Cardinality({o \in orgs : t \in OrgTerms(o)}) = 1}
      spans == UNION {{Span(p, t) : p \in Scan(text, t)} : t \in owned}
      taken[s \in spans] ==
        /\ \A x \in matches : ~Overlap(x, s)
        /\ \A x \in {y \in spans : LongerSpan(y, s) /\ Overlap(y, s)} : ~taken[x]
  IN {s \in spans : taken[s]}

\* Confirmed names become placeholders, <ORG code="..."/>: two brackets and what
\* stands between them.
Brackets == {"<", ">"}
Placeholder == <<"<", "code", ">">>
Protect(text, spans) ==
  LET shown[n \in 0..Len(text)] ==
        IF n = 0 THEN <<>>
        ELSE shown[n - 1] \o (IF \E s \in spans : s.start = n THEN Placeholder
                              ELSE IF \E s \in spans : s.start < n /\ n < s.end THEN <<>>
                              ELSE <<text[n]>>)
  IN shown[Len(text)]
Protected(text, matches, orgs) == Protect(text, matches \cup OrgSpans(text, matches, orgs))

\* _outside_metric_text
Outside(text, matches) ==
  [i \in DOMAIN text |-> IF \E h \in matches : h.start <= i /\ i < h.end THEN Blank ELSE text[i]]
Without(text, terms) ==
  Outside(text, UNION {{Span(p, t) : p \in {q \in DOMAIN text : Occurs(t, text, q)}} : t \in terms})

Segments(text) ==
  {SubSeq(text, w[1], w[2]) :
     w \in {v \in (DOMAIN text) \X (DOMAIN text) :
              /\ v[1] <= v[2]
              /\ \A i \in v[1]..v[2] : text[i] # Comma
              /\ v[1] = 1 \/ text[v[1] - 1] = Comma
              /\ v[2] = Len(text) \/ text[v[2] + 1] = Comma}}

\* _extract_organization_mentions
FirstOf(text, class) ==
  IF \E i \in DOMAIN text : text[i] \in class
  THEN {text[CHOOSE i \in DOMAIN text : text[i] \in class /\ \A j \in 1..(i - 1) : text[j] \notin class]}
  ELSE {}
Mentions(text) == {<<w>> : w \in UNION {FirstOf(s, BankWords) : s \in Segments(text)}}

\* extract_time_expression
TimeIn(text) == FirstOf(text, Times)

-------------------------------------------------------------------------------
(* The phrases of a question that name metrics *)

\* _extract_requested_metric_texts: what is left of a question without times
\* and organisations.
RequestedTexts(question, terms) ==
  LET rest == Without(question, terms \cup {<<w>> : w \in Times \cup BankWords})
  IN {Normal(s) : s \in Segments(rest)} \ {<<>>}

OperationOnly(text, metrics) == Exact(text, metrics) = {} /\ Normal(text) \in OperationWords

Phrases(question, raw, metrics, terms) ==
  LET Naming(texts) == {t \in texts : ~OperationOnly(t, metrics)}
  IN IF Naming(raw.phrases) # {} THEN Naming(raw.phrases)
     ELSE Naming(RequestedTexts(question, terms))

\* The n best of a set of scored metrics.
Above(c, d) == c.score > d.score \/ (c.score = d.score /\ c.code < d.code)
Leading(scored, n) == {c \in scored : Cardinality({d \in scored : Above(d, c)}) < n}
Codes(scored) == {c.code : c \in scored}
FirstCodes(codes) == Codes(Leading({[code |-> c, score |-> 0] : c \in codes}, MaxCandidates))

\* _fuzzy_candidates and _rerank_candidates.  The lexical score is computed
\* here; those of the models are inputs, 0 for a metric that was not recalled.
Scored(phrase, metrics, input) ==
  LET rated == {[code |-> m.code, score |-> input.scores[m.code]] : m \in metrics}
  IN Leading(CASE "embedding" \notin input.roles -> Lexical(phrase, metrics)
               [] "reranker" \notin input.roles -> rated
               [] OTHER -> {c \in rated : c.score >= Similar},
             MaxCandidates)

Decision(mode, selected, candidates) ==
  [mode |-> mode, selected |-> selected, candidates |-> candidates]

Fuzzy(scored) ==
  LET best == {c \in scored : \A d \in scored \ {c} : Above(c, d) /\ c.score - d.score >= Margin}
  IN IF \E c \in best : c.score >= AutoSelect
     THEN Decision("fuzzy", Codes(best), Codes(scored))
     ELSE Decision(IF scored = {} THEN "none" ELSE "fuzzy", {}, Codes(scored))

\* Faulty variant of Decide: what is clear is taken, although something is not.
DecideEagerly(phrase, found, metrics, input) ==
  LET matched == Codes(found.matches) IN
  CASE matched # {} -> Decision("exact", matched, matched)
    [] found.doubtful # {} -> Decision("exact", FirstCodes(found.doubtful), {})
    [] OTHER -> Fuzzy(Scored(phrase, metrics, input))

\* _resolve_metrics; the phrase is empty when there is none.
Decide(phrase, found, metrics, input) ==
  LET exact == Exact(phrase, metrics)
      matched == Codes(found.matches)
  IN
  CASE found.doubtful # {} -> Decision("ambiguous", {}, FirstCodes(found.doubtful))
    [] found.doubtful = {} /\ matched # {} -> Decision("exact", matched, matched)
    [] OTHER ->
         IF phrase = <<>> \/ metrics = {} THEN Decision("none", {}, {})
         ELSE IF Cardinality(exact) = 1 THEN Decision("exact", exact, exact)
         ELSE IF exact # {} THEN Decision("ambiguous", {}, FirstCodes(exact))
         ELSE Fuzzy(Scored(phrase, metrics, input))

\* Several phrases are resolved one by one.  A phrase without a metric waits
\* for the user unless it looks like none and others were found.
ByPhrase(phrases, metrics, input) ==
  LET decision(t) == Decide(t, Resolve(t, metrics), metrics, input)
      selected == UNION {decision(t).selected : t \in phrases}
      evident(t) == Resolve(t, metrics).doubtful # {} \/ Lexical(t, metrics) # {}
      open == {t \in phrases : decision(t).selected = {} /\ (evident(t) \/ selected = {})}
      slots(codes) == {Slot(m) : m \in {x \in metrics : x.code \in codes}}
  IN [selected |-> selected,
      candidates |-> UNION {decision(t).candidates : t \in phrases},
      pending |-> {[text |-> t, options |-> slots(decision(t).candidates)] : t \in open}]

\* A comparison of two dates lets the model choose among the candidates.
Compared(decision, ops, pick, metrics) ==
  LET picked == {m \in metrics : /\ m.code = pick /\ m.code \in decision.candidates
                                 /\ \A n \in metrics : n.name = m.name => n = m}
  IN IF decision.mode = "fuzzy" /\ decision.selected = {} /\ "compare" \in ops
     THEN Codes(picked) ELSE decision.selected

MetricsOf(question, phrases, found, input, metrics) ==
  IF Cardinality(phrases) > 1 THEN ByPhrase(phrases, metrics, input)
  ELSE LET phrase == IF phrases = {} THEN <<>> ELSE CHOOSE t \in phrases : TRUE
           decision == Decide(phrase, found, metrics, input)
       IN [selected |-> Compared(decision, input.raw.ops, input.pick, metrics),
           candidates |-> decision.candidates, pending |-> {}]

-------------------------------------------------------------------------------
(* The organisations of a question *)

\* What is blanked out of the question is not what an organisation is found in.
Detected(residual, orgs) == {o.name : o \in {x \in orgs : \E t \in OrgTerms(x) : Has(residual, t)}}

\* Something is left of a text when the blanks around it are stripped, and that is
\* the text.
Trimmed(text) == text # <<>> /\ Blank \notin {text[1], text[Len(text)]}

\* A scope of all organisations counts only with its words in the question,
\* where no name hides them, and when nothing contradicts it.  A punctuation
\* mark does for words.
Grounded(question, matches, raw, missing, orgs) ==
  /\ Trimmed(raw.scopeText)
  /\ ToSet(raw.scopeText) \cap Brackets = {}
  /\ Has(Protected(question, matches, orgs), raw.scopeText)
  /\ missing \subseteq {"metrics", "time", "dimensions", "ops"}
  /\ raw.orgs = {}

Unconfirmed(frame) == [frame EXCEPT !.orgs = {}, !.missing = @ \cup {"orgs"}]

Unknown(frame, texts) ==
  [frame EXCEPT !.pendingOrgs = texts, !.missing = @ \cup {"orgs"}]

Known(frame, names) ==
  [frame EXCEPT !.orgs = names,
                !.missing = IF names = {} THEN @ ELSE @ \ {"orgs"}]

\* Faulty variant of Entities: an organisation only the model names is taken.
EntitiesOfModel(frame, question, raw, matches, orgs) ==
  Known(frame, Detected(Outside(question, matches), orgs)
                 \cup {o.name : o \in {x \in orgs : x.name \in raw.orgs}})

\* _merge_code_detected_entities: what the code finds replaces what the model
\* said; what neither finds is asked for.
Entities(frame, question, raw, matches, orgs) ==
  LET residual == Outside(question, matches)
      terms == UNION {OrgTerms(o) : o \in orgs}
      found == Detected(residual, orgs)
      heard == Mentions(Without(residual, terms))
      said == {n \in raw.orgs : Normal(n) \notin {Normal(t) : t \in terms}}
      unknown == IF heard # {} THEN heard ELSE said
  IN
  IF raw.scope
  THEN IF Grounded(question, matches, raw, frame.missing, orgs)
       THEN Known(frame, {o.name : o \in orgs}) ELSE Unconfirmed(frame)
  ELSE IF found = {} /\ unknown # {} THEN Unknown(frame, unknown) ELSE Known(frame, found)

-------------------------------------------------------------------------------
(* Normalisation, and the analysis as a whole *)

\* A term that two organisations have belongs to the one listed last.
OwnersOf(text, orgs) == {o \in orgs : \E t \in CatalogTerms(o) : Normal(t) = Normal(text)}
StandardNames(text, orgs) ==
  {o.name : o \in {x \in OwnersOf(text, orgs) : \A y \in OwnersOf(text, orgs) : y.code <= x.code}}

\* What becomes of a list of names, in any order: each gives its standard name,
\* but a known name whose standard name is in the list already stays.
Standards(names, orgs) ==
  LET known == {o.name : o \in orgs}
      owned == {n \in names : OwnersOf(n, orgs) # {}}
      orders == {rank \in [owned -> 1..Cardinality(owned)] :
                   \A m, n \in owned : rank[m] = rank[n] => m = n}
      Becomes(put, rank, n) ==
        LET before == {put[m] : m \in {x \in owned : rank[x] < rank[n]}}
        IN IF n \in known /\ before \cap StandardNames(n, orgs) # {} THEN {n}
           ELSE StandardNames(n, orgs)
  IN {{put[n] : n \in owned} :
        put \in {p \in [owned -> known] :
                   \E rank \in orders : \A n \in owned : p[n] \in Becomes(p, rank, n)}}

\* Faulty variant of Normalised: a metric is not looked up again.
NormalisedOnce(frame, catalog) ==
  {[frame EXCEPT !.missing = @ \cap Slots, !.orgs = names] :
     names \in Standards(frame.orgs, catalog.orgs)}

\* normalize_slot_frame: a metric must have the code and the name it has in
\* the catalogue; an organisation that is not known is dropped.  The set has a frame
\* for every order of the organisations.
Normalised(frame, catalog) ==
  LET official == frame.metrics \cap {Slot(m) : m \in catalog.metrics}
      doubt == official # frame.metrics \/ official = {}
  IN {[frame EXCEPT !.metrics = official,
                    !.orgs = names,
                    !.missing = (@ \cap Slots) \cup (IF doubt THEN {"metrics"} ELSE {})] :
        names \in Standards(frame.orgs, catalog.orgs)}

NoValidTime(frame) ==
  [frame EXCEPT !.time = NoTime, !.badTime = TRUE, !.missing = @ \cup {"time"}]

\* Only the model reads a time; a time it leaves out is not recovered.
Timed(frame, question, today) ==
  LET unreadable == \E t \in TimeIn(question) : ~Parses(t, today)
  IN IF frame.time # NoTime /\ Parses(frame.time, today) THEN frame
     ELSE IF frame.time # NoTime \/ unreadable THEN NoValidTime(frame) ELSE frame

\* adapt_model_slot_frame: what is garbled is dropped, unless it could change
\* what is asked.
Adapted(raw) ==
  [raw EXCEPT !.phrases = IF "phrases" \in raw.garbled THEN {} ELSE @,
              !.time = IF "time" \in raw.garbled THEN NoTime ELSE @,
              !.orgs = IF "orgs" \in raw.garbled THEN {} ELSE @,
              !.missing = IF "missing" \in raw.garbled THEN {} ELSE @]
Acceptable(raw) == raw.garbled \cap Blocking = {}

\* The frame of the metrics: what is named, what is asked for and under which
\* names.
Drafted(raw, named, metrics, unresolved) ==
  LET slots == {Slot(m) : m \in {x \in metrics : x.code \in named.selected}}
  IN [NoFrame EXCEPT
        !.metrics = slots, !.time = raw.time, !.ops = raw.ops,
        !.missing = IF named.pending = {} /\ slots # {} THEN raw.missing \ {"metrics"}
                    ELSE raw.missing \cup {"metrics"},
        !.pendingMetrics = named.pending,
        !.texts = IF named.pending # {} THEN {p.text : p \in named.pending}
                  ELSE IF slots # {} THEN {} ELSE unresolved]

\* SemanticEngine.analyze: the frames it may return, with the metrics that were
\* candidates.
Analysed(input, catalog, today) ==
  LET question == input.question
      raw == Adapted(input.raw)
      found == Resolve(question, catalog.metrics)
      terms == UNION {OrgTerms(o) : o \in catalog.orgs}
      phrases == Phrases(question, raw, catalog.metrics, terms)
      named == MetricsOf(question, phrases, found, input, catalog.metrics)
      requested == RequestedTexts(question, terms)
      draft == Drafted(raw, named, catalog.metrics,
                       IF requested # {} THEN requested ELSE phrases)
      merged == Entities(draft, question, raw, found.matches, catalog.orgs)
  IN [frame : Normalised(Timed(merged, question, today), catalog),
      candidates : {named.candidates}]
=============================================================================
