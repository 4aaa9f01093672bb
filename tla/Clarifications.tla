----------------------------- MODULE Clarifications -----------------------------
(***************************************************************************)
(* A question becomes a query: it is analysed once, and clarified until     *)
(* nothing is missing.                                                     *)
(*                                                                         *)
(*   application/semantic_task_service.py  analyze_task                     *)
(*   application/semantic_workflow.py      advance_slot_frame, the answers  *)
(*   application/task_service.py           submit_clarification             *)
(*                                                                         *)
(* A handler reads the catalogue, the configuration and today's date, and   *)
(* works with what it read; between the analysis and the answers the        *)
(* catalogue may be synchronised and midnight may pass.  Versions and       *)
(* concurrent handlers of one task are QueryTask's.                         *)
(***************************************************************************)
EXTENDS SlotFrames

CONSTANTS
  Inputs,       \* a question, the day it is asked and what the models return
  Catalogs,     \* what synchronisation can make of the catalogue
  FirstCatalog,
  Answers,      \* what a user may answer: a patch of slots, free text, or both
  MaxRounds,    \* bound: answers
  MaxChanges,   \* bound: synchronisations and midnights
  Calendar      \* the days for which the meaning of a time is checked

IsText(text) == text \in Seq(ToSet(text))
IsTime(time) == time \in Times \cup {NoTime}

\* A question, and all the fields of what a model returns.
ASSUME InputsAssumption ==
  \A i \in Inputs :
    /\ IsText(i.question) /\ i.day \in Date /\ IsDay(i.day)
    /\ IsTime(i.raw.time) /\ IsText(i.raw.scopeText) /\ \A t \in i.raw.phrases : IsText(t)
    /\ i.raw = [phrases |-> i.raw.phrases, time |-> i.raw.time, orgs |-> i.raw.orgs,
                ops |-> i.raw.ops, missing |-> i.raw.missing, scope |-> i.raw.scope,
                scopeText |-> i.raw.scopeText, garbled |-> i.raw.garbled]

\* An answer sets what the fields of a clarification ask for: the other slots
\* a patch may name are left out.
ASSUME AnswersAssumption ==
  \A a \in Answers : a.sets \subseteq Targets /\ IsTime(a.time) /\ IsText(a.text)

\* Metrics and organisations have codes and names: a metric's code is its own.
ASSUME CatalogsAssumption ==
  /\ FirstCatalog \in Catalogs
  /\ \A c \in Catalogs :
       /\ IsFiniteSet(c.metrics)
       /\ \A m \in c.metrics : /\ m.code \in Nat /\ \A n \in c.metrics : n.code = m.code => n = m
                               /\ \A t \in {m.name} \cup m.aliases : IsText(t)
       /\ \A o \in c.orgs : /\ o.code \in Nat
                            /\ \A t \in CatalogTerms(o) \cup ConfigAliases[o.name] : IsText(t)

ASSUME CalendarAssumption == \A x \in Calendar : x \in Date /\ IsDay(x)
ASSUME BoundsAssumption == MaxRounds \in Nat /\ MaxChanges \in Nat

VARIABLES
  input, catalog, today,
  phase,        \* "new", "waiting", "ready" or "failed"
  frame,        \* the slots of state_json
  candidates,   \* the codes of the metrics that were candidates
  asked,        \* the fields of the clarification in force
  dsl,
  last,         \* the answer given last
  chosen,       \* the organisations that the answers name (history)
  rounds, changes

vars == <<input, catalog, today, phase, frame, candidates, asked, dsl, last, chosen, rounds, changes>>

NoDsl == [metrics |-> {}, orgs |-> {}, range |-> Invalid, ops |-> {}]
NoAnswer == [sets |-> {}, metrics |-> {}, orgs |-> {}, time |-> NoTime, add |-> {}, remove |-> {},
             append |-> FALSE, text |-> <<>>]

Init ==
  /\ input \in Inputs /\ catalog = FirstCatalog /\ today = input.day
  /\ phase = "new" /\ frame = NoFrame /\ candidates = {} /\ asked = {} /\ dsl = NoDsl
  /\ last = NoAnswer /\ chosen = {} /\ rounds = 0 /\ changes = 0

-------------------------------------------------------------------------------
(* advance_slot_frame *)

Ranks(f) == f.ops \cap {"ranking", "top_n"} # {}

\* The time is read again; time and, without a ranking, organisations are required.
Completed(given, now) ==
  LET f == IF given.time = NoTime THEN given
           ELSE IF Parses(given.time, now) THEN [given EXCEPT !.badTime = FALSE]
           ELSE NoValidTime(given)
  IN [f EXCEPT !.missing = @ \cup {s \in {"time"} : f.time = NoTime}
                             \cup {s \in {"orgs"} : f.orgs = {} /\ ~Ranks(f)}]

\* to_logical_dsl, for a frame that is complete.
Dsl(f, known, now) ==
  [metrics |-> Codes(f.metrics),
   orgs |-> {o.code : o \in {x \in known.orgs : x.name \in f.orgs}},
   range |-> ParseTime(f.time, now), ops |-> f.ops]

Field(id, target, options, single, preserved) ==
  [id |-> id, target |-> target, options |-> options, single |-> single, preserved |-> preserved]

SlotsOf(names, orgs) == {Slot(o) : o \in {x \in orgs : x.name \in names}}

\* _organization_candidates
OrgThreshold == 45
SimilarOrgs(text, orgs) ==
  LET alike == {c \in {[code |-> o.code, score |-> Likeness(text, o)] : o \in orgs} :
                  c.score >= OrgThreshold}
  IN {Slot(o) : o \in {x \in orgs : x.code \in Codes(Leading(alike, 3))}}

MetricFields(f, offered) ==
  IF f.pendingMetrics # {}
  THEN {Field(p.text, "metrics", p.options, TRUE, f.metrics) : p \in f.pendingMetrics}
  ELSE LET first == Codes(Leading({[code |-> m.code, score |-> 0] : m \in offered}, 3))
       IN {Field(<<>>, "metrics", {Slot(m) : m \in {x \in offered : x.code \in first}},
                 f.texts # {}, {})}

OrgFields(f, orgs) ==
  IF f.pendingOrgs # {}
  THEN {Field(t, "orgs", SimilarOrgs(t, orgs), TRUE, SlotsOf(f.orgs, orgs)) : t \in f.pendingOrgs}
  ELSE {Field(<<>>, "orgs", {}, FALSE, SlotsOf(f.orgs, orgs))}

\* _clarification_fields
Fields(f, offered, orgs) ==
  UNION {CASE s = "metrics" -> MetricFields(f, offered)
           [] s = "orgs" -> OrgFields(f, orgs)
           [] s = "time" -> {Field(<<>>, "time", {}, FALSE, {})}
           [] OTHER -> {Field(<<>>, "unsupported", {}, FALSE, {})} : s \in f.missing}

Advance(given, codes) ==
  \E f \in {Completed(n, today) : n \in Normalised(given, catalog)} :
  LET offered == {m \in catalog.metrics : m.code \in codes}
      done == f.missing = {}
  IN /\ frame' = f
     /\ phase' = IF done THEN "ready" ELSE "waiting"
     /\ dsl' = IF done THEN Dsl(f, catalog, today) ELSE NoDsl
     /\ asked' = IF done THEN {} ELSE Fields(f, offered, catalog.orgs)

-------------------------------------------------------------------------------
(* Answers *)

Filled(f, sets, metrics, orgs, time) ==
  [f EXCEPT !.metrics = IF "metrics" \in sets THEN metrics ELSE @,
            !.orgs = IF "orgs" \in sets THEN orgs ELSE @,
            !.time = IF "time" \in sets THEN time ELSE @]

Dropped(f, sets) ==
  [f EXCEPT !.pendingMetrics = IF "metrics" \in sets THEN {} ELSE @,
            !.texts = IF "metrics" \in sets THEN {} ELSE @,
            !.pendingOrgs = IF "orgs" \in sets THEN {} ELSE @]

\* Faulty variant of Patch: what was answered is still missing.
PatchStillAsking(f, sets, metrics, orgs, time) ==
  Dropped(Filled(f, sets, metrics, orgs, time), sets)

\* Slots that are set are not missing, and what was asked about them is dropped.
Patch(f, sets, metrics, orgs, time) ==
  [Dropped(Filled(f, sets, metrics, orgs, time), sets) EXCEPT !.missing = @ \ sets]

\* Faulty variant of Patched: an answer replaces what was recognised.
PatchedOver(f, a) == Patch(f, a.sets, a.metrics, a.orgs, a.time)

\* apply_semantic_patch: the answer to one of several names joins the others.
Patched(f, a) ==
  Patch(f, a.sets,
        IF f.pendingMetrics # {} THEN f.metrics \cup a.metrics ELSE a.metrics,
        IF f.pendingOrgs # {} THEN f.orgs \cup a.orgs ELSE a.orgs,
        a.time)

WithOps(f, add, remove) ==
  [f EXCEPT !.ops = (@ \ remove) \cup add,
            !.missing = IF add # {} THEN @ \ {"ops"} ELSE @]

\* catalog_selection_mode "append"
Appended(f, original, a) ==
  [f EXCEPT !.metrics = IF "metrics" \in a.sets THEN @ \cup original.metrics ELSE @,
            !.orgs = IF "orgs" \in a.sets THEN @ \cup original.orgs ELSE @]

\* The organisations of which a text has a name.
OrgsIn(text, orgs) ==
  {o.name : o \in {x \in orgs : \E t \in CatalogTerms(x) :
                      Normal(t) # <<>> /\ Has(Normal(text), Normal(t))}}

\* semantic_patch_from_text: free text fills what is missing when it names
\* one organisation, or one metric, and no other.
FromText(text, f, known) ==
  LET named == OrgsIn(text, known.orgs)
      found == Resolve(text, known.metrics)
      metrics == {Slot(m) : m \in {x \in known.metrics : x.code \in Codes(found.matches)}}
      sets == {s \in f.missing \cap Targets :
                 CASE s = "time" -> TimeIn(text) # {}
                   [] s = "orgs" -> Cardinality(named) = 1
                   [] s = "metrics" -> Cardinality(found.matches) = 1 /\ found.doubtful = {}}
  IN Patched(f, [NoAnswer EXCEPT !.sets = sets, !.metrics = metrics, !.orgs = named,
                   !.time = IF TimeIn(text) = {} THEN NoTime ELSE CHOOSE t \in TimeIn(text) : TRUE])

\* apply_clarification_answers
Answered(f, a, known) ==
  LET patched == WithOps(Patched(f, a), a.add, a.remove)
      selected == IF a.append THEN Appended(patched, f, a) ELSE patched
  IN IF Normal(a.text) = <<>> THEN selected ELSE FromText(a.text, selected, known)

-------------------------------------------------------------------------------
(* Handlers *)

\* analyze_task
Analyze ==
  /\ phase = "new" /\ Acceptable(input.raw)
  /\ \E analysis \in Analysed(input, catalog, today) :
       Advance(analysis.frame, analysis.candidates) /\ candidates' = analysis.candidates
  /\ UNCHANGED <<input, catalog, today, last, chosen, rounds, changes>>

\* InvalidSlotFrameError
Refuse ==
  /\ phase = "new" /\ ~Acceptable(input.raw)
  /\ phase' = "failed"
  /\ UNCHANGED <<input, catalog, today, frame, candidates, asked, dsl, last, chosen, rounds, changes>>

\* submit_clarification, for a clarification of type semantic_slots
SubmitClarification(a) ==
  /\ phase = "waiting" /\ rounds < MaxRounds
  /\ Advance(Answered(frame, a, catalog), candidates)
  /\ last' = a
  /\ chosen' = chosen \cup (IF "orgs" \in a.sets THEN a.orgs ELSE {})
                     \cup OrgsIn(a.text, catalog.orgs)
  /\ rounds' = rounds + 1
  /\ UNCHANGED <<input, catalog, today, candidates, changes>>

\* While the user thinks.
Waits == phase = "waiting" /\ changes < MaxChanges /\ changes' = changes + 1
Synchronize ==
  /\ Waits
  /\ catalog' \in Catalogs \ {catalog}
  /\ UNCHANGED <<input, today, phase, frame, candidates, asked, dsl, last, chosen, rounds>>
Midnight ==
  /\ Waits
  /\ today' = Tomorrow(today)
  /\ UNCHANGED <<input, catalog, phase, frame, candidates, asked, dsl, last, chosen, rounds>>

Next ==
  \/ Analyze
  \/ Refuse
  \/ \E a \in Answers : SubmitClarification(a)
  \/ Synchronize
  \/ Midnight

Spec == Init /\ [][Next]_vars

-------------------------------------------------------------------------------
(* Correctness *)

Analysing == phase \in {"waiting", "ready"}
Official == {Slot(m) : m \in catalog.metrics}

\* A query that is executed asks for metrics and organisations of the catalogue
\* as it was last read, whatever was confirmed before the catalogue changed, and
\* for days that exist (normalize_slot_frame, to_logical_dsl).
DslIsComplete ==
  phase = "ready" =>
    /\ frame.metrics # {} /\ frame.metrics \subseteq Official
    /\ frame.orgs # {} \/ Ranks(frame)
    /\ \A n \in frame.orgs : \E o \in catalog.orgs : o.name = n /\ o.code \in dsl.orgs
    /\ \/ dsl.range.kind = "latest"
       \/ IsDay(dsl.range.start) /\ IsDay(dsl.range.end) /\ NotAfter(dsl.range.start, dsl.range.end)

Found == Resolve(input.question, catalog.metrics)
Rank(m, text) == IF Normal(m.name) = text THEN 0 ELSE 1
Having(text) == {m \in catalog.metrics : \E t \in TermsOf(m) : t.text = text}
Best(text) == {m \in Having(text) : \A n \in Having(text) : Rank(m, text) <= Rank(n, text)}

\* A name of the question that belongs to several metrics is asked for, with
\* all of them to choose from, and no query runs before.
AmbiguousMetricIsAsked ==
  (Analysing /\ rounds = 0 /\ changes = 0) =>
    \A text \in Adapted(input.raw).phrases :
      LET shared == {Slot(m) : m \in Best(Normal(text))}
      IN (/\ Cardinality(shared) > 1
          /\ Normal(text) # <<>> /\ Has(Normal(input.question), Normal(text)))
           => \E f \in asked : f.target = "metrics" /\ shared \subseteq f.options

\* The days a time expression stands for, on any day it is used, are those the
\* words mean (parse_time_expression).
TimesMeanWhatTheySay ==
  phase = "new" =>
    \A t \in ToSet(input.question) \cap Times :
      LET range == ParseTime(t, today)
      IN range.kind = "days" =>
           \A x \in Calendar : Includes(range, x) <=> Means(Meaning[t], x, today)

AllOrgs == UNION {c.orgs : c \in Catalogs}
AllNames == {o.name : o \in AllOrgs}

\* A blank of a name stands for any character: the names of metrics are blanked out
\* of a question before it is searched for organisations.
Reads(text, term) ==
  \E p \in DOMAIN text :
    /\ p + Len(term) - 1 <= Len(text)
    /\ \A j \in DOMAIN term : term[j] \in {text[p + j - 1], Blank}

\* The organisations the question names, or for which it has the words that the
\* model returns for all of them.  The model is shown placeholders for the names
\* that were found, and what stands between the brackets of one counts as words.
NamedByQuestion ==
  {o.name : o \in {x \in AllOrgs : \E t \in OrgTerms(x) : Reads(input.question, t)}}
NamedByScope ==
  {n \in AllNames : /\ input.raw.scope /\ Trimmed(input.raw.scopeText)
                    /\ \/ Has(input.question, input.raw.scopeText)
                       \/ Has(Placeholder, input.raw.scopeText)}

\* An organisation is queried only if the question names it, or has the words for
\* all of them, or the user chose it, never because the model said so; or because
\* it has got, in a catalogue read since, the name of such a one.  So it is in every
\* set that has those and, with a name, whoever the catalogues hand it to.
OrganisationsAreGrounded ==
  Analysing =>
    \A S \in SUBSET (AllNames \cup chosen) :
      (/\ chosen \cup NamedByQuestion \cup NamedByScope \subseteq S
       /\ \A n \in S : \A c \in Catalogs : StandardNames(n, c.orgs) \subseteq S)
        => frame.orgs \subseteq S

\* What it takes for all of them to be offered: a clarification has room for three,
\* and the candidates were cut before.
ChoicesFit ==
  \A i \in Inputs : \A text \in {i.question} \cup Adapted(i.raw).phrases :
    LET doubtful == Resolve(text, FirstCatalog.metrics).doubtful
    IN Cardinality(doubtful) <= 3 /\ Cardinality(doubtful) <= MaxCandidates

Answering == rounds' > rounds

\* What a field of several shows as recognised stays in the frame when it is
\* answered, unless it left the catalogue; appended choices keep everything.
PreservedIsKept ==
  [][Answering =>
       \A f \in asked : (f.id # <<>> \/ last'.append) =>
         /\ f.target = "metrics" => f.preserved \cap Official \subseteq frame'.metrics
         /\ f.target = "orgs" =>
              f.preserved \cap SlotsOf(frame.orgs, catalog.orgs)
                \subseteq SlotsOf(frame'.orgs, catalog.orgs)]_vars

\* Answering everything that is asked, with what the catalogue has, is enough:
\* the user is not asked again.
Recognised(targets, a) ==
  /\ "metrics" \in targets => a.metrics # {} /\ a.metrics \subseteq Official
  /\ "orgs" \in targets => \E n \in a.orgs : OwnersOf(n, catalog.orgs) # {}
  /\ "time" \in targets => a.time # NoTime /\ Parses(a.time, today)
StillKnown ==
  /\ frame.metrics \subseteq Official
  /\ frame.orgs \subseteq {o.name : o \in catalog.orgs}
  /\ frame.time # NoTime => Parses(frame.time, today)
CompleteAnswerResolves ==
  [][(Answering /\ StillKnown
        /\ {f.target : f \in asked} \subseteq last'.sets
        /\ Recognised(last'.sets, last') /\ last'.remove = {})
       => phase' = "ready"]_vars
=============================================================================
