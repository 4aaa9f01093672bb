---------------------------- MODULE MCClarifications ----------------------------
(* Instance of Clarifications: metrics that share an alias, an alias inside a
   longer name, organisations that share a short name; questions that name them
   in every way, and models that answer well, badly or not at all. *)
EXTENDS Clarifications

Item(code, name, aliases) == [code |-> code, name |-> name, aliases |-> aliases]

Loans == Item(1, <<"dai", "gui">>, {})
Deposits == Item(2, <<"cun", "yu">>, {<<"gui">>})
Insured == Item(3, <<"bao", "yu">>, {<<"gui">>, <<"yu">>})
Profit == Item(4, <<"li", "run">>, {<<"li">>})
Renamed == [Profit EXCEPT !.name = <<"jing", "li">>]
Wu == Item(1, <<"wu", "hang">>, {<<"wu">>, <<"jian">>})
Jin == Item(2, <<"jin", "hang">>, {<<"jian">>, <<"nong", " ", "shang">>})

MCFirst == [metrics |-> {Loans, Deposits, Insured, Profit}, orgs |-> {Wu, Jin}]
\* The second organisation gets the name of the first as an alias.
Heir == [Jin EXCEPT !.aliases = {<<"jian">>, <<"wu", "hang">>}]
MCCatalogs == {MCFirst, [metrics |-> {Loans, Deposits, Renamed}, orgs |-> {Wu}],
               [MCFirst EXCEPT !.orgs = {Wu, Heir}]}
MCOperationWords == {<<"pai">>}
MCConfigAliases == [n \in {Wu.name, Jin.name} |-> IF n = Wu.name THEN {<<"wo">>} ELSE {}]

Form(name) == [form |-> name]
InMonth(y, back, m, atEnd) == [form |-> "month", year |-> y, back |-> back, month |-> m, atEnd |-> atEnd]
OnDay(y, m, d) == [form |-> "date", year |-> y, back |-> 0, month |-> m, day |-> d]
Months(y, m, ey, em) == [form |-> "months", year |-> y, month |-> m, endYear |-> ey, endMonth |-> em]
Recent(name, n) == [form |-> name, count |-> n]
InQuarter(y, q) == [form |-> "quarter", year |-> y, back |-> 0, quarter |-> q]
Iso(a, b, padded) == [form |-> "iso_range", start |-> a, end |-> b, padded |-> padded]

MCMeaning ==
  [latest |-> Form("latest"), nov |-> InMonth(2023, 0, 11, FALSE), feb |-> InMonth(0, 0, 2, FALSE),
   febEnd |-> InMonth(2024, 0, 2, TRUE), dec |-> InMonth(0, 1, 12, TRUE),
   month13 |-> InMonth(2024, 0, 13, FALSE),
   compared |-> [form |-> "month_end_compared", year |-> 2024, month |-> 2],
   now |-> Form("today"), before |-> Form("yesterday"),
   newYear |-> [form |-> "holiday", year |-> 0, back |-> 0, month |-> 1, day |-> 1],
   leap |-> OnDay(2024, 2, 29), noLeap |-> OnDay(2023, 2, 29), leapDay |-> OnDay(0, 2, 29),
   thisMonth |-> Form("this_month"), lastMonth |-> Form("last_month"),
   thisQuarter |-> Form("this_quarter"), lastQuarter |-> Form("last_quarter"),
   q1 |-> InQuarter(0, 1), q4 |-> InQuarter(2023, 4), thisYear |-> Form("this_year"),
   lastYear |-> [form |-> "years_ago", back |-> 1],
   iso |-> Iso(Day(2023, 12, 30), Day(2024, 1, 2), TRUE),
   isoBack |-> Iso(Day(2024, 1, 2), Day(2023, 12, 30), TRUE),
   winter |-> Months(2023, 11, 2024, 2), winterBack |-> Months(2023, 11, 0, 2),
   days1 |-> Recent("recent_days", 1), days60 |-> Recent("recent_days", 60),
   days0 |-> Recent("recent_days", 0), months1 |-> Recent("recent_months", 1),
   months3 |-> Recent("recent_months", 3), months12 |-> Recent("recent_months", 12),
   someday |-> Form("natural_holiday")]
MCTimes == DOMAIN MCMeaning

MCCalendar == {x \in [y : 2023..2024, m : 1..12, d : 1..31] : IsDay(x)}
LeapDay == Day(2024, 2, 29)
EdgeDays == {Day(2024, 1, 1), Day(2024, 1, 31), LeapDay, Day(2024, 3, 31), Day(2023, 12, 31),
             Day(2024, 4, 1)}

\* What a model that does well returns for a question, and everything else.
Raw(phrases, time) ==
  [phrases |-> phrases, time |-> time, orgs |-> {}, ops |-> {}, missing |-> {}, scope |-> FALSE,
   scopeText |-> <<>>, garbled |-> {}]
Ask(org, time, metric, day) ==
  [question |-> org \o <<time>> \o metric, day |-> day, roles |-> {},
   scores |-> [c \in 1..4 |-> 0], pick |-> 0, raw |-> Raw({Normal(s) : s \in Segments(metric)}, time)]
Asked(org, metric) == Ask(org, "nov", metric, LeapDay)

OrgParts == {<<>>, <<"wu", "hang">>, <<"wo">>, <<"jian">>, <<"x">>, <<"wu", ",", "jin", "hang">>,
             <<"wu", ",", "wu">>, <<"nong", "li", "shang">>}
MetricParts == {<<"li", "run">>, <<"dai", " ", "gui">>, <<"gui">>, <<"cun", "yu">>, <<"yu">>,
                <<"pai">>, <<"cun", "kuan">>, <<"li", ",", "gui">>, <<"gui", ",", "cun">>,
                <<"bao", "yu", ",", "li">>}
ByNames == {Asked(o, m) : o \in OrgParts, m \in MetricParts}

\* The model's own words are used, or it returns none.
Rephrased == UNION {{[i EXCEPT !.raw.phrases = {}], [i EXCEPT !.raw.phrases = {<<"pai">>, <<"yu">>}],
                     [i EXCEPT !.raw.phrases = {<<"li">>, <<"xi">>}]} :
                      i \in {Asked(<<"wu">>, m) : m \in MetricParts}}

Base == Asked(<<"wu">>, <<"li">>)
Nameless == Asked(<<>>, <<"li">>)
All == Asked(<<"all">>, <<"li">>)
Scoped(i, text) == [i EXCEPT !.raw.scope = TRUE, !.raw.scopeText = text]
Pointed == Asked(<<":", " ">>, <<"li">>)
Misheard ==
  {[Nameless EXCEPT !.raw.orgs = {<<"jin", "hang">>}], [Nameless EXCEPT !.raw.orgs = {<<"y">>, <<"z">>}],
   [Base EXCEPT !.raw.orgs = {<<"jin", "hang">>}], [Base EXCEPT !.raw.missing = {"filters"}],
   [Base EXCEPT !.raw.missing = {"dimensions"}], [Nameless EXCEPT !.raw.ops = {"ranking"}],
   [Base EXCEPT !.raw.time = "month13"], [Base EXCEPT !.raw.time = NoTime],
   [Base EXCEPT !.raw.garbled = {"ops"}], [Base EXCEPT !.raw.garbled = {"time", "orgs"}],
   [Base EXCEPT !.raw.missing = {"ops"}],
   Scoped(All, <<"all">>), Scoped(All, <<"each">>), Scoped(Nameless, <<>>), Scoped(Base, <<"wu">>),
   Scoped(Base, <<"code">>), Scoped(Base, <<"<", "code">>),
   Scoped(Pointed, <<":">>), Scoped(Pointed, <<" ">>), Scoped(Pointed, <<":", " ">>),
   [Scoped(All, <<"all">>) EXCEPT !.raw.missing = {"orgs"}],
   [Scoped(All, <<"all">>) EXCEPT !.raw.orgs = {<<"jin", "hang">>}],
   [Asked(<<"wu">>, <<"xi">>) EXCEPT !.question = <<"wu", "leap", "noLeap">>, !.raw.time = NoTime],
   [Asked(<<"wu">>, <<"li">>) EXCEPT !.question = <<"wu", "noLeap", "li">>, !.raw.time = NoTime]}

\* Names that are not in the catalogue, and how alike the models find them.
Alike == {[c \in 1..4 |-> 0], [c \in 1..4 |-> IF c = 4 THEN 90 ELSE 60],
          [c \in 1..4 |-> IF c = 4 THEN 90 ELSE 80]}
Guessed == {[Asked(<<"wu">>, <<"cun", "kuan">>) EXCEPT !.roles = r, !.scores = s, !.pick = p, !.raw.ops = o] :
              r \in {{"embedding"}, {"embedding", "reranker"}}, s \in Alike, p \in {0, 2},
              o \in {{}, {"compare"}}}

ByTime == {Ask(<<"wu">>, t, <<"li">>, d) : t \in MCTimes, d \in EdgeDays}

MCInputs == ByNames \cup Rephrased \cup Misheard \cup Guessed \cup ByTime

Choose(sets, metrics, orgs, time) ==
  [NoAnswer EXCEPT !.sets = sets, !.metrics = metrics, !.orgs = orgs, !.time = time]
Say(text) == [NoAnswer EXCEPT !.text = text]
P == Slot(Profit)
D == Slot(Deposits)
G == Slot(Insured)
MCAnswers ==
  {Choose({"metrics"}, m, {}, NoTime) : m \in {{D}, {G}, {D, P}}}
  \cup {[Choose({"metrics"}, {D}, {}, NoTime) EXCEPT !.append = TRUE]}
  \cup {Choose({"orgs"}, {}, o, NoTime) : o \in {{<<"wu", "hang">>}, {<<"jin", "hang">>},
                                                 {<<"wu", "hang">>, <<"jin", "hang">>}}}
  \cup {Choose({"time"}, {}, {}, t) : t \in {"thisMonth", "noLeap"}}
  \cup {Choose({"metrics", "orgs"}, {D}, {<<"wu", "hang">>}, NoTime),
        Choose(Targets, {D, G}, {<<"wu">>}, "latest"),
        [NoAnswer EXCEPT !.add = {"ranking"}]}
  \cup {Say(<<"li">>), Say(<<"jin", "hang">>), Say(<<"cun", "yu", ",", "leap">>),
        Say(<<"li", ",", "dai", "gui">>)}
  \cup {[Choose({"metrics"}, {D}, {}, NoTime) EXCEPT !.text = <<"jian">>]}

ASSUME ChoicesAssumption == ChoicesFit
=============================================================================
