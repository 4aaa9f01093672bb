---------------------------- MODULE CatalogueProofs ----------------------------
(***************************************************************************)
(* The catalogue, for every set of workers, metrics and organisations,      *)
(* every sequence of loads of the lake and every clock: a synchronisation   *)
(* brings names and keeps what administrators entered, and readers are      *)
(* served what was added.                                                   *)
(*                                                                         *)
(*  1. Partial functions, greatest numbers and the loops of the             *)
(*     synchronisation: what _select_latest and _build_metric_catalog have   *)
(*     after n rows, and therefore at the end.                              *)
(*  2. How a step looks to the rows and to the sessions (StepLemma): this is *)
(*     where the operations are read.                                       *)
(*  3. Types and stamps: no row is newer than the clock, or was committed    *)
(*     later than now.                                                      *)
(*  4. AdditionsAreServed: what a reader saw of a row that was not committed *)
(*     since is still right.                                                *)
(*  5. SyncKeepsManualWork: rows that are flushed are locked, so what was    *)
(*     computed from them holds until the commit.                           *)
(***************************************************************************)
EXTENDS Catalogue, FiniteSetTheorems, NaturalsInduction, SequenceTheorems, TLAPS

PartOf(codes, rows) == UNION {[some -> rows] : some \in SUBSET codes}

Summary == [metrics : SUBSET Metrics, errors : Nat, orgs : SUBSET Orgs]

AskingForOrgs == [pc : {"organizations"}, scope : Scopes, summary : Summary]
AskingForCleanUp == [pc : {"clean up"}, summary : Summary]

Continuation == {Idle} \cup AskingForOrgs \cup AskingForCleanUp

Source == [configs : 0 .. Len(Lakes), facts : 0 .. Len(Lakes), orgs : 0 .. Len(Lakes)]

Added == [code : Metrics, synonym : Synonyms]

SessionType ==
  [pc : {"save"}, by : {"admin", "sync"}, source : Source,
   metrics : PartOf(Metrics, RowType), orgs : PartOf(Orgs, RowType),
   seenMetrics : PartOf(Metrics, Stored), seenOrgs : PartOf(Orgs, Stored),
   cleared : SUBSET Metrics, added : SUBSET Added, next : Continuation]

CleaningType ==
  [pc : {"cleaning"}, by : {"clean up"}, summary : Summary, metrics : SUBSET Metrics,
   synonyms : SUBSET SynonymType, orgs : SUBSET Orgs, users : SUBSET Users, next : {Idle}]

ChangeType ==
  [metrics : PartOf(Metrics, Stored), orgs : PartOf(Orgs, Stored), cleared : SUBSET Metrics,
   dropped : SUBSET SynonymType, added : SUBSET Added, moved : PartOf(Users, Orgs)]

FlushedType ==
  [pc : {"flushed"}, change : ChangeType, for : SessionType \cup CleaningType, second : Nat]

FactsType == [pc : {"facts"}, scope : Scopes, load : 1 .. Len(Lakes)]

ViewType == [terms : [Metrics -> Stored], synonyms : SUBSET SynonymType, at : Nat]

FillType == [pc : {"fill"}, view : ViewType, missed : BOOLEAN]

WorkType ==
  Continuation \cup FactsType \cup SessionType \cup CleaningType \cup FlushedType \cup FillType

Item == [name : Seq(Words), manual : Entries, aliases : SUBSET Synonyms]

CacheType ==
  [key : {<<>>} \cup (Int \X Int), value : PartOf(Metrics, Item), at : Nat]

\* What the variables hold.
TypeOK ==
  /\ metric_terms \in [Metrics -> Stored] /\ org_terms \in [Orgs -> Stored]
  /\ metric_synonyms \subseteq SynonymType
  /\ app_users \in [Users -> Orgs]
  /\ lake \in 1 .. Len(Lakes)
  /\ cache \in CacheType
  /\ work \in [Workers -> WorkType]
  /\ clock \in Nat /\ commits \in Nat

\* No row is younger than the clock.
Aged(table) == \A c \in DOMAIN table : Exists(table[c]) => table[c].updated_at <= clock

Numbers(table) == \A c \in DOMAIN table : Exists(table[c]) => table[c].commit <= commits

Stamped ==
  /\ Aged(metric_terms) /\ Numbers(metric_terms)
  /\ \A s \in metric_synonyms : s.updated_at <= clock /\ s.commit <= commits
  /\ \A w \in Workers :
       /\ work[w].pc = "flushed" =>
            Aged(work[w].change.metrics) /\ work[w].second <= clock
       /\ work[w].pc = "fill" =>
            /\ Aged(work[w].view.terms)
            /\ \A s \in work[w].view.synonyms : s.updated_at <= clock

\* Of what is there, a snapshot has what was committed when it was taken.
UpToDate(view) ==
  /\ view.at <= commits
  /\ \A c \in Metrics :
       Exists(metric_terms[c]) /\ metric_terms[c].commit <= view.at =>
         view.terms[c] = metric_terms[c]
  /\ \A s \in metric_synonyms : s.commit <= view.at => s \in view.synonyms

Views == \A w \in Workers : work[w].pc = "fill" => UpToDate(work[w].view)

Serves(c) ==
  /\ c \in DOMAIN cache.value
  /\ cache.value[c].name = metric_terms[c].name /\ cache.value[c].manual = metric_terms[c].manual
  /\ \A s \in metric_synonyms :
       s.code = c /\ s.commit <= cache.at => s.synonym \in cache.value[c].aliases

Cached ==
  cache.key # <<>> =>
    /\ cache.at <= commits
    /\ \A c \in Metrics :
         metric_terms[c].enabled /\ metric_terms[c].commit <= cache.at => Serves(c)

\* The rows the synchronisation wants are those it read, with a name of the lake.
Named(seen, wanted, names) ==
  /\ wanted.name \in names
  /\ wanted = IF Exists(seen) THEN [seen EXCEPT !.name = wanted.name, !.enabled = TRUE]
              ELSE Row(wanted.name, Blank, TRUE)

OrgNamesOf(source, o) == {r.name : r \in InForce(Lakes[source.orgs].orgs, o)} \ {<<>>}

Synchronises(session) ==
  /\ session.cleared = {} /\ session.added = {}
  /\ DOMAIN session.seenMetrics = DOMAIN session.metrics
  /\ DOMAIN session.seenOrgs = DOMAIN session.orgs
  /\ \A c \in DOMAIN session.metrics :
       Named(session.seenMetrics[c], session.metrics[c], LakeNames(session.source, c))
  /\ \A o \in DOMAIN session.orgs :
       Named(session.seenOrgs[o], session.orgs[o], OrgNamesOf(session.source, o))

\* What is flushed is what the rows still are, and what is asked for.
Computed(table, rows, seen, wanted, second) ==
  /\ DOMAIN rows = {c \in DOMAIN wanted : Differs(seen[c], wanted[c])}
  /\ \A c \in DOMAIN rows :
       /\ Exists(table[c]) <=> Exists(seen[c])
       /\ rows[c] = [Flushed(table[c], seen[c], wanted[c]) EXCEPT !.updated_at = second]

FlushedSync(change, session, second) ==
  /\ change.cleared = {} /\ change.dropped = {} /\ change.added = {}
  /\ DOMAIN change.moved = {}
  /\ Computed(metric_terms, change.metrics, session.seenMetrics, session.metrics, second)
  /\ Computed(org_terms, change.orgs, session.seenOrgs, session.orgs, second)

SyncInv ==
  \A w \in Workers :
    /\ work[w].pc = "save" /\ work[w].by = "sync" => Synchronises(work[w])
    /\ work[w].pc = "flushed" /\ work[w].for.by = "sync" =>
         /\ Synchronises(work[w].for)
         /\ FlushedSync(work[w].change, work[w].for, work[w].second)

\* No row is locked twice.
Exclusive == \A v, w \in Workers : v # w => LocksOf(v) \cap LocksOf(w) = {}

\* The inductive invariant of the catalogue.
CatalogueInv == TypeOK /\ Stamped /\ Views /\ Cached /\ SyncInv /\ Exclusive


-------------------------------------------------------------------------------
(* Part 1: partial functions, greatest numbers, loops *)

LEMMA PartIs ==
  ASSUME NEW codes, NEW rows, NEW f
  PROVE  f \in PartOf(codes, rows) <=> DOMAIN f \subseteq codes /\ f \in [DOMAIN f -> rows]
  BY DEF PartOf

LEMMA NoPart ==
  ASSUME NEW codes, NEW rows
  PROVE  <<>> \in PartOf(codes, rows) /\ DOMAIN <<>> = {}
  <1>1. DOMAIN <<>> = {}
    OBVIOUS
  <1>2. <<>> \in [{} -> rows]
    OBVIOUS
  <1>3. QED
    BY <1>1, <1>2, PartIs

LEMMA OnlyPart ==
  ASSUME NEW codes, NEW rows, NEW c \in codes, NEW row \in rows
  PROVE  Only(c, row) \in PartOf(codes, rows) /\ DOMAIN Only(c, row) = {c} /\ Only(c, row)[c] = row
  BY PartIs DEF Only

LEMMA LeastNumber ==
  ASSUME NEW S \in SUBSET Nat, S # {}
  PROVE  \E n \in S : \A m \in S : n <= m
  <1>1. PICK n \in S : \A m \in S : ~(<<m, n>> \in OpToRel(<, Nat))
    BY NatLessThanWellFounded, WFMin
  <1>2. \A m \in S : ~(m < n)
    BY <1>1 DEF OpToRel
  <1>3. QED
    BY <1>2

LEMMA MaxIs ==
  ASSUME NEW S \in SUBSET Nat, S # {}, NEW b \in Nat, \A n \in S : n <= b
  PROVE  Max(S) \in S /\ \A m \in S : m <= Max(S)
  <1> DEFINE below == {b - n : n \in S}
  <1>1. below \in SUBSET Nat /\ below # {}
    <2>1. \A n \in S : b - n \in Nat
      OBVIOUS
    <2>2. QED
      BY <2>1
  <1>2. PICK k \in below : \A m \in below : k <= m
    BY <1>1, LeastNumber
  <1>3. PICK x \in S : k = b - x
    BY <1>2
  <1>4. \A y \in S : x >= y
    BY <1>2, <1>3
  <1>5. QED
    BY <1>4 DEF Max

\* Induction over the steps of a loop, as a set of numbers.
LEMMA ThroughTheLoop ==
  ASSUME NEW k \in Nat, NEW P, 0 \in P, \A n \in 1 .. k : n - 1 \in P => n \in P
  PROVE  \A n \in 0 .. k : n \in P
  <1> DEFINE missing == {n \in 0 .. k : n \notin P}
  <1> SUFFICES ASSUME missing # {}
               PROVE  FALSE
    OBVIOUS
  <1>0. missing \in SUBSET Nat
    OBVIOUS
  <1>1. PICK n \in missing : \A m \in missing : n <= m
    <2> HIDE DEF missing
    <2>1. QED
      BY <1>0, LeastNumber
  <1>2. n \in 1 .. k /\ n - 1 \in 0 .. k
    BY <1>1
  <1>3. QED
    BY <1>1, <1>2

\* The loop of _select_latest, one row at a time.
LEMMA LatestLoop ==
  ASSUME NEW codes, NEW rows \in Seq(Configured(codes))
  PROVE  \E after :
           /\ after[0] = <<>>
           /\ \A n \in 1 .. Len(rows) : after[n] = SelectRow(after[n - 1], rows[n])
           /\ Latest(rows) = after[Len(rows)]
  <1> DEFINE first == <<>>
             Runs(g, n) ==
               g = [m \in 0 .. n |-> IF m = 0 THEN first ELSE SelectRow(g[m - 1], rows[m])]
             P == {n \in Nat : \E g : Runs(g, n)}
  <1>0. Len(rows) \in Nat
    BY LenProperties
  <1>1. 0 \in P
    <2>1. Runs([m \in 0 .. 0 |-> first], 0)
      OBVIOUS
    <2>2. QED
      BY <2>1
  <1>2. ASSUME NEW n \in 1 .. Len(rows), n - 1 \in P
        PROVE  n \in P
    <2>1. PICK g : Runs(g, n - 1)
      BY <1>2
    <2> DEFINE h == [m \in 0 .. n |-> IF m = n THEN SelectRow(g[n - 1], rows[n]) ELSE g[m]]
    <2>2. \A m \in 0 .. n : h[m] = IF m = 0 THEN first ELSE SelectRow(h[m - 1], rows[m])
      <3> SUFFICES ASSUME NEW m \in 0 .. n
                   PROVE  h[m] = IF m = 0 THEN first ELSE SelectRow(h[m - 1], rows[m])
        OBVIOUS
      <3>1. CASE m = n
        <4>1. h[m - 1] = g[n - 1] /\ m # 0
          BY <3>1
        <4>2. QED
          BY <3>1, <4>1
      <3>2. CASE m # n
        <4>1. m \in 0 .. n - 1
          BY <3>2
        <4>2. h[m] = g[m] /\ (m # 0 => h[m - 1] = g[m - 1])
          BY <3>2
        <4>3. g[m] = IF m = 0 THEN first ELSE SelectRow(g[m - 1], rows[m])
          BY <2>1, <4>1
        <4>4. QED
          BY <4>2, <4>3
      <3>3. QED
        BY <3>1, <3>2
    <2>3. Runs(h, n)
      BY <2>2
    <2> HIDE DEF h
    <2>4. QED
      BY <2>3
  <1> HIDE DEF P
  <1>3. \E g : Runs(g, Len(rows))
    <2>1. \A n \in 1 .. Len(rows) : n - 1 \in P => n \in P
      BY <1>2
    <2>2. \A n \in 0 .. Len(rows) : n \in P
      BY <1>0, <1>1, <2>1, ThroughTheLoop
    <2>3. Len(rows) \in P
      BY <1>0, <2>2
    <2>4. QED
      BY <2>3 DEF P
  <1> DEFINE after == CHOOSE g : Runs(g, Len(rows))
  <1>4. Runs(after, Len(rows))
    BY <1>3
  <1>5. Latest(rows) = after[Len(rows)]
    BY DEF Latest
  <1> HIDE DEF after
  <1>6. after[0] = first /\ \A n \in 1 .. Len(rows) : after[n] = SelectRow(after[n - 1], rows[n])
    BY <1>0, <1>4
  <1>7. QED
    BY <1>5, <1>6


\* What is selected of the first n rows: of each code that has one in force, one
\* that none of them outranks.
Selected(rows, selected, n) ==
  /\ \A c \in DOMAIN selected :
       \E i \in 1 .. n : selected[c] = rows[i] /\ rows[i].code = c /\ rows[i].effective <= Today
  /\ \A i \in 1 .. n :
       rows[i].effective <= Today =>
         rows[i].code \in DOMAIN selected /\ rows[i].rank <= selected[rows[i].code].rank

LEMMA SelectRowKeeps ==
  ASSUME NEW codes, NEW rows \in Seq(Configured(codes)), NEW n \in 1 .. Len(rows), NEW selected,
         Selected(rows, selected, n - 1)
  PROVE  Selected(rows, SelectRow(selected, rows[n]), n)
  <1> DEFINE row == rows[n]
             next == SelectRow(selected, row)
  <1>0. Len(rows) \in Nat /\ \A i \in 1 .. Len(rows) : rows[i] \in Configured(codes)
    BY LenProperties, ElementOfSeq
  <1>1. \A i \in 1 .. n :
          rows[i].rank \in Int /\ rows[i].effective \in Int /\ rows[i].code \in codes
    <2>1. \A i \in 1 .. n : i \in 1 .. Len(rows)
      BY <1>0
    <2>2. QED
      BY <1>0, <2>1 DEF Configured
  <1>2. \A i \in 1 .. n : i \in 1 .. n - 1 \/ i = n
    OBVIOUS
  <1>3. CASE row.effective > Today
    BY <1>1, <1>2, <1>3, BoundsAssumption DEF Selected, SelectRow
  <1>4. CASE row.code \in DOMAIN selected /\ row.rank <= selected[row.code].rank
    BY <1>1, <1>2, <1>4 DEF Selected, SelectRow
  <1>5. CASE /\ ~(row.effective > Today)
             /\ ~(row.code \in DOMAIN selected /\ row.rank <= selected[row.code].rank)
    <2>1. next = With(selected, row.code, row)
      BY <1>5 DEF SelectRow
    <2>2. /\ DOMAIN next = DOMAIN selected \cup {row.code} /\ next[row.code] = row
          /\ \A c \in DOMAIN selected \ {row.code} : next[c] = selected[c]
      BY <2>1 DEF With
    <2>3. row.effective <= Today
      BY <1>1, <1>5, BoundsAssumption
    <2>4. \A c \in DOMAIN next :
            \E i \in 1 .. n : next[c] = rows[i] /\ rows[i].code = c /\ rows[i].effective <= Today
      BY <1>1, <2>2, <2>3 DEF Selected
    <2>5. ASSUME NEW i \in 1 .. n, rows[i].effective <= Today
          PROVE  rows[i].code \in DOMAIN next /\ rows[i].rank <= next[rows[i].code].rank
      <3>1. CASE i = n
        BY <1>1, <2>2, <3>1
      <3>2. CASE i # n
        <4>1. rows[i].code \in DOMAIN selected /\ rows[i].rank <= selected[rows[i].code].rank
          BY <2>5, <3>2 DEF Selected
        <4>2. CASE rows[i].code = row.code
          <5>1. \E j \in 1 .. n - 1 : selected[row.code] = rows[j]
            BY <4>1, <4>2 DEF Selected
          <5>2. selected[row.code].rank \in Int
            BY <1>1, <5>1
          <5>3. row.rank > selected[row.code].rank
            BY <1>1, <1>5, <4>1, <4>2, <5>2
          <5>4. QED
            BY <1>1, <2>2, <4>1, <4>2, <5>2, <5>3
        <4>3. CASE rows[i].code # row.code
          BY <2>2, <4>1, <4>3
        <4>4. QED
          BY <4>2, <4>3
      <3>3. QED
        BY <3>1, <3>2
    <2>6. QED
      BY <2>4, <2>5 DEF Selected
  <1>6. QED
    BY <1>3, <1>4, <1>5

LEMMA LatestIsInForce ==
  ASSUME NEW codes, NEW rows \in Seq(Configured(codes))
  PROVE  /\ DOMAIN Latest(rows) \subseteq codes
         /\ \A c \in DOMAIN Latest(rows) :
              Latest(rows)[c] \in InForce(rows, c) /\ Latest(rows)[c] \in Configured(codes)
  <1>1. PICK after :
          /\ after[0] = <<>>
          /\ \A n \in 1 .. Len(rows) : after[n] = SelectRow(after[n - 1], rows[n])
          /\ Latest(rows) = after[Len(rows)]
    BY LatestLoop
  <1> DEFINE P == {n \in Nat : Selected(rows, after[n], n)}
  <1>2. Len(rows) \in Nat /\ DOMAIN rows = 1 .. Len(rows)
        /\ \A i \in 1 .. Len(rows) : rows[i] \in Configured(codes)
    BY LenProperties, ElementOfSeq
  <1>3. 0 \in P
    <2>1. DOMAIN after[0] = {}
      BY <1>1
    <2>2. QED
      BY <2>1 DEF Selected
  <1>4. \A n \in 1 .. Len(rows) : n - 1 \in P => n \in P
    BY <1>1, <1>2, SelectRowKeeps
  <1> HIDE DEF P
  <1>5. \A n \in 0 .. Len(rows) : n \in P
    BY <1>2, <1>3, <1>4, ThroughTheLoop
  <1>6. Selected(rows, Latest(rows), Len(rows))
    BY <1>1, <1>2, <1>5 DEF P
  <1>7. ASSUME NEW c \in DOMAIN Latest(rows)
        PROVE  /\ c \in codes /\ Latest(rows)[c] \in Configured(codes)
               /\ Latest(rows)[c] \in InForce(rows, c)
    <2>1. PICK i \in 1 .. Len(rows) :
            Latest(rows)[c] = rows[i] /\ rows[i].code = c /\ rows[i].effective <= Today
      BY <1>6 DEF Selected
    <2>2. rows[i] \in ToSet(rows)
      BY <1>2 DEF ToSet
    <2>3. \A row \in ToSet(rows) : row.code = c /\ row.effective <= Today => row.rank <= rows[i].rank
      BY <1>2, <1>6, <2>1 DEF ToSet, Selected
    <2>4. rows[i] \in InForce(rows, c)
      BY <2>1, <2>2, <2>3 DEF InForce
    <2>5. QED
      BY <1>2, <2>1, <2>4 DEF Configured
  <1>8. QED
    BY <1>7

\* The loop of _build_metric_catalog, one fact at a time.
LEMMA CatalogLoop ==
  ASSUME NEW facts \in Seq(Facts), NEW configs
  PROVE  \E after :
           /\ after[0] = [names |-> <<>>, errors |-> 0]
           /\ \A n \in 1 .. Len(facts) : after[n] = BuildName(after[n - 1], facts[n], configs)
           /\ MetricCatalog(facts, configs) = after[Len(facts)]
  <1> DEFINE first == [names |-> <<>>, errors |-> 0]
             Runs(g, n) ==
               g = [m \in 0 .. n |-> IF m = 0 THEN first ELSE BuildName(g[m - 1], facts[m], configs)]
             P == {n \in Nat : \E g : Runs(g, n)}
  <1>0. Len(facts) \in Nat
    BY LenProperties
  <1>1. 0 \in P
    <2>1. Runs([m \in 0 .. 0 |-> first], 0)
      OBVIOUS
    <2>2. QED
      BY <2>1
  <1>2. ASSUME NEW n \in 1 .. Len(facts), n - 1 \in P
        PROVE  n \in P
    <2>1. PICK g : Runs(g, n - 1)
      BY <1>2
    <2> DEFINE h == [m \in 0 .. n |-> IF m = n THEN BuildName(g[n - 1], facts[n], configs) ELSE g[m]]
    <2>2. \A m \in 0 .. n : h[m] = IF m = 0 THEN first ELSE BuildName(h[m - 1], facts[m], configs)
      <3> SUFFICES ASSUME NEW m \in 0 .. n
                   PROVE  h[m] = IF m = 0 THEN first ELSE BuildName(h[m - 1], facts[m], configs)
        OBVIOUS
      <3>1. CASE m = n
        <4>1. h[m - 1] = g[n - 1] /\ m # 0
          BY <3>1
        <4>2. QED
          BY <3>1, <4>1
      <3>2. CASE m # n
        <4>1. m \in 0 .. n - 1
          BY <3>2
        <4>2. h[m] = g[m] /\ (m # 0 => h[m - 1] = g[m - 1])
          BY <3>2
        <4>3. g[m] = IF m = 0 THEN first ELSE BuildName(g[m - 1], facts[m], configs)
          BY <2>1, <4>1
        <4>4. QED
          BY <4>2, <4>3
      <3>3. QED
        BY <3>1, <3>2
    <2>3. Runs(h, n)
      BY <2>2
    <2> HIDE DEF h, Runs
    <2>4. n \in Nat
      BY <1>0
    <2>5. QED
      BY <2>3, <2>4
  <1> HIDE DEF P
  <1>3. \E g : Runs(g, Len(facts))
    <2>1. \A n \in 1 .. Len(facts) : n - 1 \in P => n \in P
      BY <1>2
    <2>2. \A n \in 0 .. Len(facts) : n \in P
      BY <1>0, <1>1, <2>1, ThroughTheLoop
    <2>3. Len(facts) \in P
      BY <1>0, <2>2
    <2>4. QED
      BY <2>3 DEF P
  <1> DEFINE after == CHOOSE g : Runs(g, Len(facts))
  <1>4. Runs(after, Len(facts))
    BY <1>3
  <1>5. MetricCatalog(facts, configs) = after[Len(facts)]
    BY DEF MetricCatalog
  <1> HIDE DEF after
  <1>6. after[0] = first /\ \A n \in 1 .. Len(facts) : after[n] = BuildName(after[n - 1], facts[n], configs)
    BY <1>0, <1>4
  <1>7. QED
    BY <1>5, <1>6




LEMMA ComposedType ==
  ASSUME NEW name \in Seq(Words), NEW basis \in Seq(Words)
  PROVE  Compose(Strip(name), basis) \in Seq(Words)
  <1>1. Strip(name) \in Seq(Words)
    BY HeadTailProperties DEF Strip
  <1>2. <<>> \in Seq(Words) /\ Strip(name) \o basis \in Seq(Words)
    BY <1>1, EmptySeq, ConcatProperties
  <1> DEFINE base == Strip(name)
  <1> HIDE DEF base
  <1>3. base \in Seq(Words) /\ base \o basis \in Seq(Words) => Compose(base, basis) \in Seq(Words)
    BY <1>2 DEF Compose
  <1>4. QED
    BY <1>1, <1>2, <1>3 DEF base

CatalogType == [names : PartOf(Metrics, Seq(Words)), errors : Nat]

\* Whatever has a name has one that a fact and a configured row give it.
FromFacts(facts, configs, names) ==
  \A c \in DOMAIN names :
    \E i \in 1 .. Len(facts) :
      /\ facts[i].code = c /\ facts[i].source \in DOMAIN configs
      /\ names[c] = Compose(Strip(configs[facts[i].source].name), facts[i].basis)

LEMMA BuildNameKeeps ==
  ASSUME NEW facts \in Seq(Facts), NEW configs, NEW n \in 1 .. Len(facts),
         \A d \in DOMAIN configs : configs[d].name \in Seq(Words),
         NEW built \in CatalogType, FromFacts(facts, configs, built.names)
  PROVE  /\ BuildName(built, facts[n], configs) \in CatalogType
         /\ FromFacts(facts, configs, BuildName(built, facts[n], configs).names)
  <1> DEFINE fact == facts[n]
             name == Compose(Strip(configs[fact.source].name), fact.basis)
             next == BuildName(built, fact, configs)
  <1>0. fact \in Facts
    BY ElementOfSeq
  <1>1. CASE fact.source \notin DOMAIN configs \/ name = <<>>
    BY <1>1 DEF BuildName
  <1>2. CASE /\ fact.source \in DOMAIN configs /\ name # <<>>
             /\ fact.code \in DOMAIN built.names /\ built.names[fact.code] # name
    <2>1. next = [built EXCEPT !.errors = built.errors + 1]
      BY <1>2 DEF BuildName
    <2>2. QED
      BY <2>1 DEF CatalogType
  <1>3. CASE /\ fact.source \in DOMAIN configs /\ name # <<>>
             /\ ~(fact.code \in DOMAIN built.names /\ built.names[fact.code] # name)
    <2> DEFINE names == With(built.names, fact.code, name)
    <2>1. next = [built EXCEPT !.names = names]
      BY <1>3 DEF BuildName
    <2>2. name \in Seq(Words)
      BY <1>0, <1>3, ComposedType DEF Facts
    <2>3. fact.code \in Metrics /\ built.names \in PartOf(Metrics, Seq(Words))
      BY <1>0 DEF Facts, CatalogType
    <2>4. /\ names \in PartOf(Metrics, Seq(Words))
          /\ DOMAIN names = DOMAIN built.names \cup {fact.code}
          /\ names[fact.code] = name
          /\ \A d \in DOMAIN built.names \ {fact.code} : names[d] = built.names[d]
      <3> HIDE DEF name, fact
      <3>1. DOMAIN built.names \subseteq Metrics
            /\ built.names \in [DOMAIN built.names -> Seq(Words)]
        BY <2>3, PartIs
      <3>2. /\ DOMAIN names = DOMAIN built.names \cup {fact.code}
            /\ names[fact.code] = name
            /\ \A d \in DOMAIN built.names \ {fact.code} : names[d] = built.names[d]
        BY DEF With
      <3>3. names \in [DOMAIN built.names \cup {fact.code} -> Seq(Words)]
        BY <2>2, <3>1 DEF With
      <3>4. QED
        BY <2>3, <3>1, <3>2, <3>3, PartIs
    <2> HIDE DEF names
    <2>5. next \in CatalogType /\ next.names = names
      BY <2>1, <2>4 DEF CatalogType
    <2>6. FromFacts(facts, configs, names)
      BY <1>3, <2>4 DEF FromFacts
    <2>7. QED
      BY <2>5, <2>6
  <1>4. QED
    BY <1>1, <1>2, <1>3

LEMMA CatalogIsFromFacts ==
  ASSUME NEW facts \in Seq(Facts), NEW configs,
         \A d \in DOMAIN configs : configs[d].name \in Seq(Words)
  PROVE  /\ MetricCatalog(facts, configs) \in CatalogType
         /\ FromFacts(facts, configs, MetricCatalog(facts, configs).names)
  <1>1. PICK after :
          /\ after[0] = [names |-> <<>>, errors |-> 0]
          /\ \A n \in 1 .. Len(facts) : after[n] = BuildName(after[n - 1], facts[n], configs)
          /\ MetricCatalog(facts, configs) = after[Len(facts)]
    BY CatalogLoop
  <1> DEFINE P == {n \in Nat : after[n] \in CatalogType /\ FromFacts(facts, configs, after[n].names)}
  <1>2. Len(facts) \in Nat
    BY LenProperties
  <1>3. 0 \in P
    BY <1>1, NoPart DEF CatalogType, FromFacts
  <1>4. \A n \in 1 .. Len(facts) : n - 1 \in P => n \in P
    <2> SUFFICES ASSUME NEW n \in 1 .. Len(facts), after[n - 1] \in CatalogType,
                        FromFacts(facts, configs, after[n - 1].names)
                 PROVE  after[n] \in CatalogType /\ FromFacts(facts, configs, after[n].names)
      BY <1>2
    <2>1. after[n] = BuildName(after[n - 1], facts[n], configs)
      BY <1>1
    <2>2. QED
      BY <2>1, BuildNameKeeps
  <1> HIDE DEF P
  <1>5. \A n \in 0 .. Len(facts) : n \in P
    BY <1>2, <1>3, <1>4, ThroughTheLoop
  <1>6. QED
    BY <1>1, <1>2, <1>5 DEF P

LEMMA LoadTypes ==
  ASSUME NEW n \in 1 .. Len(Lakes)
  PROVE  /\ Lakes[n].configs \in Seq(Configured(Metrics)) /\ Lakes[n].facts \in Seq(Facts)
         /\ Lakes[n].orgs \in Seq(Configured(Orgs))
  <1>1. Lakes[n] \in Load
    BY LakesAssumption, ElementOfSeq
  <1>2. QED
    BY <1>1 DEF Load

\* The names a synchronisation of metrics brings are those the lake has for them.
LEMMA MetricsAreNamed ==
  ASSUME NEW n \in 1 .. Len(Lakes), NEW m \in 1 .. Len(Lakes),
         NEW built, built = MetricCatalog(Lakes[m].facts, Latest(Lakes[n].configs)),
         NEW source, source.configs = n, source.facts = m
  PROVE  /\ built \in CatalogType
         /\ \A c \in DOMAIN built.names : built.names[c] \in LakeNames(source, c)
  <1> DEFINE configs == Lakes[n].configs
             facts == Lakes[m].facts
             latest == Latest(configs)
  <1>1. configs \in Seq(Configured(Metrics)) /\ facts \in Seq(Facts)
    BY LoadTypes
  <1>2. \A c \in DOMAIN latest : latest[c] \in InForce(configs, c) /\ latest[c].name \in Seq(Words)
    BY <1>1, LatestIsInForce DEF Configured
  <1>3. built \in CatalogType /\ FromFacts(facts, latest, built.names)
    BY <1>1, <1>2, CatalogIsFromFacts
  <1>4. ASSUME NEW c \in DOMAIN built.names
        PROVE  built.names[c] \in LakeNames(source, c)
    <2>1. PICK i \in 1 .. Len(facts) :
            /\ facts[i].code = c /\ facts[i].source \in DOMAIN latest
            /\ built.names[c] = Compose(Strip(latest[facts[i].source].name), facts[i].basis)
      BY <1>3 DEF FromFacts
    <2>2. facts[i] \in ToSet(facts)
      BY <1>1, LenProperties DEF ToSet
    <2>3. latest[facts[i].source] \in InForce(configs, facts[i].source)
      BY <1>2, <2>1
    <2>4. built.names[c] \in {Compose(Strip(r.name), facts[i].basis) :
                                r \in InForce(configs, facts[i].source)}
      BY <2>1, <2>3
    <2> DEFINE FactNames(f) == {Compose(Strip(r.name), f.basis) : r \in InForce(configs, f.source)}
    <2>5. facts[i] \in {fact \in ToSet(facts) : fact.code = c}
      BY <2>1, <2>2
    <2>6. built.names[c] \in UNION {FactNames(f) : f \in {fact \in ToSet(facts) : fact.code = c}}
      BY <2>4, <2>5
    <2>7. QED
      BY <2>6 DEF LakeNames
  <1>5. QED
    BY <1>3, <1>4

LEMMA OrgsAreNamed ==
  ASSUME NEW n \in 1 .. Len(Lakes), NEW source, source.orgs = n,
         NEW selected, selected = Latest(Lakes[n].orgs)
  PROVE  /\ DOMAIN selected \subseteq Orgs
         /\ OrgNames(selected) \in PartOf(Orgs, Seq(Words))
         /\ \A o \in DOMAIN OrgNames(selected) :
              OrgNames(selected)[o] \in OrgNamesOf(source, o)
  <1> DEFINE named == {o \in DOMAIN selected : selected[o].name # <<>>}
             names == OrgNames(selected)
  <1>1. Lakes[n].orgs \in Seq(Configured(Orgs))
    BY LoadTypes
  <1>2. DOMAIN selected \subseteq Orgs
        /\ \A o \in DOMAIN selected :
             selected[o] \in InForce(Lakes[n].orgs, o) /\ selected[o].name \in Seq(Words)
    BY <1>1, LatestIsInForce DEF Configured
  <1>3. names = [o \in named |-> selected[o].name] /\ DOMAIN names = named
    BY DEF OrgNames
  <1>4. names \in PartOf(Orgs, Seq(Words))
    <2>1. named \subseteq Orgs /\ [o \in named |-> selected[o].name] \in [named -> Seq(Words)]
      BY <1>2
    <2> HIDE DEF named, names
    <2>2. QED
      BY <1>3, <2>1, PartIs
  <1>5. ASSUME NEW o \in DOMAIN names
        PROVE  names[o] \in OrgNamesOf(source, o)
    <2>1. o \in DOMAIN selected /\ names[o] = selected[o].name /\ selected[o].name # <<>>
      BY <1>3
    <2>2. QED
      BY <1>2, <2>1 DEF OrgNamesOf
  <1>6. QED
    BY <1>2, <1>4, <1>5

-------------------------------------------------------------------------------
(* Part 2: how a step looks to the rows and to the sessions *)

LEMMA StoredIs ==
  /\ \A row \in RowType : Exists(row)
  /\ \A row \in Stored : Exists(row) => row \in RowType
  /\ ~Exists(NoRow) /\ NoRow \in Stored
  /\ \A row \in RowType : row \in Stored
  <1>1. \A row \in RowType : DOMAIN row # DOMAIN NoRow
    <2>1. \A row \in RowType : "name" \in DOMAIN row
      BY DEF RowType
    <2>2. "name" \notin DOMAIN NoRow
      BY DEF NoRow
    <2>3. QED
      BY <2>1, <2>2
  <1>2. QED
    BY <1>1 DEF Stored, Exists

\* What a worker has tells where it is.
LEMMA WorkIs ==
  ASSUME NEW at \in WorkType
  PROVE  /\ at.pc = "save" => at \in SessionType
         /\ at.pc = "cleaning" => at \in CleaningType
         /\ at.pc = "flushed" => at \in FlushedType
         /\ at.pc = "facts" => at \in FactsType
         /\ at.pc = "organizations" => at \in AskingForOrgs
         /\ at.pc = "clean up" => at \in AskingForCleanUp
         /\ at.pc = "fill" => at \in FillType
  <1>1. /\ \A x \in SessionType : x.pc = "save"
        /\ \A x \in CleaningType : x.pc = "cleaning"
        /\ \A x \in FlushedType : x.pc = "flushed"
        /\ \A x \in FactsType : x.pc = "facts"
        /\ \A x \in AskingForOrgs : x.pc = "organizations"
        /\ \A x \in AskingForCleanUp : x.pc = "clean up"
        /\ \A x \in FillType : x.pc = "fill"
        /\ Idle.pc = "idle"
    BY DEF SessionType, CleaningType, FlushedType, FactsType, AskingForOrgs, AskingForCleanUp,
           FillType, Idle
  <1>2. at \in SessionType \cup CleaningType \cup FlushedType \cup FactsType \cup AskingForOrgs
               \cup AskingForCleanUp \cup FillType \cup {Idle}
    BY DEF WorkType, Continuation
  <1>3. QED
    BY <1>1, <1>2

LEMMA ContinuationIs ==
  ASSUME NEW at \in Continuation
  PROVE  at \in WorkType /\ at.pc \notin {"save", "flushed", "fill"}
  <1>1. at \in WorkType
    BY DEF WorkType
  <1>2. at.pc \in {"idle", "organizations", "clean up"}
    <2>1. /\ \A x \in AskingForOrgs : x.pc = "organizations"
          /\ \A x \in AskingForCleanUp : x.pc = "clean up"
          /\ Idle.pc = "idle"
      BY DEF AskingForOrgs, AskingForCleanUp, Idle
    <2>2. QED
      BY <2>1 DEF Continuation
  <1>3. QED
    BY <1>1, <1>2

\* A step of one worker that leaves the tables alone.
Moves(w, next) == Goto(w, next) /\ UNCHANGED <<tables, lake, cache, clock, commits>>

Elsewhere(next) == next \in WorkType /\ next.pc \notin {"save", "flushed", "fill"}

Asks(next) == next \in SessionType /\ (next.by = "sync" => Synchronises(next))

Looks(w, next) ==
  \/ next = [pc |-> "fill", view |-> View, missed |-> FALSE]
  \/ work[w].pc = "fill" /\ next = [work[w] EXCEPT !.missed = TRUE]

Flushes(w, next) ==
  /\ next \in FlushedType /\ next.for = work[w] /\ next.second = clock
  /\ Aged(next.change.metrics)
  /\ \A v \in Workers \ {w} : LocksOf(v) \cap Locks(next.change) = {}
  /\ work[w].by = "sync" =>
       /\ work[w].pc = "save" /\ Synchronises(work[w])
       /\ FlushedSync(next.change, work[w], clock)

StepIs ==
  \/ \E w \in Workers : \E next :
       Moves(w, next) /\ (Elsewhere(next) \/ Asks(next) \/ Looks(w, next) \/ Flushes(w, next))
  \/ \E w \in Workers : Commit(w) \/ Fill(w)
  \/ Tick \/ LoadLake
  \/ UNCHANGED vars

LEMMA LooksIs ==
  ASSUME TypeOK, NEW w \in Workers, NEW next, Looks(w, next)
  PROVE  /\ next \in FillType /\ next.pc = "fill"
         /\ next.view = View \/ (work[w].pc = "fill" /\ next.view = work[w].view)
  <1>1. CASE next = [pc |-> "fill", view |-> View, missed |-> FALSE]
    <2>1. View \in ViewType
      BY DEF View, ViewType, TypeOK
    <2>2. QED
      BY <1>1, <2>1 DEF FillType
  <1>2. CASE work[w].pc = "fill" /\ next = [work[w] EXCEPT !.missed = TRUE]
    <2>1. work[w] \in FillType
      BY <1>2, WorkIs DEF TypeOK
    <2>2. QED
      BY <1>2, <2>1 DEF FillType
  <1>3. QED
    BY <1>1, <1>2 DEF Looks

LEMMA SessionIs ==
  ASSUME TypeOK, NEW by \in {"admin", "sync"}, NEW source \in Source,
         NEW metrics \in PartOf(Metrics, RowType), NEW orgs \in PartOf(Orgs, RowType),
         NEW cleared \in SUBSET Metrics, NEW added \in SUBSET Added, NEW next \in Continuation
  PROVE  Session(by, source, metrics, orgs, cleared, added, next) \in SessionType
  <1> DEFINE seenMetrics == [c \in DOMAIN metrics |-> metric_terms[c]]
             seenOrgs == [o \in DOMAIN orgs |-> org_terms[o]]
  <1>1. DOMAIN metrics \subseteq Metrics /\ DOMAIN orgs \subseteq Orgs
    BY PartIs
  <1>2. seenMetrics \in [DOMAIN metrics -> Stored] /\ seenOrgs \in [DOMAIN orgs -> Stored]
    BY <1>1 DEF TypeOK
  <1>3. seenMetrics \in PartOf(Metrics, Stored) /\ seenOrgs \in PartOf(Orgs, Stored)
    BY <1>1, <1>2, PartIs
  <1>4. Session(by, source, metrics, orgs, cleared, added, next) =
          [pc |-> "save", by |-> by, source |-> source, metrics |-> metrics, orgs |-> orgs,
           seenMetrics |-> seenMetrics, seenOrgs |-> seenOrgs, cleared |-> cleared,
           added |-> added, next |-> next]
    BY DEF Session
  <1> HIDE DEF seenMetrics, seenOrgs
  <1>5. QED
    BY <1>3, <1>4 DEF SessionType

LEMMA UpsertedIs ==
  ASSUME NEW codes, NEW table \in [codes -> Stored], NEW names \in PartOf(codes, Seq(Words))
  PROVE  /\ Upserted(table, names) \in PartOf(codes, RowType)
         /\ DOMAIN Upserted(table, names) = DOMAIN names
         /\ \A c \in DOMAIN names :
              \A lakes : names[c] \in lakes => Named(table[c], Upserted(table, names)[c], lakes)
  <1>1. DOMAIN names \subseteq codes /\ names \in [DOMAIN names -> Seq(Words)]
    BY PartIs
  <1>2. ASSUME NEW c \in DOMAIN names
        PROVE  /\ Upserted(table, names)[c] \in RowType
               /\ \A lakes : names[c] \in lakes => Named(table[c], Upserted(table, names)[c], lakes)
    <2>1. table[c] \in Stored /\ names[c] \in Seq(Words)
      BY <1>1
    <2>2. CASE Exists(table[c])
      <3>1. table[c] \in RowType
        BY <2>1, <2>2, StoredIs
      <3>2. Upserted(table, names)[c] = [table[c] EXCEPT !.name = names[c], !.enabled = TRUE]
        BY <2>2 DEF Upserted
      <3>3. QED
        BY <2>1, <2>2, <3>1, <3>2 DEF RowType, Named
    <2>3. CASE ~Exists(table[c])
      <3>1. Upserted(table, names)[c] = Row(names[c], Blank, TRUE)
        BY <2>3 DEF Upserted
      <3>2. QED
        BY <2>1, <2>3, <3>1, PayloadsAssumption DEF RowType, Named, Row
    <2>4. QED
      BY <2>2, <2>3
  <1>3. DOMAIN Upserted(table, names) = DOMAIN names
    BY DEF Upserted
  <1>4. Upserted(table, names) \in [DOMAIN names -> RowType]
    BY <1>2 DEF Upserted
  <1>5. QED
    BY <1>1, <1>2, <1>3, <1>4, PartIs

\* A flush writes rows that are as young as the clock, and what was computed from
\* the rows it found.
LEMMA WritesIs ==
  ASSUME NEW codes, NEW table \in [codes -> Stored], NEW wanted \in PartOf(codes, RowType),
         NEW seen, Fits(table, seen, wanted), clock \in Nat
  PROVE  /\ Writes(table, seen, wanted) \in PartOf(codes, Stored)
         /\ Aged(Writes(table, seen, wanted))
         /\ Computed(table, Writes(table, seen, wanted), seen, wanted, clock)
  <1> DEFINE dirty == {c \in DOMAIN wanted : Differs(seen[c], wanted[c])}
             row(c) == [Flushed(table[c], seen[c], wanted[c]) EXCEPT !.updated_at = clock]
             rows == [c \in dirty |-> row(c)]
  <1>1. Writes(table, seen, wanted) = rows
    BY DEF Writes
  <1>2. DOMAIN wanted \subseteq codes /\ wanted \in [DOMAIN wanted -> RowType]
    BY PartIs
  <1>3. ASSUME NEW c \in dirty
        PROVE  row(c) \in RowType /\ row(c).updated_at = clock
    <2>1. table[c] \in Stored /\ wanted[c] \in RowType /\ (Exists(table[c]) <=> Exists(seen[c]))
      BY <1>2 DEF Fits
    <2>2. CASE Exists(seen[c])
      <3>1. table[c] \in RowType
        BY <2>1, <2>2, StoredIs
      <3>2. Written(table[c], seen[c], wanted[c]) \in RowType
        BY <2>1, <3>1 DEF Written, RowType
      <3>3. QED
        BY <2>2, <3>2 DEF Flushed, RowType
    <2>3. CASE ~Exists(seen[c])
      BY <2>1, <2>3 DEF Flushed, RowType
    <2>4. QED
      BY <2>2, <2>3
  <1> HIDE DEF row
  <1>4. rows \in [dirty -> RowType] /\ DOMAIN rows = dirty
    BY <1>3
  <1>5. rows \in PartOf(codes, Stored)
    <2>1. dirty \subseteq codes
      BY <1>2
    <2>2. rows \in [dirty -> Stored]
      BY <1>4, StoredIs
    <2> HIDE DEF dirty, rows
    <2>3. QED
      BY <1>4, <2>1, <2>2, PartIs
  <1>6. Aged(rows)
    BY <1>3 DEF Aged
  <1>7. Computed(table, rows, seen, wanted, clock)
    BY DEF Computed, row, Fits
  <1>8. QED
    BY <1>1, <1>5, <1>6, <1>7

LEMMA PayloadIs ==
  ASSUME NEW payload \in Payloads
  PROVE  /\ Payload(payload) \in RowType
         /\ \A row \in RowType : Edited(row, payload) \in RowType
         /\ payload.code \in Metrics => Spoken(payload) \subseteq Added
  <1>1. payload \in Request
    BY PayloadsAssumption
  <1>2. /\ payload.name \in Seq(Words) /\ payload.manual \in Entries
        /\ payload.enabled \in BOOLEAN /\ payload.synonyms \subseteq Synonyms
    BY <1>1 DEF Request
  <1>3. Payload(payload) \in RowType
    BY <1>2 DEF Payload, Row, RowType
  <1>4. \A row \in RowType : Edited(row, payload) \in RowType
    BY <1>2 DEF Edited, RowType
  <1>5. payload.code \in Metrics => Spoken(payload) \subseteq Added
    BY <1>2 DEF Spoken, Added
  <1>6. QED
    BY <1>3, <1>4, <1>5

LEMMA AdministratorStep ==
  ASSUME TypeOK, NEW w \in Workers, Administrate(w) \/ Retire(w)
  PROVE  \E next : Moves(w, next) /\ Asks(next)
  <1>1. NoSource \in Source /\ Idle \in Continuation
    BY LakesAssumption, LenProperties DEF NoSource, Source, Continuation
  <1>2. <<>> \in PartOf(Metrics, RowType) /\ <<>> \in PartOf(Orgs, RowType)
    BY NoPart
  <1>3. \A session : Begin(w, session) => Moves(w, session)
    BY DEF Begin, Moves
  <1>4. ASSUME NEW c \in Metrics, NEW row \in RowType, NEW cleared \in SUBSET Metrics,
               NEW added \in SUBSET Added,
               Begin(w, Session("admin", NoSource, Only(c, row), <<>>, cleared, added, Idle))
        PROVE  \E next : Moves(w, next) /\ Asks(next)
    <2> DEFINE session == Session("admin", NoSource, Only(c, row), <<>>, cleared, added, Idle)
    <2>1. Only(c, row) \in PartOf(Metrics, RowType)
      BY OnlyPart
    <2>2. session \in SessionType
      BY <1>1, <1>2, <2>1, SessionIs
    <2>3. session.by = "admin"
      BY DEF Session
    <2>4. QED
      BY <1>3, <1>4, <2>2, <2>3 DEF Asks
  <1>5. ASSUME NEW o \in Orgs, NEW row \in RowType,
               Begin(w, Session("admin", NoSource, <<>>, Only(o, row), {}, {}, Idle))
        PROVE  \E next : Moves(w, next) /\ Asks(next)
    <2> DEFINE session == Session("admin", NoSource, <<>>, Only(o, row), {}, {}, Idle)
    <2>1. Only(o, row) \in PartOf(Orgs, RowType)
      BY OnlyPart
    <2>2. session \in SessionType
      BY <1>1, <1>2, <2>1, SessionIs
    <2>3. session.by = "admin"
      BY DEF Session
    <2>4. QED
      BY <1>3, <1>5, <2>2, <2>3 DEF Asks
  <1>6. ASSUME NEW payload \in Payloads, CreateMetric(w, payload) \/ UpdateMetric(w, payload)
        PROVE  \E next : Moves(w, next) /\ Asks(next)
    <2> DEFINE c == payload.code
    <2>1. c \in Metrics /\ Spoken(payload) \subseteq Added
      BY <1>6, PayloadIs DEF CreateMetric, UpdateMetric
    <2>2. metric_terms[c] \in Stored
      BY <2>1 DEF TypeOK
    <2>3. CASE CreateMetric(w, payload)
      BY <1>4, <2>1, <2>3, PayloadIs DEF CreateMetric
    <2>4. CASE UpdateMetric(w, payload)
      <3>1. Edited(metric_terms[c], payload) \in RowType
        BY <2>2, <2>4, StoredIs, PayloadIs DEF UpdateMetric
      <3>2. Begin(w, Session("admin", NoSource, Only(c, Edited(metric_terms[c], payload)), <<>>,
                             {c}, Spoken(payload), Idle))
        BY <2>4 DEF UpdateMetric
      <3>3. QED
        BY <1>4, <2>1, <3>1, <3>2
    <2>5. QED
      BY <1>6, <2>3, <2>4
  <1>7. ASSUME NEW payload \in Payloads,
               CreateOrganization(w, payload) \/ UpdateOrganization(w, payload)
        PROVE  \E next : Moves(w, next) /\ Asks(next)
    <2> DEFINE o == payload.code
    <2>1. o \in Orgs
      BY <1>7 DEF CreateOrganization, UpdateOrganization
    <2>2. org_terms[o] \in Stored
      BY <2>1 DEF TypeOK
    <2>3. CASE CreateOrganization(w, payload)
      BY <1>5, <2>1, <2>3, PayloadIs DEF CreateOrganization
    <2>4. CASE UpdateOrganization(w, payload)
      <3>1. Edited(org_terms[o], payload) \in RowType
        BY <2>2, <2>4, StoredIs, PayloadIs DEF UpdateOrganization
      <3>2. QED
        BY <1>5, <2>1, <2>4, <3>1 DEF UpdateOrganization
    <2>5. QED
      BY <1>7, <2>3, <2>4
  <1>8. ASSUME NEW c \in Metrics, DeleteMetric(w, c)
        PROVE  \E next : Moves(w, next) /\ Asks(next)
    <2>1. metric_terms[c] \in RowType
      BY <1>8, StoredIs DEF DeleteMetric, TypeOK
    <2>2. Retired(metric_terms[c]) \in RowType
      BY <2>1 DEF Retired, RowType
    <2>3. QED
      BY <1>4, <1>8, <2>2 DEF DeleteMetric
  <1>9. ASSUME NEW o \in Orgs, DeleteOrganization(w, o)
        PROVE  \E next : Moves(w, next) /\ Asks(next)
    <2>1. org_terms[o] \in RowType
      BY <1>9, StoredIs DEF DeleteOrganization, TypeOK
    <2>2. Retired(org_terms[o]) \in RowType
      BY <2>1 DEF Retired, RowType
    <2>3. QED
      BY <1>5, <1>9, <2>2 DEF DeleteOrganization
  <1>10. QED
    BY <1>6, <1>7, <1>8, <1>9 DEF Administrate, Retire

LEMMA NoSummaryIs == NoSummary \in Summary
  BY DEF NoSummary, Summary

LEMMA StartStep ==
  ASSUME TypeOK, NEW w \in Workers, NEW scope \in Scopes, StartSync(w, scope)
  PROVE  \E next : Moves(w, next) /\ Elsewhere(next)
  <1> DEFINE asking == [pc |-> "organizations", scope |-> scope, summary |-> NoSummary]
             facts == [pc |-> "facts", scope |-> scope, load |-> lake]
  <1>1. asking \in AskingForOrgs /\ facts \in FactsType
    BY NoSummaryIs DEF AskingForOrgs, FactsType, TypeOK
  <1>2. Elsewhere(asking) /\ Elsewhere(facts)
    BY <1>1 DEF Elsewhere, WorkType, Continuation
  <1>3. Moves(w, asking) \/ Moves(w, facts)
    BY DEF StartSync, Begin, Moves
  <1> HIDE DEF asking, facts
  <1>4. QED
    BY <1>2, <1>3

LEMMA SyncMetricsStep ==
  ASSUME TypeOK, NEW w \in Workers, SyncMetrics(w)
  PROVE  \E next : Moves(w, next) /\ Asks(next)
  <1> DEFINE at == work[w]
             built == MetricCatalog(Lakes[lake].facts, Latest(Lakes[at.load].configs))
             summary == [metrics |-> DOMAIN built.names, errors |-> built.errors, orgs |-> {}]
             source == [configs |-> at.load, facts |-> lake, orgs |-> 0]
             rows == Upserted(metric_terms, built.names)
             then == IF at.scope = "metrics" THEN Idle
                     ELSE [pc |-> "organizations", scope |-> at.scope, summary |-> summary]
             session == Session("sync", source, rows, <<>>, {}, {}, then)
  <1>1. at \in FactsType /\ lake \in 1 .. Len(Lakes)
    BY WorkIs DEF TypeOK, SyncMetrics
  <1>2. at.load \in 1 .. Len(Lakes) /\ at.scope \in Scopes
    BY <1>1 DEF FactsType
  <1>3. Moves(w, session)
    BY DEF SyncMetrics, Moves
  <1>4. source \in Source /\ source.configs = at.load /\ source.facts = lake
    <2>1. at.load \in 0 .. Len(Lakes) /\ lake \in 0 .. Len(Lakes) /\ 0 \in 0 .. Len(Lakes)
      BY <1>1, <1>2, LakesAssumption, LenProperties
    <2>2. QED
      BY <2>1 DEF Source
  <1> HIDE DEF source
  <1>5. built \in CatalogType /\ \A c \in DOMAIN built.names : built.names[c] \in LakeNames(source, c)
    <2> HIDE DEF built
    <2>1. built = MetricCatalog(Lakes[lake].facts, Latest(Lakes[at.load].configs))
      BY DEF built
    <2>2. QED
      BY <1>1, <1>2, <1>4, <2>1, MetricsAreNamed
  <1> HIDE DEF at, built
  <1>6. built.names \in PartOf(Metrics, Seq(Words)) /\ built.errors \in Nat
    BY <1>5 DEF CatalogType
  <1>7. /\ rows \in PartOf(Metrics, RowType) /\ DOMAIN rows = DOMAIN built.names
        /\ \A c \in DOMAIN rows : Named(metric_terms[c], rows[c], LakeNames(source, c))
    BY <1>5, <1>6, UpsertedIs DEF TypeOK
  <1>8. then \in Continuation
    <2>1. summary \in Summary
      <3>1. DOMAIN built.names \subseteq Metrics
        BY <1>6, PartIs
      <3>2. QED
        BY <1>6, <3>1 DEF Summary
    <2> HIDE DEF summary
    <2>2. QED
      BY <1>2, <2>1 DEF Continuation, AskingForOrgs, at
  <1> HIDE DEF rows, then
  <1>9. session \in SessionType
    BY <1>4, <1>7, <1>8, NoPart, SessionIs
  <1>10. Synchronises(session)
    <2>1. /\ session.cleared = {} /\ session.added = {} /\ session.source = source
          /\ session.metrics = rows /\ session.orgs = <<>>
          /\ session.seenMetrics = [c \in DOMAIN rows |-> metric_terms[c]]
          /\ session.seenOrgs = [o \in DOMAIN <<>> |-> org_terms[o]]
      BY DEF Session
    <2> HIDE DEF session
    <2>2. DOMAIN session.orgs = {} /\ DOMAIN session.seenOrgs = {}
      BY <2>1, NoPart
    <2>3. \A c \in DOMAIN session.metrics :
            Named(session.seenMetrics[c], session.metrics[c], LakeNames(session.source, c))
      BY <1>7, <2>1
    <2>4. QED
      BY <2>1, <2>2, <2>3 DEF Synchronises
  <1>11. QED
    BY <1>3, <1>9, <1>10 DEF Asks

LEMMA SyncOrganizationsStep ==
  ASSUME TypeOK, NEW w \in Workers, SyncOrganizations(w)
  PROVE  \E next : Moves(w, next) /\ (Elsewhere(next) \/ Asks(next))
  <1> DEFINE at == work[w]
             selected == Latest(Lakes[lake].orgs)
             names == OrgNames(selected)
             source == [NoSource EXCEPT !.orgs = lake]
             rows == Upserted(org_terms, names)
             then == IF at.scope # "initialize" THEN Idle
                     ELSE [pc |-> "clean up",
                           summary |-> [at.summary EXCEPT !.orgs = DOMAIN selected]]
             session == Session("sync", source, <<>>, rows, {}, {}, then)
  <1>1. at \in AskingForOrgs /\ lake \in 1 .. Len(Lakes)
    BY WorkIs DEF TypeOK, SyncOrganizations
  <1>2. at.summary \in Summary
    BY <1>1 DEF AskingForOrgs
  <1>3. Moves(w, Idle) \/ Moves(w, session)
    BY DEF SyncOrganizations, Moves
  <1>4. source \in Source /\ source.orgs = lake
    BY <1>1, LakesAssumption, LenProperties DEF NoSource, Source
  <1> HIDE DEF source
  <1>5. /\ names \in PartOf(Orgs, Seq(Words))
        /\ \A o \in DOMAIN names : names[o] \in OrgNamesOf(source, o)
        /\ DOMAIN selected \subseteq Orgs
    <2> HIDE DEF selected
    <2>1. selected = Latest(Lakes[lake].orgs)
      BY DEF selected
    <2>2. QED
      BY <1>1, <1>4, <2>1, OrgsAreNamed
  <1> HIDE DEF at, names, selected
  <1>6. /\ rows \in PartOf(Orgs, RowType) /\ DOMAIN rows = DOMAIN names
        /\ \A o \in DOMAIN rows : Named(org_terms[o], rows[o], OrgNamesOf(source, o))
    BY <1>5, UpsertedIs DEF TypeOK
  <1>7. then \in Continuation
    <2>1. [at.summary EXCEPT !.orgs = DOMAIN selected] \in Summary
      BY <1>2, <1>5 DEF Summary
    <2>2. QED
      BY <2>1 DEF Continuation, AskingForCleanUp
  <1> HIDE DEF rows, then
  <1>8. session \in SessionType
    BY <1>4, <1>6, <1>7, NoPart, SessionIs
  <1>9. Synchronises(session)
    <2>1. /\ session.cleared = {} /\ session.added = {} /\ session.source = source
          /\ session.metrics = <<>> /\ session.orgs = rows
          /\ session.seenMetrics = [c \in DOMAIN <<>> |-> metric_terms[c]]
          /\ session.seenOrgs = [o \in DOMAIN rows |-> org_terms[o]]
      BY DEF Session
    <2> HIDE DEF session
    <2>2. DOMAIN session.metrics = {} /\ DOMAIN session.seenMetrics = {}
      BY <2>1, NoPart
    <2>3. \A o \in DOMAIN session.orgs :
            Named(session.seenOrgs[o], session.orgs[o], OrgNamesOf(session.source, o))
      BY <1>6, <2>1
    <2>4. QED
      BY <2>1, <2>2, <2>3 DEF Synchronises
  <1>10. Elsewhere(Idle)
    BY ContinuationIs DEF Elsewhere, Continuation
  <1>11. QED
    BY <1>3, <1>8, <1>9, <1>10 DEF Asks

LEMMA ReadForCleanUpStep ==
  ASSUME TypeOK, NEW w \in Workers, ReadForCleanUp(w)
  PROVE  \E next : Moves(w, next) /\ Elsewhere(next)
  <1> DEFINE summary == work[w].summary
             cleaning ==
               [pc |-> "cleaning", by |-> "clean up", summary |-> summary,
                metrics |-> {c \in Metrics \ summary.metrics : Exists(metric_terms[c])},
                synonyms |-> {s \in metric_synonyms : s.code \notin summary.metrics},
                orgs |-> {o \in Orgs \ summary.orgs : Exists(org_terms[o])},
                users |-> {u \in Users : app_users[u] \notin summary.orgs}, next |-> Idle]
  <1>1. Moves(w, Idle) \/ Moves(w, cleaning)
    BY DEF ReadForCleanUp, Moves
  <1>2. work[w] \in AskingForCleanUp
    BY WorkIs DEF TypeOK, ReadForCleanUp
  <1>3. cleaning \in CleaningType
    <2>1. summary \in Summary
      BY <1>2 DEF AskingForCleanUp
    <2>2. metric_synonyms \subseteq SynonymType
      BY DEF TypeOK
    <2> HIDE DEF summary
    <2>3. QED
      BY <2>1, <2>2 DEF CleaningType
  <1>4. cleaning.pc = "cleaning"
    OBVIOUS
  <1>5. Elsewhere(Idle)
    BY ContinuationIs DEF Elsewhere, Continuation
  <1> HIDE DEF cleaning
  <1>6. Elsewhere(cleaning)
    BY <1>3, <1>4 DEF Elsewhere, WorkType
  <1>7. QED
    BY <1>1, <1>5, <1>6

LEMMA RollBackStep ==
  ASSUME NEW w \in Workers, RollBack(w)
  PROVE  \E next : Moves(w, next) /\ Elsewhere(next)
  <1>1. Elsewhere(Idle)
    BY ContinuationIs DEF Elsewhere, Continuation
  <1>2. QED
    BY <1>1 DEF RollBack, Moves

LEMMA SaveStep ==
  ASSUME TypeOK, SyncInv, NEW w \in Workers, Save(w)
  PROVE  \E next : Moves(w, next) /\ Flushes(w, next)
  <1> DEFINE session == work[w]
             metrics == Writes(metric_terms, session.seenMetrics, session.metrics)
             orgs == Writes(org_terms, session.seenOrgs, session.orgs)
             change == [metrics |-> metrics, orgs |-> orgs, cleared |-> session.cleared,
                        dropped |-> {}, added |-> session.added, moved |-> <<>>]
             next == [pc |-> "flushed", change |-> change, for |-> session, second |-> clock]
  <1>1. session \in SessionType /\ session.pc = "save"
    BY WorkIs DEF TypeOK, Save
  <1>2. /\ session.metrics \in PartOf(Metrics, RowType) /\ session.orgs \in PartOf(Orgs, RowType)
        /\ session.cleared \subseteq Metrics /\ session.added \subseteq Added
    BY <1>1 DEF SessionType
  <1>3. /\ Fits(metric_terms, session.seenMetrics, session.metrics)
        /\ Fits(org_terms, session.seenOrgs, session.orgs)
        /\ Flush(w, change)
    BY DEF Save
  <1>4. clock \in Nat /\ metric_terms \in [Metrics -> Stored] /\ org_terms \in [Orgs -> Stored]
    BY DEF TypeOK
  <1> HIDE DEF session
  <1>5. /\ metrics \in PartOf(Metrics, Stored) /\ Aged(metrics)
        /\ Computed(metric_terms, metrics, session.seenMetrics, session.metrics, clock)
    BY <1>2, <1>3, <1>4, WritesIs
  <1>6. /\ orgs \in PartOf(Orgs, Stored)
        /\ Computed(org_terms, orgs, session.seenOrgs, session.orgs, clock)
    BY <1>2, <1>3, <1>4, WritesIs
  <1> HIDE DEF metrics, orgs
  <1>7. change \in ChangeType
    BY <1>2, <1>5, <1>6, NoPart DEF ChangeType
  <1>8. change.metrics = metrics /\ change.orgs = orgs /\ change.cleared = session.cleared
        /\ change.dropped = {} /\ change.added = session.added /\ DOMAIN change.moved = {}
    BY NoPart
  <1>9. Moves(w, next) /\ \A v \in Workers \ {w} : LocksOf(v) \cap Locks(change) = {}
    BY <1>3 DEF Flush, Moves, session
  <1> HIDE DEF change
  <1>10. next \in FlushedType
    BY <1>1, <1>4, <1>7 DEF FlushedType
  <1>11. session.by = "sync" => Synchronises(session)
    BY <1>1 DEF SyncInv, session
  <1>12. session.by = "sync" => FlushedSync(change, session, clock)
    BY <1>5, <1>6, <1>8, <1>11 DEF Synchronises, FlushedSync
  <1>13. Aged(change.metrics)
    BY <1>5, <1>8
  <1>14. Flushes(w, next)
    BY <1>1, <1>9, <1>10, <1>11, <1>12, <1>13 DEF Flushes, session
  <1>15. QED
    BY <1>9, <1>14

LEMMA CleanUpStep ==
  ASSUME TypeOK, NEW w \in Workers, CleanUp(w)
  PROVE  \E next : Moves(w, next) /\ Flushes(w, next)
  <1> DEFINE at == work[w]
             metrics == [c \in at.metrics |-> NoRow]
             orgs == [o \in at.orgs |-> NoRow]
             moved == [u \in at.users |-> Fallback]
             change == [metrics |-> metrics, orgs |-> orgs, cleared |-> {},
                        dropped |-> at.synonyms, added |-> {}, moved |-> moved]
             next == [pc |-> "flushed", change |-> change, for |-> at, second |-> clock]
  <1>1. at \in CleaningType
    BY WorkIs DEF TypeOK, CleanUp
  <1>2. Moves(w, next) /\ \A v \in Workers \ {w} : LocksOf(v) \cap Locks(change) = {}
    BY DEF CleanUp, Flush, Moves
  <1>3. /\ at.metrics \subseteq Metrics /\ at.orgs \subseteq Orgs /\ at.users \subseteq Users
        /\ at.synonyms \subseteq SynonymType /\ at.by = "clean up"
    BY <1>1 DEF CleaningType
  <1> HIDE DEF at
  <1>4. metrics \in PartOf(Metrics, Stored) /\ orgs \in PartOf(Orgs, Stored)
    BY <1>3, StoredIs, PartIs
  <1>5. moved \in PartOf(Users, Orgs)
    BY <1>3, FallbackAssumption, PartIs
  <1>6. Aged(metrics)
    BY StoredIs DEF Aged
  <1> HIDE DEF metrics, orgs, moved
  <1>7. change \in ChangeType
    BY <1>3, <1>4, <1>5 DEF ChangeType
  <1>8. change.metrics = metrics
    OBVIOUS
  <1> HIDE DEF change
  <1>9. next \in FlushedType
    BY <1>1, <1>7 DEF FlushedType, TypeOK
  <1>10. QED
    BY <1>2, <1>3, <1>6, <1>8, <1>9 DEF Flushes, at

\* Every step is one of these.
LEMMA StepLemma == TypeOK /\ SyncInv /\ [Next]_vars => StepIs
  <1> SUFFICES ASSUME TypeOK, SyncInv, [Next]_vars
               PROVE  StepIs
    OBVIOUS
  <1>1. CASE Tick \/ LoadLake \/ UNCHANGED vars
    BY <1>1 DEF StepIs
  <1>2. ASSUME NEW w \in Workers, Administrate(w) \/ Retire(w)
        PROVE  StepIs
    BY <1>2, AdministratorStep DEF StepIs
  <1>3. ASSUME NEW w \in Workers, Synchronise(w)
        PROVE  StepIs
    <2>1. CASE \E scope \in Scopes : StartSync(w, scope)
      BY <2>1, StartStep DEF StepIs
    <2>2. CASE SyncMetrics(w)
      BY <2>2, SyncMetricsStep DEF StepIs
    <2>3. CASE SyncOrganizations(w)
      BY <2>3, SyncOrganizationsStep DEF StepIs
    <2>4. CASE ReadForCleanUp(w)
      BY <2>4, ReadForCleanUpStep DEF StepIs
    <2>5. CASE CleanUp(w)
      BY <2>5, CleanUpStep DEF StepIs
    <2>6. QED
      BY <1>3, <2>1, <2>2, <2>3, <2>4, <2>5 DEF Synchronise
  <1>4. ASSUME NEW w \in Workers, Read(w)
        PROVE  StepIs
    <2>1. CASE ReadVersions(w)
      <3> DEFINE next == [pc |-> "fill", view |-> View, missed |-> FALSE]
      <3>1. Moves(w, next) /\ Looks(w, next)
        BY <2>1 DEF ReadVersions, Begin, Moves, Looks
      <3> HIDE DEF next
      <3>2. QED
        BY <3>1 DEF StepIs
    <2>2. CASE MissCache(w)
      <3> DEFINE next == [work[w] EXCEPT !.missed = TRUE]
      <3>1. Moves(w, next) /\ Looks(w, next)
        BY <2>2 DEF MissCache, Moves, Looks
      <3> HIDE DEF next
      <3>2. QED
        BY <3>1 DEF StepIs
    <2>3. CASE HitCache(w)
      <3>1. Elsewhere(Idle)
        BY ContinuationIs DEF Elsewhere, Continuation
      <3>2. Moves(w, Idle)
        BY <2>3 DEF HitCache, Moves
      <3>3. QED
        BY <3>1, <3>2 DEF StepIs
    <2>4. CASE Fill(w)
      BY <2>4 DEF StepIs
    <2>5. QED
      BY <1>4, <2>1, <2>2, <2>3, <2>4 DEF Read
  <1>5. ASSUME NEW w \in Workers, Save(w)
        PROVE  StepIs
    BY <1>5, SaveStep DEF StepIs
  <1>6. ASSUME NEW w \in Workers, Commit(w)
        PROVE  StepIs
    BY <1>6 DEF StepIs
  <1>7. ASSUME NEW w \in Workers, RollBack(w)
        PROVE  StepIs
    BY <1>7, RollBackStep DEF StepIs
  <1>8. QED
    BY <1>1, <1>2, <1>3, <1>4, <1>5, <1>6, <1>7 DEF Next

-------------------------------------------------------------------------------
(* Part 3: types and stamps *)

LEMMA GotoIs ==
  ASSUME TypeOK, NEW w \in Workers, NEW next, Goto(w, next)
  PROVE  work'[w] = next /\ \A v \in Workers \ {w} : work'[v] = work[v]
  BY DEF TypeOK, Goto

LEMMA NewestIs ==
  ASSUME NEW rows, NEW b \in Nat,
         \A row \in rows : row.updated_at \in Nat /\ row.updated_at <= b
  PROVE  Newest(rows) \in Int /\ \A row \in rows : row.updated_at <= Newest(rows)
  <1> DEFINE stamps == {row.updated_at : row \in rows}
  <1>1. CASE rows = {}
    BY <1>1 DEF Newest
  <1>2. CASE rows # {}
    <2>1. stamps \in SUBSET Nat /\ stamps # {} /\ \A n \in stamps : n <= b
      BY <1>2
    <2>2. \A row \in rows : row.updated_at \in stamps
      OBVIOUS
    <2>3. Newest(rows) = Max(stamps)
      BY <1>2 DEF Newest
    <2> HIDE DEF stamps
    <2>4. Max(stamps) \in stamps /\ \A n \in stamps : n <= Max(stamps)
      BY <2>1, MaxIs
    <2>5. Newest(rows) \in Int
      <3>1. \A n \in stamps : n \in Int
        BY <2>1
      <3>2. Newest(rows) \in stamps
        BY <2>3, <2>4
      <3>3. QED
        BY <3>1, <3>2
    <2>6. \A row \in rows : row.updated_at <= Newest(rows)
      BY <2>2, <2>3, <2>4
    <2>7. QED
      BY <2>5, <2>6
  <1>3. QED
    BY <1>1, <1>2

\* The key of a view whose rows are no younger than the clock.
LEMMA KeyIs ==
  ASSUME NEW view, view.terms \in [Metrics -> Stored], view.synonyms \subseteq SynonymType,
         clock \in Nat, Aged(view.terms), \A s \in view.synonyms : s.updated_at <= clock
  PROVE  /\ CacheKey(view) \in Int \X Int
         /\ \A c \in Metrics :
              Exists(view.terms[c]) => view.terms[c].updated_at <= CacheKey(view)[1]
         /\ \A s \in view.synonyms : s.updated_at <= CacheKey(view)[2]
  <1> DEFINE rows == RowsOf(view.terms)
  <1>1. \A row \in rows : row.updated_at \in Nat /\ row.updated_at <= clock
    BY StoredIs DEF RowsOf, Aged, RowType
  <1>2. \A c \in Metrics : Exists(view.terms[c]) => view.terms[c] \in rows
    BY DEF RowsOf
  <1> HIDE DEF rows
  <1>3. Newest(rows) \in Int /\ \A row \in rows : row.updated_at <= Newest(rows)
    BY <1>1, NewestIs
  <1>4. \A s \in view.synonyms : s.updated_at \in Nat /\ s.updated_at <= clock
    BY DEF SynonymType
  <1>5. /\ Newest(view.synonyms) \in Int
        /\ \A s \in view.synonyms : s.updated_at <= Newest(view.synonyms)
    BY <1>4, NewestIs
  <1>6. CacheKey(view) = <<Newest(rows), Newest(view.synonyms)>>
    BY DEF CacheKey, rows
  <1>7. QED
    BY <1>2, <1>3, <1>5, <1>6

LEMMA ListedIs ==
  ASSUME NEW view \in ViewType
  PROVE  /\ Listed(view) \in PartOf(Metrics, Item)
         /\ DOMAIN Listed(view) = {c \in Metrics : view.terms[c].enabled}
         /\ \A c \in DOMAIN Listed(view) :
              /\ Listed(view)[c].name = view.terms[c].name
              /\ Listed(view)[c].manual = view.terms[c].manual
              /\ \A s \in view.synonyms : s.code = c => s.synonym \in Listed(view)[c].aliases
  <1> DEFINE enabled == {c \in Metrics : view.terms[c].enabled}
             item(c) ==
               [name |-> view.terms[c].name, manual |-> view.terms[c].manual,
                aliases |-> {s.synonym : s \in {r \in view.synonyms : r.code = c}}]
  <1>1. Listed(view) = [c \in enabled |-> item(c)]
    BY DEF Listed
  <1>2. ASSUME NEW c \in enabled
        PROVE  item(c) \in Item
    <2>1. view.terms[c] \in Stored
      BY DEF ViewType
    <2>2. view.terms[c] # NoRow
      BY DEF NoRow
    <2>3. view.terms[c] \in RowType
      BY <2>1, <2>2, StoredIs DEF Exists
    <2>4. view.terms[c].name \in Seq(Words) /\ view.terms[c].manual \in Entries
      BY <2>3 DEF RowType
    <2>5. {s.synonym : s \in {r \in view.synonyms : r.code = c}} \subseteq Synonyms
      BY DEF ViewType, SynonymType
    <2>6. QED
      BY <2>4, <2>5 DEF Item
  <1>3. \A c \in enabled :
          /\ item(c).name = view.terms[c].name /\ item(c).manual = view.terms[c].manual
          /\ \A s \in view.synonyms : s.code = c => s.synonym \in item(c).aliases
    OBVIOUS
  <1>4. enabled \subseteq Metrics
    OBVIOUS
  <1> HIDE DEF item, enabled
  <1>5. Listed(view) \in [enabled -> Item] /\ DOMAIN Listed(view) = enabled
    BY <1>1, <1>2
  <1>6. Listed(view) \in PartOf(Metrics, Item)
    BY <1>4, <1>5, PartIs
  <1>7. QED
    BY <1>1, <1>3, <1>5, <1>6 DEF enabled

LEMMA OverwrittenIs ==
  ASSUME NEW codes, NEW table \in [codes -> Stored], NEW rows \in PartOf(codes, Stored),
         commits \in Nat
  PROVE  /\ Overwritten(table, rows) \in [codes -> Stored]
         /\ \A c \in codes \ DOMAIN rows : Overwritten(table, rows)[c] = table[c]
         /\ \A c \in DOMAIN rows : ~Exists(rows[c]) => Overwritten(table, rows)[c] = NoRow
  <1>1. DOMAIN rows \subseteq codes /\ rows \in [DOMAIN rows -> Stored]
    BY PartIs
  <1>2. \A c \in DOMAIN rows : Exists(rows[c]) => rows[c] \in RowType
    BY <1>1, StoredIs
  <1>3. \A row \in RowType : [row EXCEPT !.commit = commits + 1] \in RowType
    BY DEF RowType
  <1>4. \A c \in codes :
          Overwritten(table, rows)[c] =
            IF c \notin DOMAIN rows THEN table[c]
            ELSE IF Exists(rows[c]) THEN [rows[c] EXCEPT !.commit = commits + 1] ELSE NoRow
    BY DEF Overwritten
  <1>5. \A c \in codes : Overwritten(table, rows)[c] \in Stored
    BY <1>2, <1>3, <1>4, StoredIs
  <1>6. Overwritten(table, rows) \in [codes -> Stored]
    <2>1. Overwritten(table, rows) = [c \in codes |-> Overwritten(table, rows)[c]]
      BY DEF Overwritten
    <2>2. QED
      BY <1>5, <2>1
  <1>7. QED
    BY <1>1, <1>4, <1>6

\* A commit: the rows that are written get a number of their own.
LEMMA CommitIs ==
  ASSUME TypeOK, NEW w \in Workers, Commit(w)
  PROVE  /\ work[w] \in FlushedType /\ work[w].change \in ChangeType
         /\ commits' = Numbered(work[w].change)
         /\ metric_terms' = Overwritten(metric_terms, work[w].change.metrics)
         /\ org_terms' = Overwritten(org_terms, work[w].change.orgs)
         /\ commits' \in Nat /\ commits <= commits'
         /\ Locks(work[w].change) # {} => commits' = commits + 1
         /\ work'[w] \in Continuation
         /\ \A v \in Workers \ {w} : work'[v] = work[v]
         /\ cache' = cache /\ lake' = lake /\ clock' = clock
  <1>1. work[w] \in FlushedType
    BY WorkIs DEF Commit, TypeOK
  <1>2. work[w].change \in ChangeType /\ work[w].for.next \in Continuation
    BY <1>1 DEF FlushedType, SessionType, CleaningType, Continuation
  <1>3. work'[w] = work[w].for.next /\ \A v \in Workers \ {w} : work'[v] = work[v]
    BY DEF Commit, Goto, TypeOK
  <1>4. commits' = Numbered(work[w].change)
    BY DEF Commit
  <1>5. /\ commits' \in Nat /\ commits <= commits'
        /\ Locks(work[w].change) # {} => commits' = commits + 1
    BY <1>4 DEF Numbered, TypeOK
  <1>6. QED
    BY <1>1, <1>2, <1>3, <1>4, <1>5 DEF Commit

LEMMA InitTyped == Init => TypeOK /\ Stamped
  <1> SUFFICES ASSUME Init
               PROVE  TypeOK /\ Stamped
    OBVIOUS
  <1>1. cache \in CacheType
    <2>1. <<>> \in PartOf(Metrics, Item)
      BY NoPart
    <2>2. QED
      BY <2>1 DEF Init, CacheType
  <1>2. work \in [Workers -> WorkType] /\ \A w \in Workers : work[w].pc = "idle"
    BY DEF Init, WorkType, Continuation, Idle
  <1>3. lake \in 1 .. Len(Lakes)
    BY LakesAssumption, LenProperties DEF Init
  <1>4. TypeOK
    BY <1>1, <1>2, <1>3, InitialAssumption DEF Init, TypeOK
  <1>5. Aged(metric_terms) /\ Numbers(metric_terms)
    <2>1. \A c \in Metrics : Exists(InitialMetrics[c]) =>
            InitialMetrics[c].updated_at = 0 /\ InitialMetrics[c].commit = 0
      BY InitialAssumption DEF First
    <2>2. QED
      BY <2>1, InitialAssumption DEF Init, Aged, Numbers
  <1>6. \A s \in metric_synonyms : s.updated_at <= clock /\ s.commit <= commits
    <2>1. \A s \in SynonymType : Exists(s)
      <3>1. \A s \in SynonymType : "code" \in DOMAIN s
        BY DEF SynonymType
      <3>2. "code" \notin DOMAIN NoRow
        BY DEF NoRow
      <3>3. QED
        BY <3>1, <3>2 DEF Exists
    <2>2. QED
      BY <2>1, InitialAssumption DEF Init, First
  <1>7. QED
    BY <1>2, <1>4, <1>5, <1>6 DEF Stamped

LEMMA MovesIs ==
  ASSUME TypeOK, NEW w \in Workers, NEW next, Moves(w, next),
         Elsewhere(next) \/ Asks(next) \/ Looks(w, next) \/ Flushes(w, next)
  PROVE  next \in WorkType /\ work' \in [Workers -> WorkType]
  <1>1. next \in WorkType
    <2>1. CASE Elsewhere(next)
      BY <2>1 DEF Elsewhere
    <2>2. CASE Asks(next)
      BY <2>2 DEF Asks, WorkType
    <2>3. CASE Looks(w, next)
      BY <2>3, LooksIs DEF WorkType
    <2>4. CASE Flushes(w, next)
      BY <2>4 DEF Flushes, WorkType
    <2>5. QED
      BY <2>1, <2>2, <2>3, <2>4
  <1>2. QED
    BY <1>1 DEF Moves, Goto, TypeOK

LEMMA FillIs ==
  ASSUME TypeOK, Stamped, NEW w \in Workers, Fill(w)
  PROVE  /\ work[w] \in FillType /\ work[w].view \in ViewType
         /\ cache' = [key |-> CacheKey(work[w].view), value |-> Listed(work[w].view),
                      at |-> work[w].view.at]
         /\ cache' \in CacheType
         /\ work'[w] = Idle /\ \A v \in Workers \ {w} : work'[v] = work[v]
         /\ UNCHANGED <<tables, lake, clock, commits>>
  <1> DEFINE view == work[w].view
  <1>1. work[w] \in FillType /\ work[w].pc = "fill"
    BY WorkIs DEF Fill, TypeOK
  <1>2. view \in ViewType
    BY <1>1 DEF FillType
  <1>3. /\ view.terms \in [Metrics -> Stored] /\ view.synonyms \subseteq SynonymType
        /\ view.at \in Nat /\ clock \in Nat
    BY <1>2 DEF ViewType, TypeOK
  <1>4. Aged(view.terms) /\ \A s \in view.synonyms : s.updated_at <= clock
    BY <1>1 DEF Stamped
  <1>5. cache' = [key |-> CacheKey(view), value |-> Listed(view), at |-> view.at]
    BY DEF Fill
  <1>6. work'[w] = Idle /\ \A v \in Workers \ {w} : work'[v] = work[v]
    BY GotoIs DEF Fill
  <1>7. UNCHANGED <<tables, lake, clock, commits>>
    BY DEF Fill
  <1>8. work[w].view \in ViewType
    BY <1>2
  <1> HIDE DEF view
  <1>9. CacheKey(view) \in Int \X Int /\ Listed(view) \in PartOf(Metrics, Item)
    BY <1>2, <1>3, <1>4, KeyIs, ListedIs
  <1>10. cache' \in CacheType
    BY <1>3, <1>5, <1>9 DEF CacheType
  <1>11. QED
    BY <1>1, <1>5, <1>6, <1>7, <1>8, <1>10 DEF view

LEMMA TypedStep ==
  ASSUME TypeOK, Stamped, StepIs
  PROVE  TypeOK'
  <1>1. ASSUME NEW w \in Workers, NEW next, Moves(w, next),
               Elsewhere(next) \/ Asks(next) \/ Looks(w, next) \/ Flushes(w, next)
        PROVE  TypeOK'
    <2>1. work' \in [Workers -> WorkType]
      BY <1>1, MovesIs
    <2>2. UNCHANGED <<tables, lake, cache, clock, commits>>
      BY <1>1 DEF Moves
    <2>3. QED
      BY <2>1, <2>2 DEF TypeOK, tables
  <1>2. ASSUME NEW w \in Workers, Commit(w)
        PROVE  TypeOK'
    <2> DEFINE change == work[w].change
    <2>1. /\ work[w] \in FlushedType /\ change \in ChangeType
          /\ metric_terms' = Overwritten(metric_terms, change.metrics)
          /\ org_terms' = Overwritten(org_terms, change.orgs)
          /\ commits' \in Nat /\ cache' = cache /\ lake' = lake /\ clock' = clock
          /\ work'[w] \in Continuation
      BY <1>2, CommitIs
    <2>2. /\ metric_synonyms' =
               {s \in metric_synonyms : s.code \notin change.cleared /\ s \notin change.dropped} \cup
               {[code |-> s.code, synonym |-> s.synonym, updated_at |-> work[w].second,
                 commit |-> commits + 1] : s \in change.added}
          /\ app_users' =
               [u \in Users |-> IF u \in DOMAIN change.moved THEN change.moved[u] ELSE app_users[u]]
      BY <1>2 DEF Commit
    <2>3. work[w].second \in Nat
      BY <2>1 DEF FlushedType
    <2> HIDE DEF change
    <2>4. /\ change.metrics \in PartOf(Metrics, Stored) /\ change.orgs \in PartOf(Orgs, Stored)
          /\ change.added \subseteq Added /\ change.moved \in PartOf(Users, Orgs)
      BY <2>1 DEF ChangeType
    <2>5. metric_terms' \in [Metrics -> Stored] /\ org_terms' \in [Orgs -> Stored]
      BY <2>1, <2>4, OverwrittenIs DEF TypeOK
    <2>6. metric_synonyms' \subseteq SynonymType
      <3>1. \A s \in Added :
              [code |-> s.code, synonym |-> s.synonym, updated_at |-> work[w].second,
               commit |-> commits + 1] \in SynonymType
        BY <2>3 DEF Added, SynonymType, TypeOK
      <3>2. QED
        BY <2>2, <2>4, <3>1 DEF TypeOK
    <2>7. app_users' \in [Users -> Orgs]
      <3>1. \A u \in DOMAIN change.moved : change.moved[u] \in Orgs
        BY <2>4, PartIs
      <3>2. QED
        BY <2>2, <3>1 DEF TypeOK
    <2>8. work' \in [Workers -> WorkType]
      <3>1. work[w].for.next \in WorkType
        BY <1>2, <2>1, ContinuationIs DEF Commit, Goto, TypeOK
      <3>2. QED
        BY <1>2, <3>1 DEF Commit, Goto, TypeOK
    <2>9. QED
      BY <2>1, <2>5, <2>6, <2>7, <2>8 DEF TypeOK
  <1>3. ASSUME NEW w \in Workers, Fill(w)
        PROVE  TypeOK'
    <2>1. cache' \in CacheType /\ UNCHANGED <<tables, lake, clock, commits>>
      BY <1>3, FillIs
    <2>2. work' \in [Workers -> WorkType]
      BY <1>3, ContinuationIs DEF Fill, Goto, TypeOK, Continuation
    <2>3. QED
      BY <2>1, <2>2 DEF TypeOK, tables
  <1>4. CASE Tick
    BY <1>4 DEF Tick, TypeOK, tables
  <1>5. CASE LoadLake
    <2>1. lake' \in 1 .. Len(Lakes)
      BY <1>5, LakesAssumption, LenProperties DEF LoadLake, TypeOK
    <2>2. QED
      BY <1>5, <2>1 DEF LoadLake, TypeOK, tables
  <1>6. CASE UNCHANGED vars
    BY <1>6 DEF vars, tables, TypeOK
  <1>7. QED
    BY <1>1, <1>2, <1>3, <1>4, <1>5, <1>6 DEF StepIs

LEMMA StampedStep ==
  ASSUME TypeOK, Stamped, StepIs, TypeOK'
  PROVE  Stamped'
  <1>1. ASSUME NEW w \in Workers, NEW next, Moves(w, next),
               Elsewhere(next) \/ Asks(next) \/ Looks(w, next) \/ Flushes(w, next)
        PROVE  Stamped'
    <2>1. work'[w] = next /\ \A v \in Workers \ {w} : work'[v] = work[v]
      BY <1>1, GotoIs DEF Moves
    <2>2. UNCHANGED <<metric_terms, metric_synonyms, clock, commits>>
      BY <1>1 DEF Moves, tables
    <2>3. /\ next.pc = "flushed" => Aged(next.change.metrics) /\ next.second <= clock
          /\ next.pc = "fill" =>
               Aged(next.view.terms) /\ \A s \in next.view.synonyms : s.updated_at <= clock
      <3>1. CASE Elsewhere(next)
        BY <3>1 DEF Elsewhere
      <3>2. CASE Asks(next)
        BY <3>2 DEF Asks, SessionType
      <3>3. CASE Looks(w, next)
        <4>1. next.pc = "fill"
              /\ (next.view = View \/ (work[w].pc = "fill" /\ next.view = work[w].view))
          BY <1>1, <3>3, LooksIs
        <4>2. Aged(View.terms) /\ \A s \in View.synonyms : s.updated_at <= clock
          BY DEF View, Stamped
        <4>3. work[w].pc = "fill" =>
                /\ Aged(work[w].view.terms)
                /\ \A s \in work[w].view.synonyms : s.updated_at <= clock
          BY DEF Stamped
        <4>4. QED
          BY <4>1, <4>2, <4>3
      <3>4. CASE Flushes(w, next)
        <4>1. next.pc = "flushed" /\ next.second = clock /\ Aged(next.change.metrics)
          BY <3>4 DEF Flushes, FlushedType
        <4>2. QED
          BY <4>1 DEF TypeOK
      <3>5. QED
        BY <1>1, <3>1, <3>2, <3>3, <3>4
    <2>4. QED
      BY <2>1, <2>2, <2>3 DEF Stamped, Aged, Numbers
  <1>2. ASSUME NEW w \in Workers, Commit(w)
        PROVE  Stamped'
    <2> DEFINE change == work[w].change
    <2>1. /\ work[w] \in FlushedType /\ change \in ChangeType /\ work[w].pc = "flushed"
          /\ metric_terms' = Overwritten(metric_terms, change.metrics)
          /\ commits' \in Nat /\ commits <= commits' /\ clock' = clock
          /\ Locks(change) # {} => commits' = commits + 1
          /\ work'[w] \in Continuation /\ \A v \in Workers \ {w} : work'[v] = work[v]
      BY <1>2, CommitIs DEF Commit
    <2>2. metric_synonyms' =
            {s \in metric_synonyms : s.code \notin change.cleared /\ s \notin change.dropped} \cup
            {[code |-> s.code, synonym |-> s.synonym, updated_at |-> work[w].second,
              commit |-> commits + 1] : s \in change.added}
      BY <1>2 DEF Commit
    <2>3. Aged(change.metrics) /\ work[w].second <= clock
      BY <2>1 DEF Stamped
    <2>4. work'[w].pc \notin {"flushed", "fill"}
      BY <2>1, ContinuationIs
    <2> HIDE DEF change
    <2>5. change.metrics \in PartOf(Metrics, Stored)
      BY <2>1 DEF ChangeType
    <2>6. ASSUME NEW c \in Metrics, Exists(metric_terms'[c])
          PROVE  metric_terms'[c].updated_at <= clock /\ metric_terms'[c].commit <= commits'
      <3>1. CASE c \notin DOMAIN change.metrics
        <4>1. metric_terms'[c] = metric_terms[c]
          BY <2>1, <2>5, <3>1, OverwrittenIs DEF TypeOK
        <4>2. metric_terms[c].updated_at <= clock /\ metric_terms[c].commit <= commits
          BY <2>6, <4>1 DEF Stamped, Aged, Numbers, TypeOK
        <4>3. metric_terms[c] \in RowType
          BY <2>6, <4>1, StoredIs DEF TypeOK
        <4>4. metric_terms[c].commit \in Nat
          BY <4>3 DEF RowType
        <4>5. QED
          BY <2>1, <4>1, <4>2, <4>4 DEF TypeOK
      <3>2. CASE c \in DOMAIN change.metrics
        <4>1. Exists(change.metrics[c])
          BY <2>1, <2>5, <2>6, <3>2, StoredIs, OverwrittenIs DEF TypeOK
        <4>2. /\ metric_terms'[c].commit = commits + 1
              /\ metric_terms'[c].updated_at = change.metrics[c].updated_at
          <5>1. metric_terms'[c] = [change.metrics[c] EXCEPT !.commit = commits + 1]
            BY <2>1, <3>2, <4>1 DEF Overwritten, TypeOK
          <5>2. change.metrics[c] \in RowType
            BY <2>5, <3>2, <4>1, PartIs, StoredIs
          <5>3. QED
            BY <5>1, <5>2 DEF RowType
        <4>3. Locks(change) # {}
          <5>1. <<"metric", c>> \in Locks(change)
            BY <3>2 DEF Locks
          <5>2. QED
            BY <5>1
        <4>4. QED
          BY <2>1, <2>3, <3>2, <4>1, <4>2, <4>3 DEF Aged, TypeOK
      <3>3. QED
        BY <3>1, <3>2
    <2>7. ASSUME NEW s \in metric_synonyms'
          PROVE  s.updated_at <= clock /\ s.commit <= commits'
      <3>1. CASE s \in metric_synonyms
        <4>1. s.updated_at <= clock /\ s.commit <= commits
          BY <3>1 DEF Stamped
        <4>2. s.commit \in Nat
          BY <3>1 DEF TypeOK, SynonymType
        <4>3. QED
          BY <2>1, <4>1, <4>2 DEF TypeOK
      <3>2. CASE s \notin metric_synonyms
        <4>1. PICK a \in change.added :
                s = [code |-> a.code, synonym |-> a.synonym, updated_at |-> work[w].second,
                     commit |-> commits + 1]
          BY <2>2, <2>7, <3>2
        <4>2. Locks(change) # {}
          <5>1. <<"synonyms", a.code>> \in Locks(change)
            BY <4>1 DEF Locks
          <5>2. QED
            BY <5>1
        <4>3. QED
          BY <2>1, <2>3, <4>1, <4>2 DEF TypeOK
      <3>3. QED
        BY <3>1, <3>2
    <2>8. Aged(metric_terms)' /\ Numbers(metric_terms)'
      BY <2>1, <2>6 DEF Aged, Numbers, TypeOK
    <2>9. QED
      BY <2>1, <2>4, <2>7, <2>8 DEF Stamped, Aged
  <1>3. ASSUME NEW w \in Workers, Fill(w)
        PROVE  Stamped'
    <2>1. /\ work'[w] = Idle /\ \A v \in Workers \ {w} : work'[v] = work[v]
          /\ UNCHANGED <<metric_terms, metric_synonyms, clock, commits>>
      BY <1>3, FillIs DEF tables
    <2>2. QED
      BY <2>1 DEF Stamped, Aged, Numbers, Idle
  <1>4. CASE Tick
    <2>1. clock' = clock + 1 /\ UNCHANGED <<metric_terms, metric_synonyms, work, commits>>
      BY <1>4 DEF Tick, tables
    <2>2. \A n \in Nat : n <= clock => n <= clock'
      BY <2>1 DEF TypeOK
    <2>3. \A codes : \A table \in PartOf(codes, Stored) : Aged(table) => Aged(table)'
      <3>1. \A codes : \A table \in PartOf(codes, Stored) : \A c \in DOMAIN table :
              Exists(table[c]) => table[c].updated_at \in Nat
        BY PartIs, StoredIs DEF RowType
      <3>2. QED
        BY <2>2, <3>1 DEF Aged
    <2>4. metric_terms \in PartOf(Metrics, Stored)
      BY PartIs DEF TypeOK
    <2>5. \A s \in SynonymType : s.updated_at <= clock => s.updated_at <= clock'
      BY <2>2 DEF SynonymType
    <2>6. ASSUME NEW w \in Workers, work[w].pc = "flushed"
          PROVE  Aged(work[w].change.metrics)' /\ work[w].second <= clock'
      <3>1. work[w] \in FlushedType
        BY <2>6, WorkIs DEF TypeOK
      <3>2. work[w].change.metrics \in PartOf(Metrics, Stored) /\ work[w].second \in Nat
        BY <3>1 DEF FlushedType, ChangeType
      <3>3. Aged(work[w].change.metrics) /\ work[w].second <= clock
        BY <2>6 DEF Stamped
      <3>4. QED
        BY <2>1, <2>2, <2>3, <3>2, <3>3 DEF Aged
    <2>7. ASSUME NEW w \in Workers, work[w].pc = "fill"
          PROVE  /\ Aged(work[w].view.terms)'
                 /\ \A s \in work[w].view.synonyms : s.updated_at <= clock'
      <3>1. work[w] \in FillType
        BY <2>7, WorkIs DEF TypeOK
      <3>2. work[w].view.terms \in [Metrics -> Stored] /\ work[w].view.synonyms \subseteq SynonymType
        BY <3>1 DEF FillType, ViewType
      <3>3. work[w].view.terms \in PartOf(Metrics, Stored)
        BY <3>2, PartIs
      <3>4. QED
        BY <2>1, <2>3, <2>5, <2>7, <3>2, <3>3 DEF Stamped, Aged
    <2>8. Aged(metric_terms)'
      BY <2>1, <2>3, <2>4 DEF Stamped, Aged
    <2>9. \A s \in metric_synonyms : s.updated_at <= clock' /\ s.commit <= commits
      BY <2>5 DEF Stamped, TypeOK
    <2>10. QED
      BY <2>1, <2>6, <2>7, <2>8, <2>9 DEF Stamped, Numbers
  <1>5. CASE LoadLake \/ UNCHANGED vars
    BY <1>5 DEF LoadLake, vars, tables, Stamped, Aged, Numbers
  <1>6. QED
    BY <1>1, <1>2, <1>3, <1>4, <1>5 DEF StepIs

-------------------------------------------------------------------------------
(* Part 4: AdditionsAreServed *)

LEMMA EnabledExists ==
  ASSUME NEW row, row.enabled
  PROVE  Exists(row)
  BY DEF Exists, NoRow

\* What a commit writes has a number that no snapshot before it has.
LEMMA CommitKeeps ==
  ASSUME TypeOK, NEW w \in Workers, Commit(w), NEW at \in Nat, at <= commits
  PROVE  /\ \A c \in Metrics :
              Exists(metric_terms'[c]) /\ metric_terms'[c].commit <= at =>
                metric_terms'[c] = metric_terms[c]
         /\ \A s \in metric_synonyms' : s.commit <= at => s \in metric_synonyms
         /\ at <= commits'
  <1> DEFINE change == work[w].change
  <1>1. /\ change \in ChangeType
        /\ metric_terms' = Overwritten(metric_terms, change.metrics)
        /\ commits' \in Nat /\ commits <= commits'
    BY CommitIs
  <1>2. metric_synonyms' =
          {s \in metric_synonyms : s.code \notin change.cleared /\ s \notin change.dropped} \cup
          {[code |-> s.code, synonym |-> s.synonym, updated_at |-> work[w].second,
            commit |-> commits + 1] : s \in change.added}
    BY DEF Commit
  <1>3. ~(commits + 1 <= at) /\ at <= commits'
    BY <1>1 DEF TypeOK
  <1> HIDE DEF change
  <1>4. change.metrics \in PartOf(Metrics, Stored)
    BY <1>1 DEF ChangeType
  <1>5. ASSUME NEW c \in Metrics, Exists(metric_terms'[c]), metric_terms'[c].commit <= at
        PROVE  metric_terms'[c] = metric_terms[c]
    <2>1. CASE c \notin DOMAIN change.metrics
      BY <1>1, <2>1 DEF Overwritten, TypeOK
    <2>2. CASE c \in DOMAIN change.metrics
      <3>1. metric_terms'[c] =
              IF Exists(change.metrics[c]) THEN [change.metrics[c] EXCEPT !.commit = commits + 1]
              ELSE NoRow
        BY <1>1, <2>2 DEF Overwritten, TypeOK
      <3>2. Exists(change.metrics[c])
        BY <1>5, <3>1, StoredIs
      <3>3. change.metrics[c] \in RowType
        BY <1>4, <2>2, <3>2, PartIs, StoredIs
      <3>4. metric_terms'[c].commit = commits + 1
        BY <3>1, <3>2, <3>3 DEF RowType
      <3>5. QED
        BY <1>3, <1>5, <3>4
    <2>3. QED
      BY <2>1, <2>2
  <1>6. ASSUME NEW s \in metric_synonyms', s.commit <= at
        PROVE  s \in metric_synonyms
    BY <1>2, <1>3, <1>6
  <1>7. QED
    BY <1>3, <1>5, <1>6

LEMMA ViewsStep ==
  ASSUME TypeOK, Stamped, Views, StepIs
  PROVE  Views'
  <1>1. ASSUME UNCHANGED <<metric_terms, metric_synonyms, commits>>,
               \A w \in Workers : work'[w].pc = "fill" =>
                 \/ work[w].pc = "fill" /\ work'[w].view = work[w].view
                 \/ work'[w].view = View
        PROVE  Views'
    <2> SUFFICES ASSUME NEW w \in Workers, work'[w].pc = "fill"
                 PROVE  UpToDate(work[w].view)'
      BY DEF Views
    <2>1. CASE work[w].pc = "fill" /\ work'[w].view = work[w].view
      BY <1>1, <2>1 DEF Views, UpToDate
    <2>2. CASE work'[w].view = View
      <3> DEFINE view == work'[w].view
      <3>1. view.at = commits /\ view.terms = metric_terms /\ view.synonyms = metric_synonyms
        BY <2>2 DEF View
      <3>2. commits <= commits
        BY DEF TypeOK
      <3>3. QED
        BY <1>1, <3>1, <3>2 DEF UpToDate
    <2>3. QED
      BY <1>1, <2>1, <2>2
  <1>2. ASSUME NEW w \in Workers, NEW next, Moves(w, next),
               Elsewhere(next) \/ Asks(next) \/ Looks(w, next) \/ Flushes(w, next)
        PROVE  Views'
    <2>1. work'[w] = next /\ \A v \in Workers \ {w} : work'[v] = work[v]
      BY <1>2, GotoIs DEF Moves
    <2>2. UNCHANGED <<metric_terms, metric_synonyms, commits>>
      BY <1>2 DEF Moves, tables
    <2>3. next.pc = "fill" =>
            next.view = View \/ (work[w].pc = "fill" /\ next.view = work[w].view)
      BY <1>2, LooksIs DEF Elsewhere, Asks, SessionType, Flushes, FlushedType
    <2>4. QED
      BY <1>1, <2>1, <2>2, <2>3
  <1>3. ASSUME NEW w \in Workers, Commit(w)
        PROVE  Views'
    <2> SUFFICES ASSUME NEW v \in Workers, work'[v].pc = "fill"
                 PROVE  UpToDate(work[v].view)'
      BY DEF Views
    <2>1. v # w /\ work'[v] = work[v]
      BY <1>3, CommitIs, ContinuationIs
    <2> DEFINE view == work[v].view
    <2>2. view \in ViewType /\ UpToDate(view)
      <3>1. work[v] \in FillType
        BY <2>1, WorkIs DEF TypeOK
      <3>2. QED
        BY <2>1, <3>1 DEF FillType, Views
    <2> HIDE DEF view
    <2>3. view.at \in Nat /\ view.at <= commits
      BY <2>2 DEF ViewType, UpToDate
    <2>4. /\ \A c \in Metrics :
               Exists(metric_terms'[c]) /\ metric_terms'[c].commit <= view.at =>
                 metric_terms'[c] = metric_terms[c]
          /\ \A s \in metric_synonyms' : s.commit <= view.at => s \in metric_synonyms
          /\ view.at <= commits'
      BY <1>3, <2>3, CommitKeeps
    <2>5. work'[v].view = view
      BY <2>1 DEF view
    <2>6. QED
      BY <2>2, <2>4, <2>5 DEF UpToDate
  <1>4. ASSUME NEW w \in Workers, Fill(w)
        PROVE  Views'
    <2>1. /\ work'[w].pc = "idle" /\ \A v \in Workers \ {w} : work'[v] = work[v]
          /\ UNCHANGED <<metric_terms, metric_synonyms, commits>>
      BY <1>4, FillIs DEF Idle, tables
    <2>2. QED
      BY <1>1, <2>1
  <1>5. CASE Tick \/ LoadLake \/ UNCHANGED vars
    <2>1. UNCHANGED <<metric_terms, metric_synonyms, commits, work>>
      BY <1>5 DEF Tick, LoadLake, vars, tables
    <2>2. QED
      BY <1>1, <2>1
  <1>6. QED
    BY <1>2, <1>3, <1>4, <1>5 DEF StepIs

LEMMA CachedStep ==
  ASSUME TypeOK, Stamped, Views, Cached, StepIs
  PROVE  Cached'
  <1>1. ASSUME UNCHANGED <<metric_terms, metric_synonyms, commits, cache>>
        PROVE  Cached'
    BY <1>1 DEF Cached, Serves
  <1>2. ASSUME NEW w \in Workers, Commit(w)
        PROVE  Cached'
    <2> SUFFICES ASSUME cache.key # <<>>
                 PROVE  /\ cache.at <= commits'
                        /\ \A c \in Metrics :
                             metric_terms'[c].enabled /\ metric_terms'[c].commit <= cache.at =>
                               Serves(c)'
      BY <1>2, CommitIs DEF Cached
    <2>1. cache.at \in Nat /\ cache.at <= commits /\ cache' = cache
      BY <1>2, CommitIs DEF Cached, TypeOK, CacheType
    <2>2. /\ \A c \in Metrics :
               Exists(metric_terms'[c]) /\ metric_terms'[c].commit <= cache.at =>
                 metric_terms'[c] = metric_terms[c]
          /\ \A s \in metric_synonyms' : s.commit <= cache.at => s \in metric_synonyms
          /\ cache.at <= commits'
      BY <1>2, <2>1, CommitKeeps
    <2>3. ASSUME NEW c \in Metrics, metric_terms'[c].enabled, metric_terms'[c].commit <= cache.at
          PROVE  Serves(c)'
      <3>1. metric_terms'[c] = metric_terms[c]
        BY <2>2, <2>3, EnabledExists
      <3>2. Serves(c)
        BY <2>3, <3>1 DEF Cached
      <3>3. QED
        BY <2>1, <2>2, <3>1, <3>2 DEF Serves
    <2>4. QED
      BY <2>2, <2>3
  <1>3. ASSUME NEW w \in Workers, Fill(w)
        PROVE  Cached'
    <2> DEFINE view == work[w].view
    <2>1. /\ view \in ViewType /\ UNCHANGED <<metric_terms, metric_synonyms, commits>>
          /\ cache' = [key |-> CacheKey(view), value |-> Listed(view), at |-> view.at]
      BY <1>3, FillIs DEF tables
    <2>2. UpToDate(view)
      BY <1>3 DEF Fill, Views
    <2> HIDE DEF view
    <2>3. cache'.value = Listed(view) /\ cache'.at = view.at
      BY <2>1
    <2>4. view.at <= commits'
      BY <2>1, <2>2 DEF UpToDate
    <2>5. ASSUME NEW c \in Metrics, metric_terms[c].enabled, metric_terms[c].commit <= view.at
          PROVE  Serves(c)'
      <3>1. view.terms[c] = metric_terms[c]
        BY <2>2, <2>5, EnabledExists DEF UpToDate
      <3>2. /\ c \in DOMAIN Listed(view)
            /\ Listed(view)[c].name = view.terms[c].name
            /\ Listed(view)[c].manual = view.terms[c].manual
            /\ \A s \in view.synonyms : s.code = c => s.synonym \in Listed(view)[c].aliases
        BY <2>1, <2>5, <3>1, ListedIs
      <3>3. \A s \in metric_synonyms : s.commit <= view.at => s \in view.synonyms
        BY <2>2 DEF UpToDate
      <3>4. QED
        BY <2>1, <2>3, <3>1, <3>2, <3>3 DEF Serves
    <2>6. QED
      BY <2>1, <2>3, <2>4, <2>5 DEF Cached
  <1>4. ASSUME NEW w \in Workers, NEW next, Moves(w, next)
        PROVE  Cached'
    BY <1>1, <1>4 DEF Moves, tables
  <1>5. CASE Tick \/ LoadLake \/ UNCHANGED vars
    BY <1>1, <1>5 DEF Tick, LoadLake, vars, tables
  <1>6. QED
    BY <1>2, <1>3, <1>4, <1>5 DEF StepIs

LEMMA InitServed == Init => Views /\ Cached
  <1> SUFFICES ASSUME Init
               PROVE  Views /\ Cached
    OBVIOUS
  <1>1. Views
    BY DEF Init, Views, Idle
  <1>2. Cached
    BY DEF Init, Cached
  <1>3. QED
    BY <1>1, <1>2

LEMMA ServedFollows == CatalogueInv => AdditionsAreServed
  <1> SUFFICES ASSUME CatalogueInv, cache.key = CacheKey(View), NEW c \in Metrics,
                      metric_terms[c].enabled, ~Late(metric_terms[c], cache.key[1])
               PROVE  /\ c \in DOMAIN cache.value
                      /\ cache.value[c].name = metric_terms[c].name
                      /\ cache.value[c].manual = metric_terms[c].manual
                      /\ \A s \in metric_synonyms :
                           s.code = c => s.synonym \in cache.value[c].aliases
                                         \/ Late(s, cache.key[2])
    BY DEF AdditionsAreServed
  <1>1. /\ View.terms = metric_terms /\ View.synonyms = metric_synonyms
    BY DEF View
  <1>2. /\ CacheKey(View) \in Int \X Int
        /\ \A d \in Metrics : Exists(metric_terms[d]) => metric_terms[d].updated_at <= CacheKey(View)[1]
        /\ \A s \in metric_synonyms : s.updated_at <= CacheKey(View)[2]
    <2>1. /\ metric_terms \in [Metrics -> Stored] /\ metric_synonyms \subseteq SynonymType
          /\ clock \in Nat /\ Aged(metric_terms)
          /\ \A s \in metric_synonyms : s.updated_at <= clock
      BY DEF CatalogueInv, TypeOK, Stamped
    <2>2. QED
      BY <1>1, <2>1, KeyIs
  <1>3. cache.key # <<>>
    <2>1. DOMAIN CacheKey(View) = {1, 2}
      BY DEF CacheKey
    <2>2. QED
      BY <2>1, NoPart
  <1>4. Exists(metric_terms[c]) /\ metric_terms[c] \in RowType
    BY EnabledExists, StoredIs DEF CatalogueInv, TypeOK
  <1>5. cache.at \in Nat /\ metric_terms[c].commit \in Nat
    BY <1>4 DEF CatalogueInv, TypeOK, CacheType, RowType
  <1>6. metric_terms[c].updated_at <= cache.key[1]
    BY <1>2, <1>4
  <1>7. metric_terms[c].commit <= cache.at
    BY <1>5, <1>6 DEF Late
  <1>8. Serves(c)
    BY <1>3, <1>7 DEF CatalogueInv, Cached
  <1>9. ASSUME NEW s \in metric_synonyms, s.code = c, ~Late(s, cache.key[2])
        PROVE  s.synonym \in cache.value[c].aliases
    <2>1. s.commit \in Nat
      BY DEF CatalogueInv, TypeOK, SynonymType
    <2>2. s.commit <= cache.at
      BY <1>2, <1>5, <1>9, <2>1 DEF Late
    <2>3. QED
      BY <1>8, <1>9, <2>2 DEF Serves
  <1>10. QED
    BY <1>8, <1>9 DEF Serves

-------------------------------------------------------------------------------
(* Part 5: SyncKeepsManualWork *)

LEMMA ExclusiveStep ==
  ASSUME TypeOK, Exclusive, StepIs
  PROVE  Exclusive'
  <1>1. ASSUME NEW w \in Workers, \A v \in Workers \ {w} : work'[v] = work[v],
               \A v \in Workers \ {w} : LocksOf(v) \cap LocksOf(w)' = {}
        PROVE  Exclusive'
    <2>1. \A v \in Workers \ {w} : LocksOf(v)' = LocksOf(v)
      BY <1>1 DEF LocksOf
    <2>2. QED
      BY <1>1, <2>1 DEF Exclusive
  <1>2. ASSUME NEW w \in Workers, NEW next, Moves(w, next),
               Elsewhere(next) \/ Asks(next) \/ Looks(w, next) \/ Flushes(w, next)
        PROVE  Exclusive'
    <2>1. work'[w] = next /\ \A v \in Workers \ {w} : work'[v] = work[v]
      BY <1>2, GotoIs DEF Moves
    <2>2. CASE next.pc # "flushed"
      <3>1. LocksOf(w)' = {}
        BY <2>1, <2>2 DEF LocksOf
      <3>2. QED
        BY <1>1, <2>1, <3>1
    <2>3. CASE next.pc = "flushed"
      <3>1. Flushes(w, next)
        BY <1>2, <2>3, LooksIs DEF Elsewhere, Asks, SessionType
      <3>2. LocksOf(w)' = Locks(next.change)
        BY <2>1, <2>3 DEF LocksOf
      <3>3. QED
        BY <1>1, <2>1, <3>1, <3>2 DEF Flushes
    <2>4. QED
      BY <2>2, <2>3
  <1>3. ASSUME NEW w \in Workers, Commit(w)
        PROVE  Exclusive'
    <2>1. work'[w].pc # "flushed" /\ \A v \in Workers \ {w} : work'[v] = work[v]
      BY <1>3, CommitIs, ContinuationIs
    <2>2. LocksOf(w)' = {}
      BY <2>1 DEF LocksOf
    <2>3. QED
      BY <1>1, <2>1, <2>2
  <1>4. ASSUME NEW w \in Workers, Fill(w)
        PROVE  Exclusive'
    <2>1. work'[w] = Idle /\ \A v \in Workers \ {w} : work'[v] = work[v]
      BY <1>4, GotoIs DEF Fill
    <2>2. LocksOf(w)' = {}
      BY <2>1 DEF LocksOf, Idle
    <2>3. QED
      BY <1>1, <2>1, <2>2
  <1>5. CASE Tick \/ LoadLake \/ UNCHANGED vars
    BY <1>5 DEF Tick, LoadLake, vars, tables, Exclusive, LocksOf
  <1>6. QED
    BY <1>2, <1>3, <1>4, <1>5 DEF StepIs

LEMMA SyncStep ==
  ASSUME TypeOK, SyncInv, Exclusive, StepIs
  PROVE  SyncInv'
  <1> DEFINE Holds(at) ==
        /\ at.pc = "save" /\ at.by = "sync" => Synchronises(at)
        /\ at.pc = "flushed" /\ at.for.by = "sync" =>
             Synchronises(at.for) /\ FlushedSync(at.change, at.for, at.second)
  <1>1. SyncInv' <=> \A v \in Workers : Holds(work[v])'
    BY DEF SyncInv
  <1>2. \A v \in Workers : Holds(work[v])
    BY DEF SyncInv
  <1>3. ASSUME UNCHANGED <<metric_terms, org_terms>>, NEW v \in Workers,
               work'[v] = work[v]
        PROVE  Holds(work[v])'
    <2>1. Synchronises(work[v])' <=> Synchronises(work[v])
      BY <1>3 DEF Synchronises
    <2>2. Synchronises(work[v].for)' <=> Synchronises(work[v].for)
      BY <1>3 DEF Synchronises
    <2>3. FlushedSync(work[v].change, work[v].for, work[v].second)'
            <=> FlushedSync(work[v].change, work[v].for, work[v].second)
      BY <1>3 DEF FlushedSync, Computed
    <2>4. QED
      BY <1>2, <1>3, <2>1, <2>2, <2>3
  <1>4. ASSUME NEW w \in Workers, NEW next, Moves(w, next),
               Elsewhere(next) \/ Asks(next) \/ Looks(w, next) \/ Flushes(w, next)
        PROVE  SyncInv'
    <2>1. work'[w] = next /\ \A v \in Workers \ {w} : work'[v] = work[v]
      BY <1>4, GotoIs DEF Moves
    <2>2. UNCHANGED <<metric_terms, org_terms>>
      BY <1>4 DEF Moves, tables
    <2>3. Holds(next)
      <3>1. CASE Elsewhere(next)
        BY <3>1 DEF Elsewhere
      <3>2. CASE Asks(next)
        BY <3>2 DEF Asks, SessionType
      <3>3. CASE Looks(w, next)
        BY <1>4, <3>3, LooksIs
      <3>4. CASE Flushes(w, next)
        BY <3>4 DEF Flushes, FlushedType
      <3>5. QED
        BY <1>4, <3>1, <3>2, <3>3, <3>4
    <2>4. Holds(work[w])'
      BY <2>1, <2>2, <2>3 DEF FlushedSync, Computed
    <2>5. \A v \in Workers \ {w} : Holds(work[v])'
      BY <1>3, <2>1, <2>2
    <2> HIDE DEF Holds
    <2>6. QED
      BY <1>1, <2>4, <2>5
  <1>5. ASSUME NEW w \in Workers, Commit(w)
        PROVE  SyncInv'
    <2>1. /\ work[w] \in FlushedType /\ work[w].change \in ChangeType
          /\ metric_terms' = Overwritten(metric_terms, work[w].change.metrics)
          /\ org_terms' = Overwritten(org_terms, work[w].change.orgs)
          /\ work'[w].pc \notin {"save", "flushed", "fill"}
          /\ \A v \in Workers \ {w} : work'[v] = work[v]
      BY <1>5, CommitIs, ContinuationIs
    <2>2. work[w].pc = "flushed"
      BY <1>5 DEF Commit
    <2>3. ASSUME NEW v \in Workers \ {w}
          PROVE  Holds(work[v])'
      <3> DEFINE at == work[v]
      <3>1. Holds(at) /\ work'[v] = at
        BY <1>2, <2>1
      <3>2. ASSUME at.pc = "flushed", at.for.by = "sync"
            PROVE  FlushedSync(at.change, at.for, at.second)'
        <4>1. FlushedSync(at.change, at.for, at.second)
          BY <3>1, <3>2
        <4>2. Locks(at.change) \cap Locks(work[w].change) = {}
          BY <2>2, <3>2 DEF Exclusive, LocksOf
        <4>3. at.change \in ChangeType
          <5>1. at \in FlushedType
            BY <3>2, WorkIs DEF TypeOK
          <5>2. QED
            BY <5>1 DEF FlushedType
        <4>4. DOMAIN at.change.metrics \subseteq Metrics /\ DOMAIN at.change.orgs \subseteq Orgs
          BY <4>3, PartIs DEF ChangeType
        <4>5. ASSUME NEW c \in DOMAIN at.change.metrics
              PROVE  metric_terms'[c] = metric_terms[c]
          <5>1. <<"metric", c>> \in Locks(at.change)
            BY DEF Locks
          <5>2. c \notin DOMAIN work[w].change.metrics
            <6>1. c \in DOMAIN work[w].change.metrics => <<"metric", c>> \in Locks(work[w].change)
              BY DEF Locks
            <6>2. QED
              BY <4>2, <5>1, <6>1
          <5>3. QED
            BY <2>1, <4>4, <5>2 DEF Overwritten, TypeOK
        <4>6. ASSUME NEW o \in DOMAIN at.change.orgs
              PROVE  org_terms'[o] = org_terms[o]
          <5>1. <<"org", o>> \in Locks(at.change)
            BY DEF Locks
          <5>2. o \notin DOMAIN work[w].change.orgs
            <6>1. o \in DOMAIN work[w].change.orgs => <<"org", o>> \in Locks(work[w].change)
              BY DEF Locks
            <6>2. QED
              BY <4>2, <5>1, <6>1
          <5>3. QED
            BY <2>1, <4>4, <5>2 DEF Overwritten, TypeOK
        <4>7. QED
          BY <3>1, <4>1, <4>5, <4>6 DEF FlushedSync, Computed
      <3>3. QED
        BY <3>1, <3>2
    <2>4. Holds(work[w])'
      BY <2>1
    <2> HIDE DEF Holds
    <2>5. QED
      BY <1>1, <2>3, <2>4
  <1>6. ASSUME NEW w \in Workers, Fill(w)
        PROVE  SyncInv'
    <2>1. /\ work'[w] = Idle /\ \A v \in Workers \ {w} : work'[v] = work[v]
          /\ UNCHANGED <<metric_terms, org_terms>>
      BY <1>6, GotoIs DEF Fill, tables
    <2>2. Holds(work[w])'
      BY <2>1 DEF Idle
    <2>3. \A v \in Workers \ {w} : Holds(work[v])'
      BY <1>3, <2>1
    <2> HIDE DEF Holds
    <2>4. QED
      BY <1>1, <2>2, <2>3
  <1>7. CASE Tick \/ LoadLake \/ UNCHANGED vars
    <2>1. UNCHANGED <<metric_terms, org_terms, work>>
      BY <1>7 DEF Tick, LoadLake, vars, tables
    <2>2. \A v \in Workers : Holds(work[v])'
      BY <1>3, <2>1
    <2> HIDE DEF Holds
    <2>3. QED
      BY <1>1, <2>2
  <1>8. QED
    BY <1>4, <1>5, <1>6, <1>7 DEF StepIs

\* A commit of the synchronisation names rows and does nothing else to them.
LEMMA NamedOnly ==
  ASSUME NEW codes, NEW table \in [codes -> Stored], NEW rows \in PartOf(codes, Stored),
         NEW wanted \in PartOf(codes, RowType), NEW seen \in PartOf(codes, Stored), NEW second,
         commits \in Nat, DOMAIN seen = DOMAIN wanted,
         Computed(table, rows, seen, wanted, second),
         NEW c \in codes
  PROVE  /\ c \notin DOMAIN wanted => Overwritten(table, rows)[c] = table[c]
         /\ \A names :
              c \in DOMAIN wanted /\ Named(seen[c], wanted[c], names) =>
                OnlyNamed(table[c], Overwritten(table, rows)[c], seen[c], names)
  <1> DEFINE new == Overwritten(table, rows)[c]
             old == table[c]
  <1>1. DOMAIN rows = {d \in DOMAIN wanted : Differs(seen[d], wanted[d])}
    BY DEF Computed
  <1>2. c \notin DOMAIN rows => new = old
    BY DEF Overwritten
  <1>3. ASSUME NEW names, c \in DOMAIN wanted, Named(seen[c], wanted[c], names)
        PROVE  OnlyNamed(old, new, seen[c], names)
    <2>1. seen[c] \in Stored /\ wanted[c] \in RowType /\ old \in Stored
      BY <1>3, PartIs
    <2>2. CASE c \notin DOMAIN rows
      <3>1. Exists(seen[c]) /\ wanted[c].name = seen[c].name
        BY <1>1, <1>3, <2>2 DEF Differs, Columns
      <3>2. new = old
        BY <1>2, <2>2
      <3>3. old = seen[c] => new.name \in names
        BY <1>3, <3>1, <3>2 DEF Named
      <3> HIDE DEF new, old
      <3>4. QED
        BY <3>2, <3>3 DEF OnlyNamed
    <2>3. CASE c \in DOMAIN rows
      <3>1. /\ Exists(old) <=> Exists(seen[c])
            /\ rows[c] = [Flushed(old, seen[c], wanted[c]) EXCEPT !.updated_at = second]
        BY <2>3 DEF Computed
      <3>2. CASE Exists(seen[c])
        <4> DEFINE row == Written(old, seen[c], wanted[c])
        <4>1. seen[c] \in RowType /\ old \in RowType
          BY <2>1, <3>1, <3>2, StoredIs
        <4>2. wanted[c] = [seen[c] EXCEPT !.name = wanted[c].name, !.enabled = TRUE]
          BY <1>3, <3>2 DEF Named
        <4>3. wanted[c].manual = seen[c].manual /\ wanted[c].enabled = TRUE
          BY <4>1, <4>2 DEF RowType
        <4>4. /\ row \in RowType
              /\ row.name = IF wanted[c].name # seen[c].name THEN wanted[c].name ELSE old.name
              /\ row.manual = old.manual
              /\ row.enabled = IF TRUE # seen[c].enabled THEN TRUE ELSE old.enabled
          BY <2>1, <4>1, <4>3 DEF Written, RowType
        <4>5. rows[c] = [row EXCEPT !.updated_at = second]
          BY <3>1, <3>2 DEF Flushed
        <4> HIDE DEF row
        <4>6. rows[c].name = row.name /\ rows[c].manual = row.manual /\ rows[c].enabled = row.enabled
          BY <4>4, <4>5 DEF RowType
        <4>7. rows[c] \in RowType
          <5>1. rows[c] \in Stored
            BY <2>3, PartIs
          <5>2. "name" \in DOMAIN rows[c]
            BY <4>4, <4>5 DEF RowType
          <5>3. "name" \notin DOMAIN NoRow
            BY DEF NoRow
          <5>4. QED
            BY <5>1, <5>2, <5>3 DEF Stored
        <4>8. new = [rows[c] EXCEPT !.commit = commits + 1]
          BY <2>3, <4>7, StoredIs DEF Overwritten
        <4>9. new.name = row.name /\ new.manual = row.manual /\ new.enabled = row.enabled
          BY <4>6, <4>7, <4>8 DEF RowType
        <4>10. wanted[c].name \in names
          BY <1>3 DEF Named
        <4>11. seen[c].enabled \in BOOLEAN
          BY <4>1 DEF RowType
        <4> HIDE DEF new, old
        <4>12. new.name \in names \/ new.name = old.name
          BY <4>4, <4>9, <4>10
        <4>13. old = seen[c] => new.name \in names
          BY <4>4, <4>9, <4>10
        <4>14. new.enabled = IF seen[c].enabled THEN old.enabled ELSE TRUE
          BY <4>4, <4>9, <4>11
        <4>15. QED
          BY <3>1, <3>2, <4>4, <4>9, <4>12, <4>13, <4>14 DEF OnlyNamed
      <3>3. CASE ~Exists(seen[c])
        <4>1. rows[c] = [wanted[c] EXCEPT !.updated_at = second]
          BY <3>1, <3>3 DEF Flushed
        <4>2. wanted[c] = Row(wanted[c].name, Blank, TRUE) /\ wanted[c].name \in names
          BY <1>3, <3>3 DEF Named
        <4>3. wanted[c].manual = Blank /\ wanted[c].enabled = TRUE
          BY <4>2 DEF Row
        <4>4. rows[c].name = wanted[c].name /\ rows[c].manual = Blank /\ rows[c].enabled = TRUE
          BY <2>1, <4>1, <4>3 DEF RowType
        <4>5. rows[c] \in RowType
          <5>1. rows[c] \in Stored
            BY <2>3, PartIs
          <5>2. "name" \in DOMAIN rows[c]
            BY <2>1, <4>1 DEF RowType
          <5>3. "name" \notin DOMAIN NoRow
            BY DEF NoRow
          <5>4. QED
            BY <5>1, <5>2, <5>3 DEF Stored
        <4>6. new = [rows[c] EXCEPT !.commit = commits + 1]
          BY <2>3, <4>5, StoredIs DEF Overwritten
        <4>7. new.name = wanted[c].name /\ new.manual = Blank /\ new.enabled = TRUE
          BY <4>4, <4>5, <4>6 DEF RowType
        <4>8. ~seen[c].enabled /\ ~Exists(old)
          BY <3>1, <3>3 DEF Exists, NoRow
        <4> HIDE DEF new, old
        <4>9. QED
          BY <4>2, <4>7, <4>8 DEF OnlyNamed
      <3>4. QED
        BY <3>2, <3>3
    <2>4. QED
      BY <2>2, <2>3
  <1>4. QED
    BY <1>1, <1>2, <1>3

LEMMA KeepsStep ==
  ASSUME CatalogueInv, NEW w \in Workers, [Next]_vars, SyncCommits(w)
  PROVE  BringsNames(work[w].for)
  <1> DEFINE session == work[w].for
             change == work[w].change
  <1>1. Commit(w)
    <2>1. StepIs
      BY StepLemma DEF CatalogueInv
    <2>2. \A v \in Workers : \A next : Moves(v, next) => commits' = commits
      BY DEF Moves
    <2>3. \A v \in Workers : Fill(v) => commits' = commits
      BY DEF Fill
    <2>4. PICK v \in Workers : Commit(v)
      BY <2>1, <2>2, <2>3 DEF StepIs, SyncCommits, Tick, LoadLake, vars
    <2>5. v # w => work'[w] = work[w]
      BY <2>4, CommitIs DEF CatalogueInv
    <2>6. QED
      BY <2>4, <2>5 DEF SyncCommits
  <1>2. /\ work[w] \in FlushedType /\ change \in ChangeType /\ work[w].pc = "flushed"
        /\ metric_terms' = Overwritten(metric_terms, change.metrics)
        /\ org_terms' = Overwritten(org_terms, change.orgs)
    BY <1>1, CommitIs DEF CatalogueInv, Commit
  <1>3. Synchronises(session) /\ FlushedSync(change, session, work[w].second)
    BY <1>2 DEF CatalogueInv, SyncInv, SyncCommits
  <1>4. session \in SessionType
    <2>1. session \in SessionType \cup CleaningType
      BY <1>2 DEF FlushedType
    <2>2. session.by = "sync"
      BY DEF SyncCommits
    <2>3. QED
      BY <2>1, <2>2 DEF CleaningType
  <1>5. metric_synonyms' = metric_synonyms
    <2>1. change.cleared = {} /\ change.dropped = {} /\ change.added = {}
      BY <1>3 DEF FlushedSync
    <2>2. QED
      BY <1>1, <2>1 DEF Commit
  <1>6. app_users' = app_users
    <2>1. DOMAIN change.moved = {}
      BY <1>3 DEF FlushedSync
    <2>2. app_users \in [Users -> Orgs]
      BY DEF CatalogueInv, TypeOK
    <2>3. app_users' = [u \in Users |-> app_users[u]]
      BY <1>1, <2>1 DEF Commit
    <2>4. QED
      BY <2>2, <2>3
  <1> HIDE DEF session, change
  <1>7. /\ change.metrics \in PartOf(Metrics, Stored) /\ change.orgs \in PartOf(Orgs, Stored)
        /\ session.metrics \in PartOf(Metrics, RowType) /\ session.orgs \in PartOf(Orgs, RowType)
        /\ session.seenMetrics \in PartOf(Metrics, Stored)
        /\ session.seenOrgs \in PartOf(Orgs, Stored)
    BY <1>2, <1>4 DEF ChangeType, SessionType
  <1>8. /\ metric_terms \in [Metrics -> Stored] /\ org_terms \in [Orgs -> Stored] /\ commits \in Nat
    BY DEF CatalogueInv, TypeOK
  <1>9. ASSUME NEW c \in Metrics
        PROVE  IF c \in DOMAIN session.metrics
               THEN OnlyNamed(metric_terms[c], metric_terms'[c], session.seenMetrics[c],
                              LakeNames(session.source, c))
               ELSE metric_terms'[c] = metric_terms[c]
    <2>1. /\ DOMAIN session.seenMetrics = DOMAIN session.metrics
          /\ c \in DOMAIN session.metrics =>
               Named(session.seenMetrics[c], session.metrics[c], LakeNames(session.source, c))
      BY <1>3 DEF Synchronises
    <2>2. Computed(metric_terms, change.metrics, session.seenMetrics, session.metrics,
                   work[w].second)
      BY <1>3 DEF FlushedSync
    <2>3. /\ c \notin DOMAIN session.metrics =>
               Overwritten(metric_terms, change.metrics)[c] = metric_terms[c]
          /\ \A names :
               c \in DOMAIN session.metrics
               /\ Named(session.seenMetrics[c], session.metrics[c], names) =>
                 OnlyNamed(metric_terms[c], Overwritten(metric_terms, change.metrics)[c],
                           session.seenMetrics[c], names)
      BY <1>7, <1>8, <2>1, <2>2, NamedOnly
    <2>4. QED
      BY <1>2, <2>1, <2>3
  <1>10. ASSUME NEW o \in Orgs
         PROVE  IF o \in DOMAIN session.orgs
                THEN OnlyNamed(org_terms[o], org_terms'[o], session.seenOrgs[o],
                               OrgNamesOf(session.source, o))
                ELSE org_terms'[o] = org_terms[o]
    <2>1. /\ DOMAIN session.seenOrgs = DOMAIN session.orgs
          /\ o \in DOMAIN session.orgs =>
               Named(session.seenOrgs[o], session.orgs[o], OrgNamesOf(session.source, o))
      BY <1>3 DEF Synchronises
    <2>2. Computed(org_terms, change.orgs, session.seenOrgs, session.orgs, work[w].second)
      BY <1>3 DEF FlushedSync
    <2>3. /\ o \notin DOMAIN session.orgs =>
               Overwritten(org_terms, change.orgs)[o] = org_terms[o]
          /\ \A names :
               o \in DOMAIN session.orgs
               /\ Named(session.seenOrgs[o], session.orgs[o], names) =>
                 OnlyNamed(org_terms[o], Overwritten(org_terms, change.orgs)[o],
                           session.seenOrgs[o], names)
      BY <1>7, <1>8, <2>1, <2>2, NamedOnly
    <2>4. QED
      BY <1>2, <2>1, <2>3
  <1>11. QED
    BY <1>5, <1>6, <1>9, <1>10 DEF BringsNames, session, OrgNamesOf

LEMMA InitInv == Init => CatalogueInv
  <1>1. Init => SyncInv /\ Exclusive
    BY DEF Init, SyncInv, Exclusive, LocksOf, Idle
  <1>2. QED
    BY <1>1, InitTyped, InitServed DEF CatalogueInv

LEMMA InvStep == CatalogueInv /\ [Next]_vars => CatalogueInv'
  <1> SUFFICES ASSUME CatalogueInv, [Next]_vars
               PROVE  CatalogueInv'
    OBVIOUS
  <1>1. TypeOK /\ Stamped /\ Views /\ Cached /\ SyncInv /\ Exclusive
    BY DEF CatalogueInv
  <1>2. StepIs
    BY <1>1, StepLemma
  <1>3. TypeOK'
    BY <1>1, <1>2, TypedStep
  <1>4. Stamped'
    BY <1>1, <1>2, <1>3, StampedStep
  <1>5. Views'
    BY <1>1, <1>2, ViewsStep
  <1>6. Cached'
    BY <1>1, <1>2, CachedStep
  <1>7. SyncInv'
    BY <1>1, <1>2, SyncStep
  <1>8. Exclusive'
    BY <1>1, <1>2, ExclusiveStep
  <1>9. QED
    BY <1>3, <1>4, <1>5, <1>6, <1>7, <1>8 DEF CatalogueInv

LEMMA InvAlways == Spec => []CatalogueInv
  BY InitInv, InvStep, PTL DEF Spec

\* Sessions, flushed changes, views and the cache hold what their columns allow,
\* whatever the lake was loaded with and in whatever order sessions commit.
THEOREM TypeCorrect == Spec => []TypeOK
  <1>1. CatalogueInv => TypeOK
    BY DEF CatalogueInv
  <1>2. QED
    BY <1>1, InvAlways, PTL

\* list_enabled: a reader for whose versions the cache has an answer is told of every
\* enabled metric and synonym, except of what was committed after the answer was
\* read and is no newer than what was newest.
THEOREM AdditionsReachReaders == Spec => []AdditionsAreServed
  <1>1. CatalogueInv => AdditionsAreServed
    BY ServedFollows
  <1>2. QED
    BY <1>1, InvAlways, PTL

\* sync_catalogs: its commits bring the names in force, and change nothing that
\* administrators entered, before it read or after.
THEOREM ManualWorkIsKept == Spec => SyncKeepsManualWork
  <1>1. CatalogueInv /\ [Next]_vars =>
          \A w \in Workers : SyncCommits(w) => BringsNames(work[w].for)
    BY KeepsStep
  <1>2. QED
    BY <1>1, InvAlways, PTL DEF Spec, SyncKeepsManualWork

===============================================================================
