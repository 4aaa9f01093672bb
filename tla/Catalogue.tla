------------------------------- MODULE Catalogue -------------------------------
(***************************************************************************)
(* The catalogue of metrics and organisations, who changes it and who      *)
(* reads it.                                                               *)
(*                                                                         *)
(*   api/routes/catalogs.py      administrators create, change and retire  *)
(*   application/catalog_sync.py the recurring synchronisation with the data *)
(*                               lake, and the clean-up of simulated rows  *)
(*   intranet_deploy.py          the scripts that run the two              *)
(*   semantic/catalogs.py        list_enabled, with its process-wide cache *)
(*                                                                         *)
(* A worker is one database session.  It reads, in a snapshot of its own   *)
(* (MySQL, REPEATABLE READ), and what it changed reaches the database when *)
(* the session is flushed: the mapper writes the columns that differ from  *)
(* what was read, and stamps a row it writes with the second of the        *)
(* statement.  The rows stay locked until the commit.                      *)
(*                                                                         *)
(* `manual` is what only administrators maintain: description, explanation *)
(* and unit of a metric, aliases of an organisation.  Names are sequences  *)
(* of words.  `commit` and `at` number the commits and are history.        *)
(***************************************************************************)
EXTENDS Integers, Sequences, FiniteSets, SequencesExt, FiniteSetsExt

CONSTANTS
  Workers,
  Metrics, Orgs, Users,
  Words, Entries, Synonyms,  \* what names are made of, what is entered by hand
  Scopes,          \* of "metrics", "organizations", "all" and "initialize"
  Lakes,           \* what the data lake holds, load after load
  Payloads,        \* [code, name, manual, enabled, synonyms] of a request
  InitialMetrics, InitialOrgs, InitialSynonyms, InitialUsers,
  ExpectedCount,   \* sit_org_expected_count
  Fallback,        \* --user-org-code
  Prefix,          \* the word sync strips from configured names
  Blank,           \* nothing entered by hand
  Today, MaxClock, MaxCommits

ASSUME ScopesAssumption == Scopes \subseteq {"metrics", "organizations", "all", "initialize"}
ASSUME FallbackAssumption == Fallback \in Orgs
ASSUME BoundsAssumption == MaxClock \in Nat /\ MaxCommits \in Nat /\ Today \in Int

\* A load of the lake: the configured names of metrics, the metrics its facts are
\* about, and the organisations.
Configured(codes) == [code : codes, name : Seq(Words), rank : Int, effective : Int]
Facts == [code : Metrics, source : Metrics, basis : Seq(Words)]
Load == [configs : Seq(Configured(Metrics)), facts : Seq(Facts), orgs : Seq(Configured(Orgs))]

ASSUME LakesAssumption == Len(Lakes) > 0 /\ Lakes \in Seq(Load)

Request == [code : Metrics \cup Orgs, name : Seq(Words), manual : Entries, enabled : BOOLEAN,
            synonyms : SUBSET Synonyms]

ASSUME PayloadsAssumption == Payloads \subseteq Request /\ Blank \in Entries

VARIABLES
  metric_terms, org_terms,   \* [code -> a row or NoRow]
  metric_synonyms,           \* [code, synonym, updated_at, commit]
  app_users,                 \* [user -> org_code]
  lake,                      \* the last load of the data lake
  cache,                     \* _cache_key, _cache_value
  work,                      \* [Workers -> what a session has read and written]
  clock, commits

tables == <<metric_terms, org_terms, metric_synonyms, app_users>>
vars == <<tables, lake, cache, work, clock, commits>>

RowType ==
  [name : Seq(Words), manual : Entries, enabled : BOOLEAN, updated_at : Nat, commit : Nat]
NoRow == [enabled |-> FALSE]
Stored == RowType \cup {NoRow}
Exists(row) == row # NoRow

Row(name, manual, enabled) ==
  [name |-> name, manual |-> manual, enabled |-> enabled, updated_at |-> 0, commit |-> 0]

SynonymType == [code : Metrics, synonym : Synonyms, updated_at : Nat, commit : Nat]

\* What is there at the beginning is as old as the clock and precedes all commits.
First(rows) == \A row \in rows : Exists(row) => row.updated_at = 0 /\ row.commit = 0

ASSUME InitialAssumption ==
  /\ InitialMetrics \in [Metrics -> Stored] /\ InitialOrgs \in [Orgs -> Stored]
  /\ InitialSynonyms \subseteq SynonymType /\ InitialUsers \in [Users -> Orgs]
  /\ First({InitialMetrics[c] : c \in Metrics}) /\ First({InitialOrgs[o] : o \in Orgs})
  /\ First(InitialSynonyms)

Columns == {"name", "manual", "enabled"}

Idle == [pc |-> "idle"]

Init ==
  /\ metric_terms = InitialMetrics
  /\ org_terms = InitialOrgs
  /\ metric_synonyms = InitialSynonyms
  /\ app_users = InitialUsers
  /\ lake = 1
  /\ cache = [key |-> <<>>, value |-> <<>>, at |-> 0]
  /\ work = [w \in Workers |-> Idle]
  /\ clock = 0
  /\ commits = 0

\* The function that has x for a code and nothing else, and one that has it too.
Only(code, x) == [c \in {code} |-> x]
With(f, code, x) == [c \in DOMAIN f \cup {code} |-> IF c = code THEN x ELSE f[c]]

Goto(w, next) == work' = [work EXCEPT ![w] = next]

-------------------------------------------------------------------------------
(* Transactions *)

\* What a session asks for: rows by code, as they were read and as it wants
\* them, metrics whose synonyms are cleared, synonyms that are added.  `source` is
\* the loads of the lake it read, `next` how the worker goes on after the commit.
Session(by, source, metrics, orgs, cleared, added, next) ==
  [pc |-> "save", by |-> by, source |-> source, metrics |-> metrics, orgs |-> orgs,
   seenMetrics |-> [c \in DOMAIN metrics |-> metric_terms[c]],
   seenOrgs |-> [o \in DOMAIN orgs |-> org_terms[o]],
   cleared |-> cleared, added |-> added, next |-> next]

\* Faulty variant of Written: the row is written back as the session read it.
WholeRow(row, seen, wanted) == wanted

\* The mapper updates the columns that differ from what was read.
Written(row, seen, wanted) ==
  [row EXCEPT !.name = IF wanted.name # seen.name THEN wanted.name ELSE @,
              !.manual = IF wanted.manual # seen.manual THEN wanted.manual ELSE @,
              !.enabled = IF wanted.enabled # seen.enabled THEN wanted.enabled ELSE @]

\* A new row is inserted whole; a row that is as it was read is left alone.
Flushed(row, seen, wanted) == IF Exists(seen) THEN Written(row, seen, wanted) ELSE wanted

Differs(seen, wanted) ==
  ~Exists(seen) \/ \E column \in Columns : wanted[column] # seen[column]

\* The rows of a table that a session which read `seen` and wants `wanted` writes.
Writes(table, seen, wanted) ==
  LET dirty == {c \in DOMAIN wanted : Differs(seen[c], wanted[c])}
  IN [c \in dirty |-> [Flushed(table[c], seen[c], wanted[c]) EXCEPT !.updated_at = clock]]

\* An update finds its row, an insert does not: otherwise the flush fails.
Fits(table, seen, wanted) ==
  \A c \in DOMAIN wanted :
    Differs(seen[c], wanted[c]) => (Exists(table[c]) <=> Exists(seen[c]))

Locks(change) ==
  ({"metric"} \X DOMAIN change.metrics) \cup ({"org"} \X DOMAIN change.orgs)
  \cup ({"synonyms"} \X (change.cleared \cup {s.code : s \in change.added \cup change.dropped}))
  \cup ({"user"} \X DOMAIN change.moved)

\* A transaction that changes nothing is not numbered.
Numbered(change) == IF Locks(change) = {} THEN commits ELSE commits + 1

LocksOf(w) == IF work[w].pc = "flushed" THEN Locks(work[w].change) ELSE {}

\* The statements of a flush, within one second.
Flush(w, change) ==
  /\ \A v \in Workers \ {w} : LocksOf(v) \cap Locks(change) = {}
  /\ Goto(w, [pc |-> "flushed", change |-> change, for |-> work[w], second |-> clock])
  /\ UNCHANGED <<tables, lake, cache, clock, commits>>

\* The flush of a session that inserts and updates.
Save(w) ==
  LET session == work[w] IN
  /\ session.pc = "save"
  /\ Fits(metric_terms, session.seenMetrics, session.metrics)
  /\ Fits(org_terms, session.seenOrgs, session.orgs)
  /\ Flush(w, [metrics |-> Writes(metric_terms, session.seenMetrics, session.metrics),
               orgs |-> Writes(org_terms, session.seenOrgs, session.orgs),
               cleared |-> session.cleared, dropped |-> {}, added |-> session.added,
               moved |-> <<>>])

Overwritten(table, rows) ==
  [c \in DOMAIN table |->
     IF c \notin DOMAIN rows THEN table[c]
     ELSE IF Exists(rows[c]) THEN [rows[c] EXCEPT !.commit = commits + 1] ELSE NoRow]

Commit(w) ==
  LET change == work[w].change IN
  /\ work[w].pc = "flushed"
  /\ commits' = Numbered(change)
  /\ commits' <= MaxCommits
  /\ metric_terms' = Overwritten(metric_terms, change.metrics)
  /\ org_terms' = Overwritten(org_terms, change.orgs)
  /\ metric_synonyms' =
       {s \in metric_synonyms : s.code \notin change.cleared /\ s \notin change.dropped} \cup
       {[code |-> s.code, synonym |-> s.synonym, updated_at |-> work[w].second,
         commit |-> commits + 1] : s \in change.added}
  /\ app_users' =
       [u \in Users |-> IF u \in DOMAIN change.moved THEN change.moved[u] ELSE app_users[u]]
  /\ Goto(w, work[w].for.next)
  /\ UNCHANGED <<lake, cache, clock>>

\* A dry run, a row that is gone or already there, a reference that would be
\* broken, a deadlock, the end of the process.
RollBack(w) ==
  /\ work[w].pc # "idle"
  /\ Goto(w, Idle)
  /\ UNCHANGED <<tables, lake, cache, clock, commits>>

-------------------------------------------------------------------------------
(* Administrators.  A request that finds no row, or one that is already there, *)
(* is refused and changes nothing.                                             *)

NoSource == [configs |-> 0, facts |-> 0, orgs |-> 0]

Spoken(payload) == {[code |-> payload.code, synonym |-> text] : text \in payload.synonyms}

Payload(payload) == Row(payload.name, payload.manual, payload.enabled)

Edited(row, payload) ==
  [row EXCEPT !.name = payload.name, !.manual = payload.manual, !.enabled = payload.enabled]

Retired(row) == [row EXCEPT !.enabled = FALSE]

Begin(w, session) ==
  /\ work[w].pc = "idle"
  /\ Goto(w, session)
  /\ UNCHANGED <<tables, lake, cache, clock, commits>>

CreateMetric(w, payload) ==
  LET c == payload.code IN
  /\ c \in Metrics /\ ~Exists(metric_terms[c])
  /\ Begin(w, Session("admin", NoSource, Only(c, Payload(payload)), <<>>,
                      {}, Spoken(payload), Idle))

UpdateMetric(w, payload) ==
  LET c == payload.code IN
  /\ c \in Metrics /\ Exists(metric_terms[c])
  /\ Begin(w, Session("admin", NoSource, Only(c, Edited(metric_terms[c], payload)), <<>>,
                      {c}, Spoken(payload), Idle))

DeleteMetric(w, c) ==
  /\ Exists(metric_terms[c])
  /\ Begin(w, Session("admin", NoSource, Only(c, Retired(metric_terms[c])), <<>>, {}, {}, Idle))

CreateOrganization(w, payload) ==
  LET o == payload.code IN
  /\ o \in Orgs /\ ~Exists(org_terms[o])
  /\ Begin(w, Session("admin", NoSource, <<>>, Only(o, Payload(payload)), {}, {}, Idle))

UpdateOrganization(w, payload) ==
  LET o == payload.code IN
  /\ o \in Orgs /\ Exists(org_terms[o])
  /\ Begin(w, Session("admin", NoSource, <<>>, Only(o, Edited(org_terms[o], payload)),
                      {}, {}, Idle))

DeleteOrganization(w, o) ==
  /\ Exists(org_terms[o])
  /\ Begin(w, Session("admin", NoSource, <<>>, Only(o, Retired(org_terms[o])), {}, {}, Idle))

-------------------------------------------------------------------------------
(* The synchronisation with the data lake *)

\* One row of the loop of _select_latest.
SelectRow(selected, row) ==
  IF \/ row.effective > Today
     \/ row.code \in DOMAIN selected /\ row.rank <= selected[row.code].rank
  THEN selected ELSE With(selected, row.code, row)

\* _select_latest: of the rows of a code that are in force, the one that ranks
\* highest, the first among equals.  after[n]: what is selected after n rows.
Latest(rows) ==
  LET after[n \in 0 .. Len(rows)] == IF n = 0 THEN <<>> ELSE SelectRow(after[n - 1], rows[n])
  IN after[Len(rows)]

\* _strip_metric_prefix
Strip(name) == IF name # <<>> /\ Head(name) = Prefix THEN Tail(name) ELSE name

\* _compose_metric_name: the value basis qualifies the name, unless one of the
\* two says what the other does.
Compose(base, basis) ==
  IF base = <<>> THEN <<>>
  ELSE IF IsPrefix(base, basis) THEN basis
  ELSE IF IsSuffix(basis, base) THEN base ELSE base \o basis

\* One fact of the loop of _build_metric_catalog.
BuildName(built, fact, configs) ==
  LET name == Compose(Strip(configs[fact.source].name), fact.basis) IN
  IF fact.source \notin DOMAIN configs THEN built
  ELSE IF name = <<>> THEN built
  ELSE IF fact.code \in DOMAIN built.names /\ built.names[fact.code] # name
       THEN [built EXCEPT !.errors = @ + 1]
       ELSE [built EXCEPT !.names = With(@, fact.code, name)]

\* _build_metric_catalog: the first name a code gets stays, another one is an
\* error; facts without a configured metric are skipped.
MetricCatalog(facts, configs) ==
  LET after[n \in 0 .. Len(facts)] ==
        IF n = 0 THEN [names |-> <<>>, errors |-> 0]
        ELSE BuildName(after[n - 1], facts[n], configs)
  IN after[Len(facts)]

\* The rows the lake has, named and enabled; what is there keeps what was entered.
Upserted(table, names) ==
  [c \in DOMAIN names |->
     IF Exists(table[c]) THEN [table[c] EXCEPT !.name = names[c], !.enabled = TRUE]
     ELSE Row(names[c], Blank, TRUE)]

NoSummary == [metrics |-> {}, errors |-> 0, orgs |-> {}]

\* sync_catalogs and initialize_synchronized_catalogs begin with the configured
\* names, or with the organisations.
StartSync(w, scope) ==
  Begin(w, IF scope = "organizations"
           THEN [pc |-> "organizations", scope |-> scope, summary |-> NoSummary]
           ELSE [pc |-> "facts", scope |-> scope, load |-> lake])

\* The facts of the newest snapshot, and then the rows the application has.  The
\* lake may have been loaded since its configuration was read.
SyncMetrics(w) ==
  LET at == work[w]
      built == MetricCatalog(Lakes[lake].facts, Latest(Lakes[at.load].configs))
      summary == [metrics |-> DOMAIN built.names, errors |-> built.errors, orgs |-> {}]
  IN
  /\ at.pc = "facts"
  /\ Goto(w, Session("sync", [configs |-> at.load, facts |-> lake, orgs |-> 0],
                     Upserted(metric_terms, built.names), <<>>, {}, {},
                     IF at.scope = "metrics" THEN Idle
                     ELSE [pc |-> "organizations", scope |-> at.scope, summary |-> summary]))
  /\ UNCHANGED <<tables, lake, cache, clock, commits>>

\* What the organisations in scope are called; one without a name is left alone.
OrgNames(selected) ==
  [o \in {p \in DOMAIN selected : selected[p].name # <<>>} |-> selected[o].name]

\* Organisations are brought when as many are in scope as there should be, with a
\* name or without; the metrics are committed by then.
SyncOrganizations(w) ==
  LET at == work[w]  selected == Latest(Lakes[lake].orgs) IN
  /\ at.pc = "organizations"
  /\ Goto(w, IF Cardinality(DOMAIN selected) # ExpectedCount THEN Idle
             ELSE Session("sync", [NoSource EXCEPT !.orgs = lake], <<>>,
                    Upserted(org_terms, OrgNames(selected)), {}, {},
                    IF at.scope # "initialize" THEN Idle
                    ELSE [pc |-> "clean up",
                          summary |-> [at.summary EXCEPT !.orgs = DOMAIN selected]]))
  /\ UNCHANGED <<tables, lake, cache, clock, commits>>

\* The clean-up begins when the synchronisation was complete, and reads.
ReadForCleanUp(w) ==
  LET summary == work[w].summary IN
  /\ work[w].pc = "clean up"
  /\ Goto(w, IF \/ summary.metrics = {} \/ summary.orgs = {} \/ summary.errors > 0
                \/ Fallback \notin summary.orgs
             THEN Idle
             ELSE [pc |-> "cleaning", by |-> "clean up", summary |-> summary,
                   metrics |-> {c \in Metrics \ summary.metrics : Exists(metric_terms[c])},
                   synonyms |-> {s \in metric_synonyms : s.code \notin summary.metrics},
                   orgs |-> {o \in Orgs \ summary.orgs : Exists(org_terms[o])},
                   users |-> {u \in Users : app_users[u] \notin summary.orgs}, next |-> Idle])
  /\ UNCHANGED <<tables, lake, cache, clock, commits>>

\* What was read and is not of the lake is deleted, row by row, users move to the
\* fallback, which has to be there.  (An account that got one of the organisations
\* meanwhile rolls it back.)
CleanUp(w) ==
  LET at == work[w] IN
  /\ at.pc = "cleaning"
  /\ at.users # {} => Exists(org_terms[Fallback])
  /\ Flush(w, [metrics |-> [c \in at.metrics |-> NoRow], orgs |-> [o \in at.orgs |-> NoRow],
               cleared |-> {}, dropped |-> at.synonyms, added |-> {},
               moved |-> [u \in at.users |-> Fallback]])

-------------------------------------------------------------------------------
(* Reading *)

Newest(rows) == IF rows = {} THEN -1 ELSE Max({row.updated_at : row \in rows})

RowsOf(table) == {table[c] : c \in {d \in DOMAIN table : Exists(table[d])}}

\* Faulty variant of CacheKey: the versions of synonyms are left out.
KeyOfTerms(view) == <<Newest(RowsOf(view.terms)), -1>>

CacheKey(view) == <<Newest(RowsOf(view.terms)), Newest(view.synonyms)>>

\* MetricCatalogItem, by code
Listed(view) ==
  [c \in {d \in Metrics : view.terms[d].enabled} |->
     [name |-> view.terms[c].name, manual |-> view.terms[c].manual,
      aliases |-> {s.synonym : s \in {r \in view.synonyms : r.code = c}}]]

View == [terms |-> metric_terms, synonyms |-> metric_synonyms, at |-> commits]

\* list_enabled reads versions and rows in one snapshot.
ReadVersions(w) == Begin(w, [pc |-> "fill", view |-> View, missed |-> FALSE])

\* What the cache has for these versions is answered, which changes nothing.
HitCache(w) ==
  /\ work[w].pc = "fill" /\ ~work[w].missed
  /\ cache.key = CacheKey(work[w].view)
  /\ Goto(w, Idle)
  /\ UNCHANGED <<tables, lake, cache, clock, commits>>

\* Otherwise the rows are put there, when other readers may have done so and the
\* tables may have changed.
MissCache(w) ==
  /\ work[w].pc = "fill" /\ ~work[w].missed
  /\ cache.key # CacheKey(work[w].view)
  /\ Goto(w, [work[w] EXCEPT !.missed = TRUE])
  /\ UNCHANGED <<tables, lake, cache, clock, commits>>

Fill(w) ==
  LET view == work[w].view IN
  /\ work[w].pc = "fill" /\ work[w].missed
  /\ cache' = [key |-> CacheKey(view), value |-> Listed(view), at |-> view.at]
  /\ Goto(w, Idle)
  /\ UNCHANGED <<tables, lake, clock, commits>>

-------------------------------------------------------------------------------
(* Surroundings *)

Tick ==
  /\ clock < MaxClock
  /\ clock' = clock + 1
  /\ UNCHANGED <<tables, lake, cache, work, commits>>

LoadLake ==
  /\ lake < Len(Lakes)
  /\ lake' = lake + 1
  /\ UNCHANGED <<tables, cache, work, clock, commits>>

Administrate(w) ==
  \E payload \in Payloads :
    \/ CreateMetric(w, payload) \/ UpdateMetric(w, payload)
    \/ CreateOrganization(w, payload) \/ UpdateOrganization(w, payload)

Retire(w) == \/ \E c \in Metrics : DeleteMetric(w, c)
             \/ \E o \in Orgs : DeleteOrganization(w, o)

Synchronise(w) ==
  \/ \E scope \in Scopes : StartSync(w, scope)
  \/ SyncMetrics(w) \/ SyncOrganizations(w)
  \/ ReadForCleanUp(w) \/ CleanUp(w)

Read(w) == ReadVersions(w) \/ HitCache(w) \/ MissCache(w) \/ Fill(w)

Next ==
  \/ \E w \in Workers : \/ Administrate(w) \/ Retire(w) \/ Synchronise(w) \/ Read(w)
                         \/ Save(w) \/ Commit(w) \/ RollBack(w)
  \/ Tick \/ LoadLake

Spec == Init /\ [][Next]_vars

-------------------------------------------------------------------------------
(* Properties *)

\* The configured rows of a metric that are in force and rank highest.
InForce(configs, source) ==
  LET valid == {r \in ToSet(configs) : r.code = source /\ r.effective <= Today}
  IN {r \in valid : \A other \in valid : other.rank <= r.rank}

\* What the lake may call a metric, by the two loads its tables were read from.
LakeNames(source, c) ==
  LET configs == Lakes[source.configs].configs IN
  UNION {{Compose(Strip(r.name), f.basis) : r \in InForce(configs, f.source)} :
         f \in {fact \in ToSet(Lakes[source.facts].facts) : fact.code = c}}

\* What the synchronisation makes of a row: a name that is in force, enabled; what
\* was entered by hand stays, however late it was entered, and a row that was
\* retired after it was read stays retired.
OnlyNamed(old, new, seen, names) ==
  /\ new # old =>
       /\ new.name \in names \/ (Exists(old) /\ new.name = old.name)
       /\ new.manual = IF Exists(old) THEN old.manual ELSE Blank
       /\ new.enabled = IF seen.enabled THEN old.enabled ELSE TRUE
  /\ old = seen => new.name \in names

SyncCommits(w) ==
  /\ work[w].pc = "flushed" /\ work'[w].pc # "flushed" /\ commits' # commits
  /\ work[w].for.by = "sync"

BringsNames(session) ==
  /\ metric_synonyms' = metric_synonyms /\ app_users' = app_users
  /\ \A c \in Metrics :
       IF c \in DOMAIN session.metrics
       THEN OnlyNamed(metric_terms[c], metric_terms'[c], session.seenMetrics[c],
                      LakeNames(session.source, c))
       ELSE metric_terms'[c] = metric_terms[c]
  /\ \A o \in Orgs :
       IF o \in DOMAIN session.orgs
       THEN OnlyNamed(org_terms[o], org_terms'[o], session.seenOrgs[o],
                      {r.name : r \in InForce(Lakes[session.source.orgs].orgs, o)} \ {<<>>})
       ELSE org_terms'[o] = org_terms[o]

\* A commit of the synchronisation brings the names in force and changes nothing
\* else, whatever administrators committed since it read: no synonym, alias or
\* explanation, no row the lake does not have, no row retired meanwhile.
SyncKeepsManualWork ==
  [][\A w \in Workers : SyncCommits(w) => BringsNames(work[w].for)]_vars

\* An addition the reader of the cache does not see was committed after the cache
\* was read, and is no newer than what was newest then: only what shares its
\* second, or was flushed before and committed late, waits for the next change.
Late(row, newest) == row.commit > cache.at /\ row.updated_at <= newest

AdditionsAreServed ==
  cache.key = CacheKey(View) =>
    \A c \in {d \in Metrics : metric_terms[d].enabled} :
      LET row == metric_terms[c]  item == cache.value[c] IN
      \/ Late(row, cache.key[1])
      \/ /\ c \in DOMAIN cache.value
         /\ item.name = row.name /\ item.manual = row.manual
         /\ \A s \in metric_synonyms :
              s.code = c => s.synonym \in item.aliases \/ Late(s, cache.key[2])
===============================================================================
