------------------------------- MODULE TestSuites -------------------------------
(***************************************************************************)
(* The suites of test cases of the test centre.                            *)
(*                                                                         *)
(*   test_center.py       TestCenterRepository: suites.json                *)
(*   test_case_import.py  a workbook is previewed, then confirmed           *)
(*                                                                         *)
(* The repository rewrites its file under a lock, so creating, changing and *)
(* deleting a suite are one step each.  An import is three: the preview     *)
(* reads the suite, the confirmation reads it again and merges, and what    *)
(* was merged is written; other requests come between.                      *)
(*                                                                         *)
(* A case is its number, its question and what is expected of the answer;   *)
(* the several fields that may be expected are one.                         *)
(***************************************************************************)
EXTENDS Integers, Sequences, SequencesExt, FiniteSetsExt

CONSTANTS
  Baseline,      \* "phase-one-baseline", the suite that comes with the program
  SuiteIds,      \* its id and those uuid4 returns
  Questions, Answers,
  Nothing,       \* a case that expects nothing
  DefaultCases,  \* the cases of the baseline
  Lists,         \* the lists of cases administrators save
  Sheets,        \* the workbooks they upload, as lists of rows
  Admins,
  MaxEdits       \* bound: changes of suites; an import may end beyond it

Case == [id : Nat, question : Questions, expected : Answers \cup {Nothing}]

\* A row without a number has 0; one that cannot be read has no question.
NoQuestion == "no question"
Row == [id : Nat, question : Questions \cup {NoQuestion}, expected : Answers \cup {Nothing}]

ASSUME BaselineAssumption == Baseline \in SuiteIds /\ DefaultCases \in Seq(Case)
ASSUME QuestionsAssumption == NoQuestion \notin Questions /\ Nothing \notin Answers
ASSUME ListsAssumption == Lists \subseteq Seq(Case) /\ Sheets \subseteq Seq(Row)
ASSUME EditsAssumption == MaxEdits \in Nat

VARIABLES
  suites,        \* [SuiteIds -> suite], the file
  import,        \* [Admins -> the import an administrator is busy with]
  edits

suiteVars == <<suites, import, edits>>

Suite(state, cases) == [state |-> state, cases |-> cases]

Live(s) == suites[s].state = "live"

NoImport == [pc |-> "none", suite |-> Baseline, mode |-> "append", cases |-> <<>>,
             seen |-> <<>>, own |-> FALSE, base |-> <<>>, merged |-> <<>>, skipped |-> 0]

SuitesInit ==
  /\ suites = [s \in SuiteIds |-> IF s = Baseline THEN Suite("live", DefaultCases)
                                  ELSE Suite("unborn", <<>>)]
  /\ import = [a \in Admins |-> NoImport]
  /\ edits = 0

Edit == edits < MaxEdits /\ edits' = edits + 1

-------------------------------------------------------------------------------
(* Saving suites *)

CreateSuite(s, cases) ==
  /\ suites[s].state = "unborn"
  /\ Edit
  /\ suites' = [suites EXCEPT ![s] = Suite("live", cases)]
  /\ UNCHANGED import

UpdateSuite(s, cases) ==
  /\ Live(s)
  /\ Edit
  /\ suites' = [suites EXCEPT ![s].cases = cases]
  /\ UNCHANGED import

DeleteSuite(s) ==
  /\ Live(s)
  /\ Edit
  /\ suites' = [suites EXCEPT ![s] = Suite("deleted", <<>>)]
  /\ UNCHANGED import

\* _case_has_expectation
HasExpectation(cases) == \E i \in DOMAIN cases : cases[i].expected # Nothing

\* A repository that is opened repairs a baseline that expects nothing.
Refreshed ==
  IF Live(Baseline) /\ ~HasExpectation(suites[Baseline].cases)
  THEN [suites EXCEPT ![Baseline].cases = DefaultCases] ELSE suites

-------------------------------------------------------------------------------
(* Importing a workbook *)

Ids(cases) == {cases[i].id : i \in DOMAIN cases}
Asked(cases) == {cases[i].question : i \in DOMAIN cases}

Clashes(case, cases) == case.id \in Ids(cases) \/ case.question \in Asked(cases)

\* _parse_case: a row without a number gets the next one.
Numbered(acc, row) ==
  IF row.id = 0 THEN [id |-> acc.next, next |-> acc.next + 1]
  ELSE [id |-> row.id, next |-> Max({acc.next, row.id + 1})]

\* One row of the loop of preview_accuracy_import.
PreviewRow(base, acc, row) ==
  LET number == Numbered(acc, row)
      case == [row EXCEPT !.id = number.id]
  IN
  IF row.question = NoQuestion
  THEN [acc EXCEPT !.errors = @ + 1]
  ELSE IF Clashes(case, base) \/ Clashes(case, acc.cases)
       THEN [acc EXCEPT !.duplicates = Append(@, row), !.next = number.next]
       ELSE [acc EXCEPT !.cases = Append(@, case), !.next = number.next]

\* after[n]: what the loop has found when it is through n rows.
Preview(base, sheet) ==
  LET after[n \in 0 .. Len(sheet)] ==
        IF n = 0
        THEN [cases |-> <<>>, duplicates |-> <<>>, errors |-> 0,
              next |-> Max(Ids(base) \cup {0}) + 1]
        ELSE PreviewRow(base, after[n - 1], sheet[n])
  IN after[Len(sheet)]

\* The cases of the suite that an import in this mode adds to.
Base(mode, cases) == IF mode = "append" THEN cases ELSE <<>>

\* can_import
CanImport(preview) == preview.cases # <<>> /\ preview.errors = 0

\* preview_suite_import; the browser goes on if the preview says it can.
PreviewImport(a, s, sheet, mode) ==
  LET preview == Preview(Base(mode, suites[s].cases), sheet) IN
  /\ import[a].pc = "none"
  /\ Live(s)
  /\ edits < MaxEdits
  /\ CanImport(preview)
  /\ import' = [import EXCEPT
       ![a] = [NoImport EXCEPT !.pc = "previewed", !.suite = s, !.mode = mode,
                               !.cases = preview.cases, !.seen = suites[s].cases]]
  /\ UNCHANGED <<suites, edits>>

\* Faulty variant of MergeCase: the suite's own cases are what counts.
MergeAgainstBase(base, acc, case) ==
  IF Clashes(case, base) THEN [acc EXCEPT !.skipped = @ + 1]
  ELSE [acc EXCEPT !.merged = Append(@, case)]

\* One case of the loop of apply_accuracy_import.
MergeCase(base, acc, case) ==
  IF Clashes(case, acc.merged) THEN [acc EXCEPT !.skipped = @ + 1]
  ELSE [acc EXCEPT !.merged = Append(@, case)]

Merge(base, cases) ==
  LET after[n \in 0 .. Len(cases)] ==
        IF n = 0 THEN [merged |-> base, skipped |-> 0]
        ELSE MergeCase(base, after[n - 1], cases[n])
  IN after[Len(cases)]

\* confirm_suite_import: the suite is read again; 404 if it is gone.
ReadForImport(a) ==
  LET work == import[a]
      base == Base(work.mode, suites[work.suite].cases)
      merge == Merge(base, work.cases)
  IN
  /\ work.pc = "previewed"
  /\ \/ /\ Live(work.suite)
        /\ import' = [import EXCEPT ![a] =
             [work EXCEPT !.pc = "merged", !.base = base, !.merged = merge.merged,
                          !.skipped = merge.skipped]]
     \/ ~Live(work.suite) /\ import' = [import EXCEPT ![a] = NoImport]
  /\ UNCHANGED <<suites, edits>>

\* update_suite
WriteImport(a) ==
  LET work == import[a] IN
  /\ work.pc = "merged"
  /\ \/ /\ Live(work.suite)
        /\ edits' = Min({edits + 1, MaxEdits})
        /\ suites' = [suites EXCEPT ![work.suite].cases = work.merged]
     \/ ~Live(work.suite) /\ UNCHANGED <<suites, edits>>
  /\ import' = [import EXCEPT ![a] = NoImport]

\* A client of the interface may confirm any list of cases.
PostCases(a, cases) ==
  /\ import[a].pc = "previewed"
  /\ cases # <<>>
  /\ import' = [import EXCEPT ![a].cases = cases, ![a].own = TRUE]
  /\ UNCHANGED <<suites, edits>>

Saving ==
  \E s \in SuiteIds :
    \/ \E cases \in Lists : CreateSuite(s, cases) \/ UpdateSuite(s, cases)
    \/ DeleteSuite(s)

Importing ==
  \E a \in Admins :
    \/ \E s \in SuiteIds, sheet \in Sheets, mode \in {"append", "replace"} :
         PreviewImport(a, s, sheet, mode)
    \/ ReadForImport(a) \/ WriteImport(a)
    \/ \E cases \in Lists : PostCases(a, cases)

-------------------------------------------------------------------------------
(* Properties *)

\* An import adds no case whose number or question the suite has already, also
\* if the cases that are confirmed repeat each other.
ImportAddsNoDuplicates ==
  [][\A a \in Admins : WriteImport(a) /\ Live(import[a].suite) =>
       LET cases == suites'[import[a].suite].cases IN
       \A j \in Len(import[a].base) + 1 .. Len(cases) :
         ~Clashes(cases[j], SubSeq(cases, 1, j - 1))]_suiteVars
===============================================================================
