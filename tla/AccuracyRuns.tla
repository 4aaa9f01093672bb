------------------------------ MODULE AccuracyRuns ------------------------------
(***************************************************************************)
(* Runs of a suite: a thread of the service and a child process.           *)
(*                                                                         *)
(*   test_center.py          TestCenterRepository: runs.json,              *)
(*                           AccuracyRunManager: start, _execute           *)
(*   routes/test_center.py   _services, start_run                          *)
(*   run_accuracy_suite.py   the child                                     *)
(*                                                                         *)
(* The first request that needs them makes a repository and a manager and  *)
(* leaves them for all others; a repository that is opened ends the runs a  *)
(* dead process left.  Two requests that come first both make a pair, each  *)
(* with locks of its own: `doubled` says so.                                *)
(*                                                                         *)
(* Reading and writing the file of runs are one step, as under the lock of  *)
(* one repository.  A child whose parent has died changes nothing here.      *)
(***************************************************************************)
EXTENDS TestSuites, FiniteSets

CONSTANTS
  Workers,       \* requests that start a run
  Kept,          \* runs the file keeps: 100
  PipeSize,      \* diagnostics that fit into the pipe of standard error
  NoRun,
  MaxCases,      \* bound: cases of a suite that is run
  MaxRuns, MaxPairs, MaxCrashes   \* bounds

ASSUME SizesAssumption == Kept \in Nat \ {0} /\ PipeSize \in Nat
ASSUME BoundsAssumption == MaxCases \in Nat /\ MaxRuns \in Nat /\ MaxPairs \in Nat /\ MaxCrashes \in Nat
ASSUME NoRunAssumption == NoRun \notin 1 .. MaxRuns

RunIds == 1 .. MaxRuns

VARIABLES
  runs,          \* the file of runs, newest first
  executor,      \* [RunIds -> the thread of a run]
  child,         \* [RunIds -> its process]
  worker,        \* [Workers -> a request]
  pairs,         \* repositories and managers made so far
  published,     \* the pair in app.state, 0 for none
  doubled,       \* a process made two pairs
  crashes

runVars == <<runs, executor, child, worker, pairs, published, doubled, crashes>>
vars == <<suiteVars, runVars>>

Active == {"queued", "running"}

Run(r, status, results) == [id |-> r, status |-> status, results |-> results]

NoExecutor == [pc |-> "none", cases |-> <<>>, run |-> Run(NoRun, "none", <<>>)]

NoChild == [pc |-> "none", todo |-> {}, answers |-> <<>>, lines |-> <<>>, diagnostics |-> 0]

Idle == [pc |-> "idle", pair |-> 0, suite |-> Baseline, cases |-> <<>>]

Init ==
  /\ SuitesInit
  /\ runs = <<>>
  /\ executor = [r \in RunIds |-> NoExecutor]
  /\ child = [r \in RunIds |-> NoChild]
  /\ worker = [w \in Workers |-> Idle]
  /\ pairs = 0 /\ published = 0 /\ doubled = FALSE
  /\ crashes = 0

Listed(file) == {file[i].id : i \in DOMAIN file}

ActiveRuns == {r \in RunIds : \E i \in DOMAIN runs : runs[i].id = r /\ runs[i].status \in Active}

\* items[:100]
Trimmed(file) == IF Len(file) <= Kept THEN file ELSE SubSeq(file, 1, Kept)

\* save_run
Saved(file, run) ==
  IF run.id \in Listed(file)
  THEN Trimmed([i \in DOMAIN file |-> IF file[i].id = run.id THEN run ELSE file[i]])
  ELSE Trimmed(<<run>> \o file)

-------------------------------------------------------------------------------
(* The first request *)

\* Faulty variant of Interrupted: a restart leaves the runs alone.
LeftAlone(file) == file

\* TestCenterRepository.__init__: nobody executes these runs any more.
Interrupted(file) ==
  [i \in DOMAIN file |->
     IF file[i].status \in Active THEN [file[i] EXCEPT !.status = "failed"] ELSE file[i]]

\* _services finds the pair, or finds none and will make one.
Services(w, s) ==
  /\ worker[w] = Idle
  /\ suites[s].state # "unborn"
  /\ Len(suites[s].cases) <= MaxCases
  /\ worker' = [worker EXCEPT ![w] =
       [Idle EXCEPT !.suite = s, !.pair = published,
                    !.pc = IF published = 0 THEN "make" ELSE "suite"]]
  /\ UNCHANGED <<suiteVars, runs, executor, child, pairs, published, doubled, crashes>>

MakePair(w) ==
  /\ worker[w].pc = "make"
  /\ pairs < MaxPairs
  /\ pairs' = pairs + 1
  /\ published' = pairs + 1
  /\ doubled' = (doubled \/ published # 0)
  /\ suites' = Refreshed
  /\ runs' = Interrupted(runs)
  /\ worker' = [worker EXCEPT ![w].pc = "suite", ![w].pair = pairs + 1]
  /\ UNCHANGED <<import, edits, executor, child, crashes>>

-------------------------------------------------------------------------------
(* start_run *)

Return(w) == worker' = [worker EXCEPT ![w] = Idle]

\* get_suite: 404 without a suite, 400 without cases.
GetSuite(w) ==
  LET s == worker[w].suite IN
  /\ worker[w].pc = "suite"
  /\ \/ /\ Live(s) /\ suites[s].cases # <<>>
        /\ worker' = [worker EXCEPT ![w].pc = "start", ![w].cases = suites[s].cases]
     \/ (~Live(s) \/ suites[s].cases = <<>>) /\ Return(w)
  /\ UNCHANGED <<suiteVars, runs, executor, child, pairs, published, doubled, crashes>>

\* _run_lock of the pair is free.
RunLockFree(p) == \A v \in Workers : ~(worker[v].pc = "save" /\ worker[v].pair = p)

\* start, under _run_lock: 409 if a run is queued or running ...
CheckRuns(w) ==
  /\ worker[w].pc = "start"
  /\ RunLockFree(worker[w].pair)
  /\ \/ ActiveRuns = {} /\ worker' = [worker EXCEPT ![w].pc = "save"]
     \/ ActiveRuns # {} /\ Return(w)
  /\ UNCHANGED <<suiteVars, runs, executor, child, pairs, published, doubled, crashes>>

\* ... else a new run is queued and its thread started; one that cannot be started
\* leaves the run as it is.
QueueRun(w, r) ==
  /\ worker[w].pc = "save"
  /\ r = Min({q \in RunIds : executor[q] = NoExecutor} \cup {MaxRuns + 1})
  /\ runs' = Saved(runs, Run(r, "queued", <<>>))
  /\ \E pc \in {"new", "lost"} :
       executor' = [executor EXCEPT ![r] =
         [NoExecutor EXCEPT !.pc = pc, !.cases = worker[w].cases]]
  /\ Return(w)
  /\ UNCHANGED <<suiteVars, child, pairs, published, doubled, crashes>>

-------------------------------------------------------------------------------
(* _execute *)

Move(r, thread) == executor' = [executor EXCEPT ![r] = thread]

SaveAs(r, pc, status, results) ==
  LET run == Run(r, status, results) IN
  /\ runs' = Saved(runs, run)
  /\ Move(r, [executor[r] EXCEPT !.pc = pc, !.run = run])

\* What is left of a thread: the cases it had, which the properties refer to.
Ended(r, pc) == [NoExecutor EXCEPT !.pc = pc, !.cases = executor[r].cases]

\* A thread ends without a word (pc = "lost") when a file cannot be written:
\* get_run, the file of cases and the status "running" come before the try.
Prepare(r) ==
  /\ executor[r].pc = "new"
  /\ \/ /\ r \notin Listed(runs)
        /\ Move(r, Ended(r, "ended"))
        /\ UNCHANGED runs
     \/ r \in Listed(runs) /\ SaveAs(r, "spawn", "running", <<>>)
     \/ /\ r \in Listed(runs)
        /\ Move(r, Ended(r, "lost"))
        /\ UNCHANGED runs
  /\ UNCHANGED <<suiteVars, child, worker, pairs, published, doubled, crashes>>

\* Faulty variant of Failing: the thread dies of the exception.
FailingSilently(r) == Move(r, Ended(r, "ended"))

\* except Exception
Failing(r) == Move(r, [executor[r] EXCEPT !.pc = "close", !.run.status = "failed"])

Spawn(r) ==
  /\ executor[r].pc = "spawn"
  /\ \/ /\ Move(r, [executor[r] EXCEPT !.pc = "read"])
        /\ child' = [child EXCEPT ![r] =
             [NoChild EXCEPT !.pc = "working", !.todo = Ids(executor[r].cases)]]
     \/ Failing(r) /\ UNCHANGED child
  /\ UNCHANGED <<suiteVars, runs, worker, pairs, published, doubled, crashes>>

\* cases_by_id: of two cases with one number the later one.
CaseOf(cases, id) ==
  cases[Max({i \in DOMAIN cases : cases[i].id = id})]

\* _score
Score(case, answer) ==
  [id |-> case.id,
   verdict |-> IF case.expected = Nothing THEN "needs_review"
               ELSE IF answer = case.expected THEN "passed" ELSE "failed"]

\* A line of the child is scored and saved; to save may fail.
ReadLine(r) ==
  LET line == Head(child[r].lines)
      result == Score(CaseOf(executor[r].cases, line.id), line.answer)
  IN
  /\ executor[r].pc = "read"
  /\ child[r].lines # <<>>
  /\ child' = [child EXCEPT ![r].lines = Tail(@)]
  /\ \/ SaveAs(r, "read", executor[r].run.status, Append(executor[r].run.results, result))
     \/ Failing(r) /\ UNCHANGED runs
  /\ UNCHANGED <<suiteVars, worker, pairs, published, doubled, crashes>>

\* Standard output has ended; then standard error is read and the child waited
\* for.
ChildEnds(r) ==
  /\ executor[r].pc = "read"
  /\ child[r].lines = <<>>
  /\ \/ /\ child[r].pc = "done"
        /\ Move(r, [executor[r] EXCEPT !.pc = "close", !.run.status = "completed"])
     \/ child[r].pc = "failed" /\ Failing(r)
  /\ UNCHANGED <<suiteVars, runs, child, worker, pairs, published, doubled, crashes>>

\* finally: the file may not be writable now either.
Close(r) ==
  /\ executor[r].pc = "close"
  /\ \/ runs' = Saved(runs, executor[r].run) /\ Move(r, Ended(r, "ended"))
     \/ UNCHANGED runs /\ Move(r, Ended(r, "lost"))
  /\ child' = [child EXCEPT ![r] = NoChild]
  /\ UNCHANGED <<suiteVars, worker, pairs, published, doubled, crashes>>

-------------------------------------------------------------------------------
(* The child *)

\* Faulty variant of CaseOutcomes: the exception of a case loses its line.
OutcomesOfAnswers == {[printed |-> TRUE, answer |-> a] : a \in Answers}
                       \cup {[printed |-> FALSE, answer |-> Nothing]}

\* What becomes of a case: an answer, or an error that stands for one.
CaseOutcomes == {[printed |-> TRUE, answer |-> a] : a \in Answers \cup {Nothing}}

\* A thread of the pool finishes a case; nothing is printed yet.
AnswerCase(r) ==
  /\ child[r].pc = "working"
  /\ \E id \in child[r].todo, outcome \in CaseOutcomes :
       child' = [child EXCEPT
         ![r].todo = @ \ {id},
         ![r].answers = IF outcome.printed THEN Append(@, [id |-> id, answer |-> outcome.answer])
                        ELSE @]
  /\ UNCHANGED <<suiteVars, runs, executor, worker, pairs, published, doubled, crashes>>

\* Libraries write to standard error; nobody reads it before the end.
WriteDiagnostics(r) ==
  /\ child[r].pc = "working"
  /\ child' = [child EXCEPT ![r].diagnostics = Min({@ + 1, PipeSize}),
                            ![r].pc = IF child[r].diagnostics = PipeSize THEN "blocked" ELSE @]
  /\ UNCHANGED <<suiteVars, runs, executor, worker, pairs, published, doubled, crashes>>

\* When all cases are through they are printed in the order of their numbers.
InOrder(lines) == \A i, j \in DOMAIN lines : i < j => lines[i].id < lines[j].id

PrintResults(r) ==
  LET answers == child[r].answers IN
  /\ child[r].pc = "working"
  /\ child[r].todo = {}
  /\ \E lines \in [DOMAIN answers -> ToSet(answers)] :
       /\ InOrder(lines) /\ ToSet(lines) = ToSet(answers)
       /\ child' = [child EXCEPT ![r].pc = "printing", ![r].lines = lines]
  /\ UNCHANGED <<suiteVars, runs, executor, worker, pairs, published, doubled, crashes>>

Exit(r) ==
  /\ child[r].pc = "printing"
  /\ child' = [child EXCEPT ![r].pc = "done"]
  /\ UNCHANGED <<suiteVars, runs, executor, worker, pairs, published, doubled, crashes>>

\* The child fails: before the first case, or killed while it prints.
ChildFails(r) ==
  /\ child[r].pc \in {"working", "blocked", "printing"}
  /\ \E n \in 0 .. Len(child[r].lines) :
       child' = [child EXCEPT ![r].pc = "failed", ![r].lines = SubSeq(@, 1, n)]
  /\ UNCHANGED <<suiteVars, runs, executor, worker, pairs, published, doubled, crashes>>

\* The service dies and is started again; its threads are gone.
Crash ==
  /\ pairs > 0
  /\ crashes < MaxCrashes
  /\ crashes' = crashes + 1
  /\ published' = 0
  /\ worker' = [w \in Workers |-> Idle]
  /\ executor' = [r \in RunIds |->
       IF executor[r] = NoExecutor THEN NoExecutor ELSE Ended(r, "ended")]
  /\ child' = [r \in RunIds |-> NoChild]
  /\ UNCHANGED <<suiteVars, runs, pairs, doubled>>

-------------------------------------------------------------------------------

ExecutorStep(r) == Prepare(r) \/ Spawn(r) \/ ReadLine(r) \/ ChildEnds(r) \/ Close(r)

ChildStep(r) == AnswerCase(r) \/ PrintResults(r) \/ Exit(r)

Request(w) ==
  \/ \E s \in SuiteIds : Services(w, s)
  \/ MakePair(w) \/ GetSuite(w) \/ CheckRuns(w)
  \/ \E r \in RunIds : QueueRun(w, r)

\* To a run an import is a change of the suite like any other, and the run reads
\* the suite in one step.  So imports are interleaved with other changes of the
\* suites only, before the first request for a run.
Unused == pairs = 0 /\ crashes = 0 /\ \A w \in Workers : worker[w] = Idle
NoImports == \A a \in Admins : import[a] = NoImport

Next ==
  \/ Saving /\ UNCHANGED runVars
  \/ Unused /\ Importing /\ UNCHANGED runVars
  \/ NoImports /\ \E w \in Workers : Request(w)
  \/ \E r \in RunIds :
       ExecutorStep(r) \/ ChildStep(r) \/ WriteDiagnostics(r) \/ ChildFails(r)
  \/ Crash

Spec == Init /\ [][Next]_vars

\* Threads and processes run; requests, crashes and edits may stay away.
FairSpec == Spec /\ \A r \in RunIds : WF_vars(ExecutorStep(r)) /\ WF_vars(ChildStep(r))

-------------------------------------------------------------------------------
(* Properties *)

Alive == {r \in RunIds : executor[r].pc \in {"new", "spawn", "read", "close"}}

\* A run that is shown as queued or running is being executed, once the process
\* has opened the file: whatever failed in its thread or child was stored, unless
\* the file itself could not be written.
ActiveIsExecuted ==
  (~doubled /\ published # 0) =>
    \A r \in ActiveRuns : r \in Alive \/ executor[r].pc = "lost"

\* A completed run has one result for every number of the suite it was started
\* with, errors of single cases included, whatever became of the suite.
CompletedIsComplete ==
  \A i \in DOMAIN runs : runs[i].status = "completed" =>
    LET results == runs[i].results IN
    /\ Ids(results) = Ids(executor[runs[i].id].cases)
    /\ \A j, k \in DOMAIN results : results[j].id = results[k].id => j = k

\* A run ends, however its child ends.  What it needs is a file that can be
\* written, and a child that does not wait for its diagnostics to be read.
RunEnds ==
  \A r \in RunIds :
    r \in ActiveRuns ~> \/ r \notin ActiveRuns
                       \/ executor[r].pc = "lost"
                       \/ child[r].pc = "blocked"
                       \/ crashes > 0
===============================================================================
