--------------------------- MODULE AccuracyRunsProofs ---------------------------
(***************************************************************************)
(* The test centre, for every set of suites, administrators and requests,   *)
(* every number of runs, restarts and managers: an import repeats nothing,  *)
(* a completed run is complete, and a run that is shown as active is being  *)
(* executed.                                                                *)
(*                                                                         *)
(*  1. Numbers, sequences, and the loops of the import (Merge, Preview).     *)
(*  2. Types.                                                               *)
(*  3. ImportAddsNoDuplicates: what the loop of Merge has found is kept      *)
(*     from the step that reads to the step that writes.                     *)
(*  4. What a thread and its child have between them (RunsInv):     *)
(*     CompletedIsComplete.                                                  *)
(*  5. ActiveIsExecuted: nobody queues a run before the file was opened.     *)
(***************************************************************************)
EXTENDS AccuracyRuns, FiniteSetTheorems, NaturalsInduction, SequenceTheorems, TLAPS

Cases == Seq(Case)

SuiteType == [state : {"unborn", "live", "deleted"}, cases : Cases]

ImportType ==
  [pc : {"none", "previewed", "merged"}, suite : SuiteIds, mode : {"append", "replace"},
   cases : Cases, seen : Cases, own : BOOLEAN, base : Cases, merged : Cases, skipped : Nat]

SuitesTyped == suites \in [SuiteIds -> SuiteType] /\ import \in [Admins -> ImportType]

Result == [id : Nat, verdict : {"needs_review", "passed", "failed"}]

RunType ==
  [id : RunIds, status : {"queued", "running", "failed", "completed"}, results : Seq(Result)]

ExecutorType ==
  [pc : {"none", "new", "spawn", "read", "close", "ended", "lost"}, cases : Cases,
   run : RunType \cup {NoExecutor.run}]

Line == [id : Nat, answer : Answers \cup {Nothing}]

ChildType ==
  [pc : {"none", "working", "blocked", "printing", "done", "failed"}, todo : SUBSET Nat,
   answers : Seq(Line), lines : Seq(Line), diagnostics : Nat]

WorkerType ==
  [pc : {"idle", "make", "suite", "start", "save"}, pair : Nat, suite : SuiteIds, cases : Cases]

\* What is merged adds nothing twice to what it was merged into.
AddsNothingTwice(base, cases) ==
  \A j \in Len(base) + 1 .. Len(cases) : ~Clashes(cases[j], SubSeq(cases, 1, j - 1))

MergedIsNew ==
  \A a \in Admins : import[a].pc = "merged" => AddsNothingTwice(import[a].base, import[a].merged)

Distinct(items) == \A j, k \in DOMAIN items : items[j].id = items[k].id => j = k

\* One result for every number.
Complete(results, cases) == Ids(results) = Ids(cases) /\ Distinct(results)

\* Every number is in one of the two and in none twice.
Split(one, other, cases) ==
  /\ Ids(one) \cup Ids(other) = Ids(cases)
  /\ Ids(one) \cap Ids(other) = {}
  /\ Distinct(one) /\ Distinct(other)

\* What a thread knows of its run.
KnowsItsRun(r, thread) ==
  /\ thread.pc \in {"spawn", "read", "close"} => thread.run \in RunType /\ thread.run.id = r
  /\ thread.pc \in {"spawn", "read"} => thread.run.status = "running"
  /\ thread.pc = "spawn" => thread.run.results = <<>>
  /\ thread.pc = "close" =>
       /\ thread.run.status \in {"failed", "completed"}
       /\ thread.run.status = "completed" => Complete(thread.run.results, thread.cases)

\* While a thread reads, nothing of its suite is lost: a number is waiting, or
\* answered, or printed, or has a result.
NothingLost(thread, process) ==
  thread.pc = "read" =>
    /\ Ids(process.lines) \subseteq Ids(thread.cases)
    /\ process.pc \in {"working", "blocked"} =>
         /\ process.lines = <<>> /\ thread.run.results = <<>>
         /\ Ids(process.answers) \cup process.todo = Ids(thread.cases)
         /\ Ids(process.answers) \cap process.todo = {}
         /\ Distinct(process.answers)
    /\ process.pc \in {"printing", "done"} =>
         Split(thread.run.results, process.lines, thread.cases)

\* A run in the file has, or had, a thread.
ListedHadThreads == \A i \in DOMAIN runs : executor[runs[i].id].pc # "none"

RunsTyped ==
  /\ runs \in Seq(RunType)
  /\ executor \in [RunIds -> ExecutorType]
  /\ child \in [RunIds -> ChildType]

RunsInv ==
  /\ RunsTyped
  /\ \A r \in RunIds : KnowsItsRun(r, executor[r]) /\ NothingLost(executor[r], child[r])
  /\ ListedHadThreads
  /\ CompletedIsComplete

\* A request gets past the lock only with a manager that is published, unless a
\* second one was made.
RequestsHavePairs ==
  (~doubled /\ published = 0) => \A w \in Workers : worker[w].pc \in {"idle", "make"}

OthersTyped ==
  /\ worker \in [Workers -> WorkerType]
  /\ pairs \in Nat /\ published \in Nat /\ doubled \in BOOLEAN

\* What the variables hold.
TypeOK == SuitesTyped /\ RunsTyped /\ OthersTyped

ActiveInv == RequestsHavePairs /\ ActiveIsExecuted

-------------------------------------------------------------------------------
(* Part 1: numbers, sequences, and the loops of the import *)

LEMMA LeastNumber ==
  ASSUME NEW S \in SUBSET Nat, S # {}
  PROVE  \E n \in S : \A m \in S : n <= m
  <1>1. PICK n \in S : \A m \in S : ~(<<m, n>> \in OpToRel(<, Nat))
    BY NatLessThanWellFounded, WFMin
  <1>2. \A m \in S : ~(m < n)
    BY <1>1 DEF OpToRel
  <1>3. QED
    BY <1>2

LEMMA MinIs ==
  ASSUME NEW S \in SUBSET Nat, S # {}
  PROVE  Min(S) \in S /\ \A m \in S : Min(S) <= m
  BY LeastNumber DEF Min

LEMMA MaxIs ==
  ASSUME NEW S \in SUBSET Nat, S # {}, NEW b \in Nat, \A n \in S : n <= b
  PROVE  Max(S) \in S /\ \A m \in S : m <= Max(S)
  <1> DEFINE below == {b - n : n \in S}
  <1>1. below \in SUBSET Nat /\ below # {}
    <2>1. \A n \in S : b - n \in Nat
      OBVIOUS
    <2>2. QED
      BY <2>1
  <1>2. PICK k \in below : \A m \in below : k <= m
    BY <1>1, LeastNumber
  <1>3. PICK x \in S : k = b - x
    BY <1>2
  <1>4. \A y \in S : x >= y
    BY <1>2, <1>3
  <1>5. QED
    BY <1>4 DEF Max

\* Induction over the steps of a loop, as a set of numbers.
LEMMA ThroughTheLoop ==
  ASSUME NEW k \in Nat, NEW P, 0 \in P, \A n \in 1 .. k : n - 1 \in P => n \in P
  PROVE  \A n \in 0 .. k : n \in P
  <1> DEFINE missing == {n \in 0 .. k : n \notin P}
  <1> SUFFICES ASSUME missing # {}
               PROVE  FALSE
    OBVIOUS
  <1>0. missing \in SUBSET Nat
    OBVIOUS
  <1>1. PICK n \in missing : \A m \in missing : n <= m
    <2> HIDE DEF missing
    <2>1. QED
      BY <1>0, LeastNumber
  <1>2. n \in 1 .. k /\ n - 1 \in 0 .. k
    BY <1>1
  <1>3. QED
    BY <1>1, <1>2

LEMMA IdsBounded ==
  ASSUME NEW cases \in Cases
  PROVE  \E b \in Nat : \A id \in Ids(cases) : id <= b
  <1> DEFINE P == {n \in Nat : \E b \in Nat : \A i \in DOMAIN cases : i <= n => cases[i].id <= b}
  <1>0. Len(cases) \in Nat /\ DOMAIN cases = 1 .. Len(cases)
        /\ \A i \in DOMAIN cases : cases[i].id \in Nat
    <2>1. Len(cases) \in Nat /\ DOMAIN cases = 1 .. Len(cases)
      BY LenProperties DEF Cases
    <2>2. \A i \in 1 .. Len(cases) : cases[i] \in Case
      BY ElementOfSeq DEF Cases
    <2>3. QED
      BY <2>1, <2>2 DEF Case
  <1>1. 0 \in P
    BY <1>0
  <1>2. ASSUME NEW n \in 1 .. Len(cases), n - 1 \in P
        PROVE  n \in P
    <2>1. PICK b \in Nat : \A i \in DOMAIN cases : i <= n - 1 => cases[i].id <= b
      BY <1>2
    <2>2. PICK c \in Nat : b <= c /\ cases[n].id <= c
      <3>1. b <= b + cases[n].id /\ cases[n].id <= b + cases[n].id /\ b + cases[n].id \in Nat
        BY <1>0, <2>1
      <3>2. QED
        BY <3>1
    <2>3. \A i \in DOMAIN cases : i <= n => cases[i].id <= c
      BY <1>0, <2>1, <2>2
    <2>4. QED
      BY <2>2, <2>3
  <1> HIDE DEF P
  <1>3. \A n \in 1 .. Len(cases) : n - 1 \in P => n \in P
    BY <1>2
  <1>4. \A n \in 0 .. Len(cases) : n \in P
    BY <1>0, <1>1, <1>3, ThroughTheLoop
  <1>5. Len(cases) \in P
    BY <1>0, <1>4
  <1>6. PICK b \in Nat : \A i \in DOMAIN cases : i <= Len(cases) => cases[i].id <= b
    BY <1>5 DEF P
  <1>7. \A i \in DOMAIN cases : cases[i].id <= b
    BY <1>0, <1>6
  <1>8. QED
    BY <1>7 DEF Ids

\* The loop of Merge, one case at a time.
LEMMA MergeLoop ==
  ASSUME NEW base \in Cases, NEW cases \in Cases
  PROVE  \E after :
           /\ after[0] = [merged |-> base, skipped |-> 0]
           /\ \A n \in 1 .. Len(cases) : after[n] = MergeCase(base, after[n - 1], cases[n])
           /\ Merge(base, cases) = after[Len(cases)]
  <1> DEFINE first == [merged |-> base, skipped |-> 0]
             Runs(g, n) ==
               g = [m \in 0 .. n |-> IF m = 0 THEN first ELSE MergeCase(base, g[m - 1], cases[m])]
             P == {n \in Nat : \E g : Runs(g, n)}
  <1>0. Len(cases) \in Nat
    BY LenProperties DEF Cases
  <1>1. 0 \in P
    <2>1. Runs([m \in 0 .. 0 |-> first], 0)
      OBVIOUS
    <2>2. QED
      BY <2>1
  <1>2. ASSUME NEW n \in 1 .. Len(cases), n - 1 \in P
        PROVE  n \in P
    <2>1. PICK g : Runs(g, n - 1)
      BY <1>2
    <2> DEFINE h == [m \in 0 .. n |-> IF m = n THEN MergeCase(base, g[n - 1], cases[n]) ELSE g[m]]
    <2>2. \A m \in 0 .. n :
            h[m] = IF m = 0 THEN first ELSE MergeCase(base, h[m - 1], cases[m])
      <3> SUFFICES ASSUME NEW m \in 0 .. n
                   PROVE  h[m] = IF m = 0 THEN first ELSE MergeCase(base, h[m - 1], cases[m])
        OBVIOUS
      <3>1. CASE m = n
        <4>1. h[m - 1] = g[n - 1] /\ m # 0
          BY <3>1
        <4>2. QED
          BY <3>1, <4>1
      <3>2. CASE m # n
        <4>1. m \in 0 .. n - 1
          BY <3>2
        <4>2. h[m] = g[m] /\ (m # 0 => h[m - 1] = g[m - 1])
          BY <3>2
        <4>3. g[m] = IF m = 0 THEN first ELSE MergeCase(base, g[m - 1], cases[m])
          BY <2>1, <4>1
        <4>4. QED
          BY <4>2, <4>3
      <3>3. QED
        BY <3>1, <3>2
    <2>3. Runs(h, n)
      BY <2>2
    <2> HIDE DEF h
    <2>4. QED
      BY <2>3
  <1> HIDE DEF P
  <1>3. \E g : Runs(g, Len(cases))
    <2>1. \A n \in 1 .. Len(cases) : n - 1 \in P => n \in P
      BY <1>2
    <2>2. \A n \in 0 .. Len(cases) : n \in P
      BY <1>0, <1>1, <2>1, ThroughTheLoop
    <2>3. Len(cases) \in P
      BY <1>0, <2>2
    <2>4. QED
      BY <2>3 DEF P
  <1> DEFINE after == CHOOSE g : Runs(g, Len(cases))
  <1>4. Runs(after, Len(cases))
    BY <1>3
  <1>5. Merge(base, cases) = after[Len(cases)]
    BY DEF Merge
  <1> HIDE DEF after
  <1>6. after[0] = first /\ \A n \in 1 .. Len(cases) : after[n] = MergeCase(base, after[n - 1], cases[n])
    BY <1>0, <1>4
  <1>7. QED
    BY <1>5, <1>6

\* What a loop keeps from one case to the next.
NothingTwice(base) == {acc \in [merged : Cases, skipped : Nat] : AddsNothingTwice(base, acc.merged)}

LEMMA AppendedPrefix ==
  ASSUME NEW s \in Cases, NEW case \in Case, NEW n \in 0 .. Len(s)
  PROVE  SubSeq(Append(s, case), 1, n) = SubSeq(s, 1, n)
  <1>1. CASE n = 0
    BY <1>1, SubSeqEmpty
  <1>2. CASE n # 0
    <2>1. Append(s, case) = s \o <<case>> /\ <<case>> \in Cases
      BY AppendIsConcat DEF Cases
    <2>2. n \in 1 .. Len(s) /\ 1 \in 1 .. Len(s)
      BY <1>2, LenProperties DEF Cases
    <2>3. QED
      BY <2>1, <2>2, SubSeqOfConcat1 DEF Cases
  <1>3. QED
    BY <1>1, <1>2

LEMMA MergeCaseKeeps ==
  ASSUME NEW base \in Cases, NEW acc \in NothingTwice(base), NEW case \in Case
  PROVE  MergeCase(base, acc, case) \in NothingTwice(base)
  <1>0. acc \in [merged : Cases, skipped : Nat] /\ AddsNothingTwice(base, acc.merged)
    BY DEF NothingTwice
  <1>1. CASE Clashes(case, acc.merged)
    <2>1. MergeCase(base, acc, case) = [acc EXCEPT !.skipped = @ + 1]
      BY <1>1 DEF MergeCase
    <2>2. [acc EXCEPT !.skipped = @ + 1] \in [merged : Cases, skipped : Nat]
      BY <1>0
    <2>3. [acc EXCEPT !.skipped = @ + 1].merged = acc.merged
      BY <1>0
    <2>4. QED
      BY <1>0, <2>1, <2>2, <2>3 DEF NothingTwice
  <1>2. CASE ~Clashes(case, acc.merged)
    <2> DEFINE old == acc.merged
               new == Append(old, case)
    <2>1. MergeCase(base, acc, case) = [acc EXCEPT !.merged = new]
      BY <1>2 DEF MergeCase
    <2>2. old \in Cases /\ new \in Cases /\ Len(new) = Len(old) + 1 /\ Len(old) \in Nat
          /\ (\A i \in 1 .. Len(old) : new[i] = old[i]) /\ new[Len(old) + 1] = case
      BY <1>0, AppendProperties, LenProperties DEF Cases
    <2>3. [acc EXCEPT !.merged = new] \in [merged : Cases, skipped : Nat]
          /\ [acc EXCEPT !.merged = new].merged = new
      BY <1>0, <2>2
    <2>4. AddsNothingTwice(base, new)
      <3> SUFFICES ASSUME NEW j \in Len(base) + 1 .. Len(new)
                   PROVE  ~Clashes(new[j], SubSeq(new, 1, j - 1))
        BY DEF AddsNothingTwice
      <3>0. Len(base) \in Nat
        BY LenProperties DEF Cases
      <3>1. j - 1 \in 0 .. Len(old)
        BY <2>2, <3>0
      <3>2. SubSeq(new, 1, j - 1) = SubSeq(old, 1, j - 1)
        BY <2>2, <3>1, AppendedPrefix
      <3>3. CASE j = Len(old) + 1
        <4>1. SubSeq(old, 1, j - 1) = old
          BY <2>2, <3>3, SubSeqFull DEF Cases
        <4>2. QED
          BY <1>2, <2>2, <3>2, <3>3, <4>1
      <3>4. CASE j # Len(old) + 1
        <4>1. j \in Len(base) + 1 .. Len(old) /\ new[j] = old[j]
          BY <2>2, <3>0, <3>4
        <4>2. ~Clashes(old[j], SubSeq(old, 1, j - 1))
          BY <1>0, <4>1 DEF AddsNothingTwice
        <4>3. QED
          BY <3>2, <4>1, <4>2
      <3>5. QED
        BY <3>3, <3>4
    <2> HIDE DEF new
    <2>5. QED
      BY <2>1, <2>3, <2>4 DEF NothingTwice
  <1>3. QED
    BY <1>1, <1>2

LEMMA MergeAddsNothingTwice ==
  ASSUME NEW base \in Cases, NEW cases \in Cases
  PROVE  /\ Merge(base, cases).merged \in Cases
         /\ Merge(base, cases).skipped \in Nat
         /\ AddsNothingTwice(base, Merge(base, cases).merged)
  <1>1. PICK after :
          /\ after[0] = [merged |-> base, skipped |-> 0]
          /\ \A n \in 1 .. Len(cases) : after[n] = MergeCase(base, after[n - 1], cases[n])
          /\ Merge(base, cases) = after[Len(cases)]
    BY MergeLoop
  <1> DEFINE P == {n \in Nat : after[n] \in NothingTwice(base)}
  <1>2. Len(cases) \in Nat /\ Len(base) \in Nat
    BY LenProperties DEF Cases
  <1>3. 0 \in P
    BY <1>1, <1>2 DEF NothingTwice, AddsNothingTwice
  <1>4. \A n \in 1 .. Len(cases) : n - 1 \in P => n \in P
    <2> SUFFICES ASSUME NEW n \in 1 .. Len(cases), after[n - 1] \in NothingTwice(base)
                 PROVE  after[n] \in NothingTwice(base)
      OBVIOUS
    <2>1. cases[n] \in Case
      BY ElementOfSeq DEF Cases
    <2>2. QED
      BY <1>1, <2>1, MergeCaseKeeps
  <1> HIDE DEF P
  <1>5. \A n \in 0 .. Len(cases) : n \in P
    BY <1>2, <1>3, <1>4, ThroughTheLoop
  <1>6. after[Len(cases)] \in NothingTwice(base)
    BY <1>2, <1>5 DEF P
  <1>7. QED
    BY <1>1, <1>6 DEF NothingTwice

Found == [cases : Cases, duplicates : Seq(Row), errors : Nat, next : Nat]

LEMMA PreviewRowType ==
  ASSUME NEW base \in Cases, NEW acc \in Found, NEW row \in Row
  PROVE  PreviewRow(base, acc, row) \in Found
  <1> DEFINE number == Numbered(acc, row)
             case == [row EXCEPT !.id = number.id]
  <1>1. number.id \in Nat /\ number.next \in Nat
    <2>1. acc.next \in Nat /\ row.id \in Nat
      BY DEF Found, Row
    <2>2. Max({acc.next, row.id + 1}) \in {acc.next, row.id + 1}
      <3>1. {acc.next, row.id + 1} \in SUBSET Nat /\ {acc.next, row.id + 1} # {}
            /\ \A n \in {acc.next, row.id + 1} : n <= acc.next + row.id + 1
        BY <2>1
      <3>2. acc.next + row.id + 1 \in Nat
        BY <2>1
      <3>3. QED
        BY <3>1, <3>2, MaxIs
    <2>3. QED
      BY <2>1, <2>2 DEF Numbered
  <1>2. row.question # NoQuestion => case \in Case
    BY <1>1 DEF Row, Case
  <1> HIDE DEF number, case
  <1>3. [acc EXCEPT !.errors = @ + 1] \in Found
    BY DEF Found
  <1>4. [acc EXCEPT !.duplicates = Append(@, row), !.next = number.next] \in Found
    <2>1. Append(acc.duplicates, row) \in Seq(Row)
      BY AppendProperties DEF Found
    <2>2. QED
      BY <1>1, <2>1 DEF Found
  <1>5. row.question # NoQuestion =>
          [acc EXCEPT !.cases = Append(@, case), !.next = number.next] \in Found
    <2>1. row.question # NoQuestion => Append(acc.cases, case) \in Cases
      BY <1>2, AppendProperties DEF Found, Cases
    <2>2. QED
      BY <1>1, <2>1 DEF Found
  <1>6. QED
    BY <1>3, <1>4, <1>5 DEF PreviewRow, number, case

LEMMA FirstFound ==
  ASSUME NEW base \in Cases
  PROVE  [cases |-> <<>>, duplicates |-> <<>>, errors |-> 0,
          next |-> Max(Ids(base) \cup {0}) + 1] \in Found
  <1>1. PICK b \in Nat : \A id \in Ids(base) : id <= b
    BY IdsBounded
  <1>2. Ids(base) \cup {0} \in SUBSET Nat
    <2>1. \A i \in DOMAIN base : base[i] \in Case
      BY ElementOfSeq, LenProperties DEF Cases
    <2>2. QED
      BY <2>1 DEF Ids, Case
  <1>3. \A n \in Ids(base) \cup {0} : n <= b
    BY <1>1
  <1>4. Max(Ids(base) \cup {0}) \in Nat
    BY <1>2, <1>3, MaxIs
  <1>5. QED
    BY <1>4 DEF Found, Cases

LEMMA PreviewType ==
  ASSUME NEW base \in Cases, NEW sheet \in Seq(Row)
  PROVE  Preview(base, sheet).cases \in Cases
  <1> DEFINE first == [cases |-> <<>>, duplicates |-> <<>>, errors |-> 0,
                       next |-> Max(Ids(base) \cup {0}) + 1]
             Runs(g, n) ==
               g = [m \in 0 .. n |-> IF m = 0 THEN first ELSE PreviewRow(base, g[m - 1], sheet[m])]
             P == {n \in Nat : \E g : Runs(g, n)}
  <1>0. Len(sheet) \in Nat /\ \A n \in 1 .. Len(sheet) : sheet[n] \in Row
    BY LenProperties, ElementOfSeq
  <1> HIDE DEF first
  <1>1. 0 \in P
    <2>1. Runs([m \in 0 .. 0 |-> first], 0)
      OBVIOUS
    <2>2. QED
      BY <2>1
  <1>2. ASSUME NEW n \in 1 .. Len(sheet), n - 1 \in P
        PROVE  n \in P
    <2>1. PICK g : Runs(g, n - 1)
      BY <1>2
    <2> DEFINE h == [m \in 0 .. n |-> IF m = n THEN PreviewRow(base, g[n - 1], sheet[n]) ELSE g[m]]
    <2>2. \A m \in 0 .. n :
            h[m] = IF m = 0 THEN first ELSE PreviewRow(base, h[m - 1], sheet[m])
      <3> SUFFICES ASSUME NEW m \in 0 .. n
                   PROVE  h[m] = IF m = 0 THEN first ELSE PreviewRow(base, h[m - 1], sheet[m])
        OBVIOUS
      <3>1. CASE m = n
        <4>1. h[m - 1] = g[n - 1] /\ m # 0
          BY <3>1
        <4>2. QED
          BY <3>1, <4>1
      <3>2. CASE m # n
        <4>1. m \in 0 .. n - 1
          BY <3>2
        <4>2. h[m] = g[m] /\ (m # 0 => h[m - 1] = g[m - 1])
          BY <3>2
        <4>3. g[m] = IF m = 0 THEN first ELSE PreviewRow(base, g[m - 1], sheet[m])
          BY <2>1, <4>1
        <4>4. QED
          BY <4>2, <4>3
      <3>3. QED
        BY <3>1, <3>2
    <2>3. Runs(h, n)
      BY <2>2
    <2> HIDE DEF h
    <2>4. QED
      BY <2>3
  <1> HIDE DEF P
  <1>3. \E g : Runs(g, Len(sheet))
    <2>1. \A n \in 1 .. Len(sheet) : n - 1 \in P => n \in P
      BY <1>2
    <2>2. \A n \in 0 .. Len(sheet) : n \in P
      BY <1>0, <1>1, <2>1, ThroughTheLoop
    <2>3. Len(sheet) \in P
      BY <1>0, <2>2
    <2>4. QED
      BY <2>3 DEF P
  <1> DEFINE after == CHOOSE g : Runs(g, Len(sheet))
  <1>4. Runs(after, Len(sheet))
    BY <1>3
  <1>5. Preview(base, sheet) = after[Len(sheet)]
    BY DEF Preview, first
  <1> HIDE DEF after
  <1> DEFINE Q == {n \in Nat : n <= Len(sheet) => after[n] \in Found}
  <1>6. 0 \in Q
    BY <1>0, <1>4, FirstFound DEF first
  <1>7. \A n \in 1 .. Len(sheet) : n - 1 \in Q => n \in Q
    <2> SUFFICES ASSUME NEW n \in 1 .. Len(sheet), after[n - 1] \in Found
                 PROVE  after[n] \in Found
      BY <1>0
    <2>1. after[n] = PreviewRow(base, after[n - 1], sheet[n])
      BY <1>0, <1>4
    <2>2. QED
      BY <1>0, <2>1, PreviewRowType
  <1> HIDE DEF Q
  <1>8. \A n \in 0 .. Len(sheet) : n \in Q
    BY <1>0, <1>6, <1>7, ThroughTheLoop
  <1>9. after[Len(sheet)] \in Found
    BY <1>0, <1>8 DEF Q
  <1>10. QED
    BY <1>5, <1>9 DEF Found

-------------------------------------------------------------------------------
(* Part 2: types *)

LEMMA NoImportType == NoImport \in ImportType
  BY BaselineAssumption DEF NoImport, ImportType, Cases

LEMMA SuitesInitTyped == SuitesInit => SuitesTyped /\ MergedIsNew
  BY BaselineAssumption, NoImportType
  DEF SuitesInit, SuitesTyped, SuiteType, Suite, Cases, MergedIsNew, NoImport

LEMMA SavingType ==
  ASSUME SuitesTyped, Saving
  PROVE  SuitesTyped' /\ import' = import
  <1> USE DEF SuitesTyped
  <1>1. \A cases \in Lists : cases \in Cases
    BY ListsAssumption DEF Cases
  <1>2. PICK s \in SuiteIds :
          \/ \E cases \in Lists : CreateSuite(s, cases) \/ UpdateSuite(s, cases)
          \/ DeleteSuite(s)
    BY DEF Saving
  <1>3. CASE DeleteSuite(s)
    <2>1. Suite("deleted", <<>>) \in SuiteType
      BY DEF Suite, SuiteType, Cases
    <2>2. QED
      BY <1>3, <2>1 DEF DeleteSuite
  <1>4. ASSUME NEW cases \in Lists, CreateSuite(s, cases)
        PROVE  SuitesTyped' /\ import' = import
    <2>1. Suite("live", cases) \in SuiteType
      BY <1>1 DEF Suite, SuiteType
    <2>2. QED
      BY <1>4, <2>1 DEF CreateSuite
  <1>5. ASSUME NEW cases \in Lists, UpdateSuite(s, cases)
        PROVE  SuitesTyped' /\ import' = import
    <2>1. [suites[s] EXCEPT !.cases = cases] \in SuiteType
      BY <1>1 DEF SuiteType
    <2>2. suites' = [suites EXCEPT ![s] = [suites[s] EXCEPT !.cases = cases]] /\ import' = import
      BY <1>5 DEF UpdateSuite
    <2>3. QED
      BY <2>1, <2>2
  <1>6. QED
    BY <1>2, <1>3, <1>4, <1>5

LEMMA RefreshedType ==
  ASSUME SuitesTyped
  PROVE  Refreshed \in [SuiteIds -> SuiteType]
  <1>1. [suites[Baseline] EXCEPT !.cases = DefaultCases] \in SuiteType
    BY BaselineAssumption DEF SuitesTyped, SuiteType, Cases
  <1>2. [suites EXCEPT ![Baseline].cases = DefaultCases] \in [SuiteIds -> SuiteType]
    BY <1>1, BaselineAssumption DEF SuitesTyped
  <1>3. QED
    BY <1>2 DEF Refreshed, SuitesTyped

LEMMA BaseType ==
  ASSUME NEW mode, NEW cases \in Cases
  PROVE  Base(mode, cases) \in Cases
  BY DEF Base, Cases

\* A step of an import leaves the suites alone or writes what was merged.
LEMMA ImportingType ==
  ASSUME SuitesTyped, MergedIsNew, Importing
  PROVE  SuitesTyped' /\ MergedIsNew'
  <1>0. \A s \in SuiteIds : suites[s].cases \in Cases
    BY DEF SuitesTyped, SuiteType
  <1>1. PICK a \in Admins :
          \/ \E s \in SuiteIds, sheet \in Sheets, mode \in {"append", "replace"} :
               PreviewImport(a, s, sheet, mode)
          \/ ReadForImport(a) \/ WriteImport(a)
          \/ \E cases \in Lists : PostCases(a, cases)
    BY DEF Importing
  <1>2. ASSUME NEW work \in ImportType, import' = [import EXCEPT ![a] = work],
               work.pc = "merged" => AddsNothingTwice(work.base, work.merged)
        PROVE  import' \in [Admins -> ImportType] /\ MergedIsNew'
    BY <1>2 DEF SuitesTyped, MergedIsNew
  <1>3. ASSUME NEW s \in SuiteIds, NEW sheet \in Sheets, NEW mode \in {"append", "replace"},
               PreviewImport(a, s, sheet, mode)
        PROVE  SuitesTyped' /\ MergedIsNew'
    <2> DEFINE preview == Preview(Base(mode, suites[s].cases), sheet)
               work == [NoImport EXCEPT !.pc = "previewed", !.suite = s, !.mode = mode,
                                        !.cases = preview.cases, !.seen = suites[s].cases]
    <2>1. preview.cases \in Cases
      BY <1>0, BaseType, PreviewType, ListsAssumption
    <2>2. import' = [import EXCEPT ![a] = work] /\ suites' = suites
      BY <1>3 DEF PreviewImport
    <2> HIDE DEF preview
    <2>3. work \in ImportType /\ work.pc = "previewed"
      BY <1>0, <2>1, NoImportType DEF ImportType
    <2> HIDE DEF work
    <2>4. QED
      BY <1>2, <2>2, <2>3 DEF SuitesTyped
  <1>4. CASE ReadForImport(a)
    <2> DEFINE old == import[a]
               base == Base(old.mode, suites[old.suite].cases)
               merge == Merge(base, old.cases)
               work == [old EXCEPT !.pc = "merged", !.base = base, !.merged = merge.merged,
                                   !.skipped = merge.skipped]
    <2>1. old \in ImportType /\ old.suite \in SuiteIds /\ old.cases \in Cases
      BY DEF SuitesTyped, ImportType
    <2>2. base \in Cases
      BY <1>0, <2>1, BaseType
    <2>3. suites' = suites /\ \/ import' = [import EXCEPT ![a] = work]
                              \/ import' = [import EXCEPT ![a] = NoImport]
      BY <1>4 DEF ReadForImport
    <2> HIDE DEF base, old
    <2>4. merge.merged \in Cases /\ merge.skipped \in Nat /\ AddsNothingTwice(base, merge.merged)
      BY <2>1, <2>2, MergeAddsNothingTwice
    <2> HIDE DEF merge
    <2>5. work \in ImportType /\ work.base = base /\ work.merged = merge.merged
      BY <2>1, <2>2, <2>4 DEF ImportType
    <2> HIDE DEF work
    <2>6. NoImport.pc = "none"
      BY DEF NoImport
    <2>7. QED
      BY <1>2, <2>3, <2>4, <2>5, <2>6, NoImportType DEF SuitesTyped
  <1>5. CASE WriteImport(a)
    <2>1. import' = [import EXCEPT ![a] = NoImport] /\ NoImport.pc = "none"
      BY <1>5 DEF WriteImport, NoImport
    <2>2. suites' \in [SuiteIds -> SuiteType]
      <3> DEFINE work == import[a]
      <3>1. work \in ImportType /\ work.suite \in SuiteIds /\ work.merged \in Cases
        BY DEF SuitesTyped, ImportType
      <3>2. [suites[work.suite] EXCEPT !.cases = work.merged] \in SuiteType
        BY <3>1 DEF SuitesTyped, SuiteType
      <3>3. suites' = suites \/ suites' = [suites EXCEPT ![work.suite].cases = work.merged]
        BY <1>5 DEF WriteImport
      <3>4. QED
        BY <3>1, <3>2, <3>3 DEF SuitesTyped
    <2>3. QED
      BY <1>2, <2>1, <2>2, NoImportType DEF SuitesTyped
  <1>6. ASSUME NEW cases \in Lists, PostCases(a, cases)
        PROVE  SuitesTyped' /\ MergedIsNew'
    <2> DEFINE work == [import[a] EXCEPT !.cases = cases, !.own = TRUE]
    <2>1. cases \in Cases
      BY ListsAssumption DEF Cases
    <2>2. import' = [import EXCEPT ![a] = work] /\ suites' = suites /\ import[a].pc = "previewed"
      BY <1>6 DEF PostCases
    <2>3. work \in ImportType /\ work.pc = "previewed"
      BY <2>1, <2>2 DEF SuitesTyped, ImportType
    <2> HIDE DEF work
    <2>4. QED
      BY <1>2, <2>2, <2>3 DEF SuitesTyped
  <1>7. QED
    BY <1>1, <1>3, <1>4, <1>5, <1>6

-------------------------------------------------------------------------------
(* Part 3: imports *)

SuitesInv == SuitesTyped /\ MergedIsNew

\* Of the other steps only a manager that is made touches a suite.
LEMMA SuitesStep == SuitesInv /\ [Next]_vars => SuitesInv'
  <1> SUFFICES ASSUME SuitesTyped, MergedIsNew, [Next]_vars
               PROVE  SuitesTyped' /\ MergedIsNew'
    BY DEF SuitesInv
  <1>1. ASSUME UNCHANGED suiteVars
        PROVE  SuitesTyped' /\ MergedIsNew'
    BY <1>1 DEF suiteVars, SuitesTyped, MergedIsNew
  <1>2. CASE Saving /\ UNCHANGED runVars
    BY <1>2, SavingType DEF MergedIsNew
  <1>3. CASE Unused /\ Importing /\ UNCHANGED runVars
    BY <1>3, ImportingType
  <1>4. ASSUME NEW w \in Workers, MakePair(w)
        PROVE  SuitesTyped' /\ MergedIsNew'
    BY <1>4, RefreshedType DEF MakePair, SuitesTyped, MergedIsNew
  <1>5. CASE NoImports /\ \E w \in Workers : Request(w)
    <2> PICK w \in Workers : Request(w)
      BY <1>5
    <2>1. MakePair(w) \/ UNCHANGED suiteVars
      BY DEF Request, Services, GetSuite, CheckRuns, QueueRun
    <2>2. QED
      BY <1>1, <1>4, <2>1
  <1>6. CASE \E r \in RunIds :
               ExecutorStep(r) \/ ChildStep(r) \/ WriteDiagnostics(r) \/ ChildFails(r)
    <2>1. UNCHANGED suiteVars
      BY <1>6 DEF ExecutorStep, Prepare, Spawn, ReadLine, ChildEnds, Close,
                  ChildStep, AnswerCase, PrintResults, Exit, WriteDiagnostics, ChildFails
    <2>2. QED
      BY <1>1, <2>1
  <1>7. CASE Crash
    BY <1>1, <1>7 DEF Crash
  <1>8. CASE UNCHANGED vars
    BY <1>1, <1>8 DEF vars
  <1>9. QED
    BY <1>2, <1>3, <1>5, <1>6, <1>7, <1>8 DEF Next

LEMMA SuitesInvAlways == Spec => []SuitesInv
  <1>1. Init => SuitesInv
    BY SuitesInitTyped DEF Init, SuitesInv
  <1>2. QED
    BY <1>1, SuitesStep, PTL DEF Spec

\* What an import writes is what its confirmation merged, whatever was saved
\* meanwhile; the loop of the merge compares each case with all before it, the
\* cases that are imported included.
THEOREM ImportsAddNothingTwice == Spec => ImportAddsNoDuplicates
  <1>1. SuitesInv =>
          \A a \in Admins : WriteImport(a) /\ Live(import[a].suite) =>
            LET cases == suites'[import[a].suite].cases IN
            \A j \in Len(import[a].base) + 1 .. Len(cases) :
              ~Clashes(cases[j], SubSeq(cases, 1, j - 1))
    <2> SUFFICES ASSUME SuitesTyped, MergedIsNew,
                        NEW a \in Admins, WriteImport(a), Live(import[a].suite)
                 PROVE  AddsNothingTwice(import[a].base, suites'[import[a].suite].cases)
      BY DEF SuitesInv, AddsNothingTwice
    <2>1. import[a] \in ImportType /\ import[a].suite \in SuiteIds /\ import[a].pc = "merged"
      BY DEF SuitesTyped, ImportType, WriteImport
    <2>2. suites' = [suites EXCEPT ![import[a].suite].cases = import[a].merged]
      BY DEF WriteImport
    <2>3. suites'[import[a].suite].cases = import[a].merged
      BY <2>1, <2>2 DEF SuitesTyped, SuiteType
    <2>4. QED
      BY <2>1, <2>3 DEF MergedIsNew
  <1>2. QED
    BY <1>1, SuitesInvAlways, PTL DEF ImportAddsNoDuplicates

-------------------------------------------------------------------------------
(* Part 4: what a thread and its child have between them *)

LEMMA IdsOfCases ==
  ASSUME NEW cases \in Cases
  PROVE  Ids(cases) \in SUBSET Nat
  <1>1. \A i \in DOMAIN cases : cases[i] \in Case
    BY ElementOfSeq, LenProperties DEF Cases
  <1>2. QED
    BY <1>1 DEF Ids, Case

LEMMA IdsAppend ==
  ASSUME NEW S, NEW s \in Seq(S), NEW e \in S
  PROVE  /\ Ids(Append(s, e)) = Ids(s) \cup {e.id}
         /\ Distinct(s) /\ e.id \notin Ids(s) => Distinct(Append(s, e))
  <1>1. /\ DOMAIN s = 1 .. Len(s) /\ Len(s) \in Nat
        /\ DOMAIN Append(s, e) = 1 .. Len(s) + 1
        /\ \A i \in 1 .. Len(s) : Append(s, e)[i] = s[i]
        /\ Append(s, e)[Len(s) + 1] = e
    BY AppendProperties, LenProperties
  <1>2. Ids(Append(s, e)) = Ids(s) \cup {e.id}
    BY <1>1 DEF Ids
  <1>3. Distinct(s) /\ e.id \notin Ids(s) => Distinct(Append(s, e))
    BY <1>1 DEF Ids, Distinct
  <1>4. QED
    BY <1>2, <1>3

LEMMA IdsHeadTail ==
  ASSUME NEW S, NEW s \in Seq(S), s # <<>>
  PROVE  /\ Head(s) \in S /\ Tail(s) \in Seq(S)
         /\ Ids(s) = {Head(s).id} \cup Ids(Tail(s))
         /\ Distinct(s) => Distinct(Tail(s)) /\ Head(s).id \notin Ids(Tail(s))
  <1>1. /\ Head(s) \in S /\ Tail(s) \in Seq(S) /\ Head(s) = s[1]
        /\ DOMAIN s = 1 .. Len(s) /\ Len(s) \in Nat /\ Len(s) > 0
        /\ DOMAIN Tail(s) = 1 .. Len(s) - 1
        /\ \A i \in 1 .. Len(s) - 1 : Tail(s)[i] = s[i + 1]
    BY HeadTailProperties, LenProperties, EmptySeq
  <1>2. Ids(s) = {Head(s).id} \cup Ids(Tail(s))
    <2>1. \A i \in 1 .. Len(s) : i = 1 \/ (i - 1 \in 1 .. Len(s) - 1 /\ s[i] = Tail(s)[i - 1])
      BY <1>1
    <2>2. Ids(s) \subseteq {Head(s).id} \cup Ids(Tail(s))
      <3> SUFFICES ASSUME NEW i \in 1 .. Len(s)
                   PROVE  s[i].id \in {Head(s).id} \cup Ids(Tail(s))
        BY <1>1 DEF Ids
      <3>1. CASE i = 1
        BY <1>1, <3>1
      <3>2. CASE i # 1
        <4>1. i - 1 \in DOMAIN Tail(s) /\ s[i] = Tail(s)[i - 1]
          BY <1>1, <2>1, <3>2
        <4>2. QED
          BY <4>1 DEF Ids
      <3>3. QED
        BY <3>1, <3>2
    <2>3. \A i \in 1 .. Len(s) - 1 : i + 1 \in 1 .. Len(s)
      BY <1>1
    <2>4. {Head(s).id} \cup Ids(Tail(s)) \subseteq Ids(s)
      BY <1>1, <2>3 DEF Ids
    <2>5. QED
      BY <2>2, <2>4
  <1>3. ASSUME Distinct(s)
        PROVE  Distinct(Tail(s)) /\ Head(s).id \notin Ids(Tail(s))
    <2>1. \A i \in 1 .. Len(s) - 1 : i + 1 \in 1 .. Len(s) /\ i + 1 # 1
      BY <1>1
    <2>2. Distinct(Tail(s))
      BY <1>1, <1>3, <2>1 DEF Distinct
    <2>3. Head(s).id \notin Ids(Tail(s))
      BY <1>1, <1>3, <2>1 DEF Distinct, Ids
    <2>4. QED
      BY <2>2, <2>3
  <1>4. QED
    BY <1>1, <1>2, <1>3

LEMMA NoIds == Ids(<<>>) = {} /\ Distinct(<<>>)
  BY DEF Ids, Distinct

\* What is printed in the order of numbers names each once.
LEMMA PrintedIds ==
  ASSUME NEW answers \in Seq(Line), NEW lines \in [DOMAIN answers -> ToSet(answers)],
         InOrder(lines), ToSet(lines) = ToSet(answers)
  PROVE  lines \in Seq(Line) /\ Ids(lines) = Ids(answers) /\ Distinct(lines)
  <1>1. DOMAIN answers = 1 .. Len(answers) /\ Len(answers) \in Nat
        /\ \A i \in DOMAIN answers : answers[i] \in Line
    BY LenProperties, ElementOfSeq
  <1>2. ToSet(answers) \subseteq Line
    BY <1>1 DEF ToSet
  <1>3. lines \in [1 .. Len(answers) -> Line]
    BY <1>1, <1>2
  <1>4. lines \in Seq(Line)
    BY <1>1, <1>3, IsASeq
  <1>5. Ids(lines) = {e.id : e \in ToSet(lines)} /\ Ids(answers) = {e.id : e \in ToSet(answers)}
    BY DEF Ids, ToSet
  <1>6. Distinct(lines)
    <2> SUFFICES ASSUME NEW j \in DOMAIN lines, NEW k \in DOMAIN lines, lines[j].id = lines[k].id
                 PROVE  j = k
      BY DEF Distinct
    <2>1. lines[j].id \in Nat /\ lines[k].id \in Nat /\ j \in Nat /\ k \in Nat
      BY <1>1, <1>3 DEF Line
    <2>2. ~(j < k) /\ ~(k < j)
      BY <2>1 DEF InOrder
    <2>3. QED
      BY <2>1, <2>2
  <1>7. QED
    BY <1>4, <1>5, <1>6

\* Of two cases with one number the later one has that number as well.
LEMMA CaseOfIs ==
  ASSUME NEW cases \in Cases, NEW id \in Ids(cases)
  PROVE  CaseOf(cases, id) \in Case /\ CaseOf(cases, id).id = id
  <1> DEFINE places == {i \in DOMAIN cases : cases[i].id = id}
  <1>1. DOMAIN cases = 1 .. Len(cases) /\ Len(cases) \in Nat
        /\ \A i \in DOMAIN cases : cases[i] \in Case
    BY LenProperties, ElementOfSeq DEF Cases
  <1>2. places \in SUBSET Nat /\ places # {} /\ \A i \in places : i <= Len(cases)
    BY <1>1 DEF Ids
  <1>3. Max(places) \in places
    <2> HIDE DEF places
    <2>1. QED
      BY <1>1, <1>2, MaxIs
  <1>4. QED
    BY <1>1, <1>3 DEF CaseOf

LEMMA ScoreType ==
  ASSUME NEW case \in Case, NEW answer
  PROVE  Score(case, answer) \in Result /\ Score(case, answer).id = case.id
  BY DEF Score, Result, Case

LEMMA NoExecutorType ==
  /\ NoExecutor \in ExecutorType
  /\ NoExecutor.pc = "none"
  /\ NoExecutor.run \notin RunType
  <1>1. NoExecutor.run.id = NoRun
    BY DEF NoExecutor, Run
  <1>2. QED
    BY <1>1, NoRunAssumption DEF NoExecutor, ExecutorType, RunType, Cases, RunIds

LEMMA NoChildType == NoChild \in ChildType
  BY DEF NoChild, ChildType

\* What the file holds after a run was saved.
LEMMA SavedRuns ==
  ASSUME NEW file \in Seq(RunType), NEW run \in RunType
  PROVE  /\ Saved(file, run) \in Seq(RunType)
         /\ \A i \in DOMAIN Saved(file, run) :
              \/ Saved(file, run)[i] = run
              \/ \E k \in DOMAIN file : Saved(file, run)[i] = file[k] /\ file[k].id # run.id
  <1>0. DOMAIN file = 1 .. Len(file) /\ Len(file) \in Nat
        /\ \A i \in DOMAIN file : file[i] \in RunType
    BY LenProperties, ElementOfSeq
  <1>1. ASSUME NEW all \in Seq(RunType)
        PROVE  /\ Trimmed(all) \in Seq(RunType)
               /\ \A i \in DOMAIN Trimmed(all) :
                    \E k \in DOMAIN all : Trimmed(all)[i] = all[k]
    <2>1. DOMAIN all = 1 .. Len(all) /\ Len(all) \in Nat
          /\ \A i \in DOMAIN all : all[i] \in RunType
      BY LenProperties, ElementOfSeq
    <2>2. CASE Len(all) <= Kept
      BY <2>2 DEF Trimmed
    <2>3. CASE ~(Len(all) <= Kept)
      <3>1. Trimmed(all) = SubSeq(all, 1, Kept)
        BY <2>3 DEF Trimmed
      <3>2. \A i \in 1 .. Kept : all[i] \in RunType /\ i \in DOMAIN all
        BY <2>1, <2>3, SizesAssumption
      <3>3. /\ SubSeq(all, 1, Kept) \in Seq(RunType)
            /\ Len(SubSeq(all, 1, Kept)) = Kept
            /\ \A i \in 1 .. Kept : SubSeq(all, 1, Kept)[i] = all[i]
        BY <3>2, SubSeqProperties, SizesAssumption
      <3>4. DOMAIN SubSeq(all, 1, Kept) = 1 .. Kept
        BY <3>3, LenProperties
      <3>5. QED
        BY <3>1, <3>2, <3>3, <3>4
    <2>4. QED
      BY <2>2, <2>3
  <1>2. CASE run.id \in Listed(file)
    <2> DEFINE all == [i \in DOMAIN file |-> IF file[i].id = run.id THEN run ELSE file[i]]
    <2>1. all \in Seq(RunType)
      BY <1>0, IsASeq
    <2>2. Saved(file, run) = Trimmed(all)
      BY <1>2 DEF Saved
    <2>3. \A i \in DOMAIN all : all[i] = run \/ (all[i] = file[i] /\ file[i].id # run.id /\ i \in DOMAIN file)
      OBVIOUS
    <2> HIDE DEF all
    <2>4. \A i \in DOMAIN Trimmed(all) : \E k \in DOMAIN all : Trimmed(all)[i] = all[k]
      BY <1>1, <2>1
    <2>5. QED
      BY <1>1, <2>1, <2>2, <2>3, <2>4
  <1>3. CASE run.id \notin Listed(file)
    <2> DEFINE all == <<run>> \o file
    <2>1. <<run>> \in Seq(RunType) /\ Len(<<run>>) = 1 /\ <<run>>[1] = run
      OBVIOUS
    <2>2. all \in Seq(RunType) /\ Len(all) = 1 + Len(file)
          /\ \A i \in 1 .. 1 + Len(file) : all[i] = IF i <= 1 THEN <<run>>[i] ELSE file[i - 1]
      BY <2>1, ConcatProperties
    <2>3. DOMAIN all = 1 .. Len(all)
      BY <2>2, LenProperties
    <2>4. \A k \in DOMAIN file : file[k].id # run.id
      BY <1>3 DEF Listed
    <2>5. \A i \in DOMAIN all : all[i] = run \/ (i - 1 \in DOMAIN file /\ all[i] = file[i - 1])
      BY <1>0, <2>1, <2>2, <2>3
    <2>6. Saved(file, run) = Trimmed(all)
      BY <1>3 DEF Saved
    <2> HIDE DEF all
    <2>7. \A i \in DOMAIN Trimmed(all) : \E k \in DOMAIN all : Trimmed(all)[i] = all[k]
      BY <1>1, <2>2
    <2>8. QED
      BY <1>1, <2>2, <2>4, <2>5, <2>6, <2>7
  <1>4. QED
    BY <1>2, <1>3

\* A step of one run: its thread and child go on, and a run of this number may
\* be saved.
RunSaved(r, thread) ==
  \E run \in RunType :
    /\ run.id = r /\ thread.pc # "none"
    /\ runs' = Saved(runs, run)
    /\ run.status = "completed" => Complete(run.results, thread.cases)

RunMoves(r, thread, process) ==
  /\ thread \in ExecutorType /\ process \in ChildType
  /\ executor' = [executor EXCEPT ![r] = thread]
  /\ child' = [child EXCEPT ![r] = process]
  /\ KnowsItsRun(r, thread) /\ NothingLost(thread, process)
  /\ \/ r \notin Listed(runs)
     \/ thread.cases = executor[r].cases /\ (executor[r].pc # "none" => thread.pc # "none")
  /\ runs' = runs \/ RunSaved(r, thread)

LEMMA RunStep ==
  ASSUME RunsInv, NEW r \in RunIds, NEW thread, NEW process, RunMoves(r, thread, process)
  PROVE  RunsInv'
  <1>0. /\ runs \in Seq(RunType) /\ executor \in [RunIds -> ExecutorType]
        /\ child \in [RunIds -> ChildType]
        /\ DOMAIN runs = 1 .. Len(runs)
        /\ \A i \in DOMAIN runs : runs[i] \in RunType /\ runs[i].id \in RunIds
    <2>1. runs \in Seq(RunType) /\ executor \in [RunIds -> ExecutorType]
          /\ child \in [RunIds -> ChildType]
      BY DEF RunsInv, RunsTyped
    <2>2. DOMAIN runs = 1 .. Len(runs) /\ \A i \in 1 .. Len(runs) : runs[i] \in RunType
      BY <2>1, LenProperties, ElementOfSeq
    <2>3. QED
      BY <2>1, <2>2 DEF RunType
  <1>1. /\ executor' \in [RunIds -> ExecutorType] /\ child' \in [RunIds -> ChildType]
        /\ executor'[r] = thread /\ child'[r] = process
        /\ \A q \in RunIds : q # r => executor'[q] = executor[q] /\ child'[q] = child[q]
    BY <1>0 DEF RunMoves
  <1>2. \A q \in RunIds : KnowsItsRun(q, executor'[q]) /\ NothingLost(executor'[q], child'[q])
    <2>1. \A q \in RunIds : KnowsItsRun(q, executor[q]) /\ NothingLost(executor[q], child[q])
      BY DEF RunsInv
    <2>2. KnowsItsRun(r, thread) /\ NothingLost(thread, process)
      BY DEF RunMoves
    <2>3. QED
      BY <1>1, <2>1, <2>2
  <1> DEFINE Good(run) ==
        /\ executor'[run.id].pc # "none"
        /\ run.status = "completed" => Complete(run.results, executor'[run.id].cases)
  <1>3. \A i \in DOMAIN runs :
          /\ executor[runs[i].id].pc # "none"
          /\ runs[i].status = "completed" =>
               Complete(runs[i].results, executor[runs[i].id].cases)
    BY DEF RunsInv, ListedHadThreads, CompletedIsComplete, Complete, Distinct
  <1>4. \A i \in DOMAIN runs : runs[i].id # r => Good(runs[i])
    BY <1>0, <1>1, <1>3
  <1>5. runs' \in Seq(RunType) /\ \A i \in DOMAIN runs' : Good(runs'[i])
    <2>1. CASE runs' = runs
      <3>1. ASSUME NEW i \in DOMAIN runs, runs[i].id = r
            PROVE  Good(runs[i])
        <4>1. r \in Listed(runs)
          BY <3>1 DEF Listed
        <4>2. thread.cases = executor[r].cases /\ (executor[r].pc # "none" => thread.pc # "none")
          BY <4>1 DEF RunMoves
        <4>3. QED
          BY <1>1, <1>3, <3>1, <4>2
      <3>2. QED
        BY <1>0, <1>4, <2>1, <3>1
    <2>2. CASE RunSaved(r, thread)
      <3>1. PICK run \in RunType :
              /\ run.id = r /\ thread.pc # "none"
              /\ runs' = Saved(runs, run)
              /\ run.status = "completed" => Complete(run.results, thread.cases)
        BY <2>2 DEF RunSaved
      <3>2. Good(run)
        BY <1>1, <3>1
      <3> HIDE DEF Good
      <3>3. /\ Saved(runs, run) \in Seq(RunType)
            /\ \A i \in DOMAIN Saved(runs, run) :
                 \/ Saved(runs, run)[i] = run
                 \/ \E k \in DOMAIN runs : Saved(runs, run)[i] = runs[k] /\ runs[k].id # run.id
        BY <1>0, SavedRuns
      <3>4. QED
        BY <1>4, <3>1, <3>2, <3>3
    <2>3. QED
      BY <2>1, <2>2 DEF RunMoves
  <1>6. RunsTyped'
    BY <1>1, <1>5 DEF RunsTyped
  <1>7. ListedHadThreads'
    BY <1>5 DEF ListedHadThreads
  <1>8. CompletedIsComplete'
    BY <1>5 DEF CompletedIsComplete, Complete, Distinct
  <1>9. QED
    BY <1>2, <1>6, <1>7, <1>8 DEF RunsInv

LEMMA AsTheyAre ==
  ASSUME RunsInv, NEW r \in RunIds
  PROVE  /\ executor[r] \in ExecutorType /\ child[r] \in ChildType
         /\ KnowsItsRun(r, executor[r]) /\ NothingLost(executor[r], child[r])
         /\ executor = [executor EXCEPT ![r] = executor[r]]
         /\ child = [child EXCEPT ![r] = child[r]]
         /\ executor[r].cases \in Cases
  BY DEF RunsInv, RunsTyped, ExecutorType

LEMMA EndedType ==
  ASSUME RunsInv, NEW r \in RunIds, NEW pc \in {"ended", "lost"}, NEW process
  PROVE  /\ Ended(r, pc) \in ExecutorType
         /\ Ended(r, pc).pc = pc /\ Ended(r, pc).cases = executor[r].cases
         /\ KnowsItsRun(r, Ended(r, pc)) /\ NothingLost(Ended(r, pc), process)
  <1>1. executor[r].cases \in Cases
    BY AsTheyAre
  <1>2. /\ Ended(r, pc) \in ExecutorType
        /\ Ended(r, pc).pc = pc /\ Ended(r, pc).cases = executor[r].cases
    BY <1>1, NoExecutorType DEF ExecutorType, Ended
  <1>3. QED
    BY <1>2 DEF KnowsItsRun, NothingLost

\* A thread that meets an error goes on to store it.
LEMMA FailingMoves ==
  ASSUME RunsInv, NEW r \in RunIds, executor[r].pc \in {"spawn", "read"}, Failing(r),
         NEW process \in ChildType, child' = [child EXCEPT ![r] = process], runs' = runs
  PROVE  RunsInv'
  <1> DEFINE thread == [executor[r] EXCEPT !.pc = "close", !.run.status = "failed"]
  <1>1. executor[r] \in ExecutorType /\ executor[r].run \in RunType /\ executor[r].run.id = r
    BY AsTheyAre DEF KnowsItsRun
  <1>2. [executor[r].run EXCEPT !.status = "failed"] \in RunType
    BY <1>1 DEF RunType
  <1>3. /\ thread \in ExecutorType /\ thread.pc = "close" /\ thread.cases = executor[r].cases
        /\ thread.run = [executor[r].run EXCEPT !.status = "failed"]
    BY <1>1, <1>2 DEF ExecutorType
  <1>4. executor' = [executor EXCEPT ![r] = thread]
    BY DEF Failing, Move
  <1> HIDE DEF thread
  <1>5. thread.run.id = r /\ thread.run.status = "failed" /\ thread.run \in RunType
    BY <1>1, <1>2, <1>3 DEF RunType
  <1>6. KnowsItsRun(r, thread) /\ NothingLost(thread, process)
    BY <1>3, <1>5 DEF KnowsItsRun, NothingLost
  <1>7. RunMoves(r, thread, process)
    BY <1>3, <1>4, <1>6 DEF RunMoves
  <1>8. QED
    BY <1>7, RunStep

LEMMA PrepareStep ==
  ASSUME RunsInv, NEW r \in RunIds, Prepare(r)
  PROVE  RunsInv'
  <1>1. ASSUME NEW pc \in {"ended", "lost"}, Move(r, Ended(r, pc)), runs' = runs, child' = child
        PROVE  RunsInv'
    <2>1. executor' = [executor EXCEPT ![r] = Ended(r, pc)] /\ child' = [child EXCEPT ![r] = child[r]]
      BY <1>1, AsTheyAre DEF Move
    <2>2. RunMoves(r, Ended(r, pc), child[r])
      BY <1>1, <2>1, AsTheyAre, EndedType DEF RunMoves
    <2>3. QED
      BY <2>2, RunStep
  <1>2. ASSUME SaveAs(r, "spawn", "running", <<>>), child' = child, executor[r].pc = "new"
        PROVE  RunsInv'
    <2> DEFINE run == Run(r, "running", <<>>)
               thread == [executor[r] EXCEPT !.pc = "spawn", !.run = run]
    <2>1. run \in RunType /\ run.id = r /\ run.status = "running" /\ run.results = <<>>
      BY DEF Run, RunType
    <2>2. runs' = Saved(runs, run) /\ executor' = [executor EXCEPT ![r] = thread]
      BY <1>2 DEF SaveAs, Move
    <2> HIDE DEF run
    <2>3. /\ thread \in ExecutorType /\ thread.pc = "spawn" /\ thread.run = run
          /\ thread.cases = executor[r].cases
      BY <2>1, AsTheyAre DEF ExecutorType
    <2> HIDE DEF thread
    <2>4. KnowsItsRun(r, thread) /\ NothingLost(thread, child[r])
      BY <2>1, <2>3 DEF KnowsItsRun, NothingLost
    <2>5. RunSaved(r, thread)
      BY <2>1, <2>2, <2>3 DEF RunSaved
    <2>6. RunMoves(r, thread, child[r])
      BY <1>2, <2>2, <2>3, <2>4, <2>5, AsTheyAre DEF RunMoves
    <2>7. QED
      BY <2>6, RunStep
  <1>3. QED
    BY <1>1, <1>2 DEF Prepare

LEMMA SpawnStep ==
  ASSUME RunsInv, NEW r \in RunIds, Spawn(r)
  PROVE  RunsInv'
  <1>1. CASE Failing(r) /\ UNCHANGED child
    <2>1. child' = [child EXCEPT ![r] = child[r]] /\ runs' = runs /\ executor[r].pc = "spawn"
      BY <1>1, AsTheyAre DEF Spawn
    <2>2. QED
      BY <1>1, <2>1, AsTheyAre, FailingMoves
  <1>2. CASE /\ Move(r, [executor[r] EXCEPT !.pc = "read"])
             /\ child' = [child EXCEPT ![r] =
                  [NoChild EXCEPT !.pc = "working", !.todo = Ids(executor[r].cases)]]
    <2> DEFINE thread == [executor[r] EXCEPT !.pc = "read"]
               process == [NoChild EXCEPT !.pc = "working", !.todo = Ids(executor[r].cases)]
    <2>1. executor[r] \in ExecutorType /\ executor[r].pc = "spawn" /\ KnowsItsRun(r, executor[r])
          /\ Ids(executor[r].cases) \in SUBSET Nat /\ runs' = runs
      BY AsTheyAre, IdsOfCases DEF Spawn
    <2>2. /\ thread \in ExecutorType /\ thread.pc = "read" /\ thread.run = executor[r].run
          /\ thread.cases = executor[r].cases
      BY <2>1 DEF ExecutorType
    <2>3. /\ process \in ChildType /\ process.pc = "working" /\ process.lines = <<>>
          /\ process.answers = <<>> /\ process.todo = Ids(executor[r].cases)
      <3>1. NoChild \in ChildType /\ NoChild.lines = <<>> /\ NoChild.answers = <<>>
        BY NoChildType DEF NoChild
      <3>2. QED
        BY <2>1, <3>1 DEF ChildType
    <2>4. executor' = [executor EXCEPT ![r] = thread] /\ child' = [child EXCEPT ![r] = process]
      BY <1>2 DEF Move
    <2> HIDE DEF thread, process
    <2>5. KnowsItsRun(r, thread)
      BY <2>1, <2>2 DEF KnowsItsRun
    <2>6. thread.run.results = <<>>
      BY <2>1, <2>2 DEF KnowsItsRun
    <2>7. NothingLost(thread, process)
      BY <2>2, <2>3, <2>6, NoIds DEF NothingLost
    <2>8. RunMoves(r, thread, process)
      BY <2>1, <2>2, <2>3, <2>4, <2>5, <2>7 DEF RunMoves
    <2>9. QED
      BY <2>8, RunStep
  <1>3. QED
    BY <1>1, <1>2 DEF Spawn

LEMMA ReadLineStep ==
  ASSUME RunsInv, NEW r \in RunIds, ReadLine(r)
  PROVE  RunsInv'
  <1> DEFINE line == Head(child[r].lines)
             rest == Tail(child[r].lines)
             result == Score(CaseOf(executor[r].cases, line.id), line.answer)
             process == [child[r] EXCEPT !.lines = rest]
             results == Append(executor[r].run.results, result)
             run == Run(r, "running", results)
             thread == [executor[r] EXCEPT !.pc = "read", !.run = run]
  <1>1. /\ executor[r] \in ExecutorType /\ child[r] \in ChildType
        /\ executor[r].pc = "read" /\ child[r].lines # <<>> /\ child[r].lines \in Seq(Line)
        /\ executor[r].run \in RunType /\ executor[r].run.status = "running"
        /\ executor[r].run.results \in Seq(Result) /\ executor[r].cases \in Cases
    BY AsTheyAre DEF ReadLine, KnowsItsRun, ChildType, RunType
  <1>2. /\ line \in Line /\ rest \in Seq(Line)
        /\ Ids(child[r].lines) = {line.id} \cup Ids(rest)
        /\ Distinct(child[r].lines) => Distinct(rest) /\ line.id \notin Ids(rest)
    BY <1>1, IdsHeadTail
  <1>3. process \in ChildType /\ process.lines = rest /\ process.pc = child[r].pc
    BY <1>1, <1>2 DEF ChildType
  <1>4. child' = [child EXCEPT ![r] = process]
    BY DEF ReadLine
  <1>5. NothingLost(executor[r], child[r])
    BY AsTheyAre
  <1>6. Ids(child[r].lines) \subseteq Ids(executor[r].cases)
    BY <1>1, <1>5 DEF NothingLost
  <1>7. result \in Result /\ result.id = line.id
    <2>1. line.id \in Ids(executor[r].cases)
      BY <1>2, <1>6
    <2>2. QED
      BY <1>1, <2>1, CaseOfIs, ScoreType
  <1> HIDE DEF line, rest, result, process
  <1>8. /\ results \in Seq(Result)
        /\ Ids(results) = Ids(executor[r].run.results) \cup {line.id}
        /\ Distinct(executor[r].run.results) /\ line.id \notin Ids(executor[r].run.results)
             => Distinct(results)
    BY <1>1, <1>7, IdsAppend, AppendProperties
  <1> HIDE DEF results
  <1>9. run \in RunType /\ run.id = r /\ run.status = "running" /\ run.results = results
    BY <1>8 DEF Run, RunType
  <1> HIDE DEF run
  <1>10. /\ thread \in ExecutorType /\ thread.pc = "read" /\ thread.run = run
         /\ thread.cases = executor[r].cases
    BY <1>1, <1>9 DEF ExecutorType
  <1>11. CASE Failing(r) /\ UNCHANGED runs
    BY <1>1, <1>3, <1>4, <1>11, FailingMoves
  <1>12. CASE SaveAs(r, "read", executor[r].run.status, results)
    <2>1. runs' = Saved(runs, run) /\ executor' = [executor EXCEPT ![r] = thread]
      BY <1>1, <1>12 DEF SaveAs, Move, run
    <2> HIDE DEF thread
    <2>2. KnowsItsRun(r, thread)
      BY <1>9, <1>10 DEF KnowsItsRun
    <2>3. NothingLost(thread, process)
      <3>1. Ids(process.lines) \subseteq Ids(thread.cases)
        BY <1>2, <1>3, <1>6, <1>10
      <3>2. process.pc \notin {"working", "blocked"}
        BY <1>1, <1>3, <1>5 DEF NothingLost
      <3>3. process.pc \in {"printing", "done"} => Split(results, rest, executor[r].cases)
        <4>1. SUFFICES ASSUME process.pc \in {"printing", "done"}
                       PROVE  Split(results, rest, executor[r].cases)
          OBVIOUS
        <4>2. Split(executor[r].run.results, child[r].lines, executor[r].cases)
          BY <1>1, <1>3, <1>5, <4>1 DEF NothingLost
        <4>3. QED
          BY <1>2, <1>8, <4>2 DEF Split
      <3>4. QED
        BY <1>3, <1>9, <1>10, <3>1, <3>2, <3>3 DEF NothingLost
    <2>4. RunSaved(r, thread)
      BY <1>9, <1>10, <2>1 DEF RunSaved
    <2>5. RunMoves(r, thread, process)
      BY <1>3, <1>4, <1>10, <2>1, <2>2, <2>3, <2>4 DEF RunMoves
    <2>6. QED
      BY <2>5, RunStep
  <1>13. QED
    BY <1>11, <1>12 DEF ReadLine, results, result, line

LEMMA ChildEndsStep ==
  ASSUME RunsInv, NEW r \in RunIds, ChildEnds(r)
  PROVE  RunsInv'
  <1>1. executor[r].pc = "read" /\ child[r].lines = <<>> /\ runs' = runs
        /\ child' = [child EXCEPT ![r] = child[r]]
    BY AsTheyAre DEF ChildEnds
  <1>2. CASE child[r].pc = "failed" /\ Failing(r)
    BY <1>1, <1>2, AsTheyAre, FailingMoves
  <1>3. CASE /\ child[r].pc = "done"
             /\ Move(r, [executor[r] EXCEPT !.pc = "close", !.run.status = "completed"])
    <2> DEFINE thread == [executor[r] EXCEPT !.pc = "close", !.run.status = "completed"]
    <2>1. /\ executor[r] \in ExecutorType /\ executor[r].run \in RunType /\ executor[r].run.id = r
          /\ Split(executor[r].run.results, <<>>, executor[r].cases)
      BY <1>1, <1>3, AsTheyAre DEF KnowsItsRun, NothingLost
    <2>2. [executor[r].run EXCEPT !.status = "completed"] \in RunType
      BY <2>1 DEF RunType
    <2>3. /\ thread \in ExecutorType /\ thread.pc = "close" /\ thread.cases = executor[r].cases
          /\ thread.run = [executor[r].run EXCEPT !.status = "completed"]
      BY <2>1, <2>2 DEF ExecutorType
    <2>4. executor' = [executor EXCEPT ![r] = thread]
      BY <1>3 DEF Move
    <2> HIDE DEF thread
    <2>5. /\ thread.run \in RunType /\ thread.run.id = r /\ thread.run.status = "completed"
          /\ thread.run.results = executor[r].run.results
      BY <2>1, <2>2, <2>3 DEF RunType
    <2>6. Complete(thread.run.results, thread.cases)
      BY <2>1, <2>3, <2>5, NoIds DEF Split, Complete
    <2>7. KnowsItsRun(r, thread) /\ NothingLost(thread, child[r])
      BY <2>3, <2>5, <2>6 DEF KnowsItsRun, NothingLost
    <2>8. RunMoves(r, thread, child[r])
      BY <1>1, <2>3, <2>4, <2>7, AsTheyAre DEF RunMoves
    <2>9. QED
      BY <2>8, RunStep
  <1>4. QED
    BY <1>2, <1>3 DEF ChildEnds

LEMMA CloseStep ==
  ASSUME RunsInv, NEW r \in RunIds, Close(r)
  PROVE  RunsInv'
  <1>1. /\ executor[r].pc = "close" /\ child' = [child EXCEPT ![r] = NoChild]
        /\ executor[r].run \in RunType /\ executor[r].run.id = r
        /\ executor[r].run.status = "completed" =>
             Complete(executor[r].run.results, executor[r].cases)
    BY AsTheyAre DEF Close, KnowsItsRun
  <1>2. PICK pc \in {"ended", "lost"} :
          /\ executor' = [executor EXCEPT ![r] = Ended(r, pc)]
          /\ runs' = runs \/ runs' = Saved(runs, executor[r].run)
    BY DEF Close, Move
  <1>3. runs' = runs \/ RunSaved(r, Ended(r, pc))
    BY <1>1, <1>2, EndedType DEF RunSaved
  <1>4. RunMoves(r, Ended(r, pc), NoChild)
    BY <1>1, <1>2, <1>3, EndedType, NoChildType DEF RunMoves
  <1>5. QED
    BY <1>4, RunStep

\* A step of the child alone.
LEMMA ProcessStep ==
  ASSUME RunsInv, NEW r \in RunIds, NEW process \in ChildType,
         executor' = executor, runs' = runs, child' = [child EXCEPT ![r] = process],
         NothingLost(executor[r], process)
  PROVE  RunsInv'
  <1>1. RunMoves(r, executor[r], process)
    BY AsTheyAre DEF RunMoves
  <1>2. QED
    BY <1>1, RunStep

LEMMA AnswerCaseStep ==
  ASSUME RunsInv, NEW r \in RunIds, AnswerCase(r)
  PROVE  RunsInv'
  <1>1. PICK id \in child[r].todo, outcome \in CaseOutcomes :
          child' = [child EXCEPT
            ![r].todo = @ \ {id},
            ![r].answers = IF outcome.printed
                           THEN Append(@, [id |-> id, answer |-> outcome.answer]) ELSE @]
    BY DEF AnswerCase
  <1> DEFINE answer == [id |-> id, answer |-> outcome.answer]
             answers == Append(child[r].answers, answer)
             process == [child[r] EXCEPT !.todo = @ \ {id}, !.answers = answers]
  <1>2. /\ child[r] \in ChildType /\ child[r].todo \in SUBSET Nat /\ child[r].answers \in Seq(Line)
        /\ child[r].pc = "working" /\ outcome.printed /\ answer \in Line
        /\ executor' = executor /\ runs' = runs
    <2>1. /\ child[r] \in ChildType /\ child[r].todo \in SUBSET Nat
          /\ child[r].answers \in Seq(Line) /\ child[r].pc = "working"
          /\ executor' = executor /\ runs' = runs
      BY AsTheyAre DEF AnswerCase, ChildType
    <2>2. PICK a \in Answers \cup {Nothing} : outcome = [printed |-> TRUE, answer |-> a]
      BY DEF CaseOutcomes
    <2>3. QED
      BY <2>1, <2>2 DEF Line
  <1>3. child' = [child EXCEPT ![r] = process]
    BY <1>1, <1>2
  <1>4. /\ answers \in Seq(Line) /\ Ids(answers) = Ids(child[r].answers) \cup {id}
        /\ Distinct(child[r].answers) /\ id \notin Ids(child[r].answers) => Distinct(answers)
    <2>1. answer.id = id
      OBVIOUS
    <2> HIDE DEF answer
    <2>2. QED
      BY <1>2, <2>1, IdsAppend, AppendProperties
  <1> HIDE DEF answers
  <1>5. /\ process \in ChildType /\ process.pc = child[r].pc /\ process.lines = child[r].lines
        /\ process.answers = answers /\ process.todo = child[r].todo \ {id}
    BY <1>2, <1>4 DEF ChildType
  <1> HIDE DEF process
  <1>6. NothingLost(executor[r], child[r])
    BY AsTheyAre
  <1>7. NothingLost(executor[r], process)
    BY <1>2, <1>4, <1>5, <1>6 DEF NothingLost
  <1>8. QED
    BY <1>2, <1>3, <1>5, <1>7, ProcessStep

LEMMA WriteDiagnosticsStep ==
  ASSUME RunsInv, NEW r \in RunIds, WriteDiagnostics(r)
  PROVE  RunsInv'
  <1> DEFINE pc == IF child[r].diagnostics = PipeSize THEN "blocked" ELSE child[r].pc
             size == Min({child[r].diagnostics + 1, PipeSize})
             process == [child[r] EXCEPT !.diagnostics = size, !.pc = pc]
  <1>1. child[r] \in ChildType /\ child[r].pc = "working" /\ child[r].diagnostics \in Nat
        /\ executor' = executor /\ runs' = runs
    BY AsTheyAre DEF WriteDiagnostics, ChildType
  <1>2. child' = [child EXCEPT ![r] = process]
    BY DEF WriteDiagnostics
  <1>3. size \in Nat /\ pc \in {"working", "blocked"}
    <2>1. {child[r].diagnostics + 1, PipeSize} \in SUBSET Nat
      BY <1>1, SizesAssumption
    <2>2. QED
      BY <1>1, <2>1, MinIs
  <1> HIDE DEF size, pc
  <1>4. /\ process \in ChildType /\ process.pc = pc /\ process.lines = child[r].lines
        /\ process.answers = child[r].answers /\ process.todo = child[r].todo
    BY <1>1, <1>3 DEF ChildType
  <1> HIDE DEF process
  <1>5. NothingLost(executor[r], process)
    BY <1>1, <1>3, <1>4, AsTheyAre DEF NothingLost
  <1>6. QED
    BY <1>1, <1>2, <1>4, <1>5, ProcessStep

LEMMA PrintResultsStep ==
  ASSUME RunsInv, NEW r \in RunIds, PrintResults(r)
  PROVE  RunsInv'
  <1>1. PICK lines \in [DOMAIN child[r].answers -> ToSet(child[r].answers)] :
          /\ InOrder(lines) /\ ToSet(lines) = ToSet(child[r].answers)
          /\ child' = [child EXCEPT ![r].pc = "printing", ![r].lines = lines]
    BY DEF PrintResults
  <1> DEFINE process == [child[r] EXCEPT !.pc = "printing", !.lines = lines]
  <1>2. /\ child[r] \in ChildType /\ child[r].answers \in Seq(Line)
        /\ child[r].pc = "working" /\ child[r].todo = {}
        /\ executor' = executor /\ runs' = runs
    BY AsTheyAre DEF PrintResults, ChildType
  <1>3. lines \in Seq(Line) /\ Ids(lines) = Ids(child[r].answers) /\ Distinct(lines)
    BY <1>1, <1>2, PrintedIds
  <1>4. child' = [child EXCEPT ![r] = process]
    BY <1>1
  <1>5. process \in ChildType /\ process.pc = "printing" /\ process.lines = lines
    BY <1>2, <1>3 DEF ChildType
  <1> HIDE DEF process
  <1>6. NothingLost(executor[r], process)
    <2>1. NothingLost(executor[r], child[r])
      BY AsTheyAre
    <2>2. executor[r].pc = "read" =>
            /\ executor[r].run.results = <<>>
            /\ Ids(lines) = Ids(executor[r].cases)
      BY <1>2, <1>3, <2>1 DEF NothingLost
    <2>3. QED
      BY <1>3, <1>5, <2>2, NoIds DEF NothingLost, Split
  <1>7. QED
    BY <1>2, <1>4, <1>5, <1>6, ProcessStep

LEMMA ExitStep ==
  ASSUME RunsInv, NEW r \in RunIds, Exit(r)
  PROVE  RunsInv'
  <1> DEFINE process == [child[r] EXCEPT !.pc = "done"]
  <1>1. /\ child[r] \in ChildType /\ child[r].pc = "printing"
        /\ executor' = executor /\ runs' = runs /\ child' = [child EXCEPT ![r] = process]
    BY AsTheyAre DEF Exit
  <1>2. process \in ChildType /\ process.pc = "done" /\ process.lines = child[r].lines
    BY <1>1 DEF ChildType
  <1> HIDE DEF process
  <1>3. NothingLost(executor[r], process)
    BY <1>1, <1>2, AsTheyAre DEF NothingLost
  <1>4. QED
    BY <1>1, <1>2, <1>3, ProcessStep

LEMMA ChildFailsStep ==
  ASSUME RunsInv, NEW r \in RunIds, ChildFails(r)
  PROVE  RunsInv'
  <1>1. PICK n \in 0 .. Len(child[r].lines) :
          child' = [child EXCEPT ![r].pc = "failed", ![r].lines = SubSeq(@, 1, n)]
    BY DEF ChildFails
  <1> DEFINE lines == SubSeq(child[r].lines, 1, n)
             process == [child[r] EXCEPT !.pc = "failed", !.lines = lines]
  <1>2. /\ child[r] \in ChildType /\ child[r].lines \in Seq(Line)
        /\ executor' = executor /\ runs' = runs
    BY AsTheyAre DEF ChildFails, ChildType
  <1>3. lines \in Seq(Line) /\ Ids(lines) \subseteq Ids(child[r].lines)
    <2>1. DOMAIN child[r].lines = 1 .. Len(child[r].lines) /\ Len(child[r].lines) \in Nat
          /\ \A i \in 1 .. n : i \in DOMAIN child[r].lines /\ child[r].lines[i] \in Line
      BY <1>2, LenProperties, ElementOfSeq
    <2>2. /\ lines \in Seq(Line) /\ Len(lines) = IF 1 <= n THEN n ELSE 0
          /\ \A i \in 1 .. n : lines[i] = child[r].lines[i]
      BY <2>1, SubSeqProperties
    <2>3. DOMAIN lines = 1 .. n
      BY <2>2, LenProperties
    <2> HIDE DEF lines
    <2>4. QED
      BY <2>1, <2>2, <2>3 DEF Ids
  <1>4. child' = [child EXCEPT ![r] = process]
    BY <1>1
  <1> HIDE DEF lines
  <1>5. process \in ChildType /\ process.pc = "failed" /\ process.lines = lines
    BY <1>2, <1>3 DEF ChildType
  <1> HIDE DEF process
  <1>6. NothingLost(executor[r], process)
    BY <1>3, <1>5, AsTheyAre DEF NothingLost
  <1>7. QED
    BY <1>2, <1>4, <1>5, <1>6, ProcessStep

\* A run that is queued is new to the file: its number was nobody's.
LEMMA FreshRun ==
  ASSUME RunsInv, NEW w, NEW r \in RunIds, QueueRun(w, r)
  PROVE  executor[r] = NoExecutor /\ r \notin Listed(runs)
  <1> DEFINE free == {q \in RunIds : executor[q] = NoExecutor} \cup {MaxRuns + 1}
  <1>1. free \in SUBSET Nat /\ free # {}
    BY BoundsAssumption DEF RunIds
  <1>2. r = Min(free)
    BY DEF QueueRun
  <1> HIDE DEF free
  <1>3. r \in free
    BY <1>1, <1>2, MinIs
  <1>4. executor[r] = NoExecutor
    BY <1>3, BoundsAssumption DEF free, RunIds
  <1>5. QED
    BY <1>4, NoExecutorType DEF RunsInv, ListedHadThreads, Listed

LEMMA QueueRunStep ==
  ASSUME RunsInv, OthersTyped, NEW w \in Workers, NEW r \in RunIds, QueueRun(w, r)
  PROVE  RunsInv'
  <1>0. PICK pc \in {"new", "lost"} :
          executor' = [executor EXCEPT ![r] =
            [NoExecutor EXCEPT !.pc = pc, !.cases = worker[w].cases]]
    BY DEF QueueRun
  <1> DEFINE thread == [NoExecutor EXCEPT !.pc = pc, !.cases = worker[w].cases]
             run == Run(r, "queued", <<>>)
  <1>1. worker[w].cases \in Cases /\ child' = [child EXCEPT ![r] = child[r]]
        /\ executor' = [executor EXCEPT ![r] = thread] /\ runs' = Saved(runs, run)
    BY <1>0, AsTheyAre DEF OthersTyped, WorkerType, QueueRun
  <1>2. run \in RunType /\ run.id = r /\ run.status = "queued"
    BY DEF Run, RunType
  <1> HIDE DEF run
  <1>3. thread \in ExecutorType /\ thread.pc \in {"new", "lost"}
    BY <1>0, <1>1, NoExecutorType DEF ExecutorType
  <1> HIDE DEF thread
  <1>4. KnowsItsRun(r, thread) /\ NothingLost(thread, child[r])
    BY <1>3 DEF KnowsItsRun, NothingLost
  <1>5. RunSaved(r, thread)
    BY <1>1, <1>2, <1>3 DEF RunSaved
  <1>6. RunMoves(r, thread, child[r])
    BY <1>1, <1>3, <1>4, <1>5, AsTheyAre, FreshRun DEF RunMoves
  <1>7. QED
    BY <1>6, RunStep

LEMMA CrashStep ==
  ASSUME RunsInv, Crash
  PROVE  RunsInv'
  <1> DEFINE left(r) == IF executor[r] = NoExecutor THEN NoExecutor ELSE Ended(r, "ended")
  <1>1. /\ executor' = [r \in RunIds |-> left(r)] /\ child' = [r \in RunIds |-> NoChild]
        /\ runs' = runs
    BY DEF Crash
  <1>2. ASSUME NEW r \in RunIds
        PROVE  /\ left(r) \in ExecutorType /\ left(r).pc \in {"none", "ended"}
               /\ left(r).cases = executor[r].cases
               /\ executor[r].pc # "none" => left(r).pc # "none"
    BY EndedType, NoExecutorType
  <1> HIDE DEF left
  <1>3. ASSUME NEW r \in RunIds
        PROVE  KnowsItsRun(r, executor'[r]) /\ NothingLost(executor'[r], child'[r])
    BY <1>1, <1>2 DEF KnowsItsRun, NothingLost
  <1>4. RunsTyped'
    BY <1>1, <1>2, NoChildType DEF RunsInv, RunsTyped
  <1>5. \A i \in DOMAIN runs : runs[i].id \in RunIds
    <2>1. runs \in Seq(RunType)
      BY DEF RunsInv, RunsTyped
    <2>2. \A i \in DOMAIN runs : runs[i] \in RunType
      BY <2>1, LenProperties, ElementOfSeq
    <2>3. QED
      BY <2>2 DEF RunType
  <1>6. ListedHadThreads'
    BY <1>1, <1>2, <1>5 DEF RunsInv, ListedHadThreads
  <1>7. CompletedIsComplete'
    BY <1>1, <1>2, <1>5 DEF RunsInv, CompletedIsComplete
  <1>8. QED
    BY <1>3, <1>4, <1>6, <1>7 DEF RunsInv

\* A repository that is opened ends runs; it completes none.
LEMMA InterruptedRuns ==
  ASSUME RunsInv
  PROVE  /\ Interrupted(runs) \in Seq(RunType) /\ DOMAIN Interrupted(runs) = DOMAIN runs
         /\ \A i \in DOMAIN runs :
              /\ Interrupted(runs)[i].id = runs[i].id
              /\ Interrupted(runs)[i].results = runs[i].results
              /\ Interrupted(runs)[i].status \notin Active
              /\ Interrupted(runs)[i].status = "completed" => runs[i].status = "completed"
  <1>1. DOMAIN runs = 1 .. Len(runs) /\ Len(runs) \in Nat
        /\ \A i \in DOMAIN runs : runs[i] \in RunType
    BY LenProperties, ElementOfSeq DEF RunsInv, RunsTyped
  <1>2. \A i \in DOMAIN runs : [runs[i] EXCEPT !.status = "failed"] \in RunType
    BY <1>1 DEF RunType
  <1>3. DOMAIN Interrupted(runs) = DOMAIN runs
    BY DEF Interrupted
  <1>4. \A i \in DOMAIN runs :
          /\ Interrupted(runs)[i] \in RunType
          /\ Interrupted(runs)[i].id = runs[i].id
          /\ Interrupted(runs)[i].results = runs[i].results
          /\ Interrupted(runs)[i].status \notin Active
          /\ Interrupted(runs)[i].status = "completed" => runs[i].status = "completed"
    <2> SUFFICES ASSUME NEW i \in DOMAIN runs
                 PROVE  /\ Interrupted(runs)[i] \in RunType
                        /\ Interrupted(runs)[i].id = runs[i].id
                        /\ Interrupted(runs)[i].results = runs[i].results
                        /\ Interrupted(runs)[i].status \notin Active
                        /\ Interrupted(runs)[i].status = "completed" => runs[i].status = "completed"
      OBVIOUS
    <2>1. CASE runs[i].status \in Active
      <3>1. Interrupted(runs)[i] = [runs[i] EXCEPT !.status = "failed"]
        BY <2>1 DEF Interrupted
      <3>2. QED
        BY <1>1, <1>2, <3>1 DEF RunType, Active
    <2>2. CASE runs[i].status \notin Active
      <3>1. Interrupted(runs)[i] = runs[i]
        BY <2>2 DEF Interrupted
      <3>2. QED
        BY <1>1, <2>2, <3>1
    <2>3. QED
      BY <2>1, <2>2
  <1>5. Interrupted(runs) \in Seq(RunType)
    <2>1. Interrupted(runs) = [i \in 1 .. Len(runs) |-> Interrupted(runs)[i]]
      BY <1>1 DEF Interrupted
    <2> DEFINE file == Interrupted(runs)
    <2> HIDE DEF file
    <2>2. file = [i \in 1 .. Len(runs) |-> file[i]] /\ \A i \in 1 .. Len(runs) : file[i] \in RunType
      BY <1>1, <1>4, <2>1 DEF file
    <2>3. file \in [1 .. Len(runs) -> RunType]
      BY <2>2
    <2>4. file \in Seq(RunType)
      BY <1>1, <2>3, IsASeq
    <2>5. QED
      BY <2>4 DEF file
  <1>6. QED
    BY <1>3, <1>4, <1>5

LEMMA MakePairStep ==
  ASSUME RunsInv, NEW w \in Workers, MakePair(w)
  PROVE  RunsInv'
  <1>1. executor' = executor /\ child' = child /\ runs' = Interrupted(runs)
    BY DEF MakePair
  <1>2. RunsTyped'
    BY <1>1, InterruptedRuns DEF RunsInv, RunsTyped
  <1>3. ListedHadThreads'
    BY <1>1, InterruptedRuns DEF RunsInv, ListedHadThreads
  <1>4. CompletedIsComplete'
    BY <1>1, InterruptedRuns DEF RunsInv, CompletedIsComplete
  <1>5. QED
    BY <1>1, <1>2, <1>3, <1>4 DEF RunsInv

\* The thread and the child of one run.
LEMMA OneRunStep ==
  ASSUME RunsInv, NEW r \in RunIds,
         ExecutorStep(r) \/ ChildStep(r) \/ WriteDiagnostics(r) \/ ChildFails(r)
  PROVE  RunsInv'
  BY PrepareStep, SpawnStep, ReadLineStep, ChildEndsStep, CloseStep, AnswerCaseStep,
     PrintResultsStep, ExitStep, WriteDiagnosticsStep, ChildFailsStep
  DEF ExecutorStep, ChildStep

LEMMA RunsUnchanged ==
  ASSUME RunsInv, UNCHANGED <<runs, executor, child>>
  PROVE  RunsInv'
  BY DEF RunsInv, RunsTyped, ListedHadThreads, CompletedIsComplete

LEMMA RunsStep == RunsInv /\ OthersTyped /\ [Next]_vars => RunsInv'
  <1> SUFFICES ASSUME RunsInv, OthersTyped, [Next]_vars
               PROVE  RunsInv'
    OBVIOUS
  <1>1. CASE Saving /\ UNCHANGED runVars
    BY <1>1, RunsUnchanged DEF runVars
  <1>2. CASE Unused /\ Importing /\ UNCHANGED runVars
    BY <1>2, RunsUnchanged DEF runVars
  <1>3. CASE NoImports /\ \E w \in Workers : Request(w)
    <2> PICK w \in Workers : Request(w)
      BY <1>3
    <2>1. CASE \E s \in SuiteIds : Services(w, s)
      BY <2>1, RunsUnchanged DEF Services
    <2>2. CASE MakePair(w)
      BY <2>2, MakePairStep
    <2>3. CASE GetSuite(w)
      BY <2>3, RunsUnchanged DEF GetSuite
    <2>4. CASE CheckRuns(w)
      BY <2>4, RunsUnchanged DEF CheckRuns
    <2>5. CASE \E r \in RunIds : QueueRun(w, r)
      BY <2>5, QueueRunStep
    <2>6. QED
      BY <2>1, <2>2, <2>3, <2>4, <2>5 DEF Request
  <1>4. CASE \E r \in RunIds :
               ExecutorStep(r) \/ ChildStep(r) \/ WriteDiagnostics(r) \/ ChildFails(r)
    BY <1>4, OneRunStep
  <1>5. CASE Crash
    BY <1>5, CrashStep
  <1>6. CASE UNCHANGED vars
    BY <1>6, RunsUnchanged DEF vars, runVars
  <1>7. QED
    BY <1>1, <1>2, <1>3, <1>4, <1>5, <1>6 DEF Next

LEMMA OthersStep == SuitesTyped /\ OthersTyped /\ [Next]_vars => OthersTyped'
  <1> SUFFICES ASSUME SuitesTyped, OthersTyped, [Next]_vars
               PROVE  OthersTyped'
    OBVIOUS
  <1> USE DEF OthersTyped
  <1>0. /\ Idle \in WorkerType
        /\ \A w \in Workers : worker[w] \in WorkerType
        /\ \A s \in SuiteIds : suites[s].cases \in Cases
    BY BaselineAssumption DEF Idle, WorkerType, Cases, SuitesTyped, SuiteType
  <1>1. ASSUME UNCHANGED <<worker, pairs, published, doubled>>
        PROVE  OthersTyped'
    BY <1>1
  <1>2. ASSUME NEW w \in Workers, NEW s \in SuiteIds, Services(w, s)
        PROVE  OthersTyped'
    <2> DEFINE pc == IF published = 0 THEN "make" ELSE "suite"
               work == [Idle EXCEPT !.suite = s, !.pair = published, !.pc = pc]
    <2>1. pc \in {"make", "suite"}
      OBVIOUS
    <2>2. worker' = [worker EXCEPT ![w] = work] /\ UNCHANGED <<pairs, published, doubled>>
      BY <1>2 DEF Services
    <2> HIDE DEF pc
    <2>3. work \in WorkerType
      BY <1>0, <2>1 DEF WorkerType
    <2> HIDE DEF work
    <2>4. QED
      BY <2>2, <2>3
  <1>3. ASSUME NEW w \in Workers, MakePair(w)
        PROVE  OthersTyped'
    <2> DEFINE work == [worker[w] EXCEPT !.pc = "suite", !.pair = pairs + 1]
    <2>1. worker' = [worker EXCEPT ![w] = work] /\ pairs' = pairs + 1 /\ published' = pairs + 1
          /\ doubled' = (doubled \/ published # 0)
      BY <1>3 DEF MakePair
    <2>2. work \in WorkerType
      <3>1. worker[w] \in WorkerType /\ pairs + 1 \in Nat
        BY <1>0
      <3>2. QED
        BY <3>1 DEF WorkerType
    <2> HIDE DEF work
    <2>3. doubled' \in BOOLEAN
      BY <2>1
    <2>4. pairs' \in Nat /\ published' \in Nat /\ worker' \in [Workers -> WorkerType]
      BY <2>1, <2>2
    <2>5. QED
      BY <2>3, <2>4
  <1>4. ASSUME NEW w \in Workers, GetSuite(w)
        PROVE  OthersTyped'
    <2> DEFINE s == worker[w].suite
               work == [worker[w] EXCEPT !.pc = "start", !.cases = suites[s].cases]
    <2>1. worker' = [worker EXCEPT ![w] = work] \/ worker' = [worker EXCEPT ![w] = Idle]
      BY <1>4 DEF GetSuite, Return
    <2>2. s \in SuiteIds
      BY <1>0 DEF WorkerType
    <2>3. suites[s].cases \in Cases
      BY <1>0, <2>2
    <2>4. work \in WorkerType
      BY <1>0, <2>3 DEF WorkerType
    <2>5. UNCHANGED <<pairs, published, doubled>>
      BY <1>4 DEF GetSuite
    <2> HIDE DEF work
    <2>6. QED
      BY <1>0, <2>1, <2>4, <2>5
  <1>5. ASSUME NEW w \in Workers, CheckRuns(w)
        PROVE  OthersTyped'
    <2> DEFINE work == [worker[w] EXCEPT !.pc = "save"]
    <2>1. worker' = [worker EXCEPT ![w] = work] \/ worker' = [worker EXCEPT ![w] = Idle]
      BY <1>5 DEF CheckRuns, Return
    <2>2. work \in WorkerType /\ UNCHANGED <<pairs, published, doubled>>
      BY <1>0, <1>5 DEF WorkerType, CheckRuns
    <2> HIDE DEF work
    <2>3. QED
      BY <1>0, <2>1, <2>2
  <1>6. ASSUME NEW w \in Workers, NEW r \in RunIds, QueueRun(w, r)
        PROVE  OthersTyped'
    BY <1>0, <1>6 DEF QueueRun, Return
  <1>7. CASE Crash
    BY <1>0, <1>7 DEF Crash
  <1>8. CASE NoImports /\ \E w \in Workers : Request(w)
    BY <1>2, <1>3, <1>4, <1>5, <1>6, <1>8 DEF Request
  <1>9. CASE \E r \in RunIds :
               ExecutorStep(r) \/ ChildStep(r) \/ WriteDiagnostics(r) \/ ChildFails(r)
    <2>1. UNCHANGED <<worker, pairs, published, doubled>>
      BY <1>9 DEF ExecutorStep, Prepare, Spawn, ReadLine, ChildEnds, Close,
                  ChildStep, AnswerCase, PrintResults, Exit, WriteDiagnostics, ChildFails
    <2>2. QED
      BY <1>1, <2>1
  <1>10. CASE (Saving \/ (Unused /\ Importing)) /\ UNCHANGED runVars
    BY <1>1, <1>10 DEF runVars
  <1>11. CASE UNCHANGED vars
    BY <1>1, <1>11 DEF vars, runVars
  <1>12. QED
    BY <1>7, <1>8, <1>9, <1>10, <1>11 DEF Next

AccuracyInv == SuitesInv /\ OthersTyped /\ RunsInv

LEMMA AccuracyInvAlways == Spec => []AccuracyInv
  <1>1. Init => SuitesInv
    BY SuitesInitTyped DEF Init, SuitesInv
  <1>2. Init => OthersTyped
    <2>1. Idle \in WorkerType
      BY BaselineAssumption DEF Idle, WorkerType, Cases
    <2>2. ASSUME Init
          PROVE  /\ worker = [w \in Workers |-> Idle] /\ pairs = 0 /\ published = 0
                 /\ doubled = FALSE
      BY <2>2 DEF Init
    <2>3. QED
      BY <2>1, <2>2 DEF OthersTyped
  <1>3. Init => RunsInv
    <2> SUFFICES ASSUME Init
                 PROVE  RunsInv
      OBVIOUS
    <2>1. /\ runs = <<>> /\ executor = [r \in RunIds |-> NoExecutor]
          /\ child = [r \in RunIds |-> NoChild]
      BY DEF Init
    <2>2. \A r \in RunIds : KnowsItsRun(r, NoExecutor) /\ NothingLost(NoExecutor, NoChild)
      BY NoExecutorType DEF KnowsItsRun, NothingLost
    <2>3. RunsTyped
      BY <2>1, NoExecutorType, NoChildType DEF RunsTyped
    <2>4. ListedHadThreads /\ CompletedIsComplete
      BY <2>1 DEF ListedHadThreads, CompletedIsComplete
    <2>5. QED
      BY <2>1, <2>2, <2>3, <2>4 DEF RunsInv
  <1>4. AccuracyInv /\ [Next]_vars => AccuracyInv'
    BY SuitesStep, OthersStep, RunsStep DEF AccuracyInv, SuitesInv
  <1>5. QED
    BY <1>1, <1>2, <1>3, <1>4, PTL DEF Spec, AccuracyInv

\* The suites, imports, runs, threads, children and requests are what TypeOK says.
THEOREM TypeCorrect == Spec => []TypeOK
  <1>1. AccuracyInv => TypeOK
    BY DEF AccuracyInv, SuitesInv, RunsInv, TypeOK
  <1>2. QED
    BY <1>1, AccuracyInvAlways, PTL

\* A run that is shown as completed has one result for every number of its suite,
\* whatever failed, was restarted or was saved to the suite meanwhile, and also
\* if two managers execute at once.
THEOREM CompletedRunsAreComplete == Spec => []CompletedIsComplete
  <1>1. AccuracyInv => CompletedIsComplete
    BY DEF AccuracyInv, RunsInv
  <1>2. QED
    BY <1>1, AccuracyInvAlways, PTL

-------------------------------------------------------------------------------
(* Part 5: who is shown as active *)

LEMMA ActiveAre ==
  ASSUME NEW r \in RunIds
  PROVE  r \in ActiveRuns <=> \E i \in DOMAIN runs : runs[i].id = r /\ runs[i].status \in Active
  BY DEF ActiveRuns

\* What can be said of the active runs when one run moved.
LEMMA ActiveStep ==
  ASSUME RunsInv, ActiveIsExecuted, NEW r \in RunIds, NEW thread \in ExecutorType,
         executor' = [executor EXCEPT ![r] = thread],
         published' = published, doubled' = doubled,
         \/ runs' = runs
         \/ \E run \in RunType : run.id = r /\ runs' = Saved(runs, run)
                                 /\ (run.status \in Active => thread.pc \in {"new", "spawn", "read", "lost"}),
         \/ thread.pc \in {"new", "spawn", "read", "close", "lost"}
         \/ r \notin Listed(runs)
         \/ \E run \in RunType : run.id = r /\ run.status \notin Active /\ runs' = Saved(runs, run)
  PROVE  ActiveIsExecuted'
  <1> SUFFICES ASSUME ~doubled, published # 0, NEW q \in RunIds, q \in ActiveRuns'
               PROVE  executor'[q].pc \in {"new", "spawn", "read", "close", "lost"}
    BY DEF ActiveIsExecuted, Alive, ActiveRuns
  <1>1. PICK i \in DOMAIN runs' : runs'[i].id = q /\ runs'[i].status \in Active
    BY DEF ActiveRuns
  <1>2. /\ runs \in Seq(RunType) /\ executor \in [RunIds -> ExecutorType]
        /\ executor'[r] = thread /\ \A p \in RunIds \ {r} : executor'[p] = executor[p]
    BY DEF RunsInv, RunsTyped
  <1>3. ASSUME NEW k \in DOMAIN runs, runs[k].id = q, runs[k].status \in Active
        PROVE  executor[q].pc \in {"new", "spawn", "read", "close", "lost"}
    BY <1>3 DEF ActiveIsExecuted, ActiveRuns, Alive
  <1>4. CASE q # r
    <2>1. \E k \in DOMAIN runs : runs[k].id = q /\ runs[k].status \in Active
      <3>1. CASE runs' = runs
        BY <1>1, <3>1
      <3>2. ASSUME NEW run \in RunType, run.id = r, runs' = Saved(runs, run)
            PROVE  \E k \in DOMAIN runs : runs[k].id = q /\ runs[k].status \in Active
        <4>0. \A j \in DOMAIN Saved(runs, run) :
                \/ Saved(runs, run)[j] = run
                \/ \E k \in DOMAIN runs : Saved(runs, run)[j] = runs[k] /\ runs[k].id # run.id
          BY <1>2, SavedRuns
        <4>1. \/ Saved(runs, run)[i] = run
              \/ \E k \in DOMAIN runs : Saved(runs, run)[i] = runs[k] /\ runs[k].id # run.id
          BY <1>1, <3>2, <4>0
        <4>2. QED
          BY <1>1, <1>4, <3>2, <4>1
      <3>3. QED
        BY <3>1, <3>2
    <2>2. QED
      BY <1>2, <1>3, <1>4, <2>1
  <1>5. CASE q = r
    <2>1. ASSUME NEW run \in RunType, run.id = r, runs' = Saved(runs, run)
          PROVE  runs'[i] = run
      <3>0. \A j \in DOMAIN Saved(runs, run) :
              \/ Saved(runs, run)[j] = run
              \/ \E k \in DOMAIN runs : Saved(runs, run)[j] = runs[k] /\ runs[k].id # run.id
        BY <1>2, SavedRuns
      <3>1. \/ Saved(runs, run)[i] = run
            \/ \E k \in DOMAIN runs : Saved(runs, run)[i] = runs[k] /\ runs[k].id # run.id
        BY <1>1, <2>1, <3>0
      <3>2. QED
        BY <1>1, <1>5, <2>1, <3>1
    <2>2. CASE runs' = runs
      <3>1. r \in Listed(runs)
        BY <1>1, <1>5, <2>2 DEF Listed
      <3>2. ASSUME NEW run \in RunType, run.id = r, run.status \notin Active, runs' = Saved(runs, run)
            PROVE  FALSE
        BY <1>1, <2>1, <3>2
      <3>3. QED
        BY <1>2, <1>5, <3>1, <3>2
    <2>3. CASE runs' # runs
      <3>1. PICK run \in RunType :
              /\ run.id = r /\ runs' = Saved(runs, run)
              /\ run.status \in Active => thread.pc \in {"new", "spawn", "read", "lost"}
        BY <2>3
      <3>2. runs'[i] = run
        BY <2>1, <3>1
      <3>3. QED
        BY <1>1, <1>2, <1>5, <3>1, <3>2
    <2>4. QED
      BY <2>2, <2>3
  <1>6. QED
    BY <1>4, <1>5

LEMMA ExecutorActive ==
  ASSUME RunsInv, ActiveIsExecuted, NEW r \in RunIds, ExecutorStep(r)
  PROVE  ActiveIsExecuted'
  <1>0. /\ executor[r] \in ExecutorType /\ KnowsItsRun(r, executor[r])
        /\ published' = published /\ doubled' = doubled
    BY AsTheyAre DEF ExecutorStep, Prepare, Spawn, ReadLine, ChildEnds, Close
  <1>1. ASSUME executor[r].pc \in {"spawn", "read"}, Failing(r), runs' = runs
        PROVE  ActiveIsExecuted'
    <2> DEFINE thread == [executor[r] EXCEPT !.pc = "close", !.run.status = "failed"]
    <2>1. [executor[r].run EXCEPT !.status = "failed"] \in RunType
      BY <1>0, <1>1 DEF KnowsItsRun, RunType
    <2>2. thread \in ExecutorType /\ thread.pc = "close"
      BY <1>0, <2>1 DEF ExecutorType
    <2>3. executor' = [executor EXCEPT ![r] = thread]
      BY <1>1 DEF Failing, Move
    <2> HIDE DEF thread
    <2>4. QED
      BY <1>0, <1>1, <2>2, <2>3, ActiveStep
  <1>2. ASSUME NEW pc \in {"spawn", "read"}, NEW results \in Seq(Result),
               SaveAs(r, pc, "running", results)
        PROVE  ActiveIsExecuted'
    <2> DEFINE run == Run(r, "running", results)
               thread == [executor[r] EXCEPT !.pc = pc, !.run = run]
    <2>1. run \in RunType /\ run.id = r
      BY DEF Run, RunType
    <2>2. runs' = Saved(runs, run) /\ executor' = [executor EXCEPT ![r] = thread]
      BY <1>2 DEF SaveAs, Move
    <2> HIDE DEF run
    <2>3. thread \in ExecutorType /\ thread.pc = pc
      BY <1>0, <2>1 DEF ExecutorType
    <2> HIDE DEF thread
    <2>4. QED
      BY <1>0, <2>1, <2>2, <2>3, ActiveStep
  <1>3. CASE Prepare(r)
    <2>1. CASE r \notin Listed(runs) /\ Move(r, Ended(r, "ended")) /\ UNCHANGED runs
      BY <1>0, <2>1, EndedType, ActiveStep DEF Move
    <2>2. CASE SaveAs(r, "spawn", "running", <<>>)
      <3>1. <<>> \in Seq(Result)
        OBVIOUS
      <3>2. QED
        BY <1>2, <2>2, <3>1
    <2>3. CASE Move(r, Ended(r, "lost")) /\ UNCHANGED runs
      BY <1>0, <2>3, EndedType, ActiveStep DEF Move
    <2>4. QED
      BY <1>3, <2>1, <2>2, <2>3 DEF Prepare
  <1>4. CASE Spawn(r)
    <2>1. CASE Failing(r)
      BY <1>1, <1>4, <2>1 DEF Spawn
    <2>2. CASE Move(r, [executor[r] EXCEPT !.pc = "read"])
      <3> DEFINE thread == [executor[r] EXCEPT !.pc = "read"]
      <3>1. thread \in ExecutorType /\ thread.pc = "read"
        BY <1>0 DEF ExecutorType
      <3>2. executor' = [executor EXCEPT ![r] = thread] /\ runs' = runs
        BY <1>4, <2>2 DEF Move, Spawn
      <3> HIDE DEF thread
      <3>3. QED
        BY <1>0, <3>1, <3>2, ActiveStep
    <2>3. QED
      BY <1>4, <2>1, <2>2 DEF Spawn
  <1>5. CASE ReadLine(r)
    <2> DEFINE line == Head(child[r].lines)
               result == Score(CaseOf(executor[r].cases, line.id), line.answer)
               results == Append(executor[r].run.results, result)
    <2>1. /\ executor[r].pc = "read" /\ executor[r].run.status = "running"
          /\ executor[r].run.results \in Seq(Result)
      BY <1>0, <1>5 DEF ReadLine, KnowsItsRun, RunType
    <2>2. result \in Result
      <3>1. /\ child[r].lines \in Seq(Line) /\ child[r].lines # <<>>
            /\ Ids(child[r].lines) \subseteq Ids(executor[r].cases)
        BY <1>5, <2>1, AsTheyAre DEF ReadLine, NothingLost, ChildType
      <3>2. line.id \in Ids(executor[r].cases)
        BY <3>1, IdsHeadTail
      <3>3. QED
        BY <3>2, AsTheyAre, CaseOfIs, ScoreType
    <2> HIDE DEF result
    <2>3. results \in Seq(Result)
      BY <2>1, <2>2, AppendProperties
    <2>4. SaveAs(r, "read", "running", results) \/ (Failing(r) /\ runs' = runs)
      BY <1>5, <2>1 DEF ReadLine, result
    <2>5. QED
      BY <1>1, <1>2, <2>1, <2>3, <2>4
  <1>6. CASE ChildEnds(r)
    <2>1. CASE Failing(r)
      BY <1>1, <1>6, <2>1 DEF ChildEnds
    <2>2. CASE Move(r, [executor[r] EXCEPT !.pc = "close", !.run.status = "completed"])
      <3> DEFINE thread == [executor[r] EXCEPT !.pc = "close", !.run.status = "completed"]
      <3>1. [executor[r].run EXCEPT !.status = "completed"] \in RunType
        BY <1>0, <1>6 DEF KnowsItsRun, RunType, ChildEnds
      <3>2. thread \in ExecutorType /\ thread.pc = "close"
        BY <1>0, <3>1 DEF ExecutorType
      <3>3. executor' = [executor EXCEPT ![r] = thread] /\ runs' = runs
        BY <1>6, <2>2 DEF Move, ChildEnds
      <3> HIDE DEF thread
      <3>4. QED
        BY <1>0, <3>2, <3>3, ActiveStep
    <2>3. QED
      BY <1>6, <2>1, <2>2 DEF ChildEnds
  <1>7. CASE Close(r)
    <2>1. /\ executor[r].run \in RunType /\ executor[r].run.id = r
          /\ executor[r].run.status \notin Active
      BY <1>0, <1>7 DEF Close, KnowsItsRun, Active
    <2>2. CASE runs' = Saved(runs, executor[r].run) /\ Move(r, Ended(r, "ended"))
      BY <1>0, <2>1, <2>2, EndedType, ActiveStep DEF Move
    <2>3. CASE UNCHANGED runs /\ Move(r, Ended(r, "lost"))
      BY <1>0, <2>3, EndedType, ActiveStep DEF Move
    <2>4. QED
      BY <1>7, <2>2, <2>3 DEF Close
  <1>8. QED
    BY <1>3, <1>4, <1>5, <1>6, <1>7 DEF ExecutorStep

LEMMA ActiveInvStep == AccuracyInv /\ ActiveInv /\ [Next]_vars => ActiveInv'
  <1> SUFFICES ASSUME AccuracyInv, RequestsHavePairs, ActiveIsExecuted, [Next]_vars
               PROVE  RequestsHavePairs' /\ ActiveIsExecuted'
    BY DEF ActiveInv
  <1>0. RunsInv /\ OthersTyped
    BY DEF AccuracyInv
  <1>1. ASSUME UNCHANGED <<worker, published, doubled>>
        PROVE  RequestsHavePairs'
    BY <1>1 DEF RequestsHavePairs
  <1>2. ASSUME UNCHANGED <<runs, executor, published, doubled>>
        PROVE  ActiveIsExecuted'
    BY <1>2 DEF ActiveIsExecuted, ActiveRuns, Alive
  <1>3. ASSUME NEW w \in Workers, \E s \in SuiteIds : Services(w, s)
        PROVE  RequestsHavePairs' /\ ActiveIsExecuted'
    <2>1. RequestsHavePairs'
      BY <1>0, <1>3 DEF Services, RequestsHavePairs, OthersTyped, Idle
    <2>2. QED
      BY <1>2, <1>3, <2>1 DEF Services
  <1>4. ASSUME NEW w \in Workers, MakePair(w)
        PROVE  RequestsHavePairs' /\ ActiveIsExecuted'
    <2>1. published' # 0 /\ runs' = Interrupted(runs)
      BY <1>0, <1>4 DEF MakePair, OthersTyped
    <2>2. \A r \in RunIds : r \notin ActiveRuns'
      BY <1>0, <2>1, InterruptedRuns DEF ActiveRuns
    <2>3. QED
      BY <2>1, <2>2 DEF RequestsHavePairs, ActiveIsExecuted, ActiveRuns
  <1>5. ASSUME NEW w \in Workers, GetSuite(w) \/ CheckRuns(w)
        PROVE  RequestsHavePairs' /\ ActiveIsExecuted'
    <2>1. worker[w].pc \in {"suite", "start"} /\ UNCHANGED <<runs, executor, published, doubled>>
      BY <1>5 DEF GetSuite, CheckRuns
    <2>2. doubled' \/ published' # 0
      BY <2>1 DEF RequestsHavePairs
    <2>3. QED
      BY <1>2, <2>1, <2>2 DEF RequestsHavePairs
  <1>6. ASSUME NEW w \in Workers, NEW r \in RunIds, QueueRun(w, r)
        PROVE  RequestsHavePairs' /\ ActiveIsExecuted'
    <2>0. PICK pc \in {"new", "lost"} :
            executor' = [executor EXCEPT ![r] =
              [NoExecutor EXCEPT !.pc = pc, !.cases = worker[w].cases]]
      BY <1>6 DEF QueueRun
    <2> DEFINE thread == [NoExecutor EXCEPT !.pc = pc, !.cases = worker[w].cases]
               run == Run(r, "queued", <<>>)
    <2>1. /\ worker[w].pc = "save" /\ published' = published /\ doubled' = doubled
          /\ executor' = [executor EXCEPT ![r] = thread] /\ runs' = Saved(runs, run)
          /\ worker[w].cases \in Cases
      BY <1>0, <1>6, <2>0 DEF QueueRun, OthersTyped, WorkerType
    <2>2. run \in RunType /\ run.id = r
      BY DEF Run, RunType
    <2> HIDE DEF run
    <2>3. thread \in ExecutorType /\ thread.pc \in {"new", "lost"}
      BY <2>0, <2>1, NoExecutorType DEF ExecutorType
    <2> HIDE DEF thread
    <2>4. ActiveIsExecuted'
      BY <1>0, <2>1, <2>2, <2>3, ActiveStep
    <2>5. doubled' \/ published' # 0
      BY <2>1 DEF RequestsHavePairs
    <2>6. QED
      BY <2>4, <2>5 DEF RequestsHavePairs
  <1>7. CASE NoImports /\ \E w \in Workers : Request(w)
    BY <1>3, <1>4, <1>5, <1>6, <1>7 DEF Request
  <1>8. ASSUME NEW r \in RunIds, ExecutorStep(r)
        PROVE  RequestsHavePairs' /\ ActiveIsExecuted'
    <2>1. UNCHANGED <<worker, published, doubled>>
      BY <1>8 DEF ExecutorStep, Prepare, Spawn, ReadLine, ChildEnds, Close
    <2>2. QED
      BY <1>0, <1>1, <1>8, <2>1, ExecutorActive
  <1>9. ASSUME NEW r \in RunIds, ChildStep(r) \/ WriteDiagnostics(r) \/ ChildFails(r)
        PROVE  RequestsHavePairs' /\ ActiveIsExecuted'
    <2>1. UNCHANGED <<runs, executor, worker, published, doubled>>
      BY <1>9 DEF ChildStep, AnswerCase, PrintResults, Exit, WriteDiagnostics, ChildFails
    <2>2. QED
      BY <1>1, <1>2, <2>1
  <1>10. CASE Crash
    <2>1. published' = 0 /\ worker' = [w \in Workers |-> Idle] /\ Idle.pc = "idle"
      BY <1>10 DEF Crash, Idle
    <2>2. QED
      BY <2>1 DEF RequestsHavePairs, ActiveIsExecuted
  <1>11. CASE (Saving \/ (Unused /\ Importing)) /\ UNCHANGED runVars
    BY <1>1, <1>2, <1>11 DEF runVars
  <1>12. CASE UNCHANGED vars
    BY <1>1, <1>2, <1>12 DEF vars, runVars
  <1>13. QED
    BY <1>7, <1>8, <1>9, <1>10, <1>11, <1>12 DEF Next

\* A run that is shown as queued or running has a thread, unless two managers
\* were made or the file could not be written.  The thread stores how the run
\* ended before it ends, and nobody queues a run before the file was opened and
\* the runs of the process before were ended.
THEOREM ActiveRunsAreExecuted == Spec => []ActiveIsExecuted
  <1>1. Init => ActiveInv
    BY DEF Init, ActiveInv, RequestsHavePairs, ActiveIsExecuted, Idle
  <1>2. ActiveInv => ActiveIsExecuted
    BY DEF ActiveInv
  <1>3. QED
    BY <1>1, <1>2, ActiveInvStep, AccuracyInvAlways, PTL DEF Spec
================================================================================
