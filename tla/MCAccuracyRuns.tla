---------------------------- MODULE MCAccuracyRuns ----------------------------
(* Small instances of AccuracyRuns for TLC. *)
EXTENDS AccuracyRuns, TLC

CONSTANTS q1, q2, q3, a1

C(id, question, expected) == [id |-> id, question |-> question, expected |-> expected]

MCDefaultCases == <<C(1, q1, a1)>>

\* An empty suite, and one that expects nothing and uses a number twice.
MCLists == {<<>>, <<C(2, q2, Nothing), C(2, q3, Nothing)>>}

\* A question twice.  A number that is given after it was assigned; one that is
\* given before, with a row that cannot be read.
MCSheets ==
  {<<C(0, q2, a1), C(0, q2, Nothing)>>,
   <<C(0, q2, a1), C(2, q3, a1)>>,
   <<C(2, q3, a1), C(0, q2, a1), C(0, NoQuestion, a1)>>}

\* What two managers do at once is not looked at any further: the first step that
\* makes a second one is the last.
OneManager == ~doubled
===============================================================================
