----------------------------- MODULE TaskLifecycle -----------------------------
(***************************************************************************)
(* What a QueryTask promises to whoever watches it: the abstract           *)
(* specification the services implement.  A watcher sees a status and a    *)
(* stage per task and whether the user has been told an outcome.  It does  *)
(* not see versions, handlers, runs or transcripts.                         *)
(***************************************************************************)
EXTENDS TaskStateMachine

CONSTANT Tasks

VARIABLES
  life,   \* [Tasks -> status and stage]; "NONE" for a task that is not there
  born,   \* tasks that were submitted at some time
  told    \* tasks whose user has been told how they ended

watched == <<life, born, told>>

Nothing == [status |-> "NONE", stage |-> "NONE"]

Seen == [status : Status \cup {"NONE"}, stage : Stage \cup {"NONE"}]

Init ==
  /\ life = [t \in Tasks |-> Nothing]
  /\ born = {}
  /\ told = {}

\* A question becomes a task, once.
Submit(t) ==
  /\ t \notin born
  /\ born' = born \cup {t}
  /\ life' = [life EXCEPT ![t] = [status |-> "RUNNING", stage |-> "INTENT_ROUTING"]]
  /\ UNCHANGED told

\* The state machine's tables, and one move they do not list: a task whose
\* first analysis fails takes the stage that failed, ENTITY_RESOLUTION when
\* embedding or reranking was unavailable (_model_failure_stage).
Allowed(from, to) ==
  \/ CanTransition(from.status, from.stage, to.status, to.stage)
  \/ /\ from = [status |-> "RUNNING", stage |-> "INTENT_ROUTING"]
     /\ to = [status |-> "FAILED", stage |-> "ENTITY_RESOLUTION"]

\* The task advances, waits, resumes or is cancelled; nobody is told an outcome.
Advance(t, to) ==
  /\ to.status \in {"RUNNING", "WAITING_USER", "CANCELLED"}
  /\ Allowed(life[t], to)
  /\ life' = [life EXCEPT ![t] = to]
  /\ UNCHANGED <<born, told>>

\* The task ends with an outcome, and the user is told in the same step.
Settle(t, to) ==
  /\ to.status \in {"SUCCEEDED", "FAILED"}
  /\ t \notin told
  /\ Allowed(life[t], to)
  /\ life' = [life EXCEPT ![t] = to]
  /\ told' = told \cup {t}
  /\ UNCHANGED born

\* A conversation is deleted with the tasks it has.
Forget(gone) ==
  /\ gone # {}
  /\ \A t \in gone : life[t] # Nothing
  /\ life' = [t \in Tasks |-> IF t \in gone THEN Nothing ELSE life[t]]
  /\ told' = told \ gone
  /\ UNCHANGED born

Next ==
  \/ \E t \in Tasks : Submit(t)
  \/ \E t \in Tasks : LET to == life'[t]
                     IN to \in Seen /\ (Advance(t, to) \/ Settle(t, to))
  \/ \E gone \in SUBSET Tasks : Forget(gone)

Spec == Init /\ [][Next]_watched
===============================================================================
