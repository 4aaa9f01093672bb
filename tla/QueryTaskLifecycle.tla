--------------------------- MODULE QueryTaskLifecycle ---------------------------
(***************************************************************************)
(* QueryTask implements TaskLifecycle: the watcher's view is read off the  *)
(* rows and the transcripts.                                                *)
(***************************************************************************)
EXTENDS QueryTask

LifeOf ==
  [t \in Tasks |-> [status |-> query_tasks[t].status, stage |-> query_tasks[t].stage]]

Told ==
  {t \in Tasks : \E i \in DOMAIN chat_messages[t] : IsOutcome(chat_messages[t][i])}

Lifecycle ==
  INSTANCE TaskLifecycle WITH life <- LifeOf, born <- issued, told <- Told

\* Whatever the handlers, crashes and deletions do, a watcher sees a task take
\* only the moves of the lifecycle, end at most once, and be told its outcome
\* in the very step in which it ends.
ImplementsLifecycle == Lifecycle!Spec
===============================================================================
