--------------------------- MODULE ConversationsProofs ---------------------------
(***************************************************************************)
(* Submissions and clean-ups of conversations, for every set of users,      *)
(* conversations, questions and request handlers, every limit and every     *)
(* number of conversations a clean-up keeps.                                *)
(*                                                                         *)
(*  1. Types.                                                               *)
(*  2. RepliesAgree: the unique index leaves one live task per conversation  *)
(*     and key, so whatever a lost race finds is the question itself.        *)
(*  3. LimitOvershootBounded is inductive: a submission that begins while    *)
(*     the limit is not reached finds at most all handlers with it.          *)
(*  4. CleanupSparesUse: the order of the conversations of a user is total,   *)
(*     so the rank of a conversation, the number of newer ones, names it.    *)
(***************************************************************************)
EXTENDS Conversations, FiniteSetTheorems, NaturalsInduction, SequenceTheorems, TLAPS

Stored == [owner : Users, updated_at : Nat] \cup {NoConversation}

Task == [ask : Submission, active : BOOLEAN, live : BOOLEAN]

Operations == {"idle", "submit", "recover", "retry"}

HandlerState ==
  [op : Operations, ask : Submission \cup {Idle.ask}, existed : BOOLEAN, again : BOOLEAN,
   now : Nat]

\* A handler that is busy has a submission.
TypeOK ==
  /\ conversations \in [ConversationIds -> Stored]
  /\ tasks \in Seq(Task)
  /\ handler \in [Handlers -> HandlerState]
  /\ \A h \in Handlers : handler[h].op # "idle" => handler[h].ask \in Submission
  /\ replies \subseteq [ask : Submission, result : Nat]
  /\ clock \in Nat

\* The unique index (conversation_id, idempotency_key).
KeysUnique ==
  \A i, j \in DOMAIN tasks :
    (/\ tasks[i].live /\ tasks[j].live
     /\ tasks[i].ask.conversation = tasks[j].ask.conversation
     /\ tasks[i].ask.key = tasks[j].ask.key) => i = j

\* A client is told of its own question.
RepliesTrue ==
  \A r \in replies :
    r.result # Failed => r.result \in DOMAIN tasks /\ tasks[r.result].ask = r.ask

\* The inductive invariant of RepliesAgree.
ReplyInv == TypeOK /\ KeysUnique /\ RepliesTrue

-------------------------------------------------------------------------------
(* Part 1: types *)

LEMMA IdleType == Idle \in HandlerState /\ Idle.op = "idle"
  BY DEF Idle, HandlerState, Operations

LEMMA Owner ==
  ASSUME TypeOK, NEW c \in ConversationIds
  PROVE  /\ Exists(c) <=> conversations[c].owner \in Users
         /\ Exists(c) <=> conversations[c].owner # NoUser
         /\ Exists(c) => conversations[c] \in [owner : Users, updated_at : Nat]
         /\ conversations[c].updated_at \in Nat
  BY UsersAssumption DEF TypeOK, Stored, Exists, NoConversation

LEMMA FoundTasks ==
  ASSUME TypeOK, NEW s
  PROVE  /\ Found(s) \subseteq DOMAIN tasks
         /\ DOMAIN tasks = 1..Len(tasks) /\ Len(tasks) \in Nat
         /\ Found(s) \subseteq Nat
  BY DEF TypeOK, Found

LEMMA RemoveType ==
  ASSUME TypeOK, NEW doomed, Remove(doomed)
  PROVE  /\ conversations' \in [ConversationIds -> Stored] /\ tasks' \in Seq(Task)
         /\ DOMAIN tasks' = DOMAIN tasks
         /\ \A i \in DOMAIN tasks :
              /\ tasks'[i].ask = tasks[i].ask
              /\ tasks[i].ask.conversation \in doomed => ~tasks'[i].live
              /\ tasks[i].ask.conversation \notin doomed => tasks'[i] = tasks[i]
  <1>1. conversations' \in [ConversationIds -> Stored]
    BY DEF TypeOK, Remove, Stored
  <1> DEFINE new(i) == IF tasks[i].ask.conversation \in doomed
                       THEN [tasks[i] EXCEPT !.live = FALSE, !.active = FALSE]
                       ELSE tasks[i]
  <1>2. \A i \in DOMAIN tasks : tasks[i] \in Task
    BY DEF TypeOK
  <1>3. ASSUME NEW i \in DOMAIN tasks
        PROVE  /\ new(i) \in Task /\ new(i).ask = tasks[i].ask
               /\ tasks[i].ask.conversation \in doomed => ~new(i).live
               /\ tasks[i].ask.conversation \notin doomed => new(i) = tasks[i]
    BY <1>2 DEF Task
  <1>4. tasks' = [i \in DOMAIN tasks |-> new(i)]
    BY DEF Remove
  <1> HIDE DEF new
  <1>5. DOMAIN tasks = 1..Len(tasks) /\ Len(tasks) \in Nat
    BY DEF TypeOK
  <1>6. tasks' \in [1..Len(tasks) -> Task]
    BY <1>3, <1>4, <1>5
  <1>7. tasks' \in Seq(Task)
    BY <1>5, <1>6, SeqDef
  <1>8. QED
    BY <1>1, <1>3, <1>4, <1>7

LEMMA ReplyType ==
  ASSUME TypeOK, NEW s \in Submission, NEW n \in Nat, Reply(s, n)
  PROVE  replies' \subseteq [ask : Submission, result : Nat]
  BY DEF TypeOK, Reply

LEMMA ReturnType ==
  ASSUME TypeOK, NEW h \in Handlers, Return(h)
  PROVE  /\ handler' \in [Handlers -> HandlerState]
         /\ \A g \in Handlers : handler'[g].op # "idle" => handler'[g].ask \in Submission
  BY IdleType DEF TypeOK, Return

LEMMA SubmittingType ==
  ASSUME TypeOK, NEW s \in Submission, NEW again \in BOOLEAN
  PROVE  Submitting(s, again) \in HandlerState /\ Submitting(s, again).ask = s
  <1>1. Exists(s.conversation) \in BOOLEAN
    BY DEF Exists
  <1>2. QED
    BY <1>1 DEF Submitting, HandlerState, Operations, TypeOK

LEMMA StartType ==
  ASSUME TypeOK, NEW h \in Handlers, NEW work \in HandlerState, work.ask \in Submission,
         handler' = [handler EXCEPT ![h] = work]
  PROVE  /\ handler' \in [Handlers -> HandlerState]
         /\ \A g \in Handlers : handler'[g].op # "idle" => handler'[g].ask \in Submission
  BY DEF TypeOK

LEMMA CommitType ==
  ASSUME TypeOK, NEW h \in Handlers, CommitSubmit(h)
  PROVE  TypeOK'
  <1> DEFINE work == handler[h]
             s == work.ask
             new == [ask |-> s, active |-> TRUE, live |-> TRUE]
  <1>1. s \in Submission /\ work \in HandlerState
    BY DEF CommitSubmit, TypeOK
  <1>2. s.conversation \in ConversationIds /\ s.user \in Users /\ work.now \in Nat
    BY <1>1 DEF Submission, HandlerState
  <1>3. StoredConversation(work) \in Stored
    BY <1>2, Owner DEF CommitSubmit, Insertable, StoredConversation, Stored
  <1>4. conversations' \in [ConversationIds -> Stored]
    BY <1>3 DEF CommitSubmit, TypeOK
  <1>5. tasks' \in Seq(Task)
    <2>1. new \in Task
      BY <1>1 DEF Task
    <2>2. tasks' = Append(tasks, new)
      BY DEF CommitSubmit
    <2> HIDE DEF new
    <2>3. QED
      BY <2>1, <2>2, AppendProperties DEF TypeOK
  <1>6. Len(tasks) + 1 \in Nat
    BY FoundTasks
  <1>7. Reply(s, Len(tasks) + 1) /\ Return(h) /\ clock' = clock
    BY DEF CommitSubmit
  <1> HIDE DEF s, work
  <1>8. QED
    BY <1>1, <1>4, <1>5, <1>6, <1>7, ReplyType, ReturnType DEF TypeOK

LEMMA SubmissionType ==
  ASSUME TypeOK, NEW h \in Handlers, Collide(h) \/ LoseConversation(h) \/ Recover(h) \/ RetryReads(h)
  PROVE  TypeOK'
  <1> DEFINE s == handler[h].ask
  <1>1. s \in Submission /\ handler[h] \in HandlerState
    BY DEF TypeOK, Collide, LoseConversation, Recover, RetryReads
  <1>2. UNCHANGED <<conversations, tasks, clock>>
    BY DEF Collide, LoseConversation, Recover, RetryReads
  <1>3. ASSUME replies' = replies \/ \E n \in Nat : Reply(s, n)
        PROVE  replies' \subseteq [ask : Submission, result : Nat]
    BY <1>1, <1>3, ReplyType DEF TypeOK
  <1>4. ASSUME NEW op \in Operations, handler' = [handler EXCEPT ![h].op = op]
        PROVE  /\ handler' \in [Handlers -> HandlerState]
               /\ \A g \in Handlers : handler'[g].op # "idle" => handler'[g].ask \in Submission
    <2> DEFINE work == [handler[h] EXCEPT !.op = op]
    <2>1. work \in HandlerState /\ work.ask = s /\ handler' = [handler EXCEPT ![h] = work]
      BY <1>1, <1>4 DEF HandlerState
    <2> HIDE DEF work
    <2>2. QED
      BY <1>1, <2>1, StartType
  <1>5. replies' = replies \/ \E n \in Nat : Reply(s, n)
    BY FoundTasks DEF Collide, LoseConversation, Recover, RetryReads, Failed
  <1>6. \/ Return(h) \/ handler' = [handler EXCEPT ![h].op = "recover"]
        \/ handler' = [handler EXCEPT ![h].op = "retry"]
        \/ handler' = [handler EXCEPT ![h] = Submitting(s, TRUE)]
    BY DEF Collide, LoseConversation, Recover, RetryReads
  <1>7. /\ handler' \in [Handlers -> HandlerState]
        /\ \A g \in Handlers : handler'[g].op # "idle" => handler'[g].ask \in Submission
    <2>1. CASE Return(h)
      BY <2>1, ReturnType
    <2>2. CASE handler' = [handler EXCEPT ![h].op = "recover"]
      BY <1>4, <2>2 DEF Operations
    <2>3. CASE handler' = [handler EXCEPT ![h].op = "retry"]
      BY <1>4, <2>3 DEF Operations
    <2>4. CASE handler' = [handler EXCEPT ![h] = Submitting(s, TRUE)]
      BY <1>1, <2>4, SubmittingType, StartType
    <2>5. QED
      BY <1>6, <2>1, <2>2, <2>3, <2>4
  <1>8. QED
    BY <1>2, <1>3, <1>5, <1>7 DEF TypeOK

LEMMA TypeStep == TypeOK /\ [Next]_vars => TypeOK'
  <1> SUFFICES ASSUME TypeOK, [Next]_vars PROVE TypeOK'
    OBVIOUS
  <1>1. ASSUME NEW h \in Handlers, NEW s \in Asked, BeginSubmit(h, s)
        PROVE  TypeOK'
    <2>1. s \in Submission
      BY AskedAssumption
    <2>2. QED
      BY <1>1, <2>1, SubmittingType, StartType DEF BeginSubmit, TypeOK
  <1>2. ASSUME NEW h \in Handlers, CommitSubmit(h)
        PROVE  TypeOK'
    BY <1>2, CommitType
  <1>3. ASSUME NEW h \in Handlers,
               Collide(h) \/ LoseConversation(h) \/ Recover(h) \/ RetryReads(h)
        PROVE  TypeOK'
    BY <1>3, SubmissionType
  <1>4. ASSUME NEW s \in Asked, Replay(s)
        PROVE  TypeOK'
    <2>1. s \in Submission /\ \E i \in Nat : Reply(s, i)
      BY <1>4, AskedAssumption, FoundTasks DEF Replay
    <2>2. QED
      BY <1>4, <2>1, ReplyType DEF Replay, TypeOK
  <1>5. ASSUME NEW i \in DOMAIN tasks, TaskEnds(i)
        PROVE  TypeOK'
    <2>0. tasks[i] \in Task
      BY DEF TypeOK
    <2>1. [tasks[i] EXCEPT !.active = FALSE] \in Task
      BY <2>0 DEF Task
    <2>2. tasks' \in Seq(Task)
      BY <1>5, <2>1 DEF TaskEnds, TypeOK
    <2>3. QED
      BY <1>5, <2>2 DEF TaskEnds, TypeOK
  <1>6. ASSUME NEW u \in Users, NEW c \in ConversationIds, RenameConversation(u, c)
        PROVE  TypeOK'
    <2>1. [conversations[c] EXCEPT !.updated_at = clock] \in Stored
      BY <1>6, Owner DEF RenameConversation, TypeOK, Stored
    <2>2. QED
      BY <1>6, <2>1 DEF RenameConversation, TypeOK
  <1>7. ASSUME NEW doomed, Remove(doomed), UNCHANGED <<handler, replies, clock>>
        PROVE  TypeOK'
    BY <1>7, RemoveType DEF TypeOK
  <1>8. CASE Tick
    BY <1>8 DEF Tick, TypeOK
  <1>9. CASE UNCHANGED vars
    BY <1>9 DEF vars, TypeOK
  <1>10. QED
    BY <1>1, <1>2, <1>3, <1>4, <1>5, <1>6, <1>7, <1>8, <1>9
    DEF Next, DeleteConversation, CleanupConversations

LEMMA TypeInit == Init => TypeOK
  BY IdleType, EmptySeq DEF Init, TypeOK, Stored

-------------------------------------------------------------------------------
(* Part 2: RepliesAgree *)

\* The tasks stay, their questions and their order; none comes back to life.
TasksKept ==
  /\ DOMAIN tasks' = DOMAIN tasks
  /\ \A i \in DOMAIN tasks :
       tasks'[i].ask = tasks[i].ask /\ (tasks'[i].live => tasks[i].live)

\* What finds a task to replay finds the question itself.
LEMMA ReplayFindsQuestion ==
  ASSUME KeysUnique, NEW s, IsReplay(s), NEW i \in Found(s)
  PROVE  i \in DOMAIN tasks /\ tasks[i].ask = s
  <1>1. PICK j \in Found(s) : tasks[j].ask = s
    BY DEF IsReplay, Fingerprint
  <1>2. i = j
    BY <1>1 DEF KeysUnique, Found
  <1>3. QED
    BY <1>1, <1>2 DEF Found

\* What is replied, if no task is inserted.
LEMMA RepliedTrue ==
  ASSUME KeysUnique, [Next]_vars, \A h \in Handlers : ~CommitSubmit(h)
  PROVE  \/ replies' = replies
         \/ \E s : Reply(s, Failed)
         \/ \E i \in DOMAIN tasks : Reply(tasks[i].ask, i)
  <1>1. ASSUME NEW s, IsReplay(s), \E i \in Found(s) : Reply(s, i)
        PROVE  \E i \in DOMAIN tasks : Reply(tasks[i].ask, i)
    BY <1>1, ReplayFindsQuestion
  <1>2. ASSUME NEW h \in Handlers,
               Collide(h) \/ LoseConversation(h) \/ Recover(h) \/ RetryReads(h)
        PROVE  \/ replies' = replies
               \/ \E s : Reply(s, Failed)
               \/ \E i \in DOMAIN tasks : Reply(tasks[i].ask, i)
    BY <1>1, <1>2 DEF Collide, LoseConversation, Recover, RetryReads
  <1>3. ASSUME NEW s, Replay(s)
        PROVE  \E i \in DOMAIN tasks : Reply(tasks[i].ask, i)
    BY <1>1, <1>3 DEF Replay
  <1>4. QED
    BY <1>2, <1>3
    DEF Next, BeginSubmit, TaskEnds, RenameConversation, DeleteConversation,
        CleanupConversations, Tick, vars

LEMMA TasksStep ==
  ASSUME TypeOK, [Next]_vars
  PROVE  TasksKept \/ \E h \in Handlers : CommitSubmit(h)
  <1>1. ASSUME NEW doomed, Remove(doomed)
        PROVE  TasksKept
    <2>1. \A i \in DOMAIN tasks : tasks[i] \in Task
      BY DEF TypeOK
    <2>2. QED
      BY <1>1, <2>1, RemoveType DEF TasksKept, Task
  <1>2. ASSUME NEW i \in DOMAIN tasks, TaskEnds(i)
        PROVE  TasksKept
    <2>1. \A j \in DOMAIN tasks : tasks[j] \in Task
      BY DEF TypeOK
    <2>2. tasks' = [tasks EXCEPT ![i].active = FALSE]
      BY <1>2 DEF TaskEnds
    <2>3. QED
      BY <2>1, <2>2 DEF TasksKept, Task
  <1>3. CASE tasks' = tasks
    BY <1>3 DEF TasksKept
  <1>4. QED
    BY <1>1, <1>2, <1>3
    DEF Next, BeginSubmit, Collide, LoseConversation, Recover, RetryReads, Replay,
        RenameConversation, DeleteConversation, CleanupConversations, Tick, vars

LEMMA CommitReplies ==
  ASSUME TypeOK, KeysUnique, RepliesTrue, NEW h \in Handlers, CommitSubmit(h)
  PROVE  KeysUnique' /\ RepliesTrue'
  <1> DEFINE s == handler[h].ask
             n == Len(tasks) + 1
             new == [ask |-> s, active |-> TRUE, live |-> TRUE]
  <1>1. /\ s \in Submission /\ Found(s) = {} /\ tasks' = Append(tasks, new)
        /\ replies' = replies \cup {[ask |-> s, result |-> n]}
    BY DEF CommitSubmit, Insertable, Reply, TypeOK
  <1>2. new \in Task
    BY <1>1 DEF Task
  <1>3. new.ask = s /\ new.live
    OBVIOUS
  <1> HIDE DEF new, s
  <1>4. /\ DOMAIN tasks = 1..Len(tasks) /\ Len(tasks) \in Nat
        /\ DOMAIN tasks' = 1..n
        /\ tasks'[n] = new
        /\ \A i \in 1..Len(tasks) : tasks'[i] = tasks[i]
    BY <1>1, <1>2, AppendProperties DEF TypeOK
  <1>5. ASSUME NEW i \in DOMAIN tasks, tasks[i].live,
               tasks[i].ask.conversation = s.conversation, tasks[i].ask.key = s.key
        PROVE  FALSE
    BY <1>1, <1>5 DEF Found
  <1>6. KeysUnique'
    <2>1. SUFFICES ASSUME NEW i \in 1..n, NEW j \in 1..n, tasks'[i].live, tasks'[j].live,
                          tasks'[i].ask.conversation = tasks'[j].ask.conversation,
                          tasks'[i].ask.key = tasks'[j].ask.key
                   PROVE  i = j
      BY <1>4 DEF KeysUnique
    <2>2. \A k \in 1..n : k = n \/ k \in DOMAIN tasks
      BY <1>4
    <2>3. CASE i \in DOMAIN tasks /\ j \in DOMAIN tasks
      BY <1>4, <2>1, <2>3 DEF KeysUnique
    <2>4. CASE i = n /\ j \in DOMAIN tasks
      BY <1>3, <1>4, <1>5, <2>1, <2>4
    <2>5. CASE i \in DOMAIN tasks /\ j = n
      BY <1>3, <1>4, <1>5, <2>1, <2>5
    <2>6. QED
      BY <2>2, <2>3, <2>4, <2>5
  <1>7. RepliesTrue'
    <2>1. SUFFICES ASSUME NEW r \in replies', r.result # Failed
                   PROVE  r.result \in 1..n /\ tasks'[r.result].ask = r.ask
      BY <1>4 DEF RepliesTrue
    <2>2. CASE r \in replies
      BY <1>4, <2>1, <2>2 DEF RepliesTrue
    <2>3. CASE r = [ask |-> s, result |-> n]
      BY <1>3, <1>4, <2>3
    <2>4. QED
      BY <1>1, <2>2, <2>3
  <1>8. QED
    BY <1>6, <1>7

LEMMA ReplyStep == ReplyInv /\ [Next]_vars => ReplyInv'
  <1> SUFFICES ASSUME ReplyInv, [Next]_vars PROVE ReplyInv'
    OBVIOUS
  <1>1. TypeOK /\ TypeOK'
    BY TypeStep DEF ReplyInv
  <1>2. ASSUME NEW h \in Handlers, CommitSubmit(h)
        PROVE  KeysUnique' /\ RepliesTrue'
    BY <1>2, CommitReplies DEF ReplyInv
  <1>3. ASSUME \A h \in Handlers : ~CommitSubmit(h)
        PROVE  KeysUnique' /\ RepliesTrue'
    <2>1. TasksKept
      BY <1>1, <1>3, TasksStep
    <2>2. KeysUnique'
      BY <2>1 DEF TasksKept, KeysUnique, ReplyInv
    <2>3. \A r \in replies : r.result # Failed =>
            r.result \in DOMAIN tasks' /\ tasks'[r.result].ask = r.ask
      BY <2>1 DEF TasksKept, RepliesTrue, ReplyInv
    <2>4. RepliesTrue'
      <3>1. CASE replies' = replies
        BY <2>3, <3>1 DEF RepliesTrue
      <3>2. ASSUME NEW s, Reply(s, Failed)
            PROVE  RepliesTrue'
        BY <2>3, <3>2 DEF Reply, RepliesTrue
      <3>3. ASSUME NEW i \in DOMAIN tasks, Reply(tasks[i].ask, i)
            PROVE  RepliesTrue'
        BY <2>1, <2>3, <3>3 DEF Reply, RepliesTrue, TasksKept
      <3>4. QED
        BY <1>3, <3>1, <3>2, <3>3, RepliedTrue DEF ReplyInv
    <2>5. QED
      BY <2>2, <2>4
  <1>4. QED
    BY <1>1, <1>2, <1>3 DEF ReplyInv

LEMMA ReplyInit == Init => ReplyInv
  BY TypeInit DEF Init, ReplyInv, KeysUnique, RepliesTrue

LEMMA ReplyAlways == Spec => []ReplyInv
  BY ReplyInit, ReplyStep, PTL DEF Spec

\* Whatever race a submission lost, the task its client is told of is the
\* client's own question, and two deliveries of one question are told of one task
\* as long as that task is not deleted.
THEOREM SubmissionsAgree == Spec => []RepliesAgree
  <1>1. ReplyInv => RepliesAgree
    BY DEF ReplyInv, RepliesTrue, KeysUnique, RepliesAgree
  <1>2. QED
    BY <1>1, ReplyAlways, PTL

-------------------------------------------------------------------------------
(* Part 3: LimitOvershootBounded *)

\* What LimitOvershootBounded says of one user.
Bounded(u) ==
  Cardinality(Owned(u)) + Cardinality(Creating(u)) <= Limit + Cardinality(Handlers) - 1

LEMMA Counts ==
  ASSUME NEW u
  PROVE  /\ IsFiniteSet(Owned(u)) /\ IsFiniteSet(Creating(u))
         /\ Cardinality(Owned(u)) \in Nat /\ Cardinality(Creating(u)) \in Nat
         /\ Cardinality(Handlers) \in Nat
         /\ Cardinality(Creating(u)) <= Cardinality(Handlers)
  <1>1. Owned(u) \subseteq ConversationIds /\ Creating(u) \subseteq Handlers
    BY DEF Owned, Creating
  <1>2. QED
    BY <1>1, IdsAssumption, HandlersAssumption, FS_Subset, FS_CardinalityType

LEMMA Shrinks ==
  ASSUME NEW u, Bounded(u), Owned(u)' \subseteq Owned(u), Creating(u)' \subseteq Creating(u)
  PROVE  Bounded(u)'
  <1>1. /\ Cardinality(Owned(u)') <= Cardinality(Owned(u))
        /\ Cardinality(Creating(u)') <= Cardinality(Creating(u))
        /\ Cardinality(Owned(u)') \in Nat /\ Cardinality(Creating(u)') \in Nat
    BY Counts, FS_Subset, FS_CardinalityType
  <1>2. QED
    BY <1>1, Counts, LimitsAssumption DEF Bounded

\* A submission that begins is counted before the limit is passed.
LEMMA BeginsBounded ==
  ASSUME TypeOK, NEW u, Bounded(u), NEW h \in Handlers, NEW s, NEW again, MayCreate(s),
         handler' = [handler EXCEPT ![h] = Submitting(s, again)], conversations' = conversations
  PROVE  Bounded(u)'
  <1>1. Owned(u)' = Owned(u)
    BY DEF Owned
  <1>2. /\ handler'[h].op = "submit" /\ handler'[h].existed = Exists(s.conversation)
        /\ handler'[h].ask = s
        /\ \A g \in Handlers \ {h} : handler'[g] = handler[g]
    BY DEF Submitting, TypeOK
  <1>3. CASE Exists(s.conversation) \/ s.user # u
    <2>1. Creating(u)' \subseteq Creating(u)
      BY <1>2, <1>3 DEF Creating
    <2>2. QED
      BY <1>1, <2>1, Shrinks
  <1>4. CASE ~Exists(s.conversation) /\ s.user = u
    <2>1. Cardinality(Owned(u)) < Limit
      BY <1>4 DEF MayCreate
    <2>2. IsFiniteSet(Creating(u)') /\ Creating(u)' \subseteq Handlers
      BY HandlersAssumption, FS_Subset DEF Creating
    <2>3. Cardinality(Creating(u)') <= Cardinality(Handlers) /\ Cardinality(Creating(u)') \in Nat
      BY <2>2, HandlersAssumption, FS_Subset, FS_CardinalityType
    <2>4. QED
      BY <1>1, <2>1, <2>3, Counts, LimitsAssumption DEF Bounded
  <1>5. QED
    BY <1>3, <1>4

\* A conversation that is inserted was counted as one to come.
LEMMA CommitBounded ==
  ASSUME TypeOK, NEW u \in Users, Bounded(u), NEW h \in Handlers, CommitSubmit(h)
  PROVE  Bounded(u)'
  <1> DEFINE work == handler[h]
             s == work.ask
             c == s.conversation
  <1>1. /\ s \in Submission /\ c \in ConversationIds
    BY DEF CommitSubmit, TypeOK, Submission
  <1>2. /\ Exists(c) = work.existed /\ work.op = "submit"
        /\ conversations' = [conversations EXCEPT ![c] = StoredConversation(work)]
        /\ handler' = [handler EXCEPT ![h] = Idle]
    BY DEF CommitSubmit, Insertable, Return
  <1>3. /\ conversations'[c] = StoredConversation(work)
        /\ \A d \in ConversationIds \ {c} : conversations'[d] = conversations[d]
        /\ handler'[h].op = "idle"
        /\ \A g \in Handlers \ {h} : handler'[g] = handler[g]
    BY <1>1, <1>2, IdleType DEF TypeOK
  <1>4. Creating(u)' = Creating(u) \ {h}
    BY <1>3 DEF Creating
  <1>5. CASE work.existed \/ s.user # u
    <2>1. Owned(u)' \subseteq Owned(u)
      BY <1>1, <1>3, <1>5 DEF Owned, StoredConversation
    <2>2. QED
      BY <1>4, <2>1, Shrinks
  <1>6. CASE ~work.existed /\ s.user = u
    <2>1. c \notin Owned(u)
      BY <1>1, <1>2, <1>6, Owner, UsersAssumption DEF Owned
    <2>2. Owned(u)' = Owned(u) \cup {c}
      BY <1>1, <1>3, <1>6 DEF Owned, StoredConversation
    <2>3. Cardinality(Owned(u)') = Cardinality(Owned(u)) + 1
      BY <2>1, <2>2, Counts, FS_AddElement
    <2>4. h \in Creating(u)
      BY <1>2, <1>6 DEF Creating
    <2>5. Cardinality(Creating(u)') = Cardinality(Creating(u)) - 1
      BY <1>4, <2>4, Counts, FS_RemoveElement
    <2>6. QED
      BY <2>3, <2>5, Counts, LimitsAssumption DEF Bounded
  <1>7. QED
    BY <1>5, <1>6 DEF TypeOK, HandlerState

LEMMA BoundedStep ==
  ASSUME TypeOK, [Next]_vars, NEW u \in Users, Bounded(u)
  PROVE  Bounded(u)'
  \* A handler that leaves its submission, or only turns to recover it.
  <1>1. ASSUME NEW h \in Handlers, conversations' = conversations,
               \/ Return(h) \/ handler' = [handler EXCEPT ![h].op = "recover"]
               \/ handler' = [handler EXCEPT ![h].op = "retry"]
        PROVE  Bounded(u)'
    <2>1. \A g \in Handlers : handler'[g] = handler[g] \/ handler'[g].op # "submit"
      BY <1>1, IdleType DEF TypeOK, Return, HandlerState
    <2>2. Owned(u)' = Owned(u) /\ Creating(u)' \subseteq Creating(u)
      BY <1>1, <2>1 DEF Owned, Creating
    <2>3. QED
      BY <2>2, Shrinks
  <1>2. ASSUME handler' = handler,
               \A c \in ConversationIds :
                 \/ conversations'[c].owner = conversations[c].owner
                 \/ conversations'[c].owner = NoUser
        PROVE  Bounded(u)'
    <2>1. Owned(u)' \subseteq Owned(u) /\ Creating(u)' = Creating(u)
      BY <1>2, UsersAssumption DEF Owned, Creating
    <2>2. QED
      BY <2>1, Shrinks
  <1>3. ASSUME NEW h \in Handlers, NEW s, BeginSubmit(h, s)
        PROVE  Bounded(u)'
    BY <1>3, BeginsBounded DEF BeginSubmit
  <1>4. ASSUME NEW h \in Handlers, CommitSubmit(h)
        PROVE  Bounded(u)'
    BY <1>4, CommitBounded
  <1>5. ASSUME NEW h \in Handlers, Collide(h) \/ LoseConversation(h) \/ Recover(h)
        PROVE  Bounded(u)'
    BY <1>1, <1>5 DEF Collide, LoseConversation, Recover
  <1>6. ASSUME NEW h \in Handlers, RetryReads(h)
        PROVE  Bounded(u)'
    BY <1>1, <1>6, BeginsBounded DEF RetryReads
  <1>7. ASSUME NEW v, NEW c \in ConversationIds, RenameConversation(v, c)
        PROVE  Bounded(u)'
    <2>1. \A d \in ConversationIds : conversations'[d].owner = conversations[d].owner
      BY <1>7, Owner DEF RenameConversation, TypeOK, Stored, NoConversation
    <2>2. QED
      BY <1>2, <1>7, <2>1 DEF RenameConversation
  <1>8. ASSUME NEW doomed, Remove(doomed), handler' = handler
        PROVE  Bounded(u)'
    BY <1>2, <1>8 DEF Remove, NoConversation
  <1>9. CASE handler' = handler /\ conversations' = conversations
    BY <1>2, <1>9
  <1>10. QED
    BY <1>3, <1>4, <1>5, <1>6, <1>7, <1>8, <1>9
    DEF Next, Replay, TaskEnds, DeleteConversation, CleanupConversations, Tick, vars

LEMMA BoundedInit ==
  ASSUME Init, NEW u \in Users
  PROVE  Bounded(u)
  <1>1. Owned(u) = {}
    BY UsersAssumption DEF Init, Owned, NoConversation
  <1>2. QED
    BY <1>1, Counts, FS_EmptySet, LimitsAssumption DEF Bounded

\* Counting and inserting are two transactions: of every user there are never
\* more conversations, and submissions about to insert one, than the limit and
\* the handlers that work at once less one.
THEOREM LimitPassedBoundedly == Spec => []LimitOvershootBounded
  <1>1. Init => TypeOK /\ LimitOvershootBounded
    BY TypeInit, BoundedInit DEF LimitOvershootBounded, Bounded
  <1>2. TypeOK /\ LimitOvershootBounded /\ [Next]_vars => TypeOK' /\ LimitOvershootBounded'
    BY TypeStep, BoundedStep DEF LimitOvershootBounded, Bounded
  <1>3. QED
    BY <1>1, <1>2, PTL DEF Spec

-------------------------------------------------------------------------------
(* Part 4: CleanupSparesUse *)

LEMMA LeastNumber ==
  ASSUME NEW S \in SUBSET Nat, S # {}
  PROVE  \E n \in S : \A m \in S : n <= m
  <1>1. PICK n \in S : \A m \in S : ~(<<m, n>> \in OpToRel(<, Nat))
    BY NatLessThanWellFounded, WFMin
  <1>2. \A m \in S : ~(m < n)
    BY <1>1 DEF OpToRel
  <1>3. QED
    BY <1>2

\* updated_at DESC, id is a strict total order.
LEMMA NewerOrder ==
  ASSUME TypeOK, NEW c \in ConversationIds, NEW d \in ConversationIds, NEW e \in ConversationIds
  PROVE  /\ ~Newer(c, c)
         /\ Newer(c, d) /\ Newer(d, e) => Newer(c, e)
         /\ c # d => Newer(c, d) \/ Newer(d, c)
  <1>1. \A b \in ConversationIds : conversations[b].updated_at \in Nat /\ IdRank[b] \in Nat
    BY Owner, IdsAssumption
  <1>2. QED
    BY <1>1, IdsAssumption DEF Newer

\* The conversations of u that come before c.
Ahead(u, c) == {d \in Owned(u) : Newer(d, c)}

Rank(u, c) == Cardinality(Ahead(u, c))

LEMMA RankType ==
  ASSUME NEW u, NEW c
  PROVE  IsFiniteSet(Ahead(u, c)) /\ Rank(u, c) \in Nat
  <1>1. Ahead(u, c) \subseteq Owned(u)
    BY DEF Ahead
  <1>2. QED
    BY <1>1, Counts, FS_Subset, FS_CardinalityType DEF Rank

LEMMA RankGrows ==
  ASSUME TypeOK, NEW u, NEW c \in Owned(u), NEW d \in Owned(u), Newer(c, d)
  PROVE  Rank(u, c) < Rank(u, d)
  <1>1. Owned(u) \subseteq ConversationIds
    BY DEF Owned
  <1>2. c \notin Ahead(u, c)
    BY <1>1, NewerOrder DEF Ahead
  <1>3. Ahead(u, c) \cup {c} \subseteq Ahead(u, d)
    BY <1>1, NewerOrder DEF Ahead
  <1>4. Cardinality(Ahead(u, c) \cup {c}) = Rank(u, c) + 1
    BY <1>2, RankType, FS_AddElement DEF Rank
  <1>5. Cardinality(Ahead(u, c) \cup {c}) <= Rank(u, d)
    BY <1>3, RankType, FS_Subset DEF Rank
  <1>6. QED
    BY <1>4, <1>5, RankType

\* What OFFSET keep_latest leaves out, at most.
LEMMA KeptIsFew ==
  ASSUME TypeOK, NEW u
  PROVE  /\ IsFiniteSet(Owned(u) \ Older(u))
         /\ Cardinality(Owned(u) \ Older(u)) <= KeepLatest
  <1> DEFINE kept == Owned(u) \ Older(u)
             place == [c \in kept |-> Rank(u, c)]
  <1>1. \A c \in kept : Rank(u, c) \in 0..(KeepLatest - 1)
    <2>1. SUFFICES ASSUME NEW c \in kept
                   PROVE  Rank(u, c) \in 0..(KeepLatest - 1)
      OBVIOUS
    <2>2. ~(Rank(u, c) >= KeepLatest)
      BY <2>1 DEF Older, Rank, Ahead
    <2>3. QED
      BY <2>2, RankType, LimitsAssumption
  <1>2. ASSUME NEW c \in kept, NEW d \in kept, c # d
        PROVE  Rank(u, c) # Rank(u, d)
    <2>1. c \in ConversationIds /\ d \in ConversationIds
      BY DEF Owned
    <2>2. Newer(c, d) \/ Newer(d, c)
      BY <1>2, <2>1, NewerOrder
    <2>3. QED
      BY <2>2, RankGrows, RankType
  <1>3. place \in Injection(kept, 0..(KeepLatest - 1))
    BY <1>1, <1>2 DEF Injection, IsInjective
  <1>4. /\ IsFiniteSet(0..(KeepLatest - 1))
        /\ Cardinality(0..(KeepLatest - 1)) = KeepLatest
    BY FS_Interval, LimitsAssumption
  <1> HIDE DEF place
  <1>5. QED
    BY <1>3, <1>4, FS_Injection

\* What it leaves out, at least.
LEMMA KeptIsEnough ==
  ASSUME TypeOK, NEW u, Older(u) # {}
  PROVE  Cardinality(Owned(u) \ Older(u)) >= KeepLatest
  <1> DEFINE ranks == {Rank(u, c) : c \in Older(u)}
  <1>1. ranks \in SUBSET Nat /\ ranks # {}
    BY RankType
  <1>2. PICK n \in ranks : \A m \in ranks : n <= m
    BY <1>1, LeastNumber
  <1>3. PICK c \in Older(u) : Rank(u, c) = n
    BY <1>2
  <1>4. c \in Owned(u) /\ Rank(u, c) >= KeepLatest
    BY DEF Older, Rank, Ahead
  <1>5. Ahead(u, c) \subseteq Owned(u) \ Older(u)
    <2>1. SUFFICES ASSUME NEW d \in Ahead(u, c), d \in Older(u)
                   PROVE  FALSE
      BY DEF Ahead
    <2>2. Rank(u, d) < Rank(u, c)
      BY <1>4, <2>1, RankGrows DEF Ahead
    <2>3. n <= Rank(u, d)
      BY <1>2, <2>1
    <2>4. QED
      BY <1>3, <2>2, <2>3, RankType
  <1>6. Rank(u, c) <= Cardinality(Owned(u) \ Older(u))
    BY <1>5, KeptIsFew, FS_Subset DEF Rank
  <1>7. Cardinality(Owned(u) \ Older(u)) \in Nat
    BY KeptIsFew, FS_CardinalityType
  <1>8. QED
    BY <1>4, <1>6, <1>7, RankType, LimitsAssumption

\* A clean-up takes what is old and not in use.
LEMMA CleanedUp ==
  ASSUME TypeOK, NEW u \in Users, CleanupConversations(u)
  PROVE  /\ Owned(u)' = Owned(u) \ Removable(u)
         /\ \A i \in DOMAIN tasks : tasks[i].live /\ tasks[i].active => tasks'[i] = tasks[i]
         /\ \A c \in Owned(u)' : HasActiveTask(c)' <=> HasActiveTask(c)
  <1>1. Remove(Removable(u)) /\ Removable(u) \subseteq Older(u)
    BY DEF CleanupConversations, Removable
  <1>2. Owned(u)' = Owned(u) \ Removable(u)
    BY <1>1, UsersAssumption DEF Remove, Owned, NoConversation
  <1>3. \A i \in DOMAIN tasks : tasks[i].live /\ tasks[i].active => tasks'[i] = tasks[i]
    BY <1>1, RemoveType DEF Removable, HasActiveTask
  <1>4. ASSUME NEW c \in Owned(u)'
        PROVE  HasActiveTask(c)' <=> HasActiveTask(c)
    <2>1. c \notin Removable(u)
      BY <1>2
    <2>2. \A i \in DOMAIN tasks' : tasks'[i].ask.conversation = c => tasks'[i] = tasks[i]
      BY <1>1, <2>1, RemoveType
    <2>3. \A i \in DOMAIN tasks : tasks[i].ask.conversation = c => tasks'[i] = tasks[i]
      BY <1>1, <2>1, RemoveType
    <2>4. QED
      BY <1>1, <2>2, <2>3, RemoveType DEF HasActiveTask
  <1>5. QED
    BY <1>2, <1>3, <1>4

LEMMA CleanupStep ==
  ASSUME TypeOK, NEW u \in Users, CleanupConversations(u)
  PROVE  /\ \A i \in DOMAIN tasks : tasks[i].live /\ tasks[i].active => tasks[i]'.live
         /\ \/ Cardinality(Owned(u)') >= KeepLatest
            \/ Owned(u)' = Owned(u)
         /\ Cardinality({c \in Owned(u)' : ~HasActiveTask(c)'}) <= KeepLatest
  <1> DEFINE kept == Owned(u) \ Older(u)
             unused == {c \in Owned(u)' : ~HasActiveTask(c)'}
  <1>1. /\ IsFiniteSet(kept) /\ Cardinality(kept) \in Nat /\ Cardinality(kept) <= KeepLatest
    BY KeptIsFew, FS_CardinalityType
  <1>2. IsFiniteSet(Owned(u)') /\ Cardinality(Owned(u)') \in Nat
    <2>1. Owned(u)' \subseteq Owned(u)
      BY CleanedUp
    <2>2. QED
      BY <2>1, Counts, FS_Subset, FS_CardinalityType
  <1>3. unused \subseteq kept
    <2>1. SUFFICES ASSUME NEW c \in unused
                   PROVE  c \in kept
      OBVIOUS
    <2>2. c \in Owned(u) /\ c \notin Removable(u) /\ ~HasActiveTask(c)
      BY <2>1, CleanedUp
    <2>3. QED
      BY <2>2 DEF Removable
  <1>4. Cardinality(unused) <= KeepLatest
    <2>1. Cardinality(unused) <= Cardinality(kept) /\ Cardinality(unused) \in Nat
      BY <1>1, <1>3, FS_Subset, FS_CardinalityType
    <2>2. QED
      BY <1>1, <2>1, LimitsAssumption
  <1>5. Cardinality(Owned(u)') >= KeepLatest
    <2>1. kept \subseteq Owned(u)'
      BY CleanedUp DEF Removable
    <2>2. Cardinality(kept) <= Cardinality(Owned(u)')
      BY <1>2, <2>1, FS_Subset
    <2>3. Cardinality(kept) >= KeepLatest
      BY KeptIsEnough DEF CleanupConversations, Removable
    <2>4. QED
      BY <1>1, <1>2, <2>2, <2>3, LimitsAssumption
  <1>6. \A i \in DOMAIN tasks : tasks[i].live /\ tasks[i].active => tasks'[i].live
    BY CleanedUp
  <1>7. QED
    BY <1>4, <1>5, <1>6

\* A clean-up takes no question in progress, leaves the user KeepLatest
\* conversations, and of those nobody works in not more than KeepLatest.
THEOREM CleanupTakesTheRest == Spec => CleanupSparesUse
  <1>1. TypeOK /\ [Next]_vars =>
          [\A u \in Users : CleanupConversations(u) =>
             /\ \A i \in DOMAIN tasks : tasks[i].live /\ tasks[i].active => tasks[i]'.live
             /\ \/ Cardinality(Owned(u)') >= KeepLatest
                \/ Owned(u)' = Owned(u)
             /\ Cardinality({c \in Owned(u)' : ~HasActiveTask(c)'}) <= KeepLatest]_vars
    BY CleanupStep
  <1>2. Spec => []TypeOK
    BY TypeInit, TypeStep, PTL DEF Spec
  <1>3. QED
    BY <1>1, <1>2, PTL DEF Spec, CleanupSparesUse

===============================================================================
