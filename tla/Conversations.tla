---------------------------- MODULE Conversations ----------------------------
(***************************************************************************)
(* Questions become tasks of conversations, one per idempotency key.       *)
(*                                                                         *)
(*   task_service.py   submit_question with the recovery of a lost race,   *)
(*                     rename, delete and clean-up of conversations        *)
(*   repositories.py   count_owned, find_by_idempotency_key,               *)
(*                     delete_owned, delete_old_owned                      *)
(*                                                                         *)
(* A submission reads one consistent snapshot (conversation, task with the *)
(* key, number of conversations) and later inserts; the primary key of     *)
(* chat_conversations and the unique index on (conversation_id,            *)
(* idempotency_key) see the latest committed rows.  So a submission is a    *)
(* read and a commit with other transactions between them.  A request that *)
(* is refused by its read changes nothing and is not a step.                *)
(*                                                                         *)
(* What happens to a task after it was submitted is QueryTask's matter;    *)
(* here a task is active until TaskEnds.                                   *)
(***************************************************************************)
EXTENDS Integers, Sequences, FiniteSets

CONSTANTS
  Users, ConversationIds, Keys, Questions,
  Asked,                 \* the submissions clients make
  Handlers,              \* request handler threads
  NoUser,                \* owner of a conversation that does not exist
  Limit,                 \* max_conversations_per_user
  KeepLatest,            \* keep_latest of the clean-up
  DriverNamesConstraint, \* the driver's error has .diag.constraint_name
  IdRank,                \* the order of conversation ids
  MaxTasks, MaxTime      \* bounds: tasks ever inserted, seconds that pass

ASSUME UsersAssumption == NoUser \notin Users /\ IsFiniteSet(Users)
ASSUME HandlersAssumption == IsFiniteSet(Handlers)
ASSUME IdsAssumption ==
  /\ IsFiniteSet(ConversationIds) /\ IdRank \in [ConversationIds -> Nat]
  /\ \A c, d \in ConversationIds : IdRank[c] = IdRank[d] => c = d
ASSUME LimitsAssumption == Limit \in Nat \ {0} /\ KeepLatest \in Nat \ {0}
ASSUME DriverAssumption == DriverNamesConstraint \in BOOLEAN
ASSUME BoundsAssumption == MaxTasks \in Nat /\ MaxTime \in Nat

VARIABLES
  conversations,  \* [ConversationIds -> [owner, updated_at]]
  tasks,          \* every task ever inserted; `live` until it is deleted
  handler,        \* what each request handler is doing
  replies,        \* history: what submissions were answered
  clock           \* the second that datetime.now and NOW() return

vars == <<conversations, tasks, handler, replies, clock>>

NoConversation == [owner |-> NoUser, updated_at |-> 0]

Exists(c) == conversations[c] # NoConversation

\* What a client asks: who, in which conversation, under which key, what.  The
\* fingerprint of a question is a hash of all of it.
Submission == [user : Users, conversation : ConversationIds, key : Keys, question : Questions]

ASSUME AskedAssumption == Asked \subseteq Submission

\* Faulty variant of Fingerprint: the hash leaves the user out.
FingerprintWithoutActor(s) == [s EXCEPT !.user = NoUser]

Fingerprint(s) == s

\* The answer of a request that failed with an unexpected error.
Failed == 0

Idle ==
  [op |-> "idle", ask |-> [user |-> NoUser, conversation |-> 0, key |-> 0, question |-> 0],
   existed |-> FALSE, again |-> FALSE, now |-> 0]

Return(h) == handler' = [handler EXCEPT ![h] = Idle]

\* count_owned
Owned(u) == {c \in ConversationIds : conversations[c].owner = u}

\* get_owned refuses a conversation of somebody else.
Foreign(s) == Exists(s.conversation) /\ conversations[s.conversation].owner # s.user

\* find_by_idempotency_key
Found(s) ==
  {i \in DOMAIN tasks : /\ tasks[i].live
                        /\ tasks[i].ask.conversation = s.conversation
                        /\ tasks[i].ask.key = s.key}

Reply(s, result) == replies' = replies \cup {[ask |-> s, result |-> result]}

Init ==
  /\ conversations = [c \in ConversationIds |-> NoConversation]
  /\ tasks = <<>>
  /\ handler = [h \in Handlers |-> Idle]
  /\ replies = {}
  /\ clock = 1

-------------------------------------------------------------------------------
(* submit_question *)

\* _question_replay_result: the task found is this question's.
IsReplay(s) == \E i \in Found(s) : Fingerprint(tasks[i].ask) = Fingerprint(s)

\* Faulty variant of MayCreate: the limit is checked with > instead of >=.
MayCreateOneMore(s) ==
  /\ ~Foreign(s) /\ Found(s) = {}
  /\ Exists(s.conversation) \/ ~(Cardinality(Owned(s.user)) > Limit)

\* The reads of _submit_question_once find nothing to replay or refuse.
MayCreate(s) ==
  /\ ~Foreign(s) /\ Found(s) = {}
  /\ Exists(s.conversation) \/ Cardinality(Owned(s.user)) < Limit

Submitting(s, again) ==
  [op |-> "submit", ask |-> s, existed |-> Exists(s.conversation), again |-> again,
   now |-> clock]

BeginSubmit(h, s) ==
  /\ handler[h] = Idle
  /\ MayCreate(s)
  /\ handler' = [handler EXCEPT ![h] = Submitting(s, FALSE)]
  /\ UNCHANGED <<conversations, tasks, replies, clock>>

\* The reads find the task of an earlier delivery of the same question.
Replay(s) ==
  /\ ~Foreign(s) /\ IsReplay(s)
  /\ \E i \in Found(s) : Reply(s, i)
  /\ UNCHANGED <<conversations, tasks, handler, clock>>

\* The database accepts the rows: the conversation is as it was read (an
\* UPDATE of a row that is gone or an INSERT of a row that is there fails), and
\* the key is free.
Insertable(work) ==
  /\ Exists(work.ask.conversation) = work.existed
  /\ Found(work.ask) = {}

\* The conversation row the submission inserts or touches.
StoredConversation(work) ==
  [owner |-> IF work.existed THEN conversations[work.ask.conversation].owner
             ELSE work.ask.user,
   updated_at |-> work.now]

CommitSubmit(h) ==
  LET work == handler[h]  s == work.ask IN
  /\ work.op = "submit"
  /\ Insertable(work)
  /\ Len(tasks) < MaxTasks
  /\ conversations' =
       [conversations EXCEPT ![s.conversation] = StoredConversation(work)]
  /\ tasks' = Append(tasks, [ask |-> s, active |-> TRUE, live |-> TRUE])
  /\ Reply(s, Len(tasks) + 1)
  /\ Return(h)
  /\ UNCHANGED clock

\* IntegrityError: somebody else inserted the conversation or the task.  The
\* first one is recovered if the driver's error names the constraint.
Collide(h) ==
  LET work == handler[h] IN
  /\ work.op = "submit"
  /\ Exists(work.ask.conversation)
  /\ ~work.existed \/ Found(work.ask) # {}
  /\ IF DriverNamesConstraint /\ ~work.again
     THEN /\ handler' = [handler EXCEPT ![h].op = "recover"]
          /\ UNCHANGED replies
     ELSE Return(h) /\ Reply(work.ask, Failed)
  /\ UNCHANGED <<conversations, tasks, clock>>

\* StaleDataError: the conversation was deleted under the submission.
LoseConversation(h) ==
  LET work == handler[h] IN
  /\ work.op = "submit"
  /\ work.existed /\ ~Exists(work.ask.conversation)
  /\ Reply(work.ask, Failed)
  /\ Return(h)
  /\ UNCHANGED <<conversations, tasks, clock>>

\* _recover_concurrent_question: the competitor's task, or one more attempt if
\* the competitor only created the conversation.
Recover(h) ==
  LET work == handler[h]  s == work.ask IN
  /\ work.op = "recover"
  /\ \/ /\ Found(s) = {}
        /\ handler' = [handler EXCEPT ![h].op = "retry"]
        /\ UNCHANGED replies
     \/ /\ IsReplay(s)
        /\ \E i \in Found(s) : Reply(s, i)
        /\ Return(h)
     \/ /\ Found(s) # {} /\ ~IsReplay(s)
        /\ Return(h)
        /\ UNCHANGED replies
  /\ UNCHANGED <<conversations, tasks, clock>>

\* The reads of the second attempt.
RetryReads(h) ==
  LET s == handler[h].ask IN
  /\ handler[h].op = "retry"
  /\ \/ /\ MayCreate(s)
        /\ handler' = [handler EXCEPT ![h] = Submitting(s, TRUE)]
        /\ UNCHANGED replies
     \/ /\ ~Foreign(s) /\ IsReplay(s)
        /\ \E i \in Found(s) : Reply(s, i)
        /\ Return(h)
     \/ /\ ~MayCreate(s) /\ (Foreign(s) \/ ~IsReplay(s))
        /\ Return(h)
        /\ UNCHANGED replies
  /\ UNCHANGED <<conversations, tasks, clock>>

-------------------------------------------------------------------------------
(* The other operations are one transaction each. *)

\* The task succeeds, fails or is cancelled: no longer RUNNING or WAITING_USER.
TaskEnds(i) ==
  /\ tasks[i].live /\ tasks[i].active
  /\ tasks' = [tasks EXCEPT ![i].active = FALSE]
  /\ UNCHANGED <<conversations, handler, replies, clock>>

\* rename_owned sets the title, and updated_at is set by onupdate.
RenameConversation(u, c) ==
  /\ conversations[c].owner = u
  /\ conversations' = [conversations EXCEPT ![c].updated_at = clock]
  /\ UNCHANGED <<tasks, handler, replies, clock>>

\* A DELETE of conversations takes their tasks along.
Remove(doomed) ==
  /\ conversations' =
       [c \in ConversationIds |-> IF c \in doomed THEN NoConversation ELSE conversations[c]]
  /\ tasks' =
       [i \in DOMAIN tasks |->
          IF tasks[i].ask.conversation \in doomed
          THEN [tasks[i] EXCEPT !.live = FALSE, !.active = FALSE]
          ELSE tasks[i]]

DeleteConversation(u, c) ==
  /\ conversations[c].owner = u
  /\ Remove({c})
  /\ UNCHANGED <<handler, replies, clock>>

\* ORDER BY updated_at DESC, id
Newer(c, d) ==
  \/ conversations[c].updated_at > conversations[d].updated_at
  \/ /\ conversations[c].updated_at = conversations[d].updated_at
     /\ IdRank[c] < IdRank[d]

\* OFFSET keep_latest
Older(u) ==
  {c \in Owned(u) : Cardinality({d \in Owned(u) : Newer(d, c)}) >= KeepLatest}

HasActiveTask(c) ==
  \E i \in DOMAIN tasks : tasks[i].live /\ tasks[i].active /\ tasks[i].ask.conversation = c

\* Faulty variant of Removable: only the newest task of a conversation counts.
RemovableByLastTask(u) ==
  {c \in Older(u) :
     LET of == {i \in DOMAIN tasks : tasks[i].live /\ tasks[i].ask.conversation = c} IN
     of = {} \/ ~tasks[CHOOSE i \in of : \A j \in of : j <= i].active}

\* delete_old_owned
Removable(u) == {c \in Older(u) : ~HasActiveTask(c)}

CleanupConversations(u) ==
  /\ Removable(u) # {}
  /\ Remove(Removable(u))
  /\ UNCHANGED <<handler, replies, clock>>

Tick ==
  /\ clock < MaxTime
  /\ clock' = clock + 1
  /\ UNCHANGED <<conversations, tasks, handler, replies>>

Next ==
  \/ \E h \in Handlers : \/ \E s \in Asked : BeginSubmit(h, s)
                         \/ CommitSubmit(h) \/ Collide(h) \/ LoseConversation(h)
                         \/ Recover(h) \/ RetryReads(h)
  \/ \E s \in Asked : Replay(s)
  \/ \E i \in DOMAIN tasks : TaskEnds(i)
  \/ \E u \in Users :
       \/ \E c \in ConversationIds : RenameConversation(u, c) \/ DeleteConversation(u, c)
       \/ CleanupConversations(u)
  \/ Tick

Spec == Init /\ [][Next]_vars

-------------------------------------------------------------------------------
(* Properties *)

\* Whatever race a submission lost, the task its client is told of is the
\* client's own question, and two deliveries of one question are told of one
\* task as long as that task is not deleted.
RepliesAgree ==
  \A r \in replies :
    r.result # Failed =>
      /\ r.result \in DOMAIN tasks /\ tasks[r.result].ask = r.ask
      /\ \A other \in replies :
           (/\ other.ask = r.ask /\ other.result # Failed
            /\ tasks[r.result].live /\ tasks[other.result].live) =>
             other.result = r.result

\* The submissions of u that will insert a conversation if they commit.
Creating(u) ==
  {h \in Handlers : /\ handler[h].op = "submit" /\ ~handler[h].existed
                    /\ handler[h].ask.user = u}

\* Counting and inserting are two steps, so the limit can be passed, but only by
\* submissions that were in progress when it was reached: never by more than the
\* handlers that work at once, less the one that reached it.
LimitOvershootBounded ==
  \A u \in Users :
    Cardinality(Owned(u)) + Cardinality(Creating(u)) <= Limit + Cardinality(Handlers) - 1

\* A clean-up takes no question in progress, leaves the user KeepLatest
\* conversations or as many as there were, and of the conversations nobody works
\* in not more than KeepLatest: whatever was renamed, submitted or ended before
\* it, the order of the conversations and the state of their tasks fit together.
CleanupSparesUse ==
  [][\A u \in Users : CleanupConversations(u) =>
       /\ \A i \in DOMAIN tasks : tasks[i].live /\ tasks[i].active => tasks[i]'.live
       /\ \/ Cardinality(Owned(u)') >= KeepLatest
          \/ Owned(u)' = Owned(u)
       /\ Cardinality({c \in Owned(u)' : ~HasActiveTask(c)'}) <= KeepLatest]_vars

===============================================================================
