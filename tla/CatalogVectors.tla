----------------------------- MODULE CatalogVectors -----------------------------
(***************************************************************************)
(* The vectors of the metric catalogue, and the calls that fill them.      *)
(*                                                                         *)
(*   model/catalog_vectors.py  CatalogVectorCache: one lock, one matrix    *)
(*   model/provider.py         embed, _post: one semaphore for all calls   *)
(*                                                                         *)
(* A worker reads the catalogue, takes the cache's lock, embeds in batches  *)
(* what is missing and leaves with views into the matrix; it then embeds    *)
(* its question, without the lock, and compares.  An administrator may      *)
(* change the embedding configuration and the catalogue at any moment; the  *)
(* configuration is read again by every call.                               *)
(*                                                                         *)
(* A vector is the model that made it and the text it stands for.  Buffers  *)
(* are the arrays a matrix lives in: the cache writes to its own, readers   *)
(* keep views of the one they were given, a buffer nobody holds is free.    *)
(***************************************************************************)
EXTENDS Integers, Sequences, FiniteSets, SequencesExt, FiniteSetsExt

CONSTANTS
  Workers,       \* request handlers, and the thread that warms the cache up
  Models,        \* effective embedding configurations
  Catalogs,      \* the catalogues there may be, as lists of texts
  Width,         \* [Models -> the dimensions of their vectors]
  BatchSize, MaxConcurrency,
  NoModel, NoWorker

ASSUME SizesAssumption == BatchSize \in Nat \ {0} /\ MaxConcurrency \in Nat \ {0}
ASSUME WidthAssumption == Width \in [Models -> Nat \ {0}]
ASSUME CatalogsAssumption ==
  \A corpus \in Catalogs : corpus \in Seq(ToSet(corpus)) /\ Len(corpus) > 0
ASSUME WorkersAssumption == IsFiniteSet(Workers)
ASSUME AbsentAssumption == NoModel \notin Models /\ NoWorker \notin Workers

VARIABLES
  config,        \* the effective embedding configuration
  returned,      \* a configuration came back under a call (history)
  catalog,       \* the enabled metrics
  cache,         \* _model_key, _vectors, _documents, _dimensions and the matrix
  buffers,       \* [Buffers -> rows]
  lock,          \* the holder of the cache's lock
  slots,         \* free places of the model semaphore
  worker         \* [Workers -> where a worker is and what it holds]

vars == <<config, returned, catalog, cache, buffers, lock, slots, worker>>

\* One buffer for the cache, one for every reader and one to build.
Buffers == 1 .. Cardinality(Workers) + 2

NoBuffer == 0

\* A row that was allocated and not yet written.
Blank == [model |-> NoModel, text |-> <<>>]

NoViews == [buffer |-> NoBuffer, rows |-> <<>>]

Idle ==
  [pc |-> "idle", corpus |-> <<>>, key |-> NoModel, batch |-> <<>>, used |-> NoModel,
   question |-> NoModel, views |-> NoViews]

\* Where the texts of a catalogue that are in a set occur for the first time.
FirstPlaces(corpus, texts) ==
  {i \in DOMAIN corpus : corpus[i] \in texts /\ \A j \in 1 .. i - 1 : corpus[j] # corpus[i]}

\* These texts, every one once, in the order of the catalogue.
Once(corpus, texts) ==
  LET places == FirstPlaces(corpus, texts) IN
  [n \in 1 .. Cardinality(places) |->
     corpus[CHOOSE i \in places : Cardinality(places \cap 1 .. i) = n]]

\* dict.fromkeys
Documents(corpus) == Once(corpus, ToSet(corpus))

Registered == DOMAIN cache.vectors

Missing(corpus) == Once(corpus, ToSet(corpus) \ Registered)

EmptyCache(key) ==
  [key |-> key, vectors |-> <<>>, documents |-> {}, width |-> 0, matrix |-> NoBuffer]

Init ==
  /\ config \in Models
  /\ returned = FALSE
  /\ catalog \in Catalogs
  /\ cache = EmptyCache(NoModel)
  /\ buffers = [b \in Buffers |-> <<>>]
  /\ lock = NoWorker
  /\ slots = MaxConcurrency
  /\ worker = [w \in Workers |-> Idle]

-------------------------------------------------------------------------------
(* Memory *)

Held(w, b) == worker[w].views.buffer = b

\* An array that neither the cache nor a reader holds.
FreeBuffer ==
  Min({b \in Buffers : b # cache.matrix /\ \A w \in Workers : ~Held(w, b)})

\* A step of w that leaves it with `work`, the cache with `c` and the arrays with
\* what was written; an array nobody holds any more is gone.
Update(w, work, c, written) ==
  /\ worker' = [worker EXCEPT ![w] = work]
  /\ cache' = c
  /\ buffers' = [b \in Buffers |->
       IF b \in {c.matrix, work.views.buffer} \/ \E v \in Workers \ {w} : Held(v, b)
       THEN written[b] ELSE <<>>]

Rows(contents, n) ==
  [r \in 1 .. n |-> IF r <= Len(contents) THEN contents[r] ELSE Blank]

-------------------------------------------------------------------------------
(* Surroundings *)

\* Worker w began under m, and waits for the answer to a call it made under another
\* configuration.
Strayed(w, m) ==
  worker[w].pc \in {"slot", "post"} /\ worker[w].key = m /\ worker[w].used # m

\* A configuration is new, or one that was left, as by a rollback.
Publish(m) ==
  /\ m # config
  /\ config' = m
  /\ returned' = (returned \/ \E w \in Workers : Strayed(w, m))
  /\ UNCHANGED <<catalog, cache, buffers, lock, slots, worker>>

ChangeCatalog(corpus) ==
  /\ corpus # catalog
  /\ catalog' = corpus
  /\ UNCHANGED <<config, returned, cache, buffers, lock, slots, worker>>

-------------------------------------------------------------------------------
(* Loading the catalogue *)

\* A worker that drops nothing and writes nothing.
Move(w, work) ==
  /\ worker' = [worker EXCEPT ![w] = work]
  /\ UNCHANGED <<cache, buffers>>

\* A worker ends, with an answer or with an error.
Leave(w) ==
  /\ Update(w, Idle, cache, buffers)
  /\ lock' = IF lock = w THEN NoWorker ELSE lock

\* The catalogue is read and the database session closed before the lock.
Ask(w) ==
  /\ worker[w].pc = "idle"
  /\ Move(w, [Idle EXCEPT !.pc = "lock", !.corpus = catalog])
  /\ UNCHANGED <<config, returned, catalog, lock, slots>>

LockTimeout(w) ==
  /\ worker[w].pc = "lock"
  /\ lock # NoWorker
  /\ Leave(w)
  /\ UNCHANGED <<config, returned, catalog, slots>>

\* A configuration the cache does not hold starts it anew.
Rekeyed(old, key) == IF old.key = key THEN old ELSE EmptyCache(key)

\* Another catalogue gets another array, allocated when something is kept.
Matrix(old, retained) == IF retained = <<>> THEN NoBuffer ELSE FreeBuffer

\* The texts of the new catalogue that have a vector, in its order.
Retained(old, corpus) == Once(corpus, DOMAIN old.vectors)

Rebuilt(old, corpus) ==
  LET kept == Retained(old, corpus) IN
  [old EXCEPT
    !.vectors = [text \in ToSet(kept) |-> CHOOSE r \in 1 .. Len(kept) : kept[r] = text],
    !.documents = ToSet(corpus),
    !.width = IF kept = <<>> THEN 0 ELSE @,
    !.matrix = Matrix(old, kept)]

\* The rows copied into the new array.
Copied(old, corpus) ==
  LET kept == Retained(old, corpus) IN
  Rows([r \in 1 .. Len(kept) |-> buffers[old.matrix][old.vectors[kept[r]]]],
       Len(Documents(corpus)))

Acquire(w) ==
  LET corpus == worker[w].corpus
      current == Rekeyed(cache, config)
      rebuilt == Rebuilt(current, corpus)
      work == [worker[w] EXCEPT !.pc = "batch", !.key = config]
  IN
  /\ worker[w].pc = "lock"
  /\ lock = NoWorker
  /\ lock' = w
  /\ \/ /\ ToSet(corpus) = current.documents
        /\ Update(w, work, current, buffers)
     \/ /\ ToSet(corpus) # current.documents
        /\ Update(w, work, rebuilt,
                  [b \in Buffers |-> IF b = rebuilt.matrix THEN Copied(current, corpus)
                                     ELSE buffers[b]])
  /\ UNCHANGED <<config, returned, catalog, slots>>

-------------------------------------------------------------------------------
(* Calling the model *)

NextBatch(corpus) ==
  SubSeq(Missing(corpus), 1, Min({BatchSize, Len(Missing(corpus))}))

\* embed: the configuration is read, then a place is waited for.  The warm-up
\* and the requests use one semaphore.
CallForBatch(w) ==
  /\ worker[w].pc = "batch"
  /\ Missing(worker[w].corpus) # <<>>
  /\ Move(w, [worker[w] EXCEPT !.pc = "slot", !.used = config,
                               !.batch = NextBatch(worker[w].corpus)])
  /\ UNCHANGED <<config, returned, catalog, lock, slots>>

CallForQuestion(w) ==
  /\ worker[w].pc = "question"
  /\ Move(w, [worker[w] EXCEPT !.pc = "slot", !.used = config])
  /\ UNCHANGED <<config, returned, catalog, lock, slots>>

TakeSlot(w) ==
  /\ worker[w].pc = "slot"
  /\ slots > 0
  /\ slots' = slots - 1
  /\ Move(w, [worker[w] EXCEPT !.pc = "post"])
  /\ UNCHANGED <<config, returned, catalog, lock>>

SlotTimeout(w) ==
  /\ worker[w].pc = "slot"
  /\ slots = 0
  /\ Leave(w)
  /\ UNCHANGED <<config, returned, catalog, slots>>

\* finally: the place is given back whatever came of the call.
Released(answered) == slots + 1

\* The call failed, or what came back has not the form of a vector.
Fail(w) ==
  /\ worker[w].pc = "post"
  /\ slots' = Released(FALSE)
  /\ Leave(w)
  /\ UNCHANGED <<config, returned, catalog>>

Fits(m) == cache.width \in {0, Width[m]}

\* Faulty variant of Current: any configuration with these dimensions will do.
CurrentWidth(w) == Width[config] = Width[worker[w].key]

\* _ensure_current
Current(w) == config = worker[w].key

\* The cache with the vectors of a batch, and its array.
Extended(batch, m) ==
  LET n == Cardinality(Registered) IN
  [cache EXCEPT
    !.width = Width[m],
    !.matrix = IF @ = NoBuffer THEN FreeBuffer ELSE @,
    !.vectors = [text \in Registered \cup ToSet(batch) |->
       IF text \in Registered THEN cache.vectors[text]
       ELSE n + CHOOSE i \in 1 .. Len(batch) : batch[i] = text]]

Written(batch, m) ==
  LET n == Cardinality(Registered)
      before == IF cache.matrix = NoBuffer
                THEN Rows(<<>>, Cardinality(cache.documents)) ELSE buffers[cache.matrix]
  IN [r \in DOMAIN before |->
        IF r \in n + 1 .. n + Len(batch) THEN [model |-> m, text |-> batch[r - n]]
        ELSE before[r]]

\* A batch that answers and is still wanted gets its rows.
AnswerBatch(w) ==
  LET m == worker[w].used
      batch == worker[w].batch
      extended == Extended(batch, m)
  IN
  /\ worker[w].pc = "post"
  /\ lock = w
  /\ slots' = Released(TRUE)
  /\ \/ /\ Fits(m) /\ Current(w)
        /\ Update(w, [worker[w] EXCEPT !.pc = "batch", !.batch = <<>>, !.used = NoModel],
                  extended,
                  [b \in Buffers |-> IF b = extended.matrix THEN Written(batch, m)
                                     ELSE buffers[b]])
        /\ UNCHANGED lock
     \/ ~(Fits(m) /\ Current(w)) /\ Leave(w)
  /\ UNCHANGED <<config, returned, catalog>>

ViewsOf(corpus) ==
  [buffer |-> cache.matrix,
   rows |-> [i \in 1 .. Len(corpus) |-> cache.vectors[corpus[i]]]]

\* Nothing is missing: the worker leaves the lock with views of the rows.
Loaded(w) ==
  /\ worker[w].pc = "batch"
  /\ Missing(worker[w].corpus) = <<>>
  /\ \/ /\ Current(w)
        /\ Move(w, [worker[w] EXCEPT !.pc = "loaded", !.views = ViewsOf(worker[w].corpus)])
        /\ lock' = NoWorker
     \/ ~Current(w) /\ Leave(w)
  /\ UNCHANGED <<config, returned, catalog, slots>>

-------------------------------------------------------------------------------
(* The question *)

AskModel(w) ==
  /\ worker[w].pc = "loaded"
  /\ \/ Current(w) /\ Move(w, [worker[w] EXCEPT !.pc = "question"]) /\ UNCHANGED lock
     \/ ~Current(w) /\ Leave(w)
  /\ UNCHANGED <<config, returned, catalog, slots>>

\* The vector of the question has the dimensions the rows had.
QuestionFits(w) == Width[worker[w].used] = Width[worker[w].key]

AnswerQuestion(w) ==
  /\ worker[w].pc = "post"
  /\ lock # w
  /\ slots' = Released(TRUE)
  /\ \/ /\ QuestionFits(w) /\ Current(w)
        /\ Move(w, [worker[w] EXCEPT !.pc = "ranking", !.question = worker[w].used])
        /\ UNCHANGED lock
     \/ ~(QuestionFits(w) /\ Current(w)) /\ Leave(w)
  /\ UNCHANGED <<config, returned, catalog>>

\* The candidates are ranked and the views dropped.
Rank(w) ==
  /\ worker[w].pc = "ranking"
  /\ Leave(w)
  /\ UNCHANGED <<config, returned, catalog, slots>>

-------------------------------------------------------------------------------

WorkerStep(w) ==
  \/ LockTimeout(w) \/ Acquire(w)
  \/ CallForBatch(w) \/ CallForQuestion(w) \/ TakeSlot(w) \/ SlotTimeout(w) \/ Fail(w)
  \/ AnswerBatch(w) \/ Loaded(w) \/ AskModel(w) \/ AnswerQuestion(w) \/ Rank(w)

Next ==
  \/ \E m \in Models : Publish(m)
  \/ \E corpus \in Catalogs : ChangeCatalog(corpus)
  \/ \E w \in Workers : Ask(w) \/ WorkerStep(w)

Spec == Init /\ [][Next]_vars

-------------------------------------------------------------------------------
(* Properties *)

\* Who holds an answer compares a question with the rows of the catalogue it
\* asked for, all made by one model, even if the cache was rekeyed or rebuilt
\* meanwhile: a change of the configuration keeps vector spaces apart (README.md
\* of the backend).
OneVectorSpace ==
  \A w \in Workers : worker[w].pc = "ranking" =>
    LET views == worker[w].views IN
    \A i \in DOMAIN worker[w].corpus :
      buffers[views.buffer][views.rows[i]] =
        [model |-> worker[w].question, text |-> worker[w].corpus[i]]

\* So it is whatever is published and edited, until for the first time a
\* configuration comes back to a worker whose call was made under another: the
\* fingerprints it compares before and after are then the same.
OneSpaceUntilReturn == ~returned => OneVectorSpace

===============================================================================
