----------------------------- MODULE StartupProofs -----------------------------
(***************************************************************************)
(* The vector cache and the life of the process around it, for every set   *)
(* of workers, every set of catalogues and configurations, every size of a *)
(* batch and every number of places for calls.                             *)
(***************************************************************************)
EXTENDS Startup, FiniteSetTheorems, NaturalsInduction, SequenceTheorems, TLAPS

Texts == UNION {ToSet(corpus) : corpus \in Catalogs}

Keys == Models \cup {NoModel}

Places == {"idle", "lock", "batch", "slot", "post", "loaded", "question", "ranking"}

Views == [buffer : Buffers \cup {NoBuffer}, rows : Seq(Nat)]

Work ==
  [pc : Places, corpus : Catalogs \cup {<<>>}, key : Keys, batch : Seq(Texts), used : Keys,
   question : Keys, views : Views]

CacheState ==
  [key : Keys, vectors : UNION {[known -> Nat] : known \in SUBSET Texts},
   documents : SUBSET Texts, width : Nat, matrix : Buffers \cup {NoBuffer}]

TypeOK ==
  /\ config \in Models /\ returned \in BOOLEAN
  /\ catalog \in Catalogs
  /\ cache \in CacheState
  /\ lock \in Workers \cup {NoWorker}
  /\ worker \in [Workers -> Work]

\* A vector of the text; by the model of the key, until a configuration returns.
IsVector(row, key, text) ==
  \E m \in Models : row = [model |-> m, text |-> text] /\ (~returned => m = key)

\* Texts of the catalogue that is being loaded, which have no vector yet.
Wanted(batch) ==
  /\ ToSet(batch) \subseteq cache.documents \ Registered
  /\ \A m, n \in DOMAIN batch : batch[m] = batch[n] => m = n

\* A worker has read the catalogue, and with the lock the configuration.
Knows(w) ==
  /\ worker[w].pc # "idle" => worker[w].corpus \in Catalogs
  /\ worker[w].key \in Keys

\* Who holds the lock loads its catalogue under its configuration, and the cache
\* is keyed and sized for it.
Loads(w) ==
  /\ worker[w].pc = "batch" => lock = w
  /\ lock = w =>
       /\ worker[w].pc \in {"batch", "slot", "post"}
       /\ worker[w].key = cache.key
       /\ cache.documents = ToSet(worker[w].corpus)
       /\ worker[w].pc # "batch" => Wanted(worker[w].batch)

\* A registered text has one of the first rows of the matrix, with its vector
\* under the key of the cache; there is a row for every text.
CacheIsTrue ==
  /\ Registered \subseteq cache.documents
  /\ IsFiniteSet(cache.documents)
  /\ Registered # {} => cache.matrix \in Buffers
  /\ cache.matrix \in Buffers =>
       DOMAIN buffers[cache.matrix] = 1 .. Cardinality(cache.documents)
  /\ \A text \in Registered :
       /\ cache.vectors[text] \in 1 .. Cardinality(Registered)
       /\ IsVector(buffers[cache.matrix][cache.vectors[text]], cache.key, text)

\* A worker that left the lock with views and has not ended.
HasViews(w) ==
  \/ worker[w].pc \in {"loaded", "question", "ranking"}
  \/ worker[w].pc \in {"slot", "post"} /\ lock # w

\* What it sees are the vectors of its catalogue under its configuration, in rows
\* that are written: a matrix it shares with the cache grows behind them.
Sees(w) ==
  HasViews(w) =>
    LET views == worker[w].views  corpus == worker[w].corpus IN
    /\ views.buffer \in Buffers
    /\ \A i \in DOMAIN corpus :
         /\ IsVector(buffers[views.buffer][views.rows[i]], worker[w].key, corpus[i])
         /\ views.buffer = cache.matrix => views.rows[i] \in 1 .. Cardinality(Registered)

\* Until a configuration returns, whoever finds the one it began under in force
\* has called under it.
Called(w) ==
  /\ worker[w].pc \in {"slot", "post"} =>
       /\ worker[w].used \in Models
       /\ ~returned /\ config = worker[w].key => worker[w].used = worker[w].key
  /\ worker[w].pc = "ranking" =>
       /\ worker[w].question \in Models
       /\ ~returned => worker[w].question = worker[w].key

\* The inductive invariant.
Sound(w) == Knows(w) /\ Loads(w) /\ Sees(w) /\ Called(w)

VectorInv == TypeOK /\ CacheIsTrue /\ \A w \in Workers : Sound(w)

-------------------------------------------------------------------------------
(* Part 1: counting, and the texts of a catalogue *)

LEMMA LeastNumber ==
  ASSUME NEW S \in SUBSET Nat, S # {}
  PROVE  \E n \in S : \A m \in S : n <= m
  <1>1. PICK n \in S : \A m \in S : ~(<<m, n>> \in OpToRel(<, Nat))
    BY NatLessThanWellFounded, WFMin
  <1>2. \A m \in S : ~(m < n)
    BY <1>1 DEF OpToRel
  <1>3. QED
    BY <1>2

LEMMA MinIs ==
  ASSUME NEW S \in SUBSET Nat, S # {}
  PROVE  Min(S) \in S /\ \A m \in S : Min(S) <= m
  BY LeastNumber DEF Min

\* The members of a set of places are counted through by how many come up to them.
LEMMA Counted ==
  ASSUME NEW k \in Nat, NEW P \in SUBSET (1 .. k)
  PROVE  /\ IsFiniteSet(P)
         /\ Cardinality(P) \in Nat
         /\ \A i \in P : Cardinality(P \cap 1 .. i) \in 1 .. Cardinality(P)
         /\ \A i, j \in P : Cardinality(P \cap 1 .. i) = Cardinality(P \cap 1 .. j) => i = j
         /\ \A n \in 1 .. Cardinality(P) : \E i \in P : Cardinality(P \cap 1 .. i) = n
  <1> DEFINE upTo(i) == P \cap 1 .. i
             f == [i \in P |-> Cardinality(upTo(i))]
  <1>1. IsFiniteSet(P) /\ Cardinality(P) \in Nat
    <2>1. IsFiniteSet(1 .. k)
      BY FS_Interval
    <2>2. IsFiniteSet(P)
      BY <2>1, FS_Subset
    <2>3. QED
      BY <2>2, FS_CardinalityType
  <1>2. ASSUME NEW i \in P
        PROVE  /\ IsFiniteSet(upTo(i)) /\ Cardinality(upTo(i)) \in Nat
               /\ Cardinality(upTo(i)) <= Cardinality(P)
    <2>1. upTo(i) \in SUBSET P
      OBVIOUS
    <2>2. QED
      BY <1>1, <2>1, FS_Subset, FS_CardinalityType
  <1>3. ASSUME NEW i \in P
        PROVE  Cardinality(upTo(i)) >= 1
    <2>1. i \in upTo(i)
      OBVIOUS
    <2>2. Cardinality(upTo(i)) # 0
      <3> HIDE DEF upTo
      <3>1. QED
        BY <1>2, <2>1, FS_EmptySet
    <2>3. QED
      BY <1>2, <2>2
  <1>4. ASSUME NEW i \in P, NEW j \in P, i < j
        PROVE  Cardinality(upTo(i)) < Cardinality(upTo(j))
    <2>1. upTo(i) \in SUBSET upTo(j) /\ j \in upTo(j) /\ j \notin upTo(i)
      BY <1>4
    <2>2. Cardinality(upTo(i)) <= Cardinality(upTo(j))
      BY <1>2, <2>1, FS_Subset
    <2>3. Cardinality(upTo(i)) # Cardinality(upTo(j))
      BY <1>2, <2>1, FS_Subset
    <2>4. QED
      BY <1>2, <2>2, <2>3
  <1>5. \A i \in P : Cardinality(upTo(i)) \in 1 .. Cardinality(P)
    BY <1>1, <1>2, <1>3
  <1>6. \A i, j \in P : Cardinality(upTo(i)) = Cardinality(upTo(j)) => i = j
    BY <1>2, <1>4
  <1>7. f \in Injection(P, 1 .. Cardinality(P))
    BY <1>5, <1>6 DEF Injection, IsInjective
  <1>8. IsFiniteSet(1 .. Cardinality(P)) /\ Cardinality(1 .. Cardinality(P)) = Cardinality(P)
    BY <1>1, FS_Interval
  <1>9. f \in Surjection(P, 1 .. Cardinality(P))
    BY <1>7, <1>8, FS_Injection
  <1>10. \A n \in 1 .. Cardinality(P) : \E i \in P : Cardinality(upTo(i)) = n
    BY <1>9 DEF Surjection
  <1>11. QED
    BY <1>1, <1>5, <1>6, <1>10

\* Every text occurs somewhere for the first time.
LEMMA HasFirstPlace ==
  ASSUME NEW corpus, corpus \in Seq(ToSet(corpus)), NEW texts,
         NEW text \in ToSet(corpus) \cap texts
  PROVE  \E i \in FirstPlaces(corpus, texts) : corpus[i] = text
  <1> DEFINE at == {i \in DOMAIN corpus : corpus[i] = text}
  <1>1. at \in SUBSET Nat /\ at # {} /\ DOMAIN corpus \subseteq Nat
    BY DEF ToSet
  <1>2. PICK i \in at : \A j \in at : i <= j
    BY <1>1, LeastNumber
  <1>3. DOMAIN corpus = 1 .. Len(corpus) /\ Len(corpus) \in Nat
    OBVIOUS
  <1>4. \A j \in 1 .. i - 1 : corpus[j] # corpus[i]
    BY <1>2, <1>3
  <1>5. QED
    BY <1>2, <1>4 DEF FirstPlaces

\* Once lists the texts of a corpus that are in a set, every one once.
LEMMA OnceLists ==
  ASSUME NEW corpus, corpus \in Seq(ToSet(corpus)), NEW texts
  PROVE  LET once == Once(corpus, texts)
             both == ToSet(corpus) \cap texts
         IN  /\ IsFiniteSet(both) /\ Cardinality(both) \in Nat
             /\ once \in Seq(both)
             /\ Len(once) = Cardinality(both)
             /\ ToSet(once) = both
             /\ \A m, n \in DOMAIN once : once[m] = once[n] => m = n
  <1> DEFINE once == Once(corpus, texts)
             both == ToSet(corpus) \cap texts
             P == FirstPlaces(corpus, texts)
             count(i) == Cardinality(P \cap 1 .. i)
             nth(n) == CHOOSE i \in P : count(i) = n
             L == Cardinality(P)
  <1>1. DOMAIN corpus = 1 .. Len(corpus) /\ Len(corpus) \in Nat
    OBVIOUS
  <1>2. P \in SUBSET (1 .. Len(corpus)) /\ \A i \in P : corpus[i] \in both
    BY <1>1 DEF FirstPlaces, ToSet
  <1>3. \A i, j \in P : corpus[i] = corpus[j] => i = j
    BY <1>1 DEF FirstPlaces
  <1>4. /\ IsFiniteSet(P) /\ L \in Nat
        /\ \A i \in P : count(i) \in 1 .. L
        /\ \A i, j \in P : count(i) = count(j) => i = j
        /\ \A n \in 1 .. L : \E i \in P : count(i) = n
    BY <1>1, <1>2, Counted
  <1>5. \A t \in both : \E i \in P : corpus[i] = t
    BY HasFirstPlace
  <1>6. once = [n \in 1 .. L |-> corpus[nth(n)]]
    BY DEF Once
  <1> HIDE DEF P, count
  <1>7. \A n \in 1 .. L : nth(n) \in P /\ count(nth(n)) = n
    BY <1>4
  <1> HIDE DEF nth
  <1>8. IsFiniteSet(both) /\ Cardinality(both) = L
    <2> DEFINE g == [i \in P |-> corpus[i]]
    <2>1. g \in Bijection(P, both)
      BY <1>2, <1>3, <1>5 DEF Bijection, Injection, Surjection, IsInjective
    <2>2. QED
      BY <1>4, <2>1, FS_Bijection DEF ExistsBijection
  <1> HIDE DEF both, L, once
  <1>9. once \in [1 .. L -> both]
    BY <1>2, <1>6, <1>7
  <1>10. once \in Seq(both) /\ Len(once) = L
    BY <1>4, <1>9, SeqDef
  <1>11. \A m, n \in 1 .. L : once[m] = once[n] => m = n
    BY <1>3, <1>6, <1>7
  <1>12. ASSUME NEW t \in both
         PROVE  \E n \in 1 .. L : once[n] = t
    <2>1. PICK i \in P : corpus[i] = t
      BY <1>5
    <2>2. count(i) \in 1 .. L /\ nth(count(i)) = i
      BY <1>4, <1>7
    <2>3. QED
      BY <1>6, <2>1, <2>2
  <1>13. ToSet(once) = both
    BY <1>9, <1>12 DEF ToSet
  <1>14. QED
    BY <1>4, <1>8, <1>9, <1>10, <1>11, <1>13 DEF both, once

-------------------------------------------------------------------------------
(* Part 2: what a step leaves to the workers that do not take it *)

LEMMA CatalogueTexts ==
  ASSUME NEW corpus \in Catalogs
  PROVE  /\ corpus \in Seq(ToSet(corpus)) /\ corpus \in Seq(Texts)
         /\ ToSet(corpus) \in SUBSET Texts /\ ToSet(corpus) # {}
         /\ \A i \in DOMAIN corpus : corpus[i] \in ToSet(corpus)
  <1>1. corpus \in Seq(ToSet(corpus)) /\ Len(corpus) > 0
    BY CatalogsAssumption
  <1>2. ToSet(corpus) \in SUBSET Texts
    BY DEF Texts
  <1>3. \A i \in DOMAIN corpus : corpus[i] \in ToSet(corpus)
    BY DEF ToSet
  <1>4. corpus \in Seq(Texts)
    BY <1>1, <1>2, SeqMonotonic
  <1>5. 1 \in DOMAIN corpus
    BY <1>1
  <1>6. QED
    BY <1>1, <1>2, <1>3, <1>4, <1>5

LEMMA IdleType ==
  /\ Idle \in Work /\ Idle.pc = "idle" /\ Idle.key = NoModel
  /\ Idle.views.buffer = NoBuffer
  BY DEF Idle, Work, Places, Keys, NoViews, Views

LEMMA EmptyCacheType ==
  ASSUME NEW key \in Keys
  PROVE  /\ EmptyCache(key) \in CacheState /\ EmptyCache(key).key = key
         /\ EmptyCache(key).documents = {} /\ DOMAIN EmptyCache(key).vectors = {}
         /\ EmptyCache(key).matrix = NoBuffer
  <1>1. <<>> \in [{} -> Nat]
    OBVIOUS
  <1>2. QED
    BY <1>1 DEF EmptyCache, CacheState

\* The parts of a worker's state that its actions read and keep.
LEMMA WorkerType ==
  ASSUME TypeOK, NEW w \in Workers
  PROVE  /\ worker[w] \in Work /\ worker[w].pc \in Places
         /\ worker[w].corpus \in Catalogs \cup {<<>>} /\ worker[w].key \in Keys
         /\ worker[w].batch \in Seq(Texts) /\ worker[w].used \in Keys
         /\ worker[w].question \in Keys
         /\ worker[w].views \in Views /\ worker[w].views.buffer \in Buffers \cup {NoBuffer}
         /\ worker[w].views.rows \in Seq(Nat)
  <1>1. worker[w] \in Work
    BY DEF TypeOK
  <1>2. worker[w].views \in Views
    BY <1>1 DEF Work
  <1>3. QED
    BY <1>1, <1>2 DEF Work, Views

LEMMA CacheType ==
  ASSUME TypeOK
  PROVE  /\ cache.key \in Keys /\ cache.documents \in SUBSET Texts
         /\ cache.matrix \in Buffers \cup {NoBuffer} /\ cache.width \in Nat
         /\ Registered \in SUBSET Texts
         /\ cache.vectors \in [Registered -> Nat]
  BY DEF TypeOK, CacheState, Registered

\* There are more arrays than holders.
LEMMA FreeBufferIsFree ==
  ASSUME TypeOK
  PROVE  /\ FreeBuffer \in Buffers /\ FreeBuffer # cache.matrix
         /\ \A w \in Workers : ~Held(w, FreeBuffer)
  <1> DEFINE N == Cardinality(Workers)
             held == {worker[w].views.buffer : w \in Workers}
             free == {b \in Buffers : b # cache.matrix /\ \A w \in Workers : ~Held(w, b)}
  <1>1. IsFiniteSet(Workers) /\ N \in Nat
    BY WorkersAssumption, FS_CardinalityType
  <1>2. IsFiniteSet(held) /\ Cardinality(held) <= N
    <2> DEFINE f == [w \in Workers |-> worker[w].views.buffer]
    <2>1. f \in Surjection(Workers, held)
      BY DEF Surjection
    <2>2. QED
      BY <1>1, <2>1, FS_Surjection
  <1>3. Cardinality(held) \in Nat
    BY <1>2, FS_CardinalityType
  <1>4. IsFiniteSet(held \cup {cache.matrix}) /\ Cardinality(held \cup {cache.matrix}) <= N + 1
    <2> HIDE DEF held, N
    <2>1. /\ IsFiniteSet(held \cup {cache.matrix})
          /\ Cardinality(held \cup {cache.matrix})
               = IF cache.matrix \in held THEN Cardinality(held) ELSE Cardinality(held) + 1
      BY <1>2, FS_AddElement
    <2>2. QED
      BY <1>1, <1>2, <1>3, <2>1
  <1>5. IsFiniteSet(Buffers) /\ Cardinality(Buffers) = N + 2
    BY <1>1, FS_Interval DEF Buffers
  <1>6. ~(Buffers \subseteq held \cup {cache.matrix})
    <2>1. SUFFICES ASSUME Buffers \in SUBSET (held \cup {cache.matrix})
                   PROVE  FALSE
      OBVIOUS
    <2>2. Cardinality(Buffers) <= Cardinality(held \cup {cache.matrix})
      BY <1>4, <2>1, FS_Subset
    <2>3. Cardinality(held \cup {cache.matrix}) \in Nat
      BY <1>4, FS_CardinalityType
    <2>4. QED
      BY <1>1, <1>4, <1>5, <2>2, <2>3
  <1>7. free # {}
    BY <1>6 DEF Held
  <1>8. free \in SUBSET Nat
    BY <1>1 DEF Buffers
  <1>9. FreeBuffer \in free
    <2> HIDE DEF free
    <2>1. Min(free) \in free
      BY <1>7, <1>8, MinIs
    <2>2. FreeBuffer = Min(free)
      BY DEF FreeBuffer, free
    <2>3. QED
      BY <2>1, <2>2
  <1>10. QED
    BY <1>9

LEMMA NoBufferIsNone == NoBuffer \notin Buffers
  BY DEF NoBuffer, Buffers

\* What v sees stays in place: its array is left alone, or it is the cache's and
\* grows behind the registered rows.
Preserved(v) ==
  LET b == worker[v].views.buffer IN
  b \in Buffers =>
    /\ b # cache.matrix => b # cache'.matrix /\ buffers'[b] = buffers[b]
    /\ b = cache.matrix =>
         /\ \A r \in 1 .. Cardinality(Registered) : buffers'[b][r] = buffers[b][r]
         /\ b = cache'.matrix =>
              1 .. Cardinality(Registered) \subseteq 1 .. Cardinality(Registered')

\* The surroundings in a step: what has returned stays so, and until then nobody
\* waits for another model's answer when its configuration comes back.
Onward ==
  /\ config' \in Models
  /\ returned' \in BOOLEAN /\ (returned => returned')
  /\ ~returned' => config' = config \/ \A w \in Workers : ~Strayed(w, config')

LEMMA OthersStep ==
  ASSUME TypeOK, CacheIsTrue, Onward, NEW v \in Workers, Sound(v),
         worker'[v] = worker[v], lock' = v <=> lock = v, lock = v => cache' = cache,
         Preserved(v)
  PROVE  Sound(v)'
  <1>1. Knows(v)'
    BY DEF Knows, Sound, Onward
  <1>2. Loads(v)'
    BY DEF Loads, Sound, Wanted, Registered
  <1>3. Sees(v)'
    <2>1. HasViews(v)' <=> HasViews(v)
      BY DEF HasViews
    <2>2. SUFFICES ASSUME HasViews(v) PROVE Sees(v)'
      BY <2>1 DEF Sees
    <2> DEFINE b == worker[v].views.buffer
               rows == worker[v].views.rows
               corpus == worker[v].corpus
    <2>3. /\ b \in Buffers
          /\ \A i \in DOMAIN corpus :
               /\ IsVector(buffers[b][rows[i]], worker[v].key, corpus[i])
               /\ b = cache.matrix => rows[i] \in 1 .. Cardinality(Registered)
      BY <2>2 DEF Sound, Sees
    <2>4. \A i \in DOMAIN corpus : buffers'[b][rows[i]] = buffers[b][rows[i]]
      BY <2>3 DEF Preserved
    <2>5. \A i \in DOMAIN corpus :
            b = cache'.matrix => rows[i] \in 1 .. Cardinality(Registered')
      BY <2>3 DEF Preserved
    <2>6. \A i \in DOMAIN corpus : IsVector(buffers'[b][rows[i]], worker[v].key, corpus[i])
      BY <2>3, <2>4
    <2>7. /\ worker'[v].views.buffer = b /\ worker'[v].views.rows = rows
          /\ worker'[v].corpus = corpus /\ worker'[v].key = worker[v].key
      OBVIOUS
    <2> HIDE DEF b, rows, corpus
    <2>8. QED
      BY <2>3, <2>5, <2>6, <2>7 DEF Sees, IsVector, Onward
  <1>4. Called(v)'
    <2>1. ASSUME worker[v].pc \in {"slot", "post"}, ~returned', config' = worker[v].key
          PROVE  worker[v].used = worker[v].key
      <3>1. CASE config' = config
        BY <2>1, <3>1 DEF Called, Sound, Onward
      <3>2. CASE ~Strayed(v, config')
        BY <2>1, <3>2 DEF Strayed
      <3>3. QED
        BY <2>1, <3>1, <3>2 DEF Onward
    <2>2. QED
      BY <2>1 DEF Called, Sound, Onward
  <1>5. QED
    BY <1>1, <1>2, <1>3, <1>4 DEF Sound

\* A step of w that leaves the cache and its array alone.
LEMMA QuietStep ==
  ASSUME VectorInv, NEW w \in Workers, NEW work \in Work,
         worker' = [worker EXCEPT ![w] = work], UNCHANGED <<config, returned, catalog, cache>>,
         lock' \in {lock, NoWorker}, lock # w => lock' = lock,
         \A b \in Buffers : b = cache.matrix \/ (\E v \in Workers \ {w} : Held(v, b)) =>
           buffers'[b] = buffers[b],
         Sound(w)'
  PROVE  VectorInv'
  <1>1. TypeOK'
    BY DEF VectorInv, TypeOK
  <1>2. CacheIsTrue'
    <2>1. Registered' = Registered
      BY DEF Registered
    <2>2. cache.matrix \in Buffers => buffers'[cache.matrix] = buffers[cache.matrix]
      OBVIOUS
    <2>3. \A text \in Registered : cache.matrix \in Buffers
      BY DEF VectorInv, CacheIsTrue
    <2>4. CacheIsTrue
      BY DEF VectorInv
    <2>5. cache.matrix \in Buffers =>
            DOMAIN buffers'[cache.matrix] = 1 .. Cardinality(cache.documents)
      BY <2>2, <2>4 DEF CacheIsTrue
    <2>6. ASSUME NEW text \in Registered
          PROVE  /\ cache.vectors[text] \in 1 .. Cardinality(Registered)
                 /\ IsVector(buffers'[cache.matrix][cache.vectors[text]], cache.key, text)
      <3>1. buffers'[cache.matrix] = buffers[cache.matrix]
        BY <2>2, <2>3
      <3>2. QED
        BY <2>4, <3>1 DEF CacheIsTrue
    <2>7. cache' = cache
      OBVIOUS
    <2>8. QED
      <3>1. /\ Registered \subseteq cache.documents /\ IsFiniteSet(cache.documents)
            /\ Registered # {} => cache.matrix \in Buffers
        BY <2>4 DEF CacheIsTrue
      <3>2. QED
        BY <2>5, <2>6, <2>7, <3>1 DEF CacheIsTrue, Registered, IsVector
  <1>3. Onward
    BY DEF VectorInv, TypeOK, Onward
  <1>4. ASSUME NEW v \in Workers, v # w
        PROVE  Sound(v)'
    <2>1. worker'[v] = worker[v]
      BY <1>4 DEF VectorInv, TypeOK
    <2>2. lock' = v <=> lock = v
      BY <1>4, AbsentAssumption
    <2>3. Preserved(v)
      BY <1>4 DEF Preserved, Held, Registered
    <2>4. QED
      BY <1>3, <2>1, <2>2, <2>3, OthersStep DEF VectorInv
  <1>5. QED
    BY <1>1, <1>2, <1>4 DEF VectorInv

-------------------------------------------------------------------------------
(* Part 3: steps that leave the cache alone *)

LEMMA LeaveStep ==
  ASSUME VectorInv, NEW w \in Workers, Leave(w), UNCHANGED <<config, returned, catalog>>
  PROVE  VectorInv'
  <1>1. /\ worker' = [worker EXCEPT ![w] = Idle] /\ cache' = cache
        /\ lock' = IF lock = w THEN NoWorker ELSE lock
    BY DEF Leave, Update
  <1>2. \A b \in Buffers : b = cache.matrix \/ (\E v \in Workers \ {w} : Held(v, b)) =>
          buffers'[b] = buffers[b]
    BY DEF Leave, Update
  <1>3. worker'[w] = Idle /\ lock' # w
    BY <1>1, AbsentAssumption DEF VectorInv, TypeOK
  <1>4. Sound(w)'
    BY <1>3, IdleType DEF Sound, Knows, Loads, Sees, HasViews, Called, Keys
  <1>5. QED
    BY <1>1, <1>2, <1>4, IdleType, QuietStep

LEMMA MoveStep ==
  ASSUME VectorInv, NEW w \in Workers, NEW work \in Work, Move(w, work),
         UNCHANGED <<config, returned, catalog>>,
         lock' \in {lock, NoWorker}, lock # w => lock' = lock,
         worker'[w] = work => Sound(w)'
  PROVE  VectorInv'
  <1>1. worker' = [worker EXCEPT ![w] = work] /\ cache' = cache /\ buffers' = buffers
    BY DEF Move
  <1>2. worker'[w] = work
    BY <1>1 DEF VectorInv, TypeOK
  <1>3. QED
    BY <1>1, <1>2, QuietStep

\* A worker that keeps what it sees.
LEMMA StillSees ==
  ASSUME NEW w \in Workers, Sound(w), HasViews(w), UNCHANGED <<returned, cache, buffers>>,
         worker'[w].views = worker[w].views, worker'[w].corpus = worker[w].corpus,
         worker'[w].key = worker[w].key
  PROVE  Sees(w)'
  BY DEF Sound, Sees, Registered, IsVector

LEMMA AskStep ==
  ASSUME VectorInv, NEW w \in Workers, Ask(w)
  PROVE  VectorInv'
  <1> DEFINE work == [Idle EXCEPT !.pc = "lock", !.corpus = catalog]
  <1>1. /\ worker[w].pc = "idle" /\ Move(w, work)
        /\ UNCHANGED <<config, returned, catalog, lock>>
    BY DEF Ask
  <1>2. work \in Work /\ work.pc = "lock" /\ work.corpus \in Catalogs /\ work.key = NoModel
    BY IdleType DEF VectorInv, TypeOK, Work, Places
  <1> HIDE DEF work
  <1>3. lock # w
    BY <1>1 DEF VectorInv, Sound, Loads
  <1>4. ASSUME worker'[w] = work
        PROVE  Sound(w)'
    BY <1>1, <1>2, <1>3, <1>4 DEF Sound, Knows, Loads, Sees, HasViews, Called, Keys
  <1>5. QED
    BY <1>1, <1>2, <1>4, MoveStep

\* A batch is made of texts that wait for their vector.
LEMMA NextBatchIsWanted ==
  ASSUME TypeOK, NEW corpus \in Catalogs, cache.documents = ToSet(corpus)
  PROVE  NextBatch(corpus) \in Seq(Texts) /\ Wanted(NextBatch(corpus))
  <1> DEFINE missing == Missing(corpus)
             rest == ToSet(corpus) \cap (ToSet(corpus) \ Registered)
             size == Min({BatchSize, Len(missing)})
             batch == NextBatch(corpus)
  <1>1. /\ missing \in Seq(rest) /\ Len(missing) \in Nat
        /\ \A m, n \in DOMAIN missing : missing[m] = missing[n] => m = n
    <2> DEFINE texts == ToSet(corpus) \ Registered
    <2>1. missing = Once(corpus, texts) /\ rest = ToSet(corpus) \cap texts
      BY DEF Missing
    <2> HIDE DEF texts, missing, rest
    <2>2. /\ missing \in Seq(rest)
          /\ \A m, n \in DOMAIN missing : missing[m] = missing[n] => m = n
      BY <2>1, CatalogueTexts, OnceLists
    <2>3. QED
      BY <2>2
  <1>2. rest \subseteq cache.documents \ Registered /\ rest \subseteq Texts
    BY CatalogueTexts
  <1>3. size \in Nat /\ size <= Len(missing)
    <2> DEFINE sizes == {BatchSize, Len(missing)}
    <2>1. sizes \in SUBSET Nat /\ sizes # {} /\ Len(missing) \in sizes
      BY <1>1, SizesAssumption
    <2> HIDE DEF sizes
    <2>2. Min(sizes) \in sizes /\ \A m \in sizes : Min(sizes) <= m
      BY <2>1, MinIs
    <2>3. Min(sizes) \in Nat /\ Min(sizes) <= Len(missing)
      BY <2>1, <2>2
    <2>4. QED
      BY <2>3 DEF sizes
  <1>4. batch = SubSeq(missing, 1, size)
    BY DEF NextBatch
  <1> HIDE DEF missing, rest, size, batch
  <1>5. batch \in Seq(rest) /\ DOMAIN batch = 1 .. size /\ DOMAIN missing = 1 .. Len(missing)
    BY <1>1, <1>3, <1>4
  <1>6. \A n \in 1 .. size : batch[n] = missing[n]
    BY <1>1, <1>3, <1>4
  <1>7. \A m, n \in DOMAIN batch : batch[m] = batch[n] => m = n
    BY <1>1, <1>3, <1>5, <1>6
  <1>8. ToSet(batch) \subseteq rest
    <2>1. \A n \in DOMAIN batch : batch[n] \in rest
      BY <1>5, ElementOfSeq, LenProperties
    <2>2. QED
      BY <2>1 DEF ToSet
  <1>9. QED
    BY <1>2, <1>5, <1>7, <1>8, SeqMonotonic DEF Wanted, batch

LEMMA CallForBatchStep ==
  ASSUME VectorInv, NEW w \in Workers, CallForBatch(w)
  PROVE  VectorInv'
  <1> DEFINE batch == NextBatch(worker[w].corpus)
             work == [worker[w] EXCEPT !.pc = "slot", !.used = config, !.batch = batch]
  <1>1. /\ worker[w].pc = "batch" /\ Move(w, work) /\ UNCHANGED <<config, returned, catalog, lock>>
        /\ UNCHANGED <<cache, buffers>>
    BY DEF CallForBatch, Move
  <1>2. /\ lock = w /\ worker[w].key = cache.key /\ worker[w].corpus \in Catalogs
        /\ cache.documents = ToSet(worker[w].corpus) /\ worker[w].key \in Keys
    BY <1>1 DEF VectorInv, Sound, Loads, Knows
  <1>3. batch \in Seq(Texts) /\ Wanted(batch)
    BY <1>2, NextBatchIsWanted DEF VectorInv
  <1> HIDE DEF batch
  <1>4. config \in Models /\ config \in Keys
    BY DEF VectorInv, TypeOK, Keys
  <1>5. /\ work \in Work /\ work.pc = "slot" /\ work.used = config /\ work.batch = batch
        /\ work.key = worker[w].key /\ work.corpus = worker[w].corpus
    BY <1>3, <1>4, WorkerType DEF VectorInv, Work, Places
  <1> HIDE DEF work
  <1>6. ASSUME worker'[w] = work
        PROVE  Sound(w)'
    <2>1. Knows(w)' /\ Sees(w)' /\ Called(w)'
      BY <1>1, <1>2, <1>4, <1>5, <1>6 DEF Knows, Sees, HasViews, Called
    <2>2. Wanted(worker[w].batch)'
      BY <1>1, <1>3, <1>5, <1>6 DEF Wanted, Registered
    <2>3. Loads(w)'
      BY <1>1, <1>2, <1>5, <1>6, <2>2 DEF Loads
    <2>4. QED
      BY <2>1, <2>3 DEF Sound
  <1>7. QED
    BY <1>1, <1>5, <1>6, MoveStep

LEMMA CallForQuestionStep ==
  ASSUME VectorInv, NEW w \in Workers, CallForQuestion(w)
  PROVE  VectorInv'
  <1> DEFINE work == [worker[w] EXCEPT !.pc = "slot", !.used = config]
  <1>1. /\ worker[w].pc = "question" /\ Move(w, work)
        /\ UNCHANGED <<config, returned, catalog, lock, cache, buffers>>
    BY DEF CallForQuestion, Move
  <1>2. HasViews(w) /\ lock # w /\ Sound(w)
    BY <1>1 DEF VectorInv, Sound, Loads, HasViews
  <1>3. config \in Models /\ config \in Keys
    BY DEF VectorInv, TypeOK, Keys
  <1>4. /\ work \in Work /\ work.pc = "slot" /\ work.used = config
        /\ work.key = worker[w].key /\ work.corpus = worker[w].corpus
        /\ work.views = worker[w].views
    BY <1>3, WorkerType DEF VectorInv, Work, Places
  <1> HIDE DEF work
  <1>5. ASSUME worker'[w] = work
        PROVE  Sound(w)'
    <2>1. Sees(w)'
      BY <1>1, <1>2, <1>4, <1>5, StillSees
    <2>2. Knows(w)' /\ Loads(w)' /\ Called(w)'
      BY <1>1, <1>2, <1>3, <1>4, <1>5 DEF Sound, Knows, Loads, Called
    <2>3. QED
      BY <2>1, <2>2 DEF Sound
  <1>6. QED
    BY <1>1, <1>4, <1>5, MoveStep

LEMMA TakeSlotStep ==
  ASSUME VectorInv, NEW w \in Workers, TakeSlot(w)
  PROVE  VectorInv'
  <1> DEFINE work == [worker[w] EXCEPT !.pc = "post"]
  <1>1. /\ worker[w].pc = "slot" /\ Move(w, work)
        /\ UNCHANGED <<config, returned, catalog, lock, cache, buffers>>
    BY DEF TakeSlot, Move
  <1>2. Sound(w)
    BY DEF VectorInv
  <1>3. /\ work \in Work /\ work.pc = "post" /\ work.used = worker[w].used
        /\ work.key = worker[w].key /\ work.corpus = worker[w].corpus
        /\ work.views = worker[w].views /\ work.batch = worker[w].batch
    BY WorkerType DEF VectorInv, Work, Places
  <1> HIDE DEF work
  <1>4. ASSUME worker'[w] = work
        PROVE  Sound(w)'
    <2>1. HasViews(w)' => HasViews(w)
      BY <1>1, <1>3, <1>4 DEF HasViews
    <2>2. Sees(w)'
      BY <1>1, <1>2, <1>3, <1>4, <2>1, StillSees DEF Sees
    <2>3. Knows(w)' /\ Loads(w)' /\ Called(w)'
      BY <1>1, <1>2, <1>3, <1>4 DEF Sound, Knows, Loads, Called, Wanted, Registered
    <2>4. QED
      BY <2>2, <2>3 DEF Sound
  <1>5. QED
    BY <1>1, <1>3, <1>4, MoveStep

LEMMA AskModelStep ==
  ASSUME VectorInv, NEW w \in Workers, AskModel(w)
  PROVE  VectorInv'
  <1>1. CASE ~Current(w)
    BY <1>1, LeaveStep DEF AskModel
  <1>2. CASE Current(w) /\ Move(w, [worker[w] EXCEPT !.pc = "question"]) /\ UNCHANGED lock
    <2> DEFINE work == [worker[w] EXCEPT !.pc = "question"]
    <2>1. /\ worker[w].pc = "loaded" /\ Move(w, work)
          /\ UNCHANGED <<config, returned, catalog, lock, cache, buffers>>
      BY <1>2 DEF AskModel, Move
    <2>2. HasViews(w) /\ lock # w /\ Sound(w)
      BY <2>1 DEF VectorInv, Sound, Loads, HasViews
    <2>3. /\ work \in Work /\ work.pc = "question"
          /\ work.key = worker[w].key /\ work.corpus = worker[w].corpus
          /\ work.views = worker[w].views
      BY WorkerType DEF VectorInv, Work, Places
    <2> HIDE DEF work
    <2>4. ASSUME worker'[w] = work
          PROVE  Sound(w)'
      <3>1. Sees(w)'
        BY <2>1, <2>2, <2>3, <2>4, StillSees
      <3>2. Knows(w)' /\ Loads(w)' /\ Called(w)'
        BY <2>1, <2>2, <2>3, <2>4 DEF Sound, Knows, Loads, Called
      <3>3. QED
        BY <3>1, <3>2 DEF Sound
    <2>5. QED
      BY <2>1, <2>3, <2>4, MoveStep
  <1>3. QED
    BY <1>1, <1>2, LeaveStep DEF AskModel

\* The question's vector is compared under the configuration it was made under.
LEMMA AnswerQuestionStep ==
  ASSUME VectorInv, NEW w \in Workers, AnswerQuestion(w)
  PROVE  VectorInv'
  <1> DEFINE work == [worker[w] EXCEPT !.pc = "ranking", !.question = worker[w].used]
  <1>1. CASE Current(w) /\ Move(w, work) /\ UNCHANGED lock
    <2>1. /\ worker[w].pc = "post" /\ lock # w /\ config = worker[w].key
          /\ UNCHANGED <<config, returned, catalog, lock, cache, buffers>>
      BY <1>1 DEF AnswerQuestion, Move, Current
    <2>2. HasViews(w) /\ Sound(w)
      BY <2>1 DEF VectorInv, HasViews
    <2>3. worker[w].used \in Models /\ (~returned => worker[w].used = worker[w].key)
      BY <2>1, <2>2 DEF Sound, Called
    <2>4. /\ work \in Work /\ work.pc = "ranking" /\ work.question = worker[w].used
          /\ work.key = worker[w].key /\ work.corpus = worker[w].corpus
          /\ work.views = worker[w].views
      BY WorkerType DEF VectorInv, Work, Places
    <2> HIDE DEF work
    <2>5. ASSUME worker'[w] = work
          PROVE  Sound(w)'
      <3>1. Sees(w)'
        BY <2>1, <2>2, <2>4, <2>5, StillSees
      <3>2. Knows(w)' /\ Loads(w)' /\ Called(w)'
        BY <2>1, <2>2, <2>3, <2>4, <2>5 DEF Sound, Knows, Loads, Called
      <3>3. QED
        BY <3>1, <3>2 DEF Sound
    <2>6. QED
      BY <1>1, <2>1, <2>4, <2>5, MoveStep
  <1>2. CASE Leave(w)
    BY <1>2, LeaveStep DEF AnswerQuestion
  <1>3. QED
    BY <1>1, <1>2 DEF AnswerQuestion

\* Nothing is missing: every text has its row.
LEMMA LoadedStep ==
  ASSUME VectorInv, NEW w \in Workers, Loaded(w)
  PROVE  VectorInv'
  <1> DEFINE corpus == worker[w].corpus
             views == ViewsOf(corpus)
             work == [worker[w] EXCEPT !.pc = "loaded", !.views = views]
  <1>1. CASE Current(w) /\ Move(w, work) /\ lock' = NoWorker
    <2>1. /\ worker[w].pc = "batch" /\ Missing(corpus) = <<>>
          /\ UNCHANGED <<config, returned, catalog, cache, buffers>>
      BY <1>1 DEF Loaded, Move
    <2>2. /\ lock = w /\ worker[w].key = cache.key /\ corpus \in Catalogs
          /\ cache.documents = ToSet(corpus) /\ worker[w].key \in Keys
      BY <2>1 DEF VectorInv, Sound, Loads, Knows
    <2>3. ToSet(corpus) \subseteq Registered
      <3>1. ToSet(Missing(corpus)) = ToSet(corpus) \cap (ToSet(corpus) \ Registered)
        BY <2>2, CatalogueTexts, OnceLists DEF Missing
      <3>2. ToSet(Missing(corpus)) = {}
        BY <2>1 DEF ToSet
      <3>3. QED
        BY <3>1, <3>2
    <2>4. /\ \A i \in DOMAIN corpus :
               /\ corpus[i] \in Registered
               /\ cache.vectors[corpus[i]] \in 1 .. Cardinality(Registered)
               /\ IsVector(buffers[cache.matrix][cache.vectors[corpus[i]]], cache.key, corpus[i])
          /\ cache.matrix \in Buffers
      BY <2>2, <2>3, CatalogueTexts DEF VectorInv, CacheIsTrue
    <2>5. /\ views.buffer = cache.matrix /\ views.rows \in Seq(Nat)
          /\ \A i \in DOMAIN corpus : views.rows[i] = cache.vectors[corpus[i]]
          /\ views \in Views
      <3>1. DOMAIN corpus = 1 .. Len(corpus) /\ Len(corpus) \in Nat
        BY <2>2, CatalogueTexts
      <3>2. \A i \in DOMAIN corpus : cache.vectors[corpus[i]] \in Nat
        BY <2>4, CacheType DEF VectorInv
      <3>3. [i \in 1 .. Len(corpus) |-> cache.vectors[corpus[i]]] \in [1 .. Len(corpus) -> Nat]
        BY <3>1, <3>2
      <3>4. views.rows \in Seq(Nat)
        BY <3>1, <3>3, SeqDef DEF ViewsOf
      <3>5. QED
        BY <2>4, <3>1, <3>4 DEF ViewsOf, Views
    <2> HIDE DEF views
    <2>6. /\ work \in Work /\ work.pc = "loaded" /\ work.views = views
          /\ work.key = worker[w].key /\ work.corpus = corpus
      BY <2>5, WorkerType DEF VectorInv, Work, Places
    <2> HIDE DEF work, corpus
    <2>7. ASSUME worker'[w] = work
          PROVE  Sound(w)'
      <3>1. Sees(w)'
        <4>1. /\ worker'[w].views.buffer = cache.matrix /\ worker'[w].corpus = corpus
              /\ worker'[w].views.rows = views.rows /\ worker'[w].key = cache.key
          BY <2>2, <2>5, <2>6, <2>7
        <4>2. \A i \in DOMAIN corpus :
                /\ views.rows[i] \in 1 .. Cardinality(Registered')
                /\ IsVector(buffers'[cache.matrix][views.rows[i]], cache.key, corpus[i])
          BY <2>1, <2>4, <2>5 DEF Registered
        <4>3. QED
          BY <2>1, <2>4, <4>1, <4>2 DEF Sees, IsVector
      <3>2. Knows(w)' /\ Loads(w)' /\ Called(w)'
        BY <1>1, <2>1, <2>2, <2>6, <2>7, AbsentAssumption DEF Knows, Loads, Called
      <3>3. QED
        BY <3>1, <3>2 DEF Sound
    <2>8. QED
      BY <1>1, <2>1, <2>2, <2>6, <2>7, MoveStep
  <1>2. CASE Leave(w)
    BY <1>2, LeaveStep DEF Loaded
  <1>3. QED
    BY <1>1, <1>2 DEF Loaded

-------------------------------------------------------------------------------
(* Part 4: steps that write the cache *)

\* A step of w under the lock that gives the cache new contents: the others keep
\* what they see if the new array is free, or extends the old one.
LEMMA UpdateStep ==
  ASSUME VectorInv, NEW w \in Workers, NEW work \in Work, NEW c \in CacheState, NEW written,
         Update(w, work, c, written), UNCHANGED <<config, returned, catalog>>,
         lock \in {NoWorker, w}, lock' = w,
         CacheIsTrue', Sound(w)',
         \A b \in Buffers : b # c.matrix => written[b] = buffers[b],
         \/ c.matrix \notin Buffers
         \/ c.matrix # cache.matrix /\ \A v \in Workers : ~Held(v, c.matrix)
         \/ /\ c.matrix = cache.matrix
            /\ \A r \in 1 .. Cardinality(Registered) :
                 written[cache.matrix][r] = buffers[cache.matrix][r]
            /\ 1 .. Cardinality(Registered) \subseteq 1 .. Cardinality(DOMAIN c.vectors)
  PROVE  VectorInv'
  <1>1. worker' = [worker EXCEPT ![w] = work] /\ cache' = c
    BY DEF Update
  <1>2. TypeOK'
    BY <1>1 DEF VectorInv, TypeOK
  <1>3. Onward
    BY DEF VectorInv, TypeOK, Onward
  <1>4. ASSUME NEW v \in Workers, v # w
        PROVE  Sound(v)'
    <2> DEFINE b == worker[v].views.buffer
    <2>1. worker'[v] = worker[v]
      BY <1>1, <1>4 DEF VectorInv, TypeOK
    <2>2. lock # v /\ lock' # v
      BY <1>4, AbsentAssumption
    <2>3. b \in Buffers => buffers'[b] = written[b]
      BY <1>4 DEF Update, Held
    <2>4. Registered' = DOMAIN c.vectors
      BY <1>1 DEF Registered
    <2>5. ASSUME b \in Buffers, b # cache.matrix
          PROVE  b # cache'.matrix /\ buffers'[b] = buffers[b]
      <3>1. Held(v, b)
        BY DEF Held
      <3>2. b # c.matrix
        BY <2>5, <3>1
      <3>3. QED
        BY <1>1, <2>3, <2>5, <3>2
    <2>6. ASSUME b \in Buffers, b = cache.matrix, NEW r \in 1 .. Cardinality(Registered)
          PROVE  buffers'[b][r] = buffers[b][r]
      <3>1. CASE b = c.matrix
        BY <2>3, <2>6, <3>1
      <3>2. CASE b # c.matrix
        BY <2>3, <2>6, <3>2
      <3>3. QED
        BY <3>1, <3>2
    <2>7. Preserved(v)
      <3>1. b \in Buffers /\ b = cache.matrix /\ b = cache'.matrix =>
              1 .. Cardinality(Registered) \subseteq 1 .. Cardinality(Registered')
        BY <1>1, <2>4
      <3> HIDE DEF b
      <3>2. QED
        BY <2>5, <2>6, <3>1 DEF Preserved, b
    <2>8. QED
      BY <1>3, <2>1, <2>2, <2>7, OthersStep DEF VectorInv
  <1>5. QED
    BY <1>2, <1>4 DEF VectorInv

\* The worker that has just taken the lock, or stored a batch.
LEMMA LoaderIsSound ==
  ASSUME NEW w \in Workers, lock' = w, UNCHANGED returned,
         worker'[w].pc = "batch", worker'[w].corpus \in Catalogs,
         worker'[w].key = cache'.key, worker'[w].key \in Models,
         cache'.documents = ToSet(worker'[w].corpus)
  PROVE  Sound(w)'
  BY DEF Sound, Knows, Loads, Sees, HasViews, Called, Keys

\* The cache under the configuration in force.
LEMMA RekeyedIsTrue ==
  ASSUME TypeOK, CacheIsTrue
  PROVE  LET current == Rekeyed(cache, config) IN
         /\ current \in CacheState /\ current.key = config
         /\ current = cache \/ (DOMAIN current.vectors = {} /\ current.documents = {})
  <1>1. config \in Keys
    BY DEF TypeOK, Keys
  <1>2. CASE cache.key = config
    BY <1>2 DEF Rekeyed, TypeOK
  <1>3. CASE cache.key # config
    BY <1>1, <1>3, EmptyCacheType DEF Rekeyed
  <1>4. QED
    BY <1>2, <1>3

\* Texts that are kept get the first rows of the new array, in their order, with
\* the vectors they had; there is a row for every text.
LEMMA RowsAreCopied ==
  ASSUME TypeOK, CacheIsTrue, NEW corpus \in Catalogs, NEW old \in CacheState,
         old = cache \/ DOMAIN old.vectors = {}
  PROVE  LET kept == Retained(old, corpus)
             rebuilt == Rebuilt(old, corpus)
             copied == Copied(old, corpus)
         IN  /\ rebuilt \in CacheState /\ rebuilt.key = old.key
             /\ rebuilt.documents = ToSet(corpus) /\ IsFiniteSet(ToSet(corpus))
             /\ DOMAIN rebuilt.vectors \subseteq ToSet(corpus)
             /\ rebuilt.matrix \in {NoBuffer, FreeBuffer}
             /\ DOMAIN rebuilt.vectors # {} => rebuilt.matrix = FreeBuffer
             /\ DOMAIN copied = 1 .. Cardinality(ToSet(corpus))
             /\ \A text \in DOMAIN rebuilt.vectors :
                  /\ rebuilt.vectors[text] \in 1 .. Cardinality(DOMAIN rebuilt.vectors)
                  /\ IsVector(copied[rebuilt.vectors[text]], old.key, text)
  <1> DEFINE texts == DOMAIN old.vectors
             both == ToSet(corpus) \cap texts
             kept == Retained(old, corpus)
             rebuilt == Rebuilt(old, corpus)
             copied == Copied(old, corpus)
             row(text) == CHOOSE r \in 1 .. Len(kept) : kept[r] = text
             L == Len(kept)
             C == Cardinality(ToSet(corpus))
  <1>1. /\ IsFiniteSet(both) /\ Cardinality(both) \in Nat
        /\ kept \in Seq(both) /\ Len(kept) = Cardinality(both) /\ ToSet(kept) = both
        /\ \A m, n \in DOMAIN kept : kept[m] = kept[n] => m = n
    <2>1. kept = Once(corpus, texts)
      BY DEF Retained
    <2> HIDE DEF texts, kept
    <2>2. QED
      BY <2>1, CatalogueTexts, OnceLists
  <1>2. /\ IsFiniteSet(ToSet(corpus)) /\ C \in Nat
        /\ Len(Documents(corpus)) = C
    <2> DEFINE all == ToSet(corpus)
               documents == Documents(corpus)
    <2>1. documents = Once(corpus, all)
      BY DEF Documents
    <2>2. all \cap all = all
      OBVIOUS
    <2> HIDE DEF all, documents
    <2>3. /\ IsFiniteSet(ToSet(corpus) \cap all) /\ Cardinality(ToSet(corpus) \cap all) \in Nat
          /\ Len(documents) = Cardinality(ToSet(corpus) \cap all)
      BY <2>1, CatalogueTexts, OnceLists
    <2>4. QED
      BY <2>2, <2>3 DEF all, documents
  <1>3. both \subseteq ToSet(corpus) /\ L \in Nat /\ L <= C
    BY <1>1, <1>2, FS_Subset
  <1>4. /\ rebuilt = [old EXCEPT !.vectors = [text \in ToSet(kept) |-> row(text)],
                                 !.documents = ToSet(corpus),
                                 !.width = IF kept = <<>> THEN 0 ELSE @,
                                 !.matrix = Matrix(old, kept)]
        /\ copied = Rows([r \in 1 .. L |-> buffers[old.matrix][old.vectors[kept[r]]]],
                         Len(Documents(corpus)))
    BY DEF Rebuilt, Copied
  <1>5. DOMAIN kept = 1 .. L /\ \A r \in 1 .. L : kept[r] \in both
    BY <1>1, ElementOfSeq, LenProperties
  <1>6. \A text \in both : row(text) \in 1 .. L /\ kept[row(text)] = text
    <2>1. \A text \in both : \E r \in 1 .. L : kept[r] = text
      BY <1>1, <1>5 DEF ToSet
    <2>2. QED
      BY <2>1
  <1> HIDE DEF row
  <1>7. Matrix(old, kept) \in {NoBuffer, FreeBuffer} /\ (kept # <<>> => Matrix(old, kept) = FreeBuffer)
    BY DEF Matrix
  <1>8. both # {} => kept # <<>>
    BY <1>1 DEF ToSet
  <1>9. both \in SUBSET Texts /\ ToSet(corpus) \in SUBSET Texts
    BY <1>3, CatalogueTexts
  <1>10. [text \in both |-> row(text)] \in [both -> Nat]
    BY <1>3, <1>6
  <1> HIDE DEF kept
  <1>11. /\ rebuilt \in CacheState /\ rebuilt.key = old.key
         /\ rebuilt.vectors = [text \in both |-> row(text)]
         /\ rebuilt.documents = ToSet(corpus) /\ rebuilt.matrix = Matrix(old, kept)
    <2> DEFINE vectors == [text \in both |-> row(text)]
               matrix == Matrix(old, kept)
               documents == ToSet(corpus)
    <2>1. vectors \in UNION {[known -> Nat] : known \in SUBSET Texts}
      BY <1>9, <1>10
    <2>2. matrix \in Buffers \cup {NoBuffer}
      BY <1>7, FreeBufferIsFree
    <2>3. documents \in SUBSET Texts
      BY <1>9
    <2>4. rebuilt = [old EXCEPT !.vectors = vectors, !.documents = documents,
                                !.width = IF kept = <<>> THEN 0 ELSE @, !.matrix = matrix]
      BY <1>1, <1>4
    <2> HIDE DEF rebuilt, vectors, matrix, documents
    <2>5. /\ rebuilt \in CacheState /\ rebuilt.key = old.key /\ rebuilt.vectors = vectors
          /\ rebuilt.documents = documents /\ rebuilt.matrix = matrix
      BY <2>1, <2>2, <2>3, <2>4 DEF CacheState
    <2>6. QED
      BY <2>5 DEF vectors, matrix, documents
  <1> DEFINE source == [r \in 1 .. L |-> buffers[old.matrix][old.vectors[kept[r]]]]
  <1>12. Len(source) = L
    BY <1>3
  <1>13. /\ DOMAIN copied = 1 .. C
         /\ \A r \in 1 .. L : copied[r] = buffers[old.matrix][old.vectors[kept[r]]]
    BY <1>2, <1>3, <1>4, <1>12 DEF Rows
  <1>14. ASSUME NEW text \in both
         PROVE  IsVector(copied[row(text)], old.key, text)
    <2>1. old = cache /\ text \in Registered
      BY <1>14 DEF Registered
    <2>2. copied[row(text)] = buffers[cache.matrix][cache.vectors[text]]
      BY <1>6, <1>13, <1>14, <2>1
    <2>3. QED
      BY <2>1, <2>2 DEF CacheIsTrue
  <1>15. L = Cardinality(both)
    BY <1>1
  <1> HIDE DEF both, L, rebuilt, copied, texts, source
  <1>16. DOMAIN rebuilt.vectors = both /\ \A text \in both : rebuilt.vectors[text] = row(text)
    BY <1>11
  <1>17. QED
    BY <1>2, <1>3, <1>6, <1>7, <1>8, <1>11, <1>13, <1>14, <1>15, <1>16 DEF rebuilt, copied, C

LEMMA AcquireStep ==
  ASSUME VectorInv, NEW w \in Workers, Acquire(w)
  PROVE  VectorInv'
  <1> DEFINE corpus == worker[w].corpus
             current == Rekeyed(cache, config)
             rebuilt == Rebuilt(current, corpus)
             copied == Copied(current, corpus)
             work == [worker[w] EXCEPT !.pc = "batch", !.key = config]
  <1>1. /\ worker[w].pc = "lock" /\ lock = NoWorker /\ lock' = w
        /\ UNCHANGED <<config, returned, catalog>>
    BY DEF Acquire
  <1>2. corpus \in Catalogs /\ config \in Models /\ config \in Keys
    BY <1>1 DEF VectorInv, Sound, Knows, TypeOK, Keys
  <1>3. /\ work \in Work /\ work.pc = "batch" /\ work.key = config /\ work.corpus = corpus
    BY <1>2, WorkerType DEF VectorInv, Work, Places
  <1>4. /\ current \in CacheState /\ current.key = config
        /\ current = cache \/ (DOMAIN current.vectors = {} /\ current.documents = {})
    BY RekeyedIsTrue DEF VectorInv
  <1> HIDE DEF work, current
  <1>5. ASSUME NEW c \in CacheState, NEW written, Update(w, work, c, written),
               c.key = config, c.documents = ToSet(corpus)
        PROVE  Sound(w)'
    <2>1. worker'[w] = work /\ cache' = c
      BY <1>5 DEF Update, VectorInv, TypeOK
    <2>2. QED
      BY <1>1, <1>2, <1>3, <1>5, <2>1, LoaderIsSound
  <1>6. CASE ToSet(corpus) = current.documents /\ Update(w, work, current, buffers)
    <2>1. current = cache
      BY <1>2, <1>4, <1>6, CatalogueTexts
    <2>2. cache' = cache /\ (cache.matrix \in Buffers => buffers'[cache.matrix] = buffers[cache.matrix])
      BY <1>6, <2>1 DEF Update
    <2>3. CacheIsTrue'
      <3>1. \A text \in Registered : cache.matrix \in Buffers
        BY DEF VectorInv, CacheIsTrue
      <3>2. QED
        BY <1>1, <2>2, <3>1 DEF VectorInv, CacheIsTrue, Registered, IsVector
    <2>4. Sound(w)'
      BY <1>4, <1>5, <1>6
    <2>5. QED
      BY <1>1, <1>3, <1>4, <1>6, <2>1, <2>3, <2>4, UpdateStep DEF Registered
  <1>7. CASE /\ ToSet(corpus) # current.documents
             /\ Update(w, work, rebuilt,
                       [b \in Buffers |-> IF b = rebuilt.matrix THEN copied ELSE buffers[b]])
    <2> DEFINE written == [b \in Buffers |-> IF b = rebuilt.matrix THEN copied ELSE buffers[b]]
    <2>1. /\ rebuilt \in CacheState /\ rebuilt.key = config
          /\ rebuilt.documents = ToSet(corpus) /\ IsFiniteSet(ToSet(corpus))
          /\ DOMAIN rebuilt.vectors \subseteq ToSet(corpus)
          /\ rebuilt.matrix \in {NoBuffer, FreeBuffer}
          /\ DOMAIN rebuilt.vectors # {} => rebuilt.matrix = FreeBuffer
          /\ DOMAIN copied = 1 .. Cardinality(ToSet(corpus))
          /\ \A text \in DOMAIN rebuilt.vectors :
               /\ rebuilt.vectors[text] \in 1 .. Cardinality(DOMAIN rebuilt.vectors)
               /\ IsVector(copied[rebuilt.vectors[text]], config, text)
      BY <1>2, <1>4, RowsAreCopied DEF VectorInv
    <2> HIDE DEF rebuilt, copied
    <2>2. /\ FreeBuffer \in Buffers /\ FreeBuffer # cache.matrix
          /\ \A v \in Workers : ~Held(v, FreeBuffer)
      BY FreeBufferIsFree DEF VectorInv
    <2>3. /\ cache' = rebuilt
          /\ rebuilt.matrix \in Buffers => buffers'[rebuilt.matrix] = copied
      BY <1>7 DEF Update
    <2>4. CacheIsTrue'
      <3>1. rebuilt.matrix \in Buffers => rebuilt.matrix = FreeBuffer
        BY <2>1, NoBufferIsNone
      <3>2. /\ DOMAIN rebuilt.vectors \subseteq rebuilt.documents
            /\ IsFiniteSet(rebuilt.documents)
            /\ DOMAIN rebuilt.vectors # {} => rebuilt.matrix \in Buffers
        BY <2>1, <2>2
      <3>3. rebuilt.matrix \in Buffers =>
              DOMAIN buffers'[rebuilt.matrix] = 1 .. Cardinality(rebuilt.documents)
        BY <2>1, <2>3
      <3>4. ASSUME NEW text \in DOMAIN rebuilt.vectors
            PROVE  /\ rebuilt.vectors[text] \in 1 .. Cardinality(DOMAIN rebuilt.vectors)
                   /\ IsVector(buffers'[rebuilt.matrix][rebuilt.vectors[text]], rebuilt.key, text)
        <4>1. buffers'[rebuilt.matrix] = copied
          BY <2>3, <3>2
        <4>2. QED
          BY <2>1, <4>1
      <3>5. QED
        BY <1>1, <2>3, <3>2, <3>3, <3>4 DEF CacheIsTrue, Registered, IsVector
    <2>5. Sound(w)'
      BY <1>5, <1>7, <2>1
    <2>6. \A b \in Buffers : b # rebuilt.matrix => written[b] = buffers[b]
      OBVIOUS
    <2>7. \/ rebuilt.matrix \notin Buffers
          \/ rebuilt.matrix # cache.matrix /\ \A v \in Workers : ~Held(v, rebuilt.matrix)
      BY <2>1, <2>2, NoBufferIsNone
    <2>8. Update(w, work, rebuilt, written)
      BY <1>7
    <2> HIDE DEF written
    <2>9. QED
      BY <1>1, <1>3, <2>1, <2>4, <2>5, <2>6, <2>7, <2>8, UpdateStep
  <1>8. QED
    BY <1>6, <1>7 DEF Acquire, work, current

\* The vectors of a batch are appended to the rows that are registered.
LEMMA RowsAreAppended ==
  ASSUME TypeOK, CacheIsTrue, NEW batch \in Seq(Texts), Wanted(batch), NEW m \in Models,
         ~returned => m = cache.key
  PROVE  LET extended == Extended(batch, m)
             written == Written(batch, m)
         IN  /\ extended \in CacheState /\ extended.key = cache.key
             /\ extended.documents = cache.documents
             /\ extended.matrix \in Buffers
             /\ extended.matrix # cache.matrix => extended.matrix = FreeBuffer
             /\ DOMAIN extended.vectors \subseteq cache.documents
             /\ DOMAIN written = 1 .. Cardinality(cache.documents)
             /\ 1 .. Cardinality(Registered) \subseteq 1 .. Cardinality(DOMAIN extended.vectors)
             /\ \A text \in DOMAIN extended.vectors :
                  /\ extended.vectors[text] \in 1 .. Cardinality(DOMAIN extended.vectors)
                  /\ IsVector(written[extended.vectors[text]], cache.key, text)
             /\ extended.matrix = cache.matrix =>
                  \A r \in 1 .. Cardinality(Registered) : written[r] = buffers[cache.matrix][r]
  <1> DEFINE new == ToSet(batch)
             n == Cardinality(Registered)
             L == Len(batch)
             C == Cardinality(cache.documents)
             at(text) == CHOOSE i \in 1 .. Len(batch) : batch[i] = text
             row(text) == IF text \in Registered THEN cache.vectors[text] ELSE n + at(text)
             known == Registered \cup new
             extended == Extended(batch, m)
             written == Written(batch, m)
             before == IF cache.matrix = NoBuffer THEN Rows(<<>>, C) ELSE buffers[cache.matrix]
             matrix == IF cache.matrix = NoBuffer THEN FreeBuffer ELSE cache.matrix
  <1>1. /\ DOMAIN batch = 1 .. L /\ L \in Nat
        /\ \A i \in 1 .. L : batch[i] \in Texts /\ batch[i] \in new
    BY ElementOfSeq, LenProperties DEF ToSet
  <1>2. /\ new \subseteq cache.documents \ Registered
        /\ \A i, j \in 1 .. L : batch[i] = batch[j] => i = j
    BY <1>1 DEF Wanted
  <1>3. \A text \in new : at(text) \in 1 .. L /\ batch[at(text)] = text
    <2>1. \A text \in new : \E i \in 1 .. L : batch[i] = text
      BY <1>1 DEF ToSet
    <2>2. QED
      BY <2>1
  <1>4. IsFiniteSet(new) /\ Cardinality(new) = L
    <2> DEFINE f == [i \in 1 .. L |-> batch[i]]
    <2>1. f \in Bijection(1 .. L, new)
      BY <1>1, <1>2, <1>3 DEF Bijection, Injection, Surjection, IsInjective
    <2>2. IsFiniteSet(1 .. L) /\ Cardinality(1 .. L) = L
      BY <1>1, FS_Interval
    <2>3. QED
      BY <2>1, <2>2, FS_Bijection DEF ExistsBijection
  <1>5. /\ IsFiniteSet(Registered) /\ n \in Nat /\ C \in Nat
        /\ Registered \subseteq cache.documents /\ IsFiniteSet(cache.documents)
    BY FS_Subset, FS_CardinalityType DEF CacheIsTrue
  <1>6. /\ known \subseteq cache.documents
        /\ Cardinality(known) = n + L /\ n + L <= C
    <2>1. Registered \cap new = {}
      BY <1>2
    <2>2. Cardinality(known) = n + L - 0
      <3> HIDE DEF new
      <3>1. Cardinality(known) = n + Cardinality(new) - Cardinality(Registered \cap new)
        BY <1>4, <1>5, FS_Union
      <3>2. QED
        BY <1>4, <2>1, <3>1, FS_EmptySet
    <2>3. known \subseteq cache.documents
      BY <1>2, <1>5
    <2>4. Cardinality(known) <= C
      BY <1>5, <2>3, FS_Subset
    <2>5. QED
      BY <1>1, <1>5, <2>2, <2>3, <2>4
  <1>7. /\ extended = [cache EXCEPT !.width = Width[m],
                                    !.matrix = IF @ = NoBuffer THEN FreeBuffer ELSE @,
                                    !.vectors = [text \in known |-> row(text)]]
        /\ written = [r \in DOMAIN before |->
                        IF r \in n + 1 .. n + L THEN [model |-> m, text |-> batch[r - n]]
                        ELSE before[r]]
    BY DEF Extended, Written
  <1> HIDE DEF at
  <1>8. \A text \in Registered : cache.vectors[text] \in 1 .. n
    BY DEF CacheIsTrue
  <1>9. /\ \A text \in Registered : row(text) = cache.vectors[text] /\ row(text) \in 1 .. n
        /\ \A text \in new : row(text) = n + at(text) /\ row(text) \in n + 1 .. n + L
    BY <1>1, <1>2, <1>3, <1>5, <1>8
  <1> HIDE DEF row
  <1>10. /\ matrix \in Buffers /\ (matrix # cache.matrix => matrix = FreeBuffer)
         /\ cache.matrix = NoBuffer \/ cache.matrix \in Buffers
    BY FreeBufferIsFree, CacheType
  <1>11. /\ extended \in CacheState /\ extended.key = cache.key
         /\ extended.documents = cache.documents /\ extended.matrix = matrix
         /\ extended.vectors = [text \in known |-> row(text)]
    <2> DEFINE vectors == [text \in known |-> row(text)]
    <2>1. known \in SUBSET Texts
      BY <1>6, CacheType
    <2>2. \A text \in known : row(text) \in Nat
      BY <1>1, <1>5, <1>9
    <2>3. vectors \in [known -> Nat]
      BY <2>2
    <2>4. vectors \in UNION {[s -> Nat] : s \in SUBSET Texts}
      BY <2>1, <2>3
    <2> HIDE DEF vectors, extended
    <2>5. Width[m] \in Nat
      BY WidthAssumption
    <2>6. extended = [cache EXCEPT !.width = Width[m], !.matrix = matrix, !.vectors = vectors]
      BY <1>7 DEF vectors, TypeOK, CacheState
    <2> HIDE DEF matrix
    <2>7. /\ extended \in CacheState /\ extended.key = cache.key
          /\ extended.documents = cache.documents /\ extended.matrix = matrix
          /\ extended.vectors = vectors
      BY <1>10, <2>4, <2>5, <2>6 DEF TypeOK, CacheState
    <2>8. QED
      BY <2>7 DEF vectors
  <1>12. DOMAIN before = 1 .. C
    BY <1>10 DEF Rows, CacheIsTrue
  <1>13. /\ DOMAIN written = 1 .. C
         /\ \A r \in 1 .. n : written[r] = before[r]
         /\ \A r \in n + 1 .. n + L : written[r] = [model |-> m, text |-> batch[r - n]]
    BY <1>1, <1>5, <1>6, <1>7, <1>12
  <1>14. matrix = cache.matrix => before = buffers[cache.matrix]
    BY <1>10, NoBufferIsNone
  <1>15. ASSUME NEW text \in Registered
         PROVE  IsVector(written[row(text)], cache.key, text)
    <2>1. cache.matrix \in Buffers /\ IsVector(buffers[cache.matrix][cache.vectors[text]], cache.key, text)
      BY <1>15 DEF CacheIsTrue
    <2>2. written[row(text)] = buffers[cache.matrix][cache.vectors[text]]
      BY <1>9, <1>13, <1>15, <2>1, NoBufferIsNone
    <2>3. QED
      BY <2>1, <2>2
  <1>16. ASSUME NEW text \in new
         PROVE  IsVector(written[row(text)], cache.key, text)
    <2>1. row(text) - n = at(text)
      BY <1>1, <1>3, <1>5, <1>9, <1>16
    <2>2. written[row(text)] = [model |-> m, text |-> text]
      BY <1>3, <1>9, <1>13, <1>16, <2>1
    <2>3. QED
      BY <2>2 DEF IsVector
  <1>17. \A text \in known : row(text) \in 1 .. n + L
    BY <1>1, <1>5, <1>9
  <1>18. 1 .. n \subseteq 1 .. n + L
    BY <1>1, <1>5
  <1> HIDE DEF known, new, matrix, before, extended, written
  <1>19. DOMAIN extended.vectors = known /\ \A text \in known : extended.vectors[text] = row(text)
    BY <1>11
  <1>20. \A text \in known : IsVector(written[row(text)], cache.key, text)
    BY <1>15, <1>16 DEF known
  <1>21. QED
    BY <1>6, <1>10, <1>11, <1>13, <1>14, <1>17, <1>18, <1>19, <1>20 DEF extended, written

LEMMA AnswerBatchStep ==
  ASSUME VectorInv, NEW w \in Workers, AnswerBatch(w)
  PROVE  VectorInv'
  <1> DEFINE m == worker[w].used
             batch == worker[w].batch
             extended == Extended(batch, m)
             new == Written(batch, m)
             work == [worker[w] EXCEPT !.pc = "batch", !.batch = <<>>, !.used = NoModel]
             written == [b \in Buffers |-> IF b = extended.matrix THEN new ELSE buffers[b]]
  <1>1. CASE Fits(m) /\ Current(w) /\ Update(w, work, extended, written) /\ UNCHANGED lock
    <2>1. /\ worker[w].pc = "post" /\ lock = w /\ lock' = w /\ config = worker[w].key
          /\ UNCHANGED <<config, returned, catalog>>
      BY <1>1 DEF AnswerBatch, Current
    <2>2. /\ worker[w].key = cache.key /\ cache.documents = ToSet(worker[w].corpus)
          /\ Wanted(batch) /\ worker[w].corpus \in Catalogs
          /\ m \in Models /\ (~returned => m = cache.key)
      BY <2>1 DEF VectorInv, Sound, Loads, Knows, Called
    <2>3. /\ work \in Work /\ work.pc = "batch" /\ work.key = config
          /\ work.corpus = worker[w].corpus
      <3>1. <<>> \in Seq(Texts) /\ NoModel \in Keys
        BY DEF Keys
      <3>2. QED
        BY <2>1, <3>1, WorkerType DEF VectorInv, Work, Places
    <2>4. batch \in Seq(Texts)
      BY WorkerType DEF VectorInv
    <2> HIDE DEF work, batch
    <2>5. /\ extended \in CacheState /\ extended.key = cache.key
          /\ extended.documents = cache.documents
          /\ extended.matrix \in Buffers
          /\ extended.matrix # cache.matrix => extended.matrix = FreeBuffer
          /\ DOMAIN extended.vectors \subseteq cache.documents
          /\ DOMAIN new = 1 .. Cardinality(cache.documents)
          /\ 1 .. Cardinality(Registered) \subseteq 1 .. Cardinality(DOMAIN extended.vectors)
          /\ \A text \in DOMAIN extended.vectors :
               /\ extended.vectors[text] \in 1 .. Cardinality(DOMAIN extended.vectors)
               /\ IsVector(new[extended.vectors[text]], cache.key, text)
          /\ extended.matrix = cache.matrix =>
               \A r \in 1 .. Cardinality(Registered) : new[r] = buffers[cache.matrix][r]
      BY <2>2, <2>4, RowsAreAppended DEF VectorInv
    <2> HIDE DEF extended, new
    <2>6. cache' = extended /\ buffers'[extended.matrix] = new
      BY <1>1, <2>5 DEF Update
    <2>7. CacheIsTrue'
      <3>1. Registered' = DOMAIN extended.vectors /\ cache'.matrix \in Buffers
        BY <2>5, <2>6 DEF Registered
      <3>2. IsFiniteSet(cache'.documents) /\ cache'.documents = cache.documents
        BY <2>5, <2>6 DEF VectorInv, CacheIsTrue
      <3>3. DOMAIN buffers'[cache'.matrix] = 1 .. Cardinality(cache'.documents)
        BY <2>5, <2>6
      <3>4. \A text \in Registered' :
              /\ cache'.vectors[text] \in 1 .. Cardinality(Registered')
              /\ IsVector(buffers'[cache'.matrix][cache'.vectors[text]], cache'.key, text)
        BY <2>5, <2>6, <3>1
      <3>5. QED
        BY <2>1, <2>5, <3>1, <3>2, <3>3, <3>4 DEF CacheIsTrue, IsVector
    <2>8. worker'[w] = work
      BY <1>1 DEF Update, VectorInv, TypeOK
    <2>9. Sound(w)'
      <3>1. worker[w].key \in Models
        BY <2>1 DEF VectorInv, TypeOK
      <3>2. QED
        BY <2>1, <2>2, <2>3, <2>5, <2>6, <2>8, <3>1, LoaderIsSound
    <2>10. \A v \in Workers : extended.matrix # cache.matrix => ~Held(v, extended.matrix)
      BY <2>5, FreeBufferIsFree DEF VectorInv
    <2>11. /\ \A b \in Buffers : b # extended.matrix => written[b] = buffers[b]
           /\ extended.matrix = cache.matrix => written[cache.matrix] = new
      BY <2>5
    <2>12. Update(w, work, extended, written)
      BY <1>1
    <2> HIDE DEF written
    <2>13. \/ extended.matrix # cache.matrix /\ \A v \in Workers : ~Held(v, extended.matrix)
           \/ /\ extended.matrix = cache.matrix
              /\ \A r \in 1 .. Cardinality(Registered) :
                   written[cache.matrix][r] = buffers[cache.matrix][r]
              /\ 1 .. Cardinality(Registered) \subseteq 1 .. Cardinality(DOMAIN extended.vectors)
      <3>1. CASE extended.matrix # cache.matrix
        BY <2>10, <3>1
      <3>2. CASE extended.matrix = cache.matrix
        <4>1. \A r \in 1 .. Cardinality(Registered) : new[r] = buffers[cache.matrix][r]
          BY <2>5, <3>2
        <4>2. written[cache.matrix] = new
          BY <2>11, <3>2
        <4>3. \A r \in 1 .. Cardinality(Registered) :
                written[cache.matrix][r] = buffers[cache.matrix][r]
          BY <4>1, <4>2
        <4>4. QED
          BY <2>5, <3>2, <4>3
      <3>3. QED
        BY <3>1, <3>2
    <2>14. QED
      BY <2>1, <2>3, <2>5, <2>7, <2>9, <2>11, <2>12, <2>13, UpdateStep
  <1>2. CASE Leave(w)
    BY <1>2, LeaveStep DEF AnswerBatch
  <1>3. QED
    BY <1>1, <1>2 DEF AnswerBatch

-------------------------------------------------------------------------------
(* Part 5: the process never compares what does not belong together *)

LEMMA VectorInit == Init => VectorInv
  <1> SUFFICES ASSUME Init PROVE VectorInv
    OBVIOUS
  <1>1. NoModel \in Keys /\ worker \in [Workers -> Work]
    BY IdleType DEF Init, Keys
  <1>2. TypeOK
    BY <1>1, EmptyCacheType DEF Init, TypeOK
  <1>3. CacheIsTrue
    BY <1>1, EmptyCacheType, NoBufferIsNone, FS_EmptySet DEF Init, CacheIsTrue, Registered
  <1>4. \A w \in Workers : Sound(w)
    BY AbsentAssumption, IdleType DEF Init, Sound, Knows, Loads, Sees, HasViews, Called, Keys
  <1>5. QED
    BY <1>2, <1>3, <1>4 DEF VectorInv

\* An administrator changes the configuration or the catalogue.
LEMMA AdministerStep ==
  ASSUME VectorInv, UNCHANGED <<cache, buffers, lock, slots, worker>>,
         \/ \E m \in Models : Publish(m)
         \/ \E corpus \in Catalogs : ChangeCatalog(corpus)
  PROVE  VectorInv'
  <1>1. Onward
    BY DEF Onward, Publish, ChangeCatalog, VectorInv, TypeOK
  <1>2. TypeOK'
    BY DEF Publish, ChangeCatalog, VectorInv, TypeOK
  <1>3. CacheIsTrue'
    BY <1>1 DEF VectorInv, CacheIsTrue, Registered, IsVector, Onward
  <1>4. ASSUME NEW v \in Workers
        PROVE  Sound(v)'
    <2>1. Preserved(v)
      BY DEF Preserved, Registered
    <2>2. QED
      BY <1>1, <2>1, OthersStep DEF VectorInv
  <1>5. QED
    BY <1>2, <1>3, <1>4 DEF VectorInv

LEMMA WorkerStepKeeps ==
  ASSUME VectorInv, NEW w \in Workers, Ask(w) \/ WorkerStep(w)
  PROVE  VectorInv'
  <1>1. CASE LockTimeout(w) \/ SlotTimeout(w) \/ Fail(w) \/ Rank(w)
    BY <1>1, LeaveStep DEF LockTimeout, SlotTimeout, Fail, Rank
  <1>2. CASE Ask(w) \/ Acquire(w) \/ CallForBatch(w) \/ CallForQuestion(w) \/ TakeSlot(w)
    BY <1>2, AskStep, AcquireStep, CallForBatchStep, CallForQuestionStep, TakeSlotStep
  <1>3. CASE AnswerBatch(w) \/ Loaded(w) \/ AskModel(w) \/ AnswerQuestion(w)
    BY <1>3, AnswerBatchStep, LoadedStep, AskModelStep, AnswerQuestionStep
  <1>4. QED
    BY <1>1, <1>2, <1>3 DEF WorkerStep

\* What the invariant speaks about: all but the places for calls.
vectorVars == <<config, returned, catalog, cache, buffers, lock, worker>>

\* A process takes the steps of the cache, lets its warm-up thread go early, or
\* tests a connection.
LEMMA ProcessSteps ==
  ASSUME [SNext]_svars
  PROVE  \/ \E w \in Workers : Ask(w) \/ WorkerStep(w)
         \/ Leave(Warm) /\ UNCHANGED <<config, returned, catalog>>
         \/ /\ UNCHANGED <<cache, buffers, lock, slots, worker>>
            /\ \/ \E m \in Models : Publish(m)
               \/ \E corpus \in Catalogs : ChangeCatalog(corpus)
         \/ UNCHANGED vectorVars
  <1>1. CASE ThreadStep
    <2>1. Attempt \/ Load => \/ Ask(Warm) \/ WorkerStep(Warm)
                            \/ UNCHANGED vectorVars
      BY DEF Attempt, Load, LoadStep, WorkerStep, cacheVars, vars, vectorVars
    <2>2. Interrupted \/ Ready => Leave(Warm) /\ UNCHANGED <<config, returned, catalog>>
      BY DEF Interrupted, Ready
    <2>3. Wait => UNCHANGED vectorVars
      BY DEF Wait, cacheVars, vars, vectorVars
    <2>4. QED
      BY <1>1, <2>1, <2>2, <2>3, WarmAssumption DEF ThreadStep
  <1>2. CASE \E w \in Requests : Question(w) \/ Answer(w)
    BY <1>2 DEF Question, Answer, Requests
  <1>3. CASE Administer
    BY <1>3 DEF Administer, Publish, ChangeCatalog
  <1>4. CASE \/ Recover \/ Test \/ EndTest
            \/ StartRegistry \/ EndOfService \/ StopWarmup \/ Close
    BY <1>4 DEF Recover, Test, EndTest, StartRegistry, EndOfService, StopWarmup, Close,
                cacheVars, vars, vectorVars
  <1>5. CASE UNCHANGED svars
    BY <1>5 DEF svars, vars, vectorVars
  <1>6. QED
    BY <1>1, <1>2, <1>3, <1>4, <1>5 DEF SNext

LEMMA VectorStep == VectorInv /\ [SNext]_svars => VectorInv'
  <1> SUFFICES ASSUME VectorInv, [SNext]_svars PROVE VectorInv'
    OBVIOUS
  <1>1. CASE UNCHANGED vectorVars
    <2>1. TypeOK' /\ CacheIsTrue'
      BY <1>1 DEF vectorVars, VectorInv, TypeOK, CacheIsTrue, Registered, IsVector
    <2>2. ASSUME NEW v \in Workers
          PROVE  Sound(v)'
      <3>1. Onward /\ Preserved(v)
        BY <1>1 DEF vectorVars, VectorInv, TypeOK, Onward, Preserved, Registered
      <3>2. QED
        BY <1>1, <3>1, OthersStep DEF vectorVars, VectorInv
    <2>3. QED
      BY <2>1, <2>2 DEF VectorInv
  <1>2. QED
    BY <1>1, ProcessSteps, WorkerStepKeeps, LeaveStep, AdministerStep, WarmAssumption

LEMMA VectorInvAlways == SSpec => []VectorInv
  <1>1. SInit => VectorInv
    BY VectorInit DEF SInit
  <1>2. QED
    BY <1>1, VectorStep, PTL DEF SSpec

\* Whatever is published or edited while a question is answered, each row it is
\* compared with is a vector of that text of the catalogue the question began
\* with: no row that is blank, stands for another text or was written over.
RowsAreTheTexts ==
  \A w \in Workers : worker[w].pc = "ranking" =>
    LET views == worker[w].views IN
    \A i \in DOMAIN worker[w].corpus :
      \E m \in Models :
        buffers[views.buffer][views.rows[i]] = [model |-> m, text |-> worker[w].corpus[i]]

THEOREM QuestionsSeeTheirTexts == SSpec => []RowsAreTheTexts
  <1>1. VectorInv => RowsAreTheTexts
    BY DEF VectorInv, Sound, Sees, HasViews, IsVector, RowsAreTheTexts
  <1>2. QED
    BY <1>1, VectorInvAlways, PTL

\* Until a configuration comes back to a worker whose call was made under another,
\* they are also all made by the model that made the question's vector (_load,
\* embed, _ensure_current).
THEOREM NoTwoModelsMeet == SSpec => []OneSpaceUntilReturn
  <1>1. VectorInv => OneSpaceUntilReturn
    <2> SUFFICES ASSUME VectorInv, ~returned, NEW w \in Workers, worker[w].pc = "ranking",
                        NEW i \in DOMAIN worker[w].corpus
                 PROVE  buffers[worker[w].views.buffer][worker[w].views.rows[i]] =
                          [model |-> worker[w].question, text |-> worker[w].corpus[i]]
      BY DEF OneSpaceUntilReturn, OneVectorSpace
    <2>1. Sound(w) /\ HasViews(w)
      BY DEF VectorInv, HasViews
    <2>2. worker[w].question = worker[w].key
      BY <2>1 DEF Sound, Called
    <2>3. QED
      BY <2>1, <2>2 DEF Sound, Sees, IsVector
  <1>2. QED
    BY <1>1, VectorInvAlways, PTL

-------------------------------------------------------------------------------
(* Part 6: the client is closed after its last call *)

\* The warm-up thread is in the cache only while it loads, requests and tests only
\* while the process serves; the process closes when the thread has ended.
LifeInv ==
  /\ worker[Warm].pc = "idle" \/ thread = "loading"
  /\ stage # "serving" => tests = 0 /\ \A w \in Requests : worker[w].pc = "idle"
  /\ tests \in Nat
  /\ stage = "closed" => thread = "ended"

\* A step of w is a step of no other worker.
LEMMA OnlyItself ==
  ASSUME TypeOK, NEW w \in Workers, Ask(w) \/ WorkerStep(w) \/ Leave(w),
         NEW v \in Workers, v # w
  PROVE  worker'[v] = worker[v]
  <1>1. ASSUME NEW work, worker' = [worker EXCEPT ![w] = work]
        PROVE  worker'[v] = worker[v]
    BY <1>1 DEF TypeOK
  <1>2. \E work : worker' = [worker EXCEPT ![w] = work]
    <2>1. CASE Leave(w) \/ LockTimeout(w) \/ SlotTimeout(w) \/ Fail(w) \/ Rank(w)
      BY <2>1 DEF Leave, LockTimeout, SlotTimeout, Fail, Rank, Update
    <2>2. CASE Ask(w) \/ CallForBatch(w) \/ CallForQuestion(w) \/ TakeSlot(w)
      BY <2>2 DEF Ask, CallForBatch, CallForQuestion, TakeSlot, Move
    <2>3. CASE Acquire(w) \/ AnswerBatch(w)
      BY <2>3 DEF Acquire, AnswerBatch, Update, Leave
    <2>4. CASE Loaded(w) \/ AskModel(w) \/ AnswerQuestion(w)
      BY <2>4 DEF Loaded, AskModel, AnswerQuestion, Move, Leave, Update
    <2>5. QED
      BY <2>1, <2>2, <2>3, <2>4 DEF WorkerStep
  <1>3. QED
    BY <1>1, <1>2

LEMMA LeavesIdle ==
  ASSUME TypeOK, NEW w \in Workers, Leave(w)
  PROVE  worker'[w].pc = "idle"
  BY IdleType DEF TypeOK, Leave, Update

LEMMA BusyWorkersStep ==
  ASSUME NEW w \in Workers, WorkerStep(w)
  PROVE  worker[w].pc # "idle"
  BY DEF WorkerStep, LockTimeout, Acquire, CallForBatch, CallForQuestion, TakeSlot,
         SlotTimeout, Fail, AnswerBatch, Loaded, AskModel, AnswerQuestion, Rank

LEMMA LifeStep == VectorInv /\ LifeInv /\ [SNext]_svars => LifeInv'
  <1> SUFFICES ASSUME VectorInv, LifeInv, [SNext]_svars PROVE LifeInv'
    OBVIOUS
  <1> USE WarmAssumption
  <1>0. TypeOK
    BY DEF VectorInv
  <1>1. CASE ThreadStep
    <2>1. stage' = stage /\ tests' = tests /\ thread # "ended"
      BY <1>1 DEF ThreadStep, Attempt, Load, Interrupted, Ready, Wait, lifespanVars
    <2>2. \A v \in Requests : worker'[v] = worker[v]
      <3>1. \/ Ask(Warm) \/ WorkerStep(Warm) \/ Leave(Warm)
            \/ worker' = worker
        BY <1>1 DEF ThreadStep, Attempt, Load, LoadStep, Interrupted, Ready, Wait,
                    WorkerStep, cacheVars, vars
      <3>2. QED
        BY <1>0, <3>1, OnlyItself DEF Requests
    <2>3. worker'[Warm].pc = "idle" \/ thread' = "loading"
      <3>1. CASE Attempt
        BY <3>1 DEF Attempt, LifeInv, cacheVars, vars
      <3>2. CASE Load
        BY <3>2, IdleType DEF Load
      <3>3. CASE Interrupted \/ Ready
        BY <1>0, <3>3, LeavesIdle DEF Interrupted, Ready
      <3>4. CASE Wait
        BY <3>4 DEF Wait, LifeInv, cacheVars, vars
      <3>5. QED
        BY <1>1, <3>1, <3>2, <3>3, <3>4 DEF ThreadStep
    <2>4. QED
      BY <2>1, <2>2, <2>3 DEF LifeInv
  <1>2. ASSUME NEW w \in Requests, Question(w) \/ Answer(w)
        PROVE  LifeInv'
    <2>1. worker'[Warm] = worker[Warm] /\ w \in Workers
      BY <1>0, <1>2, OnlyItself DEF Requests, Question, Answer
    <2>2. stage = "serving" /\ stage' = stage /\ thread' = thread /\ tests' = tests
      BY <1>2, <2>1, BusyWorkersStep DEF Question, Answer, LifeInv, lifespanVars
    <2>3. QED
      BY <2>1, <2>2 DEF LifeInv
  <1>3. CASE Administer \/ Recover \/ Test \/ EndTest
    BY <1>3 DEF Administer, Recover, Test, EndTest, Publish, ChangeCatalog, LifeInv, lifespanVars, cacheVars, vars
  <1>4. CASE StartRegistry
    BY <1>4 DEF StartRegistry, LifeInv, cacheVars, vars
  <1>5. CASE EndOfService
    BY <1>5, IdleType DEF EndOfService, LifeInv, cacheVars, vars
  <1>6. CASE StopWarmup \/ Close
    BY <1>6 DEF StopWarmup, Close, WarmupEnded, LifeInv, cacheVars, vars
  <1>7. CASE UNCHANGED svars
    BY <1>7 DEF svars, vars, LifeInv
  <1>8. QED
    BY <1>1, <1>2, <1>3, <1>4, <1>5, <1>6, <1>7 DEF SNext

\* lifespan closes the HTTP client when neither the warm-up thread nor a request or
\* a test of a connection can be in a model call any more, whatever failed before.
THEOREM ClosedAfterTheLastCall == SSpec => []ClientOutlivesCalls
  <1>1. SInit => LifeInv
    BY WarmAssumption, IdleType DEF SInit, Init, LifeInv, Requests
  <1>2. LifeInv => ClientOutlivesCalls
    BY DEF LifeInv, ClientOutlivesCalls, Requests
  <1>3. QED
    BY <1>1, <1>2, VectorInvAlways, LifeStep, PTL DEF SSpec
===============================================================================
