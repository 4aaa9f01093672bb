-------------------------- MODULE ConfigHistoryProofs --------------------------
(***************************************************************************)
(* Theorems about ConfigHistory for every set of prompts, templates, texts  *)
(* and administrators: what the files hold, that the original text can      *)
(* always be rolled back to, and that requests that follow one another      *)
(* leave the newest version live.                                           *)
(***************************************************************************)
EXTENDS ConfigHistory, SequenceTheorems, TLAPS

-------------------------------------------------------------------------------
(* What the variables hold *)

\* What the text of a file may mean.
Meaning(f) ==
  IF f = "prompts" THEN [Prompts -> Texts]
  ELSE IF f = "registry" THEN [Templates -> BOOLEAN]
  ELSE IF f \in Templates THEN Texts
  ELSE Settings \cup {Original}

\* What may be under a name.  The file of a template is a text whatever is in it.
Content(f) ==
  {Absent} \cup (IF f \in Templates THEN {} ELSE {Truncated, Mixed})
    \cup [state : {"whole"}, value : Meaning(f)]

AnyContent == UNION {Content(f) : f \in Files}

Version == [number : Nat, value : Texts, enabled : BOOLEAN]

Working ==
  [pc : {"open", "write", "replace", "registry", "read", "credentials", "number", "record"},
   op : {"publish", "rollback", "model"}, key : Keys \cup {"none"},
   value : Texts \cup Settings, enabled : BOOLEAN, file : Files, next : AnyContent,
   fd : {"none", "temp", "live", "gone"}, seen : AnyContent,
   phase : {"baseline", "version"} \cup CredentialCases, number : Nat]

\* A request for a prompt or a template: it has read the key's file, and stages
\* that file, or the registry once the template is in place.
KeyWork(work) ==
  /\ work.key \in Keys /\ work.value \in Texts
  /\ work.seen \in Content(FileOf(work.key))
  /\ work.next \in Content(work.file) /\ work.next.state = "whole"
  /\ \/ work.file = FileOf(work.key)
     \/ work.key \in Templates /\ work.file = "registry"
  /\ work.pc = "registry" => work.key \in Templates /\ work.file = work.key
  /\ work.pc = "read" => work.key \in Templates /\ work.file = "registry"
  /\ work.pc # "credentials"
  /\ work.phase = "baseline" =>
       /\ work.pc \in {"number", "record"}
       /\ work.file = FileOf(work.key)
       /\ work.seen.state = "whole"
       /\ work.key \in Templates => Shown[work.seen.value] # Unrendered
  /\ work.phase \in {"baseline", "version"}

\* A request for the endpoints.
ModelWork(work) ==
  /\ work.file \in {"model", "env"}
  /\ work.next \in Content(work.file)
  /\ work.pc \in {"open", "write", "replace", "credentials"}
  /\ work.pc = "credentials" => work.file = "model"
  /\ work.phase \in CredentialCases

\* Every file holds what belongs into it, or nothing that can be read.
TypeOK ==
  /\ live \in [Files -> AnyContent] /\ \A f \in Files : live[f] \in Content(f)
  /\ \A t \in Templates : live[t].state = "whole"
  /\ temp \in [Files -> AnyContent] /\ \A f \in Files : temp[f] \in Content(f)
  /\ history \in [Keys -> Seq(Version)]
  /\ crashes \in Nat
  /\ worker \in [Workers -> Working \cup {Idle}]
  /\ \A w \in Workers : worker[w] # Idle =>
       IF worker[w].op = "model" THEN ModelWork(worker[w]) ELSE KeyWork(worker[w])

\* What the content of a key's file says of the key.
ValueAt(content, k) == IF k \in Prompts THEN content.value[k] ELSE content.value

\* A request at work, typed.
WorkOK(work) ==
  /\ work \in Working
  /\ IF work.op = "model" THEN ModelWork(work) ELSE KeyWork(work)

LEMMA FileNames ==
  /\ \A k \in Keys : FileOf(k) \in Files /\ FileOf(k) \notin {"registry", "model", "env", "none"}
  /\ \A k \in Prompts : FileOf(k) = "prompts"
  /\ \A k \in Templates : FileOf(k) = k /\ k # "prompts" /\ k \in Files /\ k \notin Prompts
  BY KeysAssumption DEF FileOf, Files, Keys

LEMMA Unreadable ==
  ASSUME NEW f
  PROVE  /\ Absent \in Content(f)
         /\ Absent.state # "whole" /\ Truncated.state # "whole" /\ Mixed.state # "whole"
  BY DEF Content, Absent, Truncated, Mixed

LEMMA HoldingContent ==
  ASSUME NEW f, NEW value \in Meaning(f)
  PROVE  /\ Holding(value) \in Content(f)
         /\ Holding(value).state = "whole" /\ Holding(value).value = value
  BY DEF Content, Holding

\* What is left of a file that is opened, or that two requests write to.
LEMMA Damaged ==
  ASSUME NEW f \in Files
  PROVE  /\ Emptied(f) \in Content(f) /\ MixedIn(f) \in Content(f)
         /\ f \in Templates => Emptied(f).state = "whole" /\ MixedIn(f).state = "whole"
  <1>1. CASE f \in Templates
    <2>1. Blank \in Meaning(f) /\ Garbled \in Meaning(f)
      BY <1>1, KeysAssumption, TextsAssumption DEF Meaning
    <2>2. QED
      BY <1>1, <2>1, HoldingContent DEF Emptied, MixedIn
  <1>2. CASE f \notin Templates
    BY <1>2 DEF Emptied, MixedIn, Content
  <1>3. QED
    BY <1>1, <1>2

LEMMA WholeContent ==
  ASSUME NEW f, NEW content \in Content(f), content.state = "whole"
  PROVE  content.value \in Meaning(f)
  BY Unreadable DEF Content

LEMMA AnyOfContent ==
  ASSUME NEW f \in Files, NEW content \in Content(f)
  PROVE  content \in AnyContent
  BY DEF AnyContent

LEMMA Meanings ==
  /\ Meaning("prompts") = [Prompts -> Texts]
  /\ Meaning("registry") = [Templates -> BOOLEAN]
  /\ \A t \in Templates : Meaning(t) = Texts
  /\ \A f \in {"model", "env"} : Meaning(f) = Settings \cup {Original}
  BY KeysAssumption DEF Meaning

\* What a key's file says of the key is a text.
LEMMA ValueIsText ==
  ASSUME NEW k \in Keys, NEW content \in Content(FileOf(k)), content.state = "whole"
  PROVE  ValueAt(content, k) \in Texts
  <1>1. content.value \in Meaning(FileOf(k))
    BY WholeContent
  <1>2. CASE k \in Prompts
    BY <1>1, <1>2, FileNames, Meanings DEF ValueAt
  <1>3. CASE k \in Templates
    BY <1>1, <1>3, FileNames, Meanings DEF ValueAt
  <1>4. QED
    BY <1>2, <1>3 DEF Keys

\* Editing a readable file of a key gives a readable file.
LEMMA EditedContent ==
  ASSUME NEW k \in Keys, NEW content \in Content(FileOf(k)), content.state = "whole",
         NEW value \in Texts
  PROVE  /\ Edited(FileOf(k), content, k, value) \in Content(FileOf(k))
         /\ Edited(FileOf(k), content, k, value).state = "whole"
         /\ ValueAt(Edited(FileOf(k), content, k, value), k) = value
         /\ \A j \in Keys \ {k} : FileOf(j) = FileOf(k) =>
              ValueAt(Edited(FileOf(k), content, k, value), j) = ValueAt(content, j)
  <1>1. content.value \in Meaning(FileOf(k))
    BY WholeContent
  <1>2. CASE k \in Prompts
    <2>1. FileOf(k) = "prompts" /\ content.value \in [Prompts -> Texts]
      BY <1>1, <1>2, FileNames, Meanings
    <2> DEFINE new == [content.value EXCEPT ![k] = value]
    <2>2. /\ new \in [Prompts -> Texts] /\ new[k] = value
          /\ \A j \in Prompts \ {k} : new[j] = content.value[j]
      BY <1>2, <2>1
    <2>3. Edited(FileOf(k), content, k, value) = Holding(new)
      BY <2>1 DEF Edited
    <2> HIDE DEF new
    <2>4. /\ Holding(new) \in Content("prompts") /\ Holding(new).state = "whole"
          /\ Holding(new).value = new
      BY <2>2, HoldingContent, Meanings
    <2>5. \A j \in Keys : FileOf(j) = "prompts" => j \in Prompts
      BY FileNames DEF Keys
    <2>6. QED
      BY <1>2, <2>1, <2>2, <2>3, <2>4, <2>5 DEF ValueAt
  <1>3. CASE k \in Templates
    <2>1. FileOf(k) = k /\ k # "prompts" /\ k \notin Prompts
      BY <1>3, FileNames
    <2>2. Edited(FileOf(k), content, k, value) = Holding(value)
      BY <2>1 DEF Edited
    <2>3. /\ Holding(value) \in Content(k) /\ Holding(value).state = "whole"
          /\ Holding(value).value = value
      BY <1>3, HoldingContent, Meanings
    <2>4. \A j \in Keys : FileOf(j) = k => j = k
      BY <2>1, FileNames DEF Keys
    <2>5. QED
      BY <2>1, <2>2, <2>3, <2>4 DEF ValueAt
  <1>4. QED
    BY <1>2, <1>3 DEF Keys

\* A request that is not idle is typed, and one that moves stays so.
LEMMA AtWork ==
  ASSUME TypeOK, NEW w \in Workers, worker[w] # Idle
  PROVE  WorkOK(worker[w])
  BY DEF TypeOK, WorkOK

LEMMA Busy ==
  ASSUME NEW w \in Workers, worker[w].pc # "idle"
  PROVE  worker[w] # Idle
  BY DEF Idle

LEMMA MoveType ==
  ASSUME TypeOK, NEW w \in Workers, NEW work, WorkOK(work), Move(w, work)
  PROVE  /\ worker' \in [Workers -> Working \cup {Idle}]
         /\ \A v \in Workers : worker'[v] # Idle =>
              IF worker'[v].op = "model" THEN ModelWork(worker'[v]) ELSE KeyWork(worker'[v])
  BY DEF TypeOK, WorkOK, Move

LEMMA FinishType ==
  ASSUME TypeOK, NEW w \in Workers, Finish(w)
  PROVE  /\ worker' \in [Workers -> Working \cup {Idle}]
         /\ \A v \in Workers : worker'[v] # Idle =>
              IF worker'[v].op = "model" THEN ModelWork(worker'[v]) ELSE KeyWork(worker'[v])
  BY DEF TypeOK, Finish, Move

LEMMA TypeInit == Init => TypeOK
  <1> SUFFICES ASSUME Init
               PROVE  TypeOK
    OBVIOUS
  <1>1. ASSUME NEW f \in Files
        PROVE  live[f] \in Content(f) /\ temp[f] \in Content(f)
    <2>1. InitialContent(f) \in Meaning(f)
      BY <1>1, TextsAssumption DEF InitialContent, Meaning, Files
    <2>2. QED
      BY <2>1, HoldingContent, Unreadable DEF Init
  <1>2. live \in [Files -> AnyContent] /\ temp \in [Files -> AnyContent]
    BY <1>1, AnyOfContent DEF Init
  <1>3. \A t \in Templates : live[t].state = "whole"
    BY DEF Init, Holding, Files
  <1>4. QED
    BY <1>1, <1>2, <1>3 DEF Init, TypeOK

\* What a request that publishes has in hand when it has read the key's file.
Published(k, v, e) ==
  [Idle EXCEPT
     !.op = "publish", !.key = k, !.value = v, !.enabled = e, !.file = FileOf(k),
     !.seen = live[FileOf(k)],
     !.next = Edited(FileOf(k), live[FileOf(k)], k, v),
     !.pc = IF NeedsBaseline(k) THEN "number" ELSE "open",
     !.phase = IF NeedsBaseline(k) THEN "baseline" ELSE "version"]

LEMMA PublishWork ==
  ASSUME TypeOK, NEW w \in Workers, NEW k \in Keys, NEW v \in Values, NEW e \in BOOLEAN,
         Publish(w, k, v, e)
  PROVE  LET file == FileOf(k)
             work == Published(k, v, e)
         IN /\ WorkOK(work) /\ work.op = "publish" /\ work.key = k /\ work.file = file
            /\ work.value = v /\ work.enabled = e /\ work.seen = live[file]
            /\ work.next = Edited(file, live[file], k, v)
            /\ work.pc = IF NeedsBaseline(k) THEN "number" ELSE "open"
            /\ work.phase = IF NeedsBaseline(k) THEN "baseline" ELSE "version"
            /\ Begin(w, work)
            /\ live[file] \in Content(file) /\ live[file].state = "whole"
  <1> DEFINE file == FileOf(k)
             next == Edited(file, live[file], k, v)
             work == Published(k, v, e)
  <1>1. /\ file \in Files /\ live[file] \in Content(file) /\ live[file].state = "whole"
        /\ k \in Templates => Shown[live[file].value] # Unrendered
    BY FileNames DEF TypeOK, Publish, Readable, Listable, ListableIn, Keys
  <1>2. next \in Content(file) /\ next.state = "whole" /\ v \in Texts
    BY <1>1, EditedContent, TextsAssumption
  <1>3. next \in AnyContent /\ live[file] \in AnyContent
    BY <1>1, <1>2, AnyOfContent
  <1>4. Begin(w, work)
    BY DEF Publish, Published
  <1> HIDE DEF file, next
  <1>5. work \in Working
    BY <1>1, <1>2, <1>3 DEF Working, Idle, Published, file, next
  <1>6. /\ work.op = "publish" /\ work.key = k /\ work.file = file
        /\ work.value = v /\ work.enabled = e /\ work.seen = live[file] /\ work.next = next
        /\ work.pc = IF NeedsBaseline(k) THEN "number" ELSE "open"
        /\ work.phase = IF NeedsBaseline(k) THEN "baseline" ELSE "version"
    BY DEF Idle, Published, file, next
  <1> HIDE DEF work
  <1>7. KeyWork(work)
    BY <1>1, <1>2, <1>6 DEF KeyWork, file
  <1>8. WorkOK(work)
    BY <1>5, <1>6, <1>7 DEF WorkOK
  <1>9. QED
    BY <1>1, <1>4, <1>6, <1>8 DEF file, next, work

\* So for a request that rolls back to a version.
RolledBack(k, version) ==
  [Idle EXCEPT
     !.op = "rollback", !.key = k, !.value = version.value,
     !.enabled = version.enabled, !.file = FileOf(k), !.seen = live[FileOf(k)],
     !.next = Edited(FileOf(k), live[FileOf(k)], k, version.value),
     !.pc = "open", !.phase = "version"]

LEMMA RollBackWork ==
  ASSUME TypeOK, NEW w \in Workers, NEW k \in Keys, NEW i \in DOMAIN history[k],
         RollBack(w, k, i)
  PROVE  LET file == FileOf(k)
             version == history[k][i]
             work == RolledBack(k, version)
         IN /\ WorkOK(work) /\ work.op = "rollback" /\ work.key = k /\ work.file = file
            /\ work.value = version.value /\ work.enabled = version.enabled
            /\ work.next = Edited(file, live[file], k, version.value)
            /\ work.pc = "open" /\ work.phase = "version"
            /\ Begin(w, work)
            /\ live[file] \in Content(file) /\ live[file].state = "whole"
            /\ version \in Version
  <1> DEFINE file == FileOf(k)
             version == history[k][i]
             next == Edited(file, live[file], k, version.value)
             work == RolledBack(k, version)
  <1>1. file \in Files /\ live[file] \in Content(file) /\ live[file].state = "whole"
    BY FileNames DEF TypeOK, RollBack, Readable, Keys
  <1>2. history[k] \in Seq(Version)
    BY DEF TypeOK
  <1>3. version \in Version
    BY <1>2, ElementOfSeq
  <1>4. version.value \in Texts /\ version.enabled \in BOOLEAN
    BY <1>3 DEF Version
  <1>5. next \in Content(file) /\ next.state = "whole"
    BY <1>1, <1>4, EditedContent
  <1>6. next \in AnyContent /\ live[file] \in AnyContent
    BY <1>1, <1>5, AnyOfContent
  <1>7. Begin(w, work)
    BY DEF RollBack, RolledBack
  <1> HIDE DEF file, next, version
  <1>8. work \in Working
    BY <1>1, <1>4, <1>6 DEF Working, Idle, RolledBack, file, next
  <1>9. /\ work.op = "rollback" /\ work.key = k /\ work.file = file
        /\ work.value = version.value /\ work.enabled = version.enabled
        /\ work.seen = live[file] /\ work.next = next
        /\ work.pc = "open" /\ work.phase = "version"
    BY DEF Idle, RolledBack, file, next
  <1> HIDE DEF work
  <1>10. KeyWork(work)
    BY <1>1, <1>4, <1>5, <1>9 DEF KeyWork, file
  <1>11. WorkOK(work)
    BY <1>8, <1>9, <1>10 DEF WorkOK
  <1>12. QED
    BY <1>1, <1>3, <1>7, <1>9, <1>11 DEF file, next, version, work

LEMMA UpdateWork ==
  ASSUME TypeOK, NEW w \in Workers, NEW v \in Settings, NEW c \in CredentialCases,
         UpdateModel(w, v, c)
  PROVE  LET work == [Idle EXCEPT !.op = "model", !.value = v, !.file = "model",
                           !.seen = live["model"], !.next = Holding(v), !.pc = "open",
                           !.phase = c]
         IN WorkOK(work) /\ work.op = "model" /\ Begin(w, work)
  <1> DEFINE next == Holding(v)
             seen == live["model"]
             work == [Idle EXCEPT !.op = "model", !.value = v, !.file = "model",
                           !.seen = seen, !.next = next, !.pc = "open", !.phase = c]
  <1>1. "model" \in Files
    BY DEF Files
  <1>2. next \in Content("model") /\ seen \in Content("model")
    BY <1>1, HoldingContent, Meanings DEF TypeOK
  <1>3. next \in AnyContent /\ seen \in AnyContent
    BY <1>1, <1>2, AnyOfContent
  <1>4. Begin(w, work)
    BY DEF UpdateModel
  <1> HIDE DEF next, seen
  <1>5. work \in Working
    BY <1>1, <1>3 DEF Working, Idle
  <1>6. ModelWork(work) /\ work.op = "model"
    BY <1>2 DEF ModelWork, Idle
  <1>7. WorkOK(work)
    BY <1>5, <1>6 DEF WorkOK
  <1>8. QED
    BY <1>4, <1>6, <1>7 DEF next, seen

\* A request that only goes on, with what it holds.
LEMMA GoesOnType ==
  ASSUME NEW work, WorkOK(work), NEW pc \in {"open", "write", "replace", "number", "record"},
         work.phase = "baseline" => pc \in {"number", "record"},
         work.op = "model" => pc \in {"open", "write", "replace"},
         NEW fd \in {"none", "temp", "live", "gone"}, NEW number \in Nat
  PROVE  WorkOK([work EXCEPT !.pc = pc, !.fd = fd, !.number = number])
  <1> DEFINE new == [work EXCEPT !.pc = pc, !.fd = fd, !.number = number]
  <1>1. work \in Working
    BY DEF WorkOK
  <1>2. new \in Working
    BY <1>1 DEF Working
  <1>3. /\ new.pc = pc /\ new.op = work.op /\ new.key = work.key /\ new.value = work.value
        /\ new.file = work.file /\ new.next = work.next /\ new.seen = work.seen
        /\ new.phase = work.phase
    BY <1>1 DEF Working
  <1> HIDE DEF new
  <1>4. WorkOK(new)
    <2>1. CASE work.op = "model"
      BY <1>2, <1>3, <2>1 DEF WorkOK, ModelWork
    <2>2. CASE work.op # "model"
      BY <1>2, <1>3, <2>2 DEF WorkOK, KeyWork
    <2>3. QED
      BY <2>1, <2>2
  <1>5. QED
    BY <1>4 DEF new

\* What a request stages belongs into its file.
LEMMA NextContent ==
  ASSUME NEW work, WorkOK(work)
  PROVE  work.file \in Files /\ work.next \in Content(work.file)
  BY DEF WorkOK, Working, ModelWork, KeyWork

\* A request whose text is in place goes on as AfterReplace says.
LEMMA ReplacedType ==
  ASSUME NEW w \in Workers, WorkOK(worker[w]), worker[w].pc = "replace"
  PROVE  AfterReplace(w) = Idle \/ WorkOK(AfterReplace(w))
  <1> DEFINE work == worker[w]
  <1>1. work \in Working
    BY DEF WorkOK
  <1>2. work.phase # "baseline"
    BY DEF WorkOK, KeyWork, ModelWork, CredentialCases
  <1>3. CASE work.file = "prompts"
    <2> DEFINE new == [work EXCEPT !.pc = "number"]
    <2>1. work.op # "model"
      BY <1>3 DEF WorkOK, ModelWork
    <2>2. new \in Working
      BY <1>1 DEF Working
    <2>3. /\ new.pc = "number" /\ new.op = work.op /\ new.key = work.key
          /\ new.value = work.value /\ new.file = work.file /\ new.next = work.next
          /\ new.seen = work.seen /\ new.phase = work.phase
      BY <1>1 DEF Working
    <2> HIDE DEF new
    <2>4. WorkOK(new)
      BY <1>2, <2>1, <2>2, <2>3 DEF WorkOK, KeyWork
    <2>5. QED
      BY <1>3, <2>4 DEF AfterReplace, new
  <1>4. CASE work.file = "registry"
    <2> DEFINE new == [work EXCEPT !.pc = "read"]
    <2>1. work.op # "model"
      BY <1>4 DEF WorkOK, ModelWork
    <2>2. KeyWork(work)
      BY <2>1 DEF WorkOK
    <2>3. work.key \in Templates
      BY <1>4, <2>2, FileNames DEF KeyWork
    <2>4. new \in Working
      BY <1>1 DEF Working
    <2>5. /\ new.pc = "read" /\ new.op = work.op /\ new.key = work.key
          /\ new.value = work.value /\ new.file = work.file /\ new.next = work.next
          /\ new.seen = work.seen /\ new.phase = work.phase
      BY <1>1 DEF Working
    <2> HIDE DEF new
    <2>6. WorkOK(new)
      BY <1>2, <1>4, <2>1, <2>2, <2>3, <2>4, <2>5 DEF WorkOK, KeyWork
    <2>7. AfterReplace(w) = new
      BY <1>4 DEF AfterReplace, new
    <2>8. QED
      BY <2>6, <2>7
  <1>5. CASE work.file = "model"
    <2> DEFINE new == [work EXCEPT !.pc = "credentials"]
    <2>1. work.op = "model"
      BY <1>5, FileNames DEF WorkOK, KeyWork
    <2>2. new \in Working
      BY <1>1 DEF Working
    <2>3. /\ new.pc = "credentials" /\ new.op = work.op /\ new.file = work.file
          /\ new.next = work.next /\ new.phase = work.phase
      BY <1>1 DEF Working
    <2> HIDE DEF new
    <2>4. WorkOK(new)
      BY <1>5, <2>1, <2>2, <2>3 DEF WorkOK, ModelWork
    <2>5. AfterReplace(w) = new
      BY <1>5 DEF AfterReplace, new
    <2>6. QED
      BY <2>4, <2>5
  <1>6. CASE work.file = "env"
    BY <1>6 DEF AfterReplace
  <1>7. CASE work.file \in Templates
    <2> DEFINE new == [work EXCEPT !.pc = "registry"]
    <2>1. work.file \notin {"prompts", "registry", "model", "env"}
      BY <1>7, KeysAssumption
    <2>2. KeyWork(work) /\ work.op # "model"
      BY <2>1 DEF WorkOK, ModelWork
    <2>3. work.key \in Templates /\ work.file = work.key
      BY <2>1, <2>2, FileNames DEF KeyWork, Keys
    <2>4. new \in Working
      BY <1>1 DEF Working
    <2>5. /\ new.pc = "registry" /\ new.op = work.op /\ new.key = work.key
          /\ new.value = work.value /\ new.file = work.file /\ new.next = work.next
          /\ new.seen = work.seen /\ new.phase = work.phase
      BY <1>1 DEF Working
    <2> HIDE DEF new
    <2>6. WorkOK(new)
      BY <1>2, <2>2, <2>3, <2>4, <2>5 DEF WorkOK, KeyWork
    <2>7. AfterReplace(w) = new
      BY <2>1 DEF AfterReplace, new
    <2>8. QED
      BY <2>6, <2>7
  <1>8. QED
    BY <1>1, <1>3, <1>4, <1>5, <1>6, <1>7 DEF Working, Files

\* The requests that have the file open only learn its new name.
LEMMA RenamedType ==
  ASSUME NEW work, WorkOK(work)
  PROVE  WorkOK([work EXCEPT !.fd = Renamed(@)])
  <1> DEFINE new == [work EXCEPT !.fd = Renamed(@)]
  <1>1. work \in Working
    BY DEF WorkOK
  <1>2. Renamed(work.fd) \in {"none", "temp", "live", "gone"}
    BY <1>1 DEF Renamed, Working
  <1>3. new \in Working
    BY <1>1, <1>2 DEF Working
  <1>4. /\ new.pc = work.pc /\ new.op = work.op /\ new.key = work.key
        /\ new.value = work.value /\ new.file = work.file /\ new.next = work.next
        /\ new.seen = work.seen /\ new.phase = work.phase
    BY <1>1 DEF Working
  <1> HIDE DEF new
  <1>5. WorkOK(new)
    BY <1>3, <1>4 DEF WorkOK, ModelWork, KeyWork
  <1>6. QED
    BY <1>5 DEF new

\* What the registry is to become.
LEMMA RegistryContent ==
  ASSUME NEW content \in Content("registry"), content.state = "whole",
         NEW t \in Templates, NEW enabled \in BOOLEAN
  PROVE  LET new == [content.value EXCEPT ![t] = enabled] IN
         /\ Holding(new) \in Content("registry") /\ Holding(new).state = "whole"
         /\ Holding(new).value = new
         /\ new[t] = enabled /\ \A u \in Templates \ {t} : new[u] = content.value[u]
  <1> DEFINE new == [content.value EXCEPT ![t] = enabled]
  <1>1. content.value \in [Templates -> BOOLEAN]
    BY WholeContent, Meanings
  <1>2. /\ new \in [Templates -> BOOLEAN] /\ new[t] = enabled
        /\ \A u \in Templates \ {t} : new[u] = content.value[u]
    BY <1>1
  <1> HIDE DEF new
  <1>3. /\ Holding(new) \in Content("registry") /\ Holding(new).state = "whole"
        /\ Holding(new).value = new
    BY <1>2, HoldingContent, Meanings
  <1>4. QED
    BY <1>2, <1>3 DEF new

LEMMA FileType ==
  ASSUME NEW table \in [Files -> AnyContent], \A g \in Files : table[g] \in Content(g),
         NEW f \in Files, NEW content \in Content(f)
  PROVE  /\ [table EXCEPT ![f] = content] \in [Files -> AnyContent]
         /\ \A g \in Files : [table EXCEPT ![f] = content][g] \in Content(g)
  BY AnyOfContent

\* No request that stages or writes a file is still at the baseline.
LEMMA StagesVersion ==
  ASSUME NEW work, WorkOK(work), work.pc \notin {"number", "record"}
  PROVE  work.phase # "baseline"
  BY DEF WorkOK, KeyWork, ModelWork, CredentialCases

\* The three steps of writing a file.
LEMMA OpenType ==
  ASSUME TypeOK, NEW w \in Workers, Open(w)
  PROVE  TypeOK'
  <1> DEFINE work == worker[w]
             new == [work EXCEPT !.pc = "write", !.fd = "temp"]
  <1>1. WorkOK(work) /\ work.pc = "open"
    BY AtWork, Busy DEF Open
  <1>2. work.phase # "baseline" /\ work \in Working /\ work.number \in Nat
    BY <1>1, StagesVersion DEF WorkOK, Working
  <1>3. new = [work EXCEPT !.pc = "write", !.fd = "temp", !.number = work.number]
    BY <1>2 DEF Working
  <1>4. WorkOK(new)
    BY <1>1, <1>2, <1>3, GoesOnType
  <1>5. work.file \in Files /\ Emptied(work.file) \in Content(work.file)
    BY <1>1, NextContent, Damaged
  <1> HIDE DEF new
  <1>6. Move(w, new) /\ temp' = [temp EXCEPT ![work.file] = Emptied(work.file)]
    BY DEF Open, new
  <1>7. temp' \in [Files -> AnyContent] /\ \A f \in Files : temp'[f] \in Content(f)
    BY <1>5, <1>6, FileType DEF TypeOK
  <1>8. QED
    BY <1>4, <1>6, <1>7, MoveType DEF Open, TypeOK

LEMMA WriteType ==
  ASSUME TypeOK, NEW w \in Workers, Write(w)
  PROVE  TypeOK'
  <1> DEFINE work == worker[w]
             f == work.file
             new == [work EXCEPT !.pc = "replace", !.fd = "none"]
  <1>1. WorkOK(work) /\ work.pc = "write"
    BY AtWork, Busy DEF Write
  <1>2. work.phase # "baseline" /\ work \in Working /\ work.number \in Nat
    BY <1>1, StagesVersion DEF WorkOK, Working
  <1>3. new = [work EXCEPT !.pc = "replace", !.fd = "none", !.number = work.number]
    BY <1>2 DEF Working
  <1>4. WorkOK(new)
    BY <1>1, <1>2, <1>3, GoesOnType
  <1>5. f \in Files /\ \A old : \A content \in Overwritten(f, old, work.next) :
          content \in Content(f) /\ (f \in Templates => content.state = "whole")
    <2>1. f \in Files /\ work.next \in Content(f)
      BY <1>1, NextContent
    <2>2. f \in Templates => work.next.state = "whole"
      BY <1>1, KeysAssumption DEF WorkOK, ModelWork, KeyWork
    <2>3. QED
      BY <2>1, <2>2, Damaged DEF Overwritten
  <1> HIDE DEF new
  <1>6. Move(w, new)
    BY DEF Write, new
  <1>7. /\ temp' \in [Files -> AnyContent] /\ \A g \in Files : temp'[g] \in Content(g)
        /\ live' \in [Files -> AnyContent] /\ \A g \in Files : live'[g] \in Content(g)
        /\ \A t \in Templates : live'[t].state = "whole"
    <2>1. CASE work.fd = "temp"
      <3>1. PICK content \in Overwritten(f, temp[f], work.next) :
              temp' = [temp EXCEPT ![f] = content] /\ live' = live
        BY <2>1 DEF Write
      <3>2. QED
        BY <1>5, <3>1, FileType DEF TypeOK
    <2>2. CASE work.fd = "live"
      <3>1. PICK content \in Overwritten(f, live[f], work.next) :
              live' = [live EXCEPT ![f] = content] /\ temp' = temp
        BY <2>2 DEF Write
      <3>2. QED
        <4>1. \A t \in Templates : t \in Files
          BY DEF Files
        <4>2. \A t \in Templates : live'[t].state = "whole"
          BY <1>5, <3>1, <4>1 DEF TypeOK
        <4>3. QED
          BY <1>5, <3>1, <4>2, FileType DEF TypeOK
    <2>3. CASE work.fd = "gone"
      BY <2>3 DEF Write, TypeOK
    <2>4. QED
      BY <2>1, <2>2, <2>3 DEF Write
  <1>8. QED
    BY <1>4, <1>6, <1>7, MoveType DEF Write, TypeOK

LEMMA ReplaceType ==
  ASSUME TypeOK, NEW w \in Workers, Replace(w)
  PROVE  TypeOK'
  <1> DEFINE f == worker[w].file
  <1>1. WorkOK(worker[w]) /\ worker[w].pc = "replace"
    BY AtWork, Busy DEF Replace
  <1>2. f \in Files /\ temp[f] \in Content(f) /\ Absent \in Content(f)
    BY <1>1, NextContent, Unreadable DEF TypeOK
  <1>3. /\ temp' \in [Files -> AnyContent] /\ \A g \in Files : temp'[g] \in Content(g)
        /\ live' \in [Files -> AnyContent] /\ \A g \in Files : live'[g] \in Content(g)
    BY <1>2, FileType DEF Replace, TypeOK
  <1>4. \A t \in Templates : live'[t].state = "whole"
    <2>1. f \in Templates => temp[f].state = "whole"
      BY <1>2 DEF Replace, Content
    <2>2. \A t \in Templates : t \in Files
      BY DEF Files
    <2>3. QED
      BY <1>2, <2>1, <2>2 DEF Replace, TypeOK
  <1>5. AfterReplace(w) = Idle \/ WorkOK(AfterReplace(w))
    BY <1>1, ReplacedType
  <1>6. ASSUME NEW v \in Workers
        PROVE  worker'[v] = Idle \/ WorkOK(worker'[v])
    <2>1. CASE v = w
      BY <1>5, <2>1 DEF Replace
    <2>2. CASE v # w /\ worker[v].file = f
      <3>1. worker[v] # Idle
        BY <1>2, <2>2, KeysAssumption DEF Idle, Files
      <3>2. WorkOK(worker[v])
        BY <3>1, AtWork
      <3>3. worker'[v] = [worker[v] EXCEPT !.fd = Renamed(@)]
        BY <2>2 DEF Replace
      <3>4. QED
        BY <3>2, <3>3, RenamedType
    <2>3. CASE v # w /\ worker[v].file # f
      <3>1. worker'[v] = worker[v]
        BY <2>3 DEF Replace
      <3>2. QED
        BY <3>1, AtWork
    <2>4. QED
      BY <2>1, <2>2, <2>3
  <1>7. worker' = [v \in Workers |-> worker'[v]]
    BY DEF Replace
  <1>8. worker' \in [Workers -> Working \cup {Idle}]
    BY <1>6, <1>7 DEF WorkOK
  <1>9. QED
    BY <1>3, <1>6, <1>8, <1>4 DEF Replace, TypeOK, WorkOK

LEMMA LoadRegistryType ==
  ASSUME TypeOK, NEW w \in Workers, LoadRegistry(w)
  PROVE  TypeOK'
  <1> DEFINE work == worker[w]
             next == Holding([live["registry"].value EXCEPT ![work.key] = work.enabled])
             new == [work EXCEPT !.pc = "open", !.file = "registry", !.next = next]
  <1>1. WorkOK(work) /\ work.pc = "registry"
    BY AtWork, Busy DEF LoadRegistry
  <1>2. work.phase # "baseline" /\ work \in Working /\ work.op # "model" /\ KeyWork(work)
    BY <1>1, StagesVersion DEF WorkOK, ModelWork
  <1>3. CASE Readable("registry") /\ Move(w, new)
    <2>1. "registry" \in Files /\ live["registry"] \in Content("registry")
      BY DEF Files, TypeOK
    <2>2. next \in Content("registry") /\ next.state = "whole"
      BY <1>1, <1>2, <1>3, <2>1, RegistryContent DEF Readable, KeyWork, Working
    <2>3. next \in AnyContent
      BY <2>1, <2>2, AnyOfContent
    <2> HIDE DEF next
    <2>4. new \in Working
      BY <1>2, <2>1, <2>3 DEF Working
    <2>5. /\ new.pc = "open" /\ new.op = work.op /\ new.key = work.key
          /\ new.value = work.value /\ new.file = "registry" /\ new.next = next
          /\ new.seen = work.seen /\ new.phase = work.phase
      BY <1>2 DEF Working
    <2> HIDE DEF new
    <2>6. WorkOK(new)
      BY <1>1, <1>2, <2>2, <2>4, <2>5 DEF WorkOK, KeyWork
    <2>7. QED
      BY <1>3, <2>6, MoveType DEF LoadRegistry, TypeOK
  <1>4. CASE Finish(w)
    BY <1>4, FinishType DEF LoadRegistry, TypeOK
  <1>5. QED
    BY <1>3, <1>4 DEF LoadRegistry

LEMMA ReadBackType ==
  ASSUME TypeOK, NEW w \in Workers, ReadBack(w)
  PROVE  TypeOK'
  <1> DEFINE work == worker[w]
             key == work.key
             value == Shown[live[key].value]
             enabled == live["registry"].value[key]
             new == [work EXCEPT !.pc = "number", !.value = value, !.enabled = enabled]
  <1>1. WorkOK(work) /\ work.pc = "read"
    BY AtWork, Busy DEF ReadBack
  <1>2. work.phase # "baseline" /\ work \in Working /\ work.op # "model" /\ KeyWork(work)
    BY <1>1, StagesVersion DEF WorkOK, ModelWork
  <1>3. CASE Listable /\ Move(w, new)
    <2>1. key \in Templates /\ key \in Files /\ "registry" \in Files
      BY <1>1, <1>2 DEF KeyWork, Files
    <2>2. value \in Texts
      <3>1. live[key].value \in Texts
        BY <2>1, WholeContent, Meanings DEF TypeOK
      <3>2. value # Unrendered
        BY <1>3, <2>1 DEF Listable, ListableIn
      <3>3. QED
        BY <3>1, <3>2, TextsAssumption
    <2>3. live["registry"].value \in [Templates -> BOOLEAN]
      BY <1>3, <2>1, WholeContent, Meanings DEF TypeOK, Listable, ListableIn
    <2>4. enabled \in BOOLEAN
      BY <2>1, <2>3
    <2> HIDE DEF value, enabled
    <2>5. new \in Working
      BY <1>2, <2>2, <2>4 DEF Working
    <2>6. /\ new.pc = "number" /\ new.op = work.op /\ new.key = work.key
          /\ new.value = value /\ new.file = work.file /\ new.next = work.next
          /\ new.seen = work.seen /\ new.phase = work.phase
      BY <1>2 DEF Working
    <2> HIDE DEF new
    <2>7. WorkOK(new)
      BY <1>1, <1>2, <2>2, <2>5, <2>6 DEF WorkOK, KeyWork
    <2>8. QED
      BY <1>3, <2>7, MoveType DEF ReadBack, TypeOK
  <1>4. CASE Finish(w)
    BY <1>4, FinishType DEF ReadBack, TypeOK
  <1>5. QED
    BY <1>3, <1>4 DEF ReadBack

LEMMA StoreCredentialsType ==
  ASSUME TypeOK, NEW w \in Workers, StoreCredentials(w)
  PROVE  TypeOK'
  <1> DEFINE work == worker[w]
             new == [work EXCEPT !.pc = "open", !.file = "env"]
  <1>1. WorkOK(work) /\ work.pc = "credentials"
    BY AtWork, Busy DEF StoreCredentials
  <1>2. work \in Working /\ work.op = "model" /\ ModelWork(work)
    BY <1>1 DEF WorkOK, KeyWork
  <1>3. work.next \in Content("env")
    BY <1>1, <1>2, Meanings, KeysAssumption DEF ModelWork, Content
  <1>4. new \in Working
    BY <1>2 DEF Working, Files
  <1>5. /\ new.pc = "open" /\ new.op = work.op /\ new.file = "env" /\ new.next = work.next
        /\ new.phase = work.phase
    BY <1>2 DEF Working
  <1> HIDE DEF new
  <1>6. WorkOK(new)
    BY <1>2, <1>3, <1>4, <1>5 DEF WorkOK, ModelWork
  <1>7. Move(w, new)
    BY DEF StoreCredentials, new
  <1>8. QED
    BY <1>6, <1>7, MoveType DEF StoreCredentials, TypeOK

LEMMA NumberType ==
  ASSUME TypeOK, NEW w \in Workers, Number(w)
  PROVE  TypeOK'
  <1> DEFINE work == worker[w]
             number == NextNumber(work.key)
             new == [work EXCEPT !.pc = "record", !.number = number]
  <1>1. WorkOK(work) /\ work.pc = "number"
    BY AtWork, Busy DEF Number
  <1>2. work \in Working /\ work.op # "model" /\ KeyWork(work)
    BY <1>1 DEF WorkOK, ModelWork
  <1>3. history[work.key] \in Seq(Version)
    BY <1>2 DEF KeyWork, TypeOK
  <1>4. number \in Nat
    BY <1>3, LenProperties DEF NextNumber
  <1> HIDE DEF number
  <1>5. new = [work EXCEPT !.pc = "record", !.fd = work.fd, !.number = number]
    BY <1>2 DEF Working
  <1>6. work.fd \in {"none", "temp", "live", "gone"}
    BY <1>2 DEF Working
  <1>7. WorkOK(new)
    BY <1>1, <1>2, <1>4, <1>5, <1>6, GoesOnType
  <1> HIDE DEF new
  <1>8. Move(w, new)
    BY DEF Number, new, number
  <1>9. QED
    BY <1>7, <1>8, MoveType DEF Number, TypeOK

\* What Record writes to the history of the request's key.
Written(work) ==
  [number |-> work.number,
   value |-> IF work.phase = "baseline" THEN AsRecorded(work.key, ValueAt(work.seen, work.key))
             ELSE work.value,
   enabled |-> IF work.phase = "baseline" THEN TRUE ELSE work.enabled]

LEMMA RecordWrites ==
  ASSUME TypeOK, NEW w \in Workers, Record(w)
  PROVE  LET work == worker[w] IN
         /\ WorkOK(work) /\ work.op # "model" /\ KeyWork(work) /\ work.pc = "record"
         /\ work.key \in Keys /\ history[work.key] \in Seq(Version)
         /\ Written(work) \in Version
         /\ history' = [history EXCEPT ![work.key] = Append(history[work.key], Written(work))]
  <1> DEFINE work == worker[w]
  <1>1. WorkOK(work) /\ work.pc = "record"
    BY AtWork, Busy DEF Record
  <1>2. work \in Working /\ work.op # "model" /\ KeyWork(work)
    BY <1>1 DEF WorkOK, ModelWork
  <1>3. work.key \in Keys /\ history[work.key] \in Seq(Version)
    BY <1>2 DEF KeyWork, TypeOK
  <1>4. history' = [history EXCEPT ![work.key] = Append(history[work.key], Written(work))]
    BY DEF Record, Baseline, Written, ValueAt, AsRecorded
  <1> DEFINE text == AsRecorded(work.key, ValueAt(work.seen, work.key))
  <1>5. work.phase = "baseline" => text \in Texts
    <2> SUFFICES ASSUME work.phase = "baseline"
                 PROVE  text \in Texts
      OBVIOUS
    <2>1. ValueAt(work.seen, work.key) \in Texts
      BY <1>2, <1>3, ValueIsText DEF KeyWork
    <2>2. work.key \notin Prompts => Shown[ValueAt(work.seen, work.key)] # Unrendered
      BY <1>2, <1>3 DEF KeyWork, Keys, ValueAt
    <2>3. QED
      BY <2>1, <2>2, TextsAssumption DEF AsRecorded
  <1>6. work.number \in Nat /\ work.value \in Texts /\ work.enabled \in BOOLEAN
    BY <1>2 DEF Working, KeyWork
  <1>7. CASE work.phase = "baseline"
    <2>1. Written(work) = [number |-> work.number, value |-> text, enabled |-> TRUE]
      BY <1>7 DEF Written
    <2> HIDE DEF text
    <2>2. Written(work) \in Version
      BY <1>5, <1>6, <1>7, <2>1 DEF Version
    <2>3. QED
      BY <1>1, <1>2, <1>3, <1>4, <2>2
  <1>8. CASE work.phase # "baseline"
    <2>1. Written(work) = [number |-> work.number, value |-> work.value,
                           enabled |-> work.enabled]
      BY <1>8 DEF Written
    <2>2. Written(work) \in Version
      BY <1>6, <2>1 DEF Version
    <2>3. QED
      BY <1>1, <1>2, <1>3, <1>4, <2>2
  <1>9. QED
    BY <1>7, <1>8

\* After the baseline a request stages its own text.
LEMMA BaselineRecorded ==
  ASSUME NEW work, WorkOK(work), KeyWork(work), work.op # "model"
  PROVE  WorkOK([work EXCEPT !.pc = "open", !.phase = "version"])
  <1> DEFINE new == [work EXCEPT !.pc = "open", !.phase = "version"]
  <1>1. new \in Working
    BY DEF WorkOK, Working
  <1>2. /\ new.pc = "open" /\ new.op = work.op /\ new.key = work.key
        /\ new.value = work.value /\ new.file = work.file /\ new.next = work.next
        /\ new.seen = work.seen /\ new.phase = "version"
    BY DEF WorkOK, Working
  <1> HIDE DEF new
  <1>3. WorkOK(new)
    BY <1>1, <1>2 DEF WorkOK, KeyWork
  <1>4. QED
    BY <1>3 DEF new

LEMMA RecordType ==
  ASSUME TypeOK, NEW w \in Workers, Record(w)
  PROVE  TypeOK'
  <1> DEFINE work == worker[w]
             written == Written(work)
             new == [work EXCEPT !.pc = "open", !.phase = "version"]
  <1>1. /\ WorkOK(work) /\ work.op # "model" /\ KeyWork(work) /\ work.pc = "record"
        /\ work.key \in Keys /\ history[work.key] \in Seq(Version)
        /\ written \in Version
        /\ history' = [history EXCEPT ![work.key] = Append(history[work.key], written)]
    BY RecordWrites
  <1> HIDE DEF written
  <1>2. Append(history[work.key], written) \in Seq(Version)
    BY <1>1, AppendProperties
  <1>3. history' \in [Keys -> Seq(Version)]
    BY <1>1, <1>2 DEF TypeOK
  <1>4. WorkOK(new)
    BY <1>1, BaselineRecorded
  <1> HIDE DEF new
  <1>5. Move(w, new) \/ Finish(w)
    BY DEF Record, new
  <1>6. QED
    BY <1>3, <1>4, <1>5, MoveType, FinishType DEF Record, TypeOK

LEMMA TypeStep == TypeOK /\ [Next]_vars => TypeOK'
  <1> SUFFICES ASSUME TypeOK, [Next]_vars
               PROVE  TypeOK'
    OBVIOUS
  <1>1. ASSUME NEW w \in Workers, NEW k \in Keys, NEW v \in Values, NEW e \in BOOLEAN,
               Publish(w, k, v, e)
        PROVE  TypeOK'
    <2> DEFINE work == Published(k, v, e)
    <2>1. WorkOK(work) /\ Begin(w, work)
      BY <1>1, PublishWork
    <2> HIDE DEF work
    <2>2. QED
      BY <1>1, <2>1, MoveType DEF Publish, Begin, TypeOK
  <1>2. ASSUME NEW w \in Workers, NEW k \in Keys, NEW i \in DOMAIN history[k],
               RollBack(w, k, i)
        PROVE  TypeOK'
    <2>1. PICK work : WorkOK(work) /\ Begin(w, work)
      BY <1>2, RollBackWork
    <2>2. QED
      BY <1>2, <2>1, MoveType DEF RollBack, Begin, TypeOK
  <1>3. ASSUME NEW w \in Workers, NEW v \in Settings, NEW c \in CredentialCases,
               UpdateModel(w, v, c)
        PROVE  TypeOK'
    BY <1>3, UpdateWork, MoveType DEF UpdateModel, Begin, TypeOK
  <1>4. ASSUME NEW w \in Workers, Step(w)
        PROVE  TypeOK'
    <2>1. CASE Refuse(w)
      BY <2>1, FinishType DEF Refuse, TypeOK
    <2>2. CASE ReplaceFails(w)
      BY <2>2, FinishType DEF ReplaceFails, TypeOK
    <2>3. CASE NoCredentials(w)
      BY <2>3, FinishType DEF NoCredentials, TypeOK
    <2>4. CASE RefuseCredentials(w)
      BY <2>4, FinishType DEF RefuseCredentials, TypeOK
    <2>5. QED
      BY <1>4, <2>1, <2>2, <2>3, <2>4, OpenType, WriteType, ReplaceType, LoadRegistryType,
         ReadBackType, StoreCredentialsType, NumberType, RecordType DEF Step
  <1>5. CASE Crash
    BY <1>5 DEF Crash, TypeOK
  <1>6. CASE UNCHANGED vars
    BY <1>6 DEF vars, TypeOK
  <1>7. QED
    BY <1>1, <1>2, <1>3, <1>4, <1>5, <1>6 DEF Next, Request

\* Whatever requests and crashes do to the files they share, a file that can be
\* read holds what belongs into it, and the histories hold texts.
THEOREM TypeCorrect == Spec => []TypeOK
  BY TypeInit, TypeStep, PTL DEF Spec

-------------------------------------------------------------------------------
(* The original text *)

\* The keys whose original is in their history.
Kept == {k \in Keys : AsRecorded(k, Original) \in Recorded(k)}

\* A text that replaced the original of a key is only found once the key is among
\* the kept ones.
Backed(kept, f, content, k) ==
  (FileOf(k) = f /\ content.state = "whole" /\ ValueAt(content, k) # Original) => k \in kept

KeepsOriginal(kept, work) ==
  /\ work.phase = "version" => work.key \in kept
  /\ work.phase = "baseline" => ValueAt(work.seen, work.key) = Original
  /\ \A k \in Keys : (work.phase = "version" \/ k # work.key) =>
       Backed(kept, work.file, work.next, k)

\* A request that does not endanger an original.
Safe(kept, work) == work = Idle \/ work.op = "model" \/ KeepsOriginal(kept, work)

\* The first version of every history is the original, and what is staged or in
\* flight replaces the original of no key that has none.
KeptInv ==
  /\ \A k \in Keys : history[k] # <<>> => k \in Kept
  /\ \A f \in Files : \A k \in Keys : Backed(Kept, f, live[f], k) /\ Backed(Kept, f, temp[f], k)
  /\ \A w \in Workers : Safe(Kept, worker[w])

LEMMA BackedGrows ==
  ASSUME NEW kept, NEW more, kept \subseteq more, NEW f, NEW content, NEW k,
         Backed(kept, f, content, k)
  PROVE  Backed(more, f, content, k)
  BY DEF Backed

LEMMA SafeGrows ==
  ASSUME NEW kept, NEW more, kept \subseteq more, NEW work, Safe(kept, work)
  PROVE  Safe(more, work)
  BY DEF Safe, KeepsOriginal, Backed

LEMMA UnreadableBacked ==
  ASSUME NEW kept, NEW f, NEW k
  PROVE  /\ Backed(kept, f, Absent, k) /\ Backed(kept, f, Truncated, k)
         /\ Backed(kept, f, Mixed, k)
  BY Unreadable DEF Backed

\* A template that a request empties, or mixes with another's, is among the kept
\* ones.
LEMMA DamagedBacked ==
  ASSUME NEW kept, NEW work, WorkOK(work), work # Idle, Safe(kept, work),
         work.phase # "baseline", NEW k \in Keys
  PROVE  /\ Backed(kept, work.file, Emptied(work.file), k)
         /\ Backed(kept, work.file, MixedIn(work.file), k)
  <1>1. CASE work.file \in Templates /\ FileOf(k) = work.file
    <2>1. work.op # "model" /\ KeyWork(work)
      BY <1>1, KeysAssumption DEF WorkOK, ModelWork
    <2>2. work.key \in kept /\ work.file = FileOf(work.key)
      BY <1>1, <2>1, KeysAssumption DEF KeyWork, Safe, KeepsOriginal
    <2>3. k = work.key
      BY <1>1, <2>1, <2>2, FileNames DEF KeyWork, Keys, FileOf
    <2>4. QED
      BY <2>2, <2>3 DEF Backed
  <1>2. CASE work.file \notin Templates
    BY <1>2, UnreadableBacked DEF Emptied, MixedIn
  <1>3. CASE FileOf(k) # work.file
    BY <1>3 DEF Backed
  <1>4. QED
    BY <1>1, <1>2, <1>3

\* A step that writes no version moves nothing in the histories.
LEMMA NoRecord == history' = history => Kept' = Kept
  BY DEF Kept, Recorded, AsRecorded

LEMMA HistoriesKept ==
  ASSUME KeptInv, history' = history
  PROVE  \A k \in Keys : history'[k] # <<>> => k \in Kept'
  BY NoRecord DEF KeptInv

LEMMA MoveSafe ==
  ASSUME TypeOK, KeptInv, NEW w \in Workers, NEW work, Safe(Kept, work), Move(w, work),
         history' = history
  PROVE  \A v \in Workers : Safe(Kept', worker'[v])
  BY NoRecord DEF KeptInv, TypeOK, Move

LEMMA FinishSafe ==
  ASSUME TypeOK, KeptInv, NEW w \in Workers, Finish(w), history' = history
  PROVE  \A v \in Workers : Safe(Kept', worker'[v])
  BY MoveSafe DEF Finish, Safe

\* A step that leaves files and histories alone and moves a request safely.
LEMMA QuietStep ==
  ASSUME KeptInv, UNCHANGED <<live, temp, history>>,
         \A v \in Workers : Safe(Kept', worker'[v])
  PROVE  KeptInv'
  BY NoRecord, HistoriesKept DEF KeptInv

\* A request with the same key, content and phase endangers as little.
LEMMA SameWorkSafe ==
  ASSUME NEW kept, NEW work, NEW new, Safe(kept, work), work # Idle,
         new.op = work.op, new.phase = work.phase, new.key = work.key,
         new.file = work.file, new.next = work.next, new.seen = work.seen
  PROVE  Safe(kept, new)
  BY DEF Safe, KeepsOriginal

LEMMA NextIsBacked ==
  ASSUME NEW kept, NEW work, WorkOK(work), work # Idle, Safe(kept, work),
         work.phase # "baseline", NEW k \in Keys
  PROVE  Backed(kept, work.file, work.next, k)
  <1>1. CASE work.op = "model"
    BY <1>1, FileNames DEF WorkOK, ModelWork, Backed
  <1>2. CASE work.op # "model"
    <2>1. work.phase = "version"
      BY <1>2 DEF WorkOK, KeyWork
    <2>2. QED
      BY <1>2, <2>1 DEF Safe, KeepsOriginal
  <1>3. QED
    BY <1>1, <1>2

LEMMA EditedBacked ==
  ASSUME TypeOK, KeptInv, NEW k \in Keys, live[FileOf(k)].state = "whole", NEW value \in Texts
  PROVE  \A j \in Keys \ {k} :
           Backed(Kept, FileOf(k), Edited(FileOf(k), live[FileOf(k)], k, value), j)
  <1> SUFFICES ASSUME NEW j \in Keys \ {k}, FileOf(j) = FileOf(k),
                      ValueAt(Edited(FileOf(k), live[FileOf(k)], k, value), j) # Original
               PROVE  j \in Kept
    BY DEF Backed
  <1>1. FileOf(k) \in Files /\ live[FileOf(k)] \in Content(FileOf(k))
    BY FileNames DEF TypeOK
  <1>2. ValueAt(live[FileOf(k)], j) # Original
    BY <1>1, EditedContent
  <1>3. Backed(Kept, FileOf(k), live[FileOf(k)], j)
    BY <1>1 DEF KeptInv
  <1>4. QED
    BY <1>2, <1>3 DEF Backed

LEMMA PublishSafe ==
  ASSUME TypeOK, KeptInv, NEW w \in Workers, NEW k \in Keys, NEW v \in Values,
         NEW e \in BOOLEAN, Publish(w, k, v, e)
  PROVE  KeptInv'
  <1> DEFINE file == FileOf(k)
             work == Published(k, v, e)
  <1>1. /\ work.key = k /\ work.file = file /\ work.seen = live[file]
        /\ work.next = Edited(file, live[file], k, v)
        /\ work.phase = IF NeedsBaseline(k) THEN "baseline" ELSE "version"
        /\ Begin(w, work) /\ live[file].state = "whole"
    BY PublishWork
  <1> HIDE DEF work
  <1>2. \A j \in Keys \ {k} : Backed(Kept, work.file, work.next, j)
    BY <1>1, EditedBacked, TextsAssumption
  <1>3. CASE NeedsBaseline(k)
    <2>1. k \notin Kept
      BY <1>3 DEF NeedsBaseline, Kept, Recorded
    <2>2. Backed(Kept, file, live[file], k)
      BY FileNames DEF KeptInv
    <2>3. ValueAt(work.seen, k) = Original
      BY <1>1, <2>1, <2>2 DEF Backed
    <2>4. Safe(Kept, work)
      BY <1>1, <1>2, <1>3, <2>3 DEF Safe, KeepsOriginal
    <2>5. QED
      BY <1>1, <2>4, MoveSafe, QuietStep DEF Publish, Begin
  <1>4. CASE ~NeedsBaseline(k)
    <2>1. k \in Kept
      BY <1>4 DEF NeedsBaseline, KeptInv
    <2>2. \A j \in Keys : Backed(Kept, work.file, work.next, j)
      BY <1>2, <2>1 DEF Backed
    <2>3. Safe(Kept, work)
      BY <1>1, <1>4, <2>1, <2>2 DEF Safe, KeepsOriginal
    <2>4. QED
      BY <1>1, <2>3, MoveSafe, QuietStep DEF Publish, Begin
  <1>5. QED
    BY <1>3, <1>4

LEMMA RollBackSafe ==
  ASSUME TypeOK, KeptInv, NEW w \in Workers, NEW k \in Keys, NEW i \in DOMAIN history[k],
         RollBack(w, k, i)
  PROVE  KeptInv'
  <1> DEFINE file == FileOf(k)
             version == history[k][i]
             work == RolledBack(k, version)
  <1>1. /\ work.key = k /\ work.file = file
        /\ work.next = Edited(file, live[file], k, version.value)
        /\ work.phase = "version"
        /\ Begin(w, work) /\ live[file].state = "whole" /\ version \in Version
    BY RollBackWork
  <1>2. k \in Kept
    <2>1. history[k] # <<>>
      OBVIOUS
    <2>2. QED
      BY <2>1 DEF KeptInv
  <1> HIDE DEF work, version
  <1>3. version.value \in Texts
    BY <1>1 DEF Version
  <1>4. \A j \in Keys : Backed(Kept, work.file, work.next, j)
    BY <1>1, <1>2, <1>3, EditedBacked DEF Backed
  <1>5. Safe(Kept, work)
    BY <1>1, <1>2, <1>4 DEF Safe, KeepsOriginal
  <1>6. QED
    BY <1>1, <1>5, MoveSafe, QuietStep DEF RollBack, Begin

LEMMA UpdateSafe ==
  ASSUME TypeOK, KeptInv, NEW w \in Workers, NEW v \in Settings, NEW c \in CredentialCases,
         UpdateModel(w, v, c)
  PROVE  KeptInv'
  <1>1. PICK work : work.op = "model" /\ Begin(w, work)
    BY UpdateWork
  <1>2. Safe(Kept, work)
    BY <1>1 DEF Safe
  <1>3. QED
    BY <1>1, <1>2, MoveSafe, QuietStep DEF UpdateModel, Begin

LEMMA OpenSafe ==
  ASSUME TypeOK, KeptInv, NEW w \in Workers, Open(w)
  PROVE  KeptInv'
  <1> DEFINE work == worker[w]
             new == [work EXCEPT !.pc = "write", !.fd = "temp"]
  <1>1. WorkOK(work) /\ work # Idle /\ work \in Working /\ work.phase # "baseline"
    BY AtWork, Busy, StagesVersion DEF Open, WorkOK
  <1>2. /\ new.op = work.op /\ new.phase = work.phase /\ new.key = work.key
        /\ new.file = work.file /\ new.next = work.next /\ new.seen = work.seen
    BY <1>1 DEF Working
  <1> HIDE DEF new
  <1>3. Safe(Kept, new)
    BY <1>1, <1>2, SameWorkSafe DEF KeptInv
  <1>4. Move(w, new) /\ temp' = [temp EXCEPT ![work.file] = Emptied(work.file)]
    BY DEF Open, new
  <1>5. \A k \in Keys : Backed(Kept, work.file, Emptied(work.file), k)
    BY <1>1, DamagedBacked DEF KeptInv
  <1>6. \A f \in Files : \A k \in Keys : Backed(Kept, f, temp'[f], k)
    BY <1>4, <1>5 DEF KeptInv, TypeOK
  <1>7. QED
    BY <1>3, <1>4, <1>6, MoveSafe, NoRecord, HistoriesKept DEF Open, KeptInv

LEMMA WriteSafe ==
  ASSUME TypeOK, KeptInv, NEW w \in Workers, Write(w)
  PROVE  KeptInv'
  <1> DEFINE work == worker[w]
             f == work.file
             new == [work EXCEPT !.pc = "replace", !.fd = "none"]
  <1>1. WorkOK(work) /\ work # Idle /\ work \in Working /\ work.phase # "baseline"
    BY AtWork, Busy, StagesVersion DEF Write, WorkOK
  <1>2. /\ new.op = work.op /\ new.phase = work.phase /\ new.key = work.key
        /\ new.file = work.file /\ new.next = work.next /\ new.seen = work.seen
    BY <1>1 DEF Working
  <1> HIDE DEF new
  <1>3. Safe(Kept, work) /\ Safe(Kept, new)
    BY <1>1, <1>2, SameWorkSafe DEF KeptInv
  <1>4. Move(w, new)
    BY DEF Write, new
  <1>5. \A old : \A content \in Overwritten(f, old, work.next) : \A k \in Keys :
          Backed(Kept, f, content, k)
    BY <1>1, <1>3, NextIsBacked, DamagedBacked DEF Overwritten
  <1>6. \A g \in Files : \A k \in Keys :
          Backed(Kept, g, temp'[g], k) /\ Backed(Kept, g, live'[g], k)
    <2>1. CASE work.fd = "temp"
      <3>1. PICK content \in Overwritten(f, temp[f], work.next) :
              temp' = [temp EXCEPT ![f] = content] /\ live' = live
        BY <2>1 DEF Write
      <3>2. QED
        BY <1>5, <3>1 DEF KeptInv, TypeOK
    <2>2. CASE work.fd = "live"
      <3>1. PICK content \in Overwritten(f, live[f], work.next) :
              live' = [live EXCEPT ![f] = content] /\ temp' = temp
        BY <2>2 DEF Write
      <3>2. QED
        BY <1>5, <3>1 DEF KeptInv, TypeOK
    <2>3. CASE work.fd = "gone"
      BY <2>3 DEF Write, KeptInv
    <2>4. QED
      BY <2>1, <2>2, <2>3 DEF Write
  <1>7. QED
    BY <1>3, <1>4, <1>6, MoveSafe, NoRecord, HistoriesKept DEF Write, KeptInv

LEMMA ReplaceSafe ==
  ASSUME TypeOK, KeptInv, NEW w \in Workers, Replace(w)
  PROVE  KeptInv'
  <1> DEFINE f == worker[w].file
  <1>1. /\ WorkOK(worker[w]) /\ worker[w] # Idle /\ worker[w].pc = "replace"
        /\ worker[w] \in Working
    BY AtWork, Busy DEF Replace, WorkOK
  <1>2. f \in Files
    BY <1>1 DEF Working
  <1>3. \A g \in Files : \A k \in Keys :
          Backed(Kept, g, temp'[g], k) /\ Backed(Kept, g, live'[g], k)
    BY <1>2, UnreadableBacked DEF Replace, KeptInv, TypeOK
  <1>4. Safe(Kept, AfterReplace(w))
    <2>1. CASE f = "env"
      BY <2>1 DEF AfterReplace, Safe
    <2>2. CASE f # "env"
      <3> DEFINE new == AfterReplace(w)
      <3>1. PICK pc : new = [worker[w] EXCEPT !.pc = pc]
        BY <2>2 DEF AfterReplace
      <3>2. /\ new.op = worker[w].op /\ new.phase = worker[w].phase
            /\ new.key = worker[w].key /\ new.file = f
            /\ new.next = worker[w].next /\ new.seen = worker[w].seen
        BY <1>1, <3>1 DEF Working
      <3> HIDE DEF new
      <3>3. Safe(Kept, new)
        BY <1>1, <3>2, SameWorkSafe DEF KeptInv
      <3>4. QED
        BY <3>3 DEF new
    <2>3. QED
      BY <2>1, <2>2
  <1>5. ASSUME NEW v \in Workers
        PROVE  Safe(Kept, worker'[v])
    <2>1. CASE v = w
      BY <1>4, <2>1 DEF Replace
    <2>2. CASE v # w /\ worker[v].file = f
      <3> DEFINE new == [worker[v] EXCEPT !.fd = Renamed(@)]
      <3>1. worker[v] # Idle
        BY <1>2, <2>2, KeysAssumption DEF Idle, Files
      <3>2. worker[v] \in Working
        BY <3>1, AtWork DEF WorkOK
      <3>3. /\ new.op = worker[v].op /\ new.phase = worker[v].phase
            /\ new.key = worker[v].key /\ new.file = worker[v].file
            /\ new.next = worker[v].next /\ new.seen = worker[v].seen
        BY <3>2 DEF Working
      <3>4. worker'[v] = new
        BY <2>2 DEF Replace
      <3> HIDE DEF new
      <3>5. Safe(Kept, new)
        BY <3>1, <3>3, SameWorkSafe DEF KeptInv
      <3>6. QED
        BY <3>4, <3>5
    <2>3. CASE v # w /\ worker[v].file # f
      <3>1. worker'[v] = worker[v]
        BY <2>3 DEF Replace
      <3>2. QED
        BY <3>1 DEF KeptInv
    <2>4. QED
      BY <2>1, <2>2, <2>3
  <1>6. QED
    BY <1>3, <1>5, NoRecord, HistoriesKept DEF Replace, KeptInv

LEMMA RegistrySafe ==
  ASSUME TypeOK, KeptInv, NEW w \in Workers, LoadRegistry(w)
  PROVE  KeptInv'
  <1> DEFINE work == worker[w]
             next == Holding([live["registry"].value EXCEPT ![work.key] = work.enabled])
             new == [work EXCEPT !.pc = "open", !.file = "registry", !.next = next]
  <1>1. /\ WorkOK(work) /\ work # Idle /\ work \in Working
        /\ work.phase # "baseline"
    BY AtWork, Busy, StagesVersion DEF LoadRegistry, WorkOK
  <1>2. CASE Move(w, new)
    <2>1. /\ new.op = work.op /\ new.phase = work.phase /\ new.key = work.key
          /\ new.file = "registry"
      BY <1>1 DEF Working
    <2> HIDE DEF new
    <2>2. Safe(Kept, work)
      BY DEF KeptInv
    <2>3. Safe(Kept, new)
      BY <1>1, <2>1, <2>2, FileNames DEF Safe, KeepsOriginal, Backed
    <2>4. QED
      BY <1>2, <2>3, MoveSafe, QuietStep DEF LoadRegistry
  <1>3. CASE Finish(w)
    BY <1>3, FinishSafe, QuietStep DEF LoadRegistry
  <1>4. QED
    BY <1>2, <1>3 DEF LoadRegistry

LEMMA ReadBackSafe ==
  ASSUME TypeOK, KeptInv, NEW w \in Workers, ReadBack(w)
  PROVE  KeptInv'
  <1> DEFINE work == worker[w]
             new == [work EXCEPT !.pc = "number", !.value = Shown[live[work.key].value],
                                 !.enabled = live["registry"].value[work.key]]
  <1>1. WorkOK(work) /\ work # Idle /\ work \in Working
    BY AtWork, Busy DEF ReadBack, WorkOK
  <1>2. CASE Move(w, new)
    <2>1. /\ new.op = work.op /\ new.phase = work.phase /\ new.key = work.key
          /\ new.file = work.file /\ new.next = work.next /\ new.seen = work.seen
      BY <1>1 DEF Working
    <2> HIDE DEF new
    <2>2. Safe(Kept, new)
      BY <1>1, <2>1, SameWorkSafe DEF KeptInv
    <2>3. QED
      BY <1>2, <2>2, MoveSafe, QuietStep DEF ReadBack
  <1>3. CASE Finish(w)
    BY <1>3, FinishSafe, QuietStep DEF ReadBack
  <1>4. QED
    BY <1>2, <1>3 DEF ReadBack

LEMMA StoreSafe ==
  ASSUME TypeOK, KeptInv, NEW w \in Workers, StoreCredentials(w)
  PROVE  KeptInv'
  <1> DEFINE new == [worker[w] EXCEPT !.pc = "open", !.file = "env"]
  <1>1. /\ WorkOK(worker[w]) /\ worker[w].op = "model" /\ worker[w] \in Working
    BY AtWork, Busy DEF StoreCredentials, WorkOK, KeyWork
  <1>2. new.op = "model"
    BY <1>1 DEF Working
  <1> HIDE DEF new
  <1>3. Safe(Kept, new)
    BY <1>2 DEF Safe
  <1>4. Move(w, new)
    BY DEF StoreCredentials, new
  <1>5. QED
    BY <1>3, <1>4, MoveSafe, QuietStep DEF StoreCredentials

LEMMA NumberSafe ==
  ASSUME TypeOK, KeptInv, NEW w \in Workers, Number(w)
  PROVE  KeptInv'
  <1> DEFINE work == worker[w]
             new == [work EXCEPT !.pc = "record", !.number = NextNumber(work.key)]
  <1>1. WorkOK(work) /\ work # Idle /\ work \in Working
    BY AtWork, Busy DEF Number, WorkOK
  <1>2. /\ new.op = work.op /\ new.phase = work.phase /\ new.key = work.key
        /\ new.file = work.file /\ new.next = work.next /\ new.seen = work.seen
    BY <1>1 DEF Working
  <1> HIDE DEF new
  <1>3. Safe(Kept, new)
    BY <1>1, <1>2, SameWorkSafe DEF KeptInv
  <1>4. Move(w, new)
    BY DEF Number, new
  <1>5. QED
    BY <1>3, <1>4, MoveSafe, QuietStep DEF Number

\* A version that is recorded is there after, and so are those before it.
LEMMA RecordKeeps ==
  ASSUME NEW k \in Keys, NEW version, history \in [Keys -> Seq(Version)],
         version \in Version,
         history' = [history EXCEPT ![k] = Append(history[k], version)]
  PROVE  /\ Kept \subseteq Kept'
         /\ version.value = AsRecorded(k, Original) => k \in Kept'
         /\ \A j \in Keys \ {k} : history'[j] = history[j]
  <1>1. \A j \in Keys \ {k} : history'[j] = history[j]
    OBVIOUS
  <1>2. history[k] \in Seq(Version) /\ history'[k] = Append(history[k], version)
    OBVIOUS
  <1>3. /\ Len(history[k]) + 1 \in DOMAIN history'[k]
        /\ history'[k][Len(history[k]) + 1] = version
        /\ \A i \in DOMAIN history[k] : i \in DOMAIN history'[k] /\ history'[k][i] = history[k][i]
    BY <1>2
  <1>4. version.value \in Recorded(k)' /\ Recorded(k) \subseteq Recorded(k)'
    BY <1>3 DEF Recorded
  <1>5. \A j \in Keys \ {k} : Recorded(j)' = Recorded(j)
    BY <1>1 DEF Recorded
  <1>6. \A j : AsRecorded(j, Original)' = AsRecorded(j, Original)
    BY DEF AsRecorded
  <1>7. QED
    BY <1>1, <1>4, <1>5, <1>6 DEF Kept

LEMMA RecordSafe ==
  ASSUME TypeOK, KeptInv, NEW w \in Workers, Record(w)
  PROVE  KeptInv'
  <1> DEFINE work == worker[w]
             k == work.key
             written == Written(work)
             new == [work EXCEPT !.pc = "open", !.phase = "version"]
  <1>1. /\ WorkOK(work) /\ work.op # "model" /\ KeyWork(work) /\ work.pc = "record"
        /\ k \in Keys /\ written \in Version
        /\ history' = [history EXCEPT ![k] = Append(history[k], written)]
    BY RecordWrites
  <1>2. KeepsOriginal(Kept, work)
    BY <1>1 DEF KeptInv, Safe, Idle
  <1>3. work.phase = "baseline" => written.value = AsRecorded(k, Original)
    BY <1>2 DEF Written, KeepsOriginal
  <1> HIDE DEF written
  <1>4. /\ Kept \subseteq Kept'
        /\ written.value = AsRecorded(k, Original) => k \in Kept'
        /\ \A j \in Keys \ {k} : history'[j] = history[j]
    BY <1>1, RecordKeeps DEF TypeOK
  <1>5. k \in Kept'
    BY <1>1, <1>2, <1>3, <1>4 DEF KeyWork, KeepsOriginal
  <1>6. \A j \in Keys : history'[j] # <<>> => j \in Kept'
    BY <1>4, <1>5 DEF KeptInv
  <1>7. Safe(Kept', new)
    <2>1. /\ new.phase = "version" /\ new.key = k /\ new.file = work.file
          /\ new.next = work.next
      BY <1>1 DEF WorkOK, Working
    <2> HIDE DEF new
    <2>2. \A j \in Keys : Backed(Kept', work.file, work.next, j)
      BY <1>2, <1>4, <1>5 DEF KeepsOriginal, Backed
    <2>3. QED
      BY <1>5, <2>1, <2>2 DEF Safe, KeepsOriginal
  <1> HIDE DEF new
  <1>8. Safe(Kept', Idle)
    BY DEF Safe
  <1>9. Move(w, new) \/ Move(w, Idle)
    BY DEF Record, Finish, new
  <1>10. \A v \in Workers : Safe(Kept', worker'[v])
    BY <1>4, <1>7, <1>8, <1>9, SafeGrows DEF Move, KeptInv, TypeOK
  <1>11. \A f \in Files : \A j \in Keys :
           Backed(Kept', f, live[f], j) /\ Backed(Kept', f, temp[f], j)
    BY <1>4, BackedGrows DEF KeptInv
  <1>12. QED
    BY <1>6, <1>10, <1>11 DEF Record, KeptInv

LEMMA KeptInit == Init => KeptInv
  <1> SUFFICES ASSUME Init
               PROVE  KeptInv
    OBVIOUS
  <1>1. ASSUME NEW f \in Files, NEW k \in Keys
        PROVE  Backed(Kept, f, live[f], k) /\ Backed(Kept, f, temp[f], k)
    <2>1. FileOf(k) = f => ValueAt(live[f], k) = Original
      <3>1. CASE k \in Prompts
        BY <3>1, FileNames DEF ValueAt, Init, InitialContent, Holding
      <3>2. CASE k \in Templates
        BY <3>2, FileNames DEF ValueAt, Init, InitialContent, Holding
      <3>3. QED
        BY <3>1, <3>2 DEF Keys
    <2>2. QED
      BY <2>1, UnreadableBacked DEF Backed, Init
  <1>2. QED
    BY <1>1 DEF Init, KeptInv, Safe

LEMMA KeptStep == TypeOK /\ KeptInv /\ [Next]_vars => KeptInv'
  <1> SUFFICES ASSUME TypeOK, KeptInv, [Next]_vars
               PROVE  KeptInv'
    OBVIOUS
  <1>1. ASSUME NEW w \in Workers, Request(w)
        PROVE  KeptInv'
    BY <1>1, PublishSafe, RollBackSafe, UpdateSafe DEF Request
  <1>2. ASSUME NEW w \in Workers, Step(w)
        PROVE  KeptInv'
    <2>1. CASE Refuse(w)
      BY <2>1, FinishSafe, QuietStep DEF Refuse
    <2>2. CASE ReplaceFails(w)
      BY <2>2, FinishSafe, QuietStep DEF ReplaceFails
    <2>3. CASE NoCredentials(w)
      BY <2>3, FinishSafe, QuietStep DEF NoCredentials
    <2>4. CASE RefuseCredentials(w)
      BY <2>4, FinishSafe, QuietStep DEF RefuseCredentials
    <2>5. QED
      BY <1>2, <2>1, <2>2, <2>3, <2>4, OpenSafe, WriteSafe, ReplaceSafe, RegistrySafe,
         ReadBackSafe, StoreSafe, NumberSafe, RecordSafe DEF Step
  <1>3. CASE Crash
    <2>1. \A v \in Workers : Safe(Kept', worker'[v])
      BY <1>3 DEF Crash, Safe
    <2>2. QED
      BY <1>3, <2>1, QuietStep DEF Crash
  <1>4. CASE UNCHANGED vars
    BY <1>4, QuietStep, NoRecord DEF vars, KeptInv
  <1>5. QED
    BY <1>1, <1>2, <1>3, <1>4 DEF Next

LEMMA KeptAlways == Spec => [](TypeOK /\ KeptInv)
  BY TypeInit, TypeStep, KeptInit, KeptStep, PTL DEF Spec

LEMMA KeptIsOriginal == KeptInv => OriginalIsKept
  <1> SUFFICES ASSUME KeptInv, NEW k \in Keys, Readable(FileOf(k)), LiveValue(k) # Original
               PROVE  AsRecorded(k, Original) \in Recorded(k)
    BY DEF OriginalIsKept
  <1>1. LiveValue(k) = ValueAt(live[FileOf(k)], k)
    BY DEF LiveValue, ValueAt, FileOf
  <1>2. Backed(Kept, FileOf(k), live[FileOf(k)], k)
    BY FileNames DEF KeptInv
  <1>3. QED
    BY <1>1, <1>2 DEF Backed, Readable, Kept

\* What is shown of the text a prompt or a template had when the program was
\* installed is in the key's history before another text is found in its place,
\* whatever requests overlap and wherever a process dies.
THEOREM OriginalStays == Spec => []OriginalIsKept
  BY KeptAlways, KeptIsOriginal, PTL

-------------------------------------------------------------------------------
(* The newest version *)

\* Nobody was disturbed so far, and no template was published that cannot be shown.
Alone == ~overlapped /\ crashes = 0 /\ ~unlisted

\* The history of a key and the live files agree; a key without history is as
\* it was installed.
AgreesWith(k, versions, value, flag) ==
  IF versions = <<>> THEN value = Original /\ flag = TRUE
  ELSE /\ versions[Len(versions)].value = AsRecorded(k, value)
       /\ versions[Len(versions)].enabled = flag

Agrees(k) == AgreesWith(k, history[k], LiveValue(k), LiveFlag(k))

Staging(work) == work.pc \in {"open", "write", "replace"}

\* What a request that is alone has done so far to its key k.
OwnKey(w, k) ==
  LET work == worker[w] IN
  /\ k \in Prompts => work.enabled = TRUE
  /\ (Staging(work) \/ work.phase = "baseline") /\ work.file = FileOf(k) =>
       Agrees(k) /\ work.next = Edited(work.file, live[work.file], k, work.value)
  /\ work.phase = "baseline" => history[k] = <<>> /\ work.seen = live[work.file]
  /\ Staging(work) /\ work.file = "registry" =>
       work.next = Holding([live["registry"].value EXCEPT ![k] = work.enabled])
  /\ work.pc \in {"number", "record"} /\ work.phase = "version" =>
       work.value = AsRecorded(k, LiveValue(k)) /\ work.enabled = LiveFlag(k)

\* Where the one temporary file is, if the request is writing it.
OwnTemp(w) ==
  LET work == worker[w] IN
  /\ \A f \in Files : f # work.file => temp[f] = Absent
  /\ work.pc = "write" => temp[work.file] = Emptied(work.file) /\ work.fd = "temp"
  /\ work.pc = "replace" => temp[work.file] = work.next
  /\ work.pc \notin {"write", "replace"} => temp[work.file] = Absent

\* One request at work: it leaves every key but its own as it was.
Undisturbed(w) ==
  /\ \A v \in Workers \ {w} : worker[v] = Idle
  /\ worker[w].next.state = "whole"
  /\ OwnTemp(w)
  /\ \A k \in Keys :
       IF worker[w].op # "model" /\ worker[w].key = k THEN OwnKey(w, k) ELSE Agrees(k)

\* No request at work.
Rest == (\A f \in Files : temp[f] = Absent) /\ \A k \in Keys : Agrees(k)

\* A prompt has no flag: its versions are enabled.
PromptsEnabled ==
  \A k \in Prompts : \A i \in DOMAIN history[k] : history[k][i].enabled = TRUE

\* As long as nobody was disturbed every file can be read, and the histories say
\* what is live, but for the key a request is working on.
AloneInv ==
  Alone =>
    /\ \A f \in Files : Readable(f)
    /\ Listable
    /\ PromptsEnabled
    /\ Quiet => Rest
    /\ \A w \in Workers : worker[w] # Idle => Undisturbed(w)

LEMMA NewestInit == Init => AloneInv
  <1> SUFFICES ASSUME Init
               PROVE  AloneInv
    OBVIOUS
  <1>1. \A f \in Files : Readable(f) /\ temp[f] = Absent
    BY DEF Init, Readable, Holding
  <1>2. PromptsEnabled
    BY DEF Init, PromptsEnabled, Keys
  <1>3. \A k \in Keys : Agrees(k)
    <2> SUFFICES ASSUME NEW k \in Keys
                 PROVE  LiveValue(k) = Original /\ LiveFlag(k) = TRUE
      BY DEF Init, Agrees, AgreesWith
    <2>1. CASE k \in Prompts
      BY <2>1, FileNames DEF Init, LiveValue, LiveFlag, InitialContent, Holding, Files
    <2>2. CASE k \in Templates
      BY <2>2, FileNames DEF Init, LiveValue, LiveFlag, InitialContent, Holding, Files
    <2>3. QED
      BY <2>1, <2>2 DEF Keys
  <1>4. QED
    BY <1>1, <1>2, <1>3 DEF Init, AloneInv, Alone, Rest

\* A request that is undisturbed after its step was so before, and nobody else is
\* at work.
LEMMA AloneBefore ==
  ASSUME TypeOK, AloneInv, Alone, NEW w \in Workers, worker[w] # Idle
  PROVE  /\ Undisturbed(w)
         /\ \A f \in Files : Readable(f)
         /\ Listable
         /\ PromptsEnabled
  BY DEF AloneInv

\* A request that is undisturbed after its step, with what it has put in place.
LEMMA AloneMoves ==
  ASSUME TypeOK, AloneInv, NEW w \in Workers, worker[w] # Idle, NEW work,
         UNCHANGED <<crashes, overlapped>>, UNCHANGED <<live, unlisted>> \/ Watch,
         Alone => /\ Move(w, work)
                  /\ \A f \in Files : Readable(f)'
                  /\ PromptsEnabled'
                  /\ IF work = Idle THEN Rest'
                     ELSE /\ work.next.state = "whole"
                          /\ OwnTemp(w)'
                          /\ \A k \in Keys :
                               IF work.op # "model" /\ work.key = k THEN OwnKey(w, k)'
                               ELSE Agrees(k)'
  PROVE  AloneInv'
  <1> SUFFICES ASSUME Alone'
               PROVE  /\ \A f \in Files : Readable(f)'
                      /\ Listable'
                      /\ PromptsEnabled'
                      /\ Quiet' => Rest'
                      /\ \A v \in Workers : worker'[v] # Idle => Undisturbed(v)'
    BY DEF AloneInv
  <1>1. Alone
    <2>1. ~overlapped /\ crashes = 0
      BY DEF Alone
    <2>2. ~unlisted
      <3>1. CASE Watch
        BY <3>1, Zenon DEF Alone, Watch
      <3>2. CASE UNCHANGED <<live, unlisted>>
        BY <3>2 DEF Alone
      <3>3. QED
        BY <3>1, <3>2
    <2>3. QED
      BY <2>1, <2>2 DEF Alone
  <1>2. Listable'
    <2>1. CASE UNCHANGED <<live, unlisted>>
      BY <1>1, <2>1, AloneBefore DEF Listable, ListableIn
    <2>2. CASE Watch
      BY <2>2 DEF Alone, Watch, Listable
    <2>3. QED
      BY <2>1, <2>2
  <1>3. \A v \in Workers \ {w} : worker[v] = Idle
    BY <1>1, AloneBefore DEF Undisturbed
  <1>4. worker'[w] = work /\ \A v \in Workers \ {w} : worker'[v] = Idle
    BY <1>1, <1>3 DEF Move, TypeOK
  <1>5. Quiet' => work = Idle
    BY <1>4 DEF Quiet
  <1>6. work # Idle => Undisturbed(w)'
    BY <1>1, <1>4 DEF Undisturbed
  <1>7. QED
    BY <1>1, <1>4, <1>5, <1>6, <1>2

\* What is live depends on the files only.
LEMMA SameLive ==
  ASSUME live' = live, NEW k
  PROVE  LiveValue(k)' = LiveValue(k) /\ LiveFlag(k)' = LiveFlag(k)
  BY DEF LiveValue, LiveFlag

LEMMA SameAgrees ==
  ASSUME live' = live, history' = history, NEW k
  PROVE  Agrees(k)' <=> Agrees(k)
  BY SameLive DEF Agrees, AgreesWith, AsRecorded

LEMMA AloneFinishes ==
  ASSUME TypeOK, AloneInv, NEW w \in Workers, worker[w] # Idle, Finish(w),
         worker[w].pc \notin {"write", "replace"},
         UNCHANGED <<live, temp, history, crashes, overlapped, unlisted>>,
         \A k \in Keys : (worker[w].op # "model" /\ worker[w].key = k /\ OwnKey(w, k)) => Agrees(k)
  PROVE  AloneInv'
  <1>1. ASSUME Alone
        PROVE  (\A f \in Files : Readable(f)') /\ PromptsEnabled' /\ Rest'
    <2>1. /\ Undisturbed(w) /\ \A f \in Files : Readable(f)
          /\ PromptsEnabled
      BY <1>1, AloneBefore
    <2>2. \A f \in Files : temp[f] = Absent
      BY <2>1 DEF Undisturbed, OwnTemp
    <2>3. \A k \in Keys : Agrees(k)
      BY <2>1 DEF Undisturbed
    <2>4. QED
      BY <2>1, <2>2, <2>3, SameAgrees DEF Readable, PromptsEnabled, Rest
  <1>2. Move(w, Idle)
    BY DEF Finish
  <1>3. QED
    BY <1>1, <1>2, AloneMoves

\* Nobody else was at work when a request begins that is alone.
LEMMA AloneBegins ==
  ASSUME TypeOK, AloneInv, NEW w \in Workers, NEW work, WorkOK(work), Begin(w, work),
         UNCHANGED <<live, temp, history, crashes>>,
         work.pc \notin {"write", "replace"},
         work.next.state = "whole",
         Alone /\ Rest /\ PromptsEnabled /\ (\A f \in Files : Readable(f)) =>
           \A k \in Keys : work.op # "model" /\ work.key = k => OwnKey(w, k)'
  PROVE  AloneInv'
  <1> SUFFICES ASSUME Alone'
               PROVE  /\ \A f \in Files : Readable(f)'
                      /\ Listable'
                      /\ PromptsEnabled'
                      /\ Quiet' => Rest'
                      /\ \A v \in Workers : worker'[v] # Idle => Undisturbed(v)'
    BY DEF AloneInv
  <1>1. Alone /\ Quiet
    BY DEF Alone, Begin
  <1>2. Rest /\ PromptsEnabled /\ Listable /\ \A f \in Files : Readable(f)
    BY <1>1 DEF AloneInv
  <1>3. worker'[w] = work /\ \A v \in Workers \ {w} : worker'[v] = Idle
    BY <1>1 DEF Begin, Move, Quiet, TypeOK
  <1>4. work # Idle /\ work.file \in Files
    BY DEF WorkOK, Working, Idle
  <1>5. OwnTemp(w)'
    BY <1>2, <1>3, <1>4 DEF OwnTemp, Rest
  <1>6. \A k \in Keys : Agrees(k)'
    BY <1>2, SameAgrees DEF Rest
  <1>7. Undisturbed(w)'
    BY <1>1, <1>2, <1>3, <1>5, <1>6 DEF Undisturbed
  <1>8. (\A f \in Files : Readable(f)') /\ Listable' /\ PromptsEnabled'
    BY <1>2 DEF Readable, Listable, ListableIn, PromptsEnabled
  <1>9. ~Quiet'
    BY <1>3, <1>4 DEF Quiet
  <1>10. QED
    BY <1>3, <1>7, <1>8, <1>9

LEMMA PublishAlone ==
  ASSUME TypeOK, AloneInv, NEW w \in Workers, NEW k \in Keys, NEW v \in Values,
         NEW e \in BOOLEAN, Publish(w, k, v, e)
  PROVE  AloneInv'
  <1> DEFINE file == FileOf(k)
             work == Published(k, v, e)
  <1>1. /\ WorkOK(work) /\ work.key = k /\ work.file = file /\ work.value = v
        /\ work.enabled = e /\ work.seen = live[file]
        /\ work.next = Edited(file, live[file], k, v)
        /\ work.pc = IF NeedsBaseline(k) THEN "number" ELSE "open"
        /\ work.phase = IF NeedsBaseline(k) THEN "baseline" ELSE "version"
        /\ Begin(w, work)
        /\ live[file] \in Content(file) /\ live[file].state = "whole"
    BY PublishWork
  <1> HIDE DEF work
  <1>2. v \in Texts
    BY TextsAssumption
  <1>3. work.next.state = "whole" /\ work.pc \notin {"write", "replace"}
    BY <1>2, <1>1, EditedContent
  <1>4. k \in Prompts => work.enabled = TRUE
    BY <1>1 DEF Publish
  <1>5. worker' = [worker EXCEPT ![w] = work] /\ worker'[w] = work
    BY <1>1 DEF Begin, Move, TypeOK
  <1>6. UNCHANGED <<live, temp, history, crashes>>
    BY DEF Publish
  <1>7. ASSUME Rest
        PROVE  OwnKey(w, k)'
    <2>1. Agrees(k)'
      BY <1>6, <1>7, SameAgrees DEF Rest
    <2>2. work.file # "registry"
      BY <1>1, FileNames
    <2>3. work.phase = "baseline" => history[k] = <<>>
      BY <1>1 DEF NeedsBaseline
    <2>4. work.pc \in {"read", "number", "record"} => work.phase = "baseline"
      BY <1>1
    <2>5. work.pc # "registry"
      BY <1>1
    <2>6. QED
      BY <1>1, <1>4, <1>5, <1>6, <2>1, <2>2, <2>3, <2>4, <2>5 DEF OwnKey
  <1>8. QED
    BY <1>1, <1>3, <1>6, <1>7, AloneBegins

LEMMA RollBackAlone ==
  ASSUME TypeOK, AloneInv, NEW w \in Workers, NEW k \in Keys, NEW i \in DOMAIN history[k],
         RollBack(w, k, i)
  PROVE  AloneInv'
  <1> DEFINE file == FileOf(k)
             version == history[k][i]
             work == RolledBack(k, version)
  <1>1. /\ WorkOK(work) /\ work.key = k /\ work.file = file
        /\ work.value = version.value /\ work.enabled = version.enabled
        /\ work.next = Edited(file, live[file], k, version.value)
        /\ work.pc = "open" /\ work.phase = "version"
        /\ Begin(w, work)
        /\ live[file] \in Content(file) /\ live[file].state = "whole"
        /\ version \in Version
    BY RollBackWork
  <1> HIDE DEF work
  <1>2. version.value \in Texts
    BY <1>1 DEF Version
  <1>3. work.next.state = "whole" /\ work.pc \notin {"write", "replace"}
    BY <1>1, <1>2, EditedContent
  <1>4. worker' = [worker EXCEPT ![w] = work] /\ worker'[w] = work
    BY <1>1 DEF Begin, Move, TypeOK
  <1>5. UNCHANGED <<live, temp, history, crashes>>
    BY DEF RollBack
  <1>6. ASSUME Rest, PromptsEnabled
        PROVE  OwnKey(w, k)'
    <2>1. Agrees(k)'
      BY <1>5, <1>6, SameAgrees DEF Rest
    <2>2. work.file # "registry"
      BY <1>1, FileNames
    <2>3. k \in Prompts => work.enabled = TRUE
      BY <1>1, <1>6 DEF PromptsEnabled
    <2>4. QED
      BY <1>1, <1>4, <1>5, <2>1, <2>2, <2>3 DEF OwnKey
  <1>7. QED
    BY <1>1, <1>3, <1>5, <1>6, AloneBegins

LEMMA UpdateAlone ==
  ASSUME TypeOK, AloneInv, NEW w \in Workers, NEW v \in Settings, NEW c \in CredentialCases,
         UpdateModel(w, v, c)
  PROVE  AloneInv'
  <1> DEFINE work == [Idle EXCEPT !.op = "model", !.value = v, !.file = "model",
                           !.seen = live["model"], !.next = Holding(v), !.pc = "open",
                           !.phase = c]
  <1>1. WorkOK(work) /\ work.op = "model" /\ Begin(w, work)
    BY UpdateWork
  <1>2. work.next.state = "whole" /\ work.pc = "open"
    BY DEF Idle, Holding
  <1> HIDE DEF work
  <1>3. UNCHANGED <<live, temp, history, crashes>>
    BY DEF UpdateModel
  <1>4. QED
    BY <1>1, <1>2, <1>3, AloneBegins

LEMMA RefuseAlone ==
  ASSUME TypeOK, AloneInv, NEW w \in Workers, Refuse(w)
  PROVE  AloneInv'
  <1>1. worker[w] # Idle /\ worker[w].pc = "open" /\ worker[w].file = FileOf(worker[w].key)
    BY Busy DEF Refuse
  <1>2. \A k \in Keys : (worker[w].key = k /\ OwnKey(w, k)) => Agrees(k)
    BY <1>1 DEF OwnKey, Staging
  <1>3. QED
    BY <1>1, <1>2, AloneFinishes DEF Refuse

\* A key's view of a request that only moves within the writing of a file.
LEMMA SameOwnKey ==
  ASSUME NEW w \in Workers, NEW k \in Keys, OwnKey(w, k),
         UNCHANGED <<live, history>>,
         Staging(worker[w]), Staging(worker'[w]),
         worker'[w].phase = worker[w].phase, worker'[w].value = worker[w].value,
         worker'[w].enabled = worker[w].enabled, worker'[w].file = worker[w].file,
         worker'[w].next = worker[w].next, worker'[w].seen = worker[w].seen
  PROVE  OwnKey(w, k)'
  BY SameLive, SameAgrees DEF OwnKey, Staging, AsRecorded

LEMMA OpenAlone ==
  ASSUME TypeOK, AloneInv, NEW w \in Workers, Open(w)
  PROVE  AloneInv'
  <1> DEFINE work == worker[w]
             new == [work EXCEPT !.pc = "write", !.fd = "temp"]
  <1>1. WorkOK(work) /\ work # Idle /\ work \in Working /\ work.pc = "open"
    BY AtWork, Busy DEF Open, WorkOK
  <1>2. /\ new.op = work.op /\ new.phase = work.phase /\ new.key = work.key
        /\ new.file = work.file /\ new.next = work.next /\ new.seen = work.seen
        /\ new.value = work.value /\ new.enabled = work.enabled
        /\ new.pc = "write" /\ new.fd = "temp"
    BY <1>1 DEF Working
  <1> HIDE DEF new
  <1>3. /\ Move(w, new) /\ temp' = [temp EXCEPT ![work.file] = Emptied(work.file)]
        /\ UNCHANGED <<live, history, requests, crashes, overlapped, unlisted>>
    BY DEF Open, new
  <1>4. worker'[w] = new
    BY <1>3 DEF Move, TypeOK
  <1>5. ASSUME Alone
        PROVE  /\ \A f \in Files : Readable(f)'
               /\ PromptsEnabled'
               /\ new.next.state = "whole"
               /\ OwnTemp(w)'
               /\ \A k \in Keys :
                    IF new.op # "model" /\ new.key = k THEN OwnKey(w, k)' ELSE Agrees(k)'
    <2>1. Undisturbed(w) /\ (\A f \in Files : Readable(f)) /\ PromptsEnabled
      BY <1>1, <1>5, AloneBefore
    <2>2. (\A f \in Files : Readable(f)') /\ PromptsEnabled'
      BY <1>3, <2>1 DEF Readable, PromptsEnabled
    <2>3. OwnTemp(w)'
      <3>1. work.file \in Files
        BY <1>1 DEF Working
      <3>2. \A f \in Files : f # work.file => temp'[f] = Absent
        BY <1>3, <2>1 DEF Undisturbed, OwnTemp, TypeOK
      <3>3. temp'[work.file] = Emptied(work.file)
        BY <1>3, <3>1 DEF TypeOK
      <3>4. QED
        BY <1>2, <1>4, <3>2, <3>3 DEF OwnTemp
    <2>4. ASSUME NEW k \in Keys
          PROVE  IF new.op # "model" /\ new.key = k THEN OwnKey(w, k)' ELSE Agrees(k)'
      <3>1. CASE new.op # "model" /\ new.key = k
        <4>1. OwnKey(w, k)
          BY <1>2, <2>1, <3>1 DEF Undisturbed
        <4>2. QED
          BY <1>1, <1>2, <1>3, <1>4, <3>1, <4>1, SameOwnKey DEF Staging
      <3>2. CASE ~(new.op # "model" /\ new.key = k)
        BY <1>2, <1>3, <2>1, <3>2, SameAgrees DEF Undisturbed
      <3>3. QED
        BY <3>1, <3>2
    <2>5. QED
      BY <1>2, <2>1, <2>2, <2>3, <2>4 DEF Undisturbed
  <1>6. new # Idle
    BY <1>2 DEF Idle
  <1>7. QED
    BY <1>1, <1>3, <1>5, <1>6, AloneMoves

LEMMA WriteAlone ==
  ASSUME TypeOK, AloneInv, NEW w \in Workers, Write(w)
  PROVE  AloneInv'
  <1> DEFINE work == worker[w]
             new == [work EXCEPT !.pc = "replace", !.fd = "none"]
  <1>1. WorkOK(work) /\ work # Idle /\ work \in Working /\ work.pc = "write"
    BY AtWork, Busy DEF Write, WorkOK
  <1>2. /\ new.op = work.op /\ new.phase = work.phase /\ new.key = work.key
        /\ new.file = work.file /\ new.next = work.next /\ new.seen = work.seen
        /\ new.value = work.value /\ new.enabled = work.enabled
        /\ new.pc = "replace"
    BY <1>1 DEF Working
  <1> HIDE DEF new
  <1>3. Move(w, new) /\ UNCHANGED <<history, requests, crashes, overlapped>> /\ Watch
    BY DEF Write, new
  <1>4. worker'[w] = new
    BY <1>3 DEF Move, TypeOK
  <1>5. ASSUME Alone
        PROVE  /\ \A f \in Files : Readable(f)'
               /\ PromptsEnabled'
               /\ new.next.state = "whole"
               /\ OwnTemp(w)'
               /\ \A k \in Keys :
                    IF new.op # "model" /\ new.key = k THEN OwnKey(w, k)' ELSE Agrees(k)'
    <2>1. Undisturbed(w) /\ (\A f \in Files : Readable(f)) /\ PromptsEnabled
      BY <1>1, <1>5, AloneBefore
    <2>2. work.fd = "temp" /\ temp[work.file] = Emptied(work.file)
      BY <1>1, <2>1 DEF Undisturbed, OwnTemp
    <2>3. temp' = [temp EXCEPT ![work.file] = work.next] /\ live' = live
      BY <2>2 DEF Write, Overwritten
    <2>4. (\A f \in Files : Readable(f)') /\ PromptsEnabled'
      BY <1>3, <2>1, <2>3 DEF Readable, PromptsEnabled
    <2>5. OwnTemp(w)'
      <3>1. work.file \in Files
        BY <1>1 DEF Working
      <3>2. \A f \in Files : f # work.file => temp'[f] = Absent
        BY <2>1, <2>3 DEF Undisturbed, OwnTemp, TypeOK
      <3>3. temp'[work.file] = work.next
        BY <2>3, <3>1 DEF TypeOK
      <3>4. QED
        BY <1>2, <1>4, <3>2, <3>3 DEF OwnTemp
    <2>6. ASSUME NEW k \in Keys
          PROVE  IF new.op # "model" /\ new.key = k THEN OwnKey(w, k)' ELSE Agrees(k)'
      <3>1. CASE new.op # "model" /\ new.key = k
        <4>1. OwnKey(w, k)
          BY <1>2, <2>1, <3>1 DEF Undisturbed
        <4>2. QED
          BY <1>1, <1>2, <1>3, <1>4, <2>3, <3>1, <4>1, SameOwnKey DEF Staging
      <3>2. CASE ~(new.op # "model" /\ new.key = k)
        BY <1>2, <1>3, <2>1, <2>3, <3>2, SameAgrees DEF Undisturbed
      <3>3. QED
        BY <3>1, <3>2
    <2>7. QED
      BY <1>2, <2>1, <2>4, <2>5, <2>6 DEF Undisturbed
  <1>6. new # Idle
    BY <1>2 DEF Idle
  <1>7. QED
    BY <1>1, <1>3, <1>5, <1>6, AloneMoves

LEMMA LiveIsContent ==
  ASSUME NEW k \in Keys
  PROVE  LiveValue(k) = ValueAt(live[FileOf(k)], k) /\ LiveValue(k)' = ValueAt(live'[FileOf(k)], k)
  BY DEF LiveValue, ValueAt, FileOf

\* What a key's file, the registry and the endpoints' files say when they are moved
\* into place.
LEMMA KeyReplaced ==
  ASSUME TypeOK, NEW k \in Keys, NEW value \in Texts, live[FileOf(k)].state = "whole",
         live' = [live EXCEPT ![FileOf(k)] = Edited(FileOf(k), live[FileOf(k)], k, value)]
  PROVE  /\ LiveValue(k)' = value
         /\ \A j \in Keys \ {k} : LiveValue(j)' = LiveValue(j)
         /\ \A j \in Keys : LiveFlag(j)' = LiveFlag(j)
  <1> DEFINE new == Edited(FileOf(k), live[FileOf(k)], k, value)
  <1>1. FileOf(k) \in Files /\ FileOf(k) # "registry" /\ live[FileOf(k)] \in Content(FileOf(k))
    BY FileNames DEF TypeOK
  <1>2. /\ ValueAt(new, k) = value
        /\ \A j \in Keys \ {k} : FileOf(j) = FileOf(k) =>
             ValueAt(new, j) = ValueAt(live[FileOf(k)], j)
    BY <1>1, EditedContent
  <1> HIDE DEF new
  <1>3. live' = [live EXCEPT ![FileOf(k)] = new]
    BY DEF new
  <1>4. live'[FileOf(k)] = new /\ \A f \in Files : f # FileOf(k) => live'[f] = live[f]
    BY <1>1, <1>3 DEF TypeOK
  <1>5. live'["registry"] = live["registry"]
    BY <1>1, <1>4 DEF Files
  <1>6. \A j \in Keys \ {k} : LiveValue(j)' = LiveValue(j)
    BY <1>2, <1>4, LiveIsContent, FileNames
  <1>7. QED
    BY <1>2, <1>4, <1>5, <1>6, LiveIsContent DEF LiveFlag

LEMMA RegistryReplaced ==
  ASSUME TypeOK, NEW t \in Templates, NEW enabled \in BOOLEAN, Readable("registry"),
         live' = [live EXCEPT !["registry"] =
                    Holding([live["registry"].value EXCEPT ![t] = enabled])]
  PROVE  /\ LiveFlag(t)' = enabled
         /\ \A j \in Keys \ {t} : LiveFlag(j)' = LiveFlag(j)
         /\ \A j \in Keys : LiveValue(j)' = LiveValue(j)
  <1> DEFINE flags == [live["registry"].value EXCEPT ![t] = enabled]
             new == Holding(flags)
  <1>1. "registry" \in Files /\ live["registry"] \in Content("registry")
    BY DEF TypeOK, Files
  <1>2. /\ new.value = flags /\ flags[t] = enabled
        /\ \A u \in Templates \ {t} : flags[u] = live["registry"].value[u]
    BY <1>1, RegistryContent DEF Readable
  <1> HIDE DEF new, flags
  <1>3. live' = [live EXCEPT !["registry"] = new]
    BY DEF new, flags
  <1>4. live'["registry"] = new /\ \A f \in Files : f # "registry" => live'[f] = live[f]
    BY <1>1, <1>3 DEF TypeOK
  <1>5. \A j \in Keys : LiveValue(j)' = LiveValue(j)
    BY <1>4, LiveIsContent, FileNames
  <1>6. live'["registry"].value[t] = enabled
    BY <1>2, <1>4
  <1>7. LiveFlag(t)' = enabled
    BY <1>6 DEF LiveFlag
  <1>8. ASSUME NEW j \in Keys \ {t}
        PROVE  LiveFlag(j)' = LiveFlag(j)
    <2>1. j \in Templates => live'["registry"].value[j] = live["registry"].value[j]
      BY <1>2, <1>4
    <2>2. QED
      BY <2>1 DEF LiveFlag
  <1>9. QED
    BY <1>5, <1>7, <1>8

LEMMA EndpointsReplaced ==
  ASSUME TypeOK, NEW f \in {"model", "env"}, NEW content, live' = [live EXCEPT ![f] = content]
  PROVE  \A j \in Keys : LiveValue(j)' = LiveValue(j) /\ LiveFlag(j)' = LiveFlag(j)
  <1>1. \A g \in Files : g # f => live'[g] = live[g]
    BY DEF TypeOK
  <1>2. live'["registry"] = live["registry"]
    BY <1>1 DEF Files
  <1>3. \A j \in Keys : LiveValue(j)' = LiveValue(j)
    BY <1>1, LiveIsContent, FileNames
  <1>4. QED
    BY <1>2, <1>3 DEF LiveFlag

\* What is in place and what the histories say after an undisturbed replace.
LEMMA ReplaceAloneKeys ==
  ASSUME TypeOK, NEW w \in Workers, worker[w] # Idle, worker[w].pc = "replace",
         WorkOK(worker[w]), Undisturbed(w), \A f \in Files : Readable(f),
         live' = [live EXCEPT ![worker[w].file] = worker[w].next], history' = history,
         worker' = [worker EXCEPT ![w] = AfterReplace(w)]
  PROVE  \A k \in Keys :
           IF AfterReplace(w) # Idle /\ AfterReplace(w).op # "model" /\ AfterReplace(w).key = k
           THEN OwnKey(w, k)' ELSE Agrees(k)'
  <1> DEFINE work == worker[w]
             new == AfterReplace(w)
  <1>1. work \in Working /\ worker'[w] = new
    BY DEF WorkOK, TypeOK
  <1>2. CASE work.op = "model"
    <2>1. work.file \in {"model", "env"}
      BY <1>2 DEF WorkOK, ModelWork
    <2>2. new = Idle \/ new.op = "model"
      BY <1>1, <1>2, <2>1 DEF AfterReplace, Working
    <2> HIDE DEF new
    <2>3. \A j \in Keys : Agrees(j)
      BY <1>2 DEF Undisturbed
    <2>4. \A j \in Keys : Agrees(j)'
      BY <2>1, <2>3, EndpointsReplaced DEF Agrees, AgreesWith, AsRecorded
    <2>5. QED
      BY <2>2, <2>4 DEF new
  <1>3. CASE work.op # "model"
    <2>0. PICK k \in Keys : k = work.key
      BY <1>3 DEF WorkOK, KeyWork
    <2>1. KeyWork(work) /\ k \in Keys /\ work.value \in Texts /\ work.enabled \in BOOLEAN
      BY <1>1, <1>3 DEF WorkOK, KeyWork, Working
    <2>2. OwnKey(w, k) /\ \A j \in Keys \ {k} : Agrees(j)
      BY <1>3, <2>0, <2>1 DEF Undisturbed
    <2>3. work.phase = "version"
      BY <2>1 DEF KeyWork
    <2>4. CASE work.file = FileOf(k)
      <3>1. work.next = Edited(FileOf(k), live[FileOf(k)], k, work.value)
        BY <2>2, <2>4 DEF OwnKey, Staging
      <3>2. live[FileOf(k)].state = "whole"
        BY <2>1, FileNames DEF Readable
      <3>3. /\ LiveValue(k)' = work.value
            /\ \A j \in Keys \ {k} : LiveValue(j)' = LiveValue(j)
            /\ \A j \in Keys : LiveFlag(j)' = LiveFlag(j)
        <4>1. live' = [live EXCEPT ![FileOf(k)] =
                         Edited(FileOf(k), live[FileOf(k)], k, work.value)]
          BY <2>4, <3>1
        <4>2. QED
          BY <2>1, <3>2, <4>1, KeyReplaced
      <3>4. \A j \in Keys \ {k} : Agrees(j)'
        BY <2>2, <3>3 DEF Agrees, AgreesWith, AsRecorded
      <3>5. CASE k \in Prompts
        <4>1. new = [work EXCEPT !.pc = "number"]
          BY <2>4, <3>5, FileNames DEF AfterReplace
        <4>2. /\ new.pc = "number" /\ new.op = work.op /\ new.key = k /\ new.file = work.file
              /\ new.value = work.value /\ new.enabled = work.enabled
              /\ new.phase = "version"
          BY <1>1, <2>0, <2>3, <4>1 DEF Working
        <4> HIDE DEF new
        <4>3. LiveFlag(k)' = TRUE
          <5>1. k \notin Templates
            BY <3>5, FileNames
          <5>2. QED
            BY <5>1 DEF LiveFlag
        <4>4. work.enabled = TRUE
          BY <2>2, <3>5 DEF OwnKey
        <4>5. work.file # "registry"
          BY <2>1, <2>4, FileNames
        <4>6. OwnKey(w, k)'
          BY <1>1, <3>3, <3>5, <4>2, <4>3, <4>4, <4>5 DEF OwnKey, Staging, AsRecorded
        <4>7. new # Idle
          BY <4>2 DEF Idle
        <4>8. QED
          BY <1>3, <3>4, <4>2, <4>6, <4>7 DEF new
      <3>6. CASE k \in Templates
        <4>1. work.file = k /\ k \notin {"prompts", "registry", "model", "env"}
          BY <2>4, <3>6, FileNames, KeysAssumption
        <4>2. new = [work EXCEPT !.pc = "registry"]
          BY <4>1 DEF AfterReplace
        <4>3. /\ new.pc = "registry" /\ new.op = work.op /\ new.key = k /\ new.file = work.file
              /\ new.value = work.value /\ new.enabled = work.enabled
              /\ new.phase = "version"
          BY <1>1, <2>0, <2>3, <4>2 DEF Working
        <4> HIDE DEF new
        <4>4. k \notin Prompts
          BY <3>6, FileNames
        <4>5. OwnKey(w, k)'
          BY <1>1, <3>3, <4>1, <4>3, <4>4 DEF OwnKey, Staging
        <4>6. new # Idle
          BY <4>3 DEF Idle
        <4>7. QED
          BY <1>3, <3>4, <4>3, <4>5, <4>6 DEF new
      <3>7. QED
        BY <2>1, <3>5, <3>6 DEF Keys
    <2>5. CASE work.file = "registry" /\ work.file # FileOf(k)
      <3>1. k \in Templates
        BY <2>0, <2>1, <2>5 DEF KeyWork
      <3>2. /\ work.next = Holding([live["registry"].value EXCEPT ![k] = work.enabled])
        BY <2>2, <2>5 DEF OwnKey, Staging
      <3>3. /\ LiveFlag(k)' = work.enabled
            /\ \A j \in Keys \ {k} : LiveFlag(j)' = LiveFlag(j)
            /\ \A j \in Keys : LiveValue(j)' = LiveValue(j)
        <4>1. live' = [live EXCEPT !["registry"] =
                         Holding([live["registry"].value EXCEPT ![k] = work.enabled])]
          BY <2>5, <3>2
        <4>2. Readable("registry")
          BY DEF Files
        <4>3. QED
          BY <2>1, <3>1, <4>1, <4>2, RegistryReplaced
      <3>4. \A j \in Keys \ {k} : Agrees(j)'
        BY <2>2, <3>3 DEF Agrees, AgreesWith, AsRecorded
      <3>5. new = [work EXCEPT !.pc = "read"]
        BY <2>5 DEF AfterReplace
      <3>6. /\ new.pc = "read" /\ new.op = work.op /\ new.key = k /\ new.file = work.file
            /\ new.value = work.value /\ new.enabled = work.enabled
            /\ new.phase = "version"
        BY <1>1, <2>0, <2>3, <3>5 DEF Working
      <3> HIDE DEF new
      <3>7. k \notin Prompts
        BY <3>1, FileNames
      <3>8. OwnKey(w, k)'
        BY <1>1, <2>1, <2>5, <3>2, <3>3, <3>6, <3>7 DEF OwnKey, Staging
      <3>9. new # Idle
        BY <3>6 DEF Idle
      <3>10. QED
        BY <1>3, <3>4, <3>6, <3>8, <3>9 DEF new
    <2>6. QED
      BY <2>0, <2>1, <2>4, <2>5 DEF KeyWork
  <1>4. QED
    BY <1>2, <1>3

LEMMA ReplaceAlone ==
  ASSUME TypeOK, AloneInv, NEW w \in Workers, Replace(w)
  PROVE  AloneInv'
  <1> DEFINE work == worker[w]
             f == work.file
             new == AfterReplace(w)
  <1>1. WorkOK(work) /\ work # Idle /\ work \in Working /\ work.pc = "replace"
    BY AtWork, Busy DEF Replace, WorkOK
  <1>2. f \in Files /\ UNCHANGED <<history, requests, crashes, overlapped>> /\ Watch
    BY <1>1 DEF Working, Replace
  <1>3. ASSUME Alone
        PROVE  /\ Move(w, new)
               /\ \A g \in Files : Readable(g)'
               /\ PromptsEnabled'
               /\ IF new = Idle THEN Rest'
                  ELSE /\ new.next.state = "whole"
                       /\ OwnTemp(w)'
                       /\ \A k \in Keys :
                            IF new.op # "model" /\ new.key = k THEN OwnKey(w, k)' ELSE Agrees(k)'
    <2>1. Undisturbed(w) /\ (\A g \in Files : Readable(g)) /\ PromptsEnabled
      BY <1>1, <1>3, AloneBefore
    <2>2. /\ \A v \in Workers \ {w} : worker[v] = Idle
          /\ work.next.state = "whole" /\ temp[f] = work.next
          /\ \A g \in Files : g # f => temp[g] = Absent
      BY <1>1, <2>1 DEF Undisturbed, OwnTemp
    <2>3. worker' = [worker EXCEPT ![w] = new]
      <3>1. \A v \in Workers \ {w} : worker'[v] = worker[v]
        BY <1>2, <2>2, KeysAssumption DEF Replace, Idle, Files
      <3>2. worker'[w] = new /\ worker' = [v \in Workers |-> worker'[v]]
        BY DEF Replace
      <3> HIDE DEF new
      <3>3. QED
        BY <3>1, <3>2 DEF TypeOK
    <2>4. live' = [live EXCEPT ![f] = work.next] /\ temp' = [temp EXCEPT ![f] = Absent]
      BY <2>2 DEF Replace
    <2>5. \A g \in Files : Readable(g)' /\ temp'[g] = Absent
      BY <1>2, <2>1, <2>2, <2>4 DEF Readable, TypeOK
    <2>6. PromptsEnabled'
      BY <1>2, <2>1 DEF PromptsEnabled
    <2>7. \A k \in Keys : IF new # Idle /\ new.op # "model" /\ new.key = k
                          THEN OwnKey(w, k)' ELSE Agrees(k)'
      BY <1>1, <1>2, <2>1, <2>3, <2>4, ReplaceAloneKeys
    <2>8. new # Idle => new.next.state = "whole" /\ new.pc \notin {"write", "replace"}
                        /\ new.file \in Files
      BY <1>1, <1>2, <2>2 DEF AfterReplace, Working
    <2>9. worker'[w] = new
      BY <2>3 DEF TypeOK
    <2> HIDE DEF new
    <2>10. new # Idle => OwnTemp(w)'
      BY <2>5, <2>8, <2>9 DEF OwnTemp
    <2>11. QED
      BY <2>3, <2>5, <2>6, <2>7, <2>8, <2>10 DEF Move, Rest
  <1> HIDE DEF new
  <1>4. QED
    BY <1>1, <1>2, <1>3, AloneMoves

LEMMA ReplaceFailsAlone ==
  ASSUME TypeOK, AloneInv, NEW w \in Workers, ReplaceFails(w)
  PROVE  AloneInv'
  <1>1. worker[w] # Idle
    BY Busy DEF ReplaceFails
  <1>2. ~Alone
    BY <1>1, AloneBefore, Unreadable DEF Undisturbed, OwnTemp, ReplaceFails
  <1>3. QED
    BY <1>2 DEF AloneInv, Alone, ReplaceFails

\* A request that moves on without touching a file or a history, in detail.
LEMMA AloneReads ==
  ASSUME TypeOK, AloneInv, NEW w \in Workers, worker[w] # Idle, NEW work, Move(w, work),
         UNCHANGED <<live, temp, history, crashes, overlapped, unlisted>>,
         worker[w].pc \notin {"write", "replace"}, work.pc \notin {"write", "replace", "idle"},
         work.op = worker[w].op, work.key = worker[w].key, work.file \in Files,
         Undisturbed(w) /\ (\A f \in Files : Readable(f)) =>
           /\ work.next.state = "whole"
           /\ \A k \in Keys : worker[w].op # "model" /\ worker[w].key = k /\ OwnKey(w, k)
                => OwnKey(w, k)'
  PROVE  AloneInv'
  <1>1. work # Idle /\ worker'[w] = work
    BY DEF Idle, Move, TypeOK
  <1>2. ASSUME Alone
        PROVE  /\ \A f \in Files : Readable(f)'
               /\ PromptsEnabled'
               /\ work.next.state = "whole"
               /\ OwnTemp(w)'
               /\ \A k \in Keys :
                    IF work.op # "model" /\ work.key = k THEN OwnKey(w, k)' ELSE Agrees(k)'
    <2>1. Undisturbed(w) /\ (\A f \in Files : Readable(f)) /\ PromptsEnabled
      BY <1>2, AloneBefore
    <2>2. (\A f \in Files : Readable(f)') /\ PromptsEnabled'
      BY <2>1 DEF Readable, PromptsEnabled
    <2>3. \A f \in Files : temp[f] = Absent
      BY <2>1 DEF Undisturbed, OwnTemp
    <2>4. OwnTemp(w)'
      BY <1>1, <2>3 DEF OwnTemp
    <2>5. ASSUME NEW k \in Keys
          PROVE  IF work.op # "model" /\ work.key = k THEN OwnKey(w, k)' ELSE Agrees(k)'
      <3>1. CASE work.op # "model" /\ work.key = k
        BY <2>1, <3>1 DEF Undisturbed
      <3>2. CASE ~(work.op # "model" /\ work.key = k)
        BY <2>1, <3>2, SameAgrees DEF Undisturbed
      <3>3. QED
        BY <3>1, <3>2
    <2>6. QED
      BY <2>1, <2>2, <2>4, <2>5
  <1>3. QED
    BY <1>1, <1>2, AloneMoves

LEMMA LoadRegistryAlone ==
  ASSUME TypeOK, AloneInv, NEW w \in Workers, LoadRegistry(w)
  PROVE  AloneInv'
  <1> DEFINE work == worker[w]
             next == Holding([live["registry"].value EXCEPT ![work.key] = work.enabled])
             new == [work EXCEPT !.pc = "open", !.file = "registry", !.next = next]
  <1>1. /\ WorkOK(work) /\ work # Idle /\ work \in Working /\ work.pc = "registry"
        /\ work.phase # "baseline" /\ work.op # "model" /\ work.key \in Templates
    BY AtWork, Busy, StagesVersion DEF LoadRegistry, WorkOK, ModelWork, KeyWork
  <1>2. CASE Move(w, new)
    <2>1. /\ new.pc = "open" /\ new.op = work.op /\ new.key = work.key
          /\ new.value = work.value /\ new.enabled = work.enabled
          /\ new.file = "registry" /\ new.next = next
          /\ new.seen = work.seen /\ new.phase = work.phase
      BY <1>1 DEF Working
    <2>2. next.state = "whole"
      BY DEF Holding
    <2> HIDE DEF new
    <2>3. worker'[w] = new /\ live' = live
      BY <1>2 DEF LoadRegistry, Move, TypeOK
    <2>4. ASSUME NEW k \in Keys, work.key = k, OwnKey(w, k)
          PROVE  OwnKey(w, k)'
      <3>2. FileOf(k) # "registry" /\ k \notin Prompts
        BY <1>1, <2>4, FileNames
      <3>4. new.next = Holding([live["registry"].value EXCEPT ![k] = work.enabled])
        BY <2>1, <2>4
      <3>5. QED
        BY <1>1, <2>1, <2>3, <3>2, <3>4 DEF OwnKey, Staging
    <2>5. QED
      BY <1>1, <1>2, <2>1, <2>2, <2>4, AloneReads DEF LoadRegistry, Files
  <1>3. CASE ~Readable("registry") /\ Finish(w)
    <2>1. ~Alone
      BY <1>1, <1>3, AloneBefore DEF Files
    <2>2. QED
      BY <2>1 DEF AloneInv, Alone, LoadRegistry
  <1>4. QED
    BY <1>2, <1>3 DEF LoadRegistry

LEMMA ReadBackAlone ==
  ASSUME TypeOK, AloneInv, NEW w \in Workers, ReadBack(w)
  PROVE  AloneInv'
  <1> DEFINE work == worker[w]
             new == [work EXCEPT !.pc = "number", !.value = Shown[live[work.key].value],
                                 !.enabled = live["registry"].value[work.key]]
  <1>1. /\ WorkOK(work) /\ work # Idle /\ work \in Working /\ work.pc = "read"
        /\ work.phase # "baseline" /\ work.op # "model"
        /\ work.key \in Templates /\ work.file = "registry"
    BY AtWork, Busy, StagesVersion DEF ReadBack, WorkOK, ModelWork, KeyWork
  <1>2. CASE Listable /\ Move(w, new)
    <2>1. /\ new.pc = "number" /\ new.op = work.op /\ new.key = work.key
          /\ new.value = Shown[live[work.key].value]
          /\ new.enabled = live["registry"].value[work.key]
          /\ new.file = work.file /\ new.next = work.next
          /\ new.seen = work.seen /\ new.phase = work.phase
      BY <1>1 DEF Working
    <2> HIDE DEF new
    <2>2. worker'[w] = new /\ live' = live
      BY <1>2 DEF ReadBack, Move, TypeOK
    <2>3. ASSUME NEW k \in Keys, work.key = k, OwnKey(w, k)
          PROVE  OwnKey(w, k)'
      <3>2. FileOf(k) # "registry" /\ k \notin Prompts
        BY <1>1, <2>3, FileNames
      <3>3. new.value = AsRecorded(k, LiveValue(k))
        BY <2>1, <2>3, <3>2 DEF LiveValue, AsRecorded
      <3>4. live["registry"].value[k] \in BOOLEAN
        <4>1. "registry" \in Files /\ live["registry"] \in Content("registry")
          BY DEF Files, TypeOK
        <4>2. live["registry"].state = "whole"
          BY <1>2 DEF Listable, ListableIn
        <4>3. QED
          BY <1>1, <2>3, <4>1, <4>2, WholeContent, Meanings
      <3>5. new.enabled = LiveFlag(k)
        BY <1>1, <2>1, <2>3, <3>4 DEF LiveFlag
      <3>6. LiveValue(k)' = LiveValue(k) /\ LiveFlag(k)' = LiveFlag(k)
        BY <2>2, SameLive
      <3>7. QED
        BY <1>1, <2>1, <2>2, <3>2, <3>3, <3>5, <3>6 DEF OwnKey, Staging, AsRecorded
    <2>4. QED
      BY <1>1, <1>2, <2>1, <2>3, AloneReads DEF ReadBack, Files, Undisturbed
  <1>3. CASE ~Listable /\ Finish(w)
    <2>1. ~Alone
      BY <1>1, <1>3, AloneBefore
    <2>2. QED
      BY <2>1 DEF AloneInv, Alone, ReadBack
  <1>4. QED
    BY <1>2, <1>3 DEF ReadBack

LEMMA StoreAlone ==
  ASSUME TypeOK, AloneInv, NEW w \in Workers, StoreCredentials(w)
  PROVE  AloneInv'
  <1> DEFINE work == worker[w]
             new == [work EXCEPT !.pc = "open", !.file = "env"]
  <1>1. /\ WorkOK(work) /\ work # Idle /\ work \in Working /\ work.pc = "credentials"
        /\ work.op = "model"
    BY AtWork, Busy DEF StoreCredentials, WorkOK, KeyWork
  <1>2. /\ new.op = work.op /\ new.key = work.key /\ new.pc = "open" /\ new.file = "env"
        /\ new.next = work.next
    BY <1>1 DEF Working
  <1> HIDE DEF new
  <1>3. Move(w, new)
    BY DEF StoreCredentials, new
  <1>4. QED
    BY <1>1, <1>2, <1>3, AloneReads DEF StoreCredentials, Files, Undisturbed

LEMMA CredentialsEndAlone ==
  ASSUME TypeOK, AloneInv, NEW w \in Workers, NoCredentials(w) \/ RefuseCredentials(w)
  PROVE  AloneInv'
  <1>1. worker[w] # Idle /\ worker[w].pc = "credentials"
    BY Busy DEF NoCredentials, RefuseCredentials
  <1>2. worker[w].op = "model"
    BY <1>1, AtWork DEF WorkOK, KeyWork
  <1>3. QED
    BY <1>1, <1>2, AloneFinishes DEF NoCredentials, RefuseCredentials

LEMMA NumberAlone ==
  ASSUME TypeOK, AloneInv, NEW w \in Workers, Number(w)
  PROVE  AloneInv'
  <1> DEFINE work == worker[w]
             new == [work EXCEPT !.pc = "record", !.number = NextNumber(work.key)]
  <1>1. /\ WorkOK(work) /\ work # Idle /\ work \in Working /\ work.pc = "number"
    BY AtWork, Busy DEF Number, WorkOK
  <1>2. /\ new.pc = "record" /\ new.op = work.op /\ new.key = work.key
        /\ new.value = work.value /\ new.enabled = work.enabled
        /\ new.file = work.file /\ new.next = work.next
        /\ new.seen = work.seen /\ new.phase = work.phase
    BY <1>1 DEF Working
  <1> HIDE DEF new
  <1>3. Move(w, new)
    BY DEF Number, new
  <1>4. worker'[w] = new /\ live' = live /\ history' = history
    BY <1>3 DEF Number, Move, TypeOK
  <1>5. ASSUME NEW k \in Keys, OwnKey(w, k)
        PROVE  OwnKey(w, k)'
    BY <1>1, <1>2, <1>4, <1>5, SameLive, SameAgrees DEF OwnKey, Staging, AsRecorded
  <1>6. QED
    BY <1>1, <1>2, <1>3, <1>5, AloneReads DEF Number, Undisturbed, Working

\* A key agrees with what is live after its version is recorded.
LEMMA RecordAlone ==
  ASSUME TypeOK, AloneInv, NEW w \in Workers, Record(w)
  PROVE  AloneInv'
  <1> DEFINE work == worker[w]
             written == Written(work)
             new == [work EXCEPT !.pc = "open", !.phase = "version"]
  <1>1. /\ WorkOK(work) /\ work # Idle /\ work \in Working /\ work.pc = "record"
        /\ work.op # "model" /\ KeyWork(work) /\ written \in Version
        /\ history' = [history EXCEPT ![work.key] = Append(history[work.key], written)]
    BY RecordWrites, Busy DEF Record, WorkOK
  <1>2. PICK k \in Keys : k = work.key
    BY <1>1 DEF KeyWork
  <1>3. /\ live' = live /\ temp' = temp /\ UNCHANGED <<crashes, overlapped, unlisted>>
        /\ IF work.phase = "baseline" THEN Move(w, new) ELSE Move(w, Idle)
    BY DEF Record, Finish
  <1>4. /\ new.pc = "open" /\ new.op = work.op /\ new.key = work.key
        /\ new.value = work.value /\ new.enabled = work.enabled
        /\ new.file = work.file /\ new.next = work.next
        /\ new.phase = "version"
    BY <1>1 DEF Working
  <1>5. /\ work.phase = "baseline" => written.value = AsRecorded(k, ValueAt(work.seen, k))
                                      /\ written.enabled = TRUE
        /\ work.phase # "baseline" => written.value = work.value
                                      /\ written.enabled = work.enabled
    BY <1>2 DEF Written
  <1> HIDE DEF written, new
  <1>6. /\ history'[k] = Append(history[k], written)
        /\ history[k] \in Seq(Version)
        /\ \A j \in Keys \ {k} : history'[j] = history[j]
    BY <1>1, <1>2 DEF TypeOK
  <1>7. ASSUME Alone
        PROVE  /\ \A f \in Files : Readable(f)'
               /\ PromptsEnabled'
               /\ \A f \in Files : temp'[f] = Absent
               /\ \A j \in Keys : Agrees(j)'
               /\ work.phase = "baseline" => OwnKey(w, k)'
               /\ work.next.state = "whole"
    <2>1. Undisturbed(w) /\ (\A f \in Files : Readable(f)) /\ PromptsEnabled
      BY <1>1, <1>7, AloneBefore
    <2>2. OwnKey(w, k) /\ \A j \in Keys \ {k} : Agrees(j)
      BY <1>1, <1>2, <2>1 DEF Undisturbed
    <2>3. written.value = AsRecorded(k, LiveValue(k)) /\ written.enabled = LiveFlag(k)
      <3>1. CASE work.phase = "baseline"
        <4>1. work.file = FileOf(k) /\ work.seen = live[FileOf(k)] /\ history[k] = <<>>
          BY <1>1, <1>2, <2>2, <3>1 DEF KeyWork, OwnKey
        <4>2. Agrees(k)
          BY <2>2, <3>1, <4>1 DEF OwnKey
        <4>3. LiveFlag(k) = TRUE
          BY <4>1, <4>2 DEF Agrees, AgreesWith
        <4>4. QED
          BY <1>5, <3>1, <4>1, <4>3, LiveIsContent
      <3>2. CASE work.phase # "baseline"
        <4>1. work.phase = "version"
          BY <1>1, <3>2 DEF KeyWork
        <4>2. work.value = AsRecorded(k, LiveValue(k)) /\ LiveFlag(k) = work.enabled
          BY <1>1, <2>2, <4>1 DEF OwnKey
        <4>3. QED
          BY <1>5, <3>2, <4>2
      <3>3. QED
        BY <3>1, <3>2
    <2>4. Agrees(k)'
      <3>1. history'[k] # <<>> /\ history'[k][Len(history'[k])] = written
        BY <1>1, <1>6
      <3>2. LiveValue(k)' = LiveValue(k) /\ LiveFlag(k)' = LiveFlag(k)
        BY <1>3, SameLive
      <3>3. QED
        BY <2>3, <3>1, <3>2 DEF Agrees, AgreesWith, AsRecorded
    <2>5. \A j \in Keys \ {k} : Agrees(j)'
      BY <1>3, <1>6, <2>2, SameLive DEF Agrees, AgreesWith, AsRecorded
    <2>6. ASSUME work.phase = "baseline"
          PROVE  OwnKey(w, k)'
      <3>1. worker'[w] = new
        BY <1>3, <2>6 DEF Move, TypeOK
      <3>2. /\ work.file = FileOf(k) /\ FileOf(k) # "registry"
            /\ work.next = Edited(work.file, live[work.file], k, work.value)
            /\ k \in Prompts => work.enabled = TRUE
        BY <1>1, <1>2, <2>2, <2>6, FileNames DEF KeyWork, OwnKey
      <3>3. QED
        BY <1>3, <1>4, <2>4, <3>1, <3>2 DEF OwnKey, Staging
    <2>7. PromptsEnabled'
      <3> SUFFICES ASSUME NEW p \in Prompts, NEW i \in DOMAIN history'[p]
                   PROVE  history'[p][i].enabled = TRUE
        BY DEF PromptsEnabled
      <3>1. CASE p # k
        BY <1>6, <2>1, <3>1 DEF PromptsEnabled, Keys
      <3>2. CASE p = k
        <4>1. written.enabled = TRUE
          BY <1>5, <2>2, <3>2 DEF OwnKey
        <4>2. i \in 1..Len(history[k]) + 1
          BY <1>1, <1>6, <3>2
        <4>3. CASE i = Len(history[k]) + 1
          <5>1. history'[p][i] = written
            BY <1>6, <3>2, <4>3
          <5>2. QED
            BY <4>1, <5>1
        <4>4. CASE i # Len(history[k]) + 1
          <5>1. i \in DOMAIN history[k] /\ history'[p][i] = history[k][i]
            BY <1>6, <3>2, <4>2, <4>4
          <5>2. QED
            BY <2>1, <3>2, <5>1 DEF PromptsEnabled
        <4>5. QED
          BY <4>3, <4>4
      <3>3. QED
        BY <3>1, <3>2
    <2>8. QED
      BY <1>1, <1>3, <2>1, <2>4, <2>5, <2>6, <2>7 DEF Undisturbed, OwnTemp, Readable
  <1>8. CASE work.phase = "baseline"
    <2>1. worker'[w] = new /\ Move(w, new)
      BY <1>3, <1>8 DEF Move, TypeOK
    <2>2. new # Idle /\ work.file \in Files
      BY <1>1, <1>4 DEF Idle, Working
    <2>3. Alone => OwnTemp(w)'
      BY <1>4, <1>7, <2>1, <2>2 DEF OwnTemp
    <2>4. QED
      BY <1>1, <1>2, <1>3, <1>4, <1>7, <1>8, <2>1, <2>2, <2>3, AloneMoves
  <1>9. CASE work.phase # "baseline"
    <2>1. Move(w, Idle)
      BY <1>3, <1>9
    <2>2. Alone => Rest'
      BY <1>7 DEF Rest
    <2>3. QED
      BY <1>1, <1>3, <1>7, <2>1, <2>2, AloneMoves
  <1>10. QED
    BY <1>8, <1>9

LEMMA AloneStep == TypeOK /\ AloneInv /\ [Next]_vars => AloneInv'
  <1> SUFFICES ASSUME TypeOK, AloneInv, [Next]_vars
               PROVE  AloneInv'
    OBVIOUS
  <1>1. ASSUME NEW w \in Workers, Request(w)
        PROVE  AloneInv'
    BY <1>1, PublishAlone, RollBackAlone, UpdateAlone DEF Request
  <1>2. ASSUME NEW w \in Workers, Step(w)
        PROVE  AloneInv'
    BY <1>2, RefuseAlone, OpenAlone, WriteAlone, ReplaceAlone, ReplaceFailsAlone,
       LoadRegistryAlone, ReadBackAlone, StoreAlone, CredentialsEndAlone, NumberAlone,
       RecordAlone DEF Step
  <1>3. CASE Crash
    <2>1. crashes' # 0
      BY <1>3 DEF Crash, TypeOK
    <2>2. QED
      BY <2>1 DEF AloneInv, Alone
  <1>4. CASE UNCHANGED vars
    <2>1. \A k \in Keys : Agrees(k)' <=> Agrees(k)
      BY <1>4, SameAgrees DEF vars
    <2>2. \A w \in Workers : \A k \in Keys : OwnKey(w, k)' <=> OwnKey(w, k)
      BY <1>4, <2>1, SameLive DEF vars, OwnKey, AsRecorded
    <2>3. \A w \in Workers : OwnTemp(w)' <=> OwnTemp(w)
      BY <1>4 DEF vars, OwnTemp
    <2>4. \A w \in Workers : Undisturbed(w)' <=> Undisturbed(w)
      BY <1>4, <2>1, <2>2, <2>3 DEF vars, Undisturbed
    <2>5. Rest' <=> Rest
      BY <1>4, <2>1 DEF vars, Rest
    <2>6. QED
      BY <1>4, <2>4, <2>5 DEF vars, AloneInv, Alone, Quiet, Readable, Listable, ListableIn,
                              PromptsEnabled
  <1>5. QED
    BY <1>1, <1>2, <1>3, <1>4 DEF Next

LEMMA AloneAlways == Spec => [](TypeOK /\ AloneInv)
  BY TypeInit, TypeStep, NewestInit, AloneStep, PTL DEF Spec

LEMMA RestIsNewest == AloneInv => NewestIsLive
  <1> SUFFICES ASSUME AloneInv, InTurn, ~unlisted, NEW k \in Keys, history[k] # <<>>
               PROVE  /\ Newest(k).value = AsRecorded(k, LiveValue(k))
                      /\ Newest(k).enabled = LiveFlag(k)
    BY DEF NewestIsLive
  <1>1. Agrees(k)
    BY DEF AloneInv, Alone, InTurn, Rest
  <1>2. QED
    BY <1>1 DEF Agrees, AgreesWith, Newest

\* Between requests that follow one another and run to their end, and as long as
\* every template can be shown, the newest version in the list is the text as it is
\* shown, and the flag, of what is live.
THEOREM NewestStaysLive == Spec => []NewestIsLive
  BY AloneAlways, RestIsNewest, PTL

================================================================================
