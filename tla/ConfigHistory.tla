----------------------------- MODULE ConfigHistory -----------------------------
(***************************************************************************)
(* Runtime configuration: prompts, SQL templates, model endpoints.         *)
(*                                                                         *)
(*   routes/model_config.py    publish, roll back, update                  *)
(*   model/configuration.py    the files and the history of versions       *)
(*   query/templates.py        a file for every template, and a registry   *)
(*   core/env_file.py          the credentials of the models               *)
(*                                                                         *)
(* All prompts live in one file; a template has a file of its own and a    *)
(* flag in the registry.  A request reads what is there, records it as the  *)
(* baseline if the history is empty, stages the new content in a temporary  *)
(* file, moves that over the live one and records the version.  Nothing     *)
(* locks: every step is one system call on files all requests share.        *)
(*                                                                         *)
(* What a file holds is one value per key.  A prompt is stored and recorded  *)
(* as it is.  The text of a template may have variables, the names of tables *)
(* and columns: the file keeps them, administrators are shown, and the       *)
(* history records, the text with the names the program is built with, and   *)
(* the service queries with the names of its settings.                       *)
(*                                                                         *)
(* Handlers of the configuration's readers only ever load a file and are    *)
(* the operators Readable and Listable.                                     *)
(***************************************************************************)
EXTENDS Integers, Sequences, FiniteSets

CONSTANTS
  Prompts, Templates,
  Texts,         \* the texts of prompts and templates
  Values,        \* those an administrator submits
  Shown,         \* [Texts -> what the administration renders of a template]
  Unrendered,    \* nothing: the text has a variable nobody knows
  Blank, Garbled,  \* of an emptied file, and of a file two requests have mixed
  Settings,      \* model configurations
  Original,      \* what a file holds after the installation
  Workers,       \* requests of administrators
  MaxRequests, MaxCrashes  \* bounds

Keys == Prompts \cup Templates

ASSUME KeysAssumption ==
  /\ Prompts \cap Templates = {}
  /\ Templates \cap {"prompts", "registry", "model", "env", "none"} = {}
ASSUME TextsAssumption ==
  /\ Values \subseteq Texts \ {Original, Blank}
  /\ {Original, Blank, Garbled} \subseteq Texts
  /\ Unrendered \notin Texts
  /\ Shown \in [Texts -> Texts \cup {Unrendered}]
ASSUME BoundsAssumption == MaxRequests \in Nat /\ MaxCrashes \in Nat

VARIABLES
  live,          \* [Files -> what is under the name]
  temp,          \* [Files -> what is under the name with .tmp]
  history,       \* [Keys -> the versions, in the order they were written]
  worker,        \* [Workers -> what a request does]
  requests, crashes,
  overlapped,    \* history: two requests were at work at once
  unlisted       \* history: a template was in place that cannot be shown

vars == <<live, temp, history, worker, requests, crashes, overlapped, unlisted>>

Files == {"prompts", "registry", "model", "env"} \cup Templates

FileOf(key) == IF key \in Prompts THEN "prompts" ELSE key

\* What a file may hold besides values: it is not there, it was truncated, or
\* the writes of two requests are mixed in it.
Absent == [state |-> "absent"]
Truncated == [state |-> "truncated"]
Mixed == [state |-> "mixed"]

Holding(value) == [state |-> "whole", value |-> value]

\* A template is no JSON: whatever is in its file is its text.
Emptied(f) == IF f \in Templates THEN Holding(Blank) ELSE Truncated
MixedIn(f) == IF f \in Templates THEN Holding(Garbled) ELSE Mixed

\* _read_json
Readable(f) == live[f].state = "whole"

\* list_templates renders every template, or raises for the first that cannot be.
ListableIn(files) ==
  /\ files["registry"].state = "whole"
  /\ \A t \in Templates :
       files[t].state = "whole" /\ Shown[files[t].value] # Unrendered

Listable == ListableIn(live)

InitialContent(f) ==
  CASE f = "prompts" -> [p \in Prompts |-> Original]
    [] f = "registry" -> [t \in Templates |-> TRUE]
    [] OTHER -> Original

Idle ==
  [pc |-> "idle", op |-> "none", key |-> "none", value |-> Original, enabled |-> TRUE,
   file |-> "none", next |-> Absent, fd |-> "none", seen |-> Absent, phase |-> "none",
   number |-> 0]

Init ==
  /\ live = [f \in Files |-> Holding(InitialContent(f))]
  /\ temp = [f \in Files |-> Absent]
  /\ history = [k \in Keys |-> <<>>]
  /\ worker = [w \in Workers |-> Idle]
  /\ requests = 0 /\ crashes = 0
  /\ overlapped = FALSE
  /\ unlisted = ~Listable

Quiet == \A w \in Workers : worker[w] = Idle

Move(w, work) == worker' = [worker EXCEPT ![w] = work]

Finish(w) == Move(w, Idle)

\* A request begins, alone or not.
Begin(w, work) ==
  /\ worker[w] = Idle
  /\ requests < MaxRequests
  /\ requests' = requests + 1
  /\ Move(w, work)
  /\ overlapped' = (overlapped \/ ~Quiet)
  /\ UNCHANGED unlisted

\* Files have changed.
Watch == unlisted' = (unlisted \/ ~ListableIn(live'))

\* The content to be staged: the new value of a key among what was read.
Edited(file, seen, key, value) ==
  IF file = "prompts" THEN Holding([seen.value EXCEPT ![key] = value]) ELSE Holding(value)

-------------------------------------------------------------------------------
(* Requests *)

\* Faulty variant of NeedsBaseline: the first version is the first published.
NoBaseline(key) == FALSE

\* _ensure_baseline
NeedsBaseline(key) == history[key] = <<>>

\* update_prompt, update_sql_template: what is there is read, a template with all
\* others, and, if there is no version yet, recorded first.
Publish(w, key, value, enabled) ==
  LET file == FileOf(key) IN
  /\ IF key \in Prompts THEN Readable(file) /\ enabled ELSE Listable
  /\ Begin(w, [Idle EXCEPT
       !.op = "publish", !.key = key, !.value = value, !.enabled = enabled, !.file = file,
       !.seen = live[file],
       !.next = Edited(file, live[file], key, value),
       !.pc = IF NeedsBaseline(key) THEN "number" ELSE "open",
       !.phase = IF NeedsBaseline(key) THEN "baseline" ELSE "version"])
  /\ UNCHANGED <<live, temp, history, crashes>>

\* rollback_prompt, rollback_sql_template: of a version of the list.  Of a template
\* the registry is read.
RollBack(w, key, i) ==
  LET file == FileOf(key)
      version == history[key][i]
  IN
  /\ IF key \in Prompts THEN Readable(file) ELSE Readable("registry")
  /\ Begin(w, [Idle EXCEPT
       !.op = "rollback", !.key = key, !.value = version.value,
       !.enabled = version.enabled, !.file = file, !.seen = live[file],
       !.next = Edited(file, live[file], key, version.value),
       !.pc = "open", !.phase = "version"])
  /\ UNCHANGED <<live, temp, history, crashes>>

\* What becomes of the credentials that come with a model configuration: there
\* are none; they are refused, because the endpoint expects none, two roles
\* differ or the master key is missing; they are stored.
CredentialCases == {"none", "refused", "stored"}

\* update_model_config, update_model_only: the endpoints and their credentials.
UpdateModel(w, value, credentials) ==
  /\ Begin(w, [Idle EXCEPT !.op = "model", !.value = value, !.file = "model",
                           !.seen = live["model"], !.next = Holding(value), !.pc = "open",
                           !.phase = credentials])
  /\ UNCHANGED <<live, temp, history, crashes>>

\* validate_update or validate_readonly_sql raises, or the template is
\* protected: before the first write to the live files.
Refuse(w) ==
  /\ worker[w].pc = "open"
  /\ worker[w].op # "model"
  /\ worker[w].file = FileOf(worker[w].key)
  /\ Finish(w)
  /\ UNCHANGED <<live, temp, history, requests, crashes, overlapped, unlisted>>

-------------------------------------------------------------------------------
(* Writing a file: _write_json and its two copies *)

\* open for writing creates the temporary file or truncates it.  A template that
\* is empty has been refused.
Open(w) ==
  LET f == worker[w].file IN
  /\ worker[w].pc = "open"
  /\ f \in Templates => worker[w].value # Blank
  /\ temp' = [temp EXCEPT ![f] = Emptied(f)]
  /\ Move(w, [worker[w] EXCEPT !.pc = "write", !.fd = "temp"])
  /\ UNCHANGED <<live, history, requests, crashes, overlapped, unlisted>>

\* What a write leaves: another request may have written to the same file, and
\* its text shows behind a shorter one.
Overwritten(f, old, new) == IF old = Emptied(f) THEN {new} ELSE {new, MixedIn(f)}

\* The text is written to the file that was opened, whatever its name is now.
Write(w) ==
  LET f == worker[w].file
      next == worker[w].next
  IN
  /\ worker[w].pc = "write"
  /\ \/ /\ worker[w].fd = "temp"
        /\ \E content \in Overwritten(f, temp[f], next) : temp' = [temp EXCEPT ![f] = content]
        /\ UNCHANGED live
     \/ /\ worker[w].fd = "live"
        /\ \E content \in Overwritten(f, live[f], next) : live' = [live EXCEPT ![f] = content]
        /\ UNCHANGED temp
     \/ worker[w].fd = "gone" /\ UNCHANGED <<live, temp>>
  /\ Watch
  /\ Move(w, [worker[w] EXCEPT !.pc = "replace", !.fd = "none"])
  /\ UNCHANGED <<history, requests, crashes, overlapped>>

\* What an open file is called after the temporary file became the live one.
Renamed(fd) == CASE fd = "temp" -> "live" [] fd = "live" -> "gone" [] OTHER -> fd

\* Faulty variant of AfterReplace: a published version is not recorded.
UnrecordedPublish(w) ==
  IF worker[w].op = "publish" THEN Idle ELSE [worker[w] EXCEPT !.pc = "number"]

\* What a request does when a file is in place.
AfterReplace(w) ==
  CASE worker[w].file = "prompts" -> [worker[w] EXCEPT !.pc = "number"]
    [] worker[w].file = "registry" -> [worker[w] EXCEPT !.pc = "read"]
    [] worker[w].file = "model" -> [worker[w] EXCEPT !.pc = "credentials"]
    [] worker[w].file = "env" -> Idle
    [] OTHER -> [worker[w] EXCEPT !.pc = "registry"]

Replace(w) ==
  LET f == worker[w].file IN
  /\ worker[w].pc = "replace"
  /\ temp[f] # Absent
  /\ live' = [live EXCEPT ![f] = temp[f]]
  /\ temp' = [temp EXCEPT ![f] = Absent]
  /\ Watch
  /\ worker' = [v \in Workers |->
       IF v = w THEN AfterReplace(w)
       ELSE IF worker[v].file = f THEN [worker[v] EXCEPT !.fd = Renamed(@)] ELSE worker[v]]
  /\ UNCHANGED <<history, requests, crashes, overlapped>>

\* Another request has moved the temporary file: FileNotFoundError.
ReplaceFails(w) ==
  /\ worker[w].pc = "replace"
  /\ temp[worker[w].file] = Absent
  /\ Finish(w)
  /\ UNCHANGED <<live, temp, history, requests, crashes, overlapped, unlisted>>

-------------------------------------------------------------------------------
(* Templates, credentials, versions *)

\* save_template: the registry is read and staged after the SQL file.
LoadRegistry(w) ==
  /\ worker[w].pc = "registry"
  /\ \/ /\ Readable("registry")
        /\ Move(w, [worker[w] EXCEPT
             !.pc = "open", !.file = "registry",
             !.next = Holding([live["registry"].value EXCEPT ![worker[w].key] =
                                 worker[w].enabled])])
     \/ ~Readable("registry") /\ Finish(w)
  /\ UNCHANGED <<live, temp, history, requests, crashes, overlapped, unlisted>>

\* The version that is recorded is the one read back, as it is shown.  A template
\* that cannot be shown, this one or another, raises, and nothing is recorded.
ReadBack(w) ==
  LET key == worker[w].key IN
  /\ worker[w].pc = "read"
  /\ \/ /\ Listable
        /\ Move(w, [worker[w] EXCEPT !.pc = "number", !.value = Shown[live[key].value],
                                     !.enabled = live["registry"].value[key]])
     \/ ~Listable /\ Finish(w)
  /\ UNCHANGED <<live, temp, history, requests, crashes, overlapped, unlisted>>

\* _update_model_credentials, after the configuration was saved.
StoreCredentials(w) ==
  /\ worker[w].pc = "credentials"
  /\ worker[w].phase = "stored"
  /\ Move(w, [worker[w] EXCEPT !.pc = "open", !.file = "env"])
  /\ UNCHANGED <<live, temp, history, requests, crashes, overlapped, unlisted>>

NoCredentials(w) ==
  /\ worker[w].pc = "credentials"
  /\ worker[w].phase = "none"
  /\ Finish(w)
  /\ UNCHANGED <<live, temp, history, requests, crashes, overlapped, unlisted>>

RefuseCredentials(w) ==
  /\ worker[w].pc = "credentials"
  /\ worker[w].phase = "refused"
  /\ Finish(w)
  /\ UNCHANGED <<live, temp, history, requests, crashes, overlapped, unlisted>>

\* record: the versions are counted ...
NextNumber(key) == Len(history[key]) + 1

Number(w) ==
  /\ worker[w].pc = "number"
  /\ Move(w, [worker[w] EXCEPT !.pc = "record", !.number = NextNumber(worker[w].key)])
  /\ UNCHANGED <<live, temp, history, requests, crashes, overlapped, unlisted>>

\* The baseline is what the request had read, of a template what it was shown.  Its flag
\* is that of the installation: nobody has published the template.
Baseline(w) ==
  LET work == worker[w] IN
  IF work.key \in Prompts THEN work.seen.value[work.key] ELSE Shown[work.seen.value]

\* ... and one is written, to a file nobody else writes.
Record(w) ==
  LET work == worker[w]
      baseline == work.phase = "baseline"
  IN
  /\ work.pc = "record"
  /\ history' = [history EXCEPT ![work.key] = Append(@,
       [number |-> work.number,
        value |-> IF baseline THEN Baseline(w) ELSE work.value,
        enabled |-> IF baseline THEN TRUE ELSE work.enabled])]
  /\ IF baseline
     THEN Move(w, [work EXCEPT !.pc = "open", !.phase = "version"])
     ELSE Finish(w)
  /\ UNCHANGED <<live, temp, requests, crashes, overlapped, unlisted>>

\* The process dies, with all its requests; temporary files stay.
Crash ==
  /\ ~Quiet
  /\ crashes < MaxCrashes
  /\ crashes' = crashes + 1
  /\ worker' = [w \in Workers |-> Idle]
  /\ UNCHANGED <<live, temp, history, requests, overlapped, unlisted>>

-------------------------------------------------------------------------------

Request(w) ==
  \/ \E k \in Keys, v \in Values, e \in BOOLEAN : Publish(w, k, v, e)
  \/ \E k \in Keys : \E i \in DOMAIN history[k] : RollBack(w, k, i)
  \/ \E v \in Settings, c \in CredentialCases : UpdateModel(w, v, c)

Step(w) ==
  \/ Refuse(w) \/ Open(w) \/ Write(w) \/ Replace(w) \/ ReplaceFails(w)
  \/ LoadRegistry(w) \/ ReadBack(w)
  \/ StoreCredentials(w) \/ NoCredentials(w) \/ RefuseCredentials(w)
  \/ Number(w) \/ Record(w)

Next ==
  \/ \E w \in Workers : Request(w) \/ Step(w)
  \/ Crash

Spec == Init /\ [][Next]_vars

-------------------------------------------------------------------------------
(* Properties *)

LiveValue(key) ==
  IF key \in Prompts THEN live["prompts"].value[key] ELSE live[key].value

LiveFlag(key) == key \in Templates => live["registry"].value[key]

\* What the history has of a text: a prompt as it is, a template as it is shown.
AsRecorded(key, text) == IF key \in Prompts THEN text ELSE Shown[text]

Recorded(key) == {history[key][i].value : i \in DOMAIN history[key]}

Newest(key) == history[key][Len(history[key])]

\* Requests that follow one another and run to their end.
InTurn == Quiet /\ ~overlapped /\ crashes = 0

\* What was there before anybody published is in the history: it is recorded
\* before a request replaces it, whatever other requests do and wherever a
\* process dies.  Of a template that is the text with the names the program was
\* built with, and not the text with the variables, nor with the names of the
\* settings, which the service queries with.
OriginalIsKept ==
  \A k \in Keys :
    Readable(FileOf(k)) /\ LiveValue(k) # Original =>
      AsRecorded(k, Original) \in Recorded(k)

\* Requests that follow one another and run to their end: between them the
\* newest version of the list is the one that is live, flag included, as long as
\* no template was published that cannot be shown.
NewestIsLive ==
  InTurn /\ ~unlisted => \A k \in Keys : history[k] # <<>> =>
    /\ Newest(k).value = AsRecorded(k, LiveValue(k))
    /\ Newest(k).enabled = LiveFlag(k)
===============================================================================
