------------------------------- MODULE Sessions -------------------------------
(***************************************************************************)
(* Accounts, logins and the access tokens they hand out.                   *)
(*                                                                         *)
(*   auth_service.py          login, login_sso, logout                     *)
(*   integration_identity.py  resolve: an external profile becomes a user  *)
(*   dependencies.py          authenticate_access_token                    *)
(*   scripts/                 sync_bank_identity, create_local_user        *)
(*                                                                         *)
(* A token carries claims; a request is accepted if they are those of the  *)
(* account row now.  Login and logout raise session_version with an UPDATE *)
(* that adds one to the stored value; resolve and the scripts work on the  *)
(* row they read before and store the columns they changed, whatever the   *)
(* row has become.  So every operation is a read and a commit.              *)
(*                                                                         *)
(* User name, organisation and role are compared alike: `org` stands for    *)
(* all of them.  Expiry only ever ends a token and is left out.            *)
(***************************************************************************)
EXTENDS Integers, Sequences

CONSTANTS
  Users, Orgs, Passwords,
  Workers,       \* request handlers and operators' scripts
  NoOrg, NoPassword,
  MaxTokens, MaxVersion   \* bounds

ASSUME AbsentAssumption == NoOrg \notin Orgs /\ NoPassword \notin Passwords
ASSUME BoundsAssumption == MaxTokens \in Nat /\ MaxVersion \in Nat

VARIABLES
  app_users,     \* [Users -> Account], the table
  tokens,        \* the tokens handed out, in the order of the logins
  worker,        \* [Workers -> what a handler or script has read]
  overtaken      \* history: users a script has given a version that was out of date

vars == <<app_users, tokens, worker, overtaken>>

\* A row that does not exist yet.
NoAccount ==
  [org |-> NoOrg, enabled |-> FALSE, session_version |-> 0, password |-> NoPassword,
   legacy |-> FALSE]

Exists(u) == app_users[u] # NoAccount

Work(op, u, row, profile, token) ==
  [op |-> op, user |-> u, row |-> row, profile |-> profile, token |-> token]

NoProfile == [org |-> NoOrg, enabled |-> FALSE, password |-> NoPassword]

Idle == [op |-> "idle", row |-> NoAccount, profile |-> NoProfile, token |-> 0]

Start(w, work) ==
  /\ worker[w] = Idle
  /\ worker' = [worker EXCEPT ![w] = work]

Finish(w) == worker' = [worker EXCEPT ![w] = Idle]

\* authenticate_access_token: the account is enabled, and version and claims
\* are those of the row.
Accepted(i) ==
  LET account == app_users[tokens[i].user] IN
  /\ account.enabled
  /\ tokens[i].session_version = account.session_version
  /\ tokens[i].org = account.org

\* Accounts start with a password of the argon2 time or a new one.
Init ==
  /\ app_users \in
       [Users -> {NoAccount} \cup
          [org : Orgs, enabled : {TRUE}, session_version : {0}, password : Passwords,
           legacy : BOOLEAN]]
  /\ tokens = <<>>
  /\ worker = [w \in Workers |-> Idle]
  /\ overtaken = {}

-------------------------------------------------------------------------------
(* Login and logout *)

\* increment_session_version: SET session_version = session_version + 1
Incremented(w, account) == [account EXCEPT !.session_version = @ + 1]

\* Faulty variant of Claims: the account as it was read when the login began.
ClaimsAsRead(w, account) ==
  [user |-> worker[w].user, org |-> worker[w].row.org,
   session_version |-> account.session_version]

\* The claims of a new token, from the row as it is after the UPDATE.
Claims(w, account) ==
  [user |-> worker[w].user, org |-> account.org,
   session_version |-> account.session_version]

BeginLogin(w, u, password) ==
  /\ Exists(u)
  /\ app_users[u].password = password
  /\ app_users[u].enabled
  /\ Start(w, Work("login", u, app_users[u], [NoProfile EXCEPT !.password = password], 0))
  /\ UNCHANGED <<app_users, tokens, overtaken>>

\* login_sso after resolve: _create_session
BeginSession(w) ==
  LET u == worker[w].user IN
  /\ worker[w].op = "resolved"
  /\ \/ /\ app_users[u].enabled
        /\ worker' = [worker EXCEPT ![w] = Work("session", u, app_users[u], NoProfile, 0)]
     \/ ~app_users[u].enabled /\ Finish(w)
  /\ UNCHANGED <<app_users, tokens, overtaken>>

\* A password of the argon2 time is stored again under SM3: the password that
\* was verified when the login began.
Rehashed(w, account) ==
  IF worker[w].op = "login" /\ worker[w].row.legacy
  THEN [account EXCEPT !.password = worker[w].profile.password, !.legacy = FALSE]
  ELSE account

CommitLogin(w) ==
  LET u == worker[w].user
      account == Rehashed(w, Incremented(w, app_users[u]))
  IN
  /\ worker[w].op \in {"login", "session"}
  /\ Len(tokens) < MaxTokens
  /\ app_users' = [app_users EXCEPT ![u] = account]
  /\ tokens' = Append(tokens, Claims(w, account))
  /\ Finish(w)
  /\ UNCHANGED overtaken

\* The route checks the token in a transaction of its own.
BeginLogout(w, i) ==
  /\ Accepted(i)
  /\ Start(w, Work("logout", tokens[i].user, app_users[tokens[i].user], NoProfile, i))
  /\ UNCHANGED <<app_users, tokens, overtaken>>

CommitLogout(w) ==
  LET u == worker[w].user IN
  /\ worker[w].op = "logout"
  /\ app_users[u].session_version < MaxVersion
  /\ app_users' = [app_users EXCEPT ![u] = Incremented(w, @)]
  /\ Finish(w)
  /\ UNCHANGED <<tokens, overtaken>>

-------------------------------------------------------------------------------
(* Writers of the row they read *)

\* The unit of work stores a column whose value differs from the one loaded.
Stored(read, wanted, now) == IF wanted = read THEN now ELSE wanted

\* resolve: of a message of a channel, or of a login with single sign-on.
BeginResolve(w, u, org, sso) ==
  /\ Start(w, Work(IF sso THEN "sso" ELSE "resolve", u, app_users[u],
                   [NoProfile EXCEPT !.org = org], 0))
  /\ UNCHANGED <<app_users, tokens, overtaken>>

NewUser(profile) == [NoAccount EXCEPT !.org = profile.org, !.enabled = TRUE]

\* A new user gets a password nobody knows; an old one is moved and enabled.
CommitResolve(w) ==
  LET work == worker[w]  u == work.user  now == app_users[u] IN
  /\ work.op \in {"sso", "resolve"}
  /\ work.row = NoAccount => ~Exists(u)
  /\ app_users' =
       [app_users EXCEPT ![u] =
          IF work.row = NoAccount
          THEN NewUser(work.profile)
          ELSE [now EXCEPT !.org = Stored(work.row.org, work.profile.org, @),
                           !.enabled = Stored(work.row.enabled, TRUE, @)]]
  /\ IF work.op = "sso" THEN worker' = [worker EXCEPT ![w].op = "resolved"] ELSE Finish(w)
  /\ UNCHANGED <<tokens, overtaken>>

\* The primary key refuses a user somebody else has created meanwhile.
ResolveCollides(w) ==
  /\ worker[w].op \in {"sso", "resolve"}
  /\ worker[w].row = NoAccount /\ Exists(worker[w].user)
  /\ Finish(w)
  /\ UNCHANGED <<app_users, tokens, overtaken>>

\* A script stores the successor of the version it read, whatever the version is
\* now: it is out of date if a login, a logout or another script was faster.
Overtaken(u, read) ==
  IF read.session_version = app_users[u].session_version THEN overtaken ELSE overtaken \cup {u}

\* sync_bank_identity reads all users, asks for a password and writes.
BeginSync(w, u, org, enabled) ==
  /\ Exists(u) /\ app_users[u].session_version < MaxVersion
  /\ Start(w, Work("sync", u, app_users[u],
                   [NoProfile EXCEPT !.org = org, !.enabled = enabled], 0))
  /\ UNCHANGED <<app_users, tokens, overtaken>>

\* Faulty variant of SecurityChanged: disabling an account is no such change.
OrgChanged(read, profile) == read.org # profile.org

\* security_changed
SecurityChanged(read, profile) ==
  read.org # profile.org \/ read.enabled # profile.enabled

CommitSync(w) ==
  LET work == worker[w]  u == work.user  read == work.row
      version == IF SecurityChanged(read, work.profile)
                 THEN read.session_version + 1 ELSE read.session_version
  IN
  /\ work.op = "sync"
  /\ app_users' =
       [app_users EXCEPT
          ![u].org = Stored(read.org, work.profile.org, @),
          ![u].enabled = Stored(read.enabled, work.profile.enabled, @),
          ![u].session_version = Stored(read.session_version, version, @)]
  /\ overtaken' = IF version # read.session_version THEN Overtaken(u, read) ELSE overtaken
  /\ Finish(w)
  /\ UNCHANGED tokens

\* create_local_user for a user that exists sets a new password.
BeginReset(w, u, org, password) ==
  /\ Exists(u) /\ app_users[u].session_version < MaxVersion
  /\ Start(w, Work("reset", u, app_users[u],
                   [org |-> org, enabled |-> TRUE, password |-> password], 0))
  /\ UNCHANGED <<app_users, tokens, overtaken>>

CommitReset(w) ==
  LET work == worker[w]  u == work.user  read == work.row IN
  /\ work.op = "reset"
  /\ app_users' =
       [app_users EXCEPT
          ![u] = [org |-> Stored(read.org, work.profile.org, @.org),
                  enabled |-> Stored(read.enabled, TRUE, @.enabled),
                  session_version |-> read.session_version + 1,
                  password |-> work.profile.password,
                  legacy |-> FALSE]]
  /\ overtaken' = Overtaken(u, read)
  /\ Finish(w)
  /\ UNCHANGED tokens

Next ==
  \E w \in Workers :
    \/ \E u \in Users, p \in Passwords : BeginLogin(w, u, p)
    \/ BeginSession(w) \/ CommitLogin(w)
    \/ \E i \in DOMAIN tokens : BeginLogout(w, i)
    \/ CommitLogout(w)
    \/ \E u \in Users, org \in Orgs, sso \in BOOLEAN : BeginResolve(w, u, org, sso)
    \/ CommitResolve(w) \/ ResolveCollides(w)
    \/ \E u \in Users, org \in Orgs :
         \/ \E enabled \in BOOLEAN : BeginSync(w, u, org, enabled)
         \/ \E p \in Passwords : BeginReset(w, u, org, p)
    \/ CommitSync(w) \/ CommitReset(w)

Spec == Init /\ [][Next]_vars

-------------------------------------------------------------------------------
(* Properties *)

\* A login of an account that is enabled works: its token is accepted when it
\* is handed out, and every token before it is not any more, although the
\* account may have moved to another organisation since the login began; unless
\* a script has set the version of the account back.
LoginIsNewest ==
  [][\A w \in Workers :
       (CommitLogin(w) /\ app_users[worker[w].user].enabled
          /\ worker[w].user \notin overtaken) =>
         \A i \in DOMAIN tokens' :
           tokens'[i].user = worker[w].user => (Accepted(i)' <=> i = Len(tokens'))]_vars

\* A script that moves, disables, enables or resets an account ends its sessions
\* for good, those of logins that began before it or are under way included:
\* they are not even accepted if a later message of a channel enables the account
\* again.  Only a version that was raised between the script's read and its
\* commit is the exception, and OldTokensEnd shows that it is one.
ScriptEndsSessions ==
  [][\A w \in Workers :
       /\ \/ CommitReset(w)
          \/ CommitSync(w) /\ app_users'[worker[w].user] # app_users[worker[w].user]
       /\ worker[w].user \notin overtaken'
       => \A i \in DOMAIN tokens :
            tokens[i].user = worker[w].user =>
              tokens[i].session_version < app_users'[worker[w].user].session_version]_vars

\* What the guide of the script says: a synchronisation that changes the name, the
\* organisation or the state of an account ends the tokens it has.  The code
\* does not promise it: a login between the script's read and its commit has
\* been given the version the script stores.
OldTokensEnd ==
  [][\A w \in Workers :
       CommitSync(w) /\ SecurityChanged(worker[w].row, worker[w].profile) =>
         \A i \in DOMAIN tokens : tokens[i].user = worker[w].user => ~Accepted(i)']_vars

===============================================================================
