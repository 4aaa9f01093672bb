----------------------------- MODULE SessionsProofs -----------------------------
(***************************************************************************)
(* What the sessions of Sessions are, for every set of users, organisations *)
(* and passwords and any number of handlers and scripts: what the tables    *)
(* hold, that a login leaves one accepted token of its account, and that a  *)
(* script ends the sessions of the account it changes, as long as no script *)
(* has been overtaken on that account between its read and its commit.      *)
(*                                                                         *)
(* The two action properties need one invariant between steps: no token is  *)
(* ahead of its account's row.  A script stores the version it read plus    *)
(* one, so the invariant holds of the accounts where that was the version.  *)
(***************************************************************************)
EXTENDS Sessions, SequenceTheorems, TLAPS

-------------------------------------------------------------------------------
(* What the variables hold *)

Account ==
  [org : Orgs \cup {NoOrg}, enabled : BOOLEAN, session_version : Nat,
   password : Passwords \cup {NoPassword}, legacy : BOOLEAN]

Profile ==
  [org : Orgs \cup {NoOrg}, enabled : BOOLEAN, password : Passwords \cup {NoPassword}]

Operation == {"login", "resolved", "session", "logout", "sso", "resolve", "sync", "reset"}

Working ==
  [op : Operation, user : Users, row : Account, profile : Profile, token : Nat]

Token == [user : Users, org : Orgs \cup {NoOrg}, session_version : Nat]

\* The table holds accounts, the tokens claims, and a handler does nothing or
\* works on an account of the table.
TypeOK ==
  /\ app_users \in [Users -> Account]
  /\ tokens \in Seq(Token)
  /\ worker \in [Workers -> Working \cup {Idle}]

LEMMA NoAccountType == NoAccount \in Account
  BY DEF NoAccount, Account

LEMMA NoProfileType == NoProfile \in Profile
  BY DEF NoProfile, Profile

\* Only a handler at work has an operation of its own.
LEMMA AtWork ==
  ASSUME TypeOK, NEW w \in Workers, worker[w].op # "idle"
  PROVE  worker[w] \in Working
  BY DEF TypeOK, Idle

LEMMA StartType ==
  ASSUME TypeOK, NEW w \in Workers, NEW work \in Working, Start(w, work)
  PROVE  worker' \in [Workers -> Working \cup {Idle}]
  BY DEF TypeOK, Start

LEMMA FinishType ==
  ASSUME TypeOK, NEW w \in Workers, Finish(w)
  PROVE  worker' \in [Workers -> Working \cup {Idle}]
  BY DEF TypeOK, Finish

LEMMA WorkType ==
  ASSUME NEW op \in Operation, NEW u \in Users, NEW row \in Account,
         NEW profile \in Profile, NEW token \in Nat
  PROVE  Work(op, u, row, profile, token) \in Working
  BY DEF Work, Working

LEMMA StoredRow ==
  ASSUME TypeOK, NEW u \in Users, NEW row \in Account,
         app_users' = [app_users EXCEPT ![u] = row]
  PROVE  app_users' \in [Users -> Account]
  BY DEF TypeOK

LEMMA TypeInit == Init => TypeOK
  <1> SUFFICES ASSUME Init
               PROVE  TypeOK
    OBVIOUS
  <1>1. app_users \in [Users -> Account]
    <2>1. ASSUME NEW row \in [org : Orgs, enabled : {TRUE}, session_version : {0},
                              password : Passwords, legacy : BOOLEAN]
          PROVE  row \in Account
      <3>1. row = [org |-> row.org, enabled |-> row.enabled,
                   session_version |-> row.session_version, password |-> row.password,
                   legacy |-> row.legacy]
        OBVIOUS
      <3>2. row.org \in Orgs /\ row.password \in Passwords
        OBVIOUS
      <3>3. row.enabled \in {TRUE} /\ row.legacy \in BOOLEAN
        OBVIOUS
      <3>4. row.session_version \in {0}
        OBVIOUS
      <3>5. row.enabled \in BOOLEAN
        <4>1. \A b \in {TRUE} : b \in BOOLEAN
          OBVIOUS
        <4>2. QED
          BY <3>3, <4>1
      <3>6. row.session_version \in Nat
        BY <3>4
      <3>7. QED
        BY <3>1, <3>2, <3>3, <3>5, <3>6 DEF Account
    <2>2. QED
      BY <2>1, NoAccountType DEF Init
  <1>2. QED
    BY <1>1 DEF Init, TypeOK

LEMMA TypeStep == TypeOK /\ [Next]_vars => TypeOK'
  <1> SUFFICES ASSUME TypeOK, [Next]_vars
               PROVE  TypeOK'
    OBVIOUS
  <1>1. ASSUME NEW w \in Workers, NEW u \in Users, NEW p \in Passwords, BeginLogin(w, u, p)
        PROVE  TypeOK'
    <2>1. [NoProfile EXCEPT !.password = p] \in Profile
      BY DEF NoProfile, Profile
    <2>2. Work("login", u, app_users[u], [NoProfile EXCEPT !.password = p], 0) \in Working
      BY <2>1, WorkType DEF TypeOK, Operation
    <2>3. QED
      BY <1>1, <2>2, StartType DEF BeginLogin, TypeOK
  <1>2. ASSUME NEW w \in Workers, BeginSession(w)
        PROVE  TypeOK'
    <2>1. worker[w] \in Working
      BY <1>2, AtWork DEF BeginSession
    <2>2. Work("session", worker[w].user, app_users[worker[w].user], NoProfile, 0) \in Working
      BY <2>1, WorkType, NoProfileType DEF TypeOK, Operation, Working
    <2>3. QED
      BY <1>2, <2>2, FinishType DEF BeginSession, TypeOK
  <1>3. ASSUME NEW w \in Workers, CommitLogin(w)
        PROVE  TypeOK'
    <2> DEFINE u == worker[w].user
               account == Rehashed(w, Incremented(w, app_users[u]))
    <2>1. worker[w] \in Working
      BY <1>3, AtWork DEF CommitLogin
    <2>2. u \in Users /\ app_users[u] \in Account /\ worker[w].profile \in Profile
      BY <2>1 DEF TypeOK, Working
    <2>3. Incremented(w, app_users[u]) \in Account
      BY <2>2 DEF Incremented, Account
    <2>4. account \in Account
      BY <2>2, <2>3 DEF Rehashed, Account, Profile
    <2>5. Claims(w, account) \in Token
      BY <2>2, <2>4 DEF Claims, Token, Account
    <2>6. tokens' \in Seq(Token)
      BY <1>3, <2>5 DEF CommitLogin, TypeOK
    <2>7. app_users' \in [Users -> Account]
      BY <1>3, <2>2, <2>4, StoredRow DEF CommitLogin
    <2>8. QED
      BY <1>3, <2>6, <2>7, FinishType DEF CommitLogin, TypeOK
  <1>4. ASSUME NEW w \in Workers, NEW i \in DOMAIN tokens, BeginLogout(w, i)
        PROVE  TypeOK'
    <2>1. tokens[i] \in Token /\ i \in Nat
      BY ElementOfSeq DEF TypeOK
    <2>2. Work("logout", tokens[i].user, app_users[tokens[i].user], NoProfile, i) \in Working
      BY <2>1, WorkType, NoProfileType DEF TypeOK, Operation, Token
    <2>3. QED
      BY <1>4, <2>2, StartType DEF BeginLogout, TypeOK
  <1>5. ASSUME NEW w \in Workers, CommitLogout(w)
        PROVE  TypeOK'
    <2> DEFINE u == worker[w].user
    <2>1. worker[w] \in Working
      BY <1>5, AtWork DEF CommitLogout
    <2>2. u \in Users /\ app_users[u] \in Account
      BY <2>1 DEF TypeOK, Working
    <2>3. Incremented(w, app_users[u]) \in Account
      BY <2>2 DEF Incremented, Account
    <2>4. QED
      BY <1>5, <2>2, <2>3, FinishType DEF CommitLogout, TypeOK
  <1>6. ASSUME NEW w \in Workers, NEW u \in Users, NEW org \in Orgs, NEW sso \in BOOLEAN,
               BeginResolve(w, u, org, sso)
        PROVE  TypeOK'
    <2>1. [NoProfile EXCEPT !.org = org] \in Profile
      BY DEF NoProfile, Profile
    <2>2. Work(IF sso THEN "sso" ELSE "resolve", u, app_users[u],
               [NoProfile EXCEPT !.org = org], 0) \in Working
      BY <2>1, WorkType DEF TypeOK, Operation
    <2>3. QED
      BY <1>6, <2>2, StartType DEF BeginResolve, TypeOK
  <1>7. ASSUME NEW w \in Workers, CommitResolve(w)
        PROVE  TypeOK'
    <2> DEFINE work == worker[w]
               u == work.user
               now == app_users[u]
               moved == [now EXCEPT !.org = Stored(work.row.org, work.profile.org, @),
                                    !.enabled = Stored(work.row.enabled, TRUE, @)]
    <2>1. work \in Working
      BY <1>7, AtWork DEF CommitResolve
    <2>2. u \in Users /\ now \in Account /\ work.profile \in Profile /\ work.row \in Account
      BY <2>1 DEF TypeOK, Working
    <2>3. NewUser(work.profile) \in Account
      BY <2>2, NoAccountType DEF NewUser, Account, Profile
    <2>4. moved \in Account
      BY <2>2 DEF Stored, Account, Profile
    <2>5. app_users' \in [Users -> Account]
      BY <1>7, <2>2, <2>3, <2>4 DEF CommitResolve, TypeOK
    <2>6. [work EXCEPT !.op = "resolved"] \in Working
      BY <2>1 DEF Working, Operation
    <2>7. worker' \in [Workers -> Working \cup {Idle}]
      BY <1>7, <2>6, FinishType DEF CommitResolve, TypeOK
    <2>8. QED
      BY <1>7, <2>5, <2>7 DEF CommitResolve, TypeOK
  <1>8. ASSUME NEW w \in Workers, ResolveCollides(w)
        PROVE  TypeOK'
    BY <1>8, FinishType DEF ResolveCollides, TypeOK
  <1>9. ASSUME NEW w \in Workers, NEW u \in Users, NEW org \in Orgs, NEW enabled \in BOOLEAN,
               BeginSync(w, u, org, enabled)
        PROVE  TypeOK'
    <2>1. [NoProfile EXCEPT !.org = org, !.enabled = enabled] \in Profile
      BY DEF NoProfile, Profile
    <2>2. Work("sync", u, app_users[u],
               [NoProfile EXCEPT !.org = org, !.enabled = enabled], 0) \in Working
      BY <2>1, WorkType DEF TypeOK, Operation
    <2>3. QED
      BY <1>9, <2>2, StartType DEF BeginSync, TypeOK
  <1>10. ASSUME NEW w \in Workers, NEW u \in Users, NEW org \in Orgs, NEW p \in Passwords,
                BeginReset(w, u, org, p)
         PROVE  TypeOK'
    <2>1. [org |-> org, enabled |-> TRUE, password |-> p] \in Profile
      BY DEF Profile
    <2>2. Work("reset", u, app_users[u],
               [org |-> org, enabled |-> TRUE, password |-> p], 0) \in Working
      BY <2>1, WorkType DEF TypeOK, Operation
    <2>3. QED
      BY <1>10, <2>2, StartType DEF BeginReset, TypeOK
  <1>11. ASSUME NEW w \in Workers, CommitSync(w)
         PROVE  TypeOK'
    <2> DEFINE work == worker[w]
               u == work.user
               now == app_users[u]
               read == work.row
               version == IF SecurityChanged(read, work.profile)
                          THEN read.session_version + 1 ELSE read.session_version
               new == [now EXCEPT
                         !.org = Stored(read.org, work.profile.org, @),
                         !.enabled = Stored(read.enabled, work.profile.enabled, @),
                         !.session_version = Stored(read.session_version, version, @)]
    <2>1. work \in Working
      BY <1>11, AtWork DEF CommitSync
    <2>2. u \in Users /\ now \in Account /\ work.profile \in Profile /\ read \in Account
      BY <2>1 DEF TypeOK, Working
    <2>3. version \in Nat
      BY <2>2 DEF Account
    <2>4. new \in Account
      BY <2>2, <2>3 DEF Stored, Account, Profile
    <2>5. app_users' = [app_users EXCEPT ![u] = new]
      BY <1>11, <2>2 DEF CommitSync, TypeOK, Account
    <2>6. QED
      BY <1>11, <2>2, <2>4, <2>5, StoredRow, FinishType DEF CommitSync, TypeOK
  <1>12. ASSUME NEW w \in Workers, CommitReset(w)
         PROVE  TypeOK'
    <2> DEFINE work == worker[w]
               u == work.user
               now == app_users[u]
               read == work.row
               new == [org |-> Stored(read.org, work.profile.org, now.org),
                       enabled |-> Stored(read.enabled, TRUE, now.enabled),
                       session_version |-> read.session_version + 1,
                       password |-> work.profile.password,
                       legacy |-> FALSE]
    <2>1. work \in Working
      BY <1>12, AtWork DEF CommitReset
    <2>2. u \in Users /\ now \in Account /\ work.profile \in Profile /\ read \in Account
      BY <2>1 DEF TypeOK, Working
    <2>3. new \in Account
      <3>1. Stored(read.enabled, TRUE, now.enabled) \in BOOLEAN
        BY <2>2 DEF Stored, Account
      <3>2. Stored(read.org, work.profile.org, now.org) \in Orgs \cup {NoOrg}
        BY <2>2 DEF Stored, Account, Profile
      <3>3. /\ read.session_version + 1 \in Nat
            /\ work.profile.password \in Passwords \cup {NoPassword}
        BY <2>2 DEF Account, Profile
      <3>4. QED
        BY <3>1, <3>2, <3>3 DEF Account
    <2>4. app_users' = [app_users EXCEPT ![u] = new]
      BY <1>12 DEF CommitReset
    <2>5. QED
      BY <1>12, <2>2, <2>3, <2>4, StoredRow, FinishType DEF CommitReset, TypeOK
  <1>13. CASE UNCHANGED vars
    BY <1>13 DEF vars, TypeOK
  <1>14. QED
    BY <1>1, <1>2, <1>3, <1>4, <1>5, <1>6, <1>7, <1>8, <1>9, <1>10, <1>11, <1>12, <1>13
    DEF Next

\* The table of accounts, the tokens and the handlers are what the code takes
\* them for, whatever handlers and scripts do.
THEOREM TypeCorrect == Spec => []TypeOK
  BY TypeInit, TypeStep, PTL DEF Spec

-------------------------------------------------------------------------------
(* Tokens and the rows they are checked against *)

\* No token is ahead of the row of its account, unless a script has stored a
\* version that was out of date: a version that is handed out is never written
\* back.
NotAhead ==
  \A i \in DOMAIN tokens :
    tokens[i].user \notin overtaken =>
      tokens[i].session_version <= app_users[tokens[i].user].session_version

SessionInv == TypeOK /\ NotAhead

\* A row whose version does not fall keeps the tokens where they were.
LEMMA RowAdvances ==
  ASSUME SessionInv, NEW u \in Users, NEW row \in Account,
         u \notin overtaken' => app_users[u].session_version <= row.session_version,
         app_users' = [app_users EXCEPT ![u] = row], UNCHANGED tokens,
         overtaken \subseteq overtaken'
  PROVE  NotAhead'
  <1> SUFFICES ASSUME NEW i \in DOMAIN tokens, tokens[i].user \notin overtaken'
               PROVE  tokens[i].session_version <= app_users'[tokens[i].user].session_version
    BY DEF NotAhead
  <1>1. tokens[i] \in Token
    BY ElementOfSeq DEF SessionInv, TypeOK
  <1>2. tokens[i].user \in Users /\ tokens[i].session_version \in Nat
    BY <1>1 DEF Token
  <1>3. tokens[i].session_version <= app_users[tokens[i].user].session_version
    BY DEF SessionInv, NotAhead
  <1>4. /\ app_users[tokens[i].user].session_version \in Nat
        /\ app_users[u].session_version \in Nat /\ row.session_version \in Nat
    BY <1>2 DEF SessionInv, TypeOK, Account
  <1>5. app_users'[tokens[i].user] = IF tokens[i].user = u THEN row
                                     ELSE app_users[tokens[i].user]
    BY <1>2 DEF SessionInv, TypeOK
  <1>6. CASE tokens[i].user = u
    <2>1. app_users'[tokens[i].user].session_version = row.session_version
      BY <1>5, <1>6
    <2>2. app_users[u].session_version <= row.session_version
      BY <1>6
    <2>3. tokens[i].session_version <= app_users[u].session_version
      BY <1>3, <1>6
    <2>4. QED
      BY <1>2, <1>4, <2>1, <2>2, <2>3
  <1>7. CASE tokens[i].user # u
    BY <1>3, <1>5, <1>7
  <1>8. QED
    BY <1>6, <1>7

\* What a login writes: the version after the one the tokens may have, and the
\* claims of the row it leaves.
LEMMA LoginWrites ==
  ASSUME SessionInv, NEW w \in Workers, CommitLogin(w)
  PROVE  LET u == worker[w].user
             row == app_users'[u]
             token == [user |-> u, org |-> row.org, session_version |-> row.session_version]
         IN /\ u \in Users /\ row \in Account
            /\ row.session_version = app_users[u].session_version + 1
            /\ row.enabled = app_users[u].enabled
            /\ app_users' = [app_users EXCEPT ![u] = row]
            /\ tokens' = Append(tokens, token)
  <1> DEFINE u == worker[w].user
             account == Rehashed(w, Incremented(w, app_users[u]))
  <1>1. worker[w] \in Working
    BY AtWork DEF SessionInv, CommitLogin
  <1>2. u \in Users /\ app_users[u] \in Account /\ worker[w].profile \in Profile
    BY <1>1 DEF SessionInv, TypeOK, Working
  <1>3. /\ Incremented(w, app_users[u]) \in Account
        /\ Incremented(w, app_users[u]).session_version = app_users[u].session_version + 1
        /\ Incremented(w, app_users[u]).enabled = app_users[u].enabled
    BY <1>2 DEF Incremented, Account
  <1>4. /\ account \in Account
        /\ account.session_version = app_users[u].session_version + 1
        /\ account.enabled = app_users[u].enabled
    BY <1>2, <1>3 DEF Rehashed, Account, Profile
  <1>5. app_users' = [app_users EXCEPT ![u] = account] /\ app_users'[u] = account
    BY <1>2 DEF CommitLogin, SessionInv, TypeOK
  <1>6. tokens' = Append(tokens, [user |-> u, org |-> account.org,
                                  session_version |-> account.session_version])
    BY DEF CommitLogin, Claims
  <1> HIDE DEF account
  <1>7. QED
    BY <1>2, <1>4, <1>5, <1>6

LEMMA LoginKeeps ==
  ASSUME SessionInv, NEW w \in Workers, CommitLogin(w)
  PROVE  NotAhead'
  <1> DEFINE u == worker[w].user
             row == app_users'[u]
             token == [user |-> u, org |-> row.org, session_version |-> row.session_version]
  <1>1. /\ u \in Users /\ row \in Account
        /\ row.session_version = app_users[u].session_version + 1
        /\ app_users' = [app_users EXCEPT ![u] = row]
        /\ tokens' = Append(tokens, token)
    BY LoginWrites
  <1>2. tokens \in Seq(Token) /\ app_users \in [Users -> Account]
    BY DEF SessionInv, TypeOK
  <1> HIDE DEF u, row, token
  <1> SUFFICES ASSUME NEW i \in DOMAIN tokens', tokens'[i].user \notin overtaken'
               PROVE  tokens'[i].session_version <= app_users'[tokens'[i].user].session_version
    BY DEF NotAhead
  <1>3. overtaken' = overtaken
    BY DEF CommitLogin
  <1>4. CASE i = Len(tokens')
    <2>1. tokens'[i] = token
      BY <1>1, <1>2, <1>4
    <2>2. token.user = u /\ token.session_version = row.session_version
      BY DEF token
    <2>3. app_users'[u] = row /\ row.session_version \in Nat
      BY <1>1, <1>2 DEF Account
    <2>4. QED
      BY <2>1, <2>2, <2>3
  <1>5. CASE i # Len(tokens')
    <2>1. i \in 1..Len(tokens) /\ tokens'[i] = tokens[i]
      BY <1>1, <1>2, <1>5
    <2>2. tokens[i] \in Token
      BY <1>2, <2>1, ElementOfSeq
    <2>3. tokens[i].user \in Users /\ tokens[i].session_version \in Nat
      BY <2>2 DEF Token
    <2>4. tokens[i].session_version <= app_users[tokens[i].user].session_version
      BY <1>2, <1>3, <2>1 DEF SessionInv, NotAhead
    <2>5. CASE tokens[i].user = u
      <3>1. app_users'[u].session_version = app_users[u].session_version + 1
        BY <1>1, <1>2
      <3>2. app_users[u].session_version \in Nat
        BY <1>1, <1>2 DEF Account
      <3>3. tokens[i].session_version <= app_users[u].session_version
        BY <2>4, <2>5
      <3>4. QED
        BY <2>1, <2>3, <2>5, <3>1, <3>2, <3>3
    <2>6. CASE tokens[i].user # u
      <3>1. app_users'[tokens[i].user] = app_users[tokens[i].user]
        BY <1>1, <1>2, <2>3, <2>6
      <3>2. QED
        BY <2>1, <2>4, <3>1
    <2>7. QED
      BY <2>5, <2>6
  <1>6. QED
    BY <1>4, <1>5

\* What a script that synchronises writes, unless it was overtaken: either
\* nothing or a higher version.
LEMMA SyncWrites ==
  ASSUME SessionInv, NEW w \in Workers, CommitSync(w)
  PROVE  LET u == worker[w].user
             now == app_users[u]
             row == app_users'[u]
         IN /\ u \in Users /\ row \in Account
            /\ app_users' = [app_users EXCEPT ![u] = row]
            /\ overtaken \subseteq overtaken'
            /\ u \notin overtaken' =>
                 /\ now.session_version <= row.session_version
                 /\ row # now => now.session_version < row.session_version
  <1> DEFINE work == worker[w]
             u == work.user
             now == app_users[u]
             read == work.row
             version == IF SecurityChanged(read, work.profile)
                        THEN read.session_version + 1 ELSE read.session_version
             new == [now EXCEPT
                       !.org = Stored(read.org, work.profile.org, @),
                       !.enabled = Stored(read.enabled, work.profile.enabled, @),
                       !.session_version = Stored(read.session_version, version, @)]
  <1>1. work \in Working
    BY AtWork DEF CommitSync, SessionInv
  <1>2. u \in Users /\ now \in Account /\ work.profile \in Profile /\ read \in Account
    BY <1>1 DEF SessionInv, TypeOK, Working
  <1>3. app_users' = [app_users EXCEPT ![u] = new] /\ app_users'[u] = new
    BY <1>2 DEF CommitSync, SessionInv, TypeOK, Account
  <1>4. version \in Nat /\ now.session_version \in Nat /\ read.session_version \in Nat
    BY <1>2 DEF Account
  <1>5. new \in Account
    BY <1>2, <1>4 DEF Stored, Account, Profile
  <1>6. new.session_version = Stored(read.session_version, version, now.session_version)
    BY <1>2 DEF Account
  <1>7. overtaken' = IF version # read.session_version THEN Overtaken(u, read) ELSE overtaken
    BY DEF CommitSync
  <1>8. overtaken \subseteq overtaken'
    BY <1>7 DEF Overtaken
  <1>9. ASSUME u \notin overtaken'
        PROVE  /\ now.session_version <= new.session_version
               /\ new # now => now.session_version < new.session_version
    <2> HIDE DEF new
    <2>1. CASE SecurityChanged(read, work.profile)
      <3>1. version = read.session_version + 1
        BY <2>1
      <3> HIDE DEF version
      <3>2. version # read.session_version
        BY <1>4, <3>1
      <3>3. read.session_version = now.session_version
        BY <1>7, <1>9, <3>2 DEF Overtaken
      <3>4. new.session_version = version
        BY <1>6, <3>2 DEF Stored
      <3>5. new.session_version = now.session_version + 1
        BY <3>1, <3>3, <3>4
      <3>6. QED
        BY <1>4, <3>5
    <2>2. CASE ~SecurityChanged(read, work.profile)
      <3>1. /\ version = read.session_version
            /\ work.profile.org = read.org /\ work.profile.enabled = read.enabled
        BY <2>2 DEF SecurityChanged
      <3>2. new = now
        BY <1>2, <3>1 DEF Stored, Account, new
      <3>3. QED
        BY <1>4, <3>2
    <2>3. QED
      BY <2>1, <2>2
  <1> HIDE DEF new, version
  <1>10. QED
    BY <1>2, <1>3, <1>5, <1>8, <1>9

\* A script that sets a password writes a higher version, unless it was
\* overtaken.
LEMMA ResetWrites ==
  ASSUME SessionInv, NEW w \in Workers, CommitReset(w)
  PROVE  LET u == worker[w].user
             row == app_users'[u]
         IN /\ u \in Users /\ row \in Account
            /\ app_users' = [app_users EXCEPT ![u] = row]
            /\ overtaken \subseteq overtaken'
            /\ u \notin overtaken' => row.session_version = app_users[u].session_version + 1
  <1> DEFINE work == worker[w]
             u == work.user
             now == app_users[u]
             read == work.row
  <1>1. work \in Working
    BY AtWork DEF CommitReset, SessionInv
  <1>2. u \in Users /\ now \in Account
    BY <1>1 DEF SessionInv, TypeOK, Working
  <1>3. app_users' = [app_users EXCEPT ![u] = app_users'[u]]
    BY <1>2 DEF CommitReset, SessionInv, TypeOK
  <1>4. app_users'[u].session_version = read.session_version + 1
    BY <1>2 DEF CommitReset, SessionInv, TypeOK
  <1>5. overtaken' = Overtaken(u, read)
    BY DEF CommitReset
  <1>6. overtaken \subseteq overtaken'
    BY <1>5 DEF Overtaken
  <1>7. u \notin overtaken' => read.session_version = now.session_version
    BY <1>5 DEF Overtaken
  <1>8. app_users'[u] \in Account
    BY <1>2, TypeStep DEF SessionInv, TypeOK, Next
  <1>9. QED
    BY <1>2, <1>3, <1>4, <1>6, <1>7, <1>8

LEMMA SessionInit == Init => SessionInv
  <1> SUFFICES ASSUME Init
               PROVE  SessionInv
    OBVIOUS
  <1>1. NotAhead
    BY DEF Init, NotAhead
  <1>2. QED
    BY <1>1, TypeInit DEF SessionInv

LEMMA SessionStep == SessionInv /\ [Next]_vars => SessionInv'
  <1> SUFFICES ASSUME SessionInv, [Next]_vars
               PROVE  NotAhead'
    BY TypeStep DEF SessionInv
  <1>1. ASSUME UNCHANGED <<app_users, tokens, overtaken>>
        PROVE  NotAhead'
    BY <1>1 DEF SessionInv, NotAhead
  <1>2. ASSUME NEW w \in Workers, CommitLogin(w)
        PROVE  NotAhead'
    BY <1>2, LoginKeeps
  <1>3. ASSUME NEW w \in Workers, CommitLogout(w)
        PROVE  NotAhead'
    <2> DEFINE u == worker[w].user
               row == Incremented(w, app_users[u])
    <2>1. u \in Users /\ app_users[u] \in Account
      BY <1>3, AtWork DEF CommitLogout, SessionInv, TypeOK, Working
    <2>2. row \in Account /\ app_users[u].session_version <= row.session_version
      BY <2>1 DEF Incremented, Account
    <2> HIDE DEF row
    <2>3. app_users' = [app_users EXCEPT ![u] = row] /\ UNCHANGED <<tokens, overtaken>>
      BY <1>3 DEF CommitLogout, row
    <2>4. QED
      BY <2>1, <2>2, <2>3, RowAdvances
  <1>4. ASSUME NEW w \in Workers, CommitResolve(w)
        PROVE  NotAhead'
    <2> DEFINE work == worker[w]
               u == work.user
               now == app_users[u]
               row == IF work.row = NoAccount
                      THEN NewUser(work.profile)
                      ELSE [now EXCEPT !.org = Stored(work.row.org, work.profile.org, @),
                                       !.enabled = Stored(work.row.enabled, TRUE, @)]
    <2>1. /\ u \in Users /\ now \in Account
          /\ work.profile \in Profile /\ work.row \in Account
      BY <1>4, AtWork DEF CommitResolve, SessionInv, TypeOK, Working
    <2>2. row \in Account
      BY <2>1, NoAccountType DEF NewUser, Stored, Account, Profile
    <2>3. row.session_version = now.session_version
      <3>1. CASE work.row = NoAccount
        BY <1>4, <3>1 DEF CommitResolve, Exists, NewUser, NoAccount
      <3>2. CASE work.row # NoAccount
        BY <2>1, <3>2 DEF Account
      <3>3. QED
        BY <3>1, <3>2
    <2>4. now.session_version <= row.session_version
      BY <2>1, <2>3 DEF Account
    <2>5. app_users' = [app_users EXCEPT ![u] = row] /\ UNCHANGED <<tokens, overtaken>>
      BY <1>4 DEF CommitResolve
    <2> HIDE DEF row
    <2>6. QED
      BY <2>1, <2>2, <2>4, <2>5, RowAdvances
  <1>5. ASSUME NEW w \in Workers, CommitSync(w)
        PROVE  NotAhead'
    <2> DEFINE u == worker[w].user
               row == app_users'[u]
    <2>1. /\ u \in Users /\ row \in Account
          /\ app_users' = [app_users EXCEPT ![u] = row]
          /\ overtaken \subseteq overtaken'
          /\ u \notin overtaken' => app_users[u].session_version <= row.session_version
      BY <1>5, SyncWrites
    <2>2. UNCHANGED tokens
      BY <1>5 DEF CommitSync
    <2> HIDE DEF row
    <2>3. QED
      BY <2>1, <2>2, RowAdvances
  <1>6. ASSUME NEW w \in Workers, CommitReset(w)
        PROVE  NotAhead'
    <2> DEFINE u == worker[w].user
               row == app_users'[u]
    <2>1. /\ u \in Users /\ row \in Account
          /\ app_users' = [app_users EXCEPT ![u] = row]
          /\ overtaken \subseteq overtaken'
          /\ u \notin overtaken' => row.session_version = app_users[u].session_version + 1
      BY <1>6, ResetWrites
    <2>2. app_users[u].session_version \in Nat
      BY <2>1 DEF SessionInv, TypeOK, Account
    <2>3. UNCHANGED tokens
      BY <1>6 DEF CommitReset
    <2> HIDE DEF row
    <2>4. u \notin overtaken' => app_users[u].session_version <= row.session_version
      BY <2>1, <2>2
    <2>5. QED
      BY <2>1, <2>3, <2>4, RowAdvances
  <1>7. CASE UNCHANGED vars
    BY <1>1, <1>7 DEF vars
  <1>8. QED
    BY <1>1, <1>2, <1>3, <1>4, <1>5, <1>6, <1>7
    DEF Next, BeginLogin, BeginSession, BeginLogout, BeginResolve, ResolveCollides,
        BeginSync, BeginReset

LEMMA SessionsAlways == Spec => []SessionInv
  BY SessionInit, SessionStep, PTL DEF Spec

LEMMA LoginStep ==
  ASSUME SessionInv, NEW w \in Workers, CommitLogin(w), app_users[worker[w].user].enabled,
         worker[w].user \notin overtaken,
         NEW i \in DOMAIN tokens', tokens'[i].user = worker[w].user
  PROVE  Accepted(i)' <=> i = Len(tokens')
  <1> DEFINE u == worker[w].user
             row == app_users'[u]
             token == [user |-> u, org |-> row.org, session_version |-> row.session_version]
  <1>1. /\ u \in Users /\ row \in Account
        /\ row.session_version = app_users[u].session_version + 1
        /\ row.enabled = app_users[u].enabled
        /\ tokens' = Append(tokens, token)
    BY LoginWrites
  <1>2. tokens \in Seq(Token) /\ app_users \in [Users -> Account]
    BY DEF SessionInv, TypeOK
  <1>3. Accepted(i)' <=> /\ row.enabled
                        /\ tokens'[i].session_version = row.session_version
                        /\ tokens'[i].org = row.org
    BY DEF Accepted
  <1>4. row.enabled
    BY <1>1
  <1>5. token.user = u /\ token.org = row.org /\ token.session_version = row.session_version
    OBVIOUS
  <1>6. app_users[u].session_version \in Nat
    BY <1>1, <1>2 DEF Account
  <1> HIDE DEF row, token
  <1>7. CASE i = Len(tokens')
    <2>1. tokens'[i] = token
      BY <1>1, <1>2, <1>7
    <2>2. QED
      BY <1>3, <1>4, <1>5, <1>7, <2>1
  <1>8. CASE i # Len(tokens')
    <2>1. i \in 1..Len(tokens) /\ tokens'[i] = tokens[i]
      BY <1>1, <1>2, <1>8
    <2>2. tokens[i] \in Token
      BY <1>2, <2>1, ElementOfSeq
    <2>3. tokens[i].session_version \in Nat /\ tokens[i].user = u
      BY <2>1, <2>2 DEF Token
    <2>4. tokens[i].session_version <= app_users[u].session_version
      BY <1>2, <2>1, <2>3 DEF SessionInv, NotAhead
    <2>5. tokens'[i].session_version # row.session_version
      BY <1>1, <1>6, <2>1, <2>3, <2>4
    <2>6. QED
      BY <1>3, <1>8, <2>5
  <1>9. QED
    BY <1>7, <1>8

\* A login of an enabled account hands out a token that is accepted, and none
\* before it is any more, whatever became of the account since the password was
\* checked, whatever scripts run beside it, as long as none of them was overtaken
\* on this account.
THEOREM LoginLeavesOneToken == Spec => LoginIsNewest
  <1>1. SessionInv /\ [Next]_vars =>
          [\A w \in Workers :
             (CommitLogin(w) /\ app_users[worker[w].user].enabled
                /\ worker[w].user \notin overtaken) =>
               \A i \in DOMAIN tokens' :
                 tokens'[i].user = worker[w].user => (Accepted(i)' <=> i = Len(tokens'))]_vars
    BY LoginStep
  <1>2. QED
    BY <1>1, SessionsAlways, PTL DEF Spec, LoginIsNewest

LEMMA ScriptStep ==
  ASSUME SessionInv, NEW w \in Workers,
         \/ CommitReset(w)
         \/ CommitSync(w) /\ app_users'[worker[w].user] # app_users[worker[w].user],
         worker[w].user \notin overtaken',
         NEW i \in DOMAIN tokens, tokens[i].user = worker[w].user
  PROVE  tokens[i].session_version < app_users'[worker[w].user].session_version
  <1> DEFINE u == worker[w].user
             row == app_users'[u]
  <1>1. /\ u \in Users /\ row \in Account
        /\ overtaken \subseteq overtaken'
        /\ \/ row.session_version = app_users[u].session_version + 1
           \/ app_users[u].session_version < row.session_version
    BY ResetWrites, SyncWrites
  <1>2. tokens[i] \in Token
    BY ElementOfSeq DEF SessionInv, TypeOK
  <1>3. /\ tokens[i].session_version \in Nat /\ row.session_version \in Nat
        /\ app_users[u].session_version \in Nat
    BY <1>1, <1>2 DEF SessionInv, TypeOK, Account, Token
  <1>4. tokens[i].session_version <= app_users[u].session_version
    BY <1>1 DEF SessionInv, NotAhead
  <1> HIDE DEF row
  <1>5. tokens[i].session_version < row.session_version
    BY <1>1, <1>3, <1>4
  <1>6. QED
    BY <1>5 DEF row

\* A script that moves, disables or resets an account leaves no token of it that
\* could be accepted later, with any logins and other scripts beside it, unless
\* it or a script before it was overtaken on this account.
THEOREM ScriptsEndSessions == Spec => ScriptEndsSessions
  <1>1. SessionInv /\ [Next]_vars =>
          [\A w \in Workers :
             /\ \/ CommitReset(w)
                \/ CommitSync(w) /\ app_users'[worker[w].user] # app_users[worker[w].user]
             /\ worker[w].user \notin overtaken'
             => \A i \in DOMAIN tokens :
                  tokens[i].user = worker[w].user =>
                    tokens[i].session_version < app_users'[worker[w].user].session_version]_vars
    BY ScriptStep
  <1>2. QED
    BY <1>1, SessionsAlways, PTL DEF Spec, ScriptEndsSessions

===============================================================================
