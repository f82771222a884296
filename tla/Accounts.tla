------------------------------ MODULE Accounts ------------------------------
(***************************************************************************)
(* Accounts and sessions of the web tier: the user records, their e-mail   *)
(* and username indexes and the sessions in the key-value store            *)
(* (web/lib/kv-users.ts, web/lib/session.ts), and the handlers that use    *)
(* them (web/routes: _middleware, auth/*, api/auth, dashboard,             *)
(* admin/users).                                                           *)
(*                                                                         *)
(* Every await of a handler is a step of its own; between two of them the  *)
(* other open requests run.  An atomic().check(e)...commit() is one step   *)
(* that looks at the store again.  Whatever a request creates is named     *)
(* after the request, as a random UUID would be: the account, the session. *)
(***************************************************************************)
EXTENDS Naturals, FiniteSets

CONSTANTS
    Seed,        \* the accounts there are at first, administrators signed in
    Request,     \* the requests browsers send
    FreeEmail,   \* e-mail addresses nobody has at first
    FreeName,    \* usernames nobody has at first
    NoUser,      \* the null of a lookup that finds nobody
    NoEntry,     \* the null of a read that finds no record
    NoCookie,    \* a request without a session cookie
    MaxOpen      \* bound: requests served at the same time

ASSUME SeedAssumption == Seed \cap Request = {} /\ NoUser \notin Seed \cup Request
ASSUME MaxOpenAssumption == MaxOpen \in Nat

VARIABLES
    \* the store
    live,        \* ids under ["users", id]
    acct,        \* their records, the last one for an account deleted since
    byEmail,     \* ["users_by_email", email]
    byName,      \* ["users_by_username", username]
    sessions,    \* ["sessions", id]
    expired,     \* sessions whose expiresAt has passed
    \* the requests
    job,         \* what is asked: the handler and the fields of the form
    cookie,      \* the session named by the cookie
    pc,          \* the await the handler is at
    me,          \* ctx.state.user: the id and the role read by the middleware
    who,         \* the account the handler works on
    entry,       \* the record it read of that account
    answer       \* what the browser was told

users == <<live, acct, byEmail, byName>>
store == <<users, sessions, expired>>
locals == <<job, cookie, me, who, entry>>
accountVars == <<store, pc, locals, answer>>

User == Seed \cup Request
Session == Seed \cup Request
Email == Seed \cup FreeEmail
Name == Seed \cup FreeName
Role == {"user", "editor", "admin"}
Nobody == [id |-> NoUser, role |-> "user"]

ROLE_CYCLE == [user |-> "editor", editor |-> "admin", admin |-> "user"]

(* The forms that pass the validation of their page.                       *)
Job ==
    [op : {"register"}, email : Email, name : Name, titled : BOOLEAN]
      \cup [op : {"login"}, email : Email]
      \cup [op : {"logout", "account"}]
      \cup [op : {"toggle", "delete"}, target : User]
NoJob == [op |-> "none"]

SeedAccount(u) == [email |-> u, name |-> u, role |-> "admin", profile |-> NoEntry, ver |-> 0]

Init ==
    /\ live = Seed
    /\ acct = [u \in User |-> IF u \in Seed THEN SeedAccount(u) ELSE NoEntry]
    /\ byEmail = [e \in Email |-> IF e \in Seed THEN e ELSE NoUser]
    /\ byName = [n \in Name |-> IF n \in Seed THEN n ELSE NoUser]
    /\ sessions = [s \in Session |-> IF s \in Seed THEN s ELSE NoUser]
    /\ expired = {}
    /\ job = [q \in Request |-> NoJob]
    /\ cookie = [q \in Request |-> NoCookie]
    /\ pc = [q \in Request |-> "idle"]
    /\ me = [q \in Request |-> Nobody]
    /\ who = [q \in Request |-> NoUser]
    /\ entry = [q \in Request |-> NoEntry]
    /\ answer = [q \in Request |-> "none"]

-----------------------------------------------------------------------------
(* The life of a request: the middleware reads the session, then the user. *)

Open(q) == pc[q] \notin {"idle", "done"}

(* Those who register or sign in have no session, or one nobody looks at.  *)
Begin(q, j, c) ==
    /\ pc[q] = "idle"
    /\ j.op \in {"register", "login"} => c = NoCookie
    /\ Cardinality({p \in Request : Open(p)}) < MaxOpen
    /\ job' = [job EXCEPT ![q] = j]
    /\ cookie' = [cookie EXCEPT ![q] = c]
    /\ pc' = [pc EXCEPT ![q] = IF c = NoCookie THEN "handle" ELSE "session"]
    /\ UNCHANGED <<store, me, who, entry, answer>>

(* A browser sends the cookie of a session it was given once, or none.     *)
Cookie == {s \in Session : s \in Request => answer[s] = "ok" /\ job[s].op \in {"register", "login"}}
            \cup {NoCookie}

Goto(q, place) == pc' = [pc EXCEPT ![q] = place]

(* The request is answered; the handler's variables are gone.              *)
Finish(q, told) ==
    /\ pc' = [pc EXCEPT ![q] = "done"]
    /\ answer' = [answer EXCEPT ![q] = told]
    /\ job' = [job EXCEPT ![q] = IF told = "ok" THEN @ ELSE NoJob]
    /\ cookie' = [cookie EXCEPT ![q] = NoCookie]
    /\ me' = [me EXCEPT ![q] = Nobody]
    /\ who' = [who EXCEPT ![q] = NoUser]
    /\ entry' = [entry EXCEPT ![q] = NoEntry]

(* The session is gone, there, or there but expired.                       *)
ReadSession(q) ==
    /\ pc[q] = "session"
    /\ LET s == cookie[q] IN
         \/ /\ sessions[s] = NoUser
            /\ Goto(q, "handle")
            /\ UNCHANGED <<sessions, expired, who>>
         \/ /\ sessions[s] # NoUser
            /\ s \notin expired
            /\ Goto(q, "user")
            /\ who' = [who EXCEPT ![q] = sessions[s]]
            /\ UNCHANGED <<sessions, expired>>
         \/ /\ sessions[s] # NoUser
            /\ expired' = expired \cup {s}
            /\ Goto(q, "drop")
            /\ UNCHANGED <<sessions, who>>
    /\ UNCHANGED <<users, job, cookie, me, entry, answer>>

DropSession(q) ==
    /\ pc[q] = "drop"
    /\ sessions' = [sessions EXCEPT ![cookie[q]] = NoUser]
    /\ Goto(q, "handle")
    /\ UNCHANGED <<users, expired, job, cookie, me, who, entry, answer>>

ReadUser(q) ==
    /\ pc[q] = "user"
    /\ me' = [me EXCEPT ![q] = IF who[q] \in live
                               THEN [id |-> who[q], role |-> acct[who[q]].role]
                               ELSE Nobody]
    /\ who' = [who EXCEPT ![q] = NoUser]
    /\ Goto(q, "handle")
    /\ UNCHANGED <<store, job, cookie, entry, answer>>

(* The process stops or an await rejects; an account that was stored stays *)
(* stored.  Before that, it is as if the request had not been sent.        *)
Fail(q) ==
    /\ q \in live
    /\ Open(q)
    /\ Finish(q, "error")
    /\ UNCHANGED store

-----------------------------------------------------------------------------
(* createUser(), as the register handlers call it.                         *)

CheckEmail(q) ==
    /\ pc[q] = "handle"
    /\ job[q].op = "register"
    /\ IF byEmail[job[q].email] # NoUser
       THEN Finish(q, "error")
       ELSE Goto(q, "checkName") /\ UNCHANGED <<locals, answer>>
    /\ UNCHANGED store

CheckName(q) ==
    /\ pc[q] = "checkName"
    /\ IF byName[job[q].name] # NoUser
       THEN Finish(q, "error")
       ELSE Goto(q, "commitUser") /\ UNCHANGED <<locals, answer>>
    /\ UNCHANGED store

StoreAccount(q) ==
    LET j == job[q] IN
    /\ live' = live \cup {q}
    /\ acct' = [acct EXCEPT ![q] = [email |-> j.email, name |-> j.name, role |-> "user",
                                    profile |-> NoEntry, ver |-> 0]]
    /\ byEmail' = [byEmail EXCEPT ![j.email] = q]
    /\ byName' = [byName EXCEPT ![j.name] = q]
    /\ who' = [who EXCEPT ![q] = q]
    /\ Goto(q, IF j.titled THEN "read" ELSE "createSession")
    /\ UNCHANGED <<sessions, expired, job, cookie, me, entry, answer>>

CommitUserUnchecked(q) ==    \* mutant: the username is not checked again
    /\ pc[q] = "commitUser"
    /\ IF byEmail[job[q].email] = NoUser
       THEN StoreAccount(q)
       ELSE Finish(q, "error") /\ UNCHANGED store

(* The password was hashed meanwhile; both names must still be free.       *)
CommitUser(q) ==
    /\ pc[q] = "commitUser"
    /\ IF byEmail[job[q].email] = NoUser /\ byName[job[q].name] = NoUser
       THEN StoreAccount(q)
       ELSE Finish(q, "error") /\ UNCHANGED store

(* createSession(): the user may be gone by now.                           *)
CreateSession(q) ==
    /\ pc[q] = "createSession"
    /\ sessions' = [sessions EXCEPT ![q] = who[q]]
    /\ Finish(q, "ok")
    /\ UNCHANGED <<users, expired>>

-----------------------------------------------------------------------------
(* Signing in and out.                                                     *)

FindEmail(q) ==
    /\ pc[q] = "handle"
    /\ job[q].op = "login"
    /\ LET found == byEmail[job[q].email] IN
         IF found = NoUser
         THEN Finish(q, "error")
         ELSE /\ Goto(q, "findUser")
              /\ who' = [who EXCEPT ![q] = found]
              /\ UNCHANGED <<job, cookie, me, entry, answer>>
    /\ UNCHANGED store

(* getUserById(), then the password is verified.                           *)
FindUser(q) ==
    /\ pc[q] = "findUser"
    /\ \/ who[q] \in live /\ Goto(q, "createSession") /\ UNCHANGED <<locals, answer>>
       \/ Finish(q, "error")
    /\ UNCHANGED store

DestroySession(q) ==
    /\ pc[q] = "handle"
    /\ job[q].op = "logout"
    /\ sessions' = [s \in Session |-> IF s = cookie[q] THEN NoUser ELSE sessions[s]]
    /\ Finish(q, "ok")
    /\ UNCHANGED <<users, expired>>

-----------------------------------------------------------------------------
(* updateUser(), toggleRole() and deleteUser(): read, then check and set.  *)

SelfAllowed(q) ==    \* mutant: administrators may act on themselves
    /\ me[q].id # NoUser
    /\ me[q].role = "admin"

(* admin/_middleware and the refusals of applyAction() and toggleRole().   *)
Allowed(q) ==
    /\ me[q].id # NoUser
    /\ me[q].role = "admin"
    /\ job[q].target # me[q].id

MayUpdate(q) == IF job[q].op = "account" THEN me[q].id # NoUser ELSE Allowed(q)

Subject(q) == IF job[q].op = "account" THEN me[q].id ELSE job[q].target

(* What the sender may not do ends here, the rest goes on.                 *)
StartUpdate(q) ==
    /\ pc[q] = "handle"
    /\ job[q].op \in {"account", "toggle", "delete"}
    /\ IF MayUpdate(q)
       THEN /\ who' = [who EXCEPT ![q] = Subject(q)]
            /\ Goto(q, "read")
            /\ UNCHANGED <<job, cookie, me, entry, answer>>
       ELSE Finish(q, "refused")
    /\ UNCHANGED store

CommitOf == [register |-> "commitProfile", account |-> "commitProfile",
             toggle |-> "commitRole", delete |-> "commitDelete"]

(* The record may be gone: register goes on with null all the same.        *)
ReadEntry(q) ==
    /\ pc[q] = "read"
    /\ IF who[q] \in live
       THEN /\ entry' = [entry EXCEPT ![q] = acct[who[q]]]
            /\ Goto(q, CommitOf[job[q].op])
            /\ UNCHANGED <<job, cookie, me, who, answer>>
       ELSE IF job[q].op = "register"
            THEN Goto(q, "createSession") /\ UNCHANGED <<locals, answer>>
            ELSE Finish(q, "error")
    /\ UNCHANGED store

(* The record is the one that was read: versionstamps change with a write. *)
Unchanged(q) == who[q] \in live /\ acct[who[q]] = entry[q]

(* What the two writers make of the record they read.                      *)
Titled(record, title) ==
    [email |-> record.email, name |-> record.name, role |-> record.role,
     profile |-> title, ver |-> record.ver + 1]

Turned(record) ==
    [email |-> record.email, name |-> record.name, role |-> ROLE_CYCLE[record.role],
     profile |-> record.profile, ver |-> record.ver + 1]

SetProfile(q) ==
    /\ acct' = [acct EXCEPT ![who[q]] = Titled(entry[q], q)]
    /\ IF job[q].op = "register"
       THEN Goto(q, "createSession") /\ UNCHANGED <<locals, answer>>
       ELSE Finish(q, "ok")
    /\ UNCHANGED <<live, byEmail, byName, sessions, expired>>

CommitProfile(q) ==
    /\ pc[q] = "commitProfile"
    /\ IF Unchanged(q)
       THEN SetProfile(q)
       ELSE Finish(q, "error") /\ UNCHANGED store

SetRole(q) ==
    /\ acct' = [acct EXCEPT ![who[q]] = Turned(entry[q])]
    /\ Finish(q, "ok")
    /\ UNCHANGED <<live, byEmail, byName, sessions, expired>>

RoleUnchecked(q) ==    \* mutant: the role is set without the check
    /\ pc[q] = "commitRole"
    /\ SetRole(q)

CommitRole(q) ==
    /\ pc[q] = "commitRole"
    /\ IF Unchanged(q)
       THEN SetRole(q)
       ELSE Finish(q, "error") /\ UNCHANGED store

(* deleteUser() reports success whatever its commit returned.              *)
CommitDelete(q) ==
    /\ pc[q] = "commitDelete"
    /\ IF Unchanged(q)
       THEN /\ live' = live \ {who[q]}
            /\ byEmail' = [byEmail EXCEPT ![entry[q].email] = NoUser]
            /\ byName' = [byName EXCEPT ![entry[q].name] = NoUser]
       ELSE UNCHANGED <<live, byEmail, byName>>
    /\ Finish(q, "ok")
    /\ UNCHANGED <<acct, sessions, expired>>

-----------------------------------------------------------------------------

Handle(q) ==
    \/ ReadSession(q) \/ DropSession(q) \/ ReadUser(q) \/ Fail(q)
    \/ CheckEmail(q) \/ CheckName(q) \/ CommitUser(q) \/ CreateSession(q)
    \/ FindEmail(q) \/ FindUser(q) \/ DestroySession(q)
    \/ StartUpdate(q) \/ ReadEntry(q)
    \/ CommitProfile(q) \/ CommitRole(q) \/ CommitDelete(q)

Next ==
    \E q \in Request :
      \/ \E j \in Job, c \in Cookie : Begin(q, j, c)
      \/ Handle(q)

Spec == Init /\ [][Next]_accountVars

-----------------------------------------------------------------------------
(* Properties.                                                             *)

Account == [email : Email, name : Name, role : Role, profile : Request \cup {NoEntry}, ver : Nat]
Place == {"idle", "session", "drop", "user", "handle", "checkName", "commitUser",
          "createSession", "findUser", "read", "commitProfile", "commitRole",
          "commitDelete", "done"}

TypeOK ==
    /\ live \in SUBSET User
    /\ acct \in [User -> Account \cup {NoEntry}]
    /\ \A u \in live : acct[u] \in Account
    /\ byEmail \in [Email -> User \cup {NoUser}]
    /\ byName \in [Name -> User \cup {NoUser}]
    /\ sessions \in [Session -> User \cup {NoUser}]
    /\ expired \in SUBSET Session
    /\ job \in [Request -> Job \cup {NoJob}]
    /\ cookie \in [Request -> Session \cup {NoCookie}]
    /\ pc \in [Request -> Place]
    /\ me \in [Request -> [id : User \cup {NoUser}, role : Role]]
    /\ who \in [Request -> User \cup {NoUser}]
    /\ entry \in [Request -> Account \cup {NoEntry}]
    /\ answer \in [Request -> {"none", "ok", "error", "refused"}]

(* The indexes and the records agree both ways whichever handlers race, so *)
(* that no two accounts share an e-mail address or a username, a deleted   *)
(* account frees both, and nobody is unreachable.                          *)
IndexesAgree ==
    /\ TypeOK
    /\ \A u \in User, e \in Email :
         byEmail[e] = u <=> u \in live /\ acct[u].email = e
    /\ \A u \in User, n \in Name :
         byName[n] = u <=> u \in live /\ acct[u].name = n

(* A step that changes an account changes what its handler is for and      *)
(* nothing else; nothing brings a deleted account back.                    *)
WritesAreIsolated ==
    [][/\ \A u \in live' \ live : u \in Request /\ pc[u] = "commitUser"
       /\ \A u \in live \cap live' :
            acct'[u] # acct[u] =>
              \E q \in Request :
                /\ who[q] = u /\ pc'[q] # pc[q]
                /\ \/ acct'[u] = Titled(acct[u], q) /\ u \in {q, me[q].id}
                   \/ acct'[u] = Turned(acct[u]) /\ u # me[q].id]_accountVars

Admins == {u \in live : acct[u].role = "admin"}

(* Administrators can be all gone only through a request whose sender was  *)
(* one when it was let in and no longer is: two of them have to race.      *)
LastAdminNeedsARace ==
    [][Admins # {} /\ Admins' = {} =>
         \E q \in Request : /\ pc[q] \in {"commitRole", "commitDelete"}
                            /\ pc'[q] = "done"
                            /\ me[q].role = "admin"
                            /\ me[q].id \notin Admins]_accountVars

=============================================================================
