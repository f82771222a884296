-------------------------- MODULE AccountsProofs ---------------------------
(***************************************************************************)
(* Accounts, and the authorization server that shares their store, for any *)
(* number of accounts, requests, clients and calls.                        *)
(*                                                                         *)
(* Accounts: the records and the two indexes agree, and what one request   *)
(* does to an account no other undoes.  Beside the type of the variables   *)
(* the induction needs what a handler knows at each await: which form it   *)
(* serves, that the account it creates is not there yet, and that it works *)
(* on the account its sender may work on.                                  *)
(*                                                                         *)
(* Grants: the right to the next tokens never forks.  Nothing need be      *)
(* known of the accounts for it, only that a request that made its code is *)
(* over; of a call about to take a code or a token, that the record it     *)
(* read is of the authorization of the one it deletes.  What a token says  *)
(* is what was allowed, and was so during the call: for this, the second   *)
(* invariant follows the records of a grant back to the authorize page,    *)
(* and a call's comparisons and its look at the account to its answer.     *)
(***************************************************************************)
EXTENDS OAuthGrants, TLAPS

(* A request up to the commit of createUser() has not stored its account.  *)
Early == {"idle", "session", "drop", "user", "handle", "checkName", "commitUser"}
AccountsAreFresh == \A q \in Request : q \in live => pc[q] \notin Early

(* The form served at each place of the handlers.                          *)
FormsFit ==
    \A q \in Request :
      /\ pc[q] \in {"session", "drop"} => cookie[q] \in Session
      /\ pc[q] \in {"checkName", "commitUser"} => job[q].op = "register"
      /\ pc[q] = "read" => job[q].op \in {"register", "account", "toggle", "delete"}
      /\ pc[q] = "commitProfile" => job[q].op \in {"register", "account"}
      /\ pc[q] = "commitRole" => job[q].op = "toggle"
      /\ pc[q] = "commitDelete" => job[q].op = "delete"

(* The account worked on: one's own, or as an administrator another one.   *)
SubjectsFit ==
    \A q \in Request : pc[q] \in {"read", "commitProfile", "commitRole", "commitDelete"} =>
      /\ job[q].op = "register" => who[q] = q
      /\ job[q].op = "account" => who[q] = me[q].id
      /\ job[q].op \in {"toggle", "delete"} => who[q] # me[q].id /\ me[q].role = "admin"

(* TypeOK and IndexesAgree by the part of the state they are about.        *)
StoreTypes ==
    /\ live \in SUBSET User
    /\ acct \in [User -> Account \cup {NoEntry}]
    /\ \A u \in live : acct[u] \in Account
    /\ byEmail \in [Email -> User \cup {NoUser}]
    /\ byName \in [Name -> User \cup {NoUser}]

SessionTypes ==
    /\ sessions \in [Session -> User \cup {NoUser}]
    /\ expired \in SUBSET Session

LocalTypes ==
    /\ job \in [Request -> Job \cup {NoJob}]
    /\ cookie \in [Request -> Session \cup {NoCookie}]
    /\ pc \in [Request -> Place]
    /\ me \in [Request -> [id : User \cup {NoUser}, role : Role]]
    /\ who \in [Request -> User \cup {NoUser}]
    /\ entry \in [Request -> Account \cup {NoEntry}]
    /\ answer \in [Request -> {"none", "ok", "error", "refused"}]

NamesAgree ==
    /\ \A u \in User, e \in Email : byEmail[e] = u <=> u \in live /\ acct[u].email = e
    /\ \A u \in User, n \in Name : byName[n] = u <=> u \in live /\ acct[u].name = n

StoreInv == StoreTypes /\ SessionTypes /\ NamesAgree
HandlerInv == LocalTypes /\ FormsFit /\ SubjectsFit

IInv == StoreInv /\ HandlerInv /\ AccountsAreFresh

(* What is proved of the parts is IndexesAgree.                            *)
LEMMA InvariantAgrees == IInv => IndexesAgree
BY DEF IInv, StoreInv, HandlerInv, StoreTypes, SessionTypes, LocalTypes, NamesAgree,
   IndexesAgree, TypeOK

(* Ids are never the null of a lookup.                                     *)
LEMMA NobodyIsNoUser == NoUser \notin User
BY SeedAssumption DEF User

-----------------------------------------------------------------------------
(* Init establishes the invariant.                                         *)
LEMMA InitInvariant == Init => IInv
<1> SUFFICES ASSUME Init PROVE IInv
  OBVIOUS
<1> USE DEF Init
<1>1. \A u \in Seed : SeedAccount(u) \in Account
  BY DEF SeedAccount, Account, Email, Name, Role
<1>2. StoreTypes
  <2>1. live \in SUBSET User
    BY DEF User
  <2>2. acct \in [User -> Account \cup {NoEntry}] /\ \A u \in live : acct[u] \in Account
    BY <1>1, <2>1
  <2> QED
    BY <2>1, <2>2 DEF StoreTypes, User, Email, Name
<1>3. SessionTypes
  BY DEF SessionTypes, Session, User
<1>4. NamesAgree
  <2>1. \A u \in live : acct[u].email = u /\ acct[u].name = u
    BY DEF SeedAccount, User
  <2> QED
    BY <2>1, NobodyIsNoUser DEF NamesAgree, Email, Name, User
<1>5. LocalTypes
  BY DEF LocalTypes, Place, Nobody, Role, User
<1>6. FormsFit /\ SubjectsFit
  BY DEF FormsFit, SubjectsFit
<1>7. AccountsAreFresh
  BY SeedAssumption DEF AccountsAreFresh
<1> QED
  BY <1>2, <1>3, <1>4, <1>5, <1>6, <1>7 DEF IInv, StoreInv, HandlerInv

-----------------------------------------------------------------------------
(* The handlers' own state.  An answer leaves nothing behind.              *)
LEMMA FinishKeeps ==
    ASSUME HandlerInv, NEW q \in Request, NEW told \in {"ok", "error", "refused"}, Finish(q, told)
    PROVE  HandlerInv'
<1> USE DEF HandlerInv, Finish
<1>1. LocalTypes'
  BY DEF LocalTypes, Place, Nobody, Role
<1>2. FormsFit'
  BY DEF FormsFit, LocalTypes
<1>3. SubjectsFit'
  BY DEF SubjectsFit, LocalTypes
<1> QED
  BY <1>1, <1>2, <1>3

(* A step to another await, with the handler's variables as they are.      *)
LEMMA GotoKeeps ==
    ASSUME HandlerInv, NEW q \in Request, NEW place, Goto(q, place), UNCHANGED <<locals, answer>>,
           place \in {"handle", "checkName", "commitUser", "createSession"},
           place \in {"checkName", "commitUser"} => job[q].op = "register"
    PROVE  HandlerInv'
<1> USE DEF HandlerInv, Goto, locals
<1>1. LocalTypes'
  BY DEF LocalTypes, Place
<1>2. FormsFit'
  BY DEF FormsFit, LocalTypes
<1>3. SubjectsFit'
  BY DEF SubjectsFit, LocalTypes
<1> QED
  BY <1>1, <1>2, <1>3

-----------------------------------------------------------------------------
(* The actions, first those that leave the accounts alone.                 *)
LEMMA BeginKeeps ==
    ASSUME IInv, NEW q \in Request, NEW j \in Job, NEW c \in Cookie, Begin(q, j, c)
    PROVE  IInv'
<1> USE DEF IInv, HandlerInv, Begin
<1>1. c \in Session \cup {NoCookie}
  BY DEF Cookie
<1>2. LocalTypes'
  BY <1>1 DEF LocalTypes, Place
<1>3. FormsFit'
  BY <1>1 DEF FormsFit, LocalTypes
<1>4. SubjectsFit'
  BY DEF SubjectsFit, LocalTypes
<1>5. StoreInv'
  BY DEF StoreInv, StoreTypes, SessionTypes, NamesAgree, store, users
<1>6. AccountsAreFresh'
  BY DEF AccountsAreFresh, Early, LocalTypes, store, users
<1> QED
  BY <1>2, <1>3, <1>4, <1>5, <1>6

(* A step of q that leaves the accounts alone is harmless if the handler's *)
(* state is kept and q does not go back.                                   *)
LEMMA UsersUnchanged ==
    ASSUME IInv, NEW q \in Request, HandlerInv', UNCHANGED users, SessionTypes',
           pc[q] \notin Early => pc'[q] \notin Early,
           \A p \in Request \ {q} : pc'[p] = pc[p]
    PROVE  IInv'
<1> USE DEF IInv, users
<1>1. StoreInv'
  BY DEF StoreInv, StoreTypes, NamesAgree
<1>2. AccountsAreFresh'
  BY DEF AccountsAreFresh
<1> QED
  BY <1>1, <1>2

(* An answer alone changes no account.                                     *)
LEMMA AnswerKeeps ==
    ASSUME IInv, NEW q \in Request, NEW told \in {"ok", "error", "refused"}, Finish(q, told),
           UNCHANGED users, SessionTypes'
    PROVE  IInv'
<1>1. HandlerInv'
  BY FinishKeeps DEF IInv
<1>2. /\ pc'[q] = "done"
      /\ \A p \in Request \ {q} : pc'[p] = pc[p]
  BY DEF Finish, IInv, HandlerInv, LocalTypes
<1> QED
  BY <1>1, <1>2, UsersUnchanged DEF Early

(* Nor does going on.                                                      *)
LEMMA GoingOnKeeps ==
    ASSUME IInv, NEW q \in Request, NEW place, Goto(q, place), UNCHANGED <<locals, answer>>,
           place \in {"handle", "checkName", "commitUser", "createSession"},
           place \in {"checkName", "commitUser"} => job[q].op = "register",
           pc[q] \in Early \/ place \notin Early,
           UNCHANGED users, SessionTypes'
    PROVE  IInv'
<1>1. HandlerInv'
  BY GotoKeeps DEF IInv
<1>2. /\ pc'[q] = place
      /\ \A p \in Request \ {q} : pc'[p] = pc[p]
  BY DEF Goto, IInv, HandlerInv, LocalTypes
<1> QED
  BY <1>1, <1>2, UsersUnchanged

(* The middleware.                                                         *)
LEMMA SessionKeeps ==
    ASSUME IInv, NEW q \in Request, ReadSession(q) \/ DropSession(q) \/ ReadUser(q)
    PROVE  IInv'
<1> USE DEF IInv, HandlerInv
<1>1. CASE ReadSession(q)
  <2> USE <1>1 DEF ReadSession, Goto
  <2>1. cookie[q] \in Session
    BY DEF FormsFit
  <2>2. LocalTypes'
    BY <2>1 DEF LocalTypes, Place, StoreInv, SessionTypes
  <2>3. FormsFit'
    BY <2>1 DEF FormsFit, LocalTypes
  <2>4. SubjectsFit'
    BY DEF SubjectsFit, LocalTypes
  <2>5. SessionTypes'
    BY <2>1 DEF StoreInv, SessionTypes
  <2>6. pc[q] \in Early /\ UNCHANGED users /\ \A p \in Request \ {q} : pc'[p] = pc[p]
    BY DEF Early, LocalTypes
  <2> QED
    BY <2>2, <2>3, <2>4, <2>5, <2>6, UsersUnchanged, SMT DEF Early, LocalTypes
<1>2. CASE DropSession(q)
  <2> USE <1>2 DEF DropSession, Goto
  <2>1. cookie[q] \in Session
    BY DEF FormsFit
  <2>2. LocalTypes'
    BY DEF LocalTypes, Place
  <2>3. FormsFit'
    BY DEF FormsFit, LocalTypes
  <2>4. SubjectsFit'
    BY DEF SubjectsFit, LocalTypes
  <2>5. SessionTypes'
    BY <2>1 DEF StoreInv, SessionTypes
  <2> QED
    BY <2>2, <2>3, <2>4, <2>5, UsersUnchanged DEF Early, LocalTypes
<1>3. CASE ReadUser(q)
  <2> USE <1>3 DEF ReadUser, Goto
  <2>1. [id |-> who[q], role |-> acct[who[q]].role] \in [id : User \cup {NoUser}, role : Role] \/ who[q] \notin live
    BY DEF StoreInv, StoreTypes, Account, LocalTypes
  <2>2. LocalTypes'
    BY <2>1 DEF LocalTypes, Place, Nobody, Role
  <2>3. FormsFit'
    BY DEF FormsFit, LocalTypes
  <2>4. SubjectsFit'
    BY DEF SubjectsFit, LocalTypes
  <2>5. SessionTypes' /\ UNCHANGED users
    BY DEF StoreInv, SessionTypes, store
  <2> QED
    BY <2>2, <2>3, <2>4, <2>5, UsersUnchanged DEF Early, LocalTypes
<1> QED
  BY <1>1, <1>2, <1>3

(* Requests that end, or look something up.                                *)
LEMMA LookingKeeps ==
    ASSUME IInv, NEW q \in Request, Fail(q) \/ CheckEmail(q) \/ CheckName(q)
    PROVE  IInv'
<1>1. UNCHANGED users /\ SessionTypes'
  BY DEF Fail, CheckEmail, CheckName, store, IInv, StoreInv, SessionTypes
<1>2. CASE Fail(q)
  BY <1>1, <1>2, AnswerKeeps DEF Fail
<1>3. CASE CheckEmail(q)
  <2>1. CASE Finish(q, "error")
    BY <1>1, <2>1, AnswerKeeps
  <2>2. CASE Goto(q, "checkName") /\ UNCHANGED <<locals, answer>>
    BY <1>1, <1>3, <2>2, GoingOnKeeps DEF CheckEmail, Early
  <2> QED
    BY <1>3, <2>1, <2>2 DEF CheckEmail
<1>4. CASE CheckName(q)
  <2>1. CASE Finish(q, "error")
    BY <1>1, <2>1, AnswerKeeps
  <2>2. CASE Goto(q, "commitUser") /\ UNCHANGED <<locals, answer>>
    BY <1>1, <1>4, <2>2, GoingOnKeeps DEF CheckName, Early, FormsFit, IInv, HandlerInv
  <2> QED
    BY <1>4, <2>1, <2>2 DEF CheckName
<1> QED
  BY <1>2, <1>3, <1>4

(* Signing in and out.                                                     *)
LEMMA SigningKeeps ==
    ASSUME IInv, NEW q \in Request,
           FindEmail(q) \/ FindUser(q) \/ CreateSession(q) \/ DestroySession(q)
    PROVE  IInv'
<1> USE DEF IInv, HandlerInv
<1>1. CASE FindEmail(q)
  <2> DEFINE found == byEmail[job[q].email]
  <2>1. UNCHANGED users /\ SessionTypes'
    BY <1>1 DEF FindEmail, store, StoreInv, SessionTypes
  <2>2. CASE Finish(q, "error")
    BY <2>1, <2>2, AnswerKeeps
  <2>3. CASE /\ Goto(q, "findUser")
             /\ who' = [who EXCEPT ![q] = found]
             /\ UNCHANGED <<job, cookie, me, entry, answer>>
    <3> USE <1>1, <2>3 DEF Goto, FindEmail
    <3>1. found \in User \cup {NoUser}
      <4>1. job[q] \in Job \cup {NoJob} /\ job[q].op = "login"
        BY DEF LocalTypes
      <4>2. job[q].email \in Email
        BY <4>1 DEF Job, NoJob
      <4> QED
        BY <4>2 DEF StoreInv, StoreTypes
    <3> HIDE DEF found
    <3>2. LocalTypes'
      BY <3>1 DEF LocalTypes, Place
    <3>3. FormsFit' /\ SubjectsFit'
      BY DEF FormsFit, SubjectsFit, LocalTypes
    <3> QED
      BY <2>1, <3>2, <3>3, UsersUnchanged DEF LocalTypes, Early
  <2> QED
    BY <1>1, <2>2, <2>3 DEF FindEmail
<1>2. CASE FindUser(q)
  <2>1. UNCHANGED users /\ SessionTypes'
    BY <1>2 DEF FindUser, store, StoreInv, SessionTypes
  <2>2. CASE Finish(q, "error")
    BY <2>1, <2>2, AnswerKeeps
  <2>3. CASE Goto(q, "createSession") /\ UNCHANGED <<locals, answer>>
    BY <1>2, <2>1, <2>3, GoingOnKeeps DEF FindUser, Early
  <2> QED
    BY <1>2, <2>2, <2>3 DEF FindUser
<1>3. CASE CreateSession(q)
  <2>1. UNCHANGED users /\ SessionTypes'
    BY <1>3 DEF CreateSession, StoreInv, SessionTypes, Session, LocalTypes
  <2> QED
    BY <1>3, <2>1, AnswerKeeps DEF CreateSession
<1>4. CASE DestroySession(q)
  <2>1. UNCHANGED users /\ SessionTypes'
    BY <1>4 DEF DestroySession, StoreInv, SessionTypes
  <2> QED
    BY <1>4, <2>1, AnswerKeeps DEF DestroySession
<1> QED
  BY <1>1, <1>2, <1>3, <1>4

(* What the sender may not do ends at once, the rest reads the account.    *)
LEMMA StartUpdateKeeps ==
    ASSUME IInv, NEW q \in Request, StartUpdate(q)
    PROVE  IInv'
<1> USE DEF IInv, HandlerInv
<1>1. UNCHANGED users /\ SessionTypes'
  BY DEF StartUpdate, store, StoreInv, SessionTypes
<1>2. CASE Finish(q, "refused")
  BY <1>1, <1>2, AnswerKeeps
<1>3. CASE /\ MayUpdate(q)
           /\ who' = [who EXCEPT ![q] = Subject(q)]
           /\ Goto(q, "read")
           /\ UNCHANGED <<job, cookie, me, entry, answer>>
  <2> USE <1>3 DEF Goto, StartUpdate
  <2>1. job[q] \in Job \cup {NoJob} /\ me[q].id \in User \cup {NoUser}
    BY DEF LocalTypes
  <2>2. job[q].op # "account" => job[q].target \in User
    BY <2>1 DEF Job, NoJob
  <2>3. /\ Subject(q) \in User \cup {NoUser}
        /\ job[q].op = "account" => Subject(q) = me[q].id
        /\ job[q].op \in {"toggle", "delete"} => Subject(q) # me[q].id /\ me[q].role = "admin"
    BY <2>1, <2>2 DEF Subject, MayUpdate, Allowed
  <2>4. LocalTypes'
    BY <2>3 DEF LocalTypes, Place
  <2>5. FormsFit'
    BY DEF FormsFit, LocalTypes
  <2>6. SubjectsFit'
    BY <2>3 DEF SubjectsFit, LocalTypes
  <2> QED
    BY <1>1, <2>4, <2>5, <2>6, UsersUnchanged DEF LocalTypes, Early
<1> QED
  BY <1>2, <1>3 DEF StartUpdate

(* The record is read; the account is the one the handler is for.          *)
LEMMA ReadEntryKeeps ==
    ASSUME IInv, NEW q \in Request, ReadEntry(q)
    PROVE  IInv'
<1> USE DEF IInv, HandlerInv
<1>1. UNCHANGED users /\ SessionTypes'
  BY DEF ReadEntry, store, StoreInv, SessionTypes
<1>2. CASE Finish(q, "error")
  BY <1>1, <1>2, AnswerKeeps
<1>3. CASE Goto(q, "createSession") /\ UNCHANGED <<locals, answer>>
  BY <1>1, <1>3, GoingOnKeeps DEF ReadEntry, Early
<1>4. CASE /\ who[q] \in live
           /\ entry' = [entry EXCEPT ![q] = acct[who[q]]]
           /\ Goto(q, CommitOf[job[q].op])
           /\ UNCHANGED <<job, cookie, me, who, answer>>
  <2> USE <1>4 DEF Goto, ReadEntry
  <2>1. acct[who[q]] \in Account
    BY DEF StoreInv, StoreTypes
  <2>2. job[q].op \in {"register", "account", "toggle", "delete"}
    BY DEF FormsFit
  <2>3. /\ CommitOf[job[q].op] \in {"commitProfile", "commitRole", "commitDelete"}
        /\ CommitOf[job[q].op] = "commitProfile" => job[q].op \in {"register", "account"}
        /\ CommitOf[job[q].op] = "commitRole" => job[q].op = "toggle"
        /\ CommitOf[job[q].op] = "commitDelete" => job[q].op = "delete"
    BY <2>2 DEF CommitOf
  <2>4. LocalTypes'
    BY <2>1, <2>3 DEF LocalTypes, Place
  <2>5. FormsFit'
    BY <2>3 DEF FormsFit, LocalTypes
  <2>6. SubjectsFit'
    BY <2>3 DEF SubjectsFit, LocalTypes
  <2> QED
    BY <1>1, <2>3, <2>4, <2>5, <2>6, UsersUnchanged DEF LocalTypes, Early
<1> QED
  BY <1>2, <1>3, <1>4 DEF ReadEntry

-----------------------------------------------------------------------------
(* The commits.  createUser() finds both names free and stores an account  *)
(* that was not there.                                                     *)
LEMMA CommitUserKeeps ==
    ASSUME IInv, NEW q \in Request, CommitUser(q)
    PROVE  IInv'
<1> USE DEF IInv, HandlerInv
<1>1. CASE Finish(q, "error") /\ UNCHANGED store
  BY <1>1, AnswerKeeps DEF store, StoreInv, SessionTypes
<1>2. CASE StoreAccount(q) /\ byEmail[job[q].email] = NoUser /\ byName[job[q].name] = NoUser
  <2> USE <1>2 DEF CommitUser, Goto
  <2> DEFINE j == job[q]
             new == [email |-> j.email, name |-> j.name, role |-> "user",
                     profile |-> NoEntry, ver |-> 0]
  <2>1. j.email \in Email /\ j.name \in Name /\ j.op = "register"
    <3>1. j \in Job \cup {NoJob} /\ j.op = "register"
      BY DEF LocalTypes, FormsFit
    <3> QED
      BY <3>1 DEF Job, NoJob
  <2>2. new \in Account /\ new.email = j.email /\ new.name = j.name
    BY <2>1 DEF Account, Role
  <2>3. q \notin live /\ q \in User
    BY DEF AccountsAreFresh, Early, User
  <2>4. /\ live' = live \cup {q}
        /\ acct' = [acct EXCEPT ![q] = new]
        /\ byEmail' = [byEmail EXCEPT ![j.email] = q]
        /\ byName' = [byName EXCEPT ![j.name] = q]
    BY DEF StoreAccount
  <2> HIDE DEF new, j
  <2>5. StoreTypes'
    BY <2>1, <2>2, <2>3, <2>4 DEF StoreInv, StoreTypes
  <2>6. SessionTypes'
    BY DEF StoreAccount, StoreInv, SessionTypes
  <2>7. acct'[q] = new /\ \A u \in User \ {q} : acct'[u] = acct[u]
    BY <2>3, <2>4 DEF StoreInv, StoreTypes
  <2>8. NamesAgree'
    <3>1. \A u \in User, e \in Email : byEmail'[e] = u <=> u \in live' /\ acct'[u].email = e
      BY <2>1, <2>2, <2>3, <2>4, <2>7, NobodyIsNoUser DEF StoreInv, StoreTypes, NamesAgree, j
    <3>2. \A u \in User, n \in Name : byName'[n] = u <=> u \in live' /\ acct'[u].name = n
      BY <2>1, <2>2, <2>3, <2>4, <2>7, NobodyIsNoUser DEF StoreInv, StoreTypes, NamesAgree, j
    <3> QED
      BY <3>1, <3>2 DEF NamesAgree
  <2>9. LocalTypes'
    BY <2>3 DEF StoreAccount, LocalTypes, Place
  <2>10. FormsFit'
    BY <2>1 DEF StoreAccount, FormsFit, LocalTypes, j
  <2>11. SubjectsFit'
    BY <2>1 DEF StoreAccount, SubjectsFit, LocalTypes, j
  <2>12. AccountsAreFresh'
    BY <2>4 DEF StoreAccount, AccountsAreFresh, Early, LocalTypes
  <2> QED
    BY <2>5, <2>6, <2>8, <2>9, <2>10, <2>11, <2>12 DEF StoreInv
<1> QED
  BY <1>1, <1>2 DEF CommitUser

(* A write to the record of a live account that keeps its names keeps the  *)
(* indexes right.                                                          *)
LEMMA RecordKeeps ==
    ASSUME StoreInv, NEW u \in live, NEW record \in Account,
           record.email = acct[u].email, record.name = acct[u].name,
           acct' = [acct EXCEPT ![u] = record],
           UNCHANGED <<live, byEmail, byName, sessions, expired>>
    PROVE  StoreInv'
<1> USE DEF StoreInv
<1>1. u \in User /\ acct'[u] = record /\ \A v \in User \ {u} : acct'[v] = acct[v]
  BY DEF StoreTypes
<1>2. StoreTypes'
  BY <1>1 DEF StoreTypes
<1>3. NamesAgree'
  BY <1>1 DEF NamesAgree
<1> QED
  BY <1>2, <1>3 DEF SessionTypes

(* updateUser(): the profile is set in the record as it is.                *)
LEMMA CommitProfileKeeps ==
    ASSUME IInv, NEW q \in Request, CommitProfile(q)
    PROVE  IInv'
<1> USE DEF IInv, HandlerInv
<1>1. CASE Finish(q, "error") /\ UNCHANGED store
  BY <1>1, AnswerKeeps DEF store, StoreInv, SessionTypes
<1>2. CASE Unchanged(q) /\ SetProfile(q)
  <2> DEFINE u == who[q]
             record == Titled(acct[u], q)
  <2>1. u \in live /\ acct[u] \in Account /\ entry[q] = acct[u]
    BY <1>2 DEF Unchanged, StoreInv, StoreTypes
  <2>2. record \in Account /\ record.email = acct[u].email /\ record.name = acct[u].name
    BY <2>1 DEF Account, Titled
  <2>3. acct' = [acct EXCEPT ![u] = record]
    BY <1>2, <2>1 DEF SetProfile
  <2>4. UNCHANGED <<live, byEmail, byName, sessions, expired>>
    BY <1>2 DEF SetProfile
  <2> HIDE DEF record, u
  <2>5. StoreInv'
    BY <2>1, <2>2, <2>3, <2>4, RecordKeeps
  <2>6. /\ HandlerInv'
        /\ pc'[q] \notin Early
        /\ \A p \in Request \ {q} : pc'[p] = pc[p]
    <3>1. CASE Finish(q, "ok")
      BY <3>1, FinishKeeps DEF Finish, LocalTypes, Early
    <3>2. CASE Goto(q, "createSession") /\ UNCHANGED <<locals, answer>>
      BY <3>2, GotoKeeps DEF Goto, LocalTypes, Early
    <3> QED
      BY <1>2, <3>1, <3>2 DEF SetProfile
  <2>7. AccountsAreFresh'
    BY <2>4, <2>6 DEF AccountsAreFresh
  <2> QED
    BY <2>5, <2>6, <2>7
<1> QED
  BY <1>1, <1>2 DEF CommitProfile

(* toggleRole(): the same for the role.                                    *)
LEMMA CommitRoleKeeps ==
    ASSUME IInv, NEW q \in Request, CommitRole(q)
    PROVE  IInv'
<1> USE DEF IInv, HandlerInv
<1>1. CASE Finish(q, "error") /\ UNCHANGED store
  BY <1>1, AnswerKeeps DEF store, StoreInv, SessionTypes
<1>2. CASE Unchanged(q) /\ SetRole(q)
  <2> DEFINE u == who[q]
             record == Turned(acct[u])
  <2>1. u \in live /\ acct[u] \in Account /\ entry[q] = acct[u]
    BY <1>2 DEF Unchanged, StoreInv, StoreTypes
  <2>2. ROLE_CYCLE[acct[u].role] \in Role
    BY <2>1 DEF Account, Role, ROLE_CYCLE
  <2>3. record \in Account /\ record.email = acct[u].email /\ record.name = acct[u].name
    BY <2>1, <2>2 DEF Account, Turned
  <2>4. acct' = [acct EXCEPT ![u] = record]
    BY <1>2, <2>1 DEF SetRole
  <2>5. UNCHANGED <<live, byEmail, byName, sessions, expired>> /\ Finish(q, "ok")
    BY <1>2 DEF SetRole
  <2> HIDE DEF record, u
  <2>6. StoreInv'
    BY <2>1, <2>3, <2>4, <2>5, RecordKeeps
  <2>7. HandlerInv'
    BY <2>5, FinishKeeps
  <2>8. AccountsAreFresh'
    BY <2>5 DEF Finish, AccountsAreFresh, Early, LocalTypes
  <2> QED
    BY <2>6, <2>7, <2>8
<1> QED
  BY <1>1, <1>2 DEF CommitRole

(* deleteUser(): the record and both index entries go together.            *)
LEMMA CommitDeleteKeeps ==
    ASSUME IInv, NEW q \in Request, CommitDelete(q)
    PROVE  IInv'
<1> USE DEF IInv, HandlerInv
<1>1. Finish(q, "ok") /\ UNCHANGED <<acct, sessions, expired>>
  BY DEF CommitDelete
<1>2. SessionTypes'
  BY <1>1 DEF StoreInv, SessionTypes
<1>3. CASE UNCHANGED <<live, byEmail, byName>>
  BY <1>1, <1>2, <1>3, AnswerKeeps DEF users
<1>4. CASE /\ Unchanged(q)
           /\ live' = live \ {who[q]}
           /\ byEmail' = [byEmail EXCEPT ![entry[q].email] = NoUser]
           /\ byName' = [byName EXCEPT ![entry[q].name] = NoUser]
  <2> DEFINE u == who[q]
  <2>1. /\ u \in live /\ entry[q] = acct[u]
        /\ acct[u].email \in Email /\ acct[u].name \in Name
    BY <1>4 DEF Unchanged, StoreInv, StoreTypes, Account
  <2>2. StoreTypes'
    BY <1>1, <1>4, <2>1 DEF StoreInv, StoreTypes
  <2>3. NamesAgree'
    <3>1. \A v \in User, e \in Email : byEmail'[e] = v <=> v \in live' /\ acct'[v].email = e
      BY <1>1, <1>4, <2>1, NobodyIsNoUser DEF StoreInv, StoreTypes, NamesAgree
    <3>2. \A v \in User, n \in Name : byName'[n] = v <=> v \in live' /\ acct'[v].name = n
      BY <1>1, <1>4, <2>1, NobodyIsNoUser DEF StoreInv, StoreTypes, NamesAgree
    <3> QED
      BY <3>1, <3>2 DEF NamesAgree
  <2>4. HandlerInv'
    BY <1>1, FinishKeeps
  <2>5. AccountsAreFresh'
    BY <1>1, <1>4 DEF Finish, AccountsAreFresh, Early, LocalTypes
  <2> QED
    BY <1>2, <2>2, <2>3, <2>4, <2>5 DEF StoreInv
<1> QED
  BY <1>3, <1>4 DEF CommitDelete

-----------------------------------------------------------------------------
(* Every step of the specification keeps the invariant.                    *)
LEMMA NextInvariant == IInv /\ [Next]_accountVars => IInv'
<1> SUFFICES ASSUME IInv, [Next]_accountVars PROVE IInv'
  OBVIOUS
<1>1. CASE UNCHANGED accountVars
  BY <1>1 DEF accountVars, store, users, locals, IInv, StoreInv, HandlerInv, StoreTypes, SessionTypes,
     NamesAgree, LocalTypes, FormsFit, SubjectsFit, AccountsAreFresh
<1>2. ASSUME NEW q \in Request, \E j \in Job, c \in Cookie : Begin(q, j, c) PROVE IInv'
  BY <1>2, BeginKeeps
<1>3. ASSUME NEW q \in Request, Handle(q) PROVE IInv'
  BY <1>3, SessionKeeps, LookingKeeps, SigningKeeps, StartUpdateKeeps, ReadEntryKeeps, CommitUserKeeps,
     CommitProfileKeeps, CommitRoleKeeps, CommitDeleteKeeps DEF Handle
<1> QED
  BY <1>1, <1>2, <1>3 DEF Next

(* The invariant holds throughout.                                         *)
THEOREM InductiveInvariant == Spec => []IInv
BY InitInvariant, NextInvariant, PTL DEF Spec

(* No two accounts share an e-mail address or a username, a deleted one    *)
(* frees both and no account is unreachable, whichever handlers race.      *)
THEOREM IndexesAlwaysAgree == Spec => []IndexesAgree
BY InvariantAgrees, InductiveInvariant, PTL

-----------------------------------------------------------------------------
(* What a step does to the accounts.  All but the four commits leave them. *)
LEMMA OthersLeaveUsers ==
    ASSUME IInv, NEW q \in Request, Handle(q),
           ~CommitUser(q), ~CommitProfile(q), ~CommitRole(q), ~CommitDelete(q)
    PROVE  UNCHANGED users
BY DEF Handle, ReadSession, DropSession, ReadUser, Fail, CheckEmail, CheckName, CreateSession,
   FindEmail, FindUser, DestroySession, StartUpdate, ReadEntry, store, users

(* A write of q to an account as it is: q's own, or another's role.        *)
Write(q, u) ==
    /\ who[q] = u /\ pc'[q] # pc[q]
    /\ \/ acct'[u] = Titled(acct[u], q) /\ u \in {q, me[q].id}
       \/ acct'[u] = Turned(acct[u]) /\ u # me[q].id

Isolated ==
    /\ \A u \in live' \ live : u \in Request /\ pc[u] = "commitUser"
    /\ \A u \in live \cap live' :
         acct'[u] # acct[u] => \E q \in Request : Write(q, u)

(* One step of one handler writes at most one account, as it stands.       *)
LEMMA StepIsIsolated ==
    ASSUME IInv, NEW q \in Request, Handle(q)
    PROVE  Isolated
<1> USE DEF IInv, HandlerInv
<1>1. CASE UNCHANGED users
  BY <1>1 DEF Isolated, users
<1>2. CASE CommitUser(q)
  <2>1. CASE UNCHANGED store
    BY <2>1, <1>1 DEF store
  <2>2. CASE StoreAccount(q)
    <3>1. q \notin live
      BY <1>2 DEF CommitUser, AccountsAreFresh, Early
    <3>2. live' = live \cup {q} /\ \A u \in User \ {q} : acct'[u] = acct[u]
      BY <2>2 DEF StoreAccount, StoreInv, StoreTypes
    <3> QED
      BY <1>2, <3>1, <3>2 DEF CommitUser, Isolated, StoreInv, StoreTypes
  <2> QED
    BY <1>2, <2>1, <2>2 DEF CommitUser
<1>3. CASE CommitProfile(q)
  <2>1. CASE UNCHANGED store
    BY <2>1, <1>1 DEF store
  <2>2. CASE Unchanged(q) /\ SetProfile(q)
    <3> DEFINE u == who[q]
    <3>1. u \in User /\ live' = live
      BY <2>2 DEF Unchanged, SetProfile, StoreInv, StoreTypes
    <3>2. acct'[u] = Titled(acct[u], q) /\ \A v \in User \ {u} : acct'[v] = acct[v]
      BY <2>2, <3>1 DEF Unchanged, SetProfile, StoreInv, StoreTypes
    <3>3. u \in {q, me[q].id}
      BY <1>3 DEF CommitProfile, FormsFit, SubjectsFit
    <3>4. pc'[q] # pc[q]
      BY <1>3, <2>2 DEF CommitProfile, SetProfile, Finish, Goto, LocalTypes
    <3>5. Write(q, u)
      BY <3>2, <3>3, <3>4 DEF Write
    <3> HIDE DEF u
    <3> QED
      BY <3>1, <3>2, <3>5 DEF Isolated, StoreInv, StoreTypes
  <2> QED
    BY <1>3, <2>1, <2>2 DEF CommitProfile
<1>4. CASE CommitRole(q)
  <2>1. CASE UNCHANGED store
    BY <2>1, <1>1 DEF store
  <2>2. CASE Unchanged(q) /\ SetRole(q)
    <3> DEFINE u == who[q]
    <3>1. u \in User /\ live' = live
      BY <2>2 DEF Unchanged, SetRole, StoreInv, StoreTypes
    <3>2. acct'[u] = Turned(acct[u]) /\ \A v \in User \ {u} : acct'[v] = acct[v]
      BY <2>2, <3>1 DEF Unchanged, SetRole, StoreInv, StoreTypes
    <3>3. u # me[q].id
      BY <1>4 DEF CommitRole, FormsFit, SubjectsFit
    <3>4. pc'[q] # pc[q]
      BY <1>4, <2>2 DEF CommitRole, SetRole, Finish, LocalTypes
    <3>5. Write(q, u)
      BY <3>2, <3>3, <3>4 DEF Write
    <3> HIDE DEF u
    <3> QED
      BY <3>1, <3>2, <3>5 DEF Isolated, StoreInv, StoreTypes
  <2> QED
    BY <1>4, <2>1, <2>2 DEF CommitRole
<1>5. CASE CommitDelete(q)
  BY <1>5 DEF CommitDelete, Isolated
<1> QED
  BY <1>1, <1>2, <1>3, <1>4, <1>5, OthersLeaveUsers

(* A step that changes an account changes what its handler is for, in the  *)
(* record as it stands; nothing brings a deleted account back.             *)
THEOREM WritesStayIsolated == Spec => WritesAreIsolated
<1>1. ASSUME IInv, [Next]_accountVars
      PROVE  Isolated \/ UNCHANGED accountVars
  <2>1. ASSUME NEW q \in Request, NEW j \in Job, NEW c \in Cookie, Begin(q, j, c)
        PROVE  Isolated
    BY <2>1 DEF Begin, store, users, Isolated
  <2> QED
    BY <1>1, <2>1, StepIsIsolated DEF Next
<1>2. IInv /\ [Next]_accountVars =>
        [/\ \A u \in live' \ live : u \in Request /\ pc[u] = "commitUser"
         /\ \A u \in live \cap live' :
              acct'[u] # acct[u] =>
                \E q \in Request :
                  /\ who[q] = u /\ pc'[q] # pc[q]
                  /\ \/ acct'[u] = Titled(acct[u], q) /\ u \in {q, me[q].id}
                     \/ acct'[u] = Turned(acct[u]) /\ u # me[q].id]_accountVars
  BY <1>1 DEF Isolated, Write
<1> QED
  BY <1>2, InductiveInvariant, PTL DEF Spec, WritesAreIsolated

-----------------------------------------------------------------------------
(* Where an administrator goes: a role or a deletion of somebody else.     *)
Race(q) ==
    /\ pc[q] \in {"commitRole", "commitDelete"} /\ pc'[q] = "done"
    /\ me[q].role = "admin" /\ me[q].id \notin Admins

(* The step that leaves nobody acts on the last one for another one.       *)
LEMMA LastAdminGoesInARace ==
    ASSUME IInv, NEW q \in Request, Handle(q), Admins # {}, Admins' = {}
    PROVE  Race(q)
<1> USE DEF IInv, HandlerInv
<1>1. ASSUME UNCHANGED users PROVE FALSE
  BY <1>1 DEF Admins, users
<1>2. ASSUME NEW u \in User, live \ {u} \subseteq live',
             \A v \in User \ {u} : acct'[v] = acct[v]
      PROVE  Admins = {u}
  BY <1>2 DEF Admins, StoreInv, StoreTypes
<1>3. CASE CommitUser(q)
  <2>1. UNCHANGED store \/ StoreAccount(q)
    BY <1>3 DEF CommitUser
  <2>2. q \notin live /\ q \in User
    BY <1>3 DEF CommitUser, AccountsAreFresh, Early, User
  <2>3. CASE StoreAccount(q)
    <3>1. live \subseteq live' /\ \A v \in User \ {q} : acct'[v] = acct[v]
      BY <2>3 DEF StoreAccount, StoreInv, StoreTypes
    <3>2. Admins = {q}
      BY <1>2, <2>2, <3>1
    <3> QED
      BY <2>2, <3>2 DEF Admins
  <2> QED
    BY <1>1, <2>1, <2>3 DEF store
<1>4. CASE CommitProfile(q)
  <2>1. UNCHANGED store \/ (Unchanged(q) /\ SetProfile(q))
    BY <1>4 DEF CommitProfile
  <2>2. CASE Unchanged(q) /\ SetProfile(q)
    <3> DEFINE u == who[q]
    <3>1. u \in live /\ live' = live /\ u \in User
      BY <2>2 DEF Unchanged, SetProfile, StoreInv, StoreTypes
    <3>2. acct'[u].role = acct[u].role /\ \A v \in User \ {u} : acct'[v] = acct[v]
      BY <2>2, <3>1 DEF Unchanged, SetProfile, Titled, StoreInv, StoreTypes
    <3> HIDE DEF u
    <3> QED
      BY <3>1, <3>2 DEF Admins, StoreInv, StoreTypes
  <2> QED
    BY <1>1, <2>1, <2>2 DEF store
<1>5. CASE CommitRole(q)
  <2>1. UNCHANGED store \/ (Unchanged(q) /\ SetRole(q))
    BY <1>5 DEF CommitRole
  <2>2. CASE Unchanged(q) /\ SetRole(q)
    <3> DEFINE u == who[q]
    <3>1. u \in User /\ live' = live /\ \A v \in User \ {u} : acct'[v] = acct[v]
      BY <2>2 DEF Unchanged, SetRole, StoreInv, StoreTypes
    <3>2. Admins = {u}
      BY <1>2, <3>1
    <3>3. u # me[q].id /\ me[q].role = "admin" /\ pc[q] = "commitRole"
      BY <1>5 DEF CommitRole, FormsFit, SubjectsFit
    <3>4. pc'[q] = "done"
      BY <2>2 DEF SetRole, Finish, LocalTypes
    <3> QED
      BY <3>2, <3>3, <3>4 DEF Race
  <2> QED
    BY <1>1, <2>1, <2>2 DEF store
<1>6. CASE CommitDelete(q)
  <2> DEFINE u == who[q]
  <2>1. u # me[q].id /\ me[q].role = "admin" /\ pc[q] = "commitDelete"
    BY <1>6 DEF CommitDelete, FormsFit, SubjectsFit
  <2>2. pc'[q] = "done"
    BY <1>6 DEF CommitDelete, Finish, LocalTypes
  <2>3. CASE u \in live
    <3>1. u \in User /\ live \ {u} \subseteq live' /\ acct' = acct
      BY <1>6, <2>3 DEF CommitDelete, StoreInv, StoreTypes
    <3>2. Admins = {u}
      BY <1>2, <3>1
    <3> QED
      BY <2>1, <2>2, <3>2 DEF Race
  <2>4. CASE u \notin live
    BY <1>1, <1>6, <2>4 DEF CommitDelete, Unchanged, users
  <2> QED
    BY <2>3, <2>4
<1> QED
  BY <1>1, <1>3, <1>4, <1>5, <1>6, OthersLeaveUsers

(* The last administrator goes only if two of them race: the sender was    *)
(* one when let in and no longer is.                                       *)
THEOREM LastAdminGoesOnlyInARace == Spec => LastAdminNeedsARace
<1>1. IInv /\ [Next]_accountVars =>
        [Admins # {} /\ Admins' = {} =>
           \E q \in Request : /\ pc[q] \in {"commitRole", "commitDelete"}
                              /\ pc'[q] = "done"
                              /\ me[q].role = "admin"
                              /\ me[q].id \notin Admins]_accountVars
  <2> SUFFICES ASSUME IInv, Next, Admins # {}, Admins' = {}
               PROVE  \E q \in Request : Race(q)
    BY DEF Race
  <2>1. ASSUME NEW q \in Request, NEW j \in Job, NEW c \in Cookie, Begin(q, j, c)
        PROVE  FALSE
    BY <2>1 DEF Begin, store, users, Admins
  <2> QED
    BY <2>1, LastAdminGoesInARace DEF Next
<1> QED
  BY <1>1, InductiveInvariant, PTL DEF Spec, LastAdminNeedsARace

-----------------------------------------------------------------------------
(* The authorization server.                                               *)


(* Functions, whatever their values.                                       *)
MapOn(S, f) == f = [x \in S |-> f[x]]

MapsKept ==
    /\ MapOn(Request, pc) /\ MapOn(Request, codes)
    /\ MapOn(Call, refresh) /\ MapOn(Call, cpc) /\ MapOn(Call, grant)
    /\ cjob \in [Call -> CallJob \cup {NoJob}]

(* A request that is not over has left no code, token or call behind.      *)
CodesAreFresh ==
    \A q \in Request : pc[q] # "done" => codes[q] = NoEntry /\ Tokens(q) = {} /\ Carriers(q) = {}

(* The token a call was given was issued in an answer.                     *)
GivenWasAnswered ==
    \A t \in Call :
      cjob[t].op = "refresh" /\ cpc[t] \in {"resolve", "read", "take"} =>
        cpc[cjob[t].given] = "answered"

(* What a call read is of the authorization of what it is about to take.   *)
ReadIsTaken ==
    \A t \in Call :
      cpc[t] = "take" =>
        /\ cjob[t].op = "exchange" => grant[t].code = cjob[t].given
        /\ cjob[t].op = "refresh" /\ refresh[cjob[t].given] # NoEntry =>
             refresh[cjob[t].given].code = grant[t].code

GInv == MapsKept /\ CodesAreFresh /\ GivenWasAnswered /\ ReadIsTaken /\ GrantNeverForks

(* There are no codes and no tokens at first.                              *)
LEMMA InitGrants == Init /\ GrantsInit => GInv
<1> SUFFICES ASSUME Init, GrantsInit PROVE GInv
  OBVIOUS
<1>1. MapsKept
  BY DEF Init, GrantsInit, MapsKept, MapOn
<1>2. \A q \in Request : codes[q] = NoEntry /\ Tokens(q) = {} /\ Carriers(q) = {}
  BY DEF GrantsInit, Tokens, Carriers, Carries
<1>3. CodesAreFresh /\ GrantNeverForks
  BY <1>2 DEF CodesAreFresh, GrantNeverForks
<1>4. GivenWasAnswered /\ ReadIsTaken
  BY DEF GrantsInit, GivenWasAnswered, ReadIsTaken
<1> QED
  BY <1>1, <1>3, <1>4 DEF GInv

-----------------------------------------------------------------------------
(* The browsers.                                                           *)

(* A request that is over stays so.                                        *)
LEMMA DoneIsDone ==
    ASSUME NEW q \in Request,
           Handle(q) \/ (\E j, c : Begin(q, j, c)) \/ ResolveForPage(q) \/ CreateAuthorizationCode(q)
    PROVE  pc[q] # "done" /\ \E place : pc' = [pc EXCEPT ![q] = place]
<1> USE DEF Goto, Finish
<1>1. CASE ReadSession(q) \/ DropSession(q) \/ ReadUser(q) \/ Fail(q)
  BY <1>1 DEF ReadSession, DropSession, ReadUser, Fail, Open
<1>2. CASE CheckEmail(q) \/ CheckName(q) \/ CommitUser(q) \/ CreateSession(q)
  BY <1>2 DEF CheckEmail, CheckName, CommitUser, StoreAccount, CreateSession
<1>3. CASE FindEmail(q) \/ FindUser(q) \/ DestroySession(q)
  BY <1>3 DEF FindEmail, FindUser, DestroySession
<1>4. CASE StartUpdate(q) \/ ReadEntry(q)
  BY <1>4 DEF StartUpdate, ReadEntry
<1>5. CASE CommitProfile(q) \/ CommitRole(q) \/ CommitDelete(q)
  BY <1>5 DEF CommitProfile, SetProfile, CommitRole, SetRole, CommitDelete
<1>6. CASE (\E j, c : Begin(q, j, c)) \/ ResolveForPage(q) \/ CreateAuthorizationCode(q)
  BY <1>6 DEF Begin, ResolveForPage, CreateAuthorizationCode
<1> QED
  BY <1>1, <1>2, <1>3, <1>4, <1>5, <1>6 DEF Handle

(* A step of a browser that makes no code.                                 *)
LEMMA NoCodeMade ==
    ASSUME GInv, UNCHANGED <<grantStore, cjob, cpc, grant>>, MapOn(Request, pc'),
           \A q \in Request : pc[q] = "done" => pc'[q] = "done"
    PROVE  GInv'
<1> USE DEF GInv, grantStore
<1>1. \A q \in Request : Tokens(q)' = Tokens(q) /\ Carriers(q)' = Carriers(q)
  BY DEF Tokens, Carriers, Carries
<1>2. MapsKept'
  BY DEF MapsKept, MapOn
<1>3. CodesAreFresh'
  BY <1>1 DEF CodesAreFresh
<1>4. GivenWasAnswered' /\ ReadIsTaken'
  BY DEF GivenWasAnswered, ReadIsTaken
<1>5. GrantNeverForks'
  BY <1>1 DEF GrantNeverForks
<1> QED
  BY <1>2, <1>3, <1>4, <1>5

(* A code is made once: its request is over then.                          *)
LEMMA CodeMade ==
    ASSUME GInv, UNCHANGED <<cjob, cpc, grant>>, NEW q \in Request, CreateAuthorizationCode(q)
    PROVE  GInv'
<1> USE DEF GInv
<1>1. codes[q] = NoEntry /\ Tokens(q) = {} /\ Carriers(q) = {}
  BY DEF CreateAuthorizationCode, CodesAreFresh
<1>2. pc'[q] = "done" /\ MapOn(Request, pc') /\ \A r \in Request \ {q} : pc'[r] = pc[r]
  <2>1. pc' = [pc EXCEPT ![q] = "done"] /\ MapOn(Request, pc)
    BY DEF CreateAuthorizationCode, Finish, MapsKept
  <2> QED
    BY <2>1 DEF MapOn
<1>3. /\ codes'[q].code = q /\ MapOn(Request, codes')
      /\ \A r \in Request \ {q} : codes'[r] = codes[r]
  <2> DEFINE made == [user |-> me[q].id, client |-> job[q].client,
                      redirect |-> job[q].redirect, code |-> q]
  <2>1. codes' = [codes EXCEPT ![q] = made] /\ MapOn(Request, codes) /\ made.code = q
    BY DEF CreateAuthorizationCode, MapsKept
  <2> HIDE DEF made
  <2> QED
    BY <2>1 DEF MapOn
<1>4. UNCHANGED refresh
  BY DEF CreateAuthorizationCode
<1>5. \A r \in Request : Tokens(r)' = Tokens(r) /\ Carriers(r)' = Carriers(r)
  BY <1>4 DEF Tokens, Carriers, Carries
<1>6. MapsKept'
  BY <1>2, <1>3, <1>4 DEF MapsKept, MapOn
<1>7. CodesAreFresh'
  BY <1>2, <1>3, <1>5 DEF CodesAreFresh
<1>8. GivenWasAnswered' /\ ReadIsTaken'
  BY <1>4 DEF GivenWasAnswered, ReadIsTaken
<1>9. GrantNeverForks'
  BY <1>1, <1>3, <1>5 DEF GrantNeverForks
<1> QED
  BY <1>6, <1>7, <1>8, <1>9

(* The requests of browsers, those of Accounts included.                   *)
LEMMA BrowserKeeps ==
    ASSUME GInv, Browser
    PROVE  GInv'
<1>1. UNCHANGED <<cjob, cpc, grant>>
  BY DEF Browser
<1>2. CASE \E q \in Request : CreateAuthorizationCode(q)
  BY <1>1, <1>2, CodeMade
<1>3. CASE /\ UNCHANGED grantStore
           /\ \E q \in Request : Handle(q) \/ (\E j, c : Begin(q, j, c)) \/ ResolveForPage(q)
  <2>1. PICK q \in Request : Handle(q) \/ (\E j, c : Begin(q, j, c)) \/ ResolveForPage(q)
    BY <1>3
  <2>2. PICK place : pc' = [pc EXCEPT ![q] = place]
    BY <2>1, DoneIsDone
  <2>3. pc[q] # "done"
    BY <2>1, DoneIsDone
  <2>4. MapOn(Request, pc') /\ \A r \in Request \ {q} : pc'[r] = pc[r]
    BY <2>2 DEF GInv, MapsKept, MapOn
  <2> QED
    BY <1>1, <1>3, <2>3, <2>4, NoCodeMade
<1> QED
  BY <1>2, <1>3 DEF Browser, Next, Authorize, ResolveForPage

-----------------------------------------------------------------------------
(* The calls of the token endpoint.                                        *)

GivenIsAnswered(t) ==
    cjob[t].op = "refresh" /\ cpc[t] \in {"resolve", "read", "take"} => cpc[cjob[t].given] = "answered"

WillTake(t) ==
    cpc[t] = "take" =>
      /\ cjob[t].op = "exchange" => grant[t].code = cjob[t].given
      /\ cjob[t].op = "refresh" /\ refresh[cjob[t].given] # NoEntry =>
           refresh[cjob[t].given].code = grant[t].code

(* The step of one call: the tokens of the answered ones are at most       *)
(* deleted, so the others still take what they read.                       *)
LEMMA CallLeavesOthers ==
    ASSUME GInv, NEW t \in Call, MapsKept', cpc[t] # "answered",
           \A s \in Call \ {t} : cpc'[s] = cpc[s] /\ cjob'[s] = cjob[s] /\ grant'[s] = grant[s],
           \A s \in Call \ {t} : refresh'[s] \in {refresh[s], NoEntry},
           GivenIsAnswered(t)', WillTake(t)'
    PROVE  GivenWasAnswered' /\ ReadIsTaken'
<1> USE DEF GInv
<1>1. \A s \in Call : cjob[s].op = "refresh" => cjob[s].given \in Call
  BY DEF MapsKept, CallJob, NoJob
<1>2. \A s \in Call \ {t} : GivenIsAnswered(s)'
  BY <1>1 DEF GivenWasAnswered, GivenIsAnswered
<1>3. \A s \in Call \ {t} : WillTake(s)'
  <2> SUFFICES ASSUME NEW s \in Call \ {t}, cpc[s] = "take"
               PROVE  /\ cjob[s].op = "exchange" => grant[s].code = cjob[s].given
                      /\ cjob[s].op = "refresh" /\ refresh'[cjob[s].given] # NoEntry =>
                           refresh'[cjob[s].given].code = grant[s].code
    BY DEF WillTake
  <2>1. cjob[s].op = "exchange" => grant[s].code = cjob[s].given
    BY DEF ReadIsTaken
  <2>2. ASSUME cjob[s].op = "refresh", refresh'[cjob[s].given] # NoEntry
        PROVE  refresh'[cjob[s].given].code = grant[s].code
    <3>1. cjob[s].given \in Call \ {t}
      BY <1>1, <2>2 DEF GivenWasAnswered
    <3>2. refresh'[cjob[s].given] = refresh[cjob[s].given]
      BY <2>2, <3>1
    <3> QED
      BY <2>2, <3>2 DEF ReadIsTaken
  <2> QED
    BY <2>1, <2>2
<1>4. GivenWasAnswered'
  BY <1>2 DEF GivenWasAnswered, GivenIsAnswered
<1>5. ReadIsTaken'
  BY <1>3 DEF ReadIsTaken, WillTake
<1> QED
  BY <1>4, <1>5

(* Rights that at most end do not fork.                                    *)
LEMMA NothingNew ==
    ASSUME GInv, pc' = pc, MapsKept', GivenWasAnswered', ReadIsTaken',
           \A q \in Request : codes'[q] \in {codes[q], NoEntry},
           \A s \in Call : refresh'[s] \in {refresh[s], NoEntry},
           \A q \in Request : Carriers(q)' \subseteq Carriers(q)
    PROVE  GInv'
<1> USE DEF GInv
<1>1. \A q \in Request : Tokens(q)' \subseteq Tokens(q)
  BY DEF Tokens
<1>2. CodesAreFresh'
  BY <1>1 DEF CodesAreFresh
<1>3. GrantNeverForks'
  BY <1>1 DEF GrantNeverForks
<1> QED
  BY <1>2, <1>3

(* A call that is lost, or goes on with what it had.                       *)
LEMMA LoseKeeps ==
    ASSUME GInv, pc' = pc, NEW t \in Call, cpc[t] # "answered", Lose(t),
           MapOn(Request, codes'), MapOn(Call, refresh'),
           \A q \in Request : codes'[q] \in {codes[q], NoEntry},
           \A s \in Call : refresh'[s] \in {refresh[s], NoEntry}
    PROVE  GInv'
<1>1. /\ cpc'[t] = "lost" /\ cjob'[t] = NoJob
      /\ \A s \in Call \ {t} : cpc'[s] = cpc[s] /\ cjob'[s] = cjob[s] /\ grant'[s] = grant[s]
  BY DEF Lose, CGoto, GInv, MapsKept, MapOn
<1>2. MapsKept'
  BY DEF Lose, CGoto, GInv, MapsKept, MapOn
<1>3. GivenIsAnswered(t)' /\ WillTake(t)'
  BY <1>1 DEF GivenIsAnswered, WillTake
<1>4. GivenWasAnswered' /\ ReadIsTaken'
  BY <1>1, <1>2, <1>3, CallLeavesOthers
<1>5. \A q \in Request : Carriers(q)' \subseteq Carriers(q)
  BY <1>1 DEF Carriers, Carries
<1> QED
  BY <1>2, <1>4, <1>5, NothingNew

(* A call that goes on, with the record it has, to the next await.         *)
LEMMA GoingOn ==
    ASSUME GInv, pc' = pc, NEW t \in Call, NEW place, cpc[t] # "answered", CGoto(t, place),
           UNCHANGED <<cjob, grant>>,
           MapOn(Call, refresh'), MapOn(Request, codes'),
           \A s \in Call \ {t} : refresh'[s] \in {refresh[s], NoEntry},
           place # "take",
           cpc[t] \in {"resolve", "read", "take"} \/ place \notin {"resolve", "read"}
    PROVE  /\ MapsKept' /\ GivenWasAnswered' /\ ReadIsTaken'
           /\ cpc'[t] = place /\ \A s \in Call \ {t} : cpc'[s] = cpc[s]
<1>1. cpc'[t] = place /\ \A s \in Call \ {t} : cpc'[s] = cpc[s]
  BY DEF CGoto, GInv, MapsKept, MapOn
<1>2. MapsKept'
  BY DEF CGoto, GInv, MapsKept, MapOn
<1>3. GivenIsAnswered(t)' /\ WillTake(t)'
  <2>1. cjob[t].op = "refresh" => cjob[t].given \in Call
    BY DEF GInv, MapsKept, CallJob, NoJob
  <2> QED
    BY <1>1, <2>1 DEF GivenIsAnswered, WillTake, GInv, GivenWasAnswered
<1> QED
  BY <1>1, <1>2, <1>3, CallLeavesOthers

(* Calls that begin, resolve their client or read a record.                *)
LEMMA ReadingKeeps ==
    ASSUME GInv, NEW t \in Call,
           (\E j \in CallJob : CallBegin(t, j)) \/ ResolveClient(t) \/ ReadGrant(t)
    PROVE  GInv'
<1> USE DEF accountVars, grantStore
<1>1. pc' = pc /\ UNCHANGED <<codes, refresh>>
  BY DEF CallBegin, ResolveClient, ReadGrant
<1>2. Lose(t) /\ cpc[t] # "answered" => GInv'
  BY <1>1, LoseKeeps DEF GInv, MapsKept
<1>3. ASSUME NEW j \in CallJob, CallBegin(t, j) PROVE GInv'
  <2>1. /\ cpc[t] = "idle" /\ cpc' = [cpc EXCEPT ![t] = "resolve"]
        /\ cjob' = [cjob EXCEPT ![t] = j] /\ grant' = grant
        /\ j.op = "exchange" \/ cpc[j.given] = "answered"
    BY <1>3 DEF CallBegin, CGoto
  <2>2. MapsKept'
    BY <1>1, <2>1 DEF GInv, MapsKept, MapOn
  <2>3. cpc'[t] = "resolve" /\ cjob'[t] = j /\ \A s \in Call \ {t} : cpc'[s] = cpc[s] /\ cjob'[s] = cjob[s]
    BY <2>1 DEF GInv, MapsKept, MapOn
  <2>4. GivenIsAnswered(t)' /\ WillTake(t)'
    <3>1. j.op = "refresh" => j.given \in Call \ {t}
      BY <2>1 DEF CallJob
    <3> QED
      BY <2>1, <2>3, <3>1 DEF GivenIsAnswered, WillTake
  <2>5. GivenWasAnswered' /\ ReadIsTaken'
    BY <1>1, <2>1, <2>2, <2>3, <2>4, CallLeavesOthers
  <2>6. \A q \in Request : Carriers(q)' \subseteq Carriers(q)
    BY <2>1, <2>3 DEF Carriers, Carries
  <2> QED
    BY <1>1, <2>2, <2>5, <2>6, NothingNew
<1>4. CASE ResolveClient(t)
  <2>1. CASE Lose(t)
    BY <1>2, <1>4, <2>1 DEF ResolveClient
  <2>2. CASE Proceed(t, "read")
    <3>1. /\ MapsKept' /\ GivenWasAnswered' /\ ReadIsTaken'
          /\ cpc'[t] = "read" /\ \A s \in Call \ {t} : cpc'[s] = cpc[s]
      BY <1>1, <1>4, <2>2, GoingOn DEF ResolveClient, Proceed, GInv, MapsKept
    <3>2. \A q \in Request : Carriers(q)' \subseteq Carriers(q)
      BY <2>2, <3>1 DEF Carriers, Carries, Proceed
    <3> QED
      BY <1>1, <3>1, <3>2, NothingNew
  <2> QED
    BY <1>4, <2>1, <2>2 DEF ResolveClient
<1>5. CASE ReadGrant(t)
  <2>1. CASE Lose(t)
    BY <1>2, <1>5, <2>1 DEF ReadGrant
  <2>2. ASSUME NEW place \in {"take", "drop"}, CGoto(t, place), Record(t) # NoEntry,
               grant' = [grant EXCEPT ![t] = Record(t)], UNCHANGED cjob
        PROVE  GInv'
    <3>1. cpc[t] = "read"
      BY <1>5 DEF ReadGrant
    <3>2. MapsKept'
      BY <1>1, <2>2 DEF CGoto, GInv, MapsKept, MapOn
    <3>3. /\ cpc'[t] = place /\ grant'[t] = Record(t)
          /\ \A s \in Call \ {t} : cpc'[s] = cpc[s] /\ grant'[s] = grant[s]
      BY <2>2 DEF CGoto, GInv, MapsKept, MapOn
    <3>4. cjob[t] \in CallJob \cup {NoJob}
      BY DEF GInv, MapsKept
    <3>5. GivenIsAnswered(t)'
      BY <1>1, <2>2, <3>1, <3>3, <3>4 DEF GivenIsAnswered, GInv, GivenWasAnswered, CallJob, NoJob
    <3>6. WillTake(t)'
      <4>1. cjob[t].op = "exchange" => Record(t).code = cjob[t].given
        BY <2>2, <3>4 DEF Record, CallJob, NoJob, GInv, GrantNeverForks
      <4>2. cjob[t].op = "refresh" => Record(t) = refresh[cjob[t].given]
        BY DEF Record
      <4> QED
        BY <1>1, <2>2, <3>3, <4>1, <4>2 DEF WillTake
    <3>7. GivenWasAnswered' /\ ReadIsTaken'
      BY <1>1, <2>2, <3>1, <3>2, <3>3, <3>5, <3>6, CallLeavesOthers
    <3>8. \A q \in Request : Carriers(q)' \subseteq Carriers(q)
      BY <2>2, <3>3 DEF Carriers, Carries
    <3> QED
      BY <1>1, <3>2, <3>7, <3>8, NothingNew
  <2> QED
    BY <1>5, <2>1, <2>2 DEF ReadGrant
<1> QED
  BY <1>3, <1>4, <1>5

(* Calls that end, reply, delete an old token or look the account up.      *)
LEMMA AnsweringKeeps ==
    ASSUME GInv, NEW t \in Call,
           DropToken(t) \/ LookUpUser(t) \/ Reply(t) \/ CallFails(t)
    PROVE  GInv'
<1> USE DEF accountVars, grantStore
<1>1. pc' = pc /\ UNCHANGED codes /\ MapOn(Request, codes')
  BY DEF DropToken, LookUpUser, Reply, CallFails, GInv, MapsKept
<1>2. MapOn(Call, refresh') /\ \A s \in Call : refresh'[s] \in {refresh[s], NoEntry}
  BY DEF DropToken, LookUpUser, Reply, CallFails, GInv, MapsKept, MapOn
<1>3. CASE Lose(t) /\ cpc[t] # "answered"
  BY <1>1, <1>2, <1>3, LoseKeeps
<1>4. CASE LookUpUser(t) /\ ~Lose(t)
  <2> DEFINE place == IF cjob[t].op = "exchange" THEN "issue" ELSE "reply"
  <2>1. cpc[t] = "user" /\ CGoto(t, place) /\ UNCHANGED <<cjob, grant>>
    BY <1>4 DEF LookUpUser
  <2>2. place # "take" /\ place \notin {"resolve", "read"}
    OBVIOUS
  <2>3. place = "issue" => cjob[t].op = "exchange"
    OBVIOUS
  <2> HIDE DEF place
  <2>4. /\ MapsKept' /\ GivenWasAnswered' /\ ReadIsTaken'
        /\ cpc'[t] = place /\ \A s \in Call \ {t} : cpc'[s] = cpc[s]
    BY <1>1, <1>2, <2>1, <2>2, GoingOn
  <2>5. place \in {"issue", "reply"}
    BY DEF place
  <2>6. \A q \in Request : Carriers(q)' \subseteq Carriers(q)
    BY <2>1, <2>3, <2>4, <2>5 DEF Carriers, Carries
  <2> QED
    BY <1>1, <1>2, <2>4, <2>6, NothingNew
<1>5. CASE Reply(t)
  <2>1. cpc[t] = "reply" /\ CGoto(t, "answered") /\ UNCHANGED <<cjob, grant>>
    BY <1>5 DEF Reply
  <2>2. /\ MapsKept' /\ GivenWasAnswered' /\ ReadIsTaken'
        /\ cpc'[t] = "answered" /\ \A s \in Call \ {t} : cpc'[s] = cpc[s]
    BY <1>1, <1>2, <2>1, GoingOn
  <2>3. \A q \in Request : Carriers(q)' \subseteq Carriers(q)
    BY <2>1, <2>2 DEF Carriers, Carries
  <2> QED
    BY <1>1, <1>2, <2>2, <2>3, NothingNew
<1> QED
  BY <1>3, <1>4, <1>5 DEF DropToken, LookUpUser, CallFails

(* A code that is still there is taken: its right goes to the call.        *)
LEMMA TakeCodeKeeps ==
    ASSUME GInv, NEW t \in Call, TakeCode(t)
    PROVE  GInv'
<1> USE DEF accountVars, grantStore
<1> DEFINE c == cjob[t].given
<1>1. /\ pc' = pc /\ refresh' = refresh /\ cpc[t] = "take" /\ cjob[t].op = "exchange"
      /\ codes' = [codes EXCEPT ![c] = NoEntry]
  BY DEF TakeCode
<1>2. c \in Request /\ grant[t].code = c
  BY <1>1 DEF GInv, MapsKept, CallJob, NoJob, ReadIsTaken
<1> HIDE DEF c
<1>3. /\ MapOn(Request, codes') /\ MapOn(Call, refresh') /\ codes'[c] = NoEntry
      /\ \A q \in Request \ {c} : codes'[q] = codes[q]
  BY <1>1, <1>2 DEF GInv, MapsKept, MapOn
<1>4. CASE Lose(t)
  BY <1>1, <1>3, <1>4, LoseKeeps
<1>5. CASE codes[c] # NoEntry /\ Proceed(t, "user")
  <2>1. UNCHANGED <<cjob, grant>> /\ CGoto(t, "user")
    BY <1>5 DEF Proceed
  <2>2. /\ MapsKept' /\ GivenWasAnswered' /\ ReadIsTaken'
        /\ cpc'[t] = "user" /\ \A s \in Call \ {t} : cpc'[s] = cpc[s]
    BY <1>1, <1>3, <2>1, GoingOn
  <2>3. \A q \in Request : Tokens(q)' = Tokens(q)
    BY <1>1 DEF Tokens
  <2>4. \A q \in Request \ {c} : Carriers(q)' \subseteq Carriers(q)
    BY <1>2, <2>1, <2>2 DEF Carriers, Carries
  <2>5. \A q \in Request : Carriers(q)' \subseteq Carriers(q) \cup {t}
    BY <2>1, <2>2 DEF Carriers, Carries
  <2>6. pc[c] = "done" /\ Tokens(c) = {} /\ Carriers(c) = {}
    BY <1>2, <1>5 DEF GInv, CodesAreFresh, GrantNeverForks
  <2>7. CodesAreFresh'
    BY <1>1, <1>3, <2>3, <2>4, <2>6 DEF GInv, CodesAreFresh
  <2>8. GrantNeverForks'
    <3> SUFFICES ASSUME NEW q \in Request
                 PROVE  /\ codes'[q] # NoEntry => codes'[q].code = q
                        /\ codes'[q] # NoEntry => Tokens(q)' = {} /\ Carriers(q)' = {}
                        /\ \A s, u \in Call :
                             /\ s \in Tokens(q)' /\ u \in Tokens(q)' => s = u
                             /\ s \in Carriers(q)' /\ u \in Carriers(q)' => s = u
                             /\ ~(s \in Tokens(q)' /\ u \in Carriers(q)')
      BY DEF GrantNeverForks
    <3>1. CASE q = c
      <4>1. Tokens(q)' = {} /\ Carriers(q)' \subseteq {t} /\ codes'[q] = NoEntry
        BY <1>3, <2>3, <2>5, <2>6, <3>1
      <4> QED
        BY <4>1
    <3>2. CASE q # c
      <4>1. Tokens(q)' = Tokens(q) /\ Carriers(q)' \subseteq Carriers(q) /\ codes'[q] = codes[q]
        BY <1>3, <2>3, <2>4, <3>2
      <4> QED
        BY <4>1 DEF GInv, GrantNeverForks
    <3> QED
      BY <3>1, <3>2
  <2> QED
    BY <2>2, <2>7, <2>8 DEF GInv
<1> QED
  BY <1>1, <1>4, <1>5 DEF TakeCode, Record, c

(* A refresh token likewise.                                               *)
LEMMA TakeTokenKeeps ==
    ASSUME GInv, NEW t \in Call, TakeToken(t)
    PROVE  GInv'
<1> USE DEF accountVars, grantStore
<1> DEFINE r == cjob[t].given
<1>1. /\ pc' = pc /\ codes' = codes /\ cpc[t] = "take" /\ cjob[t].op = "refresh"
      /\ refresh' = [refresh EXCEPT ![r] = NoEntry]
  BY DEF TakeToken
<1>2. r \in Call /\ (refresh[r] # NoEntry => refresh[r].code = grant[t].code)
  BY <1>1 DEF GInv, MapsKept, CallJob, NoJob, ReadIsTaken
<1> HIDE DEF r
<1>3. /\ MapOn(Request, codes') /\ MapOn(Call, refresh') /\ refresh'[r] = NoEntry
      /\ \A s \in Call \ {r} : refresh'[s] = refresh[s]
  BY <1>1, <1>2 DEF GInv, MapsKept, MapOn
<1>4. CASE Lose(t)
  BY <1>1, <1>3, <1>4, LoseKeeps
<1>5. CASE refresh[r] # NoEntry /\ Proceed(t, "issue")
  <2>1. UNCHANGED <<cjob, grant>> /\ CGoto(t, "issue")
    BY <1>5 DEF Proceed
  <2>2. /\ MapsKept' /\ GivenWasAnswered' /\ ReadIsTaken'
        /\ cpc'[t] = "issue" /\ \A s \in Call \ {t} : cpc'[s] = cpc[s]
    BY <1>1, <1>3, <2>1, GoingOn
  <2>3. \A q \in Request : Tokens(q)' \subseteq Tokens(q) /\ r \notin Tokens(q)'
    BY <1>3 DEF Tokens
  <2>4. \A q \in Request : q # grant[t].code => Carriers(q)' \subseteq Carriers(q)
    BY <2>1, <2>2 DEF Carriers, Carries
  <2>5. \A q \in Request : Carriers(q)' \subseteq Carriers(q) \cup {t}
    BY <2>1, <2>2 DEF Carriers, Carries
  <2>6. ASSUME NEW q \in Request, q = grant[t].code
        PROVE  pc[q] = "done" /\ codes[q] = NoEntry /\ Tokens(q) = {r} /\ Carriers(q) = {}
    <3>1. r \in Tokens(q)
      BY <1>2, <1>5, <2>6 DEF Tokens
    <3>2. Tokens(q) \subseteq Call /\ Carriers(q) \subseteq Call
      BY DEF Tokens, Carriers
    <3> QED
      BY <3>1, <3>2 DEF GInv, CodesAreFresh, GrantNeverForks
  <2>7. CodesAreFresh'
    <3> SUFFICES ASSUME NEW q \in Request, pc[q] # "done"
                 PROVE  codes[q] = NoEntry /\ Tokens(q)' = {} /\ Carriers(q)' = {}
      BY <1>1 DEF CodesAreFresh
    <3> QED
      BY <2>3, <2>4, <2>6 DEF GInv, CodesAreFresh
  <2>8. GrantNeverForks'
    <3> SUFFICES ASSUME NEW q \in Request
                 PROVE  /\ codes[q] # NoEntry => codes[q].code = q
                        /\ codes[q] # NoEntry => Tokens(q)' = {} /\ Carriers(q)' = {}
                        /\ \A s, u \in Call :
                             /\ s \in Tokens(q)' /\ u \in Tokens(q)' => s = u
                             /\ s \in Carriers(q)' /\ u \in Carriers(q)' => s = u
                             /\ ~(s \in Tokens(q)' /\ u \in Carriers(q)')
      BY <1>1 DEF GrantNeverForks
    <3>1. CASE q = grant[t].code
      <4>1. Tokens(q)' = {} /\ Carriers(q)' \subseteq {t} /\ codes[q] = NoEntry
        BY <2>3, <2>5, <2>6, <3>1
      <4> QED
        BY <4>1
    <3>2. CASE q # grant[t].code
      <4>1. Tokens(q)' \subseteq Tokens(q) /\ Carriers(q)' \subseteq Carriers(q)
        BY <2>3, <2>4, <3>2
      <4> QED
        BY <4>1 DEF GInv, GrantNeverForks
    <3> QED
      BY <3>1, <3>2
  <2> QED
    BY <2>2, <2>7, <2>8 DEF GInv
<1> QED
  BY <1>1, <1>4, <1>5 DEF TakeToken, Record, r

(* The next token takes the right from the call that stores it.            *)
LEMMA IssueKeeps ==
    ASSUME GInv, NEW t \in Call, Issue(t)
    PROVE  GInv'
<1> USE DEF accountVars, grantStore
<1>1. /\ pc' = pc /\ codes' = codes /\ cpc[t] = "issue"
      /\ refresh' = [refresh EXCEPT ![t] = grant[t]]
  BY DEF Issue
<1>2. /\ MapOn(Request, codes') /\ MapOn(Call, refresh') /\ refresh'[t] = grant[t]
      /\ \A s \in Call \ {t} : refresh'[s] = refresh[s]
  BY <1>1 DEF GInv, MapsKept, MapOn
<1>3. /\ MapsKept' /\ GivenWasAnswered' /\ ReadIsTaken'
      /\ \A q \in Request : Carriers(q)' \subseteq Carriers(q) \ {t}
  <2>1. CASE Lose(t)
    <3>1. /\ cpc'[t] = "lost" /\ cjob'[t] = NoJob
          /\ \A s \in Call \ {t} : cpc'[s] = cpc[s] /\ cjob'[s] = cjob[s] /\ grant'[s] = grant[s]
      BY <2>1 DEF Lose, CGoto, GInv, MapsKept, MapOn
    <3>2. MapsKept'
      BY <1>1, <1>2, <2>1 DEF Lose, CGoto, GInv, MapsKept, MapOn
    <3>3. GivenIsAnswered(t)' /\ WillTake(t)'
      BY <3>1 DEF GivenIsAnswered, WillTake
    <3>4. GivenWasAnswered' /\ ReadIsTaken'
      BY <1>1, <1>2, <3>1, <3>2, <3>3, CallLeavesOthers
    <3>5. \A q \in Request : Carriers(q)' \subseteq Carriers(q) \ {t}
      BY <3>1 DEF Carriers, Carries
    <3> QED
      BY <3>2, <3>4, <3>5
  <2>2. ASSUME NEW place \in {"reply", "user"}, Proceed(t, place),
               place = "user" => cjob[t].op # "exchange"
        PROVE  /\ MapsKept' /\ GivenWasAnswered' /\ ReadIsTaken'
               /\ \A q \in Request : Carriers(q)' \subseteq Carriers(q) \ {t}
    <3>1. UNCHANGED <<cjob, grant>> /\ CGoto(t, place)
      BY <2>2 DEF Proceed
    <3>2. /\ MapsKept' /\ GivenWasAnswered' /\ ReadIsTaken'
          /\ cpc'[t] = place /\ \A s \in Call \ {t} : cpc'[s] = cpc[s]
      BY <1>1, <1>2, <3>1, GoingOn
    <3>3. \A q \in Request : Carriers(q)' \subseteq Carriers(q) \ {t}
      BY <2>2, <3>1, <3>2 DEF Carriers, Carries
    <3> QED
      BY <3>2, <3>3
  <2> QED
    BY <2>1, <2>2 DEF Issue
<1>4. \A q \in Request : Tokens(q)' \subseteq Tokens(q) \cup {t}
  BY <1>2 DEF Tokens
<1>5. \A q \in Request : t \in Tokens(q)' => t \in Carriers(q)
  BY <1>1, <1>2 DEF Tokens, Carriers, Carries
<1>6. \A q \in Request : Carriers(q)' \subseteq Call /\ Carriers(q) \subseteq Call /\ Tokens(q) \subseteq Call
  BY DEF Carriers, Tokens
<1>7. CodesAreFresh'
  BY <1>1, <1>3, <1>4, <1>5 DEF GInv, CodesAreFresh
<1>8. GrantNeverForks'
  <2> SUFFICES ASSUME NEW q \in Request
               PROVE  /\ codes[q] # NoEntry => codes[q].code = q
                      /\ codes[q] # NoEntry => Tokens(q)' = {} /\ Carriers(q)' = {}
                      /\ \A s, u \in Call :
                           /\ s \in Tokens(q)' /\ u \in Tokens(q)' => s = u
                           /\ s \in Carriers(q)' /\ u \in Carriers(q)' => s = u
                           /\ ~(s \in Tokens(q)' /\ u \in Carriers(q)')
    BY <1>1 DEF GrantNeverForks
  <2>1. CASE t \in Tokens(q)'
    <3>1. t \in Carriers(q)
      BY <1>5, <2>1
    <3>2. Tokens(q) = {} /\ Carriers(q) = {t} /\ codes[q] = NoEntry
      BY <1>6, <3>1 DEF GInv, GrantNeverForks
    <3>3. Tokens(q)' \subseteq {t} /\ Carriers(q)' = {}
      BY <1>3, <1>4, <3>2
    <3> QED
      BY <3>2, <3>3
  <2>2. CASE t \notin Tokens(q)'
    <3>1. Tokens(q)' \subseteq Tokens(q) /\ Carriers(q)' \subseteq Carriers(q)
      BY <1>3, <1>4, <2>2
    <3> QED
      BY <3>1 DEF GInv, GrantNeverForks
  <2> QED
    BY <2>1, <2>2
<1> QED
  BY <1>3, <1>7, <1>8 DEF GInv

-----------------------------------------------------------------------------
(* Every step of browsers and calls keeps the invariant.                   *)
LEMMA GrantsStep == GInv /\ [GrantsNext]_vars => GInv'
<1> SUFFICES ASSUME GInv, [GrantsNext]_vars PROVE GInv'
  OBVIOUS
<1>1. CASE UNCHANGED vars
  <2>1. UNCHANGED <<grantStore, cjob, cpc, grant, pc>>
    BY <1>1 DEF vars, accountVars, callVars
  <2>2. MapOn(Request, pc')
    BY <2>1 DEF GInv, MapsKept
  <2> QED
    BY <2>1, <2>2, NoCodeMade
<1>2. CASE Browser
  BY <1>2, BrowserKeeps
<1>3. ASSUME NEW t \in Call, TokenEndpoint(t) PROVE GInv'
  BY <1>3, ReadingKeeps, AnsweringKeeps, TakeCodeKeeps, TakeTokenKeeps, IssueKeeps DEF TokenEndpoint
<1> QED
  BY <1>1, <1>2, <1>3 DEF GrantsNext

(* However often a code or a refresh token is sent, and whatever fails in  *)
(* between, an authorization has one heir at most.                         *)
THEOREM GrantsNeverFork == GrantsSpec => []GrantNeverForks
<1>1. GInv => GrantNeverForks
  BY DEF GInv
<1> QED
  BY <1>1, InitGrants, GrantsStep, PTL DEF GrantsSpec

-----------------------------------------------------------------------------
(* What tokens say.  Every record of a grant goes back to a request that   *)
(* allowed it and is over, and each call keeps what it has compared.       *)

(* The record is of what some account allowed some client.                 *)
Granted(g) ==
    /\ g \in GrantRecord
    /\ pc[g.code] = "done" /\ job[g.code] \in AuthorizeJob
    /\ g.client = job[g.code].client /\ g.redirect = job[g.code].redirect
    /\ \E pattern \in Pattern[g.client] : PlaceMatches(g.redirect, pattern)

(* Of the accounts: who is there has a role, and a form knows its place.   *)
PeopleKept ==
    /\ MapOn(User, acct) /\ MapOn(Request, pc) /\ MapOn(Request, job) /\ MapOn(Request, me)
    /\ live \subseteq User
    /\ \A u \in live : acct[u].role \in Role

PageKept(q) ==
    /\ me[q].id \in User \cup {NoUser}
    /\ job[q] \in Job \cup AuthorizeJob \cup {NoJob}
    /\ pc[q] \in {"checkName", "commitUser"} => job[q].op = "register"
    /\ pc[q] = "read" => job[q].op \in {"register", "account", "toggle", "delete"}
    /\ pc[q] = "createCode" =>
         /\ job[q] \in AuthorizeJob /\ me[q].id # NoUser
         /\ \E pattern \in Pattern[job[q].client] : PlaceMatches(job[q].redirect, pattern)

CodesKept == \A q \in Request : codes[q] # NoEntry => Granted(codes[q]) /\ codes[q].code = q

(* A call from the read of the record on, and from the comparison on.      *)
HasRead(t) == cpc[t] \in {"take", "drop", "user", "issue", "reply", "answered"}
HasCompared(t) ==
    IF cjob[t].op = "exchange" THEN cpc[t] \in {"user", "issue", "reply", "answered"}
    ELSE cpc[t] \in {"user", "reply", "answered"}
HasLooked(t) == cpc[t] \in {"reply", "answered"} \/ (cpc[t] = "issue" /\ cjob[t].op = "exchange")

(* What it was asked.                                                      *)
AskedKept(t) ==
    cpc[t] \notin {"idle", "lost"} =>
      /\ cjob[t] \in CallJob
      /\ cjob[t].op = "refresh" => cpc[cjob[t].given] = "answered"

(* What it read, and what it stored.                                       *)
GrantKept(t) ==
    /\ HasRead(t) => Granted(grant[t])
    /\ refresh[t] # NoEntry =>
         /\ Granted(refresh[t])
         /\ cpc[t] = "lost" \/ (HasRead(t) /\ refresh[t] = grant[t])

(* What it compared: the account is that of the last token.                *)
ComparedKept(t) ==
    /\ HasRead(t) /\ cjob[t].op = "exchange" => grant[t].code = cjob[t].given
    /\ HasRead(t) /\ cjob[t].op = "refresh" => grant[t].user = access[cjob[t].given].user
    /\ HasCompared(t) =>
         /\ grant[t].client = cjob[t].client
         /\ cjob[t].op = "exchange" => grant[t].redirect = cjob[t].redirect

(* What it looked up, and what it answered.                                *)
HolderKept(t) ==
    /\ holder[t].id \in User \cup {NoUser} /\ holder[t].role \in Role
    /\ holder[t] = [id |-> holder[t].id, role |-> holder[t].role]
    /\ HasLooked(t) => holder[t].id = grant[t].user /\ <<holder[t].id, holder[t].role>> \in seen[t]
    /\ Serving(t) => Holds \subseteq seen[t]

AccessKept(t) ==
    IF cpc[t] = "answered"
    THEN access[t] = [user |-> holder[t].id, role |-> holder[t].role,
                      client |-> grant[t].client, code |-> grant[t].code]
    ELSE access[t] = NoEntry

CallKept(t) == AskedKept(t) /\ GrantKept(t) /\ ComparedKept(t) /\ HolderKept(t) /\ AccessKept(t)

CallMaps ==
    /\ codes \in [Request -> GrantRecord \cup {NoEntry}]
    /\ refresh \in [Call -> GrantRecord \cup {NoEntry}]
    /\ cjob \in [Call -> CallJob \cup {NoJob}]
    /\ cpc \in [Call -> {"idle", "resolve", "read", "take", "drop", "user", "issue", "reply",
                         "answered", "lost"}]
    /\ grant \in [Call -> GrantRecord \cup {NoEntry}]
    /\ MapOn(Call, holder) /\ MapOn(Call, seen) /\ MapOn(Call, access)

KInv ==
    /\ PeopleKept /\ (\A q \in Request : PageKept(q))
    /\ CallMaps /\ CodesKept /\ (\A t \in Call : CallKept(t))

-----------------------------------------------------------------------------
(* The browsers.                                                           *)

OnlyMoves(q) ==
    /\ MapOn(Request, pc') /\ MapOn(Request, job') /\ MapOn(Request, me')
    /\ \A p \in Request \ {q} : pc'[p] = pc[p] /\ job'[p] = job[p] /\ me'[p] = me[p]

(* A request begins.                                                       *)
LEMMA BeginPage ==
    ASSUME PeopleKept, NEW q \in Request, PageKept(q), NEW j \in Job \cup AuthorizeJob, NEW c,
           Begin(q, j, c)
    PROVE  OnlyMoves(q) /\ PageKept(q)' /\ pc[q] # "done" /\ PeopleKept'
<1> USE DEF PeopleKept, MapOn
<1>1. /\ pc[q] = "idle" /\ job' = [job EXCEPT ![q] = j] /\ UNCHANGED <<me, live, acct>>
      /\ pc' = [pc EXCEPT ![q] = IF c = NoCookie THEN "handle" ELSE "session"]
  BY DEF Begin, store, users
<1>2. OnlyMoves(q)
  BY <1>1 DEF OnlyMoves
<1>3. pc'[q] \in {"handle", "session"} /\ job'[q] = j
  BY <1>1
<1>4. PageKept(q)'
  BY <1>1, <1>3 DEF PageKept
<1> QED
  BY <1>1, <1>2, <1>4 DEF OnlyMoves

(* A request moves on, its form and its account with it or given up.       *)
LEMMA PageMoves ==
    ASSUME PeopleKept, NEW q \in Request, PageKept(q), NEW place,
           pc' = [pc EXCEPT ![q] = place], place # "createCode",
           job' = job \/ job' = [job EXCEPT ![q] = NoJob],
           me' = me \/ me' = [me EXCEPT ![q] = Nobody],
           place \in {"checkName", "commitUser", "read"} => job' = job,
           place \in {"checkName", "commitUser"} => job[q].op = "register",
           place = "read" => job[q].op \in {"register", "account", "toggle", "delete"}
    PROVE  OnlyMoves(q) /\ PageKept(q)'
<1> USE DEF PeopleKept, MapOn
<1>1. OnlyMoves(q)
  BY DEF OnlyMoves
<1>2. /\ pc'[q] = place /\ job'[q] \in {job[q], NoJob}
      /\ me'[q] = me[q] \/ me'[q] = Nobody
  OBVIOUS
<1>3. me'[q].id \in User \cup {NoUser}
  BY <1>2 DEF PageKept, Nobody
<1>4. PageKept(q)'
  BY <1>2, <1>3 DEF PageKept
<1> QED
  BY <1>1, <1>4

(* An answer, and a step to another await.                                 *)
LEMMA PageEnds ==
    ASSUME PeopleKept, NEW q \in Request, PageKept(q), NEW told, Finish(q, told)
    PROVE  OnlyMoves(q) /\ PageKept(q)'
<1>1. /\ pc' = [pc EXCEPT ![q] = "done"] /\ me' = [me EXCEPT ![q] = Nobody]
      /\ job' = job \/ job' = [job EXCEPT ![q] = NoJob]
  BY DEF Finish, PeopleKept, MapOn
<1> QED
  BY <1>1, PageMoves

LEMMA PageGoesOn ==
    ASSUME PeopleKept, NEW q \in Request, PageKept(q), NEW place, Goto(q, place),
           UNCHANGED <<job, me>>, place # "createCode",
           place \in {"checkName", "commitUser"} => job[q].op = "register",
           place = "read" => job[q].op \in {"register", "account", "toggle", "delete"}
    PROVE  OnlyMoves(q) /\ PageKept(q)'
BY PageMoves DEF Goto

(* Handlers that leave the accounts alone.                                 *)
LEMMA PageLooks ==
    ASSUME PeopleKept, NEW q \in Request, PageKept(q),
           \/ ReadSession(q) \/ DropSession(q) \/ ReadUser(q) \/ Fail(q)
           \/ CheckEmail(q) \/ CheckName(q) \/ CreateSession(q)
           \/ FindEmail(q) \/ FindUser(q) \/ DestroySession(q)
           \/ StartUpdate(q) \/ ReadEntry(q)
    PROVE  OnlyMoves(q) /\ PageKept(q)' /\ UNCHANGED <<live, acct>>
<1> USE DEF locals, store, users
<1>1. CASE ReadSession(q)
  <2>1. PICK place \in {"handle", "user", "drop"} : Goto(q, place)
    BY <1>1 DEF ReadSession
  <2> QED
    BY <1>1, <2>1, PageGoesOn DEF ReadSession
<1>2. CASE DropSession(q)
  BY <1>2, PageGoesOn DEF DropSession
<1>3. CASE ReadUser(q)
  <2>1. /\ pc' = [pc EXCEPT ![q] = "handle"] /\ UNCHANGED <<job, live, acct>>
        /\ me' = [me EXCEPT ![q] = IF who[q] \in live
                                   THEN [id |-> who[q], role |-> acct[who[q]].role] ELSE Nobody]
    BY <1>3 DEF ReadUser, Goto
  <2>2. OnlyMoves(q)
    BY <2>1 DEF OnlyMoves, PeopleKept, MapOn
  <2>3. pc'[q] = "handle" /\ me'[q].id \in User \cup {NoUser} /\ job'[q] = job[q]
    BY <2>1 DEF PeopleKept, MapOn, Nobody
  <2> QED
    BY <2>1, <2>2, <2>3 DEF PageKept
<1>4. CASE Fail(q) \/ CreateSession(q) \/ DestroySession(q)
  <2>1. PICK told \in {"ok", "error"} : Finish(q, told)
    BY <1>4 DEF Fail, CreateSession, DestroySession
  <2> QED
    BY <1>4, <2>1, PageEnds DEF Fail, CreateSession, DestroySession
<1>5. CASE CheckEmail(q)
  BY <1>5, PageEnds, PageGoesOn DEF CheckEmail
<1>6. CASE CheckName(q)
  BY <1>6, PageEnds, PageGoesOn DEF CheckName, PageKept
<1>7. CASE FindEmail(q)
  BY <1>7, PageEnds, PageGoesOn DEF FindEmail
<1>8. CASE FindUser(q)
  BY <1>8, PageEnds, PageGoesOn DEF FindUser
<1>9. CASE StartUpdate(q)
  BY <1>9, PageEnds, PageGoesOn DEF StartUpdate
<1>10. CASE ReadEntry(q)
  <2>1. CASE Finish(q, "error")
    BY <1>10, <2>1, PageEnds DEF ReadEntry
  <2>2. CASE Goto(q, "createSession") /\ UNCHANGED <<locals, answer>>
    BY <1>10, <2>2, PageGoesOn DEF ReadEntry
  <2>3. CASE Goto(q, CommitOf[job[q].op]) /\ UNCHANGED <<job, cookie, me, who, answer>>
    <3>1. job[q].op \in {"register", "account", "toggle", "delete"}
      BY <1>10 DEF ReadEntry, PageKept
    <3>2. CommitOf[job[q].op] \in {"commitProfile", "commitRole", "commitDelete"}
      BY <3>1 DEF CommitOf
    <3> QED
      BY <1>10, <2>3, <3>2, PageGoesOn DEF ReadEntry
  <2> QED
    BY <1>10, <2>1, <2>2, <2>3 DEF ReadEntry
<1> QED
  BY <1>1, <1>2, <1>3, <1>4, <1>5, <1>6, <1>7, <1>8, <1>9, <1>10

(* Handlers that write an account: its role stays one.                     *)
LEMMA PageWrites ==
    ASSUME PeopleKept, NEW q \in Request, PageKept(q),
           CommitUser(q) \/ CommitProfile(q) \/ CommitRole(q) \/ CommitDelete(q)
    PROVE  OnlyMoves(q) /\ PageKept(q)' /\ PeopleKept'
<1> USE DEF locals, store, users
<1> SUFFICES /\ OnlyMoves(q) /\ PageKept(q)'
             /\ live' \subseteq User /\ MapOn(User, acct') /\ \A u \in live' : acct'[u].role \in Role
  BY DEF PeopleKept, OnlyMoves
<1>1. CASE Finish(q, "error") /\ UNCHANGED store
  BY <1>1, PageEnds DEF PeopleKept
<1>2. CASE StoreAccount(q) /\ pc[q] = "commitUser"
  <2> DEFINE new == [email |-> job[q].email, name |-> job[q].name, role |-> "user",
                     profile |-> NoEntry, ver |-> 0]
  <2>1. live' = live \cup {q} /\ acct' = [acct EXCEPT ![q] = new] /\ new.role = "user"
    BY <1>2 DEF StoreAccount
  <2> HIDE DEF new
  <2>2. live' \subseteq User /\ MapOn(User, acct') /\ \A u \in live' : acct'[u].role \in Role
    BY <2>1 DEF PeopleKept, MapOn, User, Role
  <2>3. PICK place \in {"read", "createSession"} : Goto(q, place)
    BY <1>2 DEF StoreAccount
  <2>4. job[q].op = "register"
    BY <1>2 DEF PageKept
  <2> QED
    BY <1>2, <2>2, <2>3, <2>4, PageGoesOn DEF StoreAccount
<1>3. CASE (SetProfile(q) \/ SetRole(q)) /\ Unchanged(q)
  <2>1. who[q] \in live /\ acct[who[q]] = entry[q]
    BY <1>3 DEF Unchanged
  <2>2. PICK new : acct' = [acct EXCEPT ![who[q]] = new] /\ new.role \in Role
    <3>1. ROLE_CYCLE[entry[q].role] \in Role
      BY <2>1 DEF PeopleKept, ROLE_CYCLE, Role
    <3>2. Titled(entry[q], q).role = entry[q].role /\ Turned(entry[q]).role = ROLE_CYCLE[entry[q].role]
      BY DEF Titled, Turned
    <3> QED
      BY <1>3, <2>1, <3>1, <3>2 DEF SetProfile, SetRole, PeopleKept
  <2>3. live' = live
    BY <1>3 DEF SetProfile, SetRole
  <2>4. live' \subseteq User /\ MapOn(User, acct') /\ \A u \in live' : acct'[u].role \in Role
    BY <2>1, <2>2, <2>3 DEF PeopleKept, MapOn
  <2>5. OnlyMoves(q) /\ PageKept(q)'
    BY <1>3, PageEnds, PageGoesOn DEF SetProfile, SetRole
  <2> QED
    BY <2>4, <2>5
<1>4. CASE CommitDelete(q)
  <2>1. Finish(q, "ok") /\ acct' = acct /\ live' \subseteq live
    BY <1>4 DEF CommitDelete
  <2> QED
    BY <2>1, PageEnds DEF PeopleKept
<1> QED
  BY <1>1, <1>2, <1>3, <1>4 DEF CommitUser, CommitProfile, CommitRole

(* The authorize page.                                                     *)
LEMMA PageAuthorizes ==
    ASSUME PeopleKept, NEW q \in Request, PageKept(q), ResolveForPage(q) \/ CreateAuthorizationCode(q)
    PROVE  OnlyMoves(q) /\ PageKept(q)' /\ UNCHANGED <<live, acct>>
<1> USE DEF locals, store, users
<1>1. CASE \E told : Finish(q, told)
  BY <1>1, PageEnds DEF ResolveForPage, CreateAuthorizationCode
<1>2. CASE /\ job[q].op = "authorize"
           /\ \E pattern \in Pattern[job[q].client] : RedirectMatches(job[q].redirect, pattern)
           /\ me[q].id # NoUser /\ Goto(q, "createCode") /\ UNCHANGED locals
  <2>1. job[q] \in AuthorizeJob
    BY <1>2 DEF PageKept, Job, NoJob
  <2>2. OnlyMoves(q) /\ pc'[q] = "createCode"
    BY <1>2 DEF OnlyMoves, Goto, PeopleKept, MapOn
  <2>3. PageKept(q)'
    BY <1>2, <2>1, <2>2 DEF PageKept, RedirectMatches
  <2> QED
    BY <2>2, <2>3 DEF ResolveForPage, CreateAuthorizationCode
<1> QED
  BY <1>1, <1>2 DEF ResolveForPage, CreateAuthorizationCode

(* A step of a browser keeps what the calls rely on: what is allowed stays *)
(* so, and the accounts there are have been seen.                          *)
LEMMA BrowserTokens ==
    ASSUME KInv, Browser
    PROVE  KInv'
<1>1. UNCHANGED <<cjob, cpc, grant, holder, access, refresh>>
  BY DEF Browser, Next, Authorize, ResolveForPage, CreateAuthorizationCode, grantStore
<1>2. PICK q \in Request :
        \/ Handle(q) /\ UNCHANGED grantStore
        \/ (\E j \in Job \cup AuthorizeJob : \E c : Begin(q, j, c)) /\ UNCHANGED grantStore
        \/ ResolveForPage(q) \/ CreateAuthorizationCode(q)
  BY DEF Browser, Next, Authorize
<1>3. PeopleKept /\ PageKept(q)
  BY DEF KInv
<1>4. pc[q] # "done"
  BY <1>2, DoneIsDone
<1>5. OnlyMoves(q) /\ PageKept(q)' /\ PeopleKept'
  <2>1. CASE Handle(q)
    <3>1. OnlyMoves(q) /\ PageKept(q)' /\ (PeopleKept' \/ UNCHANGED <<live, acct>>)
      BY <1>3, <2>1, PageLooks, PageWrites DEF Handle
    <3> QED
      BY <1>3, <3>1 DEF PeopleKept, OnlyMoves
  <2>2. CASE \E j \in Job \cup AuthorizeJob : \E c : Begin(q, j, c)
    BY <1>3, <2>2, BeginPage
  <2>3. CASE ResolveForPage(q) \/ CreateAuthorizationCode(q)
    <3>1. OnlyMoves(q) /\ PageKept(q)' /\ UNCHANGED <<live, acct>>
      BY <1>3, <2>3, PageAuthorizes
    <3> QED
      BY <1>3, <3>1 DEF PeopleKept, OnlyMoves
  <2> QED
    BY <1>2, <2>1, <2>2, <2>3
<1>6. \A p \in Request : PageKept(p)'
  BY <1>5 DEF KInv, PageKept, OnlyMoves
<1>7. ASSUME NEW g, Granted(g) PROVE Granted(g)'
  <2>1. g.code \in Request /\ g.code # q
    BY <1>4, <1>7 DEF Granted, GrantRecord
  <2> QED
    BY <1>5, <1>7, <2>1 DEF Granted, OnlyMoves
<1>8. codes' \in [Request -> GrantRecord \cup {NoEntry}] /\ CodesKept'
  <2>1. CASE UNCHANGED codes
    BY <1>7, <2>1 DEF KInv, CallMaps, CodesKept
  <2>2. CASE CreateAuthorizationCode(q)
    <3>0. PICK made : made = [user |-> me[q].id, client |-> job[q].client,
                              redirect |-> job[q].redirect, code |-> q]
      OBVIOUS
    <3>1. /\ codes' = [codes EXCEPT ![q] = made] /\ pc' = [pc EXCEPT ![q] = "done"]
          /\ job' = job /\ pc[q] = "createCode"
      BY <2>2, <3>0 DEF CreateAuthorizationCode, Finish, PeopleKept, KInv, MapOn
    <3>2. /\ job[q] \in AuthorizeJob /\ me[q].id \in User
          /\ \E pattern \in Pattern[job[q].client] : PlaceMatches(job[q].redirect, pattern)
      BY <1>3, <3>1 DEF PageKept
    <3>3. /\ made \in GrantRecord /\ made.code = q /\ made.client = job[q].client
          /\ made.redirect = job[q].redirect
      BY <3>0, <3>2 DEF GrantRecord, AuthorizeJob
    <3>4. Granted(made)'
      BY <1>3, <3>1, <3>2, <3>3 DEF Granted, PeopleKept, MapOn
    <3>5. codes' \in [Request -> GrantRecord \cup {NoEntry}]
      BY <3>1, <3>3 DEF KInv, CallMaps
    <3>6. CodesKept'
      <4> SUFFICES ASSUME NEW p \in Request, NEW g, g = codes'[p], g # NoEntry
                   PROVE  Granted(g)' /\ g.code = p
        BY DEF CodesKept, Granted
      <4>1. CASE p = q
        <5>1. g = made
          BY <3>1, <4>1 DEF KInv, CallMaps
        <5> QED
          BY <3>3, <3>4, <4>1, <5>1
      <4>2. CASE p # q
        <5>1. g = codes[p]
          BY <3>1, <4>2 DEF KInv, CallMaps
        <5>2. Granted(g) /\ g.code = p
          BY <5>1 DEF KInv, CodesKept
        <5> QED
          BY <1>7, <5>2
      <4> QED
        BY <4>1, <4>2
    <3> QED
      BY <3>5, <3>6
  <2> QED
    BY <1>2, <2>1, <2>2 DEF grantStore, ResolveForPage
<1>9. /\ MapOn(Call, seen')
      /\ \A t \in Call : /\ seen[t] \subseteq seen'[t]
                         /\ Serving(t) => Holds' \subseteq seen'[t]
  BY DEF Browser, MapOn, Holds
<1>10. CallMaps'
  BY <1>1, <1>8, <1>9 DEF KInv, CallMaps, MapOn
<1>11. ASSUME NEW t \in Call PROVE CallKept(t)'
  <2>1. CallKept(t)
    BY DEF KInv
  <2>2. AskedKept(t)' /\ ComparedKept(t)' /\ AccessKept(t)'
    BY <1>1, <2>1 DEF CallKept, AskedKept, ComparedKept, AccessKept, HasRead, HasCompared
  <2>3. GrantKept(t)'
    <3>1. HasRead(t)' = HasRead(t)
      BY <1>1 DEF HasRead
    <3>2. Granted(grant[t]) => Granted(grant[t])'
      BY <1>7, <1>1 DEF Granted
    <3>3. Granted(refresh[t]) => Granted(refresh[t])'
      BY <1>7, <1>1 DEF Granted
    <3> QED
      BY <1>1, <2>1, <3>1, <3>2, <3>3 DEF CallKept, GrantKept
  <2>4. HolderKept(t)'
    BY <1>1, <1>9, <2>1 DEF CallKept, HolderKept, HasLooked, Serving
  <2> QED
    BY <2>2, <2>3, <2>4 DEF CallKept
<1> QED
  BY <1>5, <1>6, <1>8, <1>10, <1>11 DEF KInv

-----------------------------------------------------------------------------
(* The calls.                                                              *)

(* The step of one call is nothing to the others, of which those whose     *)
(* token it takes are answered.                                            *)
LEMMA OthersKept ==
    ASSUME KInv, NEW t \in Call, cpc[t] # "answered",
           UNCHANGED <<pc, job, live, acct, me>>, CallMaps', CodesKept',
           \A s \in Call \ {t} : /\ cpc'[s] = cpc[s] /\ cjob'[s] = cjob[s] /\ grant'[s] = grant[s]
                                 /\ holder'[s] = holder[s] /\ seen'[s] = seen[s]
                                 /\ access'[s] = access[s]
                                 /\ refresh'[s] \in {refresh[s], NoEntry},
           CallKept(t)'
    PROVE  KInv'
<1>1. PeopleKept' /\ \A q \in Request : PageKept(q)'
  BY DEF KInv, PeopleKept, PageKept
<1>2. ASSUME NEW s \in Call \ {t} PROVE CallKept(s)'
  <2>1. CallKept(s)
    BY DEF KInv
  <2>2. /\ HasRead(s)' = HasRead(s) /\ HasCompared(s)' = HasCompared(s)
        /\ HasLooked(s)' = HasLooked(s) /\ Serving(s)' = Serving(s)
    BY DEF HasRead, HasCompared, HasLooked, Serving
  <2>3. cpc[s] \notin {"idle", "lost"} /\ cjob[s].op = "refresh" => cjob[s].given \in Call \ {t}
    BY <2>1 DEF CallKept, AskedKept, CallJob
  <2>4. AskedKept(s)'
    BY <2>1, <2>3 DEF CallKept, AskedKept
  <2>5. GrantKept(s)'
    BY <2>1, <2>2 DEF CallKept, GrantKept, Granted
  <2>6. ComparedKept(s)'
    BY <2>1, <2>2, <2>3 DEF CallKept, ComparedKept, HasRead
  <2>7. HolderKept(s)'
    BY <2>1, <2>2 DEF CallKept, HolderKept, Holds
  <2>8. AccessKept(s)'
    BY <2>1 DEF CallKept, AccessKept
  <2> QED
    BY <2>4, <2>5, <2>6, <2>7, <2>8 DEF CallKept
<1> QED
  BY <1>1, <1>2 DEF KInv

(* What one call may do to the two stores.                                 *)
LEMMA CodesTaken ==
    ASSUME KInv, UNCHANGED <<pc, job>>, NEW q,
           codes' = codes \/ codes' = [codes EXCEPT ![q] = NoEntry]
    PROVE  codes' \in [Request -> GrantRecord \cup {NoEntry}] /\ CodesKept'
<1>1. codes' \in [Request -> GrantRecord \cup {NoEntry}] /\ \A p \in Request : codes'[p] \in {codes[p], NoEntry}
  BY DEF KInv, CallMaps
<1> QED
  BY <1>1 DEF KInv, CodesKept, Granted

(* A call that is lost.                                                    *)
LEMMA LoseTokens ==
    ASSUME KInv, NEW t \in Call, cpc[t] # "answered", Lose(t),
           UNCHANGED <<pc, job, live, acct, me>>,
           codes' \in [Request -> GrantRecord \cup {NoEntry}], CodesKept',
           refresh' \in [Call -> GrantRecord \cup {NoEntry}],
           \A s \in Call \ {t} : refresh'[s] \in {refresh[s], NoEntry},
           refresh'[t] # NoEntry => Granted(refresh'[t])
    PROVE  KInv'
<1>1. /\ cpc' = [cpc EXCEPT ![t] = "lost"] /\ cjob' = [cjob EXCEPT ![t] = NoJob]
      /\ grant' = [grant EXCEPT ![t] = NoEntry] /\ holder' = [holder EXCEPT ![t] = Nobody]
      /\ seen' = [seen EXCEPT ![t] = {}] /\ access' = access
  BY DEF Lose, CGoto
<1>2. CallMaps
  BY DEF KInv
<1>3. /\ cpc'[t] = "lost" /\ holder'[t] = Nobody
      /\ \A s \in Call \ {t} : /\ cpc'[s] = cpc[s] /\ cjob'[s] = cjob[s] /\ grant'[s] = grant[s]
                               /\ holder'[s] = holder[s] /\ seen'[s] = seen[s]
  BY <1>1, <1>2 DEF CallMaps, MapOn
<1>4. CallMaps'
  BY <1>1, <1>2 DEF CallMaps, MapOn
<1>5. access[t] = NoEntry
  BY DEF KInv, CallKept, AccessKept
<1>6. AskedKept(t)' /\ ComparedKept(t)' /\ AccessKept(t)'
  BY <1>1, <1>3, <1>5 DEF AskedKept, ComparedKept, AccessKept, HasRead, HasCompared
<1>7. GrantKept(t)'
  BY <1>3 DEF GrantKept, HasRead, Granted
<1>8. HolderKept(t)'
  BY <1>3 DEF HolderKept, HasLooked, Serving, Nobody, Role
<1> QED
  BY <1>1, <1>3, <1>4, <1>6, <1>7, <1>8, OthersKept DEF CallKept

(* A call that goes on with what it has.                                   *)
LEMMA ProceedTokens ==
    ASSUME KInv, NEW t \in Call, NEW place \in {"read", "user", "issue", "reply"},
           Proceed(t, place), cpc[t] \notin {"idle", "lost", "answered"},
           UNCHANGED <<pc, job, live, acct, me>>,
           codes' \in [Request -> GrantRecord \cup {NoEntry}], CodesKept',
           refresh' \in [Call -> GrantRecord \cup {NoEntry}],
           \A s \in Call \ {t} : refresh'[s] \in {refresh[s], NoEntry},
           \/ HasRead(t) /\ place # "read"
           \/ ~HasRead(t) /\ place = "read" /\ refresh' = refresh,
           refresh'[t] \in {refresh[t], grant[t], NoEntry},
           HasCompared(t)' => grant[t].client = cjob[t].client,
           HasCompared(t)' /\ cjob[t].op = "exchange" => grant[t].redirect = cjob[t].redirect,
           HasLooked(t)' => HasLooked(t)
    PROVE  KInv'
<1>1. cpc' = [cpc EXCEPT ![t] = place] /\ UNCHANGED <<cjob, grant, holder, seen, access>>
  BY DEF Proceed, CGoto
<1>2. CallMaps /\ CallKept(t)
  BY DEF KInv
<1>3. cpc'[t] = place /\ \A s \in Call \ {t} : cpc'[s] = cpc[s]
  BY <1>1, <1>2 DEF CallMaps
<1>4. CallMaps'
  BY <1>1, <1>2 DEF CallMaps, MapOn
<1>5. AskedKept(t)'
  <2>1. cjob[t] \in CallJob /\ (cjob[t].op = "refresh" => cpc[cjob[t].given] = "answered")
    BY <1>2 DEF CallKept, AskedKept
  <2>2. cjob[t].op = "refresh" => cjob[t].given \in Call \ {t}
    BY <2>1 DEF CallJob
  <2> QED
    BY <1>1, <1>3, <2>1, <2>2 DEF AskedKept
<1>6. GrantKept(t)'
  <2>1. CASE HasRead(t) /\ place # "read"
    <3>1. Granted(grant[t]) /\ refresh'[t] \in {grant[t], NoEntry}
      BY <1>2, <2>1 DEF CallKept, GrantKept, HasRead
    <3>2. Granted(grant[t])'
      BY <1>1, <3>1 DEF Granted
    <3>3. refresh'[t] # NoEntry => Granted(refresh[t])'
      BY <1>1, <3>1 DEF Granted
    <3> QED
      BY <1>1, <1>3, <2>1, <3>1, <3>2, <3>3 DEF GrantKept, HasRead
  <2>2. CASE ~HasRead(t) /\ place = "read" /\ refresh' = refresh
    <3>1. refresh[t] = NoEntry
      BY <1>2, <2>2 DEF CallKept, GrantKept
    <3> QED
      BY <1>3, <2>2, <3>1 DEF GrantKept, HasRead
  <2> QED
    BY <2>1, <2>2
<1>7. ComparedKept(t)'
  <2>1. HasRead(t)' => HasRead(t)
    BY <1>3 DEF HasRead
  <2> QED
    BY <1>1, <1>2, <2>1 DEF CallKept, ComparedKept
<1>8. HolderKept(t)'
  BY <1>1, <1>2, <1>3 DEF CallKept, HolderKept, Holds, Serving
<1>9. AccessKept(t)'
  BY <1>1, <1>2, <1>3 DEF CallKept, AccessKept
<1> QED
  BY <1>1, <1>3, <1>4, <1>5, <1>6, <1>7, <1>8, <1>9, OthersKept DEF CallKept

(* A call begins, with the accounts that are there in view.                *)
LEMMA BeginTokens ==
    ASSUME KInv, NEW t \in Call, NEW j \in CallJob, CallBegin(t, j)
    PROVE  KInv'
<1> USE DEF accountVars, grantStore, store, users, locals
<1>1. /\ cpc[t] = "idle" /\ cpc' = [cpc EXCEPT ![t] = "resolve"]
      /\ cjob' = [cjob EXCEPT ![t] = j] /\ seen' = [seen EXCEPT ![t] = Holds]
      /\ j.op = "exchange" \/ cpc[j.given] = "answered"
      /\ UNCHANGED <<pc, job, live, acct, me, codes, refresh, grant, holder, access>>
  BY DEF CallBegin, CGoto
<1>2. CallMaps /\ CallKept(t) /\ CodesKept
  BY DEF KInv
<1>3. /\ cpc'[t] = "resolve" /\ cjob'[t] = j /\ seen'[t] = Holds
      /\ \A s \in Call \ {t} : cpc'[s] = cpc[s] /\ cjob'[s] = cjob[s] /\ seen'[s] = seen[s]
  BY <1>1, <1>2 DEF CallMaps, MapOn
<1>4. CallMaps' /\ CodesKept'
  BY <1>1, <1>2 DEF CallMaps, CodesKept, MapOn, Granted
<1>5. AskedKept(t)'
  <2>1. j.op = "refresh" => j.given \in Call \ {t} /\ cpc[j.given] = "answered"
    BY <1>1 DEF CallJob
  <2> QED
    BY <1>3, <2>1 DEF AskedKept
<1>6. GrantKept(t)'
  <2>1. refresh[t] = NoEntry
    BY <1>1, <1>2 DEF CallKept, GrantKept, HasRead
  <2> QED
    BY <1>1, <1>3, <2>1 DEF GrantKept, HasRead
<1>7. ComparedKept(t)' /\ AccessKept(t)'
  BY <1>1, <1>2, <1>3 DEF CallKept, ComparedKept, AccessKept, HasRead, HasCompared
<1>8. HolderKept(t)'
  BY <1>1, <1>2, <1>3 DEF CallKept, HolderKept, HasLooked, Holds
<1> QED
  BY <1>1, <1>3, <1>4, <1>5, <1>6, <1>7, <1>8, OthersKept DEF CallKept

(* What it reads goes back to who allowed it.                              *)
LEMMA ReadTokens ==
    ASSUME KInv, NEW t \in Call, ReadGrant(t), Record(t) # NoEntry
    PROVE  KInv'
<1> USE DEF accountVars, grantStore, store, users, locals
<1>1. PICK place \in {"take", "drop"} : cpc' = [cpc EXCEPT ![t] = place]
  BY DEF ReadGrant, CGoto
<1>2. /\ cpc[t] = "read" /\ grant' = [grant EXCEPT ![t] = Record(t)]
      /\ UNCHANGED <<pc, job, live, acct, me, codes, refresh, cjob, holder, seen, access>>
  BY DEF ReadGrant
<1>3. CallMaps /\ CallKept(t) /\ CodesKept
  BY DEF KInv
<1>4. cjob[t] \in CallJob
  BY <1>2, <1>3 DEF CallKept, AskedKept
<1>5. /\ Granted(Record(t))
      /\ cjob[t].op = "exchange" => Record(t).code = cjob[t].given
      /\ cjob[t].op = "refresh" => Record(t).user = access[cjob[t].given].user
  <2>1. CASE cjob[t].op = "exchange"
    <3>1. cjob[t].given \in Request /\ Record(t) = codes[cjob[t].given]
      BY <1>4, <2>1 DEF CallJob, Record
    <3> QED
      BY <1>3, <2>1, <3>1 DEF CodesKept
  <2>2. CASE cjob[t].op = "refresh"
    <3> DEFINE s == cjob[t].given
    <3>1. s \in Call /\ cpc[s] = "answered" /\ Record(t) = refresh[s]
      BY <1>2, <1>3, <1>4, <2>2 DEF CallKept, AskedKept, CallJob, Record
    <3>2. CallKept(s)
      BY <3>1 DEF KInv
    <3>3. Granted(refresh[s]) /\ refresh[s] = grant[s] /\ holder[s].id = grant[s].user
      BY <3>1, <3>2 DEF CallKept, GrantKept, HolderKept, HasLooked
    <3>4. access[s].user = holder[s].id
      BY <3>1, <3>2 DEF CallKept, AccessKept
    <3> QED
      BY <2>2, <3>1, <3>3, <3>4
  <2> QED
    BY <1>4, <2>1, <2>2 DEF CallJob
<1>6. /\ cpc'[t] = place /\ grant'[t] = Record(t)
      /\ \A s \in Call \ {t} : cpc'[s] = cpc[s] /\ grant'[s] = grant[s]
  BY <1>1, <1>2, <1>3 DEF CallMaps
<1>7. CallMaps' /\ CodesKept'
  <2>1. Record(t) \in GrantRecord
    BY <1>5 DEF Granted
  <2> HIDE DEF Record
  <2> QED
    BY <1>1, <1>2, <1>3, <2>1 DEF CallMaps, CodesKept, MapOn, Granted
<1>8. AskedKept(t)'
  <2>1. cjob[t].op = "refresh" => cpc[cjob[t].given] = "answered" /\ cjob[t].given \in Call \ {t}
    BY <1>2, <1>3, <1>4 DEF CallKept, AskedKept, CallJob
  <2> QED
    BY <1>2, <1>4, <1>6, <2>1 DEF AskedKept
<1>9. GrantKept(t)'
  <2>1. refresh[t] = NoEntry
    BY <1>2, <1>3 DEF CallKept, GrantKept, HasRead
  <2>2. PICK g : g = Record(t)
    OBVIOUS
  <2>3. Granted(g)'
    BY <1>2, <1>5, <2>2 DEF Granted
  <2> QED
    BY <1>2, <1>6, <2>1, <2>2, <2>3 DEF GrantKept, Granted
<1>10. ComparedKept(t)'
  BY <1>1, <1>2, <1>5, <1>6 DEF ComparedKept, HasRead, HasCompared
<1>11. HolderKept(t)' /\ AccessKept(t)'
  BY <1>1, <1>2, <1>3, <1>6 DEF CallKept, HolderKept, AccessKept, HasLooked, Holds, Serving
<1> QED
  BY <1>2, <1>6, <1>7, <1>8, <1>9, <1>10, <1>11, OthersKept DEF CallKept

(* The account it finds is there, with that role.                          *)
LEMMA LookTokens ==
    ASSUME KInv, NEW t \in Call, LookUpUser(t), grant[t].user \in live
    PROVE  KInv'
<1> USE DEF accountVars, grantStore, store, users, locals
<1> DEFINE u == grant[t].user
           found == [id |-> u, role |-> acct[u].role]
<1>1. PICK place : /\ place = (IF cjob[t].op = "exchange" THEN "issue" ELSE "reply")
                   /\ cpc' = [cpc EXCEPT ![t] = place]
  BY DEF LookUpUser, CGoto
<1>2. /\ cpc[t] = "user" /\ holder' = [holder EXCEPT ![t] = found]
      /\ UNCHANGED <<pc, job, live, acct, me, codes, refresh, cjob, grant, seen, access>>
  BY DEF LookUpUser
<1>3. CallMaps /\ CallKept(t) /\ CodesKept /\ PeopleKept
  BY DEF KInv
<1>4. u \in User /\ acct[u].role \in Role /\ <<u, acct[u].role>> \in seen[t]
  <2>1. Holds \subseteq seen[t]
    BY <1>2, <1>3 DEF CallKept, HolderKept, Serving
  <2> QED
    BY <1>3, <2>1 DEF PeopleKept, Holds
<1>5. place \in {"issue", "reply"} /\ (place = "issue" <=> cjob[t].op = "exchange")
  BY <1>1
<1>6. /\ cpc'[t] = place /\ holder'[t] = found
      /\ \A s \in Call \ {t} : cpc'[s] = cpc[s] /\ holder'[s] = holder[s]
  BY <1>1, <1>2, <1>3 DEF CallMaps, MapOn
<1>7. CallMaps' /\ CodesKept'
  BY <1>1, <1>2, <1>3, <1>5 DEF CallMaps, CodesKept, MapOn, Granted
<1>8. AskedKept(t)'
  <2>1. cjob[t] \in CallJob /\ (cjob[t].op = "refresh" => cpc[cjob[t].given] = "answered")
    BY <1>2, <1>3 DEF CallKept, AskedKept
  <2>2. cjob[t].op = "refresh" => cjob[t].given \in Call \ {t}
    BY <1>2, <2>1 DEF CallJob
  <2> QED
    BY <1>2, <1>6, <2>1, <2>2 DEF AskedKept
<1>9. GrantKept(t)'
  BY <1>2, <1>3, <1>5, <1>6 DEF CallKept, GrantKept, HasRead, Granted
<1>10. ComparedKept(t)'
  BY <1>2, <1>3, <1>5, <1>6 DEF CallKept, ComparedKept, HasRead, HasCompared
<1>11. HolderKept(t)'
  <2>1. found.id = u /\ found.role = acct[u].role /\ found = [id |-> found.id, role |-> found.role]
    OBVIOUS
  <2> HIDE DEF found
  <2>2. Holds' \subseteq seen'[t]
    BY <1>2, <1>3 DEF CallKept, HolderKept, Serving, Holds
  <2> QED
    BY <1>2, <1>4, <1>6, <2>1, <2>2 DEF HolderKept
<1>12. AccessKept(t)'
  BY <1>2, <1>3, <1>5, <1>6 DEF CallKept, AccessKept
<1> QED
  BY <1>2, <1>6, <1>7, <1>8, <1>9, <1>10, <1>11, <1>12, OthersKept DEF CallKept

(* The token that is signed.                                               *)
LEMMA ReplyTokens ==
    ASSUME KInv, NEW t \in Call, Reply(t)
    PROVE  KInv'
<1> USE DEF accountVars, grantStore, store, users, locals
<1> DEFINE token == [user |-> holder[t].id, role |-> holder[t].role,
                     client |-> grant[t].client, code |-> grant[t].code]
<1>1. /\ cpc[t] = "reply" /\ cpc' = [cpc EXCEPT ![t] = "answered"]
      /\ access' = [access EXCEPT ![t] = token]
      /\ UNCHANGED <<pc, job, live, acct, me, codes, refresh, cjob, grant, holder, seen>>
  BY DEF Reply, CGoto
<1>2. CallMaps /\ CallKept(t) /\ CodesKept
  BY DEF KInv
<1>3. /\ cpc'[t] = "answered" /\ access'[t] = token
      /\ \A s \in Call \ {t} : cpc'[s] = cpc[s] /\ access'[s] = access[s]
  BY <1>1, <1>2 DEF CallMaps, MapOn
<1>4. CallMaps' /\ CodesKept'
  BY <1>1, <1>2 DEF CallMaps, CodesKept, MapOn, Granted
<1>5. cjob[t].op = "refresh" => cjob[t].given \in Call \ {t} /\ cpc[cjob[t].given] = "answered"
  BY <1>1, <1>2 DEF CallKept, AskedKept, CallJob
<1>6. AskedKept(t)'
  BY <1>1, <1>2, <1>3, <1>5 DEF CallKept, AskedKept
<1>7. GrantKept(t)'
  BY <1>1, <1>2, <1>3 DEF CallKept, GrantKept, HasRead, Granted
<1>8. ComparedKept(t)'
  BY <1>1, <1>2, <1>3, <1>5 DEF CallKept, ComparedKept, HasRead, HasCompared
<1>9. HolderKept(t)'
  BY <1>1, <1>2, <1>3 DEF CallKept, HolderKept, HasLooked, Serving
<1>10. AccessKept(t)'
  BY <1>1, <1>3 DEF AccessKept
<1> QED
  BY <1>1, <1>3, <1>4, <1>6, <1>7, <1>8, <1>9, <1>10, OthersKept DEF CallKept

(* Whatever is left after a call took something from the stores.           *)
LEMMA TokensTaken ==
    ASSUME KInv, UNCHANGED <<pc, job>>, NEW s,
           refresh' = refresh \/ refresh' = [refresh EXCEPT ![s] = NoEntry]
    PROVE  /\ refresh' \in [Call -> GrantRecord \cup {NoEntry}]
           /\ \A t \in Call : refresh'[t] \in {refresh[t], NoEntry}
           /\ \A t \in Call : refresh'[t] # NoEntry => Granted(refresh'[t])
<1>1. /\ refresh' \in [Call -> GrantRecord \cup {NoEntry}]
      /\ \A t \in Call : refresh'[t] \in {refresh[t], NoEntry}
  BY DEF KInv, CallMaps
<1>2. \A t \in Call : refresh[t] # NoEntry => Granted(refresh[t])
  BY DEF KInv, CallKept, GrantKept
<1> QED
  BY <1>1, <1>2

(* A call that is lost with the stores as they are, or without a token.    *)
LEMMA LostTokens ==
    ASSUME KInv, NEW t \in Call, cpc[t] # "answered", Lose(t),
           UNCHANGED <<pc, job, live, acct, me>>,
           NEW q, codes' = codes \/ codes' = [codes EXCEPT ![q] = NoEntry],
           NEW s, refresh' = refresh \/ refresh' = [refresh EXCEPT ![s] = NoEntry]
    PROVE  KInv'
<1>1. codes' \in [Request -> GrantRecord \cup {NoEntry}] /\ CodesKept'
  BY CodesTaken
<1>2. /\ refresh' \in [Call -> GrantRecord \cup {NoEntry}]
      /\ \A u \in Call : refresh'[u] \in {refresh[u], NoEntry}
      /\ \A u \in Call : refresh'[u] # NoEntry => Granted(refresh'[u])
  BY TokensTaken
<1>3. PICK kept : kept = refresh'[t]
  OBVIOUS
<1>4. kept # NoEntry => Granted(kept)
  BY <1>2, <1>3
<1> QED
  BY <1>1, <1>2, LoseTokens

(* The client is known, or not.                                            *)
LEMMA ResolveTokens ==
    ASSUME KInv, NEW t \in Call, ResolveClient(t)
    PROVE  KInv'
<1> USE DEF accountVars, grantStore, store, users, locals
<1>1. cpc[t] = "resolve" /\ UNCHANGED <<pc, job, live, acct, me, codes, refresh>>
  BY DEF ResolveClient
<1>2. CASE Proceed(t, "read")
  <2>1. codes' \in [Request -> GrantRecord \cup {NoEntry}] /\ CodesKept'
    BY <1>1, CodesTaken
  <2>2. cpc'[t] = "read" /\ refresh' \in [Call -> GrantRecord \cup {NoEntry}]
    BY <1>1, <1>2 DEF Proceed, CGoto, KInv, CallMaps
  <2>3. ~HasRead(t) /\ ~HasCompared(t)' /\ ~HasLooked(t)'
    BY <1>1, <2>2 DEF HasRead, HasCompared, HasLooked
  <2> QED
    BY <1>1, <1>2, <2>1, <2>2, <2>3, ProceedTokens
<1>3. CASE Lose(t)
  BY <1>1, <1>3, LostTokens
<1> QED
  BY <1>2, <1>3 DEF ResolveClient

(* A code is taken, and compared.                                          *)
LEMMA TakeCodeTokens ==
    ASSUME KInv, NEW t \in Call, TakeCode(t)
    PROVE  KInv'
<1> USE DEF accountVars, grantStore, store, users, locals
<1>1. /\ cpc[t] = "take" /\ cjob[t].op = "exchange"
      /\ codes' = [codes EXCEPT ![cjob[t].given] = NoEntry]
      /\ UNCHANGED <<pc, job, live, acct, me, refresh>>
  BY DEF TakeCode
<1>2. CASE Mine(t) /\ Proceed(t, "user")
  <2>1. codes' \in [Request -> GrantRecord \cup {NoEntry}] /\ CodesKept'
    BY <1>1, CodesTaken
  <2>2. /\ cpc'[t] = "user" /\ cjob' = cjob
        /\ refresh' \in [Call -> GrantRecord \cup {NoEntry}]
    BY <1>1, <1>2 DEF Proceed, CGoto, KInv, CallMaps
  <2>3. HasRead(t) /\ ~HasLooked(t)'
    BY <1>1, <2>2 DEF HasRead, HasLooked
  <2> QED
    BY <1>1, <1>2, <2>1, <2>2, <2>3, ProceedTokens DEF Mine
<1>3. CASE Lose(t)
  BY <1>1, <1>3, LostTokens
<1> QED
  BY <1>2, <1>3 DEF TakeCode

(* A refresh token is taken, to be compared later.                         *)
LEMMA TakeTokenTokens ==
    ASSUME KInv, NEW t \in Call, TakeToken(t) \/ DropToken(t)
    PROVE  KInv'
<1> USE DEF accountVars, grantStore, store, users, locals
<1>1. /\ cpc[t] \in {"take", "drop"}
      /\ refresh' = [refresh EXCEPT ![cjob[t].given] = NoEntry]
      /\ UNCHANGED <<pc, job, live, acct, me, codes>>
  BY DEF TakeToken, DropToken
<1>2. CASE cjob[t].op = "refresh" /\ Proceed(t, "issue")
  <2>1. codes' \in [Request -> GrantRecord \cup {NoEntry}] /\ CodesKept'
    BY <1>1, CodesTaken
  <2>2. /\ refresh' \in [Call -> GrantRecord \cup {NoEntry}]
        /\ \A s \in Call : refresh'[s] \in {refresh[s], NoEntry}
    BY <1>1, TokensTaken
  <2>3. cpc'[t] = "issue" /\ cjob' = cjob
    BY <1>1, <1>2 DEF Proceed, CGoto, KInv, CallMaps
  <2>4. HasRead(t) /\ ~HasCompared(t)' /\ ~HasLooked(t)'
    BY <1>1, <1>2, <2>3 DEF HasRead, HasCompared, HasLooked
  <2> QED
    BY <1>1, <1>2, <2>1, <2>2, <2>4, ProceedTokens
<1>3. CASE Lose(t)
  BY <1>1, <1>3, LostTokens
<1> QED
  BY <1>2, <1>3 DEF TakeToken, DropToken

(* The next token is stored; of a refresh, the last is compared then.      *)
LEMMA IssueTokens ==
    ASSUME KInv, NEW t \in Call, Issue(t)
    PROVE  KInv'
<1> USE DEF accountVars, grantStore, store, users, locals
<1>1. /\ cpc[t] = "issue" /\ refresh' = [refresh EXCEPT ![t] = grant[t]]
      /\ UNCHANGED <<pc, job, live, acct, me, codes>>
  BY DEF Issue
<1>2. CallMaps /\ CallKept(t)
  BY DEF KInv
<1>3. HasRead(t) /\ Granted(grant[t])
  BY <1>1, <1>2 DEF CallKept, GrantKept, HasRead
<1>4. codes' \in [Request -> GrantRecord \cup {NoEntry}] /\ CodesKept'
  BY <1>1, CodesTaken
<1>5. /\ refresh' \in [Call -> GrantRecord \cup {NoEntry}] /\ refresh'[t] = grant[t]
      /\ \A s \in Call \ {t} : refresh'[s] = refresh[s]
  BY <1>1, <1>2 DEF CallMaps
<1>6. CASE cjob[t].op = "exchange" /\ Proceed(t, "reply")
  <2>1. HasCompared(t) /\ HasLooked(t)
    BY <1>1, <1>6 DEF HasCompared, HasLooked
  <2>2. grant[t].client = cjob[t].client /\ grant[t].redirect = cjob[t].redirect
    BY <1>2, <1>6, <2>1 DEF CallKept, ComparedKept
  <2> QED
    BY <1>1, <1>3, <1>4, <1>5, <1>6, <2>1, <2>2, ProceedTokens
<1>7. CASE cjob[t].op # "exchange" /\ Mine(t) /\ Proceed(t, "user")
  <2>1. cpc'[t] = "user"
    BY <1>2, <1>7 DEF Proceed, CGoto, CallMaps
  <2>2. ~HasLooked(t)'
    BY <2>1 DEF HasLooked
  <2> QED
    BY <1>1, <1>3, <1>4, <1>5, <1>7, <2>2, ProceedTokens DEF Mine
<1>8. CASE Lose(t)
  <2>1. PICK kept : kept = grant[t]
    OBVIOUS
  <2>2. refresh'[t] # NoEntry => Granted(refresh'[t])
    BY <1>3, <1>5, <2>1
  <2> QED
    BY <1>1, <1>4, <1>5, <1>8, <2>2, LoseTokens
<1> QED
  BY <1>6, <1>7, <1>8 DEF Issue

-----------------------------------------------------------------------------
(* At first nothing is allowed.                                            *)
LEMMA InitTokens == Init /\ GrantsInit => KInv
<1> SUFFICES ASSUME Init, GrantsInit PROVE KInv
  OBVIOUS
<1>1. PeopleKept
  <2>1. live \subseteq User /\ MapOn(User, acct)
    BY DEF Init, User, MapOn
  <2>2. \A u \in live : acct[u].role \in Role
    <3>1. \A u \in live : u \in Seed /\ acct[u] = SeedAccount(u)
      BY DEF Init, User
    <3>2. \A u : SeedAccount(u).role = "admin"
      BY DEF SeedAccount
    <3> QED
      BY <3>1, <3>2 DEF Role
  <2>3. MapOn(Request, pc) /\ MapOn(Request, job) /\ MapOn(Request, me)
    BY DEF Init, MapOn
  <2> QED
    BY <2>1, <2>2, <2>3 DEF PeopleKept
<1>2. ASSUME NEW q \in Request PROVE PageKept(q)
  <2>1. pc[q] = "idle" /\ me[q] = Nobody /\ job[q] = NoJob
    BY DEF Init
  <2> QED
    BY <2>1 DEF PageKept, Nobody
<1>3. CallMaps /\ CodesKept
  BY DEF GrantsInit, CallMaps, CodesKept, MapOn
<1>4. ASSUME NEW t \in Call PROVE CallKept(t)
  <2>1. /\ cpc[t] = "idle" /\ refresh[t] = NoEntry /\ holder[t] = Nobody /\ access[t] = NoEntry
    BY DEF GrantsInit
  <2>2. AskedKept(t) /\ GrantKept(t) /\ ComparedKept(t) /\ AccessKept(t)
    BY <2>1 DEF AskedKept, GrantKept, ComparedKept, AccessKept, HasRead, HasCompared
  <2>3. HolderKept(t)
    BY <2>1 DEF HolderKept, HasLooked, Serving, Nobody, Role
  <2> QED
    BY <2>2, <2>3 DEF CallKept
<1> QED
  BY <1>1, <1>2, <1>3, <1>4 DEF KInv

LEMMA TokensStep == KInv /\ [GrantsNext]_vars => KInv'
<1> SUFFICES ASSUME KInv, [GrantsNext]_vars PROVE KInv'
  OBVIOUS
<1> USE DEF accountVars, grantStore, store, users, locals
<1>1. CASE UNCHANGED vars
  <2>1. UNCHANGED <<pc, job, live, acct, me, codes, refresh, cjob, cpc, grant, holder, seen, access>>
    BY <1>1 DEF vars, callVars
  <2>2. PeopleKept' /\ (\A q \in Request : PageKept(q)') /\ CallMaps' /\ CodesKept'
    BY <2>1 DEF KInv, PeopleKept, PageKept, CallMaps, CodesKept, MapOn, Granted
  <2>3. ASSUME NEW t \in Call PROVE CallKept(t)'
    <3>1. CallKept(t)
      BY DEF KInv
    <3>2. AskedKept(t)' /\ GrantKept(t)'
      BY <2>1, <3>1 DEF CallKept, AskedKept, GrantKept, Granted, HasRead
    <3>3. ComparedKept(t)' /\ AccessKept(t)'
      BY <2>1, <3>1 DEF CallKept, ComparedKept, AccessKept, HasRead, HasCompared
    <3>4. HolderKept(t)'
      BY <2>1, <3>1 DEF CallKept, HolderKept, HasLooked, Serving, Holds
    <3> QED
      BY <3>2, <3>3, <3>4 DEF CallKept
  <2> QED
    BY <2>2, <2>3 DEF KInv
<1>2. CASE Browser
  BY <1>2, BrowserTokens
<1>3. ASSUME NEW t \in Call, TokenEndpoint(t) PROVE KInv'
  <2>1. CASE \E j \in CallJob : CallBegin(t, j)
    BY <2>1, BeginTokens
  <2>2. CASE ReadGrant(t)
    <3>1. CASE Record(t) = NoEntry
      <4>1. cpc[t] # "answered" /\ Lose(t) /\ UNCHANGED <<pc, job, live, acct, me, codes, refresh>>
        BY <2>2, <3>1 DEF ReadGrant
      <4> QED
        BY <4>1, LostTokens
    <3> QED
      BY <2>2, <3>1, ReadTokens
  <2>3. CASE LookUpUser(t)
    <3>1. CASE grant[t].user \notin live
      <4>1. cpc[t] # "answered" /\ Lose(t) /\ UNCHANGED <<pc, job, live, acct, me, codes, refresh>>
        BY <2>3, <3>1 DEF LookUpUser
      <4> QED
        BY <4>1, LostTokens
    <3> QED
      BY <2>3, <3>1, LookTokens
  <2>4. CASE CallFails(t)
    <3>1. cpc[t] # "answered" /\ Lose(t) /\ UNCHANGED <<pc, job, live, acct, me, codes, refresh>>
      BY <2>4 DEF CallFails
    <3> QED
      BY <3>1, LostTokens
  <2> QED
    BY <1>3, <2>1, <2>2, <2>3, <2>4, ResolveTokens, TakeCodeTokens, TakeTokenTokens,
       IssueTokens, ReplyTokens DEF TokenEndpoint
<1> QED
  BY <1>1, <1>2, <1>3 DEF GrantsNext

(* What an answer says of the token it carries.                            *)
LEMMA AnsweredTokens ==
    ASSUME KInv, NEW t \in Call, access[t] # NoEntry
    PROVE  /\ cpc[t] = "answered" /\ cjob[t] \in CallJob
           /\ Granted(grant[t]) /\ HasRead(t) /\ HasCompared(t) /\ HasLooked(t)
           /\ access[t].user = holder[t].id /\ access[t].role = holder[t].role
           /\ access[t].client = grant[t].client /\ access[t].code = grant[t].code
           /\ holder[t].id = grant[t].user /\ access[t] \in AccessToken
<1>1. CallKept(t)
  BY DEF KInv
<1>2. cpc[t] = "answered"
  BY <1>1 DEF CallKept, AccessKept
<1>3. HasRead(t) /\ HasCompared(t) /\ HasLooked(t)
  BY <1>2 DEF HasRead, HasCompared, HasLooked
<1>4. cjob[t] \in CallJob /\ Granted(grant[t])
  BY <1>1, <1>2, <1>3 DEF CallKept, AskedKept, GrantKept
<1>5. access[t] = [user |-> holder[t].id, role |-> holder[t].role,
                   client |-> grant[t].client, code |-> grant[t].code]
  BY <1>1, <1>2 DEF CallKept, AccessKept
<1>6. holder[t].id = grant[t].user /\ holder[t].role \in Role
  BY <1>1, <1>3 DEF CallKept, HolderKept
<1>7. access[t] \in AccessToken
  BY <1>4, <1>5, <1>6 DEF Granted, GrantRecord, AccessToken
<1> QED
  BY <1>2, <1>3, <1>4, <1>5, <1>6, <1>7

(* Whoever sends a code or a refresh token, at whatever times and however  *)
(* often, the access token it gets names the account that allowed it and   *)
(* the client it allowed, at a host this client registered.                *)
THEOREM TokensStayAllowed == GrantsSpec => []TokensAreAllowed
<1>1. ASSUME KInv PROVE TokensAreAllowed
  <2>1. GrantsTypeOK
    <3>1. holder \in [Call -> [id : User \cup {NoUser}, role : Role]]
      <4>1. \A t \in Call : /\ holder[t].id \in User \cup {NoUser} /\ holder[t].role \in Role
                            /\ holder[t] = [id |-> holder[t].id, role |-> holder[t].role]
        BY <1>1 DEF KInv, CallKept, HolderKept
      <4>2. \A t \in Call : holder[t] \in [id : User \cup {NoUser}, role : Role]
        <5> TAKE t \in Call
        <5>1. PICK i \in User \cup {NoUser}, r \in Role : holder[t] = [id |-> i, role |-> r]
          BY <4>1
        <5> QED
          BY <5>1
      <4> QED
        BY <1>1, <4>2 DEF KInv, CallMaps, MapOn
    <3>2. access \in [Call -> AccessToken \cup {NoEntry}]
      <4>1. \A t \in Call : access[t] \in AccessToken \cup {NoEntry}
        BY <1>1, AnsweredTokens
      <4> QED
        BY <1>1, <4>1 DEF KInv, CallMaps, MapOn
    <3> QED
      BY <1>1, <3>1, <3>2 DEF KInv, CallMaps, GrantsTypeOK
  <2>2. ASSUME NEW t \in Call, access[t] # NoEntry
        PROVE  LET q == access[t].code IN
               /\ access[t].client = job[q].client
               /\ access[t].client = cjob[t].client
               /\ \E pattern \in Pattern[access[t].client] : PlaceMatches(job[q].redirect, pattern)
               /\ cjob[t].op = "exchange" => cjob[t].given = q /\ cjob[t].redirect = job[q].redirect
               /\ cjob[t].op = "refresh" => access[t].user = access[cjob[t].given].user
    <3>1. /\ Granted(grant[t]) /\ HasRead(t) /\ HasCompared(t)
          /\ access[t].user = holder[t].id /\ holder[t].id = grant[t].user
          /\ access[t].client = grant[t].client /\ access[t].code = grant[t].code
      BY <1>1, <2>2, AnsweredTokens
    <3>2. ComparedKept(t)
      BY <1>1 DEF KInv, CallKept
    <3> QED
      BY <3>1, <3>2 DEF ComparedKept, Granted
  <2> QED
    BY <2>1, <2>2 DEF TokensAreAllowed
<1> QED
  BY <1>1, InitTokens, TokensStep, PTL DEF GrantsSpec

(* However the accounts change meanwhile, an access token carries a role   *)
(* its account had, while it was there, at some moment of the call.        *)
THEOREM TokensStayCurrent == GrantsSpec => []TokensAreCurrent
<1>1. ASSUME KInv PROVE TokensAreCurrent
  <2> SUFFICES ASSUME NEW t \in Call, access[t] # NoEntry
               PROVE  <<access[t].user, access[t].role>> \in seen[t]
    BY DEF TokensAreCurrent
  <2>1. HasLooked(t) /\ access[t].user = holder[t].id /\ access[t].role = holder[t].role
    BY <1>1, AnsweredTokens
  <2>2. HolderKept(t)
    BY <1>1 DEF KInv, CallKept
  <2> QED
    BY <2>1, <2>2 DEF HolderKept
<1> QED
  BY <1>1, InitTokens, TokensStep, PTL DEF GrantsSpec

=============================================================================
