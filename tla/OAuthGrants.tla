---------------------------- MODULE OAuthGrants ----------------------------
(***************************************************************************)
(* The authorization server of the web tier (web/lib/oauth.ts,             *)
(* web/routes/auth/oauth): a signed-in account allows a client, the client *)
(* exchanges the code it got for an access token and a refresh token and   *)
(* the refresh token, later, for the next pair.  It shares the store with  *)
(* Accounts, whose handlers go on beside it.                               *)
(*                                                                         *)
(* The authorize page is a browser's request like those of Accounts; calls *)
(* of the token endpoint carry no cookie and are requests of their own.  A *)
(* code is named after the request that made it, tokens after the call.    *)
(* There is no clock: whatever looks at a record may find it too old.      *)
(***************************************************************************)
EXTENDS Accounts

CONSTANTS
    Client,      \* client_ids
    Redirect,    \* redirect URIs: [host, path, port], the host with its scheme
    Pattern,     \* the URIs each client registered, which may have stars in them
    HostsOf,     \* the hosts a pattern's host stands for: itself, *.x, *
    PathsOf,     \* the paths a pattern's path stands for
    NoPort,      \* a URI without a port
    AnyPort,     \* a pattern with a star for its port
    Loopback,    \* the hosts that are the user's own machine
    Call,        \* the calls of the token endpoint
    MaxCalls     \* bound: calls served at the same time

ASSUME CallAssumption == Call \cap Request = {} /\ NoEntry \notin Call
ASSUME MaxCallsAssumption == MaxCalls \in Nat

VARIABLES
    codes,       \* ["oauth_codes", code]
    refresh,     \* ["oauth_refresh_tokens", token]
    cjob,        \* what a call asks
    cpc,         \* the await its handler is at
    grant,       \* the record it read and redeemed
    holder,      \* the account and role it looked up
    seen,        \* accounts with the roles they had since the call began
    access       \* the access token in its answer

grantStore == <<codes, refresh>>
callVars == <<cjob, cpc, grant, holder, seen, access>>
vars == <<accountVars, grantStore, callVars>>

AuthorizeJob == [op : {"authorize"}, client : Client, redirect : Redirect]

CallJob ==
    [op : {"exchange"}, given : Request, client : Client, redirect : Redirect]
      \cup [op : {"refresh"}, given : Call, client : Client]

GrantsInit ==
    /\ codes = [q \in Request |-> NoEntry]
    /\ refresh = [t \in Call |-> NoEntry]
    /\ cjob = [t \in Call |-> NoJob]
    /\ cpc = [t \in Call |-> "idle"]
    /\ grant = [t \in Call |-> NoEntry]
    /\ holder = [t \in Call |-> Nobody]
    /\ seen = [t \in Call |-> {}]
    /\ access = [t \in Call |-> NoEntry]

-----------------------------------------------------------------------------
(* The authorize page.                                                     *)

(* hostMatches() and pathMatches().                                        *)
PlaceMatches(uri, pattern) ==
    uri.host \in HostsOf[pattern.host] /\ uri.path \in PathsOf[pattern.path]

(* redirectUriMatches(): a loopback URI registered without a port may come *)
(* with any, since a native client listens where it can.                   *)
RedirectMatches(uri, pattern) ==
    /\ PlaceMatches(uri, pattern)
    /\ CASE pattern.port = AnyPort -> TRUE
         [] pattern.port = NoPort -> pattern.host \in Loopback \/ uri.port = NoPort
         [] OTHER -> uri.port = pattern.port

(* resolveClientAndRedirect() and the other refusals of the page: the user *)
(* is not signed in, or does not allow it.                                 *)
ResolveForPage(q) ==
    /\ pc[q] = "handle"
    /\ job[q].op = "authorize"
    /\ \/ /\ \E pattern \in Pattern[job[q].client] : RedirectMatches(job[q].redirect, pattern)
          /\ me[q].id # NoUser
          /\ Goto(q, "createCode")
          /\ UNCHANGED <<locals, answer>>
       \/ Finish(q, "refused")
    /\ UNCHANGED <<store, grantStore>>

CreateAuthorizationCode(q) ==
    /\ pc[q] = "createCode"
    /\ codes' = [codes EXCEPT ![q] = [user |-> me[q].id, client |-> job[q].client,
                                      redirect |-> job[q].redirect, code |-> q]]
    /\ Finish(q, "ok")
    /\ UNCHANGED <<store, refresh>>

Authorize(q) ==
    /\ \/ \E j \in AuthorizeJob, c \in Cookie : Begin(q, j, c) /\ UNCHANGED grantStore
       \/ ResolveForPage(q)
       \/ CreateAuthorizationCode(q)

-----------------------------------------------------------------------------
(* The token endpoint.                                                     *)

Serving(t) == cpc[t] \notin {"idle", "answered", "lost"}

CGoto(t, place) == cpc' = [cpc EXCEPT ![t] = place]

Holds == {<<u, acct[u].role>> : u \in live}

(* A client sends a code or a refresh token it was given: again, perhaps,  *)
(* when the answer got lost, or under another one of its ids.              *)
CallBegin(t, j) ==
    /\ cpc[t] = "idle"
    /\ Cardinality({s \in Call : Serving(s)}) < MaxCalls
    /\ IF j.op = "exchange"
       THEN answer[j.given] = "ok" /\ job[j.given].op = "authorize"
       ELSE cpc[j.given] = "answered"
    /\ cjob' = [cjob EXCEPT ![t] = j]
    /\ seen' = [seen EXCEPT ![t] = Holds]
    /\ CGoto(t, "resolve")
    /\ UNCHANGED <<accountVars, grantStore, grant, holder, access>>

(* The answer is an error, or never arrives; locals are gone.              *)
Lose(t) ==
    /\ CGoto(t, "lost")
    /\ cjob' = [cjob EXCEPT ![t] = NoJob]
    /\ grant' = [grant EXCEPT ![t] = NoEntry]
    /\ holder' = [holder EXCEPT ![t] = Nobody]
    /\ seen' = [seen EXCEPT ![t] = {}]
    /\ UNCHANGED access

Proceed(t, place) == CGoto(t, place) /\ UNCHANGED <<cjob, grant, holder, seen, access>>

(* resolveClient(): the record of a registered client, or the document a   *)
(* client publishes, if it is not cached and cannot be had.                *)
ResolveClient(t) ==
    /\ cpc[t] = "resolve"
    /\ Proceed(t, "read") \/ Lose(t)
    /\ UNCHANGED <<accountVars, grantStore>>

Record(t) == IF cjob[t].op = "exchange" THEN codes[cjob[t].given] ELSE refresh[cjob[t].given]

(* The first read of consumeAuthorizationCode() and redeemRefreshToken(),  *)
(* which is content with deleting a token that is too old.                 *)
ReadGrant(t) ==
    /\ cpc[t] = "read"
    /\ IF Record(t) = NoEntry
       THEN Lose(t)
       ELSE /\ grant' = [grant EXCEPT ![t] = Record(t)]
            /\ \/ CGoto(t, "take")
               \/ cjob[t].op = "refresh" /\ CGoto(t, "drop")
            /\ UNCHANGED <<cjob, holder, seen, access>>
    /\ UNCHANGED <<accountVars, grantStore>>

DropToken(t) ==
    /\ cpc[t] = "drop"
    /\ refresh' = [refresh EXCEPT ![cjob[t].given] = NoEntry]
    /\ Lose(t)
    /\ UNCHANGED <<accountVars, codes>>

AnyClient(t) == TRUE    \* mutant: the client_id is not compared

(* What the caller sends is what the code or the token was issued for.     *)
Mine(t) ==
    /\ grant[t].client = cjob[t].client
    /\ cjob[t].op = "exchange" => grant[t].redirect = cjob[t].redirect

TakeCodeUnchecked(t) ==    \* mutant: the code is deleted, not checked and deleted
    /\ cpc[t] = "take"
    /\ cjob[t].op = "exchange"
    /\ codes' = [codes EXCEPT ![cjob[t].given] = NoEntry]
    /\ \/ Mine(t) /\ Proceed(t, "user")
       \/ Lose(t)
    /\ UNCHANGED <<accountVars, refresh>>

(* A code is redeemed before anything in it is looked at: its age, then    *)
(* the client, the redirect URI and the verifier, which may not fit.       *)
TakeCode(t) ==
    /\ cpc[t] = "take"
    /\ cjob[t].op = "exchange"
    /\ codes' = [codes EXCEPT ![cjob[t].given] = NoEntry]
    /\ \/ Record(t) # NoEntry /\ Mine(t) /\ Proceed(t, "user")
       \/ Lose(t)
    /\ UNCHANGED <<accountVars, refresh>>

TakeToken(t) ==
    /\ cpc[t] = "take"
    /\ cjob[t].op = "refresh"
    /\ refresh' = [refresh EXCEPT ![cjob[t].given] = NoEntry]
    /\ IF Record(t) # NoEntry THEN Proceed(t, "issue") ELSE Lose(t)
    /\ UNCHANGED <<accountVars, codes>>

(* issueRefreshToken(): redeemRefreshToken() calls it before the client    *)
(* and the account are looked at, the exchange of a code at its end.       *)
Issue(t) ==
    /\ cpc[t] = "issue"
    /\ refresh' = [refresh EXCEPT ![t] = grant[t]]
    /\ IF cjob[t].op = "exchange"
       THEN Proceed(t, "reply")
       ELSE IF Mine(t) THEN Proceed(t, "user") ELSE Lose(t)
    /\ UNCHANGED <<accountVars, codes>>

RoleOfGrant(t) ==    \* mutant: a refresh keeps the role the last token had
    /\ cpc[t] = "user"
    /\ IF grant[t].user \in live
       THEN /\ holder' = [holder EXCEPT ![t] =
                  [id |-> grant[t].user,
                   role |-> IF cjob[t].op = "refresh" THEN access[cjob[t].given].role
                            ELSE acct[grant[t].user].role]]
            /\ CGoto(t, IF cjob[t].op = "exchange" THEN "issue" ELSE "reply")
            /\ UNCHANGED <<cjob, grant, seen, access>>
       ELSE Lose(t)
    /\ UNCHANGED <<accountVars, grantStore>>

(* The account is looked up and the access token signed with its role.     *)
LookUpUser(t) ==
    /\ cpc[t] = "user"
    /\ IF grant[t].user \in live
       THEN /\ holder' = [holder EXCEPT ![t] = [id |-> grant[t].user,
                                                role |-> acct[grant[t].user].role]]
            /\ CGoto(t, IF cjob[t].op = "exchange" THEN "issue" ELSE "reply")
            /\ UNCHANGED <<cjob, grant, seen, access>>
       ELSE Lose(t)
    /\ UNCHANGED <<accountVars, grantStore>>

Reply(t) ==
    /\ cpc[t] = "reply"
    /\ CGoto(t, "answered")
    /\ access' = [access EXCEPT ![t] = [user |-> holder[t].id, role |-> holder[t].role,
                                        client |-> grant[t].client, code |-> grant[t].code]]
    /\ UNCHANGED <<accountVars, grantStore, cjob, grant, holder, seen>>

(* The process stops, or the answer does not arrive.                       *)
CallFails(t) ==
    /\ cpc[t] \in {"issue", "user", "reply"}
    /\ Lose(t)
    /\ UNCHANGED <<accountVars, grantStore>>

-----------------------------------------------------------------------------

TokenEndpoint(t) ==
    \/ \E j \in CallJob : CallBegin(t, j)
    \/ ResolveClient(t) \/ ReadGrant(t) \/ TakeCode(t) \/ TakeToken(t)
    \/ DropToken(t) \/ Issue(t) \/ LookUpUser(t) \/ Reply(t) \/ CallFails(t)

(* What the handlers of Accounts do meanwhile is seen by the calls.        *)
Browser ==
    /\ \/ Next /\ UNCHANGED grantStore
       \/ \E q \in Request : Authorize(q)
    /\ seen' = [t \in Call |-> IF Serving(t)
                               THEN seen[t] \cup {<<u, acct'[u].role>> : u \in live'}
                               ELSE seen[t]]
    /\ UNCHANGED <<cjob, cpc, grant, holder, access>>

GrantsNext ==
    \/ Browser
    \/ \E t \in Call : TokenEndpoint(t)

GrantsSpec == Init /\ GrantsInit /\ [][GrantsNext]_vars

-----------------------------------------------------------------------------
(* Properties.                                                             *)

GrantRecord == [user : User, client : Client, redirect : Redirect, code : Request]
AccessToken == [user : User, role : Role, client : Client, code : Request]

GrantsTypeOK ==
    /\ codes \in [Request -> GrantRecord \cup {NoEntry}]
    /\ refresh \in [Call -> GrantRecord \cup {NoEntry}]
    /\ cjob \in [Call -> CallJob \cup {NoJob}]
    /\ cpc \in [Call -> {"idle", "resolve", "read", "take", "drop", "user", "issue", "reply",
                         "answered", "lost"}]
    /\ grant \in [Call -> GrantRecord \cup {NoEntry}]
    /\ holder \in [Call -> [id : User \cup {NoUser}, role : Role]]
    /\ access \in [Call -> AccessToken \cup {NoEntry}]

(* A call has redeemed its grant and not put the next token in the store.  *)
Carries(t, code) ==
    /\ grant[t] # NoEntry
    /\ grant[t].code = code
    /\ \/ cpc[t] = "issue"
       \/ cpc[t] = "user" /\ cjob[t].op = "exchange"

(* Where the right to the next tokens of an authorization is.              *)
Tokens(code) == {t \in Call : refresh[t] # NoEntry /\ refresh[t].code = code}
Carriers(code) == {t \in Call : Carries(t, code)}

(* However often a code or a token is sent and at whatever times, the      *)
(* right to go on is in one place at most: the code, one refresh token, or *)
(* one call that is about to store the next.                               *)
GrantNeverForks ==
    \A q \in Request :
      /\ codes[q] # NoEntry => codes[q].code = q
      /\ codes[q] # NoEntry => Tokens(q) = {} /\ Carriers(q) = {}
      /\ \A s, t \in Call :
           /\ s \in Tokens(q) /\ t \in Tokens(q) => s = t
           /\ s \in Carriers(q) /\ t \in Carriers(q) => s = t
           /\ ~(s \in Tokens(q) /\ t \in Carriers(q))

(* An access token names the account that allowed it and the client it was *)
(* allowed for, whoever sent the code or the token, and that client        *)
(* registered the place the code was sent to.                              *)
TokensAreAllowed ==
    /\ GrantsTypeOK
    /\ \A t \in Call :
         access[t] # NoEntry =>
           LET q == access[t].code IN
           /\ access[t].client = job[q].client
           /\ access[t].client = cjob[t].client
           /\ \E pattern \in Pattern[access[t].client] : PlaceMatches(job[q].redirect, pattern)
           /\ cjob[t].op = "exchange" => cjob[t].given = q /\ cjob[t].redirect = job[q].redirect
           /\ cjob[t].op = "refresh" => access[t].user = access[cjob[t].given].user

(* The account of an access token was there, with the role the token       *)
(* names, at some moment of the call it answers: a refresh renews the role *)
(* and ends with the account.                                              *)
TokensAreCurrent ==
    \A t \in Call : access[t] # NoEntry => <<access[t].user, access[t].role>> \in seen[t]

=============================================================================
