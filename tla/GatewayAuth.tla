---------------------------- MODULE GatewayAuth ----------------------------
(***************************************************************************)
(* The authentication half of the gateway (gateway/auth.go, token.go,      *)
(* store.go): accounts, refresh-token rows, and the requests the HTTP      *)
(* server runs concurrently.  A request is a goroutine; pc names the store *)
(* call it makes next, so other requests interleave between any two calls. *)
(* What the two stores do differently (consuming a token, failing,         *)
(* restarting) is in PgSessions and MemSessions, which extend this module. *)
(*                                                                         *)
(* A token stands for its SHA-256 digest as well: newRefreshToken draws    *)
(* 256 random bits, so a token is never drawn twice ("issued" below).      *)
(***************************************************************************)
EXTENDS Integers, FiniteSets

CONSTANTS User,         \* accounts, one per normalised e-mail address
          Token,        \* the refresh tokens newRefreshToken may draw
          Request,      \* slots for requests in flight at once
          RefreshTTL,   \* lifetime of a refresh token, in clock ticks
          MaxTime,      \* bound: the clock stops here
          NoUser, NoToken

ASSUME TTLAssumption == RefreshTTL \in Nat /\ MaxTime \in Nat
ASSUME SentinelAssumption ==
  /\ NoUser \notin User /\ NoToken \notin Token
  /\ Token \cap Request = {}
  /\ {"unopened", "ended"} \cap (Token \cup Request) = {}

VARIABLES now,       \* the wall clock
          accounts,  \* the users table
          status,    \* refresh_tokens.revoked, or "none": there is no row
          owner,     \* refresh_tokens.user_id
          expires,   \* refresh_tokens.expires_at
          family,    \* history: the sign-in a token descends from
          marks,     \* history: what has been done with a token
          req        \* per request: next store call, user, token, expiresAt

rows == <<status, owner, expires, family, marks>>
vars == <<now, accounts, rows, req>>

Mark == {"consumed", "reused"}

\* A request in flight; stamp is the expiry it has read or computed.
Pending(pc, u, t, stamp) == [pc |-> pc, user |-> u, token |-> t, stamp |-> stamp]
Idle == Pending("idle", NoUser, NoToken, 0)

\* Tokens that exist or existed: a purged row keeps its family.
Issued == {t \in Token : family[t] # NoToken}

LiveTokens(f) == {t \in Issued : family[t] = f /\ status[t] = "live"}

\* A request that has claimed a token of its session and not yet stored the
\* next one: it holds the session's only credential.
Holding(r) == /\ req[r].token # NoToken
              /\ req[r].pc \in {"claimed", "issue", "store"}

Holders(f) == {r \in Request : Holding(r) /\ family[req[r].token] = f}

Dead(f) == LiveTokens(f) = {} /\ Holders(f) = {}

AuthInit ==
  /\ now = 0 /\ accounts = {}
  /\ status = [t \in Token |-> "none"]
  /\ owner = [t \in Token |-> NoUser]
  /\ expires = [t \in Token |-> 0]
  /\ family = [t \in Token |-> NoToken]
  /\ marks = [t \in Token |-> {}]
  /\ req = [r \in Request |-> Idle]

----------------------------------------------------------------------------
\* The unique e-mail makes the existence check and the insert one.
CreateUser(u) == u \notin accounts /\ accounts' = accounts \cup {u}

Register(r, u) ==
  /\ req[r].pc = "idle" /\ CreateUser(u)
  /\ req' = [req EXCEPT ![r] = Pending("issue", u, NoToken, 0)]
  /\ UNCHANGED <<now, rows>>

\* The right password.  A wrong one changes nothing.
Authenticate(u) == u \in accounts

Login(r, u) ==
  /\ req[r].pc = "idle" /\ Authenticate(u)
  /\ req' = [req EXCEPT ![r] = Pending("issue", u, NoToken, 0)]
  /\ UNCHANGED <<now, accounts, rows>>

\* issueSession up to its store call: expiresAt is fixed before the call.
Issue(r) ==
  /\ req[r].pc = "issue"
  /\ req' = [req EXCEPT ![r] = Pending("store", req[r].user, req[r].token,
                                       now + RefreshTTL)]
  /\ UNCHANGED <<now, accounts, rows>>

\* 256 random bits: none that was drawn before.
newRefreshToken == Token \ Issued

\* Mutant: the request repeats an insert that has succeeded.
StoreTokenRepeated(r, t) ==
  /\ req[r].pc = "store" /\ t \in newRefreshToken
  /\ status' = [status EXCEPT ![t] = "live"]
  /\ owner' = [owner EXCEPT ![t] = req[r].user]
  /\ expires' = [expires EXCEPT ![t] = req[r].stamp]
  /\ family' = [family EXCEPT ![t] = IF req[r].token = NoToken
                                     THEN t ELSE family[req[r].token]]
  /\ UNCHANGED <<now, accounts, marks, req>>

\* StoreRefreshToken, after which the reply carries the new pair.  The token
\* continues the session of the claimed one, or opens a session of its own.
StoreToken(r, t) ==
  /\ req[r].pc = "store" /\ t \in newRefreshToken
  /\ status' = [status EXCEPT ![t] = "live"]
  /\ owner' = [owner EXCEPT ![t] = req[r].user]
  /\ expires' = [expires EXCEPT ![t] = req[r].stamp]
  /\ family' = [family EXCEPT ![t] = IF req[r].token = NoToken
                                     THEN t ELSE family[req[r].token]]
  /\ req' = [req EXCEPT ![r] = Idle]
  /\ UNCHANGED <<now, accounts, marks>>

\* logout: RevokeRefreshToken is one statement, whoever sends the token.  It
\* changes nothing for a token that is not live; the answer is 200 all the same.
Logout(t) ==
  /\ status[t] = "live"
  /\ status' = [status EXCEPT ![t] = "revoked"]
  /\ UNCHANGED <<now, accounts, owner, expires, family, marks, req>>

\* RevokeAllForUser.
RevokedFor(u) == [t \in Token |-> IF owner[t] = u /\ status[t] = "live"
                                  THEN "revoked" ELSE status[t]]

Tick ==
  /\ now < MaxTime /\ now' = now + 1
  /\ UNCHANGED <<accounts, rows, req>>

AuthNext ==
  \/ \E r \in Request, u \in User : Register(r, u) \/ Login(r, u)
  \/ \E r \in Request : Issue(r)
  \/ \E r \in Request, t \in Token : StoreToken(r, t)
  \/ \E t \in Token : Logout(t)
  \/ Tick

----------------------------------------------------------------------------
TypeOK ==
  /\ now \in 0..MaxTime /\ accounts \subseteq User
  /\ status \in [Token -> {"none", "live", "revoked"}]
  /\ owner \in [Token -> User \cup {NoUser}]
  /\ expires \in [Token -> Nat]
  /\ family \in [Token -> Token \cup {NoToken}]
  /\ marks \in [Token -> SUBSET Mark]
  /\ req \in [Request -> [pc : {"idle", "claimed", "lookup", "revoke", "issue", "store"},
                          user : User \cup {NoUser},
                          token : Token \cup {NoToken}, stamp : Nat]]
  /\ \A r \in Request : req[r].pc = "lookup" => req[r].token \in Token

\* A sign-in session has one credential: either one live refresh token, or one
\* request that has consumed it and will store the next.  This is what the
\* atomic claim of ConsumeRefreshToken is for ("exactly one wins"): two
\* refreshes with one token must never fork the session into two.
OneCredential ==
  \A f \in Token :
    /\ \A t, u \in LiveTokens(f) : t = u
    /\ \A r, s \in Holders(f) : r = s
    /\ LiveTokens(f) = {} \/ Holders(f) = {}

\* What makes OneCredential inductive: only issued tokens are live, a holder's
\* token has been issued, and the token a session began with is its own family.
SessionInv ==
  /\ TypeOK
  /\ \A t \in Token \ Issued : status[t] # "live"
  /\ \A r \in Request : Holding(r) => req[r].token \in Issued
  /\ \A t \in Issued : family[family[t]] = family[t]
  /\ OneCredential

\* A live token that stops being live (rotation, sign-out, reuse, purge) is in
\* the hands of the one request that claimed it, or its session is over: no
\* sibling token and no request in flight can carry the session on.
WithdrawalIsFinal ==
  [][\A t \in Token : status[t] = "live" /\ status'[t] # "live" =>
       \/ Dead(family[t])'
       \/ \E r \in Request : Holding(r)' /\ req'[r].token = t]_vars

\* "Revoke the whole session family so neither party keeps a live token"
\* (store_postgres.go:157, auth_test.go:272): once reuse was answered for a
\* token, its session has no live token.
NoLiveAfterReuse ==
  \A t \in Issued : "reused" \in marks[t] => LiveTokens(family[t]) = {}

----------------------------------------------------------------------------
\* The credential of each session, as SessionLedger sees it.
credential ==
  [f \in Token |->
     CASE family[f] # f -> "unopened"
       [] family[f] = f /\ LiveTokens(f) # {} -> CHOOSE t \in LiveTokens(f) : TRUE
       [] family[f] = f /\ LiveTokens(f) = {} /\ Holders(f) # {} ->
            CHOOSE r \in Holders(f) : TRUE
       [] OTHER -> "ended"]

Ledger == INSTANCE SessionLedger WITH
  Session <- Token, Unopened <- "unopened", Ended <- "ended",
  credential <- credential, issued <- Issued
LedgerSpec == Ledger!Spec
============================================================================
