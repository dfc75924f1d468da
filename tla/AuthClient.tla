---------------------------- MODULE AuthClient -----------------------------
(***************************************************************************)
(* The browser's side of a session: AuthProvider.tsx, auth.ts,             *)
(* session-storage.ts and authedFetch of api.ts.  Tabs share localStorage  *)
(* and tell each other of changes by storage events; in each tab at most   *)
(* one refresh is in flight, shared by the calls that wait for it.  A      *)
(* JavaScript turn (from one await to the next) is one step.               *)
(*                                                                         *)
(* The gateway is seen through its replies: a refresh either rotates the   *)
(* token or, if the token is spent, ends every session of its owner.  What *)
(* happens inside it is PgSessions' subject.                               *)
(***************************************************************************)
EXTENDS Integers, FiniteSets

CONSTANTS Tab, User, Call,
          MaxToken,  \* bound: refresh tokens the gateway issues
          NoUser

ASSUME ClientAssumption == MaxToken \in Nat /\ Tab # {}
ASSUME NoUserAssumption == NoUser \notin User

VARIABLES calm,     \* chosen at the start: one tab, nothing is lost or reloaded,
                    \* and nobody signs in or out while a refresh is under way
          store,    \* localStorage: the refresh token saved, or 0
          mem,      \* per tab: sessionRef.current, by its refresh token
          event,    \* per tab: a storage event waits to be delivered
          flight,   \* per tab: refreshInFlight
          signing,  \* per tab: a login or register call
          outbox,   \* messages nobody waits for: logouts, refreshes of lost pages
          call,     \* API calls: tab, phase, the user making it, and of the retry
          last, owner, alive, \* the gateway: tokens issued, whose, which are live
          reuse     \* history: the gateway has answered "reuse"

client == <<calm, store, mem, event, flight, signing, outbox, call>>
server == <<last, owner, alive, reuse>>
vars == <<client, server>>

Tokens == 1..MaxToken
Off == [phase |-> "off", token |-> 0, user |-> NoUser]
NoCall == [tab |-> CHOOSE t \in Tab : TRUE, phase |-> "done",
           user |-> NoUser, as |-> NoUser]

\* The tabs that are open, one of them in a calm session.
Open == IF calm THEN {CHOOSE t \in Tab : TRUE} ELSE Tab

Init ==
  /\ calm \in BOOLEAN
  /\ store = 0 /\ last = 0 /\ alive = {} /\ outbox = {} /\ reuse = FALSE
  /\ mem = [t \in Tab |-> 0] /\ event = [t \in Tab |-> FALSE]
  /\ flight = [t \in Tab |-> Off] /\ signing = [t \in Tab |-> Off]
  /\ call = [c \in Call |-> NoCall]
  /\ owner = [k \in Tokens |-> NoUser]

\* Enough tokens are left for every request under way: where the bound cuts.
CanIssue ==
  last + Cardinality({t \in Tab : flight[t].phase = "sent"})
       + Cardinality({t \in Tab : signing[t].phase = "sent"})
       + Cardinality(outbox) < MaxToken

----------------------------------------------------------------------------
\* What is stored now, whichever tab has stored it.
loadSession == store

\* Mutant: the stored session is left as it was.
AdoptUnsaved(t, token) ==
  /\ mem' = [mem EXCEPT ![t] = token]
  /\ UNCHANGED <<store, event>>

\* saveSession, or clearSession for 0: the other tabs are told of it if the
\* stored value changes.
SaveSession(t, token) ==
  /\ store' = token
  /\ event' = [s \in Tab |-> event[s] \/ (s # t /\ store # token)]

\* setBoth, and what is stored follows.
Adopt(t, token) == mem' = [mem EXCEPT ![t] = token] /\ SaveSession(t, token)

SignIn(t, u) ==
  /\ mem[t] = 0 /\ signing[t] = Off /\ CanIssue
  /\ calm => flight[t] = Off
  /\ signing' = [signing EXCEPT ![t] = [phase |-> "sent", token |-> 0, user |-> u]]
  /\ UNCHANGED <<calm, store, mem, event, flight, outbox, call, server>>

SignInReply(t) ==
  /\ signing[t].phase = "ok"
  /\ Adopt(t, signing[t].token)
  /\ signing' = [signing EXCEPT ![t] = Off]
  /\ UNCHANGED <<calm, flight, outbox, call, server>>

\* The error is shown; the form stays.  Served after that, it would issue a token
\* that nobody holds, as it does if only the answer is lost.
SignInFails(t) ==
  /\ ~ calm /\ signing[t] # Off
  /\ signing' = [signing EXCEPT ![t] = Off]
  /\ UNCHANGED <<calm, store, mem, event, flight, outbox, call, server>>

\* Mutant: the token to revoke is read after the session has been cleared.
SignOutTooLate(t) ==
  /\ mem[t] # 0 /\ (calm => flight[t] = Off)
  /\ Adopt(t, 0)
  /\ outbox' = outbox \cup {[kind |-> "logout", token |-> mem'[t]]}
  /\ UNCHANGED <<calm, flight, signing, call, server>>

SignOut(t) ==
  /\ mem[t] # 0 /\ (calm => flight[t] = Off)
  /\ Adopt(t, 0)
  /\ outbox' = outbox \cup {[kind |-> "logout", token |-> mem[t]]}
  /\ UNCHANGED <<calm, flight, signing, call, server>>

\* The storage listener reads what is stored now, not what the event says.
StorageEvent(t) ==
  /\ event[t]
  /\ mem' = [mem EXCEPT ![t] = loadSession]
  /\ event' = [event EXCEPT ![t] = FALSE]
  /\ UNCHANGED <<calm, store, flight, signing, outbox, call, server>>

\* Mutant: the refresh in flight is not joined.
RefreshingAlone(t) ==
  /\ CanIssue
  /\ flight' = [flight EXCEPT ![t] =
                  [phase |-> "sent", token |-> mem[t], user |-> NoUser]]

\* refresh, from the renewal timer or a 401: join the one in flight or send it.
Refreshing(t) ==
  IF flight[t] # Off THEN UNCHANGED flight
  ELSE /\ CanIssue
       /\ flight' = [flight EXCEPT ![t] =
                       [phase |-> "sent", token |-> mem[t], user |-> NoUser]]

RenewTimer(t) ==
  /\ mem[t] # 0 /\ flight[t] = Off /\ Refreshing(t)
  /\ UNCHANGED <<calm, store, mem, event, signing, outbox, call, server>>

\* Mutant: nobody is told that the refresh has ended.
SettleNobody(t, phase, u) == call

\* The calls of this tab that wait for the refresh go on, as the user u.
Settle(t, phase, u) ==
  [c \in Call |-> IF call[c].tab = t /\ call[c].phase = "waiting"
                  THEN [tab |-> t, phase |-> phase, user |-> call[c].user, as |-> u]
                  ELSE call[c]]

\* Mutant: the new session is used for the retry and then forgotten.
RefreshReplyForgotten(t) ==
  /\ flight[t].phase = "ok"
  /\ flight' = [flight EXCEPT ![t] = Off]
  /\ call' = Settle(t, "retried", owner[flight[t].token])
  /\ UNCHANGED <<calm, store, mem, event, signing, outbox, server>>

RefreshReply(t) ==
  /\ flight[t].phase = "ok"
  /\ Adopt(t, flight[t].token)
  /\ flight' = [flight EXCEPT ![t] = Off]
  /\ call' = Settle(t, "retried", owner[flight[t].token])
  /\ UNCHANGED <<calm, signing, outbox, server>>

\* Any failure drops the session, whatever its reason.
RefreshFails(t) ==
  /\ flight[t].phase = "denied" \/ (~ calm /\ flight[t] # Off)
  /\ Adopt(t, 0)
  /\ flight' = [flight EXCEPT ![t] = Off]
  /\ outbox' = IF flight[t].phase = "sent"
               THEN outbox \cup {[kind |-> "refresh", token |-> flight[t].token]}
               ELSE outbox
  /\ call' = Settle(t, "done", NoUser)
  /\ UNCHANGED <<calm, signing, server>>

\* A page load: the stored session is adopted, and what was in flight in the
\* old page is answered to nobody.
Reload(t) ==
  /\ ~ calm
  /\ mem' = [mem EXCEPT ![t] = loadSession]
  /\ event' = [event EXCEPT ![t] = FALSE]
  /\ flight' = [flight EXCEPT ![t] = Off]
  /\ signing' = [signing EXCEPT ![t] = Off]
  /\ outbox' = IF flight[t].phase = "sent"
               THEN outbox \cup {[kind |-> "refresh", token |-> flight[t].token]}
               ELSE outbox
  /\ call' = [c \in Call |-> IF call[c].tab = t THEN NoCall ELSE call[c]]
  /\ UNCHANGED <<calm, store, server>>

----------------------------------------------------------------------------
\* authedFetch: a call, its first answer, and the retry after a refresh.
Fetch(c, t) ==
  /\ call[c].phase = "done" /\ mem[t] # 0
  /\ call' = [call EXCEPT ![c] = [tab |-> t, phase |-> "sent",
                                    user |-> owner[mem[t]], as |-> NoUser]]
  /\ UNCHANGED <<calm, store, mem, event, flight, signing, outbox, server>>

\* Not a 401, or the answer to the retry, whatever it is.
Answered(c) ==
  /\ call[c].phase \in {"sent", "retried"}
  /\ call' = [call EXCEPT ![c] = NoCall]
  /\ UNCHANGED <<calm, store, mem, event, flight, signing, outbox, server>>

\* A 401: the access token has expired.  Signed out meanwhile: no refresh.
Unauthorized(c) ==
  /\ call[c].phase = "sent"
  /\ IF mem[call[c].tab] = 0
     THEN call' = [call EXCEPT ![c] = NoCall] /\ UNCHANGED flight
     ELSE call' = [call EXCEPT ![c].phase = "waiting"] /\ Refreshing(call[c].tab)
  /\ UNCHANGED <<calm, store, mem, event, signing, outbox, server>>

----------------------------------------------------------------------------
\* The gateway.
Issue(u) ==
  /\ last < MaxToken /\ last' = last + 1
  /\ owner' = [owner EXCEPT ![last + 1] = u]

Consume(token) ==
  IF token \in alive
  THEN /\ Issue(owner[token]) /\ alive' = (alive \ {token}) \cup {last + 1}
       /\ UNCHANGED reuse
  ELSE /\ alive' = {k \in alive : owner[k] # owner[token]}
       /\ reuse' = TRUE /\ UNCHANGED <<last, owner>>

ServeSignIn(t) ==
  /\ signing[t].phase = "sent" /\ Issue(signing[t].user)
  /\ alive' = alive \cup {last + 1}
  /\ signing' = [signing EXCEPT ![t] =
                   [phase |-> "ok", token |-> last + 1, user |-> signing[t].user]]
  /\ UNCHANGED <<calm, store, mem, event, flight, outbox, call, reuse>>

ServeRefresh(t) ==
  /\ flight[t].phase = "sent" /\ Consume(flight[t].token)
  /\ flight' = [flight EXCEPT ![t] =
       IF flight[t].token \in alive
       THEN [phase |-> "ok", token |-> last + 1, user |-> NoUser]
       ELSE [@ EXCEPT !.phase = "denied"]]
  /\ UNCHANGED <<calm, store, mem, event, signing, outbox, call>>

\* A request nobody waits for is served, or lost.
ServeUnawaited(m) ==
  /\ outbox' = outbox \ {m}
  /\ \/ m.kind = "logout" /\ alive' = alive \ {m.token} /\ UNCHANGED <<last, owner, reuse>>
     \/ m.kind = "refresh" /\ Consume(m.token)
     \/ ~ calm /\ UNCHANGED server
  /\ UNCHANGED <<calm, store, mem, event, flight, signing, call>>

Next ==
  \/ \E t \in Open : \/ \E u \in User : SignIn(t, u)
                    \/ SignInFails(t) \/ SignOut(t) \/ RenewTimer(t)
                    \/ RefreshFails(t) \/ Reload(t)
                    \/ SignInReply(t) \/ StorageEvent(t) \/ RefreshReply(t)
                    \/ ServeSignIn(t) \/ ServeRefresh(t)
  \/ \E c \in Call : \/ \E t \in Open : Fetch(c, t)
                     \/ Answered(c) \/ Unauthorized(c)
  \/ \E m \in outbox : ServeUnawaited(m)

\* The gateway serves a request it has received, the browser delivers a reply,
\* and fetch settles; a request that gets lost fails.
Fairness ==
  /\ \A t \in Tab : /\ WF_vars(ServeRefresh(t)) /\ WF_vars(RefreshReply(t))
                    /\ WF_vars(flight[t].phase = "denied" /\ RefreshFails(t))
  /\ \A c \in Call : WF_vars(Answered(c))
Spec == Init /\ [][Next]_vars
FairSpec == Spec /\ Fairness

----------------------------------------------------------------------------
TypeOK ==
  LET Phase == {"off", "sent", "ok", "denied"}
      Request == [phase : Phase, token : 0..MaxToken, user : User \cup {NoUser}]
  IN
  /\ store \in 0..MaxToken /\ mem \in [Tab -> 0..MaxToken]
  /\ event \in [Tab -> BOOLEAN] /\ flight \in [Tab -> Request]
  /\ signing \in [Tab -> Request] /\ last \in 0..MaxToken /\ reuse \in BOOLEAN
  /\ outbox \subseteq [kind : {"logout", "refresh"}, token : Tokens]
  /\ call \in [Call -> [tab : Tab, phase : {"done", "sent", "waiting", "retried"},
                        user : User \cup {NoUser}, as : User \cup {NoUser}]]
  /\ owner \in [Tokens -> User \cup {NoUser}] /\ alive \subseteq 1..last

\* "Signing out in one tab should sign out the others, and signing in should
\* propagate too" (AuthProvider.tsx:115): a tab whose session is not the stored
\* one has a storage event coming.
TabsConverge == \A t \in Tab : mem[t] # store => event[t]

\* "A single in-flight refresh shared by every caller", so that none is
\* "rejected as reuse, logging the user out" (AuthProvider.tsx:54): a session
\* used by its owner only never looks stolen.
NoFalseReuse == calm => ~ reuse

\* A signed-in tab can go on: its token is live, or the token that replaces it
\* is live and on its way to the tab.
KeepsCredential ==
  calm => \A t \in Tab : mem[t] # 0 =>
    mem[t] \in alive \/ (flight[t].phase = "ok" /\ flight[t].token \in alive)

\* Every API call comes to an end: one that waits for a refresh, its own or one
\* it has joined, is retried or given up, whatever happens to the session.
CallsSettle == \A c \in Call : call[c].phase # "done" ~> call[c].phase = "done"

\* "The local session is cleared regardless" (auth.ts:55): the reply to a
\* refresh does not sign a tab in that has been signed out.
SignOutHolds ==
  [][\A t \in Tab : mem[t] = 0 /\ mem'[t] # 0 => flight'[t] = flight[t]]_vars
============================================================================
