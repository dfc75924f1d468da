------------------------- MODULE AuthClientProofs --------------------------
(***************************************************************************)
(* That the tabs of a browser converge and that a session used by its      *)
(* owner only is never taken for stolen, for any number of tabs, accounts, *)
(* calls and tokens.                                                       *)
(***************************************************************************)
EXTENDS AuthClient, TLAPS

\* The tab of a calm session.
Tab0 == CHOOSE t \in Tab : TRUE

\* A request in flight has the token it presents, an answer the one it brings.
HasToken ==
  \A t \in Tab : /\ flight[t].phase \in {"sent", "ok", "denied"} => flight[t].token # 0
                 /\ signing[t].phase = "ok" => signing[t].token # 0

\* In a calm session nobody but one tab acts, and it hears of nothing.
Alone ==
  /\ ~ reuse /\ ~ event[Tab0]
  /\ \A t \in Tab \ {Tab0} : mem[t] = 0 /\ flight[t] = Off /\ signing[t] = Off
  /\ \A c \in Call : call[c].phase # "done" => call[c].tab = Tab0

\* Its one credential is with it, or with the answer it waits for.
Held ==
  LET f == flight[Tab0]
      s == signing[Tab0]
  IN
  /\ f.phase # "denied" /\ s.phase # "denied"
  /\ f.phase = "off" => f = Off /\ (mem[Tab0] = 0 \/ mem[Tab0] \in alive)
  /\ f.phase = "sent" => f.token = mem[Tab0] /\ mem[Tab0] \in alive
  /\ f.phase = "ok" => f.token \in alive
  /\ s.phase = "off" => s = Off
  /\ s # Off => mem[Tab0] = 0 /\ f = Off
  /\ s.phase = "ok" => s.token \in alive

\* And no request that goes on without the tab presents it.
Unclaimed ==
  \A m \in outbox :
    /\ m.kind = "logout" /\ m.token <= last
    /\ flight[Tab0].phase # "ok" => m.token # mem[Tab0]
    /\ flight[Tab0].phase # "off" => m.token # flight[Tab0].token
    /\ signing[Tab0].phase = "ok" => m.token # signing[Tab0].token

\* What makes NoFalseReuse and KeepsCredential inductive.
CalmInv == calm => Alone /\ Held /\ Unclaimed

ClientInv == TypeOK /\ HasToken /\ TabsConverge /\ CalmInv

Request == [phase : {"off", "sent", "ok", "denied"}, token : 0..MaxToken,
            user : User \cup {NoUser}]
Stored == store \in 0..MaxToken /\ mem \in [Tab -> 0..MaxToken] /\ event \in [Tab -> BOOLEAN]
Gateway ==
  /\ last \in 0..MaxToken /\ reuse \in BOOLEAN
  /\ owner \in [Tokens -> User \cup {NoUser}] /\ alive \subseteq 1..last
Calls ==
  call \in [Call -> [tab : Tab, phase : {"done", "sent", "waiting", "retried"},
                    user : User \cup {NoUser}, as : User \cup {NoUser}]]
Unawaited == outbox \subseteq [kind : {"logout", "refresh"}, token : Tokens]

\* TypeOK in the parts that the steps change together.
LEMMA TypeParts ==
  TypeOK <=> /\ Stored /\ Gateway /\ Calls /\ Unawaited
             /\ flight \in [Tab -> Request] /\ signing \in [Tab -> Request]
BY DEF TypeOK, Stored, Gateway, Calls, Unawaited, Request

LEMMA InitClient == Init => ClientInv
<1> SUFFICES ASSUME Init PROVE ClientInv
  OBVIOUS
<1> USE ClientAssumption
<1>1. Off \in Request /\ Off.phase = "off"
  BY DEF Off, Request
<1>2. NoCall \in [tab : Tab, phase : {"done", "sent", "waiting", "retried"},
                 user : User \cup {NoUser}, as : User \cup {NoUser}] /\ NoCall.phase = "done"
  BY DEF NoCall
<1>3. Stored /\ Gateway /\ Unawaited
  <2>1. Stored
    BY DEF Init, Stored
  <2>2. Gateway
    <3>1. last = 0 /\ reuse = FALSE /\ alive = {} /\ owner = [k \in Tokens |-> NoUser]
      BY DEF Init
    <3>2. last \in 0..MaxToken /\ alive \subseteq 1..last
      BY <3>1
    <3> QED BY <3>1, <3>2 DEF Gateway
  <2> QED BY <2>1, <2>2 DEF Init, Unawaited
<1>4. Calls
  BY <1>2 DEF Init, Calls
<1>5. flight \in [Tab -> Request] /\ signing \in [Tab -> Request]
  BY <1>1 DEF Init
<1>6. TypeOK
  BY <1>3, <1>4, <1>5, TypeParts
<1>7. Tab0 \in Tab
  BY DEF Tab0
<1>8. HasToken /\ TabsConverge
  BY <1>1 DEF Init, HasToken, TabsConverge
<1>9. CalmInv
  BY <1>1, <1>2, <1>7 DEF Init, CalmInv, Alone, Held, Unclaimed
<1> QED BY <1>6, <1>8, <1>9 DEF ClientInv

\* Tabs and localStorage: only these three things are done to them.
StoredStep ==
  \/ UNCHANGED <<store, mem, event>>
  \/ \E t \in Tab, token \in 0..MaxToken : Adopt(t, token)
  \/ \E t \in Tab : /\ mem' = [mem EXCEPT ![t] = store]
                    /\ event' = [event EXCEPT ![t] = FALSE] /\ store' = store

LEMMA StoredSteps ==
  ASSUME TypeOK, HasToken, [Next]_vars
  PROVE  StoredStep
<1>1. ASSUME NEW t \in Tab, SignInReply(t) \/ RefreshReply(t) PROVE StoredStep
  <2>1. flight[t].token \in 0..MaxToken /\ signing[t].token \in 0..MaxToken
    BY TypeParts DEF Request
  <2> QED BY <1>1, <2>1 DEF StoredStep, SignInReply, RefreshReply
<1>2. ASSUME NEW t \in Tab, SignOut(t) \/ RefreshFails(t) PROVE StoredStep
  BY <1>2, ClientAssumption DEF StoredStep, SignOut, RefreshFails
<1>3. ASSUME NEW t \in Tab, StorageEvent(t) \/ Reload(t) PROVE StoredStep
  BY <1>3 DEF StoredStep, StorageEvent, Reload, loadSession
<1>4. ASSUME NEW t \in Tab,
             \/ \E u \in User : SignIn(t, u)
             \/ SignInFails(t) \/ RenewTimer(t) \/ ServeSignIn(t) \/ ServeRefresh(t)
      PROVE  StoredStep
  BY <1>4 DEF StoredStep, SignIn, SignInFails, RenewTimer, ServeSignIn, ServeRefresh
<1>5. ASSUME NEW c \in Call, Answered(c) \/ Unauthorized(c) \/ \E t \in Tab : Fetch(c, t)
      PROVE  StoredStep
  BY <1>5 DEF StoredStep, Answered, Unauthorized, Fetch
<1>6. ASSUME NEW m \in outbox, ServeUnawaited(m) PROVE StoredStep
  BY <1>6 DEF StoredStep, ServeUnawaited
<1>7. CASE UNCHANGED vars
  BY <1>7 DEF StoredStep, vars, client
<1>8. Open \subseteq Tab
  BY ClientAssumption DEF Open
<1>9. CASE \E t \in Open : \/ \E u \in User : SignIn(t, u)
                          \/ SignInFails(t) \/ SignOut(t) \/ RenewTimer(t)
                          \/ RefreshFails(t) \/ Reload(t)
                          \/ SignInReply(t) \/ StorageEvent(t) \/ RefreshReply(t)
                          \/ ServeSignIn(t) \/ ServeRefresh(t)
  BY <1>1, <1>2, <1>3, <1>4, <1>8, <1>9
<1>10. CASE \E c \in Call : \/ \E t \in Open : Fetch(c, t)
                           \/ Answered(c) \/ Unauthorized(c)
  BY <1>5, <1>8, <1>10
<1>11. CASE Next
  BY <1>6, <1>9, <1>10, <1>11 DEF Next
<1> QED BY <1>7, <1>11

LEMMA StoredKeeps ==
  ASSUME TypeOK, HasToken, TabsConverge, [Next]_vars
  PROVE  Stored' /\ TabsConverge'
<1>1. Stored
  BY TypeParts
<1>2. CASE UNCHANGED <<store, mem, event>>
  BY <1>1, <1>2 DEF Stored, TabsConverge
<1>3. ASSUME NEW t \in Tab, NEW token \in 0..MaxToken, Adopt(t, token)
      PROVE  Stored' /\ TabsConverge'
  <2>1. /\ mem' = [mem EXCEPT ![t] = token] /\ store' = token
        /\ event' = [s \in Tab |-> event[s] \/ (s # t /\ store # token)]
    BY <1>3 DEF Adopt, SaveSession
  <2>2. Stored'
    BY <1>1, <2>1 DEF Stored
  <2>3. ASSUME NEW s \in Tab, mem'[s] # store' PROVE event'[s]
    <3>1. s # t /\ mem[s] # token
      BY <1>1, <2>1, <2>3 DEF Stored
    <3> QED BY <2>1, <3>1 DEF TabsConverge
  <2> QED BY <2>2, <2>3 DEF TabsConverge
<1>4. ASSUME NEW t \in Tab, mem' = [mem EXCEPT ![t] = store],
             event' = [event EXCEPT ![t] = FALSE], store' = store
      PROVE  Stored' /\ TabsConverge'
  BY <1>1, <1>4 DEF Stored, TabsConverge
<1> QED BY <1>2, <1>3, <1>4, StoredSteps DEF StoredStep

----------------------------------------------------------------------------
\* What the gateway does to its own state.

LEMMA IssueTyped ==
  ASSUME Gateway, NEW u \in User \cup {NoUser}, Issue(u),
         reuse' \in BOOLEAN, alive' \subseteq alive \cup {last + 1}
  PROVE  Gateway' /\ last + 1 \in Tokens
<1> USE ClientAssumption
<1>1. last + 1 \in Tokens /\ last' = last + 1
  BY DEF Gateway, Issue, Tokens
<1>2. owner' \in [Tokens -> User \cup {NoUser}]
  BY <1>1 DEF Gateway, Issue
<1>3. alive' \subseteq 1..last' /\ last' \in 0..MaxToken
  BY <1>1 DEF Gateway, Tokens
<1> QED BY <1>1, <1>2, <1>3 DEF Gateway

LEMMA ConsumeTyped ==
  ASSUME Gateway, NEW token \in Tokens, Consume(token)
  PROVE  Gateway' /\ (token \in alive => last + 1 \in Tokens)
<1>1. CASE token \in alive
  <2>1. owner[token] \in User \cup {NoUser}
    BY DEF Gateway
  <2> QED BY <1>1, <2>1, IssueTyped DEF Consume, Gateway
<1>2. CASE token \notin alive
  BY <1>2 DEF Consume, Gateway
<1> QED BY <1>1, <1>2

LEMMA SettleTyped ==
  ASSUME Calls, NEW t \in Tab, NEW phase \in {"done", "retried"},
         NEW u \in User \cup {NoUser}, call' = Settle(t, phase, u)
  PROVE  Calls'
<1>1. ASSUME NEW c \in Call
      PROVE  call'[c] \in [tab : Tab, phase : {"done", "sent", "waiting", "retried"},
                           user : User \cup {NoUser}, as : User \cup {NoUser}]
  BY DEF Calls, Settle
<1> QED BY <1>1 DEF Calls, Settle

\* What the steps change besides localStorage and the tabs' copies of it.
Rest ==
  /\ Gateway /\ Calls /\ Unawaited /\ HasToken
  /\ flight \in [Tab -> Request] /\ signing \in [Tab -> Request]

\* The refresh of one tab that is sent, answered or over.
LEMMA FlightTyped ==
  ASSUME Rest, NEW t \in Tab, NEW r \in Request, r # Off => r.token # 0,
         flight' = [flight EXCEPT ![t] = r], UNCHANGED signing
  PROVE  /\ HasToken' /\ flight' \in [Tab -> Request] /\ signing' \in [Tab -> Request]
<1>1. flight' \in [Tab -> Request] /\ signing' \in [Tab -> Request]
  BY DEF Rest
<1>2. ASSUME NEW s \in Tab, flight'[s].phase \in {"sent", "ok", "denied"}
      PROVE  flight'[s].token # 0
  BY <1>2 DEF Rest, HasToken, Off
<1> QED BY <1>1, <1>2 DEF Rest, HasToken

LEMMA SigningTyped ==
  ASSUME Rest, NEW t \in Tab, NEW r \in Request, r.phase = "ok" => r.token # 0,
         signing' = [signing EXCEPT ![t] = r], UNCHANGED flight
  PROVE  /\ HasToken' /\ flight' \in [Tab -> Request] /\ signing' \in [Tab -> Request]
<1>1. flight' \in [Tab -> Request] /\ signing' \in [Tab -> Request]
  BY DEF Rest
<1>2. ASSUME NEW s \in Tab, signing'[s].phase = "ok" PROVE signing'[s].token # 0
  BY <1>2 DEF Rest, HasToken
<1> QED BY <1>1, <1>2 DEF Rest, HasToken

LEMMA RestKeeps ==
  ASSUME TypeOK, HasToken, [Next]_vars
  PROVE  Rest'
<1> USE ClientAssumption
<1>1. Rest /\ Stored
  BY TypeParts DEF Rest
<1>2. Off \in Request /\ Open \subseteq Tab
  BY DEF Off, Request, Open
<1>3. NoCall \in [tab : Tab, phase : {"done", "sent", "waiting", "retried"},
                 user : User \cup {NoUser}, as : User \cup {NoUser}]
  BY DEF NoCall
<1>4. ASSUME NEW t \in Tab PROVE mem[t] \in 0..MaxToken /\ (mem[t] # 0 => mem[t] \in Tokens)
  BY <1>1 DEF Stored, Tokens
<1>5. ASSUME NEW t \in Tab
      PROVE  /\ flight[t] \in Request /\ signing[t] \in Request
             /\ flight[t].phase \in {"sent", "ok", "denied"} => flight[t].token \in Tokens
  BY <1>1 DEF Rest, HasToken, Request, Tokens
<1>6. ASSUME NEW t \in Tab, mem[t] # 0, Refreshing(t), UNCHANGED signing
      PROVE  HasToken' /\ flight' \in [Tab -> Request] /\ signing' \in [Tab -> Request]
  <2>1. CASE flight[t] # Off
    BY <1>1, <1>6, <2>1 DEF Refreshing, Rest, HasToken
  <2>2. CASE flight[t] = Off
    <3> DEFINE r == [phase |-> "sent", token |-> mem[t], user |-> NoUser]
    <3>1. r \in Request /\ r.token # 0
      BY <1>4, <1>6 DEF Request
    <3> QED BY <1>1, <1>6, <2>2, <3>1, FlightTyped DEF Refreshing
  <2> QED BY <2>1, <2>2
<1>7. ASSUME NEW t \in Tab, NEW u \in User, SignIn(t, u) PROVE Rest'
  <2> DEFINE r == [phase |-> "sent", token |-> 0, user |-> u]
  <2>1. r \in Request /\ r.phase # "ok"
    BY DEF Request
  <2>2. HasToken' /\ flight' \in [Tab -> Request] /\ signing' \in [Tab -> Request]
    BY <1>1, <1>7, <2>1, SigningTyped DEF SignIn
  <2> QED BY <1>1, <1>7, <2>2 DEF SignIn, Rest, Gateway, Calls, Unawaited, server
<1>8. ASSUME NEW t \in Tab, SignInReply(t) \/ SignInFails(t) PROVE Rest'
  <2>1. signing' = [signing EXCEPT ![t] = Off] /\ UNCHANGED <<flight, call, server>>
        /\ UNCHANGED outbox
    BY <1>8 DEF SignInReply, SignInFails
  <2>2. HasToken' /\ flight' \in [Tab -> Request] /\ signing' \in [Tab -> Request]
    BY <1>1, <1>2, <2>1, SigningTyped DEF Off
  <2> QED BY <1>1, <2>1, <2>2 DEF Rest, Gateway, Calls, Unawaited, server
<1>9. ASSUME NEW t \in Tab, SignOut(t) PROVE Rest'
  <2>1. Unawaited'
    BY <1>1, <1>4, <1>9 DEF SignOut, Rest, Unawaited
  <2> QED BY <1>1, <1>9, <2>1 DEF SignOut, Rest, Gateway, Calls, HasToken, server
<1>10. ASSUME NEW t \in Tab, StorageEvent(t) PROVE Rest'
  BY <1>1, <1>10 DEF StorageEvent, Rest, Gateway, Calls, Unawaited, HasToken, server
<1>11. ASSUME NEW t \in Tab, RenewTimer(t) PROVE Rest'
  BY <1>1, <1>6, <1>11 DEF RenewTimer, Rest, Gateway, Calls, Unawaited, server
<1>12. ASSUME NEW t \in Tab, RefreshReply(t) PROVE Rest'
  <2>1. HasToken' /\ flight' \in [Tab -> Request] /\ signing' \in [Tab -> Request]
    BY <1>1, <1>2, <1>12, FlightTyped DEF RefreshReply
  <2>2. owner[flight[t].token] \in User \cup {NoUser}
    BY <1>1, <1>5, <1>12 DEF RefreshReply, Rest, Gateway
  <2>3. Calls'
    BY <1>1, <1>12, <2>2, SettleTyped DEF RefreshReply, Rest
  <2> QED BY <1>1, <1>12, <2>1, <2>3 DEF RefreshReply, Rest, Gateway, Unawaited, server
<1>13. ASSUME NEW t \in Tab, RefreshFails(t) PROVE Rest'
  <2>1. HasToken' /\ flight' \in [Tab -> Request] /\ signing' \in [Tab -> Request]
    BY <1>1, <1>2, <1>13, FlightTyped DEF RefreshFails
  <2>2. Unawaited'
    BY <1>1, <1>5, <1>13 DEF RefreshFails, Rest, Unawaited
  <2>3. Calls'
    BY <1>1, <1>13, SettleTyped DEF RefreshFails, Rest
  <2> QED BY <1>1, <1>13, <2>1, <2>2, <2>3 DEF RefreshFails, Rest, Gateway, server
<1>14. ASSUME NEW t \in Tab, Reload(t) PROVE Rest'
  <2>1. HasToken' /\ flight' \in [Tab -> Request] /\ signing' \in [Tab -> Request]
    BY <1>1, <1>2, <1>14 DEF Reload, Rest, HasToken, Off
  <2>2. Unawaited'
    BY <1>1, <1>5, <1>14 DEF Reload, Rest, Unawaited
  <2>3. Calls'
    BY <1>1, <1>3, <1>14 DEF Reload, Rest, Calls
  <2> QED BY <1>1, <1>14, <2>1, <2>2, <2>3 DEF Reload, Rest, Gateway, server
<1>15. ASSUME NEW c \in Call, Answered(c) PROVE Rest'
  BY <1>1, <1>3, <1>15 DEF Answered, Rest, Gateway, Calls, Unawaited, HasToken, server
<1>16. ASSUME NEW c \in Call, NEW t \in Tab, Fetch(c, t) PROVE Rest'
  <2>1. owner[mem[t]] \in User \cup {NoUser}
    BY <1>1, <1>4, <1>16 DEF Fetch, Rest, Gateway
  <2>2. Calls'
    BY <1>1, <1>16, <2>1 DEF Fetch, Rest, Calls
  <2> QED BY <1>1, <1>16, <2>2 DEF Fetch, Rest, Gateway, Unawaited, HasToken, server
<1>17. ASSUME NEW c \in Call, Unauthorized(c) PROVE Rest'
  <2>1. call[c].tab \in Tab
    BY <1>1 DEF Rest, Calls
  <2>2. HasToken' /\ flight' \in [Tab -> Request] /\ signing' \in [Tab -> Request]
    <3>1. CASE mem[call[c].tab] = 0
      BY <1>1, <1>17, <3>1 DEF Unauthorized, Rest, HasToken
    <3>2. CASE mem[call[c].tab] # 0
      BY <1>6, <1>17, <2>1, <3>2 DEF Unauthorized
    <3> QED BY <3>1, <3>2
  <2>3. Calls'
    BY <1>1, <1>3, <1>17 DEF Unauthorized, Rest, Calls
  <2> QED BY <1>1, <1>17, <2>2, <2>3 DEF Unauthorized, Rest, Gateway, Unawaited, server
<1>18. ASSUME NEW t \in Tab, ServeSignIn(t) PROVE Rest'
  <2>1. signing[t].user \in User \cup {NoUser}
    BY <1>5 DEF Request
  <2>2. Gateway' /\ last + 1 \in Tokens
    BY <1>1, <1>18, <2>1, IssueTyped DEF ServeSignIn, Rest, Gateway
  <2> DEFINE r == [phase |-> "ok", token |-> last + 1, user |-> signing[t].user]
  <2>3. r \in Request /\ r.token # 0
    BY <1>5, <2>2 DEF Request, Tokens
  <2>4. signing' = [signing EXCEPT ![t] = r]
    BY <1>18 DEF ServeSignIn
  <2>5. HasToken' /\ flight' \in [Tab -> Request] /\ signing' \in [Tab -> Request]
    BY <1>1, <1>18, <2>3, <2>4, SigningTyped DEF ServeSignIn
  <2> QED BY <1>1, <1>18, <2>2, <2>5 DEF ServeSignIn, Rest, Calls, Unawaited
<1>19. ASSUME NEW t \in Tab, ServeRefresh(t) PROVE Rest'
  <2>1. Gateway' /\ (flight[t].token \in alive => last + 1 \in Tokens)
    BY <1>1, <1>5, <1>19, ConsumeTyped DEF ServeRefresh, Rest
  <2>2. HasToken' /\ flight' \in [Tab -> Request] /\ signing' \in [Tab -> Request]
    <3>1. CASE flight[t].token \in alive
      <4> DEFINE r == [phase |-> "ok", token |-> last + 1, user |-> NoUser]
      <4>1. r \in Request /\ r.token # 0
        BY <2>1, <3>1 DEF Request, Tokens
      <4> QED BY <1>1, <1>19, <3>1, <4>1, FlightTyped DEF ServeRefresh
    <3>2. CASE flight[t].token \notin alive
      <4> DEFINE r == [flight[t] EXCEPT !.phase = "denied"]
      <4>1. r \in Request /\ r.token # 0
        BY <1>5, <1>19 DEF ServeRefresh, Request, Tokens
      <4> QED BY <1>1, <1>19, <3>2, <4>1, FlightTyped DEF ServeRefresh
    <3> QED BY <3>1, <3>2
  <2> QED BY <1>1, <1>19, <2>1, <2>2 DEF ServeRefresh, Rest, Calls, Unawaited
<1>20. ASSUME NEW m \in outbox, ServeUnawaited(m) PROVE Rest'
  <2>1. m.token \in Tokens
    BY <1>1 DEF Rest, Unawaited
  <2>2. Gateway'
    BY <1>1, <1>20, <2>1, ConsumeTyped DEF ServeUnawaited, Rest, Gateway, server
  <2> QED BY <1>1, <1>20, <2>2 DEF ServeUnawaited, Rest, Calls, Unawaited, HasToken
<1>21. CASE UNCHANGED vars
  BY <1>1, <1>21 DEF vars, client, server, Rest, Gateway, Calls, Unawaited, HasToken
<1>22. CASE \E t \in Open : \/ \E u \in User : SignIn(t, u)
                           \/ SignInFails(t) \/ SignOut(t) \/ RenewTimer(t)
                           \/ RefreshFails(t) \/ Reload(t)
                           \/ SignInReply(t) \/ StorageEvent(t) \/ RefreshReply(t)
                           \/ ServeSignIn(t) \/ ServeRefresh(t)
  BY <1>2, <1>7, <1>8, <1>9, <1>10, <1>11, <1>12, <1>13, <1>14, <1>18, <1>19, <1>22
<1>23. CASE \E c \in Call : \/ \E t \in Open : Fetch(c, t)
                           \/ Answered(c) \/ Unauthorized(c)
  BY <1>2, <1>15, <1>16, <1>17, <1>23
<1>24. CASE Next
  BY <1>20, <1>22, <1>23, <1>24 DEF Next
<1> QED BY <1>21, <1>24

----------------------------------------------------------------------------
LEMMA CalmStays == [Next]_vars => calm' = calm
BY DEF Next, vars, client, SignIn, SignInReply, SignInFails, SignOut, StorageEvent,
  RenewTimer, RefreshReply, RefreshFails, Reload, Fetch, Answered, Unauthorized,
  ServeSignIn, ServeRefresh, ServeUnawaited

\* What the one tab of a calm session does about its credential.
LEMMA CalmTab ==
  ASSUME TypeOK, HasToken, calm, Alone, Held, Unclaimed,
         \/ \E u \in User : SignIn(Tab0, u)
         \/ SignInReply(Tab0) \/ SignOut(Tab0) \/ RenewTimer(Tab0) \/ RefreshReply(Tab0)
         \/ ServeSignIn(Tab0) \/ ServeRefresh(Tab0)
  PROVE  Alone' /\ Held' /\ Unclaimed'
<1> USE ClientAssumption
<1>1. Tab0 \in Tab
  BY DEF Tab0
<1>2. /\ Stored /\ Gateway /\ Calls /\ Unawaited
      /\ flight \in [Tab -> Request] /\ signing \in [Tab -> Request]
  BY TypeParts
<1>3. \A m \in outbox : m.token \in 1..MaxToken
  BY <1>2 DEF Unawaited, Tokens
<1>4. ASSUME NEW u \in User, SignIn(Tab0, u) PROVE Alone' /\ Held' /\ Unclaimed'
  BY <1>1, <1>2, <1>3, <1>4 DEF SignIn, server, Alone, Held, Unclaimed, Off, Request
<1>5. CASE SignInReply(Tab0)
  <2>1. /\ signing[Tab0].phase = "ok" /\ mem' = [mem EXCEPT ![Tab0] = signing[Tab0].token]
        /\ event'[Tab0] = event[Tab0] /\ signing' = [signing EXCEPT ![Tab0] = Off]
        /\ UNCHANGED <<flight, outbox, call, last, alive, reuse>>
    BY <1>1, <1>2, <1>5 DEF SignInReply, Adopt, SaveSession, server, Stored
  <2> QED BY <1>1, <1>2, <1>3, <2>1 DEF Alone, Held, Unclaimed, Off, Request, Stored
<1>6. CASE SignOut(Tab0)
  <2>1. /\ mem[Tab0] # 0 /\ flight[Tab0] = Off /\ mem' = [mem EXCEPT ![Tab0] = 0]
        /\ event'[Tab0] = event[Tab0]
        /\ outbox' = outbox \cup {[kind |-> "logout", token |-> mem[Tab0]]}
        /\ UNCHANGED <<flight, signing, call, last, alive, reuse>>
    BY <1>1, <1>2, <1>6 DEF SignOut, Adopt, SaveSession, server, Stored
  <2>2. signing[Tab0] = Off /\ mem[Tab0] \in alive
    BY <2>1 DEF Held, Off
  <2>3. mem[Tab0] <= last
    <3>1. alive \subseteq 1..last /\ last \in Int
      BY <1>2 DEF Gateway
    <3>2. mem[Tab0] \in 1..last
      BY <2>2, <3>1
    <3> QED BY <3>1, <3>2
  <2> QED BY <1>1, <1>2, <1>3, <2>1, <2>2, <2>3 DEF Alone, Held, Unclaimed, Off, Request, Stored
<1>7. CASE RenewTimer(Tab0)
  <2>1. /\ mem[Tab0] # 0 /\ flight[Tab0] = Off /\ UNCHANGED <<mem, event, signing, outbox, call>>
        /\ UNCHANGED <<last, alive, reuse>>
        /\ flight' = [flight EXCEPT ![Tab0] =
                        [phase |-> "sent", token |-> mem[Tab0], user |-> NoUser]]
    BY <1>7 DEF RenewTimer, Refreshing, server
  <2> QED BY <1>1, <1>2, <1>3, <2>1 DEF Alone, Held, Unclaimed, Off, Request, Stored
<1>8. CASE RefreshReply(Tab0)
  <2>1. /\ flight[Tab0].phase = "ok" /\ mem' = [mem EXCEPT ![Tab0] = flight[Tab0].token]
        /\ event'[Tab0] = event[Tab0] /\ flight' = [flight EXCEPT ![Tab0] = Off]
        /\ UNCHANGED <<signing, outbox, last, alive, reuse>>
        /\ \E u \in User \cup {NoUser} : call' = Settle(Tab0, "retried", u)
    <3>1. flight[Tab0].phase = "ok" => flight[Tab0].token \in Tokens
      BY <1>1, <1>2 DEF HasToken, Request, Tokens
    <3>2. owner[flight[Tab0].token] \in User \cup {NoUser}
      BY <1>2, <1>8, <3>1 DEF Gateway, RefreshReply
    <3> QED BY <1>1, <1>2, <1>8, <3>2 DEF RefreshReply, Adopt, SaveSession, server, Stored
  <2>2. \A c \in Call : /\ call'[c].tab = call[c].tab
                        /\ call'[c].phase # "done" => call[c].phase # "done"
    BY <1>2, <2>1 DEF Settle, Calls
  <2>3. signing[Tab0] = Off /\ flight'[Tab0] = Off /\ mem'[Tab0] = flight[Tab0].token
    BY <1>1, <1>2, <2>1 DEF Held, Off, Stored
  <2>4. Alone'
    BY <1>1, <1>2, <2>1, <2>2 DEF Alone, Stored
  <2>5. Held'
    BY <2>1, <2>3 DEF Held, Off
  <2>6. Unclaimed'
    BY <2>1, <2>3 DEF Unclaimed, Off
  <2> QED BY <2>4, <2>5, <2>6
<1>9. CASE ServeSignIn(Tab0)
  <2>1. /\ signing[Tab0].phase = "sent" /\ last' = last + 1 /\ alive' = alive \cup {last + 1}
        /\ signing' = [signing EXCEPT ![Tab0] =
                         [phase |-> "ok", token |-> last + 1, user |-> signing[Tab0].user]]
        /\ UNCHANGED <<mem, event, flight, outbox, call, reuse>>
    BY <1>9 DEF ServeSignIn, Issue
  <2>2. last \in Nat
    BY <1>2 DEF Gateway
  <2> QED BY <1>1, <1>2, <1>3, <2>1, <2>2 DEF Alone, Held, Unclaimed, Off, Request
<1>10. CASE ServeRefresh(Tab0)
  <2>1. flight[Tab0].phase = "sent" /\ flight[Tab0].token \in alive
    BY <1>10 DEF ServeRefresh, Held
  <2>2. /\ last' = last + 1 /\ alive' = (alive \ {flight[Tab0].token}) \cup {last + 1}
        /\ flight' = [flight EXCEPT ![Tab0] =
                        [phase |-> "ok", token |-> last + 1, user |-> NoUser]]
        /\ UNCHANGED <<mem, event, signing, outbox, call, reuse>>
    BY <1>10, <2>1 DEF ServeRefresh, Consume, Issue
  <2>3. last \in Nat
    BY <1>2 DEF Gateway
  <2> QED BY <1>1, <1>2, <1>3, <2>1, <2>2, <2>3 DEF Alone, Held, Unclaimed, Off, Request
<1> QED BY <1>4, <1>5, <1>6, <1>7, <1>8, <1>9, <1>10

LEMMA CalmKeeps ==
  ASSUME TypeOK, HasToken, CalmInv, [Next]_vars
  PROVE  CalmInv'
<1> USE ClientAssumption
<1> SUFFICES ASSUME calm, Alone, Held, Unclaimed PROVE Alone' /\ Held' /\ Unclaimed'
  BY CalmStays DEF CalmInv
<1>1. Tab0 \in Tab /\ Open = {Tab0}
  BY DEF Tab0, Open
<1>2. /\ Stored /\ Gateway /\ Calls /\ Unawaited
      /\ flight \in [Tab -> Request] /\ signing \in [Tab -> Request]
  BY TypeParts
<1>3. ~ SignInFails(Tab0) /\ ~ RefreshFails(Tab0) /\ ~ Reload(Tab0) /\ ~ StorageEvent(Tab0)
  BY DEF SignInFails, RefreshFails, Reload, StorageEvent, Alone, Held
<1>4. ASSUME NEW c \in Call, Fetch(c, Tab0) \/ Answered(c) PROVE Alone' /\ Held' /\ Unclaimed'
  <2>1. UNCHANGED <<mem, event, flight, signing, outbox, last, alive, reuse>>
    BY <1>4 DEF Fetch, Answered, server
  <2>2. ASSUME NEW d \in Call, call'[d].phase # "done" PROVE call'[d].tab = Tab0
    <3>1. CASE Answered(c)
      BY <1>2, <2>2, <3>1 DEF Answered, NoCall, Calls, Alone
    <3>2. CASE Fetch(c, Tab0)
      BY <1>2, <2>2, <3>2 DEF Fetch, Calls, Alone
    <3> QED BY <1>4, <3>1, <3>2
  <2> QED BY <2>1, <2>2 DEF Alone, Held, Unclaimed
<1>5. ASSUME NEW c \in Call, Unauthorized(c) PROVE Alone' /\ Held' /\ Unclaimed'
  <2>1. /\ call[c].tab = Tab0 /\ UNCHANGED <<mem, event, signing, outbox, last, alive, reuse>>
        /\ \/ UNCHANGED flight
           \/ /\ mem[Tab0] # 0 /\ flight[Tab0] = Off
              /\ flight' = [flight EXCEPT ![Tab0] =
                              [phase |-> "sent", token |-> mem[Tab0], user |-> NoUser]]
    BY <1>5 DEF Unauthorized, Refreshing, Alone, server
  <2>2. ASSUME NEW d \in Call, call'[d].phase # "done" PROVE call'[d].tab = Tab0
    BY <1>2, <1>5, <2>2 DEF Unauthorized, NoCall, Calls, Alone
  <2>3. CASE UNCHANGED flight
    BY <2>1, <2>2, <2>3 DEF Alone, Held, Unclaimed
  <2>4. CASE ~ UNCHANGED flight
    BY <1>1, <1>2, <2>1, <2>2, <2>4 DEF Alone, Held, Unclaimed, Off, Request, Stored
  <2> QED BY <2>3, <2>4
<1>6. ASSUME NEW m \in outbox, ServeUnawaited(m) PROVE Alone' /\ Held' /\ Unclaimed'
  <2>1. /\ outbox' = outbox \ {m} /\ alive' = alive \ {m.token}
        /\ UNCHANGED <<mem, event, flight, signing, call, last, reuse>>
    BY <1>6 DEF ServeUnawaited, Unclaimed
  <2>2. Held'
    <3>1. /\ flight[Tab0].phase # "ok" => m.token # mem[Tab0]
          /\ flight[Tab0].phase # "off" => m.token # flight[Tab0].token
          /\ signing[Tab0].phase = "ok" => m.token # signing[Tab0].token
      BY DEF Unclaimed
    <3> QED BY <2>1, <3>1 DEF Held, Off
  <2> QED BY <2>1, <2>2 DEF Alone, Unclaimed
<1>7. CASE UNCHANGED vars
  BY <1>7 DEF vars, client, server, Alone, Held, Unclaimed
<1>8. CASE Next
  BY <1>1, <1>3, <1>4, <1>5, <1>6, <1>8, CalmTab DEF Next
<1> QED BY <1>7, <1>8

----------------------------------------------------------------------------
\* ClientInv holds from the start and every step keeps it.
THEOREM Invariance == Spec => []ClientInv
<1>1. ASSUME ClientInv, [Next]_vars PROVE ClientInv'
  <2>1. Stored' /\ TabsConverge' /\ Rest' /\ CalmInv'
    BY <1>1, StoredKeeps, RestKeeps, CalmKeeps DEF ClientInv
  <2>2. TypeOK'
    BY <2>1 DEF Rest, TypeOK, Stored, Gateway, Calls, Unawaited, Request
  <2> QED BY <2>1, <2>2 DEF ClientInv, Rest
<1> QED BY <1>1, InitClient, PTL DEF Spec

\* AuthClient's type invariant: what every tab, call and message consists of.
THEOREM TypeCorrect == Spec => []TypeOK
BY Invariance, PTL DEF ClientInv

\* Tabs converge (the storage listener of AuthProvider.tsx): a tab whose session
\* is not the stored one has a storage event coming, however many tabs sign in,
\* sign out, refresh and reload.
THEOREM Converge == Spec => []TabsConverge
BY Invariance, PTL DEF ClientInv

\* The shared refresh of AuthProvider.tsx: a session used by its owner only,
\* whatever the number of calls that meet a 401 at once, is never taken for stolen.
THEOREM NeverStolen == Spec => []NoFalseReuse
<1>1. ClientInv => NoFalseReuse
  BY DEF ClientInv, CalmInv, Alone, NoFalseReuse
<1> QED BY <1>1, Invariance, PTL

\* A tab that is signed in in such a session can always go on: its token is live,
\* or is being replaced by one that is.
THEOREM CanGoOn == Spec => []KeepsCredential
<1>1. ASSUME ClientInv, calm, NEW t \in Tab, mem[t] # 0
      PROVE  mem[t] \in alive \/ (flight[t].phase = "ok" /\ flight[t].token \in alive)
  <2>1. t = Tab0
    BY <1>1 DEF ClientInv, CalmInv, Alone
  <2>2. flight[t].phase \in {"off", "sent", "ok", "denied"}
    BY <1>1, TypeParts DEF ClientInv, Request
  <2> QED BY <1>1, <2>1, <2>2 DEF ClientInv, CalmInv, Held
<1>2. ClientInv => KeepsCredential
  BY <1>1 DEF KeepsCredential
<1> QED BY <1>2, Invariance, PTL
============================================================================
