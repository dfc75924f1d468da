--------------------------- MODULE SessionsProofs ---------------------------
(***************************************************************************)
(* Theorems about refresh-token rotation over either store, for any        *)
(* accounts, tokens and requests in flight, any lifetime and any bound of  *)
(* the clock; and about what signing out means for the access tokens.      *)
(* First the lemmas about the handlers both stores share: each way a step  *)
(* can change who holds a session's credential, shown once.                *)
(***************************************************************************)
EXTENDS AccessTokens, TLAPS

\* The in-memory store, over the same rows and requests.
Mem == INSTANCE MemSessions

\* Each step changes who holds a credential in one of three ways.  It takes
\* some away, and issues nothing, makes no token live, and lets no request
\* start holding one ...
Shrinks ==
  /\ UNCHANGED family
  /\ \A t \in Token : status'[t] = "live" => status[t] = "live"
  /\ \A r \in Request : Holding(r)' => Holding(r) /\ req'[r].token = req[r].token

\* ... or hands a live token's session to a request ...
Takes(r, t) ==
  /\ status[t] = "live" /\ status' = [status EXCEPT ![t] = "revoked"]
  /\ UNCHANGED family
  /\ ~Holding(r) /\ Holding(r)' /\ req'[r].token = t
  /\ \A s \in Request \ {r} : req'[s] = req[s]

\* ... or stores a token for the request that holds the session.
Passes ==
  \/ Shrinks
  \/ \E r \in Request, t \in Token : Takes(r, t) \/ StoreToken(r, t)

\* The initial state satisfies the invariant: nothing is issued or in flight.
LEMMA InitInv == ASSUME AuthInit PROVE SessionInv
  BY TTLAssumption, SentinelAssumption
  DEF AuthInit, SessionInv, TypeOK, Issued, Holding, OneCredential, LiveTokens,
      Holders, Idle, Pending

\* Taking credentials away, whosever they are, keeps the invariant.
LEMMA ShrinkInv ==
  ASSUME SessionInv, TypeOK', Shrinks PROVE SessionInv'
<1> USE DEF Shrinks
<1>1. Issued' = Issued
  BY DEF Issued
<1>2. \A f \in Token : LiveTokens(f)' \subseteq LiveTokens(f)
  BY <1>1 DEF LiveTokens, Issued
<1>3. \A f \in Token : Holders(f)' \subseteq Holders(f)
  BY DEF Holders
<1>4. OneCredential'
  BY <1>2, <1>3 DEF OneCredential, SessionInv
<1> QED
  BY <1>1, <1>4 DEF SessionInv, Issued

\* A request that takes a live token becomes the only holder of its session.
LEMMA TakeInv ==
  ASSUME SessionInv, TypeOK', NEW r \in Request, NEW t \in Token,
         Takes(r, t)
  PROVE  SessionInv'
<1> USE DEF Takes
<1>1. Issued' = Issued /\ t \in Issued
  BY DEF Issued, SessionInv
<1>2. \A f \in Token : LiveTokens(f)' = LiveTokens(f) \ {t}
  BY DEF LiveTokens, Issued, SessionInv, TypeOK
<1>3. \A f \in Token \ {family[t]} : Holders(f)' \subseteq Holders(f)
  BY DEF Holders, Holding
<1>4. /\ Holders(family[t])' \subseteq {r}
      /\ LiveTokens(family[t])' = {}
  <2>1. t \in LiveTokens(family[t]) /\ family[t] \in Token
    BY <1>1 DEF LiveTokens, SessionInv, TypeOK, Issued
  <2>2. Holders(family[t]) = {} /\ LiveTokens(family[t]) = {t}
    BY <2>1 DEF SessionInv, OneCredential
  <2> QED
    BY <1>2, <2>1, <2>2 DEF Holders, Holding
<1>5. OneCredential'
  BY <1>2, <1>3, <1>4 DEF OneCredential, SessionInv
<1>6. \A s \in Request : Holding(s)' => req'[s].token \in Issued'
  BY <1>1 DEF SessionInv, Holding
<1> QED
  BY <1>1, <1>5, <1>6 DEF SessionInv, Issued

\* Storing a token hands the session from the request to the token.
LEMMA StoreInv ==
  ASSUME SessionInv, NEW r \in Request, NEW t \in Token, StoreToken(r, t)
  PROVE  SessionInv'
<1> USE SentinelAssumption DEF StoreToken, newRefreshToken
<1>1. TypeOK'
  BY DEF SessionInv, TypeOK, Idle, Pending, Holding, Issued
<1>0. PICK g : g = IF req[r].token = NoToken THEN t ELSE family[req[r].token]
  OBVIOUS
<1>2. /\ t \notin Issued /\ Issued' = Issued \cup {t}
      /\ g \in Token /\ family' = [family EXCEPT ![t] = g]
  BY <1>0 DEF Issued, SessionInv, TypeOK, Holding
<1>3. \A f \in Token \ {g} : LiveTokens(f)' = LiveTokens(f)
  BY <1>2 DEF LiveTokens, Issued, SessionInv, TypeOK
<1>4. LiveTokens(g)' = LiveTokens(g) \cup {t}
  BY <1>2 DEF LiveTokens, Issued, SessionInv, TypeOK
<1>5. \A s \in Request : Holding(s)' <=> Holding(s) /\ s # r
  BY DEF Holding, Idle, Pending, SessionInv, TypeOK
<1>6. \A f \in Token : Holders(f)' = Holders(f) \ {r}
  <2>1. \A s \in Request \ {r} : req'[s] = req[s]
    BY DEF SessionInv, TypeOK
  <2>2. \A s \in Request \ {r} : Holding(s) => family'[req[s].token] = family[req[s].token]
    BY <1>2 DEF SessionInv, TypeOK, Issued
  <2> QED
    BY <1>5, <2>1, <2>2 DEF Holders
<1>7. LiveTokens(g) = {} /\ Holders(g) \subseteq {r}
  <2>1. CASE req[r].token = NoToken
    <3>1. g = t /\ \A u \in Issued : family[u] # t
      BY <1>0, <1>2, <2>1 DEF SessionInv, TypeOK, Issued
    <3> QED
      BY <2>1, <3>1 DEF LiveTokens, Holders, SessionInv
  <2>2. CASE req[r].token # NoToken
    <3>1. r \in Holders(g)
      BY <1>0, <2>2 DEF Holders, Holding
    <3> QED
      BY <1>2, <3>1 DEF SessionInv, OneCredential
  <2> QED
    BY <2>1, <2>2
<1>8. OneCredential'
  BY <1>3, <1>4, <1>6, <1>7 DEF OneCredential, SessionInv
<1>9. \A u \in Issued' : family'[family'[u]] = family'[u]
  <2>1. req[r].token # NoToken => family[g] = g
    BY <1>0 DEF SessionInv, Holding
  <2>2. \A u \in Issued : family[u] # t /\ family'[u] = family[u] /\ family[u] \in Token
    BY <1>2 DEF SessionInv, TypeOK, Issued
  <2>3. family'[t] = g /\ family'[g] = g
    BY <1>0, <1>2, <2>1, <2>2 DEF SessionInv, TypeOK, Holding
  <2> QED
    BY <1>2, <2>2, <2>3 DEF SessionInv, TypeOK
<1>10. \A s \in Request : Holding(s)' => req'[s].token \in Issued'
  BY <1>2, <1>5 DEF SessionInv, TypeOK
<1>11. \A u \in Token \ Issued' : status'[u] # "live"
  BY <1>2 DEF SessionInv, TypeOK
<1> QED
  BY <1>1, <1>8, <1>9, <1>10, <1>11 DEF SessionInv

\* The steps the two stores share keep types and pass credentials so.
LEMMA SharedPasses == ASSUME SessionInv, AuthNext PROVE TypeOK' /\ Passes
<1> USE TTLAssumption, SentinelAssumption
<1>1. ASSUME NEW r \in Request, NEW u \in User, Register(r, u) \/ Login(r, u)
      PROVE  TypeOK' /\ Shrinks
  <2>1. TypeOK'
    BY <1>1 DEF SessionInv, TypeOK, Register, Login, CreateUser, Authenticate, Pending, rows
  <2>2. Shrinks
    BY <1>1 DEF SessionInv, TypeOK, Register, Login, CreateUser, Authenticate, Pending, Holding, Shrinks, rows
  <2> QED
    BY <2>1, <2>2
<1>2. ASSUME NEW r \in Request, Issue(r) PROVE TypeOK' /\ Shrinks
  <2>1. TypeOK'
    BY <1>2 DEF SessionInv, TypeOK, Issue, Pending, rows
  <2>2. Shrinks
    BY <1>2 DEF SessionInv, TypeOK, Issue, Pending, Holding, Shrinks, rows
  <2> QED
    BY <2>1, <2>2
<1>3. ASSUME NEW t \in Token, Logout(t) PROVE TypeOK' /\ Shrinks
  BY <1>3 DEF SessionInv, TypeOK, Logout, Holding, Shrinks
<1>4. ASSUME Tick PROVE TypeOK' /\ Shrinks
  BY <1>4 DEF SessionInv, TypeOK, Tick, Holding, Shrinks, rows
<1>5. ASSUME NEW r \in Request, NEW t \in Token, StoreToken(r, t)
      PROVE  TypeOK' /\ Passes
  BY <1>5, StoreInv DEF SessionInv, Passes
<1> QED
  BY <1>1, <1>2, <1>3, <1>4, <1>5 DEF AuthNext, Passes

\* A step that does nothing is a step of the first kind.
LEMMA StutterPasses == ASSUME SessionInv, UNCHANGED vars PROVE TypeOK' /\ Passes
  BY DEF SessionInv, TypeOK, vars, rows, Passes, Shrinks, Holding

\* So the invariant is inductive: each of the three ways keeps it.
LEMMA PassesInv == ASSUME SessionInv, TypeOK', Passes PROVE SessionInv'
  BY ShrinkInv, TakeInv, StoreInv DEF Passes

----------------------------------------------------------------------------
\* A step that withdraws t and neither makes a token live nor lets a request
\* start holding one leaves t's session without a credential.
LEMMA WithdrawnIsDead ==
  ASSUME SessionInv, Shrinks, NEW t \in Token,
         status[t] = "live", status'[t] # "live"
  PROVE  Dead(family[t])'
<1> USE DEF Shrinks
<1>1. t \in LiveTokens(family[t]) /\ family[t] \in Token /\ Issued' = Issued
  BY DEF LiveTokens, SessionInv, TypeOK, Issued
<1>2. LiveTokens(family[t]) = {t} /\ Holders(family[t]) = {}
  BY <1>1 DEF SessionInv, OneCredential
<1>3. LiveTokens(family[t])' = {}
  BY <1>1, <1>2 DEF LiveTokens, Issued
<1>4. Holders(family[t])' = {}
  BY <1>2 DEF Holders
<1> QED
  BY <1>3, <1>4 DEF Dead

\* What the refinement mapping yields in each state of a session.
CredentialOK ==
  /\ credential = [f \in Token |-> credential[f]]
  /\ \A f \in Token :
       /\ family[f] # f => credential[f] = "unopened"
       /\ family[f] # f => Dead(f)
       /\ \A t \in LiveTokens(f) : credential[f] = t
       /\ \A r \in Holders(f) : credential[f] = r
       /\ family[f] = f /\ Dead(f) => credential[f] = "ended"

\* The refinement mapping is well defined: under the invariant a session has
\* the credential the mapping names, and no other.
LEMMA CredentialLemma == SessionInv => CredentialOK
<1> SUFFICES ASSUME SessionInv PROVE CredentialOK
  OBVIOUS
<1>1. credential = [f \in Token |-> credential[f]]
  BY DEF credential
<1>2. ASSUME NEW f \in Token, family[f] # f
      PROVE  credential[f] = "unopened" /\ Dead(f)
  <2>1. \A t \in Issued : family[t] # f
    BY <1>2 DEF SessionInv
  <2> QED
    BY <1>2, <2>1 DEF credential, Dead, LiveTokens, Holders, SessionInv
<1>3. ASSUME NEW f \in Token, NEW t \in LiveTokens(f)
      PROVE  credential[f] = t
  <2>1. family[f] = f
    BY <1>2, <1>3 DEF Dead
  <2>2. \A u \in LiveTokens(f) : u = t
    BY DEF SessionInv, OneCredential
  <2> QED
    BY <2>1, <2>2 DEF credential
<1>4. ASSUME NEW f \in Token, NEW r \in Holders(f)
      PROVE  credential[f] = r
  <2>1. family[f] = f
    BY <1>2, <1>4 DEF Dead
  <2>2. LiveTokens(f) = {} /\ \A s \in Holders(f) : s = r
    BY DEF SessionInv, OneCredential
  <2> QED
    BY <2>1, <2>2 DEF credential
<1>5. ASSUME NEW f \in Token, family[f] = f, Dead(f)
      PROVE  credential[f] = "ended"
  BY <1>5 DEF credential, Dead
<1> QED
  BY <1>1, <1>2, <1>3, <1>4, <1>5 DEF CredentialOK

\* The same of the next state.
LEMMA CredentialPrime == SessionInv' => CredentialOK'
  BY CredentialLemma, PTL

\* The three ways a step can be one of the ledger's.
LEMMA EndsInLedger ==
  ASSUME SessionInv, SessionInv', Shrinks PROVE Ledger!Next
<1> USE DEF Shrinks
<1>1. CredentialOK /\ CredentialOK'
  BY CredentialLemma, CredentialPrime
<1>2. Issued' = Issued
  BY DEF Issued
<1> DEFINE S == {f \in Token : family[f] = f /\ Dead(f)'}
<1>3. \A f \in S : credential[f] # "unopened"
  <2>1. ASSUME NEW f \in Token, family[f] = f PROVE credential[f] # "unopened"
    <3>1. CASE Dead(f)
      BY <1>1, <2>1, <3>1 DEF CredentialOK
    <3>2. CASE ~Dead(f)
      <4>1. credential[f] \in Token \cup Request
        BY <1>1, <3>2 DEF CredentialOK, Dead, LiveTokens, Holders, Issued
      <4> QED
        BY <4>1, SentinelAssumption
    <3> QED
      BY <3>1, <3>2
  <2> QED
    BY <2>1
<1>4. \A f \in Token : credential'[f] = IF f \in S THEN "ended" ELSE credential[f]
  <2>1. \A f \in S : credential'[f] = "ended"
    BY <1>1 DEF CredentialOK
  <2>2. ASSUME NEW f \in Token \ S, family[f] # f PROVE credential'[f] = credential[f]
    BY <1>1, <2>2 DEF CredentialOK
  <2>3. ASSUME NEW f \in Token \ S, family[f] = f PROVE credential'[f] = credential[f]
    <3>1. LiveTokens(f)' \subseteq LiveTokens(f) /\ Holders(f)' \subseteq Holders(f)
      BY <1>2 DEF LiveTokens, Holders, Issued
    <3>2. LiveTokens(f)' # {} \/ Holders(f)' # {}
      BY <2>3 DEF Dead
    <3> QED
      BY <1>1, <3>1, <3>2 DEF CredentialOK
  <2> QED
    BY <2>1, <2>2, <2>3
<1>5. credential' = [f \in Token |-> IF f \in S THEN "ended" ELSE credential[f]]
  BY <1>1, <1>4 DEF CredentialOK
<1>6. Ledger!End(S)
  BY <1>2, <1>3, <1>5 DEF Ledger!End
<1> QED
  BY <1>6 DEF Ledger!Next

\* Taking a live token is a Claim of the ledger.
LEMMA ClaimsInLedger ==
  ASSUME SessionInv, SessionInv', NEW r \in Request, NEW t \in Token,
         Takes(r, t)
  PROVE  Ledger!Claim(family[t], r)
<1> USE DEF Takes
<1>1. CredentialOK /\ CredentialOK'
  BY CredentialLemma, CredentialPrime
<1>2. Issued' = Issued /\ t \in Issued /\ family[t] \in Token
  BY DEF Issued, SessionInv, TypeOK
<1>3. t \in LiveTokens(family[t]) /\ r \in Holders(family[t])'
  BY <1>2 DEF LiveTokens, Holders
<1>4. credential[family[t]] = t /\ credential'[family[t]] = r
  BY <1>1, <1>2, <1>3 DEF CredentialOK
<1>5. \A f \in Token \ {family[t]} : credential'[f] = credential[f]
  <2> TAKE f \in Token \ {family[t]}
  <2>1. LiveTokens(f)' = LiveTokens(f)
    BY <1>2 DEF LiveTokens, SessionInv, TypeOK
  <2>2. Holders(f)' = Holders(f)
    BY DEF Holders, Holding
  <2>3. CASE family[f] # f
    BY <1>1, <2>3 DEF CredentialOK
  <2>4. CASE family[f] = f /\ Dead(f)
    BY <1>1, <2>1, <2>2, <2>4 DEF CredentialOK, Dead
  <2>5. CASE ~Dead(f)
    BY <1>1, <2>1, <2>2, <2>5 DEF CredentialOK, Dead
  <2> QED
    BY <2>3, <2>4, <2>5
<1>6. \A f \in Token : credential[f] # r
  <2> TAKE f \in Token
  <2>1. CASE LiveTokens(f) # {}
    <3>1. credential[f] \in Token
      BY <1>1, <2>1 DEF CredentialOK, LiveTokens, Issued
    <3> QED
      BY <3>1, SentinelAssumption
  <2>2. CASE Holders(f) # {}
    BY <1>1, <2>2 DEF CredentialOK, Holders
  <2>3. CASE Dead(f)
    BY <1>1, <2>3, SentinelAssumption DEF CredentialOK
  <2> QED
    BY <2>1, <2>2, <2>3 DEF Dead
<1>7. credential' = [credential EXCEPT ![family[t]] = r]
  BY <1>1, <1>4, <1>5 DEF CredentialOK
<1> QED
  BY <1>2, <1>4, <1>6, <1>7 DEF Ledger!Claim

\* Storing a token is an Open for a sign-in, a Renew for a refresh.
LEMMA StoresInLedger ==
  ASSUME SessionInv, SessionInv', NEW r \in Request, NEW t \in Token,
         StoreToken(r, t)
  PROVE  Ledger!Open(t, t) \/ \E f \in Token : Ledger!Renew(f, t)
<1> USE DEF StoreToken, newRefreshToken
<1>1. CredentialOK /\ CredentialOK'
  BY CredentialLemma, CredentialPrime
<1>0. PICK g : g = IF req[r].token = NoToken THEN t ELSE family[req[r].token]
  OBVIOUS
<1>2. /\ t \notin Issued /\ Issued' = Issued \cup {t}
      /\ g \in Token /\ family' = [family EXCEPT ![t] = g]
  BY <1>0, SentinelAssumption DEF Issued, SessionInv, TypeOK, Holding
<1>3. t \in LiveTokens(g)'
  BY <1>2 DEF LiveTokens, SessionInv, TypeOK
<1>4. credential'[g] = t
  BY <1>1, <1>2, <1>3 DEF CredentialOK
<1>5. \A f \in Token \ {g} : credential'[f] = credential[f]
  <2> TAKE f \in Token \ {g}
  <2>1. LiveTokens(f)' = LiveTokens(f)
    BY <1>2 DEF LiveTokens, Issued, SessionInv, TypeOK
  <2>2. Holders(f)' = Holders(f)
    <3>1. \A s \in Request \ {r} : req'[s] = req[s] /\ (Holding(s)' <=> Holding(s))
      BY DEF Holding, SessionInv, TypeOK
    <3>2. ~Holding(r)' /\ r \notin Holders(f)
      BY <1>0 DEF Holding, Holders, Idle, Pending, SessionInv, TypeOK
    <3>3. \A s \in Request : Holding(s) => family'[req[s].token] = family[req[s].token]
      BY <1>2 DEF SessionInv, TypeOK, Issued
    <3> QED
      BY <3>1, <3>2, <3>3 DEF Holders
  <2>3. CASE f = t
    <3>1. family[t] # t /\ family'[t] # t
      BY <1>2, <2>3, SentinelAssumption DEF Issued, SessionInv, TypeOK
    <3> QED
      BY <1>1, <2>3, <3>1 DEF CredentialOK
  <2>4. CASE f # t
    <3>1. family'[f] = family[f]
      BY <1>2, <2>4 DEF SessionInv, TypeOK
    <3>2. CASE family[f] # f
      BY <1>1, <3>1, <3>2 DEF CredentialOK
    <3>3. CASE family[f] = f /\ Dead(f)
      BY <1>1, <2>1, <2>2, <3>1, <3>3 DEF CredentialOK, Dead
    <3>4. CASE ~Dead(f)
      BY <1>1, <2>1, <2>2, <3>4 DEF CredentialOK, Dead
    <3> QED
      BY <3>2, <3>3, <3>4
  <2> QED
    BY <2>3, <2>4
<1>6. credential' = [credential EXCEPT ![g] = t]
  BY <1>1, <1>4, <1>5 DEF CredentialOK
<1>7. CASE req[r].token = NoToken
  <2>1. family[t] # t
    BY <1>2, SentinelAssumption DEF Issued, SessionInv, TypeOK
  <2> QED
    BY <1>0, <1>1, <1>2, <1>6, <1>7, <2>1 DEF CredentialOK, Ledger!Open
<1>8. CASE req[r].token # NoToken
  <2>1. r \in Holders(g)
    BY <1>0, <1>8 DEF Holders, Holding
  <2>2. credential[g] \in Request
    BY <1>1, <1>2, <2>1 DEF CredentialOK
  <2>3. Ledger!Renew(g, t)
    BY <1>2, <1>6, <2>2 DEF Ledger!Renew
  <2> QED
    BY <1>2, <2>3
<1> QED
  BY <1>7, <1>8

\* Hence every such step is a step of the ledger, and withdraws no live token
\* whose session goes on with any request but the one that took it.
LEMMA PassesInLedger ==
  ASSUME SessionInv, TypeOK', Passes PROVE Ledger!Next
<1>1. SessionInv'
  BY PassesInv
<1>2. ASSUME NEW r \in Request, NEW t \in Token, Takes(r, t)
      PROVE  Ledger!Next
  <2>1. Ledger!Claim(family[t], r)
    BY <1>1, <1>2, ClaimsInLedger
  <2>2. family[t] \in Token
    BY <1>2 DEF Takes, SessionInv, Issued, TypeOK
  <2> QED
    BY <2>1, <2>2 DEF Ledger!Next
<1>3. ASSUME NEW r \in Request, NEW t \in Token, StoreToken(r, t)
      PROVE  Ledger!Next
  BY <1>1, <1>3, StoresInLedger DEF Ledger!Next
<1> QED
  BY <1>1, <1>2, <1>3, EndsInLedger DEF Passes

WithdrawsForGood ==
  \A t \in Token : status[t] = "live" /\ status'[t] # "live" =>
    Dead(family[t])' \/ \E r \in Request : Holding(r)' /\ req'[r].token = t

\* What each of the three ways withdraws, it withdraws for good.
LEMMA PassesForGood ==
  ASSUME SessionInv, TypeOK', Passes PROVE WithdrawsForGood
<1>1. ASSUME NEW r \in Request, NEW t \in Token, Takes(r, t)
      PROVE  WithdrawsForGood
  BY <1>1 DEF Takes, WithdrawsForGood, SessionInv, TypeOK
<1>2. ASSUME NEW r \in Request, NEW t \in Token, StoreToken(r, t)
      PROVE  WithdrawsForGood
  BY <1>2 DEF StoreToken, newRefreshToken, WithdrawsForGood, SessionInv, TypeOK
<1>3. ASSUME Shrinks PROVE WithdrawsForGood
  BY <1>3, WithdrawnIsDead DEF WithdrawsForGood
<1> QED
  BY <1>1, <1>2, <1>3 DEF Passes

\* The initial states are initial states of the ledger.
LEMMA InitInLedger == ASSUME AuthInit PROVE Ledger!Init
  BY SentinelAssumption DEF AuthInit, Ledger!Init, credential, Issued

----------------------------------------------------------------------------
\* Every step passes credentials on in one of the three ways of Passes.
LEMMA StepPasses == ASSUME SessionInv, [Next]_vars PROVE TypeOK' /\ Passes
<1> USE TTLAssumption, SentinelAssumption
<1>1. ASSUME NEW r \in Request, NEW t \in Token, ClaimHit(r, t)
      PROVE  TypeOK' /\ Passes
  <2>1. TypeOK'
    BY <1>1 DEF SessionInv, TypeOK, ClaimHit, Pending, Mark
  <2>2. Takes(r, t)
    BY <1>1 DEF SessionInv, TypeOK, ClaimHit, Pending, Takes, Holding
  <2> QED
    BY <2>1, <2>2 DEF Passes
<1>2. ASSUME NEW r \in Request, NEW t \in Token, ClaimMiss(r, t)
      PROVE  TypeOK' /\ Shrinks
  BY <1>2 DEF SessionInv, TypeOK, ClaimMiss, Pending, Holding, Shrinks, rows
<1>3. ASSUME NEW r \in Request, LookupOwner(r) PROVE TypeOK' /\ Shrinks
  <2>1. \/ req' = [req EXCEPT ![r] = Idle]
        \/ req' = [req EXCEPT ![r] = Pending("revoke", owner[req[r].token], req[r].token, 0)]
    BY <1>3 DEF LookupOwner
  <2>2. owner[req[r].token] \in User \cup {NoUser}
    BY <1>3 DEF SessionInv, TypeOK, LookupOwner
  <2> QED
    BY <1>3, <2>1, <2>2 DEF SessionInv, TypeOK, LookupOwner, Pending, Idle, Holding, Shrinks, rows
<1>4. ASSUME NEW r \in Request, RevokeAll(r) PROVE TypeOK' /\ Shrinks
  <2>1. TypeOK'
    BY <1>4 DEF SessionInv, TypeOK, RevokeAll, RevokedFor, Pending, Idle, Mark
  <2>2. Shrinks
    BY <1>4 DEF SessionInv, TypeOK, RevokeAll, RevokedFor, Pending, Idle, Holding, Shrinks
  <2> QED
    BY <2>1, <2>2
<1>5. ASSUME NEW r \in Request, CheckExpiry(r) \/ Fail(r)
      PROVE  TypeOK' /\ Shrinks
  BY <1>5 DEF SessionInv, TypeOK, CheckExpiry, Fail, Pending, Idle, Holding, Shrinks, rows
<1>6. ASSUME Restart PROVE TypeOK' /\ Shrinks
  <2>1. status' \in [Token -> {"none", "live", "revoked"}]
    BY <1>6 DEF SessionInv, TypeOK, Restart, Purged
  <2>2. \A t \in Token : status'[t] = "live" => status[t] = "live"
    BY <1>6 DEF SessionInv, TypeOK, Restart, Purged
  <2>3. TypeOK'
    BY <1>6, <2>1 DEF SessionInv, TypeOK, Restart, Pending, Idle
  <2>4. \A r \in Request : ~Holding(r)'
    BY <1>6 DEF Restart, Pending, Idle, Holding
  <2> QED
    BY <1>6, <2>2, <2>3, <2>4 DEF Restart, Shrinks
<1> QED
  BY <1>1, <1>2, <1>3, <1>4, <1>5, <1>6, SharedPasses, StutterPasses
  DEF Next, Passes

\* The invariant of the token store holds in every reachable state.
THEOREM Invariance == Spec => []SessionInv
<1>1. Init => SessionInv
  BY InitInv DEF Init
<1>2. SessionInv /\ [Next]_vars => SessionInv'
  BY StepPasses, PassesInv
<1> QED
  BY <1>1, <1>2, PTL DEF Spec

\* Variables keep their types.
THEOREM TypeCorrect == Spec => []TypeOK
<1>1. SessionInv => TypeOK
  BY DEF SessionInv
<1> QED
  BY <1>1, Invariance, PTL

\* However refreshes, replays, sign-outs, failures and restarts interleave, a
\* session never has two credentials.
THEOREM NoFork == Spec => []OneCredential
<1>1. SessionInv => OneCredential
  BY DEF SessionInv
<1> QED
  BY <1>1, Invariance, PTL

\* A withdrawn token leaves its session with the claiming request or nobody.
THEOREM Withdrawal == Spec => WithdrawalIsFinal
<1>1. SessionInv /\ [Next]_vars => [WithdrawsForGood]_vars
  BY StepPasses, PassesForGood
<1>2. WithdrawsForGood <=>
        \A t \in Token : status[t] = "live" /\ status'[t] # "live" =>
          \/ Dead(family[t])'
          \/ \E r \in Request : Holding(r)' /\ req'[r].token = t
  BY DEF WithdrawsForGood
<1> QED
  BY <1>1, <1>2, Invariance, PTL DEF Spec, WithdrawalIsFinal

\* The store implements the ledger of sessions.
THEOREM ImplementsLedger == Spec => LedgerSpec
<1>1. Init => Ledger!Init
  BY InitInLedger DEF Init
<1>2. SessionInv /\ [Next]_vars => [Ledger!Next]_(Ledger!vars)
  BY StepPasses, PassesInLedger
<1> QED
  BY <1>1, <1>2, Invariance, PTL DEF Spec, LedgerSpec, Ledger!Spec

----------------------------------------------------------------------------
\* A session that has no credential left never gets one again: to claim takes a
\* live token of it, to store a request that holds it.
LEMMA DeadStaysDead ==
  ASSUME SessionInv, Passes, NEW f \in Token, family[f] = f, Dead(f)
  PROVE  Dead(f)'
<1> USE SentinelAssumption
<1>1. CASE Shrinks
  <2>1. LiveTokens(f)' \subseteq LiveTokens(f) /\ Holders(f)' \subseteq Holders(f)
    BY <1>1 DEF Shrinks, LiveTokens, Holders, Issued
  <2> QED
    BY <2>1 DEF Dead
<1>2. ASSUME NEW r \in Request, NEW t \in Token, Takes(r, t) PROVE Dead(f)'
  <2>1. family[t] # f
    BY <1>2 DEF Takes, Dead, LiveTokens, SessionInv
  <2>2. LiveTokens(f)' \subseteq LiveTokens(f)
    BY <1>2 DEF Takes, LiveTokens, Issued, SessionInv, TypeOK
  <2>3. Holders(f)' \subseteq Holders(f)
    BY <1>2, <2>1 DEF Takes, Holders, Holding
  <2> QED
    BY <2>2, <2>3 DEF Dead
<1>3. ASSUME NEW r \in Request, NEW t \in Token, StoreToken(r, t) PROVE Dead(f)'
  <2> USE <1>3 DEF StoreToken, newRefreshToken
  <2>1. t \notin Issued /\ f \in Issued
    BY DEF Issued
  <2>2. family'[t] # f
    <3>1. CASE req[r].token = NoToken
      BY <2>1, <3>1 DEF SessionInv, TypeOK
    <3>2. CASE req[r].token # NoToken
      BY <3>2 DEF Dead, Holders, Holding, SessionInv, TypeOK
    <3> QED
      BY <3>1, <3>2
  <2>3. LiveTokens(f)' \subseteq LiveTokens(f)
    BY <2>2 DEF LiveTokens, Issued, SessionInv, TypeOK
  <2>4. \A s \in Request : Holding(s)' => s # r /\ Holding(s) /\ req'[s] = req[s]
    BY DEF Holding, Idle, Pending, SessionInv, TypeOK
  <2>5. \A s \in Request : Holding(s) => family'[req[s].token] = family[req[s].token]
    BY <2>1 DEF SessionInv, TypeOK
  <2>6. Holders(f)' \subseteq Holders(f)
    BY <2>4, <2>5 DEF Holders
  <2> QED
    BY <2>3, <2>6 DEF Dead
<1> QED
  BY <1>1, <1>2, <1>3 DEF Passes

\* No expiry is further away than the lifetime of a refresh token: not of a
\* token, nor of one that is about to be stored.
ExpiryInReach ==
  /\ \A t \in Issued : expires[t] <= now + RefreshTTL
  /\ \A r \in Request : req[r].pc = "store" => req[r].stamp <= now + RefreshTTL

\* Every step keeps that: only Issue fixes an expiry, only StoreToken copies one.
LEMMA StepInReach ==
  ASSUME SessionInv, ExpiryInReach, [Next]_vars PROVE ExpiryInReach'
<1> USE TTLAssumption DEF ExpiryInReach, Pending, Idle
<1>1. ASSUME NEW r \in Request, NEW u \in User, Register(r, u) \/ Login(r, u)
      PROVE  ExpiryInReach'
  BY <1>1 DEF Register, Login, SessionInv, TypeOK, Issued, rows
<1>2. ASSUME NEW r \in Request, Issue(r) PROVE ExpiryInReach'
  BY <1>2 DEF Issue, SessionInv, TypeOK, Issued, rows
<1>3. ASSUME NEW r \in Request, NEW t \in Token, StoreToken(r, t) PROVE ExpiryInReach'
  BY <1>3 DEF StoreToken, SessionInv, TypeOK, Issued
<1>4. ASSUME NEW t \in Token, Logout(t) PROVE ExpiryInReach'
  BY <1>4 DEF Logout, Issued
<1>5. ASSUME Tick PROVE ExpiryInReach'
  BY <1>5 DEF Tick, SessionInv, TypeOK, Issued, rows
<1>6. ASSUME NEW r \in Request, NEW t \in Token, ClaimHit(r, t) \/ ClaimMiss(r, t)
      PROVE  ExpiryInReach'
  BY <1>6 DEF ClaimHit, ClaimMiss, SessionInv, TypeOK, Issued, rows
<1>7. ASSUME NEW r \in Request, LookupOwner(r) \/ RevokeAll(r) \/ CheckExpiry(r) \/ Fail(r)
      PROVE  ExpiryInReach'
  BY <1>7 DEF LookupOwner, RevokeAll, CheckExpiry, Fail, SessionInv, TypeOK, Issued, rows
<1>8. ASSUME Restart PROVE ExpiryInReach'
  BY <1>8 DEF Restart, Issued
<1>9. ASSUME UNCHANGED vars PROVE ExpiryInReach'
  BY <1>9 DEF vars, rows, Issued
<1> QED
  BY <1>1, <1>2, <1>3, <1>4, <1>5, <1>6, <1>7, <1>8, <1>9 DEF Next, AuthNext

\* The formula of SignOutTakesEffect, of one step.
EndsInTime ==
  \A f \in Token : family[f] = f /\ Dead(f) =>
    /\ Dead(f)'
    /\ \A t \in Token : family'[t] = f /\ requireAuth(t)' =>
         ExpiresAt(t)' <= now + AccessTTL

\* The expiry of an access token of a session that is dead is that of a token
\* issued before the step.
LEMMA StepEndsInTime ==
  ASSUME SessionInv, ExpiryInReach, [Next]_vars PROVE EndsInTime
<1> SUFFICES ASSUME NEW f \in Token, family[f] = f, Dead(f)
             PROVE  /\ Dead(f)'
                    /\ \A t \in Issued' : family'[t] = f => ExpiresAt(t)' <= now + AccessTTL
  BY DEF EndsInTime, requireAuth
<1>1. TypeOK' /\ Passes
  BY StepPasses
<1>2. Dead(f)'
  BY <1>1, DeadStaysDead
<1>3. ASSUME NEW t \in Issued', family'[t] = f PROVE t \in Issued /\ expires'[t] = expires[t]
  <2>1. CASE \E r \in Request, u \in Token : StoreToken(r, u)
    <3>1. PICK r \in Request, u \in Token : StoreToken(r, u)
      BY <2>1
    <3>2. family'[u] = f => u \in LiveTokens(f)'
      BY <3>1, SentinelAssumption DEF StoreToken, newRefreshToken, LiveTokens, Issued, SessionInv, TypeOK
    <3>3. t # u
      BY <1>2, <1>3, <3>2 DEF Dead
    <3> QED
      BY <1>3, <3>1, <3>3 DEF StoreToken, Issued, SessionInv, TypeOK
  <2>2. CASE ~ \E r \in Request, u \in Token : StoreToken(r, u)
    <3>1. UNCHANGED <<family, expires>>
      BY <2>2 DEF Next, AuthNext, Register, Login, Issue, Logout, Tick, ClaimHit, ClaimMiss,
                  LookupOwner, RevokeAll, CheckExpiry, Fail, Restart, vars, rows
    <3> QED
      BY <3>1 DEF Issued
  <2> QED
    BY <2>1, <2>2
<1>4. ASSUME NEW t \in Issued', family'[t] = f PROVE ExpiresAt(t)' <= now + AccessTTL
  <2>1. t \in Issued /\ expires'[t] = expires[t]
    BY <1>3, <1>4
  <2>2. expires[t] <= now + RefreshTTL /\ expires[t] \in Nat /\ now \in Nat
    BY <2>1, TTLAssumption DEF ExpiryInReach, SessionInv, TypeOK, Issued
  <2> QED
    BY <2>1, <2>2, TTLAssumption, AccessAssumption DEF ExpiresAt, SignedAt
<1> QED
  BY <1>2, <1>4

\* A session that has ended is over for good, and for the callers of /api no
\* later than the lifetime of an access token afterwards.
THEOREM SignOut == Spec => SignOutTakesEffect
<1>1. Init => ExpiryInReach
  BY DEF Init, AuthInit, ExpiryInReach, Issued, Idle, Pending
<1>2. SessionInv /\ ExpiryInReach /\ [Next]_vars => ExpiryInReach'
  BY StepInReach
<1>3. SessionInv /\ ExpiryInReach /\ [Next]_vars => [EndsInTime]_vars
  BY StepEndsInTime
<1>4. EndsInTime <=>
        \A f \in Token : family[f] = f /\ Dead(f) =>
          /\ Dead(f)'
          /\ \A t \in Token : family'[t] = f /\ requireAuth(t)' =>
               ExpiresAt(t)' <= now + AccessTTL
  BY DEF EndsInTime
<1> QED
  BY <1>1, <1>2, <1>3, <1>4, Invariance, PTL DEF Spec, SignOutTakesEffect

----------------------------------------------------------------------------
\* MemSessions begins and shares its steps with GatewayAuth as this module does.
LEMMA MemShares ==
  /\ Mem!Init <=> AuthInit
  /\ Mem!AuthNext <=> AuthNext
  /\ (UNCHANGED Mem!vars) <=> UNCHANGED vars
<1>1. Mem!Init <=> AuthInit
  BY DEF Mem!Init, Mem!AuthInit, AuthInit, Mem!Idle, Idle, Mem!Pending, Pending
<1>2. ASSUME NEW r \in Request, NEW u \in User
      PROVE  (Mem!Register(r, u) <=> Register(r, u)) /\ (Mem!Login(r, u) <=> Login(r, u))
  BY DEF Mem!Register, Register, Mem!Login, Login, Mem!CreateUser, CreateUser, Mem!Authenticate,
     Authenticate, Mem!Pending, Pending, Mem!rows, rows
<1>3. ASSUME NEW r \in Request PROVE Mem!Issue(r) <=> Issue(r)
  BY DEF Mem!Issue, Issue, Mem!Pending, Pending, Mem!rows, rows
<1>4. ASSUME NEW r \in Request, NEW t \in Token
      PROVE  Mem!StoreToken(r, t) <=> StoreToken(r, t)
  BY DEF Mem!StoreToken, StoreToken, Mem!newRefreshToken, newRefreshToken, Mem!Issued, Issued,
     Mem!Idle, Idle, Mem!Pending, Pending
<1>5. ASSUME NEW t \in Token PROVE Mem!Logout(t) <=> Logout(t)
  BY DEF Mem!Logout, Logout
<1>6. Mem!Tick <=> Tick
  BY DEF Mem!Tick, Tick, Mem!rows, rows
<1>7. (UNCHANGED Mem!vars) <=> UNCHANGED vars
  BY DEF Mem!vars, vars, Mem!rows, rows
<1> QED
  BY <1>1, <1>2, <1>3, <1>4, <1>5, <1>6, <1>7 DEF Mem!AuthNext, AuthNext

\* Every step over the in-memory store passes credentials on in one of the three
\* ways of Passes, too.
LEMMA MemPasses == ASSUME SessionInv, [Mem!Next]_(Mem!vars) PROVE TypeOK' /\ Passes
<1> USE TTLAssumption, SentinelAssumption
<1>1. ASSUME NEW r \in Request, NEW t \in Token, Mem!Consume(r, t)
      PROVE  TypeOK' /\ Passes
  <2>1. TypeOK'
    BY <1>1 DEF SessionInv, TypeOK, Mem!Consume, Mem!Pending, Mark
  <2>2. Takes(r, t)
    BY <1>1 DEF SessionInv, TypeOK, Mem!Consume, Mem!Pending, Takes, Holding
  <2> QED
    BY <2>1, <2>2 DEF Passes
<1>2. ASSUME NEW r \in Request, NEW t \in Token, Mem!ConsumeReused(r, t)
      PROVE  TypeOK' /\ Shrinks
  <2>1. TypeOK'
    BY <1>2 DEF SessionInv, TypeOK, Mem!ConsumeReused, Mem!RevokedFor, Mark
  <2>2. Shrinks
    BY <1>2 DEF SessionInv, TypeOK, Mem!ConsumeReused, Mem!RevokedFor, Holding, Shrinks
  <2> QED
    BY <2>1, <2>2
<1>3. ASSUME Mem!Restart PROVE TypeOK' /\ Shrinks
  BY <1>3 DEF SessionInv, TypeOK, Mem!Restart, Mem!Pending, Mem!Idle, Holding, Shrinks
<1> QED
  BY <1>1, <1>2, <1>3, MemShares, SharedPasses, StutterPasses DEF Mem!Next, Passes

\* The invariant of the token store holds over the in-memory store.
THEOREM MemInvariance == Mem!Spec => []SessionInv
<1>1. Mem!Init => SessionInv
  BY MemShares, InitInv
<1>2. SessionInv /\ [Mem!Next]_(Mem!vars) => SessionInv'
  BY MemShares, MemPasses, PassesInv
<1> QED
  BY <1>1, <1>2, PTL DEF Mem!Spec

\* A session of the in-memory store never has two credentials.
THEOREM MemNoFork == Mem!Spec => []OneCredential
<1>1. SessionInv => OneCredential
  BY DEF SessionInv
<1> QED
  BY <1>1, MemInvariance, PTL

\* There, too, a withdrawn token leaves its session with the claiming request or
\* with nobody.
THEOREM MemWithdrawal == Mem!Spec => WithdrawalIsFinal
<1>1. SessionInv /\ [Mem!Next]_(Mem!vars) => [WithdrawsForGood]_vars
  BY MemShares, MemPasses, PassesForGood
<1>2. WithdrawsForGood <=>
        \A t \in Token : status[t] = "live" /\ status'[t] # "live" =>
          \/ Dead(family[t])'
          \/ \E r \in Request : Holding(r)' /\ req'[r].token = t
  BY DEF WithdrawsForGood
<1> QED
  BY <1>1, <1>2, MemInvariance, PTL DEF Mem!Spec, WithdrawalIsFinal

\* The in-memory store implements the ledger of sessions, too.
THEOREM MemImplementsLedger == Mem!Spec => LedgerSpec
<1>1. Mem!Init => Ledger!Init
  BY MemShares, InitInLedger
<1>2. SessionInv /\ [Mem!Next]_(Mem!vars) => [Ledger!Next]_(Ledger!vars)
  BY MemShares, MemPasses, PassesInLedger
<1> QED
  BY <1>1, <1>2, MemInvariance, PTL DEF Mem!Spec, LedgerSpec, Ledger!Spec
=============================================================================
