--------------------------- MODULE SessionLedger ---------------------------
(***************************************************************************)
(* What the auth service promises of a sign-in session, whatever store it  *)
(* runs on: the right to continue the session is one credential that is    *)
(* passed on and never copied.  A sign-in creates it as a token; a refresh *)
(* claims the token and renews it as a token never issued before; and once *)
(* the session has ended nothing opens or continues it.                    *)
(***************************************************************************)
CONSTANTS Session, Token, Request, Unopened, Ended

VARIABLES credential,  \* per session: a token, a request, Unopened or Ended
          issued       \* every token handed out so far

vars == <<credential, issued>>

Init == credential = [s \in Session |-> Unopened] /\ issued = {}

Open(s, t) ==
  /\ credential[s] = Unopened /\ t \notin issued
  /\ credential' = [credential EXCEPT ![s] = t]
  /\ issued' = issued \cup {t}

\* A request takes the token, and holds one session at a time.
Claim(s, r) ==
  /\ credential[s] \in issued
  /\ \A x \in Session : credential[x] # r
  /\ credential' = [credential EXCEPT ![s] = r]
  /\ UNCHANGED issued

Renew(s, t) ==
  /\ credential[s] \in Request /\ t \notin issued
  /\ credential' = [credential EXCEPT ![s] = t]
  /\ issued' = issued \cup {t}

\* Sign-out, reuse, expiry, a failed refresh, a restart: any number of opened
\* sessions end together.
End(S) ==
  /\ \A s \in S : credential[s] # Unopened
  /\ credential' = [s \in Session |-> IF s \in S THEN Ended ELSE credential[s]]
  /\ UNCHANGED issued

Next ==
  \/ \E s \in Session, t \in Token : Open(s, t) \/ Renew(s, t)
  \/ \E s \in Session, r \in Request : Claim(s, r)
  \/ \E S \in SUBSET Session : End(S)
Spec == Init /\ [][Next]_vars
============================================================================
