---------------------------- MODULE PgSessions -----------------------------
(***************************************************************************)
(* Refresh-token rotation over the Postgres store (store_postgres.go).     *)
(* Every SQL statement is one step: the row locks of UPDATE make each of   *)
(* them take effect at one point, and nothing spans two of them, since     *)
(* ConsumeRefreshToken opens no transaction.  Any statement may fail (the  *)
(* database, or the request's context when the client goes away), and the  *)
(* gateway may stop between any two.                                       *)
(***************************************************************************)
EXTENDS GatewayAuth

\* Mutant: the claim without "revoked = FALSE".
ClaimAnyRow(r, t) ==
  /\ req[r].pc = "idle" /\ status[t] # "none"
  /\ status' = [status EXCEPT ![t] = "revoked"]
  /\ req' = [req EXCEPT ![r] = Pending("claimed", owner[t], t, expires[t])]
  /\ marks' = [marks EXCEPT ![t] = @ \cup {"consumed"}]
  /\ UNCHANGED <<now, accounts, owner, expires, family>>

\* The atomic claim: UPDATE ... WHERE revoked = FALSE RETURNING a row.
ClaimHit(r, t) ==
  /\ req[r].pc = "idle" /\ status[t] = "live"
  /\ status' = [status EXCEPT ![t] = "revoked"]
  /\ req' = [req EXCEPT ![r] = Pending("claimed", owner[t], t, expires[t])]
  /\ marks' = [marks EXCEPT ![t] = @ \cup {"consumed"}]
  /\ UNCHANGED <<now, accounts, owner, expires, family>>

\* The UPDATE returns no row: look the owner up.
ClaimMiss(r, t) ==
  /\ req[r].pc = "idle" /\ t \in Issued /\ status[t] # "live"
  /\ req' = [req EXCEPT ![r] = Pending("lookup", NoUser, t, 0)]
  /\ UNCHANGED <<now, accounts, rows>>

\* Mutant: a consumed token is let through once more.
LookupForgives(r) ==
  /\ req[r].pc = "lookup"
  /\ req' = [req EXCEPT ![r] =
       IF status[req[r].token] = "none" THEN Idle
       ELSE Pending("issue", owner[req[r].token], req[r].token, 0)]
  /\ UNCHANGED <<now, accounts, rows>>

\* SELECT user_id: a row means reuse, no row an unknown token.
LookupOwner(r) ==
  /\ req[r].pc = "lookup"
  /\ req' = [req EXCEPT ![r] =
       IF status[req[r].token] = "none" THEN Idle
       ELSE Pending("revoke", owner[req[r].token], req[r].token, 0)]
  /\ UNCHANGED <<now, accounts, rows>>

\* RevokeAllForUser, then ErrTokenReused.
RevokeAll(r) ==
  /\ req[r].pc = "revoke"
  /\ status' = RevokedFor(req[r].user)
  /\ marks' = [marks EXCEPT ![req[r].token] = @ \cup {"reused"}]
  /\ req' = [req EXCEPT ![r] = Idle]
  /\ UNCHANGED <<now, accounts, owner, expires, family>>

\* The expiry check comes after the claim: an expired token is consumed, too.
CheckExpiry(r) ==
  /\ req[r].pc = "claimed"
  /\ req' = [req EXCEPT ![r] =
       IF now >= req[r].stamp THEN Idle
       ELSE Pending("issue", req[r].user, req[r].token, 0)]
  /\ UNCHANGED <<now, accounts, rows>>

\* Mutant: a failed refresh gives the claimed token back.
FailGivesBack(r) ==
  /\ req[r].pc # "idle"
  /\ status' = [t \in Token |-> IF Holding(r) /\ t = req[r].token
                                THEN "live" ELSE status[t]]
  /\ req' = [req EXCEPT ![r] = Idle]
  /\ UNCHANGED <<now, accounts, owner, expires, family, marks>>

\* A store call of the request fails: 500, or 401 with the failure of
\* RevokeAllForUser only logged.  What was done before it stays done.
Fail(r) ==
  /\ req[r].pc # "idle"
  /\ req' = [req EXCEPT ![r] = Idle]
  /\ UNCHANGED <<now, accounts, rows>>

\* PurgeExpiredTokens, run once at start-up.
Purged == [t \in Token |-> IF expires[t] < now THEN "none" ELSE status[t]]

\* The process stops with its requests and starts again on the same database.
\* A purge that fails is logged and skipped.
Restart ==
  /\ status' \in {status, Purged}
  /\ req' = [r \in Request |-> Idle]
  /\ UNCHANGED <<now, accounts, owner, expires, family, marks>>

Init == AuthInit
Next ==
  \/ AuthNext
  \/ \E r \in Request, t \in Token : ClaimHit(r, t) \/ ClaimMiss(r, t)
  \/ \E r \in Request : \/ LookupOwner(r) \/ RevokeAll(r)
                        \/ CheckExpiry(r) \/ Fail(r)
  \/ Restart
Spec == Init /\ [][Next]_vars
============================================================================
