---------------------------- MODULE MemSessions ----------------------------
(***************************************************************************)
(* Refresh-token rotation over the in-memory store (store_memory.go).      *)
(* ConsumeRefreshToken decides everything under one lock; the store calls  *)
(* take no notice of the request's context, so none of them fails; and a   *)
(* restart forgets accounts and tokens alike.                              *)
(***************************************************************************)
EXTENDS GatewayAuth

\* Mutant: a consumed token is let through once more.
ConsumeForgives(r, t) ==
  /\ req[r].pc = "idle" /\ status[t] = "revoked"
  /\ req' = [req EXCEPT ![r] = Pending("issue", owner[t], t, 0)]
  /\ UNCHANGED <<now, accounts, rows>>

\* A token that was revoked before: drop every session of its owner.
ConsumeReused(r, t) ==
  /\ req[r].pc = "idle" /\ status[t] = "revoked"
  /\ status' = RevokedFor(owner[t])
  /\ marks' = [marks EXCEPT ![t] = @ \cup {"reused"}]
  /\ UNCHANGED <<now, accounts, owner, expires, family, req>>

\* Mutant: revoked is not looked at.
ConsumeUnchecked(r, t) ==
  /\ req[r].pc = "idle" /\ status[t] # "none" /\ now <= expires[t]
  /\ status' = [status EXCEPT ![t] = "revoked"]
  /\ marks' = [marks EXCEPT ![t] = @ \cup {"consumed"}]
  /\ req' = [req EXCEPT ![r] = Pending("issue", owner[t], t, 0)]
  /\ UNCHANGED <<now, accounts, owner, expires, family>>

\* An expired token is refused and left as it is; any other one is consumed.
Consume(r, t) ==
  /\ req[r].pc = "idle" /\ status[t] = "live" /\ now <= expires[t]
  /\ status' = [status EXCEPT ![t] = "revoked"]
  /\ marks' = [marks EXCEPT ![t] = @ \cup {"consumed"}]
  /\ req' = [req EXCEPT ![r] = Pending("issue", owner[t], t, 0)]
  /\ UNCHANGED <<now, accounts, owner, expires, family>>

\* A new process starts with empty maps (its purge has nothing to do).
Restart ==
  /\ accounts' = {}
  /\ status' = [t \in Token |-> "none"]
  /\ req' = [r \in Request |-> Idle]
  /\ UNCHANGED <<now, owner, expires, family, marks>>

Init == AuthInit
Next ==
  \/ AuthNext
  \/ \E r \in Request, t \in Token : ConsumeReused(r, t) \/ Consume(r, t)
  \/ Restart
Spec == Init /\ [][Next]_vars
============================================================================
