-------------------------- MODULE StoreEquivalence --------------------------
(***************************************************************************)
(* The two implementations of Store (store_postgres.go, store_memory.go)   *)
(* driven in lockstep by one caller, one finished call after the other.    *)
(* The in-memory store is what the test suite runs; Postgres is what is    *)
(* deployed.  A tick is half a second: Postgres keeps whole seconds        *)
(* (time.Unix()), the in-memory store keeps the exact time.                *)
(***************************************************************************)
EXTENDS Integers

CONSTANTS User, Token,
          TTL,           \* lifetime of a token, in ticks
          MaxTime        \* bound

StoreAssumption == TTL \in Nat \ {0} /\ MaxTime \in Nat

VARIABLES now, owner, expires,  \* what both stores were told of a token
          pg, mem,              \* "none", "live" or "revoked", in either store
          late                  \* history: who presented a token past its expiry

vars == <<now, owner, expires, pg, mem, late>>

Init == /\ now = 0 /\ expires = [t \in Token |-> 0]
        /\ owner \in [Token -> User]
        /\ pg = [t \in Token |-> "none"] /\ mem = pg /\ late = {}

Seconds(n) == n \div 2

\* Mutant: a token still lives in the second it expires in.
PgExpiredAfter(t) == Seconds(now) > Seconds(expires[t])

PgExpired(t)  == Seconds(now) >= Seconds(expires[t])
MemExpired(t) == now > expires[t]

\* What ConsumeRefreshToken would answer now.
PgAnswer(t) ==
  CASE pg[t] = "none" -> "invalid" [] pg[t] = "revoked" -> "reused"
    [] pg[t] = "live" -> IF PgExpired(t) THEN "invalid" ELSE "ok"
MemAnswer(t) ==
  CASE mem[t] = "none" -> "invalid" [] mem[t] = "revoked" -> "reused"
    [] mem[t] = "live" -> IF MemExpired(t) THEN "invalid" ELSE "ok"

\* RevokeAllForUser.
RevokeAll(store, u) ==
  [t \in Token |-> IF owner[t] = u /\ store[t] = "live" THEN "revoked" ELSE store[t]]

\* Postgres claims a live row before it looks at the expiry ...
PgConsumed(t) ==
  CASE pg[t] = "live" -> [pg EXCEPT ![t] = "revoked"]
    [] pg[t] = "revoked" -> RevokeAll(pg, owner[t])
    [] pg[t] = "none" -> pg

\* Mutant: reuse leaves the other tokens of the owner alone.
MemConsumedAlone(t) ==
  IF mem[t] = "live" /\ ~ MemExpired(t) THEN [mem EXCEPT ![t] = "revoked"] ELSE mem

\* ... the in-memory store only after.
MemConsumed(t) ==
  CASE mem[t] = "revoked" -> RevokeAll(mem, owner[t])
    [] mem[t] = "live" /\ ~ MemExpired(t) -> [mem EXCEPT ![t] = "revoked"]
    [] OTHER -> mem

StoreRefreshToken(t) ==
  /\ pg[t] = "none" /\ mem[t] = "none" /\ expires[t] = 0
  /\ expires' = [expires EXCEPT ![t] = now + TTL]
  /\ pg' = [pg EXCEPT ![t] = "live"]
  /\ mem' = [mem EXCEPT ![t] = "live"]
  /\ UNCHANGED <<now, owner, late>>

ConsumeRefreshToken(t) ==
  /\ pg' = PgConsumed(t) /\ mem' = MemConsumed(t)
  /\ late' = IF PgExpired(t) THEN late \cup {owner[t]} ELSE late
  /\ UNCHANGED <<now, owner, expires>>

RevokeRefreshToken(t) ==
  /\ pg' = [pg EXCEPT ![t] = IF @ = "none" THEN @ ELSE "revoked"]
  /\ mem' = [mem EXCEPT ![t] = IF @ = "none" THEN @ ELSE "revoked"]
  /\ UNCHANGED <<now, owner, expires, late>>

\* PurgeExpiredTokens: expires_at < now in seconds, After(expiresAt) in full.
PurgeExpiredTokens ==
  /\ pg' = [t \in Token |-> IF Seconds(expires[t]) < Seconds(now) THEN "none" ELSE pg[t]]
  /\ mem' = [t \in Token |-> IF MemExpired(t) THEN "none" ELSE mem[t]]
  /\ UNCHANGED <<now, owner, expires, late>>

Tick == now < MaxTime /\ now' = now + 1 /\ UNCHANGED <<owner, expires, pg, mem, late>>

Next ==
  \/ \E t \in Token : \/ StoreRefreshToken(t) \/ ConsumeRefreshToken(t)
                      \/ RevokeRefreshToken(t)
  \/ PurgeExpiredTokens \/ Tick
Spec == Init /\ [][Next]_vars

----------------------------------------------------------------------------
\* The tests run on the in-memory store and speak for the deployed one
\* (store_memory.go:121): as long as its owner has never presented a token past
\* its expiry, a token that has not expired gets the same answer from both
\* stores, whatever was stored, consumed, replayed, revoked and purged before.
StoresAgree ==
  \A t \in Token : ~ PgExpired(t) /\ owner[t] \notin late => PgAnswer(t) = MemAnswer(t)

\* And whoever presented what: the deployed store never lets in whom the tests'
\* store turns away, nor misses a reuse that it reports, at the boundary between
\* whole seconds and the exact time, past it, and after a purge by either clock.
PgIsStricter ==
  \A t \in Token : /\ PgAnswer(t) = "ok" => MemAnswer(t) = "ok"
                   /\ MemAnswer(t) = "reused" => PgAnswer(t) = "reused"

\* "Mirrors the Postgres implementation" (store_memory.go:121), taken as it is
\* said: what the reuse branch revokes is the same, so a token that has not
\* expired gets the same answer from both stores.  Postgres claims an expired
\* token before it looks at the expiry (store_postgres.go:148-174), so the second
\* time it is presented counts there as reuse, and ends the owner's sessions.
StoresMirror == \A t \in Token : ~ PgExpired(t) => PgAnswer(t) = MemAnswer(t)
============================================================================
