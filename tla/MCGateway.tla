----------------------------- MODULE MCGateway -----------------------------
(***************************************************************************)
(* Small instances of PgSessions with AccessTokens, MemSessions,           *)
(* StoreEquivalence and RateLimiter for TLC.  A behaviour works on one     *)
(* part, chosen at the start: the two kinds of sessions have the same      *)
(* variables, but a gateway has one store; the others read no variable of  *)
(* each other and rest as they began, for their interleavings could show   *)
(* nothing more.                                                           *)
(***************************************************************************)
EXTENDS AccessTokens, FiniteSets, Sequences, TLC

CONSTANTS MaxPgAccounts,   \* bound: accounts in Postgres
          TTL, MaxStoreTime,
          Proxy, Trusted, Limit, Interval, MaxLag, MaxLimiterTime, MaxAttempts

VARIABLES part,
          storeNow, storeOwner, storeExpires, pg, mem, storeLate, \* StoreEquivalence
          limiterNow, hits, waiting, reaper, log                  \* RateLimiter

stores == <<storeNow, storeOwner, storeExpires, pg, mem, storeLate>>
limiter == <<limiterNow, hits, waiting, reaper, log>>

Mem == INSTANCE MemSessions
Stores == INSTANCE StoreEquivalence
  WITH MaxTime <- MaxStoreTime, now <- storeNow, owner <- storeOwner, expires <- storeExpires,
       late <- storeLate
Limiter == INSTANCE RateLimiter
  WITH Client <- User, MaxTime <- MaxLimiterTime, now <- limiterNow

ASSUME GatewayAssumption ==
  Stores!StoreAssumption /\ Limiter!LimitAssumption /\ Limiter!TrustedAssumption

GatewayInit ==
  /\ part \in {"postgres", "memory", "stores", "limiter"}
  /\ Init /\ Mem!Init /\ Limiter!Init
  /\ \/ part = "stores" /\ Stores!Init
     \/ /\ part # "stores" /\ storeNow = 0 /\ storeOwner = 0 /\ storeExpires = 0
        /\ pg = 0 /\ mem = 0 /\ storeLate = 0

GatewayNext ==
  \/ /\ part = "postgres" /\ Next /\ Cardinality(accounts') <= MaxPgAccounts
     /\ UNCHANGED <<part, stores, limiter>>
  \/ part = "memory" /\ Mem!Next /\ UNCHANGED <<part, stores, limiter>>
  \/ part = "stores" /\ Stores!Next /\ UNCHANGED <<part, vars, limiter>>
  \/ part = "limiter" /\ Limiter!Next /\ UNCHANGED <<part, vars, stores>>
GatewaySpec == GatewayInit /\ [][GatewayNext]_<<part, vars, stores, limiter>>

StoresAgree == part = "stores" => Stores!StoresAgree
PgIsStricter == part = "stores" => Stores!PgIsStricter
BurstIsBounded == Limiter!BurstIsBounded
KeyBudget == Limiter!KeyBudget
RetryAfterSuffices == Limiter!RetryAfterSuffices

Symmetry == Permutations(User) \cup Permutations(Token) \cup Permutations(Request)
============================================================================
