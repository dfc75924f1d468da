---------------------------- MODULE RateLimiter ----------------------------
(***************************************************************************)
(* The fixed-window limiter on /auth/register and /auth/login              *)
(* (gateway/ratelimit.go), behind the proxies newRouter trusts.  A request *)
(* reads the clock before it takes the mutex and so does the reaper, hence *)
(* each is two steps; MaxLag bounds how many ticks the mutex is waited for.*)
(* A tick is half a second, because Retry-After is in whole seconds.       *)
(***************************************************************************)
EXTENDS Integers, Sequences, FiniteSets

CONSTANTS Client, Proxy,   \* callers, and the edge they all connect through
          Request,         \* slots for requests in flight at once
          Trusted,         \* TRUSTED_PROXIES: "unset", "*" or "list" (the edge)
          Limit, Interval, \* attempts per window, ticks per window
          MaxLag, MaxTime, MaxAttempts   \* bounds

LimitAssumption ==
  /\ Limit \in Nat \ {0} /\ Interval \in Nat \ {0}
  /\ {MaxLag, MaxTime, MaxAttempts} \subseteq Nat
TrustedAssumption == Trusted \in {"unset", "*", "list"} /\ Proxy \notin Client

VARIABLES now,
          hits,     \* the windows: [count, resetAt] for some of the keys
          waiting,  \* per request: its client and the clock it read before mu
          reaper,   \* the clock the reaper read, while it waits for mu
          log       \* history: every decision, in the order they were made

vars == <<now, hits, waiting, reaper, log>>

None == -1

\* c.ClientIP(): X-Forwarded-For counts only when the peer is trusted, and both
\* "*" and unset end in SetTrustedProxies(nil), which trusts nobody.
ClientIP(c) == IF Trusted = "list" THEN c ELSE Proxy
Key == {ClientIP(c) : c \in Client}

Init == /\ now = 0 /\ hits = << >> /\ reaper = None /\ log = << >>
        /\ waiting = [r \in Request |-> {}]

Arrive(r, c) ==
  /\ waiting[r] = {} /\ Len(log) < MaxAttempts
  /\ waiting' = [waiting EXCEPT ![r] = {[client |-> c, at |-> now]}]
  /\ UNCHANGED <<now, hits, reaper, log>>

Put(k, w) == [x \in DOMAIN hits \cup {k} |-> IF x = k THEN w ELSE hits[x]]

\* Mutant: the seconds rounded down.
RetryAfterDown(d) == 2 * (IF d < 0 THEN -((-d) \div 2) ELSE d \div 2)

\* strconv.Itoa(int(retryAfter.Seconds())+1), as ticks; int truncates to zero.
RetryAfter(d) == 2 * ((IF d < 0 THEN -((-d) \div 2) ELSE d \div 2) + 1)

Decide(r, q, ok, wait) ==
  /\ log' = Append(log, [client |-> q.client, at |-> q.at, made |-> now,
                         ok |-> ok, wait |-> wait])
  /\ waiting' = [waiting EXCEPT ![r] = {}]
  /\ UNCHANGED <<now, reaper>>

\* allow, with the mutex held, for the request q: a fresh window ...
AllowFresh(r, q) ==
  LET k == ClientIP(q.client) IN
  /\ k \in DOMAIN hits => q.at > hits[k].resetAt
  /\ hits' = Put(k, [count |-> 1, resetAt |-> q.at + Interval])
  /\ Decide(r, q, TRUE, 0)

\* Mutant: the last attempt of the budget is refused.
AllowCountedShort(r, q) ==
  LET k == ClientIP(q.client)
      n == hits[k].count + 1
  IN
  /\ k \in DOMAIN hits /\ q.at <= hits[k].resetAt
  /\ hits' = [hits EXCEPT ![k].count = n]
  /\ IF n >= Limit THEN Decide(r, q, FALSE, RetryAfter(hits[k].resetAt - now))
                   ELSE Decide(r, q, TRUE, 0)

\* ... or one more attempt in the current one, refused beyond the limit.
AllowCounted(r, q) ==
  LET k == ClientIP(q.client)
      n == hits[k].count + 1
  IN
  /\ k \in DOMAIN hits /\ q.at <= hits[k].resetAt
  /\ hits' = [hits EXCEPT ![k].count = n]
  /\ IF n > Limit THEN Decide(r, q, FALSE, RetryAfter(hits[k].resetAt - now))
                  ELSE Decide(r, q, TRUE, 0)

\* reap: the ticker fires, and later the sweep runs under the mutex.
ReapWakes ==
  /\ reaper = None /\ reaper' = now
  /\ UNCHANGED <<now, hits, waiting, log>>

\* Mutant: the sweep forgets windows that are still open.
ReapEverything ==
  /\ reaper # None /\ reaper' = None
  /\ hits' = << >>
  /\ UNCHANGED <<now, waiting, log>>

Reap ==
  /\ reaper # None /\ reaper' = None
  /\ hits' = [k \in {x \in DOMAIN hits : ~ reaper > hits[x].resetAt} |-> hits[k]]
  /\ UNCHANGED <<now, waiting, log>>

Tick ==
  /\ now < MaxTime /\ now' = now + 1
  /\ \A r \in Request : \A q \in waiting[r] : now' - q.at <= MaxLag
  /\ reaper # None => now' - reaper <= MaxLag
  /\ UNCHANGED <<hits, waiting, reaper, log>>

Next ==
  \/ \E r \in Request, c \in Client : Arrive(r, c)
  \/ \E r \in Request : \E q \in waiting[r] : AllowFresh(r, q) \/ AllowCounted(r, q)
  \/ ReapWakes \/ Reap \/ Tick
Spec == Init /\ [][Next]_vars

----------------------------------------------------------------------------
\* The attempts decided under a key, and those of them that were let through.
Attempts(k) == {i \in 1..Len(log) : ClientIP(log[i].client) = k}
Admitted(k) == {i \in Attempts(k) : log[i].ok}

\* "A determined attacker can burst 2x the limit across a boundary"
\* (ratelimit.go:17), and no more than that: two windows of a key never begin
\* within one interval, even if the first was reaped, so of its two budgets the
\* attempt that opened the earlier window is left out.  The clock being read
\* before the mutex, the interval this holds for is shorter by the lag on either
\* side.
BurstIsBounded ==
  \A c \in Client, s \in 0..MaxTime :
    Cardinality({i \in Admitted(ClientIP(c)) :
                   log[i].at \in s..(s + Interval - 2 * MaxLag)}) <= 2 * Limit - 1

\* "One noisy client can't lock everyone out" (auth_test.go:369), as far as the
\* address the limiter keys on tells clients apart, whoever is trusted: an
\* attempt is refused only if its own key has made Limit attempts within the
\* interval.  One of them may have read the clock before the one that opened the
\* window, by the lag at most.
KeyBudget ==
  \A i \in 1..Len(log) : ~ log[i].ok =>
    Limit <= Cardinality({j \in Attempts(ClientIP(log[i].client)) :
                            j < i /\ log[i].at - log[j].at <= Interval + MaxLag})

\* "Trusting it is what makes the auth rate limiter key on the actual caller
\* instead of the proxy" (main.go:162): so a client is refused only if it has
\* itself made Limit attempts within the interval.  This is what TRUSTED_PROXIES
\* naming the edge gives, and what the "*" of render.yaml:96 does not.
OwnBudget ==
  \A i \in 1..Len(log) : ~ log[i].ok =>
    Limit <= Cardinality({j \in 1..Len(log) :
      /\ j < i /\ log[j].client = log[i].client
      /\ log[i].at - log[j].at <= Interval + MaxLag})

\* A caller that waits as Retry-After tells it is not refused again because of
\* attempts made before: those after the answer have used up a whole budget.
RetryAfterSuffices ==
  \A i, j \in 1..Len(log) :
    /\ ~ log[i].ok /\ ~ log[j].ok
    /\ ClientIP(log[i].client) = ClientIP(log[j].client)
    /\ i < j /\ log[j].at >= log[i].made + log[i].wait
    => Limit <= Cardinality({m \in Attempts(ClientIP(log[j].client)) : i < m /\ m < j})
============================================================================
