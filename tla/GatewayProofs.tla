--------------------------- MODULE GatewayProofs ---------------------------
(***************************************************************************)
(* Theorems about the rate limiter and about the two stores side by side,  *)
(* for any callers, limit, interval, lag and number of attempts, any       *)
(* lifetime of a token and any bound of the clocks.                        *)
(***************************************************************************)
EXTENDS MCGateway, FiniteSetTheorems, SequenceTheorems, TLAPS

----------------------------------------------------------------------------
Window   == [count : Nat \ {0}, resetAt : Nat]
Decision == [client : User, at : Nat, made : Nat, ok : BOOLEAN, wait : Int]

\* The requests that wait for the mutex have read the clock MaxLag ticks ago at most,
\* and so has the reaper; a window was opened by now.
LimiterType ==
  /\ limiterNow \in Nat /\ log \in Seq(Decision) /\ reaper \in Nat \cup {Limiter!None}
  /\ waiting \in [Request -> SUBSET [client : User, at : Nat]]
  /\ DOMAIN hits \subseteq Limiter!Key /\ \A k \in DOMAIN hits : hits[k] \in Window
  /\ \A r \in Request : \A q \in waiting[r] : q.at <= limiterNow /\ limiterNow <= q.at + MaxLag
  /\ reaper # Limiter!None => reaper <= limiterNow
  /\ \A k \in DOMAIN hits : hits[k].resetAt <= limiterNow + Interval

\* The attempts under a key whose clock read x or later, those of them that were let
\* through, and the attempts decided after the i-th.
Since(k, x) == {i \in Limiter!Attempts(k) : log[i].at >= x}
Late(k, x)  == {i \in Limiter!Admitted(k) : log[i].at >= x}
After(k, i) == {m \in Limiter!Attempts(k) : i < m}
Within(k, s) == {i \in Limiter!Admitted(k) : log[i].at \in s..(s + Interval - 2 * MaxLag)}

\* How many of the n attempts counted in a window were let through.
Few(n) == IF n > Limit THEN Limit ELSE n

\* What the open window of a key has counted is in the log; and an attempt refused
\* earlier, whose Retry-After ends before the window does, came before all of it.
Counted(k) ==
  k \in DOMAIN hits =>
    /\ hits[k].count <= Cardinality(Since(k, hits[k].resetAt - Interval - MaxLag))
    /\ \A i \in Limiter!Attempts(k) : ~ log[i].ok
           /\ log[i].made + log[i].wait <= hits[k].resetAt
         => hits[k].count <= Cardinality(After(k, i))

\* What the open window has let through is all that is recent, but for Limit - 1 attempts
\* of the window before; and if none is open, or it is over, there are only these.  The
\* attempt that opened a window is always the one too old to be recent at its end.
Spaced(k) ==
  /\ k \in DOMAIN hits =>
       /\ \A i \in Limiter!Admitted(k) : log[i].at <= hits[k].resetAt
       /\ Cardinality(Late(k, hits[k].resetAt - Interval + MaxLag + 1))
            <= Few(hits[k].count) - 1
       /\ Cardinality(Late(k, limiterNow - Interval + MaxLag))
            <= Limit - 1 + Few(hits[k].count)
  /\ k \notin DOMAIN hits =>
       /\ \A i \in Limiter!Admitted(k) : log[i].at < limiterNow
       /\ Cardinality(Late(k, limiterNow - Interval + MaxLag)) <= Limit - 1
  /\ \A s \in Int : Cardinality(Within(k, s)) <= 2 * Limit - 1

\* A lag of half the interval leaves nothing to say of bursts.
LimiterInv ==
  /\ LimiterType
  /\ \A k \in Limiter!Key : Counted(k)
  /\ 2 * MaxLag <= Interval => \A k \in Limiter!Key : Spaced(k)
  /\ Limiter!KeyBudget
  /\ Limiter!RetryAfterSuffices

----------------------------------------------------------------------------
\* RateLimiter counts with the Cardinality of its own FiniteSets.
LEMMA SameCount == \A S : Limiter!Cardinality(S) = Cardinality(S)
BY DEF Limiter!Cardinality, Cardinality

\* Counting what is in the log, and what one more entry adds.
LEMMA Counting ==
  ASSUME NEW n \in Nat, NEW S \in SUBSET (1..n)
  PROVE  /\ Cardinality(S) \in Nat
         /\ Cardinality(S \cup {n + 1}) = Cardinality(S) + 1
         /\ \A T \in SUBSET S : Cardinality(T) \in Nat /\ Cardinality(T) <= Cardinality(S)
<1>1. IsFiniteSet(S)
  <2>1. IsFiniteSet(1..n)
    BY FS_Interval
  <2> QED
    BY <2>1, FS_Subset
<1>2. n + 1 \notin S
  OBVIOUS
<1> QED
  BY <1>1, <1>2, FS_CardinalityType, FS_AddElement, FS_Subset

\* strconv.Itoa(int(retryAfter.Seconds())+1) never names a time before the window ends.
LEMMA RetryAfterIsLater ==
  ASSUME NEW d \in Int PROVE Limiter!RetryAfter(d) \in Int /\ Limiter!RetryAfter(d) > d
BY DEF Limiter!RetryAfter

\* The sets above are of the log.
LEMMA OfTheLog ==
  ASSUME log \in Seq(Decision)
  PROVE  /\ Len(log) \in Nat
         /\ \A k : Limiter!Attempts(k) \subseteq 1..Len(log)
         /\ \A k : Limiter!Admitted(k) \subseteq Limiter!Attempts(k)
         /\ \A k, x : /\ Since(k, x) \in SUBSET (1..Len(log))
                      /\ Late(k, x) \in SUBSET (1..Len(log))
                      /\ After(k, x) \in SUBSET (1..Len(log))
                      /\ Within(k, x) \in SUBSET (1..Len(log))
BY DEF Limiter!Attempts, Limiter!Admitted, Since, Late, After, Within

\* An attempt's entry has the types of a decision.
LEMMA EntryType ==
  ASSUME LimiterType, NEW k, NEW i \in Limiter!Attempts(k)
  PROVE  i \in 1..Len(log) /\ log[i].at \in Nat /\ log[i].made \in Nat /\ log[i].wait \in Int
<1>1. i \in 1..Len(log) /\ log[i] \in Decision
  BY DEF LimiterType, Limiter!Attempts
<1> QED
  BY <1>1 DEF Decision

\* A decision adds one entry to the log, and to each set it belongs to.
New == Len(log) + 1
Enters(e) ==
  /\ e \in Decision /\ log' \in Seq(Decision) /\ Len(log') = New
  /\ log'[New] = e /\ \A i \in 1..Len(log) : log'[i] = log[i]
  /\ \A k : Limiter!Attempts(k)' = Limiter!Attempts(k)
         \cup (IF Limiter!ClientIP(e.client) = k THEN {New} ELSE {})
  /\ \A k : Limiter!Admitted(k)' = Limiter!Admitted(k)
         \cup (IF Limiter!ClientIP(e.client) = k /\ e.ok THEN {New} ELSE {})

\* What Append does to the log, to its attempts and to those let through.
LEMMA Appended ==
  ASSUME log \in Seq(Decision), NEW e \in Decision, log' = Append(log, e)
  PROVE  Enters(e)
<1>1. /\ log' \in Seq(Decision) /\ Len(log') = New /\ log'[New] = e /\ Len(log) \in Nat
      /\ \A i \in 1..Len(log) : log'[i] = log[i]
  BY AppendProperties DEF New
<1>2. 1..New = 1..Len(log) \cup {New} /\ New \notin 1..Len(log)
  BY <1>1 DEF New
<1>3. \A k : Limiter!Attempts(k)' = {i \in 1..New : Limiter!ClientIP(log'[i].client) = k}
  BY <1>1 DEF Limiter!Attempts, Limiter!ClientIP
<1>4. \A k : Limiter!Attempts(k)' = Limiter!Attempts(k)
          \cup (IF Limiter!ClientIP(e.client) = k THEN {New} ELSE {})
  BY <1>1, <1>2, <1>3 DEF Limiter!Attempts
<1>5. \A k : Limiter!Admitted(k)' = {i \in Limiter!Attempts(k)' : log'[i].ok}
  BY DEF Limiter!Admitted
<1>6. \A k : Limiter!Attempts(k) \subseteq 1..Len(log)
  BY DEF Limiter!Attempts
<1>7. \A k : Limiter!Admitted(k)' = Limiter!Admitted(k)
          \cup (IF Limiter!ClientIP(e.client) = k /\ e.ok THEN {New} ELSE {})
  BY <1>1, <1>2, <1>4, <1>5, <1>6 DEF Limiter!Admitted
<1> QED
  BY <1>1, <1>4, <1>7 DEF Enters

\* The two handlers record what they decide.
LEMMA Decided ==
  ASSUME LimiterType, NEW r \in Request, NEW q \in waiting[r], NEW ok \in BOOLEAN,
         NEW w \in Int, Limiter!Decide(r, q, ok, w)
  PROVE  \E e \in Decision :
           /\ e.client = q.client /\ e.at = q.at /\ e.made = limiterNow /\ e.ok = ok
                  /\ e.wait = w
           /\ Enters(e)
<1> DEFINE d == [client |-> q.client, at |-> q.at, made |-> limiterNow, ok |-> ok, wait |-> w]
<1>1. PICK e : e = d
  OBVIOUS
<1>2. e \in Decision /\ log' = Append(log, e) /\ log \in Seq(Decision)
  BY <1>1 DEF LimiterType, Decision, Limiter!Decide
<1>3. e.client = q.client /\ e.at = q.at /\ e.made = limiterNow /\ e.ok = ok /\ e.wait = w
  BY <1>1
<1>4. Enters(e)
  BY <1>2, Appended
<1> QED
  BY <1>2, <1>3, <1>4

\* A step that decides nothing leaves what is counted.
LEMMA SameLog ==
  ASSUME log' = log
  PROVE  \A k, x : /\ Limiter!Attempts(k)' = Limiter!Attempts(k)
                   /\ Limiter!Admitted(k)' = Limiter!Admitted(k)
                   /\ Since(k, x)' = Since(k, x) /\ Late(k, x)' = Late(k, x)
                   /\ After(k, x)' = After(k, x) /\ Within(k, x)' = Within(k, x)
BY DEF Limiter!Attempts, Limiter!Admitted, Since, Late, After, Within, Limiter!ClientIP

\* What a decision adds to what is counted: under its own key, and no other.
LEMMA EnteredOnce ==
  ASSUME LimiterType, NEW e, Enters(e)
  PROVE  /\ Len(log) \in Nat /\ New = Len(log) + 1 /\ New \notin 1..Len(log)
         /\ \A k : Limiter!Attempts(k) \subseteq 1..Len(log)
                /\ Limiter!Admitted(k) \subseteq 1..Len(log)
         /\ log'[New] = e /\ \A i \in 1..Len(log) : i < New /\ log'[i] = log[i]
         /\ e.client \in User /\ e.at \in Nat /\ e.made \in Nat /\ e.ok \in BOOLEAN
                /\ e.wait \in Int
<1>1. Len(log) \in Nat /\ New = Len(log) + 1
  BY OfTheLog DEF LimiterType, New
<1>2. log'[New] = e /\ e \in Decision
  BY DEF Enters
<1>3. e.client \in User /\ e.at \in Nat /\ e.made \in Nat /\ e.ok \in BOOLEAN /\ e.wait \in Int
  BY <1>2 DEF Decision
<1>4. \A i \in 1..Len(log) : log'[i] = log[i]
  BY DEF Enters
<1>5. \A k : Limiter!Attempts(k) \subseteq 1..Len(log)
          /\ Limiter!Admitted(k) \subseteq 1..Len(log)
  BY OfTheLog DEF LimiterType
<1>6. New \notin 1..Len(log) /\ \A i \in 1..Len(log) : i < New
  BY <1>1
<1> QED
  BY <1>1, <1>2, <1>4, <1>5, <1>6, <1>3

\* What the entry adds to the attempts since x ...
LEMMA SinceGrows ==
  ASSUME LimiterType, NEW e, Enters(e)
  PROVE  \A k, x : Since(k, x)' = Since(k, x)
                     \cup (IF Limiter!ClientIP(e.client) = k /\ e.at >= x THEN {New} ELSE {})
<1>1. \A k : Limiter!Attempts(k)' = Limiter!Attempts(k)
          \cup (IF Limiter!ClientIP(e.client) = k THEN {New} ELSE {})
  BY DEF Enters
<1>2. \A k, x : Since(k, x)' = {i \in Limiter!Attempts(k)' : log'[i].at >= x}
  BY DEF Since
<1> QED
  BY <1>1, <1>2, EnteredOnce DEF Since

\* ... to those of them that were let through ...
LEMMA LateGrows ==
  ASSUME LimiterType, NEW e, Enters(e)
  PROVE  \A k, x : Late(k, x)' = Late(k, x)
                     \cup (IF Limiter!ClientIP(e.client) = k /\ e.ok
                         /\ e.at >= x THEN {New} ELSE {})
<1>1. \A k : Limiter!Admitted(k)' = Limiter!Admitted(k)
          \cup (IF Limiter!ClientIP(e.client) = k /\ e.ok THEN {New} ELSE {})
  BY DEF Enters
<1>2. \A k, x : Late(k, x)' = {i \in Limiter!Admitted(k)' : log'[i].at >= x}
  BY DEF Late
<1> QED
  BY <1>1, <1>2, EnteredOnce DEF Late

\* ... to those within an interval ...
LEMMA WithinGrows ==
  ASSUME LimiterType, NEW e, Enters(e)
  PROVE  \A k, x : Within(k, x)' = Within(k, x)
           \cup (IF /\ Limiter!ClientIP(e.client) = k /\ e.ok
                    /\ e.at \in x..(x + Interval - 2 * MaxLag) THEN {New} ELSE {})
<1>1. \A k : Limiter!Admitted(k)' = Limiter!Admitted(k)
          \cup (IF Limiter!ClientIP(e.client) = k /\ e.ok THEN {New} ELSE {})
  BY DEF Enters
<1>2. \A k, x : Within(k, x)'
          = {i \in Limiter!Admitted(k)' : log'[i].at \in x..(x + Interval - 2 * MaxLag)}
  BY DEF Within
<1> QED
  BY <1>1, <1>2, EnteredOnce DEF Within

\* ... and to those after another.
LEMMA AfterGrows ==
  ASSUME LimiterType, NEW e, Enters(e)
  PROVE  \A k : \A i \in 1..Len(log) :
           After(k, i)' = After(k, i)
               \cup (IF Limiter!ClientIP(e.client) = k THEN {New} ELSE {})
<1>1. \A k : Limiter!Attempts(k)' = Limiter!Attempts(k)
          \cup (IF Limiter!ClientIP(e.client) = k THEN {New} ELSE {})
  BY DEF Enters
<1>2. \A k, x : After(k, x)' = {i \in Limiter!Attempts(k)' : x < i}
  BY DEF After
<1> QED
  BY <1>1, <1>2, EnteredOnce DEF After

\* The same, counted.
LEMMA SinceCounts ==
  ASSUME LimiterType, NEW e, Enters(e), NEW x, e.at >= x
  PROVE  /\ Cardinality(Since(Limiter!ClientIP(e.client), x)) \in Nat
         /\ Cardinality(Since(Limiter!ClientIP(e.client), x)')
                = Cardinality(Since(Limiter!ClientIP(e.client), x)) + 1
<1> DEFINE S == Since(Limiter!ClientIP(e.client), x)
<1>1. S \in SUBSET (1..Len(log))
  BY OfTheLog DEF LimiterType
<1>2. Since(Limiter!ClientIP(e.client), x)' = S \cup {New}
  BY SinceGrows
<1>3. Len(log) \in Nat /\ New = Len(log) + 1
  BY EnteredOnce
<1> QED
  BY <1>1, <1>2, <1>3, Counting

\* One more after any attempt under the same key.
LEMMA AfterCounts ==
  ASSUME LimiterType, NEW e, Enters(e), NEW i \in 1..Len(log)
  PROVE  /\ Cardinality(After(Limiter!ClientIP(e.client), i)) \in Nat
         /\ Cardinality(After(Limiter!ClientIP(e.client), i)')
                = Cardinality(After(Limiter!ClientIP(e.client), i)) + 1
<1> DEFINE S == After(Limiter!ClientIP(e.client), i)
<1>1. S \in SUBSET (1..Len(log))
  BY OfTheLog DEF LimiterType
<1>2. After(Limiter!ClientIP(e.client), i)' = S \cup {New}
  BY AfterGrows
<1>3. Len(log) \in Nat /\ New = Len(log) + 1
  BY EnteredOnce
<1> QED
  BY <1>1, <1>2, <1>3, Counting

\* At most one more of those let through, and none on a refusal.
LEMMA LateCounts ==
  ASSUME LimiterType, NEW e, Enters(e), NEW k, NEW x
  PROVE  /\ Cardinality(Late(k, x)) \in Nat /\ Cardinality(Late(k, x)') \in Nat
         /\ Cardinality(Late(k, x)') <= Cardinality(Late(k, x)) + (IF e.ok THEN 1 ELSE 0)
<1> DEFINE S == Late(k, x)
<1>1. S \in SUBSET (1..Len(log))
  BY OfTheLog DEF LimiterType
<1>2. Late(k, x)' = S \/ (e.ok /\ Late(k, x)' = S \cup {New})
  BY LateGrows
<1>3. Len(log) \in Nat /\ New = Len(log) + 1
  BY EnteredOnce
<1>4. Cardinality(S) \in Nat /\ Cardinality(S \cup {New}) = Cardinality(S) + 1
  BY <1>1, <1>3, Counting
<1>5. CASE Late(k, x)' = S
  BY <1>4, <1>5
<1>6. CASE e.ok /\ Late(k, x)' = S \cup {New}
  BY <1>4, <1>6
<1> QED
  BY <1>2, <1>5, <1>6

\* Of what is late, less is later.
LEMMA LateShrinks ==
  ASSUME LimiterType, NEW k, NEW x \in Int, NEW y \in Int, x <= y
  PROVE  /\ Cardinality(Late(k, x)) \in Nat /\ Cardinality(Late(k, y)) \in Nat
         /\ Cardinality(Late(k, y)) <= Cardinality(Late(k, x))
<1>1. ASSUME NEW i \in Limiter!Admitted(k) PROVE log[i].at \in Nat
  BY EntryType DEF Limiter!Admitted
<1>2. Late(k, y) \subseteq Late(k, x)
  BY <1>1 DEF Late
<1>3. Late(k, x) \in SUBSET (1..Len(log)) /\ Len(log) \in Nat
  BY OfTheLog DEF LimiterType
<1> QED
  BY <1>2, <1>3, Counting

\* A key that a decision is not under, and whose window it leaves, is as it was.
LEMMA OtherKeys ==
  ASSUME LimiterType, NEW e, Enters(e),
         NEW k \in Limiter!Key, Limiter!ClientIP(e.client) # k,
         k \in DOMAIN hits' <=> k \in DOMAIN hits, k \in DOMAIN hits => hits'[k] = hits[k],
         limiterNow' = limiterNow
  PROVE  /\ Counted(k) => Counted(k)'
         /\ Spaced(k) => Spaced(k)'
<1>1. \A x : Since(k, x)' = Since(k, x)
  <2>1. \A x : Since(k, x)' = Since(k, x)
                 \cup (IF Limiter!ClientIP(e.client) = k /\ e.at >= x THEN {New} ELSE {})
    BY SinceGrows
  <2> QED
    BY <2>1
<1>2. \A x : Late(k, x)' = Late(k, x)
  <2>1. \A x : Late(k, x)' = Late(k, x)
                 \cup (IF Limiter!ClientIP(e.client) = k /\ e.ok
                     /\ e.at >= x THEN {New} ELSE {})
    BY LateGrows
  <2> QED
    BY <2>1
<1>3. \A x : Within(k, x)' = Within(k, x)
  BY WithinGrows
<1>4. \A i \in 1..Len(log) : After(k, i)' = After(k, i)
  <2>1. \A i \in 1..Len(log) : After(k, i)' = After(k, i)
          \cup (IF Limiter!ClientIP(e.client) = k THEN {New} ELSE {})
    BY AfterGrows
  <2> QED
    BY <2>1
<1>5. /\ Limiter!Attempts(k)' = Limiter!Attempts(k)
             /\ Limiter!Admitted(k)' = Limiter!Admitted(k)
      /\ \A i \in 1..Len(log) : log'[i] = log[i]
  BY DEF Enters
<1>6. Limiter!Attempts(k) \subseteq 1..Len(log) /\ Limiter!Admitted(k) \subseteq 1..Len(log)
  BY EnteredOnce
<1>7. Counted(k) => Counted(k)'
  BY <1>1, <1>4, <1>5, <1>6 DEF Counted
<1>8. Spaced(k) => Spaced(k)'
  BY <1>2, <1>3, <1>5, <1>6 DEF Spaced
<1> QED
  BY <1>7, <1>8

\* As long as nothing is decided and no window changed, a later clock leaves less recent.
LEMMA ClockMovesOn ==
  ASSUME LimiterType, log' = log, limiterNow' \in Nat, limiterNow
             <= limiterNow', NEW k \in Limiter!Key,
         k \in DOMAIN hits' <=> k \in DOMAIN hits, k \in DOMAIN hits => hits'[k] = hits[k]
  PROVE  /\ Counted(k) => Counted(k)'
         /\ Spaced(k) => Spaced(k)'
<1> USE GatewayAssumption DEF Limiter!LimitAssumption
<1>1. \A x : /\ Limiter!Attempts(k)' = Limiter!Attempts(k)
             /\ Limiter!Admitted(k)' = Limiter!Admitted(k)
             /\ Since(k, x)' = Since(k, x) /\ Late(k, x)' = Late(k, x)
             /\ After(k, x)' = After(k, x) /\ Within(k, x)' = Within(k, x)
  BY SameLog
<1>2. Counted(k) => Counted(k)'
  BY <1>1 DEF Counted
<1>3. Late(k, limiterNow' - Interval + MaxLag) \subseteq Late(k, limiterNow - Interval + MaxLag)
  <2>1. ASSUME NEW i \in Limiter!Admitted(k) PROVE log[i].at \in Nat
    BY EntryType DEF Limiter!Admitted
  <2> QED
    BY <2>1 DEF Late, LimiterType
<1>4. /\ Cardinality(Late(k, limiterNow' - Interval + MaxLag))
           <= Cardinality(Late(k, limiterNow - Interval + MaxLag))
      /\ Cardinality(Late(k, limiterNow' - Interval + MaxLag)) \in Nat
      /\ Cardinality(Late(k, limiterNow - Interval + MaxLag)) \in Nat
  BY <1>3, OfTheLog, Counting DEF LimiterType
<1>5. ASSUME k \in DOMAIN hits PROVE Few(hits[k].count) \in Nat
  BY <1>5 DEF LimiterType, Window, Few
<1>6. ASSUME NEW i \in Limiter!Admitted(k)
      PROVE log'[i].at = log[i].at /\ (log[i].at < limiterNow => log[i].at < limiterNow')
  <2>1. log[i].at \in Nat
    BY EntryType DEF Limiter!Admitted
  <2> QED
    BY <2>1 DEF LimiterType
<1>7. ASSUME Spaced(k), k \in DOMAIN hits PROVE Spaced(k)'
  <2>1. Cardinality(Late(k, limiterNow' - Interval + MaxLag))
          <= Limit - 1 + Few(hits[k].count)
    BY <1>4, <1>5, <1>7 DEF Spaced
  <2> QED
    BY <1>1, <1>6, <1>7, <2>1 DEF Spaced
<1>8. ASSUME Spaced(k), k \notin DOMAIN hits PROVE Spaced(k)'
  <2>1. Cardinality(Late(k, limiterNow' - Interval + MaxLag)) <= Limit - 1
    BY <1>4, <1>8 DEF Spaced
  <2> QED
    BY <1>1, <1>6, <1>8, <2>1 DEF Spaced
<1> QED
  BY <1>2, <1>7, <1>8

\* A window never lets through more than the limit.
LEMMA FewType ==
  ASSUME NEW n \in Nat
  PROVE  /\ Few(n) \in Nat /\ Few(n) <= Limit /\ Limit \in Nat \ {0}
         /\ Few(n + 1) = IF n + 1 <= Limit THEN Few(n) + 1 ELSE Few(n)
         /\ Few(1) = 1
BY GatewayAssumption DEF Limiter!LimitAssumption, Few

\* Under its own key, a decision leaves at most two budgets less one within the interval that
\* holds its clock, if one more recent than that is accounted for.
LEMMA StillBounded ==
  ASSUME LimiterType, 2 * MaxLag
             <= Interval, NEW e, Enters(e), NEW k \in Limiter!Key, e.at \in Nat, limiterNow
                 <= e.at + MaxLag,
         \A s \in Int : Cardinality(Within(k, s)) <= 2 * Limit - 1,
         NEW x \in Int, x = limiterNow - Interval + MaxLag, Cardinality(Late(k, x)')
             <= 2 * Limit - 1
  PROVE  \A s \in Int : Cardinality(Within(k, s)') <= 2 * Limit - 1
<1> USE GatewayAssumption DEF Limiter!LimitAssumption
<1>1. ASSUME NEW s \in Int, Within(k, s)' # Within(k, s)
      PROVE  Cardinality(Within(k, s)') <= 2 * Limit - 1
  <2>1. e.at \in s..(s + Interval - 2 * MaxLag)
    BY <1>1, WithinGrows
  <2>2. s >= x
    BY <2>1 DEF LimiterType
  <2>3. log' \in Seq(Decision)
    BY DEF Enters
  <2>4. ASSUME NEW i \in Limiter!Admitted(k)' PROVE log'[i].at \in Nat /\ i \in 1..Len(log')
    <3>1. i \in 1..Len(log')
      BY <2>4 DEF Limiter!Admitted, Limiter!Attempts
    <3>2. log'[i] \in Decision
      BY <2>3, <3>1
    <3> QED
      BY <3>1, <3>2 DEF Decision
  <2>5. Within(k, s)' \subseteq Late(k, x)'
    BY <2>2, <2>4 DEF Within, Late
  <2>6. Late(k, x)' \in SUBSET (1..Len(log')) /\ Len(log') \in Nat
    BY <2>3, <2>4 DEF Late
  <2>7. /\ Cardinality(Within(k, s)') <= Cardinality(Late(k, x)')
        /\ Cardinality(Within(k, s)') \in Nat
        /\ Cardinality(Late(k, x)') \in Nat
    BY <2>5, <2>6, Counting
  <2> QED
    BY <2>7
<1> QED
  BY <1>1

\* The attempts before the i-th that the i-th is answered for, and those between two.
Mine(i) == {j \in 1..Len(log) :
              /\ j < i /\ Limiter!ClientIP(log[j].client) = Limiter!ClientIP(log[i].client)
              /\ log[i].at - log[j].at <= Interval + MaxLag}
Between(k, i, j) == {m \in Limiter!Attempts(k) : i < m /\ m < j}

\* One more decision leaves what is said of those made.
LEMMA PastDecisions ==
  ASSUME LimiterType, NEW e, Enters(e), NEW n, n = New
  PROVE  /\ n \in Nat /\ 1..Len(log') = 1..Len(log) \cup {n}
         /\ log'[n] = e /\ \A i \in 1..Len(log) : log'[i] = log[i] /\ i < n
         /\ \A i \in 1..Len(log) : Mine(i)' = Mine(i)
         /\ \A k : \A i, j \in 1..Len(log) : Between(k, i, j)' = Between(k, i, j)
         /\ Mine(n)' = {j \in Limiter!Attempts(Limiter!ClientIP(e.client)) :
                          e.at - log[j].at <= Interval + MaxLag}
         /\ \A i \in 1..Len(log) : Between(Limiter!ClientIP(e.client), i, n)'
                = After(Limiter!ClientIP(e.client), i)
<1>1. /\ n \in Nat /\ n \notin 1..Len(log) /\ ~ n < n
      /\ \A k : Limiter!Attempts(k) \subseteq 1..Len(log)
      /\ log'[n] = e /\ \A i \in 1..Len(log) : i < n /\ ~ n < i /\ log'[i] = log[i]
  BY EnteredOnce
<1>2. \A k : Limiter!Attempts(k)' = Limiter!Attempts(k)
          \cup (IF Limiter!ClientIP(e.client) = k THEN {n} ELSE {})
  BY DEF Enters
<1>3. 1..Len(log') = 1..Len(log) \cup {n}
  <2>1. Len(log') = n /\ Len(log) \in Nat /\ n = Len(log) + 1
    BY OfTheLog DEF Enters, New, LimiterType
  <2> QED
    BY <2>1
<1>4. \A i : Mine(i)' = {j \in 1..Len(log') :
          /\ j < i /\ Limiter!ClientIP(log'[j].client) = Limiter!ClientIP(log'[i].client)
          /\ log'[i].at - log'[j].at <= Interval + MaxLag}
  BY DEF Mine, Limiter!ClientIP
<1>5. \A i \in 1..Len(log) : Mine(i)' = Mine(i)
  BY <1>1, <1>3, <1>4 DEF Mine
<1>6. Mine(n)' = {j \in Limiter!Attempts(Limiter!ClientIP(e.client)) :
                    e.at - log[j].at <= Interval + MaxLag}
  BY <1>1, <1>3, <1>4 DEF Limiter!Attempts
<1>7. \A k, i, j : Between(k, i, j)' = {m \in Limiter!Attempts(k)' : i < m /\ m < j}
  BY DEF Between
<1>8. \A k : \A i, j \in 1..Len(log) : Between(k, i, j)' = Between(k, i, j)
  BY <1>1, <1>2, <1>7 DEF Between
<1>9. \A i \in 1..Len(log) : Between(Limiter!ClientIP(e.client), i, n)'
          = After(Limiter!ClientIP(e.client), i)
  BY <1>1, <1>2, <1>7 DEF After
<1> QED
  BY <1>1, <1>3, <1>5, <1>6, <1>8, <1>9

\* KeyBudget in these terms.
Budgeted == \A i \in 1..Len(log) : ~ log[i].ok => Limit <= Cardinality(Mine(i))

LEMMA BudgetIsMine == Limiter!KeyBudget <=> Budgeted
<1>1. \A i : Mine(i) = {j \in Limiter!Attempts(Limiter!ClientIP(log[i].client)) :
                         j < i /\ log[i].at - log[j].at <= Interval + MaxLag}
  BY DEF Mine, Limiter!Attempts
<1> QED
  BY <1>1, SameCount DEF Limiter!KeyBudget, Budgeted

\* KeyBudget asks something of the new decision only if it is a refusal ...
LEMMA BudgetHistory ==
  ASSUME LimiterType, NEW e, Enters(e), Limiter!KeyBudget,
         ~ e.ok => Limit <= Cardinality({j \in Limiter!Attempts(Limiter!ClientIP(e.client)) :
                                           e.at - log[j].at <= Interval + MaxLag})
  PROVE  Limiter!KeyBudget'
<1>1. PICK n : n = New
  OBVIOUS
<1>2. \A i \in 1..Len(log) : ~ log[i].ok => Limit <= Cardinality(Mine(i))
  BY BudgetIsMine DEF Budgeted
<1>3. \A i \in 1..Len(log) : ~ log'[i].ok => Limit <= Cardinality(Mine(i)')
  BY <1>1, <1>2, PastDecisions
<1>4. ~ log'[n].ok => Limit <= Cardinality(Mine(n)')
  BY <1>1, PastDecisions
<1>5. \A i \in 1..Len(log') : ~ log'[i].ok => Limit <= Cardinality(Mine(i)')
  BY <1>1, <1>3, <1>4, PastDecisions
<1>6. Budgeted'
  BY <1>5 DEF Budgeted
<1> QED
  BY <1>6, BudgetIsMine, PTL

\* ... and so does RetryAfterSuffices.
LEMMA RetryHistory ==
  ASSUME LimiterType, NEW e, Enters(e), Limiter!RetryAfterSuffices,
         ~ e.ok => \A i \in Limiter!Attempts(Limiter!ClientIP(e.client)) :
                     ~ log[i].ok /\ log[i].made + log[i].wait <= e.at
                       => Limit <= Cardinality(After(Limiter!ClientIP(e.client), i))
  PROVE  Limiter!RetryAfterSuffices'
<1>1. PICK n : n = New
  OBVIOUS
<1>2. \A i, j \in 1..Len(log) :
        /\ ~ log[i].ok /\ ~ log[j].ok
               /\ Limiter!ClientIP(log[i].client) = Limiter!ClientIP(log[j].client)
        /\ i < j /\ log[j].at >= log[i].made + log[i].wait
        => Limit <= Cardinality(Between(Limiter!ClientIP(log[j].client), i, j))
  BY SameCount DEF Limiter!RetryAfterSuffices, Between
<1>3. ASSUME NEW i \in 1..Len(log'), NEW j \in 1..Len(log'), NEW k, k
                 = Limiter!ClientIP(log'[j].client),
             ~ log'[i].ok, ~ log'[j].ok, Limiter!ClientIP(log'[i].client) = k,
             i < j, log'[j].at >= log'[i].made + log'[i].wait
      PROVE  Limit <= Cardinality(Between(k, i, j)')
  <2>1. CASE j \in 1..Len(log)
    <3>1. i \in 1..Len(log)
      BY <1>1, <1>3, <2>1, PastDecisions
    <3>2. log'[i] = log[i] /\ log'[j] = log[j] /\ Between(k, i, j)' = Between(k, i, j)
      BY <1>1, <2>1, <3>1, PastDecisions
    <3> QED
      BY <1>2, <1>3, <2>1, <3>1, <3>2
  <2>2. CASE j = n
    <3>1. i \in 1..Len(log) /\ log'[i] = log[i] /\ log'[j] = e
      BY <1>1, <1>3, <2>2, PastDecisions
    <3>2. i \in Limiter!Attempts(k) /\ k = Limiter!ClientIP(e.client)
      BY <1>3, <3>1 DEF Limiter!Attempts
    <3>3. Limit <= Cardinality(After(k, i))
      <4>1. log[i].made \in Nat /\ log[i].wait \in Int /\ e.at \in Nat
        BY <3>2, EntryType, EnteredOnce
      <4> QED
        BY <1>3, <3>1, <3>2, <4>1
    <3>4. Between(k, i, j)' = After(k, i)
      BY <1>1, <2>2, <3>1, <3>2, PastDecisions
    <3> QED
      BY <3>3, <3>4
  <2> QED
    BY <1>1, <2>1, <2>2, PastDecisions
<1>4. \A i, j \in 1..Len(log') :
        /\ ~ log'[i].ok /\ ~ log'[j].ok
               /\ Limiter!ClientIP(log'[i].client) = Limiter!ClientIP(log'[j].client)
        /\ i < j /\ log'[j].at >= log'[i].made + log'[i].wait
        => Limit <= Cardinality({m \in {x \in 1..Len(log') : Limiter!ClientIP(log'[x].client) =
                                          Limiter!ClientIP(log'[j].client)} : i < m /\ m < j})
  <2>1. \A k, i, j : Between(k, i, j)' =
          {m \in {x \in 1..Len(log') : Limiter!ClientIP(log'[x].client) = k} : i < m /\ m < j}
    BY DEF Between, Limiter!Attempts, Limiter!ClientIP
  <2> QED
    BY <1>3, <2>1
<1> QED
  BY <1>4, SameCount DEF Limiter!RetryAfterSuffices, Limiter!Attempts, Limiter!ClientIP

\* The windows after a decision.
LEMMA PutWindow ==
  ASSUME NEW k, NEW w, hits' = Limiter!Put(k, w)
  PROVE  /\ DOMAIN hits' = DOMAIN hits \cup {k} /\ hits'[k] = w
         /\ \A j \in DOMAIN hits : j # k => hits'[j] = hits[j]
BY DEF Limiter!Put

\* allow for a request that finds no window, or one that is over.
LEMMA FreshKeeps ==
  ASSUME LimiterInv, NEW r \in Request, NEW q \in waiting[r], Limiter!AllowFresh(r, q)
  PROVE  LimiterInv'
<1> USE GatewayAssumption DEF Limiter!LimitAssumption
<1>1. q.client \in User /\ q.at \in Nat /\ q.at <= limiterNow /\ limiterNow <= q.at + MaxLag
  BY DEF LimiterInv, LimiterType
<1>2. PICK k : k = Limiter!ClientIP(q.client)
  OBVIOUS
<1>3. LimiterType
  BY DEF LimiterInv
<1>4. Limiter!Decide(r, q, TRUE, 0)
  BY DEF Limiter!AllowFresh
<1>5. UNCHANGED <<limiterNow, reaper>> /\ waiting' = [waiting EXCEPT ![r] = {}]
  BY <1>4 DEF Limiter!Decide
<1>6. PICK e \in Decision : /\ e.client = q.client /\ e.at = q.at /\ e.ok = TRUE
                            /\ Enters(e)
  <2>1. TRUE \in BOOLEAN /\ 0 \in Int
    OBVIOUS
  <2> QED
    BY <1>3, <1>4, <2>1, Decided
<1>7. hits' = Limiter!Put(k, [count |-> 1, resetAt |-> q.at + Interval])
  BY <1>2 DEF Limiter!AllowFresh
<1>8. k \in DOMAIN hits => q.at > hits[k].resetAt
  BY <1>2 DEF Limiter!AllowFresh
<1>9. k \in Limiter!Key
  BY <1>1, <1>2 DEF Limiter!Key
<1>10. /\ DOMAIN hits' = DOMAIN hits \cup {k}
      /\ hits'[k] = [count |-> 1, resetAt |-> q.at + Interval]
      /\ \A j \in DOMAIN hits : j # k => hits'[j] = hits[j]
  BY <1>7, PutWindow
<1>11. hits'[k].count = 1 /\ hits'[k].resetAt = q.at + Interval /\ hits'[k] \in Window
  BY <1>1, <1>10 DEF Window
<1>12. LimiterType'
  BY <1>1, <1>3, <1>6, <1>9, <1>10, <1>11, <1>5 DEF LimiterType, Enters
<1>13. limiterNow' = limiterNow /\ limiterNow \in Nat
  BY <1>3, <1>5 DEF LimiterType
<1>14. /\ Limiter!Attempts(k)' = Limiter!Attempts(k) \cup {New}
              /\ Limiter!Admitted(k)' = Limiter!Admitted(k) \cup {New}
  BY <1>2, <1>6 DEF Enters
<1>15. /\ log'[New].ok = TRUE /\ log'[New].at = q.at
       /\ \A i \in 1..Len(log) : log'[i] = log[i]
       /\ Limiter!Attempts(k) \subseteq 1..Len(log) /\ Limiter!Admitted(k) \subseteq 1..Len(log)
  BY <1>3, <1>6, <1>13, EnteredOnce
<1>16. Counted(k)'
  <2>1. PICK x : x = q.at + Interval - Interval - MaxLag
    OBVIOUS
  <2>2. Cardinality(Since(k, x)') >= 1
    <3>1. q.at >= x
      BY <1>1, <2>1
    <3> QED
      BY <1>2, <1>3, <1>6, <1>13, <3>1, SinceCounts
  <2>3. ASSUME NEW i \in Limiter!Attempts(k)', ~ log'[i].ok PROVE Cardinality(After(k, i)') >= 1
    <3>1. i \in 1..Len(log)
      BY <1>14, <1>15, <2>3
    <3> QED
      BY <1>2, <1>3, <1>6, <1>13, <3>1, AfterCounts
  <2>4. Cardinality(Since(k, hits[k].resetAt - Interval - MaxLag)') >= 1
    <3>1. \A R : R = q.at + Interval => x = R - Interval - MaxLag
      BY <1>1, <2>1
    <3>2. x = hits'[k].resetAt - Interval - MaxLag
      BY <1>11, <3>1
    <3> QED
      BY <2>2, <3>2
  <2> QED
    BY <1>11, <2>3, <2>4 DEF Counted
<1>17. ASSUME 2 * MaxLag <= Interval PROVE Spaced(k)'
  <2>1. Spaced(k)
    BY <1>9, <1>17 DEF LimiterInv
  <2>2. PICK x \in Int : x = limiterNow - Interval + MaxLag
    BY <1>13
  <2>3. PICK y \in Int : y = q.at + Interval - Interval + MaxLag + 1
    BY <1>1
  <2>4. ASSUME NEW i \in Limiter!Admitted(k)
        PROVE  log[i].at \in Nat /\ (log[i].at < limiterNow \/ log[i].at < q.at)
    <3>1. log[i].at \in Nat
      BY <1>3, EntryType DEF Limiter!Admitted
    <3>2. CASE k \in DOMAIN hits
      <4>1. log[i].at <= hits[k].resetAt /\ hits[k].resetAt \in Nat
        BY <1>3, <2>1, <3>2 DEF Spaced, LimiterType, Window
      <4> QED
        BY <1>1, <1>8, <3>1, <3>2, <4>1
    <3>3. CASE k \notin DOMAIN hits
      BY <2>1, <3>1, <3>3 DEF Spaced
    <3> QED
      BY <3>2, <3>3
  <2>5. Late(k, y) = {}
    BY <1>1, <1>13, <2>3, <2>4 DEF Late
  <2>6. Cardinality(Late(k, y)') = 0
    <3>1. Late(k, y)' = Late(k, y) \cup (IF Limiter!ClientIP(e.client) = k /\ e.ok
                                           /\ e.at >= y THEN {New} ELSE {})
      BY <1>3, <1>6, LateGrows
    <3>2. ~ e.at >= y
      BY <1>1, <1>6, <2>3
    <3>3. Late(k, y)' = {}
      BY <2>5, <3>1, <3>2
    <3> QED
      BY <3>3, FS_EmptySet
  <2>7. Cardinality(Late(k, x)) <= Limit - 1
    <3>1. CASE k \notin DOMAIN hits
      BY <2>1, <2>2, <3>1 DEF Spaced
    <3>2. CASE k \in DOMAIN hits
      <4>1. hits[k].resetAt \in Nat /\ hits[k].count \in Nat
        BY <1>3, <3>2 DEF LimiterType, Window
      <4>2. hits[k].resetAt < limiterNow
        BY <1>1, <1>8, <1>13, <3>2, <4>1
      <4>3. PICK z \in Int : z = hits[k].resetAt - Interval + MaxLag + 1
        BY <4>1
      <4>4. z <= x
        BY <1>13, <2>2, <4>1, <4>2, <4>3
      <4>5. /\ Cardinality(Late(k, x)) \in Nat /\ Cardinality(Late(k, z)) \in Nat
            /\ Cardinality(Late(k, x)) <= Cardinality(Late(k, z))
        BY <1>3, <4>4, LateShrinks
      <4>6. Cardinality(Late(k, z)) <= Few(hits[k].count) - 1
        BY <2>1, <3>2, <4>3 DEF Spaced
      <4>7. Few(hits[k].count) \in Nat /\ Few(hits[k].count) <= Limit
        BY <4>1, FewType
      <4> QED
        BY <4>5, <4>6, <4>7
    <3> QED
      BY <3>1, <3>2
  <2>8. Cardinality(Late(k, x)') <= Limit
    <3>1. /\ Cardinality(Late(k, x)) \in Nat /\ Cardinality(Late(k, x)') \in Nat
          /\ Cardinality(Late(k, x)') <= Cardinality(Late(k, x)) + 1
      BY <1>3, <1>6, <1>13, LateCounts
    <3> QED
      BY <2>7, <3>1
  <2>9. \A s \in Int : Cardinality(Within(k, s)') <= 2 * Limit - 1
    <3>1. Cardinality(Late(k, x)') <= 2 * Limit - 1
      <4>1. Cardinality(Late(k, x)') \in Nat
        BY <1>3, <1>6, <1>13, LateCounts
      <4> QED
        BY <2>8, <4>1
    <3>2. \A s \in Int : Cardinality(Within(k, s)) <= 2 * Limit - 1
      BY <2>1 DEF Spaced
    <3> QED
      BY <1>1, <1>3, <1>6, <1>9, <1>13, <1>17, <2>2, <3>1, <3>2, StillBounded
  <2>10. \A i \in Limiter!Admitted(k)' : log'[i].at <= q.at + Interval
    <3>1. ASSUME NEW i \in Limiter!Admitted(k) PROVE log'[i].at <= q.at + Interval
      <4>1. log'[i] = log[i]
        BY <1>15
      <4>2. log[i].at \in Nat /\ log[i].at <= q.at + Interval
        BY <1>1, <1>13, <1>17, <2>4
      <4> QED
        BY <4>1, <4>2
    <3>2. log'[New].at <= q.at + Interval
      BY <1>1, <1>15
    <3> QED
      BY <1>14, <3>1, <3>2
  <2>11. Few(1) = 1
    BY FewType
  <2>12. /\ Cardinality(Late(k, hits[k].resetAt - Interval + MaxLag + 1)') <= 1 - 1
         /\ Cardinality(Late(k, limiterNow - Interval + MaxLag)') <= Limit - 1 + 1
    <3>1. \A R : R = q.at + Interval => y = R - Interval + MaxLag + 1
      BY <1>1, <2>3
    <3>2. y = hits'[k].resetAt - Interval + MaxLag + 1
      BY <1>11, <3>1
    <3>3. x = limiterNow' - Interval + MaxLag
      BY <1>13, <2>2
    <3> QED
      BY <2>6, <2>8, <3>2, <3>3
  <2> QED
    BY <1>10, <1>11, <2>9, <2>10, <2>11, <2>12 DEF Spaced
<1>18. ASSUME NEW j \in Limiter!Key, j # k
       PROVE  (Counted(j) => Counted(j)') /\ (Spaced(j) => Spaced(j)')
  <2>1. Limiter!ClientIP(q.client) # j
    BY <1>2, <1>18
  <2>2. (j \in DOMAIN hits' <=> j \in DOMAIN hits) /\ (j \in DOMAIN hits => hits'[j] = hits[j])
    BY <1>10, <1>18
  <2> QED
    BY <1>3, <1>6, <1>13, <2>1, <2>2, OtherKeys
<1>19. (Limiter!KeyBudget => Limiter!KeyBudget')
           /\ (Limiter!RetryAfterSuffices => Limiter!RetryAfterSuffices')
  <2>1. e.ok
    BY <1>6
  <2> QED
    BY <1>3, <1>6, <2>1, BudgetHistory, RetryHistory
<1> QED
  BY <1>12, <1>16, <1>17, <1>18, <1>19 DEF LimiterInv

\* allow for a request whose key has an open window: counted, and beyond the limit refused.
LEMMA CountedKeeps ==
  ASSUME LimiterInv, NEW r \in Request, NEW q \in waiting[r], Limiter!AllowCounted(r, q)
  PROVE  LimiterInv'
<1> USE GatewayAssumption DEF Limiter!LimitAssumption
<1>1. q.client \in User /\ q.at \in Nat /\ q.at <= limiterNow /\ limiterNow <= q.at + MaxLag
  BY DEF LimiterInv, LimiterType
<1>2. PICK k : k = Limiter!ClientIP(q.client)
  OBVIOUS
<1>3. LimiterType /\ limiterNow \in Nat
  BY DEF LimiterInv, LimiterType
<1>4. k \in DOMAIN hits /\ q.at <= hits[k].resetAt
  BY <1>2 DEF Limiter!AllowCounted
<1>5. PICK c, R : c = hits[k].count /\ R = hits[k].resetAt
  OBVIOUS
<1>6. c \in Nat \ {0} /\ R \in Nat /\ q.at <= R /\ R <= limiterNow + Interval
          /\ hits[k] \in Window
  BY <1>3, <1>4, <1>5 DEF LimiterType, Window
<1>7. hits' = [hits EXCEPT ![k].count = c + 1]
  BY <1>2, <1>5 DEF Limiter!AllowCounted
<1>8. PICK ok \in BOOLEAN, w \in Int :
        /\ Limiter!Decide(r, q, ok, w) /\ (ok <=> c + 1 <= Limit)
        /\ ~ ok => w = Limiter!RetryAfter(R - limiterNow)
  <2>1. IF c + 1 > Limit THEN Limiter!Decide(r, q, FALSE, Limiter!RetryAfter(R - limiterNow))
                         ELSE Limiter!Decide(r, q, TRUE, 0)
    BY <1>2, <1>5 DEF Limiter!AllowCounted
  <2>2. Limiter!RetryAfter(R - limiterNow) \in Int /\ 0 \in Int /\ TRUE \in BOOLEAN
            /\ FALSE \in BOOLEAN
    BY <1>3, <1>6, RetryAfterIsLater
  <2>3. CASE c + 1 > Limit
    <3>1. Limiter!Decide(r, q, FALSE, Limiter!RetryAfter(R - limiterNow))
      BY <2>1, <2>3, Zenon
    <3>2. ~ (c + 1 <= Limit)
      BY <1>6, <2>3
    <3>3. Limiter!Decide(r, q, FALSE, Limiter!RetryAfter(R - limiterNow)) /\ ~ (c + 1 <= Limit)
      BY <3>1, <3>2, Zenon
    <3>4. FALSE <=> c + 1 <= Limit
      BY <3>3
    <3> QED
      BY <2>2, <3>3, <3>4, Zenon
  <2>4. CASE ~ (c + 1 > Limit)
    <3>1. Limiter!Decide(r, q, TRUE, 0)
      BY <2>1, <2>4, Zenon
    <3>2. c + 1 <= Limit
      BY <1>6, <2>4
    <3>3. Limiter!Decide(r, q, TRUE, 0) /\ c + 1 <= Limit
      BY <3>1, <3>2, Zenon
    <3>4. (TRUE <=> c + 1 <= Limit) /\ (~ TRUE => 0 = Limiter!RetryAfter(R - limiterNow))
      BY <3>3
    <3> QED
      BY <2>2, <3>3, <3>4, Zenon
  <2> QED
    BY <2>3, <2>4
<1>9. limiterNow' = limiterNow /\ reaper' = reaper /\ waiting' = [waiting EXCEPT ![r] = {}]
  BY <1>8 DEF Limiter!Decide
<1>10. PICK e \in Decision : /\ e.client = q.client /\ e.at = q.at /\ e.made = limiterNow
                             /\ e.ok = ok /\ e.wait = w /\ Enters(e)
  BY <1>3, <1>8, Decided
<1>11. /\ DOMAIN hits' = DOMAIN hits /\ hits'[k].count = c + 1 /\ hits'[k].resetAt = R
       /\ hits'[k] \in Window /\ \A j \in DOMAIN hits : j # k => hits'[j] = hits[j]
  <2>1. DOMAIN hits' = DOMAIN hits /\ \A j \in DOMAIN hits : j # k => hits'[j] = hits[j]
    BY <1>7
  <2>2. hits'[k] = [hits[k] EXCEPT !.count = c + 1]
    BY <1>4, <1>7
  <2> QED
    BY <1>5, <1>6, <2>1, <2>2 DEF Window
<1>12. LimiterType'
  <2>1. \A j \in DOMAIN hits : hits'[j] \in Window /\ hits'[j].resetAt <= limiterNow + Interval
    BY <1>3, <1>6, <1>11 DEF LimiterType
  <2> QED
    BY <1>1, <1>3, <1>9, <1>10, <1>11, <2>1 DEF LimiterType, Enters
<1>13. k \in Limiter!Key
  BY <1>1, <1>2 DEF Limiter!Key
<1>14. /\ Limiter!Attempts(k)' = Limiter!Attempts(k) \cup {New}
       /\ Limiter!Admitted(k)' = Limiter!Admitted(k) \cup (IF ok THEN {New} ELSE {})
  BY <1>2, <1>10 DEF Enters
<1>15. /\ log'[New] = e /\ \A i \in 1..Len(log) : log'[i] = log[i]
       /\ Limiter!Attempts(k) \subseteq 1..Len(log) /\ Limiter!Admitted(k) \subseteq 1..Len(log)
  BY <1>3, <1>10, EnteredOnce
<1>16. Counted(k)
  BY <1>13 DEF LimiterInv
<1>17. Counted(k)'
  <2>1. PICK x : x = R - Interval - MaxLag
    OBVIOUS
  <2>2. Cardinality(Since(k, x)') >= c + 1
    <3>1. e.at >= x
      BY <1>1, <1>3, <1>6, <1>10, <2>1
    <3>2. c <= Cardinality(Since(k, x))
      BY <1>4, <1>5, <1>16, <2>1 DEF Counted
    <3>3. /\ Cardinality(Since(k, x)) \in Nat
          /\ Cardinality(Since(k, x)') = Cardinality(Since(k, x)) + 1
      BY <1>2, <1>3, <1>10, <3>1, SinceCounts
    <3> QED
      BY <1>6, <3>2, <3>3
  <2>3. ASSUME NEW i \in Limiter!Attempts(k)', ~ log'[i].ok, log'[i].made + log'[i].wait <= R
        PROVE  Cardinality(After(k, i)') >= c + 1
    <3>1. CASE i = New
      <4>1. w > R - limiterNow /\ w \in Int
        <5>1. ~ e.ok
          BY <1>15, <2>3, <3>1
        <5>2. w = Limiter!RetryAfter(R - limiterNow)
          BY <1>8, <1>10, <5>1
        <5>3. R - limiterNow \in Int
          BY <1>3, <1>6
        <5> QED
          BY <5>2, <5>3, RetryAfterIsLater
      <4>2. limiterNow + w <= R
        BY <1>10, <1>15, <2>3, <3>1
      <4> QED
        BY <1>3, <1>6, <4>1, <4>2
    <3>2. CASE i \in Limiter!Attempts(k)
      <4>1. i \in 1..Len(log) /\ log'[i] = log[i]
        BY <1>15, <3>2
      <4>2. c <= Cardinality(After(k, i))
        BY <1>4, <1>5, <1>16, <2>3, <3>2, <4>1 DEF Counted
      <4>3. /\ Cardinality(After(k, i)) \in Nat
            /\ Cardinality(After(k, i)') = Cardinality(After(k, i)) + 1
        BY <1>2, <1>3, <1>10, <4>1, AfterCounts
      <4> QED
        BY <1>6, <4>2, <4>3
    <3> QED
      BY <1>14, <2>3, <3>1, <3>2
  <2>4. x = hits'[k].resetAt - Interval - MaxLag
    BY <1>11, <2>1
  <2> QED
    BY <1>11, <2>2, <2>3, <2>4 DEF Counted
<1>18. Few(c) \in Nat /\ Few(c) <= Limit /\ Few(c + 1) \in Nat /\ Few(c + 1) <= Limit
       /\ Few(c + 1) = IF ok THEN Few(c) + 1 ELSE Few(c)
  BY <1>6, <1>8, FewType
<1>19. ASSUME 2 * MaxLag <= Interval PROVE Spaced(k)'
  <2>1. Spaced(k)
    BY <1>13, <1>19 DEF LimiterInv
  <2>2. PICK x \in Int : x = limiterNow - Interval + MaxLag
    BY <1>3
  <2>3. PICK y \in Int : y = R - Interval + MaxLag + 1
    BY <1>6
  <2>4. /\ Cardinality(Late(k, x)) <= Limit - 1 + Few(c)
        /\ Cardinality(Late(k, y)) <= Few(c) - 1
    BY <1>4, <1>5, <2>1, <2>2, <2>3 DEF Spaced
  <2>5. ASSUME NEW z
        PROVE  /\ Cardinality(Late(k, z)) \in Nat /\ Cardinality(Late(k, z)') \in Nat
               /\ Cardinality(Late(k, z)') <= Cardinality(Late(k, z)) + (IF ok THEN 1 ELSE 0)
    BY <1>3, <1>10, LateCounts
  <2>6. Cardinality(Late(k, x)') <= Limit - 1 + Few(c + 1)
    BY <1>18, <2>4, <2>5
  <2>7. Cardinality(Late(k, y)') <= Few(c + 1) - 1
    BY <1>18, <2>4, <2>5
  <2>8. \A s \in Int : Cardinality(Within(k, s)') <= 2 * Limit - 1
    <3>1. Cardinality(Late(k, x)') <= 2 * Limit - 1
      BY <1>18, <2>5, <2>6
    <3>2. \A s \in Int : Cardinality(Within(k, s)) <= 2 * Limit - 1
      BY <2>1 DEF Spaced
    <3>3. e.at \in Nat /\ limiterNow <= e.at + MaxLag
      BY <1>1, <1>10
    <3> QED
      BY <1>3, <1>10, <1>13, <1>19, <2>2, <3>1, <3>2, <3>3, StillBounded
  <2>9. \A i \in Limiter!Admitted(k)' : log'[i].at <= R
    <3>1. ASSUME NEW i \in Limiter!Admitted(k) PROVE log'[i].at <= R
      BY <1>4, <1>5, <1>15, <2>1, <3>1 DEF Spaced
    <3>2. log'[New].at <= R
      BY <1>6, <1>10, <1>15
    <3> QED
      BY <1>14, <3>1, <3>2
  <2>10. y = hits'[k].resetAt - Interval + MaxLag + 1 /\ x = limiterNow' - Interval + MaxLag
    BY <1>9, <1>11, <2>2, <2>3
  <2> QED
    BY <1>4, <1>11, <2>6, <2>7, <2>8, <2>9, <2>10 DEF Spaced
<1>20. ASSUME NEW j \in Limiter!Key, j # k
       PROVE  (Counted(j) => Counted(j)') /\ (Spaced(j) => Spaced(j)')
  <2>1. Limiter!ClientIP(e.client) # j
    BY <1>2, <1>10, <1>20
  <2>2. (j \in DOMAIN hits' <=> j \in DOMAIN hits) /\ (j \in DOMAIN hits => hits'[j] = hits[j])
    BY <1>11, <1>20
  <2> QED
    BY <1>3, <1>9, <1>10, <2>1, <2>2, OtherKeys
<1>21. ASSUME Limiter!KeyBudget PROVE Limiter!KeyBudget'
  <2>1. ASSUME ~ e.ok
        PROVE  Limit <= Cardinality({j \in Limiter!Attempts(Limiter!ClientIP(e.client)) :
                                       e.at - log[j].at <= Interval + MaxLag})
    <3> DEFINE S == Since(k, R - Interval - MaxLag)
               T == {j \in Limiter!Attempts(k) : e.at - log[j].at <= Interval + MaxLag}
    <3>1. c >= Limit
      BY <1>6, <1>8, <1>10, <2>1
    <3>2. c <= Cardinality(S)
      BY <1>4, <1>5, <1>16 DEF Counted
    <3>3. ASSUME NEW j \in S PROVE j \in T
      <4>1. j \in Limiter!Attempts(k) /\ log[j].at >= R - Interval - MaxLag
        BY DEF Since
      <4>2. log[j].at \in Nat
        BY <1>3, <4>1, EntryType
      <4> QED
        BY <1>1, <1>6, <1>10, <4>1, <4>2
    <3>4. S \subseteq T /\ T \in SUBSET (1..Len(log)) /\ Len(log) \in Nat
      BY <1>3, <1>15, <3>3, OfTheLog DEF LimiterType
    <3>5. Cardinality(S) \in Nat /\ Cardinality(T) \in Nat /\ Cardinality(S) <= Cardinality(T)
      BY <3>4, Counting
    <3>6. Limit <= Cardinality(T)
      BY <1>6, <3>1, <3>2, <3>5
    <3> QED
      BY <1>2, <1>10, <3>6
  <2> QED
    BY <1>3, <1>10, <1>21, <2>1, BudgetHistory
<1>22. ASSUME Limiter!RetryAfterSuffices PROVE Limiter!RetryAfterSuffices'
  <2>1. ASSUME ~ e.ok, NEW i \in Limiter!Attempts(Limiter!ClientIP(e.client)),
               ~ log[i].ok, log[i].made + log[i].wait <= e.at
        PROVE  Limit <= Cardinality(After(Limiter!ClientIP(e.client), i))
    <3>1. c >= Limit
      BY <1>6, <1>8, <1>10, <2>1
    <3>2. i \in Limiter!Attempts(k) /\ log[i].made \in Nat /\ log[i].wait \in Int
              /\ i \in 1..Len(log)
      BY <1>2, <1>3, <1>10, <2>1, EntryType
    <3>3. log[i].made + log[i].wait <= R
      BY <1>1, <1>6, <1>10, <2>1, <3>2
    <3>4. c <= Cardinality(After(k, i))
      BY <1>4, <1>5, <1>16, <2>1, <3>2, <3>3 DEF Counted
    <3>5. Cardinality(After(k, i)) \in Nat
      BY <1>2, <1>3, <1>10, <3>2, AfterCounts
    <3> QED
      BY <1>2, <1>6, <1>10, <3>1, <3>4, <3>5
  <2> QED
    BY <1>3, <1>10, <1>22, <2>1, RetryHistory
<1> QED
  BY <1>12, <1>17, <1>19, <1>20, <1>21, <1>22 DEF LimiterInv

\* reap, which forgets windows that are over; and whatever else waits for the mutex.
LEMMA ReapKeeps ==
  ASSUME LimiterInv, Limiter!Reap
  PROVE  LimiterInv'
<1> USE GatewayAssumption DEF Limiter!LimitAssumption
<1>1. /\ reaper \in Nat /\ reaper <= limiterNow /\ reaper' = Limiter!None
      /\ limiterNow' = limiterNow /\ limiterNow \in Nat /\ waiting' = waiting /\ log' = log
      /\ hits' = [k \in {x \in DOMAIN hits : ~ reaper > hits[x].resetAt} |-> hits[k]]
  BY DEF LimiterInv, LimiterType, Limiter!Reap, Limiter!None
<1>2. LimiterType
  BY DEF LimiterInv
<1>3. /\ DOMAIN hits' \subseteq DOMAIN hits
      /\ \A k \in DOMAIN hits' : hits'[k] = hits[k]
      /\ \A k \in DOMAIN hits : k \notin DOMAIN hits' => hits[k].resetAt < limiterNow
  <2>1. \A k \in DOMAIN hits : hits[k].resetAt \in Nat
    BY <1>2 DEF LimiterType, Window
  <2> QED
    BY <1>1, <2>1
<1>4. LimiterType'
  BY <1>1, <1>2, <1>3 DEF LimiterType
<1>5. ASSUME NEW k \in Limiter!Key, k \in DOMAIN hits' <=> k \in DOMAIN hits
      PROVE  (Counted(k) => Counted(k)') /\ (Spaced(k) => Spaced(k)')
  BY <1>1, <1>2, <1>3, <1>5, ClockMovesOn
<1>6. ASSUME NEW k \in DOMAIN hits, k \notin DOMAIN hits'
      PROVE Counted(k)' /\ (Spaced(k) => Spaced(k)')
  <2>1. Counted(k)'
    BY <1>6 DEF Counted
  <2>2. ASSUME Spaced(k) PROVE Spaced(k)'
    <3>1. PICK x \in Int : x = limiterNow - Interval + MaxLag
      BY <1>1
    <3>2. hits[k].resetAt \in Nat /\ hits[k].count \in Nat /\ hits[k].resetAt < limiterNow
      BY <1>2, <1>3, <1>6 DEF LimiterType, Window
    <3>3. PICK y \in Int : y = hits[k].resetAt - Interval + MaxLag + 1
      BY <3>2
    <3>4. y <= x
      BY <1>1, <3>1, <3>2, <3>3
    <3>5. Cardinality(Late(k, y)) <= Few(hits[k].count) - 1
      BY <1>6, <2>2, <3>3 DEF Spaced
    <3>6. /\ Cardinality(Late(k, x)) \in Nat /\ Cardinality(Late(k, y)) \in Nat
          /\ Cardinality(Late(k, x)) <= Cardinality(Late(k, y))
      BY <1>2, <3>4, LateShrinks
    <3>7. Few(hits[k].count) \in Nat /\ Few(hits[k].count) <= Limit
      BY <3>2, FewType
    <3>8. Cardinality(Late(k, x)) <= Limit - 1
      BY <3>5, <3>6, <3>7
    <3>9. \A i \in Limiter!Admitted(k) : log[i].at < limiterNow
      <4>1. ASSUME NEW i \in Limiter!Admitted(k) PROVE log[i].at < limiterNow
        <5>1. log[i].at \in Nat
          BY <1>2, EntryType DEF Limiter!Admitted
        <5>2. log[i].at <= hits[k].resetAt
          BY <1>6, <2>2 DEF Spaced
        <5> QED
          BY <1>1, <3>2, <5>1, <5>2
      <4> QED
        BY <4>1
    <3>10. \A z : /\ Limiter!Attempts(k)' = Limiter!Attempts(k)
                  /\ Limiter!Admitted(k)' = Limiter!Admitted(k)
                  /\ Late(k, z)' = Late(k, z) /\ Within(k, z)' = Within(k, z)
      BY <1>1, SameLog
    <3>11. Cardinality(Late(k, limiterNow - Interval + MaxLag)') <= Limit - 1
      <4>1. x = limiterNow' - Interval + MaxLag
        BY <1>1, <3>1
      <4>2. Cardinality(Late(k, x)') <= Limit - 1
        BY <3>8, <3>10
      <4> QED
        BY <4>1, <4>2
    <3> QED
      BY <1>1, <1>6, <2>2, <3>9, <3>10, <3>11 DEF Spaced
  <2> QED
    BY <2>1, <2>2
<1>7. \A k \in Limiter!Key : Counted(k)'
  <2>1. ASSUME NEW k \in Limiter!Key PROVE Counted(k)'
    <3>1. Counted(k)
      BY DEF LimiterInv
    <3> QED
      BY <1>3, <1>5, <1>6, <3>1
  <2> QED
    BY <2>1
<1>8. ASSUME 2 * MaxLag <= Interval, NEW k \in Limiter!Key PROVE Spaced(k)'
  <2>1. Spaced(k)
    BY <1>8 DEF LimiterInv
  <2> QED
    BY <1>3, <1>5, <1>6, <2>1
<1>9. (Limiter!KeyBudget => Limiter!KeyBudget')
          /\ (Limiter!RetryAfterSuffices => Limiter!RetryAfterSuffices')
  BY <1>1 DEF Limiter!KeyBudget, Limiter!RetryAfterSuffices, Limiter!Attempts, Limiter!ClientIP
<1> QED
  BY <1>4, <1>7, <1>8, <1>9 DEF LimiterInv

\* A step that leaves the windows and the log alone.
LEMMA WaitingKeeps ==
  ASSUME LimiterInv, hits' = hits, log' = log, limiterNow' \in Nat, limiterNow
             <= limiterNow', LimiterType'
  PROVE  LimiterInv'
<1>1. LimiterType
  BY DEF LimiterInv
<1>2. ASSUME NEW k \in Limiter!Key
      PROVE (Counted(k) => Counted(k)') /\ (Spaced(k) => Spaced(k)')
  BY <1>1, ClockMovesOn
<1>3. (Limiter!KeyBudget => Limiter!KeyBudget')
          /\ (Limiter!RetryAfterSuffices => Limiter!RetryAfterSuffices')
  BY DEF Limiter!KeyBudget, Limiter!RetryAfterSuffices, Limiter!Attempts, Limiter!ClientIP
<1> QED
  BY <1>2, <1>3 DEF LimiterInv

\* One step per action.
LEMMA LimiterStep == LimiterInv /\ [Limiter!Next]_(Limiter!vars) => LimiterInv'
<1> USE GatewayAssumption DEF Limiter!LimitAssumption
<1> SUFFICES ASSUME LimiterInv, [Limiter!Next]_(Limiter!vars) PROVE LimiterInv'
  OBVIOUS
<1>0. LimiterType /\ limiterNow \in Nat
  BY DEF LimiterInv, LimiterType
<1>1. ASSUME NEW r \in Request, NEW c \in User, Limiter!Arrive(r, c) PROVE LimiterInv'
  <2>1. LimiterType'
    BY <1>0, <1>1 DEF LimiterType, Limiter!Arrive
  <2> QED
    BY <1>0, <1>1, <2>1, WaitingKeeps DEF Limiter!Arrive
<1>2. ASSUME NEW r \in Request, NEW q \in waiting[r], Limiter!AllowFresh(r, q) PROVE LimiterInv'
  BY <1>2, FreshKeeps
<1>3. ASSUME NEW r \in Request, NEW q \in waiting[r], Limiter!AllowCounted(r, q)
      PROVE LimiterInv'
  BY <1>3, CountedKeeps
<1>4. CASE Limiter!ReapWakes
  <2>1. LimiterType'
    BY <1>0, <1>4 DEF LimiterType, Limiter!ReapWakes
  <2> QED
    BY <1>0, <1>4, <2>1, WaitingKeeps DEF Limiter!ReapWakes
<1>5. CASE Limiter!Reap
  BY <1>5, ReapKeeps
<1>6. CASE Limiter!Tick
  <2>1. limiterNow' = limiterNow + 1 /\ hits' = hits /\ waiting' = waiting /\ reaper' = reaper
            /\ log' = log
    BY <1>6 DEF Limiter!Tick
  <2>2. limiterNow' \in Nat /\ limiterNow <= limiterNow'
    BY <1>0, <2>1
  <2>3. \A r \in Request : \A q \in waiting'[r] : q.at <= limiterNow'
            /\ limiterNow' <= q.at + MaxLag
    <3>1. ASSUME NEW r \in Request, NEW q \in waiting[r]
          PROVE q.at <= limiterNow' /\ limiterNow' <= q.at + MaxLag
      <4>1. q.at \in Nat /\ q.at <= limiterNow
        BY <1>0 DEF LimiterType
      <4>2. limiterNow' - q.at <= MaxLag
        BY <1>6 DEF Limiter!Tick
      <4> QED
        BY <1>0, <2>1, <4>1, <4>2
    <3> QED
      BY <2>1, <3>1
  <2>4. \A k \in DOMAIN hits : hits[k].resetAt <= limiterNow' + Interval
    BY <1>0, <2>1 DEF LimiterType, Window
  <2>5. reaper # Limiter!None => reaper <= limiterNow'
    BY <1>0, <2>1 DEF LimiterType
  <2>6. LimiterType'
    BY <1>0, <2>1, <2>2, <2>3, <2>4, <2>5 DEF LimiterType
  <2> QED
    BY <2>1, <2>2, <2>6, WaitingKeeps
<1>7. CASE UNCHANGED Limiter!vars
  <2>1. LimiterType'
    BY <1>0, <1>7 DEF LimiterType, Limiter!vars
  <2> QED
    BY <1>0, <1>7, <2>1, WaitingKeeps DEF Limiter!vars
<1> QED
  BY <1>1, <1>2, <1>3, <1>4, <1>5, <1>6, <1>7 DEF Limiter!Next

\* Nothing is counted at the start.
LEMMA LimiterStarts == Limiter!Init => LimiterInv
<1> SUFFICES ASSUME Limiter!Init PROVE LimiterInv
  OBVIOUS
<1> USE GatewayAssumption DEF Limiter!LimitAssumption
<1>1. log = << >> /\ hits = << >> /\ limiterNow = 0 /\ reaper = Limiter!None
          /\ waiting = [r \in Request |-> {}]
  BY DEF Limiter!Init
<1>2. Len(log) = 0 /\ 1..Len(log) = {} /\ log \in Seq(Decision)
  BY <1>1
<1>3. DOMAIN hits = {}
  BY <1>1
<1>4. LimiterType
  BY <1>1, <1>2, <1>3 DEF LimiterType, Limiter!None
<1>5. \A k \in Limiter!Key : Counted(k)
  BY <1>3 DEF Counted
<1>6. \A k : Limiter!Attempts(k) = {} /\ Limiter!Admitted(k) = {}
  BY <1>2 DEF Limiter!Attempts, Limiter!Admitted
<1>7. \A k, x : Late(k, x) = {} /\ Within(k, x) = {}
  BY <1>6 DEF Late, Within
<1>8. \A k \in Limiter!Key : Spaced(k)
  <2>1. Cardinality({}) = 0
    BY FS_EmptySet
  <2>2. 0 <= Limit - 1 /\ 0 <= 2 * Limit - 1
    OBVIOUS
  <2>3. \A k, x : Cardinality(Late(k, x)) = 0 /\ Cardinality(Within(k, x)) = 0
    BY <1>7, <2>1
  <2>4. \A k \in Limiter!Key : k \notin DOMAIN hits
            /\ \A i \in Limiter!Admitted(k) : log[i].at < limiterNow
    BY <1>3, <1>6
  <2> QED
    BY <2>2, <2>3, <2>4 DEF Spaced
<1>9. Limiter!KeyBudget /\ Limiter!RetryAfterSuffices
  BY <1>2 DEF Limiter!KeyBudget, Limiter!RetryAfterSuffices
<1> QED
  BY <1>4, <1>5, <1>8, <1>9 DEF LimiterInv

\* The limiter of ratelimit.go keeps its invariant.
THEOREM LimiterInvariance == Limiter!Spec => []LimiterInv
BY LimiterStarts, LimiterStep, PTL DEF Limiter!Spec

\* No caller, whatever its timing, gets two whole budgets of attempts let through within
\* an interval (ratelimit.go:17).
THEOREM Bursts == Limiter!Spec => []BurstIsBounded
<1>1. LimiterInv => BurstIsBounded
  <2> USE GatewayAssumption DEF Limiter!LimitAssumption
  <2> SUFFICES ASSUME LimiterInv, NEW c \in User, NEW s \in 0..MaxLimiterTime
      PROVE  Cardinality({i \in Limiter!Admitted(Limiter!ClientIP(c)) :
                            log[i].at \in s..(s + Interval - 2 * MaxLag)})
               <= 2 * Limit - 1
    BY SameCount DEF BurstIsBounded, Limiter!BurstIsBounded
  <2>1. Limiter!ClientIP(c) \in Limiter!Key
    BY DEF Limiter!Key
  <2>2. CASE 2 * MaxLag <= Interval
    <3>1. Spaced(Limiter!ClientIP(c)) /\ s \in Int
      BY <2>1, <2>2 DEF LimiterInv
    <3> QED
      BY <3>1 DEF Spaced, Within
  <2>3. CASE ~ (2 * MaxLag <= Interval)
    <3>1. s..(s + Interval - 2 * MaxLag) = {}
      BY <2>3
    <3>2. {i \in Limiter!Admitted(Limiter!ClientIP(c)) :
             log[i].at \in s..(s + Interval - 2 * MaxLag)} = {}
      BY <3>1
    <3>3. Cardinality({}) = 0 /\ 0 <= 2 * Limit - 1
      BY FS_EmptySet
    <3> QED
      BY <3>2, <3>3
  <2> QED
    BY <2>2, <2>3
<1> QED
  BY <1>1, LimiterInvariance, PTL

\* Whatever TRUSTED_PROXIES says, an attempt is refused only for the attempts of the key
\* it is counted under (auth_test.go:369); whose key that is, main.go:162-174 decides.
THEOREM Budgets == Limiter!Spec => []KeyBudget
<1>1. LimiterInv => KeyBudget
  BY DEF LimiterInv, KeyBudget
<1> QED
  BY <1>1, LimiterInvariance, PTL

\* Who waits as long as Retry-After says (auth.go) is not refused for what was before.
THEOREM Retries == Limiter!Spec => []RetryAfterSuffices
<1>1. LimiterInv => RetryAfterSuffices
  BY DEF LimiterInv, RetryAfterSuffices
<1> QED
  BY <1>1, LimiterInvariance, PTL

----------------------------------------------------------------------------
\* What StoresAgree and PgIsStricter rest on: what memory has revoked, Postgres has too;
\* what Postgres still accepts is live in memory; and a token that has not expired, of an
\* owner who presented none that had, is the same in both.
StoreType ==
  /\ storeNow \in Nat /\ storeExpires \in [Token -> Nat] /\ storeOwner \in [Token -> User]
  /\ pg \in [Token -> {"none", "live", "revoked"}]
  /\ mem \in [Token -> {"none", "live", "revoked"}]
Alike(t) ==
  /\ mem[t] = "live" => pg[t] # "none"
  /\ mem[t] = "revoked" => pg[t] = "revoked"
  /\ pg[t] = "live" /\ ~ Stores!PgExpired(t) => mem[t] = "live"
  /\ ~ Stores!PgExpired(t) /\ storeOwner[t] \notin storeLate => pg[t] = mem[t]
StoreInv == StoreType /\ \A t \in Token : Alike(t)

\* Whole seconds never make a token last longer than the exact time does.
LEMMA SecondsAreEarly ==
  ASSUME NEW m \in Nat, NEW n \in Nat
  PROVE  /\ Stores!Seconds(m) < Stores!Seconds(n) => m < n
         /\ Stores!Seconds(m) <= Stores!Seconds(m + 1)
         /\ Stores!Seconds(m) \in Nat
BY DEF Stores!Seconds

\* So a token Postgres still accepts is accepted in memory as well, and what Postgres
\* purges is purged there.
LEMMA PgExpiresFirst ==
  ASSUME StoreType, NEW t \in Token
  PROVE  /\ Stores!MemExpired(t) => Stores!PgExpired(t)
         /\ Stores!Seconds(storeExpires[t]) < Stores!Seconds(storeNow)
              => Stores!MemExpired(t)
<1>1. storeNow \in Nat /\ storeExpires[t] \in Nat
  BY DEF StoreType
<1>2. Stores!Seconds(storeNow) \in Nat /\ Stores!Seconds(storeExpires[t]) \in Nat
  BY <1>1, SecondsAreEarly
<1>3. ~ Stores!PgExpired(t) => Stores!Seconds(storeNow) < Stores!Seconds(storeExpires[t])
  BY <1>2 DEF Stores!PgExpired
<1>4. ~ Stores!PgExpired(t) => storeNow < storeExpires[t]
  BY <1>1, <1>3, SecondsAreEarly
<1>5. Stores!Seconds(storeExpires[t]) < Stores!Seconds(storeNow) => storeExpires[t] < storeNow
  BY <1>1, SecondsAreEarly
<1> QED
  BY <1>1, <1>4, <1>5 DEF Stores!MemExpired

\* Consuming the token x, expired or not, keeps the stores as alike as they were.
LEMMA ConsumeKeeps ==
  ASSUME StoreInv, NEW x \in Token, Stores!ConsumeRefreshToken(x)
  PROVE  StoreInv'
<1>1. StoreType /\ \A t \in Token : Alike(t)
  BY DEF StoreInv
<1>2. /\ pg' = Stores!PgConsumed(x) /\ mem' = Stores!MemConsumed(x)
      /\ UNCHANGED <<storeNow, storeOwner, storeExpires>>
      /\ storeLate' = IF Stores!PgExpired(x) THEN storeLate \cup {storeOwner[x]} ELSE storeLate
  BY DEF Stores!ConsumeRefreshToken
<1>3. /\ \A t \in Token : Stores!PgExpired(t)' = Stores!PgExpired(t)
      /\ Stores!MemExpired(x) => Stores!PgExpired(x)
  BY <1>1, <1>2, PgExpiresFirst DEF Stores!PgExpired
<1>4. /\ pg \in [Token -> {"none", "live", "revoked"}]
      /\ mem \in [Token -> {"none", "live", "revoked"}]
  BY <1>1 DEF StoreType
<1>5. CASE pg[x] = "none"
  <2>1. mem[x] = "none"
    BY <1>1, <1>4, <1>5 DEF Alike
  <2>2. pg' = pg /\ mem' = mem
    BY <1>2, <1>5, <2>1 DEF Stores!PgConsumed, Stores!MemConsumed
  <2> QED
    BY <1>1, <1>2, <1>3, <2>2 DEF StoreInv, StoreType, Alike
<1>6. CASE pg[x] = "live"
  <2>1. pg' = [pg EXCEPT ![x] = "revoked"] /\ mem[x] # "revoked"
    BY <1>1, <1>2, <1>6 DEF Stores!PgConsumed, Alike
  <2>2. mem' = IF mem[x] = "live" /\ ~ Stores!MemExpired(x)
                 THEN [mem EXCEPT ![x] = "revoked"] ELSE mem
    BY <1>2, <2>1 DEF Stores!MemConsumed
  <2>3. ~ Stores!PgExpired(x) => mem' = [mem EXCEPT ![x] = "revoked"]
    BY <1>1, <1>3, <1>6, <2>2 DEF Alike
  <2>4. StoreType'
    BY <1>1, <1>2, <1>4, <2>1, <2>2 DEF StoreType
  <2>5. ASSUME NEW t \in Token PROVE Alike(t)'
    <3>1. CASE t = x
      BY <1>2, <1>3, <1>4, <2>1, <2>2, <2>3, <3>1 DEF Alike
    <3>2. CASE t # x
      <4>1. pg'[t] = pg[t] /\ mem'[t] = mem[t]
        BY <1>4, <2>1, <2>2, <3>2
      <4> QED
        BY <1>1, <1>2, <1>3, <4>1 DEF Alike
    <3> QED
      BY <3>1, <3>2
  <2> QED
    BY <2>4, <2>5 DEF StoreInv
<1>7. CASE pg[x] = "revoked"
  <2>1. pg' = Stores!RevokeAll(pg, storeOwner[x])
    BY <1>2, <1>7 DEF Stores!PgConsumed
  <2>2. \/ mem' = Stores!RevokeAll(mem, storeOwner[x])
        \/ /\ mem' = [mem EXCEPT ![x] = "revoked"] \/ mem' = mem
           /\ storeOwner[x] \in storeLate'
    <3>1. CASE mem[x] = "revoked"
      BY <1>2, <3>1 DEF Stores!MemConsumed
    <3>2. CASE mem[x] # "revoked"
      <4>1. mem' = IF mem[x] = "live" /\ ~ Stores!MemExpired(x)
                     THEN [mem EXCEPT ![x] = "revoked"] ELSE mem
        BY <1>2, <3>2 DEF Stores!MemConsumed
      <4>2. storeOwner[x] \in storeLate'
        BY <1>1, <1>2, <1>7, <3>2 DEF Alike
      <4> QED
        BY <4>1, <4>2
    <3> QED
      BY <3>1, <3>2
  <2>3. \A t \in Token : pg'[t] = IF storeOwner[t] = storeOwner[x] /\ pg[t] = "live"
                                  THEN "revoked" ELSE pg[t]
    BY <2>1 DEF Stores!RevokeAll
  <2>4. StoreType'
    BY <1>1, <1>2, <1>4, <2>1, <2>2 DEF StoreType, Stores!RevokeAll
  <2>5. ASSUME NEW t \in Token PROVE Alike(t)'
    <3>1. Alike(t) /\ Stores!PgExpired(t)' = Stores!PgExpired(t)
          /\ storeOwner'[t] = storeOwner[t] /\ storeLate \subseteq storeLate'
      BY <1>1, <1>2, <1>3
    <3>2. CASE storeOwner[t] # storeOwner[x]
      <4>1. pg'[t] = pg[t] /\ mem'[t] = mem[t]
        BY <1>4, <2>2, <2>3, <3>2 DEF Stores!RevokeAll
      <4> QED
        BY <3>1, <4>1 DEF Alike
    <3>3. CASE storeOwner[t] = storeOwner[x]
      <4>1. CASE mem' = Stores!RevokeAll(mem, storeOwner[x])
        <5>1. mem'[t] = IF mem[t] = "live" THEN "revoked" ELSE mem[t]
          BY <3>3, <4>1 DEF Stores!RevokeAll
        <5> QED
          BY <1>4, <2>3, <3>1, <3>3, <5>1 DEF Alike
      <4>2. CASE /\ mem' = [mem EXCEPT ![x] = "revoked"] \/ mem' = mem
                 /\ storeOwner[x] \in storeLate'
        <5>1. /\ mem'[t] = mem[t] \/ (t = x /\ mem'[t] = "revoked")
              /\ storeOwner'[t] \in storeLate'
          BY <1>4, <3>1, <3>3, <4>2
        <5>2. pg'[t] # "live" /\ (pg[t] = "revoked" => pg'[t] = "revoked")
              /\ (pg[t] # "none" => pg'[t] # "none")
          BY <1>4, <2>3, <3>3
        <5> QED
          BY <1>7, <3>1, <5>1, <5>2 DEF Alike
      <4> QED
        BY <2>2, <4>1, <4>2
    <3> QED
      BY <3>2, <3>3
  <2> QED
    BY <2>4, <2>5 DEF StoreInv
<1> QED
  BY <1>4, <1>5, <1>6, <1>7

\* One step per call of the two stores, and the clock.
LEMMA StoreStep ==
  ASSUME StoreInv, [Stores!Next]_(Stores!vars)
  PROVE  StoreInv'
<1> USE GatewayAssumption DEF Stores!StoreAssumption
<1>0. StoreType /\ \A t \in Token : Alike(t)
  BY DEF StoreInv
<1>1. ASSUME NEW x \in Token, Stores!StoreRefreshToken(x) PROVE StoreInv'
  <2>1. StoreType'
    BY <1>0, <1>1 DEF StoreType, Stores!StoreRefreshToken
  <2>2. ASSUME NEW t \in Token PROVE Alike(t)'
    <3>1. CASE t = x
      BY <1>0, <1>1, <3>1 DEF StoreType, Alike, Stores!StoreRefreshToken
    <3>2. CASE t # x
      BY <1>0, <1>1, <3>2 DEF StoreType, Alike, Stores!StoreRefreshToken, Stores!PgExpired
    <3> QED
      BY <3>1, <3>2
  <2> QED
    BY <2>1, <2>2 DEF StoreInv
<1>2. ASSUME NEW x \in Token, Stores!ConsumeRefreshToken(x) PROVE StoreInv'
  BY <1>2, ConsumeKeeps
<1>3. ASSUME NEW x \in Token, Stores!RevokeRefreshToken(x) PROVE StoreInv'
  <2>1. StoreType'
    BY <1>0, <1>3 DEF StoreType, Stores!RevokeRefreshToken
  <2>2. ASSUME NEW t \in Token PROVE Alike(t)'
    BY <1>0, <1>3 DEF StoreType, Alike, Stores!RevokeRefreshToken, Stores!PgExpired
  <2> QED
    BY <2>1, <2>2 DEF StoreInv
<1>4. CASE Stores!PurgeExpiredTokens
  <2>1. UNCHANGED <<storeNow, storeOwner, storeExpires, storeLate>>
    BY <1>4 DEF Stores!PurgeExpiredTokens
  <2>2. StoreType'
    BY <1>0, <1>4 DEF StoreType, Stores!PurgeExpiredTokens
  <2>3. ASSUME NEW t \in Token PROVE Alike(t)'
    <3>1. /\ pg'[t] = IF Stores!Seconds(storeExpires[t]) < Stores!Seconds(storeNow)
                        THEN "none" ELSE pg[t]
          /\ mem'[t] = IF Stores!MemExpired(t) THEN "none" ELSE mem[t]
      BY <1>4 DEF Stores!PurgeExpiredTokens
    <3>2. Stores!PgExpired(t)' = Stores!PgExpired(t)
      BY <2>1 DEF Stores!PgExpired
    <3> QED
      BY <1>0, <2>1, <3>1, <3>2, PgExpiresFirst DEF Alike
  <2> QED
    BY <2>2, <2>3 DEF StoreInv
<1>5. CASE Stores!Tick
  <2>1. storeNow' = storeNow + 1 /\ UNCHANGED <<storeOwner, storeExpires, pg, mem, storeLate>>
    BY <1>5 DEF Stores!Tick
  <2>2. ASSUME NEW t \in Token, ~ Stores!PgExpired(t)' PROVE ~ Stores!PgExpired(t)
    <3>1. /\ Stores!Seconds(storeNow) \in Nat /\ Stores!Seconds(storeNow + 1) \in Nat
          /\ Stores!Seconds(storeExpires[t]) \in Nat
          /\ Stores!Seconds(storeNow) <= Stores!Seconds(storeNow + 1)
      BY <1>0, SecondsAreEarly DEF StoreType
    <3>2. ~ Stores!Seconds(storeNow + 1) >= Stores!Seconds(storeExpires[t])
      BY <2>1, <2>2 DEF Stores!PgExpired, Stores!Seconds
    <3> QED
      BY <3>1, <3>2 DEF Stores!PgExpired
  <2> QED
    BY <1>0, <2>1, <2>2 DEF StoreInv, StoreType, Alike
<1>6. CASE UNCHANGED Stores!vars
  BY <1>0, <1>6 DEF StoreInv, StoreType, Alike, Stores!vars, Stores!PgExpired
<1> QED
  BY <1>1, <1>2, <1>3, <1>4, <1>5, <1>6 DEF Stores!Next

\* The in-memory store (store_memory.go) and Postgres (store_postgres.go) keep StoreInv,
\* with tokens presented before, at and past their expiry.
THEOREM StoreInvariance == Stores!Spec => []StoreInv
<1>1. Stores!Init => StoreInv
  BY DEF Stores!Init, StoreInv, StoreType, Alike
<1>2. StoreInv /\ [Stores!Next]_(Stores!vars) => StoreInv'
  BY StoreStep
<1> QED
  BY <1>1, <1>2, PTL DEF Stores!Spec

\* Until its owner presents a token past its expiry, a token that has not expired gets the
\* same answer from both stores, whatever was stored, consumed, revoked and purged before.
THEOREM StoresAlike == Stores!Spec => []StoresAgree
<1>1. StoreInv => StoresAgree
  <2> SUFFICES ASSUME StoreInv, NEW t \in Token, ~ Stores!PgExpired(t),
                      storeOwner[t] \notin storeLate
               PROVE  Stores!PgAnswer(t) = Stores!MemAnswer(t)
    BY DEF StoresAgree, Stores!StoresAgree
  <2>1. StoreType /\ pg[t] = mem[t] /\ ~ Stores!MemExpired(t)
    BY PgExpiresFirst DEF StoreInv, Alike
  <2> QED
    BY <2>1 DEF Stores!PgAnswer, Stores!MemAnswer, StoreType
<1> QED
  BY <1>1, StoreInvariance, PTL

\* Whoever presented what: Postgres lets nobody in whom the in-memory store turns away, and
\* reports every reuse that it reports.
THEOREM PgIsTheStricter == Stores!Spec => []PgIsStricter
<1>1. StoreInv => PgIsStricter
  <2> SUFFICES ASSUME StoreInv, NEW t \in Token
               PROVE  /\ Stores!PgAnswer(t) = "ok" => Stores!MemAnswer(t) = "ok"
                      /\ Stores!MemAnswer(t) = "reused" => Stores!PgAnswer(t) = "reused"
    BY DEF PgIsStricter, Stores!PgIsStricter
  <2>1. StoreType /\ Alike(t) /\ (Stores!MemExpired(t) => Stores!PgExpired(t))
    BY PgExpiresFirst DEF StoreInv
  <2>2. pg[t] \in {"none", "live", "revoked"} /\ mem[t] \in {"none", "live", "revoked"}
    BY <2>1 DEF StoreType
  <2>3. Stores!PgAnswer(t) = "ok" => pg[t] = "live" /\ ~ Stores!PgExpired(t)
    BY <2>2 DEF Stores!PgAnswer
  <2>4. Stores!MemAnswer(t) = "reused" => mem[t] = "revoked"
    BY <2>2 DEF Stores!MemAnswer
  <2> QED
    BY <2>1, <2>3, <2>4 DEF Alike, Stores!PgAnswer, Stores!MemAnswer
<1> QED
  BY <1>1, StoreInvariance, PTL
============================================================================
