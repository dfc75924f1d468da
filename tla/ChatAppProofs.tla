--------------------------- MODULE ChatAppProofs ---------------------------
(***************************************************************************)
(* That answers stay in their place, deleted conversations stay deleted,   *)
(* and stopping holds, for any number of conversations, queries and tokens.*)
(***************************************************************************)
EXTENDS ChatApp, SequenceTheorems, TLAPS

Phase == {"new", "fetch", "refreshing", "aborted", "retry", "tokens", "done", "eof", "cut",
          "ended"}
Late == {"done", "eof", "ended"}
Message == [query : Query, text : Nat, cited : BOOLEAN, error : BOOLEAN]

Shape ==
  /\ convs \in [DOMAIN convs -> Seq(Message)]
  /\ shown = [convs |-> shown.convs, streaming |-> shown.streaming]
  /\ shown.convs \in [DOMAIN convs -> Seq(Message)]
  /\ active \in DOMAIN convs /\ DOMAIN convs \subseteq Conv
  /\ query \in [Query -> [phase : Phase, conv : Conv]]
  /\ given \in [Query -> Nat]
  /\ stopped \subseteq Query

\* What AnswersInPlace says of one answer; and its query has been sent.
Placed(c, m) ==
  /\ query[m.query].phase # "new" /\ query[m.query].conv = c
  /\ m.text <= given[m.query]
  /\ m.cited \/ m.error => query[m.query].phase \in Late

\* The same of the next state, for an answer that is the one it is now.
StillPlaced(c, m) ==
  /\ query'[m.query].phase # "new" /\ query'[m.query].conv = c
  /\ m.text <= given'[m.query]
  /\ m.cited \/ m.error => query'[m.query].phase \in Late

Good(cs) == \A c \in DOMAIN cs : \A i \in DOMAIN cs[c] : Placed(c, cs[c][i])

\* What makes the three properties inductive: the rendered lists, which handlers
\* start from, are as good as the current ones and of the same conversations, and
\* a stopped query only waits for its end.
ChatInv ==
  /\ Shape
  /\ Good(convs) /\ Good(shown.convs)
  /\ deleted \cap DOMAIN convs = {}
  /\ \A q \in stopped : query[q].phase \in {"aborted", "ended"}

\* What EndsExplained says of an answer while it is streamed, now and in the next
\* state; and a query not sent was given nothing, one aborted was stopped.
Told(m) == m.error \/ (m.text = given[m.query] /\ (query[m.query].phase \in Late => m.cited))
StillTold(m) ==
  m.error \/ (m.text = given'[m.query] /\ (query'[m.query].phase \in Late => m.cited))
Explained ==
  /\ \A c \in DOMAIN convs : \A i \in DOMAIN convs[c] :
       convs[c][i].query \notin stopped \cup disturbed => Told(convs[c][i])
  /\ \A q \in Query : query[q].phase = "new" => given[q] = 0
  /\ \A q \in Query : query[q].phase = "aborted" => q \in stopped

\* The queries go on, and the history with them: nothing that is placed gets lost.
Advances ==
  \A q \in Query : query[q].phase # "new" =>
    /\ query'[q].phase # "new" /\ query'[q].conv = query[q].conv
    /\ given'[q] >= given[q]
    /\ query[q].phase \in Late => query'[q].phase \in Late

\* What was placed stays placed, in any list of the conversations.
LEMMA StaysPlaced ==
  ASSUME Shape, Shape', Advances, NEW c, NEW m \in Message, Placed(c, m)
  PROVE  StillPlaced(c, m)
<1>1. m.query \in Query /\ m.text \in Nat
  BY DEF Message
<1>2. given[m.query] \in Nat /\ given'[m.query] \in Nat /\ given'[m.query] >= given[m.query]
  BY <1>1 DEF Shape, Advances, Placed
<1> QED BY <1>1, <1>2 DEF Placed, StillPlaced, Advances

LEMMA StaysGood ==
  ASSUME Shape, Shape', Advances, NEW cs, \A c \in DOMAIN cs : cs[c] \in Seq(Message),
         Good(cs), NEW c \in DOMAIN cs, NEW i \in DOMAIN cs[c]
  PROVE  StillPlaced(c, cs[c][i])
<1>1. cs[c][i] \in Message
  OBVIOUS
<1>2. Placed(c, cs[c][i])
  BY DEF Good
<1> QED BY <1>1, <1>2, StaysPlaced

LEMMA InitChat == Init => ChatInv
<1> SUFFICES ASSUME Init PROVE ChatInv
  OBVIOUS
<1> PICK c \in Conv : convs = [x \in {c} |-> << >>] /\ active = c /\ shown.convs = convs
                     /\ shown = [convs |-> convs, streaming |-> FALSE]
                     /\ query = [q \in Query |-> [phase |-> "new", conv |-> c]]
  BY DEF Init
<1>1. << >> \in Seq(Message) /\ DOMAIN << >> = {}
  BY EmptySeq
<1>2. convs \in [DOMAIN convs -> Seq(Message)]
  BY <1>1
<1>3. given = [q \in Query |-> 0] /\ stopped = {} /\ deleted = {}
  BY DEF Init
<1>4. query \in [Query -> [phase : Phase, conv : Conv]]
  BY DEF Phase
<1> QED BY <1>1, <1>2, <1>3, <1>4 DEF ChatInv, Shape, Good

\* A step of the page: the lists are replaced by good ones of the same or fewer
\* conversations, and no query goes on meanwhile.
LEMMA RenderedKeeps ==
  ASSUME ChatInv, Shape', Advances, NEW cs, NEW s, Rendered(cs, s),
         \A c \in DOMAIN cs : \A i \in DOMAIN cs[c] : StillPlaced(c, cs[c][i])
  PROVE  (Good(convs) /\ Good(shown.convs))'
BY DEF Rendered, Good, Placed, StillPlaced

\* A step of one query: its phase, and nothing of the conversations.
LEMMA TurnShape ==
  ASSUME ChatInv, NEW q \in Query, NEW phase \in Phase \ {"new"}, Turn(q, phase),
         query[q].phase # "new",
         query[q].phase \in Late => phase \in Late,
         query[q].phase \in {"aborted", "ended"} => phase \in {"aborted", "ended"},
         given' \in [Query -> Nat], \A p \in Query : given'[p] >= given[p],
         convs' \in [DOMAIN convs -> Seq(Message)]
  PROVE  /\ Shape' /\ Advances
         /\ query'[q].phase = phase
         /\ (deleted \cap DOMAIN convs = {})'
         /\ (\A p \in stopped : query[p].phase \in {"aborted", "ended"})'
<1>1. query' \in [Query -> [phase : Phase, conv : Conv]]
  BY DEF ChatInv, Shape, Turn
<1>2. \A p \in Query : /\ query'[p].conv = query[p].conv
                       /\ query'[p].phase = IF p = q THEN phase ELSE query[p].phase
  BY DEF ChatInv, Shape, Turn
<1>3. DOMAIN convs' = DOMAIN convs
  OBVIOUS
<1>4. Shape'
  BY <1>1, <1>3 DEF ChatInv, Shape, Turn
<1>5. Advances
  BY <1>2 DEF Advances
<1> QED BY <1>2, <1>3, <1>4, <1>5 DEF ChatInv, Shape, Turn

\* Patch changes no more than the answers to q, by one frame.
LEMMA Patched ==
  ASSUME ChatInv, NEW q \in Query, NEW frame \in {"token", "sources", "error"}
  PROVE  /\ Patch(q, frame) \in [DOMAIN convs -> Seq(Message)]
         /\ \A c \in DOMAIN convs :
              /\ DOMAIN Patch(q, frame)[c] = DOMAIN convs[c]
              /\ \A i \in DOMAIN convs[c] :
                   Patch(q, frame)[c][i] = IF c = query[q].conv /\ convs[c][i].query = q
                                           THEN Updated(convs[c][i], frame)
                                           ELSE convs[c][i]
<1>1. ASSUME NEW m \in Message PROVE Updated(m, frame) \in Message
  <2>1. CASE frame = "token"
    BY <2>1 DEF Updated, Message
  <2>2. CASE frame = "sources"
    BY <2>2 DEF Updated, Message
  <2>3. CASE frame = "error"
    BY <2>3 DEF Updated, Message
  <2> QED BY <2>1, <2>2, <2>3
<1> DEFINE d == query[q].conv
           patched(s) == [i \in DOMAIN s |-> IF s[i].query = q THEN Updated(s[i], frame)
                                             ELSE s[i]]
<1>2. ASSUME NEW s \in Seq(Message) PROVE patched(s) \in Seq(Message)
  <2>1. DOMAIN s = 1..Len(s) /\ Len(s) \in Nat /\ \A i \in 1..Len(s) : s[i] \in Message
    OBVIOUS
  <2>2. \A i \in 1..Len(s) : patched(s)[i] \in Message
    BY <2>1, <1>1
  <2> QED BY <2>1, <2>2
<1>3. CASE d \notin DOMAIN convs
  BY <1>3 DEF Patch, ChatInv, Shape
<1>4. CASE d \in DOMAIN convs
  <2>1. Patch(q, frame) = [convs EXCEPT ![d] = patched(convs[d])]
    BY <1>4 DEF Patch
  <2>2. convs[d] \in Seq(Message)
    BY <1>4 DEF ChatInv, Shape
  <2>3. patched(convs[d]) \in Seq(Message) /\ DOMAIN patched(convs[d]) = DOMAIN convs[d]
    BY <1>2, <2>2
  <2> HIDE DEF patched
  <2>4. Patch(q, frame) \in [DOMAIN convs -> Seq(Message)]
    BY <2>1, <2>3 DEF ChatInv, Shape
  <2>5. ASSUME NEW c \in DOMAIN convs, c # d PROVE Patch(q, frame)[c] = convs[c]
    BY <2>1, <2>5 DEF ChatInv, Shape
  <2>6. Patch(q, frame)[d] = patched(convs[d])
    BY <2>1, <1>4 DEF ChatInv, Shape
  <2> QED BY <2>3, <2>4, <2>5, <2>6 DEF patched
<1> QED BY <1>3, <1>4

LEMMA RunQueryKeeps ==
  ASSUME ChatInv, NEW q \in Query, NEW base \in Seq(Message), RunQuery(q, base),
         \A i \in DOMAIN base : Placed(active, base[i])
  PROVE  ChatInv'
<1> DEFINE cs == [convs EXCEPT ![active] = Append(base, Answer(q))]
<1>1. Shape /\ active \in DOMAIN convs /\ active \in Conv /\ query[q].phase = "new"
  BY DEF ChatInv, Shape, RunQuery
<1>2. Answer(q) \in Message
  BY DEF Answer, Message
<1>3. /\ Append(base, Answer(q)) \in Seq(Message)
      /\ \A i \in DOMAIN Append(base, Answer(q)) :
           \/ i \in DOMAIN base /\ Append(base, Answer(q))[i] = base[i]
           \/ Append(base, Answer(q))[i] = Answer(q)
  BY <1>2
<1>4. cs \in [DOMAIN convs -> Seq(Message)]
  BY <1>1, <1>3 DEF Shape
<1>5. query' = [query EXCEPT ![q] = [phase |-> "fetch", conv |-> active]]
  BY DEF RunQuery
<1>6. query' \in [Query -> [phase : Phase, conv : Conv]]
  BY <1>1, <1>5 DEF Shape, Phase
<1>7. Rendered(cs, TRUE)
  BY DEF RunQuery
<1>8. Shape'
  BY <1>1, <1>4, <1>6, <1>7 DEF Shape, Rendered, RunQuery
<1>9. Advances
  BY <1>1, <1>5 DEF Shape, Advances, RunQuery
<1>10. StillPlaced(active, Answer(q))
  BY <1>1, <1>5 DEF StillPlaced, Answer, Shape, RunQuery
<1>11. \A i \in DOMAIN base : StillPlaced(active, base[i])
  <2> SUFFICES ASSUME NEW i \in DOMAIN base PROVE StillPlaced(active, base[i])
    OBVIOUS
  <2>1. base[i] \in Message
    OBVIOUS
  <2> QED BY <1>1, <1>8, <1>9, <2>1, StaysPlaced
<1>12. ASSUME NEW c \in DOMAIN cs, NEW i \in DOMAIN cs[c] PROVE StillPlaced(c, cs[c][i])
  <2>1. CASE c = active
    <3>1. cs[c] = Append(base, Answer(q))
      BY <2>1, <1>1 DEF Shape
    <3> QED BY <3>1, <2>1, <1>3, <1>10, <1>11
  <2>2. CASE c # active
    <3>1. c \in DOMAIN convs /\ cs[c] = convs[c]
      BY <1>1, <2>2 DEF Shape
    <3> QED BY <3>1, <1>1, <1>8, <1>9, StaysGood DEF ChatInv, Shape
  <2> QED BY <2>1, <2>2
<1>13. (Good(convs) /\ Good(shown.convs))'
  BY <1>7, <1>8, <1>9, <1>12, RenderedKeeps
<1>14. (deleted \cap DOMAIN convs = {})'
  BY <1>4, <1>7 DEF ChatInv, RunQuery, Rendered
<1>15. (\A p \in stopped : query[p].phase \in {"aborted", "ended"})'
  BY <1>1, <1>5 DEF ChatInv, Shape, RunQuery
<1> QED BY <1>8, <1>13, <1>14, <1>15 DEF ChatInv

\* The steps of the page that touch no query: the lists they leave are rendered or
\* current ones, or empty.
LEMMA PageKeeps ==
  ASSUME ChatInv, NEW cs, NEW s, Rendered(cs, s),
         cs \in [DOMAIN cs -> Seq(Message)], DOMAIN cs \subseteq Conv,
         active' \in DOMAIN cs, deleted' \cap DOMAIN cs = {},
         \A c \in DOMAIN cs : \/ DOMAIN cs[c] = {}
                              \/ c \in DOMAIN convs /\ cs[c] \in {convs[c], shown.convs[c]},
         UNCHANGED <<query, given, stopped>>
  PROVE  ChatInv'
<1>1. Shape'
  BY DEF ChatInv, Shape, Rendered
<1>2. Advances
  BY DEF ChatInv, Shape, Advances
<1>3. ASSUME NEW c \in DOMAIN cs, NEW i \in DOMAIN cs[c] PROVE StillPlaced(c, cs[c][i])
  <2>1. Placed(c, cs[c][i])
    BY DEF ChatInv, Good, Shape
  <2> QED BY <2>1 DEF Placed, StillPlaced
<1>4. (Good(convs) /\ Good(shown.convs))'
  BY <1>1, <1>2, <1>3, RenderedKeeps
<1> QED BY <1>1, <1>4 DEF ChatInv, Rendered

\* A turn of a stream keeps the invariant when it changes no answer ...
LEMMA TurnKeeps ==
  ASSUME ChatInv, NEW q \in Query, NEW phase \in Phase \ {"new"}, Turn(q, phase),
         query[q].phase # "new",
         query[q].phase \in Late => phase \in Late,
         query[q].phase \in {"aborted", "ended"} => phase \in {"aborted", "ended"},
         UNCHANGED <<convs, given>>
  PROVE  ChatInv'
<1>1. /\ Shape' /\ Advances
      /\ (\A p \in stopped : query[p].phase \in {"aborted", "ended"})'
  <2>1. /\ given' \in [Query -> Nat] /\ \A p \in Query : given'[p] >= given[p]
        /\ convs' \in [DOMAIN convs -> Seq(Message)]
    BY DEF ChatInv, Shape
  <2> QED BY <2>1, TurnShape
<1>2. UNCHANGED <<convs, shown, deleted, stopped>>
  BY DEF Turn
<1>3. (Good(convs) /\ Good(shown.convs))'
  <2>1. ASSUME NEW cs, Good(cs), \A c \in DOMAIN cs : cs[c] \in Seq(Message),
               NEW c \in DOMAIN cs, NEW i \in DOMAIN cs[c]
        PROVE  StillPlaced(c, cs[c][i])
    BY <1>1, <2>1, StaysGood DEF ChatInv
  <2>2. ASSUME NEW c \in DOMAIN convs, NEW i \in DOMAIN convs[c]
        PROVE  StillPlaced(c, convs[c][i])
    BY <2>1 DEF ChatInv, Shape
  <2>3. ASSUME NEW c \in DOMAIN shown.convs, NEW i \in DOMAIN shown.convs[c]
        PROVE  StillPlaced(c, shown.convs[c][i])
    BY <2>1 DEF ChatInv, Shape
  <2> QED BY <1>2, <2>2, <2>3 DEF Good, Placed, StillPlaced
<1> QED BY <1>1, <1>2, <1>3 DEF ChatInv

\* ... and when it patches its own with a frame that the history knows of.
LEMMA FrameKeeps ==
  ASSUME ChatInv, NEW q \in Query, NEW phase \in Phase \ {"new"}, Turn(q, phase),
         NEW frame \in {"token", "sources", "error"}, convs' = Patch(q, frame),
         query[q].phase \notin {"new", "ended"},
         query[q].phase \in Late => phase \in Late,
         query[q].phase = "aborted" => phase = "ended",
         IF frame = "token" THEN given' = [given EXCEPT ![q] = @ + 1]
                            ELSE given' = given /\ phase \in Late
  PROVE  ChatInv'
<1>1. /\ convs' \in [DOMAIN convs -> Seq(Message)]
      /\ \A c \in DOMAIN convs : \A i \in DOMAIN convs'[c] :
           /\ i \in DOMAIN convs[c]
           /\ \/ convs'[c][i] = convs[c][i]
              \/ convs[c][i].query = q /\ convs'[c][i] = Updated(convs[c][i], frame)
  BY Patched
<1>2. given' \in [Query -> Nat] /\ \A p \in Query : given'[p] >= given[p]
  <2>1. given \in [Query -> Nat]
    BY DEF ChatInv, Shape
  <2>2. CASE frame = "token"
    BY <2>1, <2>2
  <2>3. CASE frame # "token"
    BY <2>1, <2>3
  <2> QED BY <2>2, <2>3
<1>3. /\ Shape' /\ Advances /\ query'[q].phase = phase
      /\ (deleted \cap DOMAIN convs = {})'
      /\ (\A p \in stopped : query[p].phase \in {"aborted", "ended"})'
  BY <1>1, <1>2, TurnShape DEF ChatInv, Shape
<1>4. ASSUME NEW m \in Message, StillPlaced(query[q].conv, m), m.text <= given[q], m.query = q
      PROVE  StillPlaced(query[q].conv, Updated(m, frame))
  <2>1. CASE frame = "token"
    <3>1. given'[q] = given[q] + 1 /\ given[q] \in Nat
      BY <2>1 DEF ChatInv, Shape
    <3>2. /\ Updated(m, frame).query = m.query /\ Updated(m, frame).text = m.text + 1
          /\ Updated(m, frame).cited = m.cited /\ Updated(m, frame).error = m.error
      BY <2>1 DEF Updated, Message
    <3> QED BY <1>4, <3>1, <3>2 DEF StillPlaced, Message
  <2>2. CASE frame = "sources"
    BY <1>3, <1>4, <2>2 DEF Updated, StillPlaced, Message
  <2>3. CASE frame = "error"
    BY <1>3, <1>4, <2>3 DEF Updated, StillPlaced, Message
  <2> QED BY <2>1, <2>2, <2>3
<1>5. ASSUME NEW c \in DOMAIN convs, NEW i \in DOMAIN convs'[c]
      PROVE  StillPlaced(c, convs'[c][i])
  <2> DEFINE m == convs[c][i]
  <2>1. m \in Message /\ Placed(c, m)
    BY <1>1 DEF ChatInv, Shape, Good
  <2>2. StillPlaced(c, m)
    BY <1>3, <2>1, StaysPlaced DEF ChatInv
  <2>3. CASE convs'[c][i] = m
    BY <2>2, <2>3
  <2>4. CASE m.query = q /\ convs'[c][i] = Updated(m, frame)
    <3>1. c = query[q].conv /\ m.text <= given[q]
      BY <2>1, <2>4 DEF Placed
    <3> QED BY <1>4, <2>1, <2>2, <2>4, <3>1
  <2> QED BY <1>1, <2>3, <2>4
<1>6. Good(convs)'
  BY <1>1, <1>5 DEF Good, Placed, StillPlaced
<1>7. Good(shown.convs)'
  <2>1. ASSUME NEW c \in DOMAIN shown.convs, NEW i \in DOMAIN shown.convs[c]
        PROVE  StillPlaced(c, shown.convs[c][i])
    BY <1>3, StaysGood DEF ChatInv, Shape
  <2> QED BY <2>1 DEF Good, Placed, StillPlaced, Turn
<1> QED BY <1>3, <1>6, <1>7 DEF ChatInv

LEMMA ProgressKeeps ==
  ASSUME ChatInv, NEW q \in Query, Progress(q)
  PROVE  ChatInv'
<1> USE DEF Phase, Late
<1>1. CASE Unauthorized(q)
  BY <1>1, TurnKeeps DEF Unauthorized
<1>2. CASE Retry(q)
  BY <1>2, TurnKeeps DEF Retry
<1>3. CASE Connected(q)
  BY <1>3, TurnKeeps DEF Connected
<1>4. CASE Refused(q)
  BY <1>4, FrameKeeps DEF Refused, Fail
<1>5. CASE Token(q)
  BY <1>5, FrameKeeps DEF Token
<1>6. CASE Sources(q)
  BY <1>6, FrameKeeps DEF Sources
<1>7. CASE Done(q)
  BY <1>7, TurnKeeps DEF Done
<1>8. CASE ErrorFrame(q)
  BY <1>8, FrameKeeps DEF ErrorFrame, Fail
<1>9. CASE Interrupted(q)
  BY <1>9, FrameKeeps DEF Interrupted, Fail
<1>10. CASE EndOfStream(q)
  BY <1>10, TurnKeeps DEF EndOfStream
<1> QED BY <1>1, <1>2, <1>3, <1>4, <1>5, <1>6, <1>7, <1>8, <1>9, <1>10 DEF Progress

LEMMA SendKeeps ==
  ASSUME ChatInv, NEW q \in Query, Send(q)
  PROVE  ChatInv'
<1>1. shown.convs[active] \in Seq(Message)
  BY DEF ChatInv, Shape
<1>2. \A i \in DOMAIN shown.convs[active] : Placed(active, shown.convs[active][i])
  BY DEF ChatInv, Shape, Good
<1> QED BY <1>1, <1>2, RunQueryKeeps DEF Send

\* Without its last element, a sequence is what it was.
LEMMA FrontOf ==
  ASSUME NEW all \in Seq(Message)
  PROVE  /\ Front(all) \in Seq(Message)
         /\ \A i \in DOMAIN Front(all) : i \in DOMAIN all /\ Front(all)[i] = all[i]
<1>1. Len(all) \in Nat /\ DOMAIN all = 1..Len(all) /\ \A i \in 1..Len(all) : all[i] \in Message
  OBVIOUS
<1>2. \A i \in 1..(Len(all) - 1) : all[i] \in Message
  BY <1>1
<1>3. /\ Front(all) \in Seq(Message)
      /\ Len(Front(all)) = IF 1 <= Len(all) - 1 THEN Len(all) - 1 ELSE 0
      /\ \A i \in 1..(Len(all) - 1) : Front(all)[i] = all[i]
  BY <1>1, <1>2, SubSeqProperties DEF Front
<1>4. DOMAIN Front(all) = 1..Len(Front(all))
  BY <1>3
<1>5. CASE Len(all) >= 2
  BY <1>1, <1>3, <1>4, <1>5
<1>6. CASE Len(all) < 2
  <2> DEFINE n == Len(all)
             k == Len(Front(all))
  <2>1. n \in Nat /\ n < 2 /\ k = IF 1 <= n - 1 THEN n - 1 ELSE 0
    BY <1>1, <1>3, <1>6
  <2> HIDE DEF n, k
  <2>2. k = 0
    BY <2>1
  <2> QED BY <1>3, <1>4, <2>2 DEF k
<1> QED BY <1>1, <1>5, <1>6

LEMMA RegenerateKeeps ==
  ASSUME ChatInv, NEW q \in Query, Regenerate(q)
  PROVE  ChatInv'
<1> DEFINE all == shown.convs[active]
<1>1. all \in Seq(Message) /\ \A i \in DOMAIN all : Placed(active, all[i])
  BY DEF ChatInv, Shape, Good
<1>2. RunQuery(q, Front(all))
  BY DEF Regenerate
<1> HIDE DEF all
<1>3. Front(all) \in Seq(Message) /\ \A i \in DOMAIN Front(all) : Placed(active, Front(all)[i])
  BY <1>1, FrontOf
<1> QED BY <1>2, <1>3, RunQueryKeeps

LEMMA StopKeeps ==
  ASSUME ChatInv, Stop
  PROVE  ChatInv'
<1>1. Shape
  BY DEF ChatInv
<1>2. ASSUME NEW q \in Query
      PROVE  /\ query'[q].conv = query[q].conv /\ query'[q].phase \in Phase
             /\ \/ query'[q].phase = query[q].phase
                \/ q = current /\ query[q].phase \notin {"new", "ended"}
                   /\ query'[q].phase = IF query[q].phase \in {"refreshing", "aborted"}
                                        THEN "aborted" ELSE "ended"
             /\ q = current /\ q \in Running => query'[q].phase \in {"aborted", "ended"}
  BY <1>1 DEF Stop, Running, Shape, Phase
<1>3. query' \in [Query -> [phase : Phase, conv : Conv]]
  BY <1>1 DEF Stop, Running, Shape, Phase
<1>4. UNCHANGED <<convs, active, given, deleted>> /\ stopped' = stopped \cup ({current} \cap Running)
      /\ shown' = [convs |-> convs, streaming |-> FALSE]
  BY DEF Stop, Rendered
<1>5. Shape'
  BY <1>1, <1>3, <1>4 DEF Shape, Running
<1>6. Advances
  <2> SUFFICES ASSUME NEW q \in Query, query[q].phase # "new"
               PROVE  /\ query'[q].phase # "new" /\ query'[q].conv = query[q].conv
                      /\ given'[q] >= given[q]
                      /\ query[q].phase \in Late => query'[q].phase \in Late
    BY DEF Advances
  <2>1. given'[q] >= given[q]
    BY <1>1, <1>4 DEF Shape
  <2> QED BY <1>2, <2>1 DEF Late
<1>7. ASSUME NEW c \in DOMAIN convs, NEW i \in DOMAIN convs[c]
      PROVE  StillPlaced(c, convs[c][i])
  BY <1>1, <1>5, <1>6, StaysGood DEF ChatInv, Shape
<1>8. (Good(convs) /\ Good(shown.convs))'
  BY <1>5, <1>6, <1>7, RenderedKeeps DEF Stop
<1>9. (\A q \in stopped : query[q].phase \in {"aborted", "ended"})'
  BY <1>1, <1>2, <1>4 DEF ChatInv, Shape, Running
<1> QED BY <1>4, <1>5, <1>8, <1>9 DEF ChatInv

LEMMA RenderKeeps ==
  ASSUME ChatInv, Render
  PROVE  ChatInv'
<1>1. convs \in [DOMAIN convs -> Seq(Message)] /\ DOMAIN convs \subseteq Conv
  BY DEF ChatInv, Shape
<1> QED BY <1>1, PageKeeps DEF Render, ChatInv, Shape

LEMMA SelectKeeps ==
  ASSUME ChatInv, NEW c \in Conv, Select(c)
  PROVE  ChatInv'
BY PageKeeps DEF Select, Sidebar, ChatInv, Shape

LEMMA NewChatKeeps ==
  ASSUME ChatInv, NEW c \in Conv, NewChat(c)
  PROVE  ChatInv'
<1> DEFINE cs == [x \in DOMAIN convs \cup {c} |-> IF x = c THEN << >> ELSE convs[x]]
<1>1. Rendered(cs, streaming) /\ active' = c /\ c \notin deleted
      /\ UNCHANGED <<query, given, stopped, deleted>>
  BY DEF NewChat, Unused
<1>2. << >> \in Seq(Message) /\ DOMAIN << >> = {}
  BY EmptySeq
<1>3. cs \in [DOMAIN cs -> Seq(Message)] /\ DOMAIN cs = DOMAIN convs \cup {c}
  BY <1>2 DEF ChatInv, Shape
<1>4. \A x \in DOMAIN cs : DOMAIN cs[x] = {} \/ (x \in DOMAIN convs /\ cs[x] = convs[x])
  <2> SUFFICES ASSUME NEW x \in DOMAIN cs
               PROVE  DOMAIN cs[x] = {} \/ (x \in DOMAIN convs /\ cs[x] = convs[x])
    OBVIOUS
  <2>1. CASE x = c
    BY <1>2, <2>1
  <2>2. CASE x # c
    BY <1>3, <2>2
  <2> QED BY <2>1, <2>2
<1> HIDE DEF cs
<1> QED BY <1>1, <1>3, <1>4, PageKeeps DEF ChatInv, Shape

LEMMA DeleteKeeps ==
  ASSUME ChatInv, NEW c \in Conv, Delete(c)
  PROVE  ChatInv'
<1> DEFINE rest == Sidebar \ {c}
<1>1. rest \subseteq DOMAIN convs /\ c \in DOMAIN convs /\ deleted' = deleted \cup {c}
      /\ UNCHANGED <<query, given, stopped>>
  BY DEF Delete, Sidebar, ChatInv, Shape
<1>2. CASE rest # {} /\ Rendered([x \in rest |-> shown.convs[x]], streaming)
           /\ active' \in IF c = active THEN rest ELSE {active}
  <2> DEFINE cs == [x \in rest |-> shown.convs[x]]
  <2>1. cs \in [DOMAIN cs -> Seq(Message)] /\ DOMAIN cs = rest
    BY <1>1 DEF ChatInv, Shape
  <2>2. active' \in rest
    BY <1>2 DEF Sidebar, ChatInv, Shape
  <2>3. \A x \in DOMAIN cs : cs[x] = shown.convs[x]
    OBVIOUS
  <2>4. Rendered(cs, streaming)
    BY <1>2
  <2> HIDE DEF cs
  <2>5. deleted' \cap DOMAIN cs = {} /\ DOMAIN cs \subseteq Conv
    BY <1>1, <2>1 DEF ChatInv, Shape
  <2> QED BY <1>1, <2>1, <2>2, <2>3, <2>4, <2>5, PageKeeps
<1>3. CASE active' \in Unused /\ Rendered([x \in {active'} |-> << >>], streaming)
  <2> PICK a : a = active'
    OBVIOUS
  <2> DEFINE cs == [x \in {a} |-> << >>]
  <2>1. << >> \in Seq(Message) /\ DOMAIN << >> = {}
    BY EmptySeq
  <2>2. cs \in [DOMAIN cs -> Seq(Message)] /\ DOMAIN cs = {a}
    BY <2>1
  <2>3. active' \in Conv /\ active' \notin deleted' /\ active' \in DOMAIN cs
    BY <1>1, <1>3 DEF Unused
  <2>4. Rendered(cs, streaming) /\ \A x \in DOMAIN cs : DOMAIN cs[x] = {}
    BY <1>3, <2>1
  <2> HIDE DEF cs
  <2>5. deleted' \cap DOMAIN cs = {} /\ DOMAIN cs \subseteq Conv
    BY <2>2, <2>3
  <2> QED BY <1>1, <2>2, <2>3, <2>4, <2>5, PageKeeps
<1> QED BY <1>2, <1>3 DEF Delete

LEMMA StepKeeps == ChatInv /\ [Next]_vars => ChatInv'
<1> SUFFICES ASSUME ChatInv, [Next]_vars PROVE ChatInv'
  OBVIOUS
<1>1. CASE Next
  BY <1>1, SendKeeps, RegenerateKeeps, ProgressKeeps, NewChatKeeps, SelectKeeps, DeleteKeeps,
     StopKeeps, RenderKeeps DEF Next
<1>2. CASE UNCHANGED vars
  BY <1>2 DEF vars, ChatInv, Shape, Good, Placed
<1> QED BY <1>1, <1>2

\* Handlers that touch no query keep the answers told: those in the lists they leave
\* are the current ones, or the handler counts their queries as disturbed.
LEMMA PageTells ==
  ASSUME ChatInv, Explained, NEW cs, NEW s, Rendered(cs, s),
         UNCHANGED <<query, given, stopped>>, disturbed \subseteq disturbed',
         \A c \in DOMAIN cs : \A i \in DOMAIN cs[c] :
           \/ cs[c][i].query \in disturbed'
           \/ c \in DOMAIN convs /\ i \in DOMAIN convs[c] /\ cs[c][i] = convs[c][i]
  PROVE  Explained'
<1>1. ASSUME NEW c \in DOMAIN cs, NEW i \in DOMAIN cs[c],
             cs[c][i].query \notin stopped' \cup disturbed'
      PROVE  StillTold(cs[c][i])
  BY <1>1 DEF Explained, Told, StillTold
<1> QED BY <1>1 DEF Explained, Told, StillTold, Rendered

LEMMA RunQueryTells ==
  ASSUME ChatInv, Explained, NEW q \in Query, NEW base \in Seq(Message), RunQuery(q, base),
         \A i \in DOMAIN base : i \in DOMAIN shown.convs[active]
                              /\ base[i] = shown.convs[active][i]
  PROVE  Explained'
<1> DEFINE cs == [convs EXCEPT ![active] = Append(base, Answer(q))]
<1>1. Shape /\ active \in DOMAIN convs /\ query[q].phase = "new" /\ given[q] = 0
  BY DEF ChatInv, Shape, RunQuery, Explained
<1>2. /\ query' = [query EXCEPT ![q] = [phase |-> "fetch", conv |-> active]]
      /\ given' = given /\ stopped' = stopped /\ convs' = cs
      /\ disturbed' = disturbed \cup Unsettled
  BY DEF RunQuery, Rendered
<1>3. Answer(q) \in Message
  BY DEF Answer, Message
<1>4. \A i \in DOMAIN Append(base, Answer(q)) :
        \/ i \in DOMAIN base /\ Append(base, Answer(q))[i] = base[i]
        \/ Append(base, Answer(q))[i] = Answer(q)
  BY <1>3
<1>5. StillTold(Answer(q))
  BY <1>1, <1>2 DEF StillTold, Answer, Late, Shape
<1>6. ASSUME NEW c \in DOMAIN convs, NEW i \in DOMAIN convs[c],
             convs[c][i].query \notin stopped \cup disturbed
      PROVE  StillTold(convs[c][i])
  <2>1. convs[c][i] \in Message /\ convs[c][i].query # q
    BY <1>1 DEF ChatInv, Good, Placed, Shape
  <2>2. query'[convs[c][i].query] = query[convs[c][i].query]
    BY <1>1, <1>2, <2>1 DEF Shape
  <2> QED BY <1>2, <1>6, <2>2 DEF Explained, Told, StillTold
<1>7. ASSUME NEW i \in DOMAIN base, base[i].query \notin stopped \cup disturbed'
      PROVE  StillTold(base[i])
  <2>1. base[i] \in Message /\ base[i].query \in Query
    <3>1. base[i] \in Message
      OBVIOUS
    <3> QED BY <3>1 DEF Message
  <2>2. shown.convs = convs
    BY <1>2, <1>7, <2>1 DEF Unsettled
  <2> QED BY <1>1, <1>2, <1>6, <1>7, <2>2
<1>8. ASSUME NEW c \in DOMAIN cs, NEW i \in DOMAIN cs[c],
             cs[c][i].query \notin stopped \cup disturbed'
      PROVE  StillTold(cs[c][i])
  <2>1. CASE c = active
    <3>1. cs[c] = Append(base, Answer(q))
      BY <2>1, <1>1 DEF Shape
    <3> QED BY <3>1, <1>4, <1>5, <1>7, <1>8
  <2>2. CASE c # active
    <3>1. c \in DOMAIN convs /\ cs[c] = convs[c]
      BY <1>1, <2>2 DEF Shape
    <3> QED BY <3>1, <1>2, <1>6, <1>8
  <2> QED BY <2>1, <2>2
<1>9. \A p \in Query : /\ query'[p].phase = "new" => given'[p] = 0
                       /\ query'[p].phase = "aborted" => p \in stopped'
  BY <1>1, <1>2 DEF Explained, Shape
<1> QED BY <1>2, <1>8, <1>9 DEF Explained, Told, StillTold

\* The other steps change the phase of one query at most, and no list but by Patch.
LEMMA TurnTells ==
  ASSUME ChatInv, Explained, NEW q \in Query, NEW phase \in Phase, Turn(q, phase),
         phase \notin {"new", "aborted"}, UNCHANGED <<convs, given>>,
         phase \in Late => query[q].phase \in Late \/ q \in stopped
  PROVE  Explained'
<1>1. \A p \in Query : query'[p].phase = IF p = q THEN phase ELSE query[p].phase
  BY DEF ChatInv, Shape, Turn
<1>2. ASSUME NEW c \in DOMAIN convs, NEW i \in DOMAIN convs[c],
             convs[c][i].query \notin stopped \cup disturbed
      PROVE  StillTold(convs[c][i])
  <2>1. convs[c][i].query \in Query
    <3>1. convs[c][i] \in Message
      BY DEF ChatInv, Shape
    <3> QED BY <3>1 DEF Message
  <2> QED BY <1>1, <1>2, <2>1 DEF Explained, Told, StillTold
<1>3. UNCHANGED <<stopped, disturbed>>
  BY DEF Turn
<1> QED BY <1>1, <1>2, <1>3 DEF Explained, Told, StillTold

LEMMA FrameTells ==
  ASSUME ChatInv, Explained, NEW q \in Query, NEW phase \in Phase, Turn(q, phase),
         NEW frame \in {"token", "sources", "error"}, convs' = Patch(q, frame),
         phase \notin {"new", "aborted"}, query[q].phase # "new",
         frame # "error" => query[q].phase = "tokens",
         IF frame = "token" THEN given' = [given EXCEPT ![q] = @ + 1] /\ phase = "tokens"
                            ELSE given' = given
  PROVE  Explained'
<1>1. \A p \in Query : /\ query'[p].phase = IF p = q THEN phase ELSE query[p].phase
                       /\ given'[p] = IF p = q /\ frame = "token" THEN given[p] + 1 ELSE given[p]
                       /\ given[p] \in Nat
  BY DEF ChatInv, Shape, Turn
<1>2. UNCHANGED <<stopped, disturbed>>
  BY DEF Turn
<1>3. ASSUME NEW c \in DOMAIN convs, NEW i \in DOMAIN convs[c],
             convs[c][i].query \notin stopped \cup disturbed
      PROVE  /\ convs[c][i].query # q => StillTold(convs[c][i])
             /\ convs[c][i].query = q => StillTold(Updated(convs[c][i], frame))
  <2> DEFINE m == convs[c][i]
  <2>1. m \in Message /\ Placed(c, m) /\ Told(m)
    BY <1>3 DEF ChatInv, Shape, Good, Explained
  <2>2. CASE m.query # q
    <3>1. m.query \in Query
      BY <2>1 DEF Message
    <3> QED BY <1>1, <2>1, <2>2, <3>1 DEF Told, StillTold
  <2>3. CASE m.query = q /\ frame = "token"
    <3>1. ~ m.error /\ m.text = given[q]
      BY <2>1, <2>3 DEF Placed, Told, Late
    <3>2. Updated(m, frame).query = q /\ Updated(m, frame).text = m.text + 1
      BY <2>1, <2>3 DEF Updated, Message
    <3> QED BY <1>1, <2>3, <3>1, <3>2 DEF StillTold, Late
  <2>4. CASE m.query = q /\ frame = "sources"
    <3>1. ~ m.error /\ m.text = given[q]
      BY <2>1, <2>4 DEF Placed, Told, Late
    <3>2. /\ Updated(m, frame).query = q /\ Updated(m, frame).text = m.text
          /\ Updated(m, frame).cited
      BY <2>1, <2>4 DEF Updated, Message
    <3> QED BY <1>1, <2>4, <3>1, <3>2 DEF StillTold
  <2>5. CASE m.query = q /\ frame = "error"
    <3>1. Updated(m, frame).error
      BY <2>1, <2>5 DEF Updated, Message
    <3> QED BY <2>5, <3>1 DEF StillTold
  <2> QED BY <2>2, <2>3, <2>4, <2>5
<1>4. ASSUME NEW c \in DOMAIN convs', NEW i \in DOMAIN convs'[c],
             convs'[c][i].query \notin stopped \cup disturbed
      PROVE  StillTold(convs'[c][i])
  <2>1. c \in DOMAIN convs /\ i \in DOMAIN convs[c]
    BY Patched
  <2>2. convs[c][i] \in Message /\ (convs[c][i].query = q => c = query[q].conv)
    BY <2>1 DEF ChatInv, Shape, Good, Placed
  <2>3. convs'[c][i] = IF convs[c][i].query = q THEN Updated(convs[c][i], frame)
                                                ELSE convs[c][i]
    BY <2>1, <2>2, Patched
  <2>4. Updated(convs[c][i], frame).query = convs[c][i].query
    BY <2>2 DEF Updated, Message
  <2> QED BY <1>3, <1>4, <2>1, <2>3, <2>4
<1>5. \A p \in Query : /\ query'[p].phase = "new" => given'[p] = 0
                       /\ query'[p].phase = "aborted" => p \in stopped'
  BY <1>1, <1>2 DEF Explained
<1> QED BY <1>2, <1>4, <1>5 DEF Explained, Told, StillTold

LEMMA ProgressTells ==
  ASSUME ChatInv, Explained, NEW q \in Query, Progress(q)
  PROVE  Explained'
<1> USE DEF Phase, Late
<1>1. CASE Unauthorized(q)
  BY <1>1, TurnTells DEF Unauthorized
<1>2. CASE Retry(q)
  BY <1>2, TurnTells DEF Retry, Explained
<1>3. CASE Connected(q)
  BY <1>3, TurnTells DEF Connected
<1>4. CASE Refused(q)
  BY <1>4, FrameTells DEF Refused, Fail
<1>5. CASE Token(q)
  BY <1>5, FrameTells DEF Token
<1>6. CASE Sources(q)
  BY <1>6, FrameTells DEF Sources
<1>7. CASE Done(q)
  BY <1>7, TurnTells DEF Done
<1>8. CASE ErrorFrame(q)
  BY <1>8, FrameTells DEF ErrorFrame, Fail
<1>9. CASE Interrupted(q)
  BY <1>9, FrameTells DEF Interrupted, Fail
<1>10. CASE EndOfStream(q)
  BY <1>10, TurnTells DEF EndOfStream
<1> QED BY <1>1, <1>2, <1>3, <1>4, <1>5, <1>6, <1>7, <1>8, <1>9, <1>10 DEF Progress

LEMMA StopTells ==
  ASSUME ChatInv, Explained, Stop
  PROVE  Explained'
<1>1. /\ UNCHANGED <<convs, given, disturbed>> /\ stopped' = stopped \cup ({current} \cap Running)
      /\ \A q \in Query :
           \/ query'[q] = query[q]
           \/ /\ q \in stopped' /\ query'[q].phase # "new"
  BY DEF Stop, Rendered, ChatInv, Shape, Running
<1>2. ASSUME NEW c \in DOMAIN convs, NEW i \in DOMAIN convs[c],
             convs[c][i].query \notin stopped' \cup disturbed
      PROVE  StillTold(convs[c][i])
  <2>1. convs[c][i].query \in Query
    <3>1. convs[c][i] \in Message
      BY DEF ChatInv, Shape
    <3> QED BY <3>1 DEF Message
  <2>2. query'[convs[c][i].query] = query[convs[c][i].query]
    BY <1>1, <1>2, <2>1
  <2> QED BY <1>1, <1>2, <2>2 DEF Explained, Told, StillTold
<1> QED BY <1>1, <1>2 DEF Explained, Told, StillTold

LEMMA SendTells ==
  ASSUME ChatInv, Explained, NEW q \in Query, Send(q) \/ Regenerate(q)
  PROVE  Explained'
<1> DEFINE all == shown.convs[active]
<1>1. all \in Seq(Message)
  BY DEF ChatInv, Shape
<1>2. CASE Send(q)
  BY <1>1, <1>2, RunQueryTells DEF Send
<1>3. CASE Regenerate(q)
  <2>1. RunQuery(q, Front(all))
    BY <1>3 DEF Regenerate
  <2> HIDE DEF all
  <2>2. /\ Front(all) \in Seq(Message)
        /\ \A i \in DOMAIN Front(all) : i \in DOMAIN all /\ Front(all)[i] = all[i]
    BY <1>1, FrontOf
  <2> QED BY <2>1, <2>2, RunQueryTells DEF all
<1> QED BY <1>2, <1>3

LEMMA DeleteTells ==
  ASSUME ChatInv, Explained, NEW c \in Conv, Delete(c)
  PROVE  Explained'
<1>1. UNCHANGED <<query, given, stopped>> /\ disturbed' = disturbed \cup Unsettled
  BY DEF Delete
<1>2. CASE \E s : Rendered([x \in Sidebar \ {c} |-> shown.convs[x]], s)
  <2> DEFINE cs == [x \in Sidebar \ {c} |-> shown.convs[x]]
  <2>1. PICK s : Rendered(cs, s)
    BY <1>2
  <2>2. ASSUME NEW x \in DOMAIN cs, NEW i \in DOMAIN cs[x]
        PROVE  \/ cs[x][i].query \in disturbed'
               \/ x \in DOMAIN convs /\ i \in DOMAIN convs[x] /\ cs[x][i] = convs[x][i]
    <3>1. x \in DOMAIN convs /\ cs[x] = shown.convs[x] /\ cs[x][i] \in Message
      BY DEF Sidebar, ChatInv, Shape
    <3>2. CASE shown.convs = convs
      BY <3>1, <3>2
    <3>3. CASE shown.convs # convs
      BY <1>1, <3>1, <3>3 DEF Unsettled, Message
    <3> QED BY <3>2, <3>3
  <2> HIDE DEF cs
  <2> QED BY <1>1, <2>1, <2>2, PageTells
<1>3. CASE \E s : Rendered([x \in {active'} |-> << >>], s)
  <2> PICK a : a = active'
    OBVIOUS
  <2> DEFINE cs == [x \in {a} |-> << >>]
  <2>1. PICK s : Rendered(cs, s)
    BY <1>3
  <2>2. \A x \in DOMAIN cs : DOMAIN cs[x] = {}
    BY EmptySeq
  <2> HIDE DEF cs
  <2> QED BY <1>1, <2>1, <2>2, PageTells
<1> QED BY <1>2, <1>3 DEF Delete

LEMMA OthersTell ==
  ASSUME ChatInv, Explained, Render \/ \E c \in Conv : NewChat(c) \/ Select(c)
  PROVE  Explained'
<1>1. CASE Render \/ \E c \in Conv : Select(c)
  <2>1. PICK s : Rendered(convs, s)
    BY <1>1 DEF Render, Select
  <2>2. UNCHANGED <<query, given, stopped, disturbed>>
    BY <1>1 DEF Render, Select
  <2> QED BY <2>1, <2>2, PageTells
<1>2. ASSUME NEW c \in Conv, NewChat(c) PROVE Explained'
  <2> DEFINE cs == [x \in DOMAIN convs \cup {c} |-> IF x = c THEN << >> ELSE convs[x]]
  <2>1. Rendered(cs, streaming) /\ UNCHANGED <<query, given, stopped, disturbed>>
    BY <1>2 DEF NewChat
  <2>2. ASSUME NEW x \in DOMAIN cs
        PROVE  DOMAIN cs[x] = {} \/ (x \in DOMAIN convs /\ cs[x] = convs[x])
    <3>1. CASE x = c
      BY <3>1, EmptySeq
    <3>2. CASE x # c
      BY <3>2
    <3> QED BY <3>1, <3>2
  <2> HIDE DEF cs
  <2> QED BY <2>1, <2>2, PageTells
<1> QED BY <1>1, <1>2

LEMMA StepTells == ChatInv /\ Explained /\ [Next]_vars => Explained'
<1> SUFFICES ASSUME ChatInv, Explained, [Next]_vars PROVE Explained'
  OBVIOUS
<1>1. CASE Next
  BY <1>1, SendTells, ProgressTells, StopTells, DeleteTells, OthersTell DEF Next
<1>2. CASE UNCHANGED vars
  BY <1>2 DEF vars, Explained, Told
<1> QED BY <1>1, <1>2

LEMMA InitTells == Init => Explained
<1> SUFFICES ASSUME Init PROVE Explained
  OBVIOUS
<1>1. DOMAIN << >> = {}
  BY EmptySeq
<1>2. PICK c \in Conv : /\ convs = [x \in {c} |-> << >>]
                        /\ query = [q \in Query |-> [phase |-> "new", conv |-> c]]
  BY DEF Init
<1>3. given = [q \in Query |-> 0]
  BY DEF Init
<1> QED BY <1>1, <1>2, <1>3 DEF Explained

\* The inductive invariant of the chat.
THEOREM Invariance == Spec => []ChatInv
BY InitChat, StepKeeps, PTL DEF Spec

\* Every answer stands in the conversation it was asked in and holds nothing its own
\* stream has not brought (patchAssistant, ChatApp.tsx:178).
THEOREM InPlace == Spec => []AnswersInPlace
<1>1. ChatInv => AnswersInPlace
  BY DEF ChatInv, Good, Placed, AnswersInPlace, Late
<1> QED BY <1>1, Invariance, PTL

\* No stream, render or handler brings a deleted conversation back (ChatApp.tsx:181).
THEOREM Gone == Spec => []DeletedStaysDeleted
<1>1. ChatInv => DeletedStaysDeleted
  BY DEF ChatInv, DeletedStaysDeleted
<1> QED BY <1>1, Invariance, PTL

\* A query receives no token after it was stopped (ChatApp.tsx:225).
THEOREM Stopped == Spec => StopHolds
<1>1. ASSUME ChatInv, [Next]_vars, NEW q \in stopped PROVE given'[q] = given[q]
  <2>1. q \in Query /\ query[q].phase # "tokens"
    BY <1>1 DEF ChatInv, Shape
  <2>2. CASE given' = given
    BY <2>2
  <2>3. ASSUME NEW p \in Query, Token(p) PROVE given'[q] = given[q]
    BY <2>1, <2>3 DEF Token, ChatInv, Shape
  <2>4. given' = given \/ \E p \in Query : Token(p)
    BY <1>1 DEF Next, vars, Send, Regenerate, RunQuery, Progress, Unauthorized, Retry,
       Connected, Refused, Fail, Sources, Done, ErrorFrame, Interrupted, EndOfStream,
       NewChat, Select, Delete, Stop, Render
  <2> QED BY <2>2, <2>3, <2>4
<1>2. ChatInv /\ [Next]_vars => [\A q \in stopped : given'[q] = given[q]]_vars
  BY <1>1
<1> QED BY <1>2, Invariance, PTL DEF Spec, StopHolds
----------------------------------------------------------------------------
\* An answer that has ended is whole and cited, or marked as failed, unless it was
\* stopped or disturbed, or its body just ended (README.md:244-245).
THEOREM Ended == Spec => []EndsExplained
<1>1. ASSUME ChatInv, Explained, NEW q \in Query \ (stopped \cup disturbed),
             query[q].phase = "ended", NEW m \in AnswersTo(q)
      PROVE  m.error \/ (m.text = given[q] /\ m.cited)
  <2>1. PICK c \in DOMAIN convs : \E i \in DOMAIN convs[c] : m = convs[c][i] /\ m.query = q
    BY DEF AnswersTo
  <2>2. PICK i \in DOMAIN convs[c] : m = convs[c][i] /\ m.query = q
    BY <2>1
  <2> QED BY <1>1, <2>2 DEF Explained, Told, Late
<1>2. ChatInv /\ Explained => EndsExplained
  BY <1>1 DEF EndsExplained
<1> QED BY <1>2, InitTells, StepTells, Invariance, PTL DEF Spec
============================================================================
