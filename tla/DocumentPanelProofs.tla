------------------------ MODULE DocumentPanelProofs ------------------------
(***************************************************************************)
(* That the count and the list of documents are as new as they are said to *)
(* be, for any number of files, accounts, handlers, operations and polls.  *)
(***************************************************************************)
EXTENDS DocumentPanel, TLAPS

Handler == [kind : {"mount", "upload", "delete"},
            phase : {"request", "answered", "failed", "list", "listed"},
            left : SUBSET File, reply : (SUBSET File) \cup {NoReply}, as : User]

\* What makes CountIsFresh inductive: no poll of an instance that is not mounted yet
\* is in flight, and the polls of the mounted one are as new as its count.
FreshInv ==
  /\ changes \in Nat /\ since \in Nat /\ since <= changes
  /\ version \in Nat /\ mounted \in Nat /\ mounted <= version
  /\ health \in Nat \cup {Unknown}
  /\ \A p \in asked : /\ p \in [instance : Nat, count : Nat \cup {Unknown}]
                      /\ p.instance <= mounted
  /\ mounted = version =>
       /\ CountShown => health >= since
       /\ \A p \in asked : p.instance = mounted /\ p.count # Unknown => p.count >= since

Shape ==
  /\ files \in [User -> SUBSET File] /\ user \in User /\ smooth \in BOOLEAN
  /\ chain \in [Chain -> {Free} \cup Handler]

\* What makes ListIsCurrent inductive: while nothing has failed or overlapped, one
\* handler at most is under way, it acts for the account of the tab, and the list it
\* has got is the directory's.
SmoothInv ==
  smooth =>
    /\ \A c, d \in Chain : chain[c] # Free /\ chain[d] # Free => c = d
    /\ \A c \in Chain : chain[c] # Free =>
         /\ chain[c].as = user /\ chain[c].phase # "failed"
         /\ chain[c].phase = "listed" => chain[c].reply = files[user]
    /\ Quiet => shown = files[user]

PanelInv == Shape /\ SmoothInv

fresh == <<changes, since, version, mounted, asked, health>>

LEMMA InitFresh == Init => FreshInv
BY DEF Init, FreshInv, Poll, Unknown, CountShown

LEMMA StepFresh == FreshInv /\ [Next]_vars => FreshInv'
<1> SUFFICES ASSUME FreshInv, [Next]_vars PROVE FreshInv'
  OBVIOUS
<1> USE DEF Unknown, CountShown
<1>1. CASE UNCHANGED fresh
  BY <1>1 DEF fresh, FreshInv
<1>2. CASE changes' = changes + 1 /\ UNCHANGED <<since, version, mounted, asked, health>>
  BY <1>2 DEF FreshInv
<1>3. ASSUME NEW c \in Chain, Listed(c) PROVE FreshInv'
  <2>1. UNCHANGED <<changes, mounted, asked, health>>
    BY <1>3 DEF Listed, server, status
  <2>2. UNCHANGED <<version, since>> \/ (version' = version + 1 /\ since' = changes)
    BY <1>3 DEF Listed
  <2>3. CASE UNCHANGED <<version, since>>
    BY <2>1, <2>3, <1>1 DEF fresh
  <2>4. CASE version' = version + 1 /\ since' = changes
    <3>1. mounted' # version'
      BY <2>1, <2>4 DEF FreshInv
    <3> QED BY <2>1, <2>4, <3>1 DEF FreshInv
  <2> QED BY <2>2, <2>3, <2>4
<1>4. CASE Remount
  <2>1. /\ UNCHANGED <<changes, since, version>> /\ mounted' = version /\ health' = Unknown
        /\ asked' = asked \cup {Poll(version)} /\ mounted < version
    BY <1>4 DEF Remount, server, FreshInv
  <2>2. \A p \in asked : p.instance # mounted'
    BY <2>1 DEF FreshInv
  <2> QED BY <2>1, <2>2 DEF FreshInv, Poll
<1>5. CASE PollInterval
  <2>1. /\ UNCHANGED <<changes, since, version, mounted, health>>
        /\ asked' = asked \cup {Poll(mounted)}
    BY <1>5 DEF PollInterval, server
  <2> QED BY <2>1 DEF FreshInv, Poll
<1>6. ASSUME NEW p \in asked, ServeHealth(p) PROVE FreshInv'
  <2>1. /\ UNCHANGED <<changes, since, version, mounted, health>>
        /\ asked' = (asked \ {p}) \cup {[p EXCEPT !.count = changes]}
    BY <1>6 DEF ServeHealth, server
  <2>2. [p EXCEPT !.count = changes] = [instance |-> p.instance, count |-> changes]
    BY DEF FreshInv
  <2> QED BY <2>1, <2>2 DEF FreshInv
<1>7. ASSUME NEW p \in asked, Polled(p) PROVE FreshInv'
  <2>1. /\ UNCHANGED <<changes, since, version, mounted>> /\ asked' = asked \ {p}
        /\ health' = IF p.instance = mounted THEN p.count ELSE health
    BY <1>7 DEF Polled, server
  <2>2. p.count \in Nat \cup {Unknown}
    BY DEF FreshInv
  <2> QED BY <2>1, <2>2 DEF FreshInv
<1>8. ASSUME NEW c \in Chain,
             \/ \E F \in SUBSET File : HandleFiles(c, F)
             \/ \E f \in File : HandleDelete(c, f)
             \/ RequestFails(c) \/ Proceed(c) \/ FetchDocuments(c) \/ Retried(c) \/ Failed(c)
      PROVE  UNCHANGED fresh
  BY <1>8 DEF fresh, server, status, HandleFiles, HandleDelete, RequestFails, Proceed,
     FetchDocuments, Retried, Failed
<1>9. ASSUME NEW c \in Chain, NEW f \in File, UploadDocument(c, f) \/ DeleteDocument(c, f)
      PROVE  changes' = changes + 1 /\ UNCHANGED <<since, version, mounted, asked, health>>
  BY <1>9 DEF status, UploadDocument, DeleteDocument, Apply
<1>10. CASE OtherTab
  BY <1>2, <1>10 DEF OtherTab, status
<1>11. CASE SwitchAccount
  BY <1>1, <1>11 DEF SwitchAccount, status, server, fresh
<1>12. CASE UNCHANGED vars
  BY <1>1, <1>12 DEF vars, status, server, fresh
<1>13. CASE Next
  BY <1>1, <1>2, <1>3, <1>4, <1>5, <1>6, <1>7, <1>8, <1>9, <1>10, <1>11, <1>13 DEF Next
<1> QED BY <1>12, <1>13

\* The count is as new as the last change the tab has reported (ChatApp.tsx:271,
\* StatusIndicator.tsx:12), whichever order the answers to polls come in.
THEOREM Fresh == Spec => []CountIsFresh
<1>1. FreshInv => CountIsFresh
  BY DEF FreshInv, CountIsFresh
<1> QED BY <1>1, InitFresh, StepFresh, PTL DEF Spec

LEMMA InitPanel == Init => PanelInv
<1> SUFFICES ASSUME Init PROVE PanelInv
  OBVIOUS
<1> PICK F \in SUBSET File : files = [u \in User |-> IF u = user THEN F ELSE {}]
  BY DEF Init
<1>1. user \in User /\ Mount \in Chain /\ smooth = TRUE
  BY PanelAssumption DEF Init, FirstUser, Mount
<1>2. Call("mount", "list", {}, user) \in Handler
  BY <1>1 DEF Call, Handler
<1>3. Shape
  BY <1>1, <1>2 DEF Init, Shape
<1>4. Call("mount", "list", {}, user) # Free
  BY DEF Call, Free
<1> QED BY <1>1, <1>3, <1>4 DEF Init, PanelInv, SmoothInv, Quiet, Call

\* A step of one handler, which is the only one under way while all is smooth.
LEMMA HandlerStep ==
  ASSUME PanelInv, NEW c \in Chain, NEW h \in {Free} \cup Handler,
         chain' = [chain EXCEPT ![c] = h], chain[c] # Free \/ (smooth' => Quiet),
         files' \in [User -> SUBSET File], user' = user, smooth' \in BOOLEAN, smooth' => smooth,
         smooth' /\ h = Free => shown' = files'[user],
         smooth' /\ h # Free => /\ h.as = user /\ h.phase # "failed"
                                /\ h.phase = "listed" => h.reply = files'[user]
  PROVE  PanelInv'
<1>1. Shape'
  BY DEF PanelInv, Shape
<1>2. ASSUME smooth' PROVE \A d \in Chain : chain'[d] = IF d = c THEN h ELSE Free
  BY <1>2 DEF PanelInv, Shape, SmoothInv, Quiet
<1>3. ASSUME smooth', h # Free PROVE SmoothInv'
  <2>1. \A d \in Chain : chain'[d] # Free => d = c
    BY <1>2, <1>3
  <2>2. chain'[c] = h /\ ~ Quiet'
    BY <1>2, <1>3 DEF Quiet
  <2> QED BY <1>3, <2>1, <2>2 DEF SmoothInv
<1>4. ASSUME smooth', h = Free PROVE SmoothInv'
  BY <1>2, <1>4 DEF SmoothInv, Quiet
<1> QED BY <1>1, <1>3, <1>4 DEF PanelInv, SmoothInv

LEMMA StartKeeps ==
  ASSUME PanelInv, NEW c \in Chain,
         (\E F \in SUBSET File : HandleFiles(c, F)) \/ (\E f \in File : HandleDelete(c, f))
  PROVE  PanelInv'
<1>1. PICK k \in {"upload", "delete"}, F \in SUBSET File :
        chain' = [chain EXCEPT ![c] = Call(k, "request", F, user)]
  BY DEF HandleFiles, HandleDelete
<1>2. /\ Call(k, "request", F, user) \in Handler /\ Call(k, "request", F, user) # Free
      /\ Call(k, "request", F, user).as = user /\ Call(k, "request", F, user).phase = "request"
  BY DEF Call, Handler, Free, PanelInv, Shape
<1>3. UNCHANGED <<files, user, shown>> /\ smooth' = (smooth /\ Quiet)
  BY DEF HandleFiles, HandleDelete, server, list
<1> QED BY <1>1, <1>2, <1>3, HandlerStep DEF PanelInv, Shape

\* What the steps of a handler under way have in common.
LEMMA UnderWay ==
  ASSUME PanelInv, NEW c \in Chain, chain[c].phase # "free"
  PROVE  /\ chain[c] \in Handler /\ chain[c] # Free
         /\ smooth => /\ chain[c].as = user /\ chain[c].phase # "failed"
                      /\ chain[c].phase = "listed" => chain[c].reply = files[user]
<1>1. chain[c] # Free
  BY DEF Free
<1> QED BY <1>1 DEF PanelInv, Shape, SmoothInv

LEMMA ApplyKeeps ==
  ASSUME PanelInv, NEW c \in Chain, NEW f \in File, NEW F \in SUBSET File, Apply(c, f, F)
  PROVE  PanelInv'
<1>1. chain[c] \in Handler /\ chain[c] # Free /\ (smooth => chain[c].as = user)
  BY UnderWay DEF Apply
<1>2. PICK p \in {"answered", "failed"} :
        /\ chain' = [chain EXCEPT ![c].phase = p, ![c].left = @ \ {f}]
        /\ smooth' = (smooth /\ p = "answered")
  BY DEF Apply
<1> DEFINE h == [chain[c] EXCEPT !.phase = p, !.left = @ \ {f}]
<1>3. chain' = [chain EXCEPT ![c] = h]
  BY <1>2 DEF PanelInv, Shape
<1>4. h \in Handler /\ h.phase = p /\ h.as = chain[c].as /\ h # Free
  BY <1>1 DEF Handler, Free
<1>5. files' \in [User -> SUBSET File] /\ user' = user
  BY DEF Apply, PanelInv, Shape
<1>6. /\ smooth' \in BOOLEAN /\ (smooth' => smooth)
      /\ smooth' => /\ h.as = user /\ h.phase # "failed" /\ h.phase # "listed"
  BY <1>1, <1>2, <1>4 DEF PanelInv, Shape
<1> HIDE DEF h
<1> QED BY <1>1, <1>3, <1>4, <1>5, <1>6, HandlerStep

\* The handler goes on with another phase, reply or account.
LEMMA GoesOn ==
  ASSUME PanelInv, NEW c \in Chain, chain[c].phase # "free",
         NEW h \in Handler, chain' = [chain EXCEPT ![c] = h],
         UNCHANGED <<files, user, shown>>, smooth' \in BOOLEAN, smooth' => smooth,
         smooth' => /\ h.as = user /\ h.phase # "failed"
                    /\ h.phase = "listed" => h.reply = files[user]
  PROVE  PanelInv'
<1>1. chain[c] # Free
  BY UnderWay
<1>2. h # Free
  BY DEF Handler, Free
<1> QED BY <1>1, <1>2, HandlerStep DEF PanelInv, Shape

LEMMA RequestKeeps ==
  ASSUME PanelInv, NEW c \in Chain, RequestFails(c) \/ Retried(c) \/ Proceed(c)
  PROVE  PanelInv'
<1>1. chain[c] \in Handler /\ chain[c].phase # "free" /\ (smooth => chain[c].as = user)
  BY UnderWay DEF RequestFails, Retried, Proceed
<1>2. UNCHANGED <<files, user, shown>>
  BY DEF RequestFails, Retried, Proceed, server, list
<1>3. user \in User /\ smooth \in BOOLEAN
  BY DEF PanelInv, Shape
<1>4. CASE RequestFails(c)
  <2> DEFINE h == [chain[c] EXCEPT !.phase = "failed"]
  <2>1. chain' = [chain EXCEPT ![c] = h] /\ smooth' = FALSE
    BY <1>4 DEF RequestFails, PanelInv, Shape
  <2>2. h \in Handler
    BY <1>1 DEF Handler
  <2> QED BY <1>1, <1>2, <2>1, <2>2, GoesOn
<1>5. CASE Retried(c)
  <2> DEFINE h == [chain[c] EXCEPT !.as = user]
  <2>1. chain' = [chain EXCEPT ![c] = h] /\ smooth' = FALSE
    BY <1>1, <1>3, <1>5 DEF Retried, PanelInv, Shape
  <2>2. h \in Handler
    BY <1>1, <1>3 DEF Handler
  <2> HIDE DEF h
  <2> QED BY <1>1, <1>2, <2>1, <2>2, GoesOn
<1>6. CASE Proceed(c)
  <2> DEFINE p == IF chain[c].left = {} THEN "list" ELSE "request"
             h == [chain[c] EXCEPT !.phase = p, !.as = user]
  <2>1. chain' = [chain EXCEPT ![c] = h] /\ smooth' = smooth
    BY <1>6 DEF Proceed, PanelInv, Shape
  <2>2. h \in Handler /\ h.as = user /\ h.phase \in {"list", "request"}
    BY <1>1, <1>3 DEF Handler
  <2> HIDE DEF h
  <2> QED BY <1>1, <1>2, <1>3, <2>1, <2>2, GoesOn
<1> QED BY <1>4, <1>5, <1>6

LEMMA FetchKeeps ==
  ASSUME PanelInv, NEW c \in Chain, FetchDocuments(c)
  PROVE  PanelInv'
<1>1. chain[c] \in Handler /\ chain[c].phase # "free" /\ (smooth => chain[c].as = user)
  BY UnderWay DEF FetchDocuments
<1>2. UNCHANGED <<files, user, shown>> /\ smooth \in BOOLEAN
  BY DEF FetchDocuments, server, list, PanelInv, Shape
<1>3. PICK r \in {Listing(chain[c].as), NoReply} :
        /\ chain' = [chain EXCEPT ![c].phase = "listed", ![c].reply = r]
        /\ smooth' = (smooth /\ r # NoReply)
  BY DEF FetchDocuments
<1> DEFINE h == [chain[c] EXCEPT !.phase = "listed", !.reply = r]
<1>4. chain' = [chain EXCEPT ![c] = h]
  BY <1>3 DEF PanelInv, Shape
<1>5. r \in (SUBSET File) \cup {NoReply}
  BY <1>1, <1>3 DEF Listing, Handler, PanelInv, Shape
<1>6. h \in Handler /\ h.as = chain[c].as /\ h.phase = "listed" /\ h.reply = r
  BY <1>1, <1>5 DEF Handler
<1>7. smooth' => h.reply = files[user]
  BY <1>1, <1>3, <1>6 DEF Listing
<1> HIDE DEF h
<1> QED BY <1>1, <1>2, <1>3, <1>4, <1>6, <1>7, GoesOn

LEMMA EndKeeps ==
  ASSUME PanelInv, NEW c \in Chain, Listed(c) \/ Failed(c)
  PROVE  PanelInv'
<1>1. chain' = [chain EXCEPT ![c] = Free] /\ UNCHANGED <<files, user, smooth>>
  BY DEF Listed, Failed, Finally, server
<1>2. chain[c] \in Handler /\ chain[c] # Free
  BY UnderWay DEF Listed, Failed
<1>3. ASSUME smooth PROVE shown' = files[user]
  <2>1. Listed(c) /\ chain[c].reply = files[user]
    BY <1>3, UnderWay DEF Listed, Failed
  <2>2. files[user] # NoReply
    BY PanelAssumption DEF NoReply, PanelInv, Shape
  <2> QED BY <2>1, <2>2 DEF Listed
<1> QED BY <1>1, <1>2, <1>3, HandlerStep DEF PanelInv, Shape

LEMMA StepPanel == PanelInv /\ [Next]_vars => PanelInv'
<1> SUFFICES ASSUME PanelInv, [Next]_vars PROVE PanelInv'
  OBVIOUS
<1>1. ASSUME NEW c \in Chain, NEW f \in File, UploadDocument(c, f) \/ DeleteDocument(c, f)
      PROVE  PanelInv'
  <2>1. chain[c] \in Handler
    BY <1>1, UnderWay DEF UploadDocument, DeleteDocument, Apply
  <2>2. files[chain[c].as] \subseteq File
    BY <2>1 DEF Handler, PanelInv, Shape
  <2> QED BY <1>1, <2>2, ApplyKeeps DEF UploadDocument, DeleteDocument
<1>2. CASE OtherTab
  <2>1. files' \in [User -> SUBSET File] /\ UNCHANGED <<user, chain>> /\ smooth' = FALSE
    BY <1>2 DEF OtherTab, panel, PanelInv, Shape
  <2> QED BY <2>1 DEF PanelInv, Shape, SmoothInv
<1>3. CASE SwitchAccount
  <2>1. user' \in User /\ UNCHANGED <<files, chain>> /\ smooth' = FALSE
    BY <1>3 DEF SwitchAccount, server, panel
  <2> QED BY <2>1 DEF PanelInv, Shape, SmoothInv
<1>4. CASE UNCHANGED <<files, user, chain, shown, smooth>>
  BY <1>4 DEF PanelInv, Shape, SmoothInv, Quiet
<1>5. ASSUME Remount \/ PollInterval \/ (\E p \in asked : ServeHealth(p) \/ Polled(p))
      PROVE  UNCHANGED <<files, user, chain, shown, smooth>>
  BY <1>5 DEF Remount, PollInterval, ServeHealth, Polled, server, panel, list
<1>6. CASE UNCHANGED vars
  BY <1>4, <1>6 DEF vars, server, panel, list
<1>7. CASE Next
  BY <1>1, <1>2, <1>3, <1>4, <1>5, <1>7, StartKeeps, RequestKeeps, FetchKeeps, EndKeeps DEF Next
<1> QED BY <1>6, <1>7

\* While nothing has failed, overlapped or come from elsewhere, an idle panel lists
\* what the account has (UploadPanel.tsx:20-31).
THEOREM Current == Spec => []ListIsCurrent
<1>1. PanelInv => ListIsCurrent
  BY DEF PanelInv, SmoothInv, ListIsCurrent
<1> QED BY <1>1, InitPanel, StepPanel, PTL DEF Spec
============================================================================
