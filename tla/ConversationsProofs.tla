------------------------ MODULE ConversationsProofs ------------------------
(***************************************************************************)
(* That the chat histories of accounts are kept apart, for any number of   *)
(* tabs, accounts and conversations.                                       *)
(***************************************************************************)
EXTENDS Conversations, TLAPS

\* A conversation list that holds nothing but what the account u has begun.
Of(l, u) == \A c \in DOMAIN l : c \in Conv /\ author[c] = u

Shape ==
  /\ user \in [Tab -> User \cup {NoUser}]
  /\ list = [t \in Tab |-> list[t]] /\ loaded = [t \in Tab |-> loaded[t]]
  /\ timer = [t \in Tab |-> timer[t]]
  /\ stored = [u \in User |-> stored[u]]
  /\ author \in [Conv -> User \cup {NoUser}]

\* What makes KeptApart inductive: what has been loaded and is not yet rendered is
\* the account's, and a save that is due once it is rendered goes to its key.  The
\* list of a tab, and the save due, may be another account's up to that render.
TabInv(t) ==
  /\ user[t] = NoUser => list[t] = Empty /\ loaded[t] = Empty /\ timer[t] = NoSave
  /\ Of(loaded[t], user[t])
  /\ loaded[t] = Empty => /\ Of(list[t], user[t]) /\ Of(timer[t].list, user[t])
                          /\ timer[t] = NoSave \/ timer[t].user = user[t]

HistoryInv ==
  /\ Shape
  /\ \A u \in User : Of(stored[u], u)
  /\ \A t \in Tab : TabInv(t)

\* A list with conversations is not the empty one.
LEMMA NotEmpty ==
  ASSUME NEW S, S # {}
  PROVE  [x \in S |-> 0] # Empty
BY DEF Empty

\* A conversation that is begun was in no list, so every list stays whose it was.
LEMMA BegunIsNew ==
  ASSUME Shape, NEW c \in Unused, NEW u \in User, author' = [author EXCEPT ![c] = u]
  PROVE  /\ \A l : \A v \in User : Of(l, v) => Of(l, v)'
         /\ Of([x \in {c} |-> 0], u)'
         /\ c \in Conv
<1>1. c \in Conv /\ author[c] = NoUser
  BY DEF Unused
<1>2. \A d \in Conv \ {c} : author'[d] = author[d]
  BY DEF Shape
<1>3. ASSUME NEW l, NEW v \in User, Of(l, v), NEW d \in DOMAIN l
      PROVE  d \in Conv /\ author'[d] = v
  BY <1>1, <1>2, <1>3, ConversationsAssumption DEF Of
<1> QED BY <1>1, <1>3 DEF Of, Shape

\* With the authors as they were, every list stays whose it was.
LEMMA SameAuthors ==
  ASSUME author' = author
  PROVE  \A l, v : Of(l, v) => Of(l, v)'
BY DEF Of

LEMMA InitHistory == Init => HistoryInv
<1> SUFFICES ASSUME Init PROVE HistoryInv
  OBVIOUS
<1>1. Shape
  BY DEF Init, Shape
<1>2. \A u \in User : Of(stored[u], u)
  BY DEF Init, Of, Empty
<1>3. ASSUME NEW t \in Tab PROVE TabInv(t)
  <2>1. user[t] = NoUser /\ list[t] = Empty /\ loaded[t] = Empty /\ timer[t] = NoSave
    BY DEF Init
  <2>2. DOMAIN Empty = {} /\ NoSave.list = Empty
    BY DEF Empty, NoSave
  <2> QED BY <2>1, <2>2 DEF TabInv, Of
<1> QED BY <1>1, <1>2, <1>3 DEF HistoryInv

\* The load effect sets a list of the account, whatever was stored.
LEMMA Loads ==
  ASSUME HistoryInv, NEW t \in Tab, NEW u \in User, LoadEffect(t, u)
  PROVE  /\ loaded' = [s \in Tab |-> loaded'[s]]
         /\ \A s \in Tab \ {t} : loaded'[s] = loaded[s]
         /\ loaded'[t] # Empty /\ Of(loaded[t], u)'
         /\ author' \in [Conv -> User \cup {NoUser}]
         /\ \A l : \A v \in User : Of(l, v) => Of(l, v)'
<1>1. CASE stored[storageKey(u)] # Empty /\ UNCHANGED author
           /\ loaded' = [loaded EXCEPT ![t] = stored[storageKey(u)]]
  <2>1. loaded'[t] = stored[u] /\ Of(stored[u], u) /\ stored[u] # Empty
    BY <1>1 DEF HistoryInv, Shape, storageKey
  <2> QED BY <1>1, <2>1, SameAuthors DEF HistoryInv, Shape
<1>2. ASSUME NEW c \in Unused, loaded' = [loaded EXCEPT ![t] = [x \in {c} |-> 0]],
             author' = [author EXCEPT ![c] = u]
      PROVE  /\ loaded' = [s \in Tab |-> loaded'[s]]
             /\ \A s \in Tab \ {t} : loaded'[s] = loaded[s]
             /\ loaded'[t] # Empty /\ Of(loaded[t], u)'
             /\ author' \in [Conv -> User \cup {NoUser}]
             /\ \A l : \A v \in User : Of(l, v) => Of(l, v)'
  <2>1. loaded'[t] = [x \in {c} |-> 0]
    BY <1>2 DEF HistoryInv, Shape
  <2> QED BY <1>2, <2>1, BegunIsNew, NotEmpty DEF HistoryInv, Shape
<1> QED BY <1>1, <1>2 DEF LoadEffect

\* What the tabs not concerned keep.
LEMMA OthersKeep ==
  ASSUME HistoryInv, NEW t \in Tab, NEW s \in Tab \ {t},
         \A l : \A v \in User : Of(l, v) => Of(l, v)',
         user'[s] = user[s], list'[s] = list[s], loaded'[s] = loaded[s], timer'[s] = timer[s]
  PROVE  TabInv(s)'
<1>1. TabInv(s) /\ user[s] \in User \cup {NoUser}
  BY DEF HistoryInv, Shape
<1>2. CASE user[s] = NoUser
  BY <1>1, <1>2 DEF TabInv, Of, Empty, NoSave
<1>3. CASE user[s] \in User
  BY <1>1, <1>3, ConversationsAssumption DEF TabInv
<1> QED BY <1>1, <1>2, <1>3

LEMMA StoredKept ==
  ASSUME HistoryInv, \A l : \A v \in User : Of(l, v) => Of(l, v)', UNCHANGED stored
  PROVE  \A u \in User : Of(stored[u], u)'
BY DEF HistoryInv

\* A tab that shows an account's list and changes it to another list of the account.
LEMMA Changes ==
  ASSUME HistoryInv, NEW t \in Tab, Ready(t), NEW l, Change(t, l),
         Of(l, user[t])', author' \in [Conv -> User \cup {NoUser}],
         \A k : \A v \in User : Of(k, v) => Of(k, v)'
  PROVE  HistoryInv'
<1>1. /\ user' = user /\ loaded' = loaded /\ stored' = stored
      /\ list' = [list EXCEPT ![t] = l]
      /\ timer' = [timer EXCEPT ![t] = IF l = Empty THEN NoSave
                                      ELSE [user |-> user[t], list |-> l]]
  BY DEF Change, SaveEffect
<1>2. Shape'
  BY <1>1 DEF HistoryInv, Shape
<1>3. \A s \in Tab \ {t} : list'[s] = list[s] /\ timer'[s] = timer[s]
  BY <1>1 DEF HistoryInv, Shape
<1>4. /\ list'[t] = l
      /\ timer'[t] = IF l = Empty THEN NoSave ELSE [user |-> user[t], list |-> l]
  BY <1>1 DEF HistoryInv, Shape
<1>5. Of(timer[t].list, user[t])' /\ (timer'[t] = NoSave \/ timer'[t].user = user[t])
  <2>1. CASE l = Empty
    BY <1>4, <2>1 DEF NoSave, Of, Empty
  <2>2. CASE l # Empty
    BY <1>1, <1>4, <2>2
  <2> QED BY <2>1, <2>2
<1>6. TabInv(t)'
  <2>1. user[t] # NoUser /\ loaded'[t] = Empty /\ Of(loaded[t], user[t])'
    BY <1>1 DEF Ready, Of, Empty
  <2> QED BY <1>1, <1>4, <1>5, <2>1 DEF TabInv
<1>7. \A s \in Tab : TabInv(s)'
  BY <1>1, <1>3, <1>6, OthersKeep
<1> QED BY <1>1, <1>2, <1>7, StoredKept DEF HistoryInv

LEMMA SwitchKeeps ==
  ASSUME HistoryInv, NEW t \in Tab, NEW u \in User, SwitchAccount(t, u)
  PROVE  HistoryInv'
<1>1. /\ user' = [user EXCEPT ![t] = u] /\ stored' = stored
      /\ list' = [list EXCEPT ![t] = Upcoming(t)]
      /\ timer' = [timer EXCEPT ![t] = IF Upcoming(t) = Empty THEN NoSave
                                      ELSE [user |-> u, list |-> Upcoming(t)]]
      /\ LoadEffect(t, u)
  BY DEF SwitchAccount, SaveEffect
<1>2. /\ loaded' = [s \in Tab |-> loaded'[s]]
      /\ \A s \in Tab \ {t} : loaded'[s] = loaded[s]
      /\ loaded'[t] # Empty /\ Of(loaded[t], u)'
      /\ author' \in [Conv -> User \cup {NoUser}]
      /\ \A l : \A v \in User : Of(l, v) => Of(l, v)'
  BY <1>1, Loads
<1>3. Shape'
  BY <1>1, <1>2 DEF HistoryInv, Shape
<1>4. \A s \in Tab \ {t} : user'[s] = user[s] /\ list'[s] = list[s] /\ timer'[s] = timer[s]
  BY <1>1 DEF HistoryInv, Shape
<1>5. user'[t] = u /\ u # NoUser
  BY <1>1, ConversationsAssumption DEF HistoryInv, Shape
<1>6. TabInv(t)'
  BY <1>2, <1>5 DEF TabInv
<1>7. \A s \in Tab : TabInv(s)'
  BY <1>2, <1>4, <1>6, OthersKeep
<1> QED BY <1>1, <1>2, <1>3, <1>7, StoredKept DEF HistoryInv

LEMMA RenderKeeps ==
  ASSUME HistoryInv, NEW t \in Tab, RenderLoaded(t)
  PROVE  HistoryInv'
<1>1. /\ user' = user /\ stored' = stored /\ author' = author
      /\ loaded[t] # Empty /\ loaded' = [loaded EXCEPT ![t] = Empty]
      /\ list' = [list EXCEPT ![t] = loaded[t]]
      /\ timer' = [timer EXCEPT ![t] = [user |-> user[t], list |-> loaded[t]]]
  BY DEF RenderLoaded, SaveEffect
<1>2. \A l, v : Of(l, v) => Of(l, v)'
  BY <1>1, SameAuthors
<1>3. Shape'
  BY <1>1 DEF HistoryInv, Shape
<1>4. \A s \in Tab \ {t} : loaded'[s] = loaded[s] /\ list'[s] = list[s] /\ timer'[s] = timer[s]
  BY <1>1 DEF HistoryInv, Shape
<1>5. /\ list'[t] = loaded[t] /\ loaded'[t] = Empty
      /\ timer'[t] = [user |-> user[t], list |-> loaded[t]]
  BY <1>1 DEF HistoryInv, Shape
<1>6. user[t] # NoUser /\ Of(loaded[t], user[t])
  BY <1>1 DEF HistoryInv, TabInv
<1>7. Of(Empty, user[t])'
  BY DEF Of, Empty
<1>8. TabInv(t)'
  BY <1>1, <1>2, <1>5, <1>6, <1>7 DEF TabInv
<1>9. \A s \in Tab : TabInv(s)'
  BY <1>1, <1>2, <1>4, <1>8, OthersKeep
<1> QED BY <1>1, <1>2, <1>3, <1>9, StoredKept DEF HistoryInv

LEMMA UnmountKeeps ==
  ASSUME HistoryInv, NEW t \in Tab, Unmount(t)
  PROVE  HistoryInv'
<1>1. /\ user' = [user EXCEPT ![t] = NoUser] /\ stored' = stored /\ author' = author
      /\ loaded' = [loaded EXCEPT ![t] = Empty] /\ list' = [list EXCEPT ![t] = Empty]
      /\ timer' = [timer EXCEPT ![t] = NoSave]
  BY DEF Unmount
<1>2. \A l, v : Of(l, v) => Of(l, v)'
  BY <1>1, SameAuthors
<1>3. Shape'
  BY <1>1 DEF HistoryInv, Shape
<1>4. \A s \in Tab \ {t} : /\ user'[s] = user[s] /\ loaded'[s] = loaded[s]
                           /\ list'[s] = list[s] /\ timer'[s] = timer[s]
  BY <1>1 DEF HistoryInv, Shape
<1>5. user'[t] = NoUser /\ list'[t] = Empty /\ loaded'[t] = Empty /\ timer'[t] = NoSave
  BY <1>1 DEF HistoryInv, Shape
<1>6. DOMAIN Empty = {} /\ NoSave.list = Empty
  BY DEF Empty, NoSave
<1>7. TabInv(t)'
  BY <1>5, <1>6 DEF TabInv, Of
<1>8. \A s \in Tab : TabInv(s)'
  BY <1>2, <1>4, <1>7, OthersKeep
<1> QED BY <1>1, <1>2, <1>3, <1>8, StoredKept DEF HistoryInv

\* A save that is due when a tab is ready goes to the key of its account.
LEMMA SaveKeeps ==
  ASSUME HistoryInv, NEW t \in Tab, Save(t)
  PROVE  HistoryInv'
<1>1. /\ user' = user /\ author' = author /\ list' = list /\ loaded' = loaded
      /\ timer' = [timer EXCEPT ![t] = NoSave] /\ Ready(t) /\ timer[t] # NoSave
      /\ stored' = stored \/ stored' = [stored EXCEPT ![timer[t].user] = timer[t].list]
  BY DEF Save, storageKey
<1>2. \A l, v : Of(l, v) => Of(l, v)'
  BY <1>1, SameAuthors
<1>3. Shape'
  BY <1>1 DEF HistoryInv, Shape
<1>4. timer[t].user = user[t] /\ Of(timer[t].list, user[t])
  BY <1>1 DEF HistoryInv, TabInv, Ready
<1>5. ASSUME NEW u \in User PROVE Of(stored[u], u)'
  <2>1. stored'[u] = stored[u] \/ (u = user[t] /\ stored'[u] = timer[t].list)
    BY <1>1, <1>4 DEF HistoryInv, Shape
  <2>2. Of(stored[u], u)
    BY DEF HistoryInv
  <2> QED BY <1>2, <1>4, <2>1, <2>2
<1>6. \A s \in Tab \ {t} : timer'[s] = timer[s]
  BY <1>1 DEF HistoryInv, Shape
<1>7. TabInv(t)'
  <2>1. timer'[t] = NoSave /\ TabInv(t) /\ user[t] # NoUser /\ loaded[t] = Empty
    BY <1>1 DEF HistoryInv, Shape, Ready
  <2>2. DOMAIN Empty = {} /\ NoSave.list = Empty
    BY DEF Empty, NoSave
  <2>3. Of(timer[t].list, user[t])'
    BY <2>1, <2>2 DEF Of
  <2> QED BY <1>1, <1>2, <2>1, <2>3 DEF TabInv
<1>8. \A s \in Tab : TabInv(s)'
  BY <1>1, <1>2, <1>6, <1>7, OthersKeep
<1> QED BY <1>3, <1>5, <1>8 DEF HistoryInv

\* What a ready tab shows is its account's, whose name is an account.
LEMMA ReadyTab ==
  ASSUME HistoryInv, NEW t \in Tab, Ready(t)
  PROVE  user[t] \in User /\ Of(list[t], user[t])
BY DEF HistoryInv, Shape, TabInv, Ready

LEMMA EditsKeep ==
  ASSUME HistoryInv, NEW t \in Tab, NEW c \in Conv,
         NewChat(t, c) \/ Edit(t, c) \/ Delete(t, c)
  PROVE  HistoryInv'
<1>1. author \in [Conv -> User \cup {NoUser}]
  BY DEF HistoryInv, Shape
<1>2. CASE NewChat(t, c)
  <2>1. /\ Ready(t) /\ c \in Unused /\ Change(t, With(list[t], c, 0))
        /\ author' = [author EXCEPT ![c] = user[t]] /\ user' = user
    BY <1>2 DEF NewChat, Change
  <2>2. /\ \A k : \A v \in User : Of(k, v) => Of(k, v)'
        /\ author'[c] = user[t] /\ author' \in [Conv -> User \cup {NoUser}]
    BY <1>1, <2>1, ReadyTab, BegunIsNew DEF HistoryInv
  <2>3. Of(list[t], user[t])
    BY <2>1, ReadyTab
  <2>4. \A d \in DOMAIN list[t] : d \in Conv /\ author'[d] = user[t]
    BY <2>1, <2>2, <2>3, ReadyTab DEF Of
  <2>5. DOMAIN With(list[t], c, 0) = DOMAIN list[t] \cup {c}
    BY DEF With
  <2> DEFINE l == With(list[t], c, 0)
  <2>6. \A d \in DOMAIN l : d \in Conv /\ author'[d] = user'[t]
    BY <2>1, <2>2, <2>4, <2>5
  <2>7. HistoryInv'
    <3> HIDE DEF l
    <3>1. ASSUME NEW k, k = l PROVE Of(k, user[t])'
      BY <2>6, <3>1 DEF Of
    <3>2. PICK k : k = l
      OBVIOUS
    <3>3. Change(t, k) /\ Of(k, user[t])'
      BY <2>1, <3>1, <3>2 DEF l
    <3> QED BY <2>1, <2>2, <3>3, Changes
  <2> QED BY <2>7
<1>3. CASE Edit(t, c)
  <2>1. /\ Ready(t) /\ c \in DOMAIN list[t] /\ user' = user /\ author' = author
        /\ Change(t, With(list[t], c, list[t][c] + 1))
    BY <1>3 DEF Edit, Change
  <2>2. PICK k : k = With(list[t], c, list[t][c] + 1)
    OBVIOUS
  <2>3. DOMAIN k = DOMAIN list[t]
    BY <2>1, <2>2 DEF With
  <2>4. Of(k, user[t])'
    BY <2>1, <2>3, ReadyTab DEF Of
  <2> QED BY <1>1, <2>1, <2>2, <2>4, SameAuthors, Changes
<1>4. CASE Delete(t, c)
  <2> DEFINE rest == DOMAIN list[t] \ {c}
  <2>1. Ready(t)
    BY <1>4 DEF Delete
  <2>2. CASE Change(t, [x \in rest |-> list[t][x]]) /\ UNCHANGED author
    <3>1. PICK k : k = [x \in rest |-> list[t][x]]
      OBVIOUS
    <3>2. DOMAIN k \subseteq DOMAIN list[t] /\ user' = user /\ author' = author
      BY <2>2, <3>1 DEF Change
    <3>3. Of(k, user[t])'
      BY <2>1, <3>2, ReadyTab DEF Of
    <3> QED BY <1>1, <2>1, <2>2, <3>1, <3>2, <3>3, SameAuthors, Changes
  <2>3. ASSUME NEW d \in Unused, Change(t, [x \in {d} |-> 0]),
               author' = [author EXCEPT ![d] = user[t]]
        PROVE  HistoryInv'
    <3>1. PICK k : k = [x \in {d} |-> 0]
      OBVIOUS
    <3>2. user' = user /\ user[t] \in User
      BY <2>1, <2>3, ReadyTab DEF Change
    <3>3. /\ \A l : \A v \in User : Of(l, v) => Of(l, v)'
          /\ Of([x \in {d} |-> 0], user[t])' /\ author' \in [Conv -> User \cup {NoUser}]
      <4>1. PICK u : u = user[t]
        OBVIOUS
      <4>2. d \in Conv /\ author'[d] = user'[t]
        BY <1>1, <2>3, <3>2 DEF Unused
      <4>3. Of([x \in {d} |-> 0], user[t])'
        BY <4>2 DEF Of
      <4> QED BY <1>1, <2>3, <3>2, <4>1, <4>3, BegunIsNew DEF HistoryInv
    <3>4. Of(k, user[t])'
      BY <3>1, <3>3
    <3> QED BY <2>1, <2>3, <3>1, <3>3, <3>4, Changes
  <2> QED BY <1>4, <2>2, <2>3 DEF Delete
<1> QED BY <1>2, <1>3, <1>4

LEMMA StepKeeps == HistoryInv /\ [Next]_vars => HistoryInv'
<1> SUFFICES ASSUME HistoryInv, [Next]_vars PROVE HistoryInv'
  OBVIOUS
<1>1. CASE UNCHANGED vars
  <2>1. /\ user' = user /\ list' = list /\ loaded' = loaded /\ timer' = timer
        /\ stored' = stored /\ author' = author
    BY <1>1 DEF vars
  <2> QED BY <2>1 DEF HistoryInv, Shape, TabInv, Of
<1>2. CASE Next
  <2>1. PICK t \in Tab :
          \/ \E u \in User : SwitchAccount(t, u)
          \/ RenderLoaded(t) \/ Unmount(t) \/ Save(t)
          \/ \E c \in Conv : NewChat(t, c) \/ Edit(t, c) \/ Delete(t, c)
    BY <1>2 DEF Next
  <2> QED BY <2>1, SwitchKeeps, RenderKeeps, UnmountKeeps, SaveKeeps, EditsKeep
<1> QED BY <1>1, <1>2

\* "Two people using the same browser must not see each other's chat history"
\* (conversations.ts:6): whatever the tabs did, and however often accounts were
\* switched, what is shown to an account, or stored or due to be stored for it, it
\* has begun itself.
THEOREM Apart == Spec => []KeptApart
<1>1. HistoryInv => KeptApart
  BY DEF HistoryInv, TabInv, Ready, Of, KeptApart, NoSave, Empty
<1> QED BY InitHistory, StepKeeps, <1>1, PTL DEF Spec

----------------------------------------------------------------------------
\* What makes SavedOrDue inductive: a save that is due is of what the tab shows,
\* and goes to the key of the account it shows it to.
Due(t) == [user |-> user[t], list |-> list[t]]

SavedInv ==
  /\ synced \subseteq Tab
  /\ \A t \in Tab : timer[t] = NoSave \/ timer[t] = Due(t)
  /\ SavedOrDue

\* A step of one tab that renders leaves a save of what it shows due, or nothing
\* shown; the other tabs and what is stored stay as they are.
LEMMA RenderingSaves ==
  ASSUME SavedInv, NEW t \in Tab, stored' = stored,
         synced' \subseteq synced \cup {t},
         \A s \in Tab \ {t} : /\ user'[s] = user[s] /\ list'[s] = list[s]
                              /\ loaded'[s] = loaded[s] /\ timer'[s] = timer[s],
         timer'[t] = NoSave \/ timer'[t] = Due(t)',
         Ready(t)' /\ t \in synced' => timer'[t] = Due(t)'
  PROVE  SavedInv'
<1>1. synced' \subseteq Tab
  BY DEF SavedInv
<1>2. \A s \in Tab : timer'[s] = NoSave \/ timer'[s] = Due(s)'
  BY DEF SavedInv, Due
<1>3. SavedOrDue'
  BY DEF SavedInv, SavedOrDue, Ready, Due
<1> QED BY <1>1, <1>2, <1>3 DEF SavedInv

\* A change of the list to one with conversations puts a save of it off, not out.
LEMMA ChangeIsDue ==
  ASSUME HistoryInv, SavedInv, NEW t \in Tab, NEW l, l # Empty, Change(t, l)
  PROVE  SavedInv'
<1>1. /\ list' = [list EXCEPT ![t] = l]
      /\ timer' = [timer EXCEPT ![t] = [user |-> user[t], list |-> l]]
      /\ UNCHANGED <<user, loaded, stored, synced>>
  BY DEF Change, SaveEffect
<1>2. \A s \in Tab \ {t} : list'[s] = list[s] /\ timer'[s] = timer[s]
  BY <1>1 DEF HistoryInv, Shape
<1>3. timer'[t] = Due(t)'
  BY <1>1 DEF HistoryInv, Shape, Due
<1> QED BY <1>1, <1>2, <1>3, RenderingSaves

LEMMA SwitchIsDue ==
  ASSUME HistoryInv, SavedInv, NEW t \in Tab, NEW u \in User, SwitchAccount(t, u)
  PROVE  SavedInv'
<1>1. /\ user' = [user EXCEPT ![t] = u] /\ stored' = stored
      /\ list' = [list EXCEPT ![t] = Upcoming(t)]
      /\ timer' = [timer EXCEPT ![t] = IF Upcoming(t) = Empty THEN NoSave
                                      ELSE [user |-> u, list |-> Upcoming(t)]]
      /\ synced' = synced \cup {t} /\ LoadEffect(t, u)
  BY DEF SwitchAccount, SaveEffect
<1>2. \A s \in Tab \ {t} : user'[s] = user[s] /\ list'[s] = list[s] /\ timer'[s] = timer[s]
  BY <1>1 DEF HistoryInv, Shape
<1>3. /\ \A s \in Tab \ {t} : loaded'[s] = loaded[s]
      /\ loaded'[t] # Empty
  BY <1>1, Loads
<1>4. timer'[t] = NoSave \/ timer'[t] = Due(t)'
  BY <1>1 DEF HistoryInv, Shape, Due
<1>5. ~ Ready(t)'
  BY <1>3 DEF Ready
<1> QED BY <1>1, <1>2, <1>3, <1>4, <1>5, RenderingSaves

LEMMA RenderLoadedIsDue ==
  ASSUME HistoryInv, SavedInv, NEW t \in Tab, RenderLoaded(t)
  PROVE  SavedInv'
<1>1. /\ loaded[t] # Empty /\ loaded' = [loaded EXCEPT ![t] = Empty]
      /\ list' = [list EXCEPT ![t] = loaded[t]]
      /\ timer' = [timer EXCEPT ![t] = [user |-> user[t], list |-> loaded[t]]]
      /\ UNCHANGED <<user, stored, synced>>
  BY DEF RenderLoaded, SaveEffect
<1>2. \A s \in Tab \ {t} : list'[s] = list[s] /\ loaded'[s] = loaded[s] /\ timer'[s] = timer[s]
  BY <1>1 DEF HistoryInv, Shape
<1>3. timer'[t] = Due(t)'
  BY <1>1 DEF HistoryInv, Shape, Due
<1> QED BY <1>1, <1>2, <1>3, RenderingSaves

LEMMA UnmountForgets ==
  ASSUME HistoryInv, SavedInv, NEW t \in Tab, Unmount(t)
  PROVE  SavedInv'
<1>1. /\ user' = [user EXCEPT ![t] = NoUser] /\ stored' = stored
      /\ loaded' = [loaded EXCEPT ![t] = Empty] /\ list' = [list EXCEPT ![t] = Empty]
      /\ timer' = [timer EXCEPT ![t] = NoSave] /\ synced' = synced \ {t}
  BY DEF Unmount
<1>2. \A s \in Tab \ {t} : /\ user'[s] = user[s] /\ loaded'[s] = loaded[s]
                           /\ list'[s] = list[s] /\ timer'[s] = timer[s]
  BY <1>1 DEF HistoryInv, Shape
<1>3. timer'[t] = NoSave /\ t \notin synced'
  BY <1>1 DEF HistoryInv, Shape
<1> QED BY <1>1, <1>2, <1>3, RenderingSaves

LEMMA EditIsDue ==
  ASSUME HistoryInv, SavedInv, NEW t \in Tab, NEW c \in Conv,
         NewChat(t, c) \/ Edit(t, c) \/ Delete(t, c)
  PROVE  SavedInv'
<1>1. \A l : DOMAIN l # {} => l # Empty
  BY DEF Empty
<1>2. PICK l : Change(t, l) /\ DOMAIN l # {}
  <2>1. CASE NewChat(t, c)
    BY <2>1 DEF NewChat, With
  <2>2. CASE Edit(t, c)
    BY <2>2 DEF Edit, With
  <2>3. CASE Delete(t, c)
    BY <2>3 DEF Delete
  <2> QED BY <2>1, <2>2, <2>3
<1> QED BY <1>1, <1>2, ChangeIsDue

\* A save that works stores what its tab shows, and speaks for no other tab of the
\* account; one that fails is no longer counted on.
LEMMA SaveStoresWhatIsShown ==
  ASSUME HistoryInv, SavedInv, NEW t \in Tab, Save(t)
  PROVE  SavedInv'
<1>1. /\ UNCHANGED <<user, list, loaded>> /\ timer' = [timer EXCEPT ![t] = NoSave]
      /\ timer[t] # NoSave
      /\ \/ /\ stored' = [stored EXCEPT ![timer[t].user] = timer[t].list]
            /\ synced' = {t} \cup {s \in synced : user[s] # user[t]}
         \/ stored' = stored /\ synced' = synced \ {t}
  BY DEF Save, storageKey
<1>2. timer[t].user = user[t] /\ timer[t].list = list[t] /\ user[t] \in User
  <2>1. timer[t] = [user |-> user[t], list |-> list[t]]
    BY <1>1 DEF SavedInv, Due
  <2>2. user[t] \in User
    BY ReadyTab DEF Save
  <2> QED BY <2>1, <2>2
<1>3. timer'[t] = NoSave /\ \A s \in Tab \ {t} : timer'[s] = timer[s]
  BY <1>1 DEF HistoryInv, Shape
<1>4. synced' \subseteq Tab
  BY <1>1 DEF SavedInv
<1>5. \A s \in Tab : timer'[s] = NoSave \/ timer'[s] = Due(s)'
  BY <1>1, <1>3 DEF SavedInv, Due
<1>6. CASE stored' = stored /\ synced' = synced \ {t}
  BY <1>1, <1>3, <1>4, <1>5, <1>6 DEF SavedInv, SavedOrDue, Ready
<1>7. CASE /\ stored' = [stored EXCEPT ![user[t]] = list[t]]
           /\ synced' = {t} \cup {s \in synced : user[s] # user[t]}
  <2>1. stored'[user[t]] = list[t]
    BY <1>2, <1>7 DEF HistoryInv, Shape
  <2>2. ASSUME NEW s \in synced, user[s] # user[t]
        PROVE  stored'[user[s]] = stored[user[s]] /\ timer'[s] = timer[s]
    BY <1>2, <1>3, <1>7, <2>2 DEF HistoryInv, Shape, SavedInv
  <2>3. SavedOrDue'
    BY <1>1, <1>7, <2>1, <2>2 DEF SavedInv, SavedOrDue, Ready
  <2> QED BY <1>4, <1>5, <2>3 DEF SavedInv
<1> QED BY <1>1, <1>2, <1>6, <1>7

LEMMA StepSaves == HistoryInv /\ SavedInv /\ [Next]_vars => SavedInv'
<1> SUFFICES ASSUME HistoryInv, SavedInv, [Next]_vars PROVE SavedInv'
  OBVIOUS
<1>1. CASE UNCHANGED vars
  BY <1>1 DEF vars, SavedInv, SavedOrDue, Ready, Due
<1>2. CASE Next
  <2>1. PICK t \in Tab :
          \/ \E u \in User : SwitchAccount(t, u)
          \/ RenderLoaded(t) \/ Unmount(t) \/ Save(t)
          \/ \E c \in Conv : NewChat(t, c) \/ Edit(t, c) \/ Delete(t, c)
    BY <1>2 DEF Next
  <2> QED BY <2>1, SwitchIsDue, RenderLoadedIsDue, UnmountForgets, SaveStoresWhatIsShown, EditIsDue
<1> QED BY <1>1, <1>2

\* The debounced save of ChatApp.tsx:84 forgets nothing: a tab whose last save worked
\* shows what is stored, or has a save of exactly that due, whatever it renders and
\* whatever account it is switched to, unless another tab of the account has saved
\* since.
THEOREM NothingShownIsForgotten == Spec => []SavedOrDue
<1>1. Init => SavedInv
  BY DEF Init, SavedInv, SavedOrDue
<1>2. SavedInv => SavedOrDue
  BY DEF SavedInv
<1> QED BY <1>1, <1>2, InitHistory, StepKeeps, StepSaves, PTL DEF Spec

============================================================================
