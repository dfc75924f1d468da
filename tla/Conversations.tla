--------------------------- MODULE Conversations ---------------------------
(***************************************************************************)
(* The chat history a browser keeps (conversations.ts and the two effects  *)
(* of ChatApp.tsx that load and save it): each tab shows a list, saves it  *)
(* 300 ms after its last change, and swaps it when the account changes,    *)
(* which another tab can cause (AuthProvider adopts what is stored).       *)
(* Tabs share localStorage.  What changes a conversation is ChatApp's      *)
(* subject: here a conversation is the number of its changes.              *)
(***************************************************************************)
EXTENDS Naturals

CONSTANTS Tab, User,
          Conv,      \* bound: the conversation ids createConversation may draw
          MaxEdit,   \* bound: changes of one conversation
          NoUser

ASSUME ConversationsAssumption == MaxEdit \in Nat /\ NoUser \notin User

VARIABLES user,    \* per tab: whose chat is mounted, or NoUser
          list,    \* per tab: conversations, as rendered
          loaded,  \* per tab: what the load effect has set and React not rendered
          timer,   \* per tab: the save that is due, [user, list]
          stored,  \* localStorage: a list per key
          author,  \* history: the account a conversation was begun under
          synced   \* history: tabs whose last save worked, none having come after

vars == <<user, list, loaded, timer, stored, author, synced>>

Empty == << >>   \* no conversations: before the first load
NoSave == [user |-> NoUser, list |-> Empty]
Unused == {c \in Conv : author[c] = NoUser}

\* Mutant: the key does not name the account.
storageKeyShared(u) == CHOOSE v \in User : TRUE

storageKey(u) == u

Init ==
  /\ user = [t \in Tab |-> NoUser] /\ list = [t \in Tab |-> Empty]
  /\ loaded = list /\ timer = [t \in Tab |-> NoSave]
  /\ stored = [u \in User |-> Empty]
  /\ author = [c \in Conv |-> NoUser] /\ synced = {}

----------------------------------------------------------------------------
\* Mutant: a save that is due is left as it is.
SaveEffectOnce(t, u, l) ==
  timer' = [timer EXCEPT ![t] = IF l = Empty THEN NoSave
                                ELSE IF @ = NoSave THEN [user |-> u, list |-> l] ELSE @]

\* The save effect after a render: the timer of the last one is cleared, and
\* another is set for what this one shows.
SaveEffect(t, u, l) ==
  timer' = [timer EXCEPT ![t] = IF l = Empty THEN NoSave ELSE [user |-> u, list |-> l]]

\* The load effect: the stored list, or a fresh conversation.
LoadEffect(t, u) ==
  \/ /\ stored[storageKey(u)] # Empty
     /\ loaded' = [loaded EXCEPT ![t] = stored[storageKey(u)]]
     /\ UNCHANGED author
  \/ /\ stored[storageKey(u)] = Empty
     /\ \E c \in Unused : /\ loaded' = [loaded EXCEPT ![t] = [x \in {c} |-> 0]]
                          /\ author' = [author EXCEPT ![c] = u]

\* What the next render of the tab shows.
Upcoming(t) == IF loaded[t] # Empty THEN loaded[t] ELSE list[t]

\* The account of the tab changes, or it signs in: one render with the new
\* account and the conversations of before, and both effects after it.
SwitchAccount(t, u) ==
  /\ user[t] # u
  /\ user' = [user EXCEPT ![t] = u]
  /\ list' = [list EXCEPT ![t] = Upcoming(t)]
  /\ LoadEffect(t, u) /\ SaveEffect(t, u, Upcoming(t))
  /\ synced' = synced \cup {t}
  /\ UNCHANGED stored

\* ... and the render of what was loaded.  It is queued at once and comes before
\* any other turn of the tab but a change of account: the timer has 300 ms to go.
RenderLoaded(t) ==
  /\ loaded[t] # Empty
  /\ list' = [list EXCEPT ![t] = loaded[t]]
  /\ loaded' = [loaded EXCEPT ![t] = Empty]
  /\ SaveEffect(t, user[t], loaded[t])
  /\ UNCHANGED <<user, stored, author, synced>>

\* Signing out, or leaving the page: what was due to be saved is not.
Unmount(t) ==
  /\ user[t] # NoUser
  /\ user' = [user EXCEPT ![t] = NoUser]
  /\ list' = [list EXCEPT ![t] = Empty] /\ loaded' = [loaded EXCEPT ![t] = Empty]
  /\ timer' = [timer EXCEPT ![t] = NoSave]
  /\ synced' = synced \ {t}
  /\ UNCHANGED <<stored, author>>

Ready(t) == user[t] # NoUser /\ loaded[t] = Empty

\* Whatever changes the list is rendered, and the save put off.
Change(t, l) ==
  /\ list' = [list EXCEPT ![t] = l] /\ SaveEffect(t, user[t], l)
  /\ UNCHANGED <<user, loaded, stored, synced>>

With(l, c, n) == [x \in DOMAIN l \cup {c} |-> IF x = c THEN n ELSE l[x]]

NewChat(t, c) ==
  /\ Ready(t) /\ c \in Unused
  /\ Change(t, With(list[t], c, 0))
  /\ author' = [author EXCEPT ![c] = user[t]]

\* A message, a frame, a title: for a conversation the tab has.  A stream of the
\* account before finds its conversation gone and changes nothing.
Edit(t, c) ==
  /\ Ready(t) /\ c \in DOMAIN list[t] /\ list[t][c] < MaxEdit
  /\ Change(t, With(list[t], c, list[t][c] + 1))
  /\ UNCHANGED author

\* handleDelete leaves a fresh conversation rather than none.
Delete(t, c) ==
  LET rest == DOMAIN list[t] \ {c} IN
  /\ Ready(t) /\ c \in DOMAIN list[t]
  /\ \/ /\ rest # {} /\ Change(t, [x \in rest |-> list[t][x]]) /\ UNCHANGED author
     \/ /\ rest = {}
        /\ \E d \in Unused : /\ Change(t, [x \in {d} |-> 0])
                             /\ author' = [author EXCEPT ![d] = user[t]]

\* The timer fires.  setItem may throw, which is caught and forgotten.
Save(t) ==
  /\ Ready(t) /\ timer[t] # NoSave
  /\ timer' = [timer EXCEPT ![t] = NoSave]
  /\ \/ /\ stored' = [stored EXCEPT ![storageKey(timer[t].user)] = timer[t].list]
        /\ synced' = {t} \cup {s \in synced : user[s] # user[t]}
     \/ /\ UNCHANGED stored /\ synced' = synced \ {t}
  /\ UNCHANGED <<user, list, loaded, author>>

Next ==
  \E t \in Tab :
    \/ \E u \in User : SwitchAccount(t, u)
    \/ RenderLoaded(t) \/ Unmount(t) \/ Save(t)
    \/ \E c \in Conv : NewChat(t, c) \/ Edit(t, c) \/ Delete(t, c)
Spec == Init /\ [][Next]_vars

----------------------------------------------------------------------------
\* "Two people using the same browser must not see each other's chat history"
\* (conversations.ts:6): whatever tabs and accounts did, a list shown to an
\* account, or stored or due to be stored for it, has only conversations it began.
KeptApart ==
  /\ \A u \in User : \A c \in DOMAIN stored[u] : author[c] = u
  /\ \A t \in Tab : Ready(t) =>
       \A c \in DOMAIN list[t] \cup DOMAIN timer[t].list : author[c] = user[t]

\* What a tab shows is stored, or a save of exactly that is due (ChatApp.tsx:84):
\* unless the browser refused its last save, or another tab of the same account
\* has saved its own list since.
SavedOrDue ==
  \A t \in synced : Ready(t) =>
    \/ stored[user[t]] = list[t]
    \/ timer[t] = [user |-> user[t], list |-> list[t]]
============================================================================
