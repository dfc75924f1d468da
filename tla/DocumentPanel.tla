--------------------------- MODULE DocumentPanel ---------------------------
(***************************************************************************)
(* The documents as a tab shows them: the list of UploadPanel.tsx, with    *)
(* its uploads and deletions, and the count of StatusIndicator.tsx, which  *)
(* ChatApp mounts anew after each change.  Neither disables the other, nor *)
(* waits for it: an upload may start while one is under way.  The ML       *)
(* service is a directory per account, changed by other tabs, too.  The    *)
(* account of the tab may change under it: ChatApp has no key, so the panel *)
(* stays mounted, and each request goes out as whoever is signed in then.  *)
(***************************************************************************)
EXTENDS Integers, FiniteSets

CONSTANTS File, User,
          Chain,    \* slots for calls of refresh, handleFiles and handleDelete
          MaxOps,   \* bound: uploads, deletions and changes by others
          MaxPolls, \* bound: polls in flight when another is sent
          NoFile

ASSUME PanelAssumption == /\ MaxOps \in Nat /\ MaxPolls \in Nat \ {0}
                          /\ NoFile \notin File /\ User # {} /\ Chain # {}

VARIABLES files,    \* the directory of each account
          changes,  \* history: how often they have changed
          user,     \* the account of the tab
          chain,    \* the handlers under way
          shown,    \* documents
          whose,    \* history: the account that list was fetched for
          isUploading, pendingDelete,
          version,  \* documentsVersion
          mounted,  \* the key of the mounted StatusIndicator
          asked,    \* polls in flight: instance, answer
          health,   \* the count shown: that of the directory after so many changes
          ops,
          since,    \* history: changes when the last handler ended well
          smooth    \* history: nothing has failed, overlapped or come from others

list == <<shown, whose>>
panel == <<chain, list, isUploading, pendingDelete>>
status == <<mounted, asked, health>>
server == <<files, changes>>
vars == <<server, user, panel, version, status, ops, since, smooth>>

NoReply == {NoFile}   \* nothing yet; nothing to show
Free == [kind |-> "none", phase |-> "free", left |-> {}, reply |-> NoReply]

\* A handler whose request goes out as the account u.
Call(kind, phase, left, u) ==
  [kind |-> kind, phase |-> phase, left |-> left, reply |-> NoReply, as |-> u]

\* list_documents: the files that are there.
Listing(u) == files[u]
Quiet == \A c \in Chain : chain[c] = Free

Unknown == -1   \* "Checking connection"
Poll(i) == [instance |-> i, count |-> Unknown]

Mount == CHOOSE c \in Chain : TRUE
FirstUser == CHOOSE u \in User : TRUE

\* The panel asks for the list when it is mounted, the indicator for the count.
Init ==
  /\ user = FirstUser /\ whose = user /\ changes = 0 /\ ops = 0 /\ since = 0 /\ smooth = TRUE
  /\ \E F \in SUBSET File : files = [u \in User |-> IF u = user THEN F ELSE {}]
  /\ chain = [c \in Chain |-> IF c = Mount THEN Call("mount", "list", {}, user) ELSE Free]
  /\ shown = {} /\ isUploading = FALSE /\ pendingDelete = NoFile
  /\ version = 0 /\ mounted = 0 /\ asked = {Poll(0)}
  /\ health = Unknown

----------------------------------------------------------------------------
Operate == ops < MaxOps /\ ops' = ops + 1

\* The drop zone and the file input: never off, not even during an upload.
DropZone(F) == F # {}

\* handleFiles: one upload after the other.
HandleFiles(c, F) ==
  /\ Operate /\ chain[c] = Free /\ DropZone(F)
  /\ chain' = [chain EXCEPT ![c] = Call("upload", "request", F, user)]
  /\ isUploading' = TRUE
  /\ smooth' = (smooth /\ Quiet)
  /\ UNCHANGED <<server, user, list, pendingDelete, version, status, since>>

\* The button of a file that is shown, off while that file is being deleted.
DeleteButton(f) == f \in shown /\ f # pendingDelete

HandleDelete(c, f) ==
  /\ Operate /\ chain[c] = Free /\ DeleteButton(f)
  /\ chain' = [chain EXCEPT ![c] = Call("delete", "request", {f}, user)]
  /\ pendingDelete' = f
  /\ smooth' = (smooth /\ Quiet)
  /\ UNCHANGED <<server, user, list, isUploading, version, status, since>>

\* uploadDocument of the next file; deleteDocument, 404 if it is not there.  The
\* service may do it and the answer be an error, or the request be lost.
Apply(c, f, F) ==
  /\ chain[c].phase = "request" /\ f \in chain[c].left
  /\ files' = [files EXCEPT ![chain[c].as] = F] /\ changes' = changes + 1
  /\ \E p \in {"answered", "failed"} :
       /\ chain' = [chain EXCEPT ![c].phase = p, ![c].left = @ \ {f}]
       /\ smooth' = (smooth /\ p = "answered")
  /\ UNCHANGED <<user, list, isUploading, pendingDelete, version, status, ops, since>>

UploadDocument(c, f) ==
  chain[c].kind = "upload" /\ Apply(c, f, files[chain[c].as] \cup {f})
DeleteDocument(c, f) ==
  /\ chain[c].kind = "delete" /\ f \in files[chain[c].as]
  /\ Apply(c, f, files[chain[c].as] \ {f})

\* authedFetch: a 401, and the same request again as the account that is signed
\* in once the token has been refreshed.
Retried(c) ==
  /\ chain[c].phase \in {"request", "list"} /\ chain[c].as # user
  /\ chain' = [chain EXCEPT ![c].as = user]
  /\ UNCHANGED <<server, user, list, isUploading, pendingDelete, version, status, ops,
                 since, smooth>>

RequestFails(c) ==
  /\ chain[c].phase = "request"
  /\ chain' = [chain EXCEPT ![c].phase = "failed"]
  /\ smooth' = FALSE
  /\ UNCHANGED <<server, user, list, isUploading, pendingDelete, version, status, ops,
                 since>>

\* Mutant: the handler ends without a new list.
ProceedUnlisted(c) ==
  /\ chain[c].phase = "answered"
  /\ chain' = [chain EXCEPT ![c].phase = IF chain[c].left = {} THEN "listed" ELSE "request"]
  /\ UNCHANGED <<server, user, list, isUploading, pendingDelete, version, status, ops,
                 since, smooth>>

\* A good answer: the next file, or refresh.
Proceed(c) ==
  /\ chain[c].phase = "answered"
  /\ chain' = [chain EXCEPT ![c].phase = IF chain[c].left = {} THEN "list" ELSE "request",
                            ![c].as = user]
  /\ UNCHANGED <<server, user, list, isUploading, pendingDelete, version, status, ops,
                 since, smooth>>

\* fetchDocuments, or its failure, which refresh swallows.
FetchDocuments(c) ==
  /\ chain[c].phase = "list"
  /\ \E r \in {Listing(chain[c].as), NoReply} :
       /\ chain' = [chain EXCEPT ![c].phase = "listed", ![c].reply = r]
       /\ smooth' = (smooth /\ r # NoReply)
  /\ UNCHANGED <<server, user, list, isUploading, pendingDelete, version, status, ops,
                 since>>

\* What finally does, and what the handler no longer shows.
Finally(c) ==
  /\ isUploading' = IF chain[c].kind = "upload" THEN FALSE ELSE isUploading
  /\ pendingDelete' = IF chain[c].kind = "delete" THEN NoFile ELSE pendingDelete
  /\ chain' = [chain EXCEPT ![c] = Free]

\* The list is set, whichever was set before, and a handler calls onUploaded.
Listed(c) ==
  /\ chain[c].phase = "listed"
  /\ IF chain[c].reply = NoReply THEN UNCHANGED list
     ELSE shown' = chain[c].reply /\ whose' = chain[c].as
  /\ IF chain[c].kind = "mount" THEN UNCHANGED <<version, since>>
     ELSE version' = version + 1 /\ since' = changes
  /\ Finally(c)
  /\ UNCHANGED <<server, user, status, ops, smooth>>

\* Mutant: the flags are reset where a handler succeeds, not in finally.
FailedStuck(c) ==
  /\ chain[c].phase = "failed"
  /\ chain' = [chain EXCEPT ![c] = Free]
  /\ UNCHANGED <<server, user, list, isUploading, pendingDelete, version, status, ops,
                 since, smooth>>

\* An error: the message is shown; the rest of the files and refresh are skipped.
Failed(c) ==
  /\ chain[c].phase = "failed" /\ Finally(c)
  /\ UNCHANGED <<server, user, list, version, status, ops, since, smooth>>

\* Another tab of the account changes its documents ...
OtherTab ==
  /\ Operate /\ \E F \in SUBSET File : F # files[user] /\ files' = [files EXCEPT ![user] = F]
  /\ changes' = changes + 1 /\ smooth' = FALSE
  /\ UNCHANGED <<user, panel, version, status, since>>

\* ... or makes this one another's.  Nothing of the panel depends on the account.
SwitchAccount ==
  /\ Operate /\ \E u \in User \ {user} : user' = u
  /\ smooth' = FALSE
  /\ UNCHANGED <<server, panel, version, status, since>>

----------------------------------------------------------------------------
\* documentsVersion is the key: the indicator is unmounted, and a new one polls.
Remount ==
  /\ mounted # version /\ mounted' = version
  /\ health' = Unknown /\ asked' = asked \cup {Poll(version)}
  /\ UNCHANGED <<server, user, panel, version, ops, since, smooth>>

PollInterval ==
  /\ Cardinality(asked) < MaxPolls
  /\ asked' = asked \cup {Poll(mounted)}
  /\ UNCHANGED <<server, user, panel, version, mounted, health, ops, since, smooth>>

ServeHealth(p) ==
  /\ p.count = Unknown
  /\ asked' = (asked \ {p}) \cup {[p EXCEPT !.count = changes]}
  /\ UNCHANGED <<server, user, panel, version, mounted, health, ops, since, smooth>>

\* Mutant: an unmounted indicator still reports (no "cancelled").
PolledAnyway(p) ==
  /\ asked' = asked \ {p}
  /\ health' = p.count
  /\ UNCHANGED <<server, user, panel, version, mounted, ops, since, smooth>>

CountShown == health # Unknown

\* fetchHealth: with the count, or without one when a fetch fails.
Polled(p) ==
  /\ asked' = asked \ {p}
  /\ health' = IF p.instance = mounted THEN p.count ELSE health
  /\ UNCHANGED <<server, user, panel, version, mounted, ops, since, smooth>>

Next ==
  \/ \E c \in Chain : \/ \E F \in SUBSET File : HandleFiles(c, F)
                      \/ \E f \in File : \/ HandleDelete(c, f) \/ UploadDocument(c, f)
                                         \/ DeleteDocument(c, f)
                      \/ RequestFails(c) \/ Proceed(c) \/ FetchDocuments(c)
                      \/ Retried(c) \/ Listed(c) \/ Failed(c)
  \/ OtherTab \/ SwitchAccount \/ Remount \/ PollInterval
  \/ \E p \in asked : ServeHealth(p) \/ Polled(p)
Spec == Init /\ [][Next]_vars

\* Requests end, one way or another, and the handlers go on.
Handling(c) == \/ \E f \in File : UploadDocument(c, f) \/ DeleteDocument(c, f)
               \/ RequestFails(c) \/ Proceed(c) \/ FetchDocuments(c)
               \/ Listed(c) \/ Failed(c)
FairSpec == Spec /\ \A c \in Chain : WF_vars(Handling(c))

----------------------------------------------------------------------------
\* The count is as new as the last change the tab has reported: an upload or a
\* deletion ends with onDocumentsChanged, and no answer that was taken before it
\* is shown after it (the key of ChatApp.tsx:271 and StatusIndicator.tsx:12).
CountIsFresh == mounted = version /\ CountShown => health >= since

\* When the panel is idle its list is the account's, unless something failed,
\* another tab has changed documents or account, or two handlers overlapped: the
\* lists they ask for may arrive in the wrong order, and a failure skips refresh.
ListIsCurrent == smooth /\ Quiet => shown = files[user]

\* Nothing the panel waits for holds it for ever: the drop zone and the buttons
\* come back, however the requests end (finally in UploadPanel.tsx:55 and 70).
PanelComesBack == /\ isUploading ~> ~isUploading
                  /\ pendingDelete # NoFile ~> pendingDelete = NoFile

\* "Switching accounts swaps the whole sidebar" (ChatApp.tsx:70): a panel that
\* waits for nothing lists no documents of an account that is not signed in.
SidebarIsSwapped == Quiet /\ shown # {} => whose = user
============================================================================
