------------------------------- MODULE Corpus -------------------------------
(***************************************************************************)
(* The ML service's documents (ml-service/main.py): each user's directory  *)
(* of files, the docstore in memory and as last persisted, and the vectors *)
(* in Qdrant.  The handlers are coroutines that block the event loop, so   *)
(* one at a time runs; "job" is the one running, cut where the process may *)
(* die or a call may fail.  persist rewrites several files in place, one   *)
(* after the other, so it has a beginning and an end.  The one await       *)
(* (reading an upload) comes before anything but user_dir, so an upload    *)
(* begins here once it has been read.                                      *)
(***************************************************************************)
EXTENDS Integers, FiniteSets

CONSTANTS User, File, Page,
          Starter,    \* the files of the starter corpus
          MaxUpload,  \* bound: uploads
          MaxCopy,    \* bound: nodes made of one page
          MaxCrash,   \* bound: deaths of the process
          MaxFault,   \* bound: calls to Qdrant, and copies, that fail
          NoUser, NoFile  \* nobody, nothing

ASSUME CorpusAssumption ==
  /\ Starter \subseteq File
  /\ MaxUpload \in Nat /\ MaxCopy \in Nat /\ MaxCrash \in Nat /\ MaxFault \in Nat
  /\ NoUser \notin User /\ NoFile \notin File

VARIABLES dirs,     \* users whose directory exists
          files,    \* [user, file, ver]: what is in the directories
          mem,      \* nodes of the docstore in memory
          disk,     \* nodes of the docstore under PERSIST_DIR, once it is whole
          storage,  \* PERSIST_DIR: "torn" while a file of it is partly written
          vec,      \* nodes in Qdrant
          job,      \* the handler on the event loop
          ask,      \* a stream whose query waits for its worker thread
          uploads, crashes, faults,  \* how many there have been
          acked,    \* history: uploads answered 200 and not touched since
          removed,  \* history: [user, file] the user has deleted
          cut       \* history: users a request of whom died or failed half way; all
                    \* of them, once the process has died inside persist

vars == <<dirs, files, mem, disk, storage, vec, job, ask, uploads, crashes, faults,
          acked, removed, cut>>

Idle == [op |-> "idle", user |-> NoUser, file |-> NoFile, ver |-> 0, todo |-> {}]
Named(S, u, f) == {x \in S : x.user = u /\ x.file = f}

\* No stream waits; or one does, over the nodes it has listed.  "had" is history:
\* the names of the files the user has had since the question.
NoAsk == [user |-> NoUser, listed |-> {}, had |-> {}]

\* The pages SimpleDirectoryReader reads from a file, one document each.
PagesOf(F) == {[user |-> x.user, file |-> x.file, ver |-> x.ver, page |-> p] :
                 x \in F, p \in Page}

Init == /\ dirs = {} /\ files = {} /\ mem = {} /\ disk = {} /\ storage = "whole" /\ vec = {}
        /\ job = Idle /\ ask = NoAsk /\ uploads = 0 /\ crashes = 0 /\ faults = 0
        /\ acked = {} /\ removed = {} /\ cut = {}

Torn == storage = "torn"

\* The process died inside persist: ensure_index raises, for every user, whenever
\* it is called, and nothing repairs it.
Broken == Torn /\ job = Idle

----------------------------------------------------------------------------
\* user_nodes, and the payload filter of the dense retriever.
UserNodes(u)  == {n \in mem : n.tag = u}
DenseNodes(u) == {n \in vec : n.tag = u}

\* What build_hybrid_query_engine can bring up for a user.
Retrievable(u) == UserNodes(u) \cup DenseNodes(u)

Seeds(u) == {[user |-> u, file |-> f, ver |-> 0] : f \in Starter}

\* user_dir, called by every handler: made and seeded on first use.
UserDir(u) ==
  /\ job = Idle /\ u \notin dirs
  /\ dirs' = dirs \cup {u}
  /\ files' = files \cup Seeds(u)
  /\ UNCHANGED <<ask, mem, disk, storage, vec, job, uploads, crashes, faults, acked,
                 removed, cut>>

\* upload_document: write_bytes replaces the file; its pages are to be inserted,
\* or ensure_index raises and the file stays: 500.
Upload(u, f) ==
  LET x == [user |-> u, file |-> f, ver |-> uploads + 1] IN
  /\ job = Idle /\ u \in dirs /\ uploads < MaxUpload
  /\ uploads' = uploads + 1
  /\ files' = (files \ Named(files, u, f)) \cup {x}
  /\ acked' = acked \ Named(acked, u, f)
  /\ removed' = removed \ Named(removed, u, f)
  /\ job' = IF Broken THEN Idle
            ELSE [op |-> "upload", user |-> u, file |-> f, ver |-> x.ver,
                  todo |-> PagesOf({x})]
  /\ ask' = IF ask.user = u THEN [ask EXCEPT !.had = @ \cup {f}] ELSE ask
  /\ UNCHANGED <<dirs, mem, disk, storage, vec, crashes, faults, cut>>

\* sync_user_corpus: the files whose name no node of the user bears.
Pending(u) == {x \in files : /\ x.user = u
                             /\ ~ \E n \in UserNodes(u) : n.file = x.file}

Sync(u) ==
  /\ job = Idle /\ ~Torn /\ u \in dirs /\ Pending(u) # {}
  /\ job' = [Idle EXCEPT !.op = "sync", !.user = u, !.todo = PagesOf(Pending(u))]
  /\ UNCHANGED <<ask, dirs, files, mem, disk, storage, vec, uploads, crashes, faults,
                 acked, removed, cut>>

SamePage(m, n) == <<m.user, m.file, m.ver, m.page>> = <<n.user, n.file, n.ver, n.page>>

\* A node has an id of its own: here, one that no node of the same page bears.
FreeId(d) ==
  (1..MaxCopy) \ {n.id : n \in {m \in mem \cup disk \cup vec \cup ask.listed : SamePage(m, d)}}

\* Mutant: the documents are not tagged.
NodeUntagged(d) == [id |-> CHOOSE i \in FreeId(d) : TRUE, tag |-> NoUser, user |-> d.user,
                    file |-> d.file, ver |-> d.ver, page |-> d.page]

\* _tag_documents stamps the owner on what index.insert makes a node of.
Node(d) == [id |-> CHOOSE i \in FreeId(d) : TRUE, tag |-> job.user, user |-> d.user,
            file |-> d.file, ver |-> d.ver, page |-> d.page]

\* Mutant: without store_nodes_override, the docstore stays empty.
InsertVectorOnly(d) ==
  /\ d \in job.todo /\ FreeId(d) # {}
  /\ vec' = vec \cup {Node(d)}
  /\ job' = [job EXCEPT !.todo = @ \ {d}]
  /\ UNCHANGED <<ask, dirs, files, mem, disk, storage, uploads, crashes, faults, acked,
                 removed, cut>>

\* index.insert: Qdrant first, then the docstore in memory.
Insert(d) ==
  /\ d \in job.todo /\ FreeId(d) # {}
  /\ vec' = vec \cup {Node(d)} /\ mem' = mem \cup {Node(d)}
  /\ job' = [job EXCEPT !.todo = @ \ {d}]
  /\ UNCHANGED <<ask, dirs, files, disk, storage, uploads, crashes, faults, acked, removed,
                 cut>>

CallFails == faults < MaxFault /\ faults' = faults + 1

\* The insert raises, before or after Qdrant has stored the vector: 500.
InsertFails(d) ==
  /\ d \in job.todo /\ FreeId(d) # {} /\ CallFails
  /\ vec' \in {vec, vec \cup {Node(d)}}
  /\ job' = Idle /\ cut' = cut \cup {job.user}
  /\ UNCHANGED <<ask, dirs, files, mem, disk, storage, uploads, crashes, acked, removed>>

\* storage_context.persist opens the first of its files for writing.
PersistBegins ==
  /\ job.op \in {"upload", "sync", "deleted"} /\ job.todo = {}
  /\ ~Torn /\ storage' = "torn"
  /\ UNCHANGED <<ask, dirs, files, mem, disk, vec, job, uploads, crashes, faults,
                 acked, removed, cut>>

Asked(u, N) == [user |-> u, listed |-> {n \in N : n.tag = u},
                had |-> {x.file : x \in {y \in files : y.user = u}}]

Answered == IF job.op = "upload"
            THEN acked \cup {[user |-> job.user, file |-> job.file, ver |-> job.ver]}
            ELSE acked

\* Mutant: the answer, and nothing written.
PersistNothing ==
  /\ Torn /\ job # Idle /\ storage' = "whole"
  /\ acked' = Answered
  /\ job' = Idle
  /\ UNCHANGED <<dirs, files, mem, disk, vec, ask, uploads, crashes, faults,
                 removed, cut>>

\* It closes the last, and the rest of the handler runs: an upload or a delete is
\* answered, a chat goes on to its query.
Persist ==
  /\ Torn /\ job # Idle /\ storage' = "whole"
  /\ disk' = mem
  /\ acked' = Answered
  /\ ask' \in IF job.op = "sync" /\ ask = NoAsk THEN {ask, Asked(job.user, mem)} ELSE {ask}
  /\ job' = Idle
  /\ UNCHANGED <<dirs, files, mem, vec, uploads, crashes, faults, removed, cut>>

\* doc_count is not 0.
HasDocuments(u) == \E x \in files : x.user = u

\* Mutant: BM25 over the whole docstore.
ChatUnfiltered(u) ==
  /\ job = Idle /\ ~Torn /\ ask = NoAsk /\ Pending(u) = {}
  /\ HasDocuments(u)
  /\ ask' = [Asked(u, mem) EXCEPT !.listed = mem]
  /\ UNCHANGED <<dirs, files, mem, disk, storage, vec, job, uploads, crashes, faults,
                 acked, removed, cut>>

\* chat_stream when there is nothing to index: the retriever is built over the
\* nodes of now, and event_stream queries it later in a worker thread, while
\* other handlers run.  Of the streams that wait, one is followed.
Chat(u) ==
  /\ job = Idle /\ ~Torn /\ ask = NoAsk /\ Pending(u) = {}
  /\ HasDocuments(u)
  /\ ask' = Asked(u, mem)
  /\ UNCHANGED <<dirs, files, mem, disk, storage, vec, job, uploads, crashes, faults,
                 acked, removed, cut>>

\* The query: BM25 over the nodes listed, Qdrant as it is.
Citable == ask.listed \cup DenseNodes(ask.user)

Retrieve ==
  /\ ask # NoAsk /\ ask' = NoAsk
  /\ UNCHANGED <<dirs, files, mem, disk, storage, vec, job, uploads, crashes, faults,
                 acked, removed, cut>>

\* delete_document: the file goes first, whether or not ensure_index then raises ...
Stale(u, f) == {n \in UserNodes(u) : n.file = f}

Delete(u, f) ==
  /\ job = Idle /\ Named(files, u, f) # {}
  /\ files' = files \ Named(files, u, f)
  /\ acked' = acked \ Named(acked, u, f)
  /\ removed' = removed \cup {[user |-> u, file |-> f]}
  /\ job' = IF Stale(u, f) = {} THEN Idle
            ELSE [Idle EXCEPT !.op = "delete", !.user = u, !.file = f]
  /\ UNCHANGED <<ask, dirs, mem, disk, storage, vec, uploads, crashes, faults, cut>>

\* Mutant: without delete_from_docstore.
DeleteVectorsOnly ==
  /\ job.op = "delete"
  /\ vec' = vec \ Stale(job.user, job.file)
  /\ job' = [job EXCEPT !.op = "deleted"]
  /\ UNCHANGED <<ask, dirs, files, mem, disk, storage, uploads, crashes, faults, acked,
                 removed, cut>>

\* ... then its nodes, from Qdrant and from the docstore.  A failure is logged,
\* with Qdrant's part done or not, and the request goes on.
DeleteNodes ==
  /\ job.op = "delete"
  /\ \/ /\ vec' = vec \ Stale(job.user, job.file)
        /\ mem' = mem \ Stale(job.user, job.file)
        /\ UNCHANGED <<faults, cut>>
     \/ /\ CallFails /\ vec' \in {vec, vec \ Stale(job.user, job.file)}
        /\ cut' = cut \cup {job.user}
        /\ UNCHANGED mem
  /\ job' = [job EXCEPT !.op = "deleted"]
  /\ UNCHANGED <<ask, dirs, files, disk, storage, uploads, crashes, acked, removed>>

\* The process dies and is started again: whatever waited is gone.
Restart == crashes < MaxCrash /\ crashes' = crashes + 1 /\ job' = Idle /\ ask' = NoAsk

Dies == /\ Restart
        /\ \/ UNCHANGED <<disk, storage>>
           \/ Torn /\ job # Idle /\ storage' = "whole" /\ disk' = mem
        /\ cut' = IF Torn' THEN User ELSE cut \cup ({job.user} \cap User)
        /\ UNCHANGED <<dirs, files, vec, uploads, faults, acked, removed>>

\* Mutant: the docstore is built anew, not loaded.
CrashForgets == Dies /\ mem' = {}

\* get_or_build_index re-attaches to what was persisted, by whichever handler
\* needs it first, or raises.  A death inside persist leaves a file half written,
\* or falls between two files and leaves none.
Crash == Dies /\ mem' = IF Torn' THEN {} ELSE disk'

\* user_dir is cut short, by the death of the process or by a copy that raises:
\* the directory is there, the copies not all.
SeedingStops(u, F) ==
  /\ job = Idle /\ u \notin dirs
  /\ dirs' = dirs \cup {u} /\ files' = files \cup F
  /\ \/ /\ Restart /\ mem' = IF Torn THEN {} ELSE disk
        /\ UNCHANGED faults
     \/ /\ CallFails /\ UNCHANGED <<ask, mem, job, crashes>>
  /\ UNCHANGED <<disk, storage, vec, uploads, acked, removed, cut>>

Next ==
  \/ \E u \in User : \/ UserDir(u) \/ Sync(u) \/ Chat(u)
                     \/ \E f \in File : Upload(u, f) \/ Delete(u, f)
                     \/ \E F \in SUBSET Seeds(u) : SeedingStops(u, F)
  \/ \E d \in job.todo : Insert(d) \/ InsertFails(d)
  \/ PersistBegins \/ Persist \/ Retrieve \/ DeleteNodes \/ Crash
Spec == Init /\ [][Next]_vars

----------------------------------------------------------------------------
TypeOK ==
  LET Doc == [user : User, file : File, ver : 0..MaxUpload]
      NodeType == [id : 1..MaxCopy, tag : User, user : User, file : File,
                   ver : 0..MaxUpload, page : Page]
  IN
  /\ dirs \subseteq User /\ files \subseteq Doc /\ acked \subseteq Doc
  /\ mem \subseteq NodeType /\ disk \subseteq NodeType /\ vec \subseteq NodeType
  /\ job.op \in {"idle", "upload", "sync", "delete", "deleted"}
  /\ ask = NoAsk \/ (ask.user \in User /\ ask.listed \subseteq NodeType)
  /\ removed \subseteq [user : User, file : File] /\ cut \subseteq User
  /\ storage \in {"whole", "torn"}

\* Both halves of the retriever are filtered (main.py:349): nothing read from
\* another user's directory can be brought up, now or by a query that still
\* waits, whatever failed before.
RetrievalIsIsolated ==
  /\ \A u \in User : \A n \in Retrievable(u) : n.user = u
  /\ \A n \in Citable : n.user = ask.user

\* "Deletes remove nodes from Qdrant and the docstore so they stop being cited"
\* (README.md:240): between requests, what can be cited has a file behind it.
BackedFor(u) == job = Idle => \A n \in Retrievable(u) : Named(files, u, n.file) # {}
NothingDeletedIsCited == \A u \in User : BackedFor(u)

\* A delete whose call fails is answered all the same (main.py:539), but the harm
\* stays with that user: whoever else's requests fail or die, and whatever is
\* restarted between requests, no order of uploads, syncs and deletions leaves a
\* user with a node of a deleted file in either half.
CitationsAreBacked == \A u \in User \ cut : BackedFor(u)

\* A query that overlaps deletions may cite what they delete (main.py:580), but no
\* name that was gone before the question was asked.
CitesNothingOlder == ask.user \notin cut => \A n \in Citable : n.file \in ask.had

\* "Comparing by file name ... is what keeps a restart from re-embedding - and
\* therefore duplicating" (main.py:316): a page of one content has one vector.
OneVectorPerPage == \A m, n \in vec : SamePage(m, n) => m.id = n.id

\* So it has, restarts between requests included, for every user none of whose
\* own requests was cut between Qdrant and persist.
NoDuplicateVectors ==
  \A m, n \in vec : m.tag \notin cut /\ SamePage(m, n) => m.id = n.id

\* A node of page p of x that the filters let through.
Indexes(n, x, p) == n.tag = x.user /\ SamePage(n, [user |-> x.user, file |-> x.file,
                                                   ver |-> x.ver, page |-> p])

\* An upload that was answered: its file and its vectors survive every failure,
\* and each page is in the docstore, in memory and as persisted, for as long as
\* PERSIST_DIR is whole, until the user replaces or deletes the file.
AckedIsDurable ==
  \A x \in acked :
    /\ x \in files
    /\ \A p \in Page : \E n \in vec :
         Indexes(n, x, p) /\ (Broken \/ n \in mem) /\ (Torn \/ n \in disk)

\* The docstore "survives restarts" (README.md:200): between requests each page of
\* an answered upload is found by both halves of the retriever.
AckedIsFound ==
  job = Idle => \A x \in acked, p \in Page : \E n \in mem \cap vec : Indexes(n, x, p)

\* Chat answers after a sync: at its end every page of every file the user has
\* can be found by both halves of the retriever, unless a request of that user was
\* cut half way through a file: its name alone then counts as indexed (main.py:322).
SyncIndexesAll ==
  [][job.op = "sync" /\ job.user \notin cut /\ Torn /\ ~Torn' =>
       \A d \in PagesOf({x \in files : x.user = job.user}) :
         \E n \in mem \cap vec : <<n.file, n.page>> = <<d.file, d.page>> /\ n.tag = d.user]_vars

\* "Each new account is seeded with a copy on first use" (README.md:102): a
\* starter file a user does not have is one the user has deleted.
StarterSeeded ==
  \A u \in dirs : \A f \in Starter : Named(files, u, f) # {} \/ Named(removed, u, f) # {}
============================================================================
