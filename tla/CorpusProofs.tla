---------------------------- MODULE CorpusProofs ----------------------------
(***************************************************************************)
(* The isolation of the users' documents, the durability of what an upload *)
(* has answered, and what every user keeps none of whose own requests was  *)
(* cut half way, proved of Corpus for any users, files, pages and bounds,  *)
(* and whatever fails or dies.                                             *)
(***************************************************************************)
EXTENDS Corpus, TLAPS

Doc == [user : User, file : File, ver : 0..MaxUpload]
PageDoc == [user : User, file : File, ver : 0..MaxUpload, page : Page]
NodeType == [id : 1..MaxCopy, tag : User, user : User, file : File,
             ver : 0..MaxUpload, page : Page]
JobType == [op : {"idle", "upload", "sync", "delete", "deleted"},
            user : User \cup {NoUser}, file : File \cup {NoFile}, ver : 0..MaxUpload,
            todo : SUBSET PageDoc]
AskType == [user : User \cup {NoUser}, listed : SUBSET NodeType, had : SUBSET File]

\* The types of Corpus, with those of the handler and of the stream that waits.
FullType ==
  /\ uploads \in 0..MaxUpload /\ storage \in {"whole", "torn"} /\ cut \subseteq User
  /\ dirs \subseteq User /\ files \subseteq Doc /\ acked \subseteq Doc
  /\ removed \subseteq [user : User, file : File]
  /\ mem \subseteq NodeType /\ disk \subseteq NodeType /\ vec \subseteq NodeType
  /\ job \in JobType /\ ask \in AskType
  /\ ask = NoAsk \/ ask.user \in User
  /\ job.op = "idle" => job = Idle
  /\ job.op # "idle" => job.user \in User
  /\ job.op = "upload" => job.file \in File

\* A handler has documents of its own user to insert, and no others.
JobIsOwn == \A d \in job.todo : d.user = job.user

\* The owner stamped on a node is that of the directory it was read from: in
\* memory, on disk, from where a restart takes it, and in Qdrant.
TagsAreOwners == \A n \in mem \cup disk \cup vec : n.tag = n.user

\* A stream that waits has listed nodes of its own user.
AskIsOwn == \A n \in ask.listed : n.user = ask.user

\* A handler persists when it has nothing left to insert; and once the process has
\* died there, nothing is loaded.
PersistIsLast ==
  /\ Torn /\ job.op = "idle" => mem = {}
  /\ Torn /\ job.op # "idle" => job.op \in {"upload", "sync", "deleted"} /\ job.todo = {}

IsolationInv == FullType /\ JobIsOwn /\ TagsAreOwners /\ AskIsOwn /\ PersistIsLast

----------------------------------------------------------------------------
\* What SimpleDirectoryReader reads from files of one user belongs to that user.
LEMMA PagesKeepOwner ==
  ASSUME NEW u, NEW F \in SUBSET Doc, \A x \in F : x.user = u
  PROVE  PagesOf(F) \subseteq PageDoc /\ \A d \in PagesOf(F) : d.user = u
BY DEF PagesOf, Doc, PageDoc

\* The node made of a document of the handler's user bears that user as its tag.
LEMMA NodeTagIsOwner ==
  ASSUME FullType, JobIsOwn, NEW d \in job.todo, FreeId(d) # {}
  PROVE  Node(d) \in NodeType /\ Node(d).tag = Node(d).user
<1> DEFINE i == CHOOSE k \in FreeId(d) : TRUE
<1>1. i \in 1..MaxCopy
  BY DEF FreeId
<1>2. d \in PageDoc /\ job.user = d.user
  BY DEF FullType, JobIsOwn, JobType
<1>3. Node(d) = [id |-> i, tag |-> job.user, user |-> d.user, file |-> d.file,
                 ver |-> d.ver, page |-> d.page]
  BY DEF Node
<1> HIDE DEF i
<1> QED
  BY <1>1, <1>2, <1>3 DEF PageDoc, NodeType

\* What a question lists is the user's.
LEMMA AskedIsOwn ==
  ASSUME FullType, TagsAreOwners, NEW u \in User
  PROVE  /\ Asked(u, mem) \in AskType /\ Asked(u, mem).user = u
         /\ \A n \in Asked(u, mem).listed : n.user = u
BY DEF FullType, TagsAreOwners, Asked, AskType, Doc

LEMMA Initial == Init => IsolationInv
BY CorpusAssumption DEF Init, Idle, NoAsk, IsolationInv, FullType, JobType, AskType,
   JobIsOwn, TagsAreOwners, AskIsOwn, PersistIsLast, Torn

LEMMA StepKeepsInv ==
  ASSUME IsolationInv, [Next]_vars PROVE IsolationInv'
<1> USE CorpusAssumption DEF IsolationInv, FullType, JobIsOwn, TagsAreOwners, AskIsOwn,
        PersistIsLast, JobType, AskType, Idle, NoAsk, Torn
<1>1. ASSUME NEW u \in User, UserDir(u) PROVE IsolationInv'
  <2>1. Seeds(u) \subseteq Doc
    BY DEF Seeds, Doc
  <2> QED
    BY <1>1, <2>1 DEF UserDir
<1>2. ASSUME NEW u \in User, NEW F \in SUBSET Seeds(u), SeedingStops(u, F)
      PROVE  IsolationInv'
  <2>1. F \subseteq Doc
    BY DEF Seeds, Doc
  <2>2. mem' = mem \/ mem' = (IF Torn THEN {} ELSE disk)
    BY <1>2 DEF SeedingStops
  <2> QED
    BY <1>2, <2>1, <2>2 DEF SeedingStops, Restart
<1>3. ASSUME NEW u \in User, NEW f \in File, Upload(u, f) PROVE IsolationInv'
  <2> DEFINE x == [user |-> u, file |-> f, ver |-> uploads + 1]
  <2>1. x \in Doc /\ x.user = u
    BY <1>3 DEF Upload, Doc
  <2>2. PagesOf({x}) \subseteq PageDoc /\ \A d \in PagesOf({x}) : d.user = u
    <3>1. {x} \in SUBSET Doc /\ \A y \in {x} : y.user = u
      BY <2>1
    <3> HIDE DEF x
    <3> QED
      BY <3>1, PagesKeepOwner
  <2>3. files' \subseteq Doc /\ acked' \subseteq Doc /\ removed' \subseteq [user : User, file : File]
    <3>1. files' \subseteq files \cup {x} /\ acked' \subseteq acked /\ removed' \subseteq removed
      BY <1>3 DEF Upload, Named
    <3> HIDE DEF x
    <3> QED
      BY <2>1, <3>1
  <2>6. ask' \in AskType' /\ AskIsOwn' /\ (ask' = NoAsk \/ ask'.user \in User)
    <3>1. \/ ask' = ask
          \/ /\ ask.user = u
             /\ ask' = [user |-> u, listed |-> ask.listed, had |-> ask.had \cup {f}]
      BY <1>3 DEF Upload
    <3>2. f \in File
      OBVIOUS
    <3> HIDE DEF x
    <3> QED
      BY <3>1, <3>2
  <2>4. CASE Torn
    <3>1. job' = Idle
      BY <1>3, <2>4 DEF Upload, Broken
    <3> QED
      BY <1>3, <2>3, <2>4, <2>6, <3>1 DEF Upload
  <2>5. CASE ~Torn
    <3>1. job' = [op |-> "upload", user |-> u, file |-> f, ver |-> uploads + 1,
                  todo |-> PagesOf({x})]
      BY <1>3, <2>5 DEF Upload, Broken
    <3>2. uploads + 1 \in 0..MaxUpload
      BY <1>3 DEF Upload
    <3>3. job' \in JobType /\ JobIsOwn' /\ job'.op = "upload" /\ job'.user \in User
          /\ job'.file \in File
      <4> HIDE DEF x
      <4> QED
        BY <2>2, <3>1, <3>2
    <3> QED
      BY <1>3, <2>3, <2>5, <2>6, <3>3 DEF Upload
  <2> QED
    BY <2>4, <2>5
<1>4. ASSUME NEW u \in User, Sync(u) PROVE IsolationInv'
  <2>1. PagesOf(Pending(u)) \subseteq PageDoc /\ \A d \in PagesOf(Pending(u)) : d.user = u
    BY PagesKeepOwner DEF Pending
  <2>2. job' = [op |-> "sync", user |-> u, file |-> NoFile, ver |-> 0,
                todo |-> PagesOf(Pending(u))]
    BY <1>4 DEF Sync
  <2>3. job' \in JobType /\ JobIsOwn' /\ job'.user \in User /\ job'.op = "sync"
    BY <2>1, <2>2
  <2> QED
    BY <1>4, <2>3 DEF Sync
<1>5. ASSUME NEW u \in User, Chat(u) PROVE IsolationInv'
  BY <1>5, AskedIsOwn DEF Chat
<1>6. ASSUME NEW u \in User, NEW f \in File, Delete(u, f) PROVE IsolationInv'
  <2>1. \/ job' = Idle
        \/ ~Torn /\ job' = [op |-> "delete", user |-> u, file |-> f, ver |-> 0, todo |-> {}]
    BY <1>6 DEF Delete, Stale, UserNodes
  <2>2. /\ files' \subseteq files /\ acked' \subseteq acked
        /\ removed' = removed \cup {[user |-> u, file |-> f]}
        /\ UNCHANGED <<ask, dirs, mem, disk, storage, vec, uploads, cut>> /\ job.op = "idle"
    BY <1>6 DEF Delete, Named
  <2>3. job' \in JobType /\ JobIsOwn' /\ (job'.op = "idle" => job' = Idle)
        /\ (job'.op # "idle" => job'.user \in User) /\ job'.op # "upload" /\ PersistIsLast'
    <3>1. CASE job' = Idle
      BY <2>2, <3>1
    <3>2. CASE ~Torn /\ job' = [op |-> "delete", user |-> u, file |-> f, ver |-> 0, todo |-> {}]
      BY <2>2, <3>2
    <3> QED
      BY <2>1, <3>1, <3>2
  <2> QED
    BY <2>2, <2>3
<1>7. ASSUME NEW d \in job.todo, Insert(d) \/ InsertFails(d) PROVE IsolationInv'
  <2>1. Node(d) \in NodeType /\ Node(d).tag = Node(d).user
    BY <1>7, NodeTagIsOwner DEF Insert, InsertFails
  <2>2. ~Torn /\ storage' = storage /\ ask' = ask /\ job.op # "idle" /\ job.user \in User
    BY <1>7 DEF Insert, InsertFails
  <2>3. /\ mem' \subseteq mem \cup {Node(d)} /\ vec' \subseteq vec \cup {Node(d)}
        /\ disk' = disk
    BY <1>7 DEF Insert, InsertFails
  <2>4. \/ job' = Idle
        \/ job' = [op |-> job.op, user |-> job.user, file |-> job.file, ver |-> job.ver,
                   todo |-> job.todo \ {d}]
    BY <1>7 DEF Insert, InsertFails
  <2>5. job' \in JobType /\ JobIsOwn' /\ (job'.op = "upload" => job'.file \in File)
        /\ (job'.op = "idle" => job' = Idle) /\ (job'.op # "idle" => job'.user \in User)
    BY <2>2, <2>4
  <2>6. cut' \subseteq User
    BY <1>7, <2>2 DEF Insert, InsertFails
  <2> QED
    BY <1>7, <2>1, <2>2, <2>3, <2>5, <2>6 DEF Insert, InsertFails
<1>8. CASE PersistBegins
  BY <1>8 DEF PersistBegins
<1>9. CASE Persist
  <2>1. ask' = ask \/ (job.user \in User /\ ask' = Asked(job.user, mem))
    BY <1>9 DEF Persist
  <2>2. ask' \in AskType' /\ AskIsOwn' /\ (ask' = NoAsk \/ ask'.user \in User)
    BY <1>9, <2>1, AskedIsOwn DEF Persist
  <2>3. acked' \subseteq Doc
    BY <1>9 DEF Persist, Answered, Doc
  <2> QED
    BY <1>9, <2>2, <2>3 DEF Persist
<1>10. CASE Retrieve
  BY <1>10 DEF Retrieve
<1>11. CASE DeleteNodes
  <2>1. /\ mem' \subseteq mem /\ vec' \subseteq vec /\ cut' \subseteq cut \cup {job.user}
        /\ UNCHANGED <<dirs, files, disk, storage, ask, uploads, acked, removed>>
        /\ job.op = "delete" /\ ~Torn
    BY <1>11 DEF DeleteNodes
  <2>2. job' = [op |-> "deleted", user |-> job.user, file |-> job.file, ver |-> job.ver,
                todo |-> job.todo]
    BY <1>11 DEF DeleteNodes
  <2> QED
    BY <2>1, <2>2
<1>12. CASE Crash
  <2>1. /\ job' = Idle /\ ask' = NoAsk /\ storage' \in {"whole", "torn"} /\ disk' \in {disk, mem}
        /\ cut' \subseteq User /\ UNCHANGED <<dirs, files, vec, uploads, acked, removed>>
        /\ mem' = (IF Torn' THEN {} ELSE disk')
    BY <1>12 DEF Crash, Dies, Restart
  <2> QED
    BY <2>1
<1>13. CASE UNCHANGED vars
  BY <1>13 DEF vars
<1> QED
  BY <1>1, <1>2, <1>3, <1>4, <1>5, <1>6, <1>7, <1>8, <1>9, <1>10, <1>11, <1>12, <1>13 DEF Next

LEMMA Invariance == Spec => []IsolationInv
BY Initial, StepKeepsInv, PTL DEF Spec

\* The types of Corpus.
THEOREM TypeCorrect == Spec => []TypeOK
<1>1. IsolationInv => TypeOK
  BY DEF IsolationInv, FullType, TypeOK, JobType, AskType, NodeType, Doc
<1> QED
  BY <1>1, Invariance, PTL

\* Nothing of another user is retrieved, neither by a new query nor by one that
\* has waited, whatever order of uploads, syncs, deletions, failures and restarts
\* came before.
THEOREM Isolation == Spec => []RetrievalIsIsolated
<1>1. IsolationInv => RetrievalIsIsolated
  BY DEF IsolationInv, FullType, TagsAreOwners, AskIsOwn, RetrievalIsIsolated, Retrievable,
         UserNodes, DenseNodes, Citable
<1> QED
  BY <1>1, Invariance, PTL

----------------------------------------------------------------------------
\* The upload a handler is at, as a file; and a page of a file, as a document.
Current == [user |-> job.user, file |-> job.file, ver |-> job.ver]
PageOf(x, p) == [user |-> x.user, file |-> x.file, ver |-> x.ver, page |-> p]

\* The node is where AckedIsDurable wants it.
Held(n) == n \in vec /\ (Broken \/ n \in mem) /\ (Torn \/ n \in disk)

\* What makes AckedIsDurable inductive: a page of an upload under way is still to
\* be inserted or is in memory and in Qdrant, and a deletion under way is of no
\* upload that is acknowledged.
DurableInv ==
  /\ AckedIsDurable
  /\ job.op = "upload" =>
       /\ Current \in files
       /\ \A p \in Page : \/ PageOf(Current, p) \in job.todo
                          \/ \E n \in mem \cap vec : Indexes(n, Current, p)
  /\ job.op = "delete" => Named(acked, job.user, job.file) = {}

\* A node that is a page of a file bears that file's name and content.
LEMMA IndexesMeans ==
  ASSUME NEW n, NEW x, NEW p
  PROVE  Indexes(n, x, p) <=> /\ n.tag = x.user /\ n.user = x.user /\ n.file = x.file
                              /\ n.ver = x.ver /\ n.page = p
BY DEF Indexes, SamePage

\* Nothing acknowledged is lost if the files and nodes of what stays so are kept.
LEMMA KeptIsDurable ==
  ASSUME AckedIsDurable, acked' \subseteq acked,
         \A x \in acked' : x \in files => x \in files',
         \A x \in acked', p \in Page : \A n \in vec :
           Indexes(n, x, p) /\ Held(n) => Held(n)'
  PROVE  AckedIsDurable'
<1>1. \A n, x, p : Indexes(n, x, p)' <=> Indexes(n, x, p)
  BY DEF Indexes, SamePage
<1> QED
  BY <1>1 DEF AckedIsDurable, Held

LEMMA StepKeepsDurable ==
  ASSUME IsolationInv, DurableInv, [Next]_vars PROVE DurableInv'
<1> USE CorpusAssumption DEF DurableInv, Torn
<1>0. /\ Idle.op = "idle" /\ Idle.todo = {} /\ Idle.user = NoUser
      /\ job.op = "idle" <=> job = Idle
      /\ storage \in {"whole", "torn"}
  BY DEF Idle, IsolationInv, FullType
<1>1. ASSUME NEW u \in User, NEW f \in File, Upload(u, f) PROVE DurableInv'
  <2> DEFINE x == [user |-> u, file |-> f, ver |-> uploads + 1]
  <2>1. AckedIsDurable'
    <3>1. ASSUME NEW n, Held(n) PROVE Held(n)'
      <4>1. Broken => Broken'
        BY <1>1 DEF Upload, Broken
      <4> QED
        BY <1>1, <3>1, <4>1 DEF Upload, Held
    <3> QED
      BY <1>1, <3>1, KeptIsDurable DEF Upload, Named
  <2>2. CASE job' = Idle
    BY <1>0, <2>1, <2>2
  <2>3. CASE job' # Idle
    <3>1. job' = [op |-> "upload", user |-> u, file |-> f, ver |-> uploads + 1,
                  todo |-> PagesOf({x})]
      BY <1>1, <2>3 DEF Upload
    <3>2. \A p \in Page : PageOf(x, p) \in PagesOf({x})
      BY DEF PagesOf, PageOf
    <3>3. x \in files' /\ Current' = x
      BY <1>1, <3>1 DEF Upload, Current
    <3>4. \A p \in Page : PageOf(Current, p)' = PageOf(x, p)
      BY <3>3 DEF PageOf
    <3> HIDE DEF x
    <3> QED
      BY <2>1, <3>1, <3>2, <3>3, <3>4
  <2> QED
    BY <2>2, <2>3
<1>2. ASSUME NEW u \in User, NEW f \in File, Delete(u, f) PROVE DurableInv'
  <2>1. AckedIsDurable'
    <3>1. Broken => Broken'
      BY <1>0, <1>2 DEF Delete, Broken, Stale, UserNodes, IsolationInv, PersistIsLast
    <3> QED
      BY <1>2, <3>1, KeptIsDurable DEF Delete, Named, Held
  <2>2. job' = Idle \/ job' = [op |-> "delete", user |-> u, file |-> f, ver |-> 0, todo |-> {}]
    BY <1>2 DEF Delete, Idle
  <2>3. Named(acked', u, f) = {}
    BY <1>2 DEF Delete, Named
  <2> QED
    BY <1>0, <2>1, <2>2, <2>3
<1>3. ASSUME NEW d \in job.todo, Insert(d) PROVE DurableInv'
  <2>1. ~Broken /\ ~Torn
    BY <1>0, <1>3 DEF Broken, IsolationInv, PersistIsLast
  <2>2. job' = [op |-> job.op, user |-> job.user, file |-> job.file, ver |-> job.ver,
                todo |-> job.todo \ {d}]
    BY <1>3 DEF Insert, IsolationInv, FullType, JobType
  <2>3. /\ mem' = mem \cup {Node(d)} /\ vec' = vec \cup {Node(d)}
        /\ UNCHANGED <<files, acked, disk, storage>>
    BY <1>3 DEF Insert
  <2>4. AckedIsDurable'
    <3>1. ASSUME NEW n, Held(n) PROVE Held(n)'
      BY <2>1, <2>3, <3>1 DEF Held
    <3> QED
      BY <2>3, <3>1, KeptIsDurable
  <2>5. Current' = Current
    BY <2>2 DEF Current
  <2>6. ASSUME NEW p \in Page, d = PageOf(Current, p) PROVE Indexes(Node(d), Current, p)
    <3>1. /\ Node(d).tag = job.user /\ Node(d).user = d.user /\ Node(d).file = d.file
          /\ Node(d).ver = d.ver /\ Node(d).page = d.page
      BY DEF Node
    <3> HIDE DEF Node
    <3> QED
      BY <2>6, <3>1, IndexesMeans DEF PageOf, Current
  <2>7. \A n, p : Indexes(n, Current, p) <=> Indexes(n, Current, p)'
    BY <2>5 DEF Indexes, SamePage
  <2>8. \A p : PageOf(Current, p)' = PageOf(Current, p)
    BY <2>5 DEF PageOf
  <2> QED
    BY <2>2, <2>3, <2>4, <2>5, <2>6, <2>7, <2>8
<1>4. ASSUME NEW d \in job.todo, InsertFails(d) PROVE DurableInv'
  <2>1. ~Broken /\ ~Torn
    BY <1>0, <1>4 DEF Broken, IsolationInv, PersistIsLast
  <2>2. AckedIsDurable'
    <3>1. ASSUME NEW n, Held(n) PROVE Held(n)'
      BY <1>4, <2>1, <3>1 DEF Held, InsertFails
    <3> QED
      BY <1>4, <3>1, KeptIsDurable DEF InsertFails
  <2> QED
    BY <1>0, <1>4, <2>2 DEF InsertFails
<1>5. CASE PersistBegins
  <2>1. ~Broken /\ ~Broken'
    BY <1>5 DEF PersistBegins, Broken, Idle
  <2>2. AckedIsDurable'
    <3>1. ASSUME NEW n, Held(n) PROVE Held(n)'
      BY <1>5, <2>1, <3>1 DEF Held, PersistBegins
    <3> QED
      BY <1>5, <3>1, KeptIsDurable DEF PersistBegins
  <2> QED
    BY <1>5, <2>2 DEF PersistBegins, Current, PageOf, Indexes
<1>6. CASE Persist
  <2>1. /\ storage' = "whole" /\ disk' = mem /\ UNCHANGED <<files, mem, vec>> /\ job' = Idle
        /\ ~Broken
    BY <1>6 DEF Persist, Broken
  <2>2. ASSUME NEW x \in acked PROVE /\ x \in files
                                     /\ \A p \in Page : \E n \in mem \cap vec : Indexes(n, x, p)
    BY <2>1 DEF AckedIsDurable
  <2>3. job.op = "upload" => /\ Current \in files
                             /\ \A p \in Page : \E n \in mem \cap vec : Indexes(n, Current, p)
    BY <1>0, <1>6 DEF Persist, IsolationInv, PersistIsLast
  <2>4. \A x \in acked' : x \in acked \/ (job.op = "upload" /\ x = Current)
    BY <1>6 DEF Persist, Answered, Current
  <2>5. \A x \in acked' : /\ x \in files
                          /\ \A p \in Page : \E n \in mem \cap vec : Indexes(n, x, p)
    BY <2>2, <2>3, <2>4
  <2>6. AckedIsDurable'
    BY <2>1, <2>5 DEF AckedIsDurable, Indexes, SamePage
  <2> QED
    BY <1>0, <2>1, <2>6
<1>7. CASE DeleteNodes
  <2>1. /\ vec \ Stale(job.user, job.file) \subseteq vec'
        /\ mem \ Stale(job.user, job.file) \subseteq mem'
        /\ UNCHANGED <<files, disk, storage, acked>>
        /\ job.op = "delete"
    BY <1>7 DEF DeleteNodes
  <2>2. ~Broken /\ ~Torn
    BY <1>0, <2>1 DEF Broken, IsolationInv, PersistIsLast
  <2>3. \A n : \A x \in acked, p \in Page :
          Indexes(n, x, p) => n \notin Stale(job.user, job.file)
    BY <2>1, IndexesMeans DEF Named, Stale, UserNodes
  <2>4. AckedIsDurable'
    <3>1. ASSUME NEW x \in acked, NEW p \in Page, NEW n, Indexes(n, x, p), Held(n)
          PROVE  Held(n)'
      BY <2>1, <2>2, <2>3, <3>1 DEF Held
    <3> QED
      BY <2>1, <3>1, KeptIsDurable
  <2>5. job'.op = "deleted"
    BY <1>7 DEF DeleteNodes, IsolationInv, FullType, JobType
  <2> QED
    BY <2>4, <2>5
<1>8. CASE Crash
  <2>1. /\ job' = Idle /\ UNCHANGED <<files, vec, acked>>
        /\ mem' = (IF Torn' THEN {} ELSE disk')
        /\ \/ storage' = storage /\ disk' = disk
           \/ storage' = "whole" /\ disk' = mem /\ ~Broken
    BY <1>8 DEF Crash, Dies, Restart, Broken
  <2>2. AckedIsDurable'
    <3>1. ASSUME NEW n, Held(n) PROVE Held(n)'
      BY <1>0, <2>1, <3>1 DEF Held, Broken
    <3> QED
      BY <2>1, <3>1, KeptIsDurable
  <2> QED
    BY <1>0, <2>1, <2>2
<1>9. ASSUME NEW u \in User, NEW F, SeedingStops(u, F) PROVE DurableInv'
  <2>1. /\ job = Idle /\ job' = Idle /\ UNCHANGED <<disk, storage, vec, acked>>
        /\ files \subseteq files' /\ (mem' = mem \/ mem' = (IF Torn THEN {} ELSE disk))
    BY <1>9 DEF SeedingStops, Restart
  <2>2. AckedIsDurable'
    <3>1. ASSUME NEW n, Held(n) PROVE Held(n)'
      BY <1>0, <2>1, <3>1 DEF Held, Broken
    <3> QED
      BY <2>1, <3>1, KeptIsDurable
  <2> QED
    BY <1>0, <2>1, <2>2
<1>10. ASSUME NEW u \in User, UserDir(u) \/ Chat(u) PROVE DurableInv'
  <2>1. AckedIsDurable'
    <3>1. ASSUME NEW n, Held(n) PROVE Held(n)'
      BY <1>10, <3>1 DEF Held, Broken, UserDir, Chat
    <3> QED
      BY <1>10, <3>1, KeptIsDurable DEF UserDir, Chat
  <2> QED
    BY <1>0, <1>10, <2>1 DEF UserDir, Chat
<1>11. ASSUME NEW u \in User, Sync(u) PROVE DurableInv'
  <2>1. job' = [op |-> "sync", user |-> u, file |-> NoFile, ver |-> 0,
                todo |-> PagesOf(Pending(u))]
    BY <1>11 DEF Sync, Idle
  <2>2. AckedIsDurable'
    <3>1. ASSUME NEW n, Held(n) PROVE Held(n)'
      BY <1>11, <3>1 DEF Held, Broken, Sync
    <3> QED
      BY <1>11, <3>1, KeptIsDurable DEF Sync
  <2> QED
    BY <2>1, <2>2
<1>12. CASE Retrieve \/ UNCHANGED vars
  <2>1. UNCHANGED <<files, mem, vec, disk, storage, job, acked>>
    BY <1>12 DEF Retrieve, vars
  <2> QED
    BY <2>1 DEF AckedIsDurable, Broken, Current, PageOf, Indexes, SamePage, Named
<1> QED
  BY <1>1, <1>2, <1>3, <1>4, <1>5, <1>6, <1>7, <1>8, <1>9, <1>10, <1>11, <1>12 DEF Next

\* What an upload has answered is kept, page by page: its file and its vectors
\* whatever failed or died since, and its nodes in the docstore for as long as no
\* death has fallen inside persist.
THEOREM Durability == Spec => []AckedIsDurable
<1>1. Init => DurableInv
  BY DEF Init, DurableInv, AckedIsDurable, Idle
<1>2. IsolationInv /\ DurableInv /\ [Next]_vars => DurableInv'
  BY StepKeepsDurable
<1>3. DurableInv => AckedIsDurable
  BY DEF DurableInv
<1> QED
  BY <1>1, <1>2, <1>3, Invariance, PTL DEF Spec

----------------------------------------------------------------------------
\* What bears a file's name: a node of its owner in memory, or a document of it
\* still to be inserted.
FileOf(d)   == [user |-> d.user, file |-> d.file, ver |-> d.ver]
Bears(n, x) == n.tag = x.user /\ n.file = x.file

\* A file is taken up whole: each of its pages is in memory or about to be.
TakenUp(x) == \A p \in Page : \/ PageOf(x, p) \in job.todo
                              \/ \E n \in mem : Bears(n, x) /\ n.page = p

\* Or not at all, and no sync of its owner is under way.
LeftAlone(x) == /\ ~ \E n \in mem : Bears(n, x)
                /\ ~ \E d \in job.todo : d.user = x.user /\ d.file = x.file
                /\ job.op = "sync" => job.user # x.user

\* What every handler keeps to, whatever fails: it inserts pages of files that are
\* there, a delete has unlinked its file, and only a user who has a directory has
\* files, a sync or a question.  A death inside persist cuts every user.
CommonInv ==
  /\ job.op \notin {"upload", "sync"} => job.todo = {}
  /\ job.op = "delete" => Named(files, job.user, job.file) = {}
  /\ \A d \in job.todo : FileOf(d) \in files
  /\ \A x \in files \cup mem \cup disk : x.ver <= uploads
  /\ \A x \in files : x.user \in dirs
  /\ job.op = "sync" => job.user \in dirs
  /\ ask = NoAsk \/ ask.user \in dirs
  /\ Torn /\ job.op = "idle" => cut = User

\* What a user keeps none of whose requests was cut.  The two halves of the index
\* agree on the user's nodes, and so does what is persisted of them unless a
\* handler of that user is at work; ...
HalvesAgree(u) == \A n : n.tag = u => (n \in mem <=> n \in vec)
Persisted(u)   == job.user # u => \A n : n.tag = u => (n \in mem <=> n \in disk)

\* ... a node has a file of its name behind it, unless a deletion is at it; ...
NodesAreBacked(u) == \A n \in mem : n.tag = u =>
  \/ Named(files, u, n.file) # {}
  \/ job.op = "delete" /\ job.user = u /\ n.file = job.file

\* ... a page is inserted for the first time; ...
WorkIsNew(u) == \A d \in job.todo, n \in mem : d.user = u /\ n.tag = u => ~SamePage(n, d)

\* ... the name of what a question may cite is among those its user has had; ...
HadInTime(u) == ask.user = u =>
  /\ \A x \in files : x.user = u => x.file \in ask.had
  /\ \A n \in mem : n.tag = u => n.file \in ask.had
  /\ \A n \in ask.listed : n.file \in ask.had

\* ... a page is indexed once; and no file is half indexed between requests.
OnePerPage(u) == \A m, n \in mem : m.tag = u /\ SamePage(m, n) => m.id = n.id
WholeFiles(u) == \A x \in files : x.user = u => TakenUp(x) \/ LeftAlone(x)

Parts(u) == /\ HalvesAgree(u) /\ Persisted(u) /\ NodesAreBacked(u) /\ WorkIsNew(u)
            /\ HadInTime(u) /\ OnePerPage(u) /\ WholeFiles(u)

UncutInv == CommonInv /\ \A u \in User \ cut : Parts(u)

LEMMA InitialUncut == Init => UncutInv
BY CorpusAssumption DEF Init, UncutInv, CommonInv, Parts, Idle, NoAsk, HalvesAgree, Persisted,
   NodesAreBacked, WorkIsNew, HadInTime, OnePerPage, WholeFiles, Torn

\* To have the same user, file, content and page is the same for all that says so.
LEMMA SamePageMeans ==
  ASSUME NEW m, NEW n
  PROVE  SamePage(m, n) <=> /\ m.user = n.user /\ m.file = n.file
                            /\ m.ver = n.ver /\ m.page = n.page
BY DEF SamePage

\* The handler at rest, and what is at work when it is not.
LEMMA AtRest ==
  ASSUME IsolationInv
  PROVE  /\ job.op = "idle" <=> job = Idle
         /\ Idle.op = "idle" /\ Idle.todo = {} /\ Idle.user = NoUser
         /\ \A u \in User : u # NoUser /\ NoAsk.user # u
BY CorpusAssumption DEF Idle, NoAsk, IsolationInv, FullType

\* What a sync inserts is of the user's files, of names no node bears.
LEMMA PendingPages ==
  ASSUME IsolationInv, NEW u \in User
  PROVE  /\ \A d \in PagesOf(Pending(u)) :
              /\ FileOf(d) \in files /\ d.user = u
              /\ ~ \E n \in mem : n.tag = u /\ n.file = d.file
         /\ \A y \in Pending(u), p \in Page : PageOf(y, p) \in PagesOf(Pending(u))
<1>1. ASSUME NEW d \in PagesOf(Pending(u))
      PROVE  \E y \in Pending(u) : FileOf(d) = y /\ d.user = y.user /\ d.file = y.file
  BY DEF PagesOf, Pending, FileOf, IsolationInv, FullType, Doc
<1> QED
  BY <1>1 DEF Pending, UserNodes, PagesOf, PageOf

----------------------------------------------------------------------------
\* What is common to all users.
LEMMA StepKeepsCommon ==
  ASSUME IsolationInv, CommonInv, [Next]_vars PROVE CommonInv'
<1> USE AtRest DEF CommonInv
<1>1. ASSUME NEW u \in User, NEW F \in SUBSET Seeds(u),
             files' = files \cup F, dirs' = dirs \cup {u}, job = Idle, job' = Idle,
             mem' = mem \/ mem' \subseteq disk, ask' = ask \/ ask' = NoAsk,
             UNCHANGED <<disk, storage, uploads, cut>>
      PROVE  CommonInv'
  <2>1. \A x \in F : x.user = u /\ x.ver = 0 /\ 0 <= uploads
    BY DEF Seeds, IsolationInv, FullType
  <2> QED
    BY <1>1, <2>1 DEF Torn
<1>2. ASSUME NEW u \in User, UserDir(u) PROVE CommonInv'
  <2>1. files' = files \cup Seeds(u) /\ dirs' = dirs \cup {u} /\ job = Idle /\ job' = job
        /\ UNCHANGED <<mem, ask, disk, storage, uploads, cut>>
    BY <1>2 DEF UserDir
  <2> QED
    BY <1>1, <2>1
<1>3. ASSUME NEW u \in User, NEW F \in SUBSET Seeds(u), SeedingStops(u, F) PROVE CommonInv'
  <2>1. files' = files \cup F /\ dirs' = dirs \cup {u} /\ job = Idle /\ job' = Idle
        /\ UNCHANGED <<disk, storage, uploads, cut>>
        /\ (mem' = mem \/ mem' \subseteq disk) /\ (ask' = ask \/ ask' = NoAsk)
    BY <1>3 DEF SeedingStops, Restart
  <2> QED
    BY <1>1, <2>1
<1>4. ASSUME NEW u \in User, NEW f \in File, Upload(u, f) PROVE CommonInv'
  <2> DEFINE x == [user |-> u, file |-> f, ver |-> uploads + 1]
  <2>1. /\ files' = (files \ Named(files, u, f)) \cup {x}
        /\ job = Idle /\ u \in dirs /\ uploads' = uploads + 1
        /\ UNCHANGED <<dirs, mem, disk, storage, cut>>
        /\ ask' = ask \/ ask'.user = u
    BY <1>4 DEF Upload, IsolationInv, FullType, AskType
  <2>2. x.user = u /\ x.ver = uploads + 1 /\ \A d \in PagesOf({x}) : FileOf(d) = x
    BY DEF PagesOf, FileOf
  <2>3. \/ job' = Idle
        \/ ~Torn /\ job' = [op |-> "upload", user |-> u, file |-> f, ver |-> uploads + 1,
                            todo |-> PagesOf({x})]
    BY <1>4 DEF Upload, Broken
  <2>4. \A y \in files \cup mem \cup disk : y.ver \in Nat /\ y.ver <= uploads /\ uploads \in Nat
    BY CorpusAssumption DEF IsolationInv, FullType, Doc, NodeType
  <2> HIDE DEF x
  <2>5. \A y \in files' \cup mem' \cup disk' : y.ver <= uploads'
    BY <2>1, <2>2, <2>4
  <2>6. /\ job'.op \notin {"upload", "sync"} => job'.todo = {}
        /\ job'.op \notin {"delete", "sync"}
        /\ \A d \in job'.todo : FileOf(d) \in files'
        /\ Torn' /\ job'.op = "idle" => cut' = User
    <3>1. CASE job' = Idle
      BY <2>1, <3>1 DEF Torn
    <3>2. CASE job' # Idle
      BY <2>1, <2>2, <2>3, <3>2
    <3> QED
      BY <3>1, <3>2
  <2>7. \A y \in files' : y.user \in dirs'
    BY <2>1, <2>2
  <2>8. ask' = NoAsk \/ ask'.user \in dirs'
    BY <2>1
  <2> QED
    BY ONLY <2>5, <2>6, <2>7, <2>8 DEF CommonInv
<1>5. ASSUME NEW u \in User, Sync(u) PROVE CommonInv'
  <2>1. job' = [op |-> "sync", user |-> u, file |-> NoFile, ver |-> 0,
                todo |-> PagesOf(Pending(u))]
    BY <1>5 DEF Sync, Idle
  <2>2. \A d \in PagesOf(Pending(u)) : FileOf(d) \in files
    BY PendingPages
  <2>3. u \in dirs /\ UNCHANGED <<ask, dirs, files, mem, disk, uploads>>
    BY <1>5 DEF Sync
  <2>4. job'.op = "sync" /\ job'.user = u /\ \A d \in job'.todo : FileOf(d) \in files'
    BY <2>1, <2>2, <2>3
  <2> QED
    BY <2>3, <2>4
<1>6. ASSUME NEW d \in job.todo, Insert(d) PROVE CommonInv'
  <2>1. job' = [op |-> job.op, user |-> job.user, file |-> job.file, ver |-> job.ver,
                todo |-> job.todo \ {d}]
    BY <1>6 DEF Insert, IsolationInv, FullType, JobType
  <2>2. Node(d).ver = d.ver /\ FileOf(d).ver = d.ver /\ FileOf(d) \in files
    BY DEF Node, FileOf
  <2>3. /\ mem' = mem \cup {Node(d)} /\ job.op \in {"upload", "sync"}
        /\ UNCHANGED <<ask, dirs, files, disk, uploads>>
    BY <1>6 DEF Insert
  <2> HIDE DEF Node
  <2>4. \A x \in files' \cup mem' \cup disk' : x.ver <= uploads'
    BY <2>2, <2>3
  <2> QED
    BY <2>1, <2>3, <2>4
<1>7. ASSUME NEW d \in job.todo, InsertFails(d) PROVE CommonInv'
  <2>1. ~Torn /\ storage' = storage
    BY <1>7 DEF InsertFails, IsolationInv, PersistIsLast
  <2>2. job' = Idle /\ UNCHANGED <<ask, dirs, files, mem, disk, uploads>>
    BY <1>7 DEF InsertFails
  <2> QED
    BY <2>1, <2>2 DEF Torn
<1>8. CASE PersistBegins
  BY <1>8 DEF PersistBegins
<1>9. CASE Persist
  <2>1. ask' = ask \/ (job.op = "sync" /\ ask' = Asked(job.user, mem))
    BY <1>9 DEF Persist
  <2>2. ask' = NoAsk \/ ask'.user \in dirs
    BY <2>1 DEF Asked
  <2> QED
    BY <1>9, <2>2 DEF Persist, Torn
<1>10. ASSUME NEW u \in User, Chat(u) PROVE CommonInv'
  <2>1. u \in dirs
    BY <1>10 DEF Chat, HasDocuments
  <2> QED
    BY <1>10, <2>1 DEF Chat, Asked, Torn
<1>11. ASSUME NEW u \in User, NEW f \in File, Delete(u, f) PROVE CommonInv'
  <2>1. \/ job' = Idle
        \/ job' = [op |-> "delete", user |-> u, file |-> f, ver |-> 0, todo |-> {}]
    BY <1>11 DEF Delete, Idle
  <2>2. files' = files \ Named(files, u, f) /\ Named(files', u, f) = {} /\ job = Idle
    BY <1>11 DEF Delete, Named
  <2>3. job'.op \notin {"upload", "sync"} /\ job'.todo = {}
        /\ (job'.op = "delete" => job'.user = u /\ job'.file = f)
    BY <2>1
  <2> QED
    BY <1>11, <2>2, <2>3 DEF Delete, Torn
<1>12. CASE DeleteNodes
  <2>1. job' = [op |-> "deleted", user |-> job.user, file |-> job.file, ver |-> job.ver,
                todo |-> job.todo]
    BY <1>12 DEF DeleteNodes, IsolationInv, FullType, JobType
  <2>2. job.todo = {} /\ mem' \subseteq mem /\ UNCHANGED <<ask, dirs, files, disk, uploads>>
    BY <1>12 DEF DeleteNodes
  <2> QED
    BY <2>1, <2>2
<1>13. CASE Crash
  <2>1. /\ job' = Idle /\ ask' = NoAsk /\ UNCHANGED <<dirs, files, uploads>>
        /\ mem' \subseteq disk' /\ disk' \in {disk, mem} /\ (Torn' => cut' = User)
    BY <1>13 DEF Crash, Dies, Restart
  <2> QED
    BY <2>1
<1>14. CASE Retrieve \/ UNCHANGED vars
  BY <1>14 DEF Retrieve, vars, Torn, Named
<1> QED
  BY <1>2, <1>3, <1>4, <1>5, <1>6, <1>7, <1>8, <1>9, <1>10, <1>11, <1>12, <1>13, <1>14 DEF Next

----------------------------------------------------------------------------
\* A step that leaves a user's files and nodes alone, before and after which no
\* handler of that user is at work.
LEMMA OthersKeepParts ==
  ASSUME IsolationInv, IsolationInv', NEW u \in User, Parts(u),
         job.user # u, job'.user # u,
         \A n : n.tag = u => /\ n \in mem' <=> n \in mem
                             /\ n \in vec' <=> n \in vec
                             /\ n \in disk' <=> n \in disk,
         \A x : x.user = u => (x \in files' <=> x \in files),
         ask' = ask \/ ask'.user # u \/ HadInTime(u)'
  PROVE  Parts(u)'
<1> USE DEF Parts
<1>1. \A d \in job.todo \cup job'.todo : d.user # u
  BY DEF IsolationInv, JobIsOwn
<1>2. HalvesAgree(u)' /\ Persisted(u)'
  BY DEF HalvesAgree, Persisted
<1>3. NodesAreBacked(u)'
  BY DEF NodesAreBacked, Named
<1>4. WorkIsNew(u)'
  BY <1>1 DEF WorkIsNew
<1>5. HadInTime(u)'
  BY DEF HadInTime
<1>6. OnePerPage(u)'
  <2>1. ASSUME NEW m \in mem', NEW n \in mem', m.tag = u, SamePage(m, n) PROVE m.id = n.id
    <3>1. n.tag = u
      BY <2>1, SamePageMeans DEF IsolationInv, TagsAreOwners
    <3> QED
      BY <2>1, <3>1 DEF OnePerPage
  <2> QED
    BY <2>1 DEF OnePerPage, SamePage
<1>7. WholeFiles(u)'
  <2>1. ASSUME NEW x \in files', x.user = u PROVE TakenUp(x)' \/ LeftAlone(x)'
    <3>1. CASE TakenUp(x)
      <4>1. \A p \in Page : PageOf(x, p) \notin job.todo
        BY <1>1, <2>1 DEF PageOf
      <4> QED
        BY <2>1, <3>1, <4>1 DEF TakenUp, Bears
    <3>2. CASE LeftAlone(x)
      BY <1>1, <2>1, <3>2 DEF LeftAlone, Bears
    <3> QED
      BY <2>1, <3>1, <3>2 DEF WholeFiles
  <2> QED
    BY <2>1 DEF WholeFiles
<1> QED
  BY <1>2, <1>3, <1>4, <1>5, <1>6, <1>7

\* A step that leaves the files, the index and the handler to themselves.
LEMMA QuietKeepsParts ==
  ASSUME NEW u \in User, Parts(u), UNCHANGED <<files, mem, disk, vec, job>>, HadInTime(u)'
  PROVE  Parts(u)'
BY DEF Parts, HalvesAgree, Persisted, NodesAreBacked, WorkIsNew, OnePerPage, WholeFiles,
   TakenUp, LeftAlone, Named, SamePage

\* A directory that comes to be, with some or all of its copies.
LEMMA SeedingKeepsParts ==
  ASSUME IsolationInv, IsolationInv', CommonInv, NEW u \in User, Parts(u),
         NEW v \in User, v \notin dirs, NEW F \in SUBSET Seeds(v), files' = files \cup F,
         job = Idle, job' = Idle, ask' = ask \/ ask' = NoAsk, UNCHANGED <<disk, vec>>,
         \A n : n.tag = u => (n \in mem' <=> n \in mem)
  PROVE  Parts(u)'
<1> USE AtRest
<1>1. \A x \in F : x.user = v
  BY DEF Seeds
<1>2. CASE u # v
  BY <1>1, <1>2, OthersKeepParts
<1>3. CASE u = v
  <2> USE DEF Parts
  <2>1. ~ \E x \in files : x.user = u
    BY <1>3 DEF CommonInv
  <2>2. ~ \E n \in mem : n.tag = u
    BY <2>1 DEF NodesAreBacked, Named
  <2>3. ask.user # u
    BY <1>3 DEF CommonInv
  <2>4. HalvesAgree(u)' /\ Persisted(u)' /\ NodesAreBacked(u)' /\ WorkIsNew(u)' /\ OnePerPage(u)'
    BY <2>2 DEF HalvesAgree, Persisted, NodesAreBacked, WorkIsNew, OnePerPage
  <2>5. HadInTime(u)'
    BY <2>3 DEF HadInTime
  <2>6. WholeFiles(u)'
    <3>1. ASSUME NEW x \in files', x.user = u PROVE LeftAlone(x)'
      BY <2>2, <3>1 DEF LeftAlone, Bears
    <3> QED
      BY <3>1 DEF WholeFiles
  <2> QED
    BY <2>4, <2>5, <2>6
<1> QED
  BY <1>2, <1>3

LEMMA UploadKeepsParts ==
  ASSUME IsolationInv, IsolationInv', CommonInv, NEW u \in User, Parts(u), ~Torn,
         NEW v \in User, NEW f \in File, Upload(v, f)
  PROVE  Parts(u)'
<1> USE AtRest
<1> DEFINE x == [user |-> v, file |-> f, ver |-> uploads + 1]
<1>1. /\ files' = (files \ Named(files, v, f)) \cup {x}
      /\ job' = [op |-> "upload", user |-> v, file |-> f, ver |-> uploads + 1,
                 todo |-> PagesOf({x})]
      /\ job = Idle /\ UNCHANGED <<dirs, mem, disk, vec>>
      /\ \/ ask.user # v /\ ask' = ask
         \/ /\ ask.user = v
            /\ ask' = [user |-> v, listed |-> ask.listed, had |-> ask.had \cup {f}]
  BY DEF Upload, Broken, IsolationInv, FullType, AskType
<1>2. /\ x.user = v /\ x.file = f /\ x.ver = uploads + 1
      /\ PagesOf({x}) = {PageOf(x, p) : p \in Page}
  BY DEF PagesOf, PageOf
<1>3. \A d \in PagesOf({x}) : d.user = v /\ d.file = f /\ d.ver = uploads + 1
  BY DEF PagesOf
<1> HIDE DEF x
<1>4. CASE u # v
  BY <1>1, <1>2, <1>4, OthersKeepParts DEF Named
<1>5. CASE u = v
  <2> USE <1>5 DEF Parts
  <2>1. HalvesAgree(u)' /\ Persisted(u)' /\ OnePerPage(u)'
    BY <1>1 DEF HalvesAgree, Persisted, OnePerPage, SamePage
  <2>2. NodesAreBacked(u)'
    <3>1. ASSUME NEW n \in mem, n.tag = u PROVE Named(files', u, n.file) # {}
      <4>1. PICK y \in files : y.user = u /\ y.file = n.file
        BY <1>1, <3>1 DEF NodesAreBacked, Named
      <4> QED
        BY <1>1, <1>2, <4>1 DEF Named
    <3> QED
      BY <1>1, <3>1 DEF NodesAreBacked
  <2>3. WorkIsNew(u)'
    <3>1. \A n \in mem : n.ver # uploads + 1
      BY CorpusAssumption DEF CommonInv, IsolationInv, FullType, NodeType
    <3>2. \A d \in job'.todo, n \in mem' : ~SamePage(n, d)
      BY <1>1, <1>3, <3>1, SamePageMeans
    <3> QED
      BY <3>2 DEF WorkIsNew, SamePage
  <2>4. HadInTime(u)'
    <3>1. CASE ask.user = v
      BY <1>1, <1>2, <3>1 DEF HadInTime
    <3>2. CASE ask.user # v
      BY <1>1, <3>2 DEF HadInTime
    <3> QED
      BY <3>1, <3>2
  <2>5. WholeFiles(u)'
    <3>1. \A y \in {x} : TakenUp(y)'
      BY <1>1, <1>2 DEF TakenUp
    <3>2. ASSUME NEW y \in files \ Named(files, v, f), y.user = u
          PROVE  TakenUp(y)' \/ LeftAlone(y)'
      <4>1. CASE TakenUp(y)
        BY <1>1, <4>1 DEF TakenUp
      <4>2. CASE LeftAlone(y)
        <5>1. y.file # f
          BY <3>2 DEF Named
        <5> QED
          BY <1>1, <1>3, <4>2, <5>1 DEF LeftAlone
      <4> QED
        BY <3>2, <4>1, <4>2 DEF WholeFiles
    <3> QED
      BY <1>1, <3>1, <3>2 DEF WholeFiles
  <2> QED
    BY <2>1, <2>2, <2>3, <2>4, <2>5
<1> QED
  BY <1>4, <1>5

LEMMA SyncKeepsParts ==
  ASSUME IsolationInv, IsolationInv', CommonInv, NEW u \in User, Parts(u),
         NEW v \in User, Sync(v)
  PROVE  Parts(u)'
<1> USE AtRest
<1>1. /\ job' = [op |-> "sync", user |-> v, file |-> NoFile, ver |-> 0,
                 todo |-> PagesOf(Pending(v))]
      /\ job = Idle /\ UNCHANGED <<ask, dirs, files, mem, disk, vec>>
  BY DEF Sync, Idle
<1>2. CASE u # v
  BY <1>1, <1>2, OthersKeepParts
<1>3. CASE u = v
  <2> USE <1>3 DEF Parts
  <2>1. HalvesAgree(u)' /\ Persisted(u)' /\ OnePerPage(u)' /\ HadInTime(u)'
    BY <1>1 DEF HalvesAgree, Persisted, OnePerPage, HadInTime, SamePage
  <2>2. NodesAreBacked(u)'
    BY <1>1 DEF NodesAreBacked, Named
  <2>3. WorkIsNew(u)'
    BY <1>1, PendingPages, SamePageMeans DEF WorkIsNew
  <2>4. WholeFiles(u)'
    <3>1. ASSUME NEW y \in files, y.user = u PROVE TakenUp(y)'
      <4>1. CASE y \in Pending(u)
        BY <1>1, <4>1, PendingPages DEF TakenUp
      <4>2. CASE y \notin Pending(u)
        <5>1. \E n \in mem : Bears(n, y)
          BY <3>1, <4>2 DEF Pending, UserNodes, Bears
        <5>2. TakenUp(y)
          BY <3>1, <5>1 DEF WholeFiles, LeftAlone
        <5> QED
          BY <1>1, <5>2 DEF TakenUp
      <4> QED
        BY <4>1, <4>2
    <3> QED
      BY <1>1, <3>1 DEF WholeFiles
  <2> QED
    BY <2>1, <2>2, <2>3, <2>4
<1> QED
  BY <1>2, <1>3

LEMMA InsertKeepsParts ==
  ASSUME IsolationInv, IsolationInv', CommonInv, NEW u \in User, Parts(u),
         NEW d \in job.todo, Insert(d)
  PROVE  Parts(u)'
<1>1. /\ job' = [op |-> job.op, user |-> job.user, file |-> job.file, ver |-> job.ver,
                 todo |-> job.todo \ {d}]
      /\ mem' = mem \cup {Node(d)} /\ vec' = vec \cup {Node(d)}
      /\ UNCHANGED <<ask, dirs, files, disk>>
  BY DEF Insert, IsolationInv, FullType, JobType
<1>2. /\ Node(d).tag = d.user /\ Node(d).user = d.user
      /\ Node(d).file = d.file /\ Node(d).ver = d.ver /\ Node(d).page = d.page
  BY DEF Node, IsolationInv, JobIsOwn
<1>3. d \in PageDoc /\ FileOf(d) \in files /\ job.op \in {"upload", "sync"} /\ d.user = job.user
  BY DEF CommonInv, IsolationInv, FullType, JobType, JobIsOwn
<1>4. /\ FileOf(d).user = d.user /\ FileOf(d).file = d.file /\ FileOf(d).ver = d.ver
  BY DEF FileOf
<1> HIDE DEF Node
<1>5. CASE job.user # u
  BY <1>1, <1>2, <1>3, <1>5, OthersKeepParts
<1>6. CASE job.user = u
  <2> USE DEF Parts
  <2>1. HalvesAgree(u)' /\ Persisted(u)'
    BY <1>1, <1>6 DEF HalvesAgree, Persisted
  <2>2. NodesAreBacked(u)'
    BY <1>1, <1>2, <1>3, <1>4, <1>6 DEF NodesAreBacked, Named
  <2>3. WorkIsNew(u)'
    <3>1. ASSUME NEW e \in job.todo \ {d} PROVE ~SamePage(Node(d), e)
      <4>1. e \in PageDoc
        BY DEF IsolationInv, FullType, JobType
      <4> QED
        BY <1>2, <1>3, <3>1, <4>1, SamePageMeans DEF PageDoc
    <3> QED
      BY <1>1, <3>1 DEF WorkIsNew, SamePage
  <2>4. HadInTime(u)'
    BY <1>1, <1>2, <1>3, <1>4 DEF HadInTime
  <2>5. OnePerPage(u)'
    <3>1. \A n \in mem : n.tag = u => ~SamePage(n, d)
      BY <1>3, <1>6 DEF WorkIsNew
    <3>2. \A n \in mem : n.tag = n.user
      BY DEF IsolationInv, TagsAreOwners
    <3>3. \A n \in mem : ~SamePage(n, Node(d)) /\ ~SamePage(Node(d), n)
      BY <1>2, <1>3, <1>6, <3>1, <3>2, SamePageMeans
    <3> QED
      BY <1>1, <3>3 DEF OnePerPage, SamePage
  <2>6. WholeFiles(u)'
    <3>1. ASSUME NEW y \in files, TakenUp(y) PROVE TakenUp(y)'
      <4>1. ASSUME NEW p \in Page, d = PageOf(y, p) PROVE Bears(Node(d), y) /\ Node(d).page = p
        BY <1>2, <4>1 DEF PageOf, Bears
      <4> QED
        BY <1>1, <3>1, <4>1 DEF TakenUp
    <3>2. ASSUME NEW y \in files, LeftAlone(y) PROVE LeftAlone(y)'
      BY <1>1, <1>2, <3>2 DEF LeftAlone, Bears
    <3> QED
      BY <1>1, <3>1, <3>2 DEF WholeFiles
  <2> QED
    BY <2>1, <2>2, <2>3, <2>4, <2>5, <2>6
<1> QED
  BY <1>5, <1>6

\* A question asked between a handler's work and the next is of files that are there.
LEMMA AskedInTime ==
  ASSUME IsolationInv, NEW u \in User, NodesAreBacked(u), job.op # "delete",
         ask' = Asked(u, mem), UNCHANGED <<files, mem>>
  PROVE  HadInTime(u)'
<1>1. ASSUME NEW n \in mem, n.tag = u PROVE n.file \in Asked(u, mem).had
  BY <1>1 DEF NodesAreBacked, Named, Asked
<1> QED
  BY <1>1 DEF HadInTime, Asked

LEMMA PersistKeepsParts ==
  ASSUME IsolationInv, IsolationInv', NEW u \in User, Parts(u), Persist
  PROVE  Parts(u)'
<1> USE AtRest
<1>1. /\ job' = Idle /\ disk' = mem /\ UNCHANGED <<dirs, files, mem, vec>>
      /\ ask' = ask \/ (job.op = "sync" /\ ask' = Asked(job.user, mem))
      /\ job.op \in {"upload", "sync", "deleted"} /\ job.todo = {}
  BY DEF Persist, IsolationInv, PersistIsLast
<1>2. HadInTime(u)'
  <2>1. CASE ask' = ask
    BY <1>1, <2>1 DEF Parts, HadInTime
  <2>2. CASE ask' = Asked(u, mem)
    BY <1>1, <2>2, AskedInTime DEF Parts
  <2>3. CASE ask' = Asked(job.user, mem) /\ job.user # u
    BY <2>3 DEF HadInTime, Asked
  <2> QED
    BY <1>1, <2>1, <2>2, <2>3
<1>3. CASE job.user # u
  BY <1>1, <1>2, <1>3, OthersKeepParts DEF Parts, Persisted
<1>4. CASE job.user = u
  <2> USE DEF Parts
  <2>1. HalvesAgree(u)' /\ Persisted(u)' /\ WorkIsNew(u)' /\ OnePerPage(u)'
    BY <1>1 DEF HalvesAgree, Persisted, WorkIsNew, OnePerPage, SamePage
  <2>2. NodesAreBacked(u)'
    BY <1>1 DEF NodesAreBacked, Named
  <2>3. WholeFiles(u)'
    BY <1>1 DEF WholeFiles, TakenUp, LeftAlone
  <2> QED
    BY <1>2, <2>1, <2>2, <2>3
<1> QED
  BY <1>3, <1>4

LEMMA ChatKeepsParts ==
  ASSUME IsolationInv, NEW u \in User, Parts(u), NEW v \in User, Chat(v)
  PROVE  Parts(u)'
<1>1. ask' = Asked(v, mem) /\ job = Idle /\ UNCHANGED <<files, mem, disk, vec, job>>
  BY DEF Chat
<1>2. HadInTime(u)'
  <2>1. CASE u = v
    BY <1>1, <2>1, AtRest, AskedInTime DEF Parts
  <2>2. CASE u # v
    BY <1>1, <2>2 DEF HadInTime, Asked
  <2> QED
    BY <2>1, <2>2
<1> QED
  BY <1>1, <1>2, QuietKeepsParts

LEMMA DeleteKeepsParts ==
  ASSUME IsolationInv, IsolationInv', NEW u \in User, Parts(u),
         NEW v \in User, NEW f \in File, Delete(v, f)
  PROVE  Parts(u)'
<1> USE AtRest
<1>1. /\ job = Idle /\ files' = files \ Named(files, v, f)
      /\ UNCHANGED <<ask, dirs, mem, disk, vec>>
      /\ \/ Stale(v, f) = {} /\ job' = Idle
         \/ job' = [op |-> "delete", user |-> v, file |-> f, ver |-> 0, todo |-> {}]
  BY DEF Delete, Idle
<1>2. job'.todo = {} /\ job'.op \notin {"upload", "sync"} /\ job'.user \in {NoUser, v}
  BY <1>1
<1>3. CASE u # v
  BY <1>1, <1>2, <1>3, OthersKeepParts DEF Named
<1>4. CASE u = v
  <2> USE <1>4 DEF Parts
  <2>1. HalvesAgree(u)' /\ Persisted(u)' /\ WorkIsNew(u)' /\ OnePerPage(u)' /\ HadInTime(u)'
    BY <1>1, <1>2 DEF HalvesAgree, Persisted, WorkIsNew, OnePerPage, HadInTime, SamePage
  <2>2. NodesAreBacked(u)'
    <3>1. ASSUME NEW n \in mem, n.tag = u, Named(files', u, n.file) = {}
          PROVE  job'.op = "delete" /\ job'.user = u /\ n.file = job'.file
      <4>1. n.file = f /\ n \in Stale(v, f)
        BY <1>1, <3>1 DEF NodesAreBacked, Named, Stale, UserNodes
      <4> QED
        BY <1>1, <4>1
    <3> QED
      BY <1>1, <3>1 DEF NodesAreBacked
  <2>3. WholeFiles(u)'
    BY <1>1, <1>2 DEF WholeFiles, TakenUp, LeftAlone
  <2> QED
    BY <2>1, <2>2, <2>3
<1> QED
  BY <1>3, <1>4

\* A deletion of the nodes that fails has cut its user.
LEMMA DeleteNodesKeepsParts ==
  ASSUME IsolationInv, IsolationInv', CommonInv, NEW u \in User, Parts(u),
         DeleteNodes, u \notin cut'
  PROVE  Parts(u)'
<1> DEFINE gone == Stale(job.user, job.file)
<1>1. /\ job.op = "delete" /\ UNCHANGED <<ask, dirs, files, disk>>
      /\ job' = [op |-> "deleted", user |-> job.user, file |-> job.file, ver |-> job.ver,
                 todo |-> job.todo]
      /\ vec' \in {vec, vec \ gone} /\ mem' \in {mem, mem \ gone}
  BY DEF DeleteNodes, IsolationInv, FullType, JobType
<1>2. job.todo = {} /\ Named(files, job.user, job.file) = {}
  BY <1>1 DEF CommonInv
<1>3. gone = {n \in mem : n.tag = job.user /\ n.file = job.file}
  BY DEF Stale, UserNodes
<1>4. CASE job.user # u
  <2>1. \A n : n.tag = u => n \notin gone
    BY <1>3, <1>4
  <2> HIDE DEF gone
  <2> QED
    BY <1>1, <1>4, <2>1, OthersKeepParts
<1>5. CASE job.user = u
  <2> USE DEF Parts
  <2>1. vec' = vec \ gone /\ mem' = mem \ gone
    BY <1>5 DEF DeleteNodes
  <2> HIDE DEF gone
  <2>2. HalvesAgree(u)' /\ Persisted(u)' /\ WorkIsNew(u)' /\ OnePerPage(u)' /\ HadInTime(u)'
    BY <1>1, <1>2, <1>5, <2>1
       DEF HalvesAgree, Persisted, WorkIsNew, OnePerPage, HadInTime, SamePage
  <2>3. NodesAreBacked(u)'
    BY <1>1, <1>3, <1>5, <2>1 DEF NodesAreBacked, Named
  <2>4. WholeFiles(u)'
    <3>1. ASSUME NEW y \in files, y.user = u, NEW n \in mem, Bears(n, y) PROVE n \in mem'
      BY <1>2, <1>3, <1>5, <2>1, <3>1 DEF Bears, Named
    <3>2. \A y \in files : y.user = u /\ TakenUp(y) => TakenUp(y)'
      BY <1>1, <1>2, <3>1 DEF TakenUp
    <3>3. \A y \in files : LeftAlone(y) => LeftAlone(y)'
      BY <1>1, <1>2, <2>1 DEF LeftAlone
    <3> QED
      BY <1>1, <3>2, <3>3 DEF WholeFiles
  <2> QED
    BY <2>2, <2>3, <2>4
<1> QED
  BY <1>4, <1>5

\* Who is cut stays so, so what is kept need only be shown of those who are not.
LEMMA StepKeepsUncut ==
  ASSUME IsolationInv, UncutInv, [Next]_vars PROVE UncutInv'
<1>1. IsolationInv' /\ CommonInv'
  BY StepKeepsInv, StepKeepsCommon DEF UncutInv
<1>2. cut \subseteq cut'
  BY DEF Next, vars, UserDir, Sync, Chat, Upload, Delete, SeedingStops, Insert, InsertFails,
     PersistBegins, Persist, Retrieve, DeleteNodes, Crash, Dies, IsolationInv, FullType
<1> SUFFICES ASSUME NEW u \in User, u \notin cut' PROVE Parts(u)'
  BY <1>1 DEF UncutInv
<1>3. Parts(u) /\ CommonInv
  BY <1>2 DEF UncutInv
<1>4. job.op = "idle" => ~Torn
  BY <1>2, <1>3 DEF CommonInv
<1> USE <1>1, <1>3, AtRest
<1>5. ASSUME NEW v \in User, UserDir(v) PROVE Parts(u)'
  <2>1. v \notin dirs /\ files' = files \cup Seeds(v) /\ job = Idle
        /\ UNCHANGED <<job, ask, mem, disk, vec>>
    BY <1>5 DEF UserDir
  <2> QED
    BY <2>1, SeedingKeepsParts
<1>6. ASSUME NEW v \in User, NEW F \in SUBSET Seeds(v), SeedingStops(v, F) PROVE Parts(u)'
  <2>1. v \notin dirs /\ files' = files \cup F /\ job = Idle /\ job' = Idle
        /\ (ask' = ask \/ ask' = NoAsk) /\ UNCHANGED <<disk, vec>>
        /\ (mem' = mem \/ mem' = disk)
    BY <1>4, <1>6 DEF SeedingStops, Restart
  <2>2. \A n : n.tag = u => (n \in mem' <=> n \in mem)
    BY <2>1 DEF Parts, Persisted
  <2> QED
    BY <2>1, <2>2, SeedingKeepsParts
<1>7. ASSUME NEW v \in User, NEW f \in File, Upload(v, f) PROVE Parts(u)'
  <2>1. ~Torn
    BY <1>4, <1>7 DEF Upload
  <2> QED
    BY <1>7, <2>1, UploadKeepsParts
<1>8. ASSUME NEW v \in User, Sync(v) PROVE Parts(u)'
  BY <1>8, SyncKeepsParts
<1>9. ASSUME NEW d \in job.todo, Insert(d) PROVE Parts(u)'
  BY <1>9, InsertKeepsParts
<1>10. ASSUME NEW d \in job.todo, InsertFails(d) PROVE Parts(u)'
  <2>1. job.user # u /\ job' = Idle /\ UNCHANGED <<ask, files, mem, disk>>
        /\ vec' \in {vec, vec \cup {Node(d)}} /\ Node(d).tag = job.user
    BY <1>10 DEF InsertFails, Node
  <2> QED
    BY <2>1, OthersKeepParts
<1>11. CASE PersistBegins
  <2>1. UNCHANGED <<ask, files, mem, disk, vec, job>>
    BY <1>11 DEF PersistBegins
  <2> QED
    BY <2>1, QuietKeepsParts DEF Parts, HadInTime
<1>12. CASE Persist
  BY <1>12, PersistKeepsParts
<1>13. ASSUME NEW v \in User, Chat(v) PROVE Parts(u)'
  BY <1>13, ChatKeepsParts
<1>14. ASSUME NEW v \in User, NEW f \in File, Delete(v, f) PROVE Parts(u)'
  BY <1>14, DeleteKeepsParts
<1>15. CASE DeleteNodes
  BY <1>15, DeleteNodesKeepsParts
<1>16. CASE Crash
  <2>1. ~Torn' /\ job.user # u
    BY <1>16 DEF Crash, Dies
  <2>2. job' = Idle /\ ask' = NoAsk /\ UNCHANGED <<files, vec>> /\ mem' = disk'
        /\ disk' \in {disk, mem}
    BY <1>16, <2>1 DEF Crash, Dies, Restart
  <2>3. \A n : n.tag = u => (n \in mem <=> n \in disk)
    BY <2>1 DEF Parts, Persisted
  <2> QED
    BY <2>1, <2>2, <2>3, OthersKeepParts
<1>17. CASE Retrieve \/ UNCHANGED vars
  <2>1. UNCHANGED <<files, mem, disk, vec, job>> /\ (ask' = ask \/ ask' = NoAsk)
    BY <1>17 DEF Retrieve, vars
  <2>2. HadInTime(u)'
    BY <2>1 DEF Parts, HadInTime
  <2> QED
    BY <2>1, <2>2, QuietKeepsParts
<1> QED
  BY <1>5, <1>6, <1>7, <1>8, <1>9, <1>10, <1>11, <1>12, <1>13, <1>14, <1>15, <1>16, <1>17
     DEF Next

LEMMA UncutInvariance == Spec => []UncutInv
<1>1. IsolationInv /\ UncutInv /\ [Next]_vars => UncutInv'
  BY StepKeepsUncut
<1> QED
  BY <1>1, InitialUncut, Invariance, PTL DEF Spec

----------------------------------------------------------------------------
\* Deletions do what is said of them for every user none of whose own requests was
\* cut: whoever else fails and whatever restarts, what can be cited between requests
\* has a file of its name behind it.
THEOREM Backing == Spec => []CitationsAreBacked
<1>1. IsolationInv /\ UncutInv => CitationsAreBacked
  <2> SUFFICES ASSUME IsolationInv, UncutInv, NEW u \in User \ cut, job = Idle,
                      NEW n \in Retrievable(u)
               PROVE  Named(files, u, n.file) # {}
    BY DEF CitationsAreBacked, BackedFor
  <2>1. n \in mem /\ n.tag = u
    BY DEF Retrievable, UserNodes, DenseNodes, UncutInv, Parts, HalvesAgree
  <2> QED
    BY <2>1, AtRest DEF UncutInv, Parts, NodesAreBacked
<1> QED
  BY <1>1, Invariance, UncutInvariance, PTL

\* A query that waits while files are deleted cites no name that its user had no
\* file of at any time since the question, if no request of that user was cut.
THEOREM Freshness == Spec => []CitesNothingOlder
<1>1. IsolationInv /\ UncutInv => CitesNothingOlder
  <2> SUFFICES ASSUME IsolationInv, UncutInv, ask.user \notin cut, NEW n \in Citable
               PROVE  n.file \in ask.had
    BY DEF CitesNothingOlder
  <2>1. ask.user \in User
    BY CorpusAssumption DEF Citable, DenseNodes, NoAsk, IsolationInv, FullType, NodeType
  <2> QED
    BY <2>1 DEF UncutInv, Parts, HadInTime, HalvesAgree, Citable, DenseNodes
<1> QED
  BY <1>1, Invariance, UncutInvariance, PTL

\* No order of uploads, syncs, deletions and restarts between requests embeds a page
\* of one content twice, for a user none of whose own requests was cut.
THEOREM NoDuplicates == Spec => []NoDuplicateVectors
<1>1. IsolationInv /\ UncutInv => NoDuplicateVectors
  <2> SUFFICES ASSUME IsolationInv, UncutInv, NEW m \in vec, NEW n \in vec,
                      m.tag \notin cut, SamePage(m, n)
               PROVE  m.id = n.id
    BY DEF NoDuplicateVectors
  <2>1. m.tag \in User /\ m.tag = n.tag
    BY SamePageMeans DEF IsolationInv, FullType, NodeType, TagsAreOwners
  <2> QED
    BY <2>1 DEF UncutInv, Parts, HalvesAgree, OnePerPage
<1> QED
  BY <1>1, Invariance, UncutInvariance, PTL

\* When a sync ends of a user none of whose requests was cut, both halves of the
\* retriever can find every page of every file the user has.
THEOREM SyncIsComplete == Spec => SyncIndexesAll
<1>1. IsolationInv /\ UncutInv /\ [Next]_vars =>
        [job.op = "sync" /\ job.user \notin cut /\ Torn /\ ~Torn' =>
           \A d \in PagesOf({x \in files : x.user = job.user}) :
             \E n \in mem \cap vec : <<n.file, n.page>> = <<d.file, d.page>> /\ n.tag = d.user]_vars
  <2> SUFFICES ASSUME IsolationInv, UncutInv, job.op = "sync", job.user \notin cut, Torn,
                      NEW d \in PagesOf({x \in files : x.user = job.user})
               PROVE  \E n \in mem \cap vec : /\ <<n.file, n.page>> = <<d.file, d.page>>
                                              /\ n.tag = d.user
    OBVIOUS
  <2>1. PICK x \in files, p \in Page :
          x.user = job.user /\ d.user = x.user /\ d.file = x.file /\ d.page = p
    BY DEF PagesOf
  <2>2. job.user \in User /\ job.todo = {}
    BY DEF IsolationInv, FullType, PersistIsLast
  <2>3. TakenUp(x)
    BY <2>1, <2>2 DEF UncutInv, Parts, WholeFiles, LeftAlone
  <2> QED
    BY <2>1, <2>2, <2>3 DEF TakenUp, Bears, UncutInv, Parts, HalvesAgree
<1> QED
  BY <1>1, Invariance, UncutInvariance, PTL DEF Spec, SyncIndexesAll
============================================================================
