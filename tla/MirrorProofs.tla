---------------------------- MODULE MirrorProofs ----------------------------
(***************************************************************************)
(* Proofs about module Mirror: its types, its inductive invariant, that    *)
(* nothing changes a mirror while somebody reads it, and that the locks of *)
(* a repository never deadlock.                                            *)
(***************************************************************************)
EXTENDS Mirror, TLAPS

(* The type invariant, by the part of the state it speaks of.              *)
DatabaseOK ==
    /\ row \in BOOLEAN /\ synced \in BOOLEAN
    /\ table \subseteq [id : JobId, kind : JobKind, status : {"queued", "running"}]
    /\ lastJob \in JobId
    /\ \A q, o \in table : q.id <= lastJob /\ (q.id = o.id => q = o)
FilesOK ==
    /\ dir \in DirState
    /\ staging \in [JobId -> Staged]
    /\ cache \in BOOLEAN
LockOK ==
    lock \in [writer : Thread \cup {NoOne}, readers : SUBSET Thread,
              sizer : Thread \cup {NoOne}]
JobRow ==
    [pc : {"idle", "claimed", "locking", "probe", "cloning", "rename",
           "fetching", "sync", "checking", "done"},
     id : 0 .. MaxJobId, kind : JobKind,
     result : {"none", "success", "failed", "requeue", "throw"},
     killed : BOOLEAN]
ClientRow ==
    [pc : {"idle", "dropping", "locking", "inside", "removing", "answered"},
     kind : Request, held : 0 .. 2,
     reply : {"none", "done", "gone", "error", "lost"}]
ThreadsOK == job \in JobRow /\ client \in [Client -> ClientRow]
ProcessOK == up \in BOOLEAN /\ stopping \in BOOLEAN

LEMMA TypeParts ==
    TypeOK <=> DatabaseOK /\ FilesOK /\ LockOK /\ ThreadsOK /\ ProcessOK
BY DEF TypeOK, DatabaseOK, FilesOK, LockOK, JobRow, ClientRow, ThreadsOK, ProcessOK

(* Taking and releasing locks.                                             *)
LEMMA LockTypes ==
    ASSUME LockOK, NEW t \in Thread,
           Shared(t) \/ Exclusive(t) \/ SizeCache(t) \/ Release(t)
    PROVE  LockOK'
<1>1. CASE Shared(t)
  BY <1>1 DEF Shared, LockOK
<1>2. CASE Exclusive(t)
  BY <1>2 DEF Exclusive, LockOK
<1>3. CASE SizeCache(t)
  BY <1>3 DEF SizeCache, LockOK
<1>4. CASE Release(t)
  BY <1>4 DEF Release, LockOK
<1> QED BY <1>1, <1>2, <1>3, <1>4

LEMMA ReturnTypes ==
    ASSUME LockOK, ThreadsOK, NEW result \in {"success", "failed", "requeue", "throw"},
           NEW killed \in BOOLEAN, Return(result, killed)
    PROVE  LockOK' /\ job' \in JobRow
<1>1. LockOK'
  BY LockTypes DEF Return, Thread
<1>2. job' \in JobRow
  BY DEF Return, ThreadsOK, JobRow
<1> QED BY <1>1, <1>2

(* Moving the job thread.                                                  *)
LEMMA JobMoves ==
    ASSUME ThreadsOK
    PROVE  /\ \A pc \in {"locking", "probe", "cloning", "rename", "fetching",
                         "sync", "checking"} : [job EXCEPT !.pc = pc] \in JobRow
           /\ Idle \in JobRow
           /\ \A result \in {"failed", "requeue"} :
                 [job EXCEPT !.pc = "done", !.result = result] \in JobRow
<1>1. job \in JobRow
  BY DEF ThreadsOK
<1>2. Idle \in JobRow
  BY BoundAssumption DEF Idle, Standing, JobRow, JobKind
<1> QED BY <1>1, <1>2 DEF JobRow

LEMMA JobTypes ==
    ASSUME DatabaseOK, FilesOK, LockOK, ThreadsOK, ProcessOK, BodyFitsMirror, JobStep
    PROVE  DatabaseOK' /\ FilesOK' /\ LockOK' /\ ThreadsOK' /\ ProcessOK'
<1> USE DEF At
<1>1. CASE Claim
  <2>1. PICK q \in table :
          /\ table' = (table \ {q}) \cup {[q EXCEPT !.status = "running"]}
          /\ job' = Standing("claimed", q.id, q.kind)
    BY <1>1 DEF Claim
  <2>2. q \in [id : JobId, kind : JobKind, status : {"queued", "running"}]
    BY DEF DatabaseOK
  <2>3. job' \in JobRow
    BY <2>1, <2>2, BoundAssumption DEF Standing, JobRow, JobId
  <2>4. DatabaseOK'
    BY <1>1, <2>1, <2>2 DEF Claim, DatabaseOK
  <2> QED BY <1>1, <2>3, <2>4 DEF Claim, process, FilesOK, LockOK, ThreadsOK, ProcessOK
<1>2. CASE ReadRow
  <2>1. job' \in JobRow
    BY <1>2, JobMoves DEF ReadRow
  <2> QED BY <1>2, <2>1
          DEF ReadRow, database, process, DatabaseOK, FilesOK, LockOK, ThreadsOK, ProcessOK
<1>3. CASE LockMirror
  <2>1. LockOK'
    BY <1>3, LockTypes DEF LockMirror, Thread
  <2> QED BY <1>3, <2>1, JobMoves
          DEF LockMirror, database, process, DatabaseOK, FilesOK, ThreadsOK, ProcessOK
<1>4. CASE Unavailable \/ EnumerateRefsFails
  <2>1. PICK killed \in BOOLEAN : Return("failed", killed)
    BY <1>4 DEF Unavailable, EnumerateRefsFails, ProcessOK
  <2> QED BY <1>4, <2>1, ReturnTypes
          DEF Unavailable, EnumerateRefsFails, database, process, DatabaseOK, FilesOK, ThreadsOK, ProcessOK
<1>5. CASE StartFetch \/ FetchSucceeds \/ StartClone \/ CloneSucceeds \/ Rename \/ Check
  <2>1. job' \in JobRow
    BY <1>5, JobMoves DEF StartFetch, FetchSucceeds, StartClone, CloneSucceeds, Rename, Check
  <2>2. FilesOK'
    <3>1. CASE Rename
      BY <1>5, <3>1 DEF Rename, BodyFitsMirror, JobBody, FilesOK, DirState, Staged
    <3>2. CASE StartFetch \/ FetchSucceeds \/ Check
      BY <1>5, <3>2 DEF StartFetch, FetchSucceeds, Fetched, Check, FilesOK, DirState
    <3>3. CASE StartClone \/ CloneSucceeds
      BY <1>5, <3>3 DEF StartClone, CloneSucceeds, FilesOK, Staged
    <3> QED BY <1>5, <3>1, <3>2, <3>3
  <2> QED BY <1>5, <2>1, <2>2
          DEF StartFetch, FetchSucceeds, StartClone, CloneSucceeds, Rename, Check,
              database, process, DatabaseOK, LockOK, ThreadsOK, ProcessOK
<1>6. CASE FetchFails \/ CloneFails \/ RenameFails \/ RemoteFails \/ CheckEnds \/ Throw
  <2>1. PICK result \in {"success", "failed", "requeue", "throw"} : Return(result, FALSE)
    BY <1>6 DEF FetchFails, CloneFails, RenameFails, RemoteFails, CheckEnds, Throw
  <2>2. FilesOK'
    BY <1>6 DEF FetchFails, Fetched, CloneFails, RenameFails, Unstage, RemoteFails, CheckEnds, Throw,
                FilesOK, DirState, Staged
  <2> QED BY <1>6, <2>1, <2>2, ReturnTypes
          DEF FetchFails, CloneFails, RenameFails, RemoteFails, CheckEnds, Throw,
              database, process, DatabaseOK, ThreadsOK, ProcessOK
<1>7. CASE Synchronize
  <2>1. PICK result \in {"success", "failed", "requeue", "throw"} : Return(result, FALSE)
    BY <1>7 DEF Synchronize
  <2> QED BY <1>7, <2>1, ReturnTypes
          DEF Synchronize, process, DatabaseOK, FilesOK, ThreadsOK, ProcessOK
<1>8. CASE Settle
  <2>1. DatabaseOK'
    <3>1. CASE table' = {q \in table : q.id # job.id}
      BY <1>8, <3>1 DEF Settle, DatabaseOK
    <3>2. CASE table' = {IF q.id = job.id THEN [q EXCEPT !.status = "queued"] ELSE q :
                           q \in table}
      <4>1. \A q \in table :
              /\ q \in [id : JobId, kind : JobKind, status : {"queued", "running"}]
              /\ [q EXCEPT !.status = "queued"] \in
                   [id : JobId, kind : JobKind, status : {"queued", "running"}]
              /\ [q EXCEPT !.status = "queued"].id = q.id
        BY DEF DatabaseOK
      <4> QED BY <1>8, <3>2, <4>1 DEF Settle, DatabaseOK
    <3>3. CASE UNCHANGED table
      BY <1>8, <3>3 DEF Settle, DatabaseOK
    <3> QED BY <1>8, <3>1, <3>2, <3>3 DEF Settle
  <2> QED BY <1>8, <2>1, JobMoves DEF Settle, process, FilesOK, LockOK, ThreadsOK, ProcessOK
<1> QED BY <1>1, <1>2, <1>3, <1>4, <1>5, <1>6, <1>7, <1>8 DEF JobStep

(* Moving a request.                                                       *)
LEMMA ClientMoves ==
    ASSUME ThreadsOK, NEW c \in Client,
           \/ \E pc \in {"locking", "removing"} : Move(c, pc)
           \/ \E reply \in {"done", "gone", "error", "lost"} : Answer(c, reply)
           \/ \E kind \in Request, pc \in {"dropping", "locking"} :
                client' = [client EXCEPT ![c] = [@ EXCEPT !.kind = kind, !.pc = pc]]
           \/ \E held \in 0 .. 2, pc \in {"locking", "inside"} :
                client' = [client EXCEPT ![c] = [@ EXCEPT !.held = held, !.pc = pc]]
    PROVE  client' \in [Client -> ClientRow]
<1>1. client \in [Client -> ClientRow]
  BY DEF ThreadsOK
<1>2. CASE \E pc \in {"locking", "removing"} : Move(c, pc)
  BY <1>1, <1>2 DEF Move, ClientRow
<1>3. CASE \E reply \in {"done", "gone", "error", "lost"} : Answer(c, reply)
  BY <1>1, <1>3 DEF Answer, ClientRow
<1>4. CASE \E kind \in Request, pc \in {"dropping", "locking"} :
             client' = [client EXCEPT ![c] = [@ EXCEPT !.kind = kind, !.pc = pc]]
  BY <1>1, <1>4 DEF ClientRow
<1>5. CASE \E held \in 0 .. 2, pc \in {"locking", "inside"} :
             client' = [client EXCEPT ![c] = [@ EXCEPT !.held = held, !.pc = pc]]
  BY <1>1, <1>5 DEF ClientRow
<1> QED BY <1>2, <1>3, <1>4, <1>5

LEMMA ServeTypes ==
    ASSUME DatabaseOK, FilesOK, LockOK, ThreadsOK, ProcessOK, NEW c \in Client,
           Serve(c) \/ \E kind \in Request : Begin(c, kind)
    PROVE  DatabaseOK' /\ FilesOK' /\ LockOK' /\ ThreadsOK' /\ ProcessOK'
<1> USE DEF In
<1>1. ASSUME NEW kind \in Request, Begin(c, kind)
      PROVE  DatabaseOK' /\ FilesOK' /\ LockOK' /\ ThreadsOK' /\ ProcessOK'
  <2>1. client' \in [Client -> ClientRow]
    <3>1. PICK pc \in {"dropping", "locking"} :
            client' = [client EXCEPT ![c] = [@ EXCEPT !.kind = kind, !.pc = pc]]
      BY <1>1 DEF Begin
    <3> QED BY <3>1, ClientMoves
  <2> QED BY <1>1, <2>1 DEF Begin, database, process, DatabaseOK, FilesOK, LockOK, ThreadsOK, ProcessOK
<1>2. CASE DropRow(c)
  <2>1. client' \in [Client -> ClientRow]
    BY <1>2, ClientMoves DEF DropRow
  <2> QED BY <1>2, <2>1 DEF DropRow, process, DatabaseOK, FilesOK, LockOK, ThreadsOK, ProcessOK
<1>3. CASE Lock(c)
  <2>1. LockOK'
    BY <1>3, LockTypes DEF Lock, Thread
  <2>2. client[c].kind \in Request /\ client[c].held \in 0 .. 2
    BY DEF ThreadsOK, ClientRow
  <2>3. client' \in [Client -> ClientRow]
    <3>1. client[c].held + 1 \in 0 .. 2
      <4>1. \A kind \in Request : DOMAIN Locks(kind) \subseteq 0 .. 2
        BY DEF Locks, Request
      <4> QED BY <1>3, <2>2, <4>1 DEF Lock
    <3>2. PICK pc \in {"locking", "inside"} :
            client' = [client EXCEPT ![c] = [@ EXCEPT !.held = client[c].held + 1, !.pc = pc]]
      BY <1>3 DEF Lock
    <3>3. PICK held \in 0 .. 2 : held = client[c].held + 1
      BY <3>1
    <3> QED BY <3>2, <3>3, ClientMoves
  <2> QED BY <1>3, <2>1, <2>3 DEF Lock, database, process, DatabaseOK, FilesOK, ThreadsOK, ProcessOK
<1>4. CASE CacheIsFresh(c) \/ Read(c) \/ Measure(c) \/ RemoveRest(c) \/ DeletionFails(c)
  <2>1. LockOK'
    BY <1>4, LockTypes DEF CacheIsFresh, Read, Measure, RemoveRest, DeletionFails, Thread
  <2>2. client' \in [Client -> ClientRow]
    <3>1. PICK reply \in {"done", "gone", "error", "lost"} : Answer(c, reply)
      BY <1>4 DEF CacheIsFresh, Read, Measure, RemoveRest, DeletionFails
    <3> QED BY <3>1, ClientMoves
  <2>3. FilesOK'
    BY <1>4 DEF CacheIsFresh, Read, Measure, RemoveRest, DeletionFails, FilesOK, DirState
  <2> QED BY <1>4, <2>1, <2>2, <2>3
          DEF CacheIsFresh, Read, Measure, RemoveRest, DeletionFails, database, process,
              DatabaseOK, ThreadsOK, ProcessOK
<1>5. CASE RemoveCache(c) \/ RemoveSome(c)
  <2>1. client' \in [Client -> ClientRow]
    BY <1>5, ClientMoves DEF RemoveCache, RemoveSome, ThreadsOK
  <2>2. FilesOK'
    BY <1>5 DEF RemoveCache, RemoveSome, FilesOK, DirState
  <2> QED BY <1>5, <2>1, <2>2
          DEF RemoveCache, RemoveSome, database, process, DatabaseOK, LockOK, ThreadsOK, ProcessOK
<1> QED BY <1>1, <1>2, <1>3, <1>4, <1>5 DEF Serve

LEMMA ProcessTypes ==
    ASSUME DatabaseOK, FilesOK, LockOK, ThreadsOK, ProcessOK,
           \/ RequestShutdown \/ StopCleanly \/ Crash \/ Start
           \/ \E kind \in JobKind : RequestJob(kind)
    PROVE  DatabaseOK' /\ FilesOK' /\ LockOK' /\ ThreadsOK' /\ ProcessOK'
<1>1. ASSUME NEW kind \in JobKind, RequestJob(kind)
      PROVE  DatabaseOK' /\ FilesOK' /\ LockOK' /\ ThreadsOK' /\ ProcessOK'
  <2>1. lastJob' \in JobId /\ lastJob' = lastJob + 1
    BY <1>1, BoundAssumption DEF RequestJob, DatabaseOK, JobId
  <2>2. /\ Queued(lastJob', kind) \in [id : JobId, kind : JobKind, status : {"queued", "running"}]
        /\ Queued(lastJob', kind).id = lastJob'
    BY <2>1 DEF Queued
  <2>3. \A q \in table : q.id \in JobId /\ q.id <= lastJob
    BY DEF DatabaseOK
  <2>4. table' = table \cup {Queued(lastJob', kind)} /\ UNCHANGED <<row, synced>>
    BY <1>1, <2>1 DEF RequestJob
  <2>5. DatabaseOK'
    <3>1. \A q, o \in table' : q.id <= lastJob' /\ (q.id = o.id => q = o)
      BY <2>1, <2>2, <2>3, <2>4 DEF DatabaseOK, JobId
    <3> QED BY <2>1, <2>2, <2>4, <3>1 DEF DatabaseOK
  <2> QED BY <1>1, <2>5 DEF RequestJob, process, FilesOK, LockOK, ThreadsOK, ProcessOK
<1>2. CASE RequestShutdown
  BY <1>2 DEF RequestShutdown, database, DatabaseOK, FilesOK, LockOK, ThreadsOK, ProcessOK
<1>3. CASE StopCleanly \/ Crash
  <2>1. Down
    BY <1>3 DEF StopCleanly, Crash
  <2>2. \A c \in Client : [client[c] EXCEPT !.pc = "answered", !.reply = "lost"] \in ClientRow
    BY DEF ThreadsOK, ClientRow
  <2>3. ThreadsOK'
    BY <2>1, <2>2, JobMoves DEF Down, ThreadsOK
  <2>4. LockOK' /\ FilesOK'
    BY <2>1 DEF Down, Free, LockOK, Fetched, FilesOK, DirState
  <2> QED BY <2>1, <2>3, <2>4 DEF Down, database, DatabaseOK, ProcessOK
<1>4. CASE Start
  <2>1. \A q \in table :
          /\ [q EXCEPT !.status = "queued"] \in
               [id : JobId, kind : JobKind, status : {"queued", "running"}]
          /\ [q EXCEPT !.status = "queued"].id = q.id
    BY DEF DatabaseOK
  <2>2. DatabaseOK'
    BY <1>4, <2>1 DEF Start, DatabaseOK
  <2>3. FilesOK'
    BY <1>4 DEF Start, CleanUp, FilesOK, Staged
  <2> QED BY <1>4, <2>2, <2>3 DEF Start, LockOK, ThreadsOK, ProcessOK
<1> QED BY <1>1, <1>2, <1>3, <1>4

LEMMA InitTypes == Init => TypeOK
<1> SUFFICES ASSUME Init PROVE TypeOK
  OBVIOUS
<1>1. DatabaseOK
  <2>1. 1 \in JobId
    BY BoundAssumption DEF JobId
  <2>2. /\ Queued(1, "clone") \in [id : JobId, kind : JobKind, status : {"queued", "running"}]
        /\ Queued(1, "clone").id = 1
    BY <2>1 DEF Queued, JobKind
  <2>3. table = {Queued(1, "clone")} /\ row = TRUE /\ synced = FALSE /\ lastJob = 1
    BY DEF Init
  <2>4. \A q, o \in table : q.id <= lastJob /\ (q.id = o.id => q = o)
    BY <2>2, <2>3
  <2> QED BY <2>1, <2>2, <2>3, <2>4 DEF DatabaseOK
<1>2. FilesOK /\ LockOK
  BY DEF Init, FilesOK, LockOK, Free, DirState, Staged
<1>3. ThreadsOK
  BY BoundAssumption DEF Init, ThreadsOK, JobRow, ClientRow, Idle, Standing, JobKind, Request
<1> QED BY <1>1, <1>2, <1>3, TypeParts DEF Init, ProcessOK

LEMMA StepTypes == TypeOK /\ Safety /\ [Next]_vars => TypeOK'
<1> SUFFICES ASSUME TypeOK, Safety, [Next]_vars PROVE TypeOK'
  OBVIOUS
<1>0. DatabaseOK /\ FilesOK /\ LockOK /\ ThreadsOK /\ ProcessOK
  BY TypeParts
<1>1. SUFFICES DatabaseOK' /\ FilesOK' /\ LockOK' /\ ThreadsOK' /\ ProcessOK'
  BY DEF TypeOK, DatabaseOK, FilesOK, LockOK, JobRow, ClientRow, ThreadsOK, ProcessOK
<1>2. CASE UNCHANGED vars
  BY <1>0, <1>2 DEF vars, DatabaseOK, FilesOK, LockOK, ThreadsOK, ProcessOK
<1>3. CASE Next
  BY <1>0, <1>3, JobTypes, ServeTypes, ProcessTypes DEF Next, Safety
<1> QED BY <1>2, <1>3

-----------------------------------------------------------------------------
(* The locks.  A step of one thread leaves what the others do alone.       *)
Only(t) ==
    \A u \in Thread \ {t} : (Writing(u)' => Writing(u)) /\ (Reading(u)' => Reading(u))

LEMMA JobOnly ==
    ASSUME UNCHANGED client
    PROVE  Only(JobThread)
BY ThreadAssumption DEF Only, Writing, Reading, Thread

LEMMA ClientOnly ==
    ASSUME NEW c \in Client, UNCHANGED job,
           \A d \in Client \ {c} : client'[d] = client[d]
    PROVE  Only(c)
BY ThreadAssumption DEF Only, Writing, Reading, Thread

LEMMA KeepsLock ==
    ASSUME LockOK, LocksAreHeld, NEW t \in Thread, Only(t), UNCHANGED lock,
           Writing(t)' => Writing(t), Reading(t)' => Reading(t)
    PROVE  LocksAreHeld'
BY DEF LocksAreHeld, Only

LEMMA TakesLock ==
    ASSUME LockOK, LocksAreHeld, NEW t \in Thread, Only(t),
           Shared(t) \/ Exclusive(t) \/ SizeCache(t),
           Writing(t)' => Exclusive(t),
           Reading(t)' => Shared(t)
    PROVE  LocksAreHeld'
<1>1. CASE Shared(t)
  BY <1>1, ThreadAssumption DEF Shared, Exclusive, LocksAreHeld, LockOK, Only, Thread
<1>2. CASE Exclusive(t)
  BY <1>2, ThreadAssumption DEF Shared, Exclusive, LocksAreHeld, LockOK, Only, Thread
<1>3. CASE SizeCache(t)
  BY <1>3, ThreadAssumption DEF Shared, Exclusive, SizeCache, LocksAreHeld, LockOK, Only, Thread
<1> QED BY <1>1, <1>2, <1>3

LEMMA GivesLock ==
    ASSUME LockOK, LocksAreHeld, NEW t \in Thread, Only(t), Release(t),
           ~Writing(t)', ~Reading(t)'
    PROVE  LocksAreHeld'
BY ThreadAssumption DEF Release, LocksAreHeld, LockOK, Only, Thread

(* What mutual exclusion gives a thread that works on the mirror.          *)
LEMMA Excluded ==
    ASSUME LocksAreHeld, NEW t \in Thread, NEW u \in Thread, t # u, Writing(t)
    PROVE  ~Writing(u) /\ ~Reading(u)
BY ThreadAssumption DEF LocksAreHeld, Thread
LEMMA LocksPreserved ==
    ASSUME TypeOK, Safety, Next
    PROVE  LocksAreHeld'
<1>0. /\ DatabaseOK /\ LockOK /\ ThreadsOK
      /\ LocksAreHeld /\ BodyFitsMirror
      /\ JobThread \in Thread /\ Client \subseteq Thread
  BY TypeParts DEF Safety, Thread
<1>1. CASE JobStep
  <2>0. Only(JobThread)
    BY <1>1, JobOnly DEF JobStep, Claim, ReadRow, LockMirror, Unavailable, StartFetch,
       FetchSucceeds, FetchFails, StartClone, CloneSucceeds, CloneFails, Rename, RenameFails,
       EnumerateRefsFails, Synchronize, RemoteFails, Check, CheckEnds, Throw, Settle
  <2>1. CASE Claim \/ ReadRow \/ Settle
    <3>0. UNCHANGED lock
      BY <2>1 DEF Claim, ReadRow, Settle
    <3>1. job'.pc \in {"idle", "claimed", "locking", "done"}
      <4>1. CASE Claim
        <5>1. PICK id, kind : job' = Standing("claimed", id, kind)
          BY <4>1 DEF Claim
        <5> QED BY <5>1 DEF Standing
      <4>2. CASE ReadRow
        BY <1>0, <4>2 DEF ReadRow, ThreadsOK, JobRow
      <4>3. CASE Settle
        BY <4>3 DEF Settle, Idle, Standing
      <4> QED BY <2>1, <4>1, <4>2, <4>3
    <3>2. ~Writing(JobThread)' /\ ~Reading(JobThread)'
      BY <3>1, ThreadAssumption DEF Writing, Reading, JobBody
    <3> QED BY <1>0, <2>0, <3>0, <3>2, KeepsLock
  <2>2. CASE LockMirror
    <3>1. /\ job'.kind = job.kind /\ job'.pc = "probe"
          /\ IF job.kind = "health" THEN Shared(JobThread) ELSE Exclusive(JobThread)
      BY <1>0, <2>2 DEF LockMirror, ThreadsOK, JobRow
    <3>2. /\ Writing(JobThread)' => Exclusive(JobThread)
          /\ Reading(JobThread)' => Shared(JobThread)
      BY <3>1, ThreadAssumption DEF Writing, Reading
    <3> QED BY <1>0, <2>0, <3>1, <3>2, TakesLock
  <2>3. CASE \/ StartFetch \/ FetchSucceeds \/ StartClone \/ CloneSucceeds
             \/ Rename \/ Check
    <3>1. /\ UNCHANGED lock /\ job'.kind = job.kind /\ job.pc \in JobBody
          /\ Check => job.kind = "health"
          /\ ~Check => job.kind # "health" /\ job'.pc # "checking"
      BY <1>0, <2>3 DEF StartFetch, FetchSucceeds, StartClone, CloneSucceeds, Rename, Check,
                        At, JobBody, BodyFitsMirror, ThreadsOK, JobRow
    <3>2. Check => job.pc = "probe"
      BY DEF Check, At
    <3>3. /\ Writing(JobThread)' => Writing(JobThread)
          /\ Reading(JobThread)' => Reading(JobThread)
      BY <3>1, <3>2, ThreadAssumption DEF Writing, Reading
    <3> QED BY <1>0, <2>0, <3>1, <3>3, KeepsLock
  <2>4. CASE \/ Unavailable \/ FetchFails \/ CloneFails \/ RenameFails
             \/ EnumerateRefsFails \/ Synchronize \/ RemoteFails \/ CheckEnds \/ Throw
    <3>1. Release(JobThread) /\ job'.pc = "done"
      BY <1>0, <2>4 DEF Unavailable, FetchFails, CloneFails, RenameFails, EnumerateRefsFails,
                        Synchronize, RemoteFails, CheckEnds, Throw, Return, ThreadsOK, JobRow
    <3>2. ~Writing(JobThread)' /\ ~Reading(JobThread)'
      BY <3>1, ThreadAssumption DEF Writing, Reading, JobBody
    <3> QED BY <1>0, <2>0, <3>1, <3>2, GivesLock
  <2> QED BY <1>1, <2>1, <2>2, <2>3, <2>4 DEF JobStep
<1>2. ASSUME NEW c \in Client, Serve(c) \/ \E kind \in Request : Begin(c, kind)
      PROVE  LocksAreHeld'
  <2>0. Only(c) /\ client \in [Client -> ClientRow]
    <3>1. UNCHANGED job
      BY <1>2 DEF Serve, Begin, DropRow, Lock, CacheIsFresh, Read, Measure, RemoveCache,
                  RemoveSome, RemoveRest, DeletionFails
    <3>2. \A d \in Client \ {c} : client'[d] = client[d]
      BY <1>0, <1>2 DEF Serve, Begin, DropRow, Lock, CacheIsFresh, Read, Measure, RemoveCache,
                  RemoveSome, RemoveRest, DeletionFails, Move, Answer, ThreadsOK
    <3> QED BY <1>0, <3>1, <3>2, ClientOnly DEF ThreadsOK
  <2>1. CASE DropRow(c) \/ \E kind \in Request : Begin(c, kind)
    <3>0. UNCHANGED lock
      BY <2>1 DEF DropRow, Begin
    <3>1. client'[c].pc \notin {"inside", "removing"}
      <4>1. CASE DropRow(c)
        <5>1. Move(c, "locking") \/ Answer(c, "gone")
          BY <4>1 DEF DropRow
        <5>2. CASE Move(c, "locking")
          BY <2>0, <5>2 DEF Move, ClientRow
        <5>3. CASE Answer(c, "gone")
          BY <2>0, <5>3 DEF Answer, ClientRow
        <5> QED BY <5>1, <5>2, <5>3
      <4>2. CASE \E kind \in Request : Begin(c, kind)
        <5>1. PICK kind \in Request, pc \in {"dropping", "locking"} :
                client' = [client EXCEPT ![c] = [@ EXCEPT !.kind = kind, !.pc = pc]]
          BY <4>2 DEF Begin
        <5> QED BY <2>0, <5>1 DEF ClientRow
      <4> QED BY <2>1, <4>1, <4>2
    <3>2. ~Writing(c)' /\ ~Reading(c)'
      BY <3>1, ThreadAssumption DEF Writing, Reading
    <3> QED BY <1>0, <2>0, <3>0, <3>2, KeepsLock
  <2>2. CASE Lock(c)
    <3>1. PICK next \in DOMAIN Locks(client[c].kind) :
            /\ \/ Locks(client[c].kind)[next] = "shared" /\ Shared(c)
               \/ Locks(client[c].kind)[next] = "exclusive" /\ Exclusive(c)
               \/ Locks(client[c].kind)[next] = "sizeCache" /\ SizeCache(c)
            /\ client'[c].kind = client[c].kind
            /\ client'[c].pc =
                 IF next = Len(Locks(client[c].kind)) THEN "inside" ELSE "locking"
      BY <2>0, <2>2 DEF Lock, ClientRow
    <3>2. \/ client[c].kind = "read" \/ client[c].kind = "measure" \/ client[c].kind = "delete"
      BY <2>0 DEF ClientRow, Request
    <3>3. /\ Writing(c)' => Exclusive(c)
          /\ Reading(c)' => Shared(c)
      BY <3>1, <3>2, ThreadAssumption DEF Locks, Writing, Reading
    <3> QED BY <1>0, <2>0, <3>1, <3>3, TakesLock
  <2>3. CASE RemoveCache(c) \/ RemoveSome(c)
    <3>1. /\ UNCHANGED lock /\ client'[c].kind = client[c].kind
          /\ client'[c].pc = "removing" /\ client[c].pc \in {"inside", "removing"}
      BY <2>0, <2>3 DEF RemoveCache, RemoveSome, Move, In, ClientRow
    <3>2. ~Reading(c)' /\ (Writing(c)' => Writing(c))
      BY <3>1, ThreadAssumption DEF Writing, Reading
    <3> QED BY <1>0, <2>0, <3>1, <3>2, KeepsLock
  <2>4. CASE CacheIsFresh(c) \/ Read(c) \/ Measure(c) \/ RemoveRest(c) \/ DeletionFails(c)
    <3>0. Release(c)
      BY <2>4 DEF CacheIsFresh, Read, Measure, RemoveRest, DeletionFails
    <3>1. client'[c].pc = "answered"
      <4>1. PICK reply : Answer(c, reply)
        BY <2>4 DEF CacheIsFresh, Read, Measure, RemoveRest, DeletionFails
      <4> QED BY <2>0, <4>1 DEF Answer, ClientRow
    <3>2. ~Writing(c)' /\ ~Reading(c)'
      BY <3>1, ThreadAssumption DEF Writing, Reading
    <3> QED BY <1>0, <2>0, <3>0, <3>2, GivesLock
  <2> QED BY <1>2, <2>1, <2>2, <2>3, <2>4 DEF Serve
<1>3. CASE StopCleanly \/ Crash
  <2>0. Down
    BY <1>3 DEF StopCleanly, Crash
  <2>1. job'.pc = "idle"
    BY <2>0 DEF Down, Idle, Standing
  <2>2. \A c \in Client : client'[c].pc \in {"idle", "answered"}
    <3>1. \A c \in Client : [client[c] EXCEPT !.pc = "answered", !.reply = "lost"].pc = "answered"
      BY <1>0 DEF ThreadsOK, ClientRow
    <3> QED BY <2>0, <3>1 DEF Down
  <2>3. \A t \in Thread : ~Writing(t)' /\ ~Reading(t)'
    BY <2>1, <2>2 DEF Writing, Reading, JobBody, Thread
  <2>4. lock'.readers = {}
    BY <2>0 DEF Down, Free
  <2> QED BY <2>1, <2>3, <2>4 DEF LocksAreHeld
<1>4. CASE RequestShutdown \/ Start \/ \E kind \in JobKind : RequestJob(kind)
  BY <1>0, <1>4 DEF RequestShutdown, Start, RequestJob, LocksAreHeld, Writing, Reading
<1> QED BY <1>1, <1>2, <1>3, <1>4 DEF Next
-----------------------------------------------------------------------------
(* Rows, directories and cache files: the other conjuncts of Safety.       *)
FilesFit == /\ MirrorIsComplete /\ SyncedIsPresent /\ CacheHasMirror
            /\ BodyFitsMirror /\ DeletionInOrder

(* What a step of the job thread leaves alone.                             *)
LEMMA JobLeaves ==
    ASSUME JobStep
    PROVE  UNCHANGED <<row, cache, client, up>>
BY DEF JobStep, Claim, ReadRow, LockMirror, Unavailable, StartFetch, FetchSucceeds,
       FetchFails, StartClone, CloneSucceeds, CloneFails, Rename, RenameFails,
       EnumerateRefsFails, Synchronize, RemoteFails, Check, CheckEnds, Throw, Settle, database, process

(* Steps after which the body of a job is not under way.                   *)
LEMMA BodyEnds ==
    ASSUME ThreadsOK, FilesOK, FilesFit, job'.pc \notin JobBody, up' = up,
           ~up => job'.pc = "idle", dir' # "fetching",
           job'.pc # "idle" => job'.id \in JobId
    PROVE  BodyFitsMirror'
BY DEF BodyFitsMirror, FilesFit, JobBody

LEMMA JobKeepsFiles ==
    ASSUME TypeOK, Safety, JobStep
    PROVE  FilesFit'
<1>0. /\ DatabaseOK /\ FilesOK /\ ThreadsOK /\ FilesFit /\ job \in JobRow
      /\ UNCHANGED <<row, cache, client, up>>
  BY TypeParts, JobLeaves DEF Safety, FilesFit, ThreadsOK
<1> USE DEF At
<1>1. CASE Claim \/ ReadRow \/ Settle
  <2>1. UNCHANGED dir /\ UNCHANGED synced /\ up
    BY <1>1 DEF Claim, ReadRow, Settle, database
  <2>2. job.pc \notin JobBody
    BY <1>1 DEF Claim, ReadRow, Settle, JobBody
  <2>3. job'.pc \notin JobBody
    <3>1. CASE Claim
      <4>1. PICK id, kind : job' = Standing("claimed", id, kind)
        BY <3>1 DEF Claim
      <4> QED BY <4>1 DEF Standing, JobBody
    <3>2. CASE ReadRow
      BY <1>0, <3>2 DEF ReadRow, JobRow, JobBody
    <3>3. CASE Settle
      BY <3>3 DEF Settle, Idle, Standing, JobBody
    <3> QED BY <1>1, <3>1, <3>2, <3>3
  <2>4. dir # "fetching"
    BY <1>0, <2>2 DEF FilesFit, BodyFitsMirror, JobBody
  <2>5. job'.pc # "idle" => job'.id \in JobId
    <3>1. CASE Claim
      <4>1. PICK q \in table : job' = Standing("claimed", q.id, q.kind)
        BY <3>1 DEF Claim
      <4>2. q.id \in JobId
        BY <1>0 DEF DatabaseOK
      <4> QED BY <4>1, <4>2 DEF Standing
    <3>2. CASE ReadRow
      BY <1>0, <3>2 DEF ReadRow, JobRow, FilesFit, BodyFitsMirror
    <3>3. CASE Settle
      BY <3>3 DEF Settle, Idle, Standing
    <3> QED BY <1>1, <3>1, <3>2, <3>3
  <2>6. BodyFitsMirror'
    BY <1>0, <2>1, <2>3, <2>4, <2>5, BodyEnds
  <2> QED BY <1>0, <2>1, <2>6
          DEF FilesFit, MirrorIsComplete, SyncedIsPresent, CacheHasMirror, DeletionInOrder
<1>2. CASE LockMirror \/ StartClone \/ CloneSucceeds \/ Check
  <2>1. UNCHANGED dir /\ UNCHANGED synced /\ up
    BY <1>2 DEF LockMirror, StartClone, CloneSucceeds, Check, database
  <2>2. BodyFitsMirror'
    <3>1. CASE LockMirror
      BY <1>0, <2>1, <3>1 DEF LockMirror, FilesFit, BodyFitsMirror, JobRow, JobBody
    <3>2. CASE StartClone
      BY <1>0, <2>1, <3>2 DEF StartClone, FilesFit, BodyFitsMirror, JobRow, JobBody
    <3>3. CASE CloneSucceeds
      BY <1>0, <2>1, <3>3 DEF CloneSucceeds, FilesFit, BodyFitsMirror, JobRow, JobBody, FilesOK
    <3>4. CASE Check
      BY <1>0, <2>1, <3>4 DEF Check, FilesFit, BodyFitsMirror, JobRow, JobBody
    <3> QED BY <1>2, <3>1, <3>2, <3>3, <3>4
  <2> QED BY <1>0, <2>1, <2>2
          DEF FilesFit, MirrorIsComplete, SyncedIsPresent, CacheHasMirror, DeletionInOrder
<1>3. CASE StartFetch \/ FetchSucceeds \/ Rename
  <2>1. UNCHANGED synced /\ up
    BY <1>3 DEF StartFetch, FetchSucceeds, Rename, database
  <2>2. /\ dir' \in {"whole", "partial", "fetching"}
        /\ dir' = "partial" => dir = "partial"
    <3>1. CASE StartFetch
      BY <1>0, <3>1 DEF StartFetch, FilesOK, DirState
    <3>2. CASE FetchSucceeds
      <4>1. dir # "absent"
        BY <1>0, <3>2 DEF FetchSucceeds, FilesFit, BodyFitsMirror
      <4> QED BY <1>0, <3>2, <4>1 DEF FetchSucceeds, Fetched, FilesOK, DirState
    <3>3. CASE Rename
      <4>1. staging[job.id] = "whole"
        BY <1>0, <3>3 DEF Rename, FilesFit, BodyFitsMirror
      <4> QED BY <3>3, <4>1 DEF Rename
    <3> QED BY <1>3, <3>1, <3>2, <3>3
  <2>3. BodyFitsMirror'
    <3>1. CASE StartFetch
      BY <1>0, <2>1, <2>2, <3>1 DEF StartFetch, FilesFit, BodyFitsMirror, JobRow, JobBody
    <3>2. CASE FetchSucceeds \/ Rename
      BY <1>0, <2>1, <2>2, <3>2 DEF FetchSucceeds, Fetched, Rename, FilesFit, BodyFitsMirror,
                                    JobRow, JobBody, FilesOK, DirState
    <3> QED BY <1>3, <3>1, <3>2
  <2> QED BY <1>0, <2>1, <2>2, <2>3
          DEF FilesFit, MirrorIsComplete, SyncedIsPresent, CacheHasMirror, DeletionInOrder
<1>4. CASE \/ Unavailable \/ FetchFails \/ CloneFails \/ RenameFails
           \/ EnumerateRefsFails \/ Synchronize \/ RemoteFails \/ CheckEnds \/ Throw
  <2>1. /\ up
        /\ job'.pc = "done"
    BY <1>0, <1>4 DEF Unavailable, FetchFails, CloneFails, RenameFails, EnumerateRefsFails,
                      Synchronize, RemoteFails, CheckEnds, Throw, Return, JobRow
  <2>2. dir' = IF dir = "fetching" THEN "whole" ELSE dir
    BY <1>0, <1>4 DEF Unavailable, FetchFails, CloneFails, RenameFails, EnumerateRefsFails,
                      Synchronize, RemoteFails, CheckEnds, Throw, Fetched, FilesFit, BodyFitsMirror
  <2>3. BodyFitsMirror'
    <3>1. job.pc # "idle" /\ job'.id = job.id
      BY <1>0, <1>4 DEF Unavailable, FetchFails, CloneFails, RenameFails, EnumerateRefsFails,
                        Synchronize, RemoteFails, CheckEnds, Throw, Return, JobRow
    <3>2. job'.id \in JobId
      BY <1>0, <3>1 DEF FilesFit, BodyFitsMirror
    <3> QED BY <1>0, <2>1, <2>2, <3>2, BodyEnds DEF JobBody
  <2>4. synced' = synced \/ (Synchronize /\ synced' = row)
    BY <1>4 DEF Unavailable, FetchFails, CloneFails, RenameFails, EnumerateRefsFails,
                Synchronize, RemoteFails, CheckEnds, Throw, database
  <2>5. Synchronize => dir # "absent"
    BY <1>0 DEF Synchronize, FilesFit, BodyFitsMirror
  <2> QED BY <1>0, <2>2, <2>3, <2>4, <2>5
          DEF FilesFit, MirrorIsComplete, SyncedIsPresent, CacheHasMirror, DeletionInOrder,
              FilesOK, DirState
<1> QED BY <1>1, <1>2, <1>3, <1>4 DEF JobStep

(* A step of a request, seen from the other requests.                      *)
LEMMA OthersInOrder ==
    ASSUME DeletionInOrder, NEW c \in Client, row' => row, synced' => row',
           \A d \in Client \ {c} : client'[d] = client[d],
           \A d \in Client \ {c} :
              client[d].kind = "delete" /\ client[d].pc = "removing" => ~cache',
           client'[c].kind = "delete" =>
             /\ client'[c].pc \in {"locking", "inside", "removing"} => ~row'
             /\ client'[c].pc = "removing" => ~cache'
    PROVE  DeletionInOrder'
BY DEF DeletionInOrder

LEMMA ServeKeepsFiles ==
    ASSUME TypeOK, Safety, NEW c \in Client,
           Serve(c) \/ \E kind \in Request : Begin(c, kind)
    PROVE  FilesFit'
<1>0. /\ FilesOK /\ DatabaseOK /\ FilesFit /\ LocksAreHeld /\ DeletionInOrder
      /\ client \in [Client -> ClientRow]
      /\ c \in Thread /\ JobThread \in Thread /\ Client \subseteq Thread /\ c # JobThread
  BY TypeParts, ThreadAssumption DEF Safety, FilesFit, ThreadsOK, Thread
<1>1. UNCHANGED job /\ UNCHANGED staging /\ UNCHANGED up
  BY DEF Serve, Begin, DropRow, Lock, CacheIsFresh, Read, Measure, RemoveCache,
         RemoveSome, RemoveRest, DeletionFails, process
<1>2. \A d \in Client \ {c} : client'[d] = client[d]
  BY <1>0 DEF Serve, Begin, DropRow, Lock, CacheIsFresh, Read, Measure, RemoveCache,
     RemoveSome, RemoveRest, DeletionFails, Move, Answer
<1>3. ASSUME UNCHANGED dir, UNCHANGED cache, DeletionInOrder', row' => row,
             synced' => synced
      PROVE  FilesFit'
  BY <1>0, <1>1, <1>3 DEF FilesFit, MirrorIsComplete, SyncedIsPresent, CacheHasMirror,
                          BodyFitsMirror
<1>4. ASSUME UNCHANGED row, UNCHANGED synced, UNCHANGED cache,
             client'[c].kind = client[c].kind,
             \/ client'[c].pc = "answered"
             \/ client[c].pc = "locking" /\ client'[c].pc \in {"locking", "inside"}
      PROVE  DeletionInOrder'
  BY <1>0, <1>2, <1>4 DEF DeletionInOrder
<1>5. CASE DropRow(c)
  <2>1. ~row' /\ ~synced' /\ UNCHANGED cache /\ UNCHANGED dir
    BY <1>5 DEF DropRow
  <2>2. client'[c].pc \in {"locking", "answered"}
    <3>1. Move(c, "locking") \/ Answer(c, "gone")
      BY <1>5 DEF DropRow
    <3>2. CASE Move(c, "locking")
      BY <1>0, <3>2 DEF Move, ClientRow
    <3>3. CASE Answer(c, "gone")
      BY <1>0, <3>3 DEF Answer, ClientRow
    <3> QED BY <3>1, <3>2, <3>3
  <2>3. DeletionInOrder'
    BY <1>0, <1>2, <2>1, <2>2 DEF DeletionInOrder
  <2> QED BY <1>3, <2>1, <2>3
<1>6. CASE \E kind \in Request : Begin(c, kind)
  <2>1. UNCHANGED row /\ UNCHANGED synced /\ UNCHANGED cache /\ UNCHANGED dir
    BY <1>6 DEF Begin, database
  <2>2. client'[c].kind = "delete" => client'[c].pc = "dropping"
    <3>1. PICK kind \in Request, pc \in {"dropping", "locking"} :
            /\ client' = [client EXCEPT ![c] = [@ EXCEPT !.kind = kind, !.pc = pc]]
            /\ kind = "delete" => pc = "dropping"
      BY <1>6 DEF Begin
    <3> QED BY <1>0, <3>1 DEF ClientRow
  <2>3. DeletionInOrder'
    BY <1>0, <1>2, <2>1, <2>2 DEF DeletionInOrder
  <2> QED BY <1>3, <2>1, <2>3
<1>7. CASE Lock(c)
  <2>1. UNCHANGED row /\ UNCHANGED synced /\ UNCHANGED cache /\ UNCHANGED dir
    BY <1>7 DEF Lock, database
  <2>2. PICK held : \E pc \in {"locking", "inside"} :
          client' = [client EXCEPT ![c] = [@ EXCEPT !.held = held, !.pc = pc]]
    BY <1>7 DEF Lock
  <2>3. client[c].pc = "locking"
    BY <1>7 DEF Lock, In
  <2>4. client'[c].kind = client[c].kind /\ client'[c].pc \in {"locking", "inside"}
    BY <1>0, <2>2 DEF ClientRow
  <2>5. DeletionInOrder'
    BY <1>4, <2>1, <2>3, <2>4
  <2> QED BY <1>3, <2>1, <2>5
<1>8. CASE CacheIsFresh(c) \/ Read(c) \/ DeletionFails(c)
  <2>1. UNCHANGED row /\ UNCHANGED synced /\ UNCHANGED cache /\ UNCHANGED dir
    BY <1>8 DEF CacheIsFresh, Read, DeletionFails, database
  <2>2. client'[c].kind = client[c].kind /\ client'[c].pc = "answered"
    <3>1. PICK reply : Answer(c, reply)
      BY <1>8 DEF CacheIsFresh, Read, DeletionFails
    <3> QED BY <1>0, <3>1 DEF Answer, ClientRow
  <2>3. DeletionInOrder'
    BY <1>4, <2>1, <2>2
  <2> QED BY <1>3, <2>1, <2>3
<1>9. CASE Measure(c)
  <2>1. UNCHANGED row /\ UNCHANGED synced /\ UNCHANGED dir
    BY <1>9 DEF Measure, database
  <2>2. UNCHANGED cache \/ dir # "absent"
    BY <1>9 DEF Measure
  <2>3. client'[c].kind = client[c].kind /\ client'[c].pc = "answered"
    <3>1. PICK reply : Answer(c, reply)
      BY <1>9 DEF Measure
    <3> QED BY <1>0, <3>1 DEF Answer, ClientRow
  <2>4. \A d \in Client \ {c} : ~(client[d].kind = "delete" /\ client[d].pc = "removing")
    <3>1. Reading(c)
      BY <1>9 DEF Measure, In, Reading
    <3> QED BY <1>0, <3>1, Excluded DEF Writing
  <2>5. DeletionInOrder'
    BY <1>0, <1>2, <2>1, <2>3, <2>4 DEF DeletionInOrder
  <2> QED BY <1>0, <1>1, <2>1, <2>2, <2>5
          DEF FilesFit, MirrorIsComplete, SyncedIsPresent, CacheHasMirror, BodyFitsMirror
<1>10. CASE RemoveCache(c)
  <2>1. UNCHANGED row /\ UNCHANGED synced /\ UNCHANGED dir /\ ~cache'
    BY <1>10 DEF RemoveCache, database
  <2>2. client'[c].pc = "removing" /\ client'[c].kind = client[c].kind
    BY <1>0, <1>10 DEF RemoveCache, Move, ClientRow
  <2>3. client[c].kind = "delete" /\ client[c].pc = "inside"
    BY <1>10 DEF RemoveCache, In
  <2>4. DeletionInOrder'
    BY <1>0, <1>2, <2>1, <2>2, <2>3 DEF DeletionInOrder
  <2> QED BY <1>0, <1>1, <2>1, <2>4
          DEF FilesFit, MirrorIsComplete, SyncedIsPresent, CacheHasMirror, BodyFitsMirror
<1>11. CASE RemoveSome(c) \/ RemoveRest(c)
  <2>1. UNCHANGED row /\ UNCHANGED synced /\ UNCHANGED cache /\ client[c].pc = "removing"
    BY <1>11 DEF RemoveSome, RemoveRest, In, database
  <2>2. \/ dir' = "partial" /\ dir # "absent" /\ client' = client
        \/ dir' = "absent" /\ client'[c].kind = client[c].kind /\ client'[c].pc = "answered"
    <3>1. CASE RemoveSome(c)
      BY <3>1 DEF RemoveSome
    <3>2. CASE RemoveRest(c)
      BY <1>0, <3>2 DEF RemoveRest, Answer, ClientRow
    <3> QED BY <1>11, <3>1, <3>2
  <2>3. Writing(c) /\ client[c].kind = "delete"
    BY <1>0, <1>11, <2>1 DEF RemoveSome, RemoveRest, Writing
  <2>4. ~row /\ ~cache /\ ~synced
    BY <1>0, <2>1, <2>3 DEF DeletionInOrder
  <2>5. job.pc \notin {"fetching", "sync"}
    <3>1. ~Writing(JobThread)
      BY <1>0, <2>3, Excluded
    <3> QED BY <1>0, <3>1 DEF Writing, FilesFit, BodyFitsMirror, JobBody
  <2>6. DeletionInOrder'
    <3>1. CASE client' = client
      BY <1>0, <2>1, <3>1 DEF DeletionInOrder
    <3>2. CASE client'[c].kind = client[c].kind /\ client'[c].pc = "answered"
      BY <1>4, <2>1, <3>2
    <3> QED BY <2>2, <3>1, <3>2
  <2> QED BY <1>0, <1>1, <2>1, <2>2, <2>4, <2>5, <2>6
          DEF FilesFit, MirrorIsComplete, SyncedIsPresent, CacheHasMirror, BodyFitsMirror
<1> QED BY <1>5, <1>6, <1>7, <1>8, <1>9, <1>10, <1>11 DEF Serve
LEMMA ProcessKeepsFiles ==
    ASSUME TypeOK, Safety,
           \/ RequestShutdown \/ StopCleanly \/ Crash \/ Start
           \/ \E kind \in JobKind : RequestJob(kind)
    PROVE  FilesFit'
<1>0. FilesOK /\ ThreadsOK /\ FilesFit
  BY TypeParts DEF Safety, FilesFit
<1>1. CASE RequestShutdown \/ \E kind \in JobKind : RequestJob(kind)
  BY <1>0, <1>1 DEF RequestShutdown, RequestJob, database, process, FilesFit, MirrorIsComplete,
                    SyncedIsPresent, CacheHasMirror, BodyFitsMirror, DeletionInOrder
<1>2. CASE StopCleanly \/ Crash
  <2>0. Down
    BY <1>2 DEF StopCleanly, Crash
  <2>1. /\ dir' = IF dir = "fetching" THEN "whole" ELSE dir
        /\ UNCHANGED row /\ UNCHANGED synced /\ UNCHANGED cache
    BY <2>0 DEF Down, Fetched, database
  <2>2. job'.pc = "idle"
    BY <2>0 DEF Down, Idle, Standing
  <2>3. BodyFitsMirror'
    BY <1>0, <2>1, <2>2 DEF BodyFitsMirror, JobBody
  <2>4. \A c \in Client : client'[c] = client[c] \/ client'[c].pc = "answered"
    <3>1. \A c \in Client : [client[c] EXCEPT !.pc = "answered", !.reply = "lost"].pc = "answered"
      BY <1>0 DEF ThreadsOK, ClientRow
    <3> QED BY <2>0, <3>1 DEF Down
  <2>5. DeletionInOrder'
    BY <1>0, <2>1, <2>4 DEF FilesFit, DeletionInOrder
  <2> QED BY <1>0, <2>1, <2>3, <2>5
          DEF FilesFit, MirrorIsComplete, SyncedIsPresent, CacheHasMirror
<1>3. CASE Start
  <2>1. ~up /\ UNCHANGED job /\ UNCHANGED dir
    BY <1>3 DEF Start
  <2>2. job.pc = "idle"
    BY <1>0, <2>1 DEF FilesFit, BodyFitsMirror
  <2>3. BodyFitsMirror'
    BY <1>0, <2>1, <2>2 DEF FilesFit, BodyFitsMirror, JobBody
  <2> QED BY <1>0, <1>3, <2>3 DEF Start, FilesFit, MirrorIsComplete, SyncedIsPresent,
                                  CacheHasMirror, DeletionInOrder
<1> QED BY <1>1, <1>2, <1>3

-----------------------------------------------------------------------------
(* The inductive invariant holds at first and in every step.               *)
LEMMA InitSafe == Init => Safety
<1> SUFFICES ASSUME Init PROVE Safety
  OBVIOUS
<1>1. LocksAreHeld /\ BodyFitsMirror
  BY DEF Init, Free, Idle, Standing, LocksAreHeld, Writing, Reading, JobBody, BodyFitsMirror,
         Thread
<1>2. MirrorIsComplete /\ SyncedIsPresent /\ CacheHasMirror /\ DeletionInOrder
  BY DEF Init, MirrorIsComplete, SyncedIsPresent, CacheHasMirror, DeletionInOrder
<1> QED BY <1>1, <1>2 DEF Safety

LEMMA StepSafe == TypeOK /\ Safety /\ [Next]_vars => Safety'
<1> SUFFICES ASSUME TypeOK, Safety, [Next]_vars PROVE Safety'
  OBVIOUS
<1>1. CASE Next
  <2>1. LocksAreHeld'
    BY <1>1, LocksPreserved
  <2>2. FilesFit'
    BY <1>1, JobKeepsFiles, ServeKeepsFiles, ProcessKeepsFiles DEF Next
  <2> QED BY <2>1, <2>2 DEF Safety, FilesFit
<1>2. CASE UNCHANGED vars
  BY <1>2 DEF vars, Safety, MirrorIsComplete, SyncedIsPresent, CacheHasMirror, LocksAreHeld,
              Writing, Reading, BodyFitsMirror, DeletionInOrder
<1> QED BY <1>1, <1>2

(* Who changes the directory works on it.                                  *)
LEMMA DirChanges ==
    ASSUME TypeOK, Safety, Next, dir' # dir
    PROVE  \E t \in Thread : Writing(t)
<1>0. FilesOK /\ FilesFit /\ JobThread \in Thread /\ Client \subseteq Thread
  BY TypeParts DEF Safety, FilesFit, Thread
<1>1. CASE JobStep
  <2>1. StartFetch \/ FetchSucceeds \/ FetchFails \/ Rename \/ Throw
    BY <1>1 DEF JobStep, Claim, ReadRow, LockMirror, Unavailable, StartClone, CloneSucceeds,
                CloneFails, RenameFails, EnumerateRefsFails, Synchronize, RemoteFails, Check, CheckEnds,
                Settle
  <2>2. job.pc \in JobBody /\ job.kind # "health"
    BY <1>0, <2>1 DEF StartFetch, FetchSucceeds, FetchFails, Fetched, Rename, Throw, At,
                      FilesFit, BodyFitsMirror, JobBody
  <2> QED BY <1>0, <2>2 DEF Writing
<1>2. CASE \E c \in Client : Serve(c) \/ \E kind \in Request : Begin(c, kind)
  <2>1. PICK c \in Client : RemoveSome(c) \/ RemoveRest(c)
    BY <1>2 DEF Serve, Begin, DropRow, Lock, CacheIsFresh, Read, Measure, RemoveCache,
                DeletionFails
  <2>2. Writing(c)
    BY <2>1 DEF RemoveSome, RemoveRest, In, Writing
  <2> QED BY <1>0, <2>2
<1>3. CASE StopCleanly \/ Crash
  <2>1. dir = "fetching"
    BY <1>3 DEF StopCleanly, Crash, Down, Fetched
  <2> QED BY <1>0, <2>1 DEF FilesFit, BodyFitsMirror, JobBody, Writing
<1>4. CASE RequestShutdown \/ Start \/ \E kind \in JobKind : RequestJob(kind)
  BY <1>4 DEF RequestShutdown, Start, RequestJob
<1> QED BY <1>1, <1>2, <1>3, <1>4 DEF Next

(* No variable leaves its type, and no job id is issued twice              *)
(* (database.cpp create_job, application.cpp, git_service.cpp).            *)
THEOREM MirrorTypes == Spec => []TypeOK
<1>1. Init => TypeOK /\ Safety
  BY InitTypes, InitSafe
<1>2. TypeOK /\ Safety /\ [Next]_vars => (TypeOK /\ Safety)'
  BY StepTypes, StepSafe
<1> QED BY <1>1, <1>2, PTL DEF Spec

(* The inductive invariant: locks, directories, rows and cache files agree *)
(* (git_service.cpp execute, delete_repository_directory, ...).            *)
THEOREM MirrorSafety == Spec => []Safety
<1>1. Init => TypeOK /\ Safety
  BY InitTypes, InitSafe
<1>2. TypeOK /\ Safety /\ [Next]_vars => (TypeOK /\ Safety)'
  BY StepTypes, StepSafe
<1> QED BY <1>1, <1>2, PTL DEF Spec

(* The mirror of an existing repository is never half there: a clone is    *)
(* renamed into place when complete, a removal starts after the row went.  *)
THEOREM MirrorStaysComplete == Spec => []MirrorIsComplete
<1>1. Safety => MirrorIsComplete
  BY DEF Safety
<1> QED BY <1>1, MirrorSafety, PTL

(* A synchronised repository has a mirror                                  *)
(* (synchronize_repository_state runs under the repository lock).          *)
THEOREM SyncedStaysPresent == Spec => []SyncedIsPresent
<1>1. Safety => SyncedIsPresent
  BY DEF Safety
<1> QED BY <1>1, MirrorSafety, PTL

(* A size-cache file never outlives its mirror                             *)
(* (delete_repository_directory, repository_disk_usage).                   *)
THEOREM CacheNeverOutlives == Spec => []CacheHasMirror
<1>1. Safety => CacheHasMirror
  BY DEF Safety
<1> QED BY <1>1, MirrorSafety, PTL

(* Nothing changes a mirror while it is read under the shared lock         *)
(* (repository_lock), however many requests there are.                     *)
THEOREM ReadersAreUndisturbed == Spec => StableWhileRead
<1>1. TypeOK /\ Safety /\ [Next]_vars =>
        [\A t \in Thread : Reading(t) /\ Reading(t)' => UNCHANGED dir]_vars
  <2> SUFFICES ASSUME TypeOK, Safety, Next, NEW t \in Thread, Reading(t), dir' # dir
               PROVE  FALSE
    OBVIOUS
  <2>1. PICK u \in Thread : Writing(u)
    BY DirChanges
  <2>2. t = u
    BY <2>1, Excluded DEF Safety
  <2> QED BY <2>1, <2>2, ThreadAssumption DEF Writing, Reading
<1> QED BY <1>1, MirrorTypes, MirrorSafety, PTL DEF Spec, StableWhileRead
-----------------------------------------------------------------------------
(* Staging directories, when file operations do not fail.  A job that is   *)
(* neither cloning nor renaming has none: what it does leaves them alone.  *)
LEMMA JobOwnsStaging ==
    ASSUME ~Faults, TypeOK, Safety, StagingIsOwned, JobStep
    PROVE  StagingIsOwned'
<1>0. FilesOK /\ job \in JobRow /\ BodyFitsMirror
  BY TypeParts DEF Safety, ThreadsOK
<1>1. CASE \/ Claim \/ ReadRow \/ LockMirror \/ Unavailable \/ StartFetch \/ FetchSucceeds
           \/ FetchFails \/ EnumerateRefsFails \/ Synchronize \/ RemoteFails \/ Check
           \/ CheckEnds \/ Settle
  <2>1. up /\ job.pc \notin {"cloning", "rename"}
    BY <1>1 DEF Claim, ReadRow, LockMirror, Unavailable, StartFetch, FetchSucceeds, FetchFails,
                EnumerateRefsFails, Synchronize, RemoteFails, Check, CheckEnds, Settle, At
  <2>2. UNCHANGED staging
    BY <1>1 DEF Claim, ReadRow, LockMirror, Unavailable, StartFetch, FetchSucceeds, FetchFails,
                EnumerateRefsFails, Synchronize, RemoteFails, Check, CheckEnds, Settle
  <2>3. \A j \in JobId : staging[j] = "none"
    BY <2>1 DEF StagingIsOwned
  <2> QED BY <2>2, <2>3 DEF StagingIsOwned
<1>2. CASE StartClone \/ CloneSucceeds
  <2>1. up /\ job.pc \in {"probe", "cloning"}
    BY <1>2 DEF StartClone, CloneSucceeds, At
  <2>2. job.id \in JobId
    BY <1>0, <2>1 DEF BodyFitsMirror
  <2>3. PICK s \in {"partial", "whole"} : staging' = [staging EXCEPT ![job.id] = s]
    BY <1>2 DEF StartClone, CloneSucceeds
  <2>4. job'.id = job.id /\ job'.pc \in {"cloning", "rename"}
    BY <1>0, <1>2 DEF StartClone, CloneSucceeds, JobRow
  <2>5. \A j \in JobId \ {job.id} : staging'[j] = "none"
    BY <1>0, <2>1, <2>3 DEF FilesOK, StagingIsOwned
  <2> QED BY <2>4, <2>5 DEF StagingIsOwned
<1>3. CASE CloneFails \/ Rename \/ RenameFails
  <2>1. up /\ staging' = [staging EXCEPT ![job.id] = "none"]
    BY <1>3 DEF CloneFails, Rename, RenameFails, Unstage, At
  <2>2. \A j \in JobId : staging'[j] = "none"
    BY <1>0, <2>1 DEF FilesOK, StagingIsOwned
  <2> QED BY <2>2 DEF StagingIsOwned
<1>4. CASE Throw
  BY <1>4 DEF Throw
<1> QED BY <1>1, <1>2, <1>3, <1>4 DEF JobStep

LEMMA StagingStep ==
    ASSUME ~Faults, TypeOK, Safety, StagingIsOwned, [Next]_vars
    PROVE  StagingIsOwned'
<1>1. CASE JobStep
  BY <1>1, JobOwnsStaging
<1>2. CASE \E c \in Client : Serve(c) \/ \E kind \in Request : Begin(c, kind)
  <2>1. UNCHANGED <<staging, job, process>>
    <3>1. PICK c \in Client : Serve(c) \/ \E kind \in Request : Begin(c, kind)
      BY <1>2
    <3>2. CASE Lock(c)
      BY <3>2 DEF Lock
    <3>3. CASE \E kind \in Request : Begin(c, kind)
      BY <3>3 DEF Begin
    <3> QED BY <3>1, <3>2, <3>3 DEF Serve, DropRow, CacheIsFresh, Read, Measure, RemoveCache,
                                    RemoveSome, RemoveRest, DeletionFails
  <2> QED BY <2>1 DEF process, StagingIsOwned
<1>3. CASE RequestShutdown \/ \E kind \in JobKind : RequestJob(kind)
  <2>1. UNCHANGED <<staging, job, up>>
    BY <1>3 DEF RequestShutdown, RequestJob, process
  <2> QED BY <2>1 DEF StagingIsOwned
<1>4. CASE StopCleanly \/ Crash
  BY <1>4 DEF StopCleanly, Crash, Down, StagingIsOwned
<1>5. CASE Start
  <2>1. \A j \in JobId : staging'[j] = "none"
    BY <1>5 DEF Start, CleanUp
  <2> QED BY <2>1 DEF StagingIsOwned
<1>6. CASE UNCHANGED vars
  BY <1>6 DEF vars, StagingIsOwned
<1> QED BY <1>1, <1>2, <1>3, <1>4, <1>5, <1>6 DEF Next

(* While file operations do not fail, a staging directory belongs to the   *)
(* clone that runs: every way out of clone_repository removes its own, and *)
(* cleanup_orphaned_temp_dirs what a crash left, before any worker starts. *)
THEOREM StagingStaysOwned ==
    ASSUME ~Faults
    PROVE  Spec => []StagingIsOwned
<1>1. Init => StagingIsOwned
  BY DEF Init, StagingIsOwned
<1>2. TypeOK /\ Safety /\ StagingIsOwned /\ [Next]_vars => StagingIsOwned'
  BY StagingStep
<1> QED BY <1>1, <1>2, MirrorTypes, MirrorSafety, PTL DEF Spec
-----------------------------------------------------------------------------
(* The locks come free.  Whoever holds one is at a place where it uses it. *)
Sizing(t) ==
    /\ t \in Client
    /\ client[t].kind # "read" /\ client[t].held > 0
    /\ client[t].pc \in {"locking", "inside", "removing"}

TakesInOrder(c) ==
    /\ client[c].pc \in {"idle", "dropping"} => client[c].held = 0
    /\ client[c].pc = "locking" => client[c].held < Len(Locks(client[c].kind))
    /\ client[c].pc = "removing" => client[c].kind = "delete"

LocksAreUsed ==
    /\ lock.writer # NoOne => Writing(lock.writer)
    /\ \A t \in lock.readers : Reading(t)
    /\ lock.sizer # NoOne => Sizing(lock.sizer)
GuardsAreScoped == LocksAreUsed /\ \A c \in Client : TakesInOrder(c)

(* Who waits for which lock, and who keeps it from being given.            *)
Waiting(t) == IF t \in Client THEN client[t].pc = "locking" ELSE job.pc = "locking"
Wanted(t) ==
    IF t \in Client THEN Locks(client[t].kind)[client[t].held + 1]
    ELSE IF job.kind = "health" THEN "shared" ELSE "exclusive"
Blocks(u, t) ==
    /\ Waiting(t)
    /\ \/ Wanted(t) = "sizeCache" /\ lock.sizer = u
       \/ Wanted(t) \in {"shared", "exclusive"} /\ lock.writer = u
       \/ Wanted(t) = "exclusive" /\ u \in lock.readers
Working(t) == Writing(t) \/ Reading(t)

(* Nobody waits for somebody who waits in a circle: whoever holds a lock   *)
(* that is waited for works on the mirror, or waits itself for a lock      *)
(* whose holders all work.                                                 *)
LocksComeFree ==
    \A t, u \in Thread : Blocks(u, t) =>
       \/ Working(u)
       \/ Waiting(u) /\ \A v \in Thread : Blocks(v, u) => Working(v)

(* A step of one thread takes no lock out of the hands of the others.      *)
OthersUse(t) ==
    \A u \in Thread \ {t} : /\ Writing(u) => Writing(u)'
                            /\ Reading(u) => Reading(u)'
                            /\ Sizing(u) => Sizing(u)'
StillUses(t) ==
    /\ Writing(t) => Writing(t)'
    /\ Reading(t) => Reading(t)'
    /\ Sizing(t) => Sizing(t)'

LEMMA JobOthersUse ==
    ASSUME UNCHANGED client
    PROVE  OthersUse(JobThread) /\ (Sizing(JobThread) => Sizing(JobThread)')
BY ThreadAssumption DEF OthersUse, Writing, Reading, Sizing, Thread

LEMMA ClientOthersUse ==
    ASSUME NEW c \in Client, UNCHANGED job,
           \A d \in Client \ {c} : client'[d] = client[d]
    PROVE  OthersUse(c)
BY ThreadAssumption DEF OthersUse, Writing, Reading, Sizing, Thread

LEMMA KeepsUsed ==
    ASSUME LockOK, LocksAreUsed, NEW t \in Thread, OthersUse(t), StillUses(t), UNCHANGED lock
    PROVE  LocksAreUsed'
BY DEF LockOK, LocksAreUsed, OthersUse, StillUses

LEMMA TakesUsed ==
    ASSUME LockOK, LocksAreUsed, NEW t \in Thread, OthersUse(t), StillUses(t),
           \/ Shared(t) /\ Reading(t)'
           \/ Exclusive(t) /\ Writing(t)'
           \/ SizeCache(t) /\ Sizing(t)'
    PROVE  LocksAreUsed'
<1>1. CASE Shared(t) /\ Reading(t)'
  BY <1>1 DEF LockOK, LocksAreUsed, OthersUse, StillUses, Shared
<1>2. CASE Exclusive(t) /\ Writing(t)'
  BY <1>2 DEF LockOK, LocksAreUsed, OthersUse, StillUses, Exclusive
<1>3. CASE SizeCache(t) /\ Sizing(t)'
  BY <1>3 DEF LockOK, LocksAreUsed, OthersUse, StillUses, SizeCache
<1> QED BY <1>1, <1>2, <1>3

LEMMA GivesUsed ==
    ASSUME LockOK, LocksAreUsed, NEW t \in Thread, OthersUse(t), Release(t)
    PROVE  LocksAreUsed'
<1>1. /\ lock'.writer = IF lock.writer = t THEN NoOne ELSE lock.writer
      /\ lock'.readers = lock.readers \ {t}
      /\ lock'.sizer = IF lock.sizer = t THEN NoOne ELSE lock.sizer
  BY DEF Release
<1> QED BY <1>1 DEF LockOK, LocksAreUsed, OthersUse

LEMMA JobScopes ==
    ASSUME TypeOK, Safety, GuardsAreScoped, JobStep
    PROVE  GuardsAreScoped'
<1>0. /\ LockOK /\ job \in JobRow /\ BodyFitsMirror /\ JobThread \in Thread
      /\ LocksAreUsed /\ \A c \in Client : TakesInOrder(c)
  BY TypeParts DEF Safety, ThreadsOK, Thread, GuardsAreScoped
<1>1. UNCHANGED client /\ OthersUse(JobThread) /\ (Sizing(JobThread) => Sizing(JobThread)')
  BY JobLeaves, JobOthersUse
<1>2. \A c \in Client : TakesInOrder(c)'
  BY <1>0, <1>1 DEF TakesInOrder
<1>3. CASE Claim \/ ReadRow \/ Settle
  <2>1. UNCHANGED lock /\ job.pc \in {"idle", "claimed", "done"}
    BY <1>3 DEF Claim, ReadRow, Settle, At
  <2>2. ~Writing(JobThread) /\ ~Reading(JobThread)
    BY <2>1, ThreadAssumption DEF Writing, Reading, JobBody
  <2> QED BY <1>0, <1>1, <1>2, <2>1, <2>2, KeepsUsed DEF StillUses, GuardsAreScoped
<1>4. CASE LockMirror
  <2>1. /\ job.pc = "locking" /\ job'.kind = job.kind /\ job'.pc = "probe"
        /\ IF job.kind = "health" THEN Shared(JobThread) ELSE Exclusive(JobThread)
    BY <1>0, <1>4 DEF LockMirror, At, JobRow
  <2>2. ~Writing(JobThread) /\ ~Reading(JobThread)
    BY <2>1, ThreadAssumption DEF Writing, Reading, JobBody
  <2>3. \/ Shared(JobThread) /\ Reading(JobThread)'
        \/ Exclusive(JobThread) /\ Writing(JobThread)'
    BY <2>1 DEF Writing, Reading, JobBody
  <2> QED BY <1>0, <1>1, <1>2, <2>2, <2>3, TakesUsed DEF StillUses, GuardsAreScoped
<1>5. CASE \/ StartFetch \/ FetchSucceeds \/ StartClone \/ CloneSucceeds
           \/ Rename \/ Check
  <2>1. /\ UNCHANGED lock /\ job'.kind = job.kind
        /\ \/ job.kind = "health" /\ job'.pc = "checking"
           \/ job.kind # "health" /\ job'.pc \in JobBody
    BY <1>0, <1>5 DEF StartFetch, FetchSucceeds, StartClone, CloneSucceeds, Rename, Check,
                      At, JobBody, BodyFitsMirror, JobRow
  <2>2. StillUses(JobThread)
    BY <1>1, <2>1, ThreadAssumption DEF StillUses, Writing, Reading
  <2> QED BY <1>0, <1>1, <1>2, <2>1, <2>2, KeepsUsed DEF GuardsAreScoped
<1>6. CASE \/ Unavailable \/ FetchFails \/ CloneFails \/ RenameFails
           \/ EnumerateRefsFails \/ Synchronize \/ RemoteFails \/ CheckEnds \/ Throw
  <2>1. Release(JobThread)
    BY <1>6 DEF Unavailable, FetchFails, CloneFails, RenameFails, EnumerateRefsFails,
                Synchronize, RemoteFails, CheckEnds, Throw, Return
  <2> QED BY <1>0, <1>1, <1>2, <2>1, GivesUsed DEF GuardsAreScoped
<1> QED BY <1>3, <1>4, <1>5, <1>6 DEF JobStep

(* The order in which a request takes its locks, by its kind.              *)
LEMMA LockSteps ==
    ASSUME NEW kind \in Request, NEW n \in DOMAIN Locks(kind)
    PROVE  /\ n \in 1 .. Len(Locks(kind)) /\ Len(Locks(kind)) \in {1, 2}
           /\ Locks(kind)[n] = "sizeCache" => n < Len(Locks(kind)) /\ kind # "read"
           /\ Locks(kind)[n] = "shared" <=> n = Len(Locks(kind)) /\ kind # "delete"
           /\ Locks(kind)[n] = "exclusive" <=> n = Len(Locks(kind)) /\ kind = "delete"
<1>1. CASE kind = "read"
  BY <1>1 DEF Locks
<1>2. CASE kind = "measure"
  BY <1>2 DEF Locks
<1>3. CASE kind = "delete"
  BY <1>3 DEF Locks
<1> QED BY <1>1, <1>2, <1>3 DEF Request

LEMMA ServeScopes ==
    ASSUME TypeOK, Safety, GuardsAreScoped, NEW c \in Client,
           Serve(c) \/ \E kind \in Request : Begin(c, kind)
    PROVE  GuardsAreScoped'
<1>0. /\ LockOK /\ client \in [Client -> ClientRow] /\ c \in Thread
      /\ LocksAreUsed /\ \A d \in Client : TakesInOrder(d)
  BY TypeParts DEF ThreadsOK, Thread, GuardsAreScoped
<1>1. UNCHANGED job /\ \A d \in Client \ {c} : client'[d] = client[d]
  <2>1. UNCHANGED job
    BY DEF Serve, Begin, DropRow, Lock, CacheIsFresh, Read, Measure, RemoveCache,
           RemoveSome, RemoveRest, DeletionFails
  <2>2. \A d \in Client \ {c} : client'[d] = client[d]
    BY <1>0 DEF Serve, Begin, DropRow, Lock, CacheIsFresh, Read, Measure, RemoveCache,
                RemoveSome, RemoveRest, DeletionFails, Move, Answer
  <2> QED BY <2>1, <2>2
<1>2. OthersUse(c) /\ \A d \in Client \ {c} : TakesInOrder(d)'
  BY <1>0, <1>1, ClientOthersUse DEF TakesInOrder
<1>3. CASE DropRow(c) \/ \E kind \in Request : Begin(c, kind)
  <2>1. UNCHANGED lock /\ client[c].pc \in {"idle", "dropping"} /\ client[c].held = 0
    BY <1>0, <1>3 DEF DropRow, Begin, In, TakesInOrder
  <2>2. /\ client'[c].held = 0 /\ client'[c].kind \in Request
        /\ client'[c].pc \in {"dropping", "locking", "answered"}
    <3>1. CASE DropRow(c)
      <4>1. CASE Move(c, "locking")
        BY <1>0, <2>1, <4>1 DEF Move, ClientRow
      <4>2. CASE Answer(c, "gone")
        BY <1>0, <2>1, <4>2 DEF Answer, ClientRow
      <4> QED BY <3>1, <4>1, <4>2 DEF DropRow
    <3>2. CASE \E kind \in Request : Begin(c, kind)
      <4>1. PICK kind \in Request, pc \in {"dropping", "locking"} :
              client' = [client EXCEPT ![c] = [@ EXCEPT !.kind = kind, !.pc = pc]]
        BY <3>2 DEF Begin
      <4> QED BY <1>0, <2>1, <4>1 DEF ClientRow
    <3> QED BY <1>3, <3>1, <3>2
  <2>3. TakesInOrder(c)'
    <3>1. 0 < Len(Locks(client'[c].kind))
      BY <2>2 DEF Locks, Request
    <3> QED BY <2>2, <3>1 DEF TakesInOrder
  <2>4. StillUses(c)
    BY <2>1, ThreadAssumption DEF StillUses, Writing, Reading, Sizing
  <2> QED BY <1>0, <1>2, <2>1, <2>3, <2>4, KeepsUsed DEF GuardsAreScoped
<1>4. CASE Lock(c)
  <2> DEFINE order == Locks(client[c].kind)
             next  == client[c].held + 1
  <2>1. /\ client[c].pc = "locking" /\ next \in DOMAIN order /\ client[c].kind \in Request
        /\ \/ order[next] = "shared" /\ Shared(c)
           \/ order[next] = "exclusive" /\ Exclusive(c)
           \/ order[next] = "sizeCache" /\ SizeCache(c)
        /\ client'[c].kind = client[c].kind /\ client'[c].held = next
        /\ client'[c].pc = IF next = Len(order) THEN "inside" ELSE "locking"
    BY <1>0, <1>4 DEF Lock, In, ClientRow
  <2>2. /\ next \in 1 .. Len(order) /\ Len(order) \in {1, 2}
        /\ order[next] = "sizeCache" => next < Len(order) /\ client[c].kind # "read"
        /\ order[next] = "shared" <=> next = Len(order) /\ client[c].kind # "delete"
        /\ order[next] = "exclusive" <=> next = Len(order) /\ client[c].kind = "delete"
    BY <2>1, LockSteps
  <2> HIDE DEF order
  <2>3. next > 0 /\ next \in Nat /\ client[c].held \in 0 .. 2
    BY <1>0, <2>2 DEF ClientRow
  <2>4. TakesInOrder(c)'
    <3>1. client'[c].pc = "locking" => next < Len(order)
      BY <2>1, <2>2
    <3>2. client'[c].pc \notin {"idle", "dropping"}
      BY <2>1
    <3> QED BY <2>1, <3>1, <3>2 DEF TakesInOrder, order
  <2>5. StillUses(c)
    BY <2>1, <2>3, ThreadAssumption DEF StillUses, Writing, Reading, Sizing
  <2>6. \/ Shared(c) /\ Reading(c)'
        \/ Exclusive(c) /\ Writing(c)'
        \/ SizeCache(c) /\ Sizing(c)'
    <3>1. CASE order[next] = "shared" /\ Shared(c)
      BY <2>1, <2>2, <3>1 DEF Reading
    <3>2. CASE order[next] = "exclusive" /\ Exclusive(c)
      BY <2>1, <2>2, <3>2 DEF Writing
    <3>3. CASE order[next] = "sizeCache" /\ SizeCache(c)
      <4>1. next < Len(order) /\ client[c].kind # "read"
        BY <2>2, <3>3
      <4>2. client'[c].pc = "locking" /\ client'[c].kind # "read" /\ client'[c].held > 0
        BY <2>1, <2>2, <2>3, <4>1
      <4> QED BY <3>3, <4>2 DEF Sizing
    <3> QED BY <2>1, <3>1, <3>2, <3>3
  <2> QED BY <1>0, <1>2, <2>4, <2>5, <2>6, TakesUsed DEF GuardsAreScoped
<1>5. CASE RemoveCache(c) \/ RemoveSome(c)
  <2>1. /\ UNCHANGED lock /\ client'[c].kind = "delete" /\ client[c].kind = "delete"
        /\ client'[c].held = client[c].held
        /\ client'[c].pc = "removing" /\ client[c].pc \in {"inside", "removing"}
    BY <1>0, <1>5 DEF RemoveCache, RemoveSome, Move, In, ClientRow
  <2>2. StillUses(c) /\ TakesInOrder(c)'
    BY <2>1, ThreadAssumption DEF StillUses, Writing, Reading, Sizing, TakesInOrder
  <2> QED BY <1>0, <1>2, <2>1, <2>2, KeepsUsed DEF GuardsAreScoped
<1>6. CASE CacheIsFresh(c) \/ Read(c) \/ Measure(c) \/ RemoveRest(c) \/ DeletionFails(c)
  <2>1. Release(c)
    BY <1>6 DEF CacheIsFresh, Read, Measure, RemoveRest, DeletionFails
  <2>2. client'[c].pc = "answered"
    <3>1. PICK reply : Answer(c, reply)
      BY <1>6 DEF CacheIsFresh, Read, Measure, RemoveRest, DeletionFails
    <3> QED BY <1>0, <3>1 DEF Answer, ClientRow
  <2>3. TakesInOrder(c)'
    BY <2>2 DEF TakesInOrder
  <2> QED BY <1>0, <1>2, <2>1, <2>3, GivesUsed DEF GuardsAreScoped
<1> QED BY <1>3, <1>4, <1>5, <1>6 DEF Serve

LEMMA ScopesStep ==
    ASSUME TypeOK, Safety, GuardsAreScoped, [Next]_vars
    PROVE  GuardsAreScoped'
<1>0. ThreadsOK /\ LocksAreUsed /\ \A c \in Client : TakesInOrder(c)
  BY TypeParts DEF GuardsAreScoped
<1>1. CASE JobStep
  BY <1>1, JobScopes
<1>2. CASE \E c \in Client : Serve(c) \/ \E kind \in Request : Begin(c, kind)
  BY <1>2, ServeScopes
<1>3. CASE StopCleanly \/ Crash
  <2>0. Down
    BY <1>3 DEF StopCleanly, Crash
  <2>1. lock'.writer = NoOne /\ lock'.readers = {} /\ lock'.sizer = NoOne
    BY <2>0 DEF Down, Free
  <2>2. ASSUME NEW c \in Client
        PROVE  TakesInOrder(c)'
    <3>1. CASE client'[c] = client[c]
      BY <1>0, <3>1 DEF TakesInOrder
    <3>2. CASE client'[c] = [client[c] EXCEPT !.pc = "answered", !.reply = "lost"]
      <4>1. client'[c].pc = "answered"
        BY <1>0, <3>2 DEF ThreadsOK, ClientRow
      <4> QED BY <4>1 DEF TakesInOrder
    <3> QED BY <2>0, <3>1, <3>2 DEF Down
  <2> QED BY <2>1, <2>2 DEF GuardsAreScoped, LocksAreUsed
<1>4. CASE \/ RequestShutdown \/ Start \/ UNCHANGED vars
           \/ \E kind \in JobKind : RequestJob(kind)
  <2>1. UNCHANGED <<lock, job, client>>
    BY <1>4 DEF RequestShutdown, Start, RequestJob, vars
  <2> QED BY <1>0, <2>1
          DEF GuardsAreScoped, LocksAreUsed, TakesInOrder, Writing, Reading, Sizing
<1> QED BY <1>1, <1>2, <1>3, <1>4 DEF Next

LEMMA ScopesInit == Init => GuardsAreScoped
BY DEF Init, Free, GuardsAreScoped, LocksAreUsed, TakesInOrder

(* The size-cache mutex comes before the repository lock, so that its      *)
(* holder waits only for threads that hold both or need no other.          *)
LEMMA NoCircle == TypeOK /\ GuardsAreScoped => LocksComeFree
<1> SUFFICES ASSUME TypeOK, GuardsAreScoped, NEW t \in Thread, NEW u \in Thread, Blocks(u, t)
             PROVE  \/ Working(u)
                    \/ Waiting(u) /\ \A v \in Thread : Blocks(v, u) => Working(v)
  BY DEF LocksComeFree
<1>0. /\ LocksAreUsed /\ \A c \in Client : TakesInOrder(c)
      /\ client \in [Client -> ClientRow] /\ NoOne \notin Thread
  BY TypeParts, ThreadAssumption DEF GuardsAreScoped, ThreadsOK, Thread
<1>1. CASE lock.writer = u \/ u \in lock.readers
  BY <1>0, <1>1 DEF LocksAreUsed, Working
<1>2. CASE lock.sizer = u
  <2>1. Sizing(u)
    BY <1>0, <1>2 DEF LocksAreUsed
  <2>2. CASE client[u].pc # "locking"
    BY <1>0, <2>1, <2>2 DEF Sizing, TakesInOrder, Working, Writing, Reading
  <2>3. CASE client[u].pc = "locking"
    <3>1. Waiting(u)
      BY <2>1, <2>3 DEF Sizing, Waiting
    <3>2. Wanted(u) # "sizeCache"
      <4>1. /\ client[u].kind \in {"measure", "delete"} /\ client[u].held \in Nat \ {0}
            /\ client[u].held < Len(Locks(client[u].kind))
        BY <1>0, <2>1, <2>3 DEF Sizing, TakesInOrder, ClientRow, Request
      <4>2. Len(Locks(client[u].kind)) = 2
        BY <4>1 DEF Locks
      <4>3. client[u].held + 1 = 2
        BY <4>1, <4>2
      <4>4. Wanted(u) = Locks(client[u].kind)[2]
        BY <2>1, <4>3 DEF Wanted, Sizing
      <4> QED BY <4>1, <4>4 DEF Locks
    <3>3. ASSUME NEW v \in Thread, Blocks(v, u)
          PROVE  Working(v)
      <4>1. lock.writer = v \/ v \in lock.readers
        BY <3>2, <3>3 DEF Blocks
      <4> QED BY <1>0, <4>1 DEF LocksAreUsed, Working
    <3> QED BY <3>1, <3>3
  <2> QED BY <2>2, <2>3
<1> QED BY <1>1, <1>2 DEF Blocks

(* repository_lock and size_cache_mutex: however many requests browse,     *)
(* measure and delete a repository while a job works on it, they never     *)
(* wait for each other in a circle, and nobody who went away, failed or    *)
(* was answered has kept a lock.                                           *)
THEOREM LocksNeverDeadlock == Spec => [](LocksAreUsed /\ LocksComeFree)
<1>1. TypeOK /\ Safety /\ GuardsAreScoped /\ [Next]_vars => GuardsAreScoped'
  BY ScopesStep
<1>2. TypeOK /\ GuardsAreScoped => LocksAreUsed /\ LocksComeFree
  BY NoCircle DEF GuardsAreScoped
<1> QED BY ScopesInit, <1>1, <1>2, MirrorTypes, MirrorSafety, PTL DEF Spec
=============================================================================
