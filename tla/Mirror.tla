------------------------------- MODULE Mirror -------------------------------
(***************************************************************************)
(* The mirror directory of one repository, and everything that works on    *)
(* it: the job that clones, fetches or checks it, HTTP requests that       *)
(* browse, export, measure or delete it, the locks between them, and a     *)
(* shutdown, a crash and the cleanup at the next start.                    *)
(*                                                                         *)
(* One repository is enough: directories, staging names and locks are      *)
(* keyed by the repository's id, and ids are never issued again.  That at  *)
(* most one job of a repository runs is JobQueue!OneRunningPerRepo.        *)
(*                                                                         *)
(* What git does to a directory is reduced to whether the directory is     *)
(* there, complete, and being changed.  Commands are assumed to die with   *)
(* the process, and git to leave a mirror usable when it dies in a fetch.  *)
(***************************************************************************)
EXTENDS Integers, FiniteSets, Sequences

CONSTANTS
    Client,      \* HTTP requests, one each
    JobThread,   \* the worker thread that runs the repository's job
    NoOne,       \* nobody holds the lock
    MaxJobId,    \* bound: jobs of this repository
    Faults       \* may file operations and queries fail?

ASSUME ThreadAssumption == JobThread \notin Client /\ NoOne \notin Client \cup {JobThread}
ASSUME BoundAssumption  == MaxJobId \in Nat \ {0}
ASSUME FaultAssumption  == Faults \in BOOLEAN

Thread  == Client \cup {JobThread}
JobId   == 1 .. MaxJobId
JobKind == {"clone", "fetch", "health"}     \* "metadata" leaves the mirror alone
Request == {"read", "measure", "delete"}   \* "read" browses or exports

VARIABLES
    row,        \* the repository is in the database
    synced,     \* ... with last_success_at set
    table,      \* its active jobs
    lastJob,    \* job ids issued
    dir,        \* the mirror directory
    staging,    \* tmp/clone-<repo>-<job>.git
    cache,      \* the size-cache file exists
    lock,       \* repository_lock and repository_size_cache_lock
    job,        \* the worker thread
    client,     \* the HTTP requests
    up,         \* the process is running
    stopping    \* shutdown_requested

vars == <<row, synced, table, lastJob, dir, staging, cache, lock, job, client,
          up, stopping>>
database == <<row, synced, table, lastJob>>
process == <<up, stopping>>

DirState == {"absent", "partial", "whole", "fetching"}
Staged   == {"none", "partial", "whole"}

Standing(pc, id, kind) == [pc |-> pc, id |-> id, kind |-> kind, result |-> "none",
                            killed |-> FALSE]
Idle == Standing("idle", 0, "clone")
Free == [writer |-> NoOne, readers |-> {}, sizer |-> NoOne]

Queued(id, kind) == [id |-> id, kind |-> kind, status |-> "queued"]

(* The repository was just imported.                                       *)
Init == /\ row = TRUE
        /\ synced = FALSE
        /\ table = {Queued(1, "clone")}
        /\ lastJob = 1
        /\ dir = "absent"
        /\ staging = [j \in JobId |-> "none"]
        /\ cache = FALSE
        /\ lock = Free
        /\ job = Idle
        /\ client = [c \in Client |-> [pc |-> "idle", kind |-> "read", held |-> 0,
                                       reply |-> "none"]]
        /\ up = TRUE
        /\ stopping = FALSE

-----------------------------------------------------------------------------
(* The locks: a shared_mutex per repository, a mutex per size cache.       *)

Shared(t) ==
    /\ lock.writer = NoOne
    /\ lock' = [lock EXCEPT !.readers = @ \cup {t}]

Exclusive(t) ==
    /\ lock.writer = NoOne
    /\ lock.readers = {}
    /\ lock' = [lock EXCEPT !.writer = t]

SizeCache(t) ==
    /\ lock.sizer = NoOne
    /\ lock' = [lock EXCEPT !.sizer = t]

(* The guards of a thread go out of scope.                                 *)
Release(t) ==
    lock' = [writer  |-> IF lock.writer = t THEN NoOne ELSE lock.writer,
             readers |-> lock.readers \ {t},
             sizer   |-> IF lock.sizer = t THEN NoOne ELSE lock.sizer]

-----------------------------------------------------------------------------
(* The worker thread.                                                      *)

RequestJob(kind) ==
    /\ up
    /\ row
    /\ lastJob < MaxJobId
    /\ \A q \in table : q.kind # kind
    /\ lastJob' = lastJob + 1
    /\ table' = table \cup {Queued(lastJob + 1, kind)}
    /\ UNCHANGED <<row, synced, dir, staging, cache, lock, job, client, process>>

Claim ==
    /\ up
    /\ job.pc = "idle"
    /\ ~stopping
    /\ \A q \in table : q.status = "queued"
    /\ \E q \in table :
         /\ \A o \in table : q.id <= o.id
         /\ table' = (table \ {q}) \cup {[q EXCEPT !.status = "running"]}
         /\ job' = Standing("claimed", q.id, q.kind)
    /\ UNCHANGED <<row, synced, lastJob, dir, staging, cache, lock, client, process>>

At(pc) == up /\ job.pc = pc

(* execute reads the row before it takes the lock, and not again.  A       *)
(* repository may have been paused since the job was claimed.              *)
ReadRow ==
    /\ At("claimed")
    /\ \/ row /\ job' = [job EXCEPT !.pc = "locking"]
       \/ row /\ job' = [job EXCEPT !.pc = "done", !.result = "requeue"]
       \/ ~row /\ job' = [job EXCEPT !.pc = "done", !.result = "failed"]
    /\ UNCHANGED <<database, dir, staging, cache, lock, client, process>>

LockMirrorShared ==
    /\ At("locking")
    /\ Shared(JobThread)
    /\ job' = [job EXCEPT !.pc = "probe"]
    /\ UNCHANGED <<database, dir, staging, cache, client, process>>
LockMirror ==
    /\ At("locking")
    /\ IF job.kind = "health" THEN Shared(JobThread) ELSE Exclusive(JobThread)
    /\ job' = [job EXCEPT !.pc = "probe"]
    /\ UNCHANGED <<database, dir, staging, cache, client, process>>

(* The body returns; its lock guard goes out of scope.  killed says that a *)
(* command of the body was stopped by the shutdown without being noticed.  *)
Return(result, killed) ==
    /\ job' = [job EXCEPT !.pc = "done", !.result = result, !.killed = killed]
    /\ Release(JobThread)

(* What is left in the staging directory when it is removed; the error of  *)
(* remove_all is ignored.                                                  *)
Unstage ==
    \/ staging' = [staging EXCEPT ![job.id] = "none"]
    \/ Faults /\ staging' = [staging EXCEPT ![job.id] = "partial"]

(* repository_available runs a git command: it fails when there is no      *)
(* mirror, when it takes too long, and when the shutdown kills it.         *)
Unavailable ==
    /\ At("probe")
    /\ job.kind = "clone" => dir # "absent"
    /\ \E killed \in {FALSE, stopping /\ dir = "whole"} : Return("failed", killed)
    /\ UNCHANGED <<database, dir, staging, cache, client, process>>

StartFetch ==
    /\ At("probe")
    /\ job.kind \in {"clone", "fetch"}
    /\ dir # "absent"
    /\ dir' = IF dir = "whole" THEN "fetching" ELSE dir
    /\ job' = [job EXCEPT !.pc = "fetching"]
    /\ UNCHANGED <<database, staging, cache, lock, client, process>>

StartClone ==
    /\ At("probe")
    /\ job.kind = "clone"
    /\ dir = "absent"
    /\ staging' = [staging EXCEPT ![job.id] = "partial"]
    /\ job' = [job EXCEPT !.pc = "cloning"]
    /\ UNCHANGED <<database, dir, cache, lock, client, process>>

(* git clone --mirror: only a complete clone goes on to the rename.        *)
CloneSucceeds ==
    /\ At("cloning")
    /\ staging' = [staging EXCEPT ![job.id] = "whole"]
    /\ job' = [job EXCEPT !.pc = "rename"]
    /\ UNCHANGED <<database, dir, cache, lock, client, process>>

CloneFailsUnnoticed ==
    /\ At("cloning")
    /\ job' = [job EXCEPT !.pc = "rename"]
    /\ UNCHANGED <<database, dir, staging, cache, lock, client, process>>
CloneFailsLittering ==
    /\ At("cloning")
    /\ Return("failed", FALSE)
    /\ UNCHANGED <<database, dir, staging, cache, client, process>>
CloneFails ==
    /\ At("cloning")
    /\ Unstage
    /\ \/ Return("failed", FALSE)
       \/ stopping /\ Return("requeue", FALSE)
    /\ UNCHANGED <<database, dir, cache, client, process>>

Rename ==
    /\ At("rename")
    /\ dir = "absent"
    /\ dir' = staging[job.id]
    /\ staging' = [staging EXCEPT ![job.id] = "none"]
    /\ job' = [job EXCEPT !.pc = "sync"]
    /\ UNCHANGED <<database, cache, lock, client, process>>

RenameFails ==
    /\ At("rename")
    /\ Faults \/ dir # "absent"
    /\ Unstage
    /\ Return("failed", FALSE)
    /\ UNCHANGED <<database, dir, cache, client, process>>

Fetched == dir' = IF dir = "fetching" THEN "whole" ELSE dir

FetchSucceeds ==
    /\ At("fetching")
    /\ Fetched
    /\ job' = [job EXCEPT !.pc = "sync"]
    /\ UNCHANGED <<database, staging, cache, lock, client, process>>

FetchFails ==
    /\ At("fetching")
    /\ Fetched
    /\ \/ Return("failed", FALSE)
       \/ stopping /\ Return("requeue", FALSE)
    /\ UNCHANGED <<database, staging, cache, client, process>>

(* synchronize_repository_state: for-each-ref, whose interruption is not   *)
(* looked at, then one transaction, which throws without the row unless    *)
(* there are no refs to insert.                                            *)
EnumerateRefsFails ==
    /\ At("sync")
    /\ \E killed \in {FALSE, stopping} : Return("failed", killed)
    /\ UNCHANGED <<database, dir, staging, cache, client, process>>

Synchronize ==
    /\ At("sync")
    /\ synced' = row
    /\ \/ Return("success", FALSE)
       \/ ~row /\ Return("throw", FALSE)
    /\ UNCHANGED <<row, table, lastJob, dir, staging, cache, client, process>>

(* health_repository asks the remote first, then the mirror.               *)
RemoteFails ==
    /\ At("probe")
    /\ job.kind = "health"
    /\ \/ Return("failed", FALSE)
       \/ stopping /\ Return("requeue", FALSE)
    /\ UNCHANGED <<database, dir, staging, cache, client, process>>

Check ==
    /\ At("probe")
    /\ job.kind = "health"
    /\ dir # "absent"
    /\ job' = [job EXCEPT !.pc = "checking"]
    /\ UNCHANGED <<database, dir, staging, cache, lock, client, process>>

CheckEnds ==
    /\ At("checking")
    /\ \/ Return("success", FALSE)
       \/ Return("failed", FALSE)
       \/ stopping /\ Return("requeue", FALSE)
    /\ UNCHANGED <<database, dir, staging, cache, client, process>>

Throw ==
    /\ Faults
    /\ up
    /\ job.pc \notin {"idle", "locking", "done"}
    /\ Fetched
    /\ Return("throw", FALSE)
    /\ UNCHANGED <<database, staging, cache, client, process>>

(* finish_job or requeue_job; an exception is retried a few times.  When   *)
(* these throw again the job is left running.                              *)
Settle ==
    /\ At("done")
    /\ \/ /\ job.result # "requeue"
          /\ table' = {q \in table : q.id # job.id}
       \/ /\ job.result \in {"requeue", "throw"}
          /\ table' = {IF q.id = job.id THEN [q EXCEPT !.status = "queued"] ELSE q :
                         q \in table}
       \/ Faults /\ UNCHANGED table
    /\ job' = Idle
    /\ UNCHANGED <<row, synced, lastJob, dir, staging, cache, lock, client, process>>

JobStep ==
    \/ Claim \/ ReadRow \/ LockMirror \/ Unavailable
    \/ StartFetch \/ FetchSucceeds \/ FetchFails
    \/ StartClone \/ CloneSucceeds \/ CloneFails \/ Rename \/ RenameFails
    \/ EnumerateRefsFails \/ Synchronize
    \/ RemoteFails \/ Check \/ CheckEnds \/ Throw \/ Settle

-----------------------------------------------------------------------------
(* The HTTP requests.  Each handler reads the row first; a request for a   *)
(* repository that is not there is answered at once and left out.          *)

In(c, pc) == up /\ client[c].pc = pc

Move(c, pc) == client' = [client EXCEPT ![c].pc = pc]
Answer(c, reply) ==
    client' = [client EXCEPT ![c] = [@ EXCEPT !.pc = "answered", !.reply = reply]]

Begin(c, kind) ==
    /\ In(c, "idle")
    /\ row
    /\ LET first == IF kind = "delete" THEN "dropping" ELSE "locking"
       IN  client' = [client EXCEPT ![c] = [@ EXCEPT !.kind = kind, !.pc = first]]
    /\ UNCHANGED <<database, dir, staging, cache, lock, job, process>>

(* Database::delete_repository; the jobs go with the row.                  *)
DropRowInMemoryOnly(c) ==
    /\ In(c, "dropping")
    /\ Move(c, "locking")
    /\ UNCHANGED <<database, dir, staging, cache, lock, job, process>>
DropRow(c) ==
    /\ In(c, "dropping")
    /\ row' = FALSE
    /\ synced' = FALSE
    /\ table' = {}
    /\ IF row THEN Move(c, "locking") ELSE Answer(c, "gone")
    /\ UNCHANGED <<lastJob, dir, staging, cache, lock, job, process>>

(* The locks a handler takes, in this order.                               *)
LocksReversed(kind) ==
    CASE kind = "read"    -> <<"shared">>
      [] kind = "measure" -> <<"sizeCache", "shared">>
      [] kind = "delete"  -> <<"exclusive", "sizeCache">>
Locks(kind) ==
    CASE kind = "read"    -> <<"shared">>
      [] kind = "measure" -> <<"sizeCache", "shared">>
      [] kind = "delete"  -> <<"sizeCache", "exclusive">>

Lock(c) ==
    LET order == Locks(client[c].kind)
        next  == client[c].held + 1
    IN  /\ In(c, "locking")
        /\ next \in DOMAIN order
        /\ \/ order[next] = "shared" /\ Shared(c)
           \/ order[next] = "exclusive" /\ Exclusive(c)
           \/ order[next] = "sizeCache" /\ SizeCache(c)
        /\ LET after == IF next = Len(order) THEN "inside" ELSE "locking"
           IN  client' = [client EXCEPT ![c] = [@ EXCEPT !.held = next, !.pc = after]]
        /\ UNCHANGED <<database, dir, staging, cache, job, process>>

(* A fresh size-cache file answers without the mirror being looked at.     *)
CacheIsFresh(c) ==
    /\ In(c, "locking")
    /\ client[c].kind = "measure"
    /\ client[c].held = 1
    /\ cache
    /\ Answer(c, "done")
    /\ Release(c)
    /\ UNCHANGED <<database, dir, staging, cache, job, process>>

(* Browsing and exporting end with the handler's return.                   *)
Read(c) ==
    /\ In(c, "inside")
    /\ client[c].kind = "read"
    /\ Answer(c, IF dir = "absent" THEN "error" ELSE "done")
    /\ Release(c)
    /\ UNCHANGED <<database, dir, staging, cache, job, process>>

(* repository_disk_usage writes the cache file under both locks.           *)
Measure(c) ==
    /\ In(c, "inside")
    /\ client[c].kind = "measure"
    /\ \/ dir # "absent" /\ cache' = TRUE /\ Answer(c, "done")
       \/ UNCHANGED cache /\ Answer(c, "error")
    /\ Release(c)
    /\ UNCHANGED <<database, dir, staging, job, process>>

(* delete_repository_directory: the cache file, then the directory, whose  *)
(* removal takes time and may stop half-way.                               *)
RemoveCacheNever(c) ==
    /\ In(c, "inside")
    /\ client[c].kind = "delete"
    /\ Move(c, "removing")
    /\ UNCHANGED <<database, dir, staging, cache, lock, job, process>>
RemoveCache(c) ==
    /\ In(c, "inside")
    /\ client[c].kind = "delete"
    /\ cache' = FALSE
    /\ Move(c, "removing")
    /\ UNCHANGED <<database, dir, staging, lock, job, process>>

RemoveSome(c) ==
    /\ In(c, "removing")
    /\ client[c].kind = "delete"
    /\ dir = "whole"
    /\ dir' = "partial"
    /\ UNCHANGED <<database, staging, cache, lock, job, client, process>>

RemoveRest(c) ==
    /\ In(c, "removing")
    /\ client[c].kind = "delete"
    /\ dir # "whole"
    /\ dir' = "absent"
    /\ Answer(c, "done")
    /\ Release(c)
    /\ UNCHANGED <<database, staging, cache, job, process>>

DeletionFails(c) ==
    /\ Faults
    /\ In(c, "dropping") \/ In(c, "inside") \/ In(c, "removing")
    /\ client[c].kind = "delete"
    /\ Answer(c, "error")
    /\ Release(c)
    /\ UNCHANGED <<database, dir, staging, cache, job, process>>

Serve(c) ==
    \/ DropRow(c) \/ Lock(c) \/ CacheIsFresh(c) \/ Read(c) \/ Measure(c)
    \/ RemoveCache(c) \/ RemoveSome(c) \/ RemoveRest(c) \/ DeletionFails(c)

-----------------------------------------------------------------------------
(* The process.                                                            *)

RequestShutdown ==
    /\ up
    /\ stopping' = TRUE
    /\ UNCHANGED <<database, dir, staging, cache, lock, job, client, up>>

(* Requests under way get no answer, locks and threads are gone.  So are   *)
(* the git commands, which is an assumption: they have process groups of   *)
(* their own (process.cpp:191), and one that lives on after a crash would  *)
(* still write below a directory that the next start takes to be quiet.    *)
Down ==
    /\ up' = FALSE
    /\ job' = Idle
    /\ client' = [c \in Client |->
                    IF client[c].pc \in {"idle", "answered"} THEN client[c]
                    ELSE [client[c] EXCEPT !.pc = "answered", !.reply = "lost"]]
    /\ lock' = Free
    /\ Fetched
    /\ UNCHANGED <<database, staging, cache, stopping>>

(* The server and the workers are joined first.                            *)
StopCleanly ==
    /\ up
    /\ stopping
    /\ job.pc = "idle"
    /\ \A c \in Client : client[c].pc \in {"idle", "answered"}
    /\ Down

Crash == up /\ Down

(* recover_interrupted_jobs and cleanup_orphaned_temp_dirs.                *)
CleanUp ==
    \E kept \in IF Faults THEN SUBSET JobId ELSE {{}} :
        staging' = [j \in JobId |-> IF j \in kept THEN staging[j] ELSE "none"]

Start ==
    /\ ~up
    /\ up' = TRUE
    /\ stopping' = FALSE
    /\ table' = {[q EXCEPT !.status = "queued"] : q \in table}
    /\ CleanUp
    /\ UNCHANGED <<row, synced, lastJob, dir, cache, lock, job, client>>

Next == \/ \E kind \in JobKind : RequestJob(kind)
        \/ JobStep
        \/ \E c \in Client : Serve(c) \/ \E kind \in Request : Begin(c, kind)
        \/ RequestShutdown \/ StopCleanly \/ Crash \/ Start

Spec == Init /\ [][Next]_vars

(* Threads go on when they can; a mutex that is free is given to somebody. *)
Fairness == WF_vars(JobStep) /\ \A c \in Client : WF_vars(Serve(c))
FairSpec == Spec /\ Fairness

-----------------------------------------------------------------------------
(* Properties.                                                             *)

Reading(t) ==
    \/ t \in Client /\ client[t].pc = "inside" /\ client[t].kind # "delete"
    \/ t = JobThread /\ job.pc \in {"probe", "checking"} /\ job.kind = "health"

(* Every variable stays within its type, and no job id is issued twice.    *)
TypeOK ==
    /\ row \in BOOLEAN /\ synced \in BOOLEAN
    /\ table \subseteq [id : JobId, kind : JobKind, status : {"queued", "running"}]
    /\ lastJob \in JobId
    /\ \A q, o \in table : q.id <= lastJob /\ (q.id = o.id => q = o)
    /\ dir \in DirState
    /\ staging \in [JobId -> Staged]
    /\ cache \in BOOLEAN
    /\ lock \in [writer : Thread \cup {NoOne}, readers : SUBSET Thread,
                 sizer : Thread \cup {NoOne}]
    /\ job \in [pc : {"idle", "claimed", "locking", "probe", "cloning", "rename",
                      "fetching", "sync", "checking", "done"},
                id : 0 .. MaxJobId, kind : JobKind,
                result : {"none", "success", "failed", "requeue", "throw"},
                killed : BOOLEAN]
    /\ client \in [Client -> [pc : {"idle", "dropping", "locking", "inside",
                                    "removing", "answered"},
                              kind : Request, held : 0 .. 2,
                              reply : {"none", "done", "gone", "error", "lost"}]]
    /\ up \in BOOLEAN /\ stopping \in BOOLEAN

(* While somebody reads the mirror under the shared lock -- a page, an     *)
(* export, a measurement, git fsck -- nothing changes it: no fetch, no     *)
(* rename of a clone, no removal.                                          *)
StableWhileRead ==
    [][\A t \in Thread : Reading(t) /\ Reading(t)' => UNCHANGED dir]_vars

(* What stands at the mirror's path while the repository exists is never   *)
(* half a clone or half a removal, whatever is interrupted or crashes.     *)
MirrorIsComplete == row => dir # "partial"

(* A repository recorded as synchronised has its mirror: the row goes      *)
(* before the directory does.                                              *)
SyncedIsPresent == synced => dir \in {"whole", "fetching"}

(* A staging directory belongs to the clone that is running; what a crash  *)
(* left is gone after the next start.  (Without file faults.)              *)
StagingIsOwned ==
    up => \A j \in JobId : staging[j] # "none" =>
            job.id = j /\ job.pc \in {"cloning", "rename"}

(* A size-cache file never outlives the mirror it measured.                *)
CacheHasMirror == cache => dir # "absent"

(* What the properties above rest on.  Who works on the mirror holds its   *)
(* lock; writers hold it alone.                                            *)
JobBody   == {"probe", "cloning", "rename", "fetching", "sync", "checking"}
Writing(t) ==
    \/ t \in Client /\ client[t].pc \in {"inside", "removing"} /\ client[t].kind = "delete"
    \/ t = JobThread /\ job.pc \in JobBody /\ job.kind # "health"

LocksAreHeld ==
    /\ lock.writer # NoOne => lock.readers = {}
    /\ \A t \in Thread : /\ Writing(t) => lock.writer = t
                         /\ Reading(t) => t \in lock.readers

(* The body of a job is where its kind and the directories allow it.       *)
BodyFitsMirror ==
    /\ job.pc # "idle" => job.id \in JobId
    /\ job.pc \in {"cloning", "rename"} => job.kind = "clone"
    /\ job.pc \in {"fetching", "sync"} => job.kind # "health"
    /\ job.pc = "checking" => job.kind = "health"
    /\ job.pc = "rename" => staging[job.id] = "whole"
    /\ job.pc \in {"fetching", "sync"} => dir # "absent"
    /\ dir = "fetching" => job.pc = "fetching"
    /\ ~up => job.pc = "idle"

(* The row goes first, the size cache second, the directory last.          *)
DeletionInOrder ==
    /\ synced => row
    /\ \A c \in Client : client[c].kind = "delete" =>
         /\ client[c].pc \in {"locking", "inside", "removing"} => ~row
         /\ client[c].pc = "removing" => ~cache

(* The inductive invariant.                                                *)
Safety == /\ MirrorIsComplete /\ SyncedIsPresent /\ CacheHasMirror
          /\ LocksAreHeld /\ BodyFitsMirror /\ DeletionInOrder

(* Every request is answered, or the process ends: the size-cache mutex is *)
(* always taken before the repository lock.                                *)
RequestsEnd == \A c \in Client : client[c].pc = "locking" ~> client[c].pc = "answered"

(* The repository's job comes to its end too.                              *)
JobsEnd == job.pc # "idle" ~> job.pc = "idle"

(* The locks of a repository never leave anybody waiting for ever: neither *)
(* a request nor the job (repository_lock, size_cache_mutex).              *)
NobodyWaitsForEver == RequestsEnd /\ JobsEnd

(* A deletion that was answered with success leaves no mirror (README:     *)
(* "permanently removes the repository ... then removes its local bare     *)
(* mirror").  A clone that read the row before the deletion and gets the   *)
(* lock after it puts a mirror there that nothing will ever remove.        *)
DeletedIsGone ==
    (\E c \in Client : client[c].kind = "delete" /\ client[c].reply = "done")
        => dir = "absent"

(* A job that the shutdown interrupted goes back to the queue (README:     *)
(* "Returns the interrupted job to the queue (not a permanent failure)").  *)
(* The code looks at the interruption of clone, fetch and fsck, but not at *)
(* that of the for-each-ref and rev-parse commands around them.            *)
InterruptedIsNotFailed == job.result = "failed" => ~job.killed
=============================================================================
