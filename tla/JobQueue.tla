------------------------------ MODULE JobQueue ------------------------------
(***************************************************************************)
(* The persistent job queue of GitCube: the tables `repositories' and      *)
(* `jobs', the transactions of database.cpp on them, the worker threads    *)
(* that claim jobs and run them, the HTTP handlers that submit and cancel  *)
(* work, graceful shutdown, crash and the recovery at the next start.      *)
(*                                                                         *)
(* One action is one SQLite transaction (they are serialised by BEGIN      *)
(* IMMEDIATE) together with the thread-local work around it.  What a git   *)
(* or curl command reports is a nondeterministic choice; of a mirror       *)
(* directory only "is it in place" is kept, beside the row it belongs to.  *)
(*                                                                         *)
(* Left out: texts (messages, output, errors), timestamps other than "is   *)
(* the job due", the columns importance, group, note, health_status and    *)
(* metadata_status, which nothing in the queue reads.                      *)
(***************************************************************************)
EXTENDS Integers, FiniteSets

CONSTANTS
    Worker,      \* the worker threads (--workers)
    Url,         \* canonical repository URLs
    GitHub,      \* those of them that live on GitHub
    Account,     \* GitHub accounts that can be imported
    MaxRepoId,   \* bound: repository ids ever issued
    MaxJobId,    \* bound: job ids ever issued
    Retained,    \* terminal jobs kept by the pruning (5000 in the code)
    CatchLimit,  \* attempts after which an exception is final (3 in the code)
    ApiLimit,    \* attempts after which a transient API error is final (5)
    DbFaults,    \* may the transaction that ends a job throw?
    Requested,   \* bound: the kinds of job asked for on repository pages
    BulkKind,    \* bound: the kinds of job asked for in bulk
    NULL         \* the SQL NULL

ASSUME WorkerAssumption   == IsFiniteSet(Worker)
ASSUME UrlAssumption      == IsFiniteSet(Url) /\ GitHub \subseteq Url
ASSUME BoundAssumption    == MaxRepoId \in Nat /\ MaxJobId \in Nat
ASSUME RetainedAssumption == Retained \in Nat
ASSUME LimitAssumption    == CatchLimit \in Nat \ {0} /\ ApiLimit \in Nat \ {0}
ASSUME FaultAssumption    == DbFaults \in BOOLEAN
ASSUME RequestAssumption  == /\ Requested \subseteq {"clone", "fetch", "health", "metadata"}
                             /\ BulkKind \subseteq {"fetch", "health"}
ASSUME NullAssumption     == NULL \notin Int /\ NULL \notin Account

RepoId == 1 .. MaxRepoId
JobId  == 1 .. MaxJobId

RepoKind == {"clone", "fetch", "health", "metadata"}
ApiKind  == {"metadata", "account"}
Kind     == RepoKind \cup ApiKind
Active   == {"queued", "running"}
Terminal == {"success", "failed"}

(* attempts is only ever compared with the two limits, so it saturates.    *)
AttemptCap == IF CatchLimit > ApiLimit THEN CatchLimit ELSE ApiLimit
Bump(n)    == IF n < AttemptCap THEN n + 1 ELSE n

RepoRow == [url       : Url,
            paused    : BOOLEAN,
            status    : {"queued", "ready", "missing", "error"},
            operation : {"", "cloning", "fetching", "checking", "metadata"},
            synced    : BOOLEAN,      \* last_success_at is set
            described : BOOLEAN,      \* metadata_fetched_at is set
            mirror    : BOOLEAN]      \* on disk: a mirror was put in place

JobRow == [repo     : RepoId \cup {NULL},
           kind     : Kind,
           payload  : Account \cup {NULL},
           status   : Active \cup Terminal,
           due      : BOOLEAN,        \* scheduled_at is '' or has passed
           attempts : 0 .. AttemptCap]

(* A worker thread: where it stands in worker_loop and in the job's body,  *)
(* its copy of the claimed row, and the result the body returned.          *)
Executing == {"claimed", "locked", "cloning", "published", "fetching",
              "checking", "metadata", "releases", "account", "link"}
Holding   == Executing \cup {"done", "catch"}
Result    == {"none", "success", "failed", "requeue", "delay"}

WorkerRow == [pc       : {"poll", "exited"} \cup Holding,
              id       : 0 .. MaxJobId,
              repo     : RepoId \cup {NULL},
              kind     : Kind,
              attempts : 0 .. AttemptCap,
              link     : BOOLEAN,     \* the snapshot asks for a metadata job
              result   : Result]

VARIABLES
    repos,      \* table repositories: a function on the ids present
    jobs,       \* table jobs: a function on the ids present
    lastRepo,   \* AUTOINCREMENT sequence of repositories
    lastJob,    \* AUTOINCREMENT sequence of jobs
    worker,     \* the worker threads
    bulk,       \* the Fetch all / Check all request between its two steps
    up,         \* the process is running
    stopping    \* shutdown_requested

vars == <<repos, jobs, lastRepo, lastJob, worker, bulk, up, stopping>>
tables == <<repos, jobs, lastRepo, lastJob>>

NoBulk == [kind |-> "none", picked |-> {}]
Free(state) == [pc |-> state, id |-> 0, repo |-> NULL, kind |-> "clone",
                attempts |-> 0, link |-> FALSE, result |-> "none"]

Init == /\ repos = [r \in {} |-> NULL]
        /\ jobs = [j \in {} |-> NULL]
        /\ lastRepo = 0
        /\ lastJob = 0
        /\ worker = [w \in Worker |-> Free("poll")]
        /\ bulk = NoBulk
        /\ up = TRUE
        /\ stopping = FALSE

-----------------------------------------------------------------------------
(* The rows the transactions work on.                                      *)

NewRepo(u) == [url |-> u, paused |-> FALSE, status |-> "queued",
               operation |-> "", synced |-> FALSE, described |-> FALSE,
               mirror |-> FALSE]

NewJob(r, kind, payload) ==
    [repo |-> r, kind |-> kind, payload |-> payload, status |-> "queued",
     due |-> TRUE, attempts |-> 0]

Injective(f) == \A a, b \in DOMAIN f : f[a] = f[b] => a = b

(* The de-duplication of enqueue_job_locked: an active job of this kind    *)
(* for the repository or, for an account import, for the same account.     *)
HasActive(r, kind, payload) ==
    \E j \in DOMAIN jobs : /\ jobs[j].repo = r
                           /\ jobs[j].kind = kind
                           /\ jobs[j].payload = payload
                           /\ jobs[j].status \in Active

(* Insert one job; a clone job also puts its repository into "queued".     *)
InsertJob(r, kind, payload) ==
    /\ lastJob < MaxJobId
    /\ lastJob' = lastJob + 1
    /\ jobs' = [j \in DOMAIN jobs \cup {lastJob + 1} |->
                  IF j = lastJob + 1 THEN NewJob(r, kind, payload) ELSE jobs[j]]
    /\ repos' = IF kind = "clone" THEN [repos EXCEPT ![r].status = "queued"]
                                  ELSE repos

EnqueueJob(r, kind, payload) ==
    \/ ~HasActive(r, kind, payload) /\ InsertJob(r, kind, payload)
    \/ HasActive(r, kind, payload) /\ UNCHANGED <<repos, jobs, lastJob>>

(* One transaction of enqueue_all: a job for every picked repository that  *)
(* has none, numbered in the order of the listing.                         *)
UnservedAll(picked, kind) == picked
Unserved(picked, kind) == {r \in picked : ~HasActive(r, kind, NULL)}

EnqueueEach(picked, kind) ==
    LET last == lastJob + Cardinality(Unserved(picked, kind))
    IN  /\ last <= MaxJobId
        /\ lastJob' = last
        /\ \E order \in [lastJob + 1 .. last -> Unserved(picked, kind)] :
             /\ Injective(order)
             /\ jobs' = [j \in DOMAIN jobs \cup (lastJob + 1 .. last) |->
                           IF j > lastJob THEN NewJob(order[j], kind, NULL)
                                          ELSE jobs[j]]

(* One transaction of Database::import_repositories: a row and a clone job *)
(* for every URL that has no row; the others are left alone.               *)
Unknown(urls) == {u \in urls : \A r \in DOMAIN repos : repos[r].url # u}

ImportRepositories(urls) ==
    LET n == Cardinality(Unknown(urls))
    IN  /\ lastRepo + n <= MaxRepoId
        /\ lastJob + n <= MaxJobId
        /\ lastRepo' = lastRepo + n
        /\ lastJob' = lastJob + n
        /\ \E order \in [1 .. n -> Unknown(urls)] :
             /\ Injective(order)
             /\ repos' = [r \in DOMAIN repos \cup (lastRepo + 1 .. lastRepo + n) |->
                            IF r > lastRepo THEN NewRepo(order[r - lastRepo])
                                            ELSE repos[r]]
             /\ jobs' = [j \in DOMAIN jobs \cup (lastJob + 1 .. lastJob + n) |->
                           IF j > lastJob
                             THEN NewJob(lastRepo + (j - lastJob), "clone", NULL)
                             ELSE jobs[j]]

(* UPDATE repositories ... WHERE id = r: no effect on a deleted row.       *)
SetOperation(r, op) ==
    IF r \in DOMAIN repos THEN [repos EXCEPT ![r].operation = op] ELSE repos
SetStatus(r, status) ==
    IF r \in DOMAIN repos THEN [repos EXCEPT ![r].status = status] ELSE repos

(* finish_job and requeue_job find the repository through the job's row.   *)
ClearOperationOfJobNever(j) == repos
ClearOperationOfJob(j) ==
    IF j \in DOMAIN jobs THEN SetOperation(jobs[j].repo, "") ELSE repos

(* prune_job_history: of the terminal jobs only the newest stay.           *)
PruneOneTooMany(table) ==
    LET done == {j \in DOMAIN table : table[j].status \in Terminal}
        keep == {j \in DOMAIN table :
                   \/ j \notin done
                   \/ Cardinality({d \in done : d > j}) <= Retained}
    IN  [j \in keep |-> table[j]]
Prune(table) ==
    LET done == {j \in DOMAIN table : table[j].status \in Terminal}
        keep == {j \in DOMAIN table :
                   \/ j \notin done
                   \/ Cardinality({d \in done : d > j}) < Retained}
    IN  [j \in keep |-> table[j]]

FinishJob(j, outcome) ==
    /\ jobs' = Prune(IF j \in DOMAIN jobs
                       THEN [jobs EXCEPT ![j].status = outcome] ELSE jobs)
    /\ repos' = ClearOperationOfJob(j)

RequeueJob(j, now) ==
    /\ jobs' = IF j \in DOMAIN jobs
                 THEN [jobs EXCEPT ![j].status = "queued", ![j].due = now]
                 ELSE jobs
    /\ repos' = ClearOperationOfJob(j)

(* delay_pending_github_jobs                                               *)
DelayPendingGithubJobs ==
    jobs' = [j \in DOMAIN jobs |->
               IF jobs[j].kind \in ApiKind /\ jobs[j].status = "queued"
                 THEN [jobs[j] EXCEPT !.due = FALSE] ELSE jobs[j]]

-----------------------------------------------------------------------------
(* The HTTP handlers.  A request for what already exists, or for a         *)
(* repository that does not, changes nothing and is left out.              *)

Import(urls) ==
    /\ up
    /\ ImportRepositories(urls)
    /\ UNCHANGED <<worker, bulk, up, stopping>>

ImportAccount(a) ==
    /\ up
    /\ EnqueueJob(NULL, "account", a)
    /\ UNCHANGED <<lastRepo, worker, bulk, up, stopping>>

RequestJob(r, kind) ==
    /\ up
    /\ r \in DOMAIN repos
    /\ EnqueueJob(r, kind, NULL)
    /\ UNCHANGED <<lastRepo, worker, bulk, up, stopping>>

SetPaused(r, value) ==
    /\ up
    /\ r \in DOMAIN repos
    /\ repos' = [repos EXCEPT ![r].paused = value]
    /\ UNCHANGED <<jobs, lastRepo, lastJob, worker, bulk, up, stopping>>

(* The row goes, and by ON DELETE CASCADE every job of the repository.     *)
DeleteRepository(r) ==
    /\ up
    /\ r \in DOMAIN repos
    /\ repos' = [x \in DOMAIN repos \ {r} |-> repos[x]]
    /\ jobs' = [j \in {k \in DOMAIN jobs : jobs[k].repo # r} |-> jobs[j]]
    /\ UNCHANGED <<lastRepo, lastJob, worker, bulk, up, stopping>>

(* enqueue_all lists the repositories in one query ...                     *)
Eligible(r, kind) ==
    /\ ~repos[r].paused
    /\ kind = "fetch" => repos[r].synced
    /\ repos[r].status # "queued"

ListForBulk(kind) ==
    /\ up
    /\ bulk = NoBulk
    /\ bulk' = [kind |-> kind,
                picked |-> {r \in DOMAIN repos : Eligible(r, kind)}]
    /\ UNCHANGED <<tables, worker, up, stopping>>

(* ... and inserts the jobs in a later transaction, which the foreign key  *)
(* rolls back as a whole when a listed repository is gone by then.         *)
InsertBulk ==
    /\ up
    /\ bulk # NoBulk
    /\ IF bulk.picked \subseteq DOMAIN repos
         THEN EnqueueEach(bulk.picked, bulk.kind) ELSE UNCHANGED <<jobs, lastJob>>
    /\ bulk' = NoBulk
    /\ UNCHANGED <<repos, lastRepo, worker, up, stopping>>

-----------------------------------------------------------------------------
(* The worker loop.                                                        *)

At(w, pc) == up /\ worker[w].pc = pc

Goto(w, pc) == worker' = [worker EXCEPT ![w].pc = pc]

Return(w, outcome) ==
    worker' = [worker EXCEPT ![w].pc = "done", ![w].result = outcome]

(* The end of an iteration: the loop looks at shutdown_requested again.    *)
NextIterationQuitting(w) ==
    worker' = [worker EXCEPT ![w] = Free("exited")]
NextIteration(w) ==
    worker' = [worker EXCEPT ![w] = Free(IF stopping THEN "exited" ELSE "poll")]

ExitWhenIdle(w) ==
    /\ At(w, "poll")
    /\ stopping
    /\ \A j \in DOMAIN jobs : jobs[j].status # "queued"
    /\ worker' = [worker EXCEPT ![w] = Free("exited")]
    /\ UNCHANGED <<tables, bulk, up, stopping>>
Exit(w) ==
    /\ At(w, "poll")
    /\ stopping
    /\ worker' = [worker EXCEPT ![w] = Free("exited")]
    /\ UNCHANGED <<tables, bulk, up, stopping>>

(* The WHERE clause of claim_next_job.                                     *)
ClaimableAnyRepo(j) ==
    /\ jobs[j].status = "queued"
    /\ jobs[j].due
    /\ jobs[j].repo # NULL => ~repos[jobs[j].repo].paused
ClaimableTwice(j) ==
    /\ jobs[j].status \in Active
    /\ jobs[j].due
    /\ jobs[j].repo # NULL => ~repos[jobs[j].repo].paused
Claimable(j) ==
    /\ jobs[j].status = "queued"
    /\ jobs[j].due
    /\ jobs[j].repo # NULL =>
         /\ ~repos[jobs[j].repo].paused
         /\ \A k \in DOMAIN jobs :
              jobs[k].repo = jobs[j].repo => jobs[k].status # "running"

(* claim_next_job takes the claimable job with the lowest id; a worker     *)
(* that finds none waits and looks again, which changes nothing.           *)
ClaimNextJob(w) ==
    /\ At(w, "poll")
    /\ \E j \in DOMAIN jobs :
         /\ Claimable(j)
         /\ \A k \in DOMAIN jobs : k < j => ~Claimable(k)
         /\ jobs' = [jobs EXCEPT ![j].status = "running",
                                 ![j].attempts = Bump(@)]
         /\ worker' = [worker EXCEPT ![w] =
                         [pc |-> "claimed", id |-> j, repo |-> jobs[j].repo,
                          kind |-> jobs[j].kind,
                          attempts |-> Bump(jobs[j].attempts),
                          link |-> FALSE, result |-> "none"]]
    /\ UNCHANGED <<repos, lastRepo, lastJob, bulk, up, stopping>>

(* GitService::execute: read the repository, decide, take the mirror lock. *)
Execute(w) ==
    LET r == worker[w].repo IN
    /\ At(w, "claimed")
    /\ \/ worker[w].kind = "account" /\ Goto(w, "account")
       \/ /\ worker[w].kind # "account"
          /\ r \notin DOMAIN repos
          /\ Return(w, "failed")
       \/ /\ worker[w].kind # "account"
          /\ r \in DOMAIN repos
          /\ repos[r].paused
          /\ Return(w, "requeue")
       \/ /\ worker[w].kind # "account"
          /\ r \in DOMAIN repos
          /\ ~repos[r].paused
          /\ IF worker[w].kind = "metadata" /\ repos[r].url \notin GitHub
               THEN Return(w, "failed")
               ELSE worker' = [worker EXCEPT
                      ![w].pc = "locked",
                      ![w].link = /\ worker[w].kind = "clone"
                                  /\ repos[r].url \in GitHub
                                  /\ ~repos[r].described]
    /\ UNCHANGED <<tables, bulk, up, stopping>>

(* clone, health and metadata jobs start by setting the operation marker.  *)
Marker == [clone |-> "cloning", fetch |-> "fetching",
           health |-> "checking", metadata |-> "metadata"]

BeginOperation(w) ==
    /\ At(w, "locked")
    /\ worker[w].kind \in {"clone", "health", "metadata"}
    /\ repos' = SetOperation(worker[w].repo, Marker[worker[w].kind])
    /\ Goto(w, Marker[worker[w].kind])
    /\ UNCHANGED <<jobs, lastRepo, lastJob, bulk, up, stopping>>

(* A body that records a status and returns.                               *)
Report(w, status, outcome) ==
    /\ repos' = SetStatus(worker[w].repo, status)
    /\ Return(w, outcome)
    /\ UNCHANGED <<jobs, lastRepo, lastJob, bulk, up, stopping>>

(* Does the repository's directory hold a mirror?  For a repository that   *)
(* was deleted meanwhile either answer is possible.                        *)
MirrorPresent(w) ==
    worker[w].repo \in DOMAIN repos => repos[worker[w].repo].mirror
MirrorAbsent(w) ==
    worker[w].repo \in DOMAIN repos => ~repos[worker[w].repo].mirror

(* fetch_repository, entered by a fetch job or by a clone job that finds a *)
(* mirror in place.  It fails at once when git does not recognise one; the *)
(* probe also fails when it is killed.                                     *)
AtFetch(w) == \/ At(w, "locked") /\ worker[w].kind = "fetch"
              \/ At(w, "cloning") /\ MirrorPresent(w)

FetchUnavailable(w) == AtFetch(w) /\ Report(w, "missing", "failed")

BeginFetch(w) ==
    /\ AtFetch(w)
    /\ MirrorPresent(w)
    /\ repos' = SetOperation(worker[w].repo, "fetching")
    /\ Goto(w, "fetching")
    /\ UNCHANGED <<jobs, lastRepo, lastJob, bulk, up, stopping>>

(* A failed fetch leaves the mirror usable.                                *)
FetchFails(w) == At(w, "fetching") /\ Report(w, "ready", "failed")

(* git clone or the rename fails, or the target is there but unusable.     *)
CloneFails(w) ==
    /\ At(w, "cloning")
    /\ \/ Report(w, "error", "failed")
       \/ MirrorAbsent(w) /\ Report(w, "missing", "failed")

(* git clone succeeded and its staging directory was renamed.              *)
PublishMirror(w) ==
    LET r == worker[w].repo IN
    /\ At(w, "cloning")
    /\ MirrorAbsent(w)
    /\ repos' = IF r \in DOMAIN repos
                  THEN [repos EXCEPT ![r].mirror = TRUE] ELSE repos
    /\ Goto(w, "published")
    /\ UNCHANGED <<jobs, lastRepo, lastJob, bulk, up, stopping>>

(* synchronize_repository_state: list the refs, then store them.  Storing  *)
(* refs of a deleted repository violates the foreign key and throws.       *)
AtSynchronize(w) == At(w, "published") \/ At(w, "fetching")

EnumerateRefsFails(w) ==
    /\ AtSynchronize(w)
    /\ Report(w, "error", "failed")

Synchronize(w) ==
    LET r == worker[w].repo IN
    /\ AtSynchronize(w)
    /\ \/ /\ r \in DOMAIN repos
          /\ repos' = [repos EXCEPT ![r].status = "ready", ![r].synced = TRUE]
          /\ IF At(w, "published") /\ worker[w].link
               THEN Goto(w, "link") ELSE Return(w, "success")
       \/ /\ r \notin DOMAIN repos
          /\ UNCHANGED repos
          /\ Goto(w, "catch") \/ Return(w, "success")
    /\ UNCHANGED <<jobs, lastRepo, lastJob, bulk, up, stopping>>

(* The first clone of a GitHub repository asks for its metadata.           *)
LinkMetadata(w) ==
    LET r == worker[w].repo IN
    /\ At(w, "link")
    /\ \/ /\ r \in DOMAIN repos
          /\ EnqueueJob(r, "metadata", NULL)
          /\ Return(w, "success")
       \/ /\ r \notin DOMAIN repos
          /\ UNCHANGED <<repos, jobs, lastJob>>
          /\ Goto(w, "catch")
    /\ UNCHANGED <<lastRepo, bulk, up, stopping>>

(* health_repository                                                       *)
HealthChecked(w) ==
    /\ At(w, "checking")
    /\ \/ Return(w, "failed")
       \/ MirrorPresent(w) /\ Return(w, "success")
    /\ UNCHANGED <<tables, bulk, up, stopping>>

HealthUnavailable(w) == At(w, "checking") /\ Report(w, "missing", "failed")

(* metadata_repository: the repository's own record is committed before    *)
(* the releases are listed.                                                *)
MetadataStored(w) ==
    LET r == worker[w].repo IN
    /\ At(w, "metadata")
    /\ repos' = IF r \in DOMAIN repos
                  THEN [repos EXCEPT ![r].described = TRUE] ELSE repos
    /\ Goto(w, "releases")
    /\ UNCHANGED <<jobs, lastRepo, lastJob, bulk, up, stopping>>

ReleasesStored(w) ==
    /\ At(w, "releases")
    /\ Return(w, "success")
    /\ UNCHANGED <<tables, bulk, up, stopping>>

(* import_account: every page is imported in a transaction of its own.     *)
ImportPage(w, urls) ==
    /\ At(w, "account")
    /\ ImportRepositories(urls)
    /\ UNCHANGED <<worker, bulk, up, stopping>>

AccountListed(w) ==
    /\ At(w, "account")
    /\ Return(w, "success")
    /\ UNCHANGED <<tables, bulk, up, stopping>>

(* What any GitHub request can come back with.                             *)
AtApi(w) == At(w, "metadata") \/ At(w, "releases") \/ At(w, "account")

RateLimited(w) ==
    /\ AtApi(w)
    /\ DelayPendingGithubJobs
    /\ Return(w, "delay")
    /\ UNCHANGED <<repos, lastRepo, lastJob, bulk, up, stopping>>

ApiFails(w) ==
    /\ AtApi(w)
    /\ \/ Return(w, "failed")
       \/ worker[w].attempts < ApiLimit /\ Return(w, "delay")
    /\ UNCHANGED <<tables, bulk, up, stopping>>

(* A git or curl command that was told to stop because of a shutdown.      *)
Interrupted(w) ==
    /\ stopping
    /\ \/ At(w, "cloning") \/ At(w, "fetching") \/ At(w, "checking")
       \/ AtApi(w)
    /\ Return(w, "requeue")
    /\ UNCHANGED <<tables, bulk, up, stopping>>

(* Anything in the body may throw: a filesystem call, fork, a query.       *)
Throw(w) ==
    /\ up
    /\ worker[w].pc \in Executing
    /\ Goto(w, "catch")
    /\ UNCHANGED <<tables, bulk, up, stopping>>

(* The worker ends the job with what the body returned.                    *)
Settle(w) ==
    /\ At(w, "done")
    /\ IF worker[w].result \in {"requeue", "delay"}
         THEN RequeueJob(worker[w].id, worker[w].result = "requeue")
         ELSE FinishJob(worker[w].id, worker[w].result)
    /\ NextIteration(w)
    /\ UNCHANGED <<lastRepo, lastJob, bulk, up, stopping>>

SettleThrows(w) ==
    /\ DbFaults
    /\ At(w, "done")
    /\ Goto(w, "catch")
    /\ UNCHANGED <<tables, bulk, up, stopping>>

(* The exception handler: requeue with a delay, or fail for good.          *)
RecoverForgetting(w) ==
    /\ At(w, "catch")
    /\ UNCHANGED <<jobs, repos>>
    /\ NextIteration(w)
    /\ UNCHANGED <<lastRepo, lastJob, bulk, up, stopping>>
Recover(w) ==
    /\ At(w, "catch")
    /\ IF worker[w].attempts >= CatchLimit
         THEN FinishJob(worker[w].id, "failed")
         ELSE RequeueJob(worker[w].id, FALSE)
    /\ NextIteration(w)
    /\ UNCHANGED <<lastRepo, lastJob, bulk, up, stopping>>

(* When that throws as well it is only logged: the row stays "running".    *)
RecoverThrows(w) ==
    /\ DbFaults
    /\ At(w, "catch")
    /\ NextIteration(w)
    /\ UNCHANGED <<tables, bulk, up, stopping>>

-----------------------------------------------------------------------------
(* The clock, the signal, the end of the process and the next start.       *)

Elapse(j) ==
    /\ j \in DOMAIN jobs
    /\ jobs[j].status = "queued"
    /\ ~jobs[j].due
    /\ jobs' = [jobs EXCEPT ![j].due = TRUE]
    /\ UNCHANGED <<repos, lastRepo, lastJob, worker, bulk, up, stopping>>

RequestShutdown ==
    /\ up
    /\ ~stopping
    /\ stopping' = TRUE
    /\ UNCHANGED <<tables, worker, bulk, up>>

(* What is only in memory is gone when the process is.                     *)
Down ==
    /\ up' = FALSE
    /\ worker' = [w \in Worker |-> Free("exited")]
    /\ bulk' = NoBulk
    /\ UNCHANGED tables

(* run() returns after the server and every worker have finished.          *)
StopCleanly ==
    /\ up
    /\ stopping
    /\ \A w \in Worker : worker[w].pc = "exited"
    /\ Down
    /\ UNCHANGED stopping

Crash == up /\ Down /\ UNCHANGED stopping

(* initialize prunes the history, recover_interrupted_jobs puts back what  *)
(* was running, and only then the workers start.                           *)
Requeued(table) ==
    [j \in DOMAIN table |->
       IF table[j].status = "running"
         THEN [table[j] EXCEPT !.status = "queued"] ELSE table[j]]

RecoverInterruptedJobsKeepingMarkers ==
    /\ jobs' = Requeued(Prune(jobs))
    /\ UNCHANGED repos
RecoverInterruptedJobs ==
    /\ jobs' = Requeued(Prune(jobs))
    /\ repos' = [r \in DOMAIN repos |-> [repos[r] EXCEPT !.operation = ""]]

Start ==
    /\ ~up
    /\ RecoverInterruptedJobs
    /\ worker' = [w \in Worker |-> Free("poll")]
    /\ up' = TRUE
    /\ stopping' = FALSE
    /\ UNCHANGED <<lastRepo, lastJob, bulk>>

-----------------------------------------------------------------------------
Handler ==
    \/ \E urls \in SUBSET Url : Import(urls)
    \/ \E a \in Account : ImportAccount(a)
    \/ \E r \in DOMAIN repos :
         \/ \E kind \in Requested : RequestJob(r, kind)
         \/ \E value \in BOOLEAN : SetPaused(r, value)
         \/ DeleteRepository(r)
    \/ \E kind \in BulkKind : ListForBulk(kind)
    \/ InsertBulk

CloneStep(w) ==
    \/ FetchUnavailable(w) \/ BeginFetch(w) \/ FetchFails(w) \/ CloneFails(w)
    \/ PublishMirror(w) \/ EnumerateRefsFails(w) \/ Synchronize(w) \/ LinkMetadata(w)

HealthStep(w) == HealthChecked(w) \/ HealthUnavailable(w)

ApiStep(w) ==
    \/ MetadataStored(w) \/ ReleasesStored(w)
    \/ \E urls \in SUBSET Url : ImportPage(w, urls)
    \/ AccountListed(w) \/ RateLimited(w) \/ ApiFails(w)

BodyStep(w) ==
    \/ Execute(w) \/ BeginOperation(w)
    \/ CloneStep(w) \/ HealthStep(w) \/ ApiStep(w)
    \/ Interrupted(w) \/ Throw(w)

WorkerStep(w) ==
    \/ Exit(w) \/ ClaimNextJob(w)
    \/ BodyStep(w)
    \/ Settle(w) \/ SettleThrows(w) \/ Recover(w) \/ RecoverThrows(w)

Process == RequestShutdown \/ StopCleanly \/ Crash \/ Start

Next == \/ Handler
        \/ \E w \in Worker : WorkerStep(w)
        \/ \E j \in JobId : Elapse(j)
        \/ Process

Spec == Init /\ [][Next]_vars

-----------------------------------------------------------------------------
(* Properties.                                                             *)

Running(j) == j \in DOMAIN jobs /\ jobs[j].status = "running"
Queued(j)  == j \in DOMAIN jobs /\ jobs[j].status = "queued"

(* Every variable stays within its type; ids never exceed the sequences.   *)
TypeOK ==
    /\ lastRepo \in 0 .. MaxRepoId
    /\ lastJob \in 0 .. MaxJobId
    /\ DOMAIN repos \subseteq 1 .. lastRepo
    /\ DOMAIN jobs \subseteq 1 .. lastJob
    /\ repos \in [DOMAIN repos -> RepoRow]
    /\ jobs \in [DOMAIN jobs -> JobRow]
    /\ worker \in [Worker -> WorkerRow]
    /\ \A w \in Worker : worker[w].pc = "done" => worker[w].result # "none"
    /\ bulk \in {NoBulk} \cup [kind : {"fetch", "health"}, picked : SUBSET RepoId]
    /\ up \in BOOLEAN
    /\ stopping \in BOOLEAN

(* Per-repository mutual exclusion: claim_next_job never lets two jobs of  *)
(* one repository run, whatever requeues, deletes and restarts happen.     *)
OneRunningPerRepo ==
    \A j, k \in DOMAIN jobs :
        /\ Running(j) /\ Running(k)
        /\ jobs[j].repo = jobs[k].repo
        /\ jobs[j].repo # NULL
        => j = k

(* De-duplication: at most one active job of a kind per repository, and at *)
(* most one active import per account, however the requests interleave.    *)
OneActivePerKind ==
    \A j, k \in DOMAIN jobs :
        /\ jobs[j].status \in Active /\ jobs[k].status \in Active
        /\ jobs[j].repo = jobs[k].repo
        /\ jobs[j].kind = jobs[k].kind
        /\ jobs[j].payload = jobs[k].payload
        => j = k

(* A worker's claim is its own: no other worker holds the same job, and as *)
(* long as the row exists it is "running" and is the row that was claimed. *)
(* finish_job and requeue_job update by id alone and rely on this.         *)
ClaimIsExclusive ==
    \A w \in Worker : worker[w].pc \in Holding =>
        LET j == worker[w].id IN
        /\ j \in DOMAIN jobs => /\ Running(j)
                                /\ jobs[j].repo = worker[w].repo
                                /\ jobs[j].kind = worker[w].kind
        /\ worker[w].repo \in DOMAIN repos => j \in DOMAIN jobs
        /\ \A v \in Worker :
             worker[v].pc \in Holding /\ worker[v].id = j => v = w

(* The operation shown for a repository is that of a job of its own that   *)
(* runs right now: no marker survives the job, a retry or a restart.       *)
MarkerKind(op) ==
    CASE op = "cloning"  -> {"clone"}
      [] op = "fetching" -> {"clone", "fetch"}
      [] op = "checking" -> {"health"}
      [] op = "metadata" -> {"metadata"}
OperationHasJob ==
    \A r \in DOMAIN repos : repos[r].operation # "" =>
        \E j \in DOMAIN jobs : /\ Running(j)
                               /\ jobs[j].repo = r
                               /\ jobs[j].kind \in MarkerKind(repos[r].operation)

(* A "running" row has a worker that will end it.  Only a failure of the   *)
(* transaction that handles a failure can break this.                      *)
RunningHasWorker ==
    up => \A j \in DOMAIN jobs : Running(j) =>
            \E w \in Worker : worker[w].pc \in Holding /\ worker[w].id = j

(* Job history stays bounded: however jobs end, fail and are requeued, and  *)
(* whatever is deleted, no more than Retained rows are terminal.            *)
RetentionHolds ==
    Cardinality({j \in DOMAIN jobs : jobs[j].status \in Terminal}) <= Retained

(* One row per canonical URL, also when imports race.                      *)
UrlsAreUnique ==
    \A r, s \in DOMAIN repos : repos[r].url = repos[s].url => r = s

(* What the properties above rest on: ids are never issued twice, a job's  *)
(* repository exists (the foreign key), a body runs for its kind of job.   *)
ForeignKeys ==
    \A j \in DOMAIN jobs :
        /\ jobs[j].kind = "account" <=> jobs[j].repo = NULL
        /\ jobs[j].repo # NULL => jobs[j].repo \in DOMAIN repos

ClaimIsPast ==
    \A w \in Worker : worker[w].pc \in Holding =>
        /\ worker[w].id \in 1 .. lastJob
        /\ worker[w].repo \in 1 .. lastRepo \cup {NULL}
        /\ worker[w].kind = "account" <=> worker[w].repo = NULL

BodyFitsKind ==
    \A w \in Worker :
        /\ worker[w].pc \in {"cloning", "published", "link"} => worker[w].kind = "clone"
        /\ worker[w].pc = "fetching" => worker[w].kind \in {"clone", "fetch"}

(* Safety is inductive relative to the types ...                           *)
Safety == /\ OneRunningPerRepo /\ OneActivePerKind
          /\ ClaimIsExclusive /\ OperationHasJob /\ UrlsAreUnique
          /\ ForeignKeys /\ ClaimIsPast /\ BodyFitsKind

(* ... and with it the bound on the history, which the life cycle needs.   *)
Invariant == Safety /\ RetentionHolds

(* Fetch all and Check all reach every unpaused repository that has been   *)
(* cloned, unless a clone of it is still to come (README: "skipping paused *)
(* ones, and -- for fetch -- repositories that have never successfully     *)
(* cloned").  The code also skips the status "queued", which a clone job   *)
(* that ends in the exception handler leaves behind for ever.              *)
SyncedIsEligible ==
    \A r \in DOMAIN repos :
        repos[r].synced /\ ~repos[r].paused =>
            Eligible(r, "fetch") \/ HasActive(r, "clone", NULL)

(* A GitHub repository that was cloned has its metadata fetched (README:   *)
(* "A bulk account import queues one metadata fetch per repository").  The *)
(* code queues that job only at the end of the very clone that published   *)
(* the mirror: when that is cut short after the rename, the retry finds a  *)
(* mirror, fetches, and never asks for the metadata.  Says something only  *)
(* where Retained is at least MaxJobId, so that the job is not pruned.     *)
ClonedIsDescribed ==
    \A r \in DOMAIN repos :
        repos[r].url \in GitHub /\ repos[r].synced =>
            \/ repos[r].described
            \/ \E j \in DOMAIN jobs : jobs[j].repo = r /\ jobs[j].kind = "metadata"
            \/ \E j \in DOMAIN jobs : /\ jobs[j].repo = r
                                      /\ jobs[j].kind \in {"clone", "fetch"}
                                      /\ jobs[j].status \in Active

(* The queue implements the life cycle promised for its jobs.              *)
PhaseOf(j) ==
    IF j > lastJob THEN "new"
    ELSE IF j \notin DOMAIN jobs THEN "gone"
    ELSE IF jobs[j].status \in Terminal THEN "ended"
    ELSE jobs[j].status

jobPhase == [j \in JobId |-> PhaseOf(j)]
jobOwner == [j \in JobId |-> IF j \in DOMAIN jobs THEN jobs[j].repo ELSE NULL]

Lifecycle == INSTANCE JobLifecycle WITH
    Job <- JobId, Owner <- RepoId, NoOwner <- NULL,
    phase <- jobPhase, owner <- jobOwner

ImplementsLifecycle == Lifecycle!Spec

(* Fairness: a worker thread that can go on does, and a delay passes.  Git *)
(* and curl commands are assumed to end.                                   *)
Fairness == /\ \A w \in Worker : WF_vars(WorkerStep(w))
            /\ \A j \in JobId : WF_vars(Elapse(j))
            /\ WF_vars(StopCleanly)

FairSpec == Spec /\ Fairness

(* When the process stays up, nothing is paused and GitHub stops rate      *)
(* limiting, the queue drains: every queued job ends.                      *)
QueueDrains ==
    (<>[](up /\ ~stopping) /\ <>[](\A r \in DOMAIN repos : ~repos[r].paused)
      /\ <>[](\A j \in DOMAIN jobs : jobs[j].due))
        => \A j \in JobId : Queued(j) ~> ~(Queued(j) \/ Running(j))

(* A requested shutdown completes.                                         *)
ShutdownCompletes == stopping ~> ~up
=============================================================================
