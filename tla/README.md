# GitCube in TLA+

GitCube is a single C++ process that keeps bare mirrors of Git repositories: an
HTTP server with pages and forms, a SQLite file with the repositories and a
persistent job queue, worker threads that run `git` and `curl`, and a directory
tree with the mirrors. This directory holds specifications of it, the TLC
configurations that check them on small instances, and proofs that TLAPS checks.

## The system

| Part | State | Operations | Talks to |
|---|---|---|---|
| Store (`database.cpp`) | tables `repositories`, `jobs`, `refs`, `releases`, ids from AUTOINCREMENT | import, enqueue, enqueue in bulk, claim, finish, requeue, delay, pause, delete, prune, recover | called by HTTP handlers and workers; one `BEGIN IMMEDIATE` transaction per operation |
| Workers (`application.cpp`) | one claimed job per thread, `shutdown_requested_`, a condition variable | claim, run, end, recover from an exception, leave | store, git service |
| Git service (`git_service.cpp`) | a `shared_mutex` per repository, a mutex per size cache, one mutex for the GitHub API, staging and mirror directories, size-cache files | clone, fetch, health, metadata, account import, browse, export, measure, delete | store, process runner, file system |
| Process runner (`process.cpp`) | one child process group per call | spawn, collect output, time out, SIGTERM, SIGKILL, reap | git, curl, zip |
| HTTP server (`http_server.cpp`) | listening socket, set and queue of clients (at most 64), 16 client threads | accept, serve, close, stop, join | handlers in `application.cpp` |
| GitHub client (`git_service.cpp`) | one mutex for the API, `scheduled_at` of the queued jobs, `metadata_status`, releases | ask, classify the answer, delay, retry, walk the pages, replace | curl, store |
| Requests (`http_server.cpp`, `application.cpp`) | per thread: the bytes read, two deadlines, the file to send | read the head and body, refuse, check the token, route, send, close | socket, handlers |
| Exports (`application.cpp`, `git_service.cpp`) | one semaphore slot, temporary files | acquire, build, send, remove, release | process runner, HTTP server |
| Start and stop (`main.cpp`, `application.cpp`, `data_directory_lock.cpp`) | the `flock`, the signal flag, `schema_migrations` | lock, migrate, recover, clean `tmp`, start, stop, join | everything |
| Pure code (`util.cpp`, `json.cpp`) | none | canonical URLs, validation, parsing | everything |

What makes it hard: two or more workers and sixteen client threads share the
tables and the mirrors; a job may outlive its row or its repository; every
command may be cut short by a shutdown, a time-out, an exception or the death
of the process; the same work is requested from four places; and the next start
has to make sense of whatever the last run left behind.

What makes each part correct:

* Store and workers: no two jobs of a repository run together; no duplicate
  active job; the claim of a worker is its own; the operation that is shown
  really runs; what runs is ended by somebody; history is bounded; a restart
  loses no work; the queue drains; a shutdown completes.
* Mirrors: what stands at the final path is a complete clone of the row's own
  URL; a reader never sees it change; a delete leaves nothing; staging does not
  survive a restart; the locks cannot deadlock.
* HTTP server: bounded number of clients; a descriptor is never used after it
  was closed; every accepted client is closed; stop always ends.
* Process runner: a child is reaped exactly once and never signalled after
  that; a command with a time-out, or during a shutdown, ends.
* Exports: one at a time; a temporary file is removed whatever happens.
* GitHub client: nobody who was told to wait asks early, and a limit fails no
  job; a listing is stored only if the walk over it was whole; the status that
  is shown is that of the last walk.
* Requests: only a whole and authentic POST changes anything; a slow client
  holds a thread for a bounded time; file and descriptor go whatever happens.
* Start: one process per data directory; recovery touches nothing of a live
  worker; a migration is applied once wherever a start was cut; a repository has
  one row however its URL is spelled; every way out joins the workers.

## Modules

| Module | Models | State |
|---|---|---|
| `JobQueue` | tables, transactions, worker loop, job bodies as far as they touch the tables, handlers, shutdown, crash, restart | done |
| `JobLifecycle` | abstract: what the queue promises for a job | done |
| `MCJobQueue` | symmetry sets for TLC | done |
| `JobQueueProofs` | types, the inductive invariant of `JobQueue` and four corollaries | done |
| `JobQueueRefinement` | bounded history, no forgotten running row, `JobQueue` implements `JobLifecycle` | done |
| `Mirror` | the mirror of one repository: staging, rename, fetch, fsck, browsing, measuring, deletion, locks, shutdown, crash, start-up cleanup | done |
| `MCMirror` | symmetry set for TLC | done |
| `MirrorProofs` | types, the inductive invariant of `Mirror`, undisturbed readers, owned staging, no deadlock of the locks | done |
| `HttpServer` | the threads of the HTTP server: accepting, the client set and queue, the pool, stop and join, with the process's descriptor numbers | done |
| `HttpServerProofs` | types, the inductive invariant of `HttpServer` and five corollaries, no lost wake-up | done |
| `ProcessRunner` | one call of `run_to_file` per caller: the watching loop, its deadlines and signals, the child, the file, the clock | done |
| `Export` | requests that send a temporary file, on top of `ProcessRunner`: the slot, its lease, the file, handler and response, shutdown, crash, clean-up | done |
| `ExportProofs` | types, the inductive invariant of both and four corollaries, a slot that is never lost | done |
| `GitHubSync` | metadata and account jobs against the GitHub API: the request mutex, rate limits, retries, pages of a listing that changes | done |
| `MCGitHubSync` | kinds and items of two jobs and the symmetry of ids for TLC | done |
| `GitHubSyncProofs` | types, kept waits, true statuses and whole walks of `GitHubSync`, bounded waits and walks | done |
| `ClientRequest` | one connection in `handle_client`: reading, refusals, token and route, sending, deadlines | done |
| `MCClientRequest` | the heads of requests for TLC | done |
| `ClientRequestProofs` | types and the safety of `ClientRequest`: whole and authentic requests, deadlines, files | done |
| `Startup` | processes started on one data directory: lock, schema, migrations, backfill, recovery, workers, every way out | done |
| `UrlIdentity` | `parse_repository_url` as a pure operator, and what a URL denotes | done |
| `MCStartup` | spellings of URLs for TLC | done |
| `StartupProofs` | types, one instance, safe recovery, migrations that apply once, no second row for a repository that is added and no stranger found by a URL, joins only of workers that were told to stop | done |

### `JobQueue`

`repos` and `jobs` are functions on the ids present, `lastRepo` and `lastJob`
the AUTOINCREMENT sequences. `worker[w]` is a thread of `worker_loop`: `pc` says
where it stands, the other fields are its copy of the claimed row, the `link`
decision that `clone_repository` takes from the snapshot of the repository, and
the result the body returned. `bulk` is an `enqueue_all` request between its
listing query and its inserting transaction. `up` and `stopping` are the process
and `shutdown_requested_`.

One action is one transaction with the thread-local work next to it; this is
sound because every transaction starts with `BEGIN IMMEDIATE` and SQLite
serialises them. A job body is cut at its transactions: `Execute` reads the
repository, `BeginOperation` sets the marker, `BeginFetch`, `PublishMirror`,
`Synchronize`, `LinkMetadata`, `MetadataStored`, `ImportPage` and the failures
are the later ones. What `git` or GitHub answer is a free choice. `Throw` lets
any body end in the exception handler at any point; with `DbFaults` the
transactions that end a job may throw too. `Crash` forgets what is in memory;
`Start` prunes and recovers before the workers run.

Abstractions: `attempts` saturates at the larger of its two limits; `due` stands
for the comparison of `scheduled_at` with the clock and `Elapse` for time; of a
mirror only "was put in place" is kept, and for a deleted repository either
answer is possible. `DeleteRepository` keeps a running worker running, as the
code does.

### `JobLifecycle`

Jobs are new, queued, running, ended or gone. They run one at a time per owner,
never come back once ended or gone, and vanish unfinished only with their owner.
`JobQueue!ImplementsLifecycle` is the refinement, under the mapping `jobPhase`,
`jobOwner`, and it is proved for every instance.

### `Mirror`

One repository: directories, staging names and locks are keyed by its id, which
is never issued again. `dir` is what stands at `repositories/by-id/<id>.git`:
nothing, part of a mirror (half removed), a mirror, or a mirror that a fetch is
writing to. `staging[j]` is `tmp/clone-<id>-<j>.git`; `cache` says that the
size-cache file exists; `lock` holds the owner of the exclusive
`repository_lock`, its readers, and the owner of the size-cache mutex. `job` is
the one worker that runs a job of the repository (`JobQueue!OneRunningPerRepo`
is why one is enough), `client[c]` an HTTP handler: `read` stands for the
browsing pages and the exports, `measure` for `repository_disk_usage`, `delete`
for the two halves of a deletion, first the row, then
`delete_repository_directory`.

A body is cut where another thread could see a difference: at the reading of
the row, at each lock, at the start and the end of each command, at the rename,
inside the removal of a directory. `killed` records that a command of the body
was stopped by the shutdown and its interruption was not looked at.

`Down` takes the git commands down with the process. This is an assumption and
no fact of the code: `process.cpp:191` puts every command in a process group of
its own and asks for no signal on the parent's death, so after a crash a clone or
a fetch may run on, until its pipes or the system stop it, below directories that
the next start cleans and uses. What `Mirror` shows about a crash holds where
whatever starts GitCube ends the commands as well (a service's control group, a
container). `Export` needs no such assumption, see there. Git is taken to leave a mirror usable when it dies in a
fetch, and a fetch to fail when the directory is not a mirror. `Faults` lets
file operations fail, any body throw, and cleaning leave things behind.

Of the row only its existence and `last_success_at` are kept; pausing is a free
choice of `ReadRow`; metadata jobs and account imports do not touch the mirror.

### `HttpServer`

`acceptor` is the thread in `run()`, `worker[w]` one in `client_worker_loop()`,
each with its place and the socket it holds; `queue`, `clients` and `mutex` are
`client_queue_`, `client_fds_` and `client_mutex_`. `open` says what each
descriptor number stands for in the whole process: `OtherOpens` and
`OtherCloses` are files, pipes and databases, which get the numbers that clients
leave. `cut` holds the sockets that were shut down.

A thread is cut where it takes or gives the mutex and where a descriptor is
opened or closed. A worker that found nothing to do holds the mutex until it
sleeps (`Doze`, `Sleep`): this is the gap a notification could fall into, since
`request_stop` stores `stop_` without the mutex. A short critical section is one
step that needs the mutex to be free. `Served` is `handle_client`, whatever it
reads and answers. Spurious wake-ups are left out: they look like a notification
whose client another worker took. `request_stop` is only called by the thread of
`run` and by the destructor, which finds nothing left to stop.

### `ProcessRunner` and `Export`

`call[c]` is the frame of `run_process`: `pc` says whether the loop is at
`waitpid` or past it, `age`, `seen` and `term` are the ticks since the start,
since the shutdown was noticed and since SIGTERM (`started`, `shutdown_seen`,
`term_sent_at`), the rest is `ProcessResult`. One pass of the loop is two steps,
so that a child may exit, or write, between `waitpid` and the look at the file;
`Watch` is everything from there to the end of `poll`, with the reasons in the
order of the code: size, time-out, shutdown, kill. `child[c]` is the process: it
may ignore SIGTERM, and `dying` is a process that a signal will end. `file[c]`
is partial, whole (the command succeeded), or larger than the limit.

`ProcessRunner` has no next-state relation of its own. `Export` extends it and
adds who calls: a request asks for the slot, is refused or builds (`Build` begins
the call), takes the result (`Thrown`, `Failed`, `Built`) and is sent by
`handle_client` (`Open`, `OpenFails`, `Sent`, `Remove`, `Leave`). `slot` is
`archive_slot_`, `lease` the shared pointer that releases it: it moves from
handler to response and is destroyed with it, or already when a 500 takes the
place of a response whose file cannot be opened. Raw downloads are the callers
outside `Exporter`: they take the same steps without a lease.

Abstractions: a tick is any time, the loop may pass several times in a tick or
not at all. One process stands for the process group. The size query of a raw
download and the look-ups before a command are `Refuse`. `waitpid` does not fail.
After a crash commands may go on (unlike in `Mirror`), because it makes no
difference here: they write to temporary files that no later request names.

### `GitHubSync`

`job[j]` is a row: its state, the time until `scheduled_at` (`wait`), attempts
and why it failed. `work[j]` is the worker that runs it, from the request
(`ask`, `flight`) to the transactions that follow. `api` is
`github_api_request_mutex_`. A reply is what `github_api_get` makes of curl: its
exit code, the HTTP status, `X-RateLimit-*`, `Retry-After`, and whether a text
speaks of a limit; `IsRateLimited`, `IsTransient`, `RateLimitBackoff` and
`TransientBackoff` are the functions of these names, `AfterRefusal` is their
order in the three callers. GitHub (`limit`, `Publish`, `Withdraw`, the next
link) is free: while an address is limited it answers in any of the forms that a
limit has, at other times with any failure or a page; the link may be right,
missing, a page that was read before, or an address that is not GitHub's.

Between two pages a listing may change. `steady` and `spotted` are history: what
was listed all the time, and at some time, since the first page. `slipped` is
what a withdrawal moved from a page to come onto one already read (`Slips`): of
all that is listed afterwards only that one item is missed. `Due`, what is steady
and did not slip, is what a walk owes, before and after a withdrawal. `told` is
history as well: how long a queued job has to keep quiet because of an answer
that it or another job got. The jobs share only the mutex and the waits; that a
free worker is there for each is an abstraction, `JobQueue` says how they share
the workers. A release that comes twice breaks the primary key (`twice`), and
the exception leaves the old list alone.

Two shapes of the code show here and are no findings: a job that waits for the
mutex when a limit is learnt still asks once (`Send` looks only at the shutdown,
`git_service.cpp:345`), and a metadata job whose releases throw leaves
`ready` on a failed job. `LimitIsHonoured` speaks of queued jobs, and
`StatusIsTruthful` excepts exceptions.

Every metadata job here is of a repository on GitHub. One of a repository
elsewhere, which the form of its page can queue (`application.cpp:1109`), fails at once
(`git_service.cpp:798`): no request, no metadata_status, only the row of the job.
That is a step of `JobQueue` (`Execute`) and not of this module, and
`StatusIsTruthful` does not speak of it: such a job leaves the status as it was.

### `ClientRequest`

`pc` is where `handle_client` is: `head` and `body` are its two `recv` loops,
`handle` the call of the application, `send` everything of `send_all`. `now` is
the time since the current deadline was set, `waited` the time in the current
`recv` or `send`, which a time-out of the socket bounds. `head` is what
the parsed head says as far as a branch depends on it, and `Verdict` the
refusals in the order of the code. `Handle` is `handle_request`: the token of
every POST, then the route. `file` is `body_file`: closed in every case, removed
if temporary.

Bytes are counted in units, time passes only in `recv` and `send` (how long a
handler takes is a matter of `ProcessRunner` and `Export`), a call that a
signal interrupts is left out, and the clock stops at `Horizon`, which lies
behind every deadline. `Leave` is a client that goes away or the server that
shuts the socket down in `request_stop`.

### `Startup` and `UrlIdentity`

`pc[p]` walks through `Application::run` of process `p`; `holder` is the
`flock`, `alive` the workers that have not returned. A step up to the server may
throw; leaving the `try` block frees the lock (`Unwind`), and the handler then
tells and joins the workers. `schema` is what the tables look like and
`recorded` the table `schema_migrations`: `Create` and `Record` are statements
of their own, a migration is one transaction with its record and fails on tables
that have its column. A database is new, or was left by any older version with
the repositories that `Legacy` lists; only versions before `CanonicalVersion`
leave them without a canonical URL. One job and its staging directory stand for
all that recovery and cleaning touch, with at most one worker of a process on
it; the test of the shutdown flag and the claim are one step, and
pruning at start is in `JobQueue`.

`UrlIdentity` takes a URL apart as the parser does: scheme, host (capitals,
trailing dots), port, and segments of the path, each with a stem, capitals,
percent-encoding and a number of `.git` suffixes. `Normalized` is the text of
the result, the key of `repositories`. `Denotes` is the reference: a server, by
the port that is really used, and a path, GitHub being one server that ignores
case. Character classes, lengths, IPv6 literals and the rules of host labels are
abstracted to "refused". The names of hosts and the stems are constants
(`HostName`, `Stem`), and `UrlType` is every text of that shape: ports up to
65535, paths of any length, any number of dots and suffixes. A segment that is a
dot is refused, and `..git` is accepted as the name `.` with a suffix; so
`Denotes` tells a bare dot, which is no name, from one with a suffix.

## Runs

Types and some plainer parts of the inductive invariants are proved for every
instance and not checked again by a run.

Deadlock is checked in `exports`, which can always be started again. It is off
in the other runs: the bounds on ids, requests or arrivals let an exhausted
instance stop, and the program itself stops after a shutdown.

| Run | Instance | Shows |
|---|---|---|
| `jobqueue_faults` | 2 workers, 1 repository, 3 job ids, Fetch all, DB faults | one running job per repository, no duplicates, exclusive claims, true markers |
| `jobqueue_accounts` | 2 workers, 1 URL, 1 account, 2 repository ids | the inductive invariant with the bound of the history, running rows have workers, `JobLifecycle` is implemented |
| `jobqueue_live` | 2 workers, 1 repository, fairness | the queue drains, a shutdown completes |
| `mirror_faults` | 2 requests of any kind, 2 job ids, faults | never half a mirror, row and mirror agree, cache and mirror agree, readers are not disturbed |
| `mirror_live` | 2 requests, 2 job ids, fairness, no faults | staging directories are owned, and gone after a restart; no request and no job waits for ever |
| `http_server` | 2 workers, 3 descriptors, at most 2 clients, 3 arrivals, fairness | sockets have one owner and are closed once, admitted clients are served, a stop ends and leaves nothing |
| `exports` | 2 exports, time-out 3, grace 2, kill after 2 ticks, fairness | one export at a time, only whole files are sent, no file outlives its request, no command is stopped early, the slot comes back |
| `github_walk` | 1 metadata job with up to 3 releases, 1 account job with up to 3 repositories, a page each, 1 change per walk, one attempt | only whole walks replace releases, success of an account means all that the walk owed |
| `github_limits` | the same jobs, one item each, 1 limit in any form, 1 shutdown or crash, two attempts, fairness | waits are kept, a limit fails no job, metadata_status is true, every queued job ends |
| `startup` | 2 processes of 2 workers, 3 migrations, 2 starts, 7 URLs, fairness | one instance unless an exception unwound it, recovery touches nobody's job, migrations apply once, no repository is added twice and no URL finds a stranger, whoever is told to stop or fails ends |
| `startup_overlap` | the same | violated: see Findings |
| `client_request` | all requests with at most one thing wrong, bodies of 0 and 2 units, deadlines 1 and 3, calls of 2, fairness | only whole and authentic requests act, a client holds a thread for a bounded time, every connection ends |

Bounds. Two workers are enough for every race between a claim and another
claim, an end or a request, and workers are interchangeable (symmetry). Two job
ids on one repository give the pair on which exclusion and de-duplication can
fail; two repository ids let an URL be deleted and imported again, so that a
stale worker meets the successor of its row. `CatchLimit` and `ApiLimit` of 1 or
2 reach both sides of each limit; `Retained` of 1 makes pruning happen at the
second end. A third job id, with `CatchLimit` 1, lets Fetch all meet an active
and an ended job, and one end prune another.

For `Mirror`, two requests and the job thread are every pair of lock holders and
one more that waits; each request is served once. The second job is a fetch or
a check that follows the clone, or a second clone with a staging directory of
its own.

For `HttpServer`, three descriptors are one more than the limit, so that clients
are refused, and three arrivals let a number be used again, by a client or by
another part of the process, while other clients are queued and served.

For `Export`, two callers compete for the slot, one of them again and again.
Three, two and two ticks let each deadline pass before, with and after the
others. Raw downloads share nothing with an export but the clock and the
shutdown; the proofs cover them.

For `GitHubSync`, three items on pages of one give a walk with a first, a
middle and a last page. One change moves an item across the border of two pages
in either direction; after a withdrawal one item has slipped and one is still
owed. Which id is which makes no difference to the walk (symmetry). A job of this run is
tried once and may be queued again, its pages stored; that it is retried by itself, and
faults that do not touch the walk, are in the second run: a limit of up to two
ticks and delays of one and two make each of the waits the longer one, and two
attempts reach both sides of the limit on retries. The retry after an exception,
which needs an id on two pages, is covered by the proofs only.

For `ClientRequest`, a head of up to 3 units and a body of 2, received in
portions of 1 or 2, are cut at every place, and the portion that ends the head
may hold less, as much as or more than the body. A call waits for 2 ticks and the
deadline is 3, so that a slow client passes it in the second call.

For `Startup`, two starts are one process after the other or both at once, with
a crash at each step. Three migrations have one before, one at and one after
`CanonicalVersion`. The seven URLs of `MCStartup` are spellings of two repositories,
a port that is the default of the other scheme only, a dot that is refused, and
the same dot with a suffix, which is not.

Fairness. A worker thread that can take a step takes one (the operating system
schedules it, and it polls every 500 ms); delays pass; `run` returns once every
thread has. This assumes git and curl commands end: the code gives clone and
fetch no time-out. `QueueDrains` is stated for a process that stays up, with no
repository paused for ever and every delay over for good, because a rate limit
may come back for ever.

In `mirror_live` the job thread and each request are weakly fair as a whole:
a thread that can go on does, and a free lock is given to somebody. Strong
fairness is not needed, because each request comes once: no stream of readers
can keep a writer out, which `std::shared_mutex` does not promise either way.

In `http_server` the acceptor and every worker are weakly fair: `poll` returns
after 250 ms, and a request and its answer have deadlines (`kRequestDeadline`,
`send_timeout_seconds`). That a handler ends rests on the commands it runs, see
the process runner. Arrivals and other descriptors are not fair.

In `exports` time passes, the thread of a request and the watching loop go on
(`poll` returns after 100 ms, sending has a deadline), and a process that was
killed dies. Nothing is assumed of the command: it may hang and ignore SIGTERM.

In `github_limits` workers go on, time passes and a process that was stopped is
started again. A request of the API mutex is strongly fair: two jobs alternate
on it a bounded number of times, and a mutex is given to somebody who waits.

In `client_request` time passes, a call that is over returns and the handler
answers. Nothing is assumed of the client: it never has to send or to read.

In `startup` the thread of `run` and the watching thread (it polls) run on, and
a worker that is asked to stop does. Nobody has to start, signal or crash, and a
server that is not asked to stop may serve for ever.

## Findings

Checked by a run:

* `OneInstance` (`startup_overlap`): the lock is a local of the `try` block of
  `run` (`application.cpp:194`), so that an exception frees it before the handler
  (`application.cpp:227`) has told and joined the workers. If a later worker
  thread cannot be started (`application.cpp:238`), a second process may take the
  lock, recover the running job and remove its staging directory while
  a worker of the first is on it, against `README.md:95` and `README.md:391`.
  `OneInstanceUnlessUnwound` says that this is the only way.

Stated as definitions of `JobQueue`, `Mirror` and `GitHubSync`, each with a
configuration that shows a schedule (`tlc -config <cfg> MCJobQueue`, `MCMirror` or
`MCGitHubSync`); not among the runs:

* `SyncedIsEligible` (`JobQueueStuckStatus.cfg`): `enqueue_all` skips
  the status `queued` (`database.cpp:1028`), which a clone job that ends in the
  exception handler leaves behind, against `README.md:280`.
* `ClonedIsDescribed` (`JobQueueLostMetadata.cfg`): a clone that is cut
  short after the rename is retried as a fetch and never queues the metadata job
  (`git_service.cpp:664`), against `README.md:288`.
* `DeletedIsGone` (`MirrorOrphan.cfg`): `execute` reads the row before it takes the
  repository lock (`git_service.cpp:597`); a clone that waited there for a
  deletion puts back a mirror that nothing will remove, against `README.md:217`.
* `InterruptedIsNotFailed` (`MirrorInterrupted.cfg`): a shutdown also kills the short
  commands of a job, whose interruption is not looked at
  (`git_service.cpp:701`), so the job ends as failed, against `README.md:312`.
* `AccountListsAll` (`GitHubShift.cfg`): an account is listed page by page
  (`git_service.cpp:965`). When a repository on a page already read disappears,
  the first one of the next page moves onto that page and is never read; the job
  still ends with success, against "lists every public repository" in
  `README.md:145`. `AccountIsComplete` says that nothing else is missed.

Not stated as a property: with database faults a second exception while an
exception is handled is only logged (`application.cpp:302`) and leaves the job
running, against `docs/IMPLEMENTATION_STATUS.md:46`; `RunningHasWorker` is
therefore checked and proved without database faults. And
`docs/IMPLEMENTATION_STATUS.md:6` gives the schema version as 8, while
`kMigrations` goes to 9 (`database.cpp:126`).

## Proofs

`JobQueueProofs` proves `Spec => []TypeOK` and `Spec => []Safety`. `Safety` is inductive relative to `TypeOK`. Exclusion and
de-duplication are not inductive alone: that a worker which ends "its" job ends
nobody else's needs `ClaimIsExclusive`, which needs that ids are never issued
twice (`ClaimIsPast`) and that rows go together (`ForeignKeys`); true markers
need `BodyFitsKind`. The proof groups the transactions by what they do to the
tables: some only shrink the set of active jobs (`ShrinkSafe`), some only add
fresh queued rows (`GrowSafe`), the claim is treated alone (`ClaimSafe`). The
theorems hold for every set of workers, URLs and accounts and all bounds, and
rest only on the named assumptions of `JobQueue`.

`JobQueueRefinement` looks at the same steps from the side of the jobs. `Effect`
lists what a step may do to the table: nothing, add queued rows, drop the rows
of a repository, claim, requeue or end one job, prune, restart; and `StepEffect`
shows that every action does one of these. Three results follow.
`InvariantHolds`: the pruning keeps at most `Retained` ended jobs, those
with the largest ids (`PruneBounds`, by the least id that is kept), and whoever ends a job prunes, so
the history stays bounded. `NoForgottenJob`: without `DbFaults` a step that lets
a worker go also ends, requeues or loses its row. `QueueImplementsLifecycle`:
`InitMap` and `StepMap` map initial states to initial states and each effect to
a step of `JobLifecycle` or a stutter. A row may go, by the deletion of its
repository, while a worker still runs it; its end is then only a pruning, and a
pruning with nothing to prune is the identity (`PruneIsIdentity`), as the history
was within its bound before. So the refinement needs `RetentionHolds`.

`MirrorProofs` proves `Spec => []TypeOK`, `Spec => []Safety` and
`Spec => StableWhileRead` for `Mirror`, for any number of requests and jobs and
with or without faults. That a mirror is never half there is not inductive
alone. A removal may only start once the row is gone (`DeletionInOrder`), a
rename only moves a complete clone (`BodyFitsMirror`), and neither meets a fetch
because whoever works on the mirror holds its lock (`LocksAreHeld`). The lock
part is proved once for a step of any thread (`KeepsLock`, `TakesLock`,
`GivesLock`): a thread changes only its own standing. `DirChanges` says that
whoever changes the directory is a writer; `Excluded` that a writer is alone.
`Safety` and `TypeOK` are inductive together: the type of `dir` after a rename
needs that the staged clone is complete. `StagingStaysOwned` needs the assumption
`~Faults`, because a removal that fails leaves its directory behind: every way
out of a clone either moves the staging directory or removes it, and a start
removes what a crash left (`JobOwnsStaging`).
`LocksNeverDeadlock` is why everybody gets the lock at all. A thread that holds
one is at a place where it uses it (`GuardsAreScoped`), and the mutex of the size
cache is always taken before the lock of the repository, so that its holder may
wait for the repository, and whoever holds that works: a chain of waiters has at
most two links.

`HttpServerProofs` proves six invariants of `HttpServer` from `Inv`, which is
`TypeOK` with `Safety`. The heart is `SocketsAreOwned`: the set `client_fds_` is
exactly what is queued or held by a worker that has not erased its socket yet,
and an open client socket is exactly what is queued, held by a worker, or just
accepted. There is one lemma for each way a socket changes hands
(`OwnersAccept`, `OwnersAdmit`, `OwnersRefuse`, `OwnersTake`, `OwnersErase`,
`OwnersClose`) and one for all steps that hand nothing on (`OwnersStay`).
`StopIsFinal` adds that nothing is accepted once the stop has begun and that a
worker leaves only an empty queue. The theorems hold for every finite pool and
every finite set of descriptors, and every limit.
Two more say that no notification is lost. `HttpNobodySleepsOnWork` counts: while
anybody sleeps, at least as many workers are on their way to the queue, or owed
the notification to come, as clients are in it; a worker that looks at the queue
keeps the mutex until it sleeps (`MutexIsHeld`), so nothing comes in between.
`request_stop` stores `stop_` without that mutex; `HttpStopWakesAll` holds
nevertheless, because it takes the mutex to shut the clients down before it
notifies (`DozeIsSafe`).

`ExportProofs` proves `Spec => [](TypeOK /\ Safety)` for `Export`, for any set of
callers, whether exports or raw downloads, and any time-out, grace and delay of
the kill. `Safety` adds two parts to the invariants of the run. `LeasesAreHeld`:
the slot is free or leased exactly once, and an export keeps its lease until its
response is gone; `OneExport` follows from it. `CallsFitRequests`: there is a
call exactly while its request builds, a child only while the loop runs, and a
finished call never hides a file beyond the limit, which is what makes
`SentIsWhole` inductive. `NothingIsCutShort` needs nothing but the types
(`ReasonsAreGiven` for the loop, `TickSafe` for the clock). The files are proved
one caller at a time (`Fit`, `OthersFit`).
`NoCommandOutlivesTheKill` says that the flag which keeps SIGKILL from being sent
twice never stands for a command that still runs, also when `poll` fails and the
child is killed on that way; `SlotIsNeverLost` puts it together with the leases:
while the slot is taken, a request that is not over has it. This proof led to a
correction of `ProcessRunner`: the arms of `Effect` overlapped, so that a child
that had ended could have been any of them; now each rules out those before it.

`GitHubSyncProofs` proves `Spec => []Inv` for `GitHubSync`, which is `TypeOK` with
`Safety`, and from it kept waits, no failure by a limit, true statuses and both
properties of walks; for any set of jobs, page size, number of pages, delays and
bounds. `Safety` says the same predicate `Fits` of every job, of its row, worker,
status, stored items and promised wait; so a step of one job is proved for that
job (`OneJob`), and only `Tick`, `DelayPending`, `Crash` and the listing steps
look at the others. `LimitFits` carries a wait from the answer to the row: the
delay that is computed is at least what was promised (`BackoffKeepsPromise`),
and the row's wait at least what the job was told. `StatusFits` follows
metadata_status through every place of the body, because "ready" is written long
before the job ends. `WalkFits` is why a walk over a listing that changes is
whole: what the walk owes (`Due`) is among what was read, or comes after the pages
that were read (`Rest`). Something new moves items only to later pages
(`InsertedFits`). A withdrawal moves them to earlier ones, and of what comes
after the pages read it takes two items at most, the withdrawn one and the one that
slips (`WithoutFits`); so everything else is owed and stored also when pages
shifted, which is what `GitHubSyncReleasesAreOneWalk` and
`GitHubSyncAccountIsComplete` say.
`GitHubSyncBounded` and `GitHubSyncPagesAscend` are the reasons why a job ends: the
request mutex is held exactly by the worker whose request is in flight, no row
ever waits longer than the longest backoff (`BackoffIsBounded`,
`TransientIsBounded`, `RowsWaitOn`), and a walk asks for one page after the other
and for no more than `MaxPages`, whatever it is linked to (`FollowGoes`).

`StartupProofs` proves `Spec => []Inv` for `Startup`, for any set of processes,
workers per process and number of migrations. That two processes never use the
directory together rests on `LockIsHeld`: who is anywhere between taking the lock
and the end holds it, except while an exception unwinds. `RecoveryIsSafe` needs
`OneCrew` besides: while no two ever overlapped, all workers that live belong to
one process, the holder if there is one; and `WorkersAreJoined`, that whoever
runs a job is alive. `SchemaGrows` says that the recorded versions are always
1..v and the tables have exactly their changes, but for the gap between the
first schema and its record; `MigrationsApplyOnce` follows.

`IdentityOfUrls` is about `parse_repository_url` alone: for any hosts, stems,
ports and paths, once one of two URLs is accepted, their normalized texts are
the same exactly when the URLs denote the same repository. A normal form
(`NormalForm`) replaces the order of the parser's steps by a description of its
result; `FormDenotes` says that the text denotes what the URL does, `SameForm`
that what denotes the same has the same text. The proof attempt showed that an
earlier `Denotes` was wrong about a bare dot. `StartupIdentity` carries this to
the table: `RowsAreIdentified` says that the canonical URL of a row is
empty or what the backfill makes of the stored text (its identity, or the text
itself if it is refused today), and never empty once a process is past the
backfill. With `OneMirrorPerRepository` it
is inductive, whatever URLs are added and whatever `Legacy` holds. It does not
say that there is one row per repository: if an older version left two rows that
it took for different, the backfill gives both the same canonical URL and keeps
both, and a URL finds the older one (`ORDER BY id LIMIT 1`, `database.cpp:643`). It
says that no row that is added is the second of its repository.

`ClientRequestProofs` proves `Spec => []Inv` for `ClientRequest`, for any set of
heads, sizes, buffer, wait and deadline. The strengthening `Places` says where
the clock, the deadline, the file and the answer stand at each place of
`handle_client`. `ThreadIsFreed` is its reason: each call starts before the
deadline and may take up to `Wait` longer, and the deadline of the answer starts
when it does. That silence and files never outlast the connection is proved
along with it.

Only model-checked is what is temporal under fairness (`QueueDrains`,
`ShutdownCompletes`, `NobodyWaitsForEver`, `ClientsAreServed`, `StopEnds`,
`SlotComesBack`, `JobsEnd`, `EndsWhenAsked`, `ConnectionEnds`), which is out of
the prover's reach. What makes six of them true at every size is proved, though:
that waiters form no circle (`LocksNeverDeadlock`, for `NobodyWaitsForEver`), that
nobody sleeps on work or through the stop (`HttpNobodySleepsOnWork`,
`HttpStopWakesAll`, for `ClientsAreServed` and `StopEnds`), that the slot is always
in somebody's hands (`SlotIsNeverLost`, for `SlotComesBack`), that waits and
walks are bounded (`GitHubSyncBounded`, for `JobsEnd`), and that whoever joins its
workers has told them to stop (`StartupJoinsAreAsked`, for `EndsWhenAsked`). Every invariant, action
property and refinement of a passing run is a theorem.

## Plan

1. `JobQueue`, `JobLifecycle`, their proofs (done).
2. `Mirror`: directories, staging, locks, readers, deletion, startup cleanup,
   and its proofs (done).
3. `HttpServer`: client set and queue, threads, stop and join, and its proofs
   (done).
4. `ProcessRunner`: time-outs, grace, signals, reaping (done).
5. `Export`: slot, temporary files, size limits, on top of 4, and the proofs of
   both (done).
6. `GitHubSync`: pagination, rate limits, retries, atomic replacement of releases
   (done).
7. `Startup` and `UrlIdentity`: lock, migrations, identity, recovery, every way
   out (done).
8. `ClientRequest`: reading, refusing, routing, sending (done).
9. Proofs of all safety properties of the runs, of the refinement, and of the
   safety behind the liveness properties (done).
10. Left: the shutdown of `Startup` composed with that of `HttpServer`, and the
   age and token of the size cache.

## Not modelled

HTML rendering, texts and Markdown, option parsing, the JSON grammar and the
icons have no state to reason about. The connection pool is a mutex around a list
of idle handles, without a limit: nobody waits for it. The contents of the
size cache (its token and age) only decide whether a size is measured again;
that the file exists and who writes it when is in `Mirror`. The pipes of the
process runner, and processes that a command starts itself, are not modelled.
SQLite's own atomicity and durability, `git`, `curl`, `zip` and the file system
are taken as they are specified.
