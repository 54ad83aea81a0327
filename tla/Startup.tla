------------------------------- MODULE Startup -------------------------------
(***************************************************************************)
(* Processes that are started on one data directory: its lock, the schema  *)
(* and its migrations, the identity of the repositories that older         *)
(* versions added, the recovery of jobs and the clean-up of staging        *)
(* directories, the start of the workers, serving, and every way out:      *)
(* a signal, an exception, a server that cannot listen, a crash.           *)
(*                                                                         *)
(* The job that is recovered is one job; what it does is module JobQueue,  *)
(* its staging directory is module Mirror.                                 *)
(***************************************************************************)
EXTENDS Integers, FiniteSets, Sequences, UrlIdentity

CONSTANTS
    Process,      \* the processes that may be started
    NoOne,        \* the lock is free
    Worker,       \* worker threads per process
    Latest,       \* version of the last migration (9 in the code)
    Known,        \* URLs that users add
    Legacy,       \* sets of URLs that an older version may have stored
    MaxRows,      \* bound: repositories
    MaxStarts     \* bound: starts of processes

ASSUME ProcessAssumption == NoOne \notin Process
ASSUME WorkerAssumption  == Worker \in Nat \ {0}
ASSUME LatestAssumption  == Latest \in Nat /\ Latest >= 2
ASSUME UrlAssumption     == Known \subseteq UrlType /\ Legacy \subseteq Seq(UrlType)
ASSUME BoundAssumption   == MaxRows \in Nat /\ MaxStarts \in Nat

(* The migration that adds the column canonical_url (6 in the code).       *)
CanonicalVersion == 2

VARIABLES
    pc,           \* where run() of each process is
    spawned,      \* how many worker threads of each process were started
    alive,        \* how many of them live
    asked,        \* shutdown_requested_
    signalled,    \* signal_received
    holder,       \* who holds the flock
    schema,       \* the migrations whose changes the tables have
    recorded,     \* the versions in schema_migrations
    rows,         \* repositories: normalized_url, canonical_url, added by this version
    job,          \* the state of the job's row
    runner,       \* the processes that have a worker on the job
    staging,      \* the job's staging directory exists
    overlap,      \* history: the lock was taken while workers of another lived
    starts        \* history: how often a process was started

vars == <<pc, spawned, alive, asked, signalled, holder, schema, recorded, rows, job, runner,
          staging, overlap, starts>>
tables == <<schema, recorded, rows>>
jobs   == <<job, runner, staging>>
threads == <<spawned, alive>>

StartSteps == {"lock", "create", "record", "migrate", "backfill", "recover", "clean",
               "spawn"}

(* backfill_canonical_repository_urls: text that is not accepted any more  *)
(* stands for itself.                                                      *)
BackfilledText(text) == text
Backfilled(text) == IF Normalized(text) = Bad THEN text ELSE Normalized(text)

(* A database is new, or was left by an older version: with its migrations *)
(* and its repositories, which have a canonical_url only if that version   *)
(* had the column.                                                         *)
Init == /\ pc = [p \in Process |-> "out"]
        /\ spawned = [p \in Process |-> 0] /\ alive = [p \in Process |-> 0]
        /\ asked = [p \in Process |-> FALSE]
        /\ signalled = [p \in Process |-> FALSE]
        /\ holder = NoOne
        /\ \E v \in 0..Latest, old \in Legacy :
              /\ schema = 1..v /\ recorded = 1..v
              /\ rows = IF v = 0 THEN << >>
                        ELSE [i \in DOMAIN old |->
                                 [normalized |-> old[i], added |-> FALSE,
                                  canonical  |-> IF v < CanonicalVersion THEN Bad
                                                 ELSE Backfilled(old[i])]]
        /\ job = "queued" /\ runner = {} /\ staging = FALSE
        /\ overlap = FALSE /\ starts = 0

(***************************************************************************)
(* main and Application::run, one step of a process after the other.       *)
(***************************************************************************)
Goto(p, label) == pc' = [pc EXCEPT ![p] = label]
Release(p) == holder' = IF holder = p THEN NoOne ELSE holder

(* The process is started; its signal handlers and watcher come first.     *)
Start(p) == /\ pc[p] = "out" /\ starts < MaxStarts
            /\ starts' = starts + 1
            /\ Goto(p, "lock")
            /\ UNCHANGED <<threads, asked, signalled, holder, tables, jobs, overlap>>

(* DataDirectoryLock: flock without waiting.                               *)
LockIgnored(p) ==
    /\ pc[p] = "lock"
    /\ holder' = p
    /\ overlap' = (overlap \/ \E q \in Process \ {p} : alive[q] > 0 /\ holder = NoOne)
    /\ Goto(p, "create")
    /\ UNCHANGED <<threads, asked, signalled, tables, jobs, starts>>

Lock(p) ==
    /\ pc[p] = "lock" /\ holder = NoOne
    /\ holder' = p
    /\ overlap' = (overlap \/ \E q \in Process : alive[q] > 0)
    /\ Goto(p, "create")
    /\ UNCHANGED <<threads, asked, signalled, tables, jobs, starts>>

(* An exception leaves the block, and with it the lock, before the handler *)
(* asks the workers to stop.                                               *)
Unwind(p) == /\ Release(p)
             /\ Goto(p, "caught")
             /\ UNCHANGED <<threads, asked, signalled, tables, jobs, overlap, starts>>

Refused(p) == pc[p] = "lock" /\ holder # NoOne /\ Unwind(p)

(* Any step up to the server may throw: a refused option, a directory that *)
(* cannot be made, the database, a thread that cannot be started.          *)
Throw(p) == pc[p] \in StartSteps /\ Unwind(p)

(* CREATE TABLE IF NOT EXISTS: the tables of version 1 and nothing of a    *)
(* later one, then the row of version 1.                                   *)
CreateEdited(p) ==
    /\ pc[p] = "create"
    /\ schema' = IF schema = {} THEN 1..2 ELSE schema
    /\ Goto(p, "record")
    /\ UNCHANGED <<threads, asked, signalled, holder, recorded, rows, jobs, overlap, starts>>

Create(p) ==
    /\ pc[p] = "create"
    /\ schema' = schema \union {1}
    /\ Goto(p, "record")
    /\ UNCHANGED <<threads, asked, signalled, holder, recorded, rows, jobs, overlap, starts>>

Record(p) ==
    /\ pc[p] = "record"
    /\ recorded' = recorded \union {1}
    /\ Goto(p, "migrate")
    /\ UNCHANGED <<threads, asked, signalled, holder, schema, rows, jobs, overlap, starts>>

(* run_pending_migrations: each in a transaction of its own, which also    *)
(* records it.  A column that is there already makes the migration fail.   *)
Pending == {v \in 1..Latest : \A r \in recorded : v > r}
NextVersion == CHOOSE v \in Pending : \A w \in Pending : v <= w

Migrate(p) ==
    /\ pc[p] = "migrate" /\ Pending # {}
    /\ IF NextVersion \notin schema
       THEN /\ schema' = schema \union {NextVersion}
            /\ recorded' = recorded \union {NextVersion}
            /\ UNCHANGED <<pc, threads, asked, signalled, holder, rows, jobs, overlap, starts>>
       ELSE Unwind(p)

(* verify_schema, then backfill_canonical_repository_urls in a transaction. *)
Verify(p) ==
    /\ pc[p] = "migrate" /\ Pending = {}
    /\ IF schema = 1..Latest
       THEN /\ Goto(p, "backfill")
            /\ UNCHANGED <<threads, asked, signalled, holder, tables, jobs, overlap, starts>>
       ELSE Unwind(p)

Backfill(p) ==
    /\ pc[p] = "backfill"
    /\ rows' = [i \in DOMAIN rows |->
                   IF rows[i].canonical # Bad THEN rows[i]
                   ELSE [rows[i] EXCEPT !.canonical = Backfilled(rows[i].normalized)]]
    /\ Goto(p, "recover")
    /\ UNCHANGED <<threads, asked, signalled, holder, schema, recorded, jobs, overlap, starts>>

(* recover_interrupted_jobs, cleanup_orphaned_temp_dirs.                   *)
Recover(p) ==
    /\ pc[p] = "recover"
    /\ job' = IF job = "running" THEN "queued" ELSE job
    /\ Goto(p, "clean")
    /\ UNCHANGED <<threads, asked, signalled, holder, tables, runner, staging, overlap, starts>>

Clean(p) ==
    /\ pc[p] = "clean"
    /\ staging' = FALSE
    /\ Goto(p, "spawn")
    /\ UNCHANGED <<threads, asked, signalled, holder, tables, job, runner, overlap, starts>>

(* start_workers, a thread at a time, then the server.                     *)
Spawn(p) ==
    /\ pc[p] = "spawn"
    /\ IF spawned[p] < Worker
       THEN /\ spawned' = [spawned EXCEPT ![p] = @ + 1]
            /\ alive' = [alive EXCEPT ![p] = @ + 1]
            /\ UNCHANGED pc
       ELSE Goto(p, "serving") /\ UNCHANGED threads
    /\ UNCHANGED <<asked, signalled, holder, tables, jobs, overlap, starts>>

(* server_->run returns: it was asked to stop, or it could not listen.     *)
ServerEndsUnlocked(p) ==
    /\ pc[p] = "serving"
    /\ asked' = [asked EXCEPT ![p] = TRUE]
    /\ Release(p)
    /\ Goto(p, "stopping")
    /\ UNCHANGED <<threads, signalled, tables, jobs, overlap, starts>>

ServerEnds(p) ==
    /\ pc[p] = "serving"
    /\ asked' = [asked EXCEPT ![p] = TRUE]
    /\ Goto(p, "stopping")
    /\ UNCHANGED <<threads, signalled, holder, tables, jobs, overlap, starts>>

(* The handler of the exception.                                           *)
Catch(p) ==
    /\ pc[p] = "caught"
    /\ asked' = [asked EXCEPT ![p] = TRUE]
    /\ Goto(p, "joining")
    /\ UNCHANGED <<threads, signalled, holder, tables, jobs, overlap, starts>>

(* The workers are joined, the lock is released and main returns.          *)
Leave(p) ==
    /\ pc[p] \in {"stopping", "joining"} /\ alive[p] = 0
    /\ Release(p)
    /\ Goto(p, "out")
    /\ spawned' = [spawned EXCEPT ![p] = 0]
    /\ asked' = [asked EXCEPT ![p] = FALSE]
    /\ signalled' = [signalled EXCEPT ![p] = FALSE]
    /\ UNCHANGED <<alive, tables, jobs, overlap, starts>>

(***************************************************************************)
(* Signals, crashes, workers, requests.                                    *)
(***************************************************************************)
Signal(p) == /\ pc[p] # "out" /\ ~signalled[p]
             /\ signalled' = [signalled EXCEPT ![p] = TRUE]
             /\ UNCHANGED <<pc, threads, asked, holder, tables, jobs, overlap, starts>>

Watch(p) == /\ signalled[p] /\ ~asked[p]
            /\ asked' = [asked EXCEPT ![p] = TRUE]
            /\ UNCHANGED <<pc, threads, signalled, holder, tables, jobs, overlap, starts>>

(* The kernel ends the threads and frees the lock; rows and files stay.    *)
Crash(p) == /\ pc[p] # "out"
            /\ Goto(p, "out") /\ Release(p)
            /\ spawned' = [spawned EXCEPT ![p] = 0]
            /\ alive' = [alive EXCEPT ![p] = 0]
            /\ asked' = [asked EXCEPT ![p] = FALSE]
            /\ signalled' = [signalled EXCEPT ![p] = FALSE]
            /\ runner' = runner \ {p}
            /\ UNCHANGED <<tables, job, staging, overlap, starts>>

Busy(p) == IF p \in runner THEN 1 ELSE 0

Claim(p) == /\ alive[p] > Busy(p) /\ ~asked[p] /\ job = "queued"
            /\ p \notin runner
            /\ job' = "running" /\ staging' = TRUE
            /\ runner' = runner \union {p}
            /\ UNCHANGED <<pc, threads, asked, signalled, holder, tables, overlap, starts>>

(* The job ends, or is put back because the process is asked to stop.      *)
Finish(p) == /\ p \in runner
             /\ job' \in IF asked[p] THEN {"done", "queued"} ELSE {"done"}
             /\ staging' = FALSE
             /\ runner' = runner \ {p}
             /\ UNCHANGED <<pc, threads, asked, signalled, holder, tables, overlap, starts>>

WorkerDrains(p) == /\ asked[p] /\ alive[p] > Busy(p) /\ job # "queued"
                   /\ alive' = [alive EXCEPT ![p] = @ - 1]
                   /\ UNCHANGED <<pc, spawned, asked, signalled, holder, tables, jobs, overlap,
                                  starts>>

WorkerEnds(p) == /\ asked[p] /\ alive[p] > Busy(p)
                 /\ alive' = [alive EXCEPT ![p] = @ - 1]
                 /\ UNCHANGED <<pc, spawned, asked, signalled, holder, tables, jobs, overlap, starts>>

(* What requests ask for: the result of parse_repository_url.              *)
Identity == [u \in Known |-> Normalized(u)]

(* Database::add_repository: the rows with this identity under either name. *)
Matches(u) == {i \in DOMAIN rows : Identity[u] \in {rows[i].canonical, rows[i].normalized}}

Add(p, u) == /\ pc[p] = "serving" /\ Len(rows) < MaxRows
             /\ Identity[u] # Bad /\ Matches(u) = {}
             /\ rows' = Append(rows, [normalized |-> Identity[u], added |-> TRUE,
                                      canonical  |-> Identity[u]])
             /\ UNCHANGED <<pc, threads, asked, signalled, holder, schema, recorded, jobs,
                            overlap, starts>>

(***************************************************************************)
(* Steps that happen by themselves, and steps that the world decides.      *)
(***************************************************************************)
Step(p) == \/ Lock(p) \/ Refused(p) \/ Create(p) \/ Record(p) \/ Migrate(p)
           \/ Verify(p) \/ Backfill(p) \/ Recover(p) \/ Clean(p) \/ Spawn(p)
           \/ Catch(p) \/ Leave(p) \/ (asked[p] /\ ServerEnds(p))

Chance(p) == \/ Start(p) \/ Throw(p) \/ Signal(p) \/ Crash(p) \/ Claim(p)
             \/ (~asked[p] /\ ServerEnds(p)) \/ (~asked[p] /\ Finish(p))
             \/ \E u \in Known : Add(p, u)

Next == \E p \in Process : \/ Step(p) \/ Chance(p) \/ Watch(p) \/ WorkerEnds(p)
                           \/ (asked[p] /\ Finish(p))

Spec == Init /\ [][Next]_vars

(* The thread of run() and its watcher run on; a worker that is asked to   *)
(* stop ends, since its command is stopped too.                            *)
Fairness == \A p \in Process : /\ WF_vars(Step(p)) /\ WF_vars(Watch(p))
                               /\ WF_vars(WorkerEnds(p))
                               /\ WF_vars(asked[p] /\ Finish(p))
FairSpec == Spec /\ Fairness

(***************************************************************************)
(* Properties.                                                             *)
(***************************************************************************)
TypeOK == /\ pc \in [Process -> {"out", "serving", "stopping", "caught", "joining"} \union StartSteps]
          /\ spawned \in [Process -> 0..Worker] /\ alive \in [Process -> 0..Worker]
          /\ asked \in [Process -> BOOLEAN] /\ signalled \in [Process -> BOOLEAN]
          /\ holder \in Process \union {NoOne}
          /\ schema \subseteq 1..Latest /\ recorded \subseteq 1..Latest
          /\ job \in {"queued", "running", "done"}
          /\ runner \subseteq Process /\ staging \in BOOLEAN /\ overlap \in BOOLEAN
          /\ starts \in 0..MaxStarts

Uses(p) == pc[p] \in (StartSteps \ {"lock"}) \union {"serving"} \/ alive[p] > 0

(* What README.md:95 and README.md:391 say: the lock is held as long as a  *)
(* process lives, so that of two processes one has no part in the data     *)
(* directory: it works through no step of its start, does not serve, and   *)
(* has no workers.                                                         *)
OneInstance == \A p, q \in Process : Uses(p) /\ Uses(q) => p = q

(* What the code does: the same, unless one of them left its block by an   *)
(* exception, which frees the lock, and has not joined its workers yet.  A *)
(* crash, a signal and a server that cannot listen never let two in.       *)
OneInstanceUnlessUnwound ==
    \A p, q \in Process : Uses(p) /\ Uses(q) /\ p # q =>
       \E r \in {p, q} : pc[r] \in {"caught", "joining"}

(* Recovery and clean-up only ever take a job, and a staging directory,    *)
(* whose worker is gone, and no two workers run the same job.              *)
RecoveryIsSafe ==
    ~overlap => /\ runner # {} => job = "running" /\ staging
                /\ \A p, q \in runner : p = q

(* Wherever an earlier start was cut short, a migration is never applied   *)
(* to tables that have its changes already: a start does not fail on what  *)
(* another start left behind, and who serves has the whole schema.         *)
MigrationsApplyOnce ==
    \A p \in Process :
       /\ pc[p] = "migrate" => schema = recorded /\ Pending \intersect schema = {}
       /\ pc[p] \in {"backfill", "serving"} => schema = 1..Latest

(* What the parts above rest on.  The lock is held from its taking to the  *)
(* end, unless an exception freed it; workers are only alive where they    *)
(* may be; who runs the job has a worker; and while there was no overlap,  *)
(* all workers that live belong to one process, the holder if there is one. *)
Holding == (StartSteps \ {"lock"}) \union {"serving", "stopping"}

LockIsHeld == \A p \in Process : holder = p <=> pc[p] \in Holding

WorkersAreJoined ==
    \A p \in Process :
       /\ alive[p] > 0 => pc[p] \in {"spawn", "serving", "stopping", "caught", "joining"}
       /\ alive[p] <= spawned[p]
       /\ p \in runner => alive[p] > 0

OneCrew ==
    ~overlap => \A p, q \in Process : alive[p] > 0 =>
       /\ alive[q] > 0 => p = q
       /\ holder # NoOne => holder = p

(* The versions that are recorded are the first ones, and their changes    *)
(* are in the tables; the tables of version 1 may come before its record.  *)
SchemaGrows ==
    /\ \E v \in 0..Latest : recorded = 1..v
    /\ schema = recorded \/ (recorded = {} /\ schema = {1})
    /\ \A p \in Process : /\ pc[p] = "record" => 1 \in schema
                          /\ pc[p] = "migrate" => 1 \in recorded
                          /\ pc[p] \in {"backfill", "recover", "clean", "spawn", "serving"}
                                => schema = 1..Latest

(* The inductive invariant.                                                *)
Safety == /\ LockIsHeld /\ WorkersAreJoined /\ OneCrew /\ SchemaGrows /\ RecoveryIsSafe

(* However a URL is spelled, and whatever an older version stored, a       *)
(* repository that is added is no repository that is there already.  Rows  *)
(* of one repository that an older version left are not merged.            *)
OneMirrorPerRepository ==
    \A i, j \in DOMAIN rows :
       i # j /\ rows[j].added => Denotes(rows[i].normalized) # Denotes(rows[j].normalized)

(* A URL that is taken for a repository denotes that repository.           *)
NoStrangerIsFound ==
    \A u \in Known : Identity[u] # Bad =>
       \A i \in Matches(u) : Denotes(rows[i].normalized) = Denotes(u)

(* Adding a repository never makes a second row of it, and finding one     *)
(* never finds another; so two rows of one repository are both an older    *)
(* version's (add_repository, backfill_canonical_repository_urls).         *)
IdentityIsExact == OneMirrorPerRepository /\ NoStrangerIsFound

(* A process that is asked to stop, at any moment of its start or its      *)
(* service, ends; so does one that fails.                                  *)
EndsWhenAsked ==
    \A p \in Process :
       (signalled[p] \/ pc[p] \in {"caught", "joining", "stopping"}) ~> pc[p] = "out"
=============================================================================
