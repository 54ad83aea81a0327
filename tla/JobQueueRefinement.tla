------------------------- MODULE JobQueueRefinement -------------------------
(* Proof that the job queue implements the life cycle of its jobs, that    *)
(* the history stays bounded, and that no running row is forgotten.        *)
(*                                                                         *)
(* Every step of JobQueue is first reduced to what it does to the jobs and *)
(* to the workers' hold on them (Effect); the three results then speak of  *)
(* the effects only.                                                       *)
EXTENDS JobQueueProofs, WellFoundedInduction

-----------------------------------------------------------------------------
(* What a step can do to the jobs.                                         *)

(* Workers that hold a job other than `skip' go on holding it, for as long *)
(* as the process lives.                                                   *)
Keeps(skip) ==
    up' => /\ up
           /\ \A w \in Worker : worker[w].pc \in Holding /\ worker[w].id # skip =>
                worker'[w].pc \in Holding /\ worker'[w].id = worker[w].id

(* Nobody lets go of a job that has a row.                                 *)
KeepsAll == \E j : j \notin DOMAIN jobs /\ Keeps(j)

Quiet ==
    /\ DOMAIN jobs' = DOMAIN jobs
    /\ \A j \in DOMAIN jobs : SameJob(j) /\ jobs'[j].status = jobs[j].status
    /\ lastJob' = lastJob

Adds ==
    /\ lastJob <= lastJob'
    /\ DOMAIN jobs' = DOMAIN jobs \cup (lastJob + 1 .. lastJob')
    /\ \A j \in DOMAIN jobs : jobs'[j] = jobs[j]
    /\ \A j \in lastJob + 1 .. lastJob' : jobs'[j].status = "queued"

Drops(r) ==
    /\ DOMAIN jobs' = {j \in DOMAIN jobs : jobs[j].repo # r}
    /\ \A j \in DOMAIN jobs' : jobs'[j] = jobs[j]
    /\ lastJob' = lastJob

(* The status of one job changes, from one value to another.               *)
Turns(j, from, to) ==
    /\ DOMAIN jobs' = DOMAIN jobs
    /\ jobs[j].status = from
    /\ jobs'[j].status = to
    /\ \A k \in DOMAIN jobs : k # j => jobs'[k] = jobs[k]
    /\ \A k \in DOMAIN jobs : SameJob(k)
    /\ lastJob' = lastJob

Claims(j) ==
    /\ Claimable(j)
    /\ Turns(j, "queued", "running")
    /\ KeepsAll
    /\ \E w \in Worker : worker'[w].pc \in Holding /\ worker'[w].id = j

Requeues(j) == Turns(j, "running", "queued") /\ Keeps(j)

Ends(j) ==
    /\ Running(j)
    /\ \E outcome \in Terminal : jobs' = Prune([jobs EXCEPT ![j].status = outcome])
    /\ lastJob' = lastJob
    /\ Keeps(j)

(* A job ends whose row has been deleted: only the pruning is left.        *)
Prunes ==
    /\ jobs' = Prune(jobs)
    /\ lastJob' = lastJob
    /\ KeepsAll

Restarts ==
    /\ jobs' = Requeued(Prune(jobs))
    /\ lastJob' = lastJob

Effect ==
    \/ Quiet /\ (KeepsAll \/ DbFaults)
    \/ Adds /\ KeepsAll
    \/ \E r \in RepoId : Drops(r) /\ KeepsAll
    \/ \E j \in DOMAIN jobs : Claims(j) \/ Requeues(j) \/ Ends(j)
    \/ Prunes
    \/ Restarts

-----------------------------------------------------------------------------
(* The steps and their effects.                                            *)

LEMMA ZeroIsAbsent == TypeOK /\ Keeps(0) => KeepsAll
BY DEF TypeOK, KeepsAll

LEMMA SameJobsQuiet ==
    ASSUME UNCHANGED <<jobs, lastJob>>
    PROVE  Quiet
BY DEF Quiet, SameJob

LEMMA StayKeeps ==
    ASSUME UNCHANGED <<worker, up>>
    PROVE  Keeps(0)
BY DEF Keeps

LEMMA MoveKeeps ==
    ASSUME TypeOK, NEW w \in Worker, up,
           \/ \E pc \in Holding : Goto(w, pc)
           \/ \E outcome : Return(w, outcome)
           \/ \E b : worker' = [worker EXCEPT ![w].pc = "locked", ![w].link = b]
    PROVE  Keeps(0)
<1>1. worker[w] \in WorkerRow /\ worker \in [Worker -> WorkerRow]
  BY DEF TypeOK
<1>2. /\ worker'[w].pc \in Holding
      /\ worker'[w].id = worker[w].id
      /\ \A v \in Worker : v # w => worker'[v] = worker[v]
  <2>1. ASSUME NEW pc \in Holding, Goto(w, pc)
        PROVE  <1>2!:
    BY <1>1, <2>1 DEF Goto, WorkerRow
  <2>2. ASSUME NEW outcome, Return(w, outcome)
        PROVE  <1>2!:
    <3>1. /\ worker'[w] = [worker[w] EXCEPT !.pc = "done", !.result = outcome]
          /\ \A v \in Worker : v # w => worker'[v] = worker[v]
      BY <1>1, <2>2 DEF Return
    <3>2. "done" \in Holding
      BY DEF Holding
    <3> QED BY <1>1, <3>1, <3>2 DEF WorkerRow
  <2>3. ASSUME NEW b, worker' = [worker EXCEPT ![w].pc = "locked", ![w].link = b]
        PROVE  <1>2!:
    <3>1. /\ worker'[w] = [worker[w] EXCEPT !.pc = "locked", !.link = b]
          /\ \A v \in Worker : v # w => worker'[v] = worker[v]
      BY <1>1, <2>3
    <3>2. "locked" \in Holding
      BY DEF Holding, Executing
    <3> QED BY <1>1, <3>1, <3>2 DEF WorkerRow
  <2> QED BY <2>1, <2>2, <2>3
<1> QED BY <1>2 DEF Keeps

LEMMA LeaveKeeps ==
    ASSUME TypeOK, NEW w \in Worker, up, NEW pc, worker' = [worker EXCEPT ![w] = Free(pc)],
           NEW j, worker[w].pc \in Holding => worker[w].id = j
    PROVE  Keeps(j)
<1>1. \A v \in Worker : v # w => worker'[v] = worker[v]
  BY DEF TypeOK
<1> QED BY <1>1 DEF Keeps

LEMMA EnqueueAdds ==
    ASSUME TypeOK, NEW r, NEW kind, NEW p, EnqueueJob(r, kind, p)
    PROVE  Adds
<1>0. lastJob \in Nat /\ \A j \in DOMAIN jobs : j \in 1 .. lastJob
  BY DEF TypeOK
<1>1. CASE UNCHANGED <<jobs, lastJob>>
  <2>1. lastJob + 1 .. lastJob = {}
    BY <1>0
  <2> QED BY <1>0, <1>1, <2>1 DEF Adds
<1>2. CASE InsertJob(r, kind, p)
  <2>1. /\ jobs' = [j \in DOMAIN jobs \cup {lastJob + 1} |->
                     IF j = lastJob + 1 THEN NewJob(r, kind, p) ELSE jobs[j]]
        /\ lastJob' = lastJob + 1
    BY <1>2 DEF InsertJob
  <2>2. lastJob + 1 \notin DOMAIN jobs /\ lastJob + 1 .. lastJob + 1 = {lastJob + 1}
    BY <1>0
  <2>3. lastJob + 1 .. lastJob' = {lastJob + 1} /\ lastJob <= lastJob'
    BY <1>0, <2>1, <2>2
  <2>4. jobs'[lastJob + 1].status = "queued"
    BY <2>1 DEF NewJob
  <2>5. \A j \in DOMAIN jobs : jobs'[j] = jobs[j]
    BY <2>1, <2>2
  <2> QED BY <2>1, <2>3, <2>4, <2>5 DEF Adds
<1> QED BY <1>1, <1>2 DEF EnqueueJob

LEMMA EnqueueEachAdds ==
    ASSUME TypeOK, NEW picked, NEW kind, EnqueueEach(picked, kind), Grows
    PROVE  Adds
<1> DEFINE last == lastJob + Cardinality(Unserved(picked, kind))
<1>0. lastJob \in Nat /\ \A j \in DOMAIN jobs : j \in 1 .. lastJob
  BY DEF TypeOK
<1>1. lastJob' = last /\ lastJob <= lastJob' /\ lastJob' \in Nat
  BY DEF EnqueueEach, Grows
<1>2. PICK order :
        jobs' = [j \in DOMAIN jobs \cup (lastJob + 1 .. last) |->
                   IF j > lastJob THEN NewJob(order[j], kind, NULL) ELSE jobs[j]]
  BY DEF EnqueueEach
<1> HIDE DEF last
<1>3. \A j \in lastJob + 1 .. last : j > lastJob
  BY <1>0, <1>1
<1>4. \A j \in lastJob + 1 .. last : jobs'[j].status = "queued"
  BY <1>2, <1>3 DEF NewJob
<1>5. \A j \in DOMAIN jobs : jobs'[j] = jobs[j]
  BY <1>0, <1>2
<1>6. DOMAIN jobs' = DOMAIN jobs \cup (lastJob + 1 .. last)
  BY <1>2
<1> QED BY <1>1, <1>4, <1>5, <1>6 DEF Adds

LEMMA ImportAdds ==
    ASSUME TypeOK, NEW urls, ImportRepositories(urls), Grows
    PROVE  Adds
<1> DEFINE last == lastJob + Cardinality(Unknown(urls))
<1>0. lastJob \in Nat /\ \A j \in DOMAIN jobs : j \in 1 .. lastJob
  BY DEF TypeOK
<1>1. lastJob' = last /\ lastJob <= lastJob' /\ lastJob' \in Nat
  BY DEF ImportRepositories, Grows
<1>2. jobs' = [j \in DOMAIN jobs \cup (lastJob + 1 .. last) |->
                IF j > lastJob THEN NewJob(lastRepo + (j - lastJob), "clone", NULL)
                               ELSE jobs[j]]
  BY DEF ImportRepositories
<1> HIDE DEF last
<1>3. \A j \in lastJob + 1 .. last : j > lastJob
  BY <1>0, <1>1
<1>4. \A j \in lastJob + 1 .. last : jobs'[j].status = "queued"
  BY <1>2, <1>3 DEF NewJob
<1>5. \A j \in DOMAIN jobs : jobs'[j] = jobs[j]
  BY <1>0, <1>2
<1>6. DOMAIN jobs' = DOMAIN jobs \cup (lastJob + 1 .. last)
  BY <1>2
<1> QED BY <1>1, <1>4, <1>5, <1>6 DEF Adds

LEMMA FinishEffect ==
    ASSUME TypeOK, NEW j, NEW outcome \in Terminal, FinishJob(j, outcome), lastJob' = lastJob,
           Keeps(j), j \in DOMAIN jobs => Running(j)
    PROVE  Effect
<1>1. CASE j \in DOMAIN jobs
  <2>1. jobs' = Prune([jobs EXCEPT ![j].status = outcome])
    BY <1>1 DEF FinishJob
  <2> QED BY <1>1, <2>1 DEF Effect, Ends
<1>2. CASE j \notin DOMAIN jobs
  <2>1. jobs' = Prune(jobs)
    BY <1>2 DEF FinishJob
  <2> QED BY <1>2, <2>1 DEF Effect, Prunes, KeepsAll
<1> QED BY <1>1, <1>2

LEMMA RequeueEffect ==
    ASSUME TypeOK, NEW j, NEW now, RequeueJob(j, now), lastJob' = lastJob,
           Keeps(j), j \in DOMAIN jobs => Running(j)
    PROVE  Effect
<1>1. CASE j \in DOMAIN jobs
  <2>0. \A k \in DOMAIN jobs : jobs[k] \in JobRow
    BY DEF TypeOK
  <2>1. /\ DOMAIN jobs' = DOMAIN jobs
        /\ \A k \in DOMAIN jobs :
             /\ k # j => jobs'[k] = jobs[k]
             /\ k = j => jobs'[k] = [jobs[k] EXCEPT !.status = "queued", !.due = now]
    BY <1>1 DEF RequeueJob
  <2>2. \A k \in DOMAIN jobs : SameJob(k)
    BY <2>0, <2>1 DEF JobRow, SameJob
  <2>3. jobs'[j].status = "queued"
    BY <1>1, <2>0, <2>1 DEF JobRow
  <2>4. jobs[j].status = "running"
    BY <1>1 DEF Running
  <2>5. Turns(j, "running", "queued")
    BY <2>1, <2>2, <2>3, <2>4 DEF Turns
  <2> QED BY <1>1, <2>5 DEF Effect, Requeues
<1>2. CASE j \notin DOMAIN jobs
  <2>1. jobs' = jobs
    BY <1>2 DEF RequeueJob
  <2>2. Quiet
    BY <2>1, SameJobsQuiet
  <2> QED BY <1>2, <2>2 DEF Effect, KeepsAll
<1> QED BY <1>1, <1>2

LEMMA HandlerEffect ==
    ASSUME TypeOK, Safety, Handler
    PROVE  Effect
<1>0. ASSUME Adds \/ Quiet, UNCHANGED <<worker, up>>
      PROVE  Effect
  BY <1>0, StayKeeps, ZeroIsAbsent DEF Effect
<1>1. ASSUME NEW urls \in SUBSET Url, Import(urls)
      PROVE  Effect
  <2>1. ImportRepositories(urls) /\ UNCHANGED <<worker, up>>
    BY <1>1 DEF Import
  <2>2. Adds
    BY <2>1, ImportGrows, ImportAdds
  <2> QED BY <1>0, <2>1, <2>2
<1>2. ASSUME NEW a \in Account, ImportAccount(a)
      PROVE  Effect
  BY <1>0, <1>2, EnqueueAdds DEF ImportAccount
<1>3. ASSUME NEW r \in DOMAIN repos, NEW kind \in Requested, RequestJob(r, kind)
      PROVE  Effect
  BY <1>0, <1>3, EnqueueAdds DEF RequestJob
<1>4. ASSUME NEW r \in DOMAIN repos, NEW value \in BOOLEAN, SetPaused(r, value)
      PROVE  Effect
  BY <1>0, <1>4, SameJobsQuiet DEF SetPaused
<1>5. ASSUME NEW r \in DOMAIN repos, DeleteRepository(r)
      PROVE  Effect
  <2>1. Drops(r) /\ UNCHANGED <<worker, up>>
    BY <1>5 DEF DeleteRepository, Drops
  <2>2. r \in RepoId
    BY BoundAssumption DEF TypeOK, RepoId
  <2> QED BY <2>1, <2>2, StayKeeps, ZeroIsAbsent DEF Effect
<1>6. ASSUME NEW kind \in BulkKind, ListForBulk(kind)
      PROVE  Effect
  BY <1>0, <1>6, SameJobsQuiet DEF ListForBulk, tables
<1>7. ASSUME InsertBulk
      PROVE  Effect
  <2>0. UNCHANGED <<repos, lastRepo, worker, up>>
    BY <1>7 DEF InsertBulk
  <2>1. CASE bulk.picked \subseteq DOMAIN repos
    <3>1. bulk \in [kind : {"fetch", "health"}, picked : SUBSET RepoId]
      BY <1>7 DEF InsertBulk, TypeOK
    <3>2. bulk.kind # "account"
      BY <3>1
    <3>3. EnqueueEach(bulk.picked, bulk.kind)
      BY <1>7, <2>1 DEF InsertBulk
    <3>4. Grows
      BY <2>0, <2>1, <3>2, <3>3, EnqueueEachGrows
    <3>5. Adds
      BY <3>3, <3>4, EnqueueEachAdds
    <3> QED BY <1>0, <2>0, <3>5
  <2>2. CASE ~(bulk.picked \subseteq DOMAIN repos)
    BY <1>0, <1>7, <2>0, <2>2, SameJobsQuiet DEF InsertBulk
  <2> QED BY <2>1, <2>2
<1> QED BY <1>1, <1>2, <1>3, <1>4, <1>5, <1>6, <1>7 DEF Handler

(* Most of a job body leaves the table of jobs alone.                      *)
LEMMA QuietMove ==
    ASSUME TypeOK, NEW w \in Worker, up, UNCHANGED <<jobs, lastJob>>,
           \/ \E pc \in Holding : Goto(w, pc)
           \/ \E outcome : Return(w, outcome)
           \/ \E b : worker' = [worker EXCEPT ![w].pc = "locked", ![w].link = b]
    PROVE  Effect
BY SameJobsQuiet, MoveKeeps, ZeroIsAbsent DEF Effect

LEMMA CloneEffect ==
    ASSUME TypeOK, Safety, NEW w \in Worker, CloneStep(w)
    PROVE  Effect
<1>0. up /\ {"fetching", "published", "link", "catch"} \subseteq Holding
  BY DEF CloneStep, FetchUnavailable, BeginFetch, FetchFails, CloneFails, PublishMirror,
         EnumerateRefsFails, Synchronize, LinkMetadata, AtFetch, AtSynchronize, At,
         Holding, Executing
<1>1. CASE FetchUnavailable(w) \/ FetchFails(w) \/ CloneFails(w) \/ EnumerateRefsFails(w)
  <2>1. UNCHANGED <<jobs, lastJob>> /\ \E outcome : Return(w, outcome)
    BY <1>1 DEF FetchUnavailable, FetchFails, CloneFails, EnumerateRefsFails, Report
  <2> QED BY <1>0, <2>1, QuietMove
<1>2. CASE BeginFetch(w) \/ PublishMirror(w)
  <2>1. UNCHANGED <<jobs, lastJob>> /\ (Goto(w, "fetching") \/ Goto(w, "published"))
    BY <1>2 DEF BeginFetch, PublishMirror
  <2> QED BY <1>0, <2>1, QuietMove
<1>3. CASE Synchronize(w)
  <2>1. /\ UNCHANGED <<jobs, lastJob>>
        /\ Goto(w, "link") \/ Goto(w, "catch") \/ Return(w, "success")
    BY <1>3 DEF Synchronize
  <2> QED BY <1>0, <2>1, QuietMove
<1>4. CASE LinkMetadata(w)
  <2>1. CASE EnqueueJob(worker[w].repo, "metadata", NULL) /\ Return(w, "success")
    <3>1. Adds
      BY <2>1, EnqueueAdds
    <3>2. Keeps(0)
      BY <1>0, <2>1, MoveKeeps
    <3> QED BY <3>1, <3>2, ZeroIsAbsent DEF Effect
  <2>2. CASE UNCHANGED <<jobs, lastJob>> /\ Goto(w, "catch")
    BY <1>0, <2>2, QuietMove
  <2> QED BY <1>4, <2>1, <2>2 DEF LinkMetadata
<1> QED BY <1>1, <1>2, <1>3, <1>4 DEF CloneStep

LEMMA ApiEffect ==
    ASSUME TypeOK, Safety, NEW w \in Worker, ApiStep(w)
    PROVE  Effect
<1>0. up /\ "releases" \in Holding
  BY DEF ApiStep, MetadataStored, ReleasesStored, ImportPage, AccountListed, RateLimited,
         ApiFails, AtApi, At, Holding, Executing
<1>1. CASE MetadataStored(w) \/ ReleasesStored(w) \/ AccountListed(w) \/ ApiFails(w)
  <2>1. /\ UNCHANGED <<jobs, lastJob>>
        /\ Goto(w, "releases") \/ \E outcome : Return(w, outcome)
    BY <1>1 DEF MetadataStored, ReleasesStored, AccountListed, ApiFails, tables
  <2> QED BY <1>0, <2>1, QuietMove
<1>2. ASSUME NEW urls \in SUBSET Url, ImportPage(w, urls)
      PROVE  Effect
  <2>1. ImportRepositories(urls) /\ UNCHANGED <<worker, up>>
    BY <1>2 DEF ImportPage
  <2>2. Adds
    BY <2>1, ImportGrows, ImportAdds
  <2> QED BY <2>1, <2>2, StayKeeps, ZeroIsAbsent DEF Effect
<1>3. CASE RateLimited(w)
  <2>1. DelayPendingGithubJobs /\ Return(w, "delay") /\ lastJob' = lastJob
    BY <1>3 DEF RateLimited
  <2>2. Quiet
    <3>1. DOMAIN jobs' = DOMAIN jobs
      BY <2>1 DEF DelayPendingGithubJobs
    <3>2. \A j \in DOMAIN jobs : SameJob(j) /\ jobs'[j].status = jobs[j].status
      <4> TAKE j \in DOMAIN jobs
      <4>1. jobs[j] \in JobRow
        BY DEF TypeOK
      <4>2. jobs'[j] = jobs[j] \/ jobs'[j] = [jobs[j] EXCEPT !.due = FALSE]
        BY <2>1 DEF DelayPendingGithubJobs
      <4> QED BY <4>1, <4>2 DEF JobRow, SameJob
    <3> QED BY <2>1, <3>1, <3>2 DEF Quiet
  <2> QED BY <1>0, <2>1, <2>2, MoveKeeps, ZeroIsAbsent DEF Effect
<1> QED BY <1>1, <1>2, <1>3 DEF ApiStep

LEMMA BodyEffect ==
    ASSUME TypeOK, Safety, NEW w \in Worker, BodyStep(w)
    PROVE  Effect
<1>1. CASE CloneStep(w)
  BY <1>1, CloneEffect
<1>2. CASE ApiStep(w)
  BY <1>2, ApiEffect
<1>3. CASE Execute(w)
  <2>1. /\ up /\ UNCHANGED <<jobs, lastJob>>
        /\ \/ Goto(w, "account")
           \/ \E outcome : Return(w, outcome)
           \/ \E b : worker' = [worker EXCEPT ![w].pc = "locked", ![w].link = b]
    BY <1>3 DEF Execute, At, tables
  <2>2. "account" \in Holding
    BY DEF Holding, Executing
  <2> QED BY <2>1, <2>2, QuietMove
<1>4. CASE BeginOperation(w)
  <2>1. up /\ UNCHANGED <<jobs, lastJob>> /\ Goto(w, Marker[worker[w].kind])
    BY <1>4 DEF BeginOperation, At
  <2>2. Marker[worker[w].kind] \in Holding
    BY <1>4 DEF BeginOperation, Marker, Holding, Executing
  <2> QED BY <2>1, <2>2, QuietMove
<1>5. CASE HealthStep(w) \/ Interrupted(w) \/ Throw(w)
  <2>1. up
    BY <1>5 DEF HealthStep, HealthChecked, HealthUnavailable, Interrupted, Throw, AtApi, At
  <2>2. /\ UNCHANGED <<jobs, lastJob>>
        /\ Goto(w, "catch") \/ \E outcome : Return(w, outcome)
    BY <1>5 DEF HealthStep, HealthChecked, HealthUnavailable, Interrupted, Throw, Report, tables
  <2>3. "catch" \in Holding
    BY DEF Holding
  <2> QED BY <2>1, <2>2, <2>3, QuietMove
<1> QED BY <1>1, <1>2, <1>3, <1>4, <1>5 DEF BodyStep

LEMMA WorkerEffect ==
    ASSUME TypeOK, Safety, NEW w \in Worker, WorkerStep(w)
    PROVE  Effect
<1> DEFINE j == worker[w].id
<1>0. worker[w].pc \in Holding /\ j \in DOMAIN jobs => Running(j)
  BY DEF Safety, ClaimIsExclusive
<1>1. CASE Exit(w)
  <2>1. /\ up /\ worker[w].pc = "poll" /\ UNCHANGED <<jobs, lastJob>>
        /\ worker' = [worker EXCEPT ![w] = Free("exited")]
    BY <1>1 DEF Exit, At, tables
  <2>2. "poll" \notin Holding
    BY DEF Holding, Executing
  <2>3. Keeps(0)
    BY <2>1, <2>2, LeaveKeeps
  <2> QED BY <2>1, <2>3, SameJobsQuiet, ZeroIsAbsent DEF Effect
<1>2. CASE ClaimNextJob(w)
  <2>1. PICK k \in DOMAIN jobs :
          /\ Claimable(k)
          /\ jobs' = [jobs EXCEPT ![k].status = "running", ![k].attempts = Bump(@)]
          /\ worker' = [worker EXCEPT ![w] =
                          [pc |-> "claimed", id |-> k, repo |-> jobs[k].repo,
                           kind |-> jobs[k].kind, attempts |-> Bump(jobs[k].attempts),
                           link |-> FALSE, result |-> "none"]]
    BY <1>2 DEF ClaimNextJob
  <2>2. lastJob' = lastJob /\ up /\ worker[w].pc = "poll"
    BY <1>2 DEF ClaimNextJob, At
  <2>3. "poll" \notin Holding /\ "claimed" \in Holding
    BY DEF Holding, Executing
  <2>4. /\ worker'[w].pc = "claimed" /\ worker'[w].id = k
        /\ \A v \in Worker : v # w => worker'[v] = worker[v]
    BY <2>1 DEF TypeOK
  <2>5. Keeps(0)
    BY <2>2, <2>3, <2>4 DEF Keeps
  <2>6. \A i \in DOMAIN jobs : jobs[i] \in JobRow
    BY DEF TypeOK
  <2>7. /\ DOMAIN jobs' = DOMAIN jobs
        /\ jobs'[k].status = "running"
        /\ \A i \in DOMAIN jobs : i # k => jobs'[i] = jobs[i]
        /\ \A i \in DOMAIN jobs : SameJob(i)
    BY <2>1, <2>6 DEF JobRow, SameJob
  <2>8. jobs[k].status = "queued"
    BY <2>1 DEF Claimable
  <2>9. Turns(k, "queued", "running")
    BY <2>2, <2>7, <2>8 DEF Turns
  <2> QED BY <2>1, <2>3, <2>4, <2>5, <2>9, ZeroIsAbsent DEF Effect, Claims
<1>3. CASE BodyStep(w)
  BY <1>3, BodyEffect
<1>4. ASSUME \/ \E outcome \in Terminal : FinishJob(j, outcome)
             \/ \E now : RequeueJob(j, now),
             up, NextIteration(w), lastJob' = lastJob, worker[w].pc \in Holding
      PROVE  Effect
  <2>1. Keeps(j)
    BY <1>4, LeaveKeeps DEF NextIteration
  <2> QED BY <1>0, <1>4, <2>1, FinishEffect, RequeueEffect
<1>5. CASE Settle(w)
  <2>1. up /\ NextIteration(w) /\ lastJob' = lastJob /\ worker[w].pc = "done"
    BY <1>5 DEF Settle, At
  <2>2. \/ /\ worker[w].result \notin {"requeue", "delay"}
           /\ FinishJob(j, worker[w].result)
        \/ RequeueJob(j, worker[w].result = "requeue")
    BY <1>5 DEF Settle
  <2>3. "done" \in Holding
    BY DEF Holding
  <2>4. worker[w].result \in Result /\ worker[w].result # "none"
    BY <2>1 DEF TypeOK, WorkerRow
  <2>5. worker[w].result \notin {"requeue", "delay"} => worker[w].result \in Terminal
    BY <2>4 DEF Result, Terminal
  <2> QED BY <1>4, <2>1, <2>2, <2>3, <2>5
<1>6. CASE Recover(w)
  <2>1. up /\ NextIteration(w) /\ lastJob' = lastJob /\ worker[w].pc = "catch"
    BY <1>6 DEF Recover, At
  <2>2. FinishJob(j, "failed") \/ RequeueJob(j, FALSE)
    BY <1>6 DEF Recover
  <2>3. "catch" \in Holding /\ "failed" \in Terminal
    BY DEF Holding, Terminal
  <2> QED BY <1>4, <2>1, <2>2, <2>3
<1>7. CASE SettleThrows(w) \/ RecoverThrows(w)
  <2>1. DbFaults /\ UNCHANGED <<jobs, lastJob>>
    BY <1>7 DEF SettleThrows, RecoverThrows, tables
  <2> QED BY <2>1, SameJobsQuiet DEF Effect
<1> QED BY <1>1, <1>2, <1>3, <1>5, <1>6, <1>7 DEF WorkerStep

LEMMA StepEffect ==
    ASSUME TypeOK, Safety, [Next]_vars
    PROVE  Effect
<1>1. CASE Handler
  BY <1>1, HandlerEffect
<1>2. CASE \E w \in Worker : WorkerStep(w)
  BY <1>2, WorkerEffect
<1>3. ASSUME NEW j \in JobId, Elapse(j)
      PROVE  Effect
  <2>1. DOMAIN jobs' = DOMAIN jobs /\ lastJob' = lastJob /\ UNCHANGED <<worker, up>>
    BY <1>3 DEF Elapse
  <2>2. \A k \in DOMAIN jobs : SameJob(k) /\ jobs'[k].status = jobs[k].status
    <3> TAKE k \in DOMAIN jobs
    <3>1. jobs[k] \in JobRow
      BY DEF TypeOK
    <3>2. jobs'[k] = jobs[k] \/ jobs'[k] = [jobs[k] EXCEPT !.due = TRUE]
      BY <1>3 DEF Elapse
    <3> QED BY <3>1, <3>2 DEF JobRow, SameJob
  <2> QED BY <2>1, <2>2, StayKeeps, ZeroIsAbsent DEF Effect, Quiet
<1>4. CASE RequestShutdown \/ UNCHANGED vars
  <2>1. UNCHANGED <<jobs, lastJob, worker, up>>
    BY <1>4 DEF RequestShutdown, tables, vars
  <2> QED BY <2>1, StayKeeps, SameJobsQuiet, ZeroIsAbsent DEF Effect
<1>5. CASE StopCleanly \/ Crash
  <2>1. UNCHANGED <<jobs, lastJob>> /\ up' = FALSE
    BY <1>5 DEF StopCleanly, Crash, Down, tables
  <2>2. Keeps(0)
    BY <2>1 DEF Keeps
  <2> QED BY <2>1, <2>2, SameJobsQuiet, ZeroIsAbsent DEF Effect
<1>6. CASE Start
  BY <1>6 DEF Start, RecoverInterruptedJobs, Effect, Restarts
<1> QED BY <1>1, <1>2, <1>3, <1>4, <1>5, <1>6 DEF Next, Process

-----------------------------------------------------------------------------
(* The history stays bounded.                                              *)

LEMMA LeastElement ==
    ASSUME NEW S \in SUBSET Nat, S # {}
    PROVE  \E m \in S : \A k \in S : m <= k
<1> DEFINE R == OpToRel(<, Nat)
<1>1. IsWellFoundedOn(R, Nat)
  BY NatLessThanWellFounded
<1>2. \A p, q \in Nat : p < q => <<p, q>> \in R
  BY DEF OpToRel
<1> HIDE DEF R
<1>3. PICK m \in S : \A k \in S : <<k, m>> \notin R
  BY <1>1, WFMin
<1>4. \A k \in S : ~(k < m)
  BY <1>2, <1>3
<1>5. \A k \in S : k \in Nat
  OBVIOUS
<1>6. m \in Nat
  BY <1>5
<1> QED BY <1>4, <1>5, <1>6

TerminalIn(table) == {j \in DOMAIN table : table[j].status \in Terminal}

LEMMA TerminalFinite ==
    ASSUME NEW table, DOMAIN table \subseteq JobId
    PROVE  /\ IsFiniteSet(TerminalIn(table))
           /\ Cardinality(TerminalIn(table)) \in Nat
<1>1. IsFiniteSet(JobId)
  BY FS_Interval, BoundAssumption DEF JobId
<1>2. TerminalIn(table) \in SUBSET JobId
  BY DEF TerminalIn
<1> QED BY <1>1, <1>2, FS_Subset, FS_CardinalityType

(* What prune_job_history leaves: every job that has not ended, and of the *)
(* ended ones no more than Retained.                                       *)
LEMMA PruneBounds ==
    ASSUME NEW table, DOMAIN table \subseteq JobId
    PROVE  Cardinality(TerminalIn(Prune(table))) <= Retained
<1> DEFINE kept == TerminalIn(Prune(table))
           done == TerminalIn(table)
           Above(j) == {d \in done : d > j}
<1>1. /\ DOMAIN Prune(table) \subseteq DOMAIN table
      /\ \A j \in DOMAIN Prune(table) : Prune(table)[j] = table[j]
  BY DEF Prune
<1>2. kept \subseteq done /\ done \subseteq JobId
  BY <1>1 DEF TerminalIn
<1>3. \A j \in kept : Cardinality(Above(j)) < Retained
  BY DEF Prune, TerminalIn
<1>4. IsFiniteSet(done)
  BY TerminalFinite
<1> HIDE DEF kept, done
<1>5. CASE kept = {}
  BY <1>5, FS_EmptySet, RetainedAssumption DEF kept
<1>6. CASE kept # {}
  <2>0. JobId \subseteq Nat
    BY BoundAssumption DEF JobId
  <2>1. PICK m \in kept : \A k \in kept : m <= k
    BY <1>2, <1>6, <2>0, LeastElement
  <2>2. kept \subseteq Above(m) \cup {m}
    BY <1>2, <2>0, <2>1
  <2>3. IsFiniteSet(Above(m)) /\ Cardinality(Above(m)) \in Nat
    <3>1. Above(m) \in SUBSET done
      OBVIOUS
    <3> QED BY <1>4, <3>1, FS_Subset, FS_CardinalityType
  <2>4. m \notin Above(m)
    BY <1>2, <2>0
  <2>5. /\ IsFiniteSet(Above(m) \cup {m})
        /\ Cardinality(Above(m) \cup {m}) = Cardinality(Above(m)) + 1
    BY <2>3, <2>4, FS_AddElement
  <2>6. Cardinality(kept) <= Cardinality(Above(m)) + 1
    BY <2>2, <2>5, FS_Subset
  <2>7. Cardinality(Above(m)) < Retained
    BY <1>3, <2>1
  <2>8. Cardinality(kept) \in Nat
    BY <2>2, <2>5, FS_Subset, FS_CardinalityType
  <2>9. Cardinality(kept) <= Retained
    <3> PICK a : a = Cardinality(Above(m))
      OBVIOUS
    <3> PICK b : b = Cardinality(kept)
      OBVIOUS
    <3> QED BY <2>3, <2>6, <2>7, <2>8, RetainedAssumption
  <2> QED BY <2>9 DEF kept
<1> QED BY <1>5, <1>6

(* A history within the bound is left as it is.                            *)
LEMMA PruneIsIdentity ==
    ASSUME NEW table, DOMAIN table \subseteq JobId, table = [j \in DOMAIN table |-> table[j]],
           Cardinality(TerminalIn(table)) <= Retained
    PROVE  Prune(table) = table
<1> DEFINE done == TerminalIn(table)
           Above(j) == {d \in done : d > j}
<1>0. IsFiniteSet(done) /\ Cardinality(done) \in Nat
  BY TerminalFinite
<1>1. ASSUME NEW j \in done
      PROVE  Cardinality(Above(j)) < Retained
  <2>1. Above(j) \in SUBSET done /\ j \notin Above(j)
    <3>1. j \in JobId
      BY DEF TerminalIn
    <3>2. j \in Nat
      BY <3>1, BoundAssumption DEF JobId
    <3> HIDE DEF done
    <3> QED BY <3>2
  <2>2. /\ IsFiniteSet(Above(j)) /\ Cardinality(Above(j)) \in Nat
        /\ Cardinality(Above(j)) <= Cardinality(done)
        /\ Cardinality(Above(j)) # Cardinality(done)
    BY <1>0, <2>1, FS_Subset, FS_CardinalityType
  <2> PICK a : a = Cardinality(Above(j))
    OBVIOUS
  <2> PICK b : b = Cardinality(done)
    OBVIOUS
  <2> QED BY <1>0, <2>2, RetainedAssumption
<1>2. {j \in DOMAIN table :
         \/ j \notin done
         \/ Cardinality(Above(j)) < Retained} = DOMAIN table
  BY <1>1
<1> QED BY <1>2 DEF Prune, TerminalIn

LEMMA RetentionStep ==
    ASSUME TypeOK, Safety, RetentionHolds, Effect
    PROVE  RetentionHolds'
<1>0. DOMAIN jobs \subseteq JobId
  BY BoundAssumption DEF TypeOK, JobId
<1>1. Cardinality(TerminalIn(jobs)) <= Retained
  BY DEF RetentionHolds, TerminalIn
<1>2. ASSUME \A j \in DOMAIN jobs' : jobs'[j].status \in Terminal =>
               j \in DOMAIN jobs /\ jobs[j].status \in Terminal
      PROVE  RetentionHolds'
  <2> PICK after : after = {j \in DOMAIN jobs' : jobs'[j].status \in Terminal}
    OBVIOUS
  <2>1. after \in SUBSET TerminalIn(jobs)
    BY <1>2 DEF TerminalIn
  <2>2. IsFiniteSet(TerminalIn(jobs)) /\ Cardinality(TerminalIn(jobs)) \in Nat
    BY <1>0, TerminalFinite
  <2>3. Cardinality(after) <= Cardinality(TerminalIn(jobs)) /\ Cardinality(after) \in Nat
    BY <2>1, <2>2, FS_Subset, FS_CardinalityType
  <2>4. Cardinality(after) <= Retained
    BY <1>1, <2>2, <2>3, RetainedAssumption
  <2> QED BY <2>4 DEF RetentionHolds
<1>3. "queued" \notin Terminal /\ "running" \notin Terminal
  BY DEF Terminal
<1>4. CASE Quiet \/ Adds \/ \E r \in RepoId : Drops(r)
  BY <1>2, <1>3, <1>4 DEF Quiet, Adds, Drops
<1>5. ASSUME NEW j \in DOMAIN jobs, Claims(j) \/ Requeues(j)
      PROVE  RetentionHolds'
  BY <1>2, <1>3, <1>5 DEF Claims, Requeues, Turns
<1>6. ASSUME NEW j \in DOMAIN jobs, Ends(j)
      PROVE  RetentionHolds'
  <2>1. PICK outcome : jobs' = Prune([jobs EXCEPT ![j].status = outcome])
    BY <1>6 DEF Ends
  <2>2. DOMAIN [jobs EXCEPT ![j].status = outcome] \subseteq JobId
    BY <1>0
  <2>3. Cardinality(TerminalIn(jobs')) <= Retained
    BY <2>1, <2>2, PruneBounds
  <2> QED BY <2>3 DEF RetentionHolds, TerminalIn
<1>7. CASE Prunes
  <2>1. Cardinality(TerminalIn(jobs')) <= Retained
    BY <1>0, <1>7, PruneBounds DEF Prunes
  <2> QED BY <2>1 DEF RetentionHolds, TerminalIn
<1>8. CASE Restarts
  <2>1. jobs' = Requeued(Prune(jobs))
    BY <1>8 DEF Restarts
  <2>2. /\ DOMAIN jobs' = DOMAIN Prune(jobs)
        /\ \A j \in DOMAIN jobs' :
             \/ jobs'[j] = Prune(jobs)[j]
             \/ jobs'[j] = [Prune(jobs)[j] EXCEPT !.status = "queued"]
    BY <2>1 DEF Requeued
  <2>3. /\ DOMAIN Prune(jobs) \subseteq DOMAIN jobs
        /\ \A j \in DOMAIN Prune(jobs) : Prune(jobs)[j] = jobs[j] /\ jobs[j] \in JobRow
    BY DEF Prune, TypeOK
  <2>4. \A j \in DOMAIN jobs' : jobs'[j] = jobs[j] \/ jobs'[j].status = "queued"
    BY <2>2, <2>3 DEF JobRow
  <2> QED BY <1>2, <1>3, <2>2, <2>3, <2>4
<1> QED BY <1>4, <1>5, <1>6, <1>7, <1>8 DEF Effect

(* Safety, and with it what bounds the table of jobs.                      *)
LEMMA InitInvariant == Init => Invariant
<1> SUFFICES ASSUME Init PROVE RetentionHolds
  BY InitSafe DEF Invariant
<1>1. {j \in DOMAIN jobs : jobs[j].status \in Terminal} = {}
  BY DEF Init
<1> QED BY <1>1, FS_EmptySet, RetainedAssumption DEF RetentionHolds

LEMMA StepInvariant == TypeOK /\ TypeOK' /\ Invariant /\ [Next]_vars => Invariant'
BY StepSafe, StepEffect, RetentionStep DEF Invariant

(* prune_job_history keeps the history within its bound although nothing   *)
(* but the end of a job and a start ever calls it.                         *)
THEOREM InvariantHolds == Spec => []Invariant
BY InitInvariant, StepInvariant, TypeCorrect, PTL DEF Spec

-----------------------------------------------------------------------------
(* No running row is forgotten.                                            *)

LEMMA RunningStep ==
    ASSUME TypeOK, Safety, RunningHasWorker, Effect, ~DbFaults
    PROVE  RunningHasWorker'
<1> SUFFICES ASSUME up', NEW j \in DOMAIN jobs', jobs'[j].status = "running"
             PROVE  \E w \in Worker : worker'[w].pc \in Holding /\ worker'[w].id = j
  BY DEF RunningHasWorker, Running
<1>0. "running" \notin Terminal
  BY DEF Terminal
<1>1. ASSUME NEW skip, Keeps(skip), j # skip, j \in DOMAIN jobs, jobs[j].status = "running"
      PROVE  \E w \in Worker : worker'[w].pc \in Holding /\ worker'[w].id = j
  <2>1. up
    BY <1>1 DEF Keeps
  <2>2. PICK w \in Worker : worker[w].pc \in Holding /\ worker[w].id = j
    BY <1>1, <2>1 DEF RunningHasWorker, Running
  <2> QED BY <1>1, <2>2 DEF Keeps
<1>2. ASSUME KeepsAll, j \in DOMAIN jobs, jobs[j].status = "running"
      PROVE  \E w \in Worker : worker'[w].pc \in Holding /\ worker'[w].id = j
  BY <1>1, <1>2 DEF KeepsAll
<1>3. CASE Quiet /\ KeepsAll
  BY <1>2, <1>3 DEF Quiet
<1>4. CASE Adds /\ KeepsAll
  <2>1. j \in DOMAIN jobs /\ jobs[j].status = "running"
    BY <1>4 DEF Adds
  <2> QED BY <1>2, <1>4, <2>1
<1>5. CASE \E r \in RepoId : Drops(r) /\ KeepsAll
  BY <1>2, <1>5 DEF Drops
<1>6. ASSUME NEW k \in DOMAIN jobs, Claims(k)
      PROVE  \E w \in Worker : worker'[w].pc \in Holding /\ worker'[w].id = j
  BY <1>2, <1>6 DEF Claims, Turns
<1>7. ASSUME NEW k \in DOMAIN jobs, Requeues(k)
      PROVE  \E w \in Worker : worker'[w].pc \in Holding /\ worker'[w].id = j
  BY <1>1, <1>7 DEF Requeues, Turns
<1>8. ASSUME NEW k \in DOMAIN jobs, Ends(k)
      PROVE  \E w \in Worker : worker'[w].pc \in Holding /\ worker'[w].id = j
  <2>1. PICK outcome \in Terminal : jobs' = Prune([jobs EXCEPT ![k].status = outcome])
    BY <1>8 DEF Ends
  <2>2. /\ j \in DOMAIN jobs
        /\ jobs'[j] = [jobs EXCEPT ![k].status = outcome][j]
    BY <2>1 DEF Prune
  <2>3. jobs[k] \in JobRow
    BY DEF TypeOK
  <2>4. j # k /\ jobs'[j] = jobs[j]
    BY <1>0, <2>2, <2>3 DEF JobRow
  <2> QED BY <1>1, <1>8, <2>2, <2>4 DEF Ends
<1>9. CASE Prunes
  <2>1. j \in DOMAIN jobs /\ jobs'[j] = jobs[j]
    BY <1>9 DEF Prunes, Prune
  <2> QED BY <1>2, <1>9, <2>1 DEF Prunes
<1>10. CASE Restarts
  <2>1. /\ DOMAIN jobs' = DOMAIN Prune(jobs)
        /\ jobs'[j] = IF Prune(jobs)[j].status = "running"
                        THEN [Prune(jobs)[j] EXCEPT !.status = "queued"]
                        ELSE Prune(jobs)[j]
    BY <1>10 DEF Restarts, Requeued
  <2>2. Prune(jobs)[j] = jobs[j] /\ jobs[j] \in JobRow
    BY <2>1 DEF Prune, TypeOK
  <2> QED BY <2>1, <2>2 DEF JobRow
<1> QED BY <1>3, <1>4, <1>5, <1>6, <1>7, <1>8, <1>9, <1>10 DEF Effect

(* As long as the transactions that end jobs do not fail, every running    *)
(* row has a worker that will end it, after crashes and restarts too.      *)
THEOREM NoForgottenJob ==
    ASSUME ~DbFaults
    PROVE  Spec => []RunningHasWorker
<1>1. Init => RunningHasWorker
  BY DEF Init, RunningHasWorker, Running
<1>2. TypeOK /\ Safety /\ RunningHasWorker /\ [Next]_vars => RunningHasWorker'
  BY StepEffect, RunningStep
<1> QED BY <1>1, <1>2, TypeCorrect, SafetyHolds, PTL DEF Spec

-----------------------------------------------------------------------------
(* The life cycle.  What a table of jobs says of one job, and of a step.   *)

Phases ==
    \A j \in JobId :
        /\ j > lastJob => jobPhase[j] = "new"
        /\ j <= lastJob /\ j \notin DOMAIN jobs => jobPhase[j] = "gone"
        /\ j \in DOMAIN jobs => jobPhase[j] = IF jobs[j].status \in Terminal
                                              THEN "ended" ELSE jobs[j].status
        /\ jobOwner[j] = IF j \in DOMAIN jobs THEN jobs[j].repo ELSE NULL

LEMMA PhaseValues == TypeOK => Phases
<1> SUFFICES ASSUME TypeOK PROVE Phases
  OBVIOUS
<1>1. \A j \in DOMAIN jobs : j \in JobId /\ ~(j > lastJob)
  BY BoundAssumption DEF TypeOK, JobId
<1>2. \A j \in JobId : ~(j > lastJob /\ j <= lastJob)
  BY BoundAssumption DEF TypeOK, JobId
<1> QED BY <1>1, <1>2 DEF Phases, jobPhase, jobOwner, PhaseOf

LEMMA PhaseValuesNext == TypeOK' => Phases'
BY PhaseValues, PTL

SamePhase(j) == jobPhase'[j] = jobPhase[j] /\ jobOwner'[j] = jobOwner[j]

LEMMA MapDomains ==
    /\ jobPhase = [j \in JobId |-> jobPhase[j]]
    /\ jobOwner = [j \in JobId |-> jobOwner[j]]
    /\ jobPhase' = [j \in JobId |-> jobPhase'[j]]
    /\ jobOwner' = [j \in JobId |-> jobOwner'[j]]
BY DEF jobPhase, jobOwner

LEMMA StutterMap ==
    ASSUME \A j \in JobId : SamePhase(j)
    PROVE  UNCHANGED <<jobPhase, jobOwner>>
<1>1. [j \in JobId |-> jobPhase'[j]] = [j \in JobId |-> jobPhase[j]]
  BY DEF SamePhase
<1>2. [j \in JobId |-> jobOwner'[j]] = [j \in JobId |-> jobOwner[j]]
  BY DEF SamePhase
<1> QED BY <1>1, <1>2, MapDomains

LEMMA BeginMap ==
    ASSUME NEW j \in JobId, jobPhase[j] = "queued", jobPhase'[j] = "running",
           jobOwner'[j] = jobOwner[j],
           \A k \in JobId : k # j => SamePhase(k),
           jobOwner[j] # NULL =>
             \A k \in JobId : jobPhase[k] = "running" => jobOwner[k] # jobOwner[j]
    PROVE  Lifecycle!Begin(j)
<1>1. [k \in JobId |-> jobPhase'[k]] = [[k \in JobId |-> jobPhase[k]] EXCEPT ![j] = "running"]
  BY DEF SamePhase
<1>2. jobPhase' = [jobPhase EXCEPT ![j] = "running"]
  BY <1>1, MapDomains
<1>3. [k \in JobId |-> jobOwner'[k]] = [k \in JobId |-> jobOwner[k]]
  BY DEF SamePhase
<1>4. jobOwner' = jobOwner
  BY <1>3, MapDomains
<1> QED BY <1>2, <1>4 DEF Lifecycle!Begin, Lifecycle!In

LEMMA GoBackMap ==
    ASSUME NEW j \in JobId, jobPhase[j] = "running", jobPhase'[j] = "queued",
           jobOwner'[j] = jobOwner[j],
           \A k \in JobId : k # j => SamePhase(k)
    PROVE  Lifecycle!GoBack(j)
<1>1. [k \in JobId |-> jobPhase'[k]] = [[k \in JobId |-> jobPhase[k]] EXCEPT ![j] = "queued"]
  BY DEF SamePhase
<1>2. jobPhase' = [jobPhase EXCEPT ![j] = "queued"]
  BY <1>1, MapDomains
<1>3. [k \in JobId |-> jobOwner'[k]] = [k \in JobId |-> jobOwner[k]]
  BY DEF SamePhase
<1>4. jobOwner' = jobOwner
  BY <1>3, MapDomains
<1> QED BY <1>2, <1>4 DEF Lifecycle!GoBack

LEMMA EndMap ==
    ASSUME NEW j \in JobId, jobPhase[j] = "running",
           NEW dropped \in SUBSET JobId,
           \A k \in dropped : /\ k = j \/ jobPhase[k] = "ended"
                              /\ jobPhase'[k] = "gone" /\ jobOwner'[k] = NULL,
           j \notin dropped => jobPhase'[j] = "ended" /\ jobOwner'[j] = jobOwner[j],
           \A k \in JobId : k # j /\ k \notin dropped => SamePhase(k)
    PROVE  Lifecycle!End(j)
<1>1. dropped \in SUBSET (Lifecycle!In("ended") \cup {j})
  BY DEF Lifecycle!In
<1>2. [k \in JobId |-> jobPhase'[k]] =
        [k \in JobId |-> IF k \in dropped THEN "gone"
                         ELSE IF k = j THEN "ended" ELSE jobPhase[k]]
  BY DEF SamePhase
<1>3. [k \in JobId |-> jobOwner'[k]] =
        [k \in JobId |-> IF k \in dropped THEN NULL ELSE jobOwner[k]]
  BY DEF SamePhase
<1>4. /\ jobPhase' = [k \in JobId |-> IF k \in dropped THEN "gone"
                                     ELSE IF k = j THEN "ended" ELSE jobPhase[k]]
      /\ jobOwner' = [k \in JobId |-> IF k \in dropped THEN NULL ELSE jobOwner[k]]
  BY <1>2, <1>3, MapDomains
<1> QED BY <1>1, <1>4 DEF Lifecycle!End

LEMMA SubmitMap ==
    ASSUME NEW batch \in SUBSET JobId,
           \A j \in batch : /\ jobPhase[j] = "new" /\ jobPhase'[j] = "queued"
                            /\ jobOwner'[j] \in RepoId \cup {NULL},
           \A j \in JobId : j \notin batch => SamePhase(j)
    PROVE  Lifecycle!Submit
<1> DEFINE whose == [j \in batch |-> jobOwner'[j]]
<1>1. batch \in SUBSET Lifecycle!In("new")
  BY DEF Lifecycle!In
<1>2. whose \in [batch -> RepoId \cup {NULL}]
  OBVIOUS
<1>3. [j \in JobId |-> jobPhase'[j]] =
        [j \in JobId |-> IF j \in batch THEN "queued" ELSE jobPhase[j]]
  BY DEF SamePhase
<1>4. [j \in JobId |-> jobOwner'[j]] =
        [j \in JobId |-> IF j \in batch THEN whose[j] ELSE jobOwner[j]]
  BY DEF SamePhase
<1> HIDE DEF whose
<1>5. /\ jobPhase' = [j \in JobId |-> IF j \in batch THEN "queued" ELSE jobPhase[j]]
      /\ jobOwner' = [j \in JobId |-> IF j \in batch THEN whose[j] ELSE jobOwner[j]]
  BY <1>3, <1>4, MapDomains
<1> QED BY <1>1, <1>2, <1>5 DEF Lifecycle!Submit

LEMMA RemoveMap ==
    ASSUME NEW r,
           \A j \in JobId : jobOwner[j] = r => jobPhase'[j] = "gone" /\ jobOwner'[j] = NULL,
           \A j \in JobId : jobOwner[j] # r => SamePhase(j)
    PROVE  Lifecycle!Remove(r)
<1>1. [j \in JobId |-> jobPhase'[j]] =
        [j \in JobId |-> IF jobOwner[j] = r THEN "gone" ELSE jobPhase[j]]
  BY DEF SamePhase
<1>2. [j \in JobId |-> jobOwner'[j]] =
        [j \in JobId |-> IF jobOwner[j] = r THEN NULL ELSE jobOwner[j]]
  BY DEF SamePhase
<1>3. /\ jobPhase' = [j \in JobId |-> IF jobOwner[j] = r THEN "gone" ELSE jobPhase[j]]
      /\ jobOwner' = [j \in JobId |-> IF jobOwner[j] = r THEN NULL ELSE jobOwner[j]]
  BY <1>1, <1>2, MapDomains
<1> QED BY <1>3 DEF Lifecycle!Remove

LEMMA RestartMap ==
    ASSUME \A j \in JobId : /\ jobPhase[j] = "running" => jobPhase'[j] = "queued"
                            /\ jobPhase[j] # "running" => jobPhase'[j] = jobPhase[j]
                            /\ jobOwner'[j] = jobOwner[j]
    PROVE  Lifecycle!Restart
<1>1. [j \in JobId |-> jobPhase'[j]] =
        [j \in JobId |-> IF jobPhase[j] = "running" THEN "queued" ELSE jobPhase[j]]
  OBVIOUS
<1>2. [j \in JobId |-> jobOwner'[j]] = [j \in JobId |-> jobOwner[j]]
  OBVIOUS
<1>3. /\ jobPhase' = [j \in JobId |-> IF jobPhase[j] = "running" THEN "queued" ELSE jobPhase[j]]
      /\ jobOwner' = jobOwner
  BY <1>1, <1>2, MapDomains
<1> QED BY <1>3 DEF Lifecycle!Restart

-----------------------------------------------------------------------------
(* The simulation, effect by effect.                                       *)

LEMMA TableFacts ==
    ASSUME TypeOK
    PROVE  /\ lastJob \in Nat
           /\ DOMAIN jobs \subseteq JobId
           /\ jobs = [j \in DOMAIN jobs |-> jobs[j]]
           /\ \A j \in DOMAIN jobs : /\ j \in Nat /\ j <= lastJob
                                     /\ jobs[j] \in JobRow
                                     /\ jobs[j].status \in Active \cup Terminal
<1>1. lastJob \in Nat /\ jobs = [j \in DOMAIN jobs |-> jobs[j]]
  BY DEF TypeOK
<1>2. \A j \in DOMAIN jobs : j \in Nat /\ j <= lastJob /\ j \in JobId
  BY BoundAssumption DEF TypeOK, JobId
<1>3. \A j \in DOMAIN jobs : jobs[j] \in JobRow
  BY DEF TypeOK
<1>4. \A j \in DOMAIN jobs : jobs[j].status \in Active \cup Terminal
  BY <1>3 DEF JobRow
<1> QED BY <1>1, <1>2, <1>3, <1>4

(* A row that is there before and after, with the status it had.           *)
LEMMA SameRow ==
    ASSUME TypeOK, TypeOK', NEW j \in DOMAIN jobs, j \in DOMAIN jobs',
           jobs'[j].status = jobs[j].status, jobs'[j].repo = jobs[j].repo
    PROVE  SamePhase(j)
<1>1. Phases /\ Phases' /\ j \in JobId
  BY PhaseValues, PhaseValuesNext, TableFacts
<1>2. /\ jobPhase[j] = IF jobs[j].status \in Terminal THEN "ended" ELSE jobs[j].status
      /\ jobPhase'[j] = IF jobs'[j].status \in Terminal THEN "ended" ELSE jobs'[j].status
      /\ jobOwner[j] = jobs[j].repo
      /\ jobOwner'[j] = jobs'[j].repo
  BY <1>1 DEF Phases
<1> QED BY <1>2 DEF SamePhase

(* An id that has no row before or after, and is or is not issued yet.     *)
LEMMA SameAbsence ==
    ASSUME TypeOK, TypeOK', NEW j \in JobId, j \notin DOMAIN jobs, j \notin DOMAIN jobs',
           j <= lastJob <=> j <= lastJob'
    PROVE  SamePhase(j)
<1>1. Phases /\ Phases' /\ lastJob \in Nat /\ j \in Nat
  BY PhaseValues, PhaseValuesNext, TableFacts, BoundAssumption DEF JobId
<1>2. lastJob' \in Nat
  BY DEF TypeOK
<1>3. jobOwner[j] = NULL /\ jobOwner'[j] = NULL
  BY <1>1 DEF Phases
<1>4. CASE j <= lastJob
  <2>1. jobPhase[j] = "gone" /\ jobPhase'[j] = "gone"
    BY <1>1, <1>4 DEF Phases
  <2> QED BY <1>3, <2>1 DEF SamePhase
<1>5. CASE ~(j <= lastJob)
  <2>1. j > lastJob
    BY <1>1, <1>5
  <2>2. PICK last : last = lastJob'
    OBVIOUS
  <2>3. j > last
    BY <1>1, <1>2, <1>5, <2>2
  <2>4. jobPhase[j] = "new" /\ jobPhase'[j] = "new"
    BY <1>1, <2>1, <2>2, <2>3 DEF Phases
  <2> QED BY <1>3, <2>4 DEF SamePhase
<1> QED BY <1>4, <1>5

LEMMA QuietMap ==
    ASSUME TypeOK, TypeOK', Quiet
    PROVE  UNCHANGED <<jobPhase, jobOwner>>
<1> SUFFICES ASSUME NEW j \in JobId PROVE SamePhase(j)
  BY StutterMap
<1>1. CASE j \in DOMAIN jobs
  BY <1>1, SameRow DEF Quiet, SameJob
<1>2. CASE j \notin DOMAIN jobs
  BY <1>2, SameAbsence DEF Quiet
<1> QED BY <1>1, <1>2

LEMMA AddsMap ==
    ASSUME TypeOK, TypeOK', Adds
    PROVE  Lifecycle!Submit
<1> DEFINE batch == lastJob + 1 .. lastJob'
<1>0. lastJob \in Nat /\ lastJob' \in Nat /\ lastJob <= lastJob' /\ lastJob' <= MaxJobId
  BY BoundAssumption DEF TypeOK, Adds
<1>1. batch \in SUBSET JobId
  BY <1>0, BoundAssumption DEF JobId
<1>2. ASSUME NEW j \in batch
      PROVE  /\ jobPhase[j] = "new" /\ jobPhase'[j] = "queued"
             /\ jobOwner'[j] \in RepoId \cup {NULL}
  <2>1. j \in JobId /\ j > lastJob
    BY <1>0, <1>1
  <2>2. j \in DOMAIN jobs' /\ jobs'[j].status = "queued" /\ jobs'[j] \in JobRow
    BY DEF Adds, TypeOK
  <2>3. jobs'[j].repo \in RepoId \cup {NULL}
    BY <2>2 DEF JobRow
  <2>4. jobPhase[j] = "new"
    BY <2>1, PhaseValues DEF Phases
  <2>5. jobPhase'[j] = "queued" /\ jobOwner'[j] = jobs'[j].repo
    BY <2>1, <2>2, PhaseValuesNext DEF Phases, Terminal
  <2> QED BY <2>3, <2>4, <2>5
<1>3. ASSUME NEW j \in JobId, j \notin batch
      PROVE  SamePhase(j)
  <2>1. CASE j \in DOMAIN jobs
    BY <2>1, SameRow DEF Adds
  <2>2. CASE j \notin DOMAIN jobs
    <3>1. j \notin DOMAIN jobs'
      BY <1>3, <2>2 DEF Adds
    <3>2. j \in Nat
      BY BoundAssumption DEF JobId
    <3>3. j <= lastJob <=> j <= lastJob'
      BY <1>0, <1>3, <3>2
    <3> QED BY <2>2, <3>1, <3>3, SameAbsence
  <2> QED BY <2>1, <2>2
<1> HIDE DEF batch
<1> QED BY <1>1, <1>2, <1>3, SubmitMap

LEMMA DropsMap ==
    ASSUME TypeOK, TypeOK', NEW r \in RepoId, Drops(r)
    PROVE  Lifecycle!Remove(r)
<1>0. r # NULL
  BY BoundAssumption, NullAssumption DEF RepoId
<1>1. ASSUME NEW j \in JobId, jobOwner[j] = r
      PROVE  jobPhase'[j] = "gone" /\ jobOwner'[j] = NULL
  <2>1. j \in DOMAIN jobs /\ jobs[j].repo = r
    BY <1>0, <1>1, PhaseValues DEF Phases
  <2>2. j \notin DOMAIN jobs' /\ j <= lastJob /\ lastJob' = lastJob
    BY <2>1, TableFacts DEF Drops
  <2> QED BY <2>2, PhaseValuesNext DEF Phases
<1>2. ASSUME NEW j \in JobId, jobOwner[j] # r
      PROVE  SamePhase(j)
  <2>1. CASE j \in DOMAIN jobs
    <3>1. jobs[j].repo # r
      BY <1>2, <2>1, PhaseValues DEF Phases
    <3> QED BY <2>1, <3>1, SameRow DEF Drops
  <2>2. CASE j \notin DOMAIN jobs
    BY <2>2, SameAbsence DEF Drops
  <2> QED BY <2>1, <2>2
<1> QED BY <1>1, <1>2, RemoveMap

(* A job whose status turns; the others stay as they are.                  *)
LEMMA TurnsMap ==
    ASSUME TypeOK, TypeOK', NEW j \in DOMAIN jobs, NEW from \in Active, NEW to \in Active,
           Turns(j, from, to)
    PROVE  /\ jobPhase[j] = from /\ jobPhase'[j] = to /\ jobOwner'[j] = jobOwner[j]
           /\ \A k \in JobId : k # j => SamePhase(k)
<1>0. Active \cap Terminal = {} /\ Phases /\ Phases' /\ j \in JobId
  BY PhaseValues, PhaseValuesNext, TableFacts DEF Active, Terminal
<1>1. jobPhase[j] = from /\ jobPhase'[j] = to /\ jobOwner'[j] = jobOwner[j]
  BY <1>0 DEF Phases, Turns, SameJob
<1>2. ASSUME NEW k \in JobId, k # j
      PROVE  SamePhase(k)
  <2>1. CASE k \in DOMAIN jobs
    BY <1>2, <2>1, SameRow DEF Turns
  <2>2. CASE k \notin DOMAIN jobs
    BY <2>2, SameAbsence DEF Turns
  <2> QED BY <2>1, <2>2
<1> QED BY <1>1, <1>2

LEMMA ClaimsMap ==
    ASSUME TypeOK, TypeOK', NEW j \in DOMAIN jobs, Claims(j)
    PROVE  Lifecycle!Begin(j)
<1>1. /\ jobPhase[j] = "queued" /\ jobPhase'[j] = "running" /\ jobOwner'[j] = jobOwner[j]
      /\ \A k \in JobId : k # j => SamePhase(k)
  BY TurnsMap DEF Claims, Active
<1>2. j \in JobId /\ jobOwner[j] = jobs[j].repo /\ Phases
  BY PhaseValues, TableFacts DEF Phases
<1>3. ASSUME jobOwner[j] # NULL, NEW k \in JobId, jobPhase[k] = "running"
      PROVE  jobOwner[k] # jobOwner[j]
  <2>1. k \in DOMAIN jobs
    <3>1. k > lastJob \/ k <= lastJob
      BY TableFacts, BoundAssumption DEF JobId
    <3> QED BY <1>2, <1>3, <3>1 DEF Phases
  <2>2. jobs[k].status = "running" /\ jobOwner[k] = jobs[k].repo
    BY <1>2, <1>3, <2>1 DEF Phases
  <2> QED BY <1>2, <1>3, <2>1, <2>2 DEF Claims, Claimable
<1> QED BY <1>1, <1>2, <1>3, BeginMap

LEMMA RequeuesMap ==
    ASSUME TypeOK, TypeOK', NEW j \in DOMAIN jobs, Requeues(j)
    PROVE  Lifecycle!GoBack(j)
<1>1. /\ jobPhase[j] = "running" /\ jobPhase'[j] = "queued" /\ jobOwner'[j] = jobOwner[j]
      /\ \A k \in JobId : k # j => SamePhase(k)
  BY TurnsMap DEF Requeues, Active
<1>2. j \in JobId
  BY TableFacts
<1> QED BY <1>1, <1>2, GoBackMap

LEMMA EndsMap ==
    ASSUME TypeOK, TypeOK', NEW j \in DOMAIN jobs, Ends(j)
    PROVE  Lifecycle!End(j)
<1>1. PICK outcome \in Terminal : jobs' = Prune([jobs EXCEPT ![j].status = outcome])
  BY DEF Ends
<1>2. PICK table : table = [jobs EXCEPT ![j].status = outcome]
  OBVIOUS
<1>3. /\ jobs[j].status = "running" /\ lastJob' = lastJob
      /\ j \in JobId /\ DOMAIN jobs \subseteq JobId /\ Phases /\ Phases'
  BY PhaseValues, PhaseValuesNext, TableFacts DEF Ends, Running
<1>4. /\ DOMAIN table = DOMAIN jobs
      /\ \A k \in DOMAIN jobs : k # j => table[k] = jobs[k]
      /\ table[j].status = outcome /\ table[j].repo = jobs[j].repo
  <2>1. jobs[j] \in JobRow
    BY TableFacts
  <2> QED BY <1>2, <2>1 DEF JobRow
<1>5. /\ DOMAIN jobs' \subseteq DOMAIN jobs
      /\ \A k \in DOMAIN jobs' : jobs'[k] = table[k]
      /\ \A k \in DOMAIN jobs \ DOMAIN jobs' : table[k].status \in Terminal
  BY <1>1, <1>2, <1>4 DEF Prune
<1> DEFINE dropped == DOMAIN jobs \ DOMAIN jobs'
<1>6. jobPhase[j] = "running"
  BY <1>3 DEF Phases, Terminal
<1>7. ASSUME NEW k \in dropped
      PROVE  /\ k = j \/ jobPhase[k] = "ended"
             /\ jobPhase'[k] = "gone" /\ jobOwner'[k] = NULL
  <2>1. k \in JobId /\ k <= lastJob'
    BY <1>3, TableFacts
  <2>2. k # j => jobs[k].status \in Terminal
    BY <1>4, <1>5
  <2> QED BY <1>3, <2>1, <2>2 DEF Phases
<1>8. ASSUME j \notin dropped
      PROVE  jobPhase'[j] = "ended" /\ jobOwner'[j] = jobOwner[j]
  <2>1. j \in DOMAIN jobs' /\ jobs'[j].status \in Terminal /\ jobs'[j].repo = jobs[j].repo
    BY <1>4, <1>5, <1>8
  <2> QED BY <1>3, <2>1 DEF Phases
<1>9. ASSUME NEW k \in JobId, k # j, k \notin dropped
      PROVE  SamePhase(k)
  <2>1. CASE k \in DOMAIN jobs
    <3>1. k \in DOMAIN jobs' /\ jobs'[k] = jobs[k]
      BY <1>4, <1>5, <1>9, <2>1
    <3> QED BY <2>1, <3>1, SameRow
  <2>2. CASE k \notin DOMAIN jobs
    BY <1>3, <1>5, <2>2, SameAbsence
  <2> QED BY <2>1, <2>2
<1>10. dropped \in SUBSET JobId
  BY <1>3
<1> HIDE DEF dropped
<1> QED BY <1>3, <1>6, <1>7, <1>8, <1>9, <1>10, EndMap

LEMMA PrunesMap ==
    ASSUME TypeOK, TypeOK', RetentionHolds, Prunes
    PROVE  UNCHANGED <<jobPhase, jobOwner>>
<1>1. Prune(jobs) = jobs
  BY TableFacts, PruneIsIdentity DEF RetentionHolds, TerminalIn
<1>2. UNCHANGED <<jobs, lastJob>>
  BY <1>1 DEF Prunes
<1> QED BY <1>2, SameJobsQuiet, QuietMap

LEMMA RestartsMap ==
    ASSUME TypeOK, TypeOK', RetentionHolds, Restarts
    PROVE  Lifecycle!Restart
<1>1. jobs' = Requeued(jobs) /\ lastJob' = lastJob
  BY TableFacts, PruneIsIdentity DEF RetentionHolds, TerminalIn, Restarts
<1>2. /\ DOMAIN jobs' = DOMAIN jobs
      /\ \A j \in DOMAIN jobs :
           jobs'[j] = IF jobs[j].status = "running"
                        THEN [jobs[j] EXCEPT !.status = "queued"] ELSE jobs[j]
  BY <1>1 DEF Requeued
<1>3. \A j \in DOMAIN jobs :
        /\ jobs'[j].repo = jobs[j].repo
        /\ jobs[j].status = "running" => jobs'[j].status = "queued"
        /\ jobs[j].status # "running" => jobs'[j].status = jobs[j].status
  BY <1>2, TableFacts DEF JobRow
<1>4. ASSUME NEW j \in JobId
      PROVE  /\ jobPhase[j] = "running" => jobPhase'[j] = "queued"
             /\ jobPhase[j] # "running" => jobPhase'[j] = jobPhase[j]
             /\ jobOwner'[j] = jobOwner[j]
  <2>1. CASE j \in DOMAIN jobs /\ jobs[j].status = "running"
    BY <1>2, <1>3, <2>1, PhaseValues, PhaseValuesNext DEF Phases, Terminal
  <2>2. CASE j \in DOMAIN jobs /\ jobs[j].status # "running"
    <3>1. SamePhase(j)
      BY <1>2, <1>3, <2>2, SameRow
    <3>2. jobPhase[j] # "running"
      BY <2>2, PhaseValues DEF Phases
    <3> QED BY <3>1, <3>2 DEF SamePhase
  <2>3. CASE j \notin DOMAIN jobs
    <3>1. SamePhase(j)
      BY <1>1, <1>2, <2>3, SameAbsence
    <3>2. j > lastJob \/ j <= lastJob
      BY TableFacts, BoundAssumption DEF JobId
    <3>3. jobPhase[j] # "running"
      BY <2>3, <3>2, PhaseValues DEF Phases
    <3> QED BY <3>1, <3>3 DEF SamePhase
  <2> QED BY <2>1, <2>2, <2>3
<1> QED BY <1>4, RestartMap

LEMMA StepMap ==
    ASSUME TypeOK, TypeOK', Invariant, [Next]_vars
    PROVE  [Lifecycle!Next]_(Lifecycle!lifecycle)
<1>0. Effect /\ DOMAIN jobs \subseteq JobId
  BY StepEffect, TableFacts DEF Invariant
<1>1. CASE Quiet
  BY <1>1, QuietMap DEF Lifecycle!lifecycle
<1>2. CASE Adds
  BY <1>2, AddsMap DEF Lifecycle!Next
<1>3. CASE \E r \in RepoId : Drops(r)
  BY <1>3, DropsMap DEF Lifecycle!Next
<1>4. ASSUME NEW j \in DOMAIN jobs, Claims(j) \/ Requeues(j) \/ Ends(j)
      PROVE  Lifecycle!Next
  <2>1. Lifecycle!Begin(j) \/ Lifecycle!GoBack(j) \/ Lifecycle!End(j)
    BY <1>4, ClaimsMap, RequeuesMap, EndsMap
  <2> QED BY <1>0, <2>1 DEF Lifecycle!Next
<1>5. CASE Prunes
  BY <1>5, PrunesMap DEF Lifecycle!lifecycle, Invariant
<1>6. CASE Restarts
  BY <1>6, RestartsMap DEF Lifecycle!Next, Invariant
<1> QED BY <1>0, <1>1, <1>2, <1>3, <1>4, <1>5, <1>6 DEF Effect

LEMMA InitMap == Init => Lifecycle!Init
<1> SUFFICES ASSUME Init PROVE Lifecycle!Init
  OBVIOUS
<1>1. DOMAIN jobs = {} /\ lastJob = 0
  BY DEF Init
<1>2. \A j \in JobId : j > lastJob
  BY <1>1, BoundAssumption DEF JobId
<1>3. jobPhase = [j \in JobId |-> "new"]
  BY <1>2 DEF jobPhase, PhaseOf
<1>4. jobOwner = [j \in JobId |-> NULL]
  BY <1>1 DEF jobOwner
<1> QED BY <1>3, <1>4 DEF Lifecycle!Init

(* The queue keeps the promise of its life cycle: whatever requests,       *)
(* deletions, delays, failures, crashes and restarts come, a job runs only *)
(* while no other job of its repository does, an ended job never comes     *)
(* back, and work that has not ended disappears only with its repository.  *)
(* Pruning never drops anything but an ended job at the end of another.    *)
THEOREM QueueImplementsLifecycle == Spec => ImplementsLifecycle
<1>1. TypeOK /\ TypeOK' /\ Invariant /\ [Next]_vars => [Lifecycle!Next]_(Lifecycle!lifecycle)
  BY StepMap
<1> QED BY <1>1, InitMap, TypeCorrect, InvariantHolds, PTL
       DEF Spec, ImplementsLifecycle, Lifecycle!Spec
=============================================================================
