--------------------------- MODULE JobQueueProofs ---------------------------
(* Proofs about JobQueue, for every value of its constants.                *)
EXTENDS JobQueue, FiniteSetTheorems, TLAPS

-----------------------------------------------------------------------------
(* Type correctness.                                                       *)

ReposOK == /\ lastRepo \in 0 .. MaxRepoId
           /\ DOMAIN repos \subseteq 1 .. lastRepo
           /\ repos \in [DOMAIN repos -> RepoRow]

JobsOK == /\ lastJob \in 0 .. MaxJobId
          /\ DOMAIN jobs \subseteq 1 .. lastJob
          /\ jobs \in [DOMAIN jobs -> JobRow]

WorkersOK == /\ worker \in [Worker -> WorkerRow]
             /\ \A w \in Worker : worker[w].pc = "done" => worker[w].result # "none"

OthersOK == /\ bulk \in {NoBulk} \cup [kind : {"fetch", "health"}, picked : SUBSET RepoId]
            /\ up \in BOOLEAN
            /\ stopping \in BOOLEAN

LEMMA TypeParts == TypeOK <=> ReposOK /\ JobsOK /\ WorkersOK /\ OthersOK
BY DEF TypeOK, ReposOK, JobsOK, WorkersOK, OthersOK

LEMMA CapIsNat == AttemptCap \in Nat \ {0}
BY LimitAssumption DEF AttemptCap

(* What the transactions write are rows.                                   *)
LEMMA NewRows ==
    /\ \A u \in Url : NewRepo(u) \in RepoRow
    /\ \A r \in RepoId \cup {NULL}, kind \in Kind, p \in Account \cup {NULL} :
         NewJob(r, kind, p) \in JobRow
    /\ \A n \in 0 .. AttemptCap : Bump(n) \in 0 .. AttemptCap
    /\ \A pc \in {"poll", "exited"} : Free(pc) \in WorkerRow
<1>1. \A u \in Url : NewRepo(u) \in RepoRow
  BY DEF NewRepo, RepoRow
<1>2. \A r \in RepoId \cup {NULL}, kind \in Kind, p \in Account \cup {NULL} :
        NewJob(r, kind, p) \in JobRow
  BY CapIsNat DEF NewJob, JobRow, Active
<1>3. \A n \in 0 .. AttemptCap : Bump(n) \in 0 .. AttemptCap
  BY CapIsNat DEF Bump
<1>4. \A pc \in {"poll", "exited"} : Free(pc) \in WorkerRow
  BY CapIsNat, BoundAssumption DEF Free, WorkerRow, Result, Kind, RepoKind
<1> QED BY <1>1, <1>2, <1>3, <1>4

LEMMA RepoUpdates ==
    ASSUME NEW row \in RepoRow
    PROVE  /\ \A s \in {"queued", "ready", "missing", "error"} :
                [row EXCEPT !.status = s] \in RepoRow
           /\ \A op \in {"", "cloning", "fetching", "checking", "metadata"} :
                [row EXCEPT !.operation = op] \in RepoRow
           /\ \A b \in BOOLEAN : [row EXCEPT !.paused = b] \in RepoRow
           /\ \A b \in BOOLEAN : [row EXCEPT !.mirror = b] \in RepoRow
           /\ \A b \in BOOLEAN : [row EXCEPT !.described = b] \in RepoRow
           /\ \A b \in BOOLEAN : [row EXCEPT !.synced = b] \in RepoRow
BY DEF RepoRow

LEMMA JobUpdates ==
    ASSUME NEW row \in JobRow
    PROVE  /\ \A s \in Active \cup Terminal : [row EXCEPT !.status = s] \in JobRow
           /\ \A b \in BOOLEAN : [row EXCEPT !.due = b] \in JobRow
           /\ \A n \in 0 .. AttemptCap : [row EXCEPT !.attempts = n] \in JobRow
BY DEF JobRow

LEMMA SetFields ==
    ASSUME ReposOK, NEW r
    PROVE  /\ \A s \in {"queued", "ready", "missing", "error"} :
                /\ SetStatus(r, s) \in [DOMAIN repos -> RepoRow]
                /\ DOMAIN SetStatus(r, s) = DOMAIN repos
           /\ \A op \in {"", "cloning", "fetching", "checking", "metadata"} :
                /\ SetOperation(r, op) \in [DOMAIN repos -> RepoRow]
                /\ DOMAIN SetOperation(r, op) = DOMAIN repos
<1>1. ASSUME NEW s \in {"queued", "ready", "missing", "error"}
      PROVE  /\ SetStatus(r, s) \in [DOMAIN repos -> RepoRow]
             /\ DOMAIN SetStatus(r, s) = DOMAIN repos
  BY RepoUpdates DEF SetStatus, ReposOK
<1>2. ASSUME NEW op \in {"", "cloning", "fetching", "checking", "metadata"}
      PROVE  /\ SetOperation(r, op) \in [DOMAIN repos -> RepoRow]
             /\ DOMAIN SetOperation(r, op) = DOMAIN repos
  BY RepoUpdates DEF SetOperation, ReposOK
<1> QED BY <1>1, <1>2

LEMMA EnqueueTypes ==
    ASSUME ReposOK, JobsOK, NEW r \in DOMAIN repos \cup {NULL}, NEW kind \in Kind,
           NEW p \in Account \cup {NULL}, kind = "clone" => r \in DOMAIN repos,
           EnqueueJob(r, kind, p), UNCHANGED lastRepo
    PROVE  ReposOK' /\ JobsOK'
<1>1. CASE HasActive(r, kind, p) /\ UNCHANGED <<repos, jobs, lastJob>>
  BY <1>1 DEF ReposOK, JobsOK
<1>2. CASE ~HasActive(r, kind, p) /\ InsertJob(r, kind, p)
  <2>1. NewJob(r, kind, p) \in JobRow
    BY NewRows, BoundAssumption, NullAssumption DEF ReposOK, RepoId
  <2>2. JobsOK'
    BY <1>2, <2>1, BoundAssumption DEF InsertJob, JobsOK
  <2>3. ReposOK'
    <3>1. CASE kind = "clone"
      <4>1. r \in DOMAIN repos /\ repos[r] \in RepoRow
        BY <3>1 DEF ReposOK
      <4>2. [repos[r] EXCEPT !.status = "queued"] \in RepoRow
        BY <4>1, RepoUpdates
      <4>3. repos' = [repos EXCEPT ![r].status = "queued"]
        BY <1>2, <3>1 DEF InsertJob
      <4> QED BY <4>1, <4>2, <4>3 DEF ReposOK
    <3>2. CASE kind # "clone"
      BY <1>2, <3>2 DEF InsertJob, ReposOK
    <3> QED BY <3>1, <3>2
  <2> QED BY <2>2, <2>3
<1> QED BY <1>1, <1>2 DEF EnqueueJob

LEMMA EnqueueEachTypes ==
    ASSUME ReposOK, JobsOK, NEW picked \in SUBSET DOMAIN repos, NEW kind \in Kind,
           EnqueueEach(picked, kind)
    PROVE  JobsOK'
<1> DEFINE fresh == Unserved(picked, kind)
           last  == lastJob + Cardinality(fresh)
<1>1. Cardinality(fresh) \in Nat
  <2>1. IsFiniteSet(1 .. lastRepo)
    <3>1. lastRepo \in Int
      BY DEF ReposOK
    <3> QED BY <3>1, FS_Interval
  <2>2. fresh \subseteq 1 .. lastRepo
    BY DEF ReposOK, Unserved
  <2> QED BY <2>1, <2>2, FS_Subset, FS_CardinalityType
<1>2. PICK order \in [lastJob + 1 .. last -> fresh] :
        jobs' = [j \in DOMAIN jobs \cup (lastJob + 1 .. last) |->
                   IF j > lastJob THEN NewJob(order[j], kind, NULL) ELSE jobs[j]]
  BY DEF EnqueueEach
<1>3. \A j \in lastJob + 1 .. last : NewJob(order[j], kind, NULL) \in JobRow
  BY <1>2, NewRows, BoundAssumption, NullAssumption DEF ReposOK, RepoId, Unserved
<1>4. last \in 0 .. MaxJobId /\ lastJob' = last
  BY <1>1 DEF EnqueueEach, JobsOK
<1>5. DOMAIN jobs' \subseteq 1 .. last
  BY <1>1, <1>2, <1>4 DEF JobsOK
<1>6. jobs' \in [DOMAIN jobs' -> JobRow]
  <2>1. \A j \in DOMAIN jobs' : jobs'[j] \in JobRow
    BY <1>1, <1>2, <1>3 DEF JobsOK
  <2> QED BY <1>2, <2>1
<1> QED BY <1>4, <1>5, <1>6 DEF JobsOK

LEMMA ImportTypes ==
    ASSUME ReposOK, JobsOK, NEW urls \in SUBSET Url, ImportRepositories(urls)
    PROVE  ReposOK' /\ JobsOK'
<1> DEFINE fresh == Unknown(urls)
           n     == Cardinality(fresh)
<1>1. fresh \subseteq Url /\ n \in Nat
  <2>1. fresh \subseteq Url
    BY DEF Unknown
  <2> QED BY <2>1, FS_Subset, FS_CardinalityType, UrlAssumption
<1>2. PICK order \in [1 .. n -> fresh] :
        /\ repos' = [r \in DOMAIN repos \cup (lastRepo + 1 .. lastRepo + n) |->
                       IF r > lastRepo THEN NewRepo(order[r - lastRepo]) ELSE repos[r]]
        /\ jobs' = [j \in DOMAIN jobs \cup (lastJob + 1 .. lastJob + n) |->
                      IF j > lastJob
                        THEN NewJob(lastRepo + (j - lastJob), "clone", NULL)
                        ELSE jobs[j]]
  BY DEF ImportRepositories
<1>3. /\ lastRepo' = lastRepo + n /\ lastRepo' \in 0 .. MaxRepoId
      /\ lastJob' = lastJob + n /\ lastJob' \in 0 .. MaxJobId
  BY <1>1 DEF ImportRepositories, ReposOK, JobsOK
<1>4. \A r \in lastRepo + 1 .. lastRepo + n : NewRepo(order[r - lastRepo]) \in RepoRow
  BY <1>1, <1>2, NewRows DEF ReposOK
<1>5. \A j \in lastJob + 1 .. lastJob + n :
         NewJob(lastRepo + (j - lastJob), "clone", NULL) \in JobRow
  <2>1. \A j \in lastJob + 1 .. lastJob + n : lastRepo + (j - lastJob) \in RepoId
    BY <1>1, <1>3, BoundAssumption, NullAssumption DEF RepoId, ReposOK, JobsOK
  <2> QED BY <2>1, NewRows DEF Kind, RepoKind
<1>6. DOMAIN repos' \subseteq 1 .. lastRepo' /\ DOMAIN jobs' \subseteq 1 .. lastJob'
  BY <1>1, <1>2, <1>3 DEF ReposOK, JobsOK
<1>7. \A r \in DOMAIN repos' : repos'[r] \in RepoRow
  BY <1>1, <1>2, <1>4 DEF ReposOK
<1>8. \A j \in DOMAIN jobs' : jobs'[j] \in JobRow
  BY <1>1, <1>2, <1>5 DEF JobsOK
<1>9. repos' \in [DOMAIN repos' -> RepoRow] /\ jobs' \in [DOMAIN jobs' -> JobRow]
  BY <1>2, <1>7, <1>8
<1> QED BY <1>3, <1>6, <1>9 DEF ReposOK, JobsOK

LEMMA PruneType ==
    ASSUME NEW table, table \in [DOMAIN table -> JobRow]
    PROVE  /\ DOMAIN Prune(table) \subseteq DOMAIN table
           /\ \A j \in DOMAIN Prune(table) : Prune(table)[j] = table[j]
           /\ Prune(table) \in [DOMAIN Prune(table) -> JobRow]
BY DEF Prune

LEMMA FinishTypes ==
    ASSUME ReposOK, JobsOK, UNCHANGED <<lastRepo, lastJob>>, NEW j,
           NEW outcome \in Terminal, FinishJob(j, outcome)
    PROVE  ReposOK' /\ JobsOK'
<1> DEFINE table == IF j \in DOMAIN jobs THEN [jobs EXCEPT ![j].status = outcome] ELSE jobs
<1>1. table \in [DOMAIN jobs -> JobRow] /\ DOMAIN table = DOMAIN jobs
  BY JobUpdates DEF JobsOK
<1>2. jobs' = Prune(table)
  BY DEF FinishJob
<1>3. JobsOK'
  <2> HIDE DEF table
  <2> QED BY <1>1, <1>2, PruneType DEF JobsOK
<1>4. ReposOK'
  BY SetFields DEF FinishJob, ClearOperationOfJob, ReposOK
<1> QED BY <1>3, <1>4

LEMMA RequeueTypes ==
    ASSUME ReposOK, JobsOK, UNCHANGED <<lastRepo, lastJob>>, NEW j,
           NEW now \in BOOLEAN, RequeueJob(j, now)
    PROVE  ReposOK' /\ JobsOK'
<1>1. JobsOK'
  BY JobUpdates DEF RequeueJob, JobsOK, Active
<1>2. ReposOK'
  BY SetFields DEF RequeueJob, ClearOperationOfJob, ReposOK
<1> QED BY <1>1, <1>2

(* A worker moves on within the body of its job.                           *)
LEMMA MoveTypes ==
    ASSUME WorkersOK, NEW w \in Worker
    PROVE  /\ \A pc \in Executing \cup {"catch"} : Goto(w, pc) => WorkersOK'
           /\ \A outcome \in Result \ {"none"} : Return(w, outcome) => WorkersOK'
           /\ NextIteration(w) => WorkersOK'
<1>1. worker[w] \in WorkerRow
  BY DEF WorkersOK
<1>2. ASSUME NEW pc \in Executing \cup {"catch"}, Goto(w, pc)
      PROVE  WorkersOK'
  <2>1. [worker[w] EXCEPT !.pc = pc] \in WorkerRow /\ pc # "done"
    BY <1>1 DEF WorkerRow, Holding, Executing
  <2> QED BY <1>2, <2>1 DEF Goto, WorkersOK
<1>3. ASSUME NEW outcome \in Result \ {"none"}, Return(w, outcome)
      PROVE  WorkersOK'
  <2>1. [worker[w] EXCEPT !.pc = "done", !.result = outcome] \in WorkerRow
    BY <1>1 DEF WorkerRow, Holding
  <2> QED BY <1>3, <2>1 DEF Return, WorkersOK
<1>4. ASSUME NextIteration(w)
      PROVE  WorkersOK'
  BY <1>4, NewRows DEF NextIteration, WorkersOK, Free
<1> QED BY <1>2, <1>3, <1>4

LEMMA WorkerField ==
    ASSUME WorkersOK, NEW w \in Worker
    PROVE  /\ worker[w].id \in 0 .. MaxJobId
           /\ worker[w].repo \in RepoId \cup {NULL}
           /\ worker[w].kind \in Kind
           /\ worker[w].attempts \in 0 .. AttemptCap
           /\ worker[w].result \in Result
BY DEF WorkersOK, WorkerRow

LEMMA HandlerTypes ==
    ASSUME ReposOK, JobsOK, WorkersOK, OthersOK, Handler
    PROVE  ReposOK' /\ JobsOK' /\ WorkersOK' /\ OthersOK'
<1>1. CASE \E urls \in SUBSET Url : Import(urls)
  BY <1>1, ImportTypes DEF Import, WorkersOK, OthersOK
<1>2. CASE \E a \in Account : ImportAccount(a)
  BY <1>2, EnqueueTypes DEF ImportAccount, WorkersOK, OthersOK, Kind, ApiKind
<1>3. ASSUME NEW r \in DOMAIN repos, NEW kind \in Requested, RequestJob(r, kind)
      PROVE  ReposOK' /\ JobsOK' /\ WorkersOK' /\ OthersOK'
  BY <1>3, EnqueueTypes, RequestAssumption, NullAssumption
      DEF RequestJob, WorkersOK, OthersOK, Kind, RepoKind
<1>4. ASSUME NEW r \in DOMAIN repos, NEW value \in BOOLEAN, SetPaused(r, value)
      PROVE  ReposOK' /\ JobsOK' /\ WorkersOK' /\ OthersOK'
  BY <1>4, RepoUpdates DEF SetPaused, ReposOK, JobsOK, WorkersOK, OthersOK
<1>5. ASSUME NEW r \in DOMAIN repos, DeleteRepository(r)
      PROVE  ReposOK' /\ JobsOK' /\ WorkersOK' /\ OthersOK'
  BY <1>5 DEF DeleteRepository, ReposOK, JobsOK, WorkersOK, OthersOK
<1>6. ASSUME NEW kind \in BulkKind, ListForBulk(kind)
      PROVE  ReposOK' /\ JobsOK' /\ WorkersOK' /\ OthersOK'
  <2>1. {r \in DOMAIN repos : Eligible(r, kind)} \in SUBSET RepoId
    BY BoundAssumption DEF ReposOK, RepoId
  <2>2. bulk' \in [kind : {"fetch", "health"}, picked : SUBSET RepoId]
    BY <1>6, <2>1, RequestAssumption DEF ListForBulk
  <2> QED BY <1>6, <2>2 DEF ListForBulk, tables, ReposOK, JobsOK, WorkersOK, OthersOK
<1>7. CASE InsertBulk
  <2>1. bulk.kind \in {"fetch", "health"} /\ bulk' = NoBulk
    BY <1>7 DEF InsertBulk, OthersOK
  <2>2. bulk.kind \in Kind
    BY <2>1 DEF Kind, RepoKind
  <2>3. CASE bulk.picked \subseteq DOMAIN repos
    BY <1>7, <2>1, <2>2, <2>3, EnqueueEachTypes
       DEF InsertBulk, ReposOK, WorkersOK, OthersOK
  <2>4. CASE ~(bulk.picked \subseteq DOMAIN repos)
    BY <1>7, <2>1, <2>4 DEF InsertBulk, ReposOK, JobsOK, WorkersOK, OthersOK
  <2> QED BY <2>3, <2>4
<1> QED BY <1>1, <1>2, <1>3, <1>4, <1>5, <1>6, <1>7 DEF Handler

(* Steps of a body that only read the tables, or only write one status.    *)
LEMMA ReportTypes ==
    ASSUME ReposOK, JobsOK, WorkersOK, OthersOK, NEW w \in Worker,
           NEW status \in {"ready", "missing", "error"}, NEW outcome \in Result \ {"none"},
           Report(w, status, outcome)
    PROVE  ReposOK' /\ JobsOK' /\ WorkersOK' /\ OthersOK'
<1>1. ReposOK'
  BY SetFields DEF Report, ReposOK
<1>2. WorkersOK'
  BY MoveTypes DEF Report
<1> QED BY <1>1, <1>2 DEF Report, JobsOK, OthersOK

LEMMA CloneTypes ==
    ASSUME ReposOK, JobsOK, WorkersOK, OthersOK, NEW w \in Worker, CloneStep(w)
    PROVE  ReposOK' /\ JobsOK' /\ WorkersOK' /\ OthersOK'
<1> DEFINE Goal == ReposOK' /\ JobsOK' /\ WorkersOK' /\ OthersOK'
<1>1. CASE FetchUnavailable(w) \/ FetchFails(w) \/ CloneFails(w) \/ EnumerateRefsFails(w)
  BY <1>1, ReportTypes
     DEF FetchUnavailable, FetchFails, CloneFails, EnumerateRefsFails, Result
<1>2. CASE BeginFetch(w)
  <2>1. ReposOK' /\ WorkersOK'
    BY <1>2, SetFields, MoveTypes DEF BeginFetch, ReposOK, Executing
  <2> QED BY <1>2, <2>1 DEF BeginFetch, JobsOK, OthersOK
<1>3. CASE PublishMirror(w)
  <2>1. ReposOK'
    BY <1>3, RepoUpdates DEF PublishMirror, ReposOK
  <2>2. WorkersOK'
    BY <1>3, MoveTypes DEF PublishMirror, Executing
  <2> QED BY <1>3, <2>1, <2>2 DEF PublishMirror, JobsOK, OthersOK
<1>4. CASE Synchronize(w)
  <2>1. \A row \in RepoRow :
          [[row EXCEPT !.status = "ready"] EXCEPT !.synced = TRUE] \in RepoRow
    BY RepoUpdates
  <2>2. ReposOK'
    <3>1. ASSUME worker[w].repo \in DOMAIN repos,
                 repos' = [repos EXCEPT ![worker[w].repo].status = "ready",
                                        ![worker[w].repo].synced = TRUE]
          PROVE  ReposOK'
      <4>1. repos[worker[w].repo] \in RepoRow
        BY <3>1 DEF ReposOK
      <4>2. repos' = [repos EXCEPT ![worker[w].repo] =
                [[repos[worker[w].repo] EXCEPT !.status = "ready"] EXCEPT !.synced = TRUE]]
        BY <3>1 DEF ReposOK
      <4> QED BY <1>4, <2>1, <4>1, <4>2 DEF Synchronize, ReposOK
    <3> QED BY <1>4, <3>1 DEF Synchronize, ReposOK
  <2>3. Goto(w, "link") \/ Goto(w, "catch") \/ Return(w, "success")
    BY <1>4 DEF Synchronize
  <2>4. WorkersOK'
    BY <2>3, MoveTypes DEF Executing, Result
  <2> QED BY <1>4, <2>2, <2>4 DEF Synchronize, JobsOK, OthersOK
<1>5. CASE LinkMetadata(w)
  <2>1. CASE worker[w].repo \in DOMAIN repos
    <3>1. ReposOK' /\ JobsOK'
      BY <1>5, <2>1, EnqueueTypes DEF LinkMetadata, Kind, RepoKind
    <3>2. WorkersOK'
      BY <1>5, <2>1, MoveTypes DEF LinkMetadata, Result
    <3> QED BY <1>5, <3>1, <3>2 DEF LinkMetadata, OthersOK
  <2>2. CASE worker[w].repo \notin DOMAIN repos
    <3>1. WorkersOK'
      BY <1>5, <2>2, MoveTypes DEF LinkMetadata
    <3> QED BY <1>5, <2>2, <3>1 DEF LinkMetadata, ReposOK, JobsOK, OthersOK
  <2> QED BY <2>1, <2>2
<1> QED BY <1>1, <1>2, <1>3, <1>4, <1>5 DEF CloneStep

LEMMA ApiTypes ==
    ASSUME ReposOK, JobsOK, WorkersOK, OthersOK, NEW w \in Worker, ApiStep(w)
    PROVE  ReposOK' /\ JobsOK' /\ WorkersOK' /\ OthersOK'
<1>1. CASE MetadataStored(w)
  <2>1. ReposOK'
    BY <1>1, RepoUpdates DEF MetadataStored, ReposOK
  <2>2. WorkersOK'
    BY <1>1, MoveTypes DEF MetadataStored, Executing
  <2> QED BY <1>1, <2>1, <2>2 DEF MetadataStored, JobsOK, OthersOK
<1>2. CASE ReleasesStored(w) \/ AccountListed(w) \/ ApiFails(w)
  <2>1. WorkersOK'
    BY <1>2, MoveTypes DEF ReleasesStored, AccountListed, ApiFails, Result
  <2> QED BY <1>2, <2>1 DEF ReleasesStored, AccountListed, ApiFails, tables,
                            ReposOK, JobsOK, OthersOK
<1>3. CASE \E urls \in SUBSET Url : ImportPage(w, urls)
  BY <1>3, ImportTypes DEF ImportPage, WorkersOK, OthersOK
<1>4. CASE RateLimited(w)
  <2>1. JobsOK'
    BY <1>4, JobUpdates DEF RateLimited, DelayPendingGithubJobs, JobsOK
  <2>2. WorkersOK'
    BY <1>4, MoveTypes DEF RateLimited, Result
  <2> QED BY <1>4, <2>1, <2>2 DEF RateLimited, ReposOK, OthersOK
<1> QED BY <1>1, <1>2, <1>3, <1>4 DEF ApiStep

LEMMA BodyTypes ==
    ASSUME ReposOK, JobsOK, WorkersOK, OthersOK, NEW w \in Worker, BodyStep(w)
    PROVE  ReposOK' /\ JobsOK' /\ WorkersOK' /\ OthersOK'
<1>1. CASE Execute(w)
  <2>1. \/ Goto(w, "account") \/ Return(w, "failed") \/ Return(w, "requeue")
        \/ \E b \in BOOLEAN :
              worker' = [worker EXCEPT ![w].pc = "locked", ![w].link = b]
    BY <1>1 DEF Execute
  <2>2. ASSUME NEW b \in BOOLEAN,
               worker' = [worker EXCEPT ![w].pc = "locked", ![w].link = b]
        PROVE  WorkersOK'
    <3>1. [[worker[w] EXCEPT !.pc = "locked"] EXCEPT !.link = b] \in WorkerRow
      BY DEF WorkersOK, WorkerRow, Holding, Executing
    <3>2. worker'[w].pc # "done"
      BY <2>2 DEF WorkersOK, WorkerRow
    <3> QED BY <2>2, <3>1, <3>2 DEF WorkersOK
  <2>3. WorkersOK'
    BY <2>1, <2>2, MoveTypes DEF Executing, Result
  <2> QED BY <1>1, <2>3 DEF Execute, tables, ReposOK, JobsOK, OthersOK
<1>2. CASE BeginOperation(w)
  <2>1. Marker[worker[w].kind] \in {"cloning", "checking", "metadata"}
    BY <1>2 DEF BeginOperation, Marker
  <2>2. ReposOK'
    BY <1>2, <2>1, SetFields DEF BeginOperation, ReposOK
  <2>3. WorkersOK'
    BY <1>2, <2>1, MoveTypes DEF BeginOperation, Executing
  <2> QED BY <1>2, <2>2, <2>3 DEF BeginOperation, JobsOK, OthersOK
<1>3. CASE CloneStep(w)
  BY <1>3, CloneTypes
<1>4. CASE HealthChecked(w) \/ Interrupted(w) \/ Throw(w)
  <2>1. WorkersOK'
    BY <1>4, MoveTypes DEF HealthChecked, Interrupted, Throw, Result
  <2> QED BY <1>4, <2>1 DEF HealthChecked, Interrupted, Throw, tables,
                            ReposOK, JobsOK, OthersOK
<1>5. CASE HealthUnavailable(w)
  BY <1>5, ReportTypes DEF HealthUnavailable, Result
<1>6. CASE ApiStep(w)
  BY <1>6, ApiTypes
<1> QED BY <1>1, <1>2, <1>3, <1>4, <1>5, <1>6 DEF BodyStep, HealthStep

LEMMA WorkerTypes ==
    ASSUME ReposOK, JobsOK, WorkersOK, OthersOK, NEW w \in Worker, WorkerStep(w)
    PROVE  ReposOK' /\ JobsOK' /\ WorkersOK' /\ OthersOK'
<1>0. /\ \A state \in {"poll", "exited"} :
           Free(state) \in WorkerRow /\ Free(state).pc # "done"
  BY NewRows DEF Free
<1>1. CASE Exit(w)
  <2>1. WorkersOK'
    BY <1>0, <1>1 DEF Exit, WorkersOK
  <2> QED BY <1>1, <2>1 DEF Exit, tables, ReposOK, JobsOK, OthersOK
<1>2. CASE ClaimNextJob(w)
  <2>1. PICK j \in DOMAIN jobs :
          /\ jobs' = [jobs EXCEPT ![j].status = "running", ![j].attempts = Bump(@)]
          /\ worker' = [worker EXCEPT ![w] =
                          [pc |-> "claimed", id |-> j, repo |-> jobs[j].repo,
                           kind |-> jobs[j].kind,
                           attempts |-> Bump(jobs[j].attempts),
                           link |-> FALSE, result |-> "none"]]
    BY <1>2 DEF ClaimNextJob
  <2>2. jobs[j] \in JobRow /\ j \in 0 .. MaxJobId
    BY BoundAssumption DEF JobsOK
  <2>3. Bump(jobs[j].attempts) \in 0 .. AttemptCap
    BY <2>2, NewRows DEF JobRow
  <2>4. [[jobs[j] EXCEPT !.status = "running"] EXCEPT !.attempts = Bump(@)] \in JobRow
    BY <2>2, <2>3 DEF JobRow, Active
  <2>5. JobsOK'
    BY <1>2, <2>1, <2>4 DEF ClaimNextJob, JobsOK
  <2>6. WorkersOK'
    <3> DEFINE row == [pc |-> "claimed", id |-> j, repo |-> jobs[j].repo,
                       kind |-> jobs[j].kind, attempts |-> Bump(jobs[j].attempts),
                       link |-> FALSE, result |-> "none"]
    <3>1. row \in WorkerRow /\ row.pc # "done"
      BY <2>2, <2>3 DEF WorkerRow, JobRow, Holding, Executing, Result
    <3> HIDE DEF row
    <3> QED BY <2>1, <3>1 DEF WorkersOK, row
  <2> QED BY <1>2, <2>5, <2>6 DEF ClaimNextJob, ReposOK, OthersOK
<1>3. CASE BodyStep(w)
  BY <1>3, BodyTypes
<1>4. CASE Settle(w)
  <2>1. worker[w].result \in {"requeue", "delay"} \cup Terminal
    BY <1>4 DEF Settle, At, WorkersOK, WorkerRow, Result, Terminal
  <2>2. ReposOK' /\ JobsOK'
    BY <1>4, <2>1, FinishTypes, RequeueTypes DEF Settle
  <2> QED BY <1>4, <2>2, MoveTypes DEF Settle, OthersOK
<1>5. CASE SettleThrows(w)
  BY <1>5, MoveTypes DEF SettleThrows, tables, ReposOK, JobsOK, OthersOK
<1>6. CASE Recover(w)
  <2>1. ReposOK' /\ JobsOK'
    BY <1>6, FinishTypes, RequeueTypes DEF Recover, Terminal
  <2> QED BY <1>6, <2>1, MoveTypes DEF Recover, OthersOK
<1>7. CASE RecoverThrows(w)
  BY <1>7, MoveTypes DEF RecoverThrows, tables, ReposOK, JobsOK, OthersOK
<1> QED BY <1>1, <1>2, <1>3, <1>4, <1>5, <1>6, <1>7 DEF WorkerStep

LEMMA ProcessTypes ==
    ASSUME ReposOK, JobsOK, WorkersOK, OthersOK,
           Process \/ \E j \in JobId : Elapse(j)
    PROVE  ReposOK' /\ JobsOK' /\ WorkersOK' /\ OthersOK'
<1>1. ASSUME NEW j \in JobId, Elapse(j)
      PROVE  ReposOK' /\ JobsOK' /\ WorkersOK' /\ OthersOK'
  BY <1>1, JobUpdates DEF Elapse, ReposOK, JobsOK, WorkersOK, OthersOK
<1>2. CASE RequestShutdown
  BY <1>2 DEF RequestShutdown, tables, ReposOK, JobsOK, WorkersOK, OthersOK
<1>0. \A state \in {"poll", "exited"} :
        Free(state) \in WorkerRow /\ Free(state).pc # "done"
  BY NewRows DEF Free
<1>3. CASE StopCleanly \/ Crash
  <2>1. WorkersOK'
    BY <1>0, <1>3 DEF StopCleanly, Crash, Down, WorkersOK
  <2> QED BY <1>3, <2>1 DEF StopCleanly, Crash, Down, tables, ReposOK, JobsOK, OthersOK
<1>4. CASE Start
  <2>1. WorkersOK'
    BY <1>0, <1>4 DEF Start, WorkersOK
  <2>2. ReposOK'
    BY <1>4, RepoUpdates DEF Start, RecoverInterruptedJobs, ReposOK
  <2>3. JobsOK'
    <3>1. PICK kept : kept = Prune(jobs)
      OBVIOUS
    <3>2. /\ DOMAIN kept \subseteq DOMAIN jobs
          /\ \A j \in DOMAIN kept : kept[j] \in JobRow
      BY <3>1, PruneType DEF JobsOK
    <3>3. jobs' = [j \in DOMAIN kept |->
                     IF kept[j].status = "running"
                       THEN [kept[j] EXCEPT !.status = "queued"] ELSE kept[j]]
      BY <1>4, <3>1 DEF Start, RecoverInterruptedJobs, Requeued
    <3>4. \A j \in DOMAIN kept : [kept[j] EXCEPT !.status = "queued"] \in JobRow
      BY <3>2, JobUpdates DEF Active
    <3> QED BY <1>4, <3>2, <3>3, <3>4 DEF Start, JobsOK
  <2> QED BY <1>4, <2>1, <2>2, <2>3 DEF Start, OthersOK
<1> QED BY <1>1, <1>2, <1>3, <1>4 DEF Process

LEMMA InitTypes == Init => TypeOK
<1> SUFFICES ASSUME Init PROVE TypeOK
  OBVIOUS
<1>1. ReposOK /\ JobsOK
  BY BoundAssumption DEF Init, ReposOK, JobsOK
<1>2. WorkersOK
  BY NewRows DEF Init, WorkersOK, Free
<1>3. OthersOK
  BY DEF Init, OthersOK
<1> QED BY <1>1, <1>2, <1>3, TypeParts

LEMMA StepTypes == TypeOK /\ [Next]_vars => TypeOK'
<1> SUFFICES ASSUME TypeOK, [Next]_vars
             PROVE  TypeOK'
  OBVIOUS
<1> USE TypeParts
<1>1. CASE Next
  BY <1>1, HandlerTypes, WorkerTypes, ProcessTypes DEF Next, TypeOK, ReposOK, JobsOK, WorkersOK, OthersOK
<1>2. CASE UNCHANGED vars
  BY <1>2 DEF vars, TypeOK
<1> QED BY <1>1, <1>2

(* Every reachable state is within the types.                              *)
THEOREM TypeCorrect == Spec => []TypeOK
BY InitTypes, StepTypes, PTL DEF Spec

-----------------------------------------------------------------------------
(* Safety: mutual exclusion per repository, de-duplication, exclusive      *)
(* claims, no stale operation marker and unique URLs, for any number of    *)
(* workers, repositories and jobs.                                         *)
(*                                                                         *)
(* Most steps take work away or leave it alone.  Shrinks(skip) says so of  *)
(* the tables: no job appears or becomes active or running; the running    *)
(* jobs other than `skip' go on unless their repository went with them; no *)
(* repository appears, and an operation marker that is set belongs to a    *)
(* running job; and if `skip' stops, its repository's marker is cleared.   *)

SameJob(j) == /\ jobs'[j].repo = jobs[j].repo
              /\ jobs'[j].kind = jobs[j].kind
              /\ jobs'[j].payload = jobs[j].payload

Kept(j) == \/ j \in DOMAIN jobs' /\ SameJob(j) /\ jobs'[j].status = "running"
           \/ /\ j \notin DOMAIN jobs'
              /\ jobs[j].repo \in DOMAIN repos /\ jobs[j].repo \notin DOMAIN repos'

JobsShrink ==
    \A j \in DOMAIN jobs' :
        /\ j \in DOMAIN jobs
        /\ SameJob(j)
        /\ jobs'[j].status \in Active => jobs[j].status \in Active
        /\ jobs'[j].status = "running" => jobs[j].status = "running"
        /\ jobs[j].repo \in DOMAIN repos => jobs[j].repo \in DOMAIN repos'

Marked(r) ==
    \E j \in DOMAIN jobs' : /\ jobs'[j].status = "running"
                            /\ jobs'[j].repo = r
                            /\ jobs'[j].kind \in MarkerKind(repos'[r].operation)

ReposShrink ==
    \A r \in DOMAIN repos' :
        /\ r \in DOMAIN repos
        /\ repos'[r].url = repos[r].url
        /\ repos'[r].operation \in {"", repos[r].operation} \/ Marked(r)

Shrinks(skip) ==
    /\ JobsShrink
    /\ ReposShrink
    /\ \A j \in DOMAIN jobs : Running(j) /\ j # skip => Kept(j)
    /\ skip \in DOMAIN jobs /\ jobs[skip].repo \in DOMAIN repos'
         => repos'[jobs[skip].repo].operation = ""
    /\ UNCHANGED <<lastRepo, lastJob>>

(* The workers stay with the job they hold or let go of it.                *)
Follows(w) ==
    worker'[w].pc \in Holding =>
        /\ worker[w].pc \in Holding
        /\ worker'[w].id = worker[w].id
        /\ worker'[w].repo = worker[w].repo
        /\ worker'[w].kind = worker[w].kind

LEMMA JobsShrinkSafe ==
    ASSUME TypeOK, OneRunningPerRepo, OneActivePerKind, ForeignKeys, JobsShrink
    PROVE  OneRunningPerRepo' /\ OneActivePerKind' /\ ForeignKeys'
<1>1. OneRunningPerRepo'
  BY DEF OneRunningPerRepo, JobsShrink, Running, SameJob
<1>2. OneActivePerKind'
  BY DEF OneActivePerKind, JobsShrink, SameJob
<1>3. ForeignKeys'
  BY DEF ForeignKeys, JobsShrink, SameJob
<1> QED BY <1>1, <1>2, <1>3

LEMMA ShrinkSafe ==
    ASSUME TypeOK, Safety, NEW skip, Shrinks(skip),
           \A w \in Worker : Follows(w),
           \A w \in Worker : worker'[w].pc \in Holding => worker[w].id # skip,
           BodyFitsKind'
    PROVE  Safety'
<1>1. OneRunningPerRepo' /\ OneActivePerKind' /\ ForeignKeys'
  BY JobsShrinkSafe DEF Safety, Shrinks
<1>2. UrlsAreUnique'
  BY DEF Safety, UrlsAreUnique, Shrinks, ReposShrink
<1>3. ClaimIsPast'
  BY DEF Safety, ClaimIsPast, Shrinks, Follows
<1>4. ClaimIsExclusive'
  <2> SUFFICES ASSUME NEW w \in Worker, worker'[w].pc \in Holding
               PROVE  /\ worker'[w].id \in DOMAIN jobs' =>
                           /\ jobs'[worker'[w].id].status = "running"
                           /\ jobs'[worker'[w].id].repo = worker'[w].repo
                           /\ jobs'[worker'[w].id].kind = worker'[w].kind
                      /\ worker'[w].repo \in DOMAIN repos' =>
                           worker'[w].id \in DOMAIN jobs'
                      /\ \A v \in Worker :
                           worker'[v].pc \in Holding /\ worker'[v].id = worker'[w].id
                             => v = w
    BY DEF ClaimIsExclusive, Running
  <2> DEFINE j == worker[w].id
  <2>1. /\ worker[w].pc \in Holding /\ worker'[w].id = j /\ j # skip
        /\ worker'[w].repo = worker[w].repo /\ worker'[w].kind = worker[w].kind
    BY DEF Follows
  <2>2. j \in DOMAIN jobs => /\ Running(j)
                             /\ jobs[j].repo = worker[w].repo
                             /\ jobs[j].kind = worker[w].kind
    BY <2>1 DEF Safety, ClaimIsExclusive
  <2>3. j \in DOMAIN jobs => Kept(j)
    BY <2>1, <2>2 DEF Shrinks, Running
  <2>4. j \in DOMAIN jobs' => j \in DOMAIN jobs
    BY DEF Shrinks, JobsShrink
  <2>5. worker[w].repo \in DOMAIN repos' => j \in DOMAIN jobs
    BY <2>1 DEF Safety, ClaimIsExclusive, Shrinks, ReposShrink
  <2>6. ASSUME NEW v \in Worker, worker'[v].pc \in Holding, worker'[v].id = j
        PROVE  v = w
    BY <2>1, <2>6 DEF Follows, Safety, ClaimIsExclusive
  <2> QED BY <2>1, <2>2, <2>3, <2>4, <2>5, <2>6 DEF Kept, SameJob
<1>5. OperationHasJob'
  <2> SUFFICES ASSUME NEW r \in DOMAIN repos', repos'[r].operation # "", ~Marked(r)
               PROVE  Marked(r)
    BY DEF OperationHasJob, Running, Marked
  <2>1. r \in DOMAIN repos /\ repos[r].operation = repos'[r].operation
    BY DEF Shrinks, ReposShrink
  <2>2. PICK j \in DOMAIN jobs : /\ Running(j)
                                 /\ jobs[j].repo = r
                                 /\ jobs[j].kind \in MarkerKind(repos'[r].operation)
    BY <2>1 DEF Safety, OperationHasJob
  <2>3. j # skip
    BY <2>2 DEF Shrinks
  <2>4. Kept(j)
    BY <2>2, <2>3 DEF Shrinks
  <2> QED BY <2>2, <2>4 DEF Kept, SameJob, Marked
<1> QED BY <1>1, <1>2, <1>3, <1>4, <1>5 DEF Safety

(* A step that leaves both tables alone but for columns of repositories    *)
(* that Safety does not read.                                              *)
SameTables ==
    /\ jobs' = jobs
    /\ DOMAIN repos' = DOMAIN repos
    /\ \A r \in DOMAIN repos : /\ repos'[r].url = repos[r].url
                               /\ repos'[r].operation = repos[r].operation
    /\ UNCHANGED <<lastRepo, lastJob>>

LEMMA SameTablesShrink ==
    ASSUME TypeOK, Safety, SameTables
    PROVE  Shrinks(0)
<1>1. 0 \notin DOMAIN jobs
  BY DEF TypeOK
<1>2. JobsShrink
  BY DEF SameTables, JobsShrink, SameJob
<1>3. ReposShrink
  BY DEF SameTables, ReposShrink
<1>4. \A j \in DOMAIN jobs : Running(j) => Kept(j)
  BY DEF SameTables, Kept, SameJob, Running
<1> QED BY <1>1, <1>2, <1>3, <1>4 DEF Shrinks, SameTables

LEMMA SameTablesSafe ==
    ASSUME TypeOK, Safety, SameTables, \A w \in Worker : Follows(w), BodyFitsKind'
    PROVE  Safety'
<1>1. \A w \in Worker : worker'[w].pc \in Holding => worker[w].id # 0
  BY DEF Safety, ClaimIsPast, Follows, TypeOK
<1> QED BY <1>1, SameTablesShrink, ShrinkSafe

-----------------------------------------------------------------------------
(* The other direction: a step that only adds rows, with fresh ids.        *)

NewJobsOK ==
    \A j \in DOMAIN jobs' \ DOMAIN jobs :
        /\ j \in Nat /\ j > lastJob
        /\ jobs'[j].status = "queued"
        /\ jobs'[j].kind = "account" <=> jobs'[j].repo = NULL
        /\ jobs'[j].repo # NULL => jobs'[j].repo \in DOMAIN repos'
        /\ \A k \in DOMAIN jobs' :
             /\ jobs'[k].status \in Active
             /\ jobs'[k].repo = jobs'[j].repo
             /\ jobs'[k].kind = jobs'[j].kind
             /\ jobs'[k].payload = jobs'[j].payload
             => k = j

NewReposOK ==
    \A r \in DOMAIN repos' \ DOMAIN repos :
        /\ r \in Nat /\ r > lastRepo
        /\ repos'[r].operation = ""
        /\ \A s \in DOMAIN repos' : repos'[s].url = repos'[r].url => s = r

Grows ==
    /\ DOMAIN jobs \subseteq DOMAIN jobs'
    /\ \A j \in DOMAIN jobs : jobs'[j] = jobs[j]
    /\ NewJobsOK
    /\ DOMAIN repos \subseteq DOMAIN repos'
    /\ \A r \in DOMAIN repos : /\ repos'[r].url = repos[r].url
                               /\ repos'[r].operation = repos[r].operation
    /\ NewReposOK
    /\ lastJob' \in Nat /\ lastJob <= lastJob'
    /\ lastRepo' \in Nat /\ lastRepo <= lastRepo'

LEMMA GrowSafe ==
    ASSUME TypeOK, Safety, Grows, \A w \in Worker : Follows(w), BodyFitsKind'
    PROVE  Safety'
<1>1. OneRunningPerRepo'
  BY DEF Safety, OneRunningPerRepo, Grows, NewJobsOK, Running
<1>2. OneActivePerKind'
  BY DEF Safety, OneActivePerKind, Grows, NewJobsOK
<1>3. ForeignKeys'
  BY DEF Safety, ForeignKeys, Grows, NewJobsOK
<1>4. UrlsAreUnique'
  <2> SUFFICES ASSUME NEW r \in DOMAIN repos', NEW s \in DOMAIN repos',
                      repos'[r].url = repos'[s].url
               PROVE  r = s
    BY DEF UrlsAreUnique
  <2>1. CASE r \in DOMAIN repos /\ s \in DOMAIN repos
    BY <2>1 DEF Safety, UrlsAreUnique, Grows
  <2>2. CASE r \notin DOMAIN repos \/ s \notin DOMAIN repos
    BY <2>2 DEF Grows, NewReposOK
  <2> QED BY <2>1, <2>2
<1>5. ClaimIsPast'
  BY DEF Safety, ClaimIsPast, Grows, Follows, TypeOK
<1>6. ClaimIsExclusive'
  <2> SUFFICES ASSUME NEW w \in Worker, worker'[w].pc \in Holding
               PROVE  /\ worker'[w].id \in DOMAIN jobs' =>
                           /\ jobs'[worker'[w].id].status = "running"
                           /\ jobs'[worker'[w].id].repo = worker'[w].repo
                           /\ jobs'[worker'[w].id].kind = worker'[w].kind
                      /\ worker'[w].repo \in DOMAIN repos' =>
                           worker'[w].id \in DOMAIN jobs'
                      /\ \A v \in Worker :
                           worker'[v].pc \in Holding /\ worker'[v].id = worker'[w].id
                             => v = w
    BY DEF ClaimIsExclusive, Running
  <2>1. /\ worker[w].pc \in Holding /\ worker'[w].id = worker[w].id
        /\ worker'[w].repo = worker[w].repo /\ worker'[w].kind = worker[w].kind
        /\ worker[w].id \in 1 .. lastJob
        /\ worker[w].repo \in 1 .. lastRepo \cup {NULL}
    BY DEF Follows, Safety, ClaimIsPast
  <2>2. worker[w].id \in DOMAIN jobs' => worker[w].id \in DOMAIN jobs
    BY <2>1 DEF Grows, NewJobsOK, TypeOK
  <2>3. worker[w].repo \in DOMAIN repos' => worker[w].repo \in DOMAIN repos
    <3>1. \A x \in DOMAIN repos : x \in Nat
      BY DEF TypeOK
    <3>2. \A x \in DOMAIN repos' : x \in Nat /\ (x \in DOMAIN repos \/ x > lastRepo)
      BY <3>1 DEF Grows, NewReposOK
    <3>3. NULL \notin DOMAIN repos'
      BY <3>2, NullAssumption
    <3>4. lastRepo \in Nat
      BY DEF TypeOK
    <3> QED BY <2>1, <3>2, <3>3, <3>4
  <2>4. ASSUME NEW v \in Worker, worker'[v].pc \in Holding, worker'[v].id = worker[w].id
        PROVE  v = w
    BY <2>1, <2>4 DEF Follows, Safety, ClaimIsExclusive
  <2> QED BY <2>1, <2>2, <2>3, <2>4 DEF Safety, ClaimIsExclusive, Grows, Running
<1>7. OperationHasJob'
  <2> SUFFICES ASSUME NEW r \in DOMAIN repos', repos'[r].operation # ""
               PROVE  \E j \in DOMAIN jobs' :
                        /\ jobs'[j].status = "running"
                        /\ jobs'[j].repo = r
                        /\ jobs'[j].kind \in MarkerKind(repos'[r].operation)
    BY DEF OperationHasJob, Running
  <2>1. r \in DOMAIN repos /\ repos[r].operation = repos'[r].operation
    BY DEF Grows, NewReposOK
  <2>2. PICK j \in DOMAIN jobs : /\ Running(j)
                                 /\ jobs[j].repo = r
                                 /\ jobs[j].kind \in MarkerKind(repos'[r].operation)
    BY <2>1 DEF Safety, OperationHasJob
  <2>3. jobs'[j] = jobs[j] /\ j \in DOMAIN jobs'
    BY DEF Grows
  <2> QED BY <2>2, <2>3 DEF Running
<1> QED BY <1>1, <1>2, <1>3, <1>4, <1>5, <1>6, <1>7 DEF Safety

LEMMA EnqueueGrows ==
    ASSUME TypeOK, Safety, TypeOK', NEW r, NEW kind, NEW p, EnqueueJob(r, kind, p),
           kind = "account" <=> r = NULL, r # NULL => r \in DOMAIN repos,
           UNCHANGED lastRepo
    PROVE  Grows
<1>0. /\ lastRepo \in Nat /\ lastJob \in Nat
      /\ \A j \in DOMAIN jobs : j \in 1 .. lastJob
  BY DEF TypeOK
<1>1. CASE HasActive(r, kind, p) /\ UNCHANGED <<repos, jobs, lastJob>>
  <2>1. repos' = repos /\ jobs' = jobs /\ lastJob' = lastJob /\ lastRepo' = lastRepo
    BY <1>1
  <2>2. NewJobsOK /\ NewReposOK
    BY <2>1 DEF NewJobsOK, NewReposOK
  <2>3. lastJob \in Nat /\ lastRepo \in Nat
    BY <1>0
  <2> QED BY <2>1, <2>2, <2>3 DEF Grows
<1>2. CASE ~HasActive(r, kind, p) /\ InsertJob(r, kind, p)
  <2> DEFINE n == lastJob + 1
  <2>1. /\ jobs' = [j \in DOMAIN jobs \cup {n} |->
                     IF j = n THEN NewJob(r, kind, p) ELSE jobs[j]]
        /\ lastJob' = n
        /\ repos' = IF kind = "clone" THEN [repos EXCEPT ![r].status = "queued"] ELSE repos
    BY <1>2 DEF InsertJob
  <2>2. n \notin DOMAIN jobs
    BY <1>0
  <2>3. /\ DOMAIN repos' = DOMAIN repos
        /\ \A x \in DOMAIN repos : /\ repos'[x].url = repos[x].url
                                   /\ repos'[x].operation = repos[x].operation
    <3>1. \A x \in DOMAIN repos : repos[x] \in RepoRow
      BY DEF TypeOK
    <3>2. CASE repos' = [repos EXCEPT ![r].status = "queued"]
      BY <3>1, <3>2 DEF RepoRow
    <3> QED BY <2>1, <3>2
  <2>4. jobs'[n] = NewJob(r, kind, p) /\ \A j \in DOMAIN jobs : jobs'[j] = jobs[j]
    BY <2>1, <2>2
  <2>5. NewJobsOK
    <3>1. \A k \in DOMAIN jobs : ~(/\ jobs[k].status \in Active
                                   /\ jobs[k].repo = r
                                   /\ jobs[k].kind = kind
                                   /\ jobs[k].payload = p)
      BY <1>2 DEF HasActive
    <3>2. DOMAIN jobs' \ DOMAIN jobs = {n} /\ DOMAIN jobs' = DOMAIN jobs \cup {n}
      BY <2>1, <2>2
    <3>3. /\ jobs'[n].status = "queued" /\ jobs'[n].repo = r
          /\ jobs'[n].kind = kind /\ jobs'[n].payload = p
      BY <2>4 DEF NewJob
    <3>4. n \in Nat /\ n > lastJob
      BY <1>0
    <3>5. r # NULL => r \in DOMAIN repos'
      BY <2>3
    <3> HIDE DEF n
    <3> QED BY <2>3, <2>4, <3>1, <3>2, <3>3, <3>4, <3>5 DEF NewJobsOK
  <2>6. NewReposOK
    BY <2>3 DEF NewReposOK
  <2>7. lastJob' \in Nat /\ lastJob <= lastJob' /\ lastRepo' = lastRepo
    BY <1>0, <2>1
  <2>8. DOMAIN jobs \subseteq DOMAIN jobs'
    BY <2>1
  <2> QED BY <1>0, <2>3, <2>4, <2>5, <2>6, <2>7, <2>8 DEF Grows
<1> QED BY <1>1, <1>2 DEF EnqueueJob

LEMMA EnqueueEachGrows ==
    ASSUME TypeOK, Safety, NEW picked \in SUBSET DOMAIN repos, NEW kind, kind # "account",
           EnqueueEach(picked, kind), UNCHANGED <<repos, lastRepo>>
    PROVE  Grows
<1> DEFINE fresh == Unserved(picked, kind)
           last  == lastJob + Cardinality(fresh)
<1>0. /\ lastRepo \in Nat /\ lastJob \in Nat
      /\ \A j \in DOMAIN jobs : j \in 1 .. lastJob
      /\ \A r \in DOMAIN repos : r \in 1 .. lastRepo
  BY DEF TypeOK
<1>1. Cardinality(fresh) \in Nat
  <2>1. IsFiniteSet(1 .. lastRepo)
    BY <1>0, FS_Interval
  <2>2. fresh \subseteq 1 .. lastRepo
    BY <1>0 DEF Unserved
  <2> QED BY <2>1, <2>2, FS_Subset, FS_CardinalityType
<1>2. PICK order \in [lastJob + 1 .. last -> fresh] :
        /\ Injective(order)
        /\ jobs' = [j \in DOMAIN jobs \cup (lastJob + 1 .. last) |->
                     IF j > lastJob THEN NewJob(order[j], kind, NULL) ELSE jobs[j]]
  BY DEF EnqueueEach
<1>3. last \in Nat /\ lastJob' = last /\ lastJob <= last
  BY <1>0, <1>1 DEF EnqueueEach
<1> HIDE DEF last
<1>4. \A j \in DOMAIN jobs : j \in DOMAIN jobs' /\ jobs'[j] = jobs[j]
  BY <1>0, <1>2
<1>5. \A j \in DOMAIN jobs' \ DOMAIN jobs :
        /\ j \in lastJob + 1 .. last
        /\ j \in Nat /\ j > lastJob
        /\ order[j] \in fresh
        /\ jobs'[j].status = "queued" /\ jobs'[j].repo = order[j]
        /\ jobs'[j].kind = kind /\ jobs'[j].payload = NULL
  BY <1>0, <1>2, <1>3 DEF NewJob
<1>6. \A r \in fresh : /\ r \in DOMAIN repos
                       /\ r # NULL
                       /\ \A k \in DOMAIN jobs :
                            ~(/\ jobs[k].status \in Active /\ jobs[k].repo = r
                              /\ jobs[k].kind = kind /\ jobs[k].payload = NULL)
  <2>1. \A r \in DOMAIN repos : r # NULL
    BY <1>0, NullAssumption
  <2> QED BY <2>1 DEF Unserved, HasActive
<1>7. NewJobsOK
  <2> SUFFICES ASSUME NEW j \in DOMAIN jobs' \ DOMAIN jobs
               PROVE  /\ jobs'[j].kind = "account" <=> jobs'[j].repo = NULL
                      /\ jobs'[j].repo # NULL => jobs'[j].repo \in DOMAIN repos'
                      /\ \A k \in DOMAIN jobs' :
                           /\ jobs'[k].status \in Active
                           /\ jobs'[k].repo = jobs'[j].repo
                           /\ jobs'[k].kind = jobs'[j].kind
                           /\ jobs'[k].payload = jobs'[j].payload
                           => k = j
    BY <1>5 DEF NewJobsOK
  <2> HIDE DEF fresh
  <2>1. /\ jobs'[j].kind = "account" <=> jobs'[j].repo = NULL
        /\ jobs'[j].repo # NULL => jobs'[j].repo \in DOMAIN repos'
    BY <1>5, <1>6
  <2>2. ASSUME NEW k \in DOMAIN jobs',
               jobs'[k].status \in Active,
               jobs'[k].repo = jobs'[j].repo,
               jobs'[k].kind = jobs'[j].kind,
               jobs'[k].payload = jobs'[j].payload
        PROVE  k = j
    <3>1. CASE k \in DOMAIN jobs
      BY <1>4, <1>5, <1>6, <2>2, <3>1
    <3>2. CASE k \notin DOMAIN jobs
      <4>1. order[k] = order[j] /\ k \in DOMAIN order /\ j \in DOMAIN order
        BY <1>2, <1>5, <2>2, <3>2
      <4> QED BY <1>2, <4>1 DEF Injective
    <3> QED BY <3>1, <3>2
  <2> QED BY <2>1, <2>2
<1>8. NewReposOK
  BY DEF NewReposOK
<1>9. DOMAIN jobs \subseteq DOMAIN jobs'
  BY <1>4
<1> QED BY <1>0, <1>3, <1>4, <1>7, <1>8, <1>9 DEF Grows

LEMMA ImportGrows ==
    ASSUME TypeOK, Safety, NEW urls \in SUBSET Url, ImportRepositories(urls)
    PROVE  Grows
<1> DEFINE fresh == Unknown(urls)
           n     == Cardinality(fresh)
<1>0. /\ lastRepo \in Nat /\ lastJob \in Nat
      /\ \A j \in DOMAIN jobs : j \in 1 .. lastJob
      /\ \A r \in DOMAIN repos : r \in 1 .. lastRepo
  BY DEF TypeOK
<1>1. n \in Nat
  <2>1. fresh \subseteq Url
    BY DEF Unknown
  <2> QED BY <2>1, UrlAssumption, FS_Subset, FS_CardinalityType
<1>2. PICK order \in [1 .. n -> fresh] :
        /\ Injective(order)
        /\ repos' = [r \in DOMAIN repos \cup (lastRepo + 1 .. lastRepo + n) |->
                       IF r > lastRepo THEN NewRepo(order[r - lastRepo]) ELSE repos[r]]
        /\ jobs' = [j \in DOMAIN jobs \cup (lastJob + 1 .. lastJob + n) |->
                      IF j > lastJob
                        THEN NewJob(lastRepo + (j - lastJob), "clone", NULL)
                        ELSE jobs[j]]
  BY DEF ImportRepositories
<1>3. lastRepo' = lastRepo + n /\ lastJob' = lastJob + n
  BY DEF ImportRepositories
<1> HIDE DEF n
<1>4. /\ \A j \in DOMAIN jobs : j \in DOMAIN jobs' /\ jobs'[j] = jobs[j]
      /\ \A r \in DOMAIN repos : r \in DOMAIN repos' /\ repos'[r] = repos[r]
  BY <1>0, <1>2
<1>5. \A j \in DOMAIN jobs' \ DOMAIN jobs :
        /\ j \in lastJob + 1 .. lastJob + n
        /\ j \in Nat /\ j > lastJob
        /\ jobs'[j].status = "queued" /\ jobs'[j].repo = lastRepo + (j - lastJob)
        /\ jobs'[j].kind = "clone" /\ jobs'[j].payload = NULL
  BY <1>0, <1>1, <1>2 DEF NewJob
<1>6. \A r \in DOMAIN repos' \ DOMAIN repos :
        /\ r \in lastRepo + 1 .. lastRepo + n
        /\ r \in Nat /\ r > lastRepo
        /\ r - lastRepo \in 1 .. n
        /\ repos'[r].operation = "" /\ repos'[r].url = order[r - lastRepo]
        /\ order[r - lastRepo] \in fresh
  <2> HIDE DEF fresh
  <2> TAKE r \in DOMAIN repos' \ DOMAIN repos
  <2>1. r \in lastRepo + 1 .. lastRepo + n
    BY <1>2
  <2>2. r \in Nat /\ r > lastRepo /\ r - lastRepo \in 1 .. n
    BY <1>0, <1>1, <2>1
  <2>3. repos'[r] = NewRepo(order[r - lastRepo])
    BY <1>2, <2>2
  <2> QED BY <1>2, <2>1, <2>2, <2>3 DEF NewRepo
<1>7. NewReposOK
  <2> SUFFICES ASSUME NEW r \in DOMAIN repos' \ DOMAIN repos, NEW s \in DOMAIN repos',
                      repos'[s].url = repos'[r].url
               PROVE  s = r
    BY <1>6 DEF NewReposOK
  <2>1. CASE s \in DOMAIN repos
    BY <1>4, <1>6, <2>1 DEF Unknown
  <2>2. CASE s \notin DOMAIN repos
    <3> HIDE DEF fresh
    <3>1. order[s - lastRepo] = order[r - lastRepo]
      BY <1>6, <2>2
    <3>2. s - lastRepo \in DOMAIN order /\ r - lastRepo \in DOMAIN order
      BY <1>2, <1>6, <2>2
    <3>3. s - lastRepo = r - lastRepo
      BY <1>2, <3>1, <3>2 DEF Injective
    <3>4. s \in Nat /\ r \in Nat
      BY <1>6, <2>2
    <3> QED BY <1>0, <3>3, <3>4
  <2> QED BY <2>1, <2>2
<1>8. NewJobsOK
  <2> SUFFICES ASSUME NEW j \in DOMAIN jobs' \ DOMAIN jobs
               PROVE  /\ jobs'[j].kind = "account" <=> jobs'[j].repo = NULL
                      /\ jobs'[j].repo # NULL => jobs'[j].repo \in DOMAIN repos'
                      /\ \A k \in DOMAIN jobs' :
                           /\ jobs'[k].status \in Active
                           /\ jobs'[k].repo = jobs'[j].repo
                           /\ jobs'[k].kind = jobs'[j].kind
                           /\ jobs'[k].payload = jobs'[j].payload
                           => k = j
    BY <1>5 DEF NewJobsOK
  <2> HIDE DEF fresh
  <2> DEFINE r == lastRepo + (j - lastJob)
  <2>1. jobs'[j].repo = r /\ jobs'[j].kind = "clone"
    BY <1>5
  <2>2. /\ j \in lastJob + 1 .. lastJob + n
        /\ r \in Int /\ r \in lastRepo + 1 .. lastRepo + n /\ r > lastRepo
    BY <1>0, <1>1, <1>5
  <2>3. r # NULL
    BY <2>2, NullAssumption
  <2>4. r \in DOMAIN repos'
    BY <1>2, <2>2
  <2>5. ASSUME NEW k \in DOMAIN jobs', jobs'[k].repo = r
        PROVE  k = j
    <3>1. CASE k \in DOMAIN jobs
      <4>1. jobs[k].repo = r /\ jobs[k].repo # NULL
        BY <1>4, <2>3, <2>5, <3>1
      <4>2. r \in DOMAIN repos
        BY <3>1, <4>1 DEF Safety, ForeignKeys
      <4> QED BY <1>0, <2>2, <4>2
    <3>2. CASE k \notin DOMAIN jobs
      <4>1. lastRepo + (k - lastJob) = lastRepo + (j - lastJob) /\ k \in Nat
        BY <1>5, <2>5, <3>2
      <4> QED BY <1>0, <2>2, <4>1
    <3> QED BY <3>1, <3>2
  <2> HIDE DEF r
  <2> QED BY <2>1, <2>3, <2>4, <2>5
<1>9. DOMAIN jobs \subseteq DOMAIN jobs' /\ DOMAIN repos \subseteq DOMAIN repos'
  BY <1>4
<1>10. /\ lastJob' \in Nat /\ lastJob <= lastJob'
       /\ lastRepo' \in Nat /\ lastRepo <= lastRepo'
  BY <1>0, <1>1, <1>3
<1> QED BY <1>4, <1>7, <1>8, <1>9, <1>10 DEF Grows

-----------------------------------------------------------------------------
(* How the workers move.                                                   *)

LEMMA StayFollows ==
    ASSUME Safety, UNCHANGED worker
    PROVE  (\A v \in Worker : Follows(v)) /\ BodyFitsKind'
BY DEF Follows, Safety, BodyFitsKind

LEMMA GotoFollows ==
    ASSUME TypeOK, Safety, NEW w \in Worker, worker[w].pc \in Holding,
           NEW pc, Goto(w, pc),
           pc \in {"cloning", "published", "link"} => worker[w].kind = "clone",
           pc = "fetching" => worker[w].kind \in {"clone", "fetch"}
    PROVE  (\A v \in Worker : Follows(v)) /\ BodyFitsKind'
<1>1. /\ worker'[w] = [worker[w] EXCEPT !.pc = pc]
      /\ \A v \in Worker : v # w => worker'[v] = worker[v]
  BY DEF Goto, TypeOK
<1>2. /\ worker'[w].pc = pc /\ worker'[w].id = worker[w].id
      /\ worker'[w].repo = worker[w].repo /\ worker'[w].kind = worker[w].kind
  <2>1. worker[w] \in WorkerRow
    BY DEF TypeOK
  <2> QED BY <1>1, <2>1 DEF WorkerRow
<1>3. \A v \in Worker : Follows(v)
  BY <1>1, <1>2 DEF Follows
<1>4. BodyFitsKind'
  BY <1>1, <1>2 DEF Safety, BodyFitsKind
<1> QED BY <1>3, <1>4

LEMMA ReturnFollows ==
    ASSUME TypeOK, Safety, NEW w \in Worker, worker[w].pc \in Holding,
           NEW outcome, Return(w, outcome)
    PROVE  (\A v \in Worker : Follows(v)) /\ BodyFitsKind'
<1>1. /\ worker'[w] = [worker[w] EXCEPT !.pc = "done", !.result = outcome]
      /\ \A v \in Worker : v # w => worker'[v] = worker[v]
  BY DEF Return, TypeOK
<1>2. /\ worker'[w].pc = "done" /\ worker'[w].id = worker[w].id
      /\ worker'[w].repo = worker[w].repo /\ worker'[w].kind = worker[w].kind
  <2>1. worker[w] \in WorkerRow
    BY DEF TypeOK
  <2> QED BY <1>1, <2>1 DEF WorkerRow
<1>3. \A v \in Worker : Follows(v)
  BY <1>1, <1>2 DEF Follows
<1>4. BodyFitsKind'
  BY <1>1, <1>2 DEF Safety, BodyFitsKind
<1> QED BY <1>3, <1>4

LEMMA FreeFollows ==
    ASSUME TypeOK, Safety, NEW w \in Worker, NEW pc \in {"poll", "exited"},
           worker' = [worker EXCEPT ![w] = Free(pc)]
    PROVE  /\ \A v \in Worker : Follows(v)
           /\ BodyFitsKind'
           /\ worker'[w].pc \notin Holding
<1>1. /\ worker'[w].pc = pc
      /\ \A v \in Worker : v # w => worker'[v] = worker[v]
  BY DEF Free, TypeOK
<1>2. pc \notin Holding
  BY DEF Holding, Executing
<1>3. \A v \in Worker : Follows(v)
  BY <1>1, <1>2 DEF Follows
<1>4. BodyFitsKind'
  BY <1>1 DEF Safety, BodyFitsKind
<1> QED BY <1>1, <1>2, <1>3, <1>4

(* The job bodies that touch a repository's row without its marker.        *)
LEMMA FlagsOnly ==
    ASSUME TypeOK, UNCHANGED <<jobs, lastRepo, lastJob>>, NEW r,
           \/ \E s : repos' = SetStatus(r, s)
           \/ \E b : r \in DOMAIN repos /\ repos' = [repos EXCEPT ![r].paused = b]
           \/ r \in DOMAIN repos /\ repos' = [repos EXCEPT ![r].mirror = TRUE]
           \/ r \in DOMAIN repos /\ repos' = [repos EXCEPT ![r].described = TRUE]
           \/ /\ r \in DOMAIN repos
              /\ repos' = [repos EXCEPT ![r].status = "ready", ![r].synced = TRUE]
           \/ UNCHANGED repos
    PROVE  SameTables
<1>1. \A x \in DOMAIN repos : repos[x] \in RepoRow
  BY DEF TypeOK
<1>2. DOMAIN repos' = DOMAIN repos
  BY DEF SetStatus
<1>3. \A x \in DOMAIN repos : /\ repos'[x].url = repos[x].url
                              /\ repos'[x].operation = repos[x].operation
  <2> TAKE x \in DOMAIN repos
  <2>1. repos[x] \in RepoRow
    BY <1>1
  <2>2. \/ \E s : repos'[x] = [repos[x] EXCEPT !.status = s]
        \/ \E b : repos'[x] = [repos[x] EXCEPT !.paused = b]
        \/ repos'[x] = [repos[x] EXCEPT !.mirror = TRUE]
        \/ repos'[x] = [repos[x] EXCEPT !.described = TRUE]
        \/ repos'[x] = [repos[x] EXCEPT !.status = "ready", !.synced = TRUE]
        \/ repos'[x] = repos[x]
    <3>1. ASSUME NEW s, repos' = SetStatus(r, s)
          PROVE  \/ repos'[x] = [repos[x] EXCEPT !.status = s]
                 \/ repos'[x] = repos[x]
      BY <3>1 DEF SetStatus
    <3>2. ASSUME NEW b, r \in DOMAIN repos, repos' = [repos EXCEPT ![r].paused = b]
          PROVE  \/ repos'[x] = [repos[x] EXCEPT !.paused = b]
                 \/ repos'[x] = repos[x]
      BY <3>2
    <3> QED BY <3>1, <3>2
  <2> QED BY <2>1, <2>2 DEF RepoRow
<1> QED BY <1>2, <1>3 DEF SameTables

(* Setting the marker of the repository one holds a running job of.        *)
LEMMA SetOperationSafe ==
    ASSUME TypeOK, Safety, NEW w \in Worker, worker[w].pc \in Holding,
           NEW op, worker[w].kind \in MarkerKind(op),
           repos' = SetOperation(worker[w].repo, op),
           UNCHANGED <<jobs, lastRepo, lastJob>>,
           \A v \in Worker : Follows(v), BodyFitsKind'
    PROVE  Safety'
<1> DEFINE r == worker[w].repo
           j == worker[w].id
<1>1. /\ DOMAIN repos' = DOMAIN repos
      /\ \A x \in DOMAIN repos :
           /\ repos'[x].url = repos[x].url
           /\ x # r => repos'[x].operation = repos[x].operation
           /\ x = r => repos'[x].operation = op
  <2>1. \A x \in DOMAIN repos : repos[x] \in RepoRow
    BY DEF TypeOK
  <2> QED BY <2>1 DEF SetOperation, RepoRow
<1>2. r \in DOMAIN repos => Marked(r)
  <2> SUFFICES ASSUME r \in DOMAIN repos PROVE Marked(r)
    OBVIOUS
  <2>1. j \in DOMAIN jobs /\ Running(j) /\ jobs[j].repo = r /\ jobs[j].kind = worker[w].kind
    BY DEF Safety, ClaimIsExclusive
  <2> QED BY <1>1, <2>1 DEF Marked, Running
<1>3. ReposShrink
  BY <1>1, <1>2 DEF ReposShrink
<1>4. JobsShrink
  BY <1>1 DEF JobsShrink, SameJob
<1>5. 0 \notin DOMAIN jobs
  BY DEF TypeOK
<1>6. Shrinks(0)
  BY <1>3, <1>4, <1>5 DEF Shrinks, Kept, SameJob, Running
<1>7. \A v \in Worker : worker'[v].pc \in Holding => worker[v].id # 0
  BY DEF Safety, ClaimIsPast, Follows, TypeOK
<1> QED BY <1>6, <1>7, ShrinkSafe

-----------------------------------------------------------------------------
(* The end of a job.                                                       *)

LEMMA PruneKeeps ==
    ASSUME NEW table, NEW j \in DOMAIN table, table[j].status \notin Terminal
    PROVE  j \in DOMAIN Prune(table) /\ Prune(table)[j] = table[j]
BY DEF Prune

LEMMA ClearedMarker ==
    ASSUME TypeOK, NEW j, repos' = ClearOperationOfJob(j)
    PROVE  /\ DOMAIN repos' = DOMAIN repos
           /\ ReposShrink
           /\ j \in DOMAIN jobs /\ jobs[j].repo \in DOMAIN repos'
                => repos'[jobs[j].repo].operation = ""
<1>1. \A x \in DOMAIN repos : repos[x] \in RepoRow
  BY DEF TypeOK
<1>2. CASE repos' = repos /\ ~(j \in DOMAIN jobs /\ jobs[j].repo \in DOMAIN repos)
  BY <1>2 DEF ReposShrink
<1>3. CASE /\ j \in DOMAIN jobs /\ jobs[j].repo \in DOMAIN repos
           /\ repos' = [repos EXCEPT ![jobs[j].repo].operation = ""]
  <2> DEFINE r == jobs[j].repo
  <2>1. r \in DOMAIN repos /\ repos[r] \in RepoRow
    BY <1>1, <1>3
  <2>2. /\ DOMAIN repos' = DOMAIN repos
        /\ repos'[r] = [repos[r] EXCEPT !.operation = ""]
        /\ \A x \in DOMAIN repos : x # r => repos'[x] = repos[x]
    BY <1>3
  <2>3. repos'[r].operation = "" /\ repos'[r].url = repos[r].url
    BY <2>1, <2>2 DEF RepoRow
  <2> HIDE DEF r
  <2>4. ReposShrink
    BY <2>2, <2>3 DEF ReposShrink
  <2> QED BY <2>2, <2>3, <2>4 DEF r
<1> QED BY <1>2, <1>3 DEF ClearOperationOfJob, SetOperation

LEMMA FinishShrinks ==
    ASSUME TypeOK, Safety, NEW j, NEW outcome \in Terminal, FinishJob(j, outcome),
           UNCHANGED <<lastRepo, lastJob>>
    PROVE  Shrinks(j)
<1> PICK table :
      table = IF j \in DOMAIN jobs THEN [jobs EXCEPT ![j].status = outcome] ELSE jobs
  OBVIOUS
<1>0. \A k \in DOMAIN jobs : jobs[k] \in JobRow
  BY DEF TypeOK
<1>1. /\ DOMAIN table = DOMAIN jobs
      /\ \A k \in DOMAIN jobs :
           /\ k # j => table[k] = jobs[k]
           /\ k = j => table[k] = [jobs[k] EXCEPT !.status = outcome]
  OBVIOUS
<1>2. \A k \in DOMAIN jobs : /\ table[k].repo = jobs[k].repo
                            /\ table[k].kind = jobs[k].kind
                            /\ table[k].payload = jobs[k].payload
                            /\ k = j => table[k].status \in Terminal
  BY <1>0, <1>1 DEF JobRow
<1>3. jobs' = Prune(table)
  BY DEF FinishJob
<1>4. DOMAIN jobs' \subseteq DOMAIN jobs /\ \A k \in DOMAIN jobs' : jobs'[k] = table[k]
  BY <1>1, <1>3 DEF Prune
<1>5. /\ DOMAIN repos' = DOMAIN repos
      /\ ReposShrink
      /\ j \in DOMAIN jobs /\ jobs[j].repo \in DOMAIN repos'
           => repos'[jobs[j].repo].operation = ""
  BY ClearedMarker DEF FinishJob
<1>6. JobsShrink
  <2> SUFFICES ASSUME NEW k \in DOMAIN jobs'
               PROVE  /\ k \in DOMAIN jobs /\ SameJob(k)
                      /\ jobs'[k].status \in Active => jobs[k].status \in Active
                      /\ jobs'[k].status = "running" => jobs[k].status = "running"
    BY <1>5 DEF JobsShrink
  <2>1. Active \cap Terminal = {} /\ "running" \notin Terminal
    BY DEF Active, Terminal
  <2>2. k \in DOMAIN jobs /\ jobs'[k] = table[k]
    BY <1>1, <1>4
  <2>3. SameJob(k)
    BY <1>2, <2>2 DEF SameJob
  <2>4. table[k].status = jobs[k].status \/ table[k].status \in Terminal
    BY <1>1, <1>2, <2>2
  <2> QED BY <2>1, <2>2, <2>3, <2>4
<1>7. ASSUME NEW k \in DOMAIN jobs, Running(k), k # j
      PROVE  Kept(k)
  <2>1. k \in DOMAIN table /\ table[k] = jobs[k] /\ table[k].status \notin Terminal
    BY <1>1, <1>7 DEF Running, Terminal
  <2>2. k \in DOMAIN jobs' /\ jobs'[k] = jobs[k]
    BY <1>3, <2>1, PruneKeeps
  <2> QED BY <1>7, <2>2 DEF Kept, SameJob, Running
<1> QED BY <1>5, <1>6, <1>7 DEF Shrinks

LEMMA RequeueShrinks ==
    ASSUME TypeOK, Safety, NEW j, NEW now, RequeueJob(j, now), j \in DOMAIN jobs => Running(j),
           UNCHANGED <<lastRepo, lastJob>>
    PROVE  Shrinks(j)
<1>0. \A k \in DOMAIN jobs : jobs[k] \in JobRow
  BY DEF TypeOK
<1>1. /\ DOMAIN jobs' = DOMAIN jobs
      /\ \A k \in DOMAIN jobs :
           /\ k # j => jobs'[k] = jobs[k]
           /\ k = j => jobs'[k] = [jobs[k] EXCEPT !.status = "queued", !.due = now]
  BY DEF RequeueJob
<1>2. \A k \in DOMAIN jobs : SameJob(k) /\ (k = j => jobs'[k].status = "queued")
  BY <1>0, <1>1 DEF JobRow, SameJob
<1>3. /\ DOMAIN repos' = DOMAIN repos
      /\ ReposShrink
      /\ j \in DOMAIN jobs /\ jobs[j].repo \in DOMAIN repos'
           => repos'[jobs[j].repo].operation = ""
  BY ClearedMarker DEF RequeueJob
<1>4. JobsShrink
  <2> SUFFICES ASSUME NEW k \in DOMAIN jobs'
               PROVE  /\ k \in DOMAIN jobs /\ SameJob(k)
                      /\ jobs'[k].status \in Active => jobs[k].status \in Active
                      /\ jobs'[k].status = "running" => jobs[k].status = "running"
    BY <1>3 DEF JobsShrink
  <2> QED BY <1>1, <1>2 DEF Active, Running
<1>5. \A k \in DOMAIN jobs : Running(k) /\ k # j => Kept(k)
  BY <1>1, <1>2 DEF Kept, Running
<1> QED BY <1>3, <1>4, <1>5 DEF Shrinks

LEMMA EndSafe ==
    ASSUME TypeOK, Safety, NEW w \in Worker, worker[w].pc \in Holding,
           \/ \E outcome \in Terminal : FinishJob(worker[w].id, outcome)
           \/ \E now \in BOOLEAN : RequeueJob(worker[w].id, now),
           NextIteration(w), UNCHANGED <<lastRepo, lastJob>>
    PROVE  Safety'
<1> DEFINE j == worker[w].id
<1>1. j \in DOMAIN jobs => Running(j)
  BY DEF Safety, ClaimIsExclusive
<1>2. Shrinks(j)
  BY <1>1, FinishShrinks, RequeueShrinks
<1>3. /\ \A v \in Worker : Follows(v)
      /\ BodyFitsKind'
      /\ worker'[w].pc \notin Holding
  BY FreeFollows DEF NextIteration
<1>4. \A v \in Worker : worker'[v].pc \in Holding => worker[v].id # j
  <2> SUFFICES ASSUME NEW v \in Worker, worker'[v].pc \in Holding, worker[v].id = j
               PROVE  FALSE
    OBVIOUS
  <2>1. worker[v].pc \in Holding
    BY <1>3 DEF Follows
  <2>2. v = w
    BY <2>1 DEF Safety, ClaimIsExclusive
  <2> QED BY <1>3, <2>2
<1> QED BY <1>2, <1>3, <1>4, ShrinkSafe

-----------------------------------------------------------------------------
(* The claim.                                                              *)

LEMMA ClaimSafe ==
    ASSUME TypeOK, Safety, NEW w \in Worker, ClaimNextJob(w)
    PROVE  Safety'
<1>1. PICK j \in DOMAIN jobs :
        /\ Claimable(j)
        /\ jobs' = [jobs EXCEPT ![j].status = "running", ![j].attempts = Bump(@)]
        /\ worker' = [worker EXCEPT ![w] =
                        [pc |-> "claimed", id |-> j, repo |-> jobs[j].repo,
                         kind |-> jobs[j].kind, attempts |-> Bump(jobs[j].attempts),
                         link |-> FALSE, result |-> "none"]]
  BY DEF ClaimNextJob
<1>2. UNCHANGED <<repos, lastRepo, lastJob>> /\ worker[w].pc = "poll"
  BY DEF ClaimNextJob, At
<1>3. /\ DOMAIN jobs' = DOMAIN jobs
      /\ jobs'[j].status = "running"
      /\ \A k \in DOMAIN jobs : k # j => jobs'[k] = jobs[k]
      /\ \A k \in DOMAIN jobs : SameJob(k)
  <2>1. \A k \in DOMAIN jobs : jobs[k] \in JobRow
    BY DEF TypeOK
  <2> QED BY <1>1, <2>1 DEF JobRow, SameJob
<1>4. /\ worker'[w].pc = "claimed" /\ worker'[w].id = j
      /\ worker'[w].repo = jobs[j].repo /\ worker'[w].kind = jobs[j].kind
      /\ \A v \in Worker : v # w => worker'[v] = worker[v]
  BY <1>1 DEF TypeOK
<1>5. /\ jobs[j].status = "queued"
      /\ \A k \in DOMAIN jobs : Running(k) => k # j /\ jobs'[k] = jobs[k]
      /\ jobs[j].repo # NULL =>
           \A k \in DOMAIN jobs : jobs[k].repo = jobs[j].repo => ~Running(k)
  BY <1>1, <1>3 DEF Claimable, Running
<1>6. OneRunningPerRepo'
  <2> SUFFICES ASSUME NEW a \in DOMAIN jobs', NEW b \in DOMAIN jobs',
                      jobs'[a].status = "running", jobs'[b].status = "running",
                      jobs'[a].repo = jobs'[b].repo, jobs'[a].repo # NULL
               PROVE  a = b
    BY DEF OneRunningPerRepo, Running
  <2>1. CASE a # j /\ b # j
    BY <1>3, <2>1 DEF Safety, OneRunningPerRepo, Running
  <2>2. CASE a = j \/ b = j
    BY <1>3, <1>5, <2>2 DEF Running, SameJob
  <2> QED BY <2>1, <2>2
<1>7. OneActivePerKind'
  BY <1>3, <1>5 DEF Safety, OneActivePerKind, Active, SameJob
<1>8. ForeignKeys' /\ UrlsAreUnique'
  BY <1>2, <1>3 DEF Safety, ForeignKeys, SameJob, UrlsAreUnique
<1>9. ClaimIsPast'
  <2>1. /\ j \in 1 .. lastJob
        /\ jobs[j].repo \in 1 .. lastRepo \cup {NULL}
        /\ jobs[j].kind = "account" <=> jobs[j].repo = NULL
    BY DEF TypeOK, Safety, ForeignKeys
  <2> QED BY <1>2, <1>4, <2>1 DEF Safety, ClaimIsPast
<1>10. BodyFitsKind'
  BY <1>4 DEF Safety, BodyFitsKind
<1>11. ClaimIsExclusive'
  <2>1. \A v \in Worker : v # w /\ worker'[v].pc \in Holding =>
          worker[v].pc \in Holding /\ worker[v].id # j /\ worker'[v] = worker[v]
    BY <1>4, <1>5 DEF Safety, ClaimIsExclusive, Running
  <2> SUFFICES ASSUME NEW v \in Worker, worker'[v].pc \in Holding
               PROVE  /\ worker'[v].id \in DOMAIN jobs' =>
                           /\ jobs'[worker'[v].id].status = "running"
                           /\ jobs'[worker'[v].id].repo = worker'[v].repo
                           /\ jobs'[worker'[v].id].kind = worker'[v].kind
                      /\ worker'[v].repo \in DOMAIN repos' =>
                           worker'[v].id \in DOMAIN jobs'
                      /\ \A u \in Worker :
                           worker'[u].pc \in Holding /\ worker'[u].id = worker'[v].id
                             => u = v
    BY DEF ClaimIsExclusive, Running
  <2>2. CASE v = w
    BY <1>3, <1>4, <2>1, <2>2 DEF SameJob
  <2>3. CASE v # w
    <3>1. worker[v].pc \in Holding /\ worker[v].id # j /\ worker'[v] = worker[v]
      BY <2>1, <2>3
    <3>2. /\ worker[v].id \in DOMAIN jobs =>
                /\ Running(worker[v].id)
                /\ jobs[worker[v].id].repo = worker[v].repo
                /\ jobs[worker[v].id].kind = worker[v].kind
          /\ worker[v].repo \in DOMAIN repos => worker[v].id \in DOMAIN jobs
      BY <3>1 DEF Safety, ClaimIsExclusive
    <3>3. ASSUME NEW u \in Worker, worker'[u].pc \in Holding, worker'[u].id = worker'[v].id
          PROVE  u = v
      <4>1. u # w
        BY <1>4, <3>1, <3>3
      <4>2. worker[u].pc \in Holding /\ worker[u].id = worker[v].id
        BY <1>4, <3>1, <3>3, <4>1
      <4> QED BY <3>1, <4>2 DEF Safety, ClaimIsExclusive
    <3> QED BY <1>2, <1>3, <3>1, <3>2, <3>3 DEF Running
  <2> QED BY <2>2, <2>3
<1>12. OperationHasJob'
  <2> SUFFICES ASSUME NEW r \in DOMAIN repos, repos[r].operation # ""
               PROVE  Marked(r)
    BY <1>2 DEF OperationHasJob, Running, Marked
  <2>1. PICK k \in DOMAIN jobs : /\ Running(k)
                                 /\ jobs[k].repo = r
                                 /\ jobs[k].kind \in MarkerKind(repos[r].operation)
    BY DEF Safety, OperationHasJob
  <2> QED BY <1>2, <1>3, <1>5, <2>1 DEF Marked, Running
<1> QED BY <1>6, <1>7, <1>8, <1>9, <1>10, <1>11, <1>12 DEF Safety

-----------------------------------------------------------------------------
(* The steps, handler by handler.                                          *)

LEMMA QuietSafe ==
    ASSUME TypeOK, Safety, SameTables,
           \/ UNCHANGED worker
           \/ \E w \in Worker :
                /\ worker[w].pc \in Holding
                /\ \/ \E pc \in {"account", "metadata", "releases", "catch"} : Goto(w, pc)
                   \/ \E outcome : Return(w, outcome)
                   \/ NextIteration(w)
    PROVE  Safety'
<1>1. (\A v \in Worker : Follows(v)) /\ BodyFitsKind'
  <2>1. ASSUME NEW w \in Worker, worker[w].pc \in Holding, NextIteration(w)
        PROVE  (\A v \in Worker : Follows(v)) /\ BodyFitsKind'
    BY <2>1, FreeFollows DEF NextIteration
  <2>2. ASSUME NEW w \in Worker, worker[w].pc \in Holding,
               NEW pc \in {"account", "metadata", "releases", "catch"}, Goto(w, pc)
        PROVE  (\A v \in Worker : Follows(v)) /\ BodyFitsKind'
    <3>1. pc \notin {"cloning", "published", "link", "fetching"}
      OBVIOUS
    <3> QED BY <2>2, <3>1, GotoFollows
  <2>3. ASSUME NEW w \in Worker, worker[w].pc \in Holding, NEW outcome, Return(w, outcome)
        PROVE  (\A v \in Worker : Follows(v)) /\ BodyFitsKind'
    BY <2>3, ReturnFollows
  <2> QED BY <2>1, <2>2, <2>3, StayFollows
<1> QED BY <1>1, SameTablesSafe

(* The tables lose rows or running jobs lose their due date.               *)
LEMMA DueSafe ==
    ASSUME TypeOK, Safety,
           DOMAIN jobs' = DOMAIN jobs,
           \A j \in DOMAIN jobs : SameJob(j) /\ jobs'[j].status = jobs[j].status,
           UNCHANGED <<repos, lastRepo, lastJob>>,
           \A v \in Worker : Follows(v), BodyFitsKind'
    PROVE  Safety'
<1>1. 0 \notin DOMAIN jobs
  BY DEF TypeOK
<1>2. JobsShrink /\ ReposShrink
  BY DEF JobsShrink, ReposShrink
<1>3. \A j \in DOMAIN jobs : Running(j) => Kept(j)
  BY DEF Kept, Running
<1>4. Shrinks(0)
  BY <1>1, <1>2, <1>3 DEF Shrinks
<1>5. \A v \in Worker : worker'[v].pc \in Holding => worker[v].id # 0
  BY DEF Safety, ClaimIsPast, Follows, TypeOK
<1> QED BY <1>4, <1>5, ShrinkSafe

LEMMA DeleteSafe ==
    ASSUME TypeOK, Safety, NEW r, DeleteRepository(r)
    PROVE  Safety'
<1>1. /\ DOMAIN repos' = DOMAIN repos \ {r} /\ r \in DOMAIN repos
      /\ \A x \in DOMAIN repos' : repos'[x] = repos[x]
      /\ DOMAIN jobs' = {k \in DOMAIN jobs : jobs[k].repo # r}
      /\ \A j \in DOMAIN jobs' : jobs'[j] = jobs[j]
      /\ UNCHANGED <<lastRepo, lastJob, worker>>
  BY DEF DeleteRepository
<1>2. 0 \notin DOMAIN jobs
  BY DEF TypeOK
<1>3. JobsShrink /\ ReposShrink
  BY <1>1 DEF JobsShrink, ReposShrink, SameJob
<1>4. \A j \in DOMAIN jobs : Running(j) => Kept(j)
  BY <1>1 DEF Kept, Running, SameJob
<1>5. Shrinks(0)
  BY <1>1, <1>2, <1>3, <1>4 DEF Shrinks
<1>6. (\A v \in Worker : Follows(v)) /\ BodyFitsKind'
  BY <1>1, StayFollows
<1>7. \A v \in Worker : worker'[v].pc \in Holding => worker[v].id # 0
  BY <1>1 DEF Safety, ClaimIsPast, TypeOK
<1> QED BY <1>5, <1>6, <1>7, ShrinkSafe

LEMMA HandlerSafe ==
    ASSUME TypeOK, Safety, TypeOK', Handler
    PROVE  Safety'
<1>1. CASE \E urls \in SUBSET Url : Import(urls)
  <2>1. PICK urls \in SUBSET Url : Import(urls)
    BY <1>1
  <2>2. Grows /\ UNCHANGED worker
    BY <2>1, ImportGrows DEF Import
  <2> QED BY <2>2, StayFollows, GrowSafe
<1>2. CASE \E a \in Account : ImportAccount(a)
  <2>1. PICK a \in Account : ImportAccount(a)
    BY <1>2
  <2>2. EnqueueJob(NULL, "account", a) /\ UNCHANGED <<lastRepo, worker>>
    BY <2>1 DEF ImportAccount
  <2>3. Grows
    BY <2>2, EnqueueGrows
  <2> QED BY <2>2, <2>3, StayFollows, GrowSafe
<1>3. ASSUME NEW r \in DOMAIN repos, NEW kind \in Requested, RequestJob(r, kind)
      PROVE  Safety'
  <2>1. EnqueueJob(r, kind, NULL) /\ UNCHANGED <<lastRepo, worker>>
    BY <1>3 DEF RequestJob
  <2>2. kind # "account" /\ r # NULL
    BY RequestAssumption, NullAssumption DEF TypeOK
  <2>3. Grows
    BY <2>1, <2>2, EnqueueGrows
  <2> QED BY <2>1, <2>3, StayFollows, GrowSafe
<1>4. ASSUME NEW r \in DOMAIN repos, NEW value \in BOOLEAN, SetPaused(r, value)
      PROVE  Safety'
  <2>1. /\ repos' = [repos EXCEPT ![r].paused = value]
        /\ UNCHANGED <<jobs, lastRepo, lastJob, worker>>
    BY <1>4 DEF SetPaused
  <2>2. SameTables
    BY <2>1, FlagsOnly
  <2> QED BY <2>1, <2>2, QuietSafe
<1>5. ASSUME NEW r \in DOMAIN repos, DeleteRepository(r)
      PROVE  Safety'
  BY <1>5, DeleteSafe
<1>6. CASE \E kind \in BulkKind : ListForBulk(kind)
  <2>1. UNCHANGED <<tables, worker>>
    BY <1>6 DEF ListForBulk
  <2>2. SameTables
    BY <2>1 DEF SameTables, tables
  <2> QED BY <2>1, <2>2, QuietSafe
<1>7. CASE InsertBulk
  <2>1. CASE bulk.picked \subseteq DOMAIN repos
    <3>1. bulk.kind # "account"
      <4>1. bulk \in [kind : {"fetch", "health"}, picked : SUBSET RepoId]
        BY <1>7 DEF InsertBulk, TypeOK
      <4> QED BY <4>1
    <3>2. EnqueueEach(bulk.picked, bulk.kind) /\ UNCHANGED <<repos, lastRepo, worker>>
      BY <1>7, <2>1 DEF InsertBulk
    <3>3. Grows
      BY <2>1, <3>1, <3>2, EnqueueEachGrows
    <3> QED BY <3>2, <3>3, StayFollows, GrowSafe
  <2>2. CASE ~(bulk.picked \subseteq DOMAIN repos)
    <3>1. UNCHANGED <<repos, jobs, lastRepo, lastJob, worker>>
      BY <1>7, <2>2 DEF InsertBulk
    <3>2. SameTables
      BY <3>1 DEF SameTables
    <3> QED BY <3>1, <3>2, QuietSafe
  <2> QED BY <2>1, <2>2
<1> QED BY <1>1, <1>2, <1>3, <1>4, <1>5, <1>6, <1>7 DEF Handler

LEMMA ReportSafe ==
    ASSUME TypeOK, Safety, NEW w \in Worker, worker[w].pc \in Holding,
           NEW status, NEW outcome, Report(w, status, outcome)
    PROVE  Safety'
<1>1. /\ repos' = SetStatus(worker[w].repo, status)
      /\ Return(w, outcome)
      /\ UNCHANGED <<jobs, lastRepo, lastJob>>
  BY DEF Report
<1>2. SameTables
  BY <1>1, FlagsOnly
<1> QED BY <1>1, <1>2, QuietSafe

LEMMA CloneSafe ==
    ASSUME TypeOK, Safety, NEW w \in Worker, CloneStep(w)
    PROVE  Safety'
<1> DEFINE r == worker[w].repo
<1>1. CASE FetchUnavailable(w) \/ FetchFails(w) \/ CloneFails(w) \/ EnumerateRefsFails(w)
  <2>1. worker[w].pc \in Holding
    BY <1>1 DEF FetchUnavailable, FetchFails, CloneFails, EnumerateRefsFails,
                AtFetch, AtSynchronize, At, Holding, Executing
  <2>2. \E status, outcome : Report(w, status, outcome)
    BY <1>1 DEF FetchUnavailable, FetchFails, CloneFails, EnumerateRefsFails
  <2> QED BY <2>1, <2>2, ReportSafe
<1>2. CASE BeginFetch(w)
  <2>1. worker[w].pc \in Holding /\ worker[w].kind \in {"clone", "fetch"}
    BY <1>2 DEF BeginFetch, AtFetch, At, Holding, Executing, Safety, BodyFitsKind
  <2>2. /\ repos' = SetOperation(r, "fetching") /\ Goto(w, "fetching")
        /\ UNCHANGED <<jobs, lastRepo, lastJob>>
    BY <1>2 DEF BeginFetch
  <2>3. (\A v \in Worker : Follows(v)) /\ BodyFitsKind'
    BY <2>1, <2>2, GotoFollows
  <2>4. worker[w].kind \in MarkerKind("fetching")
    BY <2>1 DEF MarkerKind
  <2> QED BY <2>1, <2>2, <2>3, <2>4, SetOperationSafe
<1>3. CASE PublishMirror(w)
  <2>1. worker[w].pc = "cloning" /\ worker[w].pc \in Holding
    BY <1>3 DEF PublishMirror, At, Holding, Executing
  <2>2. /\ \/ r \in DOMAIN repos /\ repos' = [repos EXCEPT ![r].mirror = TRUE]
           \/ UNCHANGED repos
        /\ Goto(w, "published") /\ UNCHANGED <<jobs, lastRepo, lastJob>>
    BY <1>3 DEF PublishMirror
  <2>3. SameTables
    BY <2>2, FlagsOnly
  <2>4. worker[w].kind = "clone"
    BY <2>1 DEF Safety, BodyFitsKind
  <2>5. (\A v \in Worker : Follows(v)) /\ BodyFitsKind'
    BY <2>1, <2>2, <2>4, GotoFollows
  <2> QED BY <2>3, <2>5, SameTablesSafe
<1>4. CASE Synchronize(w)
  <2>1. worker[w].pc \in {"published", "fetching"} /\ worker[w].pc \in Holding
    BY <1>4 DEF Synchronize, AtSynchronize, At, Holding, Executing
  <2>2. UNCHANGED <<jobs, lastRepo, lastJob>>
    BY <1>4 DEF Synchronize
  <2>3. \/ r \in DOMAIN repos
           /\ repos' = [repos EXCEPT ![r].status = "ready", ![r].synced = TRUE]
        \/ UNCHANGED repos
    BY <1>4 DEF Synchronize
  <2>4. SameTables
    BY <2>2, <2>3, FlagsOnly
  <2>5. CASE worker[w].pc = "published" /\ Goto(w, "link")
    <3>1. worker[w].kind = "clone"
      BY <2>5 DEF Safety, BodyFitsKind
    <3>2. (\A v \in Worker : Follows(v)) /\ BodyFitsKind'
      BY <2>1, <2>5, <3>1, GotoFollows
    <3> QED BY <2>4, <3>2, SameTablesSafe
  <2>6. CASE Return(w, "success") \/ Goto(w, "catch")
    BY <2>1, <2>4, <2>6, QuietSafe
  <2> QED BY <1>4, <2>5, <2>6 DEF Synchronize, At
<1>5. CASE LinkMetadata(w)
  <2>1. worker[w].pc \in Holding /\ UNCHANGED lastRepo
    BY <1>5 DEF LinkMetadata, At, Holding, Executing
  <2>2. CASE /\ r \in DOMAIN repos /\ EnqueueJob(r, "metadata", NULL)
             /\ Return(w, "success")
    <3>1. r # NULL
      BY <2>2, NullAssumption DEF TypeOK
    <3>2. TypeOK'
      <4>1. Next
        BY <1>5 DEF Next, WorkerStep, BodyStep, CloneStep
      <4> QED BY <4>1, StepTypes
    <3>3. Grows
      BY <2>1, <2>2, <3>1, <3>2, EnqueueGrows
    <3>4. (\A v \in Worker : Follows(v)) /\ BodyFitsKind'
      BY <2>1, <2>2, ReturnFollows
    <3> QED BY <3>3, <3>4, GrowSafe
  <2>3. CASE UNCHANGED <<repos, jobs, lastJob>> /\ Goto(w, "catch")
    <3>1. SameTables
      BY <2>1, <2>3 DEF SameTables
    <3> QED BY <2>1, <2>3, <3>1, QuietSafe
  <2> QED BY <1>5, <2>2, <2>3 DEF LinkMetadata
<1> QED BY <1>1, <1>2, <1>3, <1>4, <1>5 DEF CloneStep

LEMMA ApiSafe ==
    ASSUME TypeOK, Safety, NEW w \in Worker, ApiStep(w)
    PROVE  Safety'
<1>1. CASE MetadataStored(w)
  <2>1. worker[w].pc \in Holding
    BY <1>1 DEF MetadataStored, At, Holding, Executing
  <2>2. /\ \/ /\ worker[w].repo \in DOMAIN repos
              /\ repos' = [repos EXCEPT ![worker[w].repo].described = TRUE]
           \/ UNCHANGED repos
        /\ Goto(w, "releases") /\ UNCHANGED <<jobs, lastRepo, lastJob>>
    BY <1>1 DEF MetadataStored
  <2>3. SameTables
    BY <2>2, FlagsOnly
  <2> QED BY <2>1, <2>2, <2>3, QuietSafe
<1>2. CASE ReleasesStored(w) \/ AccountListed(w) \/ ApiFails(w)
  <2>1. worker[w].pc \in Holding
    BY <1>2 DEF ReleasesStored, AccountListed, ApiFails, AtApi, At, Holding, Executing
  <2>2. UNCHANGED tables /\ \E outcome : Return(w, outcome)
    BY <1>2 DEF ReleasesStored, AccountListed, ApiFails
  <2>3. SameTables
    BY <2>2 DEF SameTables, tables
  <2> QED BY <2>1, <2>2, <2>3, QuietSafe
<1>3. CASE \E urls \in SUBSET Url : ImportPage(w, urls)
  <2>1. PICK urls \in SUBSET Url : ImportPage(w, urls)
    BY <1>3
  <2>2. Grows /\ UNCHANGED worker
    BY <2>1, ImportGrows DEF ImportPage
  <2> QED BY <2>2, StayFollows, GrowSafe
<1>4. CASE RateLimited(w)
  <2>1. worker[w].pc \in Holding
    BY <1>4 DEF RateLimited, AtApi, At, Holding, Executing
  <2>2. /\ DelayPendingGithubJobs /\ Return(w, "delay")
        /\ UNCHANGED <<repos, lastRepo, lastJob>>
    BY <1>4 DEF RateLimited
  <2>3. DOMAIN jobs' = DOMAIN jobs
    BY <2>2 DEF DelayPendingGithubJobs
  <2>4. \A j \in DOMAIN jobs : SameJob(j) /\ jobs'[j].status = jobs[j].status
    <3> TAKE j \in DOMAIN jobs
    <3>1. jobs[j] \in JobRow
      BY DEF TypeOK
    <3>2. jobs'[j] = jobs[j] \/ jobs'[j] = [jobs[j] EXCEPT !.due = FALSE]
      BY <2>2 DEF DelayPendingGithubJobs
    <3> QED BY <3>1, <3>2 DEF JobRow, SameJob
  <2>5. (\A v \in Worker : Follows(v)) /\ BodyFitsKind'
    BY <2>1, <2>2, ReturnFollows
  <2> QED BY <2>2, <2>3, <2>4, <2>5, DueSafe
<1> QED BY <1>1, <1>2, <1>3, <1>4 DEF ApiStep

LEMMA BodySafe ==
    ASSUME TypeOK, Safety, NEW w \in Worker, BodyStep(w)
    PROVE  Safety'
<1>1. CASE Execute(w)
  <2>1. worker[w].pc \in Holding
    BY <1>1 DEF Execute, At, Holding, Executing
  <2>2. SameTables
    BY <1>1 DEF Execute, tables, SameTables
  <2>3. CASE (\E outcome : Return(w, outcome)) \/ Goto(w, "account")
    BY <2>1, <2>2, <2>3, QuietSafe
  <2>4. CASE \E b : worker' = [worker EXCEPT ![w].pc = "locked", ![w].link = b]
    <3>1. PICK b : worker' = [worker EXCEPT ![w].pc = "locked", ![w].link = b]
      BY <2>4
    <3>2. /\ worker'[w] = [worker[w] EXCEPT !.pc = "locked", !.link = b]
          /\ worker[w] \in WorkerRow
          /\ \A v \in Worker : v # w => worker'[v] = worker[v]
      BY <3>1 DEF TypeOK
    <3>3. /\ worker'[w].pc = "locked" /\ worker'[w].id = worker[w].id
          /\ worker'[w].repo = worker[w].repo /\ worker'[w].kind = worker[w].kind
      BY <3>2 DEF WorkerRow
    <3>4. \A v \in Worker : Follows(v)
      BY <2>1, <3>2, <3>3 DEF Follows
    <3>5. BodyFitsKind'
      BY <3>2, <3>3 DEF Safety, BodyFitsKind
    <3> QED BY <2>2, <3>4, <3>5, SameTablesSafe
  <2> QED BY <1>1, <2>3, <2>4 DEF Execute
<1>2. CASE BeginOperation(w)
  <2>1. worker[w].pc \in Holding
    BY <1>2 DEF BeginOperation, At, Holding, Executing
  <2>2. PICK op \in {"cloning", "checking", "metadata"} :
          /\ repos' = SetOperation(worker[w].repo, op) /\ Goto(w, op)
          /\ worker[w].kind \in MarkerKind(op)
          /\ op = "cloning" => worker[w].kind = "clone"
    BY <1>2 DEF BeginOperation, Marker, MarkerKind
  <2>3. UNCHANGED <<jobs, lastRepo, lastJob>>
    BY <1>2 DEF BeginOperation
  <2>4. (\A v \in Worker : Follows(v)) /\ BodyFitsKind'
    BY <2>1, <2>2, GotoFollows
  <2> QED BY <2>1, <2>2, <2>3, <2>4, SetOperationSafe
<1>3. CASE CloneStep(w)
  BY <1>3, CloneSafe
<1>4. CASE HealthUnavailable(w)
  <2>1. worker[w].pc \in Holding /\ Report(w, "missing", "failed")
    BY <1>4 DEF HealthUnavailable, At, Holding, Executing
  <2> QED BY <2>1, ReportSafe
<1>5. CASE ApiStep(w)
  BY <1>5, ApiSafe
<1>6. CASE HealthChecked(w) \/ Interrupted(w) \/ Throw(w)
  <2>1. worker[w].pc \in Holding
    BY <1>6 DEF HealthChecked, Interrupted, Throw, AtApi, At, Holding, Executing
  <2>2. UNCHANGED tables /\ ((\E outcome : Return(w, outcome)) \/ Goto(w, "catch"))
    BY <1>6 DEF HealthChecked, Interrupted, Throw
  <2>3. SameTables
    BY <2>2 DEF SameTables, tables
  <2> QED BY <2>1, <2>2, <2>3, QuietSafe
<1> QED BY <1>1, <1>2, <1>3, <1>4, <1>5, <1>6 DEF BodyStep, HealthStep

LEMMA WorkerSafe ==
    ASSUME TypeOK, Safety, NEW w \in Worker, WorkerStep(w)
    PROVE  Safety'
<1>1. CASE Exit(w)
  <2>1. UNCHANGED tables /\ worker' = [worker EXCEPT ![w] = Free("exited")]
    BY <1>1 DEF Exit
  <2>2. SameTables
    BY <2>1 DEF SameTables, tables
  <2>3. (\A v \in Worker : Follows(v)) /\ BodyFitsKind'
    BY <2>1, FreeFollows
  <2> QED BY <2>2, <2>3, SameTablesSafe
<1>2. CASE ClaimNextJob(w)
  BY <1>2, ClaimSafe
<1>3. CASE BodyStep(w)
  BY <1>3, BodySafe
<1>4. CASE Settle(w)
  <2>1. worker[w].pc \in Holding /\ worker[w].pc = "done"
    BY <1>4 DEF Settle, At, Holding
  <2>2. /\ NextIteration(w) /\ UNCHANGED <<lastRepo, lastJob>>
        /\ \/ FinishJob(worker[w].id, worker[w].result)
              /\ worker[w].result \notin {"requeue", "delay"}
           \/ RequeueJob(worker[w].id, worker[w].result = "requeue")
    BY <1>4 DEF Settle
  <2>3. worker[w].result \notin {"requeue", "delay"} => worker[w].result \in Terminal
    <3>1. worker[w] \in WorkerRow /\ worker[w].result # "none"
      BY <2>1 DEF TypeOK
    <3>2. worker[w].result \in Result
      BY <3>1 DEF WorkerRow
    <3> QED BY <3>1, <3>2 DEF Result, Terminal
  <2>4. (worker[w].result = "requeue") \in BOOLEAN
    OBVIOUS
  <2> QED BY <2>1, <2>2, <2>3, <2>4, EndSafe
<1>5. CASE Recover(w)
  <2>1. worker[w].pc \in Holding
    BY <1>5 DEF Recover, At, Holding
  <2>2. /\ NextIteration(w) /\ UNCHANGED <<lastRepo, lastJob>>
        /\ \/ FinishJob(worker[w].id, "failed")
           \/ RequeueJob(worker[w].id, FALSE)
    BY <1>5 DEF Recover
  <2>3. "failed" \in Terminal
    BY DEF Terminal
  <2> QED BY <2>1, <2>2, <2>3, EndSafe
<1>6. CASE SettleThrows(w) \/ RecoverThrows(w)
  <2>1. worker[w].pc \in Holding
    BY <1>6 DEF SettleThrows, RecoverThrows, At, Holding
  <2>2. UNCHANGED tables /\ (Goto(w, "catch") \/ NextIteration(w))
    BY <1>6 DEF SettleThrows, RecoverThrows
  <2>3. SameTables
    BY <2>2 DEF SameTables, tables
  <2> QED BY <2>1, <2>2, <2>3, QuietSafe
<1> QED BY <1>1, <1>2, <1>3, <1>4, <1>5, <1>6 DEF WorkerStep

LEMMA ProcessSafe ==
    ASSUME TypeOK, Safety, Process
    PROVE  Safety'
<1>1. CASE RequestShutdown
  <2>1. SameTables /\ UNCHANGED worker
    BY <1>1 DEF RequestShutdown, SameTables, tables
  <2> QED BY <2>1, QuietSafe
<1>2. CASE StopCleanly \/ Crash
  <2>1. SameTables
    BY <1>2 DEF StopCleanly, Crash, Down, SameTables, tables
  <2>2. \A v \in Worker : worker'[v].pc = "exited"
    BY <1>2 DEF StopCleanly, Crash, Down, Free
  <2>3. (\A v \in Worker : Follows(v)) /\ BodyFitsKind'
    BY <2>2 DEF Follows, BodyFitsKind, Holding, Executing
  <2> QED BY <2>1, <2>3, SameTablesSafe
<1>3. CASE Start
  <2>1. UNCHANGED <<lastRepo, lastJob>> /\ \A v \in Worker : worker'[v].pc = "poll"
    BY <1>3 DEF Start, Free
  <2>2. /\ DOMAIN jobs' \subseteq DOMAIN jobs
        /\ \A j \in DOMAIN jobs' :
             /\ SameJob(j)
             /\ \/ jobs'[j].status = "queued" /\ jobs[j].status = "running"
                \/ jobs'[j].status = jobs[j].status /\ jobs[j].status # "running"
    <3>1. \A j \in DOMAIN jobs : jobs[j] \in JobRow
      BY DEF TypeOK
    <3>2. PICK kept : kept = Prune(jobs)
      OBVIOUS
    <3>3. DOMAIN kept \subseteq DOMAIN jobs /\ \A j \in DOMAIN kept : kept[j] = jobs[j]
      BY <3>2 DEF Prune
    <3>4. /\ DOMAIN jobs' = DOMAIN kept
          /\ \A j \in DOMAIN kept :
               \/ /\ jobs'[j] = [kept[j] EXCEPT !.status = "queued"]
                  /\ kept[j].status = "running"
               \/ jobs'[j] = kept[j] /\ kept[j].status # "running"
      BY <1>3, <3>2 DEF Start, RecoverInterruptedJobs, Requeued
    <3> QED BY <3>1, <3>3, <3>4 DEF JobRow, SameJob
  <2>3. /\ DOMAIN repos' = DOMAIN repos
        /\ \A r \in DOMAIN repos : repos'[r].url = repos[r].url /\ repos'[r].operation = ""
    <3>1. \A r \in DOMAIN repos : repos[r] \in RepoRow
      BY DEF TypeOK
    <3> QED BY <1>3, <3>1 DEF Start, RecoverInterruptedJobs, RepoRow
  <2>4. JobsShrink
    BY <2>2, <2>3 DEF JobsShrink, Active
  <2>5. OneRunningPerRepo' /\ OneActivePerKind' /\ ForeignKeys'
    BY <2>4, JobsShrinkSafe DEF Safety
  <2>6. OperationHasJob' /\ UrlsAreUnique'
    BY <2>3 DEF OperationHasJob, Safety, UrlsAreUnique
  <2>7. ClaimIsExclusive' /\ ClaimIsPast' /\ BodyFitsKind'
    BY <2>1 DEF ClaimIsExclusive, ClaimIsPast, BodyFitsKind, Holding, Executing
  <2> QED BY <2>5, <2>6, <2>7 DEF Safety
<1> QED BY <1>1, <1>2, <1>3 DEF Process

LEMMA ElapseSafe ==
    ASSUME TypeOK, Safety, NEW j \in JobId, Elapse(j)
    PROVE  Safety'
<1>1. DOMAIN jobs' = DOMAIN jobs /\ UNCHANGED <<repos, lastRepo, lastJob, worker>>
  BY DEF Elapse
<1>2. \A k \in DOMAIN jobs : SameJob(k) /\ jobs'[k].status = jobs[k].status
  <2> TAKE k \in DOMAIN jobs
  <2>1. jobs[k] \in JobRow
    BY DEF TypeOK
  <2>2. jobs'[k] = jobs[k] \/ jobs'[k] = [jobs[k] EXCEPT !.due = TRUE]
    BY DEF Elapse
  <2> QED BY <2>1, <2>2 DEF JobRow, SameJob
<1>3. (\A v \in Worker : Follows(v)) /\ BodyFitsKind'
  BY <1>1, StayFollows
<1> QED BY <1>1, <1>2, <1>3, DueSafe

-----------------------------------------------------------------------------
LEMMA InitSafe == Init => Safety
<1> SUFFICES ASSUME Init PROVE Safety
  OBVIOUS
<1>1. DOMAIN repos = {} /\ DOMAIN jobs = {} /\ \A w \in Worker : worker[w].pc = "poll"
  BY DEF Init, Free
<1>2. "poll" \notin Holding
  BY DEF Holding, Executing
<1>3. OneRunningPerRepo /\ OneActivePerKind /\ OperationHasJob /\ UrlsAreUnique /\ ForeignKeys
  BY <1>1 DEF OneRunningPerRepo, OneActivePerKind, OperationHasJob, UrlsAreUnique, ForeignKeys
<1>4. ClaimIsExclusive /\ ClaimIsPast /\ BodyFitsKind
  BY <1>1, <1>2 DEF ClaimIsExclusive, ClaimIsPast, BodyFitsKind
<1> QED BY <1>3, <1>4 DEF Safety

LEMMA StepSafe == TypeOK /\ TypeOK' /\ Safety /\ [Next]_vars => Safety'
<1> SUFFICES ASSUME TypeOK, TypeOK', Safety, [Next]_vars
             PROVE  Safety'
  OBVIOUS
<1>1. CASE Handler
  BY <1>1, HandlerSafe
<1>2. CASE \E w \in Worker : WorkerStep(w)
  BY <1>2, WorkerSafe
<1>3. CASE \E j \in JobId : Elapse(j)
  BY <1>3, ElapseSafe
<1>4. CASE Process
  BY <1>4, ProcessSafe
<1>5. CASE UNCHANGED vars
  <2>1. SameTables /\ UNCHANGED worker
    BY <1>5 DEF vars, SameTables
  <2> QED BY <2>1, QuietSafe
<1> QED BY <1>1, <1>2, <1>3, <1>4, <1>5 DEF Next

(* Mutual exclusion per repository, de-duplication, exclusive claims,      *)
(* truthful operation markers and unique URLs, whatever requests, retries, *)
(* deletions, crashes and restarts come, for any number of workers.        *)
THEOREM SafetyHolds == Spec => []Safety
BY InitSafe, StepSafe, TypeCorrect, PTL DEF Spec

(* claim_next_job never lets two jobs of one repository run.               *)
THEOREM MutualExclusion == Spec => []OneRunningPerRepo
<1>1. Safety => OneRunningPerRepo
  BY DEF Safety
<1> QED BY <1>1, SafetyHolds, PTL

(* enqueue_job_locked never lets a second job of a kind become active.     *)
THEOREM NoDuplicates == Spec => []OneActivePerKind
<1>1. Safety => OneActivePerKind
  BY DEF Safety
<1> QED BY <1>1, SafetyHolds, PTL

(* What finish_job and requeue_job update is the job the worker claimed.   *)
THEOREM ClaimsAreExclusive == Spec => []ClaimIsExclusive
<1>1. Safety => ClaimIsExclusive
  BY DEF Safety
<1> QED BY <1>1, SafetyHolds, PTL

(* No operation marker survives the job that set it.                       *)
THEOREM MarkersAreTrue == Spec => []OperationHasJob
<1>1. Safety => OperationHasJob
  BY DEF Safety
<1> QED BY <1>1, SafetyHolds, PTL
=============================================================================
