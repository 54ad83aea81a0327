------------------------------ MODULE GitHubSync ------------------------------
(***************************************************************************)
(* Metadata and account jobs and the GitHub API: one request at a time,    *)
(* answers with rate limits, failures and pages, the waits they cause in   *)
(* the job table, the walk over the pages of a listing that changes        *)
(* meanwhile, and what is stored of it.                                    *)
(*                                                                         *)
(* There is always a free worker for a job that is due; how workers share  *)
(* the queue is module JobQueue.  Time is relative: wait, limit and told   *)
(* count down together.  The texts of a release or a repository are one    *)
(* value, its id.  Metadata jobs are those of repositories on GitHub: one  *)
(* of a repository elsewhere fails before it asks or writes anything.      *)
(***************************************************************************)
EXTENDS Integers, FiniteSets, Sequences

CONSTANTS
    Job,          \* ids of the jobs
    Kind,         \* [Job -> {"metadata", "account"}]
    Item,         \* what GitHub may list for a job: [Job -> set of ids]
    NoOne,        \* nobody uses the API
    PageSize,     \* per_page (100 in the code)
    MaxPages,     \* kGitHubMaxPaginationPages (1000)
    ThrowLimit,   \* exceptions are retried up to this attempt (3)
    ThrowDelay,   \* ... after this time (5 s)
    RetryLimit,   \* transient failures are retried up to this attempt (5)
    Base,         \* ... after Base * 1, 2, 4, ... (30 s)
    Fallback,     \* kGitHubFallbackBackoffSeconds (15 min)
    Margin,       \* added to the reset time (5 s)
    MinDelay,     \* shortest delay (5 s)
    MaxDelay,     \* longest delay (24 h)
    Spread,       \* jitter is id % Spread (30)
    MaxLimit,     \* bound: the longest rate limit
    MaxLimits,    \* bound: how many times GitHub limits the address
    MaxChanges,   \* bound: changes of a listing during one walk
    MaxStops      \* bound: shutdowns and crashes

ASSUME JobAssumption  == Job \subseteq Nat /\ NoOne \notin Job
ASSUME KindAssumption == Kind \in [Job -> {"metadata", "account"}]
ASSUME PageAssumption == PageSize \in Nat \ {0} /\ MaxPages \in Nat \ {0}
ASSUME RetryAssumption == /\ ThrowLimit \in Nat /\ RetryLimit \in 1..6
                          /\ ThrowLimit <= RetryLimit
                          /\ ThrowDelay \in Nat /\ Base \in Nat
ASSUME DelayAssumption == /\ Fallback \in Nat /\ Margin \in Nat /\ Spread \in Nat \ {0}
                          /\ MinDelay \in Nat /\ MaxDelay \in Nat
                          /\ MinDelay <= Fallback /\ Fallback <= MaxDelay
ASSUME BoundAssumption == /\ MaxLimit \in Nat /\ MaxLimits \in Nat
                          /\ MaxChanges \in Nat /\ MaxStops \in Nat

VARIABLES
    job,          \* the rows of the jobs
    work,         \* the worker that runs a job, while one does
    api,          \* who holds github_api_request_mutex_
    status,       \* metadata_status of the job's repository
    stored,       \* the releases, or the account's repositories, in the database
    stopping,     \* shutdown_requested_
    limit,        \* GitHub: time until the address may ask again
    limits, stops,
    told          \* history: how long a queued job has been told to wait

vars == <<job, work, api, status, stored, stopping, limit, limits, stops, told>>
github == <<limit, limits>>

Least(a, b) == IF a <= b THEN a ELSE b
Most(a, b)  == IF a >= b THEN a ELSE b
Items(s) == {s[i] : i \in DOMAIN s}

-----------------------------------------------------------------------------
(* What GitHub answers, and what the client makes of it.  A reply has the  *)
(* exit code of curl, the HTTP status and the headers that could be read;  *)
(* limited says whether GitHub answered so because of a limit.             *)

Reply(curl, code) ==
    [curl |-> curl, large |-> FALSE, code |-> code, remaining |-> 1, reset |-> 0,
     retry |-> 0, says |-> FALSE, limited |-> FALSE]

(* The forms of a limit: a quota that is used up, with its reset time, or a *)
(* secondary limit, with Retry-After, with a text or with status 429 only. *)
LimitReplies ==
    LET Limited(code) == [Reply(0, code) EXCEPT !.limited = TRUE]
    IN  {[Limited(403) EXCEPT !.remaining = 0, !.reset = limit],
         [Limited(429) EXCEPT !.remaining = 0, !.reset = limit],
         [Limited(403) EXCEPT !.retry = limit],
         [Limited(403) EXCEPT !.says = TRUE],
         Limited(429)}

FailureReplies ==
    {Reply(28, 0), Reply(0, 502), Reply(0, 403), Reply(0, 404),
     [Reply(63, 200) EXCEPT !.large = TRUE]}

RateLimitedWithoutText(r) ==
    \/ r.code = 429
    \/ r.code = 403 /\ (r.remaining = 0 \/ r.retry > 0)
IsRateLimited(r) ==
    \/ r.code = 429
    \/ r.code = 403 /\ (r.remaining = 0 \/ r.retry > 0 \/ r.says)

IsTransient(r) == ~r.large /\ (r.curl # 0 \/ r.code \in {500, 502, 503, 504})

Clamp(d) == Most(MinDelay, Least(MaxDelay, d))

RateLimitBackoff(r, j) ==
    Clamp((IF r.retry > 0 THEN r.retry
           ELSE IF r.reset > 0 THEN r.reset + Margin
           ELSE Fallback) + (j % Spread))

Doubled == <<1, 2, 4, 8, 16>>
TransientBackoff(j) ==
    Base * Doubled[Most(1, Least(5, job[j].attempts))] + (j % Spread)

(* How long the answer asks every client of the address to wait; without a *)
(* header, the wait that the code takes to be safe.                        *)
Promise(r) == Least(MaxDelay, IF r.retry > 0 THEN r.retry
                              ELSE IF r.reset > 0 THEN r.reset ELSE Fallback)

-----------------------------------------------------------------------------
(* listing is what GitHub lists now, of interest from the first page to    *)
(* the last; steady, spotted and slipped are history: what has been listed *)
(* all the time, and at some time, since the first page was read, and what *)
(* a withdrawal moved from a page to come onto one that had been read.     *)
Idle == [pc |-> "none", page |-> 0, got |-> {}, twice |-> FALSE, link |-> 0,
         mark |-> "unknown", result |-> "none", delay |-> 0, promise |-> 0, cause |-> "none",
         listing |-> << >>, changes |-> 0, steady |-> {}, spotted |-> {}, slipped |-> {}]
Row(state, wait, attempts, error) ==
    [state |-> state, wait |-> wait, attempts |-> attempts, error |-> error]

Init == /\ job = [j \in Job |-> Row("absent", 0, 0, "none")]
        /\ work = [j \in Job |-> Idle]
        /\ api = NoOne
        /\ status = [j \in Job |-> "unknown"]
        /\ stored = [j \in Job |-> {}]
        /\ stopping = FALSE
        /\ limit = 0 /\ limits = 0 /\ stops = 0
        /\ told = [j \in Job |-> 0]

-----------------------------------------------------------------------------
(* GitHub, and time.                                                       *)

InsertedAt(l, i, x) ==
    [n \in 1..(Len(l) + 1) |-> IF n <= i THEN l[n] ELSE IF n = i + 1 THEN x ELSE l[n - 1]]
Without(l, i) == [n \in 1..(Len(l) - 1) |-> IF n < i THEN l[n] ELSE l[n + 1]]

Listings(j) == {l \in UNION {[1..n -> Item[j]] : n \in 0..Cardinality(Item[j])} :
                    \A m, n \in DOMAIN l : l[m] = l[n] => m = n}

Publish(j) ==
    /\ work[j].page > 1 /\ work[j].changes < MaxChanges
    /\ \E x \in Item[j] \ Items(work[j].listing), i \in 0..Len(work[j].listing) :
          work' = [work EXCEPT ![j].listing = InsertedAt(@, i, x),
                               ![j].spotted = @ \cup {x}, ![j].changes = @ + 1]
    /\ UNCHANGED <<job, api, status, stored, stopping, github, stops, told>>

(* What follows a withdrawn place moves up by one: of the pages to come,   *)
(* the first place goes to the last page read if that page, or one before  *)
(* it, lost an item.                                                       *)
PagesRead(w) == IF w.pc \in {"ask", "flight"} THEN w.page - 1 ELSE w.page
Slips(l, n, i) == {l[k] : k \in {m \in DOMAIN l : i < m /\ m = n * PageSize + 1}}

Withdraw(j) ==
    /\ work[j].page > 1 /\ work[j].changes < MaxChanges
    /\ \E i \in DOMAIN work[j].listing :
          LET l == work[j].listing
          IN  work' = [work EXCEPT ![j].listing = Without(l, i),
                                   ![j].steady  = @ \ {l[i]},
                                   ![j].slipped = @ \cup Slips(l, PagesRead(work[j]), i),
                                   ![j].changes = @ + 1]
    /\ UNCHANGED <<job, api, status, stored, stopping, github, stops, told>>

Limit ==
    /\ limit = 0
    /\ limits < MaxLimits
    /\ limit' \in 1..MaxLimit
    /\ limits' = limits + 1
    /\ UNCHANGED <<job, work, api, status, stored, stopping, stops, told>>

Tick ==
    /\ limit > 0 \/ \E j \in Job : job[j].wait > 0
    /\ limit' = Most(0, limit - 1)
    /\ job' = [j \in Job |-> [job[j] EXCEPT !.wait = Most(0, @ - 1)]]
    /\ told' = [j \in Job |-> Most(0, told[j] - 1)]
    /\ UNCHANGED <<work, api, status, stored, stopping, limits, stops>>

-----------------------------------------------------------------------------
(* The worker loop around a job: claim, end, requeue, recover.             *)

At(j, pc) == work[j].pc = pc

Enqueue(j) ==
    /\ job[j].state \notin {"queued", "running"}
    /\ job' = [job EXCEPT ![j] = Row("queued", 0, 0, "none")]
    /\ told' = [told EXCEPT ![j] = 0]
    /\ UNCHANGED <<work, api, status, stored, stopping, github, stops>>

Claim(j) ==
    /\ ~stopping
    /\ job[j].state = "queued" /\ job[j].wait = 0
    /\ job' = [job EXCEPT ![j].state = "running",
                          ![j].attempts = Least(RetryLimit, @ + 1)]
    /\ work' = [work EXCEPT ![j] =
                    [Idle EXCEPT !.pc = "ask",
                                 !.page = IF Kind[j] = "account" THEN 1 ELSE 0]]
    /\ told' = [told EXCEPT ![j] = 0]
    /\ UNCHANGED <<api, status, stored, stopping, github, stops>>

(* The row gets its new state and the worker forgets the job.  How many    *)
(* attempts a finished job took is not kept.                               *)
Ends(j, row, wait) ==
    /\ job' = [job EXCEPT ![j] = row]
    /\ work' = [work EXCEPT ![j] = Idle]
    /\ told' = [told EXCEPT ![j] = wait]
    /\ UNCHANGED <<api, status, stored, stopping, github, stops>>

Settle(j) ==
    /\ At(j, "settle")
    /\ LET w == work[j]
       IN  Ends(j, IF w.result = "requeue"
                   THEN Row("queued", w.delay, job[j].attempts, "none")
                   ELSE Row(w.result, 0, 0, w.cause),
                IF w.result = "requeue" THEN w.promise ELSE 0)

Throw(j) ==
    /\ At(j, "throw")
    /\ Ends(j, IF job[j].attempts >= ThrowLimit
               THEN Row("failed", 0, 0, "exception")
               ELSE Row("queued", ThrowDelay, job[j].attempts, "none"), 0)

-----------------------------------------------------------------------------
(* github_api_get.                                                         *)

Returns(result) == [Idle EXCEPT !.pc = "settle", !.result = result]
FailsUnmarked(cause) ==
    [Idle EXCEPT !.pc = "settle", !.result = "failed", !.cause = cause]
Fails(cause) ==
    [Idle EXCEPT !.pc = "mark", !.mark = "error", !.result = "failed", !.cause = cause]
Delays(delay, promise) ==
    [Idle EXCEPT !.pc = "delay", !.mark = "rate-limited", !.result = "requeue",
                 !.delay = delay, !.promise = promise]
Retries(delay) ==
    [Idle EXCEPT !.pc = "mark", !.mark = "error", !.result = "requeue", !.delay = delay]

Send(j) ==
    /\ At(j, "ask")
    /\ api = NoOne
    /\ IF stopping
       THEN work' = [work EXCEPT ![j] = Returns("requeue")] /\ UNCHANGED api
       ELSE work' = [work EXCEPT ![j].pc = "flight"] /\ api' = j
    /\ UNCHANGED <<job, status, stored, stopping, github, stops, told>>

(* The shutdown ends the running curl.                                     *)
Interrupted(j) ==
    /\ At(j, "flight")
    /\ stopping
    /\ api' = NoOne
    /\ work' = [work EXCEPT ![j] = Returns("requeue")]
    /\ UNCHANGED <<job, status, stored, stopping, github, stops, told>>

(* A reply that is not a page.                                             *)
Cause(r) == IF r.limited THEN "limit" ELSE "api"
AfterRefusalUncounted(j, r) ==
    IF IsRateLimited(r) THEN Delays(RateLimitBackoff(r, j), Promise(r))
    ELSE IF IsTransient(r) THEN Retries(TransientBackoff(j))
    ELSE Fails(Cause(r))
AfterRefusal(j, r) ==
    IF IsRateLimited(r) THEN Delays(RateLimitBackoff(r, j), Promise(r))
    ELSE IF IsTransient(r) /\ job[j].attempts < RetryLimit
    THEN Retries(TransientBackoff(j))
    ELSE Fails(Cause(r))

Refuse(j) ==
    /\ At(j, "flight")
    /\ api' = NoOne
    /\ \E r \in IF limit > 0 THEN LimitReplies \cup {Reply(28, 0)} ELSE FailureReplies :
          work' = [work EXCEPT ![j] = AfterRefusal(j, r)]
    /\ UNCHANGED <<job, status, stored, stopping, github, stops, told>>

(* A body that is not the JSON it should be, or too many releases.         *)
Garble(j) ==
    /\ At(j, "flight")
    /\ limit = 0
    /\ api' = NoOne
    /\ work' = [work EXCEPT ![j] = Fails("api")]
    /\ UNCHANGED <<job, status, stored, stopping, github, stops, told>>

-----------------------------------------------------------------------------
(* The description of the repository, and the walk over the pages.         *)

Described(j) ==
    /\ At(j, "flight") /\ work[j].page = 0
    /\ limit = 0
    /\ api' = NoOne
    /\ work' = [work EXCEPT ![j].pc = "describe"]
    /\ UNCHANGED <<job, status, stored, stopping, github, stops, told>>

(* update_github_metadata                                                  *)
Describe(j) ==
    /\ At(j, "describe")
    /\ status' = [status EXCEPT ![j] = "ready"]
    /\ work' = [work EXCEPT ![j].pc = "ask", ![j].page = 1]
    /\ UNCHANGED <<job, api, stored, stopping, github, stops, told>>

Page(l, n) == {l[i] : i \in {k \in DOMAIN l : (n - 1) * PageSize < k /\ k <= n * PageSize}}

(* The Link header: the next page, none, a page that was there before, or  *)
(* an address that is not GitHub's.                                        *)
NoLink == 0
Unsafe == -1
Links(l, n) ==
    (IF n * PageSize < Len(l) THEN {n + 1} ELSE {NoLink}) \cup (1..n) \cup {Unsafe}

(* The pages that were visited are 1..w.page.                              *)
Visited(w, link) == link \in 1..w.page

(* The loop's next iteration, or its end.                                  *)
FollowUntilUnsafe(j, w, link) ==
    IF link \in {NoLink, Unsafe}
    THEN IF Kind[j] = "metadata" THEN [w EXCEPT !.pc = "replace"] ELSE Returns("success")
    ELSE IF w.page + 1 > MaxPages \/ Visited(w, link) THEN Fails("api")
    ELSE [w EXCEPT !.pc = "ask", !.page = link]
Follow(j, w, link) ==
    IF link = Unsafe THEN Fails("api")
    ELSE IF link = NoLink
         THEN IF Kind[j] = "metadata" THEN [w EXCEPT !.pc = "replace"]
                                      ELSE Returns("success")
    ELSE IF w.page + 1 > MaxPages \/ Visited(w, link) THEN Fails("api")
    ELSE [w EXCEPT !.pc = "ask", !.page = link]

Listed(j) ==
    /\ At(j, "flight") /\ work[j].page > 0
    /\ limit = 0
    /\ api' = NoOne
    /\ \E l \in IF work[j].page = 1 THEN Listings(j) ELSE {work[j].listing} :
       \E link \in Links(l, work[j].page) :
         LET page == Page(l, work[j].page)
             begun == [work[j] EXCEPT !.listing = l,
                          !.steady  = IF work[j].page = 1 THEN Items(l) ELSE @,
                          !.spotted = IF work[j].page = 1 THEN Items(l) ELSE @]
         IN  work' = [work EXCEPT ![j] =
                 IF Kind[j] = "metadata"
                 THEN Follow(j, [begun EXCEPT !.got = @ \cup page,
                                     !.twice = @ \/ (page \cap work[j].got # {})], link)
                 ELSE [begun EXCEPT !.pc = "import", !.got = page, !.link = link]]
    /\ UNCHANGED <<job, status, stored, stopping, github, stops, told>>

(* import_repositories: one transaction for a page.                        *)
Import(j) ==
    /\ At(j, "import")
    /\ stored' = [stored EXCEPT ![j] = @ \cup work[j].got]
    /\ work' = [work EXCEPT ![j] = Follow(j, @, @.link)]
    /\ UNCHANGED <<job, api, status, stopping, github, stops, told>>

(* replace_releases: a release that was on two pages breaks the primary    *)
(* key, and the transaction is rolled back.                                *)
ReplaceMerging(j) ==
    /\ At(j, "replace")
    /\ stored' = [stored EXCEPT ![j] = @ \cup work[j].got]
    /\ work' = [work EXCEPT ![j] = Returns("success")]
    /\ UNCHANGED <<job, api, status, stopping, github, stops, told>>
Replace(j) ==
    /\ At(j, "replace")
    /\ IF work[j].twice
       THEN work' = [work EXCEPT ![j].pc = "throw"] /\ UNCHANGED stored
       ELSE /\ stored' = [stored EXCEPT ![j] = work[j].got]
            /\ work' = [work EXCEPT ![j] = Returns("success")]
    /\ UNCHANGED <<job, api, status, stopping, github, stops, told>>

-----------------------------------------------------------------------------
(* What a refusal writes: the waits of the queued jobs, then the status.   *)

DelayOverwriting(j) ==
    /\ At(j, "delay")
    /\ job' = [k \in Job |-> IF job[k].state = "queued"
                             THEN [job[k] EXCEPT !.wait = work[j].delay] ELSE job[k]]
    /\ told' = [k \in Job |-> IF job[k].state = "queued"
                              THEN Most(told[k], work[j].promise) ELSE told[k]]
    /\ work' = [work EXCEPT ![j].pc = "mark"]
    /\ UNCHANGED <<api, status, stored, stopping, github, stops>>
DelayPending(j) ==
    /\ At(j, "delay")
    /\ job' = [k \in Job |-> IF job[k].state = "queued"
                             THEN [job[k] EXCEPT !.wait = Most(@, work[j].delay)]
                             ELSE job[k]]
    /\ told' = [k \in Job |-> IF job[k].state = "queued"
                              THEN Most(told[k], work[j].promise) ELSE told[k]]
    /\ work' = [work EXCEPT ![j].pc = "mark"]
    /\ UNCHANGED <<api, status, stored, stopping, github, stops>>

(* update_repository_metadata_status; an account has no such column.       *)
Mark(j) ==
    /\ At(j, "mark")
    /\ status' = [status EXCEPT ![j] =
           IF Kind[j] = "account" THEN @ ELSE work[j].mark]
    /\ work' = [work EXCEPT ![j].pc = "settle"]
    /\ UNCHANGED <<job, api, stored, stopping, github, stops, told>>

-----------------------------------------------------------------------------
(* Shutdown, crash and the next start.                                     *)

Shutdown ==
    /\ ~stopping
    /\ stops < MaxStops
    /\ stopping' = TRUE
    /\ stops' = stops + 1
    /\ UNCHANGED <<job, work, api, status, stored, github, told>>

(* Every worker is joined, and GitCube is started again.                   *)
Restart ==
    /\ stopping
    /\ \A j \in Job : At(j, "none")
    /\ stopping' = FALSE
    /\ UNCHANGED <<job, work, api, status, stored, github, stops, told>>

(* The process dies; recover_interrupted_jobs queues what ran.             *)
Crash ==
    /\ stops < MaxStops
    /\ stops' = stops + 1
    /\ job' = [j \in Job |-> IF job[j].state = "running"
                             THEN [job[j] EXCEPT !.state = "queued"] ELSE job[j]]
    /\ work' = [j \in Job |-> Idle]
    /\ api' = NoOne
    /\ stopping' = FALSE
    /\ UNCHANGED <<status, stored, github, told>>

-----------------------------------------------------------------------------
Worker(j) == \/ Claim(j) \/ Settle(j) \/ Throw(j) \/ Interrupted(j) \/ Refuse(j)
             \/ Garble(j) \/ Described(j) \/ Describe(j) \/ Listed(j) \/ Import(j)
             \/ Replace(j) \/ DelayPending(j) \/ Mark(j)

Next == \/ \E j \in Job : Enqueue(j) \/ Send(j) \/ Worker(j) \/ Publish(j) \/ Withdraw(j)
        \/ Limit \/ Tick \/ Shutdown \/ Restart \/ Crash

Fairness == /\ \A j \in Job : WF_vars(Worker(j)) /\ SF_vars(Send(j))
            /\ WF_vars(Tick) /\ WF_vars(Restart)

Spec     == Init /\ [][Next]_vars
FairSpec == Spec /\ Fairness

-----------------------------------------------------------------------------
(* Properties.                                                             *)

RowType == [state : {"absent", "queued", "running", "success", "failed"},
            wait : Nat, attempts : 0..RetryLimit,
            error : {"none", "api", "limit", "exception"}]
StatusType == {"unknown", "ready", "rate-limited", "error"}
PcType == {"none", "ask", "flight", "describe", "import", "replace", "delay",
           "mark", "settle", "throw"}
WorkType(j) == [pc : PcType, page : Nat, got : SUBSET Item[j], twice : BOOLEAN,
                link : Int, mark : StatusType, result : {"none", "requeue", "success", "failed"},
                delay : Nat, promise : Nat, cause : {"none", "api", "limit"},
                listing : Seq(Item[j]), changes : Nat,
                steady : SUBSET Item[j], spotted : SUBSET Item[j],
                slipped : SUBSET Item[j]]

(* Every variable keeps its type; in particular no wait, delay or page     *)
(* number ever becomes negative.                                           *)
TypeOK ==
    /\ job \in [Job -> RowType]
    /\ \A j \in Job : /\ work[j] \in WorkType(j)
                      /\ stored[j] \in SUBSET Item[j]
    /\ DOMAIN work = Job /\ DOMAIN stored = Job
    /\ api \in Job \cup {NoOne}
    /\ status \in [Job -> StatusType]
    /\ stopping \in BOOLEAN
    /\ limit \in Nat /\ limits \in Nat /\ stops \in Nat
    /\ told \in [Job -> Nat]

(* A job that was queued when GitHub told some other job of a limit, or    *)
(* that was told itself, does not ask again before that time is over: what *)
(* other jobs learn meanwhile, their own retries and a restart never       *)
(* shorten its wait (rate limit backoff, delay_pending_github_jobs).       *)
LimitIsHonoured == \A j \in Job : job[j].state = "queued" => job[j].wait >= told[j]

(* A job never fails because of a rate limit, in whatever form GitHub      *)
(* announces it (is_github_rate_limited).                                  *)
LimitIsNoFailure == \A j \in Job : job[j].error # "limit"

(* A metadata job of a repository on GitHub that failed has left its       *)
(* reason in metadata_status, and one that succeeded has left it ready,    *)
(* although ready is written before the releases are asked for; only an    *)
(* exception may leave it wrong (metadata_repository).                     *)
StatusIsTruthful ==
    \A j \in Job : Kind[j] = "metadata" =>
        /\ job[j].state = "success" => status[j] = "ready"
        /\ job[j].state = "failed" /\ job[j].error # "exception" => status[j] = "error"

(* What a walk owes: all that was listed from its first page to its last,  *)
(* except what a withdrawal moved onto a page that had been read.  The     *)
(* pages that are left do not show that.  A withdrawal costs one item at   *)
(* most, and all that is on the pages to come stays owed.                  *)
Due(w) == w.steady \ w.slipped

(* The releases of a repository are replaced only by a whole walk: by      *)
(* nothing that was not listed during the walk, and without missing        *)
(* anything that was listed all the time, unless a withdrawal moved it     *)
(* onto a page that had been read (replace_releases after the pagination   *)
(* loop).                                                                  *)
ReleasesAreOneWalk ==
    [][\A j \in Job : Kind[j] = "metadata" /\ stored'[j] # stored[j] =>
           stored'[j] \subseteq work[j].spotted /\ Due(work[j]) \subseteq stored'[j]]_vars

(* When an account job ends with success, everything that was listed from  *)
(* its first page to its last is a repository here, unless a withdrawal    *)
(* moved it onto a page that had been read (import_account).               *)
AccountIsComplete ==
    [][\A j \in Job : /\ Kind[j] = "account"
                      /\ work[j].result # "success" /\ work'[j].result = "success"
                      => Due(work[j]) \subseteq stored'[j]]_vars

(* README.md:145: an account import "lists every public repository under   *)
(* that account".  It does not when a repository disappears between two    *)
(* pages: the first one of the next page is then on the page before, is    *)
(* never read, and the job reports success (GitHubShift.cfg).              *)
AccountListsAll ==
    [][\A j \in Job : /\ Kind[j] = "account"
                      /\ work[j].result # "success" /\ work'[j].result = "success"
                      => work[j].steady \subseteq stored'[j]]_vars

(* What the parts above rest on, for a job with its row, its worker w, its *)
(* metadata_status, what is stored of it and how long it was told to wait. *)
LimitFits(row, w, wait) ==
    /\ row.state = "queued" => row.wait >= wait
    /\ row.state # "queued" => wait = 0
    /\ w.delay >= w.promise
    /\ row.error # "limit" /\ w.cause # "limit"

(* A worker has an outcome from the refusal or the last page to its end.   *)
StageFits(row, w) ==
    /\ row.state = "running" <=> w.pc # "none"
    /\ w.pc = "delay" => w.result = "requeue"
    /\ w.pc = "mark" => w.result \in {"requeue", "failed"}
    /\ w.pc = "settle" => w.result # "none"
    /\ w.pc \notin {"mark", "delay", "settle"} => w.result = "none"

StatusFits(row, w, st) ==
    /\ (w.pc \in {"ask", "flight"} /\ w.page > 0) \/ w.pc = "replace" => st = "ready"
    /\ w.pc = "mark" /\ w.result = "failed" => w.mark = "error"
    /\ w.pc = "settle" /\ w.result = "success" => st = "ready"
    /\ w.pc = "settle" /\ w.result = "failed" => st = "error"
    /\ row.state = "success" => st = "ready"
    /\ row.state = "failed" /\ row.error # "exception" => st = "error"

(* What a walk owes has been read, or comes after the pages that were      *)
(* read.                                                                   *)
Rest(l, n) == {l[i] : i \in {k \in DOMAIN l : n * PageSize < k}}
Kept(j, w, here) == IF Kind[j] = "metadata" THEN w.got ELSE here

WalkFits(j, w, here) ==
    /\ Items(w.listing) \subseteq w.spotted /\ w.got \subseteq w.spotted
    /\ w.pc = "describe" => w.page = 0
    /\ w.page = 0 => w.got = {} /\ Due(w) = {}
    /\ w.pc \in {"ask", "flight"} /\ w.page <= 1 => w.got = {}
    /\ w.pc \in {"ask", "flight"} =>
          Due(w) \subseteq Kept(j, w, here) \cup Rest(w.listing, w.page - 1)
    /\ w.pc = "import" =>
          /\ Kind[j] = "account" /\ w.page > 0
          /\ w.link \in {NoLink, Unsafe} \cup (1..(w.page + 1))
          /\ Due(w) \subseteq here \cup w.got \cup Rest(w.listing, w.page)
          /\ w.link = NoLink => Due(w) \subseteq here \cup w.got
    /\ w.pc = "replace" => Kind[j] = "metadata" /\ Due(w) \subseteq w.got

(* The inductive invariant.                                                *)
Fits(j, row, w, st, here, wait) ==
    /\ LimitFits(row, w, wait) /\ StageFits(row, w) /\ WalkFits(j, w, here)
    /\ Kind[j] = "metadata" => StatusFits(row, w, st)
Safety == \A j \in Job : Fits(j, job[j], work[j], status[j], stored[j], told[j])

(* A queued job ends, whatever GitHub answers and however it links its     *)
(* pages, once the limits, shutdowns and crashes are over.                 *)
JobsEnd == \A j \in Job : job[j].state = "queued" ~> job[j].state \in {"success", "failed"}
=============================================================================
