--------------------------- MODULE GitHubSyncProofs ---------------------------
(***************************************************************************)
(* Proofs about module GitHubSync: for any number of jobs, any listings,   *)
(* page size, delays and limits, a rate limit is waited for and fails no   *)
(* job, metadata_status tells the truth, only whole walks are stored, and  *)
(* requests, waits and walks are bounded.                                  *)
(***************************************************************************)
EXTENDS GitHubSync, TLAPS, SequenceTheorems

Inv == TypeOK /\ Safety

-----------------------------------------------------------------------------
(* Numbers and delays.                                                     *)

(* The assumptions on the constants, in one place.                         *)
LEMMA Parameters ==
    /\ Job \subseteq Nat /\ NoOne \notin Job /\ Kind \in [Job -> {"metadata", "account"}]
    /\ PageSize \in Nat /\ PageSize > 0 /\ MaxPages \in Nat /\ MaxPages > 0
    /\ ThrowLimit \in Nat /\ RetryLimit \in 1..6 /\ ThrowDelay \in Nat /\ Base \in Nat
    /\ Fallback \in Nat /\ Margin \in Nat /\ Spread \in Nat /\ Spread > 0
    /\ MinDelay \in Nat /\ MaxDelay \in Nat /\ MinDelay <= Fallback /\ Fallback <= MaxDelay
    /\ MaxLimit \in Nat /\ MaxLimits \in Nat /\ MaxChanges \in Nat /\ MaxStops \in Nat
BY JobAssumption, KindAssumption, PageAssumption, RetryAssumption, DelayAssumption,
   BoundAssumption

LEMMA Bounds ==
    ASSUME NEW a \in Int, NEW b \in Int
    PROVE  /\ Least(a, b) \in Int /\ Least(a, b) <= a /\ Least(a, b) <= b /\ Least(a, b) \in {a, b}
           /\ Most(a, b) \in Int /\ Most(a, b) >= a /\ Most(a, b) >= b /\ Most(a, b) \in {a, b}
BY DEF Least, Most

LEMMA Jitter == ASSUME NEW j \in Job PROVE j % Spread \in Nat
<1>1. j \in Nat /\ Spread \in Nat \ {0}
  BY Parameters
<1> QED BY <1>1

(* A reply has numbers that are none.                                      *)
ReplyFits(r) ==
    /\ r.retry \in Nat /\ r.reset \in Nat
    /\ r.limited => IsRateLimited(r)

(* What an answer tells a worker is within the types.                      *)
LEMMA RepliesFit ==
    ASSUME limit \in Nat,
           NEW r \in IF limit > 0 THEN LimitReplies \cup {Reply(28, 0)} ELSE FailureReplies
    PROVE  ReplyFits(r)
<1>1. CASE limit > 0 /\ r \in LimitReplies
  <2> DEFINE L(code) == [Reply(0, code) EXCEPT !.limited = TRUE]
  <2>1. \A code : Reply(0, code) = [curl |-> 0, large |-> FALSE, code |-> code, remaining |-> 1,
                                   reset |-> 0, retry |-> 0, says |-> FALSE, limited |-> FALSE]
    BY DEF Reply
  <2>2. \/ r = [L(403) EXCEPT !.remaining = 0, !.reset = limit]
        \/ r = [L(429) EXCEPT !.remaining = 0, !.reset = limit]
        \/ r = [L(403) EXCEPT !.retry = limit]
        \/ r = [L(403) EXCEPT !.says = TRUE]
        \/ r = L(429)
    BY <1>1 DEF LimitReplies
  <2>3. CASE r = [L(403) EXCEPT !.remaining = 0, !.reset = limit]
    BY <2>1, <2>3 DEF ReplyFits, IsRateLimited
  <2>4. CASE r = [L(429) EXCEPT !.remaining = 0, !.reset = limit]
    BY <2>1, <2>4 DEF ReplyFits, IsRateLimited
  <2>5. CASE r = [L(403) EXCEPT !.retry = limit]
    BY <1>1, <2>1, <2>5 DEF ReplyFits, IsRateLimited
  <2>6. CASE r = [L(403) EXCEPT !.says = TRUE]
    BY <2>1, <2>6 DEF ReplyFits, IsRateLimited
  <2>7. CASE r = L(429)
    BY <2>1, <2>7 DEF ReplyFits, IsRateLimited
  <2> QED BY <2>2, <2>3, <2>4, <2>5, <2>6, <2>7
<1>2. CASE r = Reply(28, 0)
  BY <1>2 DEF Reply, ReplyFits
<1>3. CASE r \in FailureReplies
  BY <1>3 DEF FailureReplies, Reply, ReplyFits
<1> QED BY <1>1, <1>2, <1>3

(* A backoff is never shorter than what was promised.                      *)
LEMMA BackoffKeepsPromise ==
    ASSUME NEW j \in Job, NEW r, ReplyFits(r)
    PROVE  /\ RateLimitBackoff(r, j) \in Nat /\ Promise(r) \in Nat
           /\ RateLimitBackoff(r, j) >= Promise(r)
<1> DEFINE named == IF r.retry > 0 THEN r.retry
                    ELSE IF r.reset > 0 THEN r.reset ELSE Fallback
           waited == IF r.retry > 0 THEN r.retry
                     ELSE IF r.reset > 0 THEN r.reset + Margin ELSE Fallback
           d == waited + (j % Spread)
<1>1. j % Spread \in Nat
  BY Jitter
<1>2. named \in Nat /\ waited \in Nat /\ waited >= named
  BY Parameters DEF ReplyFits
<1>3. d \in Nat /\ d >= named
  BY <1>1, <1>2
<1>4. RateLimitBackoff(r, j) = Most(MinDelay, Least(MaxDelay, d))
  BY DEF RateLimitBackoff, Clamp
<1>5. Promise(r) = Least(MaxDelay, named)
  BY DEF Promise
<1> HIDE DEF named, d
<1> QED BY <1>2, <1>3, <1>4, <1>5, Parameters DEF Most, Least

LEMMA TransientBackoffIsNat ==
    ASSUME NEW j \in Job, job[j].attempts \in Nat PROVE TransientBackoff(j) \in Nat
<1>1. j % Spread \in Nat
  BY Jitter
<1>2. Most(1, Least(5, job[j].attempts)) \in 1..5
  BY DEF Most, Least
<1>3. Doubled[Most(1, Least(5, job[j].attempts))] \in Nat
  BY <1>2 DEF Doubled
<1> QED BY <1>1, <1>3, Parameters DEF TransientBackoff

-----------------------------------------------------------------------------
(* Listings and pages.                                                     *)

(* Every place of a listing holds an item of the job.                      *)
LEMMA ListingDomain ==
    ASSUME NEW S, NEW l \in Seq(S)
    PROVE  /\ Len(l) \in Nat /\ DOMAIN l = 1..Len(l)
           /\ \A k \in 1..Len(l) : l[k] \in S
           /\ Items(l) \subseteq S
BY DEF Items

(* Something new moves what follows it to later places, never to earlier.  *)
LEMMA InsertedFits ==
    ASSUME NEW S, NEW l \in Seq(S), NEW x \in S, NEW i \in 0..Len(l)
    PROVE  /\ InsertedAt(l, i, x) \in Seq(S)
           /\ Items(InsertedAt(l, i, x)) \subseteq Items(l) \cup {x}
           /\ \A n \in Int : Rest(l, n) \subseteq Rest(InsertedAt(l, i, x), n)
<1> DEFINE m == InsertedAt(l, i, x)
<1>1. Len(l) \in Nat /\ DOMAIN l = 1..Len(l) /\ \A k \in 1..Len(l) : l[k] \in S
  BY ListingDomain
<1>2. m = [n \in 1..(Len(l) + 1) |->
              IF n <= i THEN l[n] ELSE IF n = i + 1 THEN x ELSE l[n - 1]]
  BY DEF InsertedAt
<1>3. DOMAIN m = 1..(Len(l) + 1)
  BY <1>2
<1>4. ASSUME NEW n \in 1..(Len(l) + 1)
      PROVE  m[n] = x \/ \E k \in 1..Len(l) : m[n] = l[k]
  <2>1. CASE n <= i
    <3>1. m[n] = l[n] /\ n \in 1..Len(l)
      BY <1>1, <1>2, <2>1
    <3> QED BY <3>1
  <2>2. CASE n = i + 1
    BY <1>1, <1>2, <2>2
  <2>3. CASE n > i + 1
    <3>1. m[n] = l[n - 1] /\ n - 1 \in 1..Len(l)
      BY <1>1, <1>2, <2>3
    <3> QED BY <3>1
  <2> QED BY <1>1, <2>1, <2>2, <2>3
<1>5. ASSUME NEW k \in 1..Len(l)
      PROVE  \E n \in 1..(Len(l) + 1) : n >= k /\ m[n] = l[k]
  <2>1. CASE k <= i
    <3>1. k \in 1..(Len(l) + 1) /\ m[k] = l[k]
      BY <1>1, <1>2, <2>1
    <3> QED BY <3>1
  <2>2. CASE k > i
    <3>1. k + 1 \in 1..(Len(l) + 1) /\ m[k + 1] = l[k] /\ k + 1 >= k
      BY <1>1, <1>2, <2>2
    <3> QED BY <3>1
  <2> QED BY <1>1, <2>1, <2>2
<1>6. m \in Seq(S)
  <2>1. \A n \in 1..(Len(l) + 1) : m[n] \in S
    BY <1>1, <1>4
  <2>2. m \in [1..(Len(l) + 1) -> S] /\ Len(l) + 1 \in Nat
    BY <1>1, <1>2, <2>1
  <2> QED BY <2>2, SeqDef
<1>7. Items(m) \subseteq Items(l) \cup {x}
  BY <1>1, <1>3, <1>4 DEF Items
<1>8. ASSUME NEW n \in Int PROVE Rest(l, n) \subseteq Rest(m, n)
  <2>1. ASSUME NEW k \in 1..Len(l), n * PageSize < k PROVE l[k] \in Rest(m, n)
    <3>1. PICK q \in 1..(Len(l) + 1) : q >= k /\ m[q] = l[k]
      BY <1>5
    <3>2. n * PageSize \in Int
      BY Parameters
    <3>3. n * PageSize < q
      BY <2>1, <3>1, <3>2
    <3> QED BY <1>3, <3>1, <3>3 DEF Rest
  <2> QED BY <1>1, <2>1 DEF Rest
<1> QED BY <1>6, <1>7, <1>8

(* A withdrawal lists nothing that was not listed, and of what comes after *)
(* the first n pages only two items are gone: the one withdrawn and the    *)
(* one that slipped onto page n.                                           *)
LEMMA WithoutFits ==
    ASSUME NEW S, NEW l \in Seq(S), NEW i \in DOMAIN l
    PROVE  /\ Without(l, i) \in Seq(S) /\ Items(Without(l, i)) \subseteq Items(l)
           /\ \A n \in Int :
                 Rest(l, n) \ ({l[i]} \cup Slips(l, n, i)) \subseteq Rest(Without(l, i), n)
<1> DEFINE m == Without(l, i)
<1>1. Len(l) \in Nat /\ DOMAIN l = 1..Len(l) /\ \A k \in 1..Len(l) : l[k] \in S
  BY ListingDomain
<1>2. m = [n \in 1..(Len(l) - 1) |-> IF n < i THEN l[n] ELSE l[n + 1]]
  BY DEF Without
<1>3. DOMAIN m = 1..(Len(l) - 1) /\ Len(l) - 1 \in Nat
  BY <1>1, <1>2
<1>4. ASSUME NEW n \in 1..(Len(l) - 1) PROVE \E k \in 1..Len(l) : m[n] = l[k]
  <2>1. n \in 1..Len(l) /\ n + 1 \in 1..Len(l) /\ (m[n] = l[n] \/ m[n] = l[n + 1])
    BY <1>1, <1>2
  <2> QED BY <2>1
<1>5. m \in Seq(S)
  <2>1. \A n \in 1..(Len(l) - 1) : m[n] \in S
    BY <1>1, <1>4
  <2>2. m \in [1..(Len(l) - 1) -> S]
    BY <1>2, <2>1
  <2> QED BY <1>3, <2>2, SeqDef
<1>6. Items(m) \subseteq Items(l)
  BY <1>1, <1>3, <1>4 DEF Items
<1>7. ASSUME NEW n \in Int, NEW k \in DOMAIN l, n * PageSize < k,
             l[k] \notin {l[i]} \cup Slips(l, n, i)
      PROVE  l[k] \in Rest(m, n)
  <2>1. n * PageSize \in Int /\ k \in Int /\ i \in Int /\ 1 <= i /\ i <= Len(l) /\ k <= Len(l)
    BY <1>1, Parameters
  <2>2. k # i
    BY <1>7
  <2>3. CASE k < i
    <3>1. k \in DOMAIN m /\ m[k] = l[k]
      BY <1>1, <1>2, <1>3, <2>1, <2>3
    <3> QED BY <1>7, <3>1 DEF Rest
  <2>4. CASE i < k
    <3>1. k - 1 \in DOMAIN m /\ m[k - 1] = l[k]
      BY <1>1, <1>2, <1>3, <2>1, <2>4
    <3>2. k # n * PageSize + 1
      BY <1>7, <2>4 DEF Slips
    <3>3. n * PageSize < k - 1
      BY <1>7, <2>1, <3>2
    <3> QED BY <3>1, <3>3 DEF Rest
  <2> QED BY <2>1, <2>2, <2>3, <2>4
<1>8. \A n \in Int : Rest(l, n) \ ({l[i]} \cup Slips(l, n, i)) \subseteq Rest(m, n)
  BY <1>7 DEF Rest
<1> QED BY <1>5, <1>6, <1>8

(* A page is what the pages before it leave, but for what it leaves.       *)
LEMMA PagesFit ==
    ASSUME NEW S, NEW l \in Seq(S), NEW n \in Int
    PROVE  /\ Page(l, n) \subseteq Items(l)
           /\ Rest(l, n - 1) \subseteq Page(l, n) \cup Rest(l, n)
           /\ Items(l) \subseteq Rest(l, 0)
           /\ ~(n * PageSize < Len(l)) => Rest(l, n) = {}
<1>1. Len(l) \in Nat /\ DOMAIN l = 1..Len(l)
  BY ListingDomain
<1>2. n * PageSize \in Int /\ 0 * PageSize = 0
  BY Parameters
<1>3. Page(l, n) \subseteq Items(l)
  BY DEF Page, Items
<1>4. Rest(l, n - 1) \subseteq Page(l, n) \cup Rest(l, n)
  <2>1. ASSUME NEW k \in DOMAIN l, (n - 1) * PageSize < k
        PROVE  l[k] \in Page(l, n) \cup Rest(l, n)
    <3>1. CASE k <= n * PageSize
      BY <2>1, <3>1 DEF Page
    <3>2. CASE n * PageSize < k
      BY <3>2 DEF Rest
    <3>3. k \in Int
      BY <1>1
    <3> QED BY <1>2, <3>1, <3>2, <3>3
  <2> QED BY <2>1 DEF Rest
<1>5. Items(l) \subseteq Rest(l, 0)
  <2>1. \A k \in DOMAIN l : 0 * PageSize < k
    BY <1>1, <1>2
  <2> QED BY <2>1 DEF Items, Rest
<1>6. ASSUME ~(n * PageSize < Len(l)) PROVE Rest(l, n) = {}
  <2>1. \A k \in DOMAIN l : ~(n * PageSize < k)
    BY <1>1, <1>2, <1>6
  <2> QED BY <2>1 DEF Rest
<1> QED BY <1>3, <1>4, <1>5, <1>6

-----------------------------------------------------------------------------
(* The records of a worker.                                                *)

(* The worker of a job that nobody works on.                               *)
LEMMA IdleFits ==
    ASSUME NEW j \in Job
    PROVE  /\ Idle \in WorkType(j)
           /\ Idle.pc = "none" /\ Idle.page = 0 /\ Idle.got = {} /\ Idle.listing = << >>
           /\ Due(Idle) = {} /\ Idle.result = "none" /\ Idle.cause = "none"
           /\ Idle.delay = 0 /\ Idle.promise = 0
<1>1. << >> \in Seq(Item[j])
  OBVIOUS
<1>2. "none" \in PcType /\ "unknown" \in StatusType
  BY DEF PcType, StatusType
<1> QED BY <1>1, <1>2 DEF Idle, WorkType, Due

(* A worker that has read nothing that counts.                             *)
Fresh(w) == w.page = 0 /\ w.got = {} /\ w.listing = << >> /\ Due(w) = {}

LEMMA FreshFits ==
    ASSUME NEW j \in Job, NEW w \in WorkType(j), NEW here, w.got = {}, w.listing = << >>,
           Due(w) = {}, w.pc \notin {"import", "replace", "describe"}
    PROVE  WalkFits(j, w, here)
<1>1. Items(w.listing) = {}
  BY DEF Items
<1> QED BY <1>1 DEF WalkFits

(* What a request may end with.                                            *)
LEMMA EndsFit ==
    ASSUME NEW j \in Job, NEW delay \in Nat, NEW promise \in Nat
    PROVE  /\ LET w == Delays(delay, promise)
              IN  /\ w \in WorkType(j) /\ Fresh(w) /\ w.pc = "delay" /\ w.result = "requeue"
                  /\ w.delay = delay /\ w.promise = promise /\ w.cause = "none"
           /\ LET w == Retries(delay)
              IN  /\ w \in WorkType(j) /\ Fresh(w) /\ w.pc = "mark" /\ w.result = "requeue"
                  /\ w.delay = delay /\ w.promise = 0 /\ w.cause = "none"
           /\ LET w == Fails("api")
              IN  /\ w \in WorkType(j) /\ Fresh(w) /\ w.pc = "mark" /\ w.result = "failed"
                  /\ w.delay = 0 /\ w.promise = 0 /\ w.cause = "api" /\ w.mark = "error"
           /\ \A result \in {"requeue", "success"} :
              LET w == Returns(result)
              IN  /\ w \in WorkType(j) /\ Fresh(w) /\ w.pc = "settle" /\ w.result = result
                  /\ w.delay = 0 /\ w.promise = 0 /\ w.cause = "none"
<1>1. /\ Idle \in WorkType(j) /\ Idle.page = 0 /\ Idle.got = {} /\ Idle.listing = << >>
      /\ Due(Idle) = {} /\ Idle.cause = "none" /\ Idle.delay = 0 /\ Idle.promise = 0
  BY IdleFits
<1> USE DEF PcType, StatusType
<1>2. LET w == Delays(delay, promise)
      IN  /\ w \in WorkType(j) /\ Fresh(w) /\ w.pc = "delay" /\ w.result = "requeue"
          /\ w.delay = delay /\ w.promise = promise /\ w.cause = "none"
  BY <1>1 DEF Delays, WorkType, Fresh, Due
<1>3. LET w == Retries(delay)
      IN  /\ w \in WorkType(j) /\ Fresh(w) /\ w.pc = "mark" /\ w.result = "requeue"
          /\ w.delay = delay /\ w.promise = 0 /\ w.cause = "none"
  BY <1>1 DEF Retries, WorkType, Fresh, Due
<1>4. LET w == Fails("api")
      IN  /\ w \in WorkType(j) /\ Fresh(w) /\ w.pc = "mark" /\ w.result = "failed"
          /\ w.delay = 0 /\ w.promise = 0 /\ w.cause = "api" /\ w.mark = "error"
  BY <1>1 DEF Fails, WorkType, Fresh, Due
<1>5. ASSUME NEW result \in {"requeue", "success"}
      PROVE  LET w == Returns(result)
             IN  /\ w \in WorkType(j) /\ Fresh(w) /\ w.pc = "settle" /\ w.result = result
                 /\ w.delay = 0 /\ w.promise = 0 /\ w.cause = "none"
  BY <1>1 DEF Returns, WorkType, Fresh, Due
<1> QED BY <1>2, <1>3, <1>4, <1>5

(* A worker that goes on to another step.                                  *)
LEMMA MoveFits ==
    ASSUME NEW j \in Job, NEW w \in WorkType(j), NEW l \in PcType
    PROVE  LET v == [w EXCEPT !.pc = l]
           IN  /\ v \in WorkType(j) /\ v.pc = l /\ v.page = w.page /\ v.got = w.got
               /\ v.twice = w.twice /\ v.link = w.link /\ v.mark = w.mark
               /\ v.result = w.result /\ v.delay = w.delay /\ v.promise = w.promise
               /\ v.cause = w.cause /\ v.listing = w.listing /\ Due(v) = Due(w)
               /\ v.spotted = w.spotted
BY DEF WorkType, Due

LEMMA MoveToPageFits ==
    ASSUME NEW j \in Job, NEW w \in WorkType(j), NEW n \in Nat
    PROVE  LET v == [w EXCEPT !.pc = "ask", !.page = n]
           IN  /\ v \in WorkType(j) /\ v.pc = "ask" /\ v.page = n /\ v.got = w.got
               /\ v.twice = w.twice /\ v.mark = w.mark
               /\ v.result = w.result /\ v.delay = w.delay /\ v.promise = w.promise
               /\ v.cause = w.cause /\ v.listing = w.listing /\ Due(v) = Due(w)
               /\ v.spotted = w.spotted
BY DEF WorkType, PcType, Due

-----------------------------------------------------------------------------
(* A step that changes what belongs to one job.                            *)

Sets(new, old, j, v) == new = [old EXCEPT ![j] = v] \/ (new = old /\ v = old[j])
SetsAt(new, old, j, v) ==
    /\ DOMAIN new = DOMAIN old /\ new[j] = v
    /\ \A k \in DOMAIN old \ {j} : new[k] = old[k]

(* A step of one job after which that job fits.                            *)
LEMMA OneJob ==
    ASSUME Inv, NEW j \in Job, NEW row \in RowType, NEW w \in WorkType(j),
           NEW st \in StatusType, NEW here \in SUBSET Item[j], NEW wait \in Nat,
           Fits(j, row, w, st, here, wait),
           Sets(job', job, j, row), SetsAt(work', work, j, w), Sets(status', status, j, st),
           SetsAt(stored', stored, j, here), Sets(told', told, j, wait),
           api' \in Job \cup {NoOne}, stopping' \in BOOLEAN,
           UNCHANGED <<limit, limits, stops>>
    PROVE  Inv'
<1>1. /\ job \in [Job -> RowType] /\ status \in [Job -> StatusType] /\ told \in [Job -> Nat]
      /\ DOMAIN work = Job /\ DOMAIN stored = Job
      /\ limit \in Nat /\ limits \in Nat /\ stops \in Nat
  BY DEF Inv, TypeOK
<1>2. /\ job' \in [Job -> RowType] /\ status' \in [Job -> StatusType] /\ told' \in [Job -> Nat]
      /\ DOMAIN work' = Job /\ DOMAIN stored' = Job
  BY <1>1 DEF Sets, SetsAt
<1>3. job'[j] = row /\ work'[j] = w /\ status'[j] = st /\ stored'[j] = here /\ told'[j] = wait
  BY <1>1 DEF Sets, SetsAt
<1>4. ASSUME NEW k \in Job, k # j
      PROVE  /\ job'[k] = job[k] /\ work'[k] = work[k] /\ status'[k] = status[k]
             /\ stored'[k] = stored[k] /\ told'[k] = told[k]
  BY <1>1, <1>4 DEF Sets, SetsAt
<1>5. ASSUME NEW k \in Job
      PROVE  /\ work'[k] \in WorkType(k) /\ stored'[k] \in SUBSET Item[k]
             /\ Fits(k, job'[k], work'[k], status'[k], stored'[k], told'[k])
  <2>1. CASE k = j
    BY <1>3, <2>1
  <2>2. CASE k # j
    BY <1>4, <2>2 DEF Inv, TypeOK, Safety
  <2> QED BY <2>1, <2>2
<1>6. TypeOK'
  BY <1>1, <1>2, <1>5 DEF TypeOK, WorkType
<1>7. Safety'
  BY <1>5 DEF Safety
<1> QED BY <1>6, <1>7 DEF Inv

-----------------------------------------------------------------------------
(* What the invariant says of one job.                                     *)

LEMMA JobFacts ==
    ASSUME Inv, NEW j \in Job
    PROVE  /\ job[j] \in RowType /\ work[j] \in WorkType(j) /\ status[j] \in StatusType
           /\ stored[j] \in SUBSET Item[j] /\ told[j] \in Nat
           /\ Fits(j, job[j], work[j], status[j], stored[j], told[j])
           /\ api \in Job \cup {NoOne} /\ stopping \in BOOLEAN
BY DEF Inv, TypeOK, Safety

(* The fields of a worker after an EXCEPT.                                 *)
LEMMA WorkUpdate ==
    ASSUME Inv, NEW j \in Job, NEW w, work' = [work EXCEPT ![j] = w] \/ (work' = work /\ w = work[j])
    PROVE  SetsAt(work', work, j, w)
BY DEF Inv, TypeOK, SetsAt

LEMMA StoredUpdate ==
    ASSUME Inv, NEW j \in Job, NEW here,
           stored' = [stored EXCEPT ![j] = here] \/ (stored' = stored /\ here = stored[j])
    PROVE  SetsAt(stored', stored, j, here)
BY DEF Inv, TypeOK, SetsAt

(* A step that changes only what the worker of a job does.                 *)
LEMMA WorkerStep ==
    ASSUME Inv, NEW j \in Job, NEW w \in WorkType(j),
           Fits(j, job[j], w, status[j], stored[j], told[j]),
           work' = [work EXCEPT ![j] = w], api' \in Job \cup {NoOne},
           UNCHANGED <<job, status, stored, stopping, limit, limits, stops, told>>
    PROVE  Inv'
BY JobFacts, OneJob, WorkUpdate, StoredUpdate DEF Sets

(* The end of a request, whatever it is.                                   *)
LEMMA OutcomeFits ==
    ASSUME Inv, NEW j \in Job, work[j].pc # "none", NEW w \in WorkType(j), Fresh(w),
           NEW st, NEW here, w.delay >= w.promise, w.cause # "limit",
           \/ w.pc = "mark" /\ w.result = "failed" /\ w.mark = "error"
           \/ w.pc \in {"mark", "delay"} /\ w.result = "requeue"
           \/ w.pc = "settle" /\ w.result = "requeue"
           \/ w.pc = "settle" /\ w.result = "success" /\ (Kind[j] = "metadata" => st = "ready")
    PROVE  Fits(j, job[j], w, st, here, told[j])
<1>1. job[j].state = "running" /\ told[j] = 0 /\ job[j].error # "limit"
  BY JobFacts DEF Fits, StageFits, LimitFits
<1>2. LimitFits(job[j], w, told[j]) /\ StageFits(job[j], w)
  BY <1>1 DEF LimitFits, StageFits
<1>3. WalkFits(j, w, here)
  BY FreshFits DEF Fresh
<1>4. Kind[j] = "metadata" => StatusFits(job[j], w, st)
  BY <1>1 DEF StatusFits
<1> QED BY <1>2, <1>3, <1>4 DEF Fits

-----------------------------------------------------------------------------
(* The worker loop around a job.                                           *)

(* A row has the fields it is made of.                                     *)
LEMMA RowFits ==
    ASSUME NEW state \in {"absent", "queued", "running", "success", "failed"}, NEW wait \in Nat,
           NEW attempts \in 0..RetryLimit, NEW error \in {"none", "api", "limit", "exception"}
    PROVE  LET row == Row(state, wait, attempts, error)
           IN  /\ row \in RowType /\ row.state = state /\ row.wait = wait
               /\ row.attempts = attempts /\ row.error = error
BY DEF Row, RowType

(* A step that changes the row of a job, and what its worker does.         *)
LEMMA RowStep ==
    ASSUME Inv, NEW j \in Job, NEW row \in RowType, NEW w \in WorkType(j), NEW wait \in Nat,
           Fits(j, row, w, status[j], stored[j], wait),
           job' = [job EXCEPT ![j] = row], told' = [told EXCEPT ![j] = wait],
           work' = [work EXCEPT ![j] = w] \/ (work' = work /\ w = work[j]),
           UNCHANGED <<api, status, stored, stopping, limit, limits, stops>>
    PROVE  Inv'
<1>1. /\ Sets(job', job, j, row) /\ SetsAt(work', work, j, w)
      /\ Sets(status', status, j, status[j]) /\ SetsAt(stored', stored, j, stored[j])
      /\ Sets(told', told, j, wait)
  <2>1. SetsAt(work', work, j, w)
    BY WorkUpdate
  <2>2. SetsAt(stored', stored, j, stored[j])
    BY StoredUpdate
  <2> QED BY <2>1, <2>2 DEF Sets
<1>2. /\ status[j] \in StatusType /\ stored[j] \in SUBSET Item[j]
      /\ api' \in Job \cup {NoOne} /\ stopping' \in BOOLEAN
  BY JobFacts
<1> QED BY <1>1, <1>2, OneJob

LEMMA EnqueueStep == ASSUME Inv, NEW j \in Job, Enqueue(j) PROVE Inv'
<1> DEFINE row == Row("queued", 0, 0, "none")
<1>1. row \in RowType /\ row.state = "queued" /\ row.wait = 0 /\ row.error = "none"
  BY RowFits, Parameters
<1>2. work[j].pc = "none"
  BY JobFacts DEF Enqueue, Fits, StageFits
<1> HIDE DEF row
<1>3. Fits(j, row, work[j], status[j], stored[j], 0)
  <2>0. /\ LimitFits(job[j], work[j], told[j]) /\ StageFits(job[j], work[j])
        /\ WalkFits(j, work[j], stored[j])
    BY JobFacts DEF Fits
  <2>1. LimitFits(row, work[j], 0) /\ StageFits(row, work[j]) /\ WalkFits(j, work[j], stored[j])
    BY <1>1, <1>2, <2>0 DEF LimitFits, StageFits
  <2>2. StatusFits(row, work[j], status[j])
    BY <1>1, <1>2 DEF StatusFits
  <2> QED BY <2>1, <2>2 DEF Fits
<1>4. /\ job' = [job EXCEPT ![j] = row] /\ told' = [told EXCEPT ![j] = 0]
      /\ UNCHANGED <<work, api, status, stored, stopping, limit, limits, stops>>
  BY DEF Enqueue, github, row
<1>5. work[j] \in WorkType(j) /\ 0 \in Nat
  BY JobFacts
<1> QED BY <1>1, <1>3, <1>4, <1>5, RowStep

LEMMA ClaimStep == ASSUME Inv, NEW j \in Job, Claim(j) PROVE Inv'
<1> DEFINE row == [job[j] EXCEPT !.state = "running", !.attempts = Least(RetryLimit, @ + 1)]
           page == IF Kind[j] = "account" THEN 1 ELSE 0
           w == [Idle EXCEPT !.pc = "ask", !.page = page]
<1>1. row \in RowType /\ row.state = "running" /\ row.error # "limit"
  <2>1. job[j].attempts \in 0..RetryLimit /\ job[j] \in RowType
    BY JobFacts DEF RowType
  <2>2. Least(RetryLimit, job[j].attempts + 1) \in 0..RetryLimit
    BY <2>1, Parameters DEF Least
  <2>3. job[j].error # "limit"
    BY JobFacts DEF Fits, LimitFits
  <2> QED BY <2>1, <2>2, <2>3 DEF RowType
<1>2. /\ w \in WorkType(j) /\ w.pc = "ask" /\ w.page = page /\ w.result = "none"
      /\ w.got = {} /\ w.listing = << >> /\ Due(w) = {} /\ w.delay = 0 /\ w.promise = 0
      /\ w.cause = "none"
  <2>1. page \in Nat
    OBVIOUS
  <2>2. Idle \in WorkType(j)
    BY IdleFits
  <2> HIDE DEF page
  <2>3. /\ w \in WorkType(j) /\ w.pc = "ask" /\ w.page = page /\ w.result = Idle.result
        /\ w.got = Idle.got /\ w.listing = Idle.listing /\ Due(w) = Due(Idle)
        /\ w.delay = Idle.delay /\ w.promise = Idle.promise /\ w.cause = Idle.cause
    BY <2>1, <2>2 DEF WorkType, PcType, Due
  <2> QED BY <2>3, IdleFits
<1>3. Kind[j] = "metadata" => page = 0
  OBVIOUS
<1>4. /\ job' = [job EXCEPT ![j] = row] /\ work' = [work EXCEPT ![j] = w]
      /\ told' = [told EXCEPT ![j] = 0]
      /\ UNCHANGED <<api, status, stored, stopping, limit, limits, stops>>
  <2>1. job' = [job EXCEPT ![j].state = "running", ![j].attempts = Least(RetryLimit, @ + 1)]
    BY DEF Claim
  <2>2. job' = [job EXCEPT ![j] = row]
    BY <2>1 DEF Inv, TypeOK, RowType
  <2> QED BY <2>2 DEF Claim, github
<1> HIDE DEF row, w, page
<1>5. Fits(j, row, w, status[j], stored[j], 0)
  <2>1. LimitFits(row, w, 0) /\ StageFits(row, w)
    BY <1>1, <1>2 DEF LimitFits, StageFits
  <2>2. WalkFits(j, w, stored[j])
    BY <1>2, FreshFits
  <2>3. Kind[j] = "metadata" => StatusFits(row, w, status[j])
    BY <1>1, <1>2, <1>3 DEF StatusFits
  <2> QED BY <2>1, <2>2, <2>3 DEF Fits
<1>6. 0 \in Nat
  OBVIOUS
<1> QED BY <1>1, <1>2, <1>4, <1>5, <1>6, RowStep

LEMMA EndStep ==
    ASSUME Inv, NEW j \in Job, NEW row \in RowType, NEW wait \in Nat, Ends(j, row, wait),
           row.state # "running", row.error # "limit",
           row.state = "queued" => row.wait >= wait, row.state # "queued" => wait = 0,
           Kind[j] = "metadata" =>
              /\ row.state = "success" => status[j] = "ready"
              /\ row.state = "failed" /\ row.error # "exception" => status[j] = "error"
    PROVE  Inv'
<1>1. /\ job' = [job EXCEPT ![j] = row] /\ work' = [work EXCEPT ![j] = Idle]
      /\ told' = [told EXCEPT ![j] = wait]
      /\ UNCHANGED <<api, status, stored, stopping, limit, limits, stops>>
  BY DEF Ends, github
<1>2. Fits(j, row, Idle, status[j], stored[j], wait)
  <2>1. LimitFits(row, Idle, wait) /\ StageFits(row, Idle)
    BY IdleFits DEF LimitFits, StageFits
  <2>2. WalkFits(j, Idle, stored[j])
    BY IdleFits, FreshFits
  <2>3. Kind[j] = "metadata" => StatusFits(row, Idle, status[j])
    BY IdleFits DEF StatusFits
  <2> QED BY <2>1, <2>2, <2>3 DEF Fits
<1>3. Idle \in WorkType(j)
  BY IdleFits
<1> QED BY <1>1, <1>2, <1>3, RowStep

LEMMA SettleStep == ASSUME Inv, NEW j \in Job, Settle(j) PROVE Inv'
<1>1. /\ work[j] \in WorkType(j) /\ work[j].pc = "settle"
      /\ work[j].result \in {"requeue", "success", "failed"}
      /\ work[j].delay \in Nat /\ work[j].promise \in Nat /\ work[j].delay >= work[j].promise
      /\ work[j].cause \in {"none", "api"} /\ job[j].attempts \in 0..RetryLimit
  BY JobFacts DEF Settle, At, Fits, StageFits, LimitFits, WorkType, RowType
<1>2. CASE work[j].result = "requeue"
  <2> DEFINE row == Row("queued", work[j].delay, job[j].attempts, "none")
  <2>1. Ends(j, row, work[j].promise)
    BY <1>2 DEF Settle
  <2>2. row \in RowType /\ row.state = "queued" /\ row.wait = work[j].delay /\ row.error = "none"
    BY <1>1, RowFits
  <2> QED BY <1>1, <2>1, <2>2, EndStep
<1>3. CASE work[j].result \in {"success", "failed"}
  <2> DEFINE row == Row(work[j].result, 0, 0, work[j].cause)
  <2>1. Ends(j, row, 0)
    BY <1>3 DEF Settle
  <2>2. /\ row \in RowType /\ row.state = work[j].result /\ row.error = work[j].cause
    <3>1. /\ work[j].result \in {"absent", "queued", "running", "success", "failed"}
          /\ work[j].cause \in {"none", "api", "limit", "exception"}
          /\ 0 \in 0..RetryLimit /\ 0 \in Nat
      BY <1>1, <1>3, Parameters
    <3> QED BY <3>1, RowFits
  <2>3. Kind[j] = "metadata" => /\ work[j].result = "success" => status[j] = "ready"
                                /\ work[j].result = "failed" => status[j] = "error"
    BY <1>1, JobFacts DEF Fits, StatusFits
  <2> QED BY <1>1, <1>3, <2>1, <2>2, <2>3, EndStep
<1> QED BY <1>1, <1>2, <1>3

LEMMA ThrowStep == ASSUME Inv, NEW j \in Job, Throw(j) PROVE Inv'
<1>1. job[j].attempts \in 0..RetryLimit
  BY JobFacts DEF RowType
<1>2. CASE job[j].attempts >= ThrowLimit
  <2> DEFINE row == Row("failed", 0, 0, "exception")
  <2>1. Ends(j, row, 0)
    BY <1>2 DEF Throw
  <2>2. row \in RowType /\ row.state = "failed" /\ row.error = "exception"
    BY RowFits, Parameters
  <2> QED BY <2>1, <2>2, EndStep
<1>3. CASE ~(job[j].attempts >= ThrowLimit)
  <2> DEFINE row == Row("queued", ThrowDelay, job[j].attempts, "none")
  <2>1. Ends(j, row, 0)
    BY <1>3 DEF Throw
  <2>2. row \in RowType /\ row.state = "queued" /\ row.wait = ThrowDelay /\ row.error = "none"
    <3>1. ThrowDelay \in Nat
      BY Parameters
    <3> QED BY <1>1, <3>1, RowFits
  <2>3. ThrowDelay >= 0
    BY Parameters
  <2> QED BY <2>1, <2>2, <2>3, EndStep
<1> QED BY <1>2, <1>3

-----------------------------------------------------------------------------
(* Requests that end.                                                      *)

Outcome(w) ==
    /\ Fresh(w) /\ w.delay >= w.promise /\ w.cause # "limit"
    /\ \/ w.pc = "mark" /\ w.result = "failed" /\ w.mark = "error"
       \/ w.pc \in {"mark", "delay"} /\ w.result = "requeue"
       \/ w.pc = "settle" /\ w.result = "requeue"

LEMMA EndedStep ==
    ASSUME Inv, NEW j \in Job, work[j].pc # "none", NEW w \in WorkType(j), Outcome(w),
           work' = [work EXCEPT ![j] = w], api' \in Job \cup {NoOne},
           UNCHANGED <<job, status, stored, stopping, limit, limits, stops, told>>
    PROVE  Inv'
<1>1. Fits(j, job[j], w, status[j], stored[j], told[j])
  BY OutcomeFits DEF Outcome
<1> QED BY <1>1, WorkerStep

LEMMA ReturnedStep ==
    ASSUME Inv, NEW j \in Job, work[j].pc # "none",
           work' = [work EXCEPT ![j] = Returns("requeue")], api' \in Job \cup {NoOne},
           UNCHANGED <<job, status, stored, stopping, limit, limits, stops, told>>
    PROVE  Inv'
<1> DEFINE w == Returns("requeue")
<1>1. /\ w \in WorkType(j) /\ Fresh(w) /\ w.pc = "settle" /\ w.result = "requeue"
      /\ w.delay = 0 /\ w.promise = 0 /\ w.cause = "none"
  BY EndsFit
<1>2. work' = [work EXCEPT ![j] = w]
  OBVIOUS
<1>3. Outcome(w)
  BY <1>1 DEF Outcome
<1> HIDE DEF w
<1> QED BY <1>1, <1>2, <1>3, EndedStep

LEMMA SendStep == ASSUME Inv, NEW j \in Job, Send(j) PROVE Inv'
<1>1. /\ work[j].pc = "ask" /\ api \in Job \cup {NoOne}
      /\ UNCHANGED <<job, status, stored, stopping, limit, limits, stops, told>>
  BY JobFacts DEF Send, At, github
<1>2. CASE stopping
  <2>1. work' = [work EXCEPT ![j] = Returns("requeue")] /\ api' = api
    BY <1>2 DEF Send
  <2> QED BY <1>1, <2>1, ReturnedStep
<1>3. CASE ~stopping
  <2> DEFINE w == [work[j] EXCEPT !.pc = "flight"]
  <2>1. work' = [work EXCEPT ![j] = w] /\ api' = j
    BY <1>3 DEF Send
  <2>2. work[j] \in WorkType(j) /\ "flight" \in PcType
    BY JobFacts DEF PcType
  <2>3. /\ w \in WorkType(j) /\ w.pc = "flight" /\ w.page = work[j].page /\ w.got = work[j].got
        /\ w.result = work[j].result /\ w.delay = work[j].delay /\ w.promise = work[j].promise
        /\ w.cause = work[j].cause /\ w.listing = work[j].listing /\ Due(w) = Due(work[j])
        /\ w.spotted = work[j].spotted
    BY <2>2, MoveFits
  <2>4. Fits(j, job[j], work[j], status[j], stored[j], told[j])
    BY JobFacts
  <2> HIDE DEF w
  <2>5. Fits(j, job[j], w, status[j], stored[j], told[j])
    <3>1. LimitFits(job[j], w, told[j]) /\ StageFits(job[j], w)
      BY <1>1, <2>3, <2>4 DEF Fits, LimitFits, StageFits
    <3>2. WalkFits(j, w, stored[j])
      BY <1>1, <2>3, <2>4 DEF Fits, WalkFits, Kept
    <3>3. Kind[j] = "metadata" => StatusFits(job[j], w, status[j])
      BY <1>1, <2>3, <2>4 DEF Fits, StatusFits
    <3> QED BY <3>1, <3>2, <3>3 DEF Fits
  <2> QED BY <1>1, <2>1, <2>3, <2>5, WorkerStep
<1> QED BY <1>2, <1>3

LEMMA InterruptedStep == ASSUME Inv, NEW j \in Job, Interrupted(j) PROVE Inv'
<1>1. /\ work[j].pc = "flight" /\ api' = NoOne
      /\ work' = [work EXCEPT ![j] = Returns("requeue")]
      /\ UNCHANGED <<job, status, stored, stopping, limit, limits, stops, told>>
  BY DEF Interrupted, At, github
<1> QED BY <1>1, ReturnedStep

(* After a refusal a worker is late, tries again, or fails for good; for   *)
(* good only without a limit.                                              *)
LEMMA RefuseStep == ASSUME Inv, NEW j \in Job, Refuse(j) PROVE Inv'
<1>1. /\ work[j].pc = "flight" /\ api' = NoOne /\ limit \in Nat
      /\ UNCHANGED <<job, status, stored, stopping, limit, limits, stops, told>>
  BY DEF Refuse, At, github, Inv, TypeOK
<1>2. PICK r \in IF limit > 0 THEN LimitReplies \cup {Reply(28, 0)} ELSE FailureReplies :
         work' = [work EXCEPT ![j] = AfterRefusal(j, r)]
  BY DEF Refuse
<1>3. ReplyFits(r)
  BY <1>1, <1>2, RepliesFit
<1>4. CASE AfterRefusal(j, r) = Delays(RateLimitBackoff(r, j), Promise(r))
  <2> DEFINE w == Delays(RateLimitBackoff(r, j), Promise(r))
  <2>1. /\ RateLimitBackoff(r, j) \in Nat /\ Promise(r) \in Nat
        /\ RateLimitBackoff(r, j) >= Promise(r)
    BY <1>3, BackoffKeepsPromise
  <2>2. /\ w \in WorkType(j) /\ Fresh(w) /\ w.pc = "delay" /\ w.result = "requeue"
        /\ w.delay = RateLimitBackoff(r, j) /\ w.promise = Promise(r) /\ w.cause = "none"
    BY <2>1, EndsFit
  <2>3. work' = [work EXCEPT ![j] = w]
    BY <1>2, <1>4
  <2>4. Outcome(w)
    BY <2>1, <2>2 DEF Outcome
  <2> HIDE DEF w
  <2> QED BY <1>1, <2>2, <2>3, <2>4, EndedStep
<1>5. CASE AfterRefusal(j, r) = Retries(TransientBackoff(j))
  <2> DEFINE w == Retries(TransientBackoff(j))
  <2>1. TransientBackoff(j) \in Nat
    <3>1. job[j].attempts \in Nat
      <4>1. job[j].attempts \in 0..RetryLimit
        BY JobFacts DEF RowType
      <4> QED BY <4>1, Parameters
    <3> QED BY <3>1, TransientBackoffIsNat
  <2>2. /\ w \in WorkType(j) /\ Fresh(w) /\ w.pc = "mark" /\ w.result = "requeue"
        /\ w.delay \in Nat /\ w.promise = 0 /\ w.cause = "none"
    BY <2>1, EndsFit
  <2>3. work' = [work EXCEPT ![j] = w]
    BY <1>2, <1>5
  <2>4. Outcome(w)
    BY <2>2 DEF Outcome
  <2> HIDE DEF w
  <2> QED BY <1>1, <2>2, <2>3, <2>4, EndedStep
<1>6. CASE AfterRefusal(j, r) = Fails("api")
  <2> DEFINE w == Fails("api")
  <2>1. /\ w \in WorkType(j) /\ Fresh(w) /\ w.pc = "mark" /\ w.result = "failed"
        /\ w.delay = 0 /\ w.promise = 0 /\ w.cause = "api" /\ w.mark = "error"
    BY EndsFit
  <2>2. work' = [work EXCEPT ![j] = w]
    BY <1>2, <1>6
  <2>3. Outcome(w)
    BY <2>1 DEF Outcome
  <2> HIDE DEF w
  <2> QED BY <1>1, <2>1, <2>2, <2>3, EndedStep
<1> QED BY <1>3, <1>4, <1>5, <1>6 DEF AfterRefusal, Cause, ReplyFits

LEMMA GarbleStep == ASSUME Inv, NEW j \in Job, Garble(j) PROVE Inv'
<1> DEFINE w == Fails("api")
<1>1. /\ work[j].pc = "flight" /\ api' = NoOne /\ work' = [work EXCEPT ![j] = w]
      /\ UNCHANGED <<job, status, stored, stopping, limit, limits, stops, told>>
  BY DEF Garble, At, github
<1>2. /\ w \in WorkType(j) /\ Fresh(w) /\ w.pc = "mark" /\ w.result = "failed"
      /\ w.delay = 0 /\ w.promise = 0 /\ w.cause = "api" /\ w.mark = "error"
  BY EndsFit
<1>3. Outcome(w)
  BY <1>2 DEF Outcome
<1> HIDE DEF w
<1> QED BY <1>1, <1>2, <1>3, EndedStep

-----------------------------------------------------------------------------
(* The description of the repository.                                      *)

LEMMA DescribedStep == ASSUME Inv, NEW j \in Job, Described(j) PROVE Inv'
<1> DEFINE w == [work[j] EXCEPT !.pc = "describe"]
<1>1. /\ work[j].pc = "flight" /\ work[j].page = 0 /\ api' = NoOne
      /\ work' = [work EXCEPT ![j] = w]
      /\ UNCHANGED <<job, status, stored, stopping, limit, limits, stops, told>>
  BY DEF Described, At, github
<1>2. work[j] \in WorkType(j) /\ "describe" \in PcType
  BY JobFacts DEF PcType
<1>3. /\ w \in WorkType(j) /\ w.pc = "describe" /\ w.page = work[j].page /\ w.got = work[j].got
      /\ w.result = work[j].result /\ w.delay = work[j].delay /\ w.promise = work[j].promise
      /\ w.cause = work[j].cause /\ w.listing = work[j].listing /\ Due(w) = Due(work[j])
      /\ w.spotted = work[j].spotted
  BY <1>2, MoveFits
<1>4. Fits(j, job[j], work[j], status[j], stored[j], told[j])
  BY JobFacts
<1> HIDE DEF w
<1>5. Fits(j, job[j], w, status[j], stored[j], told[j])
  <2>1. LimitFits(job[j], w, told[j]) /\ StageFits(job[j], w)
    BY <1>1, <1>3, <1>4 DEF Fits, LimitFits, StageFits
  <2>2. WalkFits(j, w, stored[j])
    BY <1>1, <1>3, <1>4 DEF Fits, WalkFits
  <2>3. Kind[j] = "metadata" => StatusFits(job[j], w, status[j])
    BY <1>1, <1>3, <1>4 DEF Fits, StatusFits
  <2> QED BY <2>1, <2>2, <2>3 DEF Fits
<1> QED BY <1>1, <1>3, <1>5, WorkerStep

(* A step of a worker that also writes metadata_status, or what is stored. *)
LEMMA WritingStep ==
    ASSUME Inv, NEW j \in Job, NEW w \in WorkType(j), NEW st \in StatusType,
           NEW here \in SUBSET Item[j], Fits(j, job[j], w, st, here, told[j]),
           SetsAt(work', work, j, w),
           status' = [status EXCEPT ![j] = st] \/ (status' = status /\ st = status[j]),
           stored' = [stored EXCEPT ![j] = here] \/ (stored' = stored /\ here = stored[j]),
           UNCHANGED <<job, api, stopping, limit, limits, stops, told>>
    PROVE  Inv'
<1>1. /\ Sets(job', job, j, job[j]) /\ SetsAt(work', work, j, w)
      /\ Sets(status', status, j, st) /\ SetsAt(stored', stored, j, here)
      /\ Sets(told', told, j, told[j])
  <2>1. SetsAt(stored', stored, j, here)
    BY StoredUpdate
  <2> QED BY <2>1 DEF Sets
<1>2. /\ job[j] \in RowType /\ told[j] \in Nat
      /\ api' \in Job \cup {NoOne} /\ stopping' \in BOOLEAN
  BY JobFacts
<1> QED BY <1>1, <1>2, OneJob

LEMMA DescribeStep == ASSUME Inv, NEW j \in Job, Describe(j) PROVE Inv'
<1> DEFINE w == [work[j] EXCEPT !.pc = "ask", !.page = 1]
<1>1. work[j] \in WorkType(j) /\ Fits(j, job[j], work[j], status[j], stored[j], told[j])
  BY JobFacts
<1>2. /\ work[j].pc = "describe" /\ status' = [status EXCEPT ![j] = "ready"]
      /\ UNCHANGED <<job, api, stored, stopping, limit, limits, stops, told>>
  BY DEF Describe, At, github
<1>3. SetsAt(work', work, j, w)
  <2>1. work' = [work EXCEPT ![j].pc = "ask", ![j].page = 1] /\ DOMAIN work = Job
    BY DEF Describe, Inv, TypeOK
  <2>2. work'[j] = [work[j] EXCEPT !.pc = "ask", !.page = 1]
    BY <1>1, <2>1 DEF WorkType
  <2>3. \A k \in Job \ {j} : work'[k] = work[k]
    BY <2>1
  <2>4. DOMAIN work' = Job
    BY <2>1
  <2> QED BY <2>1, <2>2, <2>3, <2>4 DEF SetsAt
<1>4. /\ w \in WorkType(j) /\ w.pc = "ask" /\ w.page = 1 /\ w.got = work[j].got
      /\ w.result = work[j].result /\ w.delay = work[j].delay /\ w.promise = work[j].promise
      /\ w.cause = work[j].cause /\ w.listing = work[j].listing /\ Due(w) = Due(work[j])
      /\ w.spotted = work[j].spotted
  BY <1>1 DEF WorkType, PcType, Due
<1> HIDE DEF w
<1>5. Fits(j, job[j], w, "ready", stored[j], told[j])
  <2>1. LimitFits(job[j], w, told[j]) /\ StageFits(job[j], w)
    BY <1>1, <1>2, <1>4 DEF Fits, LimitFits, StageFits
  <2>2. WalkFits(j, w, stored[j])
    <3>1. w.got = {} /\ Due(w) = {} /\ Items(w.listing) \subseteq w.spotted
      BY <1>1, <1>2, <1>4 DEF Fits, WalkFits
    <3> QED BY <1>4, <3>1 DEF WalkFits
  <2>3. StatusFits(job[j], w, "ready")
    BY <1>1, <1>2, <1>4 DEF Fits, StatusFits, StageFits
  <2> QED BY <2>1, <2>2, <2>3 DEF Fits
<1>6. "ready" \in StatusType /\ stored[j] \in SUBSET Item[j]
  BY JobFacts DEF StatusType
<1> QED BY <1>2, <1>3, <1>4, <1>5, <1>6, WritingStep

-----------------------------------------------------------------------------
(* The walk.                                                               *)

(* What holds of a worker that has read a page and has a link to follow.   *)
HasPage(j, w, link, st, here) ==
    /\ w.page > 0 /\ w.result = "none" /\ w.delay >= w.promise /\ w.cause # "limit"
    /\ link \in {NoLink, Unsafe} \cup (1..(w.page + 1))
    /\ Items(w.listing) \subseteq w.spotted /\ w.got \subseteq w.spotted
    /\ Due(w) \subseteq Kept(j, w, here) \cup Rest(w.listing, w.page)
    /\ link = NoLink => Due(w) \subseteq Kept(j, w, here)
    /\ Kind[j] = "metadata" => st = "ready"

(* What a walk owes is read, or is still to come.                          *)
LEMMA FollowFits ==
    ASSUME Inv, NEW j \in Job, work[j].pc # "none", NEW w \in WorkType(j), NEW link, NEW st,
           NEW here, HasPage(j, w, link, st, here)
    PROVE  /\ Follow(j, w, link) \in WorkType(j)
           /\ Fits(j, job[j], Follow(j, w, link), st, here, told[j])
           /\ Follow(j, w, link).result = "success" => Due(w) \subseteq Kept(j, w, here)
<1> DEFINE v == Follow(j, w, link)
<1>0. /\ job[j].state = "running" /\ told[j] = 0 /\ job[j].error # "limit" /\ w.page \in Nat
  BY JobFacts DEF Fits, StageFits, LimitFits, WorkType
<1>1. CASE v = Fails("api")
  <2>1. /\ v \in WorkType(j) /\ Fresh(v) /\ v.pc = "mark" /\ v.result = "failed"
        /\ v.delay = 0 /\ v.promise = 0 /\ v.cause = "api" /\ v.mark = "error"
    BY <1>1, EndsFit
  <2> HIDE DEF v
  <2>2. Fits(j, job[j], v, st, here, told[j])
    BY <2>1, OutcomeFits
  <2> QED BY <2>1, <2>2 DEF v
<1>2. CASE link = NoLink /\ Kind[j] = "account" /\ v = Returns("success")
  <2>1. /\ v \in WorkType(j) /\ Fresh(v) /\ v.pc = "settle" /\ v.result = "success"
        /\ v.delay = 0 /\ v.promise = 0 /\ v.cause = "none"
    BY <1>2, EndsFit
  <2> HIDE DEF v
  <2>2. Fits(j, job[j], v, st, here, told[j])
    BY <1>2, <2>1, OutcomeFits
  <2> QED BY <1>2, <2>1, <2>2 DEF HasPage, v
<1>3. CASE link = NoLink /\ Kind[j] = "metadata" /\ v = [w EXCEPT !.pc = "replace"]
  <2>1. /\ v \in WorkType(j) /\ v.pc = "replace" /\ v.page = w.page /\ v.got = w.got
        /\ v.result = w.result /\ v.delay = w.delay /\ v.promise = w.promise
        /\ v.cause = w.cause /\ v.listing = w.listing /\ Due(v) = Due(w)
        /\ v.spotted = w.spotted
    BY <1>3 DEF WorkType, PcType, Due
  <2> HIDE DEF v
  <2>2. LimitFits(job[j], v, told[j]) /\ StageFits(job[j], v)
    BY <1>0, <2>1 DEF HasPage, LimitFits, StageFits
  <2>3. WalkFits(j, v, here)
    BY <1>0, <1>3, <2>1 DEF HasPage, WalkFits, Kept
  <2>4. StatusFits(job[j], v, st)
    BY <1>0, <1>3, <2>1 DEF HasPage, StatusFits
  <2>5. v.result # "success"
    BY <2>1 DEF HasPage
  <2> QED BY <2>1, <2>2, <2>3, <2>4, <2>5 DEF Fits, v
<1>4. CASE link = w.page + 1 /\ v = [w EXCEPT !.pc = "ask", !.page = link]
  <2>0. link \in Nat /\ link - 1 = w.page /\ ~(link <= 1) /\ link > 0 /\ link # 0
    BY <1>0, <1>4 DEF HasPage
  <2>1. /\ v \in WorkType(j) /\ v.pc = "ask" /\ v.page = link /\ v.got = w.got
        /\ v.result = w.result /\ v.delay = w.delay /\ v.promise = w.promise
        /\ v.cause = w.cause /\ v.listing = w.listing /\ Due(v) = Due(w)
        /\ v.spotted = w.spotted
    BY <1>4, <2>0 DEF WorkType, PcType, Due
  <2> HIDE DEF v
  <2>2. LimitFits(job[j], v, told[j]) /\ StageFits(job[j], v)
    BY <1>0, <2>1 DEF HasPage, LimitFits, StageFits
  <2>3. WalkFits(j, v, here)
    BY <2>0, <2>1 DEF HasPage, WalkFits, Kept
  <2>4. Kind[j] = "metadata" => StatusFits(job[j], v, st)
    BY <1>0, <2>1 DEF HasPage, StatusFits
  <2>5. v.result # "success"
    BY <2>1 DEF HasPage
  <2> QED BY <2>1, <2>2, <2>3, <2>4, <2>5 DEF Fits, v
<1>5. \/ v = Fails("api")
      \/ link = NoLink /\ Kind[j] = "account" /\ v = Returns("success")
      \/ link = NoLink /\ Kind[j] = "metadata" /\ v = [w EXCEPT !.pc = "replace"]
      \/ link = w.page + 1 /\ v = [w EXCEPT !.pc = "ask", !.page = link]
  <2>1. CASE link = Unsafe
    BY <2>1 DEF Follow
  <2>2. CASE link = NoLink
    <3>1. Kind[j] \in {"metadata", "account"} /\ link # Unsafe
      BY <2>2, Parameters DEF NoLink, Unsafe
    <3> QED BY <2>2, <3>1 DEF Follow
  <2>3. CASE link \notin {Unsafe, NoLink}
    <3>1. link \in 1..(w.page + 1)
      BY <2>3 DEF HasPage
    <3>2. link \in 1..w.page \/ link = w.page + 1
      BY <1>0, <3>1
    <3> QED BY <2>3, <3>2 DEF Follow, Visited
  <2> QED BY <2>1, <2>2, <2>3
<1> QED BY <1>1, <1>2, <1>3, <1>4, <1>5

LEMMA LinksFit ==
    ASSUME NEW S, NEW l \in Seq(S), NEW n \in Nat, NEW link \in Links(l, n)
    PROVE  /\ link \in {NoLink, Unsafe} \cup (1..(n + 1)) /\ link \in Int
           /\ link = NoLink => ~(n * PageSize < Len(l))
<1>1. NoLink = 0 /\ Unsafe = -1
  BY DEF NoLink, Unsafe
<1>2. CASE n * PageSize < Len(l)
  <2>1. link = n + 1 \/ link \in 1..n \/ link = Unsafe
    BY <1>2 DEF Links
  <2> QED BY <1>1, <2>1
<1>3. CASE ~(n * PageSize < Len(l))
  <2>1. link = NoLink \/ link \in 1..n \/ link = Unsafe
    BY <1>3 DEF Links
  <2> QED BY <1>1, <1>3, <2>1
<1> QED BY <1>2, <1>3

LEMMA ListingsFit ==
    ASSUME Inv, NEW j \in Job, work[j].page > 0,
           NEW l \in IF work[j].page = 1 THEN Listings(j) ELSE {work[j].listing}
    PROVE  l \in Seq(Item[j])
<1>1. CASE work[j].page = 1
  <2>1. PICK n \in 0..Cardinality(Item[j]) : l \in [1..n -> Item[j]]
    BY <1>1 DEF Listings
  <2>2. n \in Nat
    BY <2>1
  <2> QED BY <2>1, <2>2, SeqDef
<1>2. CASE work[j].page # 1
  BY <1>2, JobFacts DEF WorkType
<1> QED BY <1>1, <1>2

(* A page that has come: what the walk owes has been read before, is on    *)
(* it, or comes after it.                                                  *)
LEMMA ListedStep == ASSUME Inv, NEW j \in Job, Listed(j) PROVE Inv'
<1>1. /\ work[j].pc = "flight" /\ work[j].page > 0 /\ api' = NoOne
      /\ UNCHANGED <<job, status, stored, stopping, limit, limits, stops, told>>
  BY DEF Listed, At, github
<1>2. PICK l \in IF work[j].page = 1 THEN Listings(j) ELSE {work[j].listing} :
         \E link \in Links(l, work[j].page) :
         LET page == Page(l, work[j].page)
             begun == [work[j] EXCEPT !.listing = l,
                          !.steady  = IF work[j].page = 1 THEN Items(l) ELSE @,
                          !.spotted = IF work[j].page = 1 THEN Items(l) ELSE @]
         IN  work' = [work EXCEPT ![j] =
                 IF Kind[j] = "metadata"
                 THEN Follow(j, [begun EXCEPT !.got = @ \cup page,
                                     !.twice = @ \/ (page \cap work[j].got # {})], link)
                 ELSE [begun EXCEPT !.pc = "import", !.got = page, !.link = link]]
  BY DEF Listed
<1> DEFINE page == Page(l, work[j].page)
           steady == IF work[j].page = 1 THEN Items(l) ELSE work[j].steady
           spotted == IF work[j].page = 1 THEN Items(l) ELSE work[j].spotted
           due == steady \ work[j].slipped
           begun == [work[j] EXCEPT !.listing = l, !.steady = steady, !.spotted = spotted]
           merged == [begun EXCEPT !.got = @ \cup page,
                                   !.twice = @ \/ (page \cap work[j].got # {})]
<1>3. PICK link \in Links(l, work[j].page) :
         work' = [work EXCEPT ![j] =
                 IF Kind[j] = "metadata" THEN Follow(j, merged, link)
                 ELSE [begun EXCEPT !.pc = "import", !.got = page, !.link = link]]
  BY <1>2
<1>4. /\ work[j] \in WorkType(j) /\ work[j].page \in Nat
      /\ Fits(j, job[j], work[j], status[j], stored[j], told[j])
      /\ job[j].state = "running" /\ told[j] = 0 /\ job[j].error # "limit"
      /\ work[j].result = "none" /\ work[j].delay >= work[j].promise /\ work[j].cause # "limit"
      /\ stored[j] \in SUBSET Item[j]
  BY <1>1, JobFacts DEF Fits, StageFits, LimitFits, WorkType
<1>5. l \in Seq(Item[j]) /\ Items(l) \subseteq Item[j]
  BY <1>1, <1>2, ListingsFit, ListingDomain
<1>6. /\ link \in {NoLink, Unsafe} \cup (1..(work[j].page + 1)) /\ link \in Int
      /\ link = NoLink => ~(work[j].page * PageSize < Len(l))
  BY <1>4, <1>5, LinksFit
<1>7. /\ page \subseteq Items(l)
      /\ Rest(l, work[j].page - 1) \subseteq page \cup Rest(l, work[j].page)
      /\ Items(l) \subseteq Rest(l, 0)
      /\ ~(work[j].page * PageSize < Len(l)) => Rest(l, work[j].page) = {}
  BY <1>4, <1>5, PagesFit
<1>8. work[j].page = 1 => work[j].page - 1 = 0
  OBVIOUS
<1>9. WalkFits(j, work[j], stored[j]) /\ (Kind[j] = "metadata" => status[j] = "ready")
  BY <1>1, <1>4 DEF Fits, StatusFits
<1>10. /\ due \subseteq Kept(j, work[j], stored[j]) \cup page \cup Rest(l, work[j].page)
       /\ Items(l) \subseteq spotted /\ work[j].got \subseteq spotted
       /\ steady \subseteq Item[j] /\ spotted \subseteq Item[j]
  <2>1. CASE work[j].page = 1
    BY <1>1, <1>5, <1>7, <1>8, <1>9, <2>1 DEF WalkFits
  <2>2. CASE work[j].page # 1
    <3>1. l = work[j].listing /\ steady = work[j].steady /\ spotted = work[j].spotted
      BY <1>2, <2>2
    <3>2. due = Due(work[j])
      BY <3>1 DEF Due
    <3>3. /\ due \subseteq Kept(j, work[j], stored[j]) \cup page \cup Rest(l, work[j].page)
          /\ Items(l) \subseteq spotted /\ work[j].got \subseteq spotted
      BY <1>1, <1>7, <1>9, <3>1, <3>2 DEF WalkFits
    <3>4. steady \subseteq Item[j] /\ spotted \subseteq Item[j]
      BY <1>4, <3>1 DEF WorkType
    <3> QED BY <3>3, <3>4
  <2> QED BY <2>1, <2>2
<1> HIDE DEF page, steady, spotted
<1>11. /\ begun \in WorkType(j) /\ begun.page = work[j].page /\ begun.result = work[j].result
       /\ begun.delay = work[j].delay /\ begun.promise = work[j].promise
       /\ begun.cause = work[j].cause /\ begun.listing = l /\ Due(begun) = due
       /\ begun.spotted = spotted /\ begun.got = work[j].got /\ begun.twice = work[j].twice
  BY <1>4, <1>5, <1>10 DEF WorkType, Due
<1> HIDE DEF begun, due
<1>12. CASE Kind[j] = "metadata"
  <2>1. /\ merged \in WorkType(j) /\ merged.page = work[j].page
        /\ merged.result = work[j].result /\ merged.delay = work[j].delay
        /\ merged.promise = work[j].promise /\ merged.cause = work[j].cause
        /\ merged.listing = l /\ Due(merged) = due /\ merged.spotted = spotted
        /\ merged.got = work[j].got \cup page
    <3>1. begun.got \cup page \subseteq Item[j]
          /\ (begun.twice \/ (page \cap work[j].got # {})) \in BOOLEAN
      BY <1>5, <1>7, <1>11 DEF WorkType
    <3> DEFINE got == begun.got \cup page
               twice == begun.twice \/ (page \cap work[j].got # {})
    <3>2. merged = [begun EXCEPT !.got = got, !.twice = twice]
      BY <1>11 DEF WorkType
    <3>3. got \in SUBSET Item[j] /\ twice \in BOOLEAN /\ got = work[j].got \cup page
      BY <1>11, <3>1
    <3> HIDE DEF got, twice, merged
    <3>4. Due(merged) = Due(begun)
      BY <1>11, <3>2 DEF WorkType, Due
    <3> QED BY <1>11, <3>2, <3>3, <3>4 DEF WorkType
  <2> HIDE DEF merged
  <2>2. HasPage(j, merged, link, status[j], stored[j])
    BY <1>1, <1>4, <1>6, <1>7, <1>9, <1>10, <1>12, <2>1 DEF HasPage, Kept
  <2>3. work' = [work EXCEPT ![j] = Follow(j, merged, link)]
    BY <1>3, <1>12 DEF merged
  <2>4. /\ Follow(j, merged, link) \in WorkType(j)
        /\ Fits(j, job[j], Follow(j, merged, link), status[j], stored[j], told[j])
    BY <1>1, <2>1, <2>2, FollowFits
  <2>5. api' \in Job \cup {NoOne}
    BY <1>1
  <2> QED BY <1>1, <2>3, <2>4, <2>5, WorkerStep
<1>13. CASE Kind[j] # "metadata"
  <2> DEFINE w == [begun EXCEPT !.pc = "import", !.got = page, !.link = link]
  <2>1. /\ w \in WorkType(j) /\ w.pc = "import" /\ w.got = page /\ w.link = link
        /\ w.page = work[j].page /\ w.result = work[j].result /\ w.delay = work[j].delay
        /\ w.promise = work[j].promise /\ w.cause = work[j].cause
        /\ w.listing = l /\ Due(w) = due /\ w.spotted = spotted
    <3>1. page \in SUBSET Item[j]
      BY <1>5, <1>7
    <3>2. Due(w) = Due(begun)
      BY <1>11 DEF WorkType, Due
    <3> QED BY <1>6, <1>11, <3>1, <3>2 DEF WorkType, PcType
  <2>2. work' = [work EXCEPT ![j] = w]
    BY <1>3, <1>13
  <2> HIDE DEF w
  <2>3. LimitFits(job[j], w, told[j]) /\ StageFits(job[j], w)
    BY <1>4, <2>1 DEF LimitFits, StageFits
  <2>4. WalkFits(j, w, stored[j])
    <3>1. Kind[j] = "account"
      BY <1>13, Parameters
    <3>2. Items(w.listing) \subseteq w.spotted /\ w.got \subseteq w.spotted
      BY <1>7, <1>10, <2>1
    <3>3. Due(w) \subseteq stored[j] \cup w.got \cup Rest(w.listing, w.page)
      BY <1>10, <1>13, <2>1 DEF Kept
    <3>4. w.link = NoLink => Due(w) \subseteq stored[j] \cup w.got
      BY <1>6, <1>7, <2>1, <3>3
    <3>5. w.page # 0 /\ w.page > 0 /\ w.link \in {NoLink, Unsafe} \cup (1..(w.page + 1))
      BY <1>1, <1>4, <1>6, <2>1
    <3> QED BY <2>1, <3>1, <3>2, <3>3, <3>4, <3>5 DEF WalkFits
  <2>5. Fits(j, job[j], w, status[j], stored[j], told[j])
    BY <1>13, <2>3, <2>4 DEF Fits
  <2>6. api' \in Job \cup {NoOne}
    BY <1>1
  <2> QED BY <1>1, <2>1, <2>2, <2>5, <2>6, WorkerStep
<1> QED BY <1>12, <1>13

(* While a page is imported, what was read of the walk fits.               *)
LEMMA PageFacts ==
    ASSUME Inv, NEW j \in Job, work[j].pc = "import"
    PROVE  /\ work[j] \in WorkType(j) /\ stored[j] \cup work[j].got \in SUBSET Item[j]
           /\ HasPage(j, work[j], work[j].link, status[j], stored[j] \cup work[j].got)
           /\ Kind[j] = "account"
<1>1. /\ work[j] \in WorkType(j) /\ work[j].page \in Nat /\ work[j].got \in SUBSET Item[j]
      /\ Fits(j, job[j], work[j], status[j], stored[j], told[j])
      /\ stored[j] \in SUBSET Item[j]
  BY JobFacts DEF WorkType
<1>2. Kind[j] = "account"
  BY <1>1 DEF Fits, WalkFits
<1>3. work[j].page > 0
  BY <1>1 DEF Fits, WalkFits
<1>4. HasPage(j, work[j], work[j].link, status[j], stored[j] \cup work[j].got)
  BY <1>1, <1>2, <1>3 DEF HasPage, Kept, Fits, WalkFits, StageFits, LimitFits
<1> QED BY <1>1, <1>2, <1>4

LEMMA ImportStep == ASSUME Inv, NEW j \in Job, Import(j) PROVE Inv'
<1> DEFINE here == stored[j] \cup work[j].got
           w == Follow(j, work[j], work[j].link)
<1>1. /\ work[j].pc = "import" /\ work' = [work EXCEPT ![j] = w]
      /\ stored' = [stored EXCEPT ![j] = here]
      /\ UNCHANGED <<job, api, status, stopping, limit, limits, stops, told>>
  <2>1. stored' = [stored EXCEPT ![j] = @ \cup work[j].got]
    BY DEF Import
  <2> QED BY <2>1 DEF Import, At, github
<1>2. here \in SUBSET Item[j] /\ status[j] \in StatusType
  BY <1>1, PageFacts, JobFacts
<1>3. w \in WorkType(j) /\ Fits(j, job[j], w, status[j], here, told[j])
  BY <1>1, PageFacts, FollowFits
<1> HIDE DEF w, here
<1>4. SetsAt(work', work, j, w)
  BY <1>1, WorkUpdate
<1> QED BY <1>1, <1>2, <1>3, <1>4, WritingStep

LEMMA ReplaceStep == ASSUME Inv, NEW j \in Job, Replace(j) PROVE Inv'
<1>1. /\ work[j].pc = "replace"
      /\ UNCHANGED <<job, api, status, stopping, limit, limits, stops, told>>
  BY DEF Replace, At, github
<1>2. /\ work[j] \in WorkType(j) /\ work[j].got \in SUBSET Item[j]
      /\ Fits(j, job[j], work[j], status[j], stored[j], told[j])
      /\ status[j] \in StatusType /\ stored[j] \in SUBSET Item[j]
      /\ api \in Job \cup {NoOne}
  BY JobFacts DEF WorkType
<1>3. CASE work[j].twice
  <2> DEFINE w == [work[j] EXCEPT !.pc = "throw"]
  <2>1. work' = [work EXCEPT ![j] = w] /\ stored' = stored
    BY <1>3 DEF Replace
  <2>2. /\ w \in WorkType(j) /\ w.pc = "throw" /\ w.page = work[j].page /\ w.got = work[j].got
        /\ w.result = work[j].result /\ w.delay = work[j].delay
        /\ w.promise = work[j].promise /\ w.cause = work[j].cause
        /\ w.listing = work[j].listing /\ Due(w) = Due(work[j])
        /\ w.spotted = work[j].spotted
    BY <1>2 DEF WorkType, PcType, Due
  <2> HIDE DEF w
  <2>3. LimitFits(job[j], w, told[j]) /\ StageFits(job[j], w)
    BY <1>1, <1>2, <2>2 DEF Fits, LimitFits, StageFits
  <2>4. WalkFits(j, w, stored[j])
    BY <1>1, <1>2, <2>2 DEF Fits, WalkFits
  <2>5. Kind[j] = "metadata" => StatusFits(job[j], w, status[j])
    BY <1>1, <1>2, <2>2 DEF Fits, StatusFits
  <2>6. Fits(j, job[j], w, status[j], stored[j], told[j])
    BY <2>3, <2>4, <2>5 DEF Fits
  <2> QED BY <1>1, <1>2, <2>1, <2>2, <2>6, WorkerStep
<1>4. CASE ~work[j].twice
  <2> DEFINE w == Returns("success")
  <2>1. work' = [work EXCEPT ![j] = w] /\ stored' = [stored EXCEPT ![j] = work[j].got]
    BY <1>4 DEF Replace
  <2>2. /\ w \in WorkType(j) /\ Fresh(w) /\ w.pc = "settle" /\ w.result = "success"
        /\ w.delay = 0 /\ w.promise = 0 /\ w.cause = "none"
    BY EndsFit
  <2>3. Kind[j] = "metadata" => status[j] = "ready"
    BY <1>1, <1>2 DEF Fits, StatusFits
  <2> HIDE DEF w
  <2>4. Fits(j, job[j], w, status[j], work[j].got, told[j])
    BY <1>1, <2>2, <2>3, OutcomeFits
  <2>5. SetsAt(work', work, j, w)
    BY <2>1, WorkUpdate
  <2> QED BY <1>1, <1>2, <2>1, <2>2, <2>4, <2>5, WritingStep
<1> QED BY <1>3, <1>4

LEMMA MarkStep == ASSUME Inv, NEW j \in Job, Mark(j) PROVE Inv'
<1> DEFINE w == [work[j] EXCEPT !.pc = "settle"]
           st == IF Kind[j] = "account" THEN status[j] ELSE work[j].mark
<1>1. /\ work[j].pc = "mark" /\ work' = [work EXCEPT ![j] = w]
      /\ status' = [status EXCEPT ![j] = st]
      /\ UNCHANGED <<job, api, stored, stopping, limit, limits, stops, told>>
  BY DEF Mark, At, github
<1>2. /\ work[j] \in WorkType(j) /\ work[j].mark \in StatusType
      /\ Fits(j, job[j], work[j], status[j], stored[j], told[j])
      /\ status[j] \in StatusType /\ stored[j] \in SUBSET Item[j]
  BY JobFacts DEF WorkType
<1>3. /\ w \in WorkType(j) /\ w.pc = "settle" /\ w.page = work[j].page /\ w.got = work[j].got
      /\ w.result = work[j].result /\ w.delay = work[j].delay
      /\ w.promise = work[j].promise /\ w.cause = work[j].cause
      /\ w.listing = work[j].listing /\ Due(w) = Due(work[j])
      /\ w.spotted = work[j].spotted
  BY <1>2 DEF WorkType, PcType, Due
<1>4. st \in StatusType
  BY <1>2
<1> HIDE DEF w
<1>5. LimitFits(job[j], w, told[j]) /\ StageFits(job[j], w)
  BY <1>1, <1>2, <1>3 DEF Fits, LimitFits, StageFits
<1>6. WalkFits(j, w, stored[j])
  BY <1>1, <1>2, <1>3 DEF Fits, WalkFits
<1>7. Kind[j] = "metadata" => StatusFits(job[j], w, st)
  BY <1>1, <1>2, <1>3 DEF Fits, StatusFits, StageFits
<1>8. Fits(j, job[j], w, st, stored[j], told[j])
  BY <1>5, <1>6, <1>7 DEF Fits
<1>9. SetsAt(work', work, j, w)
  BY <1>1, WorkUpdate
<1> HIDE DEF st
<1> QED BY <1>1, <1>2, <1>3, <1>4, <1>8, <1>9, WritingStep

-----------------------------------------------------------------------------
(* GitHub changes what it lists.                                           *)

LEMMA PublishStep == ASSUME Inv, NEW j \in Job, Publish(j) PROVE Inv'
<1>1. /\ work[j].page > 1
      /\ UNCHANGED <<job, api, status, stored, stopping, limit, limits, stops, told>>
  BY DEF Publish, github
<1>2. PICK x \in Item[j] \ Items(work[j].listing), i \in 0..Len(work[j].listing) :
         work' = [work EXCEPT ![j].listing = InsertedAt(@, i, x),
                              ![j].spotted = @ \cup {x}, ![j].changes = @ + 1]
  BY DEF Publish
<1> DEFINE l == InsertedAt(work[j].listing, i, x)
           spotted == work[j].spotted \cup {x}
           changes == work[j].changes + 1
           w == [work[j] EXCEPT !.listing = l, !.spotted = spotted, !.changes = changes]
<1>3. /\ work[j] \in WorkType(j) /\ work[j].page \in Nat /\ work[j].listing \in Seq(Item[j])
      /\ Fits(j, job[j], work[j], status[j], stored[j], told[j])
      /\ spotted \in SUBSET Item[j] /\ changes \in Nat
      /\ status[j] \in StatusType /\ stored[j] \in SUBSET Item[j]
  <2>1. /\ work[j] \in WorkType(j) /\ status[j] \in StatusType /\ stored[j] \in SUBSET Item[j]
        /\ Fits(j, job[j], work[j], status[j], stored[j], told[j])
    BY JobFacts
  <2>2. /\ work[j].page \in Nat /\ work[j].listing \in Seq(Item[j])
        /\ work[j].spotted \in SUBSET Item[j] /\ work[j].changes \in Nat
    BY <2>1 DEF WorkType
  <2>3. spotted \in SUBSET Item[j] /\ changes \in Nat
    BY <1>2, <2>2
  <2> QED BY <2>1, <2>2, <2>3
<1>4. /\ l \in Seq(Item[j]) /\ Items(l) \subseteq Items(work[j].listing) \cup {x}
      /\ \A n \in Int : Rest(work[j].listing, n) \subseteq Rest(l, n)
  BY <1>2, <1>3, InsertedFits
<1>5. SetsAt(work', work, j, w)
  <2>1. DOMAIN work = Job
    BY DEF Inv, TypeOK
  <2>2. DOMAIN work' = Job /\ \A k \in Job \ {j} : work'[k] = work[k]
    BY <1>2, <2>1
  <2>3. work'[j] = w
    BY <1>2, <1>3, <2>1 DEF WorkType
  <2> QED BY <2>1, <2>2, <2>3 DEF SetsAt
<1> HIDE DEF l, spotted, changes
<1>6. /\ w \in WorkType(j) /\ w.pc = work[j].pc /\ w.page = work[j].page /\ w.got = work[j].got
      /\ w.result = work[j].result /\ w.delay = work[j].delay /\ w.mark = work[j].mark
      /\ w.promise = work[j].promise /\ w.cause = work[j].cause /\ w.link = work[j].link
      /\ w.listing = l /\ Due(w) = Due(work[j]) /\ w.spotted = spotted
  BY <1>3, <1>4 DEF WorkType, Due
<1> HIDE DEF w
<1>7. LimitFits(job[j], w, told[j]) /\ StageFits(job[j], w)
  BY <1>3, <1>6 DEF Fits, LimitFits, StageFits
<1>8. Kind[j] = "metadata" => StatusFits(job[j], w, status[j])
  BY <1>3, <1>6 DEF Fits, StatusFits
<1>9. WalkFits(j, w, stored[j])
  <2>1. WalkFits(j, work[j], stored[j])
    BY <1>3 DEF Fits
  <2>2. Items(w.listing) \subseteq w.spotted /\ w.got \subseteq w.spotted
    BY <1>4, <1>6, <2>1 DEF WalkFits, spotted
  <2>3. /\ Rest(work[j].listing, w.page - 1) \subseteq Rest(w.listing, w.page - 1)
        /\ Rest(work[j].listing, w.page) \subseteq Rest(w.listing, w.page)
    BY <1>3, <1>4, <1>6
  <2>4. Kept(j, w, stored[j]) = Kept(j, work[j], stored[j])
    BY <1>6 DEF Kept
  <2> QED BY <1>6, <2>1, <2>2, <2>3, <2>4 DEF WalkFits
<1>10. Fits(j, job[j], w, status[j], stored[j], told[j])
  BY <1>7, <1>8, <1>9 DEF Fits
<1>11. stored' = stored /\ stored[j] = stored[j] /\ status' = status
  BY <1>1
<1> QED BY <1>1, <1>3, <1>5, <1>6, <1>10, <1>11, WritingStep

LEMMA WithdrawStep == ASSUME Inv, NEW j \in Job, Withdraw(j) PROVE Inv'
<1>1. /\ work[j].page > 1
      /\ UNCHANGED <<job, api, status, stored, stopping, limit, limits, stops, told>>
  BY DEF Withdraw, github
<1> DEFINE old  == work[j].listing
           read == PagesRead(work[j])
<1>2. PICK i \in DOMAIN old :
         work' = [work EXCEPT ![j].listing = Without(old, i), ![j].steady = @ \ {old[i]},
                              ![j].slipped = @ \cup Slips(old, read, i),
                              ![j].changes = @ + 1]
  BY DEF Withdraw
<1> DEFINE l == Without(old, i)
           steady == work[j].steady \ {old[i]}
           slipped == work[j].slipped \cup Slips(old, read, i)
           changes == work[j].changes + 1
           w == [work[j] EXCEPT !.listing = l, !.steady = steady, !.slipped = slipped,
                                !.changes = changes]
<1>3. /\ work[j] \in WorkType(j) /\ old \in Seq(Item[j]) /\ work[j].page \in Nat
      /\ Fits(j, job[j], work[j], status[j], stored[j], told[j]) /\ changes \in Nat
      /\ steady \in SUBSET Item[j] /\ slipped \in SUBSET Item[j]
      /\ status[j] \in StatusType /\ stored[j] \in SUBSET Item[j]
  <2>1. /\ work[j] \in WorkType(j) /\ status[j] \in StatusType /\ stored[j] \in SUBSET Item[j]
        /\ Fits(j, job[j], work[j], status[j], stored[j], told[j])
    BY JobFacts
  <2>2. /\ old \in Seq(Item[j]) /\ work[j].changes \in Nat /\ work[j].page \in Nat
        /\ work[j].steady \in SUBSET Item[j] /\ work[j].slipped \in SUBSET Item[j]
    BY <2>1 DEF WorkType
  <2>3. changes \in Nat
    BY <2>2
  <2>4. Slips(old, read, i) \subseteq Item[j]
    BY <2>2, ListingDomain DEF Slips
  <2> QED BY <2>1, <2>2, <2>3, <2>4
<1>4. /\ l \in Seq(Item[j]) /\ Items(l) \subseteq Items(old)
      /\ \A n \in Int : Rest(old, n) \ ({old[i]} \cup Slips(old, n, i)) \subseteq Rest(l, n)
  BY <1>2, <1>3, WithoutFits
<1>5. SetsAt(work', work, j, w)
  <2>1. DOMAIN work = Job
    BY DEF Inv, TypeOK
  <2>2. DOMAIN work' = Job /\ \A k \in Job \ {j} : work'[k] = work[k]
    BY <1>2, <2>1
  <2>3. work'[j] = w
    BY <1>2, <1>3, <2>1 DEF WorkType
  <2> QED BY <2>1, <2>2, <2>3 DEF SetsAt
<1>12. Due(w) = Due(work[j]) \ ({old[i]} \cup Slips(old, read, i))
  BY <1>3 DEF WorkType, Due
<1> HIDE DEF l, changes, steady, slipped
<1>6. /\ w \in WorkType(j) /\ w.pc = work[j].pc /\ w.page = work[j].page /\ w.got = work[j].got
      /\ w.result = work[j].result /\ w.delay = work[j].delay /\ w.mark = work[j].mark
      /\ w.promise = work[j].promise /\ w.cause = work[j].cause /\ w.link = work[j].link
      /\ w.listing = l /\ w.spotted = work[j].spotted
  BY <1>3, <1>4 DEF WorkType
<1> HIDE DEF w
<1>7. LimitFits(job[j], w, told[j]) /\ StageFits(job[j], w)
  BY <1>3, <1>6 DEF Fits, LimitFits, StageFits
<1>8. Kind[j] = "metadata" => StatusFits(job[j], w, status[j])
  BY <1>3, <1>6 DEF Fits, StatusFits
<1>9. WalkFits(j, w, stored[j])
  <2>1. WalkFits(j, work[j], stored[j])
    BY <1>3 DEF Fits
  <2>2. /\ Items(w.listing) \subseteq w.spotted /\ w.got \subseteq w.spotted
        /\ w.page \in Nat /\ w.page > 1 /\ Due(w) \subseteq Due(work[j])
    BY <1>1, <1>3, <1>4, <1>6, <1>12, <2>1 DEF WalkFits
  <2>3. Kept(j, w, stored[j]) = Kept(j, work[j], stored[j])
    BY <1>6 DEF Kept
  <2>4. CASE w.pc \in {"ask", "flight"}
    <3>1. read = w.page - 1 /\ w.page - 1 \in Int
      BY <1>6, <2>2, <2>4 DEF PagesRead
    <3>2. Rest(old, read) \ ({old[i]} \cup Slips(old, read, i)) \subseteq Rest(l, read)
      BY <1>4, <3>1
    <3>3. Due(work[j]) \subseteq Kept(j, work[j], stored[j]) \cup Rest(old, read)
      BY <1>6, <2>1, <2>4, <3>1 DEF WalkFits
    <3>4. Due(w) \subseteq Kept(j, w, stored[j]) \cup Rest(w.listing, w.page - 1)
      BY <1>6, <1>12, <2>3, <3>1, <3>2, <3>3
    <3> QED BY <2>2, <2>4, <3>4 DEF WalkFits
  <2>5. CASE w.pc = "import"
    <3>1. read = w.page
      BY <1>6, <2>5 DEF PagesRead
    <3>2. Rest(old, read) \ ({old[i]} \cup Slips(old, read, i)) \subseteq Rest(l, read)
      BY <1>4, <2>2, <3>1
    <3>3. Due(work[j]) \subseteq stored[j] \cup work[j].got \cup Rest(old, read)
      BY <1>6, <2>1, <2>5, <3>1 DEF WalkFits
    <3>4. Due(w) \subseteq stored[j] \cup w.got \cup Rest(w.listing, w.page)
      BY <1>6, <1>12, <3>1, <3>2, <3>3
    <3>5. /\ Kind[j] = "account" /\ w.link \in {NoLink, Unsafe} \cup (1..(w.page + 1))
          /\ w.link = NoLink => Due(w) \subseteq stored[j] \cup w.got
      BY <1>6, <2>1, <2>2, <2>5 DEF WalkFits
    <3> QED BY <2>2, <2>5, <3>4, <3>5 DEF WalkFits
  <2>6. CASE w.pc \notin {"ask", "flight", "import"}
    BY <1>6, <2>1, <2>2, <2>6 DEF WalkFits
  <2> QED BY <2>4, <2>5, <2>6
<1>10. Fits(j, job[j], w, status[j], stored[j], told[j])
  BY <1>7, <1>8, <1>9 DEF Fits
<1>11. stored' = stored /\ stored[j] = stored[j] /\ status' = status
  BY <1>1
<1> QED BY <1>1, <1>3, <1>5, <1>6, <1>10, <1>11, WritingStep

-----------------------------------------------------------------------------
(* Steps that touch every job.                                             *)

(* A step of any number of jobs after which every job fits.                *)
LEMMA AllFit ==
    ASSUME Inv, job' \in [Job -> RowType], told' \in [Job -> Nat], DOMAIN work' = Job,
           limit' \in Nat, limits' \in Nat, stops' \in Nat, stopping' \in BOOLEAN,
           api' \in Job \cup {NoOne}, UNCHANGED <<status, stored>>,
           \A k \in Job : /\ work'[k] \in WorkType(k)
                          /\ Fits(k, job'[k], work'[k], status[k], stored[k], told'[k])
    PROVE  Inv'
<1>1. TypeOK'
  BY DEF Inv, TypeOK, WorkType
<1>2. Safety'
  BY DEF Safety
<1> QED BY <1>1, <1>2 DEF Inv

(* A row that waits longer, or less, than it did.                          *)
LEMMA WaitFits ==
    ASSUME Inv, NEW k \in Job, NEW row \in RowType, NEW wait \in Nat,
           row.state = job[k].state, row.error = job[k].error,
           row.state = "queued" => row.wait >= wait, row.state # "queued" => wait = 0
    PROVE  Fits(k, row, work[k], status[k], stored[k], wait)
<1>1. Fits(k, job[k], work[k], status[k], stored[k], told[k])
  BY JobFacts
<1>2. LimitFits(row, work[k], wait) /\ StageFits(row, work[k])
  BY <1>1 DEF Fits, LimitFits, StageFits
<1>3. Kind[k] = "metadata" => StatusFits(row, work[k], status[k])
  BY <1>1 DEF Fits, StatusFits
<1> QED BY <1>1, <1>2, <1>3 DEF Fits

LEMMA RowWait ==
    ASSUME NEW row \in RowType, NEW wait \in Nat
    PROVE  LET r == [row EXCEPT !.wait = wait]
           IN  r \in RowType /\ r.state = row.state /\ r.error = row.error /\ r.wait = wait
BY DEF RowType

LEMMA TickStep == ASSUME Inv, Tick PROVE Inv'
<1>1. /\ job \in [Job -> RowType] /\ told \in [Job -> Nat] /\ DOMAIN work = Job /\ limit \in Nat
      /\ limits \in Nat /\ stops \in Nat /\ stopping \in BOOLEAN /\ api \in Job \cup {NoOne}
  BY DEF Inv, TypeOK
<1>2. /\ limit' = Most(0, limit - 1)
      /\ job' = [j \in Job |-> [job[j] EXCEPT !.wait = Most(0, @ - 1)]]
      /\ told' = [j \in Job |-> Most(0, told[j] - 1)]
      /\ UNCHANGED <<work, api, status, stored, stopping, limits, stops>>
  BY DEF Tick
<1>3. ASSUME NEW k \in Job
      PROVE  /\ job'[k] \in RowType /\ told'[k] \in Nat
             /\ Fits(k, job'[k], work[k], status[k], stored[k], told'[k])
  <2> DEFINE wait == Most(0, job[k].wait - 1)
             row == [job[k] EXCEPT !.wait = wait]
             left == Most(0, told[k] - 1)
  <2>1. job[k].wait \in Nat /\ told[k] \in Nat /\ job[k] \in RowType
    BY <1>1 DEF RowType
  <2>2. /\ job[k].state = "queued" => job[k].wait >= told[k]
        /\ job[k].state # "queued" => told[k] = 0
    BY JobFacts DEF Fits, LimitFits
  <2>3. wait \in Nat /\ left \in Nat
    BY <2>1 DEF Most
  <2>4. job[k].wait >= told[k] => wait >= left
    BY <2>1 DEF Most
  <2>5. told[k] = 0 => left = 0
    BY DEF Most
  <2>6. job'[k] = row /\ told'[k] = left
    BY <1>2
  <2> HIDE DEF wait, left
  <2>7. row \in RowType /\ row.state = job[k].state /\ row.error = job[k].error /\ row.wait = wait
    BY <2>1, <2>3 DEF RowType
  <2> HIDE DEF row
  <2>8. Fits(k, row, work[k], status[k], stored[k], left)
    BY <2>2, <2>3, <2>4, <2>5, <2>7, WaitFits
  <2> QED BY <2>3, <2>6, <2>7, <2>8
<1>4. job' \in [Job -> RowType] /\ told' \in [Job -> Nat]
  <2>1. DOMAIN job' = Job /\ DOMAIN told' = Job
    BY <1>2
  <2>2. job' = [k \in Job |-> job'[k]] /\ told' = [k \in Job |-> told'[k]]
    BY <1>2
  <2> QED BY <1>3, <2>2
<1>5. limit' \in Nat
  BY <1>1, <1>2 DEF Most
<1>6. \A k \in Job : work[k] \in WorkType(k)
  BY JobFacts
<1>7. \A k \in Job : /\ work'[k] \in WorkType(k)
                     /\ Fits(k, job'[k], work'[k], status[k], stored[k], told'[k])
  BY <1>2, <1>3, <1>6
<1> QED BY <1>1, <1>2, <1>4, <1>5, <1>7, AllFit

(* A limit that one job met is told to all that are queued.                *)
LEMMA DelayStep == ASSUME Inv, NEW j \in Job, DelayPending(j) PROVE Inv'
<1>1. /\ job \in [Job -> RowType] /\ told \in [Job -> Nat] /\ DOMAIN work = Job /\ limit \in Nat
      /\ limits \in Nat /\ stops \in Nat /\ stopping \in BOOLEAN /\ api \in Job \cup {NoOne}
  BY DEF Inv, TypeOK
<1> DEFINE delay == work[j].delay
           promise == work[j].promise
           w == [work[j] EXCEPT !.pc = "mark"]
<1>2. /\ work[j].pc = "delay"
      /\ job' = [k \in Job |-> IF job[k].state = "queued"
                               THEN [job[k] EXCEPT !.wait = Most(@, delay)] ELSE job[k]]
      /\ told' = [k \in Job |-> IF job[k].state = "queued"
                                THEN Most(told[k], promise) ELSE told[k]]
      /\ work' = [work EXCEPT ![j] = w]
      /\ UNCHANGED <<api, status, stored, stopping, limit, limits, stops>>
  BY DEF DelayPending, At, github
<1>3. /\ work[j] \in WorkType(j) /\ delay \in Nat /\ promise \in Nat /\ delay >= promise
      /\ Fits(j, job[j], work[j], status[j], stored[j], told[j])
      /\ job[j].state = "running"
  BY <1>2, JobFacts DEF Fits, LimitFits, StageFits, WorkType
<1>4. ASSUME NEW k \in Job
      PROVE  /\ job'[k] \in RowType /\ told'[k] \in Nat
             /\ Fits(k, job'[k], work[k], status[k], stored[k], told'[k])
  <2>1. job[k].wait \in Nat /\ told[k] \in Nat /\ job[k] \in RowType
    BY <1>1 DEF RowType
  <2>2. CASE job[k].state = "queued"
    <3> DEFINE wait == Most(job[k].wait, delay)
               row == [job[k] EXCEPT !.wait = wait]
               left == Most(told[k], promise)
    <3>1. job[k].wait >= told[k]
      BY <2>2, JobFacts DEF Fits, LimitFits
    <3> HIDE DEF delay, promise
    <3>2. wait \in Nat /\ left \in Nat /\ wait >= left
      BY <1>3, <2>1, <3>1 DEF Most
    <3>3. job'[k] = row /\ told'[k] = left
      BY <1>2, <2>2
    <3> HIDE DEF wait, left
    <3>4. row \in RowType /\ row.state = job[k].state /\ row.error = job[k].error /\ row.wait = wait
      BY <2>1, <3>2 DEF RowType
    <3> HIDE DEF row
    <3>5. Fits(k, row, work[k], status[k], stored[k], left)
      BY <2>2, <3>2, <3>4, WaitFits
    <3> QED BY <3>2, <3>3, <3>4, <3>5
  <2>3. CASE job[k].state # "queued"
    <3>1. job'[k] = job[k] /\ told'[k] = told[k]
      BY <1>2, <2>3
    <3> QED BY <2>1, <3>1, JobFacts
  <2> QED BY <2>2, <2>3
<1>5. job' \in [Job -> RowType] /\ told' \in [Job -> Nat]
  <2>1. job' = [k \in Job |-> job'[k]] /\ told' = [k \in Job |-> told'[k]]
    BY <1>2
  <2> QED BY <1>4, <2>1
<1>6. w \in WorkType(j) /\ Fits(j, job'[j], w, status[j], stored[j], told'[j])
  <2>1. /\ w \in WorkType(j) /\ w.pc = "mark" /\ w.page = work[j].page /\ w.got = work[j].got
        /\ w.result = work[j].result /\ w.delay = work[j].delay
        /\ w.promise = work[j].promise /\ w.cause = work[j].cause
        /\ w.listing = work[j].listing /\ Due(w) = Due(work[j])
        /\ w.spotted = work[j].spotted
    BY <1>3 DEF WorkType, PcType, Due
  <2>2. job'[j] = job[j] /\ told'[j] = told[j]
    BY <1>2, <1>3
  <2> HIDE DEF w
  <2>3. LimitFits(job[j], w, told[j]) /\ StageFits(job[j], w)
    BY <1>2, <1>3, <2>1 DEF Fits, LimitFits, StageFits
  <2>4. WalkFits(j, w, stored[j])
    BY <1>2, <1>3, <2>1 DEF Fits, WalkFits
  <2>5. Kind[j] = "metadata" => StatusFits(job[j], w, status[j])
    BY <1>2, <1>3, <2>1 DEF Fits, StatusFits, StageFits
  <2> QED BY <2>1, <2>2, <2>3, <2>4, <2>5 DEF Fits
<1> HIDE DEF w
<1>7. \A k \in Job : /\ work'[k] \in WorkType(k)
                     /\ Fits(k, job'[k], work'[k], status[k], stored[k], told'[k])
  <2>1. ASSUME NEW k \in Job
        PROVE  /\ work'[k] \in WorkType(k)
               /\ Fits(k, job'[k], work'[k], status[k], stored[k], told'[k])
    <3>1. CASE k = j
      BY <1>1, <1>2, <1>6, <3>1
    <3>2. CASE k # j
      <4>1. work'[k] = work[k]
        BY <1>1, <1>2, <3>2
      <4> QED BY <1>4, <4>1, JobFacts
    <3> QED BY <3>1, <3>2
  <2> QED BY <2>1
<1>8. DOMAIN work' = Job
  BY <1>1, <1>2
<1> QED BY <1>1, <1>2, <1>5, <1>7, <1>8, AllFit

(* The process dies.                                                       *)
LEMMA CrashStep == ASSUME Inv, Crash PROVE Inv'
<1>1. /\ job \in [Job -> RowType] /\ told \in [Job -> Nat] /\ DOMAIN work = Job /\ limit \in Nat
      /\ limits \in Nat /\ stops \in Nat
  BY DEF Inv, TypeOK
<1>2. /\ stops' = stops + 1 /\ api' = NoOne /\ stopping' = FALSE
      /\ job' = [j \in Job |-> IF job[j].state = "running"
                               THEN [job[j] EXCEPT !.state = "queued"] ELSE job[j]]
      /\ work' = [j \in Job |-> Idle]
      /\ UNCHANGED <<status, stored, limit, limits, told>>
  BY DEF Crash, github
<1>3. ASSUME NEW k \in Job
      PROVE  /\ job'[k] \in RowType
             /\ Fits(k, job'[k], Idle, status[k], stored[k], told[k])
  <2>1. /\ job[k] \in RowType /\ job[k].wait \in Nat
        /\ Fits(k, job[k], work[k], status[k], stored[k], told[k])
    BY JobFacts DEF RowType
  <2>2. \/ job'[k] = job[k] /\ job[k].state # "running"
        \/ job'[k] = [job[k] EXCEPT !.state = "queued"] /\ job[k].state = "running"
    BY <1>2
  <2>3. /\ job'[k] \in RowType /\ job'[k].state # "running" /\ job'[k].wait = job[k].wait
        /\ job'[k].error = job[k].error
        /\ \/ job'[k].state = job[k].state
           \/ job'[k].state = "queued" /\ job[k].state = "running"
    BY <2>1, <2>2 DEF RowType
  <2>4. PICK row \in RowType : row = job'[k]
    BY <2>3
  <2>5. /\ row.state # "running" /\ row.wait = job[k].wait /\ row.error = job[k].error
        /\ \/ row.state = job[k].state
           \/ row.state = "queued" /\ job[k].state = "running"
    BY <2>3, <2>4
  <2>6. LimitFits(row, Idle, told[k]) /\ StageFits(row, Idle)
    BY <2>1, <2>5, IdleFits DEF Fits, LimitFits, StageFits
  <2>7. WalkFits(k, Idle, stored[k])
    BY IdleFits, FreshFits
  <2>8. Kind[k] = "metadata" => StatusFits(row, Idle, status[k])
    BY <2>1, <2>5, IdleFits DEF Fits, StatusFits
  <2> QED BY <2>3, <2>4, <2>6, <2>7, <2>8 DEF Fits
<1>4. job' \in [Job -> RowType]
  <2>1. job' = [k \in Job |-> job'[k]]
    BY <1>2
  <2> QED BY <1>3, <2>1
<1>5. DOMAIN work' = Job /\ \A k \in Job : work'[k] = Idle /\ told'[k] = told[k]
  BY <1>2
<1>6. \A k \in Job : /\ work'[k] \in WorkType(k)
                     /\ Fits(k, job'[k], work'[k], status[k], stored[k], told'[k])
  BY <1>3, <1>5, IdleFits
<1>7. stops' \in Nat /\ stopping' \in BOOLEAN
  <2>1. stops + 1 \in Nat
    BY <1>1
  <2> QED BY <1>2, <2>1
<1> QED BY <1>1, <1>2, <1>4, <1>5, <1>6, <1>7, AllFit

-----------------------------------------------------------------------------
(* What a step does to what is stored, and to the outcome of a job.        *)

LEMMA StoringSteps ==
    ASSUME Inv, [Next]_vars, stored' # stored
    PROVE  \E j \in Job : Import(j) \/ Replace(j)
<1>1. ASSUME NEW j \in Job, Worker(j) PROVE Import(j) \/ Replace(j) \/ stored' = stored
  BY <1>1 DEF Worker, Claim, Settle, Throw, Ends, Interrupted, Refuse, Garble, Described,
     Describe, Listed, DelayPending, Mark
<1>2. ASSUME NEW j \in Job, Enqueue(j) \/ Send(j) \/ Publish(j) \/ Withdraw(j)
      PROVE  stored' = stored
  BY <1>2 DEF Enqueue, Send, Publish, Withdraw
<1>3. CASE Limit \/ Tick \/ Shutdown \/ Restart \/ Crash
  BY <1>3 DEF Limit, Tick, Shutdown, Restart, Crash
<1>4. CASE UNCHANGED vars
  BY <1>4 DEF vars
<1> QED BY <1>1, <1>2, <1>3, <1>4 DEF Next

(* A whole walk replaces what is stored.                                   *)
LEMMA WalkIsWhole ==
    ASSUME Inv, [Next]_vars, NEW j \in Job, Kind[j] = "metadata", stored'[j] # stored[j]
    PROVE  stored'[j] \subseteq work[j].spotted /\ Due(work[j]) \subseteq stored'[j]
<1>1. DOMAIN stored = Job
  BY DEF Inv, TypeOK
<1>2. PICK k \in Job : Import(k) \/ Replace(k)
  BY StoringSteps
<1>3. CASE Import(k)
  <2>1. work[k].pc = "import" /\ stored' = [stored EXCEPT ![k] = @ \cup work[k].got]
    BY <1>3 DEF Import, At
  <2>2. Kind[k] = "account"
    BY <2>1, PageFacts
  <2>3. k # j
    BY <2>2
  <2>4. stored'[j] = stored[j]
    BY <1>1, <2>1, <2>3
  <2> QED BY <2>4
<1>4. CASE Replace(k)
  <2>1. /\ work[k].pc = "replace"
        /\ stored' = stored \/ stored' = [stored EXCEPT ![k] = work[k].got]
    BY <1>4 DEF Replace, At
  <2>2. k = j /\ stored'[j] = work[j].got
    BY <1>1, <2>1
  <2>3. WalkFits(j, work[j], stored[j])
    BY JobFacts DEF Fits
  <2> QED BY <2>1, <2>2, <2>3 DEF WalkFits
<1> QED BY <1>2, <1>3, <1>4

(* A step that ends no job with success.                                   *)
Plain(j) == work'[j].result = work[j].result \/ work'[j].result # "success"

LEMMA PlainEnds ==
    ASSUME Inv, NEW j \in Job, NEW k \in Job, NEW w, work' = [work EXCEPT ![k] = w],
           w.result = work[k].result \/ w.result # "success"
    PROVE  Plain(j)
<1>1. DOMAIN work = Job
  BY DEF Inv, TypeOK
<1>2. CASE j = k
  BY <1>1, <1>2 DEF Plain
<1>3. CASE j # k
  BY <1>1, <1>3 DEF Plain
<1> QED BY <1>2, <1>3

(* Of the steps of an account job only Import may make it succeed.         *)
LEMMA PlainSteps ==
    ASSUME Inv, [Next]_vars, NEW j \in Job, Kind[j] = "account"
    PROVE  Import(j) \/ Plain(j)
<1>1. DOMAIN work = Job
  BY DEF Inv, TypeOK
<1>2. ASSUME work' = work PROVE Plain(j)
  BY <1>2 DEF Plain
<1>3. ASSUME NEW k \in Job, k # j, \E w : work' = [work EXCEPT ![k] = w] PROVE Plain(j)
  BY <1>1, <1>3 DEF Plain
<1>4. /\ Idle.result # "success" /\ Returns("requeue").result # "success"
      /\ Fails("api").result # "success"
  <2>1. 0 \in Nat
    OBVIOUS
  <2> QED BY <2>1, IdleFits, EndsFit
<1>5. work[j] \in WorkType(j)
  BY JobFacts
<1>6. ASSUME Claim(j) PROVE Plain(j)
  <2> DEFINE w == [Idle EXCEPT !.pc = "ask", !.page = IF Kind[j] = "account" THEN 1 ELSE 0]
  <2>1. work' = [work EXCEPT ![j] = w]
    BY <1>6 DEF Claim
  <2>2. w.result = Idle.result
    BY DEF Idle
  <2> QED BY <1>4, <2>1, <2>2, PlainEnds
<1>7. ASSUME Settle(j) \/ Throw(j) PROVE Plain(j)
  <2>1. work' = [work EXCEPT ![j] = Idle]
    BY <1>7 DEF Settle, Throw, Ends
  <2> QED BY <1>4, <2>1, PlainEnds
<1>8. ASSUME NEW l, work' = [work EXCEPT ![j].pc = l] PROVE Plain(j)
  BY <1>1, <1>5, <1>8 DEF Plain, WorkType
<1>9. ASSUME Send(j) \/ Interrupted(j) PROVE Plain(j)
  <2>1. \/ work' = [work EXCEPT ![j] = Returns("requeue")]
        \/ work' = [work EXCEPT ![j].pc = "flight"]
    BY <1>9 DEF Send, Interrupted
  <2> QED BY <1>4, <1>8, <2>1, PlainEnds
<1>10. ASSUME Refuse(j) PROVE Plain(j)
  <2>1. limit \in Nat
    BY DEF Inv, TypeOK
  <2>2. PICK r \in IF limit > 0 THEN LimitReplies \cup {Reply(28, 0)} ELSE FailureReplies :
           work' = [work EXCEPT ![j] = AfterRefusal(j, r)]
    BY <1>10 DEF Refuse
  <2>3. \/ AfterRefusal(j, r) = Delays(RateLimitBackoff(r, j), Promise(r))
        \/ AfterRefusal(j, r) = Retries(TransientBackoff(j))
        \/ AfterRefusal(j, r) = Fails(Cause(r))
    BY DEF AfterRefusal
  <2>4. AfterRefusal(j, r).result # "success"
    BY <2>3 DEF Delays, Retries, Fails, Idle
  <2> QED BY <2>2, <2>4, PlainEnds
<1>11. ASSUME Garble(j) PROVE Plain(j)
  BY <1>4, <1>11, PlainEnds DEF Garble
<1>12. ASSUME Described(j) \/ Mark(j) \/ DelayPending(j) PROVE Plain(j)
  BY <1>8, <1>12 DEF Described, Mark, DelayPending
<1>13. ASSUME Describe(j) PROVE Plain(j)
  BY <1>1, <1>5, <1>13 DEF Describe, Plain, WorkType
<1>14. ASSUME Publish(j) \/ Withdraw(j) PROVE Plain(j)
  <2>1. CASE Publish(j)
    <3>1. PICK x \in Item[j] \ Items(work[j].listing), i \in 0..Len(work[j].listing) :
             work' = [work EXCEPT ![j].listing = InsertedAt(@, i, x),
                                  ![j].spotted = @ \cup {x}, ![j].changes = @ + 1]
      BY <2>1 DEF Publish
    <3> QED BY <1>1, <1>5, <3>1 DEF Plain, WorkType
  <2>2. CASE Withdraw(j)
    <3>1. PICK i \in DOMAIN work[j].listing :
             LET l == work[j].listing
             IN  work' = [work EXCEPT
                    ![j].listing = Without(l, i), ![j].steady = @ \ {l[i]},
                    ![j].slipped = @ \cup Slips(l, PagesRead(work[j]), i), ![j].changes = @ + 1]
      BY <2>2 DEF Withdraw
    <3> QED BY <1>1, <1>5, <3>1 DEF Plain, WorkType
  <2> QED BY <1>14, <2>1, <2>2
<1>15. ASSUME Listed(j) PROVE Plain(j)
  <2>1. Kind[j] # "metadata"
    OBVIOUS
  <2>2. PICK l \in IF work[j].page = 1 THEN Listings(j) ELSE {work[j].listing} :
        \E link \in Links(l, work[j].page) :
           work' = [work EXCEPT ![j] =
              [[work[j] EXCEPT !.listing = l,
                   !.steady  = IF work[j].page = 1 THEN Items(l) ELSE @,
                   !.spotted = IF work[j].page = 1 THEN Items(l) ELSE @]
                  EXCEPT !.pc = "import", !.got = Page(l, work[j].page), !.link = link]]
    BY <1>15, <2>1 DEF Listed
  <2>3. PICK link \in Links(l, work[j].page) :
           work' = [work EXCEPT ![j] =
              [[work[j] EXCEPT !.listing = l,
                   !.steady  = IF work[j].page = 1 THEN Items(l) ELSE @,
                   !.spotted = IF work[j].page = 1 THEN Items(l) ELSE @]
                  EXCEPT !.pc = "import", !.got = Page(l, work[j].page), !.link = link]]
    BY <2>2
  <2>4. work'[j].result = work[j].result
    BY <1>1, <1>5, <2>3 DEF WorkType
  <2> QED BY <2>4 DEF Plain
<1>16. ASSUME Replace(j) PROVE FALSE
  <2>1. WalkFits(j, work[j], stored[j])
    BY JobFacts DEF Fits
  <2> QED BY <1>16, <2>1 DEF WalkFits, Replace, At
<1>17. ASSUME NEW k \in Job, k # j,
              Enqueue(k) \/ Send(k) \/ Worker(k) \/ Publish(k) \/ Withdraw(k)
       PROVE  Plain(j)
  <2>1. work'[j] = work[j]
    BY <1>1, <1>17 DEF Enqueue, Send, Publish, Withdraw, Worker, Claim, Settle, Throw, Ends,
       Interrupted, Refuse, Garble, Described, Describe, Listed, Import, Replace,
       DelayPending, Mark
  <2> QED BY <2>1 DEF Plain
<1>18. ASSUME Crash PROVE Plain(j)
  <2>1. work'[j] = Idle
    BY <1>18 DEF Crash
  <2> QED BY <1>4, <2>1 DEF Plain
<1>19. ASSUME Enqueue(j) \/ Limit \/ Tick \/ Shutdown \/ Restart \/ UNCHANGED vars PROVE Plain(j)
  BY <1>2, <1>19 DEF Enqueue, Limit, Tick, Shutdown, Restart, vars
<1>20. ASSUME Worker(j) PROVE Import(j) \/ Plain(j)
  BY <1>6, <1>7, <1>9, <1>10, <1>11, <1>12, <1>13, <1>15, <1>16, <1>20 DEF Worker
<1> QED BY <1>9, <1>14, <1>17, <1>18, <1>19, <1>20 DEF Next

LEMMA ImportIsComplete ==
    ASSUME Inv, NEW j \in Job, Import(j), work'[j].result = "success"
    PROVE  Due(work[j]) \subseteq stored'[j]
<1>1. /\ work[j].pc = "import" /\ DOMAIN work = Job /\ DOMAIN stored = Job
      /\ work' = [work EXCEPT ![j] = Follow(j, @, @.link)]
      /\ stored' = [stored EXCEPT ![j] = @ \cup work[j].got]
  BY DEF Import, At, Inv, TypeOK
<1> DEFINE here == stored[j] \cup work[j].got
<1>2. work'[j] = Follow(j, work[j], work[j].link) /\ stored'[j] = here
  BY <1>1
<1>3. Due(work[j]) \subseteq Kept(j, work[j], here)
  BY <1>1, <1>2, PageFacts, FollowFits
<1>4. Kind[j] = "account"
  BY <1>1, PageFacts
<1> QED BY <1>2, <1>3, <1>4 DEF Kept

-----------------------------------------------------------------------------
(* The inductive invariant.                                                *)

LEMMA InitSafe == Init => Inv
<1> SUFFICES ASSUME Init PROVE Inv
  OBVIOUS
<1> DEFINE row == Row("absent", 0, 0, "none")
<1>1. row \in RowType /\ row.state = "absent" /\ row.error = "none"
  <2>1. 0 \in 0..RetryLimit
    BY Parameters
  <2> QED BY <2>1, RowFits
<1> HIDE DEF row
<1>2. /\ job = [j \in Job |-> row] /\ work = [j \in Job |-> Idle]
      /\ api = NoOne /\ status = [j \in Job |-> "unknown"] /\ stored = [j \in Job |-> {}]
      /\ stopping = FALSE /\ limit = 0 /\ limits = 0 /\ stops = 0
      /\ told = [j \in Job |-> 0]
  BY DEF Init, row
<1>3. ASSUME NEW j \in Job PROVE Fits(j, row, Idle, "unknown", {}, 0)
  <2>1. LimitFits(row, Idle, 0) /\ StageFits(row, Idle)
    BY <1>1, IdleFits DEF LimitFits, StageFits
  <2>2. WalkFits(j, Idle, {})
    BY IdleFits, FreshFits
  <2>3. StatusFits(row, Idle, "unknown")
    BY <1>1, IdleFits DEF StatusFits
  <2> QED BY <2>1, <2>2, <2>3 DEF Fits
<1>4. TypeOK
  <2>1. /\ job \in [Job -> RowType] /\ told \in [Job -> Nat] /\ status \in [Job -> StatusType]
        /\ DOMAIN work = Job /\ DOMAIN stored = Job
    BY <1>1, <1>2 DEF StatusType
  <2>2. \A j \in Job : work[j] \in WorkType(j) /\ stored[j] \in SUBSET Item[j]
    BY <1>2, IdleFits
  <2> QED BY <1>2, <2>1, <2>2 DEF TypeOK, WorkType
<1>5. Safety
  BY <1>2, <1>3 DEF Safety
<1> QED BY <1>4, <1>5 DEF Inv

LEMMA NextSafe == Inv /\ [Next]_vars => Inv'
<1> SUFFICES ASSUME Inv, [Next]_vars PROVE Inv'
  OBVIOUS
<1>1. ASSUME NEW j \in Job, Enqueue(j) \/ Send(j) \/ Publish(j) \/ Withdraw(j) PROVE Inv'
  BY <1>1, EnqueueStep, SendStep, PublishStep, WithdrawStep
<1>2. ASSUME NEW j \in Job, Worker(j) PROVE Inv'
  BY <1>2, ClaimStep, SettleStep, ThrowStep, InterruptedStep, RefuseStep, GarbleStep,
     DescribedStep, DescribeStep, ListedStep, ImportStep, ReplaceStep, DelayStep, MarkStep
     DEF Worker
<1>3. ASSUME UNCHANGED <<job, work, api, status, stored, told>>,
             limit' \in Nat, limits' \in Nat, stops' \in Nat, stopping' \in BOOLEAN
      PROVE  Inv'
  BY <1>3 DEF Inv, TypeOK, Safety, WorkType
<1>4. /\ limit \in Nat /\ limits \in Nat /\ stops \in Nat /\ stopping \in BOOLEAN
      /\ MaxLimit \in Nat
  BY Parameters DEF Inv, TypeOK
<1>5. CASE Limit
  <2>1. limit' \in Nat /\ limits' \in Nat
    BY <1>4, <1>5 DEF Limit
  <2> QED BY <1>3, <1>4, <1>5, <2>1 DEF Limit
<1>6. CASE Shutdown
  BY <1>3, <1>4, <1>6 DEF Shutdown, github
<1>7. CASE Restart
  BY <1>3, <1>4, <1>7 DEF Restart, github
<1>8. CASE UNCHANGED vars
  BY <1>3, <1>4, <1>8 DEF vars
<1> QED BY <1>1, <1>2, <1>5, <1>6, <1>7, <1>8, TickStep, CrashStep DEF Next

(* Whatever GitHub answers and lists, and whenever the process ends: rows, *)
(* workers, statuses and what is stored stay in step.                      *)
THEOREM GitHubSyncSafety == Spec => []Inv
<1>1. Init => Inv
  BY InitSafe
<1>2. Inv /\ [Next]_vars => Inv'
  BY NextSafe
<1> QED BY <1>1, <1>2, PTL DEF Spec

(* Metadata and account jobs keep their state within its types.            *)
THEOREM GitHubSyncTypes == Spec => []TypeOK
<1>1. Inv => TypeOK
  BY DEF Inv
<1> QED BY <1>1, GitHubSyncSafety, PTL

(* delay_pending_github_jobs and the backoff: no job that was told to wait *)
(* may be claimed before the time it was told is over.                     *)
THEOREM GitHubSyncLimitIsHonoured == Spec => []LimitIsHonoured
<1>1. Inv => LimitIsHonoured
  BY DEF Inv, Safety, Fits, LimitFits, LimitIsHonoured
<1> QED BY <1>1, GitHubSyncSafety, PTL

(* is_github_rate_limited: no job fails for good because of a limit.       *)
THEOREM GitHubSyncLimitIsNoFailure == Spec => []LimitIsNoFailure
<1>1. Inv => LimitIsNoFailure
  BY DEF Inv, Safety, Fits, LimitFits, LimitIsNoFailure
<1> QED BY <1>1, GitHubSyncSafety, PTL

(* sync_metadata: metadata_status says how the job ended.                  *)
THEOREM GitHubSyncStatusIsTruthful == Spec => []StatusIsTruthful
<1>1. Inv => StatusIsTruthful
  BY DEF Inv, Safety, Fits, StatusFits, StatusIsTruthful
<1> QED BY <1>1, GitHubSyncSafety, PTL

(* replace_releases stores one whole walk: nothing that was not listed     *)
(* during it, and all that was listed from its first page to its last,     *)
(* except what a withdrawal moved onto a page that had been read.          *)
THEOREM GitHubSyncReleasesAreOneWalk == Spec => ReleasesAreOneWalk
<1>1. Inv /\ [Next]_vars =>
         [\A j \in Job : Kind[j] = "metadata" /\ stored'[j] # stored[j] =>
             stored'[j] \subseteq work[j].spotted /\ Due(work[j]) \subseteq stored'[j]]_vars
  BY WalkIsWhole
<1> QED BY <1>1, GitHubSyncSafety, PTL DEF Spec, ReleasesAreOneWalk

(* import_account: an account job that succeeds has imported all that was  *)
(* listed from its first page to its last, except what a withdrawal moved  *)
(* onto a page that had been read.                                         *)
THEOREM GitHubSyncAccountIsComplete == Spec => AccountIsComplete
<1>1. Inv /\ [Next]_vars =>
         [\A j \in Job : /\ Kind[j] = "account"
                         /\ work[j].result # "success" /\ work'[j].result = "success"
                         => Due(work[j]) \subseteq stored'[j]]_vars
  BY PlainSteps, ImportIsComplete DEF Plain
<1> QED BY <1>1, GitHubSyncSafety, PTL DEF Spec, AccountIsComplete
-----------------------------------------------------------------------------
(* Requests: one at a time, after bounded waits, for one page after the    *)
(* other.                                                                  *)
LongestWait == Most(MaxDelay, Most(ThrowDelay, 16 * Base + Spread))

ApiIsUsed == \A j \in Job : api = j <=> work[j].pc = "flight"
WaitFinite(row, w) == row.wait <= LongestWait /\ w.delay <= LongestWait
WaitsAreBounded == \A j \in Job : WaitFinite(job[j], work[j])
WalksAreBounded == \A j \in Job : work[j].page <= MaxPages
Bounded == ApiIsUsed /\ WaitsAreBounded /\ WalksAreBounded

PagesAscend ==
    [][\A j \in Job : work[j].pc \notin {"none", "ask"} /\ work'[j].pc = "ask"
                      => work'[j].page = work[j].page + 1]_vars

(* What a step of a worker does to the API mutex, and to its own walk.     *)
Alone(j) == \A k \in Job \ {j} : work'[k] = work[k]
UsesApi(j) ==
    \/ api' = api /\ (work[j].pc = "flight" <=> work'[j].pc = "flight")
    \/ work[j].pc = "flight" /\ work'[j].pc # "flight" /\ api' = NoOne
    \/ api = NoOne /\ work'[j].pc = "flight" /\ api' = j
WaitsOn(j) == work'[j].delay <= LongestWait
WalksOn(j) ==
    /\ work'[j].page <= MaxPages
    /\ work[j].pc \notin {"none", "ask"} /\ work'[j].pc = "ask"
       => work'[j].page = work[j].page + 1
Goes(j) == Alone(j) /\ UsesApi(j) /\ WaitsOn(j) /\ WalksOn(j)

LEMMA Longest ==
    /\ LongestWait \in Nat /\ MaxDelay <= LongestWait /\ ThrowDelay <= LongestWait
    /\ 16 * Base + Spread <= LongestWait
<1>1. MaxDelay \in Int /\ ThrowDelay \in Int /\ 16 * Base + Spread \in Int /\ MaxDelay >= 0
  BY Parameters
<1> QED BY <1>1 DEF LongestWait, Most

(* No wait is longer than the longest.                                     *)
LEMMA BackoffIsBounded ==
    ASSUME NEW j \in Job, NEW r, ReplyFits(r)
    PROVE  RateLimitBackoff(r, j) <= LongestWait
<1> DEFINE d == (IF r.retry > 0 THEN r.retry
                 ELSE IF r.reset > 0 THEN r.reset + Margin ELSE Fallback) + (j % Spread)
<1>1. d \in Nat
  BY Jitter, Parameters DEF ReplyFits
<1>2. RateLimitBackoff(r, j) = Most(MinDelay, Least(MaxDelay, d))
  BY DEF RateLimitBackoff, Clamp
<1>3. MinDelay \in Int /\ MaxDelay \in Int /\ MinDelay <= MaxDelay
  BY Parameters
<1> HIDE DEF d
<1>4. RateLimitBackoff(r, j) <= MaxDelay /\ RateLimitBackoff(r, j) \in Int
  BY <1>1, <1>2, <1>3 DEF Most, Least
<1> QED BY <1>3, <1>4, Longest

LEMMA TransientIsBounded ==
    ASSUME NEW j \in Job, job[j].attempts \in Nat PROVE TransientBackoff(j) <= LongestWait
<1> DEFINE n == Most(1, Least(5, job[j].attempts))
<1>1. n \in 1..5
  BY DEF Most, Least
<1> HIDE DEF n
<1>2. Doubled[n] \in 1..16
  BY <1>1 DEF Doubled
<1>3. j % Spread \in 0..(Spread - 1) /\ Base \in Nat /\ Spread \in Nat
  <2>1. j \in Nat /\ Spread \in Nat \ {0}
    BY Parameters
  <2> QED BY <2>1, Parameters
<1>4. \A d \in 1..16 : Base * d <= 16 * Base
  BY <1>3
<1>5. Base * Doubled[n] <= 16 * Base /\ Base * Doubled[n] \in Nat
  BY <1>2, <1>3, <1>4
<1>6. TransientBackoff(j) = Base * Doubled[n] + (j % Spread)
  BY DEF TransientBackoff, n
<1>7. TransientBackoff(j) <= 16 * Base + Spread /\ TransientBackoff(j) \in Nat
  BY <1>3, <1>5, <1>6
<1> QED BY <1>3, <1>7, Longest

LEMMA WorkFacts ==
    ASSUME Inv, Bounded, NEW j \in Job
    PROVE  /\ work[j] \in WorkType(j) /\ work[j].page \in Nat /\ work[j].delay \in Nat
           /\ work[j].page <= MaxPages /\ work[j].delay <= LongestWait
           /\ api = j <=> work[j].pc = "flight"
           /\ DOMAIN work = Job /\ j # NoOne
BY JobFacts, Parameters DEF Bounded, ApiIsUsed, WaitsAreBounded, WaitFinite, WalksAreBounded,
   WorkType, Inv, TypeOK

(* A worker whose new place, page and delay are known.                     *)
LEMMA Going ==
    ASSUME Inv, Bounded, NEW j \in Job, NEW w, work' = [work EXCEPT ![j] = w],
           \/ api' = api /\ (work[j].pc = "flight" <=> w.pc = "flight")
           \/ work[j].pc = "flight" /\ w.pc # "flight" /\ api' = NoOne
           \/ api = NoOne /\ w.pc = "flight" /\ api' = j,
           w.delay <= LongestWait, w.page <= MaxPages,
           \/ w.pc # "ask"
           \/ work[j].pc = "none"
           \/ work[j].pc # "none" /\ w.page = work[j].page + 1
    PROVE  Goes(j)
<1>1. work'[j] = w /\ Alone(j)
  BY WorkFacts DEF Alone
<1> QED BY <1>1 DEF Goes, UsesApi, WaitsOn, WalksOn

(* A request, or a job, that ends.                                         *)
LEMMA Ending ==
    ASSUME Inv, Bounded, NEW j \in Job, NEW w, work' = [work EXCEPT ![j] = w],
           w.page = 0, w.pc \in {"none", "settle", "mark", "delay"}, w.delay <= LongestWait,
           \/ api' = api /\ work[j].pc # "flight"
           \/ api' = NoOne /\ work[j].pc = "flight"
    PROVE  Goes(j)
<1>1. 0 <= MaxPages
  BY Parameters
<1> QED BY <1>1, Going

LEMMA SendGoes == ASSUME Inv, Bounded, NEW j \in Job, Send(j) PROVE Goes(j)
<1>1. work[j].pc = "ask" /\ api = NoOne
  BY DEF Send, At
<1>2. CASE stopping
  <2> DEFINE w == Returns("requeue")
  <2>1. work' = [work EXCEPT ![j] = w] /\ api' = api
    BY <1>2 DEF Send
  <2>2. Fresh(w) /\ w.pc = "settle" /\ w.delay = 0
    BY EndsFit
  <2> HIDE DEF w
  <2>3. w.page = 0 /\ w.delay <= LongestWait
    BY <2>2, Longest DEF Fresh
  <2> QED BY <1>1, <2>1, <2>2, <2>3, Ending
<1>3. CASE ~stopping
  <2> DEFINE w == [work[j] EXCEPT !.pc = "flight"]
  <2>1. work' = [work EXCEPT ![j] = w] /\ api' = j
    BY <1>3 DEF Send
  <2>2. w.pc = "flight" /\ w.page = work[j].page /\ w.delay = work[j].delay
    BY WorkFacts DEF WorkType
  <2> HIDE DEF w
  <2> QED BY <1>1, <2>1, <2>2, WorkFacts, Going
<1> QED BY <1>2, <1>3

LEMMA RefuseGoes == ASSUME Inv, Bounded, NEW j \in Job, Refuse(j) PROVE Goes(j)
<1>1. work[j].pc = "flight" /\ api' = NoOne /\ limit \in Nat
  BY DEF Refuse, At, Inv, TypeOK
<1>2. PICK r \in IF limit > 0 THEN LimitReplies \cup {Reply(28, 0)} ELSE FailureReplies :
         work' = [work EXCEPT ![j] = AfterRefusal(j, r)]
  BY DEF Refuse
<1>3. ReplyFits(r)
  BY <1>1, <1>2, RepliesFit
<1>4. CASE AfterRefusal(j, r) = Delays(RateLimitBackoff(r, j), Promise(r))
  <2> DEFINE w == Delays(RateLimitBackoff(r, j), Promise(r))
  <2>1. w.page = 0 /\ w.pc = "delay" /\ w.delay = RateLimitBackoff(r, j)
    BY <1>3, BackoffKeepsPromise, EndsFit DEF Fresh
  <2>2. work' = [work EXCEPT ![j] = w]
    BY <1>2, <1>4
  <2> HIDE DEF w
  <2> QED BY <1>1, <1>3, <2>1, <2>2, BackoffIsBounded, Ending
<1>5. CASE AfterRefusal(j, r) = Retries(TransientBackoff(j))
  <2> DEFINE w == Retries(TransientBackoff(j))
  <2>1. job[j].attempts \in Nat
    <3>1. job[j].attempts \in 0..RetryLimit
      BY JobFacts DEF RowType
    <3> QED BY <3>1, Parameters
  <2>2. w.page = 0 /\ w.pc = "mark" /\ w.delay = TransientBackoff(j)
    BY IdleFits DEF Retries, Idle
  <2>3. work' = [work EXCEPT ![j] = w]
    BY <1>2, <1>5
  <2> HIDE DEF w
  <2> QED BY <1>1, <2>1, <2>2, <2>3, TransientIsBounded, Ending
<1>6. CASE AfterRefusal(j, r) = Fails("api")
  <2> DEFINE w == Fails("api")
  <2>1. w.page = 0 /\ w.pc = "mark" /\ w.delay = 0
    BY EndsFit DEF Fresh
  <2>2. work' = [work EXCEPT ![j] = w]
    BY <1>2, <1>6
  <2> HIDE DEF w
  <2>3. w.delay <= LongestWait
    BY <2>1, Longest
  <2> QED BY <1>1, <2>1, <2>2, <2>3, Ending
<1> QED BY <1>3, <1>4, <1>5, <1>6 DEF AfterRefusal, Cause, ReplyFits

(* The walk stays within the pages, and every page is the next.            *)
LEMMA FollowGoes ==
    ASSUME NEW j \in Job, NEW w \in WorkType(j), NEW link,
           link \in {NoLink, Unsafe} \cup (1..(w.page + 1)),
           w.page <= MaxPages, w.delay <= LongestWait
    PROVE  LET v == Follow(j, w, link)
           IN  /\ v.pc \notin {"none", "flight"} /\ v.page <= MaxPages
               /\ v.delay <= LongestWait
               /\ v.pc = "ask" => v.page = w.page + 1
<1> DEFINE v == Follow(j, w, link)
<1>0. w.page \in Nat /\ MaxPages \in Nat /\ 0 <= LongestWait
  BY Parameters, Longest DEF WorkType
<1>1. CASE v = Fails("api")
  <2>1. v.page = 0 /\ v.pc = "mark" /\ v.delay = 0
    BY <1>1, EndsFit DEF Fresh
  <2> HIDE DEF v
  <2>2. /\ v.pc \notin {"none", "flight", "ask"} /\ v.page <= MaxPages
        /\ v.delay <= LongestWait
    BY <1>0, <2>1
  <2> QED BY <2>2 DEF v
<1>2. CASE v = Returns("success")
  <2>1. v.page = 0 /\ v.pc = "settle" /\ v.delay = 0
    BY <1>2, EndsFit DEF Fresh
  <2> HIDE DEF v
  <2>2. /\ v.pc \notin {"none", "flight", "ask"} /\ v.page <= MaxPages
        /\ v.delay <= LongestWait
    BY <1>0, <2>1
  <2> QED BY <2>2 DEF v
<1>3. CASE v = [w EXCEPT !.pc = "replace"]
  <2>1. v.page = w.page /\ v.pc = "replace" /\ v.delay = w.delay
    BY <1>3 DEF WorkType
  <2> HIDE DEF v
  <2>2. /\ v.pc \notin {"none", "flight", "ask"} /\ v.page <= MaxPages
        /\ v.delay <= LongestWait
    BY <2>1
  <2> QED BY <2>2 DEF v
<1>4. CASE /\ link \in 1..(w.page + 1) /\ link \notin 1..w.page /\ ~(w.page + 1 > MaxPages)
           /\ v = [w EXCEPT !.pc = "ask", !.page = link]
  <2>0. link = w.page + 1 /\ link <= MaxPages
    BY <1>0, <1>4
  <2>1. v.page = link /\ v.pc = "ask" /\ v.delay = w.delay
    BY <1>4 DEF WorkType
  <2> HIDE DEF v
  <2>2. /\ v.pc \notin {"none", "flight"} /\ v.page <= MaxPages
        /\ v.delay <= LongestWait /\ v.page = w.page + 1
    BY <2>0, <2>1
  <2> QED BY <2>2 DEF v
<1>5. \/ v = Fails("api") \/ v = Returns("success") \/ v = [w EXCEPT !.pc = "replace"]
      \/ /\ link \in 1..(w.page + 1) /\ link \notin 1..w.page /\ ~(w.page + 1 > MaxPages)
         /\ v = [w EXCEPT !.pc = "ask", !.page = link]
  BY DEF Follow, Visited
<1> QED BY <1>1, <1>2, <1>3, <1>4, <1>5

LEMMA ListedGoes == ASSUME Inv, Bounded, NEW j \in Job, Listed(j) PROVE Goes(j)
<1>1. work[j].pc = "flight" /\ work[j].page > 0 /\ api' = NoOne
  BY DEF Listed, At
<1>2. PICK l \in IF work[j].page = 1 THEN Listings(j) ELSE {work[j].listing} :
         \E link \in Links(l, work[j].page) :
         LET page == Page(l, work[j].page)
             begun == [work[j] EXCEPT !.listing = l,
                          !.steady  = IF work[j].page = 1 THEN Items(l) ELSE @,
                          !.spotted = IF work[j].page = 1 THEN Items(l) ELSE @]
         IN  work' = [work EXCEPT ![j] =
                 IF Kind[j] = "metadata"
                 THEN Follow(j, [begun EXCEPT !.got = @ \cup page,
                                     !.twice = @ \/ (page \cap work[j].got # {})], link)
                 ELSE [begun EXCEPT !.pc = "import", !.got = page, !.link = link]]
  BY DEF Listed
<1> DEFINE page == Page(l, work[j].page)
           steady == IF work[j].page = 1 THEN Items(l) ELSE work[j].steady
           spotted == IF work[j].page = 1 THEN Items(l) ELSE work[j].spotted
           begun == [work[j] EXCEPT !.listing = l, !.steady = steady, !.spotted = spotted]
           merged == [begun EXCEPT !.got = @ \cup page,
                                   !.twice = @ \/ (page \cap work[j].got # {})]
<1>3. PICK link \in Links(l, work[j].page) :
         work' = [work EXCEPT ![j] =
                 IF Kind[j] = "metadata" THEN Follow(j, merged, link)
                 ELSE [begun EXCEPT !.pc = "import", !.got = page, !.link = link]]
  BY <1>2
<1>4. /\ work[j] \in WorkType(j) /\ work[j].page \in Nat /\ work[j].page <= MaxPages
      /\ work[j].delay <= LongestWait
  BY WorkFacts
<1>5. l \in Seq(Item[j]) /\ Items(l) \subseteq Item[j]
  BY <1>1, <1>2, ListingsFit, ListingDomain
<1>6. link \in {NoLink, Unsafe} \cup (1..(work[j].page + 1))
  BY <1>4, <1>5, LinksFit
<1>7. CASE Kind[j] = "metadata"
  <2>1. page \subseteq Item[j] /\ steady \subseteq Item[j] /\ spotted \subseteq Item[j]
    <3>1. page \subseteq Items(l)
      BY <1>4, <1>5, PagesFit
    <3> QED BY <1>4, <1>5, <3>1 DEF WorkType
  <2>2. begun \in WorkType(j) /\ begun.page = work[j].page /\ begun.delay = work[j].delay
    <3> HIDE DEF steady, spotted
    <3> QED BY <1>4, <1>5, <2>1 DEF WorkType
  <2>3. /\ merged \in WorkType(j) /\ merged.page = work[j].page
        /\ merged.delay = work[j].delay
    <3> HIDE DEF begun, page
    <3> QED BY <2>1, <2>2 DEF WorkType
  <2>4. work' = [work EXCEPT ![j] = Follow(j, merged, link)]
    BY <1>3, <1>7
  <2> HIDE DEF merged
  <2> DEFINE v == Follow(j, merged, link)
  <2>5. /\ v.pc \notin {"none", "flight"} /\ v.page <= MaxPages /\ v.delay <= LongestWait
        /\ v.pc = "ask" => v.page = work[j].page + 1
    BY <1>4, <1>6, <2>3, FollowGoes
  <2> HIDE DEF v
  <2>6. work' = [work EXCEPT ![j] = v]
    BY <2>4 DEF v
  <2> QED BY <1>1, <2>5, <2>6, Going
<1>8. CASE Kind[j] # "metadata"
  <2> DEFINE w == [begun EXCEPT !.pc = "import", !.got = page, !.link = link]
  <2>1. work' = [work EXCEPT ![j] = w]
    BY <1>3, <1>8
  <2>2. w.pc = "import" /\ w.page = work[j].page /\ w.delay = work[j].delay
    BY <1>4 DEF WorkType
  <2> HIDE DEF w
  <2> QED BY <1>1, <1>4, <2>1, <2>2, Going
<1> QED BY <1>7, <1>8

LEMMA ImportGoes == ASSUME Inv, Bounded, NEW j \in Job, Import(j) PROVE Goes(j)
<1> DEFINE w == Follow(j, work[j], work[j].link)
<1>1. work[j].pc = "import" /\ work' = [work EXCEPT ![j] = w] /\ api' = api
  BY DEF Import, At
<1>2. work[j].link \in {NoLink, Unsafe} \cup (1..(work[j].page + 1))
  BY <1>1, JobFacts DEF Fits, WalkFits
<1>3. /\ w.pc \notin {"none", "flight"} /\ w.page <= MaxPages /\ w.delay <= LongestWait
      /\ w.pc = "ask" => w.page = work[j].page + 1
  BY <1>2, WorkFacts, FollowGoes
<1> HIDE DEF w
<1> QED BY <1>1, <1>3, Going

(* The other steps of a worker, and the changes of its listing.            *)
LEMMA OthersGo ==
    ASSUME Inv, Bounded, NEW j \in Job,
           \/ Enqueue(j) \/ Claim(j) \/ Settle(j) \/ Throw(j) \/ Interrupted(j) \/ Garble(j)
           \/ Described(j) \/ Describe(j) \/ Replace(j) \/ DelayPending(j) \/ Mark(j)
           \/ Publish(j) \/ Withdraw(j)
    PROVE  Goes(j)
<1>0. /\ work[j] \in WorkType(j) /\ work[j].page \in Nat /\ work[j].page <= MaxPages
      /\ work[j].delay <= LongestWait /\ 0 <= LongestWait /\ DOMAIN work = Job
      /\ 0 <= MaxPages /\ 1 <= MaxPages
  BY WorkFacts, Longest, Parameters
<1>1. ASSUME NEW w, work' = [work EXCEPT ![j] = w], api' = api, w.page = work[j].page,
             w.delay = work[j].delay, w.pc # "ask",
             work[j].pc = "flight" <=> w.pc = "flight"
      PROVE  Goes(j)
  BY <1>0, <1>1, Going
<1>2. CASE Enqueue(j)
  <2>1. UNCHANGED <<work, api>> /\ Alone(j)
    BY <1>2 DEF Enqueue, Alone
  <2> QED BY <1>0, <2>1 DEF Goes, UsesApi, WaitsOn, WalksOn
<1>3. CASE Claim(j)
  <2> DEFINE w == [Idle EXCEPT !.pc = "ask", !.page = IF Kind[j] = "account" THEN 1 ELSE 0]
  <2>1. work' = [work EXCEPT ![j] = w] /\ api' = api /\ job[j].state = "queued"
    BY <1>3 DEF Claim
  <2>2. work[j].pc = "none"
    BY <2>1, JobFacts DEF Fits, StageFits
  <2>3. w.pc = "ask" /\ w.page \in {0, 1} /\ w.delay = 0
    BY DEF Idle
  <2> HIDE DEF w
  <2> QED BY <1>0, <2>1, <2>2, <2>3, Going
<1>4. CASE Settle(j) \/ Throw(j)
  <2>1. /\ work[j].pc \in {"settle", "throw"} /\ work' = [work EXCEPT ![j] = Idle]
        /\ api' = api
    BY <1>4 DEF Settle, Throw, Ends, At
  <2> QED BY <1>0, <2>1, IdleFits, Ending
<1>5. CASE Interrupted(j)
  <2> DEFINE w == Returns("requeue")
  <2>1. work[j].pc = "flight" /\ work' = [work EXCEPT ![j] = w] /\ api' = NoOne
    BY <1>5 DEF Interrupted, At
  <2>2. w.page = 0 /\ w.pc = "settle" /\ w.delay = 0
    BY EndsFit DEF Fresh
  <2> HIDE DEF w
  <2> QED BY <1>0, <2>1, <2>2, Ending
<1>6. CASE Garble(j)
  <2> DEFINE w == Fails("api")
  <2>1. work[j].pc = "flight" /\ work' = [work EXCEPT ![j] = w] /\ api' = NoOne
    BY <1>6 DEF Garble, At
  <2>2. w.page = 0 /\ w.pc = "mark" /\ w.delay = 0
    BY EndsFit DEF Fresh
  <2> HIDE DEF w
  <2> QED BY <1>0, <2>1, <2>2, Ending
<1>7. CASE Described(j)
  <2> DEFINE w == [work[j] EXCEPT !.pc = "describe"]
  <2>1. work[j].pc = "flight" /\ work' = [work EXCEPT ![j] = w] /\ api' = NoOne
    BY <1>7 DEF Described, At
  <2>2. w.page = work[j].page /\ w.pc = "describe" /\ w.delay = work[j].delay
    BY <1>0 DEF WorkType
  <2> HIDE DEF w
  <2> QED BY <1>0, <2>1, <2>2, Going
<1>8. CASE Describe(j)
  <2> DEFINE w == [work[j] EXCEPT !.pc = "ask", !.page = 1]
  <2>1. work[j].pc = "describe" /\ work' = [work EXCEPT ![j] = w] /\ api' = api
    BY <1>8 DEF Describe, At
  <2>2. w.page = 1 /\ w.pc = "ask" /\ w.delay = work[j].delay
    BY <1>0 DEF WorkType
  <2>3. work[j].page = 0
    BY <2>1, JobFacts DEF Fits, WalkFits
  <2> HIDE DEF w
  <2>4. w.page = work[j].page + 1 /\ w.page <= MaxPages /\ w.delay <= LongestWait
    BY <1>0, <2>2, <2>3
  <2> QED BY <2>1, <2>2, <2>4, Going
<1>9. CASE Replace(j)
  <2>1. work[j].pc = "replace" /\ api' = api
    BY <1>9 DEF Replace, At
  <2>2. CASE work' = [work EXCEPT ![j].pc = "throw"]
    <3> DEFINE w == [work[j] EXCEPT !.pc = "throw"]
    <3>1. w.page = work[j].page /\ w.pc = "throw" /\ w.delay = work[j].delay
      BY <1>0 DEF WorkType
    <3>2. work' = [work EXCEPT ![j] = w]
      BY <2>2
    <3> HIDE DEF w
    <3> QED BY <1>1, <2>1, <3>1, <3>2
  <2>3. CASE work' = [work EXCEPT ![j] = Returns("success")]
    <3> DEFINE w == Returns("success")
    <3>1. w.page = 0 /\ w.pc = "settle" /\ w.delay = 0
      BY EndsFit DEF Fresh
    <3>2. work' = [work EXCEPT ![j] = w]
      BY <2>3
    <3> HIDE DEF w
    <3> QED BY <1>0, <2>1, <3>1, <3>2, Ending
  <2> QED BY <1>9, <2>2, <2>3 DEF Replace
<1>10. CASE DelayPending(j) \/ Mark(j)
  <2> DEFINE w(l) == [work[j] EXCEPT !.pc = l]
  <2>1. /\ work[j].pc \in {"delay", "mark"} /\ api' = api
        /\ \E l \in {"mark", "settle"} : work' = [work EXCEPT ![j] = w(l)]
    BY <1>10 DEF DelayPending, Mark, At
  <2>2. ASSUME NEW l \in {"mark", "settle"}
        PROVE  w(l).page = work[j].page /\ w(l).pc = l /\ w(l).delay = work[j].delay
    BY <1>0 DEF WorkType
  <2> HIDE DEF w
  <2> QED BY <1>1, <2>1, <2>2
<1>11. CASE Publish(j)
  <2>1. PICK x \in Item[j] \ Items(work[j].listing), i \in 0..Len(work[j].listing) :
           work' = [work EXCEPT ![j].listing = InsertedAt(@, i, x),
                                ![j].spotted = @ \cup {x}, ![j].changes = @ + 1]
    BY <1>11 DEF Publish
  <2>2. /\ work'[j].pc = work[j].pc /\ work'[j].page = work[j].page
        /\ work'[j].delay = work[j].delay /\ Alone(j)
    BY <1>0, <2>1 DEF Alone, WorkType
  <2>3. api' = api
    BY <1>11 DEF Publish
  <2> QED BY <1>0, <2>2, <2>3 DEF Goes, UsesApi, WaitsOn, WalksOn
<1>12. CASE Withdraw(j)
  <2>1. PICK i \in DOMAIN work[j].listing :
           LET l == work[j].listing
           IN  work' = [work EXCEPT
                  ![j].listing = Without(l, i), ![j].steady = @ \ {l[i]},
                  ![j].slipped = @ \cup Slips(l, PagesRead(work[j]), i), ![j].changes = @ + 1]
    BY <1>12 DEF Withdraw
  <2>2. /\ work'[j].pc = work[j].pc /\ work'[j].page = work[j].page
        /\ work'[j].delay = work[j].delay /\ Alone(j)
    BY <1>0, <2>1 DEF Alone, WorkType
  <2>3. api' = api
    BY <1>12 DEF Withdraw
  <2> QED BY <1>0, <2>2, <2>3 DEF Goes, UsesApi, WaitsOn, WalksOn
<1> QED BY <1>2, <1>3, <1>4, <1>5, <1>6, <1>7, <1>8, <1>9, <1>10, <1>11, <1>12

(* What a job may be told to wait: the delay of a refusal, or of the row.  *)
RowsWait == \A k \in Job : job'[k].wait <= LongestWait

LEMMA RowsWaitOn == ASSUME Inv, Bounded, [Next]_vars PROVE RowsWait
<1>0. ASSUME NEW k \in Job
      PROVE  /\ job[k].wait \in Nat /\ job[k].wait <= LongestWait /\ job[k] \in RowType
             /\ work[k].delay \in Nat /\ work[k].delay <= LongestWait
             /\ DOMAIN job = Job /\ job \in [Job -> RowType]
  BY JobFacts, WorkFacts
     DEF RowType, Bounded, WaitsAreBounded, WaitFinite, Inv, TypeOK
<1>1. ASSUME NEW j \in Job, NEW row, job' = [job EXCEPT ![j] = row], row.wait <= LongestWait
      PROVE  RowsWait
  BY <1>0, <1>1 DEF RowsWait
<1>2. ASSUME UNCHANGED job PROVE RowsWait
  BY <1>0, <1>2 DEF RowsWait
<1>3. 0 <= LongestWait /\ ThrowDelay <= LongestWait /\ LongestWait \in Nat
  BY Longest
<1>4. ASSUME NEW j \in Job, Enqueue(j) PROVE RowsWait
  <2>1. Row("queued", 0, 0, "none").wait <= LongestWait
    BY <1>3 DEF Row
  <2> QED BY <1>1, <1>4, <2>1 DEF Enqueue
<1>5. ASSUME NEW j \in Job, Claim(j) PROVE RowsWait
  <2>1. \A k \in Job : job'[k].wait = job[k].wait
    BY <1>0, <1>5 DEF Claim, RowType
  <2> QED BY <1>0, <2>1 DEF RowsWait
<1>6. ASSUME NEW j \in Job, Settle(j) PROVE RowsWait
  <2> DEFINE row == IF work[j].result = "requeue"
                    THEN Row("queued", work[j].delay, job[j].attempts, "none")
                    ELSE Row(work[j].result, 0, 0, work[j].cause)
  <2>1. job' = [job EXCEPT ![j] = row]
    BY <1>6 DEF Settle, Ends
  <2>2. row.wait \in {0, work[j].delay}
    BY DEF Row
  <2> HIDE DEF row
  <2>3. row.wait <= LongestWait
    BY <1>0, <1>3, <2>2
  <2> QED BY <1>1, <2>1, <2>3
<1>7. ASSUME NEW j \in Job, Throw(j) PROVE RowsWait
  <2> DEFINE row == IF job[j].attempts >= ThrowLimit THEN Row("failed", 0, 0, "exception")
                    ELSE Row("queued", ThrowDelay, job[j].attempts, "none")
  <2>1. job' = [job EXCEPT ![j] = row]
    BY <1>7 DEF Throw, Ends
  <2>2. row.wait \in {0, ThrowDelay}
    BY DEF Row
  <2> HIDE DEF row
  <2>3. row.wait <= LongestWait
    BY <1>3, <2>2
  <2> QED BY <1>1, <2>1, <2>3
<1>8. ASSUME NEW j \in Job, DelayPending(j) PROVE RowsWait
  <2>1. job' = [k \in Job |-> IF job[k].state = "queued"
                              THEN [job[k] EXCEPT !.wait = Most(@, work[j].delay)]
                              ELSE job[k]]
    BY <1>8 DEF DelayPending
  <2>2. ASSUME NEW k \in Job
        PROVE  job'[k].wait \in {job[k].wait, Most(job[k].wait, work[j].delay)}
    BY <1>0, <2>1 DEF RowType
  <2>3. ASSUME NEW k \in Job PROVE Most(job[k].wait, work[j].delay) <= LongestWait
    BY <1>0, <1>3 DEF Most
  <2>4. ASSUME NEW k \in Job PROVE job'[k].wait <= LongestWait
    BY <1>0, <2>2, <2>3
  <2> QED BY <2>4 DEF RowsWait
<1>9. ASSUME Tick PROVE RowsWait
  <2>1. job' = [j \in Job |-> [job[j] EXCEPT !.wait = Most(0, @ - 1)]]
    BY <1>9 DEF Tick
  <2>2. ASSUME NEW k \in Job PROVE job'[k].wait = Most(0, job[k].wait - 1)
    BY <1>0, <2>1 DEF RowType
  <2>3. ASSUME NEW k \in Job PROVE Most(0, job[k].wait - 1) <= LongestWait
    BY <1>0, <1>3 DEF Most
  <2> QED BY <2>2, <2>3 DEF RowsWait
<1>10. ASSUME Crash PROVE RowsWait
  <2>1. \A k \in Job : job'[k].wait = job[k].wait
    BY <1>0, <1>10 DEF Crash, RowType
  <2> QED BY <1>0, <2>1 DEF RowsWait
<1>11. ASSUME NEW j \in Job,
              \/ Send(j) \/ Interrupted(j) \/ Refuse(j) \/ Garble(j) \/ Described(j)
              \/ Describe(j) \/ Listed(j) \/ Import(j) \/ Replace(j) \/ Mark(j)
              \/ Publish(j) \/ Withdraw(j)
       PROVE  RowsWait
  BY <1>2, <1>11 DEF Send, Interrupted, Refuse, Garble, Described, Describe, Listed, Import,
     Replace, Mark, Publish, Withdraw
<1>12. ASSUME Limit \/ Shutdown \/ Restart \/ UNCHANGED vars PROVE RowsWait
  BY <1>2, <1>12 DEF Limit, Shutdown, Restart, vars
<1> QED BY <1>4, <1>5, <1>6, <1>7, <1>8, <1>9, <1>10, <1>11, <1>12 DEF Next, Worker

(* What is not a step of one worker.                                       *)
Aside == \/ UNCHANGED <<work, api>>
         \/ work' = [j \in Job |-> Idle] /\ api' = NoOne

LEMMA StepsGo ==
    ASSUME Inv, Bounded, [Next]_vars PROVE Aside \/ \E j \in Job : Goes(j)
<1>1. ASSUME NEW j \in Job, Worker(j) \/ Enqueue(j) \/ Send(j) \/ Publish(j) \/ Withdraw(j)
      PROVE  Goes(j)
  BY <1>1, OthersGo, SendGoes, RefuseGoes, ListedGoes, ImportGoes DEF Worker
<1>2. CASE Limit \/ Tick \/ Shutdown \/ Restart \/ Crash \/ UNCHANGED vars
  BY <1>2 DEF Limit, Tick, Shutdown, Restart, Crash, vars, Aside
<1> QED BY <1>1, <1>2 DEF Next

LEMMA BoundedStep == ASSUME Inv, Bounded, [Next]_vars PROVE Bounded'
<1>1. RowsWait
  BY RowsWaitOn
<1>2. CASE UNCHANGED <<work, api>>
  BY <1>1, <1>2 DEF Bounded, ApiIsUsed, WaitsAreBounded, WaitFinite, WalksAreBounded, RowsWait
<1>3. CASE work' = [j \in Job |-> Idle] /\ api' = NoOne
  <2>1. ASSUME NEW j \in Job
        PROVE  /\ work'[j].pc = "none" /\ work'[j].page = 0 /\ work'[j].delay = 0
               /\ api' # j
    BY <1>3, IdleFits, Parameters
  <2>2. 0 <= MaxPages /\ 0 <= LongestWait
    BY Parameters, Longest
  <2>3. ApiIsUsed'
    BY <2>1 DEF ApiIsUsed
  <2>4. WaitsAreBounded'
    BY <1>1, <2>1, <2>2 DEF WaitsAreBounded, WaitFinite, RowsWait
  <2>5. WalksAreBounded'
    BY <2>1, <2>2 DEF WalksAreBounded
  <2> QED BY <2>3, <2>4, <2>5 DEF Bounded
<1>4. ASSUME NEW j \in Job, Goes(j) PROVE Bounded'
  <2>1. \A k \in Job \ {j} : work'[k] = work[k]
    BY <1>4 DEF Goes, Alone
  <2>2. ApiIsUsed'
    <3>1. \A k \in Job : (api = k <=> work[k].pc = "flight") /\ k # NoOne
      BY WorkFacts
    <3> QED BY <1>4, <2>1, <3>1 DEF Goes, UsesApi, ApiIsUsed
  <2>3. WaitsAreBounded'
    BY <1>1, <1>4, <2>1
       DEF Goes, WaitsOn, RowsWait, WaitsAreBounded, WaitFinite, Bounded
  <2>4. WalksAreBounded'
    BY <1>4, <2>1 DEF Goes, WalksOn, WalksAreBounded, Bounded
  <2> QED BY <2>2, <2>3, <2>4 DEF Bounded
<1> QED BY <1>2, <1>3, <1>4, StepsGo DEF Aside

LEMMA PagesStep ==
    ASSUME Inv, Bounded, [Next]_vars, NEW j \in Job,
           work[j].pc \notin {"none", "ask"}, work'[j].pc = "ask"
    PROVE  work'[j].page = work[j].page + 1
<1>1. CASE Aside
  BY <1>1, IdleFits DEF Aside
<1>2. ASSUME NEW k \in Job, Goes(k) PROVE work'[j].page = work[j].page + 1
  <2>1. k = j
    BY <1>2 DEF Goes, Alone
  <2> QED BY <1>2, <2>1 DEF Goes, WalksOn
<1> QED BY <1>1, <1>2, StepsGo

(* github_api_request_mutex_ is held by a worker with a request in flight, *)
(* and by nobody else; and no refusal, retry or exception ever makes a job *)
(* wait longer than a day or the longest retry, nor a walk longer than the *)
(* pages it may have: what a job waits for always ends.                    *)
THEOREM GitHubSyncBounded == Spec => []Bounded
<1>1. Init => Bounded
  <2> SUFFICES ASSUME Init PROVE Bounded
    OBVIOUS
  <2>1. ASSUME NEW j \in Job
        PROVE  /\ work[j].pc = "none" /\ work[j].page = 0 /\ work[j].delay = 0
               /\ job[j].wait = 0 /\ api # j
    <3>1. work[j] = Idle /\ job[j] = Row("absent", 0, 0, "none") /\ api = NoOne
      BY DEF Init
    <3> QED BY <3>1, IdleFits, Parameters DEF Row
  <2>2. 0 <= MaxPages /\ 0 <= LongestWait
    BY Parameters, Longest
  <2>3. WaitsAreBounded
    BY <2>1, <2>2 DEF WaitsAreBounded, WaitFinite
  <2> QED BY <2>1, <2>2, <2>3 DEF Bounded, ApiIsUsed, WalksAreBounded
<1>2. Inv /\ Bounded /\ [Next]_vars => Bounded'
  BY BoundedStep
<1> QED BY <1>1, <1>2, GitHubSyncSafety, PTL DEF Spec

(* The pagination loop: within one claim every request is for the page     *)
(* after the last, whatever GitHub links to, so that none is read twice.   *)
THEOREM GitHubSyncPagesAscend == Spec => PagesAscend
<1>1. Inv /\ Bounded /\ [Next]_vars =>
         [\A j \in Job : work[j].pc \notin {"none", "ask"} /\ work'[j].pc = "ask"
                         => work'[j].page = work[j].page + 1]_vars
  BY PagesStep
<1> QED BY <1>1, GitHubSyncSafety, GitHubSyncBounded, PTL DEF Spec, PagesAscend
=============================================================================
