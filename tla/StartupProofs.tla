---------------------------- MODULE StartupProofs ----------------------------
(***************************************************************************)
(* Proofs about module Startup: for any number of processes, workers and   *)
(* migrations, two processes share a data directory only while one of them *)
(* unwinds from an exception, recovery takes nothing from a live worker,   *)
(* no migration is applied twice, no repository is added that is there     *)
(* already, a URL finds only rows of its repository, and nobody waits for  *)
(* workers that were not told to stop.                                     *)
(***************************************************************************)
EXTENDS Startup, TLAPS

Inv == TypeOK /\ Safety

Labels == {"out", "serving", "stopping", "caught", "joining"} \union StartSteps

-----------------------------------------------------------------------------
(* What the steps of a process do to its place and to the lock.            *)

(* Steps of run() that keep the lock as it is, and workers and job too.    *)
Onward(p, from, to) ==
    /\ pc[p] = from /\ pc' = [pc EXCEPT ![p] = to]
    /\ UNCHANGED <<spawned, alive, asked, signalled, holder, overlap, starts>>

(* One step further of a start, by its kind.                               *)
LEMMA OnwardSteps ==
    ASSUME NEW p \in Process
    PROVE  /\ Create(p) => Onward(p, "create", "record")
           /\ Record(p) => Onward(p, "record", "migrate")
           /\ Backfill(p) => Onward(p, "backfill", "recover")
           /\ Recover(p) => Onward(p, "recover", "clean")
           /\ Clean(p) => Onward(p, "clean", "spawn")
<1>1. Create(p) => Onward(p, "create", "record")
  BY DEF Create, Onward, Goto, threads
<1>2. Record(p) => Onward(p, "record", "migrate")
  BY DEF Record, Onward, Goto, threads
<1>3. Backfill(p) => Onward(p, "backfill", "recover")
  BY DEF Backfill, Onward, Goto, threads
<1>4. Recover(p) => Onward(p, "recover", "clean")
  BY DEF Recover, Onward, Goto, threads
<1>5. Clean(p) => Onward(p, "clean", "spawn")
  BY DEF Clean, Onward, Goto, threads
<1> QED BY <1>1, <1>2, <1>3, <1>4, <1>5

(* Migrate and Verify either go on, stay, or fail.                         *)
Fails(p) ==
    /\ pc[p] \in StartSteps
    /\ pc' = [pc EXCEPT ![p] = "caught"]
    /\ holder' = IF holder = p THEN NoOne ELSE holder
    /\ UNCHANGED <<spawned, alive, asked, signalled, schema, recorded, rows, job, runner,
                   staging, overlap, starts>>

LEMMA FailingSteps ==
    ASSUME NEW p \in Process
    PROVE  /\ Throw(p) \/ Refused(p) => Fails(p)
           /\ Migrate(p) =>
                \/ Fails(p)
                \/ /\ pc[p] = "migrate" /\ Pending # {}
                   /\ schema' = schema \union {NextVersion}
                   /\ recorded' = recorded \union {NextVersion}
                   /\ UNCHANGED <<pc, spawned, alive, asked, signalled, holder, rows, job,
                                  runner, staging, overlap, starts>>
           /\ Verify(p) =>
                \/ Fails(p)
                \/ /\ schema = 1..Latest /\ Onward(p, "migrate", "backfill")
                   /\ UNCHANGED <<schema, recorded, rows, job, runner, staging>>
<1>1. Unwind(p) /\ pc[p] \in StartSteps => Fails(p)
  BY DEF Unwind, Fails, Release, Goto, threads, tables, jobs
<1>2. Throw(p) \/ Refused(p) => Fails(p)
  BY <1>1 DEF Throw, Refused, StartSteps
<1>3. "migrate" \in StartSteps
  BY DEF StartSteps
<1>4. ASSUME Migrate(p)
      PROVE  \/ Fails(p)
             \/ /\ pc[p] = "migrate" /\ Pending # {}
                /\ schema' = schema \union {NextVersion}
                /\ recorded' = recorded \union {NextVersion}
                /\ UNCHANGED <<pc, spawned, alive, asked, signalled, holder, rows, job,
                               runner, staging, overlap, starts>>
  BY <1>1, <1>3, <1>4 DEF Migrate, threads, jobs
<1>5. ASSUME Verify(p)
      PROVE  \/ Fails(p)
             \/ /\ schema = 1..Latest /\ Onward(p, "migrate", "backfill")
                /\ UNCHANGED <<schema, recorded, rows, job, runner, staging>>
  BY <1>1, <1>3, <1>5 DEF Verify, Onward, Goto, threads, tables, jobs
<1> QED BY <1>2, <1>4, <1>5

(* Every step is a step of one process, and one of these.                  *)
Serves(p) ==
    \/ Signal(p) \/ Watch(p) \/ Claim(p) \/ Finish(p) \/ WorkerEnds(p)
    \/ \E u \in Known : Add(p, u)
Walks(p) ==
    Create(p) \/ Record(p) \/ Backfill(p) \/ Recover(p) \/ Clean(p)

(* Every step of run() is one of these, for some process.                  *)
LEMMA Steps ==
    ASSUME [Next]_vars
    PROVE  \/ \E p \in Process :
                 \/ Start(p) \/ Lock(p) \/ Refused(p) \/ Throw(p) \/ Walks(p)
                 \/ Migrate(p) \/ Verify(p) \/ Spawn(p) \/ ServerEnds(p) \/ Catch(p)
                 \/ Leave(p) \/ Crash(p) \/ Serves(p)
           \/ UNCHANGED vars
BY DEF Next, Step, Chance, Serves, Walks

-----------------------------------------------------------------------------
(* Types.                                                                  *)

LEMMA Numbers == Latest \in Nat /\ Latest >= 2 /\ Worker \in Nat \ {0} /\ NoOne \notin Process
                 /\ MaxStarts \in Nat
BY LatestAssumption, WorkerAssumption, ProcessAssumption, BoundAssumption

(* The next migration is the one after the last that is recorded.          *)
LEMMA NextIsPending ==
    ASSUME NEW v \in 0..Latest, recorded = 1..v, Pending # {}
    PROVE  NextVersion = v + 1 /\ NextVersion \in 1..Latest
<1>1. Pending = (v + 1)..Latest
  <2>1. ASSUME NEW w \in 1..Latest PROVE (\A r \in recorded : w > r) <=> w >= v + 1
    <3>1. CASE v = 0
      BY <2>1, <3>1
    <3>2. CASE v > 0
      <4>1. v \in recorded /\ \A r \in recorded : r <= v
        BY <3>2
      <4> QED BY <2>1, <4>1
    <3> QED BY <3>1, <3>2, Numbers
  <2> QED BY <2>1, Numbers DEF Pending
<1>2. v + 1 \in Pending /\ \A w \in Pending : v + 1 <= w
  BY <1>1, Numbers
<1>3. NextVersion \in Pending /\ \A w \in Pending : NextVersion <= w
  BY <1>2 DEF NextVersion
<1>4. NextVersion = v + 1
  BY <1>1, <1>2, <1>3, Numbers
<1> QED BY <1>1, <1>2, <1>4, Numbers

LEMMA LabelsOfSteps ==
    /\ StartSteps = {"lock", "create", "record", "migrate", "backfill", "recover", "clean", "spawn"}
    /\ Labels = StartSteps \union {"out", "serving", "stopping", "caught", "joining"}
BY DEF StartSteps, Labels

LEMMA TypeStep == ASSUME Inv, [Next]_vars PROVE TypeOK'
<1>1. /\ pc \in [Process -> Labels]
      /\ spawned \in [Process -> 0..Worker] /\ alive \in [Process -> 0..Worker]
      /\ asked \in [Process -> BOOLEAN] /\ signalled \in [Process -> BOOLEAN]
      /\ holder \in Process \union {NoOne}
      /\ schema \subseteq 1..Latest /\ recorded \subseteq 1..Latest
      /\ job \in {"queued", "running", "done"}
      /\ runner \subseteq Process /\ staging \in BOOLEAN /\ overlap \in BOOLEAN
      /\ starts \in 0..MaxStarts
  BY DEF Inv, TypeOK, Labels
<1> USE LabelsOfSteps
<1>2. ASSUME NEW p \in Process, Start(p) PROVE TypeOK'
  <2>1. starts' \in 0..MaxStarts
    BY <1>1, <1>2, Numbers DEF Start
  <2>2. pc' = [pc EXCEPT ![p] = "lock"]
    BY <1>2 DEF Start, Goto
  <2> QED BY <1>1, <1>2, <2>1, <2>2 DEF Start, threads, tables, jobs, TypeOK, Labels
<1>3. ASSUME NEW p \in Process, Lock(p) PROVE TypeOK'
  <2>1. pc' = [pc EXCEPT ![p] = "create"] /\ holder' = p /\ overlap' \in BOOLEAN
    BY <1>3 DEF Lock, Goto
  <2> QED BY <1>1, <1>3, <2>1 DEF Lock, threads, tables, jobs, TypeOK, Labels
<1>4. ASSUME NEW p \in Process, Fails(p) PROVE TypeOK'
  BY <1>1, <1>4 DEF Fails, TypeOK, Labels
<1>5. ASSUME NEW p \in Process, NEW from, NEW to \in Labels, Onward(p, from, to),
             schema' \subseteq 1..Latest, recorded' \subseteq 1..Latest,
             job' \in {"queued", "running", "done"}, runner' = runner, staging' \in BOOLEAN
      PROVE  TypeOK'
  BY <1>1, <1>5 DEF Onward, TypeOK, Labels
<1>6. ASSUME NEW p \in Process, Walks(p) PROVE TypeOK'
  <2>1. CASE Create(p)
    <3>1. schema' \subseteq 1..Latest
      BY <1>1, <2>1, Numbers DEF Create
    <3> QED BY <1>1, <1>5, <2>1, <3>1, OnwardSteps DEF Create, jobs
  <2>2. CASE Record(p)
    <3>1. recorded' \subseteq 1..Latest
      BY <1>1, <2>2, Numbers DEF Record
    <3> QED BY <1>1, <1>5, <2>2, <3>1, OnwardSteps DEF Record, jobs
  <2>3. CASE Backfill(p)
    BY <1>1, <1>5, <2>3, OnwardSteps DEF Backfill, jobs
  <2>4. CASE Recover(p)
    <3>1. job' \in {"queued", "running", "done"}
      BY <1>1, <2>4 DEF Recover
    <3> QED BY <1>1, <1>5, <2>4, <3>1, OnwardSteps DEF Recover, tables
  <2>5. CASE Clean(p)
    BY <1>1, <1>5, <2>5, OnwardSteps DEF Clean, tables
  <2> QED BY <1>6, <2>1, <2>2, <2>3, <2>4, <2>5 DEF Walks
<1>7. ASSUME NEW p \in Process, Migrate(p) PROVE TypeOK'
  <2>1. CASE Fails(p)
    BY <1>4, <2>1
  <2>2. CASE /\ pc[p] = "migrate" /\ Pending # {}
             /\ schema' = schema \union {NextVersion}
             /\ recorded' = recorded \union {NextVersion}
             /\ UNCHANGED <<pc, spawned, alive, asked, signalled, holder, rows, job,
                            runner, staging, overlap, starts>>
    <3>1. PICK v \in 0..Latest : recorded = 1..v
      BY DEF Inv, Safety, SchemaGrows
    <3>2. NextVersion \in 1..Latest
      BY <2>2, <3>1, NextIsPending
    <3> QED BY <1>1, <2>2, <3>2 DEF TypeOK, Labels
  <2> QED BY <1>7, <2>1, <2>2, FailingSteps
<1>8. ASSUME NEW p \in Process, Verify(p) PROVE TypeOK'
  <2>1. CASE Fails(p)
    BY <1>4, <2>1
  <2>2. CASE /\ schema = 1..Latest /\ Onward(p, "migrate", "backfill")
             /\ UNCHANGED <<schema, recorded, rows, job, runner, staging>>
    BY <1>1, <1>5, <2>2
  <2> QED BY <1>8, <2>1, <2>2, FailingSteps
<1>9. ASSUME NEW p \in Process, Spawn(p) PROVE TypeOK'
  <2>0. UNCHANGED <<asked, signalled, holder, schema, recorded, job, runner, staging,
                    overlap, starts>>
    BY <1>9 DEF Spawn, tables, jobs
  <2>1. CASE spawned[p] < Worker /\ UNCHANGED pc
             /\ spawned' = [spawned EXCEPT ![p] = @ + 1] /\ alive' = [alive EXCEPT ![p] = @ + 1]
    <3>1. spawned[p] + 1 \in 0..Worker /\ alive[p] + 1 \in 0..Worker
      BY <1>1, <2>1, Numbers DEF Inv, Safety, WorkersAreJoined
    <3> QED BY <1>1, <2>0, <2>1, <3>1 DEF TypeOK, Labels
  <2>2. CASE pc' = [pc EXCEPT ![p] = "serving"] /\ UNCHANGED <<spawned, alive>>
    BY <1>1, <2>0, <2>2 DEF TypeOK, Labels
  <2> QED BY <1>9, <2>1, <2>2 DEF Spawn, Goto, threads
<1>10. ASSUME NEW p \in Process, ServerEnds(p) \/ Catch(p) PROVE TypeOK'
  BY <1>1, <1>10 DEF ServerEnds, Catch, Goto, threads, tables, jobs, TypeOK, Labels
<1>11. ASSUME NEW p \in Process, Leave(p) PROVE TypeOK'
  <2>1. holder' \in Process \union {NoOne}
    BY <1>1, <1>11 DEF Leave, Release
  <2> QED BY <1>1, <1>11, <2>1, Numbers DEF Leave, Goto, tables, jobs, TypeOK, Labels
<1>12. ASSUME NEW p \in Process, Crash(p) PROVE TypeOK'
  <2>1. holder' \in Process \union {NoOne}
    BY <1>1, <1>12 DEF Crash, Release
  <2> QED BY <1>1, <1>12, <2>1, Numbers DEF Crash, Goto, tables, TypeOK, Labels
<1>13. ASSUME NEW p \in Process, Serves(p) PROVE TypeOK'
  <2>1. CASE Signal(p) \/ Watch(p) \/ \E u \in Known : Add(p, u)
    BY <1>1, <2>1 DEF Signal, Watch, Add, threads, tables, jobs, TypeOK, Labels
  <2>2. CASE Claim(p)
    BY <1>1, <2>2 DEF Claim, threads, tables, TypeOK, Labels
  <2>3. CASE Finish(p)
    <3>1. job' \in {"queued", "running", "done"}
      BY <2>3 DEF Finish
    <3> QED BY <1>1, <2>3, <3>1 DEF Finish, threads, tables, TypeOK, Labels
  <2>4. CASE WorkerEnds(p)
    <3>1. alive[p] - 1 \in 0..Worker
      BY <1>1, <2>4, Numbers DEF WorkerEnds, Busy
    <3> QED BY <1>1, <2>4, <3>1 DEF WorkerEnds, tables, jobs, TypeOK, Labels
  <2> QED BY <1>13, <2>1, <2>2, <2>3, <2>4 DEF Serves
<1>14. CASE UNCHANGED vars
  BY <1>1, <1>14 DEF vars, TypeOK, Labels
<1> QED BY <1>2, <1>3, <1>4, <1>6, <1>7, <1>8, <1>9, <1>10, <1>11, <1>12, <1>13, <1>14,
           Steps, FailingSteps

-----------------------------------------------------------------------------
(* The lock.                                                               *)

(* The places at which a process holds the lock.                           *)
LEMMA HoldingLabels ==
    Holding = {"create", "record", "migrate", "backfill", "recover", "clean", "spawn",
               "serving", "stopping"}
BY DEF Holding, StartSteps

(* A process that goes from one place to another, with what it does to the *)
(* lock.                                                                   *)
LEMMA LockMoves ==
    ASSUME TypeOK, LockIsHeld, NEW p \in Process, NEW l, pc' = [pc EXCEPT ![p] = l],
           \/ l \in Holding /\ holder' = p /\ holder \in {NoOne, p}
           \/ l \notin Holding /\ holder' = IF holder = p THEN NoOne ELSE holder
    PROVE  LockIsHeld'
<1>1. pc \in [Process -> Labels] /\ NoOne \notin Process
  BY Numbers DEF TypeOK, Labels
<1>2. ASSUME NEW q \in Process PROVE holder' = q <=> pc'[q] \in Holding
  <2>1. holder = q <=> pc[q] \in Holding
    BY DEF LockIsHeld
  <2>2. CASE q = p
    BY <1>1, <2>2
  <2>3. CASE q # p
    BY <1>1, <2>1, <2>3
  <2> QED BY <2>2, <2>3
<1> QED BY <1>2 DEF LockIsHeld

LEMMA LockStep == ASSUME Inv, [Next]_vars PROVE LockIsHeld'
<1>1. TypeOK /\ LockIsHeld
  BY DEF Inv, Safety
<1> USE HoldingLabels
<1>2. ASSUME NEW p \in Process, pc[p] \in Holding PROVE holder = p
  BY <1>1, <1>2 DEF LockIsHeld
<1>3. ASSUME NEW p \in Process, pc[p] \notin Holding PROVE holder # p
  BY <1>1, <1>3 DEF LockIsHeld
<1>4. ASSUME NEW p \in Process, Start(p) PROVE LockIsHeld'
  <2>1. pc[p] = "out" /\ pc' = [pc EXCEPT ![p] = "lock"] /\ holder' = holder
    BY <1>4 DEF Start, Goto
  <2>2. holder # p
    BY <1>3, <2>1
  <2> QED BY <1>1, <2>1, <2>2, LockMoves
<1>5. ASSUME NEW p \in Process, Lock(p) PROVE LockIsHeld'
  BY <1>1, <1>5, LockMoves DEF Lock, Goto
<1>6. ASSUME NEW p \in Process, Fails(p) PROVE LockIsHeld'
  BY <1>1, <1>6, LockMoves DEF Fails
<1>7. ASSUME NEW p \in Process, NEW from \in Holding, NEW to \in Holding, Onward(p, from, to)
      PROVE  LockIsHeld'
  BY <1>1, <1>2, <1>7, LockMoves DEF Onward
<1>8. ASSUME NEW p \in Process, Walks(p) PROVE LockIsHeld'
  BY <1>7, <1>8, OnwardSteps DEF Walks
<1>9. ASSUME UNCHANGED <<pc, holder>> PROVE LockIsHeld'
  BY <1>1, <1>9 DEF LockIsHeld
<1>10. ASSUME NEW p \in Process, Migrate(p) \/ Verify(p) PROVE LockIsHeld'
  <2>1. CASE Migrate(p)
    BY <1>6, <1>9, <2>1, FailingSteps
  <2>2. CASE Verify(p)
    BY <1>6, <1>7, <2>2, FailingSteps
  <2> QED BY <1>10, <2>1, <2>2
<1>11. ASSUME NEW p \in Process, Spawn(p) PROVE LockIsHeld'
  <2>1. pc[p] = "spawn" /\ holder' = holder
        /\ (UNCHANGED pc \/ pc' = [pc EXCEPT ![p] = "serving"])
    BY <1>11 DEF Spawn, Goto
  <2> QED BY <1>1, <1>2, <1>9, <2>1, LockMoves
<1>12. ASSUME NEW p \in Process, ServerEnds(p) PROVE LockIsHeld'
  BY <1>1, <1>2, <1>12, LockMoves DEF ServerEnds, Goto
<1>13. ASSUME NEW p \in Process, Catch(p) PROVE LockIsHeld'
  <2>1. pc[p] = "caught" /\ pc' = [pc EXCEPT ![p] = "joining"] /\ holder' = holder
    BY <1>13 DEF Catch, Goto
  <2>2. holder # p
    BY <1>3, <2>1
  <2> QED BY <1>1, <2>1, <2>2, LockMoves
<1>14. ASSUME NEW p \in Process, Leave(p) \/ Crash(p) PROVE LockIsHeld'
  BY <1>1, <1>14, LockMoves DEF Leave, Crash, Goto, Release
<1>15. ASSUME NEW p \in Process, Serves(p) PROVE LockIsHeld'
  BY <1>9, <1>15 DEF Serves, Signal, Watch, Claim, Finish, WorkerEnds, Add
<1>16. CASE UNCHANGED vars
  BY <1>9, <1>16 DEF vars
<1> QED BY <1>4, <1>5, <1>6, <1>8, <1>10, <1>11, <1>12, <1>13, <1>14, <1>15, <1>16,
           Steps, FailingSteps

-----------------------------------------------------------------------------
(* The workers.                                                            *)

WorkersFit(p) ==
    /\ alive[p] > 0 => pc[p] \in {"spawn", "serving", "stopping", "caught", "joining"}
    /\ alive[p] <= spawned[p]
    /\ p \in runner => alive[p] > 0

(* A step of one process that leaves the others' places and workers alone. *)
LEMMA OthersFit ==
    ASSUME WorkersAreJoined, NEW p \in Process, WorkersFit(p)',
           \A q \in Process \ {p} : /\ pc'[q] = pc[q] /\ alive'[q] = alive[q]
                                    /\ spawned'[q] = spawned[q] /\ (q \in runner' => q \in runner)
    PROVE  WorkersAreJoined'
<1>1. ASSUME NEW q \in Process \ {p} PROVE WorkersFit(q)'
  BY <1>1 DEF WorkersAreJoined, WorkersFit
<1> QED BY <1>1 DEF WorkersAreJoined, WorkersFit

LEMMA WorkersStep == ASSUME Inv, [Next]_vars PROVE WorkersAreJoined'
<1>1. WorkersAreJoined
  BY DEF Inv, Safety
<1>2. /\ pc \in [Process -> Labels]
      /\ spawned \in [Process -> 0..Worker] /\ alive \in [Process -> 0..Worker]
  BY DEF Inv, TypeOK, Labels
<1>3. ASSUME NEW p \in Process PROVE WorkersFit(p)
  BY <1>1 DEF WorkersAreJoined, WorkersFit
<1>4. ASSUME NEW p \in Process, NEW l, pc' = [pc EXCEPT ![p] = l],
             UNCHANGED <<spawned, alive>>, runner' \subseteq runner,
             alive[p] > 0 => l \in {"spawn", "serving", "stopping", "caught", "joining"}
      PROVE  WorkersAreJoined'
  <2>1. WorkersFit(p)'
    BY <1>2, <1>3, <1>4 DEF WorkersFit
  <2> QED BY <1>1, <1>2, <1>4, <2>1, OthersFit
<1>5. ASSUME UNCHANGED <<pc, spawned, alive>>, runner' \subseteq runner PROVE WorkersAreJoined'
  BY <1>1, <1>5 DEF WorkersAreJoined
<1>6. ASSUME NEW p \in Process, NEW from, NEW to, Onward(p, from, to), runner' = runner,
             from \notin {"spawn", "serving", "stopping", "caught", "joining"}
      PROVE  WorkersAreJoined'
  BY <1>3, <1>4, <1>6 DEF Onward, WorkersFit
<1>7. ASSUME NEW p \in Process, Start(p) \/ Lock(p) PROVE WorkersAreJoined'
  BY <1>3, <1>4, <1>7 DEF Start, Lock, Goto, threads, jobs, WorkersFit
<1>8. ASSUME NEW p \in Process, Fails(p) PROVE WorkersAreJoined'
  BY <1>3, <1>4, <1>8 DEF Fails
<1>9. ASSUME NEW p \in Process, Walks(p) PROVE WorkersAreJoined'
  BY <1>6, <1>9, OnwardSteps DEF Walks, Create, Record, Backfill, Recover, Clean, jobs
<1>10. ASSUME NEW p \in Process, Migrate(p) \/ Verify(p) PROVE WorkersAreJoined'
  <2>1. CASE Migrate(p)
    BY <1>5, <1>8, <2>1, FailingSteps
  <2>2. CASE Verify(p)
    BY <1>6, <1>8, <2>2, FailingSteps
  <2> QED BY <1>10, <2>1, <2>2
<1>11. ASSUME NEW p \in Process, Spawn(p) PROVE WorkersAreJoined'
  <2>1. CASE pc[p] = "spawn" /\ UNCHANGED <<pc, runner>>
             /\ spawned' = [spawned EXCEPT ![p] = @ + 1] /\ alive' = [alive EXCEPT ![p] = @ + 1]
    <3>1. WorkersFit(p)'
      BY <1>2, <1>3, <2>1 DEF WorkersFit
    <3> QED BY <1>1, <1>2, <2>1, <3>1, OthersFit
  <2>2. CASE pc' = [pc EXCEPT ![p] = "serving"] /\ UNCHANGED <<spawned, alive, runner>>
    BY <1>4, <2>2
  <2> QED BY <1>11, <2>1, <2>2 DEF Spawn, Goto, threads, jobs
<1>12. ASSUME NEW p \in Process, ServerEnds(p) \/ Catch(p) PROVE WorkersAreJoined'
  BY <1>4, <1>12 DEF ServerEnds, Catch, Goto, threads, jobs
<1>13. ASSUME NEW p \in Process, Leave(p) PROVE WorkersAreJoined'
  <2>1. /\ alive[p] = 0 /\ UNCHANGED <<alive, runner>> /\ pc' = [pc EXCEPT ![p] = "out"]
        /\ spawned' = [spawned EXCEPT ![p] = 0]
    BY <1>13 DEF Leave, Goto, jobs
  <2>2. WorkersFit(p)'
    BY <1>2, <1>3, <2>1 DEF WorkersFit
  <2> QED BY <1>1, <1>2, <2>1, <2>2, OthersFit
<1>14. ASSUME NEW p \in Process, Crash(p) PROVE WorkersAreJoined'
  <2>1. /\ alive' = [alive EXCEPT ![p] = 0] /\ spawned' = [spawned EXCEPT ![p] = 0]
        /\ pc' = [pc EXCEPT ![p] = "out"] /\ runner' = runner \ {p}
    BY <1>14 DEF Crash, Goto
  <2>2. WorkersFit(p)'
    BY <1>2, <2>1 DEF WorkersFit
  <2> QED BY <1>1, <1>2, <2>1, <2>2, OthersFit
<1>15. ASSUME NEW p \in Process, Claim(p) PROVE WorkersAreJoined'
  <2>1. /\ alive[p] > 0 /\ UNCHANGED <<pc, spawned, alive>> /\ runner' = runner \union {p}
    BY <1>2, <1>15 DEF Claim, Busy, threads
  <2>2. WorkersFit(p)'
    BY <1>2, <1>3, <2>1 DEF WorkersFit
  <2> QED BY <1>1, <1>2, <2>1, <2>2, OthersFit
<1>16. ASSUME NEW p \in Process, WorkerEnds(p) PROVE WorkersAreJoined'
  <2>1. /\ alive[p] > IF p \in runner THEN 1 ELSE 0
        /\ UNCHANGED <<pc, spawned, runner>> /\ alive' = [alive EXCEPT ![p] = @ - 1]
    BY <1>16 DEF WorkerEnds, Busy, jobs
  <2>2. alive'[p] = alive[p] - 1 /\ alive[p] \in 0..Worker /\ spawned[p] \in 0..Worker
    BY <1>2, <2>1
  <2>3. WorkersFit(p)'
    BY <1>3, <2>1, <2>2, Numbers DEF WorkersFit
  <2> QED BY <1>1, <1>2, <2>1, <2>3, OthersFit
<1>17. ASSUME NEW p \in Process, Serves(p) PROVE WorkersAreJoined'
  <2>1. CASE Signal(p) \/ Watch(p) \/ \E u \in Known : Add(p, u)
    BY <1>5, <2>1 DEF Signal, Watch, Add, threads, jobs
  <2>2. CASE Finish(p)
    BY <1>5, <2>2 DEF Finish, threads
  <2> QED BY <1>15, <1>16, <1>17, <2>1, <2>2 DEF Serves
<1>18. CASE UNCHANGED vars
  BY <1>5, <1>18 DEF vars
<1> QED BY <1>7, <1>8, <1>9, <1>10, <1>11, <1>12, <1>13, <1>14, <1>17, <1>18, Steps,
           FailingSteps

-----------------------------------------------------------------------------
(* One crew of workers.                                                    *)

LEMMA CrewStep == ASSUME Inv, [Next]_vars PROVE OneCrew'
<1>1. OneCrew /\ LockIsHeld
  BY DEF Inv, Safety
<1>2. /\ alive \in [Process -> 0..Worker] /\ overlap \in BOOLEAN /\ NoOne \notin Process
  BY Numbers DEF Inv, TypeOK
<1>3. ASSUME overlap' = overlap, holder' = holder \/ holder' = NoOne,
             \A q \in Process : alive'[q] > 0 => alive[q] > 0
      PROVE  OneCrew'
  BY <1>1, <1>3 DEF OneCrew
<1>4. ASSUME overlap' = overlap, holder' = holder \/ holder' = NoOne, alive' = alive
      PROVE  OneCrew'
  BY <1>3, <1>4
<1>5. ASSUME NEW p \in Process, Lock(p) PROVE OneCrew'
  <2>1. alive' = alive /\ overlap' = (overlap \/ \E q \in Process : alive[q] > 0)
    BY <1>5 DEF Lock, threads
  <2> QED BY <2>1 DEF OneCrew
<1>6. ASSUME NEW p \in Process, Fails(p) PROVE OneCrew'
  BY <1>4, <1>6 DEF Fails
<1>7. ASSUME NEW p \in Process, Walks(p) PROVE OneCrew'
  BY <1>4, <1>7, OnwardSteps DEF Walks, Onward
<1>8. ASSUME NEW p \in Process, Migrate(p) \/ Verify(p) PROVE OneCrew'
  BY <1>4, <1>6, <1>8, FailingSteps DEF Onward
<1>9. ASSUME NEW p \in Process, Spawn(p) PROVE OneCrew'
  <2>1. pc[p] = "spawn" /\ holder' = holder /\ overlap' = overlap
    BY <1>9 DEF Spawn
  <2>2. holder = p
    BY <1>1, <2>1, HoldingLabels DEF LockIsHeld
  <2>3. \A q \in Process : alive'[q] > 0 => q = p \/ alive[q] > 0
    <3>1. alive' = alive \/ alive' = [alive EXCEPT ![p] = @ + 1]
      BY <1>9 DEF Spawn, threads
    <3> QED BY <1>2, <3>1
  <2>4. ASSUME ~overlap, NEW q \in Process, alive'[q] > 0 PROVE q = p
    BY <1>1, <1>2, <2>2, <2>3, <2>4 DEF OneCrew
  <2> QED BY <2>1, <2>2, <2>4 DEF OneCrew
<1>10. ASSUME NEW p \in Process, Start(p) \/ ServerEnds(p) \/ Catch(p) \/ Leave(p)
       PROVE  OneCrew'
  <2>1. overlap' = overlap /\ (holder' = holder \/ holder' = NoOne) /\ alive' = alive
    BY <1>10 DEF Start, ServerEnds, Catch, Leave, Release, threads
  <2> QED BY <1>4, <2>1
<1>11. ASSUME NEW p \in Process, Crash(p) PROVE OneCrew'
  <2>1. /\ overlap' = overlap /\ (holder' = holder \/ holder' = NoOne)
        /\ alive' = [alive EXCEPT ![p] = 0]
    BY <1>11 DEF Crash, Release
  <2>2. \A q \in Process : alive'[q] > 0 => alive[q] > 0
    BY <1>2, <2>1
  <2> QED BY <1>3, <2>1, <2>2
<1>12. ASSUME NEW p \in Process, WorkerEnds(p) PROVE OneCrew'
  <2>1. /\ overlap' = overlap /\ holder' = holder
        /\ alive' = [alive EXCEPT ![p] = @ - 1]
    BY <1>12 DEF WorkerEnds
  <2>2. ASSUME NEW q \in Process, alive'[q] > 0 PROVE alive[q] > 0
    <3>1. CASE q = p
      <4>1. alive[p] > Busy(p) /\ Busy(p) \in 0..1
        BY <1>12 DEF WorkerEnds, Busy
      <4>2. alive[p] \in Nat
        BY <1>2
      <4> QED BY <3>1, <4>1, <4>2
    <3>2. CASE q # p
      BY <1>2, <2>1, <2>2, <3>2
    <3> QED BY <3>1, <3>2
  <2> QED BY <1>3, <2>1, <2>2
<1>13. ASSUME NEW p \in Process, Serves(p) PROVE OneCrew'
  BY <1>4, <1>12, <1>13 DEF Serves, Signal, Watch, Claim, Finish, Add, threads
<1>14. CASE UNCHANGED vars
  BY <1>4, <1>14 DEF vars
<1> QED BY <1>5, <1>6, <1>7, <1>8, <1>9, <1>10, <1>11, <1>13, <1>14, Steps, FailingSteps

-----------------------------------------------------------------------------
(* The schema.                                                             *)

Done == {"backfill", "recover", "clean", "spawn", "serving"}

LEMMA SchemaStep == ASSUME Inv, [Next]_vars PROVE SchemaGrows'
<1>1. /\ SchemaGrows /\ pc \in [Process -> Labels]
      /\ schema \subseteq 1..Latest /\ recorded \subseteq 1..Latest
  BY DEF Inv, Safety, TypeOK, Labels
<1>2. PICK v \in 0..Latest : recorded = 1..v
  BY <1>1 DEF SchemaGrows
<1>3. ASSUME UNCHANGED <<schema, recorded>>,
             \A q \in Process : pc'[q] = pc[q] \/ pc'[q] \notin Done \union {"record", "migrate"}
      PROVE  SchemaGrows'
  BY <1>1, <1>3 DEF SchemaGrows, Done
<1>4. ASSUME NEW p \in Process, NEW l, pc' = [pc EXCEPT ![p] = l],
             l \notin Done \union {"record", "migrate"}, UNCHANGED <<schema, recorded>>
      PROVE  SchemaGrows'
  <2>1. \A q \in Process : pc'[q] = pc[q] \/ pc'[q] \notin Done \union {"record", "migrate"}
    BY <1>1, <1>4
  <2> QED BY <1>3, <1>4, <2>1
<1>5. ASSUME NEW p \in Process, Fails(p) PROVE SchemaGrows'
  BY <1>4, <1>5 DEF Fails, Done
<1>6. ASSUME NEW p \in Process, NEW to \in Done, pc' = [pc EXCEPT ![p] = to],
             schema = 1..Latest, UNCHANGED <<schema, recorded>>
      PROVE  SchemaGrows'
  <2>1. \A q \in Process : pc'[q] = pc[q] \/ pc'[q] \in Done
    BY <1>1, <1>6
  <2>2. \A q \in Process : /\ pc'[q] = "record" => 1 \in schema'
                           /\ pc'[q] = "migrate" => 1 \in recorded'
                           /\ pc'[q] \in Done => schema' = 1..Latest
    BY <1>1, <1>6, <2>1 DEF SchemaGrows, Done
  <2> QED BY <1>1, <1>6, <2>2 DEF SchemaGrows, Done
<1>7. ASSUME NEW p \in Process, Create(p) PROVE SchemaGrows'
  <2>1. /\ schema' = schema \union {1} /\ recorded' = recorded
        /\ pc' = [pc EXCEPT ![p] = "record"]
    BY <1>7 DEF Create, Goto
  <2>2. schema' = recorded' \/ (recorded' = {} /\ schema' = {1})
    <3>1. CASE v = 0
      <4>1. recorded = {}
        BY <1>2, <3>1
      <4> QED BY <1>1, <2>1, <4>1 DEF SchemaGrows
    <3>2. CASE v > 0
      <4>1. 1 \in recorded
        BY <1>2, <3>2
      <4> QED BY <1>1, <2>1, <4>1 DEF SchemaGrows
    <3> QED BY <3>1, <3>2, Numbers
  <2>3. schema = 1..Latest => schema' = schema
    BY <2>1, Numbers
  <2>4. ASSUME NEW q \in Process
        PROVE  /\ pc'[q] = "record" => 1 \in schema'
               /\ pc'[q] = "migrate" => 1 \in recorded'
               /\ pc'[q] \in Done => schema' = 1..Latest
    <3>1. pc'[q] = "record" \/ pc'[q] = pc[q]
      BY <1>1, <2>1
    <3> QED BY <1>1, <2>1, <2>3, <3>1 DEF SchemaGrows, Done
  <2> QED BY <1>2, <2>1, <2>2, <2>4 DEF SchemaGrows, Done
<1>8. ASSUME NEW p \in Process, Record(p) PROVE SchemaGrows'
  <2>1. /\ pc[p] = "record" /\ schema' = schema /\ recorded' = recorded \union {1}
        /\ pc' = [pc EXCEPT ![p] = "migrate"]
    BY <1>8 DEF Record, Goto
  <2>2. 1 \in schema
    BY <1>1, <2>1 DEF SchemaGrows
  <2>3. (\E w \in 0..Latest : recorded' = 1..w) /\ schema' = recorded'
    <3>1. CASE v = 0
      <4>1. recorded = {} /\ 1..1 = {1}
        BY <1>2, <3>1
      <4>2. schema = {1}
        BY <1>1, <2>2, <4>1 DEF SchemaGrows
      <4>3. recorded' = 1..1 /\ schema' = recorded'
        BY <2>1, <4>1, <4>2
      <4> QED BY <4>3, Numbers
    <3>2. CASE v > 0
      <4>1. 1 \in recorded
        BY <1>2, <3>2
      <4> QED BY <1>1, <1>2, <2>1, <4>1 DEF SchemaGrows
    <3> QED BY <3>1, <3>2, Numbers
  <2>4. ASSUME NEW q \in Process
        PROVE  /\ pc'[q] = "record" => 1 \in schema'
               /\ pc'[q] = "migrate" => 1 \in recorded'
               /\ pc'[q] \in Done => schema' = 1..Latest
    <3>1. pc'[q] = "migrate" \/ pc'[q] = pc[q]
      BY <1>1, <2>1
    <3> QED BY <1>1, <2>1, <3>1 DEF SchemaGrows, Done
  <2> QED BY <2>3, <2>4 DEF SchemaGrows, Done
<1>9. ASSUME NEW p \in Process, Backfill(p) \/ Recover(p) \/ Clean(p) PROVE SchemaGrows'
  <2>1. PICK to \in Done : pc' = [pc EXCEPT ![p] = to]
    BY <1>9, OnwardSteps DEF Onward, Done
  <2>2. UNCHANGED <<schema, recorded>>
    BY <1>9 DEF Backfill, Recover, Clean, tables
  <2>3. pc[p] \in Done
    BY <1>9, OnwardSteps DEF Onward, Done
  <2>4. schema = 1..Latest
    BY <1>1, <2>3 DEF SchemaGrows, Done
  <2> QED BY <1>6, <2>1, <2>2, <2>4
<1>10. ASSUME NEW p \in Process, Migrate(p) PROVE SchemaGrows'
  <2>1. CASE Fails(p)
    BY <1>5, <2>1
  <2>2. CASE /\ pc[p] = "migrate" /\ Pending # {}
             /\ schema' = schema \union {NextVersion}
             /\ recorded' = recorded \union {NextVersion}
             /\ UNCHANGED <<pc, spawned, alive, asked, signalled, holder, rows, job,
                            runner, staging, overlap, starts>>
    <3>1. NextVersion = v + 1 /\ NextVersion \in 1..Latest
      BY <1>2, <2>2, NextIsPending
    <3>2. schema = recorded
      BY <1>1, <2>2 DEF SchemaGrows
    <3>3. v + 1 \in 0..Latest /\ recorded' = 1..(v + 1) /\ schema' = recorded'
      BY <1>2, <2>2, <3>1, <3>2, Numbers
    <3>4. schema = 1..Latest => schema' = 1..Latest
      BY <2>2, <3>1
    <3>5. \A q \in Process : /\ pc'[q] = "record" => 1 \in schema'
                             /\ pc'[q] = "migrate" => 1 \in recorded'
                             /\ pc'[q] \in Done => schema' = 1..Latest
      BY <1>1, <2>2, <3>4 DEF SchemaGrows, Done
    <3> QED BY <3>3, <3>5 DEF SchemaGrows, Done
  <2> QED BY <1>10, <2>1, <2>2, FailingSteps
<1>11. ASSUME NEW p \in Process, Verify(p) PROVE SchemaGrows'
  BY <1>5, <1>6, <1>11, FailingSteps DEF Onward, Done
<1>12. ASSUME NEW p \in Process, Spawn(p) PROVE SchemaGrows'
  <2>1. /\ pc[p] = "spawn" /\ UNCHANGED <<schema, recorded>>
        /\ UNCHANGED pc \/ pc' = [pc EXCEPT ![p] = "serving"]
    BY <1>12 DEF Spawn, Goto, tables
  <2>2. schema = 1..Latest
    BY <1>1, <2>1 DEF SchemaGrows
  <2> QED BY <1>3, <1>6, <2>1, <2>2 DEF Done
<1>13. ASSUME NEW p \in Process,
              Start(p) \/ Lock(p) \/ ServerEnds(p) \/ Catch(p) \/ Leave(p) \/ Crash(p)
       PROVE  SchemaGrows'
  <2>1. PICK l \in {"lock", "create", "stopping", "joining", "out"} : pc' = [pc EXCEPT ![p] = l]
    BY <1>13 DEF Start, Lock, ServerEnds, Catch, Leave, Crash, Goto
  <2>2. UNCHANGED <<schema, recorded>>
    BY <1>13 DEF Start, Lock, ServerEnds, Catch, Leave, Crash, tables
  <2> QED BY <1>4, <2>1, <2>2 DEF Done
<1>14. ASSUME NEW p \in Process, Serves(p) PROVE SchemaGrows'
  BY <1>3, <1>14 DEF Serves, Signal, Watch, Claim, Finish, WorkerEnds, Add, tables
<1>15. CASE UNCHANGED vars
  BY <1>3, <1>15 DEF vars
<1> QED BY <1>5, <1>7, <1>8, <1>9, <1>10, <1>11, <1>12, <1>13, <1>14, <1>15, Steps,
           FailingSteps DEF Walks

-----------------------------------------------------------------------------
(* Recovery.                                                               *)

LEMMA RecoveryStep == ASSUME Inv, [Next]_vars PROVE RecoveryIsSafe'
<1>1. /\ RecoveryIsSafe /\ OneCrew /\ LockIsHeld /\ WorkersAreJoined
      /\ runner \subseteq Process /\ NoOne \notin Process /\ overlap \in BOOLEAN
  BY Numbers DEF Inv, Safety, TypeOK
<1>2. ASSUME overlap => overlap', UNCHANGED <<job, staging>>, runner' \subseteq runner
      PROVE  RecoveryIsSafe'
  BY <1>1, <1>2 DEF RecoveryIsSafe
<1>3. ASSUME NEW p \in Process, ~overlap, pc[p] \in {"recover", "clean"}
      PROVE  runner = {}
  <2>1. holder = p /\ ~(alive[p] > 0)
    BY <1>1, <1>3, HoldingLabels DEF LockIsHeld, WorkersAreJoined
  <2>2. ASSUME NEW r \in runner PROVE FALSE
    <3>1. r \in Process /\ alive[r] > 0
      BY <1>1, <2>2 DEF WorkersAreJoined
    <3>2. holder = r
      BY <1>1, <1>3, <2>1, <3>1 DEF OneCrew
    <3> QED BY <2>1, <3>1, <3>2
  <2> QED BY <2>2
<1>4. ASSUME NEW p \in Process, Recover(p) \/ Clean(p) PROVE RecoveryIsSafe'
  <2>1. pc[p] \in {"recover", "clean"} /\ runner' = runner /\ overlap' = overlap
    BY <1>4 DEF Recover, Clean
  <2> QED BY <1>3, <2>1 DEF RecoveryIsSafe
<1>5. ASSUME NEW p \in Process, Fails(p) PROVE RecoveryIsSafe'
  BY <1>2, <1>5 DEF Fails
<1>6. ASSUME NEW p \in Process, Create(p) \/ Record(p) \/ Backfill(p) PROVE RecoveryIsSafe'
  BY <1>2, <1>6 DEF Create, Record, Backfill, jobs
<1>7. ASSUME NEW p \in Process, Migrate(p) \/ Verify(p) PROVE RecoveryIsSafe'
  BY <1>2, <1>5, <1>7, FailingSteps DEF Onward
<1>8. ASSUME NEW p \in Process,
             Start(p) \/ Spawn(p) \/ ServerEnds(p) \/ Catch(p) \/ Leave(p)
      PROVE  RecoveryIsSafe'
  BY <1>2, <1>8 DEF Start, Spawn, ServerEnds, Catch, Leave, jobs
<1>9. ASSUME NEW p \in Process, Lock(p) PROVE RecoveryIsSafe'
  <2>1. overlap => overlap'
    BY <1>9 DEF Lock
  <2> QED BY <1>2, <1>9, <2>1 DEF Lock, jobs
<1>10. ASSUME NEW p \in Process, Crash(p) PROVE RecoveryIsSafe'
  BY <1>2, <1>10 DEF Crash
<1>11. ASSUME NEW p \in Process, Claim(p) PROVE RecoveryIsSafe'
  <2>1. /\ job = "queued" /\ job' = "running" /\ staging' = TRUE
        /\ runner' = runner \union {p} /\ overlap' = overlap
    BY <1>11 DEF Claim
  <2>2. ~overlap => runner = {}
    BY <1>1, <2>1 DEF RecoveryIsSafe
  <2> QED BY <2>1, <2>2 DEF RecoveryIsSafe
<1>12. ASSUME NEW p \in Process, Finish(p) PROVE RecoveryIsSafe'
  <2>1. p \in runner /\ runner' = runner \ {p} /\ overlap' = overlap
    BY <1>12 DEF Finish
  <2>2. ~overlap => runner' = {}
    BY <1>1, <2>1 DEF RecoveryIsSafe
  <2> QED BY <2>1, <2>2 DEF RecoveryIsSafe
<1>13. ASSUME NEW p \in Process, Serves(p) PROVE RecoveryIsSafe'
  <2>1. CASE Signal(p) \/ Watch(p) \/ WorkerEnds(p) \/ \E u \in Known : Add(p, u)
    BY <1>2, <2>1 DEF Signal, Watch, WorkerEnds, Add, jobs
  <2> QED BY <1>11, <1>12, <1>13, <2>1 DEF Serves
<1>14. CASE UNCHANGED vars
  BY <1>2, <1>14 DEF vars
<1> QED BY <1>4, <1>5, <1>6, <1>7, <1>8, <1>9, <1>10, <1>13, <1>14, Steps, FailingSteps
        DEF Walks

-----------------------------------------------------------------------------
(* The inductive invariant.                                                *)

LEMMA InitSafe == Init => Inv
<1> SUFFICES ASSUME Init PROVE Inv
  OBVIOUS
<1>1. PICK v \in 0..Latest : schema = 1..v /\ recorded = 1..v
  BY DEF Init
<1>2. /\ pc = [p \in Process |-> "out"]
      /\ spawned = [p \in Process |-> 0] /\ alive = [p \in Process |-> 0]
      /\ asked = [p \in Process |-> FALSE] /\ signalled = [p \in Process |-> FALSE]
      /\ holder = NoOne /\ job = "queued" /\ runner = {} /\ staging = FALSE
      /\ overlap = FALSE /\ starts = 0
  BY DEF Init
<1>3. schema \subseteq 1..Latest /\ recorded \subseteq 1..Latest
  BY <1>1, Numbers
<1>4. TypeOK
  <2>1. 0 \in 0..Worker /\ 0 \in 0..MaxStarts
    BY Numbers
  <2>2. /\ pc \in [Process -> Labels] /\ spawned \in [Process -> 0..Worker]
        /\ alive \in [Process -> 0..Worker] /\ starts \in 0..MaxStarts
    BY <1>2, <2>1 DEF Labels
  <2>3. asked \in [Process -> BOOLEAN] /\ signalled \in [Process -> BOOLEAN]
    BY <1>2
  <2> QED BY <1>2, <1>3, <2>2, <2>3 DEF TypeOK, Labels
<1>5. LockIsHeld
  BY <1>2, Numbers, HoldingLabels DEF LockIsHeld
<1>6. WorkersAreJoined /\ OneCrew /\ RecoveryIsSafe
  BY <1>2 DEF WorkersAreJoined, OneCrew, RecoveryIsSafe
<1>7. SchemaGrows
  BY <1>1, <1>2 DEF SchemaGrows
<1> QED BY <1>4, <1>5, <1>6, <1>7 DEF Inv, Safety

LEMMA NextSafe == Inv /\ [Next]_vars => Inv'
BY TypeStep, LockStep, WorkersStep, CrewStep, SchemaStep, RecoveryStep DEF Inv, Safety

(* Whatever processes are started, stopped and crash on a data directory:  *)
(* the lock, the workers, the schema and the job's row stay in step.       *)
THEOREM StartupSafety == Spec => []Inv
<1>1. Init => Inv
  BY InitSafe
<1>2. Inv /\ [Next]_vars => Inv'
  BY NextSafe
<1> QED BY <1>1, <1>2, PTL DEF Spec

(* Application::run keeps its state within its types.                      *)
THEOREM StartupTypes == Spec => []TypeOK
<1>1. Inv => TypeOK
  BY DEF Inv
<1> QED BY <1>1, StartupSafety, PTL

(* DataDirectoryLock: of two processes one has no part in the directory,   *)
(* unless one of them left run()'s block by an exception and still has its *)
(* workers to join.  Whoever uses the directory holds the lock, or is the  *)
(* one that lost it by unwinding.                                          *)
THEOREM StartupOneInstance == Spec => []OneInstanceUnlessUnwound
<1>1. ASSUME Inv PROVE OneInstanceUnlessUnwound
  <2>1. ASSUME NEW p \in Process, Uses(p) PROVE holder = p \/ pc[p] \in {"caught", "joining"}
    <3>1. CASE alive[p] > 0
      BY <1>1, <3>1, HoldingLabels DEF Inv, Safety, WorkersAreJoined, LockIsHeld
    <3>2. CASE ~(alive[p] > 0)
      BY <1>1, <2>1, <3>2 DEF Uses, Holding, Inv, Safety, LockIsHeld
    <3> QED BY <3>1, <3>2
  <2> QED BY <2>1 DEF OneInstanceUnlessUnwound
<1> QED BY <1>1, StartupSafety, PTL

(* recover_interrupted_jobs and cleanup_orphaned_temp_dirs take no job and *)
(* no directory from a worker that lives.                                  *)
THEOREM StartupRecovery == Spec => []RecoveryIsSafe
<1>1. Inv => RecoveryIsSafe
  BY DEF Inv, Safety
<1> QED BY <1>1, StartupSafety, PTL

(* run_pending_migrations applies no migration to tables that have its     *)
(* changes, however often earlier starts were cut short.                   *)
THEOREM StartupMigrations == Spec => []MigrationsApplyOnce
<1>1. ASSUME Inv, NEW p \in Process
      PROVE  /\ pc[p] = "migrate" => schema = recorded /\ Pending \intersect schema = {}
             /\ pc[p] \in {"backfill", "serving"} => schema = 1..Latest
  <2>1. SchemaGrows /\ recorded \subseteq 1..Latest
    BY <1>1 DEF Inv, Safety, TypeOK
  <2>2. ASSUME NEW w \in Pending PROVE w \notin recorded
    <3>1. w \in 1..Latest /\ \A r \in recorded : w > r
      BY <2>2 DEF Pending
    <3> QED BY <3>1, Numbers
  <2>3. pc[p] = "migrate" => schema = recorded
    BY <2>1 DEF SchemaGrows
  <2> QED BY <2>1, <2>2, <2>3 DEF SchemaGrows
<1>2. Inv => MigrationsApplyOnce
  BY <1>1 DEF MigrationsApplyOnce
<1> QED BY <1>2, StartupSafety, PTL

-----------------------------------------------------------------------------
(* The identity of a URL, in one piece.  What the parser accepts, and what *)
(* the text of an accepted URL consists of.                                *)
OnGitHub(u) ==
    u.host.name \in {"github", "www.github"} /\ PortOf(u.scheme, u.port) = 0
Accepted(u) ==
    /\ Len(u.path) >= 2
    /\ \A i \in DOMAIN u.path : Decodable(u.path[i])
    /\ Last(u.path).stem = "empty" => Last(u.path).git > 1
    /\ OnGitHub(u) => /\ Len(u.path) = 2
                      /\ \A i \in DOMAIN u.path : ~NeedsEncoding(u.path[i].stem)
FormGit(u, i) ==
    IF i = Len(u.path) /\ u.path[i].git = 0 THEN 1 ELSE u.path[i].git
FormPath(u) ==
    [i \in DOMAIN u.path |->
        Segment(u.path[i].stem, ~OnGitHub(u) /\ u.path[i].upper,
                NeedsEncoding(u.path[i].stem), FormGit(u, i))]
Form(u) ==
    IF OnGitHub(u) THEN Url("https", Host("github", FALSE, 0), 0, FormPath(u))
    ELSE Url(u.scheme, Host(u.host.name, FALSE, 0), PortOf(u.scheme, u.port), FormPath(u))

LEMMA UrlParts ==
    ASSUME NEW u \in UrlType
    PROVE  /\ u.scheme \in {"http", "https"} /\ u.host \in HostType /\ u.port \in Port
           /\ u.path \in Seq(SegmentType) /\ Len(u.path) \in Nat
           /\ u.path \in [1..Len(u.path) -> SegmentType]
           /\ DOMAIN u.path = 1..Len(u.path)
           /\ PortOf(u.scheme, u.port) \in Port
<1>1. /\ u.scheme \in {"http", "https"} /\ u.host \in HostType /\ u.port \in Port
      /\ u.path \in Seq(SegmentType)
  BY DEF UrlType
<1>2. /\ Len(u.path) \in Nat /\ u.path \in [1..Len(u.path) -> SegmentType]
      /\ DOMAIN u.path = 1..Len(u.path)
  BY <1>1
<1>3. PortOf(u.scheme, u.port) \in Port
  <2>1. 0 \in Port
    BY DEF Port
  <2> QED BY <1>1, <2>1 DEF PortOf
<1> QED BY <1>1, <1>2, <1>3

(* A function on an initial segment of the numbers is a sequence.          *)
LEMMA Sequence ==
    ASSUME NEW S, NEW n \in Nat, NEW f \in [1..n -> S]
    PROVE  f \in Seq(S) /\ Len(f) = n
OBVIOUS

(* Removing the suffix of the last segment, and giving it back.            *)
LEMMA Suffixes ==
    ASSUME NEW n \in Nat \ {0}, NEW path \in [1..n -> SegmentType]
    PROVE  /\ WithoutSuffix(path) \in [1..n -> SegmentType]
           /\ WithSuffix(path) \in [1..n -> SegmentType]
           /\ \A i \in 1..n :
                /\ WithoutSuffix(path)[i].stem = path[i].stem
                /\ WithoutSuffix(path)[i].upper = path[i].upper
                /\ WithoutSuffix(path)[i].enc = path[i].enc
                /\ WithoutSuffix(path)[i].git =
                     IF i = n /\ path[i].git > 0 THEN path[i].git - 1 ELSE path[i].git
                /\ WithSuffix(path)[i].stem = path[i].stem
                /\ WithSuffix(path)[i].upper = path[i].upper
                /\ WithSuffix(path)[i].enc = path[i].enc
                /\ WithSuffix(path)[i].git = IF i = n THEN path[i].git + 1 ELSE path[i].git
<1>1. Len(path) = n
  BY Sequence
<1>2. WithoutSuffix(path) =
        [path EXCEPT ![n] = [path[n] EXCEPT !.git = IF path[n].git > 0 THEN path[n].git - 1 ELSE 0]]
  BY <1>1 DEF WithoutSuffix
<1>3. WithSuffix(path) = [path EXCEPT ![n] = [path[n] EXCEPT !.git = path[n].git + 1]]
  BY <1>1 DEF WithSuffix
<1>4. path[n] \in SegmentType /\ path[n].git \in Nat
  BY DEF SegmentType
<1>5. ASSUME NEW g \in Nat, NEW f, f = [path EXCEPT ![n] = [path[n] EXCEPT !.git = g]]
      PROVE  /\ f \in [1..n -> SegmentType]
             /\ \A i \in 1..n : /\ f[i].stem = path[i].stem /\ f[i].upper = path[i].upper
                               /\ f[i].enc = path[i].enc
                               /\ f[i].git = IF i = n THEN g ELSE path[i].git
  <2>1. [path[n] EXCEPT !.git = g] \in SegmentType
    BY <1>4 DEF SegmentType
  <2> QED BY <1>4, <1>5, <2>1 DEF SegmentType
<1>6. PICK g \in Nat : g = IF path[n].git > 0 THEN path[n].git - 1 ELSE 0
  BY <1>4
<1>7. PICK h \in Nat : h = path[n].git + 1
  BY <1>4
<1>8. /\ WithoutSuffix(path) \in [1..n -> SegmentType]
      /\ \A i \in 1..n : /\ WithoutSuffix(path)[i].stem = path[i].stem
                        /\ WithoutSuffix(path)[i].upper = path[i].upper
                        /\ WithoutSuffix(path)[i].enc = path[i].enc
                        /\ WithoutSuffix(path)[i].git = IF i = n THEN g ELSE path[i].git
  BY <1>2, <1>5, <1>6
<1>9. /\ WithSuffix(path) \in [1..n -> SegmentType]
      /\ \A i \in 1..n : /\ WithSuffix(path)[i].stem = path[i].stem
                        /\ WithSuffix(path)[i].upper = path[i].upper
                        /\ WithSuffix(path)[i].enc = path[i].enc
                        /\ WithSuffix(path)[i].git = IF i = n THEN h ELSE path[i].git
  BY <1>3, <1>5, <1>7
<1> QED BY <1>4, <1>6, <1>7, <1>8, <1>9

(* What the parser makes of a path.                                        *)
PathParsed(u) == WithoutSuffix([i \in DOMAIN u.path |-> Decoded(u.path[i])])

LEMMA ParsedPath ==
    ASSUME NEW u \in UrlType, Len(u.path) > 0
    PROVE  /\ PathParsed(u) \in [1..Len(u.path) -> SegmentType]
           /\ Len(PathParsed(u)) = Len(u.path)
           /\ DOMAIN PathParsed(u) = 1..Len(u.path)
           /\ \A i \in 1..Len(u.path) :
                /\ PathParsed(u)[i].stem = u.path[i].stem
                /\ PathParsed(u)[i].upper = u.path[i].upper
                /\ PathParsed(u)[i].enc = FALSE
                /\ PathParsed(u)[i].git = IF i = Len(u.path) /\ u.path[i].git > 0
                                          THEN u.path[i].git - 1 ELSE u.path[i].git
<1> DEFINE n == Len(u.path)
           decoded == [i \in DOMAIN u.path |-> Decoded(u.path[i])]
<1>1. n \in Nat \ {0} /\ u.path \in [1..n -> SegmentType] /\ DOMAIN u.path = 1..n
  BY UrlParts
<1>2. ASSUME NEW s \in SegmentType
      PROVE  /\ Decoded(s) \in SegmentType
             /\ Decoded(s).stem = s.stem /\ Decoded(s).upper = s.upper
             /\ Decoded(s).enc = FALSE /\ Decoded(s).git = s.git
  BY DEF Decoded, SegmentType
<1>3. \A i \in 1..n : u.path[i] \in SegmentType
  BY <1>1
<1>4. decoded \in [1..n -> SegmentType]
  BY <1>1, <1>2, <1>3
<1>5. \A i \in 1..n :
         /\ decoded[i].stem = u.path[i].stem /\ decoded[i].upper = u.path[i].upper
         /\ decoded[i].enc = FALSE /\ decoded[i].git = u.path[i].git
  BY <1>1, <1>2, <1>3
<1>6. PathParsed(u) = WithoutSuffix(decoded)
  BY DEF PathParsed
<1> HIDE DEF n, decoded
<1>7. /\ WithoutSuffix(decoded) \in [1..n -> SegmentType]
      /\ \A i \in 1..n :
            /\ WithoutSuffix(decoded)[i].stem = decoded[i].stem
            /\ WithoutSuffix(decoded)[i].upper = decoded[i].upper
            /\ WithoutSuffix(decoded)[i].enc = decoded[i].enc
            /\ WithoutSuffix(decoded)[i].git =
                 IF i = n /\ decoded[i].git > 0 THEN decoded[i].git - 1 ELSE decoded[i].git
  BY <1>1, <1>4, Suffixes
<1>8. Len(PathParsed(u)) = n /\ DOMAIN PathParsed(u) = 1..n
  BY <1>1, <1>6, <1>7, Sequence
<1>9. ASSUME NEW i \in 1..n
      PROVE  /\ PathParsed(u)[i].stem = u.path[i].stem
             /\ PathParsed(u)[i].upper = u.path[i].upper
             /\ PathParsed(u)[i].enc = FALSE
             /\ PathParsed(u)[i].git = IF i = n /\ u.path[i].git > 0
                                       THEN u.path[i].git - 1 ELSE u.path[i].git
  BY <1>5, <1>6, <1>7, Zenon
<1> QED BY <1>6, <1>7, <1>8, <1>9, Zenon DEF n

(* The parser accepts what it should, and its result is spelled one way.   *)
PlainUrl(u) ==
    Url(u.scheme, LowerHost(u.host), PortOf(u.scheme, u.port), PathParsed(u))

LEMMA ParsedUrl ==
    ASSUME NEW u \in UrlType, Len(u.path) > 0
    PROVE  /\ Parsed(u) = IF Accepted(u)
                          THEN IF OnGitHub(u)
                               THEN Url("https", Host("github", FALSE, 0), 0,
                                        [i \in 1..Len(u.path) |->
                                            [PathParsed(u)[i] EXCEPT !.upper = FALSE]])
                               ELSE PlainUrl(u)
                          ELSE Bad
<1> DEFINE n == Len(u.path)  path == PathParsed(u)  plain == PlainUrl(u)
<1>1. n \in Nat \ {0} /\ DOMAIN u.path = 1..n
  BY UrlParts
<1>2. /\ path \in [1..n -> SegmentType] /\ Len(path) = n /\ DOMAIN path = 1..n
      /\ \A i \in 1..n : path[i].stem = u.path[i].stem
  BY ParsedPath
<1>3. u.path[n].git \in Nat /\ n \in 1..n
  BY <1>1, UrlParts DEF SegmentType
<1>4. path[n].git = 0 <=> ~(u.path[n].git > 1)
  <2>1. path[n].git = IF u.path[n].git > 0 THEN u.path[n].git - 1 ELSE u.path[n].git
    BY <1>3, ParsedPath
  <2> QED BY <1>3, <2>1
<1>5. /\ plain.path = path /\ plain.port = PortOf(u.scheme, u.port)
      /\ plain.host.name = u.host.name
  BY UrlParts DEF PlainUrl, Url, LowerHost, HostType
<1>6. IsGitHub(plain) <=> OnGitHub(u)
  BY <1>5 DEF IsGitHub, OnGitHub
<1>7. Last(path).stem = Last(u.path).stem /\ (Last(path).git = 0 <=> ~(Last(u.path).git > 1))
  BY <1>2, <1>3, <1>4 DEF Last
<1>8. GitHubForm(plain) =
        IF n # 2 \/ \E i \in 1..n : NeedsEncoding(u.path[i].stem) THEN Bad
        ELSE Url("https", Host("github", FALSE, 0), 0,
                 [i \in 1..n |-> [path[i] EXCEPT !.upper = FALSE]])
  BY <1>2, <1>5, Zenon DEF GitHubForm
<1>9. Parsed(u) =
        IF n < 2 \/ \E i \in 1..n : ~Decodable(u.path[i]) THEN Bad
        ELSE IF Last(plain.path).stem = "empty" /\ Last(plain.path).git = 0 THEN Bad
        ELSE IF IsGitHub(plain) THEN GitHubForm(plain) ELSE plain
  BY <1>1, Zenon DEF Parsed, PlainUrl, PathParsed
<1>10. Accepted(u) <=>
         /\ ~(n < 2) /\ \A i \in 1..n : Decodable(u.path[i])
         /\ ~(Last(path).stem = "empty" /\ Last(path).git = 0)
         /\ OnGitHub(u) => ~(n # 2 \/ \E i \in 1..n : NeedsEncoding(u.path[i].stem))
  <2>1. n >= 2 <=> ~(n < 2)
    BY <1>1
  <2> QED BY <1>1, <1>7, <2>1, Zenon DEF Accepted
<1> HIDE DEF n, path, plain
<1>11. Parsed(u) = IF Accepted(u)
                   THEN IF OnGitHub(u)
                        THEN Url("https", Host("github", FALSE, 0), 0,
                                 [i \in 1..n |-> [path[i] EXCEPT !.upper = FALSE]])
                        ELSE plain
                   ELSE Bad
  BY <1>5, <1>6, <1>8, <1>9, <1>10, Zenon
<1> QED BY <1>11, Zenon DEF n, path, plain

LEMMA SegmentEqual ==
    ASSUME NEW s \in SegmentType, NEW t \in SegmentType,
           s.stem = t.stem, s.upper = t.upper, s.enc = t.enc, s.git = t.git
    PROVE  s = t
BY DEF SegmentType

LEMMA FormFields ==
    ASSUME NEW u \in UrlType, Len(u.path) > 0
    PROVE  /\ FormPath(u) \in [1..Len(u.path) -> SegmentType]
           /\ Len(FormPath(u)) = Len(u.path) /\ DOMAIN FormPath(u) = 1..Len(u.path)
           /\ \A i \in 1..Len(u.path) :
                /\ FormPath(u)[i].stem = u.path[i].stem
                /\ FormPath(u)[i].upper = (~OnGitHub(u) /\ u.path[i].upper)
                /\ FormPath(u)[i].enc = NeedsEncoding(u.path[i].stem)
                /\ FormPath(u)[i].git = FormGit(u, i)
<1> DEFINE n == Len(u.path)
<1>1. n \in Nat \ {0} /\ u.path \in [1..n -> SegmentType] /\ DOMAIN u.path = 1..n
  BY UrlParts
<1>2. ASSUME NEW i \in 1..n
      PROVE  Segment(u.path[i].stem, ~OnGitHub(u) /\ u.path[i].upper,
                     NeedsEncoding(u.path[i].stem), FormGit(u, i)) \in SegmentType
  <2>1. u.path[i].stem \in Stem /\ u.path[i].git \in Nat
    BY <1>1 DEF SegmentType
  <2>2. FormGit(u, i) \in Nat
    BY <2>1 DEF FormGit
  <2>3. (~OnGitHub(u) /\ u.path[i].upper) \in BOOLEAN /\ NeedsEncoding(u.path[i].stem) \in BOOLEAN
    BY DEF NeedsEncoding
  <2> QED BY <2>1, <2>2, <2>3 DEF Segment, SegmentType
<1>3. ASSUME NEW i \in 1..n
      PROVE  /\ FormPath(u)[i].stem = u.path[i].stem
             /\ FormPath(u)[i].upper = (~OnGitHub(u) /\ u.path[i].upper)
             /\ FormPath(u)[i].enc = NeedsEncoding(u.path[i].stem)
             /\ FormPath(u)[i].git = FormGit(u, i)
  BY <1>1 DEF FormPath, Segment
<1>4. FormPath(u) \in [1..n -> SegmentType]
  BY <1>1, <1>2 DEF FormPath
<1>5. Len(FormPath(u)) = n /\ DOMAIN FormPath(u) = 1..n
  BY <1>1, <1>4, Sequence
<1> QED BY <1>3, <1>4, <1>5

(* The text of an identity.                                                *)
LEMMA NormalPath ==
    ASSUME NEW u \in UrlType, Len(u.path) > 0, NEW q,
           q \in [1..Len(u.path) -> SegmentType],
           \A i \in 1..Len(u.path) :
              /\ q[i].stem = u.path[i].stem
              /\ q[i].upper = (~OnGitHub(u) /\ u.path[i].upper)
              /\ q[i].git = PathParsed(u)[i].git
    PROVE  WithSuffix([i \in DOMAIN q |-> Encoded(q[i])]) = FormPath(u)
<1> DEFINE n == Len(u.path)  encoded == [i \in DOMAIN q |-> Encoded(q[i])]
<1>1. n \in Nat \ {0} /\ DOMAIN q = 1..n
  BY UrlParts
<1>2. ASSUME NEW s \in SegmentType
      PROVE  /\ Encoded(s) \in SegmentType
             /\ Encoded(s).stem = s.stem /\ Encoded(s).upper = s.upper
             /\ Encoded(s).enc = NeedsEncoding(s.stem) /\ Encoded(s).git = s.git
  BY DEF Encoded, NeedsEncoding, SegmentType
<1>3. \A i \in 1..n : q[i] \in SegmentType
  OBVIOUS
<1>4. encoded \in [1..n -> SegmentType]
  BY <1>1, <1>2, <1>3
<1>5. \A i \in 1..n : encoded[i] = Encoded(q[i])
  BY <1>1
<1> HIDE DEF encoded
<1>6. /\ WithSuffix(encoded) \in [1..n -> SegmentType]
      /\ \A i \in 1..n :
            /\ WithSuffix(encoded)[i].stem = encoded[i].stem
            /\ WithSuffix(encoded)[i].upper = encoded[i].upper
            /\ WithSuffix(encoded)[i].enc = encoded[i].enc
            /\ WithSuffix(encoded)[i].git =
                 IF i = n THEN encoded[i].git + 1 ELSE encoded[i].git
  BY <1>1, <1>4, Suffixes
<1>7. ASSUME NEW i \in 1..n PROVE WithSuffix(encoded)[i] = FormPath(u)[i]
  <2>1. /\ q[i] \in SegmentType /\ encoded[i] = Encoded(q[i])
        /\ u.path[i].git \in Nat
    BY <1>3, <1>5, UrlParts DEF SegmentType
  <2>2. /\ encoded[i].stem = q[i].stem /\ encoded[i].upper = q[i].upper
        /\ encoded[i].enc = NeedsEncoding(q[i].stem) /\ encoded[i].git = q[i].git
    BY <1>2, <2>1
  <2>3. /\ q[i].stem = u.path[i].stem
        /\ q[i].upper = (~OnGitHub(u) /\ u.path[i].upper)
        /\ q[i].git = PathParsed(u)[i].git
    OBVIOUS
  <2>4. /\ WithSuffix(encoded)[i].stem = FormPath(u)[i].stem
        /\ WithSuffix(encoded)[i].upper = FormPath(u)[i].upper
        /\ WithSuffix(encoded)[i].enc = FormPath(u)[i].enc
    <3>1. /\ FormPath(u)[i].stem = u.path[i].stem
          /\ FormPath(u)[i].upper = (~OnGitHub(u) /\ u.path[i].upper)
          /\ FormPath(u)[i].enc = NeedsEncoding(u.path[i].stem)
      BY FormFields
    <3>2. /\ WithSuffix(encoded)[i].stem = encoded[i].stem
          /\ WithSuffix(encoded)[i].upper = encoded[i].upper
          /\ WithSuffix(encoded)[i].enc = encoded[i].enc
      BY <1>6
    <3>3. NeedsEncoding(q[i].stem) = NeedsEncoding(u.path[i].stem)
      BY <2>3
    <3> QED BY <2>2, <2>3, <3>1, <3>2, <3>3, Zenon
  <2>5. WithSuffix(encoded)[i].git = FormPath(u)[i].git
    <3>1. PathParsed(u)[i].git = IF i = n /\ u.path[i].git > 0 THEN u.path[i].git - 1
                                 ELSE u.path[i].git
      BY ParsedPath
    <3>2. FormPath(u)[i].git = FormGit(u, i)
      BY FormFields
    <3>3. WithSuffix(encoded)[i].git = IF i = n THEN encoded[i].git + 1 ELSE encoded[i].git
      BY <1>6
    <3>4. encoded[i].git = PathParsed(u)[i].git
      BY <2>2, <2>3, Zenon
    <3> QED BY <2>1, <3>1, <3>2, <3>3, <3>4 DEF FormGit
  <2>6. WithSuffix(encoded)[i] \in SegmentType /\ FormPath(u)[i] \in SegmentType
    BY <1>6, FormFields
  <2> QED BY <2>4, <2>5, <2>6, SegmentEqual
<1>8. FormPath(u) \in [1..n -> SegmentType]
  BY FormFields
<1>9. WithSuffix(encoded) = FormPath(u)
  BY <1>6, <1>7, <1>8
<1> QED BY <1>9 DEF encoded

LEMMA HostEqual ==
    ASSUME NEW h \in HostType, NEW g \in HostType,
           h.name = g.name, h.upper = g.upper, h.dots = g.dots
    PROVE  h = g
BY DEF HostType

LEMMA LowerHosts ==
    ASSUME NEW h \in HostType
    PROVE  LowerHost(h) = Host(h.name, FALSE, 0)
<1>1. /\ LowerHost(h) \in HostType /\ LowerHost(h).name = h.name
      /\ LowerHost(h).upper = FALSE /\ LowerHost(h).dots = 0
  BY DEF LowerHost, HostType
<1>2. Host(h.name, FALSE, 0) \in HostType
  BY DEF Host, HostType
<1>3. /\ Host(h.name, FALSE, 0).name = h.name
      /\ Host(h.name, FALSE, 0).upper = FALSE /\ Host(h.name, FALSE, 0).dots = 0
  BY DEF Host
<1> QED BY <1>1, <1>2, <1>3, HostEqual

LEMMA BadScheme == Bad.scheme = "none"
BY DEF Bad, Url

(* The text is made of the parser's result.                                *)
LEMMA NormalizedUrl ==
    ASSUME NEW u, NEW scheme \in {"http", "https"}, NEW host, NEW port, NEW path,
           Parsed(u) = Url(scheme, host, port, path)
    PROVE  Normalized(u) =
             Url(scheme, host, port, WithSuffix([i \in DOMAIN path |-> Encoded(path[i])]))
<1>1. Parsed(u) # Bad
  <2>1. Parsed(u).scheme = scheme
    BY DEF Url
  <2> QED BY <2>1, BadScheme
<1>2. Normalized(u) =
        [Parsed(u) EXCEPT !.path =
            WithSuffix([i \in DOMAIN Parsed(u).path |-> Encoded(Parsed(u).path[i])])]
  BY <1>1 DEF Normalized
<1>3. Parsed(u).path = path
  BY DEF Url
<1>4. Normalized(u) =
        [Parsed(u) EXCEPT !.path = WithSuffix([i \in DOMAIN path |-> Encoded(path[i])])]
  BY <1>2, <1>3
<1> QED BY <1>4 DEF Url

(* parse_repository_url answers the form of an accepted URL.               *)
LEMMA GitHubUrl ==
    ASSUME NEW u \in UrlType, Len(u.path) > 0, Accepted(u), OnGitHub(u)
    PROVE  Normalized(u) = Form(u)
<1> DEFINE n == Len(u.path)  path == PathParsed(u)  host == Host("github", FALSE, 0)
           lower == [i \in 1..n |-> [path[i] EXCEPT !.upper = FALSE]]
<1>1. Parsed(u) = Url("https", host, 0, lower)
  BY ParsedUrl
<1>2. lower \in [1..n -> SegmentType]
  <2>1. \A i \in 1..n : path[i] \in SegmentType
    BY ParsedPath
  <2>2. \A s \in SegmentType : [s EXCEPT !.upper = FALSE] \in SegmentType
    BY DEF SegmentType
  <2> QED BY <2>1, <2>2
<1>3. ASSUME NEW i \in 1..n
      PROVE  /\ lower[i].stem = u.path[i].stem
             /\ lower[i].upper = (~OnGitHub(u) /\ u.path[i].upper)
             /\ lower[i].git = PathParsed(u)[i].git
  <2>1. path[i] \in SegmentType /\ path[i].stem = u.path[i].stem
    BY ParsedPath
  <2>2. lower[i] = [path[i] EXCEPT !.upper = FALSE]
    OBVIOUS
  <2>3. lower[i].stem = path[i].stem /\ lower[i].upper = FALSE /\ lower[i].git = path[i].git
    BY <2>1, <2>2 DEF SegmentType
  <2>4. (~OnGitHub(u) /\ u.path[i].upper) = FALSE
    OBVIOUS
  <2> QED BY <2>1, <2>3, <2>4, Zenon
<1> HIDE DEF lower, host
<1>4. WithSuffix([i \in DOMAIN lower |-> Encoded(lower[i])]) = FormPath(u)
  BY <1>2, <1>3, NormalPath
<1>5. Normalized(u) = Url("https", host, 0, WithSuffix([i \in DOMAIN lower |-> Encoded(lower[i])]))
  BY <1>1, NormalizedUrl
<1>6. Form(u) = Url("https", host, 0, FormPath(u))
  BY Zenon DEF Form, host
<1> QED BY <1>4, <1>5, <1>6

LEMMA OtherUrl ==
    ASSUME NEW u \in UrlType, Len(u.path) > 0, Accepted(u), ~OnGitHub(u)
    PROVE  Normalized(u) = Form(u)
<1> DEFINE n == Len(u.path)  path == PathParsed(u)  host == LowerHost(u.host)
           port == PortOf(u.scheme, u.port)
<1>1. Parsed(u) = Url(u.scheme, host, port, path)
  BY ParsedUrl DEF PlainUrl
<1>2. path \in [1..n -> SegmentType]
  BY ParsedPath
<1>3. ASSUME NEW i \in 1..n
      PROVE  /\ path[i].stem = u.path[i].stem
             /\ path[i].upper = (~OnGitHub(u) /\ u.path[i].upper)
             /\ path[i].git = PathParsed(u)[i].git
  <2>1. path[i].stem = u.path[i].stem /\ path[i].upper = u.path[i].upper
    BY ParsedPath
  <2>2. u.path[i].upper \in BOOLEAN
    BY UrlParts DEF SegmentType
  <2>3. u.path[i].upper = (~OnGitHub(u) /\ u.path[i].upper)
    BY <2>2
  <2> QED BY <2>1, <2>3, Zenon
<1>4. Form(u) = Url(u.scheme, host, port, FormPath(u))
  <2>1. host = Host(u.host.name, FALSE, 0)
    BY UrlParts, LowerHosts
  <2> QED BY <2>1, Zenon DEF Form
<1>5. u.scheme \in {"http", "https"}
  BY UrlParts
<1> HIDE DEF path, host, port
<1>6. WithSuffix([i \in DOMAIN path |-> Encoded(path[i])]) = FormPath(u)
  BY <1>2, <1>3, NormalPath
<1>7. Normalized(u) = Url(u.scheme, host, port, WithSuffix([i \in DOMAIN path |-> Encoded(path[i])]))
  BY <1>1, <1>5, NormalizedUrl
<1> QED BY <1>4, <1>6, <1>7

LEMMA NormalForm ==
    ASSUME NEW u \in UrlType
    PROVE  Normalized(u) = IF Accepted(u) THEN Form(u) ELSE Bad
<1>1. CASE Len(u.path) = 0
  <2>1. Parsed(u) = Bad /\ ~Accepted(u)
    BY <1>1 DEF Parsed, Accepted
  <2> QED BY <2>1 DEF Normalized
<1>2. CASE Len(u.path) > 0 /\ ~Accepted(u)
  <2>1. Parsed(u) = Bad
    BY <1>2, ParsedUrl
  <2> QED BY <1>2, <2>1 DEF Normalized
<1>3. CASE Len(u.path) > 0 /\ Accepted(u)
  BY <1>3, GitHubUrl, OtherUrl
<1>4. Len(u.path) = 0 \/ Len(u.path) > 0
  BY UrlParts
<1> QED BY <1>1, <1>2, <1>3, <1>4

(* What a URL denotes: the server.                                         *)
LEMMA Ports ==
    ASSUME NEW u \in UrlType
    PROVE  /\ DefaultPort(u.scheme) \in Nat \ {0} /\ u.port \in Nat
           /\ OfGitHub(u) <=> OnGitHub(u)
           /\ PortOf(u.scheme, u.port) = PortOf(u.scheme, UsedPort(u))
<1>1. DefaultPort(u.scheme) \in Nat \ {0}
  BY DEF DefaultPort
<1>2. u.port \in Nat
  <2>1. \A p \in Port : p \in Nat
    BY DEF Port
  <2> QED BY <2>1, UrlParts
<1>3. PortOf(u.scheme, u.port) = 0 <=> UsedPort(u) = DefaultPort(u.scheme)
  BY <1>1, <1>2 DEF PortOf, UsedPort
<1>4. PortOf(u.scheme, u.port) = PortOf(u.scheme, UsedPort(u))
  BY <1>1, <1>2 DEF PortOf, UsedPort
<1> QED BY <1>1, <1>2, <1>3, <1>4 DEF OfGitHub, OnGitHub

LEMMA SameServer ==
    ASSUME NEW u \in UrlType, NEW v \in UrlType, Server(u) = Server(v)
    PROVE  /\ OfGitHub(u) <=> OfGitHub(v)
           /\ ~OfGitHub(u) => /\ u.scheme = v.scheme /\ u.host.name = v.host.name
                              /\ PortOf(u.scheme, u.port) = PortOf(v.scheme, v.port)
<1>1. ASSUME NEW a, NEW b, NEW c PROVE <<"github">> # <<a, b, c>>
  OBVIOUS
<1>2. OfGitHub(u) <=> OfGitHub(v)
  BY <1>1, Zenon DEF Server
<1>3. ASSUME NEW a, NEW b, NEW c, NEW d, NEW e, NEW f, <<a, b, c>> = <<d, e, f>>
      PROVE  a = d /\ b = e /\ c = f
  BY <1>3
<1>4. ASSUME ~OfGitHub(u)
      PROVE  u.scheme = v.scheme /\ u.host.name = v.host.name /\ UsedPort(u) = UsedPort(v)
  BY <1>2, <1>3, <1>4, Zenon DEF Server
<1>5. ASSUME ~OfGitHub(u)
      PROVE  PortOf(u.scheme, u.port) = PortOf(v.scheme, v.port)
  BY <1>4, <1>5, Ports, Zenon
<1> QED BY <1>2, <1>4, <1>5

(* ... and the names on its path.                                          *)
LEMMA NameFields ==
    ASSUME NEW u \in UrlType
    PROVE  /\ DOMAIN Names(u) = 1..Len(u.path)
           /\ \A i \in 1..Len(u.path) :
                /\ Names(u)[i].stem = u.path[i].stem
                /\ Names(u)[i].named = Decodable(u.path[i])
                /\ Names(u)[i].upper = (~OfGitHub(u) /\ u.path[i].upper)
                /\ Names(u)[i].git = IF i = Len(u.path) /\ u.path[i].git > 0
                                     THEN u.path[i].git - 1 ELSE u.path[i].git
<1>1. DOMAIN u.path = 1..Len(u.path)
  BY UrlParts
<1> QED BY <1>1 DEF Names

LEMMA SameNames ==
    ASSUME NEW u \in UrlType, NEW v \in UrlType, Names(u) = Names(v)
    PROVE  /\ Len(u.path) = Len(v.path)
           /\ \A i \in 1..Len(u.path) :
                /\ u.path[i].stem = v.path[i].stem
                /\ Decodable(u.path[i]) <=> Decodable(v.path[i])
                /\ (~OfGitHub(u) /\ u.path[i].upper) = (~OfGitHub(v) /\ v.path[i].upper)
                /\ FormGit(u, i) = FormGit(v, i)
                /\ i = Len(u.path) => (u.path[i].git > 1 <=> v.path[i].git > 1)
<1>1. Len(u.path) = Len(v.path)
  BY NameFields, UrlParts
<1>2. ASSUME NEW i \in 1..Len(u.path)
      PROVE  /\ u.path[i].stem = v.path[i].stem
             /\ Decodable(u.path[i]) <=> Decodable(v.path[i])
             /\ (~OfGitHub(u) /\ u.path[i].upper) = (~OfGitHub(v) /\ v.path[i].upper)
  <2>1. i \in 1..Len(v.path)
    BY <1>1
  <2>2. Names(u)[i] = Names(v)[i]
    OBVIOUS
  <2>3. Decodable(u.path[i]) \in BOOLEAN /\ Decodable(v.path[i]) \in BOOLEAN
    BY DEF Decodable
  <2> QED BY <2>1, <2>2, <2>3, NameFields, Zenon
<1>3. ASSUME NEW i \in 1..Len(u.path)
      PROVE  /\ FormGit(u, i) = FormGit(v, i)
             /\ i = Len(u.path) => (u.path[i].git > 1 <=> v.path[i].git > 1)
  <2>1. i \in 1..Len(v.path)
    BY <1>1
  <2>2. u.path[i].git \in Nat /\ v.path[i].git \in Nat
    BY <2>1, UrlParts DEF SegmentType
  <2>3. Names(u)[i].git = Names(v)[i].git
    OBVIOUS
  <2>4. Names(u)[i].git = IF i = Len(u.path) /\ u.path[i].git > 0
                          THEN u.path[i].git - 1 ELSE u.path[i].git
    BY NameFields
  <2>5. Names(v)[i].git = IF i = Len(v.path) /\ v.path[i].git > 0
                          THEN v.path[i].git - 1 ELSE v.path[i].git
    BY <2>1, NameFields
  <2> QED BY <1>1, <2>2, <2>3, <2>4, <2>5 DEF FormGit
<1> QED BY <1>1, <1>2, <1>3

(* The text of a URL denotes what the URL denotes.                         *)
LEMMA FormIsUrl ==
    ASSUME NEW u \in UrlType, Accepted(u)
    PROVE  /\ Form(u) \in UrlType /\ Form(u).path = FormPath(u)
           /\ OnGitHub(u) => /\ Form(u).scheme = "https" /\ Form(u).host.name = "github"
                             /\ Form(u).port = 0
           /\ ~OnGitHub(u) => /\ Form(u).scheme = u.scheme
                              /\ Form(u).host.name = u.host.name
                              /\ Form(u).port = PortOf(u.scheme, u.port)
<1>1. Len(u.path) \in Nat /\ Len(u.path) > 0
  BY UrlParts DEF Accepted
<1>2. FormPath(u) \in Seq(SegmentType)
  BY <1>1, FormFields, Sequence
<1>3. \A name \in HostName : /\ Host(name, FALSE, 0) \in HostType
                            /\ Host(name, FALSE, 0).name = name
  BY DEF Host, HostType
<1>4. u.host.name \in HostName
  BY UrlParts DEF HostType
<1>5. ASSUME NEW scheme \in {"http", "https"}, NEW host \in HostType, NEW port \in Port
      PROVE  /\ Url(scheme, host, port, FormPath(u)) \in UrlType
             /\ Url(scheme, host, port, FormPath(u)).scheme = scheme
             /\ Url(scheme, host, port, FormPath(u)).host = host
             /\ Url(scheme, host, port, FormPath(u)).port = port
             /\ Url(scheme, host, port, FormPath(u)).path = FormPath(u)
  BY <1>2 DEF Url, UrlType
<1>6. 0 \in Port
  BY DEF Port
<1>7. CASE OnGitHub(u)
  <2> DEFINE host == Host("github", FALSE, 0)
  <2>1. "github" \in HostName
    BY NameAssumption
  <2>2. host \in HostType
    BY <1>3, <2>1
  <2>3. host.name = "github"
    BY <1>3, <2>1
  <2>4. Form(u) = Url("https", host, 0, FormPath(u))
    BY <1>7 DEF Form
  <2> HIDE DEF host
  <2>5. "https" \in {"http", "https"}
    OBVIOUS
  <2> QED BY <1>5, <1>6, <1>7, <2>2, <2>3, <2>4, <2>5
<1>8. CASE ~OnGitHub(u)
  <2> DEFINE host == Host(u.host.name, FALSE, 0)
  <2>1. host \in HostType /\ host.name = u.host.name
    BY <1>3, <1>4
  <2>2. Form(u) = Url(u.scheme, host, PortOf(u.scheme, u.port), FormPath(u))
    BY <1>8 DEF Form
  <2> HIDE DEF host
  <2>3. u.scheme \in {"http", "https"} /\ PortOf(u.scheme, u.port) \in Port
    BY UrlParts
  <2> QED BY <1>5, <1>8, <2>1, <2>2, <2>3
<1> QED BY <1>7, <1>8

LEMMA FormServer ==
    ASSUME NEW u \in UrlType, Accepted(u)
    PROVE  Server(Form(u)) = Server(u) /\ (OfGitHub(Form(u)) <=> OfGitHub(u))
<1> DEFINE f == Form(u)
<1>1. CASE OnGitHub(u)
  <2>1. f.scheme = "https" /\ f.host.name = "github" /\ f.port = 0
    BY <1>1, FormIsUrl
  <2> HIDE DEF f
  <2>2. OfGitHub(f) /\ OfGitHub(u)
    BY <1>1, <2>1, Ports DEF OfGitHub, UsedPort
  <2>3. Server(f) = Server(u)
    BY <2>2, Zenon DEF Server
  <2> QED BY <2>2, <2>3, Zenon DEF f
<1>2. CASE ~OnGitHub(u)
  <2>1. /\ f.scheme = u.scheme /\ f.host.name = u.host.name
        /\ f.port = PortOf(u.scheme, u.port)
    BY <1>2, FormIsUrl
  <2> HIDE DEF f
  <2>2. UsedPort(f) = UsedPort(u)
    <3>1. f.port = IF u.port = DefaultPort(u.scheme) THEN 0 ELSE u.port
      BY <2>1 DEF PortOf
    <3> QED BY <2>1, <3>1, Ports DEF UsedPort
  <2>3. ~OfGitHub(f) /\ ~OfGitHub(u)
    BY <1>2, <2>1, <2>2, Ports DEF OfGitHub
  <2>4. Server(f) = Server(u)
    BY <2>1, <2>2, <2>3, Zenon DEF Server
  <2> QED BY <2>3, <2>4, Zenon DEF f
<1> QED BY <1>1, <1>2

NameType == [stem : Stem, named : BOOLEAN, upper : BOOLEAN, git : Nat]

LEMMA NameEqual ==
    ASSUME NEW s \in NameType, NEW t \in NameType,
           s.stem = t.stem, s.named = t.named, s.upper = t.upper, s.git = t.git
    PROVE  s = t
BY DEF NameType

LEMMA NamesType ==
    ASSUME NEW u \in UrlType
    PROVE  Names(u) \in [1..Len(u.path) -> NameType]
<1>1. ASSUME NEW i \in 1..Len(u.path)
      PROVE  [stem  |-> u.path[i].stem,
              named |-> Decodable(u.path[i]),
              upper |-> ~OfGitHub(u) /\ u.path[i].upper,
              git   |-> IF i = Len(u.path) /\ u.path[i].git > 0 THEN u.path[i].git - 1
                        ELSE u.path[i].git] \in NameType
  <2>1. u.path[i].stem \in Stem /\ u.path[i].git \in Nat
    BY UrlParts DEF SegmentType
  <2>2. Decodable(u.path[i]) \in BOOLEAN /\ (~OfGitHub(u) /\ u.path[i].upper) \in BOOLEAN
    BY DEF Decodable
  <2> QED BY <2>1, <2>2 DEF NameType
<1>2. DOMAIN u.path = 1..Len(u.path)
  BY UrlParts
<1> QED BY <1>1, <1>2 DEF Names

LEMMA FormNames ==
    ASSUME NEW u \in UrlType, Accepted(u)
    PROVE  Names(Form(u)) = Names(u)
<1> DEFINE f == Form(u)  n == Len(u.path)
<1>1. f \in UrlType /\ f.path = FormPath(u) /\ n \in Nat /\ n > 0
  BY FormIsUrl, UrlParts DEF Accepted
<1>2. Len(f.path) = n
  BY <1>1, FormFields
<1>3. ASSUME NEW i \in 1..n PROVE Names(f)[i] = Names(u)[i]
  <2>1. /\ f.path[i].stem = u.path[i].stem
        /\ f.path[i].upper = (~OnGitHub(u) /\ u.path[i].upper)
        /\ f.path[i].git = FormGit(u, i)
    BY <1>1, FormFields
  <2>2. u.path[i].git \in Nat /\ Decodable(u.path[i])
    BY <1>1, UrlParts DEF SegmentType, Accepted
  <2>3. Decodable(f.path[i])
    <3>1. f.path[i].git = 0 => u.path[i].git = 0
      BY <2>1, <2>2 DEF FormGit
    <3>2. f.path[i].git \in Nat
      BY <2>1, <2>2 DEF FormGit
    <3> HIDE DEF f
    <3> QED BY <2>1, <2>2, <3>1, <3>2 DEF Decodable
  <2>4. OfGitHub(f) <=> OnGitHub(u)
    BY FormServer, Ports
  <2> HIDE DEF f
  <2>5. /\ Names(f)[i].stem = f.path[i].stem /\ Names(u)[i].stem = u.path[i].stem
        /\ Names(f)[i].named = Decodable(f.path[i])
        /\ Names(u)[i].named = Decodable(u.path[i])
        /\ Names(f)[i].upper = (~OfGitHub(f) /\ f.path[i].upper)
        /\ Names(u)[i].upper = (~OfGitHub(u) /\ u.path[i].upper)
    BY <1>1, <1>2, NameFields
  <2>6. Names(f)[i].git = IF i = n /\ f.path[i].git > 0 THEN f.path[i].git - 1
                          ELSE f.path[i].git
    BY <1>1, <1>2, NameFields
  <2>7. Names(u)[i].git = IF i = n /\ u.path[i].git > 0 THEN u.path[i].git - 1
                          ELSE u.path[i].git
    BY NameFields
  <2>8. Names(f)[i].stem = Names(u)[i].stem
    BY <2>1, <2>5
  <2>9. Names(f)[i].named = Names(u)[i].named
    <3>1. Decodable(f.path[i]) = TRUE /\ Decodable(u.path[i]) = TRUE
      BY <2>2, <2>3 DEF Decodable
    <3> QED BY <2>5, <3>1, Zenon
  <2>10. Names(f)[i].upper = Names(u)[i].upper
    <3>1. OfGitHub(u) <=> OnGitHub(u)
      BY Ports
    <3>2. CASE OnGitHub(u)
      <4>1. (~OfGitHub(f) /\ f.path[i].upper) = FALSE /\ (~OfGitHub(u) /\ u.path[i].upper) = FALSE
        BY <2>4, <3>1, <3>2
      <4> QED BY <2>5, <4>1, Zenon
    <3>3. CASE ~OnGitHub(u)
      <4>1. u.path[i].upper \in BOOLEAN
        BY UrlParts DEF SegmentType
      <4>2. (~OnGitHub(u) /\ u.path[i].upper) = u.path[i].upper
        BY <3>3, <4>1
      <4>3. (~OfGitHub(u) /\ u.path[i].upper) = u.path[i].upper
        BY <3>1, <3>3, <4>1
      <4>4. f.path[i].upper = u.path[i].upper
        BY <2>1, <4>2, Zenon
      <4>5. (~OfGitHub(f) /\ f.path[i].upper) = u.path[i].upper
        BY <2>4, <3>3, <4>1, <4>4
      <4> QED BY <2>5, <4>3, <4>5, Zenon
    <3> QED BY <3>2, <3>3
  <2>11. Names(f)[i].git = Names(u)[i].git
    BY <2>1, <2>2, <2>6, <2>7 DEF FormGit
  <2>12. Names(f)[i] \in NameType /\ Names(u)[i] \in NameType
    BY <1>1, <1>2, NamesType
  <2> QED BY <2>8, <2>9, <2>10, <2>11, <2>12, NameEqual
<1> HIDE DEF f
<1>4. Names(f) \in [1..n -> NameType] /\ Names(u) \in [1..n -> NameType]
  BY <1>1, <1>2, NamesType
<1>5. Names(f) = Names(u)
  BY <1>3, <1>4
<1> QED BY <1>5 DEF f

LEMMA FormDenotes ==
    ASSUME NEW u \in UrlType, Accepted(u)
    PROVE  Denotes(Form(u)) = Denotes(u)
BY FormServer, FormNames DEF Denotes

(* Whoever denotes what an accepted URL denotes is accepted, with the same *)
(* identity.                                                               *)
LEMMA SameForm ==
    ASSUME NEW u \in UrlType, NEW v \in UrlType, Accepted(v), Denotes(u) = Denotes(v)
    PROVE  Accepted(u) /\ Form(u) = Form(v)
<1> DEFINE n == Len(v.path)
<1>1. Server(u) = Server(v) /\ Names(u) = Names(v)
  BY DEF Denotes
<1>2. /\ Len(u.path) = n
      /\ \A i \in 1..n :
           /\ u.path[i].stem = v.path[i].stem
           /\ Decodable(u.path[i]) <=> Decodable(v.path[i])
           /\ (~OfGitHub(u) /\ u.path[i].upper) = (~OfGitHub(v) /\ v.path[i].upper)
           /\ FormGit(u, i) = FormGit(v, i)
           /\ i = n => (u.path[i].git > 1 <=> v.path[i].git > 1)
  BY <1>1, SameNames
<1>3. OnGitHub(u) <=> OnGitHub(v)
  BY <1>1, SameServer, Ports
<1>4. n \in Nat /\ n >= 2 /\ DOMAIN u.path = 1..n /\ DOMAIN v.path = 1..n
  BY <1>2, UrlParts DEF Accepted
<1>5. Accepted(u)
  <2>1. Last(u.path).stem = Last(v.path).stem /\ (Last(u.path).git > 1 <=> Last(v.path).git > 1)
    BY <1>2, <1>4 DEF Last
  <2>2. \A i \in 1..n : NeedsEncoding(u.path[i].stem) <=> NeedsEncoding(v.path[i].stem)
    BY <1>2 DEF NeedsEncoding
  <2>3. \A i \in 1..n : Decodable(u.path[i]) <=> Decodable(v.path[i])
    BY <1>2
  <2> QED BY <1>2, <1>3, <1>4, <2>1, <2>2, <2>3 DEF Accepted
<1>6. FormPath(u) = FormPath(v)
  <2>1. ASSUME NEW i \in 1..n PROVE FormPath(u)[i] = FormPath(v)[i]
    <3>1. /\ FormPath(u)[i].stem = u.path[i].stem
          /\ FormPath(u)[i].upper = (~OnGitHub(u) /\ u.path[i].upper)
          /\ FormPath(u)[i].enc = NeedsEncoding(u.path[i].stem)
          /\ FormPath(u)[i].git = FormGit(u, i)
      BY <1>2, <1>4, FormFields
    <3>2. /\ FormPath(v)[i].stem = v.path[i].stem
          /\ FormPath(v)[i].upper = (~OnGitHub(v) /\ v.path[i].upper)
          /\ FormPath(v)[i].enc = NeedsEncoding(v.path[i].stem)
          /\ FormPath(v)[i].git = FormGit(v, i)
      BY <1>4, FormFields
    <3>3. FormPath(u)[i] \in SegmentType /\ FormPath(v)[i] \in SegmentType
      BY <1>2, <1>4, FormFields
    <3>4. (OfGitHub(u) <=> OnGitHub(u)) /\ (OfGitHub(v) <=> OnGitHub(v))
      BY Ports
    <3>5. /\ u.path[i].stem = v.path[i].stem /\ FormGit(u, i) = FormGit(v, i)
          /\ (~OfGitHub(u) /\ u.path[i].upper) = (~OfGitHub(v) /\ v.path[i].upper)
      BY <1>2
    <3>6. FormPath(u)[i].upper = FormPath(v)[i].upper
      <4>1. (~OnGitHub(u) /\ u.path[i].upper) = (~OnGitHub(v) /\ v.path[i].upper)
        BY <3>4, <3>5
      <4> QED BY <3>1, <3>2, <4>1, Zenon
    <3>7. FormPath(u)[i].enc = FormPath(v)[i].enc
      BY <3>1, <3>2, <3>5, Zenon
    <3>8. FormPath(u)[i].stem = FormPath(v)[i].stem /\ FormPath(u)[i].git = FormPath(v)[i].git
      BY <3>1, <3>2, <3>5, Zenon
    <3> QED BY <3>3, <3>6, <3>7, <3>8, SegmentEqual
  <2>2. /\ FormPath(u) \in [1..n -> SegmentType]
        /\ FormPath(v) \in [1..n -> SegmentType]
    BY <1>2, <1>4, FormFields
  <2> QED BY <2>1, <2>2
<1>7. CASE OnGitHub(u)
  BY <1>3, <1>5, <1>6, <1>7, Zenon DEF Form
<1>8. CASE ~OnGitHub(u)
  <2>1. /\ u.scheme = v.scheme /\ u.host.name = v.host.name
        /\ PortOf(u.scheme, u.port) = PortOf(v.scheme, v.port)
    BY <1>1, <1>8, SameServer, Ports
  <2>2. /\ Form(u) = Url(u.scheme, Host(u.host.name, FALSE, 0), PortOf(u.scheme, u.port),
                        FormPath(u))
        /\ Form(v) = Url(v.scheme, Host(v.host.name, FALSE, 0), PortOf(v.scheme, v.port),
                        FormPath(v))
    BY <1>3, <1>8, Zenon DEF Form
  <2>3. Form(u) = Form(v)
    BY <1>6, <2>1, <2>2, Zenon
  <2> QED BY <1>5, <2>3
<1> QED BY <1>5, <1>7, <1>8

(* The text that parse_repository_url makes of a URL is again a URL, which *)
(* denotes the same repository.                                            *)
LEMMA TextDenotes ==
    ASSUME NEW u \in UrlType, Normalized(u) # Bad
    PROVE  Normalized(u) \in UrlType /\ Denotes(Normalized(u)) = Denotes(u)
BY NormalForm, FormIsUrl, FormDenotes

(* parse_repository_url: two URLs have the same text exactly when they     *)
(* denote the same repository, however they are spelled; and no URL that   *)
(* is refused denotes what an accepted one denotes.                        *)
THEOREM IdentityOfUrls ==
    \A u, v \in UrlType :
        Normalized(u) # Bad =>
            (Normalized(v) = Normalized(u) <=> Denotes(v) = Denotes(u))
<1> SUFFICES ASSUME NEW u \in UrlType, NEW v \in UrlType, Normalized(u) # Bad
             PROVE  Normalized(v) = Normalized(u) <=> Denotes(v) = Denotes(u)
  OBVIOUS
<1>1. Accepted(u) /\ Normalized(u) = Form(u)
  BY NormalForm
<1>2. ASSUME Normalized(v) = Normalized(u) PROVE Denotes(v) = Denotes(u)
  BY <1>2, TextDenotes
<1>3. ASSUME Denotes(v) = Denotes(u) PROVE Normalized(v) = Normalized(u)
  BY <1>1, <1>3, SameForm, NormalForm
<1> QED BY <1>2, <1>3

-----------------------------------------------------------------------------
(* The rows and the repositories they stand for.                           *)

RowType == [normalized : UrlType, canonical : UrlType \union {Bad}, added : BOOLEAN]
RowsOK == rows \in Seq(RowType)

(* A process that has been through the backfill.                           *)
Ready == {"recover", "clean", "spawn", "serving"}

(* The column canonical_url is empty or the identity of what the row was   *)
(* stored with, and not empty any more once a process went through the     *)
(* backfill.  An identity is its own.                                      *)
RowsAreIdentified ==
    /\ \A i \in DOMAIN rows : rows[i].canonical \in {Bad, Backfilled(rows[i].normalized)}
    /\ (\E p \in Process : pc[p] \in Ready) => \A i \in DOMAIN rows : rows[i].canonical # Bad

RowsFit == RowsOK /\ RowsAreIdentified /\ OneMirrorPerRepository

LEMMA Backfills ==
    ASSUME NEW text \in UrlType
    PROVE  Backfilled(text) \in UrlType /\ Backfilled(text) # Bad /\ text # Bad
<1>1. text # Bad
  <2>1. text.scheme \in {"http", "https"}
    BY UrlParts
  <2> QED BY <2>1, BadScheme
<1> QED BY <1>1, TextDenotes DEF Backfilled

LEMMA OwnIdentity ==
    ASSUME NEW u \in UrlType, Normalized(u) # Bad
    PROVE  Backfilled(Normalized(u)) = Normalized(u)
<1>1. Normalized(u) \in UrlType /\ Denotes(Normalized(u)) = Denotes(u)
  BY TextDenotes
<1>2. Normalized(Normalized(u)) = Normalized(u)
  BY <1>1, IdentityOfUrls
<1> QED BY <1>2 DEF Backfilled

(* A row whose identity is not that of a URL denotes something else.       *)
LEMMA Strangers ==
    ASSUME NEW u \in UrlType, NEW text \in UrlType, Normalized(u) # Bad
    PROVE  Denotes(text) = Denotes(u) <=> Backfilled(text) = Normalized(u)
<1>1. Normalized(text) = Normalized(u) <=> Denotes(text) = Denotes(u)
  BY IdentityOfUrls
<1>2. CASE Normalized(text) # Bad
  BY <1>1, <1>2 DEF Backfilled
<1>3. CASE Normalized(text) = Bad
  <2>1. Denotes(Normalized(u)) = Denotes(u)
    BY TextDenotes
  <2> QED BY <1>1, <1>3, <2>1 DEF Backfilled
<1> QED BY <1>2, <1>3

LEMMA RowParts ==
    ASSUME RowsOK
    PROVE  /\ Len(rows) \in Nat /\ DOMAIN rows = 1..Len(rows)
           /\ \A i \in DOMAIN rows : /\ rows[i] \in RowType
                                     /\ rows[i].normalized \in UrlType
<1>1. Len(rows) \in Nat /\ DOMAIN rows = 1..Len(rows) /\ rows \in [1..Len(rows) -> RowType]
  BY DEF RowsOK
<1> QED BY <1>1 DEF RowType

(* Only the backfill and requests change rows, and only the backfill makes *)
(* a process ready.                                                        *)
LEMMA RowSteps ==
    ASSUME Inv, [Next]_vars
    PROVE  \/ /\ rows' = rows
              /\ \A q \in Process : pc'[q] \in Ready => pc[q] \in Ready
           \/ \E p \in Process : Backfill(p)
           \/ \E p \in Process, u \in Known : Add(p, u)
<1>1. pc \in [Process -> Labels]
  BY DEF Inv, TypeOK, Labels
<1>2. ASSUME NEW p \in Process, NEW l, pc' = [pc EXCEPT ![p] = l], rows' = rows,
             l \in Ready => pc[p] \in Ready
      PROVE  /\ rows' = rows
             /\ \A q \in Process : pc'[q] \in Ready => pc[q] \in Ready
  BY <1>1, <1>2
<1>3. ASSUME NEW p \in Process, Start(p) \/ Lock(p)
      PROVE  rows' = rows /\ \A q \in Process : pc'[q] \in Ready => pc[q] \in Ready
  BY <1>2, <1>3 DEF Start, Lock, Goto, tables, Ready
<1>4. ASSUME NEW p \in Process, Fails(p)
      PROVE  rows' = rows /\ \A q \in Process : pc'[q] \in Ready => pc[q] \in Ready
  BY <1>2, <1>4 DEF Fails, Ready
<1>5. ASSUME NEW p \in Process, Create(p) \/ Record(p)
      PROVE  rows' = rows /\ \A q \in Process : pc'[q] \in Ready => pc[q] \in Ready
  BY <1>2, <1>5 DEF Create, Record, Goto, Ready
<1>6. ASSUME NEW p \in Process, Recover(p) \/ Clean(p)
      PROVE  rows' = rows /\ \A q \in Process : pc'[q] \in Ready => pc[q] \in Ready
  BY <1>2, <1>6 DEF Recover, Clean, Goto, tables, Ready
<1>7. ASSUME NEW p \in Process, Throw(p) \/ Refused(p) \/ Migrate(p) \/ Verify(p)
      PROVE  rows' = rows /\ \A q \in Process : pc'[q] \in Ready => pc[q] \in Ready
  <2>1. CASE Fails(p)
    BY <1>4, <2>1
  <2>2. CASE UNCHANGED <<pc, rows>>
    BY <2>2
  <2>3. CASE Onward(p, "migrate", "backfill") /\ rows' = rows
    BY <1>2, <2>3 DEF Onward, Ready
  <2> QED BY <1>7, <2>1, <2>2, <2>3, FailingSteps
<1>8. ASSUME NEW p \in Process, Spawn(p)
      PROVE  rows' = rows /\ \A q \in Process : pc'[q] \in Ready => pc[q] \in Ready
  <2>1. rows' = rows /\ pc[p] = "spawn"
    BY <1>8 DEF Spawn, tables
  <2>2. CASE UNCHANGED pc
    BY <2>1, <2>2
  <2>3. CASE pc' = [pc EXCEPT ![p] = "serving"]
    BY <1>2, <2>1, <2>3 DEF Ready
  <2> QED BY <1>8, <2>2, <2>3 DEF Spawn, Goto
<1>9. ASSUME NEW p \in Process, ServerEnds(p) \/ Catch(p) \/ Leave(p) \/ Crash(p)
      PROVE  rows' = rows /\ \A q \in Process : pc'[q] \in Ready => pc[q] \in Ready
  BY <1>2, <1>9 DEF ServerEnds, Catch, Leave, Crash, Goto, tables, Ready
<1>10. ASSUME NEW p \in Process,
              Signal(p) \/ Watch(p) \/ Claim(p) \/ Finish(p) \/ WorkerEnds(p)
       PROVE  UNCHANGED <<pc, rows>>
  BY <1>10 DEF Signal, Watch, Claim, Finish, WorkerEnds, tables
<1>11. CASE UNCHANGED vars
  BY <1>11 DEF vars
<1> QED BY <1>3, <1>5, <1>6, <1>7, <1>8, <1>9, <1>10, <1>11, Steps DEF Walks, Serves

LEMMA BackfillKeepsRows ==
    ASSUME Inv, RowsFit, NEW p \in Process, Backfill(p)
    PROVE  RowsFit'
<1>1. /\ RowsOK /\ RowsAreIdentified /\ OneMirrorPerRepository
      /\ rows' = [i \in DOMAIN rows |->
                   IF rows[i].canonical # Bad THEN rows[i]
                   ELSE [rows[i] EXCEPT !.canonical = Backfilled(rows[i].normalized)]]
  BY DEF RowsFit, Backfill
<1>2. DOMAIN rows' = DOMAIN rows
  BY <1>1
<1>3. ASSUME NEW i \in DOMAIN rows
      PROVE  /\ rows'[i] \in RowType /\ rows'[i].normalized = rows[i].normalized
             /\ rows'[i].added = rows[i].added
             /\ rows'[i].canonical = Backfilled(rows[i].normalized)
             /\ rows'[i].canonical # Bad
  <2>1. /\ rows[i] \in RowType /\ Backfilled(rows[i].normalized) \in UrlType
        /\ Backfilled(rows[i].normalized) # Bad
    BY <1>1, RowParts, Backfills
  <2>2. CASE rows[i].canonical # Bad
    BY <1>1, <2>1, <2>2 DEF RowsAreIdentified
  <2>3. CASE rows[i].canonical = Bad
    <3>1. rows'[i] = [rows[i] EXCEPT !.canonical = Backfilled(rows[i].normalized)]
      BY <1>1, <2>3
    <3> QED BY <2>1, <3>1 DEF RowType
  <2> QED BY <2>2, <2>3
<1>4. RowsOK'
  <2>1. Len(rows) \in Nat /\ DOMAIN rows = 1..Len(rows)
    BY <1>1, RowParts
  <2>2. rows' \in [1..Len(rows) -> RowType]
    BY <1>1, <1>3, <2>1
  <2> QED BY <2>1, <2>2, Sequence DEF RowsOK
<1>5. RowsAreIdentified'
  BY <1>2, <1>3 DEF RowsAreIdentified, Backfilled
<1>6. OneMirrorPerRepository'
  BY <1>1, <1>2, <1>3 DEF OneMirrorPerRepository
<1> QED BY <1>4, <1>5, <1>6 DEF RowsFit

LEMMA AddKeepsRows ==
    ASSUME Inv, RowsFit, NEW p \in Process, NEW u \in Known, Add(p, u)
    PROVE  RowsFit'
<1> DEFINE text == Normalized(u)
           new == [normalized |-> text, added |-> TRUE, canonical |-> text]
           n == Len(rows)
<1>1. /\ RowsOK /\ RowsAreIdentified /\ OneMirrorPerRepository
      /\ n \in Nat /\ DOMAIN rows = 1..n
      /\ \A i \in 1..n : rows[i] \in RowType /\ rows[i].normalized \in UrlType
  BY RowParts DEF RowsFit
<1>2. u \in UrlType
  BY UrlAssumption
<1>3. text # Bad /\ \A i \in 1..n : text # rows[i].canonical
  BY <1>1 DEF Add, Identity, Matches
<1>4. text \in UrlType /\ Denotes(text) = Denotes(u) /\ Backfilled(text) = text
  BY <1>2, <1>3, TextDenotes, OwnIdentity
<1>5. rows' = Append(rows, new) /\ UNCHANGED pc /\ pc[p] = "serving"
  BY DEF Add, Identity
<1>6. /\ new \in RowType /\ new.normalized = text /\ new.canonical = text /\ new.added = TRUE
  BY <1>4 DEF RowType
<1> HIDE DEF new, text
<1>7. rows' \in Seq(RowType) /\ DOMAIN rows' = 1..(n + 1)
      /\ rows'[n + 1] = new /\ \A i \in 1..n : rows'[i] = rows[i]
  BY <1>1, <1>5, <1>6 DEF RowsOK
<1>8. \A i \in 1..n : rows[i].canonical # Bad /\ rows[i].canonical = Backfilled(rows[i].normalized)
  <2>1. pc[p] \in Ready
    BY <1>5 DEF Ready
  <2> QED BY <1>1, <2>1 DEF RowsAreIdentified
<1>9. \A i \in 1..n : Denotes(rows[i].normalized) # Denotes(text)
  BY <1>1, <1>2, <1>3, <1>4, <1>8, Strangers DEF text
<1>10. RowsAreIdentified'
  <2>1. \A i \in 1..(n + 1) : i \in 1..n \/ i = n + 1
    BY <1>1
  <2>2. \A i \in DOMAIN rows' : /\ rows'[i].canonical # Bad
                               /\ rows'[i].canonical = Backfilled(rows'[i].normalized)
    BY <1>3, <1>4, <1>6, <1>7, <1>8, <2>1
  <2> QED BY <2>2 DEF RowsAreIdentified, Backfilled
<1>11. OneMirrorPerRepository'
  <2>1. ASSUME NEW i \in 1..(n + 1), NEW j \in 1..(n + 1), i # j, rows'[j].added
        PROVE  Denotes(rows'[i].normalized) # Denotes(rows'[j].normalized)
    <3>1. (i \in 1..n \/ i = n + 1) /\ (j \in 1..n \/ j = n + 1)
      BY <1>1
    <3>2. CASE i \in 1..n /\ j \in 1..n
      BY <1>1, <1>7, <2>1, <3>2 DEF OneMirrorPerRepository
    <3>3. CASE i = n + 1 /\ j \in 1..n
      BY <1>6, <1>7, <1>9, <3>3
    <3>4. CASE i \in 1..n /\ j = n + 1
      BY <1>6, <1>7, <1>9, <3>4
    <3> QED BY <2>1, <3>1, <3>2, <3>3, <3>4
  <2> QED BY <1>7, <2>1 DEF OneMirrorPerRepository
<1> QED BY <1>7, <1>10, <1>11 DEF RowsFit, RowsOK

LEMMA RowsStep == ASSUME Inv, RowsFit, [Next]_vars PROVE RowsFit'
<1>1. CASE /\ rows' = rows
           /\ \A q \in Process : pc'[q] \in Ready => pc[q] \in Ready
  BY <1>1 DEF RowsFit, RowsOK, RowsAreIdentified, Backfilled, OneMirrorPerRepository
<1> QED BY <1>1, RowSteps, BackfillKeepsRows, AddKeepsRows

LEMMA InitRows == Init => RowsFit
<1> SUFFICES ASSUME Init PROVE RowsFit
  OBVIOUS
<1>1. PICK v \in 0..Latest, old \in Legacy :
        rows = IF v = 0 THEN << >>
               ELSE [i \in DOMAIN old |->
                        [normalized |-> old[i], added |-> FALSE,
                         canonical  |-> IF v < CanonicalVersion THEN Bad
                                        ELSE Backfilled(old[i])]]
  BY DEF Init
<1>2. old \in Seq(UrlType)
  BY UrlAssumption
<1>3. Len(old) \in Nat /\ DOMAIN old = 1..Len(old) /\ \A i \in 1..Len(old) : old[i] \in UrlType
  BY <1>2
<1>4. ASSUME NEW i \in DOMAIN rows
      PROVE  /\ rows[i] \in RowType /\ ~rows[i].added
             /\ rows[i].canonical \in {Bad, Backfilled(rows[i].normalized)}
  <2>1. v # 0
    BY <1>1, <1>4
  <2>2. /\ i \in 1..Len(old)
        /\ rows[i] = [normalized |-> old[i], added |-> FALSE,
                      canonical  |-> IF v < CanonicalVersion THEN Bad
                                     ELSE Backfilled(old[i])]
    BY <1>1, <1>3, <1>4, <2>1
  <2>3. Backfilled(old[i]) \in UrlType /\ old[i] \in UrlType
    BY <1>3, <2>2, Backfills
  <2>4. PICK c \in {Bad, Backfilled(old[i])} :
          rows[i] = [normalized |-> old[i], added |-> FALSE, canonical |-> c]
    BY <2>2
  <2> QED BY <2>3, <2>4 DEF RowType
<1>5. RowsOK
  <2>1. CASE v = 0
    BY <1>1, <2>1 DEF RowsOK
  <2>2. CASE v # 0
    <3>1. DOMAIN rows = 1..Len(old)
      BY <1>1, <1>3, <2>2
    <3>2. rows \in [1..Len(old) -> RowType]
      BY <1>1, <1>3, <1>4, <2>2, <3>1
    <3> QED BY <1>3, <3>2, Sequence DEF RowsOK
  <2> QED BY <2>1, <2>2
<1>6. RowsAreIdentified
  <2>1. \A p \in Process : pc[p] \notin Ready
    BY DEF Init, Ready
  <2> QED BY <1>4, <2>1 DEF RowsAreIdentified
<1>7. OneMirrorPerRepository
  BY <1>4 DEF OneMirrorPerRepository
<1> QED BY <1>5, <1>6, <1>7 DEF RowsFit

(* backfill_canonical_repository_urls, Database::add_repository: a         *)
(* repository that is added is none that is there already, whatever an     *)
(* older version stored, and a row that a URL finds is a row of the        *)
(* repository it denotes.  Rows of one repository that an older version    *)
(* left, under spellings it took for different, stay as they are.          *)
THEOREM StartupIdentity == Spec => []IdentityIsExact
<1>1. RowsFit => IdentityIsExact
  <2> SUFFICES ASSUME RowsFit PROVE NoStrangerIsFound
    BY DEF RowsFit, IdentityIsExact
  <2> SUFFICES ASSUME NEW u \in Known, Identity[u] # Bad, NEW i \in Matches(u)
               PROVE  Denotes(rows[i].normalized) = Denotes(u)
    BY DEF NoStrangerIsFound
  <2>1. /\ u \in UrlType /\ Normalized(u) # Bad /\ i \in DOMAIN rows
        /\ Normalized(u) \in {rows[i].canonical, rows[i].normalized}
    BY UrlAssumption DEF Matches, Identity
  <2>2. rows[i].normalized \in UrlType
    BY <2>1, RowParts DEF RowsFit
  <2>3. CASE Normalized(u) = rows[i].normalized
    BY <2>1, <2>3, TextDenotes
  <2>4. CASE Normalized(u) = rows[i].canonical
    <3>1. Backfilled(rows[i].normalized) = Normalized(u)
      BY <2>1, <2>4 DEF RowsFit, RowsAreIdentified
    <3> QED BY <2>1, <2>2, <3>1, Strangers
  <2> QED BY <2>1, <2>3, <2>4
<1>2. Init => Inv /\ RowsFit
  BY InitSafe, InitRows
<1>3. Inv /\ RowsFit /\ [Next]_vars => (Inv /\ RowsFit)'
  BY NextSafe, RowsStep
<1> QED BY <1>1, <1>2, <1>3, PTL DEF Spec
-----------------------------------------------------------------------------
(* Who waits for its workers has told them to stop, and may not take it    *)
(* back before they are gone; only who runs may be asked.                  *)
JoinsAreAsked ==
    \A p \in Process : /\ pc[p] \in {"stopping", "joining"} => asked[p]
                       /\ pc[p] = "out" => ~asked[p] /\ ~signalled[p] /\ alive[p] = 0

LEMMA AskedStep == ASSUME Inv, JoinsAreAsked, [Next]_vars PROVE JoinsAreAsked'
<1>1. /\ pc \in [Process -> Labels] /\ asked \in [Process -> BOOLEAN]
      /\ signalled \in [Process -> BOOLEAN] /\ alive \in [Process -> 0..Worker]
  BY DEF Inv, TypeOK, Labels
<1> DEFINE Asks(q) == /\ pc[q] \in {"stopping", "joining"} => asked[q]
                      /\ pc[q] = "out" => ~asked[q] /\ ~signalled[q] /\ alive[q] = 0
<1>2. \A q \in Process : Asks(q)
  BY DEF JoinsAreAsked
<1>3. ASSUME UNCHANGED <<pc, asked, signalled, alive>> PROVE JoinsAreAsked'
  BY <1>3 DEF JoinsAreAsked
<1>4. ASSUME NEW p \in Process, UNCHANGED <<asked, signalled>>, UNCHANGED alive,
             pc[p] \in {"out"} \union StartSteps,
             NEW label \in {"caught", "serving"} \union StartSteps,
             pc' = [pc EXCEPT ![p] = label]
      PROVE  JoinsAreAsked'
  <2>1. label \notin {"stopping", "joining", "out"}
    BY <1>4, LabelsOfSteps
  <2> QED BY <1>1, <1>2, <1>4, <2>1 DEF JoinsAreAsked
<1>5. ASSUME NEW p \in Process, Start(p) \/ Lock(p) PROVE JoinsAreAsked'
  <2>1. pc[p] \in {"out", "lock"} /\ \E l \in {"lock", "create"} : pc' = [pc EXCEPT ![p] = l]
    BY <1>5 DEF Start, Lock, Goto
  <2>2. UNCHANGED <<asked, signalled>> /\ UNCHANGED alive
    BY <1>5 DEF Start, Lock, threads
  <2> QED BY <1>4, <2>1, <2>2, LabelsOfSteps
<1>6. ASSUME NEW p \in Process, Refused(p) \/ Throw(p) \/ Migrate(p) \/ Verify(p)
      PROVE  JoinsAreAsked'
  <2>1. CASE Fails(p)
    BY <1>4, <2>1, LabelsOfSteps DEF Fails
  <2>2. CASE UNCHANGED <<pc, asked, signalled, alive>>
    BY <1>3, <2>2
  <2>3. CASE Onward(p, "migrate", "backfill")
    BY <1>4, <2>3, LabelsOfSteps DEF Onward
  <2> QED BY <1>6, <2>1, <2>2, <2>3, FailingSteps
<1>7. ASSUME NEW p \in Process, Walks(p) PROVE JoinsAreAsked'
  <2>1. \E from, to \in StartSteps : Onward(p, from, to)
    BY <1>7, OnwardSteps, LabelsOfSteps DEF Walks
  <2> QED BY <1>4, <2>1 DEF Onward
<1>8. ASSUME NEW p \in Process, Spawn(p) PROVE JoinsAreAsked'
  <2>1. CASE spawned[p] < Worker
    <3>1. /\ pc[p] = "spawn" /\ UNCHANGED <<pc, asked, signalled>>
          /\ \A q \in Process \ {p} : alive'[q] = alive[q]
      BY <1>1, <1>8, <2>1 DEF Spawn
    <3> QED BY <1>2, <3>1 DEF JoinsAreAsked
  <2>2. CASE ~(spawned[p] < Worker)
    <3>1. /\ pc[p] = "spawn" /\ pc' = [pc EXCEPT ![p] = "serving"]
          /\ UNCHANGED <<asked, signalled>> /\ UNCHANGED alive
      BY <1>8, <2>2 DEF Spawn, Goto, threads
    <3> QED BY <1>4, <3>1, LabelsOfSteps
  <2> QED BY <2>1, <2>2
<1>9. ASSUME NEW p \in Process, ServerEnds(p) \/ Catch(p) PROVE JoinsAreAsked'
  <2>1. /\ asked' = [asked EXCEPT ![p] = TRUE] /\ UNCHANGED <<alive, signalled>>
        /\ \E l \in {"stopping", "joining"} : pc' = [pc EXCEPT ![p] = l]
    BY <1>9 DEF ServerEnds, Catch, Goto, threads
  <2> QED BY <1>1, <1>2, <2>1 DEF JoinsAreAsked
<1>10. ASSUME NEW p \in Process, Leave(p) \/ Crash(p) PROVE JoinsAreAsked'
  <2>1. /\ pc' = [pc EXCEPT ![p] = "out"] /\ asked' = [asked EXCEPT ![p] = FALSE]
        /\ signalled' = [signalled EXCEPT ![p] = FALSE]
        /\ alive'[p] = 0 /\ \A q \in Process \ {p} : alive'[q] = alive[q]
    BY <1>1, <1>10 DEF Leave, Crash, Goto
  <2> QED BY <1>1, <1>2, <2>1 DEF JoinsAreAsked
<1>11. ASSUME NEW p \in Process, Signal(p) \/ Watch(p) PROVE JoinsAreAsked'
  <2>1. /\ pc[p] # "out" /\ UNCHANGED <<pc, alive>>
        /\ \A q \in Process \ {p} : asked'[q] = asked[q] /\ signalled'[q] = signalled[q]
        /\ asked[p] => asked'[p]
    BY <1>1, <1>2, <1>11 DEF Signal, Watch, threads
  <2> QED BY <1>1, <1>2, <2>1 DEF JoinsAreAsked
<1>12. ASSUME NEW p \in Process, WorkerEnds(p) PROVE JoinsAreAsked'
  <2>1. asked[p] /\ UNCHANGED <<pc, asked, signalled>>
    BY <1>12 DEF WorkerEnds
  <2>2. pc[p] # "out" /\ \A q \in Process \ {p} : alive'[q] = alive[q]
    BY <1>1, <1>2, <1>12, <2>1 DEF WorkerEnds
  <2> QED BY <1>1, <1>2, <2>1, <2>2 DEF JoinsAreAsked
<1>13. ASSUME NEW p \in Process, Claim(p) \/ Finish(p) \/ \E u \in Known : Add(p, u)
       PROVE  JoinsAreAsked'
  BY <1>3, <1>13 DEF Claim, Finish, Add, threads
<1>14. ASSUME UNCHANGED vars PROVE JoinsAreAsked'
  BY <1>3, <1>14 DEF vars, threads
<1> QED
  BY Steps, <1>5, <1>6, <1>7, <1>8, <1>9, <1>10, <1>11, <1>12, <1>13, <1>14 DEF Serves

(* run(): no way out waits for workers that were not told to stop, neither *)
(* the one of the server nor the one of an exception, at any moment of the *)
(* start; and nothing asked of a process outlives it.                      *)
THEOREM StartupJoinsAreAsked == Spec => []JoinsAreAsked
<1>1. Init => JoinsAreAsked
  BY DEF Init, JoinsAreAsked
<1>2. Inv /\ JoinsAreAsked /\ [Next]_vars => JoinsAreAsked'
  BY AskedStep
<1> QED BY <1>1, <1>2, StartupSafety, PTL DEF Spec
=============================================================================
