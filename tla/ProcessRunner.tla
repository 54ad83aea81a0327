--------------------------- MODULE ProcessRunner ---------------------------
(***************************************************************************)
(* ProcessRunner::run_to_file: the loop that watches a child process and   *)
(* its output file, with the time-out, the grace of a shutdown, the size   *)
(* limit and the two signals.  ProcessRunner::run is the same loop without *)
(* a file.                                                                 *)
(*                                                                         *)
(* Time passes in ticks.  A running call keeps how long ago it started and *)
(* saw the shutdown, until it sends SIGTERM, and how long ago it sent it;  *)
(* each only up to the limit it is compared with.  The module has no       *)
(* next-state relation of its own: who calls begins a call and forgets it. *)
(***************************************************************************)
EXTENDS Integers

CONSTANTS
    Call,        \* the callers, each with one call at a time
    Timeout,     \* timeout (10 minutes for an export); 0 is none
    Grace,       \* shutdown_grace (1 second for an export, 10 for a job)
    KillAfter    \* from SIGTERM to SIGKILL (5 seconds)

ASSUME TicksAssumption ==
    Timeout \in Nat /\ Grace \in Nat /\ KillAfter \in Nat \ {0}

VARIABLES
    shutdown,    \* shutdown_requested_
    call,        \* the state of run_process
    child,       \* the child process
    file         \* the output file

runner == <<call, child, file>>

NotYet == -1
NoCall == [pc |-> "idle", age |-> 0, seen |-> NotYet, term |-> NotYet, killed |-> FALSE,
           over |-> FALSE, timedOut |-> FALSE, interrupted |-> FALSE, code |-> "none"]

Running(c) == call[c].pc \in {"waiting", "watching"}
Exited(c)  == child[c] \in {"ok", "error"}

RunnerInit ==
    /\ shutdown = FALSE
    /\ call  = [c \in Call |-> NoCall]
    /\ child = [c \in Call |-> "none"]
    /\ file  = [c \in Call |-> "none"]

-----------------------------------------------------------------------------
(* The beginning of a call: the file, the pipe, the child.                 *)

CannotOpen(c) ==
    /\ call' = [call EXCEPT ![c].pc = "threw"]
    /\ UNCHANGED <<shutdown, child, file>>

(* Without a pipe or a child the exception leaves the file behind.         *)
CannotSpawn(c) ==
    /\ call' = [call EXCEPT ![c].pc = "threw"]
    /\ file' = [file EXCEPT ![c] = "partial"]
    /\ UNCHANGED <<shutdown, child>>

Spawn(c) ==
    /\ call' = [call EXCEPT ![c].pc = "waiting"]
    /\ file' = [file EXCEPT ![c] = "partial"]
    /\ child' = [child EXCEPT ![c] = "running"]
    /\ UNCHANGED shutdown

-----------------------------------------------------------------------------
(* The loop.                                                               *)

TooLarge(c) == file[c] = "large"

(* waitpid reaps the child; the file is measured once more.                *)
ReapUnmeasured(c) ==
    /\ call[c].pc = "waiting"
    /\ Exited(c)
    /\ call' = [call EXCEPT ![c] = [NoCall EXCEPT !.pc = "done", !.code = child[c],
                                                  !.over = call[c].over,
                                                  !.timedOut = call[c].timedOut,
                                                  !.interrupted = call[c].interrupted]]
    /\ child' = [child EXCEPT ![c] = "none"]
    /\ UNCHANGED <<shutdown, file>>
Reap(c) ==
    /\ call[c].pc = "waiting"
    /\ Exited(c)
    /\ call' = [call EXCEPT ![c] = [NoCall EXCEPT !.pc = "done", !.code = child[c],
                                                  !.over = call[c].over \/ TooLarge(c),
                                                  !.timedOut = call[c].timedOut,
                                                  !.interrupted = call[c].interrupted]]
    /\ child' = [child EXCEPT ![c] = "none"]
    /\ UNCHANGED <<shutdown, file>>

StillRuns(c) ==
    /\ call[c].pc = "waiting"
    /\ ~Exited(c)
    /\ call' = [call EXCEPT ![c].pc = "watching"]
    /\ UNCHANGED <<shutdown, child, file>>

(* The four reasons to send a signal, in the order they are looked at.     *)
OutOfTime(c) == Timeout > 0 /\ call[c].age >= Timeout
Seen(c)      == IF shutdown /\ call[c].seen = NotYet THEN 0 ELSE call[c].seen
GraceIgnored(c) == shutdown
GraceOver(c) == shutdown /\ Seen(c) >= Grace
Term(c)      == IF call[c].term = NotYet /\ (TooLarge(c) \/ OutOfTime(c) \/ GraceOver(c))
                THEN 0 ELSE call[c].term
KillDue(c)   == Term(c) >= KillAfter /\ ~call[c].killed

(* A child may ignore SIGTERM, not SIGKILL; one that exited feels nothing. *)
Effect(c) ==
    IF child[c] # "running" THEN {child[c]}
    ELSE IF KillDue(c) THEN {"dying"}
    ELSE IF Term(c) # call[c].term THEN {"dying", "running"}
    ELSE {"running"}

(* One pass over the reasons, up to the end of poll.                       *)
Watched(c) ==
    [pc          |-> "waiting",
     age         |-> call[c].age,
     seen        |-> Seen(c),
     term        |-> Term(c),
     killed      |-> call[c].killed \/ KillDue(c),
     over        |-> call[c].over \/ TooLarge(c),
     timedOut    |-> call[c].timedOut \/ (OutOfTime(c) /\ ~TooLarge(c) /\ call[c].term = NotYet),
     interrupted |-> call[c].interrupted \/ shutdown,
     code        |-> call[c].code]

WatchWith(c, effect) ==
    /\ call[c].pc = "watching"
    /\ call' = [call EXCEPT ![c] = Watched(c)]
    /\ \E state \in effect : child' = [child EXCEPT ![c] = state]
    /\ UNCHANGED <<shutdown, file>>

Watch(c) == WatchWith(c, Effect(c))

(* A failing poll kills the child and the loop goes on.                    *)
PollFails(c) == WatchWith(c, {IF Exited(c) THEN child[c] ELSE "dying"})

Loop(c) == Reap(c) \/ StillRuns(c) \/ Watch(c)

-----------------------------------------------------------------------------
(* The child and the clock.  A command that a signal stops fails.          *)

Write(c) ==
    /\ child[c] \in {"running", "dying"}
    /\ file[c] = "partial"
    /\ file' = [file EXCEPT ![c] = "large"]
    /\ UNCHANGED <<shutdown, call, child>>

Succeed(c) ==
    /\ child[c] = "running"
    /\ child' = [child EXCEPT ![c] = "ok"]
    /\ file' = [file EXCEPT ![c] = IF @ = "partial" THEN "whole" ELSE @]
    /\ UNCHANGED <<shutdown, call>>

Fail(c) ==
    /\ child[c] = "running"
    /\ child' = [child EXCEPT ![c] = "error"]
    /\ UNCHANGED <<shutdown, call, file>>

Die(c) ==
    /\ child[c] = "dying"
    /\ child' = [child EXCEPT ![c] = "error"]
    /\ UNCHANGED <<shutdown, call, file>>

UpTo(ticks, limit) == IF ticks = NotYet \/ ticks >= limit THEN ticks ELSE ticks + 1

Tick ==
    /\ call' = [c \in Call |->
                  CASE ~Running(c) -> call[c]
                    [] Running(c) /\ call[c].term = NotYet ->
                         [call[c] EXCEPT !.age = UpTo(@, Timeout), !.seen = UpTo(@, Grace)]
                    [] OTHER -> [call[c] EXCEPT !.term = UpTo(@, KillAfter)]]
    /\ UNCHANGED <<shutdown, child, file>>

-----------------------------------------------------------------------------
(* Properties.                                                             *)

RunnerTypeOK ==
    /\ shutdown \in BOOLEAN
    /\ call \in [Call -> [pc : {"idle", "waiting", "watching", "done", "threw"},
                          age : 0 .. Timeout, seen : {NotYet} \cup 0 .. Grace,
                          term : {NotYet} \cup 0 .. KillAfter, killed : BOOLEAN,
                          over : BOOLEAN, timedOut : BOOLEAN, interrupted : BOOLEAN,
                          code : {"none", "ok", "error"}]]
    /\ child \in [Call -> {"none", "running", "dying", "ok", "error"}]
    /\ file \in [Call -> {"none", "partial", "whole", "large"}]

(* A command is never stopped before its time is up: SIGTERM has a reason  *)
(* that the result reports, after a shutdown only when the grace is over,  *)
(* and SIGKILL comes its time after SIGTERM (README: "Gives a Git/curl     *)
(* child process still running up to ~10 seconds to finish on its own;     *)
(* after that it sends SIGTERM, then SIGKILL five seconds later").         *)
NothingIsCutShort ==
    \A c \in Call :
        /\ call[c].term # NotYet =>
             \/ call[c].over
             \/ call[c].timedOut /\ Timeout > 0 /\ call[c].age >= Timeout
             \/ call[c].interrupted /\ call[c].seen >= Grace
        /\ call[c].killed => call[c].term >= KillAfter
=============================================================================
