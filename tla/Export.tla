------------------------------- MODULE Export -------------------------------
(***************************************************************************)
(* Exports and raw downloads: requests that let a command write a          *)
(* temporary file, send it and remove it.  Exports hold the one archive    *)
(* slot from the handler's first line until their response is destroyed.   *)
(*                                                                         *)
(* Requests and commands are interchangeable with the calls of             *)
(* ProcessRunner: a request makes one call.  Names of temporary files are  *)
(* never used again (process id and serial number), so that a file whose   *)
(* request is over can only be removed by the next start.                  *)
(***************************************************************************)
EXTENDS ProcessRunner, FiniteSets

CONSTANT
    Exporter     \* the callers that export; the others are raw downloads

ASSUME ExporterAssumption == Exporter \subseteq Call

VARIABLES
    request,     \* the requests that want a file
    slot,        \* archive_slot_
    up,          \* the process
    stray        \* temporary files of requests that are over

requests == <<request, slot, up, stray>>
vars == <<shutdown, runner, requests>>

NoRequest == [pc |-> "idle", lease |-> FALSE]

Init == /\ RunnerInit
        /\ request = [c \in Call |-> NoRequest]
        /\ slot = 1
        /\ up = TRUE
        /\ stray = FALSE

At(c, pc) == request[c].pc = pc
Goto(c, pc) == request' = [request EXCEPT ![c].pc = pc]

(* The destructor of the lease, if the request has one.                    *)
Returned(c) == slot + IF request[c].lease THEN 1 ELSE 0

(* The request is over: whatever it holds is destroyed.                    *)
End(c) == request' = [request EXCEPT ![c] = NoRequest] /\ slot' = Returned(c)

-----------------------------------------------------------------------------
(* The handlers.                                                           *)

(* An export without the slot is answered with 503; raw_blob needs none.   *)
Ask(c) ==
    /\ up
    /\ At(c, "idle")
    /\ c \in Exporter => slot > 0
    /\ slot' = IF c \in Exporter THEN slot - 1 ELSE slot
    /\ request' = [request EXCEPT ![c] = [pc |-> "asked", lease |-> c \in Exporter]]
    /\ UNCHANGED <<shutdown, runner, up, stray>>

(* No such repository, no mirror, an invalid ref, a blob that is too large *)
(* by its size, or no directory for the file.                              *)
Refuse(c) ==
    /\ At(c, "asked")
    /\ End(c)
    /\ UNCHANGED <<shutdown, runner, up, stray>>

Build(c) ==
    /\ At(c, "asked")
    /\ Spawn(c) \/ CannotOpen(c) \/ CannotSpawn(c)
    /\ Goto(c, "building")
    /\ UNCHANGED <<slot, up, stray>>

ThrownKeepingLease(c) ==
    /\ At(c, "building")
    /\ call[c].pc = "threw"
    /\ stray' = (stray \/ file[c] # "none")
    /\ file' = [file EXCEPT ![c] = "none"]
    /\ call' = [call EXCEPT ![c] = NoCall]
    /\ request' = [request EXCEPT ![c] = NoRequest]
    /\ UNCHANGED <<shutdown, child, slot, up>>
(* An exception leaves the handler and becomes a 500.                      *)
Thrown(c) ==
    /\ At(c, "building")
    /\ call[c].pc = "threw"
    /\ stray' = (stray \/ file[c] # "none")
    /\ file' = [file EXCEPT ![c] = "none"]
    /\ call' = [call EXCEPT ![c] = NoCall]
    /\ End(c)
    /\ UNCHANGED <<shutdown, child, up>>

Usable(c) == ~call[c].over /\ call[c].code = "ok"

FailedLittering(c) ==
    /\ At(c, "building")
    /\ call[c].pc = "done"
    /\ ~Usable(c)
    /\ file' = IF call[c].over THEN [file EXCEPT ![c] = "none"] ELSE file
    /\ call' = [call EXCEPT ![c] = NoCall]
    /\ End(c)
    /\ UNCHANGED <<shutdown, child, up, stray>>
(* Too large, or the command failed: the file is removed.                  *)
Failed(c) ==
    /\ At(c, "building")
    /\ call[c].pc = "done"
    /\ ~Usable(c)
    /\ file' = [file EXCEPT ![c] = "none"]
    /\ call' = [call EXCEPT ![c] = NoCall]
    /\ End(c)
    /\ UNCHANGED <<shutdown, child, up, stray>>

BuiltForgettingLease(c) ==
    /\ At(c, "building")
    /\ call[c].pc = "done"
    /\ Usable(c)
    /\ call' = [call EXCEPT ![c] = NoCall]
    /\ request' = [request EXCEPT ![c] = [@ EXCEPT !.pc = "built", !.lease = FALSE]]
    /\ slot' = Returned(c)
    /\ UNCHANGED <<shutdown, child, file, up, stray>>
(* The response takes the lease along (lifetime_guard).                    *)
Built(c) ==
    /\ At(c, "building")
    /\ call[c].pc = "done"
    /\ Usable(c)
    /\ call' = [call EXCEPT ![c] = NoCall]
    /\ Goto(c, "built")
    /\ UNCHANGED <<shutdown, child, file, slot, up, stray>>

-----------------------------------------------------------------------------
(* The response: handle_client.                                            *)

Open(c) ==
    /\ At(c, "built")
    /\ Goto(c, "sending")
    /\ UNCHANGED <<shutdown, runner, slot, up, stray>>

(* A 500 takes the place of the response, which drops its lease already;   *)
(* the file is still removed.                                              *)
OpenFails(c) ==
    /\ At(c, "built")
    /\ request' = [request EXCEPT ![c] = [@ EXCEPT !.pc = "excusing", !.lease = FALSE]]
    /\ slot' = Returned(c)
    /\ UNCHANGED <<shutdown, runner, up, stray>>

(* All of it was sent, or the client is gone, or the deadline is over.     *)
Sent(c) ==
    /\ At(c, "sending") \/ At(c, "excusing")
    /\ Goto(c, "removing")
    /\ UNCHANGED <<shutdown, runner, slot, up, stray>>

Remove(c) ==
    /\ At(c, "removing")
    /\ file' = [file EXCEPT ![c] = "none"]
    /\ Goto(c, "leaving")
    /\ UNCHANGED <<shutdown, call, child, slot, up, stray>>

Leave(c) ==
    /\ At(c, "leaving")
    /\ End(c)
    /\ UNCHANGED <<shutdown, runner, up, stray>>

Request(c) ==
    \/ Refuse(c) \/ Build(c) \/ Thrown(c) \/ Failed(c) \/ Built(c)
    \/ Open(c) \/ OpenFails(c) \/ Sent(c) \/ Remove(c) \/ Leave(c)

-----------------------------------------------------------------------------
(* The process.  run() returns once the client workers are joined.         *)

RequestShutdown ==
    /\ up
    /\ shutdown' = TRUE
    /\ UNCHANGED <<runner, requests>>

StopCleanly ==
    /\ up
    /\ shutdown
    /\ \A c \in Call : At(c, "idle")
    /\ up' = FALSE
    /\ shutdown' = FALSE
    /\ UNCHANGED <<runner, request, slot, stray>>

(* Commands may outlive the process, they have process groups of their     *)
(* own; what they write is in files that nobody will send.                 *)
Crash ==
    /\ up
    /\ up' = FALSE
    /\ shutdown' = FALSE
    /\ stray' = (stray \/ \E c \in Call : file[c] # "none")
    /\ call' = [c \in Call |-> NoCall]
    /\ child' = [c \in Call |-> "none"]
    /\ file' = [c \in Call |-> "none"]
    /\ request' = [c \in Call |-> NoRequest]
    /\ slot' = 1

(* cleanup_orphaned_temp_dirs                                              *)
Start ==
    /\ ~up
    /\ up' = TRUE
    /\ stray' = FALSE
    /\ UNCHANGED <<shutdown, runner, request, slot>>

Command(c) ==
    /\ Loop(c) \/ PollFails(c) \/ Write(c) \/ Succeed(c) \/ Fail(c) \/ Die(c)
    /\ UNCHANGED requests
Clock == Tick /\ UNCHANGED requests

Next ==
    \/ \E c \in Call : Ask(c) \/ Request(c) \/ Command(c)
    \/ Clock \/ RequestShutdown \/ StopCleanly \/ Crash \/ Start

Spec == Init /\ [][Next]_vars

(* The threads of requests go on, sending has a deadline, time passes, and *)
(* a process that was killed dies.  Commands need not come to an end.      *)
Fairness ==
    /\ WF_vars(Clock)
    /\ \A c \in Call : /\ WF_vars(Request(c))
                       /\ WF_vars(Loop(c) /\ UNCHANGED requests)
                       /\ WF_vars(Die(c) /\ UNCHANGED requests)

FairSpec == Spec /\ Fairness

-----------------------------------------------------------------------------
(* Properties.                                                             *)

(* Every variable stays within its type; the binary semaphore is never     *)
(* released twice.                                                         *)
TypeOK ==
    /\ RunnerTypeOK
    /\ request \in [Call -> [pc : {"idle", "asked", "building", "built", "sending",
                                   "excusing", "removing", "leaving"},
                             lease : BOOLEAN]]
    /\ slot \in 0 .. 1
    /\ up \in BOOLEAN /\ stray \in BOOLEAN

(* One export is generated or downloaded at a time (README: "another       *)
(* request receives 503 until the current generation/download finishes").  *)
Exporting(c) == c \in Exporter /\ request[c].pc \in {"building", "built", "sending"}
OneExport == \A c, d \in Call : Exporting(c) /\ Exporting(d) => c = d

(* What is sent is the whole output of a command that succeeded, and       *)
(* within the limit, even if it grew after it was last looked at.          *)
SentIsWhole == \A c \in Call : request[c].pc \in {"built", "sending"} => file[c] = "whole"

(* A temporary file is there only while its request is: it is removed      *)
(* after sending, on disconnect, after a failure, a time-out or a shutdown.*)
(* Only exceptions and crashes leave strays (README: "Temporary files are  *)
(* removed after sending, on disconnect, and during the next startup").    *)
FilesAreOwned ==
    \A c \in Call :
        file[c] # "none" => request[c].pc \in {"building", "built", "sending", "excusing", "removing"}

(* What the properties above rest on.  The slot is free or leased once,    *)
(* and a response that is built or sent still has its lease.               *)
LeasesAreHeld ==
    /\ \A c, d \in Call : request[c].lease /\ request[d].lease => c = d
    /\ slot = IF \E c \in Call : request[c].lease THEN 0 ELSE 1
    /\ \A c \in Exporter : request[c].pc \in {"asked", "building", "built", "sending"} => request[c].lease
    /\ \A c \in Call : request[c].pc = "idle" => ~request[c].lease

(* The child of a call and its file go along with the call; a command that *)
(* succeeded has written everything, and a result never hides a large file.*)
CallsFitRequests ==
    \A c \in Call :
        /\ request[c].pc = "building" <=> call[c].pc # "idle"
        /\ child[c] # "none" => Running(c)
        /\ Running(c) => file[c] # "none"
        /\ child[c] = "ok" => file[c] \in {"whole", "large"}
        /\ call[c].pc = "done" /\ call[c].code = "ok" => file[c] \in {"whole", "large"}
        /\ call[c].pc = "done" /\ file[c] = "large" => call[c].over

(* The inductive invariant.                                                *)
Safety == NothingIsCutShort /\ LeasesAreHeld /\ CallsFitRequests /\ SentIsWhole /\ FilesAreOwned

(* The slot comes back, whatever becomes of the command and the client.    *)
SlotComesBack == slot = 0 ~> slot = 1
=============================================================================
