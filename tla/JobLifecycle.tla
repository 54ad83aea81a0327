---------------------------- MODULE JobLifecycle ----------------------------
(***************************************************************************)
(* What the job queue promises to those who submit work, without workers,  *)
(* transactions, pauses or delays: a job is submitted once, runs only      *)
(* while no other job of its owner runs, goes back to the queue or ends,   *)
(* and an ended or forgotten job never comes back.  Work that has not      *)
(* ended disappears only together with its owner.                          *)
(***************************************************************************)

CONSTANTS
    Job,      \* the jobs that can ever be submitted
    Owner,    \* who they are for
    NoOwner   \* not an owner: work that is for nobody in particular

VARIABLES phase, owner

lifecycle == <<phase, owner>>

Phase == {"new", "queued", "running", "ended", "gone"}

In(p) == {j \in Job : phase[j] = p}

Init == /\ phase = [j \in Job |-> "new"]
        /\ owner = [j \in Job |-> NoOwner]

(* Any number of jobs enter the queue together.                            *)
Submit ==
    \E batch \in SUBSET In("new") : \E whose \in [batch -> Owner \cup {NoOwner}] :
        /\ phase' = [j \in Job |-> IF j \in batch THEN "queued" ELSE phase[j]]
        /\ owner' = [j \in Job |-> IF j \in batch THEN whose[j] ELSE owner[j]]

(* The owner is busy as long as one of its jobs runs.                      *)
Begin(j) ==
    /\ phase[j] = "queued"
    /\ owner[j] # NoOwner => \A k \in In("running") : owner[k] # owner[j]
    /\ phase' = [phase EXCEPT ![j] = "running"]
    /\ UNCHANGED owner

GoBack(j) ==
    /\ phase[j] = "running"
    /\ phase' = [phase EXCEPT ![j] = "queued"]
    /\ UNCHANGED owner

(* A job ends; any ended jobs may be dropped from the history with it.     *)
End(j) ==
    /\ phase[j] = "running"
    /\ \E dropped \in SUBSET (In("ended") \cup {j}) :
         /\ phase' = [k \in Job |-> IF k \in dropped THEN "gone"
                                    ELSE IF k = j THEN "ended" ELSE phase[k]]
         /\ owner' = [k \in Job |-> IF k \in dropped THEN NoOwner ELSE owner[k]]

(* An owner is removed, and all its work with it.                          *)
Remove(o) ==
    /\ phase' = [j \in Job |-> IF owner[j] = o THEN "gone" ELSE phase[j]]
    /\ owner' = [j \in Job |-> IF owner[j] = o THEN NoOwner ELSE owner[j]]

(* After a restart nothing runs.                                           *)
Restart ==
    /\ phase' = [j \in Job |-> IF phase[j] = "running" THEN "queued" ELSE phase[j]]
    /\ UNCHANGED owner

Next == \/ Submit
        \/ \E j \in Job : Begin(j) \/ GoBack(j) \/ End(j)
        \/ \E o \in Owner : Remove(o)
        \/ Restart

Spec == Init /\ [][Next]_lifecycle
=============================================================================
