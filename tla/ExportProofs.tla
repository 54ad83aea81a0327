---------------------------- MODULE ExportProofs ----------------------------
(***************************************************************************)
(* Proofs about modules Export and ProcessRunner: one export at a time,    *)
(* only whole files are sent, no file outlives its request, commands get   *)
(* their time, and the slot of the exports is never lost.                  *)
(***************************************************************************)
EXTENDS Export, TLAPS

USE TicksAssumption, ExporterAssumption

CallRecord == [pc : {"idle", "waiting", "watching", "done", "threw"},
               age : 0 .. Timeout, seen : {NotYet} \cup 0 .. Grace,
               term : {NotYet} \cup 0 .. KillAfter, killed : BOOLEAN,
               over : BOOLEAN, timedOut : BOOLEAN, interrupted : BOOLEAN,
               code : {"none", "ok", "error"}]

LEMMA NoCallType == NoCall \in CallRecord
BY DEF NoCall, CallRecord, NotYet

LEMMA InitSafe == Init => TypeOK /\ Safety
<1> SUFFICES ASSUME Init
             PROVE  TypeOK /\ Safety
  OBVIOUS
<1>1. TypeOK
  <2>1. call \in [Call -> CallRecord]
    BY NoCallType DEF Init, RunnerInit
  <2>2. request \in [Call -> [pc : {"idle", "asked", "building", "built", "sending",
                                   "excusing", "removing", "leaving"}, lease : BOOLEAN]]
    BY DEF Init, NoRequest
  <2>3. child \in [Call -> {"none", "running", "dying", "ok", "error"}]
    BY DEF Init, RunnerInit
  <2>4. file \in [Call -> {"none", "partial", "whole", "large"}]
    BY DEF Init, RunnerInit
  <2>5. shutdown \in BOOLEAN /\ up \in BOOLEAN /\ stray \in BOOLEAN
    BY Zenon DEF Init, RunnerInit
  <2>6. slot \in 0 .. 1
    BY DEF Init
  <2> QED BY <2>1, <2>2, <2>3, <2>4, <2>5, <2>6 DEF TypeOK, RunnerTypeOK, CallRecord
<1> USE DEF Init, RunnerInit, NoCall, NoRequest, NotYet
<1>2. NothingIsCutShort
  BY DEF NothingIsCutShort
<1>3. LeasesAreHeld
  BY DEF LeasesAreHeld
<1>4. CallsFitRequests /\ SentIsWhole /\ FilesAreOwned
  BY DEF CallsFitRequests, SentIsWhole, FilesAreOwned, Running
<1> QED BY <1>1, <1>2, <1>3, <1>4 DEF Safety

-----------------------------------------------------------------------------
(* Steps of the watching loop, the child and the clock.                    *)

LEMMA WatchFields ==
    ASSUME TypeOK, NEW c \in Call, NEW effect, WatchWith(c, effect)
    PROVE  /\ call' \in [Call -> CallRecord]
           /\ call'[c].pc = "waiting" /\ call'[c].code = call[c].code
           /\ call'[c].over = (call[c].over \/ TooLarge(c))
           /\ call'[c].timedOut = (call[c].timedOut \/ (OutOfTime(c) /\ ~TooLarge(c) /\ call[c].term = NotYet))
           /\ call'[c].interrupted = (call[c].interrupted \/ shutdown)
           /\ call'[c].seen = Seen(c) /\ call'[c].term = Term(c) /\ call'[c].age = call[c].age
           /\ call'[c].killed = (call[c].killed \/ KillDue(c))
           /\ \A d \in Call \ {c} : call'[d] = call[d]
<1>1. call \in [Call -> CallRecord] /\ call[c] \in CallRecord /\ shutdown \in BOOLEAN
  BY DEF TypeOK, RunnerTypeOK, CallRecord
<1>2. /\ Seen(c) \in {NotYet} \cup 0 .. Grace
      /\ Term(c) \in {NotYet} \cup 0 .. KillAfter
      /\ TooLarge(c) \in BOOLEAN /\ OutOfTime(c) \in BOOLEAN /\ KillDue(c) \in BOOLEAN
  BY <1>1 DEF Seen, Term, TooLarge, OutOfTime, KillDue, CallRecord
<1>3. call' = [call EXCEPT ![c] = Watched(c)]
  BY DEF WatchWith
<1>4. Watched(c) \in CallRecord
  <2>1. /\ (call[c].killed \/ KillDue(c)) \in BOOLEAN
        /\ (call[c].over \/ TooLarge(c)) \in BOOLEAN
        /\ (call[c].timedOut \/ (OutOfTime(c) /\ ~TooLarge(c) /\ call[c].term = NotYet)) \in BOOLEAN
        /\ (call[c].interrupted \/ shutdown) \in BOOLEAN
    OBVIOUS
  <2>2. call[c].age \in 0 .. Timeout /\ call[c].code \in {"none", "ok", "error"}
    BY <1>1 DEF CallRecord
  <2> QED BY <1>2, <2>1, <2>2 DEF Watched, CallRecord
<1>5. call'[c] = Watched(c) /\ \A d \in Call \ {c} : call'[d] = call[d]
  BY <1>1, <1>3
<1> QED BY <1>1, <1>3, <1>4, <1>5 DEF Watched

LEMMA WatchTypes ==
    ASSUME TypeOK, NEW c \in Call, NEW effect, WatchWith(c, effect),
           effect \subseteq {"none", "running", "dying", "ok", "error"}
    PROVE  RunnerTypeOK'
<1>1. child' \in [Call -> {"none", "running", "dying", "ok", "error"}]
  BY DEF WatchWith, TypeOK, RunnerTypeOK
<1>2. UNCHANGED <<shutdown, file>>
  BY DEF WatchWith
<1> QED BY <1>1, <1>2, WatchFields DEF TypeOK, RunnerTypeOK, CallRecord

(* What PollFails and Watch may do to the child.                           *)
LEMMA EffectTypes ==
    ASSUME TypeOK, NEW c \in Call
    PROVE  /\ Effect(c) \subseteq {"none", "running", "dying", "ok", "error"}
           /\ {IF Exited(c) THEN child[c] ELSE "dying"} \subseteq {"dying", "ok", "error"}
BY DEF TypeOK, RunnerTypeOK, Effect, Exited

LEMMA ReasonsAreGiven ==
    ASSUME TypeOK, NothingIsCutShort, NEW c \in Call, NEW effect, WatchWith(c, effect)
    PROVE  NothingIsCutShort'
<1>1. /\ call \in [Call -> CallRecord] /\ shutdown \in BOOLEAN
  BY DEF TypeOK, RunnerTypeOK, CallRecord
<1>2. /\ call'[c].over = (call[c].over \/ TooLarge(c))
      /\ call'[c].timedOut = (call[c].timedOut \/ (OutOfTime(c) /\ ~TooLarge(c) /\ call[c].term = NotYet))
      /\ call'[c].interrupted = (call[c].interrupted \/ shutdown)
      /\ call'[c].seen = Seen(c) /\ call'[c].term = Term(c) /\ call'[c].age = call[c].age
      /\ call'[c].killed = (call[c].killed \/ KillDue(c))
      /\ \A d \in Call \ {c} : call'[d] = call[d]
  BY WatchFields
<1>3. CASE call[c].term # NotYet
  <2>1. Term(c) = call[c].term /\ (call[c].seen # NotYet => Seen(c) = call[c].seen)
    BY <1>3 DEF Term, Seen
  <2>2. call[c].seen >= Grace => call[c].seen # NotYet
    BY DEF NotYet
  <2> QED BY <1>1, <1>2, <1>3, <2>1, <2>2 DEF NothingIsCutShort, KillDue
<1>4. CASE call[c].term = NotYet
  <2>1. ~(call[c].killed) /\ ~KillDue(c)
    BY <1>1, <1>4 DEF NothingIsCutShort, KillDue, Term, NotYet, CallRecord
  <2>2. Term(c) # NotYet =>
           \/ TooLarge(c)
           \/ ~TooLarge(c) /\ Timeout > 0 /\ call[c].age >= Timeout
           \/ shutdown /\ Seen(c) >= Grace
    BY <1>4 DEF Term, OutOfTime, GraceOver
  <2> QED BY <1>1, <1>2, <1>4, <2>1, <2>2 DEF NothingIsCutShort, OutOfTime
<1> QED BY <1>3, <1>4

LEMMA TickSafe ==
    ASSUME TypeOK, NothingIsCutShort, Tick
    PROVE  RunnerTypeOK' /\ NothingIsCutShort'
           /\ \A c \in Call : /\ call'[c].pc = call[c].pc /\ call'[c].over = call[c].over
                              /\ call'[c].code = call[c].code
<1>1. call \in [Call -> CallRecord] /\ UNCHANGED <<shutdown, child, file>>
  BY DEF TypeOK, RunnerTypeOK, CallRecord, Tick
<1>2. ASSUME NEW c \in Call
      PROVE  /\ call'[c] \in CallRecord
             /\ call'[c].pc = call[c].pc /\ call'[c].over = call[c].over
             /\ call'[c].code = call[c].code /\ call'[c].timedOut = call[c].timedOut
             /\ call'[c].interrupted = call[c].interrupted /\ call'[c].killed = call[c].killed
             /\ call[c].term # NotYet => /\ call'[c].term # NotYet /\ call'[c].term >= call[c].term
                                         /\ call'[c].age = call[c].age /\ call'[c].seen = call[c].seen
             /\ call[c].term = NotYet => call'[c].term = NotYet
  <2>1. CASE ~Running(c)
    <3>1. call'[c] = call[c]
      BY <2>1 DEF Tick
    <3>2. call[c] \in CallRecord
      BY <1>1
    <3>3. call[c].term \in Int
      BY <3>2 DEF CallRecord, NotYet
    <3>4. call[c].term >= call[c].term
      BY <3>3
    <3> QED BY <3>1, <3>2, <3>4
  <2>2. CASE Running(c) /\ call[c].term = NotYet
    <3>1. call'[c] = [call[c] EXCEPT !.age = UpTo(@, Timeout), !.seen = UpTo(@, Grace)]
      BY <2>2 DEF Tick
    <3>2. /\ UpTo(call[c].age, Timeout) \in 0 .. Timeout
          /\ UpTo(call[c].seen, Grace) \in {NotYet} \cup 0 .. Grace
      BY <1>1 DEF UpTo, CallRecord, NotYet
    <3>3. call[c] \in CallRecord
      BY <1>1
    <3>4. call'[c] \in CallRecord /\ call'[c].term = call[c].term
      BY <3>1, <3>2, <3>3 DEF CallRecord
    <3>5. /\ call'[c].pc = call[c].pc /\ call'[c].over = call[c].over
          /\ call'[c].code = call[c].code /\ call'[c].timedOut = call[c].timedOut
          /\ call'[c].interrupted = call[c].interrupted /\ call'[c].killed = call[c].killed
      BY <3>1, <3>3 DEF CallRecord
    <3> QED BY <2>2, <3>4, <3>5
  <2>3. CASE Running(c) /\ call[c].term # NotYet
    <3>1. call'[c] = [call[c] EXCEPT !.term = UpTo(@, KillAfter)]
      BY <2>3 DEF Tick
    <3>2. /\ UpTo(call[c].term, KillAfter) \in 0 .. KillAfter
          /\ UpTo(call[c].term, KillAfter) >= call[c].term
      BY <1>1, <2>3 DEF UpTo, CallRecord, NotYet
    <3> QED BY <1>1, <2>3, <3>1, <3>2 DEF CallRecord, NotYet
  <2> QED BY <2>1, <2>2, <2>3
<1>3. call' \in [Call -> CallRecord]
  <2>1. call' = [c \in Call |-> call'[c]]
    BY DEF Tick
  <2> QED BY <1>2, <2>1
<1>4. RunnerTypeOK'
  BY <1>1, <1>3 DEF TypeOK, RunnerTypeOK, CallRecord
<1>5. NothingIsCutShort'
  BY <1>1, <1>2 DEF NothingIsCutShort, CallRecord
<1> QED BY <1>2, <1>4, <1>5

-----------------------------------------------------------------------------
(* Types.                                                                  *)

RequestRecord == [pc : {"idle", "asked", "building", "built", "sending",
                        "excusing", "removing", "leaving"},
                  lease : BOOLEAN]

(* Beginning, reaping and forgetting a call keep its type.                 *)
LEMMA CallTypes ==
    ASSUME TypeOK, NEW c \in Call
    PROVE  /\ \A pc \in {"waiting", "watching", "threw"} :
                 [call EXCEPT ![c].pc = pc] \in [Call -> CallRecord]
           /\ [call EXCEPT ![c] = NoCall] \in [Call -> CallRecord]
           /\ Reap(c) => call' \in [Call -> CallRecord]
<1>1. call \in [Call -> CallRecord] /\ call[c] \in CallRecord
  BY DEF TypeOK, RunnerTypeOK, CallRecord
<1>2. ASSUME NEW pc \in {"waiting", "watching", "threw"}
      PROVE  [call EXCEPT ![c].pc = pc] \in [Call -> CallRecord]
  <2>1. [call[c] EXCEPT !.pc = pc] \in CallRecord
    BY <1>1 DEF CallRecord
  <2> QED BY <1>1, <2>1
<1>3. ASSUME Reap(c)
      PROVE  call' \in [Call -> CallRecord]
  <2>1. PICK over \in BOOLEAN, timedOut \in BOOLEAN, interrupted \in BOOLEAN :
            /\ over = (call[c].over \/ TooLarge(c))
            /\ timedOut = call[c].timedOut /\ interrupted = call[c].interrupted
    BY <1>1 DEF CallRecord
  <2>2. child[c] \in {"ok", "error"}
    BY <1>3 DEF Reap, Exited
  <2>3. call' = [call EXCEPT ![c] = [NoCall EXCEPT !.pc = "done", !.code = child[c], !.over = over,
                                                   !.timedOut = timedOut, !.interrupted = interrupted]]
    BY <1>3, <2>1 DEF Reap
  <2>4. [NoCall EXCEPT !.pc = "done", !.code = child[c], !.over = over,
                       !.timedOut = timedOut, !.interrupted = interrupted] \in CallRecord
    BY <2>2, NoCallType DEF CallRecord
  <2> QED BY <1>1, <2>3, <2>4
<1> QED BY <1>1, <1>2, <1>3, NoCallType

(* What a request step does to the request and the slot keeps their types. *)
LEMMA RequestTypes ==
    ASSUME TypeOK, LeasesAreHeld, NEW c \in Call
    PROVE  /\ \A pc \in {"building", "built", "sending", "removing", "leaving"} :
                 Goto(c, pc) => request' \in [Call -> RequestRecord]
           /\ End(c) => request' \in [Call -> RequestRecord] /\ slot' \in 0 .. 1
           /\ Ask(c) => request' \in [Call -> RequestRecord] /\ slot' \in 0 .. 1
           /\ OpenFails(c) => request' \in [Call -> RequestRecord] /\ slot' \in 0 .. 1
<1>1. request \in [Call -> RequestRecord] /\ request[c] \in RequestRecord /\ slot \in 0 .. 1
  BY DEF TypeOK, RequestRecord
<1>2. ASSUME NEW pc \in {"building", "built", "sending", "removing", "leaving"}, Goto(c, pc)
      PROVE  request' \in [Call -> RequestRecord]
  <2>1. [request[c] EXCEPT !.pc = pc] \in RequestRecord
    BY <1>1 DEF RequestRecord
  <2> QED BY <1>1, <1>2, <2>1 DEF Goto
<1>3. Returned(c) \in 0 .. 1
  BY <1>1 DEF Returned, LeasesAreHeld
<1>4. NoRequest \in RequestRecord
  BY DEF NoRequest, RequestRecord
<1>5. ASSUME Ask(c)
      PROVE  request' \in [Call -> RequestRecord] /\ slot' \in 0 .. 1
  <2>1. [pc |-> "asked", lease |-> c \in Exporter] \in RequestRecord
    BY DEF RequestRecord
  <2>2. request' \in [Call -> RequestRecord]
    BY <1>1, <1>5, <2>1 DEF Ask
  <2>3. slot' \in 0 .. 1
    BY <1>1, <1>5 DEF Ask
  <2> QED BY <2>2, <2>3
<1>6. ASSUME OpenFails(c)
      PROVE  request' \in [Call -> RequestRecord] /\ slot' \in 0 .. 1
  <2>1. [request[c] EXCEPT !.pc = "excusing", !.lease = FALSE] \in RequestRecord
    BY <1>1 DEF RequestRecord
  <2> QED BY <1>1, <1>3, <1>6, <2>1 DEF OpenFails
<1> QED BY <1>1, <1>2, <1>3, <1>4, <1>5, <1>6 DEF End

(* Every step keeps the types.                                             *)
LEMMA TypesKept ==
    ASSUME TypeOK, Safety, [Next]_vars
    PROVE  TypeOK'
<1> USE DEF Safety
<1>t. /\ call \in [Call -> CallRecord] /\ request \in [Call -> RequestRecord]
      /\ child \in [Call -> {"none", "running", "dying", "ok", "error"}]
      /\ file \in [Call -> {"none", "partial", "whole", "large"}]
      /\ slot \in 0 .. 1
  BY DEF TypeOK, RunnerTypeOK, CallRecord, RequestRecord
<1>b. shutdown \in BOOLEAN /\ up \in BOOLEAN /\ stray \in BOOLEAN
  BY DEF TypeOK, RunnerTypeOK
<1>q. ASSUME call' \in [Call -> CallRecord], request' \in [Call -> RequestRecord],
             child' \in [Call -> {"none", "running", "dying", "ok", "error"}],
             file' \in [Call -> {"none", "partial", "whole", "large"}],
             slot' \in 0 .. 1, shutdown' \in BOOLEAN, up' \in BOOLEAN, stray' \in BOOLEAN
      PROVE  TypeOK'
  BY <1>q DEF TypeOK, RunnerTypeOK, CallRecord, RequestRecord
<1>1. ASSUME NEW c \in Call, Ask(c)
      PROVE  TypeOK'
  <2>1. UNCHANGED <<shutdown, call, child, file, up, stray>>
    BY <1>1 DEF Ask, runner
  <2> QED BY <1>t, <1>b, <1>q, <1>1, <2>1, RequestTypes
<1>2. ASSUME NEW c \in Call, Refuse(c) \/ Leave(c)
      PROVE  TypeOK'
  <2>1. UNCHANGED <<shutdown, call, child, file, up, stray>> /\ End(c)
    BY <1>2 DEF Refuse, Leave, runner
  <2> QED BY <1>t, <1>b, <1>q, <2>1, RequestTypes
<1>3. ASSUME NEW c \in Call, Build(c)
      PROVE  TypeOK'
  <2>1. UNCHANGED <<shutdown, slot, up, stray>> /\ Goto(c, "building")
    BY <1>3 DEF Build, Spawn, CannotOpen, CannotSpawn
  <2>2. PICK pc \in {"waiting", "threw"} : call' = [call EXCEPT ![c].pc = pc]
    BY <1>3 DEF Build, Spawn, CannotOpen, CannotSpawn
  <2>3. file' \in {file, [file EXCEPT ![c] = "partial"]} /\ child' \in {child, [child EXCEPT ![c] = "running"]}
    BY <1>3 DEF Build, Spawn, CannotOpen, CannotSpawn
  <2>4. /\ file' \in [Call -> {"none", "partial", "whole", "large"}]
        /\ child' \in [Call -> {"none", "running", "dying", "ok", "error"}]
    BY <1>t, <2>3
  <2>5. call' \in [Call -> CallRecord]
    BY <2>2, CallTypes
  <2> QED BY <1>t, <1>b, <1>q, <2>1, <2>4, <2>5, RequestTypes
<1>4. ASSUME NEW c \in Call, Thrown(c) \/ Failed(c)
      PROVE  TypeOK'
  <2>1. UNCHANGED <<shutdown, child, up>> /\ End(c)
    BY <1>4 DEF Thrown, Failed
  <2>2. call' \in [Call -> CallRecord]
    BY <1>4, CallTypes DEF Thrown, Failed
  <2>3. file' \in [Call -> {"none", "partial", "whole", "large"}]
    BY <1>t, <1>4 DEF Thrown, Failed
  <2>4. stray' = (stray \/ file[c] # "none") \/ stray' = stray
    BY <1>4 DEF Thrown, Failed
  <2>5. stray' \in BOOLEAN
    BY <1>b, <2>4, Zenon
  <2> QED BY <1>t, <1>b, <1>q, <2>1, <2>2, <2>3, <2>5, RequestTypes
<1>5. ASSUME NEW c \in Call, Built(c)
      PROVE  TypeOK'
  <2>1. UNCHANGED <<shutdown, child, file, slot, up, stray>> /\ Goto(c, "built")
    BY <1>5 DEF Built
  <2>2. call' \in [Call -> CallRecord]
    BY <1>5, CallTypes DEF Built
  <2> QED BY <1>t, <1>b, <1>q, <2>1, <2>2, RequestTypes
<1>6. ASSUME NEW c \in Call, Open(c) \/ Sent(c)
      PROVE  TypeOK'
  <2>1. UNCHANGED <<shutdown, call, child, file, slot, up, stray>>
    BY <1>6 DEF Open, Sent, runner
  <2>2. Goto(c, "sending") \/ Goto(c, "removing")
    BY <1>6 DEF Open, Sent
  <2> QED BY <1>t, <1>b, <1>q, <2>1, <2>2, RequestTypes
<1>7. ASSUME NEW c \in Call, OpenFails(c)
      PROVE  TypeOK'
  <2>1. UNCHANGED <<shutdown, call, child, file, up, stray>>
    BY <1>7 DEF OpenFails, runner
  <2> QED BY <1>t, <1>b, <1>q, <1>7, <2>1, RequestTypes
<1>8. ASSUME NEW c \in Call, Remove(c)
      PROVE  TypeOK'
  <2>1. UNCHANGED <<shutdown, call, child, slot, up, stray>> /\ Goto(c, "leaving")
    BY <1>8 DEF Remove
  <2>2. file' \in [Call -> {"none", "partial", "whole", "large"}]
    BY <1>t, <1>8 DEF Remove
  <2> QED BY <1>t, <1>b, <1>q, <2>1, <2>2, RequestTypes
<1>9. ASSUME NEW c \in Call, Command(c)
      PROVE  TypeOK'
  <2>1. UNCHANGED <<request, slot, up, stray>>
    BY <1>9 DEF Command, requests
  <2>2. CASE Reap(c)
    <3>1. UNCHANGED <<shutdown, file>> /\ child' = [child EXCEPT ![c] = "none"]
      BY <2>2 DEF Reap
    <3>2. child' \in [Call -> {"none", "running", "dying", "ok", "error"}]
      BY <1>t, <3>1
    <3> QED BY <1>t, <1>b, <1>q, <2>1, <2>2, <3>1, <3>2, CallTypes
  <2>3. CASE StillRuns(c)
    <3>1. UNCHANGED <<shutdown, child, file>> /\ call' = [call EXCEPT ![c].pc = "watching"]
      BY <2>3 DEF StillRuns
    <3>2. call' \in [Call -> CallRecord]
      BY <3>1, CallTypes
    <3> QED BY <1>t, <1>b, <1>q, <2>1, <3>1, <3>2
  <2>4. CASE Watch(c) \/ PollFails(c)
    <3>1. RunnerTypeOK'
      BY <2>4, WatchTypes, EffectTypes DEF Watch, PollFails
    <3> QED BY <1>t, <1>b, <2>1, <3>1 DEF TypeOK, RequestRecord
  <2>5. CASE Write(c) \/ Succeed(c) \/ Fail(c) \/ Die(c)
    <3>1. UNCHANGED <<shutdown, call>>
      BY <2>5 DEF Write, Succeed, Fail, Die
    <3>2. file' \in [Call -> {"none", "partial", "whole", "large"}]
      BY <1>t, <2>5 DEF Write, Succeed, Fail, Die
    <3>3. child' \in [Call -> {"none", "running", "dying", "ok", "error"}]
      BY <1>t, <2>5 DEF Write, Succeed, Fail, Die
    <3> QED BY <1>t, <1>b, <1>q, <2>1, <3>1, <3>2, <3>3
  <2> QED BY <1>9, <2>2, <2>3, <2>4, <2>5 DEF Command, Loop
<1>10. ASSUME Clock
       PROVE  TypeOK'
  <2>1. UNCHANGED <<request, slot, up, stray>>
    BY <1>10 DEF Clock, requests
  <2>2. RunnerTypeOK'
    BY <1>10, TickSafe DEF Clock
  <2> QED BY <1>t, <1>b, <2>1, <2>2 DEF TypeOK, RequestRecord
<1>11. ASSUME RequestShutdown \/ StopCleanly \/ Start \/ UNCHANGED vars
       PROVE  TypeOK'
  <2>1. UNCHANGED <<call, child, file, request, slot>>
    BY <1>11 DEF RequestShutdown, StopCleanly, Start, vars, runner, requests
  <2>2. shutdown' \in BOOLEAN /\ up' \in BOOLEAN /\ stray' \in BOOLEAN
    BY <1>b, <1>11, Zenon DEF RequestShutdown, StopCleanly, Start, vars, runner, requests
  <2> QED BY <1>t, <1>q, <2>1, <2>2
<1>12. ASSUME Crash
       PROVE  TypeOK'
  <2>1. /\ call' = [c \in Call |-> NoCall] /\ request' = [c \in Call |-> NoRequest]
        /\ child' = [c \in Call |-> "none"] /\ file' = [c \in Call |-> "none"]
        /\ slot' = 1
    BY <1>12 DEF Crash
  <2>2. call' \in [Call -> CallRecord] /\ request' \in [Call -> RequestRecord]
    BY <2>1, NoCallType DEF NoRequest, RequestRecord
  <2>3. child' \in [Call -> {"none", "running", "dying", "ok", "error"}]
    BY <2>1
  <2>4. file' \in [Call -> {"none", "partial", "whole", "large"}]
    BY <2>1
  <2>5. shutdown' \in BOOLEAN /\ up' \in BOOLEAN /\ stray' \in BOOLEAN
    BY <1>b, <1>12, Zenon DEF Crash
  <2> QED BY <1>q, <2>1, <2>2, <2>3, <2>4, <2>5
<1> QED
  BY <1>1, <1>2, <1>3, <1>4, <1>5, <1>6, <1>7, <1>8, <1>9, <1>10, <1>11, <1>12 DEF Next, Request

-----------------------------------------------------------------------------
(* The time commands get.                                                  *)

LEMMA NobodyIsCutShort ==
    ASSUME TypeOK, NothingIsCutShort, [Next]_vars
    PROVE  NothingIsCutShort'
<1>t. call \in [Call -> CallRecord]
  BY DEF TypeOK, RunnerTypeOK, CallRecord
<1>n. NoCall.term = NotYet /\ ~NoCall.killed
  BY DEF NoCall
<1>1. ASSUME UNCHANGED call
      PROVE  NothingIsCutShort'
  BY <1>1 DEF NothingIsCutShort
<1>2. ASSUME NEW c \in Call, NEW pc, call' = [call EXCEPT ![c].pc = pc]
      PROVE  NothingIsCutShort'
  BY <1>t, <1>2 DEF NothingIsCutShort, CallRecord
<1>3. ASSUME NEW c \in Call, call' = [call EXCEPT ![c] = NoCall]
      PROVE  NothingIsCutShort'
  BY <1>t, <1>n, <1>3 DEF NothingIsCutShort
<1>4. ASSUME NEW c \in Call, Command(c)
      PROVE  NothingIsCutShort'
  <2>1. CASE Reap(c)
    <3>1. /\ \A d \in Call \ {c} : call'[d] = call[d]
          /\ call'[c].term = NotYet /\ ~call'[c].killed
      BY <1>t, <2>1 DEF Reap, NoCall
    <3> QED BY <3>1 DEF NothingIsCutShort
  <2>2. CASE StillRuns(c)
    BY <1>2, <2>2 DEF StillRuns
  <2>3. CASE Watch(c) \/ PollFails(c)
    BY <2>3, ReasonsAreGiven DEF Watch, PollFails
  <2>4. CASE Write(c) \/ Succeed(c) \/ Fail(c) \/ Die(c)
    BY <1>1, <2>4 DEF Write, Succeed, Fail, Die
  <2> QED BY <1>4, <2>1, <2>2, <2>3, <2>4 DEF Command, Loop
<1>5. ASSUME NEW c \in Call, Build(c)
      PROVE  NothingIsCutShort'
  BY <1>2, <1>5 DEF Build, Spawn, CannotOpen, CannotSpawn
<1>6. ASSUME NEW c \in Call, Thrown(c) \/ Failed(c) \/ Built(c)
      PROVE  NothingIsCutShort'
  BY <1>3, <1>6 DEF Thrown, Failed, Built
<1>7. ASSUME NEW c \in Call,
             Ask(c) \/ Refuse(c) \/ Open(c) \/ OpenFails(c) \/ Sent(c) \/ Remove(c) \/ Leave(c)
      PROVE  NothingIsCutShort'
  BY <1>1, <1>7 DEF Ask, Refuse, Open, OpenFails, Sent, Remove, Leave, runner
<1>8. ASSUME Crash
      PROVE  NothingIsCutShort'
  BY <1>n, <1>8 DEF Crash, NothingIsCutShort
<1>9. ASSUME RequestShutdown \/ StopCleanly \/ Start \/ UNCHANGED vars
      PROVE  NothingIsCutShort'
  BY <1>1, <1>9 DEF RequestShutdown, StopCleanly, Start, vars, runner
<1> QED
  BY <1>4, <1>5, <1>6, <1>7, <1>8, <1>9, TickSafe DEF Next, Request, Clock

-----------------------------------------------------------------------------
(* The leases.                                                             *)

LEMMA LeasesStayHeld ==
    ASSUME TypeOK, LeasesAreHeld, [Next]_vars
    PROVE  LeasesAreHeld'
<1>t. request \in [Call -> RequestRecord] /\ slot \in 0 .. 1
  BY DEF TypeOK, RequestRecord
<1>1. ASSUME UNCHANGED <<request, slot>>
      PROVE  LeasesAreHeld'
  BY <1>1 DEF LeasesAreHeld
<1>2. ASSUME NEW c \in Call, End(c)
      PROVE  LeasesAreHeld'
  <2>1. /\ request'[c] = NoRequest /\ ~request'[c].lease /\ request'[c].pc = "idle"
        /\ \A d \in Call \ {c} : request'[d] = request[d]
    BY <1>t, <1>2 DEF End, NoRequest
  <2>2. slot' = IF \E d \in Call : request'[d].lease THEN 0 ELSE 1
    BY <1>t, <1>2, <2>1 DEF End, Returned, LeasesAreHeld
  <2> QED BY <2>1, <2>2 DEF LeasesAreHeld
<1>3. ASSUME NEW c \in Call, NEW pc, Goto(c, pc), UNCHANGED slot, request[c].pc # "idle",
             pc # "idle", pc \in {"asked", "building", "built", "sending"} =>
                             request[c].pc \in {"asked", "building", "built", "sending"}
      PROVE  LeasesAreHeld'
  <2>1. /\ request'[c].pc = pc /\ \A d \in Call : request'[d].lease = request[d].lease
        /\ \A d \in Call \ {c} : request'[d] = request[d]
    BY <1>t, <1>3 DEF Goto, RequestRecord
  <2>2. \A d, e \in Call : request'[d].lease /\ request'[e].lease => d = e
    BY <2>1 DEF LeasesAreHeld
  <2>3. slot' = IF \E d \in Call : request'[d].lease THEN 0 ELSE 1
    BY <1>3, <2>1 DEF LeasesAreHeld
  <2>4. \A d \in Exporter : request'[d].pc \in {"asked", "building", "built", "sending"} => request'[d].lease
    <3> SUFFICES ASSUME NEW d \in Exporter, request'[d].pc \in {"asked", "building", "built", "sending"}
                 PROVE  request[d].lease
      BY <2>1
    <3> QED BY <1>3, <2>1 DEF LeasesAreHeld
  <2>5. \A d \in Call : request'[d].pc = "idle" => ~request'[d].lease
    BY <1>3, <2>1 DEF LeasesAreHeld
  <2> QED BY <2>2, <2>3, <2>4, <2>5 DEF LeasesAreHeld
<1>4. ASSUME NEW c \in Call, Ask(c)
      PROVE  LeasesAreHeld'
  <2>1. /\ request'[c].pc = "asked" /\ request'[c].lease = (c \in Exporter)
        /\ \A d \in Call \ {c} : request'[d] = request[d]
        /\ ~request[c].lease
    BY <1>t, <1>4 DEF Ask, At, LeasesAreHeld
  <2>2. CASE c \in Exporter
    <3>1. slot = 1 /\ slot' = 0
      BY <1>t, <1>4, <2>2 DEF Ask
    <3>2. \A d \in Call : ~request[d].lease
      BY <3>1 DEF LeasesAreHeld
    <3> QED BY <2>1, <2>2, <3>1, <3>2 DEF LeasesAreHeld
  <2>3. CASE c \notin Exporter
    <3>1. slot' = slot
      BY <1>4, <2>3 DEF Ask
    <3> QED BY <2>1, <2>3, <3>1 DEF LeasesAreHeld
  <2> QED BY <2>2, <2>3
<1>5. ASSUME NEW c \in Call, OpenFails(c)
      PROVE  LeasesAreHeld'
  <2>1. /\ request'[c].pc = "excusing" /\ ~request'[c].lease
        /\ \A d \in Call \ {c} : request'[d] = request[d]
    BY <1>t, <1>5 DEF OpenFails, RequestRecord
  <2>2. slot' = IF \E d \in Call : request'[d].lease THEN 0 ELSE 1
    BY <1>t, <1>5, <2>1 DEF OpenFails, Returned, LeasesAreHeld
  <2> QED BY <2>1, <2>2 DEF LeasesAreHeld
<1>6. ASSUME NEW c \in Call, Request(c)
      PROVE  LeasesAreHeld'
  <2>1. CASE Refuse(c) \/ Thrown(c) \/ Failed(c) \/ Leave(c)
    BY <1>2, <2>1 DEF Refuse, Thrown, Failed, Leave
  <2>2. CASE Build(c)
    BY <1>3, <2>2 DEF Build, At
  <2>3. CASE Built(c)
    BY <1>3, <2>3 DEF Built, At
  <2>4. CASE Open(c)
    BY <1>3, <2>4 DEF Open, At
  <2>5. CASE Sent(c)
    BY <1>3, <2>5 DEF Sent, At
  <2>6. CASE Remove(c)
    BY <1>3, <2>6 DEF Remove, At
  <2>7. CASE OpenFails(c)
    BY <1>5, <2>7
  <2> QED BY <1>6, <2>1, <2>2, <2>3, <2>4, <2>5, <2>6, <2>7 DEF Request
<1>7. ASSUME Crash
      PROVE  LeasesAreHeld'
  BY <1>7 DEF Crash, NoRequest, LeasesAreHeld
<1>8. ASSUME NEW c \in Call, Command(c)
      PROVE  LeasesAreHeld'
  BY <1>1, <1>8 DEF Command, requests
<1>9. ASSUME Clock \/ RequestShutdown \/ StopCleanly \/ Start \/ UNCHANGED vars
      PROVE  LeasesAreHeld'
  BY <1>1, <1>9 DEF Clock, RequestShutdown, StopCleanly, Start, vars, requests
<1> QED
  BY <1>4, <1>6, <1>7, <1>8, <1>9 DEF Next

-----------------------------------------------------------------------------
(* The files.                                                              *)

(* What the invariants say of one caller.                                  *)
Fit(c) ==
    /\ request[c].pc = "building" <=> call[c].pc # "idle"
    /\ child[c] # "none" => Running(c)
    /\ Running(c) => file[c] # "none"
    /\ child[c] = "ok" => file[c] \in {"whole", "large"}
    /\ call[c].pc = "done" /\ call[c].code = "ok" => file[c] \in {"whole", "large"}
    /\ call[c].pc = "done" /\ file[c] = "large" => call[c].over
    /\ request[c].pc \in {"built", "sending"} => file[c] = "whole"
    /\ file[c] # "none" => request[c].pc \in {"building", "built", "sending", "excusing", "removing"}

LEMMA FitIsAll == (\A c \in Call : Fit(c)) <=> CallsFitRequests /\ SentIsWhole /\ FilesAreOwned
BY DEF Fit, CallsFitRequests, SentIsWhole, FilesAreOwned

(* A caller whose own state stays fits as before.                          *)
LEMMA OthersFit ==
    ASSUME NEW d \in Call, Fit(d), call'[d].pc = call[d].pc, call'[d].code = call[d].code,
           call'[d].over = call[d].over, child'[d] = child[d], file'[d] = file[d],
           request'[d].pc = request[d].pc
    PROVE  Fit(d)'
BY DEF Fit, Running

LEMMA FilesStayOwned ==
    ASSUME TypeOK, NothingIsCutShort, \A c \in Call : Fit(c), [Next]_vars
    PROVE  \A c \in Call : Fit(c)'
<1>t. /\ call \in [Call -> CallRecord] /\ request \in [Call -> RequestRecord]
      /\ child \in [Call -> {"none", "running", "dying", "ok", "error"}]
      /\ file \in [Call -> {"none", "partial", "whole", "large"}]
  BY DEF TypeOK, RunnerTypeOK, CallRecord, RequestRecord
<1>f. ASSUME NEW c \in Call
      PROVE  Fit(c)
  OBVIOUS
<1>s. ASSUME NEW c \in Call, Fit(c)',
             \A d \in Call \ {c} : /\ call'[d] = call[d] /\ child'[d] = child[d]
                                   /\ file'[d] = file[d] /\ request'[d] = request[d]
      PROVE  \A d \in Call : Fit(d)'
  BY <1>f, <1>s, OthersFit
<1>u. ASSUME UNCHANGED <<call, child, file, request>>
      PROVE  \A d \in Call : Fit(d)'
  BY <1>f, <1>u, OthersFit
<1>1. ASSUME NEW c \in Call, Ask(c) \/ Refuse(c) \/ Leave(c)
      PROVE  \A d \in Call : Fit(d)'
  <2>1. UNCHANGED <<call, child, file>>
    BY <1>1 DEF Ask, Refuse, Leave, runner
  <2>2. /\ \A d \in Call \ {c} : request'[d] = request[d]
        /\ request'[c].pc \in {"idle", "asked"} /\ request[c].pc \in {"idle", "asked", "leaving"}
    BY <1>t, <1>1 DEF Ask, Refuse, Leave, At, End, NoRequest
  <2>3. Fit(c)'
    BY <1>f, <2>1, <2>2 DEF Fit, Running
  <2> QED BY <1>s, <2>1, <2>2, <2>3
<1>2. ASSUME NEW c \in Call, Build(c)
      PROVE  \A d \in Call : Fit(d)'
  <2>1. /\ \A d \in Call \ {c} : request'[d] = request[d]
        /\ request[c].pc = "asked" /\ request'[c].pc = "building"
    BY <1>t, <1>2 DEF Build, At, Goto, RequestRecord
  <2>2. child[c] = "none" /\ file[c] = "none"
    BY <1>f, <2>1 DEF Fit, Running
  <2>3. /\ \A d \in Call \ {c} : call'[d] = call[d] /\ child'[d] = child[d] /\ file'[d] = file[d]
        /\ \/ call'[c].pc = "waiting" /\ child'[c] = "running" /\ file'[c] = "partial"
           \/ call'[c].pc = "threw" /\ child'[c] = "none"
    BY <1>t, <1>2, <2>2 DEF Build, Spawn, CannotOpen, CannotSpawn, CallRecord
  <2>4. Fit(c)'
    BY <2>1, <2>3 DEF Fit, Running
  <2> QED BY <1>s, <2>1, <2>3, <2>4
<1>3. ASSUME NEW c \in Call, Thrown(c) \/ Failed(c)
      PROVE  \A d \in Call : Fit(d)'
  <2>1. /\ UNCHANGED child /\ call' = [call EXCEPT ![c] = NoCall]
        /\ file' = [file EXCEPT ![c] = "none"] /\ request' = [request EXCEPT ![c] = NoRequest]
        /\ call[c].pc \in {"threw", "done"}
    BY <1>3 DEF Thrown, Failed, End
  <2>2. /\ \A d \in Call \ {c} : call'[d] = call[d] /\ file'[d] = file[d] /\ request'[d] = request[d]
        /\ call'[c].pc = "idle" /\ file'[c] = "none" /\ request'[c].pc = "idle"
    BY <1>t, <2>1 DEF NoCall, NoRequest
  <2>3. child'[c] = "none"
    BY <1>f, <2>1 DEF Fit, Running
  <2>4. Fit(c)'
    BY <2>2, <2>3 DEF Fit, Running
  <2> QED BY <1>s, <2>1, <2>2, <2>4
<1>4. ASSUME NEW c \in Call, Built(c)
      PROVE  \A d \in Call : Fit(d)'
  <2>1. /\ UNCHANGED <<child, file>> /\ call' = [call EXCEPT ![c] = NoCall] /\ Goto(c, "built")
        /\ call[c].pc = "done" /\ call[c].code = "ok" /\ ~call[c].over
    BY <1>4 DEF Built, Usable
  <2>2. /\ \A d \in Call \ {c} : call'[d] = call[d] /\ request'[d] = request[d]
        /\ call'[c].pc = "idle" /\ request'[c].pc = "built"
    BY <1>t, <2>1 DEF Goto, NoCall, RequestRecord
  <2>3. child[c] = "none" /\ file[c] = "whole"
    BY <1>f, <2>1 DEF Fit, Running
  <2>4. Fit(c)'
    BY <2>1, <2>2, <2>3 DEF Fit, Running
  <2> QED BY <1>s, <2>1, <2>2, <2>4
<1>5. ASSUME NEW c \in Call, Open(c) \/ OpenFails(c) \/ Sent(c)
      PROVE  \A d \in Call : Fit(d)'
  <2>1. UNCHANGED <<call, child, file>>
    BY <1>5 DEF Open, OpenFails, Sent, runner
  <2>2. /\ \A d \in Call \ {c} : request'[d] = request[d]
        /\ request[c].pc \in {"built", "sending", "excusing"}
        /\ request'[c].pc \in {"sending", "excusing", "removing"}
        /\ request'[c].pc = "sending" => request[c].pc = "built"
    BY <1>t, <1>5 DEF Open, OpenFails, Sent, At, Goto, RequestRecord
  <2>3. Fit(c)'
    BY <1>f, <2>1, <2>2 DEF Fit, Running
  <2> QED BY <1>s, <2>1, <2>2, <2>3
<1>6. ASSUME NEW c \in Call, Remove(c)
      PROVE  \A d \in Call : Fit(d)'
  <2>1. UNCHANGED <<call, child>> /\ file' = [file EXCEPT ![c] = "none"]
    BY <1>6 DEF Remove
  <2>2. /\ \A d \in Call \ {c} : request'[d] = request[d]
        /\ request[c].pc = "removing" /\ request'[c].pc = "leaving"
    BY <1>t, <1>6 DEF Remove, At, Goto, RequestRecord
  <2>3. \A d \in Call \ {c} : file'[d] = file[d]
    BY <1>t, <2>1
  <2>4. file'[c] = "none" /\ child'[c] = "none" /\ call'[c].pc = "idle"
    BY <1>t, <1>f, <2>1, <2>2 DEF Fit, Running
  <2>5. Fit(c)'
    BY <2>2, <2>4 DEF Fit, Running
  <2> QED BY <1>s, <2>1, <2>2, <2>3, <2>5
<1>7. ASSUME NEW c \in Call, Command(c)
      PROVE  \A d \in Call : Fit(d)'
  <2>1. UNCHANGED request
    BY <1>7 DEF Command, requests
  <2>2. CASE Reap(c)
    <3>1. /\ UNCHANGED file /\ \A d \in Call \ {c} : call'[d] = call[d] /\ child'[d] = child[d]
          /\ call[c].pc = "waiting" /\ call'[c].pc = "done" /\ call'[c].code = child[c]
          /\ call'[c].over = (call[c].over \/ TooLarge(c)) /\ child'[c] = "none"
      BY <1>t, <2>2 DEF Reap, NoCall
    <3>2. Fit(c)'
      BY <1>f, <2>1, <3>1 DEF Fit, Running, TooLarge
    <3> QED BY <1>s, <2>1, <3>1, <3>2
  <2>3. CASE StillRuns(c)
    <3>1. /\ UNCHANGED <<child, file>> /\ \A d \in Call \ {c} : call'[d] = call[d]
          /\ call[c].pc = "waiting" /\ call'[c].pc = "watching"
      BY <1>t, <2>3 DEF StillRuns, CallRecord
    <3>2. Fit(c)'
      BY <1>f, <2>1, <3>1 DEF Fit, Running
    <3> QED BY <1>s, <2>1, <3>1, <3>2
  <2>4. CASE Watch(c) \/ PollFails(c)
    <3>1. PICK effect : WatchWith(c, effect) /\ effect \in {Effect(c), {IF Exited(c) THEN child[c] ELSE "dying"}}
      BY <2>4 DEF Watch, PollFails
    <3>2. /\ UNCHANGED file /\ \A d \in Call \ {c} : call'[d] = call[d]
          /\ call[c].pc = "watching" /\ call'[c].pc = "waiting"
      BY <3>1, WatchFields DEF WatchWith
    <3>3. /\ \A d \in Call \ {c} : child'[d] = child[d]
          /\ child'[c] = "ok" => child[c] = "ok"
      BY <1>t, <3>1 DEF WatchWith, Effect, Exited
    <3>4. Fit(c)'
      BY <1>f, <2>1, <3>2, <3>3 DEF Fit, Running
    <3> QED BY <1>s, <2>1, <3>2, <3>3, <3>4
  <2>5. CASE Write(c) \/ Succeed(c) \/ Fail(c) \/ Die(c)
    <3>1. /\ UNCHANGED call /\ \A d \in Call \ {c} : child'[d] = child[d] /\ file'[d] = file[d]
          /\ child[c] \in {"running", "dying"} /\ child'[c] \in {"running", "dying", "ok", "error"}
          /\ child'[c] = "ok" => file'[c] = IF file[c] = "partial" THEN "whole" ELSE file[c]
          /\ file'[c] = file[c] \/ file'[c] \in {"large", "whole"}
      BY <1>t, <2>5 DEF Write, Succeed, Fail, Die
    <3>2. Running(c) /\ file[c] # "none" /\ request[c].pc = "building"
      BY <1>f, <3>1 DEF Fit, Running
    <3>3. file[c] \in {"partial", "whole", "large"}
      BY <1>t, <3>2
    <3>4. Fit(c)'
      BY <2>1, <3>1, <3>2, <3>3 DEF Fit, Running
    <3> QED BY <1>s, <2>1, <3>1, <3>4
  <2> QED BY <1>7, <2>2, <2>3, <2>4, <2>5 DEF Command, Loop
<1>8. ASSUME Clock
      PROVE  \A d \in Call : Fit(d)'
  <2>1. UNCHANGED <<child, file, request>>
    BY <1>8 DEF Clock, Tick, requests
  <2> QED BY <1>8, <1>f, <2>1, TickSafe, OthersFit DEF Clock
<1>9. ASSUME Crash
      PROVE  \A d \in Call : Fit(d)'
  <2> SUFFICES ASSUME NEW d \in Call
               PROVE  Fit(d)'
    OBVIOUS
  <2>1. /\ call'[d].pc = "idle" /\ request'[d].pc = "idle"
        /\ child'[d] = "none" /\ file'[d] = "none"
    BY <1>9 DEF Crash, NoCall, NoRequest
  <2> QED BY <2>1 DEF Fit, Running
<1>10. ASSUME RequestShutdown \/ StopCleanly \/ Start \/ UNCHANGED vars
       PROVE  \A d \in Call : Fit(d)'
  BY <1>u, <1>10 DEF RequestShutdown, StopCleanly, Start, vars, runner, requests
<1> QED
  BY <1>1, <1>2, <1>3, <1>4, <1>5, <1>6, <1>7, <1>8, <1>9, <1>10 DEF Next, Request

-----------------------------------------------------------------------------
(* The theorems.                                                           *)

(* Types and safety are an inductive invariant: the leases go with the     *)
(* requests, the files with the commands and the requests.                 *)
THEOREM ExportSafety == Spec => [](TypeOK /\ Safety)
<1>1. Init => TypeOK /\ Safety
  BY InitSafe
<1>2. TypeOK /\ Safety /\ [Next]_vars => (TypeOK /\ Safety)'
  <2> SUFFICES ASSUME TypeOK, Safety, [Next]_vars
               PROVE  (TypeOK /\ Safety)'
    OBVIOUS
  <2>1. \A c \in Call : Fit(c)
    BY FitIsAll DEF Safety
  <2>2. \A c \in Call : Fit(c)'
    BY <2>1, FilesStayOwned DEF Safety
  <2>3. (CallsFitRequests /\ SentIsWhole /\ FilesAreOwned)'
    BY <2>2 DEF Fit, CallsFitRequests, SentIsWhole, FilesAreOwned
  <2> QED BY <2>3, TypesKept, NobodyIsCutShort, LeasesStayHeld DEF Safety
<1> QED BY <1>1, <1>2, PTL DEF Spec

(* Every variable stays within its type: the semaphore is never released   *)
(* beyond its one permit, the clocks never run past their limits.          *)
THEOREM ExportTypes == Spec => []TypeOK
BY ExportSafety, PTL

(* No two exports are generated or downloaded at once.                     *)
THEOREM OneExportAtATime == Spec => []OneExport
<1>1. TypeOK /\ Safety => OneExport
  BY DEF Safety, LeasesAreHeld, OneExport, Exporting
<1> QED BY <1>1, ExportSafety, PTL

(* What is sent is whole and within the limit.                             *)
THEOREM OnlyWholeFilesAreSent == Spec => []SentIsWhole
<1>1. TypeOK /\ Safety => SentIsWhole
  BY DEF Safety
<1> QED BY <1>1, ExportSafety, PTL

(* No temporary file outlives its request.                                 *)
THEOREM FilesGoWithRequests == Spec => []FilesAreOwned
<1>1. TypeOK /\ Safety => FilesAreOwned
  BY DEF Safety
<1> QED BY <1>1, ExportSafety, PTL

(* No command is stopped before its time.                                  *)
THEOREM CommandsGetTheirTime == Spec => []NothingIsCutShort
<1>1. TypeOK /\ Safety => NothingIsCutShort
  BY DEF Safety
<1> QED BY <1>1, ExportSafety, PTL
-----------------------------------------------------------------------------
(* The slot is on its way back.  Whoever waits for a command has one that  *)
(* can still end, and the one SIGKILL of a call is not lost.               *)
KillFits(c) ==
    /\ Running(c) => child[c] # "none"
    /\ call[c].killed => Running(c) /\ child[c] # "running"
KillIsFinal == \A c \in Call : KillFits(c)

SlotIsAccounted ==
    slot = 0 => \E c \in Call : /\ request[c].lease /\ request[c].pc # "idle"
                                /\ request[c].pc = "building" => call[c].pc # "idle"
                                /\ Running(c) => child[c] # "none"
                                /\ call[c].killed => child[c] # "running"

LEMMA OthersKeepKill ==
    ASSUME NEW d \in Call, KillFits(d), child'[d] = child[d], call'[d].pc = call[d].pc,
           call'[d].killed = call[d].killed
    PROVE  KillFits(d)'
BY DEF KillFits, Running

LEMMA KillStaysFinal ==
    ASSUME TypeOK, CallsFitRequests, KillIsFinal, [Next]_vars
    PROVE  KillIsFinal'
<1>t. /\ call \in [Call -> CallRecord]
      /\ child \in [Call -> {"none", "running", "dying", "ok", "error"}]
  BY DEF TypeOK, RunnerTypeOK, CallRecord
<1>k. \A d \in Call : KillFits(d)
  BY DEF KillIsFinal
<1>1. ASSUME UNCHANGED <<call, child>> PROVE KillIsFinal'
  BY <1>1 DEF KillIsFinal, KillFits, Running
<1>2. ASSUME NEW c \in Call, KillFits(c)',
             \A d \in Call \ {c} : call'[d] = call[d] /\ child'[d] = child[d]
      PROVE  KillIsFinal'
  BY <1>2, <1>k, OthersKeepKill DEF KillIsFinal
<1>3. ASSUME NEW c \in Call, Build(c) PROVE KillIsFinal'
  <2>1. request[c].pc = "asked"
    BY <1>3 DEF Build, At
  <2>2. call[c].pc = "idle" /\ ~Running(c) /\ ~call[c].killed
    BY <1>k, <2>1 DEF CallsFitRequests, KillFits, Running
  <2>3. ~call'[c].killed
    BY <1>t, <1>3, <2>2 DEF Build, Spawn, CannotOpen, CannotSpawn, CallRecord
  <2>4. CASE Spawn(c)
    <3>1. /\ child'[c] = "running"
          /\ \A d \in Call \ {c} : call'[d] = call[d] /\ child'[d] = child[d]
      BY <1>t, <2>4 DEF Spawn
    <3> QED BY <1>2, <2>3, <3>1 DEF KillFits
  <2>5. CASE CannotOpen(c) \/ CannotSpawn(c)
    <3>1. /\ call'[c].pc = "threw"
          /\ \A d \in Call \ {c} : call'[d] = call[d] /\ child'[d] = child[d]
      BY <1>t, <2>5 DEF CannotOpen, CannotSpawn, CallRecord
    <3> QED BY <1>2, <2>3, <3>1 DEF KillFits, Running
  <2> QED BY <1>3, <2>4, <2>5 DEF Build
<1>4. ASSUME NEW c \in Call, Thrown(c) \/ Failed(c) \/ Built(c) PROVE KillIsFinal'
  <2>1. call' = [call EXCEPT ![c] = NoCall] /\ UNCHANGED child
    BY <1>4 DEF Thrown, Failed, Built
  <2>2. call'[c] = NoCall /\ \A d \in Call \ {c} : call'[d] = call[d]
    BY <1>t, <2>1
  <2>3. KillFits(c)'
    BY <2>2 DEF KillFits, Running, NoCall
  <2> QED BY <1>2, <2>1, <2>2, <2>3
<1>5. ASSUME NEW c \in Call, Reap(c) PROVE KillIsFinal'
  <2>1. /\ call'[c].pc = "done" /\ ~call'[c].killed
        /\ \A d \in Call \ {c} : call'[d] = call[d] /\ child'[d] = child[d]
    BY <1>t, <1>5 DEF Reap, NoCall
  <2> QED BY <1>2, <2>1 DEF KillFits, Running
<1>6. ASSUME NEW c \in Call, StillRuns(c) PROVE KillIsFinal'
  <2>1. /\ call[c].pc = "waiting" /\ call'[c].pc = "watching"
        /\ call'[c].killed = call[c].killed /\ UNCHANGED child
        /\ \A d \in Call \ {c} : call'[d] = call[d]
    BY <1>t, <1>6 DEF StillRuns, CallRecord
  <2>2. KillFits(c)'
    BY <1>k, <2>1 DEF KillFits, Running
  <2> QED BY <1>2, <2>1, <2>2
<1>7. ASSUME NEW c \in Call, Watch(c) \/ PollFails(c) PROVE KillIsFinal'
  <2>1. PICK state \in Effect(c) \cup {IF Exited(c) THEN child[c] ELSE "dying"} :
           child' = [child EXCEPT ![c] = state]
    BY <1>7 DEF Watch, PollFails, WatchWith
  <2>2. call[c].pc = "watching" /\ call' = [call EXCEPT ![c] = Watched(c)]
    BY <1>7 DEF Watch, PollFails, WatchWith
  <2>3. /\ call'[c].pc = "waiting" /\ call'[c].killed = (call[c].killed \/ KillDue(c))
        /\ child'[c] = state
        /\ \A d \in Call \ {c} : call'[d] = call[d] /\ child'[d] = child[d]
    BY <1>t, <2>1, <2>2 DEF Watched
  <2>4. child[c] # "none" /\ (call[c].killed => child[c] # "running")
    BY <1>k, <2>2 DEF KillFits, Running
  <2>5. state # "none" /\ (call[c].killed \/ KillDue(c) => state # "running")
    <3>1. CASE child[c] # "running"
      <4>1. Effect(c) = {child[c]}
        BY <3>1 DEF Effect
      <4>2. state = child[c] \/ state = "dying"
        BY <2>1, <4>1
      <4> QED BY <2>4, <3>1, <4>2
    <3>2. CASE child[c] = "running"
      <4>1. ~call[c].killed
        BY <2>4, <3>2
      <4>2. KillDue(c) => Term(c) = call[c].term
        BY TicksAssumption DEF KillDue, Term
      <4>3. /\ Effect(c) \subseteq {"dying", "running"}
            /\ KillDue(c) => Effect(c) = {"dying"}
        BY <3>2, <4>2 DEF Effect
      <4>4. ~Exited(c)
        BY <3>2 DEF Exited
      <4> QED BY <2>1, <4>1, <4>3, <4>4
    <3> QED BY <3>1, <3>2
  <2>6. KillFits(c)'
    BY <2>3, <2>5 DEF KillFits, Running
  <2> QED BY <1>2, <2>3, <2>6
<1>8. ASSUME NEW c \in Call, Write(c) \/ Succeed(c) \/ Fail(c) \/ Die(c) PROVE KillIsFinal'
  <2>1. CASE Write(c)
    BY <1>1, <2>1 DEF Write
  <2>2. CASE Succeed(c) \/ Fail(c) \/ Die(c)
    <3>1. /\ UNCHANGED call /\ child'[c] \in {"ok", "error"}
          /\ child[c] \in {"running", "dying"}
          /\ \A d \in Call \ {c} : child'[d] = child[d]
      BY <1>t, <2>2 DEF Succeed, Fail, Die
    <3>2. KillFits(c)'
      BY <1>k, <3>1 DEF KillFits, Running
    <3> QED BY <1>2, <3>1, <3>2
  <2> QED BY <1>8, <2>1, <2>2
<1>9. ASSUME Clock PROVE KillIsFinal'
  <2>1. ASSUME NEW d \in Call
        PROVE  call'[d].pc = call[d].pc /\ call'[d].killed = call[d].killed
    <3>1. call[d] \in CallRecord
      BY <1>t
    <3>2. call'[d] \in {call[d],
                        [call[d] EXCEPT !.age = UpTo(@, Timeout), !.seen = UpTo(@, Grace)],
                        [call[d] EXCEPT !.term = UpTo(@, KillAfter)]}
      BY <1>9 DEF Clock, Tick
    <3> QED BY <3>1, <3>2 DEF CallRecord
  <2>2. UNCHANGED child
    BY <1>9 DEF Clock, Tick
  <2> QED BY <1>k, <2>1, <2>2, OthersKeepKill DEF KillIsFinal
<1>10. ASSUME Crash PROVE KillIsFinal'
  <2>1. \A d \in Call : call'[d] = NoCall
    BY <1>10 DEF Crash
  <2> QED BY <2>1 DEF KillIsFinal, KillFits, Running, NoCall
<1>11. ASSUME NEW c \in Call,
              \/ Ask(c) \/ Refuse(c) \/ Open(c) \/ OpenFails(c) \/ Sent(c) \/ Remove(c)
              \/ Leave(c)
       PROVE  KillIsFinal'
  BY <1>1, <1>11 DEF Ask, Refuse, Open, OpenFails, Sent, Remove, Leave, runner
<1>12. ASSUME RequestShutdown \/ StopCleanly \/ Start \/ UNCHANGED vars PROVE KillIsFinal'
  BY <1>1, <1>12 DEF RequestShutdown, StopCleanly, Start, vars, runner
<1> QED
  BY <1>3, <1>4, <1>5, <1>6, <1>7, <1>8, <1>9, <1>10, <1>11, <1>12
     DEF Next, Request, Command, Loop

(* run_process sends SIGKILL once and then only waits: no command is still *)
(* running that has been killed, in whatever order it exits, is signalled  *)
(* and is waited for, also when poll fails.                                *)
THEOREM NoCommandOutlivesTheKill == Spec => []KillIsFinal
<1>1. Init => KillIsFinal
  <2> SUFFICES ASSUME Init, NEW c \in Call PROVE KillFits(c)
    BY DEF KillIsFinal
  <2>1. call[c] = NoCall
    BY DEF Init, RunnerInit
  <2>2. call[c].pc = "idle" /\ ~call[c].killed
    BY <2>1 DEF NoCall
  <2> QED BY <2>2 DEF KillFits, Running
<1>2. TypeOK /\ Safety /\ KillIsFinal /\ [Next]_vars => KillIsFinal'
  BY KillStaysFinal DEF Safety
<1> QED BY <1>1, <1>2, ExportSafety, PTL DEF Spec

(* The archive slot is never lost: while it is taken, a request that is    *)
(* not over has it, and if that one waits for a command, the command is    *)
(* there to end and no signal that would end it has been used up.          *)
THEOREM SlotIsNeverLost == Spec => []SlotIsAccounted
<1>1. TypeOK /\ Safety /\ KillIsFinal => SlotIsAccounted
  <2> SUFFICES ASSUME TypeOK, Safety, KillIsFinal, slot = 0 PROVE SlotIsAccounted
    BY DEF SlotIsAccounted
  <2>1. PICK c \in Call : request[c].lease
    BY DEF Safety, LeasesAreHeld
  <2>2. request[c].pc # "idle" /\ (request[c].pc = "building" => call[c].pc # "idle")
    BY <2>1 DEF Safety, LeasesAreHeld, CallsFitRequests
  <2>3. KillFits(c)
    BY DEF KillIsFinal
  <2> QED BY <2>1, <2>2, <2>3 DEF SlotIsAccounted, KillFits
<1> QED BY <1>1, ExportSafety, NoCommandOutlivesTheKill, PTL
=============================================================================
