---------------------------- MODULE ClientRequest ----------------------------
(***************************************************************************)
(* What a client thread of the HTTP server does with one connection:       *)
(* handle_client.  It reads the head and the body of a request under a     *)
(* deadline, refuses what it does not accept, lets the application answer, *)
(* and sends the answer under another deadline.  The client is free to be  *)
(* slow, silent or gone; the server, when it stops, shuts the socket down. *)
(*                                                                         *)
(* Bytes are counted in units.  Time passes only while the thread waits in *)
(* recv or send.                                                           *)
(***************************************************************************)
EXTENDS Integers

CONSTANTS
    Head,           \* what the heads of requests may say
    MaxHeader,      \* max_header
    MaxBody,        \* max_body
    Buffer,         \* the most that one recv or send moves
    Wait,           \* SO_RCVTIMEO and SO_SNDTIMEO
    Deadline,       \* kRequestDeadline
    SendLimit,      \* the values of send_timeout_seconds
    MaxAnswer,      \* bound: units of an answer
    Horizon         \* bound: where the clock stops

ASSUME SizeAssumption == /\ MaxHeader \in Nat \ {0} /\ MaxBody \in Nat
                         /\ Buffer \in Nat \ {0} /\ MaxAnswer \in Nat \ {0}
ASSUME TimeAssumption == /\ Wait \in Nat \ {0} /\ Deadline \in Nat \ {0}
                         /\ SendLimit \subseteq Nat \ {0}
                         /\ Horizon \in Nat
                         /\ Horizon >= Deadline + Wait
                         /\ \A s \in SendLimit : Horizon >= s + Wait
(* The length of a head is -1 when it is no number.                        *)
ASSUME HeadAssumption ==
    Head \subseteq [line : BOOLEAN, headers : BOOLEAN, host : BOOLEAN, cross : BOOLEAN,
                    length : Int, encoded : BOOLEAN, csrf : BOOLEAN,
                    method : {"GET", "POST", "PUT"},
                    target : {"page", "form", "view", "command", "unknown"}]

VARIABLES
    pc,       \* where handle_client is
    now,      \* time since the current deadline was set
    waited,   \* time in the current recv or send
    input,    \* units received
    end,      \* where the head ended
    head,     \* what it says
    gone,     \* the client closed, or the server shut the socket down
    acted,    \* history: an operation that changes something was called
    status,   \* of the answer; 0 while there is none
    left,     \* units of the answer that are not sent
    due,      \* the current deadline: request_deadline, then response_deadline
    file      \* body_file: none, kept, temporary, and whether it is open

vars == <<pc, now, waited, input, end, head, gone, acted, status, left, due, file>>
request == <<input, end, head, acted>>

NoHead == [line |-> FALSE, headers |-> FALSE, host |-> FALSE, cross |-> FALSE,
           length |-> 0, encoded |-> FALSE, csrf |-> FALSE,
           method |-> "GET", target |-> "unknown"]
NoFile == [kind |-> "none", open |-> FALSE]

Init == /\ pc = "head" /\ now = 0 /\ waited = 0
        /\ input = 0 /\ end = 0 /\ head = NoHead
        /\ gone = FALSE /\ acted = FALSE
        /\ status = 0 /\ left = 0 /\ due = Deadline /\ file = NoFile

(***************************************************************************)
(* Refusals, in the order of the code; 0 is none.                          *)
(***************************************************************************)
Verdict(h) == IF ~h.line THEN 400
              ELSE IF ~h.headers THEN 400
              ELSE IF ~h.host THEN 403
              ELSE IF h.method = "POST" /\ h.cross THEN 403
              ELSE IF h.length < 0 THEN 400
              ELSE IF h.encoded THEN 501
              ELSE IF h.length > MaxBody THEN 413
              ELSE 0

(* A short answer, or the first units of a long one: the clock starts anew. *)
Answer(code, f, size, seconds) ==
    /\ pc' = "send" /\ status' = code
    /\ now' = 0 /\ waited' = 0
    /\ left' = size /\ due' = seconds /\ file' = f

Refuse(code) == \E s \in SendLimit : Answer(code, NoFile, 1, s)
KeepAnswer == UNCHANGED <<status, left, due, file>>

(* The loop condition and the deadline, before each recv of the body.      *)
SurplusTaken(got, h) ==
    IF got < h.length
    THEN IF now >= due THEN Refuse(408)
         ELSE pc' = "body" /\ waited' = 0 /\ UNCHANGED now /\ KeepAnswer
    ELSE pc' = "handle" /\ UNCHANGED <<now, waited>> /\ KeepAnswer

DeadlineRestarted(got, h) ==
    IF got < h.length
    THEN IF now >= due THEN Refuse(408)
         ELSE /\ pc' = "body" /\ waited' = 0 /\ UNCHANGED <<now, status, left, file>>
              /\ due' = IF pc = "head" THEN now + Deadline ELSE due
    ELSE IF got = h.length
         THEN pc' = "handle" /\ UNCHANGED <<now, waited>> /\ KeepAnswer
         ELSE Refuse(400)

MoreBody(got, h) ==
    IF got < h.length
    THEN IF now >= due THEN Refuse(408)
         ELSE pc' = "body" /\ waited' = 0 /\ UNCHANGED now /\ KeepAnswer
    ELSE IF got = h.length
         THEN pc' = "handle" /\ UNCHANGED <<now, waited>> /\ KeepAnswer
         ELSE Refuse(400)

(***************************************************************************)
(* Reading.                                                                *)
(***************************************************************************)
RecvHead(n) ==
    /\ pc = "head"
    /\ input' = input + n
    /\ UNCHANGED <<end, head, gone, acted>>
    /\ IF input' >= MaxHeader THEN Refuse(413)
       ELSE IF now >= due THEN Refuse(408)
       ELSE waited' = 0 /\ UNCHANGED <<pc, now>> /\ KeepAnswer

(* The units hold the end of the head, and perhaps some of the body.       *)
RecvEnd(n) ==
    /\ pc = "head"
    /\ input' = input + n
    /\ \E e \in (input + 1)..(input + n), h \in Head :
          /\ end' = e /\ head' = h
          /\ IF Verdict(h) # 0 THEN Refuse(Verdict(h)) ELSE MoreBody(input + n - e, h)
    /\ UNCHANGED <<gone, acted>>

RecvBody(n) ==
    /\ pc = "body" /\ n <= head.length - (input - end)
    /\ input' = input + n
    /\ MoreBody(input + n - end, head)
    /\ UNCHANGED <<end, head, gone, acted>>

(* recv says that the client is gone, or nothing came in time.             *)
RecvFails ==
    /\ gone \/ waited = Wait
    /\ \/ pc = "head" /\ pc' = "done" /\ UNCHANGED <<now, waited>> /\ KeepAnswer
       \/ pc = "body" /\ Refuse(400)
    /\ UNCHANGED <<request, gone>>

(***************************************************************************)
(* Application::handle_request: the token of every POST first, then the    *)
(* route.  A page and a view answer GET, a form and a command act on POST; *)
(* a form of another method is not found.                                  *)
(***************************************************************************)
Acts(h) == h.method = "POST" /\ h.target \in {"form", "command"}

AllowedByTarget(h) == h.target \in {"form"} => h.csrf

Allowed(h) == h.method = "POST" => h.csrf

Routed(h) == IF Acts(h) \/ (h.method = "GET" /\ h.target \in {"page", "view"}) THEN 200
             ELSE IF h.target \in {"view", "command"} THEN 405 ELSE 404

(* Some routes answer with a file; it may be gone by the time it is opened. *)
OpenFile(f, code, size, seconds) ==
    \/ Answer(code, [f EXCEPT !.open = TRUE], size, seconds)
    \/ Answer(500, f, 1, seconds)

Handle ==
    /\ pc = "handle"
    /\ acted' = (Allowed(head) /\ Acts(head))
    /\ \E s \in SendLimit, size \in 1..MaxAnswer :
          \/ ~Allowed(head) /\ Answer(400, NoFile, 1, s)
          \/ Allowed(head) /\ Answer(Routed(head), NoFile, size, s)
          \/ Allowed(head) /\ Answer(500, NoFile, 1, s)
          \/ /\ Allowed(head) /\ Routed(head) = 200
             /\ \E k \in {"kept", "temporary"} :
                   OpenFile([kind |-> k, open |-> FALSE], 200, size, s)
    /\ UNCHANGED <<input, end, head, gone>>

(***************************************************************************)
(* Sending: send_all of the head and of each part of the body.  However it *)
(* ends, the file is closed and, if it is temporary, removed.              *)
(***************************************************************************)
Close == pc' = "done" /\ file' = NoFile

SendSome(n) ==
    /\ pc = "send" /\ n <= left
    /\ left' = left - n
    /\ IF left' = 0 \/ now >= due
       THEN Close /\ UNCHANGED <<now, waited>>
       ELSE waited' = 0 /\ UNCHANGED <<pc, now, file>>
    /\ UNCHANGED <<request, gone, status, due>>

SendRetried ==
    /\ pc = "send" /\ (gone \/ waited = Wait)
    /\ UNCHANGED <<request, gone, status, left, due>>
    /\ IF gone THEN Close /\ UNCHANGED <<now, waited>>
       ELSE waited' = 0 /\ UNCHANGED <<pc, now, file>>

SendFails ==
    /\ pc = "send" /\ (gone \/ waited = Wait)
    /\ UNCHANGED <<request, gone, status, left, due>>
    /\ Close /\ UNCHANGED <<now, waited>>

(***************************************************************************)
(* The world.                                                              *)
(***************************************************************************)
Leave == /\ pc # "done" /\ ~gone
         /\ gone' = TRUE
         /\ UNCHANGED <<request, pc, now, waited, status, left, due, file>>

Tick == /\ pc \in {"head", "body", "send"} /\ waited < Wait
        /\ waited' = waited + 1
        /\ now' = IF now < Horizon THEN now + 1 ELSE now
        /\ UNCHANGED <<request, pc, gone, status, left, due, file>>

Next == \/ \E n \in 1..Buffer : RecvHead(n) \/ RecvEnd(n) \/ RecvBody(n) \/ SendSome(n)
        \/ RecvFails \/ Handle \/ SendFails \/ Leave \/ Tick

Spec == Init /\ [][Next]_vars

(* Time passes, a call that failed returns, the application answers.       *)
Fairness == WF_vars(Tick) /\ WF_vars(RecvFails) /\ WF_vars(SendFails) /\ WF_vars(Handle)
FairSpec == Spec /\ Fairness

(***************************************************************************)
(* Properties.                                                             *)
(***************************************************************************)
TypeOK == /\ pc \in {"head", "body", "handle", "send", "done"}
          /\ now \in 0..Horizon /\ waited \in 0..Wait
          /\ input \in Nat /\ end \in 0..input
          /\ head \in Head \union {NoHead}
          /\ gone \in BOOLEAN /\ acted \in BOOLEAN
          /\ status \in {0, 200, 400, 403, 404, 405, 408, 413, 500, 501}
          /\ left \in 0..MaxAnswer /\ due \in SendLimit \union {Deadline}
          /\ file \in [kind : {"none", "kept", "temporary"}, open : BOOLEAN]

(* The application is only ever given a request whose head was accepted    *)
(* and whose body is exactly as long as it says, however the units came.   *)
HandlerSeesAll ==
    pc = "handle" => Verdict(head) = 0 /\ input - end = head.length

(* Nothing is changed but by a whole POST from a page of this server: its  *)
(* token is right, its Host header is, and no other site sent it.          *)
ActsAreAuthentic ==
    acted => /\ head.method = "POST" /\ head.csrf /\ head.host /\ ~head.cross
             /\ input - end = head.length

(* A client holds a thread for no longer than the two deadlines and one    *)
(* call each, although every unit it sends or takes starts a new wait.     *)
ThreadIsFreed ==
    /\ pc \in {"head", "body", "handle"} => now < Deadline + Wait
    /\ pc = "send" => now < due + Wait

(* However sending ends, nothing is left open, and no temporary file.      *)
FileIsReleased == pc = "done" => file = NoFile

(* A connection that is closed without an answer had no whole head.        *)
SilenceIsDeserved == pc = "done" /\ status = 0 => end = 0 /\ (gone \/ waited = Wait)

(* What the parts above rest on: where the clocks, the file and the answer *)
(* stand at each place of handle_client.                                   *)
Places ==
    /\ pc \in {"head", "body", "send"} => now < due + waited
    /\ pc \in {"head", "body"} => due = Deadline
    /\ pc \in {"head", "body", "handle"} => file = NoFile /\ ~acted
    /\ pc = "head" => end = 0
    /\ pc = "body" => Verdict(head) = 0
    /\ pc = "send" => status # 0

(* The inductive invariant.                                                *)
Safety == /\ HandlerSeesAll /\ ActsAreAuthentic /\ ThreadIsFreed
          /\ FileIsReleased /\ SilenceIsDeserved /\ Places

(* Every connection ends, whatever the client does.                        *)
ConnectionEnds == <>(pc = "done")
=============================================================================
