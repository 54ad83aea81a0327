----------------------------- MODULE HttpServer -----------------------------
(***************************************************************************)
(* The threads of the HTTP server: the one that accepts connections and    *)
(* stops the server, and the pool that serves them, with the set and the   *)
(* queue of client sockets, their mutex and condition variable, and the    *)
(* process's table of file descriptors, whose numbers are used again.      *)
(*                                                                         *)
(* What a request says and what a handler answers is left out: serving a   *)
(* client is one step that comes to its end by itself.  So are spurious    *)
(* wake-ups, which look like a notification whose client another worker    *)
(* took first.                                                             *)
(***************************************************************************)
EXTENDS Integers, FiniteSets, Sequences

CONSTANTS
    Worker,       \* the client workers (16 in the code)
    Fd,           \* file descriptor numbers
    NoFd,         \* -1
    NoOne,        \* nobody holds the mutex
    MaxClients,   \* kMaxQueuedClients (64)
    MaxArrivals   \* bound: connections that arrive

ASSUME ThreadAssumption == IsFiniteSet(Worker) /\ Worker # {} /\ NoOne \notin Worker
ASSUME FdAssumption     == IsFiniteSet(Fd) /\ NoFd \notin Fd
ASSUME BoundAssumption  == MaxClients \in Nat \ {0} /\ MaxArrivals \in Nat

VARIABLES
    asked,        \* shutdown_requested_
    stop,         \* stop_
    listening,    \* listen_fd_ is open
    acceptor,     \* the thread in run()
    worker,       \* the threads in client_worker_loop()
    mutex,        \* client_mutex_
    queue,        \* client_queue_
    clients,      \* client_fds_
    open,         \* what each descriptor number stands for in the process
    cut,          \* sockets that were shut down
    arrivals

vars == <<asked, stop, listening, acceptor, worker, mutex, queue, clients, open,
          cut, arrivals>>
sockets == <<queue, clients, open, cut>>

Init == /\ asked = FALSE
        /\ stop = FALSE
        /\ listening = FALSE
        /\ acceptor = [pc |-> "binding", fd |-> NoFd]
        /\ worker = [w \in Worker |-> [pc |-> "absent", fd |-> NoFd]]
        /\ mutex = NoOne
        /\ queue = << >>
        /\ clients = {}
        /\ open = [f \in Fd |-> "free"]
        /\ cut = {}
        /\ arrivals = 0

-----------------------------------------------------------------------------
(* run(): start, accept, stop.                                             *)

At(pc) == acceptor.pc = pc
Goto(pc) == acceptor' = [acceptor EXCEPT !.pc = pc]

(* socket, bind and listen; a failure returns at once.                     *)
Listen ==
    /\ At("binding")
    /\ \/ Goto("starting") /\ listening' = TRUE
       \/ Goto("done") /\ UNCHANGED listening
    /\ UNCHANGED <<asked, stop, worker, mutex, sockets, arrivals>>

(* start_client_workers; a thread that cannot be made stops the others.    *)
StartWorker(w) ==
    /\ At("starting")
    /\ worker[w].pc = "absent"
    /\ worker' = [worker EXCEPT ![w].pc = "lock"]
    /\ UNCHANGED <<asked, stop, listening, acceptor, mutex, sockets, arrivals>>

StartFails ==
    /\ At("starting")
    /\ \E w \in Worker : worker[w].pc = "absent"
    /\ Goto("stopping")
    /\ UNCHANGED <<asked, stop, listening, worker, mutex, sockets, arrivals>>

Started ==
    /\ At("starting")
    /\ \A w \in Worker : worker[w].pc # "absent"
    /\ Goto("loop")
    /\ UNCHANGED <<asked, stop, listening, worker, mutex, sockets, arrivals>>

Loop ==
    /\ At("loop")
    /\ Goto(IF stop \/ asked THEN "stopping" ELSE "poll")
    /\ UNCHANGED <<asked, stop, listening, worker, mutex, sockets, arrivals>>

(* poll times out, or the client is gone again and accept4 fails.          *)
PollTimesOut ==
    /\ At("poll")
    /\ Goto("loop")
    /\ UNCHANGED <<asked, stop, listening, worker, mutex, sockets, arrivals>>

(* poll or accept fails for good.                                          *)
PollFails ==
    /\ At("poll")
    /\ Goto("stopping")
    /\ UNCHANGED <<asked, stop, listening, worker, mutex, sockets, arrivals>>

Accept(f) ==
    /\ At("poll")
    /\ arrivals < MaxArrivals
    /\ open[f] = "free"
    /\ open' = [open EXCEPT ![f] = "client"]
    /\ acceptor' = [pc |-> "admit", fd |-> f]
    /\ arrivals' = arrivals + 1
    /\ UNCHANGED <<asked, stop, listening, worker, mutex, queue, clients, cut>>

AdmitIf(room) ==
    /\ At("admit")
    /\ mutex = NoOne
    /\ \/ /\ room
          /\ clients' = clients \cup {acceptor.fd}
          /\ queue' = Append(queue, acceptor.fd)
          /\ Goto("notify")
       \/ /\ ~room
          /\ Goto("refuse")
          /\ UNCHANGED <<clients, queue>>
    /\ UNCHANGED <<asked, stop, listening, worker, mutex, open, cut, arrivals>>
Admit == AdmitIf(Cardinality(clients) < MaxClients)

NotifyNobody ==
    /\ At("notify")
    /\ Goto("loop")
    /\ UNCHANGED <<asked, stop, listening, worker, mutex, sockets, arrivals>>
(* notify_one                                                              *)
Notify ==
    /\ At("notify")
    /\ Goto("loop")
    /\ \/ \E w \in Worker : /\ worker[w].pc = "asleep"
                            /\ worker' = [worker EXCEPT ![w].pc = "lock"]
       \/ (\A w \in Worker : worker[w].pc # "asleep") /\ UNCHANGED worker
    /\ UNCHANGED <<asked, stop, listening, mutex, sockets, arrivals>>

Refuse ==
    /\ At("refuse")
    /\ open' = [open EXCEPT ![acceptor.fd] = "free"]
    /\ Goto("loop")
    /\ UNCHANGED <<asked, stop, listening, worker, mutex, queue, clients, cut, arrivals>>

(* request_stop: the flag without the mutex, the sockets with it, and then *)
(* everybody is woken.                                                     *)
StoreStop ==
    /\ At("stopping")
    /\ stop' = TRUE
    /\ Goto("cutting")
    /\ UNCHANGED <<asked, listening, worker, mutex, sockets, arrivals>>

CutClientsUnlocked ==
    /\ At("cutting")
    /\ cut' = cut \cup clients
    /\ Goto("waking")
    /\ UNCHANGED <<asked, stop, listening, worker, mutex, queue, clients, open, arrivals>>
CutClients ==
    /\ At("cutting")
    /\ mutex = NoOne
    /\ cut' = cut \cup clients
    /\ Goto("waking")
    /\ UNCHANGED <<asked, stop, listening, worker, mutex, queue, clients, open, arrivals>>

WakeAll ==
    /\ At("waking")
    /\ worker' = [w \in Worker |->
                    IF worker[w].pc = "asleep" THEN [worker[w] EXCEPT !.pc = "lock"]
                    ELSE worker[w]]
    /\ Goto("joining")
    /\ UNCHANGED <<asked, stop, listening, mutex, sockets, arrivals>>

(* join_client_workers, then the listening socket is closed.               *)
Join ==
    /\ At("joining")
    /\ \A w \in Worker : worker[w].pc \in {"absent", "gone"}
    /\ listening' = FALSE
    /\ Goto("done")
    /\ UNCHANGED <<asked, stop, worker, mutex, sockets, arrivals>>

-----------------------------------------------------------------------------
(* client_worker_loop()                                                    *)

Is(w, pc) == worker[w].pc = pc
Move(w, pc) == worker' = [worker EXCEPT ![w].pc = pc]

Lock(w) ==
    /\ Is(w, "lock")
    /\ mutex = NoOne
    /\ mutex' = w
    /\ Move(w, "check")
    /\ UNCHANGED <<asked, stop, listening, acceptor, sockets, arrivals>>

(* The predicate of the wait, with the mutex held, and what follows it.    *)
TakeWithoutPop(w) ==
    /\ Is(w, "check")
    /\ queue # << >>
    /\ worker' = [worker EXCEPT ![w] = [pc |-> "serving", fd |-> Head(queue)]]
    /\ mutex' = NoOne
    /\ UNCHANGED <<asked, stop, listening, acceptor, sockets, arrivals>>
Take(w) ==
    /\ Is(w, "check")
    /\ queue # << >>
    /\ worker' = [worker EXCEPT ![w] = [pc |-> "serving", fd |-> Head(queue)]]
    /\ queue' = Tail(queue)
    /\ mutex' = NoOne
    /\ UNCHANGED <<asked, stop, listening, acceptor, clients, open, cut, arrivals>>

LeaveIf(w, over) ==
    /\ Is(w, "check")
    /\ over
    /\ mutex' = NoOne
    /\ Move(w, "gone")
    /\ UNCHANGED <<asked, stop, listening, acceptor, sockets, arrivals>>
LeaveWithoutDraining(w) == LeaveIf(w, stop)
Leave(w) == LeaveIf(w, stop /\ queue = << >>)

Doze(w) ==
    /\ Is(w, "check")
    /\ ~stop
    /\ queue = << >>
    /\ Move(w, "drowsy")
    /\ UNCHANGED <<asked, stop, listening, acceptor, mutex, sockets, arrivals>>

(* The wait gives the mutex back and sleeps in one step.                   *)
Sleep(w) ==
    /\ Is(w, "drowsy")
    /\ mutex' = NoOne
    /\ Move(w, "asleep")
    /\ UNCHANGED <<asked, stop, listening, acceptor, sockets, arrivals>>

ServedAndClosed(w) ==
    /\ Is(w, "serving")
    /\ open' = [open EXCEPT ![worker[w].fd] = "free"]
    /\ Move(w, "erase")
    /\ UNCHANGED <<asked, stop, listening, acceptor, mutex, queue, clients, cut, arrivals>>
Served(w) ==
    /\ Is(w, "serving")
    /\ Move(w, "erase")
    /\ UNCHANGED <<asked, stop, listening, acceptor, mutex, sockets, arrivals>>

Erase(w) ==
    /\ Is(w, "erase")
    /\ mutex = NoOne
    /\ clients' = clients \ {worker[w].fd}
    /\ Move(w, "close")
    /\ UNCHANGED <<asked, stop, listening, acceptor, mutex, queue, open, cut, arrivals>>

Close(w) ==
    /\ Is(w, "close")
    /\ open' = [open EXCEPT ![worker[w].fd] = "free"]
    /\ cut' = cut \ {worker[w].fd}
    /\ worker' = [worker EXCEPT ![w] = [pc |-> "lock", fd |-> NoFd]]
    /\ UNCHANGED <<asked, stop, listening, acceptor, mutex, queue, clients, arrivals>>

WorkerStep(w) ==
    \/ Lock(w) \/ Take(w) \/ Leave(w) \/ Doze(w) \/ Sleep(w)
    \/ Served(w) \/ Erase(w) \/ Close(w)

-----------------------------------------------------------------------------
(* The rest of the process: the signal, and files and pipes that handlers, *)
(* jobs and the database open and close.                                   *)

AskShutdown ==
    /\ asked' = TRUE
    /\ UNCHANGED <<stop, listening, acceptor, worker, mutex, sockets, arrivals>>

OtherOpens(f) ==
    /\ open[f] = "free"
    /\ open' = [open EXCEPT ![f] = "other"]
    /\ UNCHANGED <<asked, stop, listening, acceptor, worker, mutex, queue, clients,
                   cut, arrivals>>

OtherCloses(f) ==
    /\ open[f] = "other"
    /\ open' = [open EXCEPT ![f] = "free"]
    /\ UNCHANGED <<asked, stop, listening, acceptor, worker, mutex, queue, clients,
                   cut, arrivals>>

AcceptorStep ==
    \/ Listen \/ Started \/ (\E w \in Worker : StartWorker(w))
    \/ Loop \/ PollTimesOut \/ Admit \/ Notify \/ Refuse
    \/ StoreStop \/ CutClients \/ WakeAll \/ Join

Next == \/ AcceptorStep
        \/ StartFails \/ PollFails \/ AskShutdown
        \/ \E w \in Worker : WorkerStep(w)
        \/ \E f \in Fd : Accept(f) \/ OtherOpens(f) \/ OtherCloses(f)

Spec == Init /\ [][Next]_vars

(* Threads go on when they can: poll returns after 250 ms, a request and   *)
(* its answer have deadlines.                                              *)
Fairness == WF_vars(AcceptorStep) /\ \A w \in Worker : WF_vars(WorkerStep(w))
FairSpec == Spec /\ Fairness

-----------------------------------------------------------------------------
(* Properties.                                                             *)

Queued == {queue[i] : i \in DOMAIN queue}
InHand == {w \in Worker : worker[w].pc \in {"serving", "erase", "close"}}

(* Every variable stays within its type: no -1 among the sockets.          *)
TypeOK ==
    /\ asked \in BOOLEAN /\ stop \in BOOLEAN /\ listening \in BOOLEAN
    /\ acceptor \in [pc : {"binding", "starting", "loop", "poll", "admit", "notify", "refuse",
                           "stopping", "cutting", "waking", "joining", "done"},
                     fd : Fd \cup {NoFd}]
    /\ worker \in [Worker -> [pc : {"absent", "lock", "check", "drowsy", "asleep",
                                    "serving", "erase", "close", "gone"},
                              fd : Fd \cup {NoFd}]]
    /\ mutex \in Worker \cup {NoOne}
    /\ queue \in Seq(Fd)
    /\ clients \subseteq Fd /\ cut \subseteq Fd
    /\ open \in [Fd -> {"free", "client", "other"}]
    /\ arrivals \in 0 .. MaxArrivals

(* What the stop shuts down are client sockets that are still open, never  *)
(* a number that was closed and meanwhile given to a file, a pipe or a     *)
(* database: a worker erases a socket from the set before it closes it.    *)
ClientsAreOpen == \A f \in clients : open[f] = "client"

(* A socket is in one pair of hands: the queue holds it once, or one       *)
(* worker does, or the acceptor.                                           *)
OneOwner ==
    /\ \A i, j \in DOMAIN queue : queue[i] = queue[j] => i = j
    /\ \A w \in InHand : worker[w].fd \notin Queued
    /\ \A w, v \in InHand : worker[w].fd = worker[v].fd => w = v
    /\ acceptor.pc \in {"admit", "refuse"} =>
         acceptor.fd \notin Queued \cup clients \cup {worker[w].fd : w \in InHand}

(* No more clients are queued and served than the limit allows (README:    *)
(* "16 joinable client workers with a 64-connection bound").               *)
ClientsAreBounded == Cardinality(clients) <= MaxClients

(* By the time the stop waits for the workers no client can hold it up:    *)
(* every socket, queued or being served, is shut down (README: "Shutdown   *)
(* closes every queued/active socket").                                    *)
StopReachesAll == acceptor.pc = "joining" => clients \subseteq cut

(* When run() returns, no worker runs, no client socket is open, and the   *)
(* listening socket is closed (README: "joins the pool before application  *)
(* state is destroyed").                                                   *)
NothingIsLeft ==
    acceptor.pc = "done" =>
        /\ \A w \in Worker : worker[w].pc \in {"absent", "gone"}
        /\ \A f \in Fd : open[f] # "client"
        /\ queue = << >> /\ clients = {} /\ ~listening

(* What the properties above rest on.  The set counts the sockets that are *)
(* queued or served; an open client socket is in somebody's hands.         *)
Offered   == acceptor.pc \in {"admit", "refuse"}
Counted   == {w \in Worker : worker[w].pc \in {"serving", "erase"}}

SocketsAreOwned ==
    /\ OneOwner
    /\ \A w \in InHand : worker[w].fd \in Fd
    /\ Offered => acceptor.fd \in Fd
    /\ \A f \in Fd : f \in clients <=> f \in Queued \/ \E w \in Counted : worker[w].fd = f
    /\ \A f \in Fd : open[f] = "client" <=>
         \/ f \in Queued
         \/ \E w \in InHand : worker[w].fd = f
         \/ Offered /\ acceptor.fd = f

(* Workers leave an empty queue behind, and only while nothing is accepted.*)
StopIsFinal ==
    /\ stop => acceptor.pc \in {"cutting", "waking", "joining", "done"}
    /\ acceptor.pc \in {"cutting", "waking", "joining"} => stop
    /\ (\E w \in Worker : worker[w].pc = "gone") => stop /\ queue = << >>
    /\ (\E w \in Worker : worker[w].pc = "absent") =>
         queue = << >> /\ acceptor.pc \notin {"loop", "poll", "admit", "notify", "refuse"}
    /\ acceptor.pc = "waking" => clients \subseteq cut
    /\ acceptor.pc \in {"binding", "done"} =>
         ~listening /\ \A w \in Worker : worker[w].pc \in {"absent", "gone"}

(* The inductive invariant.                                                *)
Safety == SocketsAreOwned /\ StopIsFinal /\ StopReachesAll /\ ClientsAreBounded

(* A client that was admitted is served and closed, even if the stop       *)
(* begins meanwhile: a notification is never lost on a busy pool.          *)
ClientsAreServed == \A f \in Fd : f \in clients ~> f \notin clients

(* A shutdown that was asked for makes run() return: no worker sleeps      *)
(* through the stop.                                                       *)
StopEnds == asked ~> acceptor.pc = "done"
=============================================================================
