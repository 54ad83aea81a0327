-------------------------- MODULE HttpServerProofs --------------------------
(***************************************************************************)
(* Proofs about module HttpServer: every socket is in one pair of hands    *)
(* and is shut down only while it is open, the clients stay within their   *)
(* bound, nothing is left when run() returns, and no worker of the pool    *)
(* sleeps on a client in the queue or through the stop.                    *)
(***************************************************************************)
EXTENDS HttpServer, FiniteSetTheorems, SequenceTheorems, TLAPS

(* Queues without repetitions.                                             *)
Elements(q) == {q[i] : i \in DOMAIN q}
Distinct(q) == \A i, j \in DOMAIN q : q[i] = q[j] => i = j

LEMMA AppendElements ==
    ASSUME NEW S, NEW q \in Seq(S), NEW x \in S
    PROVE  /\ Append(q, x) \in Seq(S)
           /\ Elements(Append(q, x)) = Elements(q) \cup {x}
           /\ Distinct(q) /\ x \notin Elements(q) => Distinct(Append(q, x))
<1>1. /\ Append(q, x) \in Seq(S) /\ Len(Append(q, x)) = Len(q) + 1
      /\ \A i \in 1 .. Len(q) : Append(q, x)[i] = q[i]
      /\ Append(q, x)[Len(q) + 1] = x
  OBVIOUS
<1>2. /\ DOMAIN q = 1 .. Len(q) /\ DOMAIN Append(q, x) = 1 .. (Len(q) + 1)
      /\ Len(q) \in Nat
  BY <1>1
<1>3. Elements(Append(q, x)) = Elements(q) \cup {x}
  BY <1>1, <1>2 DEF Elements
<1>4. Distinct(q) /\ x \notin Elements(q) => Distinct(Append(q, x))
  BY <1>1, <1>2 DEF Distinct, Elements
<1> QED BY <1>1, <1>3, <1>4

LEMMA TailElements ==
    ASSUME NEW S, NEW q \in Seq(S), q # << >>
    PROVE  /\ Tail(q) \in Seq(S) /\ Head(q) \in S
           /\ Elements(q) = Elements(Tail(q)) \cup {Head(q)}
           /\ Distinct(q) => Distinct(Tail(q)) /\ Head(q) \notin Elements(Tail(q))
<1>1. /\ Tail(q) \in Seq(S) /\ Head(q) \in S /\ Len(q) \in Nat \ {0}
      /\ Len(Tail(q)) = Len(q) - 1 /\ Head(q) = q[1]
      /\ \A i \in 1 .. Len(Tail(q)) : Tail(q)[i] = q[i + 1]
  BY HeadTailProperties
<1>2. DOMAIN q = 1 .. Len(q) /\ DOMAIN Tail(q) = 1 .. (Len(q) - 1)
  BY <1>1
<1>3. Elements(q) = Elements(Tail(q)) \cup {Head(q)}
  <2>1. ASSUME NEW y \in Elements(q) PROVE y \in Elements(Tail(q)) \cup {Head(q)}
    <3>1. PICK i \in 1 .. Len(q) : y = q[i]
      BY <1>2 DEF Elements
    <3>2. CASE i = 1
      BY <1>1, <3>1, <3>2
    <3>3. CASE i # 1
      <4>1. i - 1 \in 1 .. (Len(q) - 1) /\ Tail(q)[i - 1] = y
        BY <1>1, <3>1, <3>3
      <4> QED BY <1>2, <4>1 DEF Elements
    <3> QED BY <3>2, <3>3
  <2>2. ASSUME NEW y \in Elements(Tail(q)) PROVE y \in Elements(q)
    <3>1. PICK i \in 1 .. (Len(q) - 1) : y = Tail(q)[i]
      BY <1>2, <2>2 DEF Elements
    <3>2. y = q[i + 1] /\ i + 1 \in 1 .. Len(q)
      BY <1>1, <3>1
    <3> QED BY <1>2, <3>2 DEF Elements
  <2>3. Head(q) \in Elements(q)
    BY <1>1, <1>2 DEF Elements
  <2> QED BY <2>1, <2>2, <2>3
<1>4. ASSUME Distinct(q) PROVE Distinct(Tail(q)) /\ Head(q) \notin Elements(Tail(q))
  <2>1. Distinct(Tail(q))
    BY <1>1, <1>2, <1>4 DEF Distinct
  <2>2. Head(q) \notin Elements(Tail(q))
    BY <1>1, <1>2, <1>4 DEF Distinct, Elements
  <2> QED BY <2>1, <2>2
<1> QED BY <1>1, <1>3, <1>4

-----------------------------------------------------------------------------
(* Who owns which socket, one lemma for every way in which it changes.     *)

LEMMA OwnersStay ==
    ASSUME SocketsAreOwned, UNCHANGED <<queue, clients>>,
           \A f \in Fd : open'[f] = "client" <=> open[f] = "client",
           InHand' = InHand, Counted' = Counted,
           \A w \in InHand : worker'[w].fd = worker[w].fd,
           Offered' = Offered, Offered => acceptor'.fd = acceptor.fd
    PROVE  SocketsAreOwned'
<1>1. Queued' = Queued
  BY DEF Queued
<1>2. Counted \subseteq InHand
  BY DEF Counted, InHand
<1>3. OneOwner'
  BY <1>1 DEF SocketsAreOwned, OneOwner, Offered
<1> QED BY <1>1, <1>2, <1>3 DEF SocketsAreOwned

Inv == TypeOK /\ Safety

LEMMA OwnersInit == Init => SocketsAreOwned
BY FdAssumption
   DEF Init, SocketsAreOwned, OneOwner, Queued, InHand, Counted, Offered

LEMMA OwnersAccept ==
    ASSUME Inv, NEW f \in Fd, Accept(f)
    PROVE  SocketsAreOwned'
<1>1. /\ SocketsAreOwned /\ OneOwner /\ f \in Fd
      /\ acceptor.pc = "poll" /\ ~Offered
  BY DEF Inv, Safety, SocketsAreOwned, Accept, At, Offered
<1>2. /\ acceptor' = [pc |-> "admit", fd |-> f] /\ open[f] = "free"
      /\ open' = [open EXCEPT ![f] = "client"]
      /\ UNCHANGED <<queue, clients, worker>>
  BY DEF Accept
<1>3. open \in [Fd -> {"free", "client", "other"}]
  BY DEF Inv, TypeOK
<1>4. acceptor'.pc = "admit" /\ acceptor'.fd = f
  BY <1>2
<1>5. Queued' = Queued /\ InHand' = InHand /\ Counted' = Counted /\ Offered'
  BY <1>2, <1>4 DEF Queued, InHand, Counted, Offered
<1>6. Counted \subseteq InHand
  BY DEF Counted, InHand
<1>7. f \notin Queued /\ f \notin clients /\ \A w \in InHand : worker[w].fd # f
  BY <1>1, <1>2, <1>6 DEF SocketsAreOwned
<1>8. OneOwner'
  BY <1>1, <1>2, <1>4, <1>5, <1>7 DEF OneOwner
<1> QED BY <1>1, <1>2, <1>3, <1>4, <1>5, <1>7, <1>8 DEF SocketsAreOwned

LEMMA OwnersAdmit ==
    ASSUME Inv, Admit
    PROVE  SocketsAreOwned'
<1>1. /\ SocketsAreOwned /\ OneOwner /\ queue \in Seq(Fd)
      /\ acceptor.pc = "admit" /\ Offered /\ acceptor.fd \in Fd
  BY DEF Inv, Safety, TypeOK, SocketsAreOwned, Admit, AdmitIf, At, Offered
<1>2. UNCHANGED <<open, worker>> /\ InHand' = InHand /\ Counted' = Counted
  BY DEF Admit, AdmitIf, InHand, Counted
<1>3. acceptor.fd \notin Queued /\ \A w \in InHand : worker[w].fd # acceptor.fd
  BY <1>1 DEF OneOwner
<1>4. CASE /\ clients' = clients \cup {acceptor.fd}
           /\ queue' = Append(queue, acceptor.fd) /\ Goto("notify")
  <2>1. acceptor'.pc = "notify"
    BY <1>4 DEF Goto, Inv, TypeOK
  <2>2. ~Offered' /\ ~(acceptor'.pc \in {"admit", "refuse"})
    BY <2>1 DEF Offered
  <2>3. /\ Queued = Elements(queue) /\ Queued' = Elements(queue')
        /\ Distinct(queue)
    BY <1>1 DEF Queued, Elements, Distinct, OneOwner
  <2>4. Queued' = Queued \cup {acceptor.fd} /\ Distinct(queue')
    BY <1>1, <1>3, <1>4, <2>3, AppendElements
  <2>5. OneOwner'
    BY <1>1, <1>2, <1>3, <2>2, <2>4 DEF OneOwner, Distinct
  <2> QED BY <1>1, <1>2, <1>4, <2>2, <2>4, <2>5 DEF SocketsAreOwned
<1>5. CASE Goto("refuse") /\ UNCHANGED <<clients, queue>>
  <2>1. acceptor'.pc = "refuse" /\ acceptor'.fd = acceptor.fd
    BY <1>5 DEF Goto, Inv, TypeOK
  <2>2. Offered'
    BY <2>1 DEF Offered
  <2> QED BY <1>1, <1>2, <1>5, <2>1, <2>2, OwnersStay
<1> QED BY <1>4, <1>5 DEF Admit, AdmitIf

LEMMA OwnersRefuse ==
    ASSUME Inv, Refuse
    PROVE  SocketsAreOwned'
<1>1. /\ SocketsAreOwned /\ OneOwner
      /\ Offered /\ acceptor.fd \in Fd /\ acceptor.pc = "refuse"
  BY DEF Inv, Safety, SocketsAreOwned, Refuse, At, Offered
<1>2. /\ open' = [open EXCEPT ![acceptor.fd] = "free"]
      /\ UNCHANGED <<queue, clients, worker>>
  BY DEF Refuse
<1>3. open \in [Fd -> {"free", "client", "other"}]
  BY DEF Inv, TypeOK
<1>4. acceptor'.pc = "loop"
  BY DEF Refuse, Goto, Inv, TypeOK
<1>5. /\ Queued' = Queued /\ InHand' = InHand /\ Counted' = Counted
      /\ ~Offered' /\ ~(acceptor'.pc \in {"admit", "refuse"})
  BY <1>2, <1>4 DEF Queued, InHand, Counted, Offered
<1>6. acceptor.fd \notin Queued /\ \A w \in InHand : worker[w].fd # acceptor.fd
  BY <1>1 DEF OneOwner
<1>7. OneOwner'
  BY <1>1, <1>2, <1>5 DEF OneOwner
<1> QED BY <1>1, <1>2, <1>3, <1>5, <1>6, <1>7 DEF SocketsAreOwned

LEMMA OwnersTake ==
    ASSUME Inv, NEW w \in Worker, Take(w)
    PROVE  SocketsAreOwned'
<1>1. /\ SocketsAreOwned /\ OneOwner /\ queue \in Seq(Fd) /\ queue # << >>
      /\ worker[w].pc = "check" /\ queue' = Tail(queue)
      /\ UNCHANGED <<acceptor, clients, open>>
  BY DEF Inv, Safety, TypeOK, SocketsAreOwned, Take, Is
<1> PICK f : f = Head(queue)
  OBVIOUS
<1>2. /\ worker'[w].pc = "serving" /\ worker'[w].fd = f
      /\ \A v \in Worker \ {w} : worker'[v] = worker[v]
  BY DEF Take, Inv, TypeOK
<1>3. /\ Queued = Elements(queue) /\ Queued' = Elements(queue')
      /\ Distinct(queue)
  BY <1>1 DEF Queued, Elements, Distinct, OneOwner
<1>4. /\ Queued = Queued' \cup {f} /\ f \in Fd
      /\ f \notin Queued' /\ Distinct(queue')
  BY <1>1, <1>3, TailElements
<1>5. /\ InHand' = InHand \cup {w} /\ Counted' = Counted \cup {w}
      /\ w \notin InHand /\ w \notin Counted /\ Offered' = Offered
      /\ Counted \subseteq InHand /\ InHand \subseteq Worker
  BY <1>1, <1>2 DEF InHand, Counted, Offered
<1>6. \A v \in InHand : worker'[v].fd = worker[v].fd /\ worker[v].fd # f
  BY <1>1, <1>2, <1>4, <1>5 DEF OneOwner
<1>7. acceptor.pc \in {"admit", "refuse"} => acceptor.fd # f
  BY <1>1, <1>4 DEF OneOwner
<1>8. OneOwner'
  <2>1. \A i, j \in DOMAIN queue' : queue'[i] = queue'[j] => i = j
    BY <1>4 DEF Distinct
  <2>2. \A v \in InHand' : worker'[v].fd \notin Queued'
    BY <1>1, <1>2, <1>4, <1>5, <1>6 DEF OneOwner
  <2>3. \A v, u \in InHand' : worker'[v].fd = worker'[u].fd => v = u
    BY <1>1, <1>2, <1>5, <1>6 DEF OneOwner
  <2>4. acceptor'.pc \in {"admit", "refuse"} =>
          acceptor'.fd \notin Queued' \cup clients' \cup {worker'[v].fd : v \in InHand'}
    BY <1>1, <1>2, <1>4, <1>5, <1>6, <1>7 DEF OneOwner
  <2> QED BY <2>1, <2>2, <2>3, <2>4 DEF OneOwner
<1>9. \A v \in InHand' : worker'[v].fd \in Fd
  BY <1>1, <1>2, <1>4, <1>5, <1>6 DEF SocketsAreOwned
<1>10. \A g \in Fd : g \in clients' <=> g \in Queued' \/ \E v \in Counted' : worker'[v].fd = g
  BY <1>1, <1>2, <1>4, <1>5, <1>6 DEF SocketsAreOwned
<1>11. \A g \in Fd : open'[g] = "client" <=>
         \/ g \in Queued'
         \/ \E v \in InHand' : worker'[v].fd = g
         \/ Offered' /\ acceptor'.fd = g
  BY <1>1, <1>2, <1>4, <1>5, <1>6 DEF SocketsAreOwned
<1>12. Offered' => acceptor'.fd \in Fd
  BY <1>1, <1>5 DEF SocketsAreOwned
<1> QED BY <1>8, <1>9, <1>10, <1>11, <1>12 DEF SocketsAreOwned

LEMMA OwnersErase ==
    ASSUME Inv, NEW w \in Worker, Erase(w)
    PROVE  SocketsAreOwned'
<1>1. /\ SocketsAreOwned /\ OneOwner /\ worker[w].pc = "erase"
      /\ clients' = clients \ {worker[w].fd}
      /\ UNCHANGED <<acceptor, queue, open>>
  BY DEF Inv, Safety, SocketsAreOwned, Erase, Is
<1>2. /\ worker'[w].pc = "close" /\ worker'[w].fd = worker[w].fd
      /\ \A v \in Worker \ {w} : worker'[v] = worker[v]
  BY DEF Erase, Move, Inv, TypeOK
<1>3. /\ InHand' = InHand /\ Counted' = Counted \ {w} /\ w \in Counted
      /\ Counted \subseteq InHand /\ InHand \subseteq Worker
      /\ Offered' = Offered /\ Queued' = Queued
  BY <1>1, <1>2 DEF InHand, Counted, Offered, Queued
<1>4. \A v \in InHand : worker'[v].fd = worker[v].fd
  BY <1>2, <1>3
<1>5. /\ worker[w].fd \notin Queued
      /\ \A v \in InHand \ {w} : worker[v].fd # worker[w].fd
  BY <1>1, <1>3 DEF OneOwner
<1>6. OneOwner'
  BY <1>1, <1>3, <1>4 DEF OneOwner
<1>7. \A f \in Fd : f \in clients' <=> f \in Queued' \/ \E v \in Counted' : worker'[v].fd = f
  BY <1>1, <1>3, <1>4, <1>5 DEF SocketsAreOwned
<1> QED BY <1>1, <1>3, <1>4, <1>6, <1>7 DEF SocketsAreOwned

LEMMA OwnersClose ==
    ASSUME Inv, NEW w \in Worker, Close(w)
    PROVE  SocketsAreOwned' /\ worker[w].fd \notin clients
<1>1. /\ SocketsAreOwned /\ OneOwner /\ worker[w].pc = "close"
      /\ open' = [open EXCEPT ![worker[w].fd] = "free"]
      /\ UNCHANGED <<acceptor, queue, clients>>
  BY DEF Inv, Safety, SocketsAreOwned, Close, Is
<1>2. /\ worker'[w].pc = "lock"
      /\ \A v \in Worker \ {w} : worker'[v] = worker[v]
      /\ open \in [Fd -> {"free", "client", "other"}]
  BY DEF Close, Inv, TypeOK
<1>3. /\ InHand' = InHand \ {w} /\ Counted' = Counted /\ w \notin Counted
      /\ w \in InHand /\ Counted \subseteq InHand /\ InHand \subseteq Worker
      /\ Offered' = Offered /\ Queued' = Queued
  BY <1>1, <1>2 DEF InHand, Counted, Offered, Queued
<1>4. /\ worker[w].fd \in Fd /\ worker[w].fd \notin Queued
      /\ \A v \in InHand \ {w} : worker[v].fd # worker[w].fd
      /\ Offered => acceptor.fd # worker[w].fd
  BY <1>1, <1>3 DEF OneOwner, SocketsAreOwned, Offered
<1>5. \A v \in InHand \ {w} : worker'[v].fd = worker[v].fd
  BY <1>2, <1>3
<1>6. OneOwner'
  BY <1>1, <1>3, <1>5 DEF OneOwner
<1>7. worker[w].fd \notin clients
  BY <1>1, <1>3, <1>4 DEF SocketsAreOwned
<1>8. \A f \in Fd : f \in clients' <=> f \in Queued' \/ \E v \in Counted' : worker'[v].fd = f
  BY <1>1, <1>3, <1>5 DEF SocketsAreOwned
<1>9. \A f \in Fd : open'[f] = "client" <=>
         \/ f \in Queued'
         \/ \E v \in InHand' : worker'[v].fd = f
         \/ Offered' /\ acceptor'.fd = f
  BY <1>1, <1>2, <1>3, <1>4, <1>5 DEF SocketsAreOwned
<1> QED BY <1>1, <1>3, <1>5, <1>6, <1>7, <1>8, <1>9 DEF SocketsAreOwned

(* The acceptor's steps that hand no socket on.                            *)
LEMMA OwnersAcceptor ==
    ASSUME Inv, UNCHANGED sockets,
           acceptor'.pc \notin {"admit", "refuse"}, acceptor.pc \notin {"admit", "refuse"},
           \A w \in Worker : \/ worker'[w] = worker[w]
                            \/ /\ worker[w].pc \in {"absent", "asleep"}
                               /\ worker'[w].pc = "lock"
    PROVE  SocketsAreOwned'
<1>1. /\ InHand' = InHand /\ Counted' = Counted /\ ~Offered /\ Offered' = Offered
      /\ \A w \in InHand : worker'[w].fd = worker[w].fd
  BY DEF InHand, Counted, Offered
<1>2. UNCHANGED <<queue, clients, open>>
  BY DEF sockets
<1> QED BY <1>1, <1>2, OwnersStay DEF Inv, Safety

(* A worker's steps that hand no socket on.                                *)
LEMMA OwnersWorker ==
    ASSUME Inv, UNCHANGED <<acceptor, sockets>>, NEW w \in Worker,
           \/ {worker[w].pc, worker'[w].pc} \subseteq {"lock", "check", "drowsy", "asleep", "gone"}
           \/ /\ worker[w].pc = "serving" /\ worker'[w].pc = "erase"
              /\ worker'[w].fd = worker[w].fd,
           \A v \in Worker \ {w} : worker'[v] = worker[v]
    PROVE  SocketsAreOwned'
<1>1. /\ InHand' = InHand /\ Counted' = Counted
      /\ \A v \in InHand : worker'[v].fd = worker[v].fd
  BY DEF InHand, Counted
<1>2. UNCHANGED <<queue, clients, open, acceptor>> /\ Offered' = Offered
  BY DEF sockets, Offered
<1> QED BY <1>1, <1>2, OwnersStay DEF Inv, Safety

LEMMA OwnersStep == Inv /\ [Next]_vars => SocketsAreOwned'
<1> SUFFICES ASSUME Inv, [Next]_vars
             PROVE  SocketsAreOwned'
  OBVIOUS
<1> USE DEF At, Goto, Is, Move
<1>1. /\ acceptor \in [pc : {"binding", "starting", "loop", "poll", "admit", "notify", "refuse",
                              "stopping", "cutting", "waking", "joining", "done"},
                        fd : Fd \cup {NoFd}]
      /\ worker \in [Worker -> [pc : {"absent", "lock", "check", "drowsy", "asleep",
                                       "serving", "erase", "close", "gone"},
                                 fd : Fd \cup {NoFd}]]
      /\ open \in [Fd -> {"free", "client", "other"}]
  BY DEF Inv, TypeOK
<1>2. CASE Listen
  BY <1>1, <1>2, OwnersAcceptor DEF Listen
<1>3. CASE \E w \in Worker : StartWorker(w)
  BY <1>1, <1>3, OwnersAcceptor DEF StartWorker
<1>4. CASE StartFails \/ Started \/ Loop
  BY <1>1, <1>4, OwnersAcceptor DEF StartFails, Started, Loop
<1>5. CASE PollTimesOut \/ PollFails
  BY <1>1, <1>5, OwnersAcceptor DEF PollTimesOut, PollFails
<1>6. CASE \E f \in Fd : Accept(f)
  BY <1>6, OwnersAccept
<1>7. CASE Admit
  BY <1>7, OwnersAdmit
<1>8. CASE Notify
  BY <1>1, <1>8, OwnersAcceptor DEF Notify
<1>9. CASE Refuse
  BY <1>9, OwnersRefuse
<1>10. CASE StoreStop
  BY <1>1, <1>10, OwnersAcceptor DEF StoreStop
<1>11. CASE CutClients
  <2>1. /\ UNCHANGED <<queue, clients, open, worker>>
        /\ acceptor.pc = "cutting" /\ acceptor'.pc = "waking"
    BY <1>1, <1>11 DEF CutClients
  <2>2. InHand' = InHand /\ Counted' = Counted /\ ~Offered /\ Offered' = Offered
    BY <2>1 DEF InHand, Counted, Offered
  <2> QED BY <2>1, <2>2, OwnersStay DEF Inv, Safety
<1>12. CASE WakeAll
  BY <1>1, <1>12, OwnersAcceptor DEF WakeAll
<1>13. CASE Join
  BY <1>1, <1>13, OwnersAcceptor DEF Join
<1>14. ASSUME NEW w \in Worker, WorkerStep(w)
       PROVE  SocketsAreOwned'
  <2>1. CASE Lock(w)
    BY <1>1, <2>1, OwnersWorker DEF Lock
  <2>2. CASE Take(w)
    BY <2>2, OwnersTake
  <2>3. CASE Leave(w) \/ Doze(w) \/ Sleep(w)
    BY <1>1, <2>3, OwnersWorker DEF Leave, LeaveIf, Doze, Sleep
  <2>4. CASE Served(w)
    BY <1>1, <2>4, OwnersWorker DEF Served
  <2>5. CASE Erase(w)
    BY <2>5, OwnersErase
  <2>6. CASE Close(w)
    BY <2>6, OwnersClose
  <2> QED BY <1>14, <2>1, <2>2, <2>3, <2>4, <2>5, <2>6 DEF WorkerStep
<1>15. CASE AskShutdown \/ UNCHANGED vars
  <2>1. UNCHANGED <<acceptor, worker, queue, clients, open>>
    BY <1>15 DEF AskShutdown, vars, sockets
  <2>2. InHand' = InHand /\ Counted' = Counted /\ Offered' = Offered
    BY <2>1 DEF InHand, Counted, Offered
  <2> QED BY <2>1, <2>2, OwnersStay DEF Inv, Safety
<1>16. ASSUME NEW f \in Fd, OtherOpens(f) \/ OtherCloses(f)
       PROVE  SocketsAreOwned'
  <2>1. UNCHANGED <<acceptor, worker, queue, clients>>
    BY <1>16 DEF OtherOpens, OtherCloses
  <2>2. \A g \in Fd : open'[g] = "client" <=> open[g] = "client"
    BY <1>1, <1>16 DEF OtherOpens, OtherCloses
  <2>3. InHand' = InHand /\ Counted' = Counted /\ Offered' = Offered
    BY <2>1 DEF InHand, Counted, Offered
  <2> QED BY <2>1, <2>2, <2>3, OwnersStay DEF Inv, Safety
<1> QED BY <1>2, <1>3, <1>4, <1>5, <1>6, <1>7, <1>8, <1>9, <1>10, <1>11, <1>12, <1>13,
           <1>14, <1>15, <1>16 DEF Next, AcceptorStep

-----------------------------------------------------------------------------
(* Types.                                                                  *)

LEMMA TypesStep == Inv /\ [Next]_vars => TypeOK'
<1> SUFFICES ASSUME Inv, [Next]_vars
             PROVE  TypeOK'
  OBVIOUS
<1> USE BoundAssumption DEF At, Goto, Is, Move, sockets
<1>1. TypeOK /\ SocketsAreOwned
  BY DEF Inv, Safety
<1>2. CASE Listen
  BY <1>1, <1>2 DEF TypeOK, Listen
<1>3. CASE \E w \in Worker : StartWorker(w)
  BY <1>1, <1>3 DEF TypeOK, StartWorker
<1>4. CASE StartFails \/ Started \/ Loop
  BY <1>1, <1>4 DEF TypeOK, StartFails, Started, Loop
<1>5. CASE PollTimesOut \/ PollFails
  BY <1>1, <1>5 DEF TypeOK, PollTimesOut, PollFails
<1>6. CASE \E f \in Fd : Accept(f)
  BY <1>1, <1>6 DEF TypeOK, Accept
<1>7. CASE Admit
  <2>1. acceptor.fd \in Fd
    BY <1>1, <1>7 DEF SocketsAreOwned, Offered, Admit, AdmitIf
  <2>2. Append(queue, acceptor.fd) \in Seq(Fd)
    BY <1>1, <2>1, AppendElements DEF TypeOK
  <2> QED BY <1>1, <1>7, <2>1, <2>2 DEF TypeOK, Admit, AdmitIf
<1>8. CASE Notify
  BY <1>1, <1>8 DEF TypeOK, Notify
<1>9. CASE Refuse
  BY <1>1, <1>9 DEF TypeOK, Refuse
<1>10. CASE StoreStop \/ CutClients
  BY <1>1, <1>10 DEF TypeOK, StoreStop, CutClients
<1>11. CASE WakeAll
  BY <1>1, <1>11 DEF TypeOK, WakeAll
<1>12. CASE Join
  BY <1>1, <1>12 DEF TypeOK, Join
<1>13. ASSUME NEW w \in Worker, WorkerStep(w)
       PROVE  TypeOK'
  <2>1. CASE Lock(w)
    BY <1>1, <2>1 DEF TypeOK, Lock
  <2>2. CASE Take(w)
    <3>1. Head(queue) \in Fd /\ Tail(queue) \in Seq(Fd)
      BY <1>1, <2>2, TailElements DEF TypeOK, Take
    <3> QED BY <1>1, <2>2, <3>1 DEF TypeOK, Take
  <2>3. CASE Leave(w) \/ Doze(w) \/ Sleep(w)
    BY <1>1, <2>3 DEF TypeOK, Leave, LeaveIf, Doze, Sleep
  <2>4. CASE Served(w)
    BY <1>1, <2>4 DEF TypeOK, Served
  <2>5. CASE Erase(w)
    BY <1>1, <2>5 DEF TypeOK, Erase
  <2>6. CASE Close(w)
    BY <1>1, <2>6 DEF TypeOK, Close
  <2> QED BY <1>13, <2>1, <2>2, <2>3, <2>4, <2>5, <2>6 DEF WorkerStep
<1>14. CASE AskShutdown \/ UNCHANGED vars
  BY <1>1, <1>14 DEF TypeOK, AskShutdown, vars
<1>15. CASE \E f \in Fd : OtherOpens(f) \/ OtherCloses(f)
  BY <1>1, <1>15 DEF TypeOK, OtherOpens, OtherCloses
<1> QED BY <1>2, <1>3, <1>4, <1>5, <1>6, <1>7, <1>8, <1>9, <1>10, <1>11, <1>12, <1>13,
           <1>14, <1>15 DEF Next, AcceptorStep

-----------------------------------------------------------------------------
(* The stop and the bound.                                                 *)

LEMMA StopStep == Inv /\ [Next]_vars => StopIsFinal' /\ StopReachesAll'
<1> SUFFICES ASSUME Inv, [Next]_vars
             PROVE  StopIsFinal' /\ StopReachesAll'
  OBVIOUS
<1> USE DEF At, Goto, Is, Move, sockets
<1>1. /\ StopIsFinal /\ StopReachesAll
      /\ acceptor \in [pc : {"binding", "starting", "loop", "poll", "admit", "notify", "refuse",
                              "stopping", "cutting", "waking", "joining", "done"},
                        fd : Fd \cup {NoFd}]
      /\ worker \in [Worker -> [pc : {"absent", "lock", "check", "drowsy", "asleep",
                                       "serving", "erase", "close", "gone"},
                                 fd : Fd \cup {NoFd}]]
  BY DEF Inv, Safety, TypeOK
<1>2. CASE Listen
  BY <1>1, <1>2 DEF StopIsFinal, StopReachesAll, Listen
<1>3. CASE \E w \in Worker : StartWorker(w)
  BY <1>1, <1>3 DEF StopIsFinal, StopReachesAll, StartWorker
<1>4. CASE StartFails \/ Started \/ Loop
  BY <1>1, <1>4 DEF StopIsFinal, StopReachesAll, StartFails, Started, Loop
<1>5. CASE PollTimesOut \/ PollFails
  BY <1>1, <1>5 DEF StopIsFinal, StopReachesAll, PollTimesOut, PollFails
<1>6. CASE \E f \in Fd : Accept(f)
  BY <1>1, <1>6 DEF StopIsFinal, StopReachesAll, Accept
<1>7. CASE Admit
  BY <1>1, <1>7 DEF StopIsFinal, StopReachesAll, Admit, AdmitIf
<1>8. CASE Notify
  BY <1>1, <1>8 DEF StopIsFinal, StopReachesAll, Notify
<1>9. CASE Refuse
  BY <1>1, <1>9 DEF StopIsFinal, StopReachesAll, Refuse
<1>10. CASE StoreStop \/ CutClients
  BY <1>1, <1>10 DEF StopIsFinal, StopReachesAll, StoreStop, CutClients
<1>11. CASE WakeAll
  BY <1>1, <1>11 DEF StopIsFinal, StopReachesAll, WakeAll
<1>12. CASE Join
  BY <1>1, <1>12 DEF StopIsFinal, StopReachesAll, Join
<1>13. ASSUME NEW w \in Worker, WorkerStep(w)
       PROVE  StopIsFinal' /\ StopReachesAll'
  <2>1. CASE Lock(w)
    BY <1>1, <2>1 DEF StopIsFinal, StopReachesAll, Lock
  <2>2. CASE Take(w)
    BY <1>1, <2>2 DEF StopIsFinal, StopReachesAll, Take
  <2>3. CASE Leave(w) \/ Doze(w) \/ Sleep(w)
    BY <1>1, <2>3 DEF StopIsFinal, StopReachesAll, Leave, LeaveIf, Doze, Sleep
  <2>4. CASE Served(w) \/ Erase(w)
    BY <1>1, <2>4 DEF StopIsFinal, StopReachesAll, Served, Erase
  <2>5. CASE Close(w)
    <3>1. /\ UNCHANGED <<stop, listening, acceptor, queue, clients>>
          /\ clients \subseteq cut => clients \subseteq cut'
      BY <2>5, OwnersClose DEF Close
    <3>2. /\ worker[w].pc = "close" /\ worker'[w].pc = "lock"
          /\ \A v \in Worker \ {w} : worker'[v] = worker[v]
      BY <1>1, <2>5 DEF Close
    <3> QED BY <1>1, <3>1, <3>2 DEF StopIsFinal, StopReachesAll
  <2> QED BY <1>13, <2>1, <2>2, <2>3, <2>4, <2>5 DEF WorkerStep
<1>14. CASE AskShutdown \/ UNCHANGED vars
  BY <1>1, <1>14 DEF StopIsFinal, StopReachesAll, AskShutdown, vars
<1>15. CASE \E f \in Fd : OtherOpens(f) \/ OtherCloses(f)
  BY <1>1, <1>15 DEF StopIsFinal, StopReachesAll, OtherOpens, OtherCloses
<1> QED BY <1>2, <1>3, <1>4, <1>5, <1>6, <1>7, <1>8, <1>9, <1>10, <1>11, <1>12, <1>13,
           <1>14, <1>15 DEF Next, AcceptorStep

LEMMA BoundStep == Inv /\ [Next]_vars => ClientsAreBounded'
<1> SUFFICES ASSUME Inv, [Next]_vars
             PROVE  ClientsAreBounded'
  OBVIOUS
<1>1. /\ Cardinality(clients) <= MaxClients /\ IsFiniteSet(clients)
      /\ Cardinality(clients) \in Nat /\ MaxClients \in Nat
  BY FdAssumption, BoundAssumption, FS_Subset, FS_CardinalityType
     DEF Inv, Safety, TypeOK, ClientsAreBounded
<1>2. CASE Admit
  <2>1. CASE clients' = clients \cup {acceptor.fd} /\ Cardinality(clients) < MaxClients
    BY <1>1, <2>1, FS_AddElement DEF ClientsAreBounded
  <2>2. CASE UNCHANGED clients
    BY <1>1, <2>2 DEF ClientsAreBounded
  <2> QED BY <1>2, <2>1, <2>2 DEF Admit, AdmitIf
<1>3. CASE \E w \in Worker : Erase(w)
  <2>1. clients' \subseteq clients
    BY <1>3 DEF Erase
  <2>2. Cardinality(clients') <= Cardinality(clients) /\ Cardinality(clients') \in Nat
    BY <1>1, <2>1, FS_Subset, FS_CardinalityType
  <2> QED BY <1>1, <2>2 DEF ClientsAreBounded
<1>4. CASE UNCHANGED clients
  BY <1>1, <1>4 DEF ClientsAreBounded
<1>5. Admit \/ (\E w \in Worker : Erase(w)) \/ UNCHANGED clients
  <2>1. CASE AcceptorStep
    BY <2>1 DEF AcceptorStep, Listen, Started, StartWorker, Loop, PollTimesOut, Notify,
                Refuse, StoreStop, CutClients, WakeAll, Join, sockets
  <2>2. CASE \E w \in Worker : WorkerStep(w)
    BY <2>2 DEF WorkerStep, Lock, Take, Leave, LeaveIf, Doze, Sleep, Served, Close, sockets
  <2>3. CASE \/ StartFails \/ PollFails \/ AskShutdown \/ UNCHANGED vars
             \/ \E f \in Fd : Accept(f) \/ OtherOpens(f) \/ OtherCloses(f)
    BY <2>3 DEF StartFails, PollFails, AskShutdown, Accept, OtherOpens, OtherCloses,
                vars, sockets
  <2> QED BY <2>1, <2>2, <2>3 DEF Next
<1> QED BY <1>2, <1>3, <1>4, <1>5

-----------------------------------------------------------------------------
(* The theorems.                                                           *)

LEMMA InvInit == Init => Inv
<1> SUFFICES ASSUME Init
             PROVE  Inv
  OBVIOUS
<1>1. TypeOK
  <2>1. queue \in Seq(Fd) /\ arrivals \in 0 .. MaxArrivals
    BY BoundAssumption DEF Init
  <2>2. /\ acceptor.pc = "binding" /\ acceptor.fd = NoFd
        /\ acceptor = [pc |-> "binding", fd |-> NoFd]
        /\ worker = [w \in Worker |-> [pc |-> "absent", fd |-> NoFd]]
    BY DEF Init
  <2>3. [pc |-> "absent", fd |-> NoFd] \in
          [pc : {"absent", "lock", "check", "drowsy", "asleep", "serving", "erase",
                 "close", "gone"}, fd : Fd \cup {NoFd}]
    OBVIOUS
  <2>4. /\ open \in [Fd -> {"free", "client", "other"}]
        /\ clients = {} /\ cut = {} /\ mutex = NoOne
        /\ asked = FALSE /\ stop = FALSE /\ listening = FALSE
    BY DEF Init
  <2> QED BY <2>1, <2>2, <2>3, <2>4 DEF TypeOK
<1>2. StopIsFinal /\ StopReachesAll
  BY DEF Init, StopIsFinal, StopReachesAll
<1>3. ClientsAreBounded
  BY BoundAssumption, FS_EmptySet DEF Init, ClientsAreBounded
<1> QED BY <1>1, <1>2, <1>3, OwnersInit DEF Inv, Safety

(* In every reachable state the variables have their types, and the        *)
(* ownership of the sockets and the progress of the stop are as Safety     *)
(* says: the inductive invariant of run() and client_worker_loop().        *)
THEOREM HttpInvariant == Spec => []Inv
<1>1. Inv /\ [Next]_vars => Inv'
  BY TypesStep, OwnersStep, StopStep, BoundStep DEF Inv, Safety
<1> QED BY InvInit, <1>1, PTL DEF Spec

(* Types hold for every pool, bound and number of descriptors.             *)
THEOREM HttpTypes == Spec => []TypeOK
<1>1. Inv => TypeOK
  BY DEF Inv
<1> QED BY HttpInvariant, <1>1, PTL

(* A socket is never in two pairs of hands: no two workers answer one      *)
(* client, and none is served while it is still queued.                    *)
THEOREM HttpOneOwner == Spec => []OneOwner
<1>1. Inv => OneOwner
  BY DEF Inv, Safety, SocketsAreOwned
<1> QED BY HttpInvariant, <1>1, PTL

(* request_stop() shuts down client sockets only, whatever numbers the     *)
(* rest of the process opens and closes meanwhile.                         *)
THEOREM HttpClientsAreOpen == Spec => []ClientsAreOpen
<1>1. Inv => ClientsAreOpen
  BY DEF Inv, Safety, TypeOK, SocketsAreOwned, ClientsAreOpen, Counted, InHand
<1> QED BY HttpInvariant, <1>1, PTL

(* The limit on connections, for every limit and every pool.               *)
THEOREM HttpClientsAreBounded == Spec => []ClientsAreBounded
<1>1. Inv => ClientsAreBounded
  BY DEF Inv, Safety
<1> QED BY HttpInvariant, <1>1, PTL

(* No client is left out when the stop cuts the connections.               *)
THEOREM HttpStopReachesAll == Spec => []StopReachesAll
<1>1. Inv => StopReachesAll
  BY DEF Inv, Safety
<1> QED BY HttpInvariant, <1>1, PTL

(* run() returns with its threads joined and every client socket closed.   *)
THEOREM HttpNothingIsLeft == Spec => []NothingIsLeft
<1>1. ASSUME Inv, acceptor.pc = "done"
      PROVE  /\ \A w \in Worker : worker[w].pc \in {"absent", "gone"}
             /\ \A f \in Fd : open[f] # "client"
             /\ queue = << >> /\ clients = {} /\ ~listening
  <2>1. /\ SocketsAreOwned /\ StopIsFinal /\ clients \subseteq Fd
        /\ ~listening /\ \A w \in Worker : worker[w].pc \in {"absent", "gone"}
    BY <1>1 DEF Inv, Safety, TypeOK, StopIsFinal
  <2>2. queue = << >>
    BY <2>1, ThreadAssumption DEF StopIsFinal
  <2>3. Queued = {} /\ InHand = {} /\ Counted = {} /\ ~Offered
    BY <1>1, <2>1, <2>2 DEF Queued, InHand, Counted, Offered
  <2> QED BY <2>1, <2>2, <2>3 DEF SocketsAreOwned
<1>2. Inv => NothingIsLeft
  BY <1>1 DEF NothingIsLeft
<1> QED BY HttpInvariant, <1>2, PTL
-----------------------------------------------------------------------------
(* Nobody sleeps on work.  The mutex is held by a worker that looks at the *)
(* queue, until it takes a client, leaves or sleeps.                       *)
MutexIsHeld ==
    \A w \in Worker : worker[w].pc \in {"check", "drowsy"} <=> mutex = w

(* Workers that will look at the queue, and the notification that is still *)
(* to come.                                                                *)
OnTheWay == {w \in Worker : worker[w].pc \in {"lock", "check"}}
Notices  == IF acceptor.pc = "notify" THEN 1 ELSE 0

(* While a worker sleeps, every client that is queued has a worker on the  *)
(* way to it, or the notification that sends one.                          *)
NobodySleepsOnWork ==
    (\E w \in Worker : worker[w].pc = "asleep") =>
        Len(queue) <= Cardinality(OnTheWay) + Notices

(* Between the predicate of the wait and the sleep nothing is queued, and  *)
(* request_stop does not get past the mutex.                               *)
DozeIsSafe ==
    \A w \in Worker : worker[w].pc = "drowsy" =>
        queue = << >> /\ acceptor.pc \notin {"waking", "joining", "done"}

(* When the stop joins the workers, none of them sleeps or is about to.    *)
NobodySleepsThroughTheStop ==
    acceptor.pc \in {"joining", "done"} =>
        \A w \in Worker : worker[w].pc \notin {"drowsy", "asleep"}

Wakefulness == /\ MutexIsHeld /\ NobodySleepsOnWork /\ DozeIsSafe
               /\ NobodySleepsThroughTheStop

LEMMA WayCounts ==
    /\ IsFiniteSet(OnTheWay) /\ Cardinality(OnTheWay) \in Nat
    /\ \A w \in OnTheWay : Cardinality(OnTheWay \ {w}) = Cardinality(OnTheWay) - 1
    /\ \A w \in Worker \ OnTheWay : Cardinality(OnTheWay \cup {w}) = Cardinality(OnTheWay) + 1
<1>1. IsFiniteSet(OnTheWay)
  BY ThreadAssumption, FS_Subset DEF OnTheWay
<1> QED BY <1>1, FS_CardinalityType, FS_AddElement, FS_RemoveElement

(* Steps in which no worker moves, nothing is queued and no notification   *)
(* is due or sent.                                                         *)
LEMMA WakefulStay ==
    ASSUME Wakefulness, UNCHANGED <<worker, mutex, queue>>,
           acceptor.pc # "notify", acceptor'.pc # "notify",
           acceptor'.pc \in {"waking", "joining", "done"} =>
               \/ acceptor.pc = acceptor'.pc
               \/ \A w \in Worker : worker[w].pc \notin {"drowsy", "asleep"}
               \/ acceptor'.pc = "waking" /\ mutex \notin Worker
    PROVE  Wakefulness'
<1>1. MutexIsHeld' /\ NobodySleepsOnWork'
  BY DEF Wakefulness, MutexIsHeld, NobodySleepsOnWork, OnTheWay, Notices
<1>2. DozeIsSafe' /\ NobodySleepsThroughTheStop'
  BY DEF Wakefulness, MutexIsHeld, DozeIsSafe, NobodySleepsThroughTheStop
<1> QED BY <1>1, <1>2 DEF Wakefulness

LEMMA AdmitWakes ==
    ASSUME TypeOK, Wakefulness, Admit
    PROVE  Wakefulness'
<1>1. /\ acceptor.pc = "admit" /\ mutex = NoOne /\ UNCHANGED <<worker, mutex>>
      /\ queue \in Seq(Fd) /\ OnTheWay' = OnTheWay /\ Notices = 0
  BY DEF Admit, AdmitIf, At, TypeOK, OnTheWay, Notices
<1>2. \A w \in Worker : worker[w].pc # "drowsy"
  BY <1>1, ThreadAssumption DEF Wakefulness, MutexIsHeld
<1>3. CASE /\ clients' = clients \cup {acceptor.fd}
           /\ queue' = Append(queue, acceptor.fd) /\ Goto("notify")
  <2>1. acceptor'.pc = "notify" /\ Notices' = 1
    BY <1>3 DEF Goto, TypeOK, Notices
  <2>2. Len(queue') = Len(queue) + 1 /\ Len(queue) \in Nat
    BY <1>1, <1>3
  <2>3. NobodySleepsOnWork'
    BY <1>1, <2>1, <2>2, WayCounts DEF Wakefulness, NobodySleepsOnWork
  <2> QED BY <1>1, <1>2, <2>1, <2>3
          DEF Wakefulness, MutexIsHeld, DozeIsSafe, NobodySleepsThroughTheStop
<1>4. CASE Goto("refuse") /\ UNCHANGED <<clients, queue>>
  <2>1. acceptor'.pc = "refuse"
    BY <1>4 DEF Goto, TypeOK
  <2> QED BY <1>1, <1>4, <2>1, WakefulStay
<1> QED BY <1>3, <1>4 DEF Admit, AdmitIf

(* A worker that starts, is woken, or comes back from a client.            *)
LEMMA WorkerComes ==
    ASSUME TypeOK, Wakefulness, UNCHANGED <<mutex, queue>>, NEW w \in Worker,
           worker[w].pc \in {"absent", "asleep", "close"}, worker'[w].pc = "lock",
           \A v \in Worker \ {w} : worker'[v] = worker[v],
           Notices' \in {Notices, Notices - 1},
           acceptor'.pc \in {"waking", "joining", "done"} => acceptor'.pc = acceptor.pc
    PROVE  Wakefulness'
<1>1. w \notin OnTheWay /\ OnTheWay' = OnTheWay \cup {w}
  BY DEF OnTheWay
<1>2. Cardinality(OnTheWay') = Cardinality(OnTheWay) + 1
  BY <1>1, WayCounts
<1>3. NobodySleepsOnWork'
  <2>1. (\E v \in Worker : worker'[v].pc = "asleep") => \E v \in Worker : worker[v].pc = "asleep"
    OBVIOUS
  <2>2. Len(queue) \in Nat /\ Notices \in {0, 1}
    BY DEF TypeOK, Notices
  <2> QED BY <1>2, <2>1, <2>2, WayCounts DEF Wakefulness, NobodySleepsOnWork
<1>4. MutexIsHeld' /\ DozeIsSafe' /\ NobodySleepsThroughTheStop'
  BY DEF Wakefulness, MutexIsHeld, DozeIsSafe, NobodySleepsThroughTheStop
<1> QED BY <1>3, <1>4 DEF Wakefulness

LEMMA NotifyWakes ==
    ASSUME TypeOK, Wakefulness, Notify
    PROVE  Wakefulness'
<1>1. /\ acceptor.pc = "notify" /\ acceptor'.pc = "loop" /\ UNCHANGED <<mutex, queue>>
      /\ Notices' = Notices - 1
  BY DEF Notify, At, Goto, TypeOK, sockets, Notices
<1>2. ASSUME NEW w \in Worker, worker[w].pc = "asleep",
             worker' = [worker EXCEPT ![w].pc = "lock"]
      PROVE  Wakefulness'
  <2>1. worker'[w].pc = "lock" /\ \A v \in Worker \ {w} : worker'[v] = worker[v]
    BY <1>2 DEF TypeOK
  <2> QED BY <1>1, <1>2, <2>1, WorkerComes
<1>3. CASE (\A w \in Worker : worker[w].pc # "asleep") /\ UNCHANGED worker
  BY <1>1, <1>3 DEF Wakefulness, MutexIsHeld, NobodySleepsOnWork, DozeIsSafe,
                    NobodySleepsThroughTheStop
<1> QED BY <1>2, <1>3 DEF Notify

LEMMA AllAreWoken ==
    ASSUME TypeOK, Wakefulness, WakeAll
    PROVE  Wakefulness'
<1>1. /\ acceptor.pc = "waking" /\ UNCHANGED <<mutex, queue>>
  BY DEF WakeAll, At, sockets
<1>2. \A w \in Worker : worker[w].pc # "drowsy"
  BY <1>1 DEF Wakefulness, DozeIsSafe
<1>3. \A w \in Worker : /\ worker'[w].pc \notin {"drowsy", "asleep"}
                        /\ worker'[w].pc = "check" <=> worker[w].pc = "check"
  <2>1. ASSUME NEW w \in Worker
        PROVE  worker'[w] = IF worker[w].pc = "asleep"
                            THEN [worker[w] EXCEPT !.pc = "lock"] ELSE worker[w]
    BY DEF WakeAll
  <2> QED BY <1>2, <2>1 DEF TypeOK
<1> QED BY <1>1, <1>2, <1>3
        DEF Wakefulness, MutexIsHeld, NobodySleepsOnWork, DozeIsSafe, NobodySleepsThroughTheStop

(* client_worker_loop: taking, leaving and sleeping happen with the mutex. *)
LEMMA WorkerWakes ==
    ASSUME Inv, Wakefulness, NEW w \in Worker, WorkerStep(w)
    PROVE  Wakefulness'
<1> USE DEF Is, Move
<1>0. /\ TypeOK /\ StopIsFinal
      /\ worker \in [Worker -> [pc : {"absent", "lock", "check", "drowsy", "asleep",
                                       "serving", "erase", "close", "gone"},
                                 fd : Fd \cup {NoFd}]]
      /\ NoOne \notin Worker /\ UNCHANGED acceptor /\ Notices' = Notices
      /\ Notices \in {0, 1} /\ queue \in Seq(Fd)
  BY ThreadAssumption DEF Inv, Safety, TypeOK, WorkerStep, Lock, Take, Leave, LeaveIf, Doze,
     Sleep, Served, Erase, Close, Notices
<1>1. MutexIsHeld /\ NobodySleepsOnWork /\ DozeIsSafe /\ NobodySleepsThroughTheStop
  BY DEF Wakefulness
<1>2. CASE Lock(w)
  <2>1. /\ worker[w].pc = "lock" /\ worker'[w].pc = "check" /\ mutex = NoOne /\ mutex' = w
        /\ \A v \in Worker \ {w} : worker'[v] = worker[v]
        /\ UNCHANGED queue
    BY <1>0, <1>2 DEF Lock, sockets
  <2>2. OnTheWay' = OnTheWay
    BY <2>1 DEF OnTheWay
  <2>3. MutexIsHeld'
    BY <1>0, <1>1, <2>1 DEF MutexIsHeld
  <2> QED BY <1>0, <1>1, <2>1, <2>2, <2>3
          DEF Wakefulness, NobodySleepsOnWork, DozeIsSafe, NobodySleepsThroughTheStop
<1>3. CASE Take(w) \/ Leave(w)
  <2>1. /\ worker[w].pc = "check" /\ worker'[w].pc \in {"serving", "gone"} /\ mutex' = NoOne
        /\ \A v \in Worker \ {w} : worker'[v] = worker[v]
    BY <1>0, <1>3 DEF Take, Leave, LeaveIf
  <2>2. OnTheWay' = OnTheWay \ {w} /\ w \in OnTheWay
    BY <2>1 DEF OnTheWay
  <2>3. Cardinality(OnTheWay') = Cardinality(OnTheWay) - 1 /\ Cardinality(OnTheWay) \in Nat
    BY <2>2, WayCounts
  <2>4. Cardinality(OnTheWay') \in Nat
    <3>1. IsFiniteSet(OnTheWay')
      BY <2>2, WayCounts, FS_RemoveElement
    <3> QED BY <3>1, FS_CardinalityType
  <2>5. \/ queue # << >> /\ queue' = Tail(queue)
        \/ queue = << >> /\ UNCHANGED queue
    BY <1>3 DEF Take, Leave, LeaveIf, sockets
  <2>6. Len(queue') = IF queue = << >> THEN 0 ELSE Len(queue) - 1
    BY <1>0, <2>5
  <2>7. NobodySleepsOnWork'
    <3>1. (\E v \in Worker : worker'[v].pc = "asleep") =>
            \E v \in Worker : worker[v].pc = "asleep"
      BY <2>1
    <3>2. Len(queue) \in Nat
      BY <1>0
    <3> QED BY <1>0, <1>1, <2>3, <2>4, <2>6, <3>1, <3>2 DEF NobodySleepsOnWork
  <2>8. MutexIsHeld'
    BY <1>0, <1>1, <2>1 DEF MutexIsHeld
  <2>9. DozeIsSafe' /\ NobodySleepsThroughTheStop'
    <3>1. \A v \in Worker : worker[v].pc # "drowsy"
      BY <1>1, <2>1 DEF MutexIsHeld
    <3> QED BY <1>0, <1>1, <2>1, <3>1 DEF DozeIsSafe, NobodySleepsThroughTheStop
  <2> QED BY <2>7, <2>8, <2>9 DEF Wakefulness
<1>4. CASE Doze(w)
  <2>1. /\ worker[w].pc = "check" /\ worker'[w].pc = "drowsy" /\ UNCHANGED <<mutex, queue>>
        /\ \A v \in Worker \ {w} : worker'[v] = worker[v]
        /\ ~stop /\ queue = << >> /\ Len(queue) = 0
    BY <1>0, <1>4 DEF Doze, sockets
  <2>2. acceptor.pc \notin {"waking", "joining", "done"}
    <3>1. acceptor.pc \notin {"waking", "joining"}
      BY <1>0, <2>1 DEF StopIsFinal
    <3>2. acceptor.pc # "done"
      BY <1>0, <2>1 DEF StopIsFinal
    <3> QED BY <3>1, <3>2
  <2>3. Cardinality(OnTheWay') \in Nat
    <3>1. OnTheWay' = OnTheWay \ {w} /\ w \in OnTheWay
      BY <2>1 DEF OnTheWay
    <3> QED BY <3>1, WayCounts, FS_RemoveElement, FS_CardinalityType
  <2>4. NobodySleepsOnWork'
    BY <1>0, <2>1, <2>3 DEF NobodySleepsOnWork
  <2>5. MutexIsHeld'
    BY <1>1, <2>1 DEF MutexIsHeld
  <2> QED BY <1>0, <1>1, <2>1, <2>2, <2>4, <2>5
          DEF Wakefulness, DozeIsSafe, NobodySleepsThroughTheStop
<1>5. CASE Sleep(w)
  <2>1. /\ worker[w].pc = "drowsy" /\ worker'[w].pc = "asleep" /\ mutex' = NoOne
        /\ \A v \in Worker \ {w} : worker'[v] = worker[v]
        /\ UNCHANGED queue
    BY <1>0, <1>5 DEF Sleep, sockets
  <2>2. /\ queue = << >> /\ Len(queue) = 0
        /\ acceptor.pc \notin {"waking", "joining", "done"}
    BY <1>1, <2>1 DEF DozeIsSafe
  <2>3. OnTheWay' = OnTheWay /\ Cardinality(OnTheWay) \in Nat
    BY <2>1, WayCounts DEF OnTheWay
  <2>4. NobodySleepsOnWork'
    BY <1>0, <2>1, <2>2, <2>3 DEF NobodySleepsOnWork
  <2>5. MutexIsHeld'
    BY <1>0, <1>1, <2>1 DEF MutexIsHeld
  <2> QED BY <1>0, <1>1, <2>1, <2>2, <2>4, <2>5
          DEF Wakefulness, DozeIsSafe, NobodySleepsThroughTheStop
<1>6. CASE Served(w) \/ Erase(w)
  <2>1. /\ worker[w].pc \in {"serving", "erase"} /\ worker'[w].pc \in {"erase", "close"}
        /\ \A v \in Worker \ {w} : worker'[v] = worker[v]
        /\ UNCHANGED <<mutex, queue>>
    BY <1>0, <1>6 DEF Served, Erase, sockets
  <2>2. OnTheWay' = OnTheWay
    BY <2>1 DEF OnTheWay
  <2> QED BY <1>0, <1>1, <2>1, <2>2
          DEF Wakefulness, MutexIsHeld, NobodySleepsOnWork, DozeIsSafe,
              NobodySleepsThroughTheStop
<1>7. CASE Close(w)
  <2>1. /\ worker[w].pc = "close" /\ worker'[w].pc = "lock"
        /\ \A v \in Worker \ {w} : worker'[v] = worker[v]
        /\ UNCHANGED <<mutex, queue>>
    BY <1>0, <1>7 DEF Close
  <2> QED BY <1>0, <2>1, WorkerComes
<1> QED BY <1>2, <1>3, <1>4, <1>5, <1>6, <1>7 DEF WorkerStep

LEMMA WakefulStep == Inv /\ Wakefulness /\ [Next]_vars => Wakefulness'
<1> SUFFICES ASSUME Inv, Wakefulness, [Next]_vars
             PROVE  Wakefulness'
  OBVIOUS
<1> USE DEF At, Goto
<1>0. /\ TypeOK /\ StopIsFinal /\ NoOne \notin Worker
      /\ acceptor \in [pc : {"binding", "starting", "loop", "poll", "admit", "notify", "refuse",
                              "stopping", "cutting", "waking", "joining", "done"},
                        fd : Fd \cup {NoFd}]
      /\ worker \in [Worker -> [pc : {"absent", "lock", "check", "drowsy", "asleep",
                                       "serving", "erase", "close", "gone"},
                                 fd : Fd \cup {NoFd}]]
  BY ThreadAssumption DEF Inv, Safety, TypeOK
<1>1. CASE Listen \/ Started \/ Loop \/ PollTimesOut \/ Refuse \/ StoreStop \/ StartFails
           \/ PollFails
  <2>1. /\ UNCHANGED <<worker, mutex, queue>>
        /\ acceptor.pc # "notify"
        /\ \/ acceptor'.pc \notin {"notify", "waking", "joining", "done"}
           \/ acceptor.pc = "binding" /\ acceptor'.pc = "done"
    BY <1>0, <1>1 DEF Listen, Started, Loop, PollTimesOut, Refuse, StoreStop, StartFails,
                      PollFails, sockets
  <2>2. acceptor.pc = "binding" => \A w \in Worker : worker[w].pc \in {"absent", "gone"}
    BY <1>0 DEF StopIsFinal
  <2> QED BY <2>1, <2>2, WakefulStay
<1>2. CASE CutClients
  <2>1. /\ UNCHANGED <<worker, mutex, queue>> /\ mutex = NoOne
        /\ acceptor.pc = "cutting" /\ acceptor'.pc = "waking"
    BY <1>0, <1>2 DEF CutClients
  <2> QED BY <1>0, <2>1, WakefulStay
<1>3. CASE Join
  <2>1. /\ UNCHANGED <<worker, mutex, queue>>
        /\ acceptor.pc = "joining" /\ acceptor'.pc = "done"
        /\ \A w \in Worker : worker[w].pc \in {"absent", "gone"}
    BY <1>0, <1>3 DEF Join, sockets
  <2> QED BY <2>1, WakefulStay
<1>4. CASE \E f \in Fd : Accept(f)
  <2>1. /\ UNCHANGED <<worker, mutex, queue>>
        /\ acceptor.pc = "poll" /\ acceptor'.pc = "admit"
    BY <1>4 DEF Accept
  <2> QED BY <2>1, WakefulStay
<1>5. CASE \E w \in Worker : StartWorker(w)
  <2>1. PICK w \in Worker : StartWorker(w)
    BY <1>5
  <2>2. /\ worker[w].pc = "absent" /\ worker'[w].pc = "lock"
        /\ \A v \in Worker \ {w} : worker'[v] = worker[v]
        /\ UNCHANGED <<acceptor, mutex, queue>> /\ Notices' = Notices
    BY <1>0, <2>1 DEF StartWorker, sockets, Notices
  <2> QED BY <1>0, <2>2, WorkerComes
<1>6. CASE Admit \/ Notify \/ WakeAll
  BY <1>0, <1>6, AdmitWakes, NotifyWakes, AllAreWoken
<1>7. CASE \E w \in Worker : WorkerStep(w)
  BY <1>7, WorkerWakes
<1>8. CASE \/ AskShutdown \/ UNCHANGED vars
           \/ \E f \in Fd : OtherOpens(f) \/ OtherCloses(f)
  <2>1. UNCHANGED <<acceptor, worker, mutex, queue>>
    BY <1>8 DEF AskShutdown, OtherOpens, OtherCloses, vars, sockets
  <2> QED BY <2>1 DEF Wakefulness, MutexIsHeld, NobodySleepsOnWork, OnTheWay, Notices,
                      DozeIsSafe, NobodySleepsThroughTheStop
<1> QED BY <1>1, <1>2, <1>3, <1>4, <1>5, <1>6, <1>7, <1>8 DEF Next, AcceptorStep

LEMMA WakefulInit == Init => Wakefulness
BY ThreadAssumption DEF Init, Wakefulness, MutexIsHeld, NobodySleepsOnWork, DozeIsSafe,
                        NobodySleepsThroughTheStop

(* run, client_worker_loop: no wake-up is lost.  While a worker sleeps, as *)
(* many workers are on the way to the queue, or about to be notified, as   *)
(* clients are in it, however many of either there are.                    *)
THEOREM HttpNobodySleepsOnWork == Spec => []NobodySleepsOnWork
<1>1. Inv /\ Wakefulness /\ [Next]_vars => Wakefulness'
  BY WakefulStep
<1>2. Wakefulness => NobodySleepsOnWork
  BY DEF Wakefulness
<1> QED BY WakefulInit, <1>1, <1>2, HttpInvariant, PTL DEF Spec

(* request_stop stores stop_ without the mutex, and no worker sleeps       *)
(* through it all the same: by the time run() joins, everybody is awake.   *)
THEOREM HttpStopWakesAll == Spec => []NobodySleepsThroughTheStop
<1>1. Inv /\ Wakefulness /\ [Next]_vars => Wakefulness'
  BY WakefulStep
<1>2. Wakefulness => NobodySleepsThroughTheStop
  BY DEF Wakefulness
<1> QED BY WakefulInit, <1>1, <1>2, HttpInvariant, PTL DEF Spec
=============================================================================
