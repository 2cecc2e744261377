-------------------------- MODULE UdtSockets_proofs --------------------------
(***************************************************************************)
(* Proofs about UdtSockets, for any number of clients, connections and     *)
(* requests and every size of the backlog.  RefCountExact and              *)
(* OneSocketEach hold with the two tight races in; NoDangling is what they *)
(* break, and is proved without them.                                      *)
(***************************************************************************)
EXTENDS UdtSockets, ProofLemmas, SequenceTheorems

Socket == [place : {"none", "new", "open", "closed", "deleted"},
           status : {"INIT", "LISTENING", "CONNECTED", "CLOSED"},
           peer : Clients \cup {None},
           connected : BOOLEAN, broken : BOOLEAN, onList : BOOLEAN, old : BOOLEAN]

Mux == [refs : Int, state : {"up", "closing", "gone"}, leaked : Nat]
Worker == [at : {"idle", "request", "create", "enter", "queue"},
           peer : Clients \cup {None}, id : Sockets]
Acceptor == [at : {"out", "check", "picked", "wait", "failed", "crashed"}, id : Sockets]
App == [at : {"run", "wake", "move", "cleanup", "done"}, id : Sockets]
Gc == [phase : {"run", "stop", "final", "ended"}, joining : BOOLEAN]

TypeOK ==
  /\ sock \in [Sockets -> Socket]
  /\ queued \in SUBSET Connections
  /\ listener \in BOOLEAN
  /\ newEntry \in Seq(Connections)
  /\ served \in SUBSET Connections
  /\ mux \in Mux
  /\ worker \in Worker
  /\ acceptor \in Acceptor
  /\ app \in App
  /\ held \in SUBSET Connections
  /\ gc \in Gc
  /\ arrivals \in Nat

\* Sockets are made in order; the one being made is the worker's.
TableInv ==
  /\ sock[L].place \in {"open", "closed", "deleted"}
  /\ \A i \in Sockets : sock[i].place = "new" <=> worker.at = "enter" /\ worker.id = i
  /\ \A i, j \in Connections : i < j /\ sock[i].place = "none" => sock[j].place = "none"
  /\ \A i \in Connections : sock[i].place = "none" => sock[i].peer = None
  /\ worker.at \in {"enter", "queue"} => worker.id \in Connections
  /\ worker.at # "idle" => worker.peer \in Clients
  /\ acceptor.at = "picked" => acceptor.id \in Connections
  /\ app.at = "move" => app.id \in Connections
  /\ app.at = "wake" => app.id = L

InUse == {i \in Sockets : sock[i].place \in {"new", "open", "closed"}}

\* The multiplexer goes with its last socket, when the worker has nothing to make.
MuxInv ==
  /\ RefCountExact
  /\ gc.joining <=> mux.state = "closing"
  /\ mux.state = "gone" => worker.at = "idle"
  /\ listener => sock[L].place \in {"open", "closed"}

\* Only the newest socket of a client is alive, and none while the worker makes another.
AliveInv ==
  /\ \A i \in Sockets : Alive(i) =>
       sock[i].place \in {"new", "open"} /\ (i # L => sock[i].peer \in Clients)
  /\ \A i, j \in Connections : i < j /\ Alive(i) => sock[j].peer # sock[i].peer
  /\ app.at = "move" => ~ sock[app.id].connected
  /\ worker.at = "create" => \A i \in Connections : Alive(i) => sock[i].peer # worker.peer

\* A socket is once at most among what the worker serves, and stays while it is.
EntryInv ==
  /\ \A i \in served \cup Range(newEntry) :
       sock[i].onList /\ sock[i].place \in {"new", "open", "closed"}
  /\ \A m, n \in DOMAIN newEntry : newEntry[m] = newEntry[n] => m = n
  /\ served \cap Range(newEntry) = {}

\* A connection is in one hand at a time: the worker's, the queue's, accept()'s, the
\* application's and close()'s.
HandInv ==
  /\ worker.at \in {"enter", "queue"} =>
       /\ worker.id \notin queued \cup held
       /\ ~ (acceptor.at = "picked" /\ acceptor.id = worker.id)
       /\ ~ (app.at = "move" /\ app.id = worker.id)
       /\ sock[worker.id].place \in {"new", "open"} => ~ sock[worker.id].broken
  /\ queued \cap held = {}
  /\ acceptor.at = "picked" => acceptor.id \notin queued \cup held
  /\ app.at = "move" =>
       app.id \notin queued /\ ~ (acceptor.at = "picked" /\ acceptor.id = app.id)
  /\ \A i \in queued \cup held : sock[i].place \notin {"none", "new"}
  /\ worker.at = "queue" => sock[worker.id].place \notin {"none", "new"}
  /\ acceptor.at = "picked" => sock[acceptor.id].place \notin {"none", "new"}
  /\ app.at = "move" => sock[app.id].place \notin {"none", "new"}

\* What the listener's removal finds in the queue has not been removed before it.
QueueInv ==
  /\ ~ sock[L].onList
  /\ gc.phase \in {"final", "ended"} =>
       sock[L].place = "deleted" \/ (sock[L].place = "closed" /\ sock[L].old)
  /\ sock[L].place # "deleted" =>
       \A i \in Sockets : i \in queued \/ (worker.at = "queue" /\ i = worker.id) =>
         sock[i].place = "open" \/ (sock[i].place = "closed" /\ gc.phase \in {"final", "ended"})

IInv == TypeOK /\ TableInv /\ MuxInv /\ AliveInv /\ EntryInv /\ HandInv /\ QueueInv

\* Without the tight races, what the queue and accept() hold can be looked up, and the
\* listener outlives whoever is in accept() or at a request.
QuietInv ==
  /\ \A i \in queued : Located(i)
  /\ worker.at = "queue" => Located(worker.id)
  /\ acceptor.at = "picked" => Located(acceptor.id)
  /\ worker.at # "idle" => sock[L].place # "deleted"
  /\ sock[L].place = "open" /\ ~ sock[L].broken => sock[L].status = "LISTENING"
  /\ sock[L].place = "closed" => sock[L].broken
  /\ app.at = "wake" => sock[L].place = "open" /\ sock[L].broken /\ ~ sock[L].old
  /\ acceptor.at = "wait" =>
       sock[L].place = "open" /\ (sock[L].broken => app.at = "wake")
  /\ acceptor.at = "check" =>
       sock[L].place = "open" \/ (sock[L].place = "closed" /\ ~ sock[L].old)
  /\ gc.phase # "run" => acceptor.at \in {"out", "failed"} /\ app.at \in {"cleanup", "done"}
  /\ acceptor.at # "crashed"

\* There are finitely many sockets, so the queue has a newest and the rest can be counted.
LEMMA FinitelyMany ==
  /\ IsFiniteSet(Sockets)
  /\ \A S \in SUBSET Sockets : IsFiniteSet(S) /\ Cardinality(S) \in Nat
<1>1. IsFiniteSet(1..MaxSockets)
  BY UdtSocketsAssumption, FS_Interval
<1>2. IsFiniteSet(Sockets)
  <2>1. Sockets = 1..MaxSockets \cup {L}
    BY DEF Sockets, Connections
  <2> QED BY <1>1, <2>1, FS_AddElement
<1> QED BY <1>2, FS_Subset, FS_CardinalityType

\* What the actions write into one socket leaves a socket.
LEMMA SocketUpdates ==
  ASSUME NEW f \in [Sockets -> Socket], NEW i \in Sockets, NEW b \in BOOLEAN
  PROVE  /\ [f EXCEPT ![i].status = "CLOSED", ![i].old = b] \in [Sockets -> Socket]
         /\ [f EXCEPT ![i].status = "CLOSED", ![i].place = "closed", ![i].old = b]
              \in [Sockets -> Socket]
         /\ [f EXCEPT ![i].place = "open", ![i].status = "CONNECTED"] \in [Sockets -> Socket]
         /\ [f EXCEPT ![i].broken = TRUE, ![i].old = b] \in [Sockets -> Socket]
         /\ [f EXCEPT ![i].broken = TRUE] \in [Sockets -> Socket]
         /\ [f EXCEPT ![i].onList = b] \in [Sockets -> Socket]
         /\ [f EXCEPT ![i].old = b] \in [Sockets -> Socket]
         /\ [f EXCEPT ![i] = Closed(@)] \in [Sockets -> Socket]
         /\ [f[i] EXCEPT !.status = "CLOSED", !.place = "closed", !.old = b] \in Socket
         /\ [Closed(f[i]) EXCEPT !.broken = TRUE, !.status = "CLOSED", !.place = "closed",
                                 !.old = b] \in Socket
         /\ [f[i] EXCEPT !.old = b] \in Socket
<1> USE DEF Socket, Closed
<1>6. f[i] \in Socket
  OBVIOUS
<1>1. [f EXCEPT ![i].status = "CLOSED", ![i].old = b] \in [Sockets -> Socket]
  <2> DEFINE s == [f[i] EXCEPT !.status = "CLOSED", !.old = b]
  <2>1. s \in Socket
    BY <1>6
  <2>2. [f EXCEPT ![i].status = "CLOSED", ![i].old = b] = [f EXCEPT ![i] = s]
    OBVIOUS
  <2> QED BY <2>1, <2>2
<1>2. [f EXCEPT ![i].status = "CLOSED", ![i].place = "closed", ![i].old = b]
        \in [Sockets -> Socket]
  <2> DEFINE s == [f[i] EXCEPT !.status = "CLOSED", !.place = "closed", !.old = b]
  <2>1. s \in Socket
    BY <1>6
  <2>2. [f EXCEPT ![i].status = "CLOSED", ![i].place = "closed", ![i].old = b]
          = [f EXCEPT ![i] = s]
    OBVIOUS
  <2> QED BY <2>1, <2>2
<1>3. [f EXCEPT ![i].place = "open", ![i].status = "CONNECTED"] \in [Sockets -> Socket]
  <2> DEFINE s == [f[i] EXCEPT !.place = "open", !.status = "CONNECTED"]
  <2>1. s \in Socket
    BY <1>6
  <2>2. [f EXCEPT ![i].place = "open", ![i].status = "CONNECTED"] = [f EXCEPT ![i] = s]
    OBVIOUS
  <2> QED BY <2>1, <2>2
<1>4. [f EXCEPT ![i].broken = TRUE, ![i].old = b] \in [Sockets -> Socket]
  <2> DEFINE s == [f[i] EXCEPT !.broken = TRUE, !.old = b]
  <2>1. s \in Socket
    BY <1>6
  <2>2. [f EXCEPT ![i].broken = TRUE, ![i].old = b] = [f EXCEPT ![i] = s]
    OBVIOUS
  <2> QED BY <2>1, <2>2
<1>5. /\ [f[i] EXCEPT !.broken = TRUE] \in Socket /\ [f[i] EXCEPT !.onList = b] \in Socket
      /\ [f[i] EXCEPT !.old = b] \in Socket /\ Closed(f[i]) \in Socket
  BY <1>6
<1>8. /\ [f EXCEPT ![i].broken = TRUE] \in [Sockets -> Socket]
      /\ [f EXCEPT ![i].onList = b] \in [Sockets -> Socket]
      /\ [f EXCEPT ![i].old = b] \in [Sockets -> Socket]
      /\ [f EXCEPT ![i] = Closed(@)] \in [Sockets -> Socket]
  <2> HIDE DEF Socket, Closed
  <2> QED BY <1>5
<1>7. /\ [f[i] EXCEPT !.status = "CLOSED", !.place = "closed", !.old = b] \in Socket
      /\ [Closed(f[i]) EXCEPT !.broken = TRUE, !.status = "CLOSED", !.place = "closed",
                              !.old = b] \in Socket
      /\ [f[i] EXCEPT !.old = b] \in Socket
  BY <1>6
<1> QED BY <1>1, <1>2, <1>3, <1>4, <1>7, <1>8

\* The newest of a set of sockets is one of them.
LEMMA NewestIsThere ==
  ASSUME NEW S \in SUBSET Sockets, S # {}
  PROVE  Max(S) \in S /\ \A i \in S : i <= Max(S)
<1>1. S \in SUBSET Int
  BY UdtSocketsAssumption DEF Sockets, Connections, L
<1> QED BY <1>1, FinitelyMany, MaxOf


\* What CreateSocket makes and what Pass leaves of a socket.
LEMMA MadeSockets ==
  Deleted \in Socket /\ \A c \in Clients \cup {None} : Fresh(c) \in Socket
BY DEF Deleted, Unused, Fresh, Socket


\* What the actions write into the records of the threads and of the multiplexer.
LEMMA RecordUpdates ==
  ASSUME TypeOK, NEW i \in Sockets
  PROVE  /\ \A c \in Clients : [at |-> "request", peer |-> c, id |-> L] \in Worker
         /\ Idle \in Worker
         /\ [worker EXCEPT !.at = "create"] \in Worker
         /\ [worker EXCEPT !.at = "enter", !.id = i] \in Worker
         /\ [worker EXCEPT !.at = "queue"] \in Worker
         /\ \A a \in {"check", "failed"} : [at |-> a, id |-> L] \in Acceptor
         /\ [at |-> "out", id |-> L] \in Acceptor /\ [at |-> "picked", id |-> i] \in Acceptor
         /\ \A a \in {"wait", "check", "crashed"} : [acceptor EXCEPT !.at = a] \in Acceptor
         /\ \A a \in {"run", "wake", "cleanup", "done"} : [at |-> a, id |-> L] \in App
         /\ [at |-> "move", id |-> i] \in App
         /\ \A p \in {"stop", "final", "ended"} : [gc EXCEPT !.phase = p] \in Gc
         /\ \A b \in BOOLEAN : [gc EXCEPT !.joining = b] \in Gc
         /\ Counted \in Mux /\ [mux EXCEPT !.state = "gone"] \in Mux
         /\ [Counted EXCEPT !.leaked = @ + 1] \in Mux
         /\ \A n \in Int : Released(n) \in Mux
<1>1. L \in Sockets
  BY DEF Sockets, L
<1>2. /\ \A c \in Clients : [at |-> "request", peer |-> c, id |-> L] \in Worker
      /\ Idle \in Worker
      /\ [worker EXCEPT !.at = "create"] \in Worker
      /\ [worker EXCEPT !.at = "enter", !.id = i] \in Worker
      /\ [worker EXCEPT !.at = "queue"] \in Worker
  BY <1>1 DEF TypeOK, Worker, Idle
<1>3. /\ \A a \in {"check", "failed"} : [at |-> a, id |-> L] \in Acceptor
      /\ [at |-> "out", id |-> L] \in Acceptor /\ [at |-> "picked", id |-> i] \in Acceptor
      /\ \A a \in {"wait", "check", "crashed"} : [acceptor EXCEPT !.at = a] \in Acceptor
  BY <1>1 DEF TypeOK, Acceptor
<1>4. /\ \A a \in {"run", "wake", "cleanup", "done"} : [at |-> a, id |-> L] \in App
      /\ [at |-> "move", id |-> i] \in App
  BY <1>1 DEF TypeOK, App
<1>5. /\ \A p \in {"stop", "final", "ended"} : [gc EXCEPT !.phase = p] \in Gc
      /\ \A b \in BOOLEAN : [gc EXCEPT !.joining = b] \in Gc
  BY DEF TypeOK, Gc
<1>6. /\ Counted \in Mux /\ [mux EXCEPT !.state = "gone"] \in Mux
      /\ [Counted EXCEPT !.leaked = @ + 1] \in Mux
      /\ \A n \in Int : Released(n) \in Mux
  <2>1. mux \in Mux
    BY DEF TypeOK
  <2>2. \A c \in Mux : [c EXCEPT !.leaked = @ + 1] \in Mux
    BY DEF Mux
  <2>3. Counted \in Mux /\ [mux EXCEPT !.state = "gone"] \in Mux
    BY <2>1 DEF Mux, Counted
  <2>4. \A n \in Int : Released(n) \in Mux
    BY <2>1 DEF Released, Mux
  <2> QED BY <2>2, <2>3, <2>4
<1> QED BY <1>2, <1>3, <1>4, <1>5, <1>6

\* Types are preserved by every step.
LEMMA NextTypeOK ==
  ASSUME TypeOK, TableInv, [Next]_vars
  PROVE  TypeOK'
<1>0. /\ L \in Sockets /\ Connections \subseteq Sockets
      /\ worker.id \in Sockets /\ app.id \in Sockets /\ acceptor.id \in Sockets
  BY DEF TypeOK, Worker, App, Acceptor, Sockets
<1> USE <1>0, SocketUpdates, RecordUpdates DEF TypeOK
<1>1. CASE Refuse
  BY <1>1 DEF Refuse
<1>2. CASE AnswerAgain
  BY <1>2 DEF AnswerAgain
<1>3. CASE ReplaceBroken
  <2>1. Existing(worker.peer) \in Sockets
    <3>1. OfPeer(worker.peer) \in SUBSET Sockets
      BY DEF OfPeer
    <3>2. OfPeer(worker.peer) # {}
      BY <1>3 DEF ReplaceBroken
    <3> HIDE SocketUpdates, RecordUpdates DEF TypeOK
    <3> QED BY <3>1, <3>2, NewestIsThere DEF Existing
  <2>2. sock' \in [Sockets -> Socket] /\ queued' \in SUBSET Connections
    BY <1>3, <2>1 DEF ReplaceBroken
  <2>3. worker' \in Worker
    BY <1>3 DEF ReplaceBroken
  <2> QED BY <1>3, <2>2, <2>3 DEF ReplaceBroken
<1>4. CASE AcceptRequest
  BY <1>4 DEF AcceptRequest
<1>5. CASE CreateSocket
  <2>1. PICK i \in In("none") :
          /\ sock' = [sock EXCEPT ![i] = Fresh(worker.peer)]
          /\ newEntry' = Append(newEntry, i)
          /\ worker' = [worker EXCEPT !.at = "enter", !.id = i]
    BY <1>5 DEF CreateSocket
  <2>2. i \in Connections
    BY DEF TableInv, In, Sockets
  <2>3. sock' \in [Sockets -> Socket]
    <3>1. Fresh(worker.peer) \in Socket
      BY MadeSockets DEF Worker
    <3> QED BY <2>1, <3>1
  <2>4. worker' \in Worker
    BY <2>1, <2>2
  <2>5. newEntry' \in Seq(Connections)
    <3> HIDE SocketUpdates, RecordUpdates
    <3> QED BY <2>1, <2>2, AppendProperties
  <2> QED BY <1>5, <2>3, <2>4, <2>5 DEF CreateSocket
<1>27. CASE CreateFails
  <2>1. /\ mux' \in Mux /\ worker' \in Worker
        /\ UNCHANGED <<sock, queued, listener, newEntry, served, acceptor, app, held, gc, arrivals>>
    <3>1. mux' \in {mux, [Counted EXCEPT !.leaked = @ + 1]} /\ worker' = Idle
      BY <1>27 DEF CreateFails
    <3>2. mux \in Mux /\ [Counted EXCEPT !.leaked = @ + 1] \in Mux /\ Idle \in Worker
      OBVIOUS
    <3>3. UNCHANGED <<sock, queued, listener, newEntry, served, acceptor, app, held, gc,
                      arrivals>>
      BY <1>27 DEF CreateFails
    <3> HIDE SocketUpdates, RecordUpdates DEF TypeOK
    <3> QED BY <3>1, <3>2, <3>3
  <2> HIDE SocketUpdates, RecordUpdates
  <2> QED BY <2>1
<1>6. CASE EnterSocket
  BY <1>6 DEF EnterSocket
<1>7. CASE QueueSocket
  BY <1>7 DEF QueueSocket, Woken, TableInv
<1>8. CASE TakeEntry
  <2>1. Head(newEntry) \in Connections /\ Tail(newEntry) \in Seq(Connections)
    <3> HIDE SocketUpdates, RecordUpdates
    <3> QED BY <1>8, HeadTailProperties DEF TakeEntry
  <2> QED BY <1>8, <2>1 DEF TakeEntry
<1>9. CASE AcceptCall
  BY <1>9 DEF AcceptCall
<1>10. CASE AcceptTurn
  <2>1. queued # {} => Max(queued) \in Sockets
    <3> HIDE SocketUpdates, RecordUpdates
    <3>1. queued \in SUBSET Sockets
      BY DEF Sockets
    <3> HIDE DEF TypeOK
    <3> QED BY <3>1, NewestIsThere
  <2>2. acceptor' \in Acceptor
    <3>1. CASE queued # {} /\ ~ ListenerDown
      <4>1. [at |-> "picked", id |-> Max(queued)] \in Acceptor
        BY <2>1, <3>1
      <4> QED BY <1>10, <3>1, <4>1 DEF AcceptTurn
    <3>2. CASE ~ (queued # {} /\ ~ ListenerDown)
      BY <1>10, <3>2 DEF AcceptTurn
    <3> QED BY <3>1, <3>2
  <2>3. queued' \in SUBSET Connections
    <3> HIDE SocketUpdates, RecordUpdates
    <3> QED BY <1>10 DEF AcceptTurn
  <2> QED BY <1>10, <2>2, <2>3 DEF AcceptTurn
<1>11. CASE AcceptReturn
  <2>1. held' \in SUBSET Connections
    <3> HIDE SocketUpdates, RecordUpdates
    <3> QED BY <1>11 DEF AcceptReturn, TableInv
  <2>2. acceptor' \in Acceptor
    BY <1>11 DEF AcceptReturn
  <2> QED BY <1>11, <2>1, <2>2 DEF AcceptReturn
<1>12. CASE CloseListener
  BY <1>12 DEF CloseListener
<1>13. CASE CloseWakes
  BY <1>13 DEF CloseWakes, Woken
<1>14. CASE CloseMoves
  BY <1>14 DEF CloseMoves
<1>15. CASE CleanupCall
  BY <1>15 DEF CleanupCall
<1>16. CASE CleanupReturn
  BY <1>16 DEF CleanupReturn
<1>17. CASE WorkerEnds
  <2>1. << >> \in Seq(Connections)
    BY EmptySeq
  <2> QED BY <1>17, <2>1 DEF WorkerEnds
<1>18. CASE FinalClose
  <2>1. sock' \in [Sockets -> Socket]
    BY <1>18 DEF FinalClose, In
  <2> QED BY <1>18, <2>1 DEF FinalClose
<1>19. CASE FinalEmpty
  BY <1>19 DEF FinalEmpty
<1>20. ASSUME NEW c \in Clients, TakeRequest(c) PROVE TypeOK'
  <2>1. arrivals' \in Nat
    <3> HIDE SocketUpdates, RecordUpdates
    <3> QED BY <1>20 DEF TakeRequest
  <2> QED BY <1>20, <2>1 DEF TakeRequest
<1>21. ASSUME NEW i \in Connections, Break(i) PROVE TypeOK'
  BY <1>21 DEF Break
<1>22. ASSUME NEW i \in Connections, DropDead(i) PROVE TypeOK'
  BY <1>22 DEF DropDead
<1>23. ASSUME NEW i \in Connections, CloseSocket(i) PROVE TypeOK'
  <2>1. sock' \in [Sockets -> Socket] /\ app' \in App
    <3>1. CASE Located(i)
      <4>1. sock' = [sock EXCEPT ![i] = Closed(@)] /\ app' = [at |-> "move", id |-> i]
        BY <1>23, <3>1 DEF CloseSocket
      <4>2. i \in Sockets
        OBVIOUS
      <4>3. sock' \in [Sockets -> Socket]
        <5> HIDE RecordUpdates
        <5> QED BY <4>1, <4>2
      <4> QED BY <4>1, <4>2, <4>3
    <3>2. CASE ~ Located(i)
      BY <1>23, <3>2 DEF CloseSocket
    <3> QED BY <3>1, <3>2
  <2> QED BY <1>23, <2>1 DEF CloseSocket
<1>24. ASSUME NEW i \in Sockets, Ages(i) PROVE TypeOK'
  BY <1>24 DEF Ages
<1>25. ASSUME NEW kept \in SUBSET Connections, Pass(kept) PROVE TypeOK'
  <2>1. sock' \in [Sockets -> Socket]
    <3>1. Deleted \in Socket
      BY MadeSockets
    <3>2. \A i \in Sockets : Swept(DueToClose(kept))[i] \in Socket
      BY <3>1 DEF Swept
    <3> QED BY <1>25, <3>2 DEF Pass, Swept
  <2>2. mux' \in Mux
    <3>1. Cardinality(DueToRemove) \in Int
      <4>1. DueToRemove \in SUBSET Sockets
        BY DEF DueToRemove, In
      <4> HIDE SocketUpdates, RecordUpdates DEF TypeOK
      <4> QED BY <4>1, FinitelyMany
    <3> QED BY <1>25, <3>1 DEF Pass
  <2>3. queued' \in SUBSET Connections
    BY <1>25 DEF Pass, QueueAfter
  <2>4. listener' \in BOOLEAN /\ gc' \in Gc
    BY <1>25 DEF Pass
  <2> QED BY <1>25, <2>1, <2>2, <2>3, <2>4 DEF Pass
<1>26. CASE UNCHANGED vars
  BY <1>26 DEF vars
<1> QED
  BY <1>1, <1>2, <1>3, <1>4, <1>5, <1>6, <1>7, <1>8, <1>9, <1>10, <1>11, <1>12, <1>13,
     <1>14, <1>15, <1>16, <1>17, <1>18, <1>19, <1>20, <1>21, <1>22, <1>23, <1>24, <1>25,
     <1>26, <1>27 DEF Next, Listen

-----------------------------------------------------------------------------
(***************************************************************************)
(* What the actions that write several sockets, or one they look up, leave *)
(* of each socket.                                                         *)
(***************************************************************************)

\* ReplaceBroken closes the newest socket of the peer, which was broken.
LEMMA ReplaceEffect ==
  ASSUME TypeOK, ReplaceBroken
  PROVE  LET n == Existing(worker.peer)
         IN /\ n \in Connections /\ sock[n].place = "open" /\ sock[n].broken
            /\ sock[n].peer = worker.peer
            /\ \A j \in Connections :
                 sock[j].place = "open" /\ sock[j].peer = worker.peer => j <= n
            /\ queued' = queued \ {n}
            /\ \A j \in Sockets :
                 /\ j # n => sock'[j] = sock[j]
                 /\ sock'[j].place = sock[j].place /\ sock'[j].peer = sock[j].peer
                 /\ sock'[j].connected = sock[j].connected
                 /\ sock'[j].broken = sock[j].broken
                 /\ sock'[j].onList = sock[j].onList
            /\ Undisturbed /\ worker.at = "request" /\ worker'.at \in {"idle", "create"}
            /\ worker'.at = "create" => worker'.peer = worker.peer
            /\ UNCHANGED <<listener, newEntry, served, mux, acceptor, app, held, gc>>
<1> DEFINE n == Existing(worker.peer)
<1>1. n \in OfPeer(worker.peer) /\ \A j \in OfPeer(worker.peer) : j <= n
  <2>1. OfPeer(worker.peer) \in SUBSET Sockets /\ OfPeer(worker.peer) # {}
    BY DEF ReplaceBroken, OfPeer, Sockets
  <2> QED BY <2>1, NewestIsThere DEF Existing
<1>2. /\ n \in Connections /\ sock[n].place = "open" /\ sock[n].peer = worker.peer
      /\ \A j \in Connections :
           sock[j].place = "open" /\ sock[j].peer = worker.peer => j <= n
  BY <1>1 DEF OfPeer
<1>3. /\ sock[n].broken /\ queued' = queued \ {n}
      /\ sock' = [sock EXCEPT ![n].status = "CLOSED", ![n].old = FALSE]
  BY DEF ReplaceBroken
<1>4. n \in Sockets /\ sock \in [Sockets -> Socket]
  BY <1>2 DEF TypeOK, Sockets
<1>6. /\ Undisturbed /\ worker.at = "request" /\ worker'.at \in {"idle", "create"}
      /\ worker'.at = "create" => worker'.peer = worker.peer
      /\ UNCHANGED <<listener, newEntry, served, mux, acceptor, app, held, gc>>
  BY DEF ReplaceBroken, Idle, TypeOK, Worker
<1> HIDE DEF n
<1>5. \A j \in Sockets :
        /\ j # n => sock'[j] = sock[j]
        /\ sock'[j].place = sock[j].place /\ sock'[j].peer = sock[j].peer
        /\ sock'[j].connected = sock[j].connected /\ sock'[j].broken = sock[j].broken
        /\ sock'[j].onList = sock[j].onList
  BY <1>3, <1>4 DEF Socket
<1> QED BY <1>2, <1>3, <1>5, <1>6 DEF n

\* CreateSocket takes the first number that was not used, and the worker holds it.
LEMMA CreateEffect ==
  ASSUME TypeOK, TableInv, CreateSocket
  PROVE  \E n \in Connections :
           /\ sock[n].place = "none" /\ \A j \in Connections : j < n => sock[j].place # "none"
           /\ newEntry' = Append(newEntry, n)
           /\ worker'.at = "enter" /\ worker'.id = n /\ worker'.peer = worker.peer
           /\ \A j \in Sockets : j # n => sock'[j] = sock[j]
           /\ sock'[n].place = "new" /\ sock'[n].peer = worker.peer /\ sock'[n].connected
           /\ ~ sock'[n].broken /\ sock'[n].onList
           /\ worker.at = "create" /\ ControlLockFree /\ mux' = Counted
           /\ UNCHANGED <<queued, listener, served, acceptor, app, held, gc>>
<1>1. PICK n \in In("none") :
        /\ \A j \in In("none") : n <= j
        /\ sock' = [sock EXCEPT ![n] = Fresh(worker.peer)]
        /\ newEntry' = Append(newEntry, n)
        /\ worker' = [worker EXCEPT !.at = "enter", !.id = n]
  BY DEF CreateSocket
<1>2. n \in Connections /\ sock[n].place = "none"
  BY DEF TableInv, In, Sockets
<1>3. \A j \in Connections : j < n => sock[j].place # "none"
  BY <1>1, <1>2, UdtSocketsAssumption DEF In, Sockets, Connections
<1>4. worker'.at = "enter" /\ worker'.id = n /\ worker'.peer = worker.peer
  BY <1>1 DEF TypeOK, Worker
<1>5. /\ \A j \in Sockets : j # n => sock'[j] = sock[j]
      /\ sock'[n] = Fresh(worker.peer)
  BY <1>1, <1>2 DEF TypeOK, Sockets
<1>6. LET f == Fresh(worker.peer)
      IN  f.place = "new" /\ f.peer = worker.peer /\ f.connected /\ ~ f.broken /\ f.onList
  BY DEF Fresh, Unused
<1>7. /\ worker.at = "create" /\ ControlLockFree /\ mux' = Counted
      /\ UNCHANGED <<queued, listener, served, acceptor, app, held, gc>>
  BY DEF CreateSocket
<1> QED BY <1>1, <1>2, <1>3, <1>4, <1>5, <1>6, <1>7

\* CloseSocket at most disconnects its socket.
LEMMA CloseEffect ==
  ASSUME TypeOK, NEW i \in Connections, CloseSocket(i)
  PROVE  /\ i \in held /\ held' = held \ {i} /\ app.at = "run"
         /\ app'.at = "run" \/ (app'.at = "move" /\ app'.id = i /\ ~ sock'[i].connected
                                 /\ sock[i].place = "open")
         /\ \A j \in Sockets :
              /\ j # i => sock'[j] = sock[j]
              /\ sock'[j].place = sock[j].place /\ sock'[j].peer = sock[j].peer
              /\ sock'[j].connected => sock[j].connected
              /\ sock'[j].broken = sock[j].broken /\ sock'[j].status = sock[j].status
              /\ sock'[j].onList = sock[j].onList /\ sock'[j].old = sock[j].old
         /\ UNCHANGED <<queued, listener, newEntry, served, mux, worker, acceptor, gc>>
<1>1. i \in Sockets /\ sock \in [Sockets -> Socket]
  BY DEF TypeOK, Sockets
<1>2. /\ i \in held /\ held' = held \ {i} /\ app.at = "run"
      /\ UNCHANGED <<queued, listener, newEntry, served, mux, worker, acceptor, gc>>
  BY DEF CloseSocket
<1>3. CASE ~ Located(i)
  <2>1. sock' = sock /\ app' = app
    BY <1>3 DEF CloseSocket
  <2> QED BY <1>2, <2>1
<1>4. CASE Located(i)
  <2>1. sock' = [sock EXCEPT ![i] = Closed(@)] /\ app' = [at |-> "move", id |-> i]
    BY <1>4 DEF CloseSocket
  <2>2. /\ ~ sock'[i].connected
        /\ \A j \in Sockets :
              /\ j # i => sock'[j] = sock[j]
              /\ sock'[j].place = sock[j].place /\ sock'[j].peer = sock[j].peer
              /\ sock'[j].connected => sock[j].connected
              /\ sock'[j].broken = sock[j].broken /\ sock'[j].status = sock[j].status
              /\ sock'[j].onList = sock[j].onList /\ sock'[j].old = sock[j].old
    BY <1>1, <2>1 DEF Closed, Socket
  <2> QED BY <1>2, <1>4, <2>1, <2>2 DEF Located
<1> QED BY <1>3, <1>4

\* FinalClose closes every open socket, and makes every closed one due for removal.
LEMMA FinalEffect ==
  ASSUME TypeOK, FinalClose
  PROVE  /\ \A j \in Sockets :
              /\ sock[j].place = "open" =>
                   sock'[j].place = "closed" /\ sock'[j].broken /\ ~ sock'[j].connected
              /\ sock[j].place # "open" =>
                   /\ sock'[j].place = sock[j].place
                   /\ sock'[j].connected = sock[j].connected
                   /\ sock'[j].broken = sock[j].broken
              /\ sock'[j].place = "closed" => sock'[j].old
              /\ sock'[j].peer = sock[j].peer /\ sock'[j].onList = sock[j].onList
         /\ gc.phase = "stop" /\ gc'.phase = "final" /\ gc'.joining = gc.joining
         /\ Undisturbed /\ (TightRaces \/ worker.at = "idle")
         /\ queued' = {i \in queued : sock[i].place # "open"}
         /\ listener' = (listener /\ sock[L].place # "open")
         /\ UNCHANGED <<newEntry, served, mux, worker, acceptor, app, held>>
<1>5. /\ gc.phase = "stop" /\ gc'.phase = "final" /\ gc'.joining = gc.joining
      /\ Undisturbed /\ (TightRaces \/ worker.at = "idle")
      /\ UNCHANGED <<newEntry, served, mux, worker, acceptor, app, held>>
  BY DEF FinalClose, TypeOK, Gc
<1>6. /\ queued' = {i \in queued : sock[i].place # "open"}
      /\ listener' = (listener /\ sock[L].place # "open")
  BY DEF FinalClose, In, TypeOK, Sockets
<1> SUFFICES ASSUME NEW j \in Sockets
             PROVE  /\ sock[j].place = "open" =>
                         sock'[j].place = "closed" /\ sock'[j].broken /\ ~ sock'[j].connected
                    /\ sock[j].place # "open" =>
                         /\ sock'[j].place = sock[j].place
                         /\ sock'[j].connected = sock[j].connected
                         /\ sock'[j].broken = sock[j].broken
                    /\ sock'[j].place = "closed" => sock'[j].old
                    /\ sock'[j].peer = sock[j].peer /\ sock'[j].onList = sock[j].onList
  BY <1>5, <1>6
<1>1. sock[j] \in Socket
  BY DEF TypeOK
<1>2. CASE sock[j].place = "open"
  <2>1. sock'[j] = [Closed(sock[j]) EXCEPT !.broken = TRUE, !.status = "CLOSED",
                                           !.place = "closed", !.old = TRUE]
    BY <1>2 DEF FinalClose, In
  <2> QED BY <1>1, <1>2, <2>1 DEF Closed, Socket
<1>3. CASE sock[j].place = "closed"
  <2>1. sock'[j] = [sock[j] EXCEPT !.old = TRUE]
    BY <1>3 DEF FinalClose, In
  <2> QED BY <1>1, <1>3, <2>1 DEF Socket
<1>4. CASE sock[j].place \notin {"open", "closed"}
  <2>1. sock'[j] = sock[j]
    BY <1>4 DEF FinalClose, In
  <2> QED BY <1>4, <2>1
<1> QED BY <1>2, <1>3, <1>4

\* Pass deletes what is due for removal, and closes what is due to be closed and, with the
\* listener, what is left in the queue.
LEMMA PassEffect ==
  ASSUME TypeOK, NEW kept \in SUBSET Connections, Pass(kept)
  PROVE  /\ \A j \in DueToRemove :
              /\ sock[j].place = "closed" /\ sock[j].old /\ ~ sock[j].onList
              /\ sock'[j].place = "deleted" /\ sock'[j].peer = None
              /\ ~ sock'[j].connected /\ ~ sock'[j].onList
         /\ \A j \in Sockets \ DueToRemove :
              /\ sock'[j].peer = sock[j].peer /\ sock'[j].onList = sock[j].onList
              /\ sock'[j].connected => sock[j].connected
              /\ \/ sock'[j] = sock[j] /\ (j \in queued => j \in queued')
                 \/ /\ sock'[j].place = "closed" /\ sock'[j].broken /\ ~ sock'[j].old
                    /\ \/ sock[j].place = "open" /\ sock[j].broken /\ (j = L => sock[j].old)
                       \/ L \in DueToRemove /\ j \in queued
                    /\ j \notin queued'
         /\ queued' \subseteq queued
         /\ L \in DueToRemove => queued' = {}
         /\ DueToRemove \subseteq Sockets
         /\ \A j \in Sockets : j \in DueToRemove <=>
              sock[j].place = "closed" /\ sock[j].old /\ ~ sock[j].onList
         /\ gc.phase \in {"run", "final"} /\ gc'.phase = gc.phase
         /\ ControlLockFree /\ Undisturbed
         /\ L \in DueToRemove => TightRaces \/ worker.at = "idle"
         /\ listener' = (listener /\ L \notin DueToRemove)
         /\ UNCHANGED <<newEntry, served, worker, acceptor, app, held>>
<1> DEFINE due == DueToClose(kept)
<1>1. sock' = Swept(due) /\ queued' = QueueAfter(due)
  BY DEF Pass
<1>2. /\ DueToRemove \subseteq Sockets
      /\ \A j \in Sockets : j \in DueToRemove <=>
           sock[j].place = "closed" /\ sock[j].old /\ ~ sock[j].onList
  BY DEF DueToRemove, In
<1>7. /\ gc.phase \in {"run", "final"} /\ gc'.phase = gc.phase
      /\ ControlLockFree /\ Undisturbed
      /\ L \in DueToRemove => TightRaces \/ worker.at = "idle"
      /\ listener' = (listener /\ L \notin DueToRemove)
      /\ UNCHANGED <<newEntry, served, worker, acceptor, app, held>>
  BY DEF Pass, TypeOK, Gc
<1>3. \A j \in due : sock[j].place = "open" /\ sock[j].broken /\ (j = L => sock[j].old)
  BY DEF DueToClose, In
<1>4. queued' \subseteq queued /\ (L \in DueToRemove => queued' = {})
  BY <1>1 DEF QueueAfter
<1> HIDE DEF due
<1>5. \A j \in DueToRemove : /\ sock'[j].place = "deleted" /\ sock'[j].peer = None
                             /\ ~ sock'[j].connected /\ ~ sock'[j].onList
  BY <1>1, <1>2 DEF Swept, Deleted, Unused
<1>6. ASSUME NEW j \in Sockets \ DueToRemove
      PROVE  /\ sock'[j].peer = sock[j].peer /\ sock'[j].onList = sock[j].onList
             /\ sock'[j].connected => sock[j].connected
             /\ \/ sock'[j] = sock[j] /\ (j \in queued => j \in queued')
                \/ /\ sock'[j].place = "closed" /\ sock'[j].broken /\ ~ sock'[j].old
                   /\ \/ sock[j].place = "open" /\ sock[j].broken /\ (j = L => sock[j].old)
                      \/ L \in DueToRemove /\ j \in queued
                   /\ j \notin queued'
  <2>1. sock[j] \in Socket
    BY DEF TypeOK
  <2>2. CASE j \in NotAccepted(due)
    <3>1. sock'[j] = [Closed(sock[j]) EXCEPT !.broken = TRUE, !.status = "CLOSED",
                                             !.place = "closed", !.old = FALSE]
      BY <1>1, <1>6, <2>2 DEF Swept
    <3>2. L \in DueToRemove /\ j \in queued
      BY <2>2 DEF NotAccepted
    <3> QED BY <1>4, <2>1, <3>1, <3>2 DEF Closed, Socket
  <2>3. CASE j \notin NotAccepted(due) /\ j \in due
    <3>1. sock'[j] = [sock[j] EXCEPT !.status = "CLOSED", !.place = "closed", !.old = FALSE]
      BY <1>1, <1>6, <2>3 DEF Swept
    <3>2. j \notin queued'
      BY <1>1, <2>3 DEF QueueAfter
    <3> QED BY <1>3, <2>1, <2>3, <3>1, <3>2 DEF Socket
  <2>4. CASE j \notin NotAccepted(due) /\ j \notin due
    <3>1. sock'[j] = sock[j]
      BY <1>1, <1>6, <2>4 DEF Swept
    <3> QED BY <1>1, <2>4, <3>1 DEF NotAccepted, QueueAfter
  <2> QED BY <2>2, <2>3, <2>4
<1> QED BY <1>2, <1>4, <1>5, <1>6, <1>7

\* accept() takes the newest connection of the queue, or none.
LEMMA TurnEffect ==
  ASSUME TypeOK, AcceptTurn
  PROVE  /\ acceptor.at = "check"
         /\ \/ /\ acceptor'.at = "failed"
               /\ sock[L].broken \/ sock[L].status # "LISTENING"
            \/ /\ acceptor'.at = "picked" /\ acceptor'.id \in queued
               /\ queued' = queued \ {acceptor'.id}
            \/ acceptor'.at = "wait" /\ ~ sock[L].broken /\ sock[L].status = "LISTENING"
         /\ acceptor'.at \in {"failed", "picked", "wait"}
         /\ acceptor'.at # "picked" => queued' = queued
         /\ UNCHANGED <<sock, listener, newEntry, served, mux, worker, app, held, gc>>
<1>1. queued # {} => Max(queued) \in queued
  <2>1. queued \in SUBSET Sockets
    BY DEF TypeOK, Sockets
  <2> QED BY <2>1, NewestIsThere
<1>2. CASE ListenerDown
  BY <1>2 DEF AcceptTurn, ListenerDown
<1>3. CASE ~ ListenerDown /\ queued # {}
  BY <1>1, <1>3 DEF AcceptTurn
<1>4. CASE ~ ListenerDown /\ queued = {}
  BY <1>4 DEF AcceptTurn, ListenerDown, TypeOK, Acceptor
<1> QED BY <1>2, <1>3, <1>4


\* Numbers are handed out in order, and only the worker makes a socket.
LEMMA NextTable ==
  ASSUME TypeOK, TableInv, HandInv, [Next]_vars
  PROVE  TableInv'
<1>0. L \in Sockets /\ Connections \subseteq Sockets /\ L \notin Connections
  BY UdtSocketsAssumption DEF Sockets, Connections, L
<1> USE <1>0 DEF TypeOK, TableInv, Worker, Acceptor, App, Located
<1>1. CASE Refuse
  BY <1>1 DEF Refuse, Idle
<1>2. CASE AnswerAgain
  BY <1>2 DEF AnswerAgain, Idle
<1>3. CASE ReplaceBroken
  <2>1. \A j \in Sockets : sock'[j].place = sock[j].place /\ sock'[j].peer = sock[j].peer
    BY <1>3, ReplaceEffect
  <2>2. /\ worker.at = "request" /\ worker'.at \in {"idle", "create"}
        /\ worker'.at = "create" => worker'.peer = worker.peer
        /\ UNCHANGED <<acceptor, app>>
    BY <1>3, ReplaceEffect
  <2> QED BY <2>1, <2>2
<1>4. CASE AcceptRequest
  BY <1>4 DEF AcceptRequest
<1>5. CASE CreateSocket
  <2>1. PICK n \in Connections :
          /\ sock[n].place = "none" /\ \A j \in Connections : j < n => sock[j].place # "none"
          /\ worker'.at = "enter" /\ worker'.id = n /\ worker'.peer = worker.peer
          /\ \A j \in Sockets : j # n => sock'[j] = sock[j]
          /\ sock'[n].place = "new"
    BY <1>5, CreateEffect
  <2>2. worker.at = "create" /\ acceptor' = acceptor /\ app' = app
    BY <1>5, CreateEffect
  <2>3. \A j \in Connections : sock'[j].place = "none" => sock[j].place = "none" /\ j # n
    BY <2>1
  <2>4. \A i, j \in Connections :
          i < j /\ sock'[i].place = "none" => sock'[j].place = "none"
    <3> SUFFICES ASSUME NEW i \in Connections, NEW j \in Connections,
                        i < j, sock'[i].place = "none"
                 PROVE  sock'[j].place = "none"
      OBVIOUS
    <3>1. sock[i].place = "none" /\ i # n
      BY <2>3
    <3>2. j # n
      BY <2>1, <3>1, UdtSocketsAssumption DEF Connections
    <3>3. sock[j].place = "none"
      BY <3>1
    <3> QED BY <2>1, <3>2, <3>3
  <2>5. \A j \in Connections : sock'[j].place = "none" => sock'[j].peer = None
    BY <2>1, <2>3
  <2>6. \A j \in Sockets :
          sock'[j].place = "new" <=> worker'.at = "enter" /\ worker'.id = j
    BY <2>1, <2>2
  <2> QED BY <2>1, <2>2, <2>4, <2>5, <2>6
<1>27. CASE CreateFails
  BY <1>27 DEF CreateFails, Idle
<1>6. CASE EnterSocket
  BY <1>6 DEF EnterSocket
<1>7. CASE QueueSocket
  BY <1>7 DEF QueueSocket, Woken, Idle
<1>8. CASE TakeEntry
  BY <1>8 DEF TakeEntry
<1>9. CASE AcceptCall
  BY <1>9 DEF AcceptCall
<1>10. CASE AcceptTurn
  BY <1>10, TurnEffect
<1>11. CASE AcceptReturn
  BY <1>11 DEF AcceptReturn
<1>12. CASE CloseListener
  BY <1>12 DEF CloseListener
<1>13. CASE CloseWakes
  BY <1>13 DEF CloseWakes, Woken
<1>14. CASE CloseMoves
  BY <1>14 DEF CloseMoves
<1>15. CASE CleanupCall
  BY <1>15 DEF CleanupCall
<1>16. CASE CleanupReturn
  BY <1>16 DEF CleanupReturn
<1>17. CASE WorkerEnds
  BY <1>17 DEF WorkerEnds
<1>18. CASE FinalClose
  BY <1>18, FinalEffect
<1>19. CASE FinalEmpty
  BY <1>19 DEF FinalEmpty
<1>20. ASSUME NEW c \in Clients, TakeRequest(c) PROVE TableInv'
  BY <1>20 DEF TakeRequest
<1>21. ASSUME NEW i \in Connections, Break(i) PROVE TableInv'
  BY <1>21 DEF Break
<1>22. ASSUME NEW i \in Connections, DropDead(i) PROVE TableInv'
  BY <1>22 DEF DropDead
<1>23. ASSUME NEW i \in Connections, CloseSocket(i) PROVE TableInv'
  BY <1>23, CloseEffect
<1>24. ASSUME NEW i \in Sockets, Ages(i) PROVE TableInv'
  BY <1>24 DEF Ages
<1>25. ASSUME NEW kept \in SUBSET Connections, Pass(kept) PROVE TableInv'
  <2>1. sock'[L].place \in {"open", "closed", "deleted"}
    BY <1>25, PassEffect
  <2>2. \A i \in queued : sock[i].place \notin {"none", "new"}
    BY DEF HandInv
  <2>3. \A i \in Sockets : /\ sock'[i].place = "new" <=> sock[i].place = "new"
                           /\ sock'[i].place = "none" <=> sock[i].place = "none"
    BY <1>25, PassEffect, <2>2
  <2> QED BY <1>25, PassEffect, <2>1, <2>3
<1>26. CASE UNCHANGED vars
  BY <1>26 DEF vars
<1> QED
  BY <1>1, <1>2, <1>3, <1>4, <1>5, <1>6, <1>7, <1>8, <1>9, <1>10, <1>11, <1>12,
     <1>13, <1>14, <1>15, <1>16, <1>17, <1>18, <1>19, <1>20, <1>21, <1>22, <1>23, <1>24,
     <1>25, <1>26, <1>27 DEF Next, Listen

\* A socket is entered once, and stays as long as the worker serves it.
LEMMA NextEntries ==
  ASSUME TypeOK, TableInv, EntryInv, [Next]_vars
  PROVE  EntryInv'
<1>0. L \in Sockets /\ Connections \subseteq Sockets /\ L \notin Connections
  BY UdtSocketsAssumption DEF Sockets, Connections, L
<1> USE <1>0 DEF TypeOK, TableInv, EntryInv, Worker, Range
<1>1. CASE Refuse
  BY <1>1 DEF Refuse, Idle
<1>2. CASE AnswerAgain
  BY <1>2 DEF AnswerAgain, Idle
<1>3. CASE ReplaceBroken
  BY <1>3, ReplaceEffect
<1>4. CASE AcceptRequest
  BY <1>4 DEF AcceptRequest
<1>5. CASE CreateSocket
  <2>1. PICK n \in Connections :
          /\ sock[n].place = "none" /\ newEntry' = Append(newEntry, n)
          /\ \A j \in Sockets : j # n => sock'[j] = sock[j]
          /\ sock'[n].place = "new" /\ sock'[n].onList /\ served' = served
    BY <1>5, CreateEffect
  <2>2. n \notin served \cup Range(newEntry)
    BY <2>1
  <2>3. /\ DOMAIN newEntry' = 1..Len(newEntry) + 1 /\ DOMAIN newEntry = 1..Len(newEntry)
        /\ Len(newEntry) \in Nat /\ newEntry'[Len(newEntry) + 1] = n
        /\ \A m \in 1..Len(newEntry) : newEntry'[m] = newEntry[m] /\ newEntry[m] # n
    BY <2>1, <2>2, AppendProperties, LenProperties
  <2>4. Range(newEntry') = Range(newEntry) \cup {n}
    BY <2>3
  <2>5. \A m, k \in DOMAIN newEntry' : newEntry'[m] = newEntry'[k] => m = k
    BY <2>3
  <2>6. Range(newEntry) \subseteq Connections
    BY RangeOfSeq
  <2> HIDE DEF Range, TableInv
  <2> QED BY <2>1, <2>2, <2>4, <2>5, <2>6
<1>27. CASE CreateFails
  BY <1>27 DEF CreateFails, Idle
<1>6. CASE EnterSocket
  BY <1>6 DEF EnterSocket
<1>7. CASE QueueSocket
  BY <1>7 DEF QueueSocket, Woken, Idle
<1>8. CASE TakeEntry
  BY <1>8 DEF TakeEntry
<1>9. CASE AcceptCall
  BY <1>9 DEF AcceptCall
<1>10. CASE AcceptTurn
  BY <1>10, TurnEffect
<1>11. CASE AcceptReturn
  BY <1>11 DEF AcceptReturn
<1>12. CASE CloseListener
  BY <1>12 DEF CloseListener
<1>13. CASE CloseWakes
  BY <1>13 DEF CloseWakes, Woken
<1>14. CASE CloseMoves
  BY <1>14 DEF CloseMoves
<1>15. CASE CleanupCall
  BY <1>15 DEF CleanupCall
<1>16. CASE CleanupReturn
  BY <1>16 DEF CleanupReturn
<1>17. CASE WorkerEnds
  BY <1>17 DEF WorkerEnds
<1>18. CASE FinalClose
  BY <1>18, FinalEffect
<1>19. CASE FinalEmpty
  BY <1>19 DEF FinalEmpty
<1>20. ASSUME NEW c \in Clients, TakeRequest(c) PROVE EntryInv'
  BY <1>20 DEF TakeRequest
<1>21. ASSUME NEW i \in Connections, Break(i) PROVE EntryInv'
  BY <1>21 DEF Break
<1>22. ASSUME NEW i \in Connections, DropDead(i) PROVE EntryInv'
  BY <1>22 DEF DropDead
<1>23. ASSUME NEW i \in Connections, CloseSocket(i) PROVE EntryInv'
  BY <1>23, CloseEffect
<1>24. ASSUME NEW i \in Sockets, Ages(i) PROVE EntryInv'
  BY <1>24 DEF Ages
<1>25. ASSUME NEW kept \in SUBSET Connections, Pass(kept) PROVE EntryInv'
  BY <1>25, PassEffect
<1>26. CASE UNCHANGED vars
  BY <1>26 DEF vars
<1> QED
  BY <1>1, <1>2, <1>3, <1>4, <1>5, <1>6, <1>7, <1>8, <1>9, <1>10, <1>11, <1>12,
     <1>13, <1>14, <1>15, <1>16, <1>17, <1>18, <1>19, <1>20, <1>21, <1>22, <1>23, <1>24,
     <1>25, <1>26, <1>27 DEF Next, Listen

\* Aliveness starts with CreateSocket, when no socket of the peer is alive, and ends once.
LEMMA NextAlive ==
  ASSUME TypeOK, TableInv, AliveInv, HandInv, [Next]_vars
  PROVE  AliveInv'
<1>0. L \in Sockets /\ Connections \subseteq Sockets /\ L \notin Connections
  BY UdtSocketsAssumption DEF Sockets, Connections, L
<1> USE <1>0 DEF TypeOK, TableInv, AliveInv, Worker, App, Alive, Located
<1>1. CASE Refuse
  BY <1>1 DEF Refuse, Idle
<1>2. CASE AnswerAgain
  BY <1>2 DEF AnswerAgain, Idle
<1>3. CASE ReplaceBroken
  <2>1. PICK n \in Connections :
          /\ sock[n].broken /\ sock[n].peer = worker.peer
          /\ \A j \in Connections :
               sock[j].place = "open" /\ sock[j].peer = worker.peer => j <= n
    BY <1>3, ReplaceEffect
  <2>2. \A j \in Connections : Alive(j) => sock[j].peer # worker.peer
    <3> SUFFICES ASSUME NEW j \in Connections, Alive(j), sock[j].peer = worker.peer
                 PROVE  FALSE
      OBVIOUS
    <3>1. worker.at = "request"
      BY <1>3, ReplaceEffect
    <3>2. sock[j].place = "open"
      BY <3>1
    <3>3. j # n /\ j <= n
      BY <2>1, <3>2
    <3> QED BY <2>1, <3>3 DEF Connections
  <2>3. /\ \A j \in Sockets : Alive(j)' <=> Alive(j)
        /\ \A j \in Sockets : sock'[j].peer = sock[j].peer /\ sock'[j].place = sock[j].place
    BY <1>3, ReplaceEffect
  <2>4. app' = app /\ \A j \in Sockets : sock'[j].connected = sock[j].connected
    BY <1>3, ReplaceEffect
  <2>5. worker'.at = "create" => worker'.peer = worker.peer
    BY <1>3, ReplaceEffect
  <2> HIDE DEF Alive, TableInv
  <2> QED BY <2>2, <2>3, <2>4, <2>5
<1>4. CASE AcceptRequest
  <2>1. \A j \in Connections : Alive(j) => sock[j].peer # worker.peer
    BY <1>4 DEF AcceptRequest, OfPeer
  <2> QED BY <1>4, <2>1 DEF AcceptRequest
<1>5. CASE CreateSocket
  <2>1. PICK n \in Connections :
          /\ sock[n].place = "none" /\ \A j \in Connections : j < n => sock[j].place # "none"
          /\ \A j \in Sockets : j # n => sock'[j] = sock[j]
          /\ sock'[n].place = "new" /\ sock'[n].peer = worker.peer
          /\ worker.at = "create" /\ worker'.at = "enter" /\ app' = app
    BY <1>5, CreateEffect
  <2>2. \A j \in Connections : Alive(j) => j < n
    BY <2>1 DEF Connections
  <2>3. \A j \in Connections : Alive(j) => sock[j].peer # worker.peer
    BY <2>1
  <2>4. \A i, j \in Connections : i < j /\ Alive(i)' => sock'[j].peer # sock'[i].peer
    <3> SUFFICES ASSUME NEW i \in Connections, NEW j \in Connections, i < j, Alive(i)'
                 PROVE  sock'[j].peer # sock'[i].peer
      OBVIOUS
    <3>1. CASE i = n
      <4>1. sock[j].place = "none" /\ sock'[j] = sock[j]
        <5>1. j # n
          BY <3>1, UdtSocketsAssumption DEF Connections
        <5> HIDE DEF AliveInv, Alive, TypeOK
        <5> QED BY <2>1, <3>1, <5>1
      <4>2. sock[j].peer = None /\ worker.peer \in Clients
        BY <2>1, <4>1
      <4> QED BY <2>1, <3>1, <4>1, <4>2, UdtSocketsAssumption
    <3>2. CASE i # n
      BY <2>1, <2>3, <3>2
    <3> QED BY <3>1, <3>2
  <2>5. app.at = "move" => app.id # n
    BY <2>1 DEF HandInv
  <2> QED BY <2>1, <2>4, <2>5
<1>27. CASE CreateFails
  BY <1>27 DEF CreateFails, Idle
<1>6. CASE EnterSocket
  BY <1>6 DEF EnterSocket
<1>7. CASE QueueSocket
  BY <1>7 DEF QueueSocket, Woken, Idle
<1>8. CASE TakeEntry
  BY <1>8 DEF TakeEntry
<1>9. CASE AcceptCall
  BY <1>9 DEF AcceptCall
<1>10. CASE AcceptTurn
  BY <1>10, TurnEffect
<1>11. CASE AcceptReturn
  BY <1>11 DEF AcceptReturn
<1>12. CASE CloseListener
  BY <1>12 DEF CloseListener
<1>13. CASE CloseWakes
  BY <1>13 DEF CloseWakes, Woken
<1>14. CASE CloseMoves
  <2>1. \A j \in Sockets :
          /\ Alive(j)' => Alive(j) /\ sock'[j].place = sock[j].place
          /\ sock'[j].peer = sock[j].peer
    BY <1>14 DEF CloseMoves
  <2>2. worker' = worker /\ app'.at = "run"
    BY <1>14 DEF CloseMoves
  <2> HIDE DEF Alive, TableInv
  <2> QED BY <2>1, <2>2
<1>15. CASE CleanupCall
  BY <1>15 DEF CleanupCall
<1>16. CASE CleanupReturn
  BY <1>16 DEF CleanupReturn
<1>17. CASE WorkerEnds
  BY <1>17 DEF WorkerEnds
<1>18. CASE FinalClose
  BY <1>18, FinalEffect
<1>19. CASE FinalEmpty
  BY <1>19 DEF FinalEmpty
<1>20. ASSUME NEW c \in Clients, TakeRequest(c) PROVE AliveInv'
  BY <1>20 DEF TakeRequest
<1>21. ASSUME NEW i \in Connections, Break(i) PROVE AliveInv'
  BY <1>21 DEF Break
<1>22. ASSUME NEW i \in Connections, DropDead(i) PROVE AliveInv'
  BY <1>22 DEF DropDead
<1>23. ASSUME NEW i \in Connections, CloseSocket(i) PROVE AliveInv'
  <2>1. /\ \A j \in Sockets : Alive(j)' => Alive(j)
        /\ \A j \in Sockets : sock'[j].peer = sock[j].peer /\ sock'[j].place = sock[j].place
        /\ worker' = worker
    BY <1>23, CloseEffect
  <2>2. app'.at = "move" => ~ sock'[app'.id].connected
    BY <1>23, CloseEffect
  <2> HIDE DEF Alive, TableInv
  <2> QED BY <2>1, <2>2
<1>24. ASSUME NEW i \in Sockets, Ages(i) PROVE AliveInv'
  BY <1>24 DEF Ages
<1>25. ASSUME NEW kept \in SUBSET Connections, Pass(kept) PROVE AliveInv'
  <2>1. \A j \in Sockets : Alive(j)' => Alive(j) /\ sock'[j] = sock[j]
    BY <1>25, PassEffect
  <2>2. \A j \in Sockets : sock'[j].peer \in {sock[j].peer, None}
    BY <1>25, PassEffect
  <2>3. \A i, j \in Connections : i < j /\ Alive(i)' => sock'[j].peer # sock'[i].peer
    BY <2>1, <2>2, UdtSocketsAssumption
  <2>4. /\ app' = app /\ worker' = worker
        /\ \A j \in Sockets : sock'[j].connected => sock[j].connected
    BY <1>25, PassEffect
  <2> QED BY <2>1, <2>3, <2>4
<1>26. CASE UNCHANGED vars
  BY <1>26 DEF vars
<1> QED
  BY <1>1, <1>2, <1>3, <1>4, <1>5, <1>6, <1>7, <1>8, <1>9, <1>10, <1>11, <1>12,
     <1>13, <1>14, <1>15, <1>16, <1>17, <1>18, <1>19, <1>20, <1>21, <1>22, <1>23, <1>24,
     <1>25, <1>26, <1>27 DEF Next, Listen

\* A connection goes from hand to hand, and is in one of them.
LEMMA NextHands ==
  ASSUME TypeOK, TableInv, HandInv, [Next]_vars
  PROVE  HandInv'
<1>0. L \in Sockets /\ Connections \subseteq Sockets /\ L \notin Connections
  BY UdtSocketsAssumption DEF Sockets, Connections, L
<1> USE <1>0 DEF TypeOK, TableInv, HandInv, Worker, App, Acceptor, Alive, Located
<1>1. CASE Refuse
  BY <1>1 DEF Refuse, Idle
<1>2. CASE AnswerAgain
  BY <1>2 DEF AnswerAgain, Idle
<1>3. CASE ReplaceBroken
  BY <1>3, ReplaceEffect
<1>4. CASE AcceptRequest
  BY <1>4 DEF AcceptRequest
<1>5. CASE CreateSocket
  <2>1. PICK n \in Connections :
          /\ sock[n].place = "none" /\ worker'.at = "enter" /\ worker'.id = n
          /\ \A j \in Sockets : j # n => sock'[j] = sock[j]
          /\ sock'[n].place = "new" /\ ~ sock'[n].broken
    BY <1>5, CreateEffect
  <2>2. UNCHANGED <<queued, acceptor, app, held>>
    BY <1>5, CreateEffect
  <2>3. /\ n \notin queued \cup held
        /\ acceptor.at = "picked" => acceptor.id # n
        /\ app.at = "move" => app.id # n
    BY <2>1
  <2>4. /\ acceptor.at = "picked" => acceptor.id \in Sockets
        /\ app.at = "move" => app.id \in Sockets
    OBVIOUS
  <2> QED BY <2>1, <2>2, <2>3, <2>4
<1>27. CASE CreateFails
  BY <1>27 DEF CreateFails, Idle
<1>6. CASE EnterSocket
  BY <1>6 DEF EnterSocket
<1>7. CASE QueueSocket
  BY <1>7 DEF QueueSocket, Woken, Idle
<1>8. CASE TakeEntry
  BY <1>8 DEF TakeEntry
<1>9. CASE AcceptCall
  BY <1>9 DEF AcceptCall
<1>10. CASE AcceptTurn
  BY <1>10, TurnEffect
<1>11. CASE AcceptReturn
  BY <1>11 DEF AcceptReturn
<1>12. CASE CloseListener
  BY <1>12 DEF CloseListener
<1>13. CASE CloseWakes
  BY <1>13 DEF CloseWakes, Woken
<1>14. CASE CloseMoves
  BY <1>14 DEF CloseMoves
<1>15. CASE CleanupCall
  BY <1>15 DEF CleanupCall
<1>16. CASE CleanupReturn
  BY <1>16 DEF CleanupReturn
<1>17. CASE WorkerEnds
  BY <1>17 DEF WorkerEnds
<1>18. CASE FinalClose
  <2>1. \A j \in Sockets :
          /\ sock'[j].place \in {"none", "new"} => sock'[j].place = sock[j].place
          /\ sock'[j].place \in {"new", "open"} =>
               sock[j].place = "new" /\ sock'[j].broken = sock[j].broken
    BY <1>18, FinalEffect
  <2>2. queued' \subseteq queued /\ UNCHANGED <<worker, acceptor, app, held>>
    BY <1>18, FinalEffect
  <2>3. worker.id \in Sockets /\ acceptor.id \in Sockets /\ app.id \in Sockets
    OBVIOUS
  <2> QED BY <2>1, <2>2, <2>3
<1>19. CASE FinalEmpty
  BY <1>19 DEF FinalEmpty
<1>20. ASSUME NEW c \in Clients, TakeRequest(c) PROVE HandInv'
  BY <1>20 DEF TakeRequest
<1>21. ASSUME NEW i \in Connections, Break(i) PROVE HandInv'
  BY <1>21 DEF Break
<1>22. ASSUME NEW i \in Connections, DropDead(i) PROVE HandInv'
  BY <1>22 DEF DropDead
<1>23. ASSUME NEW i \in Connections, CloseSocket(i) PROVE HandInv'
  BY <1>23, CloseEffect
<1>24. ASSUME NEW i \in Sockets, Ages(i) PROVE HandInv'
  BY <1>24 DEF Ages
<1>25. ASSUME NEW kept \in SUBSET Connections, Pass(kept) PROVE HandInv'
  <2>1. \A j \in Sockets :
          /\ sock'[j].place \in {"none", "new"} => sock'[j].place = sock[j].place
          /\ sock'[j].place \in {"new", "open"} => sock'[j] = sock[j]
    BY <1>25, PassEffect
  <2>2. queued' \subseteq queued /\ UNCHANGED <<worker, acceptor, app, held>>
    BY <1>25, PassEffect
  <2>3. worker.id \in Sockets /\ acceptor.id \in Sockets /\ app.id \in Sockets
    OBVIOUS
  <2> QED BY <2>1, <2>2, <2>3
<1>26. CASE UNCHANGED vars
  BY <1>26 DEF vars
<1> QED
  BY <1>1, <1>2, <1>3, <1>4, <1>5, <1>6, <1>7, <1>8, <1>9, <1>10, <1>11, <1>12,
     <1>13, <1>14, <1>15, <1>16, <1>17, <1>18, <1>19, <1>20, <1>21, <1>22, <1>23, <1>24,
     <1>25, <1>26, <1>27 DEF Next, Listen

\* The queue of an open or closed listener holds connections that were not removed.
LEMMA NextQueue ==
  ASSUME TypeOK, TableInv, HandInv, QueueInv, [Next]_vars
  PROVE  QueueInv'
<1>0. L \in Sockets /\ Connections \subseteq Sockets /\ L \notin Connections
  BY UdtSocketsAssumption DEF Sockets, Connections, L
<1> USE <1>0 DEF TypeOK, TableInv, HandInv, QueueInv, Worker, App, Gc, Located
<1>1. CASE Refuse
  BY <1>1 DEF Refuse, Idle
<1>2. CASE AnswerAgain
  BY <1>2 DEF AnswerAgain, Idle
<1>3. CASE ReplaceBroken
  BY <1>3, ReplaceEffect
<1>4. CASE AcceptRequest
  BY <1>4 DEF AcceptRequest
<1>5. CASE CreateSocket
  BY <1>5, CreateEffect
<1>27. CASE CreateFails
  BY <1>27 DEF CreateFails, Idle
<1>6. CASE EnterSocket
  BY <1>6 DEF EnterSocket
<1>7. CASE QueueSocket
  BY <1>7 DEF QueueSocket, Woken, Idle
<1>8. CASE TakeEntry
  BY <1>8 DEF TakeEntry
<1>9. CASE AcceptCall
  BY <1>9 DEF AcceptCall
<1>10. CASE AcceptTurn
  BY <1>10, TurnEffect
<1>11. CASE AcceptReturn
  BY <1>11 DEF AcceptReturn
<1>12. CASE CloseListener
  BY <1>12 DEF CloseListener
<1>13. CASE CloseWakes
  BY <1>13 DEF CloseWakes, Woken
<1>14. CASE CloseMoves
  BY <1>14 DEF CloseMoves
<1>15. CASE CleanupCall
  BY <1>15 DEF CleanupCall
<1>16. CASE CleanupReturn
  BY <1>16 DEF CleanupReturn
<1>17. CASE WorkerEnds
  BY <1>17 DEF WorkerEnds
<1>18. CASE FinalClose
  BY <1>18, FinalEffect
<1>19. CASE FinalEmpty
  BY <1>19 DEF FinalEmpty
<1>20. ASSUME NEW c \in Clients, TakeRequest(c) PROVE QueueInv'
  BY <1>20 DEF TakeRequest
<1>21. ASSUME NEW i \in Connections, Break(i) PROVE QueueInv'
  BY <1>21 DEF Break
<1>22. ASSUME NEW i \in Connections, DropDead(i) PROVE QueueInv'
  BY <1>22 DEF DropDead
<1>23. ASSUME NEW i \in Connections, CloseSocket(i) PROVE QueueInv'
  BY <1>23, CloseEffect
<1>24. ASSUME NEW i \in Sockets, Ages(i) PROVE QueueInv'
  BY <1>24 DEF Ages
<1>25. ASSUME NEW kept \in SUBSET Connections, Pass(kept) PROVE QueueInv'
  BY <1>25, PassEffect
<1>26. CASE UNCHANGED vars
  BY <1>26 DEF vars
<1> QED
  BY <1>1, <1>2, <1>3, <1>4, <1>5, <1>6, <1>7, <1>8, <1>9, <1>10, <1>11, <1>12,
     <1>13, <1>14, <1>15, <1>16, <1>17, <1>18, <1>19, <1>20, <1>21, <1>22, <1>23, <1>24,
     <1>25, <1>26, <1>27 DEF Next, Listen

-----------------------------------------------------------------------------
\* What most actions do not change of who uses the multiplexer.
KeepsUsers ==
  /\ mux' = mux /\ gc'.joining = gc.joining
  /\ worker.at = "idle" => worker'.at = "idle"
  /\ \A j \in Sockets : j \in InUse' <=> j \in InUse
  /\ listener' => listener
  /\ sock[L].place \in {"open", "closed"} => sock'[L].place \in {"open", "closed"}

\* With the same users, the multiplexer stays as right as it was.
LEMMA SameUsers == ASSUME MuxInv, KeepsUsers PROVE MuxInv'
<1>1. InUse' = InUse
  BY DEF KeepsUsers, InUse
<1>2. RefCountExact'
  <2>1. RefCountExact <=> /\ mux.refs = Cardinality(InUse) + mux.leaked
                          /\ mux.state = "up" <=> mux.refs > 0
    BY DEF RefCountExact, InUse
  <2>2. RefCountExact' <=> /\ mux'.refs = Cardinality(InUse') + mux'.leaked
                           /\ mux'.state = "up" <=> mux'.refs > 0
    BY DEF RefCountExact, InUse
  <2> QED BY <1>1, <2>1, <2>2 DEF MuxInv, KeepsUsers
<1> QED BY <1>2 DEF MuxInv, KeepsUsers


\* The multiplexer is closed with its last socket, and not before.
LEMMA NextMux ==
  ASSUME TypeOK, TableInv, MuxInv, HandInv, QueueInv, [Next]_vars
  PROVE  MuxInv'
<1>0. L \in Sockets /\ Connections \subseteq Sockets /\ L \notin Connections
  BY UdtSocketsAssumption DEF Sockets, Connections, L
<1> USE <1>0 DEF TypeOK, TableInv, Worker, Gc, App, Located, InUse, Mux
<1>1. CASE Refuse
  BY <1>1, SameUsers DEF Refuse, Idle, KeepsUsers
<1>2. CASE AnswerAgain
  BY <1>2, SameUsers DEF AnswerAgain, Idle, KeepsUsers
<1>3. CASE ReplaceBroken
  BY <1>3, ReplaceEffect, SameUsers DEF KeepsUsers
<1>4. CASE AcceptRequest
  BY <1>4, SameUsers DEF AcceptRequest, KeepsUsers
<1>5. CASE CreateSocket
  <2>1. PICK n \in Connections :
          /\ sock[n].place = "none" /\ sock'[n].place = "new"
          /\ \A j \in Sockets : j # n => sock'[j] = sock[j]
    BY <1>5, CreateEffect
  <2>2. worker.at = "create" /\ ~ gc.joining /\ UNCHANGED <<listener, gc>>
    BY <1>5, CreateEffect DEF ControlLockFree
  <2>3. mux.state = "up"
    BY <2>2 DEF MuxInv
  <2>4. mux'.refs = mux.refs + 1 /\ mux'.state = mux.state /\ mux'.leaked = mux.leaked
    BY <1>5, CreateEffect DEF Counted
  <2>5. Cardinality(InUse') = Cardinality(InUse) + 1
    <3>1. InUse' = InUse \cup {n} /\ n \notin InUse /\ IsFiniteSet(InUse)
      BY <2>1, FinitelyMany
    <3> HIDE DEF InUse
    <3> QED BY <3>1, FS_AddElement
  <2>6. mux.refs = Cardinality(InUse) + mux.leaked /\ mux.refs > 0
    BY <2>3 DEF MuxInv, RefCountExact
  <2>7. RefCountExact'
    <3>1. \A r, c, k \in Int : r = c + k => r + 1 = c + 1 + k
      OBVIOUS
    <3>2. Cardinality(InUse) \in Int /\ mux.refs \in Int /\ mux.leaked \in Int
      BY FinitelyMany
    <3> HIDE DEF InUse
    <3>3. mux'.refs = Cardinality(InUse') + mux'.leaked
      BY ONLY <2>4, <2>5, <2>6, <3>1, <3>2
    <3>4. mux'.state = "up" <=> mux'.refs > 0
      BY ONLY <2>3, <2>4, <2>6, <3>2
    <3> QED BY <3>3, <3>4 DEF RefCountExact, InUse
  <2> QED BY <2>1, <2>2, <2>3, <2>4, <2>7 DEF MuxInv
<1>27. CASE CreateFails
  <2>1. /\ worker.at = "create" /\ ~ gc.joining /\ worker'.at = "idle"
        /\ UNCHANGED <<sock, listener, gc>>
    BY <1>27 DEF CreateFails, ControlLockFree, Idle
  <2>2. InUse' = InUse
    BY <2>1
  <2>3. mux.state = "up" /\ mux.refs > 0 /\ mux.refs = Cardinality(InUse) + mux.leaked
    BY <2>1 DEF MuxInv, RefCountExact
  <2>4. \/ mux' = mux
        \/ /\ mux'.refs = mux.refs + 1 /\ mux'.leaked = mux.leaked + 1
           /\ mux'.state = mux.state
    BY <1>27 DEF CreateFails, Counted
  <2>5. Cardinality(InUse) \in Nat
    BY FinitelyMany
  <2> HIDE DEF InUse
  <2>6. mux'.refs = Cardinality(InUse') + mux'.leaked /\ (mux'.state = "up" <=> mux'.refs > 0)
    BY <2>2, <2>3, <2>4, <2>5
  <2>7. RefCountExact'
    BY <2>6 DEF RefCountExact, InUse
  <2> QED BY <2>1, <2>3, <2>4, <2>7 DEF MuxInv
<1>6. CASE EnterSocket
  BY <1>6, SameUsers DEF EnterSocket, KeepsUsers
<1>7. CASE QueueSocket
  BY <1>7, SameUsers DEF QueueSocket, Woken, Idle, KeepsUsers
<1>8. CASE TakeEntry
  BY <1>8, SameUsers DEF TakeEntry, KeepsUsers
<1>9. CASE AcceptCall
  BY <1>9, SameUsers DEF AcceptCall, KeepsUsers
<1>10. CASE AcceptTurn
  BY <1>10, TurnEffect, SameUsers DEF KeepsUsers
<1>11. CASE AcceptReturn
  BY <1>11, SameUsers DEF AcceptReturn, KeepsUsers
<1>12. CASE CloseListener
  BY <1>12, SameUsers DEF CloseListener, KeepsUsers
<1>13. CASE CloseWakes
  BY <1>13, SameUsers DEF CloseWakes, Woken, KeepsUsers
<1>14. CASE CloseMoves
  BY <1>14, SameUsers DEF CloseMoves, KeepsUsers
<1>15. CASE CleanupCall
  BY <1>15, SameUsers DEF CleanupCall, KeepsUsers
<1>16. CASE CleanupReturn
  BY <1>16, SameUsers DEF CleanupReturn, KeepsUsers
<1>17. CASE WorkerEnds
  <2>1. sock' = sock /\ worker' = worker /\ listener' = listener
    BY <1>17 DEF WorkerEnds
  <2>2. /\ gc.joining /\ ~ gc'.joining /\ worker.at = "idle"
        /\ mux'.refs = mux.refs /\ mux'.state = "gone" /\ mux'.leaked = mux.leaked
    BY <1>17 DEF WorkerEnds
  <2>3. mux.state = "closing"
    BY <2>2 DEF MuxInv
  <2> QED BY <2>1, <2>2, <2>3 DEF MuxInv, RefCountExact
<1>18. CASE FinalClose
  BY <1>18, FinalEffect, SameUsers DEF KeepsUsers
<1>19. CASE FinalEmpty
  BY <1>19, SameUsers DEF FinalEmpty, KeepsUsers
<1>20. ASSUME NEW c \in Clients, TakeRequest(c) PROVE MuxInv'
  BY <1>20 DEF TakeRequest, MuxInv, RefCountExact
<1>21. ASSUME NEW i \in Connections, Break(i) PROVE MuxInv'
  BY <1>21, SameUsers DEF Break, KeepsUsers
<1>22. ASSUME NEW i \in Connections, DropDead(i) PROVE MuxInv'
  BY <1>22, SameUsers DEF DropDead, KeepsUsers
<1>23. ASSUME NEW i \in Connections, CloseSocket(i) PROVE MuxInv'
  BY <1>23, CloseEffect, SameUsers DEF KeepsUsers
<1>24. ASSUME NEW i \in Sockets, Ages(i) PROVE MuxInv'
  BY <1>24, SameUsers DEF Ages, KeepsUsers
<1>25. ASSUME NEW kept \in SUBSET Connections, Pass(kept) PROVE MuxInv'
  <2> DEFINE due == DueToRemove
             n == Cardinality(due)
  <2>1. /\ \A j \in Sockets : j \in due => sock[j].place = "closed" /\ sock'[j].place = "deleted"
        /\ due \subseteq Sockets
    BY <1>25, PassEffect
  <2>2. \A i \in queued : L \in due => sock[i].place \in {"open", "closed"}
    BY <2>1 DEF QueueInv
  <2>3. \A j \in Sockets \ due : j \in InUse' <=> j \in InUse
    BY <1>25, <2>2, PassEffect
  <2>4. InUse' = InUse \ due /\ due \in SUBSET InUse /\ IsFiniteSet(InUse)
    BY <2>1, <2>3, FinitelyMany
  <2>5. /\ mux' = IF due = {} THEN mux ELSE Released(n)
        /\ gc'.joining = (mux'.state = "closing")
    BY <1>25 DEF Pass
  <2>6. /\ worker' = worker /\ ~ gc.joining
        /\ listener' => listener /\ sock'[L].place \in {"open", "closed"}
    BY <1>25, PassEffect DEF ControlLockFree, MuxInv
  <2>7. mux.refs = Cardinality(InUse) + mux.leaked /\ mux.state # "closing"
        /\ (mux.state = "up" <=> mux.refs > 0)
    BY <2>6 DEF MuxInv, RefCountExact
  <2> HIDE DEF due, InUse
  <2>8. /\ Cardinality(InUse') = Cardinality(InUse) - n /\ n \in Nat /\ n <= Cardinality(InUse)
        /\ Cardinality(InUse) \in Nat
    <3> HIDE DEF n
    <3>1. n = Cardinality(due)
      BY DEF n
    <3> QED BY <2>4, <3>1, TakenAway
  <2>9. CASE due = {}
    <3>1. mux' = mux /\ InUse' = InUse
      BY <2>4, <2>5, <2>9
    <3>2. RefCountExact'
      BY <3>1, <2>7 DEF RefCountExact, InUse
    <3> QED BY <2>5, <2>6, <2>7, <3>1, <3>2 DEF MuxInv
  <2>10. CASE due # {}
    <3>1. n > 0
      BY <2>4, <2>10, FS_EmptySet, FS_Subset, <2>8
    <3>2. /\ mux'.refs = mux.refs - n
          /\ mux'.state = IF mux.refs = n THEN "closing" ELSE mux.state
          /\ mux'.leaked = mux.leaked
      BY <2>5, <2>10 DEF Released
    <3>3. mux.state = "up"
      BY <3>1, <2>7, <2>8
    <3>4. mux'.refs = Cardinality(InUse') + mux'.leaked /\ (mux'.state = "up" <=> mux'.refs > 0)
      <4> HIDE DEF n
      <4>1. mux.leaked \in Nat /\ mux.refs \in Int
        OBVIOUS
      <4>2. mux'.refs = Cardinality(InUse') + mux'.leaked
        BY ONLY <3>2, <2>7, <2>8, <4>1
      <4>3. mux'.refs \in Nat /\ (mux'.refs = 0 <=> mux.refs = n)
        BY ONLY <3>2, <2>7, <2>8, <4>1
      <4> QED BY ONLY <3>2, <3>3, <4>2, <4>3
    <3>5. RefCountExact'
      BY <3>4 DEF RefCountExact, InUse
    <3>6. mux'.state # "gone"
      BY <3>2, <3>3
    <3> QED BY <2>5, <2>6, <3>5, <3>6 DEF MuxInv
  <2> QED BY <2>9, <2>10
<1>26. CASE UNCHANGED vars
  BY <1>26, SameUsers DEF vars, KeepsUsers
<1> QED
  BY <1>1, <1>2, <1>3, <1>4, <1>5, <1>6, <1>7, <1>8, <1>9, <1>10, <1>11, <1>12,
     <1>13, <1>14, <1>15, <1>16, <1>17, <1>18, <1>19, <1>20, <1>21, <1>22, <1>23, <1>24,
     <1>25, <1>26, <1>27 DEF Next, Listen

\* Without the tight races, accept() and the worker never look up what is gone.
LEMMA NextQuiet ==
  ASSUME ~ TightRaces, TypeOK, TableInv, MuxInv, AliveInv, HandInv, QuietInv, [Next]_vars
  PROVE  QuietInv'
<1>0. L \in Sockets /\ Connections \subseteq Sockets /\ L \notin Connections
  BY UdtSocketsAssumption DEF Sockets, Connections, L
<1> USE <1>0 DEF TypeOK, TableInv, HandInv, QuietInv, Worker, Gc, App, Acceptor, Located,
                 Undisturbed, AcceptBetween
<1>1. CASE Refuse
  BY <1>1 DEF Refuse, Idle
<1>2. CASE AnswerAgain
  BY <1>2 DEF AnswerAgain, Idle
<1>3. CASE ReplaceBroken
  BY <1>3, ReplaceEffect
<1>4. CASE AcceptRequest
  BY <1>4 DEF AcceptRequest
<1>5. CASE CreateSocket
  BY <1>5, CreateEffect
<1>27. CASE CreateFails
  BY <1>27 DEF CreateFails, Idle
<1>6. CASE EnterSocket
  BY <1>6 DEF EnterSocket
<1>7. CASE QueueSocket
  BY <1>7 DEF QueueSocket, Woken, Idle
<1>8. CASE TakeEntry
  BY <1>8 DEF TakeEntry
<1>9. CASE AcceptCall
  BY <1>9 DEF AcceptCall
<1>10. CASE AcceptTurn
  BY <1>10, TurnEffect
<1>11. CASE AcceptReturn
  BY <1>11 DEF AcceptReturn
<1>12. CASE CloseListener
  BY <1>12 DEF CloseListener
<1>13. CASE CloseWakes
  BY <1>13 DEF CloseWakes, Woken
<1>14. CASE CloseMoves
  <2>1. /\ sock'[L] = sock[L]
        /\ \A j \in Sockets : j # app.id => sock'[j] = sock[j]
        /\ app'.at = "run" /\ app.at = "move"
    BY <1>14 DEF CloseMoves
  <2>2. UNCHANGED <<queued, worker, acceptor, gc>>
    BY <1>14 DEF CloseMoves
  <2>3. /\ \A j \in queued : j # app.id
        /\ worker.at = "queue" => worker.id # app.id
        /\ acceptor.at = "picked" => acceptor.id # app.id /\ acceptor.id \in Sockets
    BY <2>1
  <2>4. /\ \A j \in queued : Located(j)'
        /\ worker'.at = "queue" => Located(worker.id)'
        /\ acceptor'.at = "picked" => Located(acceptor.id)'
    BY <2>1, <2>2, <2>3
  <2> HIDE DEF Located
  <2> QED BY <2>1, <2>2, <2>4
<1>15. CASE CleanupCall
  BY <1>15 DEF CleanupCall
<1>16. CASE CleanupReturn
  BY <1>16 DEF CleanupReturn
<1>17. CASE WorkerEnds
  BY <1>17 DEF WorkerEnds
<1>18. CASE FinalClose
  BY <1>18, FinalEffect
<1>19. CASE FinalEmpty
  BY <1>19 DEF FinalEmpty
<1>20. ASSUME NEW c \in Clients, TakeRequest(c) PROVE QuietInv'
  BY <1>20 DEF TakeRequest, MuxInv
<1>21. ASSUME NEW i \in Connections, Break(i) PROVE QuietInv'
  BY <1>21 DEF Break
<1>22. ASSUME NEW i \in Connections, DropDead(i) PROVE QuietInv'
  BY <1>22 DEF DropDead
<1>23. ASSUME NEW i \in Connections, CloseSocket(i) PROVE QuietInv'
  BY <1>23, CloseEffect
<1>24. ASSUME NEW i \in Sockets, Ages(i) PROVE QuietInv'
  BY <1>24 DEF Ages
<1>25. ASSUME NEW kept \in SUBSET Connections, Pass(kept) PROVE QuietInv'
  BY <1>25, PassEffect
<1>26. CASE UNCHANGED vars
  BY <1>26 DEF vars
<1> QED
  BY <1>1, <1>2, <1>3, <1>4, <1>5, <1>6, <1>7, <1>8, <1>9, <1>10, <1>11, <1>12,
     <1>13, <1>14, <1>15, <1>16, <1>17, <1>18, <1>19, <1>20, <1>21, <1>22, <1>23, <1>24,
     <1>25, <1>26, <1>27 DEF Next, Listen

\* At the start there is the listener, and it uses the multiplexer.
LEMMA InitIInv == Init => IInv /\ QuietInv
<1> SUFFICES ASSUME Init PROVE IInv /\ QuietInv
  OBVIOUS
<1>0. L \in Sockets /\ Connections \subseteq Sockets /\ L \notin Connections
  BY UdtSocketsAssumption DEF Sockets, Connections, L
<1>1. /\ sock[L].place = "open" /\ sock[L].status = "LISTENING" /\ ~ sock[L].broken
      /\ ~ sock[L].connected /\ ~ sock[L].onList
  BY <1>0 DEF Init, Unused
<1>2. \A i \in Connections : /\ sock[i].place = "none" /\ sock[i].peer = None
                             /\ ~ sock[i].connected
  BY <1>0 DEF Init, Unused
<1>3. TypeOK
  <2>1. Unused \in Socket /\ [Unused EXCEPT !.place = "open", !.status = "LISTENING"] \in Socket
    BY DEF Unused, Socket
  <2>2. sock \in [Sockets -> Socket]
    BY <2>1 DEF Init
  <2>3. mux \in Mux /\ worker \in Worker /\ acceptor \in Acceptor /\ app \in App /\ gc \in Gc
    BY <1>0 DEF Init, Mux, Worker, Acceptor, App, Gc, Idle
  <2>4. << >> \in Seq(Connections)
    BY EmptySeq
  <2> QED BY <2>2, <2>3, <2>4 DEF Init, TypeOK
<1>4. TableInv
  BY <1>0, <1>1, <1>2 DEF Init, TableInv, Idle, Sockets
<1>5. MuxInv
  <2>1. InUse = {L}
    BY <1>0, <1>1, <1>2 DEF InUse, Sockets
  <2>2. Cardinality(InUse) = 1
    BY <2>1, FS_Singleton
  <2>3. RefCountExact
    BY <2>2 DEF RefCountExact, InUse, Init
  <2> QED BY <1>1, <2>3 DEF Init, MuxInv, Idle
<1>6. AliveInv
  BY <1>0, <1>1, <1>2 DEF Init, AliveInv, Alive, Idle, Sockets
<1>7. EntryInv
  BY DEF Init, EntryInv, Range
<1>8. HandInv /\ QueueInv
  BY <1>1 DEF Init, HandInv, QueueInv, Idle
<1>9. QuietInv
  BY <1>1 DEF Init, QuietInv, Idle
<1> QED BY <1>3, <1>4, <1>5, <1>6, <1>7, <1>8, <1>9 DEF IInv

\* The inductive invariant, whether or not the tight races are in.
THEOREM Inductive == Spec => []IInv
<1>1. Init => IInv
  BY InitIInv
<1>2. IInv /\ [Next]_vars => IInv'
  BY NextTypeOK, NextTable, NextMux, NextAlive, NextEntries, NextHands, NextQueue DEF IInv
<1> QED BY <1>1, <1>2, PTL DEF Spec

\* m_iRefCount counts the sockets of the multiplexer, those that newConnection() has rolled
\* back included, and it is closed when none is left.
THEOREM ReferencesCounted == Spec => []RefCountExact
<1>1. IInv => RefCountExact
  BY DEF IInv, MuxInv
<1> QED BY <1>1, Inductive, PTL

\* However often requests are repeated, one connection of a client at most is alive.
THEOREM OneAlive == Spec => []OneSocketEach
<1>1. IInv => OneSocketEach
  <2> SUFFICES ASSUME IInv, NEW i \in Connections, NEW j \in Connections,
                      i # j, Alive(i), Alive(j)
               PROVE  sock[i].peer # sock[j].peer
    BY DEF OneSocketEach
  <2>1. i < j \/ j < i
    BY UdtSocketsAssumption DEF Connections
  <2> QED BY <2>1 DEF IInv, AliveInv
<1> QED BY <1>1, Inductive, PTL

\* What another thread may follow leads to a socket that is still there, when the listener
\* is not removed under a request and no connection is closed between the lines of accept().
THEOREM NothingDangles ==
  ASSUME ~ TightRaces
  PROVE  Spec => []NoDangling
<1>1. Init => QuietInv
  BY InitIInv
<1>2. IInv /\ QuietInv /\ [Next]_vars => QuietInv'
  BY NextQuiet DEF IInv
<1>3. IInv /\ QuietInv => NoDangling
  <2> SUFFICES ASSUME IInv, QuietInv PROVE NoDangling
    OBVIOUS
  <2>1. \A i \in served \cup Range(newEntry) : sock[i].place # "deleted"
    BY DEF IInv, EntryInv
  <2>2. listener \/ worker.at # "idle" \/ acceptor.at \in {"check", "wait"} =>
          sock[L].place # "deleted"
    BY DEF IInv, MuxInv, QuietInv
  <2>3. queued \subseteq In("open") /\ acceptor.at # "crashed"
    BY DEF IInv, TypeOK, QuietInv, In, Located, Sockets
  <2> QED BY <2>1, <2>2, <2>3 DEF NoDangling
<1> QED BY <1>1, <1>2, <1>3, Inductive, PTL DEF Spec

=============================================================================
