----------------------------- MODULE UdtSockets -----------------------------
(***************************************************************************)
(* How UDT sets connections up and takes sockets down at the listening     *)
(* end: the socket tables of CUDTUnited (udt/src/api.cpp), the handshake   *)
(* of CUDT (udt/src/core.cpp) and the lists of the receiving queue         *)
(* (udt/src/queue.cpp).                                                    *)
(*                                                                         *)
(* One multiplexer serves the listener and every socket it accepts.  Four  *)
(* threads meet in it: the worker of the receiving queue, the garbage      *)
(* collector, a thread in accept() and the application that closes         *)
(* sockets.  Requests with the right cookie come in from outside, as often *)
(* as a client or the network repeats them; module UdtConnect has the      *)
(* clients.                                                                *)
(*                                                                         *)
(* Seconds are what separates the collector's passes from everything else: *)
(* a time stamp is fresh until the action Ages makes it old.               *)
(***************************************************************************)
EXTENDS Integers, Sequences, FiniteSets, FiniteSetsExt, Functions

CONSTANTS
  Clients,        \* sockets on which connect() is called
  MaxSockets,     \* bound: connections created at the listener
  BackLog,        \* m_uiBackLog
  MaxRequests,    \* bound: requests with a cookie that arrive
  TightRaces,     \* whether two races of a few instructions are in: the listener removed
                  \* while the worker is at a request, and a connection closed between the
                  \* two lines of accept() that choose it and look it up
  MaxLeaks,       \* bound: sockets that newConnection() gives up after it counted them
  None            \* no client

ASSUME UdtSocketsAssumption ==
  /\ {MaxSockets, BackLog, MaxRequests} \subseteq Nat \ {0} /\ MaxLeaks \in Nat
  /\ TightRaces \in BOOLEAN
  /\ None \notin Clients

VARIABLES
  sock,       \* what CUDTSocket and CUDT hold of the listener and of each connection
  queued,     \* m_pQueuedSockets of the listener
  listener,   \* whether m_pListener is set
  newEntry,   \* m_vNewEntry
  served,     \* m_pHash and m_pRcvUList
  mux,        \* the multiplexer: m_iRefCount, whether its queues still exist, and the
              \* sockets that use it but are in neither m_Sockets nor m_ClosedSockets
  worker,     \* the worker of the receiving queue
  acceptor,   \* the thread in accept()
  app,        \* the thread that calls close() and cleanup()
  held,       \* connections accept() returned, until they are closed
  gc,         \* the garbage collector
  arrivals    \* requests with a cookie the worker took so far

vars == <<sock, queued, listener, newEntry, served, mux, worker, acceptor, app, held, gc,
          arrivals>>

L == 0                          \* the listener
Connections == 1..MaxSockets    \* m_SocketID counts down: the newest is the largest here
Sockets == {L} \cup Connections

In(place) == {i \in Sockets : sock[i].place = place}

\* The worker hands packets only to such a socket.  (m_bClosing is set together with
\* m_bBroken, or by close() with m_bConnected reset.)
Alive(i) == sock[i].connected /\ ~ sock[i].broken

\* m_ControlLock is free: the collector holds it while it waits for the worker.
ControlLockFree == ~ gc.joining

\* locate(u)
Located(i) == sock[i].place = "open" /\ sock[i].status # "CLOSED"

\* Without the tight races, accept() is not between the two lines.
AcceptBetween == acceptor.at = "picked"
Undisturbed == TightRaces \/ ~ AcceptBetween

\* locate(peer, id, isn): the newest socket in m_Sockets that has this peer.  Mutant: only
\* those that wait for accept().
OfPeerWaiting(c) == {i \in queued : sock[i].peer = c}
OfPeer(c) == {i \in Connections : sock[i].place = "open" /\ sock[i].peer = c}
Existing(c) == Max(OfPeer(c))

(***************************************************************************)
(* The worker of the receiving queue: requests.                            *)
(***************************************************************************)
Idle == [at |-> "idle", peer |-> None, id |-> L]

\* The worker found m_pListener set and gives it a request whose cookie is right.
TakeRequest(c) ==
  /\ worker.at = "idle" /\ mux.state = "up" /\ newEntry = << >> /\ listener
  /\ arrivals < MaxRequests /\ In("none") # {}
  /\ worker' = [at |-> "request", peer |-> c, id |-> L]
  /\ arrivals' = arrivals + 1
  /\ UNCHANGED <<sock, queued, listener, newEntry, served, mux, acceptor, app, held, gc>>

\* newConnection(): the listener is gone from m_Sockets, or its backlog is full.
Refuse ==
  /\ worker.at = "request" /\ ControlLockFree
  /\ \/ ~ Located(L)
     \/ /\ OfPeer(worker.peer) = {}
        /\ Cardinality(queued) >= BackLog
  /\ worker' = Idle
  /\ UNCHANGED <<sock, queued, listener, newEntry, served, mux, acceptor, app, held, gc,
                 arrivals>>

\* newConnection(): a repeated request is answered with the connection there is.
AnswerAgain ==
  /\ worker.at = "request" /\ ControlLockFree
  /\ Located(L)
  /\ OfPeer(worker.peer) # {} /\ ~ sock[Existing(worker.peer)].broken
  /\ worker' = Idle
  /\ UNCHANGED <<sock, queued, listener, newEntry, served, mux, acceptor, app, held, gc,
                 arrivals>>

\* newConnection(): the connection there is has broken; it is closed, and the request
\* goes on as if it were the first (or is refused, when the backlog is full).
ReplaceBroken ==
  /\ worker.at = "request" /\ ControlLockFree /\ Undisturbed
  /\ Located(L)
  /\ OfPeer(worker.peer) # {}
  /\ LET i == Existing(worker.peer)
     IN /\ sock[i].broken
        /\ sock' = [sock EXCEPT ![i].status = "CLOSED", ![i].old = FALSE]
        /\ queued' = queued \ {i}
  /\ IF Cardinality(queued') >= BackLog
     THEN worker' = Idle
     ELSE worker' = [worker EXCEPT !.at = "create"]
  /\ UNCHANGED <<listener, newEntry, served, mux, acceptor, app, held, gc, arrivals>>

AcceptRequest ==
  /\ worker.at = "request" /\ ControlLockFree
  /\ Located(L)
  /\ OfPeer(worker.peer) = {} /\ Cardinality(queued) < BackLog
  /\ worker' = [worker EXCEPT !.at = "create"]
  /\ UNCHANGED <<sock, queued, listener, newEntry, served, mux, acceptor, app, held, gc,
                 arrivals>>

Unused == [place |-> "none", status |-> "INIT", peer |-> None, connected |-> FALSE,
           broken |-> FALSE, onList |-> FALSE, old |-> FALSE]

\* The socket as updateMux() and connect(peer, hs) leave it: connected, on the worker's
\* list as far as m_bOnList says, and not yet in m_Sockets.  Mutant: m_bOnList is not set.
FreshOffList(c) == [Unused EXCEPT !.place = "new", !.peer = c, !.connected = TRUE]
Fresh(c) == [Unused EXCEPT !.place = "new", !.peer = c, !.connected = TRUE,
                           !.onList = TRUE]

\* updateMux(): one more uses the multiplexer.  Mutant: it is not counted.
CountForgotten == mux
Counted == [mux EXCEPT !.refs = @ + 1]

CreateSocket ==
  /\ worker.at = "create" /\ ControlLockFree
  /\ \E i \in In("none") :
       /\ \A j \in In("none") : i <= j
       /\ sock' = [sock EXCEPT ![i] = Fresh(worker.peer)]
       /\ newEntry' = Append(newEntry, i)
       /\ worker' = [worker EXCEPT !.at = "enter", !.id = i]
  /\ mux' = Counted
  /\ UNCHANGED <<queued, listener, served, acceptor, app, held, gc, arrivals>>

\* ERR_ROLLBACK: connect(peer, hs) finds no memory, or open() before it.  The socket is
\* closed and marked CLOSED, but stays out of both tables, where nobody finds it again.
CreateFails ==
  /\ worker.at = "create" /\ ControlLockFree
  /\ mux.leaked < MaxLeaks
  /\ mux' \in {mux, [Counted EXCEPT !.leaked = @ + 1]}
  /\ worker' = Idle
  /\ UNCHANGED <<sock, queued, listener, newEntry, served, acceptor, app, held, gc, arrivals>>

EnterSocket ==
  /\ worker.at = "enter" /\ ControlLockFree
  /\ sock' = [sock EXCEPT ![worker.id].place = "open", ![worker.id].status = "CONNECTED"]
  /\ worker' = [worker EXCEPT !.at = "queue"]
  /\ UNCHANGED <<queued, listener, newEntry, served, mux, acceptor, app, held, gc, arrivals>>

\* wake up a waiting accept() call
Woken == IF acceptor.at = "wait" THEN [acceptor EXCEPT !.at = "check"] ELSE acceptor

QueueSocket ==
  /\ worker.at = "queue"
  /\ queued' = queued \cup {worker.id}
  /\ acceptor' = Woken
  /\ worker' = Idle
  /\ UNCHANGED <<sock, listener, newEntry, served, mux, app, held, gc, arrivals>>

(***************************************************************************)
(* The worker of the receiving queue: its lists.                           *)
(***************************************************************************)
TakeEntry ==
  /\ worker.at = "idle" /\ mux.state = "up" /\ newEntry # << >>
  /\ served' = served \cup {Head(newEntry)}
  /\ newEntry' = Tail(newEntry)
  /\ UNCHANGED <<sock, queued, listener, mux, worker, acceptor, app, held, gc, arrivals>>

\* The peer shuts the connection down (processCtrl) or is silent too long (checkTimers).
Break(i) ==
  /\ worker.at = "idle" /\ mux.state = "up" /\ i \in served /\ Alive(i)
  /\ sock' = [sock EXCEPT ![i].broken = TRUE]
  /\ UNCHANGED <<queued, listener, newEntry, served, mux, worker, acceptor, app, held, gc,
                 arrivals>>

\* A socket that is not alive any more leaves the table and the list, in this order.
DropDead(i) ==
  /\ worker.at = "idle" /\ mux.state = "up" /\ i \in served /\ ~ Alive(i)
  /\ served' = served \ {i}
  /\ sock' = [sock EXCEPT ![i].onList = FALSE]
  /\ UNCHANGED <<queued, listener, newEntry, mux, worker, acceptor, app, held, gc, arrivals>>

(***************************************************************************)
(* accept()                                                                *)
(***************************************************************************)
\* A program does not call accept() any more when it has called cleanup().
AcceptCall ==
  /\ acceptor.at = "out" /\ ControlLockFree /\ gc.phase = "run"
  /\ acceptor' = [at |-> IF Located(L) /\ sock[L].status = "LISTENING" THEN "check"
                         ELSE "failed",
                  id |-> L]
  /\ UNCHANGED <<sock, queued, listener, newEntry, served, mux, worker, app, held, gc,
                 arrivals>>

\* Mutant: m_bBroken is not looked at.
ListenerClosed == sock[L].status # "LISTENING"
ListenerDown == sock[L].status # "LISTENING" \/ sock[L].broken

\* One turn of the loop under m_AcceptLock.
AcceptTurn ==
  /\ acceptor.at = "check"
  /\ IF ListenerDown
     THEN acceptor' = [at |-> "failed", id |-> L] /\ queued' = queued
     ELSE IF queued # {}
     THEN /\ acceptor' = [at |-> "picked", id |-> Max(queued)]
          /\ queued' = queued \ {Max(queued)}
     ELSE acceptor' = [acceptor EXCEPT !.at = "wait"] /\ queued' = queued
  /\ UNCHANGED <<sock, listener, newEntry, served, mux, worker, app, held, gc, arrivals>>

\* locate(u) for the peer's address: its result is used whether or not it is NULL.
AcceptReturn ==
  /\ acceptor.at = "picked" /\ ControlLockFree
  /\ IF Located(acceptor.id)
     THEN acceptor' = [at |-> "out", id |-> L] /\ held' = held \cup {acceptor.id}
     ELSE acceptor' = [acceptor EXCEPT !.at = "crashed"] /\ held' = held
  /\ UNCHANGED <<sock, queued, listener, newEntry, served, mux, worker, app, gc, arrivals>>

(***************************************************************************)
(* close() and cleanup()                                                   *)
(***************************************************************************)
\* The listener is only marked; the collector closes it three seconds later.
CloseListener ==
  /\ app.at = "run" /\ ControlLockFree
  /\ Located(L) /\ sock[L].status = "LISTENING" /\ ~ sock[L].broken
  /\ sock' = [sock EXCEPT ![L].broken = TRUE, ![L].old = FALSE]
  /\ app' = [at |-> "wake", id |-> L]
  /\ UNCHANGED <<queued, listener, newEntry, served, mux, worker, acceptor, held, gc,
                 arrivals>>

\* broadcast all "accept" waiting
CloseWakes ==
  /\ app.at = "wake"
  /\ acceptor' = Woken
  /\ app' = [at |-> "run", id |-> L]
  /\ UNCHANGED <<sock, queued, listener, newEntry, served, mux, worker, held, gc, arrivals>>

\* CUDT::close() of a connection that is still there, its unsent data lingered over.
Closed(s) == [s EXCEPT !.connected = FALSE]

CloseSocket(i) ==
  /\ app.at = "run" /\ ControlLockFree /\ i \in held
  /\ IF Located(i)
     THEN /\ sock' = [sock EXCEPT ![i] = Closed(@)]
          /\ app' = [at |-> "move", id |-> i]
     ELSE UNCHANGED <<sock, app>>
  /\ held' = held \ {i}
  /\ UNCHANGED <<queued, listener, newEntry, served, mux, worker, acceptor, gc, arrivals>>

\* The collector may have closed it meanwhile: close() looks it up again.
CloseMoves ==
  /\ app.at = "move" /\ ControlLockFree
  /\ sock' = IF Located(app.id)
             THEN [sock EXCEPT ![app.id].status = "CLOSED", ![app.id].place = "closed",
                               ![app.id].old = FALSE]
             ELSE sock
  /\ app' = [at |-> "run", id |-> L]
  /\ UNCHANGED <<queued, listener, newEntry, served, mux, worker, acceptor, held, gc,
                 arrivals>>

\* cleanup() of the program's own thread, which is not in another call.
CleanupCall ==
  /\ app.at = "run" /\ acceptor.at \in {"out", "failed"} /\ gc.phase = "run"
  /\ app' = [at |-> "cleanup", id |-> L]
  /\ gc' = [gc EXCEPT !.phase = "stop"]
  /\ UNCHANGED <<sock, queued, listener, newEntry, served, mux, worker, acceptor, held,
                 arrivals>>

CleanupReturn ==
  /\ app.at = "cleanup" /\ gc.phase = "ended"
  /\ app' = [at |-> "done", id |-> L]
  /\ UNCHANGED <<sock, queued, listener, newEntry, served, mux, worker, acceptor, held, gc,
                 arrivals>>

(***************************************************************************)
(* The garbage collector.                                                  *)
(***************************************************************************)
\* Threads that run get on: no thread stays in a call on i, or at a line that is not a
\* wait, until i's time stamp is old.
Ages(i) ==
  /\ ~ sock[i].old
  /\ sock[i].place = "closed" \/ (i = L /\ sock[i].place = "open" /\ sock[i].broken)
  /\ ~ (app.at \in {"wake", "move"} /\ app.id = i)
  /\ acceptor.at \notin {"check", "picked"}
  /\ sock' = [sock EXCEPT ![i].old = TRUE]
  /\ UNCHANGED <<queued, listener, newEntry, served, mux, worker, acceptor, app, held, gc,
                 arrivals>>

\* checkBrokenSockets(): broken ones that are due to be closed (a socket with unread data
\* may be kept some passes longer), and closed ones that are due to be removed.
DueToClose(kept) == {i \in In("open") \ kept : sock[i].broken /\ (i = L => sock[i].old)}
DueToRemove == {i \in In("closed") : sock[i].old /\ ~ sock[i].onList}

\* removeSocket() of the listener closes what nobody has accepted.  Mutant: it does not.
NoneLeft(due) == {}
NotAccepted(due) == IF L \in DueToRemove THEN queued \ due ELSE {}

Deleted == [Unused EXCEPT !.place = "deleted"]

Swept(due) ==
  [i \in Sockets |->
     IF i \in DueToRemove THEN Deleted
     ELSE IF i \in NotAccepted(due)
     THEN [Closed(sock[i]) EXCEPT !.broken = TRUE, !.status = "CLOSED", !.place = "closed",
                                  !.old = FALSE]
     ELSE IF i \in due
     THEN [sock[i] EXCEPT !.status = "CLOSED", !.place = "closed", !.old = FALSE]
     ELSE sock[i]]

\* The last reference closes the channel and waits for the worker to end.
Released(n) == [refs |-> mux.refs - n, leaked |-> mux.leaked,
                state |-> IF mux.refs = n THEN "closing" ELSE mux.state]

QueueAfter(due) == IF L \in DueToRemove THEN {} ELSE queued \ due

Pass(kept) ==
  /\ gc.phase \in {"run", "final"} /\ ControlLockFree /\ Undisturbed
  /\ L \in DueToRemove => TightRaces \/ worker.at = "idle"
  /\ LET due == DueToClose(kept)
     IN /\ due \cup DueToRemove # {}
        /\ sock' = Swept(due)
        /\ queued' = QueueAfter(due)
  /\ listener' = (listener /\ L \notin DueToRemove)
  /\ mux' = IF DueToRemove = {} THEN mux ELSE Released(Cardinality(DueToRemove))
  /\ gc' = [gc EXCEPT !.joining = mux'.state = "closing"]
  /\ UNCHANGED <<newEntry, served, worker, acceptor, app, held, arrivals>>

\* The worker leaves its loop; its queue is deleted.
WorkerEnds ==
  /\ gc.joining /\ worker.at = "idle"
  /\ gc' = [gc EXCEPT !.joining = FALSE]
  /\ mux' = [mux EXCEPT !.state = "gone"]
  /\ newEntry' = << >>
  /\ served' = {}
  /\ UNCHANGED <<sock, queued, listener, worker, acceptor, app, held, arrivals>>

\* After m_bClosing was set, every socket left is closed, and every one is due at once.
FinalClose ==
  /\ gc.phase = "stop" /\ ControlLockFree /\ Undisturbed
  /\ TightRaces \/ worker.at = "idle"
  /\ sock' = [i \in Sockets |->
                CASE i \in In("open") -> [Closed(sock[i]) EXCEPT !.broken = TRUE,
                                            !.status = "CLOSED", !.place = "closed",
                                            !.old = TRUE]
                  [] i \in In("closed") -> [sock[i] EXCEPT !.old = TRUE]
                  [] OTHER -> sock[i]]
  /\ queued' = queued \ In("open")
  /\ listener' = (listener /\ L \notin In("open"))
  /\ gc' = [gc EXCEPT !.phase = "final"]
  /\ UNCHANGED <<newEntry, served, mux, worker, acceptor, app, held, arrivals>>

FinalEmpty ==
  /\ gc.phase = "final" /\ ControlLockFree /\ In("closed") = {}
  /\ gc' = [gc EXCEPT !.phase = "ended"]
  /\ UNCHANGED <<sock, queued, listener, newEntry, served, mux, worker, acceptor, app,
                 held, arrivals>>

-----------------------------------------------------------------------------
Init ==
  /\ sock = [i \in Sockets |->
               IF i = L THEN [Unused EXCEPT !.place = "open", !.status = "LISTENING"]
               ELSE Unused]
  /\ queued = {} /\ held = {} /\ served = {}
  /\ listener = TRUE
  /\ newEntry = << >>
  /\ mux = [refs |-> 1, state |-> "up", leaked |-> 0]
  /\ worker = Idle
  /\ acceptor = [at |-> "out", id |-> L]
  /\ app = [at |-> "run", id |-> L]
  /\ gc = [phase |-> "run", joining |-> FALSE]
  /\ arrivals = 0

Listen == Refuse \/ AnswerAgain \/ ReplaceBroken \/ AcceptRequest
          \/ CreateSocket \/ CreateFails \/ EnterSocket \/ QueueSocket

Next ==
  \/ \E c \in Clients : TakeRequest(c)
  \/ Listen \/ TakeEntry
  \/ \E i \in Connections : Break(i) \/ DropDead(i)
  \/ AcceptCall \/ AcceptTurn \/ AcceptReturn
  \/ CloseListener \/ CloseWakes \/ CloseMoves \/ CleanupCall \/ CleanupReturn
  \/ \E i \in Connections : CloseSocket(i)
  \/ \E i \in Sockets : Ages(i)
  \/ \E kept \in SUBSET Connections : Pass(kept)
  \/ WorkerEnds \/ FinalClose \/ FinalEmpty

\* Every thread that can take a step gets to take it.  The worker looks through its list
\* in every turn of its loop, and the collector passes every second, however many requests
\* arrive; the application closes what it accepted.
Fairness ==
  /\ WF_vars(Listen) /\ WF_vars(TakeEntry) /\ WF_vars(WorkerEnds)
  /\ \A i \in Connections : WF_vars(DropDead(i)) /\ WF_vars(CloseSocket(i))
  /\ WF_vars(AcceptTurn) /\ WF_vars(AcceptReturn)
  /\ WF_vars(CloseWakes) /\ WF_vars(CloseMoves)
  /\ \A i \in Sockets : WF_vars(Ages(i))
  /\ WF_vars(Pass({})) /\ WF_vars(FinalClose) /\ WF_vars(FinalEmpty)

Spec == Init /\ [][Next]_vars /\ Fairness

-----------------------------------------------------------------------------
\* Every pointer and number another thread may follow leads to a socket that has not been
\* deleted: the entries of the worker, the listener, and the queue of connections, each of
\* which is in m_Sockets when the listener's removal takes it from there.
NoDangling ==
  /\ \A i \in served \cup Range(newEntry) : sock[i].place # "deleted"
  /\ listener \/ worker.at # "idle" \/ acceptor.at \in {"check", "wait"} =>
       sock[L].place # "deleted"
  /\ queued \subseteq In("open")
  /\ acceptor.at # "crashed"

\* m_iRefCount is the number of sockets that use the multiplexer, and it is closed when
\* none does.  A socket that newConnection() has rolled back is one of them for ever.
RefCountExact ==
  /\ mux.refs = Cardinality({i \in Sockets : sock[i].place \in {"new", "open", "closed"}})
                  + mux.leaked
  /\ mux.state = "up" <=> mux.refs > 0

\* However often a request arrives, and however many connections of a client have broken
\* before, at most one of them is alive.
OneSocketEach ==
  \A i, j \in Connections :
    i # j /\ Alive(i) /\ Alive(j) => sock[i].peer # sock[j].peer

\* Once the listener is closed and the program closes what it accepted, or calls
\* cleanup(), every socket in the tables is removed in the end and the multiplexer with
\* the last; only sockets that newConnection() has rolled back keep it.
AllFreed ==
  sock[L].place # "open" ~>
    IF mux.leaked = 0 THEN mux.state = "gone" ELSE mux.refs = mux.leaked

\* close() of the listener lets a thread waiting in accept() return.
AcceptReturns == acceptor.at = "wait" /\ sock[L].broken ~> acceptor.at = "failed"
=============================================================================
