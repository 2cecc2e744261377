---------------------------- MODULE ThreadManager ----------------------------
(***************************************************************************)
(* The table of threads and the orderly end of a program                   *)
(* (src/src/thread_manager.cpp, clean_exit in parcel.cpp).                 *)
(*                                                                         *)
(* A thread is started by create_thread, which enters it in the table only *)
(* after pthread_create: the new thread may run, start others and leave    *)
(* before it is entered.  The search for a free slot and the search for    *)
(* the slot of a thread that leaves are done without the lock, so that two *)
(* threads may take one slot.  Every thread is told to leave by one flag; a*)
(* thread of type 2 stays as long as the table shows one of type 1; others *)
(* leave on an error, or stand in a call that does not look at the flag.   *)
(* The main thread sets the flag, waits for the count to come down to 0,   *)
(* and then closes the pipes and deletes the cipher contexts.              *)
(***************************************************************************)
EXTENDS Integers, Sequences, FiniteSets, FiniteSetsExt

CONSTANTS
  Threads,        \* all threads but the main one
  Main,           \* the main thread, which is not in the table
  Nobody,         \* threadUsed = 0: the slot is free
  Children,       \* Children[t]: the threads t starts, in order
  Type1,          \* the cipher workers, THREAD_TYPE_1; the others are of type 2
  JoinsOn,        \* JoinsOn[t]: the threads whose end t waits for before it leaves
  MayEnd,         \* threads that may end of themselves: an error, a timeout
  Raises,         \* threads that set the exit flag after they have unregistered
  Connects,       \* threads that wait for the connection before they start anything
  MayBlock,       \* threads that may come to stand in a call that looks at no flag
  PoolSizes       \* the values of THREAD_POOL_SIZE to look at

Everybody == Threads \cup {Main}

ASSUME MainAssumption == Main \notin Threads /\ Nobody \notin Everybody
ASSUME ChildrenAssumption == Children \in [Everybody -> Seq(Threads)]
ASSUME SetsAssumption ==
  \A S \in {Type1, MayEnd, Raises, Connects, MayBlock} : S \subseteq Threads
ASSUME JoinAssumption == JoinsOn \in [Everybody -> SUBSET Threads]
ASSUME PoolAssumption == PoolSizes \subseteq Nat \ {0}

VARIABLES
  activeThreads,  \* activeThreads[i]: the thread in slot i, or Nobody
  g_thread_count,
  g_time_to_exit,
  pc,             \* where each thread is
  todo,           \* todo[t]: the threads t has still to start
  slot,           \* slot[t]: the slot found by the search t is in
  unknown         \* history: threads outside of the count.  The table was full, or a
                  \* signal came before they were entered; and those that they start

vars == <<activeThreads, g_thread_count, g_time_to_exit, pc, todo, slot, unknown>>

Slots == DOMAIN activeThreads
NoSlot == 0

Init ==
  /\ \E size \in PoolSizes : activeThreads = [i \in 1 .. size |-> Nobody]
  /\ g_thread_count = 0
  /\ g_time_to_exit = FALSE
  /\ pc = [t \in Everybody |-> IF t = Main THEN "run" ELSE "unborn"]
  /\ todo = Children
  /\ slot = [t \in Everybody |-> NoSlot]
  /\ unknown = {}

\* Where a search over the table stops.
FirstSlot(S) == IF S = {} THEN NoSlot ELSE Min(S)
Moves(t, from, to) == pc[t] = from /\ pc' = [pc EXCEPT ![t] = to]

Ended == {"gone", "astray"}

\* p is between pthread_create and the end of register_thread.
Entering(p) == pc[p] \in {"scan", "store"}
BeingEntered(t) == \E p \in Everybody : Entering(p) /\ Head(todo[p]) = t

\* t, the thread t is entering, the one this is entering, and so on.
WithThose(t) ==
  {u \in Threads : \A S \in SUBSET Threads :
     t \in S /\ (\A p \in S : Entering(p) => Head(todo[p]) \in S) => u \in S}

-----------------------------------------------------------------------------
(* create_thread *)

\* pthread_create.
Create(t) ==
  /\ pc[t] = "run" /\ todo[t] # <<>>
  /\ pc' = [pc EXCEPT ![t] = "scan", ![Head(todo[t])] = "run"]
  /\ unknown' = IF t \in unknown THEN unknown \cup {Head(todo[t])} ELSE unknown
  /\ UNCHANGED <<activeThreads, g_thread_count, g_time_to_exit, todo, slot>>

\* register_thread, the search for a free slot.
Scan(t) ==
  /\ Moves(t, "scan", "store")
  /\ slot' = [slot EXCEPT ![t] = FirstSlot({i \in Slots : activeThreads[i] = Nobody})]
  /\ UNCHANGED <<activeThreads, g_thread_count, g_time_to_exit, todo, unknown>>

\* What register_thread adds to the count.
Added(t) == IF slot[t] = NoSlot THEN 0 ELSE 1

\* register_thread, under the lock.  With no slot the thread stays unknown.
Register(t) ==
  /\ Moves(t, "store", "run")
  /\ activeThreads' = IF slot[t] = NoSlot THEN activeThreads
                      ELSE [activeThreads EXCEPT ![slot[t]] = Head(todo[t])]
  /\ g_thread_count' = g_thread_count + Added(t)
  /\ todo' = [todo EXCEPT ![t] = Tail(@)]
  /\ unknown' = IF slot[t] = NoSlot THEN unknown \cup WithThose(Head(todo[t]))
                                    ELSE unknown \ {Head(todo[t])}
  /\ slot' = [slot EXCEPT ![t] = NoSlot]
  /\ UNCHANGED g_time_to_exit

-----------------------------------------------------------------------------
(* The end of a thread *)

\* check_for_exit.  Mutant: what a comment in it says, "any 2s are still running".
ToldLast(t) ==
  /\ g_time_to_exit
  /\ t \notin Type1 => \A i \in Slots : activeThreads[i] \in {t, Nobody}
ToldToLeave(t) ==
  /\ g_time_to_exit
  /\ t \notin Type1 => \A i \in Slots : activeThreads[i] \notin Type1

\* t is told to leave, or the thread it joins has ended.  recvdata is counted as
\* joining senddata: it sits in UDT::recv until run_client or run_server, which do
\* join senddata, close the socket.
HasToLeave(t) ==
  IF JoinsOn[t] = {} THEN ToldToLeave(t) ELSE \A u \in JoinsOn[t] : pc[u] \in Ended

\* A thread that has started all it has to start leaves its loop, because it has to
\* or of itself: a cipher error, an error of UDT::send or of a pipe, a lost
\* connection, the monitor's timeout.  A cipher worker sets the flag at once.
EndsLoop(t) ==
  /\ t # Main
  /\ Moves(t, "run", "find")
  /\ todo[t] = <<>>
  /\ t \in MayEnd \/ HasToLeave(t)
  /\ g_time_to_exit' = (g_time_to_exit \/ t \in Type1)
  /\ UNCHANGED <<activeThreads, g_thread_count, todo, slot, unknown>>

\* The count after a search that found nothing.  Mutant: the decrement stands after
\* the loop, not in it.
MissedDown == g_thread_count - 1
Missed == g_thread_count

\* unregister_thread, the search.
Find(t) ==
  /\ pc[t] = "find"
  /\ slot' = [slot EXCEPT ![t] = FirstSlot({i \in Slots : activeThreads[i] = t})]
  /\ pc' = [pc EXCEPT ![t] = IF slot'[t] = NoSlot THEN "astray" ELSE "clear"]
  /\ g_thread_count' = IF slot'[t] = NoSlot THEN Missed ELSE g_thread_count
  /\ UNCHANGED <<activeThreads, g_time_to_exit, todo, unknown>>

\* unregister_thread, under the lock: the slot found, whoever is in it by now.
CountDown == g_thread_count - 1
Clear(t) ==
  /\ Moves(t, "clear", "gone")
  /\ activeThreads' = [activeThreads EXCEPT ![slot[t]] = Nobody]
  /\ g_thread_count' = CountDown
  /\ slot' = [slot EXCEPT ![t] = NoSlot]
  /\ UNCHANGED <<g_time_to_exit, todo, unknown>>

\* An early return of run_server or run_client, which leave the table as it is.
Vanish(t) ==
  /\ t \in Connects /\ todo[t] = Children[t]
  /\ Moves(t, "run", "astray")
  /\ UNCHANGED <<activeThreads, g_thread_count, g_time_to_exit, todo, slot, unknown>>

\* A call that returns only if somebody else does something, and nobody will:
\* UDT::accept without a client (udpipe_server.cpp:154), the waits of the handshake
\* (276, 477, recv_full), pass_to_enc_thread or the join after a worker has left.
Block(t) ==
  /\ t \in MayBlock \/ (t \in Connects /\ todo[t] = Children[t])
  /\ Moves(t, "run", "stuck")
  /\ UNCHANGED <<activeThreads, g_thread_count, g_time_to_exit, todo, slot, unknown>>

\* set_thread_exit by recvdata, which has unregistered, or the monitor.
SetThreadExit(t) ==
  /\ t \in Raises /\ pc[t] \in Ended /\ ~g_time_to_exit
  /\ g_time_to_exit' = TRUE
  /\ UNCHANGED <<activeThreads, g_thread_count, pc, todo, slot, unknown>>

\* clean_exit, by the main thread at its end or where it fails, or in the handler of
\* a signal wherever it is.  What it was creating is not entered any more.
CleanExit ==
  /\ pc[Main] \in {"run", "scan", "store"}
  /\ pc' = [pc EXCEPT ![Main] = "wait"]
  /\ g_time_to_exit' = TRUE
  /\ unknown' = IF pc[Main] = "run" THEN unknown
                ELSE unknown \cup WithThose(Head(todo[Main]))
  /\ slot' = [slot EXCEPT ![Main] = NoSlot]
  /\ UNCHANGED <<activeThreads, g_thread_count, todo>>

\* clean_exit, past the loop on get_thread_count(THREAD_TYPE_ALL): cleanup_pipes,
\* delete enc and dec, exit.  Mutant: the loop that clean_exit has commented out,
\* which does not wait after a failure.
NobodyLeftOrFailed == TRUE
NobodyLeft == g_thread_count <= 0
Cleanup ==
  /\ Moves(Main, "wait", "gone")
  /\ NobodyLeft
  /\ UNCHANGED <<activeThreads, g_thread_count, g_time_to_exit, todo, slot, unknown>>

Step(t) == Create(t) \/ Scan(t) \/ Register(t) \/ EndsLoop(t) \/ Find(t) \/ Clear(t)

\* exit() takes all threads with it.
Running == pc[Main] # "gone"

Next ==
  /\ Running
  /\ \/ \E t \in Everybody : Step(t)
     \/ \E t \in Threads : Vanish(t) \/ Block(t) \/ SetThreadExit(t)
     \/ CleanExit \/ Cleanup

Spec == Init /\ [][Next]_vars

\* Threads are scheduled.  One that is in its loop and not stuck looks at the flag
\* again and again; nobody has to fail, and the main thread need not come to an end.
Fairness ==
  /\ \A t \in Everybody :
       WF_vars(Running /\ (Create(t) \/ Scan(t) \/ Register(t) \/ Find(t) \/ Clear(t)))
  /\ \A t \in Threads : WF_vars(Running /\ HasToLeave(t) /\ EndsLoop(t))
                         /\ WF_vars(Running /\ SetThreadExit(t))
  /\ WF_vars(Cleanup)

FairSpec == Spec /\ Fairness

-----------------------------------------------------------------------------
(* Properties *)

\* Every variable has its type; in particular no search leaves the table.
TypeOK ==
  /\ activeThreads \in [Slots -> Threads \cup {Nobody}]
  /\ g_thread_count \in Int /\ g_time_to_exit \in BOOLEAN
  /\ pc \in [Everybody -> {"unborn", "run", "scan", "store", "find", "clear", "stuck", "wait"}
                           \cup Ended]
  /\ todo \in [Everybody -> Seq(Threads)]
  /\ slot \in [Everybody -> Slots \cup {NoSlot}]
  /\ unknown \subseteq Threads

Used == {i \in Slots : activeThreads[i] # Nobody}

\* Whatever slots threads take from each other between search and lock, and however
\* late they are entered, g_thread_count is never less than the number of threads in
\* the table: clean_exit waits for all it could see there.
CountCovers == Cardinality(Used) <= g_thread_count

\* When the main thread tears down pipes and contexts no thread is left to use
\* them, not even one its creator has yet to enter, but for those outside of the count.
CleanupIsLast ==
  pc[Main] = "gone" => \A t \in Threads \ unknown : pc[t] \in Ended \cup {"unborn"}

\* A counted thread that unregister_thread did not find, or will not find.
Lost == \E t \in Threads \ unknown : pc[t] = "astray"
Stuck == \E t \in Threads : pc[t] = "stuck"

\* clean_exit returns: the waits for type 1 and the joins end one after the other.  It
\* does not if a thread is still counted that has gone without being found in the
\* table, or if one is stuck.
ExitCompletes == (pc[Main] = "wait") ~> (pc[Main] = "gone" \/ Lost \/ Stuck)
=============================================================================
