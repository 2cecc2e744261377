------------------------------ MODULE SndQueue ------------------------------
(***************************************************************************)
(* When which socket sends: CSndUList, a heap of the sockets that have     *)
(* something to send, the worker of CSndQueue that serves it               *)
(* (udt/src/queue.cpp), and the timer the worker sleeps on (CTimer,        *)
(* udt/src/common.cpp).                                                    *)
(*                                                                         *)
(* Every call on the list holds its lock and is one step.  The worker      *)
(* reads the time of the first socket in one step and sleeps until then    *)
(* in another.  What the socket does when it is served is UdtStream's: it  *)
(* leaves the list or gives the time when it wants to be served next.      *)
(***************************************************************************)
EXTENDS Integers, Sequences, SequencesExt

CONSTANTS
  Socks,       \* the sockets that share a multiplexer
  MaxTime      \* bound on the clock

ASSUME MaxTimeAssumption == MaxTime \in Nat \ {0}

VARIABLES
  list,        \* the heap, m_iHeapLoc and m_llTimeStamp of every socket
  now,         \* the clock
  worker,      \* "ask", "arm", "sleep", "pop", "check", "wait" or "end"
  next,        \* the time the worker read
  sched,       \* m_ullSchedTime of the timer
  closing      \* m_bClosing: "no", "set" or, with the signal after it, "told"

sndQueueVars == <<list, now, worker, next, sched, closing>>

AtOnce == 1    \* the time stamp of a socket that is to be served at once

-----------------------------------------------------------------------------
(* The heap.  Positions count from 0, as in the code.                      *)

At(h, p) == h.heap[p + 1]
TimeOf(h, p) == h.ts[At(h, p)]
LastEntry(h) == Len(h.heap) - 1
Listed(h, s) == h.loc[s] >= 0

Swap(h, p, q) ==
  [h EXCEPT !.heap = [@ EXCEPT ![p + 1] = At(h, q), ![q + 1] = At(h, p)],
            !.loc = [@ EXCEPT ![At(h, q)] = p, ![At(h, p)] = q]]

\* insert_: to the end, and up from there.
RaisedFrom(h, q) ==
  FoldLeft(LAMBDA g, s : LET p == (g.loc[s] - 1) \div 2
                         IN IF g.loc[s] > 0 /\ TimeOf(g, p) > g.ts[s] THEN Swap(g, p, g.loc[s]) ELSE g,
           h, [i \in 1 .. q |-> At(h, q)])
Inserted(h, s, t) ==
  IF Listed(h, s) THEN h
  ELSE RaisedFrom([heap |-> Append(h.heap, s), loc |-> [h.loc EXCEPT ![s] = Len(h.heap)],
                   ts |-> [h.ts EXCEPT ![s] = t]], Len(h.heap))

\* The earlier of the two below q.  Mutant: the left one.
LeftBelow(h, q) == 2 * q + 1
EarlierBelow(h, q) ==
  LET p == 2 * q + 1
  IN IF p + 1 <= LastEntry(h) /\ TimeOf(h, p) > TimeOf(h, p + 1) THEN p + 1 ELSE p

\* remove_: the last one takes its place, and goes down from there.
LoweredFrom(h, q) ==
  IF q > LastEntry(h) THEN h
  ELSE FoldLeft(LAMBDA g, s : LET p == EarlierBelow(g, g.loc[s])
                              IN IF p <= LastEntry(g) /\ g.ts[s] > TimeOf(g, p)
                                 THEN Swap(g, g.loc[s], p) ELSE g,
                h, [i \in 1 .. Len(h.heap) |-> At(h, q)])
Removed(h, s) ==
  LET q == h.loc[s]
      end == At(h, LastEntry(h))
  IN IF ~ Listed(h, s) THEN h
     ELSE LoweredFrom([h EXCEPT !.heap = Front([@ EXCEPT ![q + 1] = end]),
                                !.loc = [@ EXCEPT ![end] = q, ![s] = -1]], q)

\* Whether the call that changed g to h interrupts the timer: insert_, with a new
\* first socket, and remove_, with one socket left.
NewFirst(g, h, s) == ~ Listed(g, s) /\ h.loc[s] = 0
OneLeft(h) == LastEntry(h) = 0

-----------------------------------------------------------------------------
SndQueueInit ==
  /\ list = [heap |-> <<>>, loc |-> [s \in Socks |-> -1], ts |-> [s \in Socks |-> AtOnce]]
  /\ now = AtOnce /\ worker = "ask" /\ next = 0 /\ sched = 0
  /\ closing = "no"

Tick == now < MaxTime /\ now' = now + 1 /\ UNCHANGED <<list, worker, next, sched, closing>>

\* interrupt, and the signal of insert_ for a list that was empty.
Interrupt(does) == sched' = IF does THEN now ELSE sched
Signal(g, h) ==
  worker' = IF worker = "wait" /\ g.heap = <<>> /\ h.heap # <<>> THEN "ask" ELSE worker

\* update(s, false): there is something to send.
Update(s) ==
  LET h == Inserted(list, s, AtOnce)
  IN /\ closing = "no"
     /\ list' = h /\ Interrupt(NewFirst(list, h, s)) /\ Signal(list, h)
     /\ UNCHANGED <<now, next, closing>>

\* update(s): something is to be sent again, at once.
Reschedule(s) ==
  LET g == Removed(list, s)
      h == Inserted(g, s, AtOnce)
  IN /\ closing = "no" /\ Listed(list, s)
     /\ IF list.loc[s] = 0
        THEN list' = [list EXCEPT !.ts[s] = AtOnce] /\ Interrupt(TRUE) /\ UNCHANGED worker
        ELSE list' = h /\ Interrupt(OneLeft(g) \/ NewFirst(g, h, s)) /\ Signal(g, h)
     /\ UNCHANGED <<now, next, closing>>

\* remove: the socket is closed.
Close(s) ==
  LET h == Removed(list, s)
  IN /\ closing = "no"
     /\ list' = h /\ Interrupt(OneLeft(h))
     /\ UNCHANGED <<now, worker, next, closing>>

\* ~CSndQueue, after the last socket is gone.
SetClosing ==
  /\ closing = "no" /\ list.heap = <<>>
  /\ closing' = "set"
  /\ UNCHANGED <<list, now, worker, next, sched>>
SignalClosing ==
  /\ closing = "set"
  /\ closing' = "told"
  /\ worker' = IF worker = "wait" THEN "ask" ELSE worker
  /\ UNCHANGED <<list, now, next, sched>>

-----------------------------------------------------------------------------
(* The sending worker *)

GetNextProcTime ==
  /\ worker = "ask" /\ closing = "no"
  /\ IF list.heap = <<>> THEN worker' = "check" /\ next' = 0
                         ELSE worker' = "arm" /\ next' = TimeOf(list, 0)
  /\ UNCHANGED <<list, now, sched, closing>>

SleepTo ==
  /\ worker = "arm"
  /\ IF now < next THEN worker' = "sleep" /\ sched' = next ELSE worker' = "pop" /\ UNCHANGED sched
  /\ UNCHANGED <<list, now, next, closing>>

WakeUp ==
  /\ worker = "sleep" /\ now >= sched
  /\ worker' = "pop"
  /\ UNCHANGED <<list, now, next, sched, closing>>

Due == list.heap # <<>> /\ now >= TimeOf(list, 0)

\* pop: nothing, when nothing is due any more.
PopNothing ==
  /\ worker = "pop" /\ ~ Due
  /\ worker' = "ask"
  /\ UNCHANGED <<list, now, next, sched, closing>>
\* The first socket has nothing to send, or must not.
PopDrops ==
  /\ worker = "pop" /\ Due
  /\ list' = Removed(list, At(list, 0))
  /\ Interrupt(OneLeft(list'))
  /\ worker' = "ask"
  /\ UNCHANGED <<now, next, closing>>
\* It sends, and comes back at time t.
PopSends(t) ==
  LET s == At(list, 0)
      g == Removed(list, s)
      h == Inserted(g, s, t)
  IN /\ worker = "pop" /\ Due /\ t >= now
     /\ list' = h
     /\ Interrupt(OneLeft(g) \/ NewFirst(g, h, s))
     /\ worker' = "ask"
     /\ UNCHANGED <<now, next, closing>>

\* Under m_WindowLock, which the signals need as well, the worker looks once more at
\* what it waits for.  Mutant: it does not look at the list.
WaitsUnlooked == closing = "no"
Waits == closing = "no" /\ list.heap = <<>>

WaitForData ==
  /\ worker = "check"
  /\ worker' = IF Waits THEN "wait" ELSE "ask"
  /\ UNCHANGED <<list, now, next, sched, closing>>

WorkerEnds ==
  /\ worker = "ask" /\ closing # "no"
  /\ worker' = "end"
  /\ UNCHANGED <<list, now, next, sched, closing>>

SndQueueNext ==
  \/ Tick \/ SetClosing \/ SignalClosing
  \/ \E s \in Socks : Update(s) \/ Reschedule(s) \/ Close(s)
  \/ GetNextProcTime \/ SleepTo \/ WakeUp \/ PopNothing \/ PopDrops \/ WaitForData \/ WorkerEnds
  \/ \E t \in AtOnce .. MaxTime : PopSends(t)

-----------------------------------------------------------------------------
\* The heap and the sockets agree on where each socket is, no socket is in it twice or
\* left out of it, and the first one is the earliest, whichever are inserted, rescheduled
\* and removed.  This is so with up to five sockets on a multiplexer.  With six the first
\* need not be the earliest: remove_ lets the socket it moves only sink (queue.cpp:410).
HeapExact ==
  /\ \A i \in DOMAIN list.heap : list.loc[list.heap[i]] = i - 1
  /\ \A s \in Socks : Listed(list, s) => s \in Range(list.heap)
  /\ \A i \in DOMAIN list.heap : TimeOf(list, 0) <= list.ts[list.heap[i]]

\* The worker never waits for a signal that was given already: while it waits there is
\* nothing to send, and nobody has told it to end.
NoLostSignal == worker = "wait" => list.heap = <<>> /\ closing # "told"
=============================================================================
