----------------------------- MODULE UnitQueue ------------------------------
(***************************************************************************)
(* CUnitQueue (udt/src/queue.cpp): the pool of packet units of a receiving *)
(* worker, in queues of equal size.  The worker takes the next free unit   *)
(* for every packet; CRcvBuffer (udt/src/buffer.cpp) marks a unit it keeps *)
(* in the worker's thread and frees it in the application's.  Both update  *)
(* m_iCount, which no lock protects: a step that reads it and one that     *)
(* writes it, so that one of two updates may be lost.                      *)
(***************************************************************************)
EXTENDS Integers, Sequences, FiniteSets

CONSTANTS
  QueueSize,     \* units in a queue
  Part, Whole,   \* the pool grows when Part / Whole of it is in use: 9 / 10 in the code
  MaxUsed,       \* units that the receive buffers hold together at most
  MaxDrift       \* bound on how far m_iCount may be off when updates overlap or a unit is freed

ASSUME UnitQueueAssumption ==
  /\ QueueSize \in Nat /\ QueueSize > 1
  /\ Part \in Nat \ {0} /\ Whole \in Nat /\ Part < Whole
  /\ Part * QueueSize <= Whole * (QueueSize - 1)
  /\ MaxUsed \in Nat /\ MaxDrift \in Nat

VARIABLES
  inUse,        \* whether m_iFlag of a unit is not 0, the units of all queues in order
  avail,        \* m_pAvailUnit, and with it m_pCurrQueue
  count,        \* m_iCount
  step,         \* the worker: "get", "fill" or "count"
  unit,         \* the unit it has
  seen,         \* what it read of m_iCount
  freeing,      \* the application is between reading and writing m_iCount
  read,         \* what it read
  refused       \* calls in a row that got no unit

unitVars == <<inUse, avail, count, step, unit, seen, freeing, read, refused>>

NoUnit == 0

UnitsInit ==
  /\ inUse = [u \in 1 .. QueueSize |-> FALSE] /\ avail = 1 /\ count = 0
  /\ step = "get" /\ unit = NoUnit /\ seen = 0
  /\ freeing = FALSE /\ read = 0 /\ refused = 0

Used(pool) == Cardinality({u \in DOMAIN pool : pool[u]})

\* increase: m_iCount is put right first, and decides.  Mutant: it is not.
RecountNot(pool, n) == n
Recount(pool, n) == Used(pool)
Increased(pool, n) ==
  IF Recount(pool, n) * Whole < Len(pool) * Part THEN pool
  ELSE [u \in 1 .. Len(pool) + QueueSize |-> IF u \in DOMAIN pool THEN pool[u] ELSE FALSE]

\* The units that the search looks at, in this order: from m_pAvailUnit to the end of
\* its queue, whose last unit is left out, the first of the queue, and then the other
\* queues.  Those between the first of the queue and m_pAvailUnit are left out as well.
Queues(pool) == Len(pool) \div QueueSize
QueueOf(u) == (u - 1) \div QueueSize
QueueStart(q) == q * QueueSize + 1
Searched == QueueSize - 1      \* units of a queue that are looked at
Order(pool) ==
  LET q == QueueOf(avail)
      rest == QueueStart(q) + Searched - avail
      Other(k) == QueueStart((q + 1 + (k \div Searched)) % Queues(pool)) + (k % Searched)
  IN [k \in 1 .. rest + 1 |-> IF k <= rest THEN avail + k - 1 ELSE QueueStart(q)]
     \o [k \in 1 .. (Queues(pool) - 1) * Searched |-> Other(k - 1)]

FreeIn(pool) == {k \in DOMAIN Order(pool) : ~ pool[Order(pool)[k]]}
FirstFree(pool) ==
  Order(pool)[CHOOSE k \in FreeIn(pool) : \A j \in FreeIn(pool) : k <= j]

-----------------------------------------------------------------------------
(* The worker *)

\* getNextAvailUnit.  A search that finds none ends where it began, at the start of the
\* queue; the pool may grow for the next call.
Crowded == count * Whole > Len(inUse) * Part
Pool == IF Crowded THEN Increased(inUse, count) ELSE inUse
Counted == IF Crowded THEN Recount(inUse, count) ELSE count
Exhausted == Counted >= Len(Pool)

GetNextAvailUnit ==
  /\ step = "get" /\ ~ Exhausted /\ FreeIn(Pool) # {}
  /\ inUse' = Pool /\ count' = Counted
  /\ avail' = FirstFree(Pool) /\ unit' = FirstFree(Pool)
  /\ step' = "fill" /\ refused' = 0
  /\ UNCHANGED <<seen, freeing, read>>

GetsNone ==
  /\ step = "get"
  /\ IF Exhausted
     THEN inUse' = Pool /\ count' = Counted /\ UNCHANGED avail
     ELSE /\ FreeIn(Pool) = {}
          /\ inUse' = Increased(Pool, Counted) /\ count' = Recount(Pool, Counted)
          /\ avail' = QueueStart(QueueOf(avail))
  /\ refused' = refused + 1
  /\ UNCHANGED <<step, unit, seen, freeing, read>>

\* Nothing was received, or nothing that is kept.
NotKept ==
  /\ step = "fill"
  /\ step' = "get" /\ unit' = NoUnit
  /\ UNCHANGED <<inUse, avail, count, seen, freeing, read, refused>>

Near == count - Used(inUse) \in -MaxDrift .. MaxDrift

\* addData keeps the unit; ++ m_iCount.
Keep ==
  /\ step = "fill" /\ Used(inUse) < MaxUsed
  /\ freeing => Near
  /\ inUse' = [inUse EXCEPT ![unit] = TRUE] /\ seen' = count
  /\ step' = "count"
  /\ UNCHANGED <<avail, count, unit, freeing, read, refused>>
CountUp ==
  /\ step = "count"
  /\ count' = seen + 1
  /\ step' = "get" /\ unit' = NoUnit /\ seen' = 0
  /\ UNCHANGED <<inUse, avail, freeing, read, refused>>

-----------------------------------------------------------------------------
(* The application, in readBuffer or readMsg *)

\* A unit that the buffer holds is read to its end; -- m_iCount.
Free(u) ==
  /\ ~ freeing /\ inUse[u] /\ Near
  /\ step = "count" => u # unit
  /\ inUse' = [inUse EXCEPT ![u] = FALSE] /\ read' = count
  /\ freeing' = TRUE
  /\ UNCHANGED <<avail, count, step, unit, seen, refused>>
CountDown ==
  /\ freeing
  /\ count' = read - 1
  /\ freeing' = FALSE /\ read' = 0
  /\ UNCHANGED <<inUse, avail, step, unit, seen, refused>>

UnitsNext ==
  \/ GetNextAvailUnit \/ GetsNone \/ NotKept \/ Keep \/ CountUp \/ CountDown
  \/ \E u \in DOMAIN inUse : Free(u)

-----------------------------------------------------------------------------
\* However wrong m_iCount has become, the worker loses at most one packet in a row for
\* want of a unit, it never fills a unit that a buffer holds, and the pool grows only
\* when what is really in use calls for it.
UnitsExact ==
  /\ refused <= 1
  /\ step = "fill" => ~ inUse[unit]
  /\ (Len(inUse) - QueueSize) * Part <= MaxUsed * Whole
=============================================================================
