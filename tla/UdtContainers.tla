--------------------------- MODULE UdtContainers ---------------------------
(***************************************************************************)
(* The containers of the UDT library, one at a time: the loss lists as     *)
(* LossLists drives them, the packet buffers as PktBuffers does, the       *)
(* sending schedule of SndQueue or the pool of units of UnitQueue.         *)
(***************************************************************************)
EXTENDS PktBuffers, SndQueue, UnitQueue

CONSTANTS
  MaxSeqNo, SeqNoTH,    \* see SeqNo
  Window,               \* the flow window: packets that may be unacknowledged
  DropWraps             \* whether a drop request may span the end of the circle

VARIABLES
  of,                                          \* "lists", "buffers", "schedule" or "units"
  side, acked, curr, snd, lost, rcv, missing   \* see LossLists

Lists == INSTANCE LossLists

ASSUME WindowAssumption == Window \in Nat \ {0} /\ Window + 1 < SeqNoTH
ASSUME DropAssumption == DropWraps \in BOOLEAN

listVars == <<side, acked, curr, snd, lost, rcv, missing>>
containers == <<of, listVars, vars, sndQueueVars, unitVars>>

ContainersInit ==
  /\ of \in {"lists", "buffers", "schedule", "units"}
  /\ Lists!Init /\ Init /\ SndQueueInit /\ UnitsInit
  /\ of # "buffers" => use = "send"
  /\ of # "lists" => side = "sender" /\ acked = 0

ContainersNext ==
  \/ of = "lists" /\ Lists!Next /\ UNCHANGED <<of, vars, sndQueueVars, unitVars>>
  \/ of = "buffers" /\ Next /\ UNCHANGED <<of, listVars, sndQueueVars, unitVars>>
  \/ of = "schedule" /\ SndQueueNext /\ UNCHANGED <<of, listVars, vars, unitVars>>
  \/ of = "units" /\ UnitsNext /\ UNCHANGED <<of, listVars, vars, sndQueueVars>>

ContainersSpec == ContainersInit /\ [][ContainersNext]_containers

-----------------------------------------------------------------------------
\* The loss lists of list.cpp hold exactly what is lost, each number once, whichever
\* ranges are joined, split and moved in their arrays, and their first number is the
\* smallest (see LossLists).
ListsExact ==
  of = "lists" =>
    Lists!SndListExact /\ Lists!SndFirst /\ Lists!RcvListExact /\ Lists!RcvFirst

\* The packet buffers of buffer.cpp: the send buffer holds what was added and not
\* acknowledged, recv hands out its bytes in order, recvmsg whole messages, none twice
\* (see PktBuffers).
BuffersExact == of = "buffers" => SendBufferExact /\ BytesInOrder /\ MessagesWhole
=============================================================================
