----------------------------- MODULE PktBuffers -----------------------------
(***************************************************************************)
(* The buffers of PktBuffer.tla under the calls that a connection makes    *)
(* (udt/src/core.cpp): one of them at a time, chosen in Init, with every   *)
(* order of arrivals, acknowledgements, reads and drops.                   *)
(*                                                                         *)
(* Packet k of the stream carries the bytes of Bytes(k); in message mode   *)
(* the packets belong to the messages of Pattern, one after the other.     *)
(***************************************************************************)
EXTENDS PktBuffer

CONSTANTS
  Pattern,     \* the messages: records of a length in packets and an order flag
  MaxSnd       \* m_iSndBufSize, in blocks

ASSUME PktBuffersAssumption == MaxSnd \in Nat \ {0}

VARIABLES
  use,         \* the buffer in use: "send", "stream" or "message"
  sb, queue, added,          \* the send buffer, what it should hold, blocks ever added
  rb, base, out, nread,      \* the receive buffer, packets acknowledged, the last result
                             \* and the number of bytes read
  gone, delivered            \* messages given up by the sender, messages read

vars == <<use, sb, queue, added, rb, base, out, nread, gone, delivered>>
sndVars == <<sb, queue, added>>
rcvVars == <<rb, base, out, nread, gone, delivered>>

Starts == [m \in 0 .. Len(Pattern) |-> FoldLeft(LAMBDA n, e : n + e.len, 0, SubSeq(Pattern, 1, m))]
Packets == Starts[Len(Pattern)]
MsgOf(k) == CHOOSE m \in 1 .. Len(Pattern) : Starts[m - 1] <= k /\ k < Starts[m]
Bytes(k) == <<2 * k, 2 * k + 1>>
UnitOf(k) == LET m == MsgOf(k)
             IN [data |-> Bytes(k), flag |-> 1, msg |-> m, order |-> Pattern[m].order,
                 first |-> k = Starts[m - 1], last |-> k = Starts[m] - 1]
MsgBytes(m) == FlattenSeq([i \in 1 .. Pattern[m].len |-> Bytes(Starts[m - 1] + i - 1)])

Init ==
  /\ use \in {"send", "stream", "message"}
  /\ sb = NewSndBuffer /\ queue = <<>> /\ added = 0
  /\ rb = NewRcvBuffer /\ base = 0 /\ out = <<>> /\ nread = 0
  /\ gone = {} /\ delivered = <<>>

-----------------------------------------------------------------------------
(* The sending side: send, packData and the ACK processing.                *)

Send(n) ==
  /\ use = "send" /\ added + n <= Packets
  /\ sb.count + n <= MaxSnd
  /\ LET data == [i \in 1 .. n |-> added + i]
     IN sb' = AddBuffer(sb, data) /\ queue' = queue \o data
  /\ added' = added + n
  /\ UNCHANGED <<use, rcvVars>>

PackNew ==
  /\ use = "send" /\ HasNew(sb)
  /\ sb' = NewRead(sb)
  /\ UNCHANGED <<use, queue, added, rcvVars>>

\* Blocks that were sent and are not acknowledged.
Unacked ==
  LET n[i \in DOMAIN sb.nx] == IF i = sb.curr THEN 0 ELSE 1 + n[sb.nx[i]]
  IN n[sb.first]

Acknowledged(n) ==
  /\ use = "send" /\ n <= Unacked
  /\ sb' = SndAckData(sb, n)
  /\ queue' = SubSeq(queue, n + 1, Len(queue))
  /\ UNCHANGED <<use, added, rcvVars>>

-----------------------------------------------------------------------------
(* The receiving side: processData, sendCtrl(2), recv, recvmsg.            *)

Receiving == use \in {"stream", "message"}

Arrive(k) ==
  /\ Receiving /\ base + k < Packets
  /\ k < AvailBufSize(rb)
  /\ rb' = AddData(rb, UnitOf(base + k), k)
  /\ UNCHANGED <<use, base, out, nread, gone, delivered, sndVars>>

\* The packets before the first one that is missing and still wanted.
AckTo(n) ==
  /\ Receiving /\ base + n <= Packets
  /\ \A k \in 0 .. n - 1 : \/ ~ CanAdd(rb, k)
                           \/ MsgOf(base + k) \in gone
  /\ n <= AvailBufSize(rb)
  /\ rb' = RcvAckData(rb, n)
  /\ base' = base + n
  /\ UNCHANGED <<use, out, nread, gone, delivered, sndVars>>

Recv(len) ==
  /\ use = "stream" /\ RcvDataSize(rb) > 0
  /\ LET r == ReadBuffer(rb, len)
     IN rb' = r.buf /\ out' = r.out /\ nread' = nread + Len(r.out)
  /\ UNCHANGED <<use, base, gone, delivered, sndVars>>

RecvMsg ==
  /\ use = "message"
  /\ LET r == ReadMsg(rb)
     IN /\ rb' = r.buf /\ rb' # rb
        /\ out' = r.out
        /\ delivered' = IF r.out = <<>> THEN delivered
                        ELSE Append(delivered, MsgOf(Head(r.out) \div 2))
  /\ UNCHANGED <<use, base, nread, gone, sndVars>>

\* A drop request, which may come again, and before late packets of its message.  What
\* is missing of the message is no longer waited for when it follows what is known of.
\* dropMsg marks the units before the furthest one whose whole message field equals the
\* number: those of an unordered message that neither begin nor end it.
Furthest == IF rb.max = 0 /\ CanAdd(rb, 0) THEN base - 1 ELSE base + rb.max
DropMsg(m) ==
  /\ use = "message"
  /\ base < Starts[m]
  /\ Starts[m - 1] <= Furthest + 1 \/ m - 1 \in gone
  /\ gone' = gone \cup {m}
  /\ rb' = [rb EXCEPT !.unit =
              [p \in Positions |-> IF /\ @[p] # Nothing
                                      /\ Pos(p - rb.start) < RcvDataSize(rb) + rb.max
                                      /\ @[p].msg = m /\ ~ @[p].order
                                      /\ ~ @[p].first /\ ~ @[p].last
                                   THEN [@[p] EXCEPT !.flag = 3] ELSE @[p]]]
  /\ UNCHANGED <<use, base, out, nread, delivered, sndVars>>

Next ==
  \/ \E n \in 1 .. MaxSnd : Send(n)
  \/ PackNew
  \/ \E n \in 1 .. MaxSnd : Acknowledged(n)
  \/ \E k \in Positions : Arrive(k)
  \/ \E n \in Positions \ {0} : AckTo(n)
  \/ \E len \in 1 .. 3 : Recv(len)
  \/ RecvMsg
  \/ \E m \in 1 .. Len(Pattern) : DropMsg(m)

Spec == Init /\ [][Next]_vars

-----------------------------------------------------------------------------
(* Properties.                                                             *)

\* The blocks from the first to the last are the data that was added and not
\* acknowledged, in order, whenever blocks were inserted into the circular list; a
\* retransmission at any offset finds the packet it asks for; at least one block is
\* free, so that a full buffer differs from an empty one.
SendBufferExact ==
  /\ sb.count = Len(queue)
  /\ \A k \in 0 .. Len(queue) - 1 : ReadAt(sb, k) = queue[k + 1]
  /\ sb.last = Forward(sb, sb.first, Len(queue))
  /\ sb.count < SndBlocks(sb)

\* recv hands out the bytes of the stream in order, none twice and none left out,
\* however it cuts the packets and however they arrived.
BytesInOrder ==
  use = "stream" =>
    /\ \A i \in DOMAIN out : out[i] = nread - Len(out) + i - 1
    /\ 2 * (base - RcvDataSize(rb)) + rb.notch = nread

\* recvmsg hands out whole messages only, none twice, and those that ask for it in
\* the order they were sent.
MessagesWhole ==
  use = "message" =>
    /\ out # <<>> => out = MsgBytes(delivered[Len(delivered)])
    /\ \A i, j \in DOMAIN delivered : i < j =>
         /\ delivered[i] # delivered[j]
         /\ Pattern[delivered[i]].order /\ Pattern[delivered[j]].order
              => delivered[i] < delivered[j]
=============================================================================
