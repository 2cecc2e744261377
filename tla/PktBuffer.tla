----------------------------- MODULE PktBuffer -----------------------------
(***************************************************************************)
(* The packet buffers of a UDT connection: CSndBuffer and CRcvBuffer       *)
(* (udt/src/buffer.cpp) and CACKWindow (udt/src/window.cpp).  An operator  *)
(* takes the buffer before the call and returns the buffer after it, or    *)
(* what the call returns.                                                  *)
(***************************************************************************)
EXTENDS Integers, Sequences, SequencesExt, FiniteSets

CONSTANTS
  SndUnit,     \* blocks that a send buffer starts with and grows by
  RcvSize,     \* m_iSize of the receive buffer
  AckWinSize,  \* m_iSize of the ACK window
  Nothing      \* a slot or block without data, a call that finds none

ASSUME PktBufferAssumption ==
  /\ SndUnit \in Nat \ {0}
  /\ RcvSize \in Nat /\ RcvSize > 1
  /\ AckWinSize \in Nat /\ AckWinSize > 1

-----------------------------------------------------------------------------
(* CSndBuffer: blocks in a circular list.  first..last hold data, those    *)
(* before curr were sent once.                                             *)

NewSndBuffer ==
  [nx |-> [i \in 1 .. SndUnit |-> IF i = SndUnit THEN 1 ELSE i + 1],
   blk |-> [i \in 1 .. SndUnit |-> Nothing],
   first |-> 1, curr |-> 1, last |-> 1, count |-> 0]

SndBlocks(b) == Len(b.nx)      \* m_iSize

\* The block that is n steps after i.
Forward(b, i, n) ==
  LET at[k \in 0 .. n] == IF k = 0 THEN i ELSE b.nx[at[k - 1]]
  IN at[n]

\* increase: the new blocks follow the last one.
Increase(b) ==
  LET n == SndBlocks(b)
  IN [b EXCEPT !.nx = [i \in 1 .. n + SndUnit |-> IF i = b.last THEN n + 1
                                                  ELSE IF i = n + SndUnit THEN b.nx[b.last]
                                                  ELSE IF i > n THEN i + 1 ELSE b.nx[i]],
               !.blk = [i \in 1 .. n + SndUnit |-> IF i > n THEN Nothing ELSE @[i]]]

Full(b, size) == size + b.count >= SndBlocks(b)

\* addBuffer, and addBufferFromFile when the file is as long as it should be: at
\* least one block stays empty.
AddBuffer(b, data) ==
  LET size == Len(data)
      grown[k \in 0 .. size + 1] ==
        IF k = 0 THEN b
        ELSE IF Full(grown[k - 1], size) THEN Increase(grown[k - 1])
        ELSE grown[k - 1]
      g == grown[size + 1]
      at == [k \in 1 .. size |-> Forward(g, g.last, k - 1)]
  IN [g EXCEPT !.blk = [i \in DOMAIN @ |-> IF \E k \in 1 .. size : at[k] = i
                                           THEN data[CHOOSE k \in 1 .. size : at[k] = i]
                                           ELSE @[i]],
               !.last = Forward(g, g.last, size),
               !.count = @ + size]

\* readData: the next block that was not sent yet.
HasNew(b) == b.curr # b.last
ReadNew(b) == b.blk[b.curr]
NewRead(b) == [b EXCEPT !.curr = b.nx[@]]

\* readData with an offset from the first block, for a retransmission.
ReadAt(b, offset) == b.blk[Forward(b, b.first, offset)]

SndAckData(b, offset) ==
  [b EXCEPT !.first = Forward(b, @, offset), !.count = @ - offset]

-----------------------------------------------------------------------------
(* CRcvBuffer: a circular array of units.  start..ackpos is acknowledged   *)
(* and not read yet; notch is what was read of the unit at start.  A unit  *)
(* holds the bytes of its packet, whether the packet begins and ends a     *)
(* message, whether that message is to be read in order, and its flag: 1   *)
(* is occupied, 2 was read out of order, 3 is dropped.                     *)

Positions == 0 .. RcvSize - 1
Pos(n) == n % RcvSize

NewRcvBuffer ==
  [unit |-> [p \in Positions |-> Nothing], start |-> 0, ackpos |-> 0, max |-> 0, notch |-> 0]

RcvDataSize(b) ==
  IF b.ackpos >= b.start THEN b.ackpos - b.start ELSE RcvSize + b.ackpos - b.start

\* One position stays empty: a full buffer differs from an empty one.  Mutant: none does.
AvailToTheLast(b) == RcvSize - RcvDataSize(b)
AvailBufSize(b) == RcvSize - RcvDataSize(b) - 1

CanAdd(b, offset) == b.unit[Pos(b.ackpos + offset)] = Nothing

\* addData; the furthest position moves even when the slot is taken.
AddData(b, unit, offset) ==
  [b EXCEPT !.max = IF offset > @ THEN offset ELSE @,
            !.unit[Pos(b.ackpos + offset)] = IF @ = Nothing THEN unit ELSE @]

RcvAckData(b, len) ==
  [b EXCEPT !.ackpos = Pos(@ + len), !.max = IF @ > len THEN @ - len ELSE 0]

\* readBuffer: unit after unit while there are bytes wanted; a unit that is read
\* to its end is freed.
ReadBuffer(b, len) ==
  LET take(s, p) ==
        LET data == s.buf.unit[p].data
            rest == Len(data) - s.buf.notch
            n == IF rest > s.want THEN s.want ELSE rest
        IN IF s.want = 0 THEN s
           ELSE [buf |-> IF n = rest
                         THEN [s.buf EXCEPT !.unit[p] = Nothing, !.notch = 0, !.start = Pos(p + 1)]
                         ELSE [s.buf EXCEPT !.notch = @ + n],
                 want |-> s.want - n,
                 out |-> s.out \o SubSeq(data, s.buf.notch + 1, s.buf.notch + n)]
      read[k \in 0 .. RcvDataSize(b)] ==
        IF k = 0 THEN [buf |-> b, want |-> len, out |-> <<>>]
        ELSE take(read[k - 1], Pos(b.start + k - 1))
  IN read[RcvDataSize(b)]

-----------------------------------------------------------------------------
(* Messages (UDT_DGRAM).                                                   *)

Occupied(b, p) == b.unit[p] # Nothing /\ b.unit[p].flag = 1

\* The message that starts at p is there as a whole, or as far as acknowledged.
GoodFrom(b, p) ==
  LET upTo == Pos(b.ackpos - p + RcvSize)
      goes[k \in 0 .. upTo] ==
        \/ k = upTo
        \/ /\ Occupied(b, Pos(p + k))
           /\ b.unit[Pos(p + k)].last \/ goes[k + 1]
  IN goes[0]

\* scanMsg first frees what is at the start and is no beginning of a good message.
SkipBad(b) ==
  LET skip[k \in 0 .. RcvSize] ==
        IF k = 0 THEN b
        ELSE LET s == skip[k - 1]
             IN IF \/ s.start = s.ackpos
                   \/ /\ Occupied(s, s.start) /\ s.unit[s.start].first
                      /\ GoodFrom(s, s.start)
                THEN s
                ELSE [s EXCEPT !.unit[s.start] = Nothing, !.start = Pos(@ + 1)]
  IN skip[RcvSize]

\* Then it looks for the first whole message, which beyond the acknowledged part
\* must be one that may be read out of order: one unit after the other,
LookAt(s, m, q) ==
  LET passack == m.passack \/ (q = s.ackpos /\ m.steps > 0)
      p == IF ~ Occupied(s, q) THEN Nothing ELSE IF s.unit[q].first THEN q ELSE m.p
  IN IF m.found THEN m
     ELSE [p |-> p, q |-> q, passack |-> passack, steps |-> m.steps + 1,
           found |-> /\ Occupied(s, q) /\ s.unit[q].last
                     /\ p # Nothing
                     /\ ~ passack \/ ~ s.unit[q].order]

Looked(s) ==
  FoldLeft(LAMBDA m, q : LookAt(s, m, q),
           [p |-> Nothing, q |-> s.start, found |-> FALSE, passack |-> s.start = s.ackpos, steps |-> 0],
           [k \in 1 .. s.max + RcvDataSize(s) + 1 |-> Pos(s.start + k - 1)])

\* and when none was found, a message that fills the whole buffer is read in part.
Scanned(s, m) ==
  LET after == Pos(m.q + 1)
  IN [buf |-> s, p |-> m.p, q |-> IF m.found THEN m.q ELSE after,
      found |-> m.found \/ (m.p # Nothing /\ Pos(after + 1) = m.p),
      passack |-> m.passack \/ (~ m.found /\ after = s.ackpos)]

ScanFrom(s) == Scanned(s, Looked(s))
ScanMsg(b) ==
  IF b.start = b.ackpos /\ b.max <= 0
  THEN [buf |-> b, found |-> FALSE, p |-> Nothing, q |-> b.start, passack |-> TRUE]
  ELSE ScanFrom(SkipBad(b))

\* readMsg, with a buffer that is long enough: the units of the message are freed,
\* or marked as read when it was read ahead of the acknowledged part.
TakeMsg(m) ==
  LET n == IF m.found THEN Pos(m.q + 1 - m.p + RcvSize) ELSE 0
      at == [k \in 1 .. n |-> Pos(m.p + k - 1)]
      freed == [p \in Positions |-> IF \A k \in 1 .. n : at[k] # p THEN m.buf.unit[p]
                                    ELSE IF m.passack THEN [m.buf.unit[p] EXCEPT !.flag = 2]
                                    ELSE Nothing]
  IN [buf |-> [m.buf EXCEPT !.unit = freed,
                            !.start = IF m.found /\ ~ m.passack THEN Pos(m.q + 1) ELSE @],
      out |-> FlattenSeq([k \in 1 .. n |-> m.buf.unit[at[k]].data])]

ReadMsg(b) == TakeMsg(ScanMsg(b))

-----------------------------------------------------------------------------
(* CACKWindow: the acknowledgements that were sent and are not yet         *)
(* acknowledged themselves, in a circular array.                           *)

NewAckWindow ==
  [no |-> [i \in 0 .. AckWinSize - 1 |-> -1], ack |-> [i \in 0 .. AckWinSize - 1 |-> -1],
   head |-> 0, tail |-> 0]

AckLen(w) == (w.head - w.tail + AckWinSize) % AckWinSize
AckAt(w, k) == (w.tail + k) % AckWinSize

\* store: the oldest entry makes room.
Store(w, no, ack) ==
  LET head == (w.head + 1) % AckWinSize
  IN [w EXCEPT !.no[w.head] = no, !.ack[w.head] = ack, !.head = head,
               !.tail = IF head = @ THEN (@ + 1) % AckWinSize ELSE @]

\* acknowledge: the data that was acknowledged under this number, or Nothing; the
\* entries up to it are dropped.
Known(w, no) == \E k \in 0 .. AckLen(w) - 1 : w.no[AckAt(w, k)] = no
AckIndex(w, no) ==
  AckAt(w, CHOOSE k \in 0 .. AckLen(w) - 1 :
             /\ w.no[AckAt(w, k)] = no
             /\ \A j \in 0 .. k - 1 : w.no[AckAt(w, j)] # no)
AckedData(w, no) == IF Known(w, no) THEN w.ack[AckIndex(w, no)] ELSE Nothing
Acknowledge(w, no) ==
  LET i == AckIndex(w, no)
  IN IF ~ Known(w, no) THEN w
     ELSE IF w.tail <= w.head /\ i + 1 = w.head
     THEN [w EXCEPT !.head = 0, !.tail = 0, !.no[0] = -1]
     ELSE [w EXCEPT !.tail = (i + 1) % AckWinSize]
=============================================================================
