------------------------------ MODULE UdtStream ------------------------------
(***************************************************************************)
(* The data path of a UDT connection (class CUDT of udt/src/core.cpp, with *)
(* CSndUList::pop of udt/src/queue.cpp), in one direction: end A sends a   *)
(* number of packets and closes, end B reads them.  Packets travel over a  *)
(* network that loses, repeats and reorders them.                          *)
(*                                                                         *)
(* A has three threads: the application, the worker of the sending queue   *)
(* (packData) and the worker of the receiving queue (processCtrl,          *)
(* checkTimers).  B has its application and its receiving worker.  Time is *)
(* counted in ticks of the least expiration time (m_ullMinExpInt, 300 ms), *)
(* which is much longer than the ACK timer (10 ms): a tick passes when     *)
(* nothing is under way, except for MaxFaults faults.                      *)
(***************************************************************************)
EXTENDS LossList, PktBuffer

CONSTANTS
  Packets,            \* how many packets the application at A writes
  InitSeqNo,          \* m_iISN of A
  SndBufSize,         \* m_iSndBufSize
  CongestionWindow,   \* m_dCongestionWindow, which the model holds constant
  SelfClock,          \* m_iSelfClockInterval: packets between lite ACKs
  ExpLimit,           \* expirations in a row after which the peer is dead (16)
  MaxFaults           \* bound: packets lost, repeated, overtaking or late, ACKs of ACKs
                      \* left out, and the network going down for good

ASSUME UdtStreamAssumption ==
  /\ {Packets, SndBufSize, CongestionWindow, SelfClock, ExpLimit} \subseteq Nat \ {0}
  /\ InitSeqNo \in SeqNos
  /\ MaxFaults \in Nat

VARIABLES
  snd,       \* the sending half of A's CUDT
  pop,       \* the lost packet packData took from the loss list, or None
  worker,    \* what is left to do of the ACK or timeout A's receiving worker is at
  app,       \* A's application: its state and how many packets it has written
  rcv,       \* the receiving half of B's CUDT
  reader,    \* B's application: state and the packets it read
  conn,      \* m_bConnected, m_bBroken and m_bShutdown of both ends
  exp,       \* m_iEXPCount and the ticks since m_ullLastRspTime of both ends
  net,       \* the packets under way to either end, in the order they were sent
  env        \* faults so far, and whether the network is down

vars == <<snd, pop, worker, app, rcv, reader, conn, exp, net, env>>

Ends == {"A", "B"}
Peer(e) == IF e = "A" THEN "B" ELSE "A"

\* m_bClosing is set together with m_bBroken, or by close() with m_bConnected reset.
Alive(e) == conn[e].connected /\ ~ conn[e].broken

Hear(e) == [exp EXCEPT ![e] = [count |-> 1, silent |-> 0]]

\* What is sent to e is under way, unless the network is down.
To(e, msgs) == IF env.cut THEN net ELSE [net EXCEPT ![e] = @ \o msgs]

\* The k-th packet under way to e arrives and is answered.  It is a fault if it
\* overtakes another one, or is to arrive once more.
ArrivesWith(e, k, answers, others) ==
  \E again \in BOOLEAN :
    LET faults == env.faults + others + (IF k > 1 THEN 1 ELSE 0) + (IF again THEN 1 ELSE 0)
        rest == IF again THEN net[e] ELSE RemoveAt(net[e], k)
    IN /\ faults <= MaxFaults
       /\ env' = [env EXCEPT !.faults = faults]
       /\ net' = [To(Peer(e), answers) EXCEPT ![e] = rest]

Arrives(e, k, answers) == ArrivesWith(e, k, answers, 0)

\* The worker of e's receiving queue takes the packet.
Ready(e, k, type) ==
  /\ net[e][k].type = type
  /\ Alive(e)
  /\ e = "A" => worker.pc = "idle"

Init ==
  /\ snd = [buf |-> NewSndBuffer, loss |-> NoSndLoss, onList |-> FALSE,
            LastAck |-> InitSeqNo, LastDataAck |-> InitSeqNo, CurrSeqNo |-> decseq(InitSeqNo),
            FlowWindow |-> AvailBufSize(NewRcvBuffer), LastAck2 |-> -1]
  /\ pop = None
  /\ worker = [pc |-> "idle", ack |-> None]
  /\ app = [state |-> "open", written |-> 0]
  /\ rcv = [buf |-> NewRcvBuffer, loss |-> NoRcvLoss, CurrSeqNo |-> decseq(InitSeqNo),
            LastAck |-> InitSeqNo, LastAckAck |-> InitSeqNo, AckSeqNo |-> 0,
            window |-> NewAckWindow, PktCount |-> 0, LightACKCount |-> 1, justAcked |-> FALSE]
  /\ reader = [state |-> "open", got |-> <<>>]
  /\ conn = [e \in Ends |-> [connected |-> TRUE, broken |-> FALSE, shutdown |-> FALSE]]
  /\ exp = [e \in Ends |-> [count |-> 1, silent |-> 0]]
  /\ net = [e \in Ends |-> <<>>]
  /\ env = [faults |-> 0, cut |-> FALSE]

-----------------------------------------------------------------------------
(* The application at A.                                                   *)

\* send() copies what fits into the buffer, or waits while it is full; then the socket
\* enters the list of senders.
Send ==
  LET room == SndBufSize - snd.buf.count
      size == IF room < Packets - app.written THEN room ELSE Packets - app.written
      data == [k \in 1 .. size |-> app.written + k]
  IN /\ app.state = "open"
     /\ Alive("A")
     /\ size > 0
     /\ pop = None
     /\ snd' = [snd EXCEPT !.buf = AddBuffer(@, data), !.onList = TRUE]
     /\ app' = [app EXCEPT !.written = @ + size]
     /\ exp' = IF snd.buf.count = 0 THEN [exp EXCEPT !["A"].silent = 0] ELSE exp
     /\ UNCHANGED <<pop, worker, rcv, reader, conn, net, env>>

SendFails ==
  /\ app.state = "open"
  /\ app.written < Packets
  /\ ~ Alive("A")
  /\ app' = [app EXCEPT !.state = "failed"]
  /\ UNCHANGED <<snd, pop, worker, rcv, reader, conn, exp, net, env>>

\* close() lingers while there are packets in the buffer and the connection is up.
\* Mutant: while there are unsent ones.
LingersWhileUnsent == ~ conn["A"].broken /\ HasNew(snd.buf)
Lingers == ~ conn["A"].broken /\ snd.buf.count > 0

Closed(state) ==
  /\ app.state = "open"
  /\ app.written = Packets
  /\ pop = None
  /\ app' = [app EXCEPT !.state = state]
  /\ conn' = [conn EXCEPT !["A"].connected = FALSE]
  /\ snd' = [snd EXCEPT !.onList = FALSE]
  /\ net' = IF conn["A"].shutdown THEN net ELSE To("B", <<[type |-> "shutdown"]>>)
  /\ UNCHANGED <<pop, worker, rcv, reader, exp, env>>

Close == ~ Lingers /\ Closed(IF snd.buf.count = 0 THEN "closed" ELSE "failed")

\* It has lingered for 180 s.  The model does not count them: the reader may be so slow
\* at any moment.
CloseLate == Lingers /\ Closed("late")

-----------------------------------------------------------------------------
(* The list of senders and its worker: pop holds the list's lock, so that  *)
(* update waits while a packet is packed.                                  *)

\* What a worker does last: update(), which puts the socket on the list.  Mutant: it
\* forgets to.
Idle == [pc |-> "idle", ack |-> None]
NoRearm == Idle
Rearm == [pc |-> "arm", ack |-> None]

ArmWorker ==
  /\ worker.pc = "arm"
  /\ pop = None
  /\ snd' = [snd EXCEPT !.onList = TRUE]
  /\ worker' = Idle
  /\ UNCHANGED <<pop, app, rcv, reader, conn, exp, net, env>>

\* A connection that is gone leaves the list.
PopBroken ==
  /\ snd.onList /\ pop = None
  /\ ~ Alive("A")
  /\ snd' = [snd EXCEPT !.onList = FALSE]
  /\ UNCHANGED <<pop, worker, app, rcv, reader, conn, exp, net, env>>

\* packData with a lost packet: its number leaves the loss list ...
PopLost ==
  /\ snd.onList /\ pop = None
  /\ Alive("A")
  /\ snd.loss.len > 0
  /\ pop' = FirstLost(snd.loss)
  /\ snd' = [snd EXCEPT !.loss = SndPop(@)]
  /\ UNCHANGED <<worker, app, rcv, reader, conn, exp, net, env>>

\* ... and, with m_AckLock, it is read from the buffer, unless it was acknowledged
\* in between: then nothing is sent and the socket leaves the list.  Mutant: counted
\* from m_iSndLastAck, which a lite ACK moves too.
OffsetFromAck(seq) == seqoff(snd.LastAck, seq)
OffsetInBuffer(seq) == seqoff(snd.LastDataAck, seq)

PackLost ==
  LET offset == OffsetInBuffer(pop)
  IN /\ pop # None
     /\ pop' = None
     /\ IF offset < 0
        THEN snd' = [snd EXCEPT !.onList = FALSE] /\ UNCHANGED net
        ELSE /\ net' = To("B", <<[type |-> "data", seq |-> pop, data |-> ReadAt(snd.buf, offset)]>>)
             /\ UNCHANGED snd
     /\ UNCHANGED <<worker, app, rcv, reader, conn, exp, env>>

\* packData without a loss: the next packet, if there is one and the windows allow.
Window == IF snd.FlowWindow < CongestionWindow THEN snd.FlowWindow ELSE CongestionWindow
WindowOpen == Window >= seqlen(snd.LastAck, incseq(snd.CurrSeqNo))

PackNew ==
  LET seq == incseq(snd.CurrSeqNo)
  IN /\ snd.onList /\ pop = None
     /\ Alive("A")
     /\ snd.loss.len = 0
     /\ IF WindowOpen /\ HasNew(snd.buf)
        THEN /\ snd' = [snd EXCEPT !.buf = NewRead(@), !.CurrSeqNo = seq]
             /\ net' = To("B", <<[type |-> "data", seq |-> seq, data |-> ReadNew(snd.buf)]>>)
        ELSE snd' = [snd EXCEPT !.onList = FALSE] /\ UNCHANGED net
     /\ UNCHANGED <<pop, worker, app, rcv, reader, conn, exp, env>>

-----------------------------------------------------------------------------
(* The receiving worker of A: processCtrl.                                 *)

\* An ACK, up to m_AckLock.  The ACK of the ACK goes out at once, or not at all if one
\* went out less than SYN ago; the code compares a number of CPU cycles with one of
\* microseconds, so this may happen at any time, and counts as a fault.  An ACK of what
\* was never sent condemns the connection.
RcvAck(k) ==
  LET m == net["A"][k]
      news == seqcmp(m.ack, snd.LastAck) >= 0
      bad == seqcmp(m.ack, incseq(snd.CurrSeqNo)) > 0
      moved == IF news /\ ~ bad THEN [snd EXCEPT !.FlowWindow = m.window, !.LastAck = m.ack]
               ELSE snd
  IN /\ Ready("A", k, "ack")
     /\ \/ /\ ArrivesWith("A", k, <<[type |-> "ack2", no |-> m.no]>>, 0)
           /\ snd' = [moved EXCEPT !.LastAck2 = m.no]
        \/ /\ m.no # snd.LastAck2
           /\ ArrivesWith("A", k, <<>>, 1)
           /\ snd' = moved
     /\ conn' = IF bad THEN [conn EXCEPT !["A"].broken = TRUE] ELSE conn
     /\ worker' = IF bad THEN worker ELSE [pc |-> "release", ack |-> m.ack]
     /\ exp' = Hear("A")
     /\ UNCHANGED <<pop, app, rcv, reader>>

\* The rest of it, with m_AckLock: the acknowledged packets leave the buffer and the
\* loss list.  Then the socket enters the list of senders.
Release ==
  LET offset == seqoff(snd.LastDataAck, worker.ack)
  IN /\ worker.pc = "release"
     /\ IF offset <= 0
        THEN worker' = Idle /\ UNCHANGED snd
        ELSE /\ snd' = [snd EXCEPT !.buf = SndAckData(@, offset),
                                   !.LastDataAck = worker.ack,
                                   !.loss = SndRemove(@, decseq(worker.ack))]
             /\ worker' = Rearm
     /\ UNCHANGED <<pop, app, rcv, reader, conn, exp, net, env>>

\* A lite ACK moves the window only.
RcvLite(k) ==
  LET m == net["A"][k]
  IN
  /\ Ready("A", k, "lite")
  /\ snd' = IF seqcmp(m.ack, snd.LastAck) >= 0
            THEN [snd EXCEPT !.FlowWindow = @ - seqoff(snd.LastAck, m.ack), !.LastAck = m.ack]
            ELSE snd
  /\ exp' = Hear("A")
  /\ Arrives("A", k, <<>>)
  /\ UNCHANGED <<pop, worker, app, rcv, reader, conn>>

\* A loss report: what is not acknowledged of it enters the loss list.
RcvNak(k) ==
  LET m == net["A"][k]
      bad == seqcmp(m.from, m.upto) > 0 \/ seqcmp(m.upto, snd.CurrSeqNo) > 0
      from == IF seqcmp(m.from, snd.LastAck) >= 0 THEN m.from ELSE snd.LastAck
  IN /\ Ready("A", k, "nak")
     /\ conn' = IF bad THEN [conn EXCEPT !["A"].broken = TRUE] ELSE conn
     /\ snd' = IF bad \/ seqcmp(m.upto, snd.LastAck) < 0 THEN snd
               ELSE [snd EXCEPT !.loss = SndInsert(@, from, m.upto)]
     /\ worker' = IF bad THEN worker ELSE Rearm
     /\ exp' = Hear("A")
     /\ Arrives("A", k, <<>>)
     /\ UNCHANGED <<pop, app, rcv, reader>>

-----------------------------------------------------------------------------
(* The receiving worker of B: processData, processCtrl and checkTimers.    *)

\* Loss detection.  Mutant: >= for >.
GapOrNot(seq) == seqcmp(seq, incseq(rcv.CurrSeqNo)) >= 0
Gap(seq) == seqcmp(seq, incseq(rcv.CurrSeqNo)) > 0

\* The losses after a packet was stored: more before it, or one less.  Mutant: a
\* packet sent again stays lost.
LossStays(seq) ==
  IF Gap(seq) THEN RcvInsert(rcv.loss, incseq(rcv.CurrSeqNo), decseq(seq)) ELSE rcv.loss
LossAfter(seq) ==
  IF Gap(seq) THEN RcvInsert(rcv.loss, incseq(rcv.CurrSeqNo), decseq(seq))
  ELSE IF seqcmp(seq, rcv.CurrSeqNo) > 0 THEN rcv.loss
  ELSE RcvRemove(rcv.loss, seq)

RcvData(k) ==
  LET m == net["B"][k]
      offset == seqoff(rcv.LastAck, m.seq)
      stored == /\ offset >= 0
                /\ offset < AvailBufSize(rcv.buf)
                /\ CanAdd(rcv.buf, offset)
      counted == [rcv EXCEPT !.PktCount = @ + 1]
  IN /\ Ready("B", k, "data")
     /\ exp' = Hear("B")
     /\ rcv' = IF ~ stored THEN counted
               ELSE [counted EXCEPT
                       !.buf = AddData(@, [data |-> <<m.data>>], offset),
                       !.loss = LossAfter(m.seq),
                       !.CurrSeqNo = IF seqcmp(m.seq, @) > 0 THEN m.seq ELSE @]
     /\ Arrives("B", k, IF stored /\ Gap(m.seq)
                THEN <<[type |-> "nak", from |-> incseq(rcv.CurrSeqNo), upto |-> decseq(m.seq)]>>
                ELSE <<>>)
     /\ UNCHANGED <<snd, pop, worker, app, reader, conn>>

\* The data an ACK acknowledged that the other side has got.
AckedBy(no) == AckedData(rcv.window, no)

RcvAck2(k) ==
  LET m == net["B"][k]
      ack == AckedBy(m.no)
  IN /\ Ready("B", k, "ack2")
     /\ exp' = Hear("B")
     /\ rcv' = IF ~ Known(rcv.window, m.no) THEN rcv
               ELSE [rcv EXCEPT !.window = Acknowledge(@, m.no),
                                !.LastAckAck = IF seqcmp(ack, @) > 0 THEN ack ELSE @]
     /\ Arrives("B", k, <<>>)
     /\ UNCHANGED <<snd, pop, worker, app, reader, conn>>

RcvAlive(e, k) ==
  /\ Ready(e, k, "alive")
  /\ exp' = Hear(e)
  /\ Arrives(e, k, <<>>)
  /\ UNCHANGED <<snd, pop, worker, app, rcv, reader, conn>>

RcvShutdown(e, k) ==
  /\ Ready(e, k, "shutdown")
  /\ conn' = [conn EXCEPT ![e].broken = TRUE, ![e].shutdown = TRUE]
  /\ exp' = Hear(e)
  /\ Arrives(e, k, <<>>)
  /\ UNCHANGED <<snd, pop, worker, app, rcv, reader>>

\* What an ACK acknowledges: all that comes before the first lost packet.
AckNow == IF rcv.loss.len = 0 THEN incseq(rcv.CurrSeqNo) ELSE FirstRcvLost(rcv.loss)

AckNews == AckNow # rcv.LastAckAck /\ seqcmp(AckNow, rcv.LastAck) > 0
AckAgain ==
  /\ AckNow # rcv.LastAckAck
  /\ AckNow = rcv.LastAck
  /\ ~ rcv.justAcked        \* RTT + 4 RTTVar have passed since the last one
  /\ seqcmp(rcv.LastAck, rcv.LastAckAck) > 0

\* The window that an ACK announces is never less than 2.
Avail(buf) == IF AvailBufSize(buf) < 2 THEN 2 ELSE AvailBufSize(buf)

\* The ACK timer: an ACK with news, or again the last one if it is not known to have
\* arrived.
AckTimer ==
  LET buf == IF AckNews THEN RcvAckData(rcv.buf, seqoff(rcv.LastAck, AckNow)) ELSE rcv.buf
      no == rcv.AckSeqNo + 1
      rested == [rcv EXCEPT !.PktCount = 0, !.LightACKCount = 1]
  IN /\ Alive("B")
     /\ rcv.PktCount > 0 \/ AckNews \/ AckAgain
     /\ IF AckNews \/ AckAgain
        THEN /\ rcv' = [rested EXCEPT !.buf = buf, !.LastAck = AckNow, !.AckSeqNo = no,
                                      !.window = Store(@, no, AckNow), !.justAcked = TRUE]
             /\ net' = To("A", <<[type |-> "ack", no |-> no, ack |-> AckNow, window |-> Avail(buf)]>>)
        ELSE rcv' = rested /\ UNCHANGED net
     /\ UNCHANGED <<snd, pop, worker, app, reader, conn, exp, env>>

LiteTimer ==
  /\ Alive("B")
  /\ SelfClock * rcv.LightACKCount <= rcv.PktCount
  /\ rcv' = [rcv EXCEPT !.LightACKCount = @ + 1]
  /\ net' = IF AckNow = rcv.LastAckAck THEN net ELSE To("A", <<[type |-> "lite", ack |-> AckNow]>>)
  /\ UNCHANGED <<snd, pop, worker, app, reader, conn, exp, env>>

-----------------------------------------------------------------------------
(* Expiration (checkTimers), at either end.                                *)

Due(e) == Alive(e) /\ exp[e].silent >= exp[e].count

SilentTooLong(e) == exp[e].count > ExpLimit

\* Nothing was heard for too long: the connection is given up.  The code also asks
\* for 5 s since the last expiration, which the 17th (17 * 300 ms) always meets.
Expire(e) ==
  /\ Due(e) /\ (e = "A" => worker.pc = "idle")
  /\ SilentTooLong(e)
  /\ conn' = [conn EXCEPT ![e].broken = TRUE]
  /\ worker' = IF e = "A" THEN Rearm ELSE worker
  /\ UNCHANGED <<snd, pop, app, rcv, reader, exp, net, env>>

\* Mutant: m_iEXPCount is not counted up.
WaitedSame(e) == [exp EXCEPT ![e].silent = 0]
Waited(e) == [exp EXCEPT ![e] = [count |-> @.count + 1, silent |-> 0]]

\* With data in the buffer, all that is not acknowledged counts as lost, unless there
\* are losses known already.
ExpireData ==
  /\ Due("A") /\ worker.pc = "idle"
  /\ ~ SilentTooLong("A")
  /\ snd.buf.count > 0
  /\ snd' = IF incseq(snd.CurrSeqNo) # snd.LastAck /\ snd.loss.len = 0
            THEN [snd EXCEPT !.loss = SndInsert(@, snd.LastAck, snd.CurrSeqNo)]
            ELSE snd
  /\ worker' = Rearm
  /\ exp' = Waited("A")
  /\ UNCHANGED <<pop, app, rcv, reader, conn, net, env>>

\* Without, the peer is told that this end is alive.
ExpireIdle(e) ==
  /\ Due(e) /\ (e = "A" => worker.pc = "idle" /\ snd.buf.count = 0)
  /\ ~ SilentTooLong(e)
  /\ net' = To(Peer(e), <<[type |-> "alive"]>>)
  /\ exp' = Waited(e)
  /\ UNCHANGED <<snd, pop, worker, app, rcv, reader, conn, env>>

-----------------------------------------------------------------------------
(* The application at B.                                                   *)

\* recv() of one packet's bytes; what was acknowledged can be read from a connection
\* that is gone.
Recv ==
  /\ reader.state = "open"
  /\ RcvDataSize(rcv.buf) > 0
  /\ \E r \in {ReadBuffer(rcv.buf, 1)} :
       /\ reader' = [reader EXCEPT !.got = @ \o r.out]
       /\ rcv' = [rcv EXCEPT !.buf = r.buf]
  /\ UNCHANGED <<snd, pop, worker, app, conn, exp, net, env>>

\* recv() throws, and the application closes its end.
RecvThrows(state) ==
  /\ reader.state = "open"
  /\ conn["B"].broken
  /\ reader' = [reader EXCEPT !.state = state]
  /\ conn' = [conn EXCEPT !["B"].connected = FALSE]
  /\ net' = IF conn["B"].shutdown THEN net ELSE To("A", <<[type |-> "shutdown"]>>)
  /\ UNCHANGED <<snd, pop, worker, app, rcv, exp, env>>

RecvFails == RcvDataSize(rcv.buf) = 0 /\ RecvThrows("ended")

\* The collector has closed the broken connection although there is data to read: it
\* looks in m_iBrokenCounter times, once a second, 60 after a shutdown and 30 after the
\* last expiration.  Again the model does not count.
RecvLate == RcvDataSize(rcv.buf) > 0 /\ RecvThrows("late")

-----------------------------------------------------------------------------
(* Time and the network.                                                   *)

\* Packets to an end that is gone are dropped by its queue.
Drop(e) ==
  /\ ~ Alive(e) /\ net[e] # <<>>
  /\ net' = [net EXCEPT ![e] = <<>>]
  /\ UNCHANGED <<snd, pop, worker, app, rcv, reader, conn, exp, env>>

Resting ==
  /\ pop = None /\ worker.pc = "idle" /\ ~ snd.onList
  /\ Alive("B") => rcv.PktCount = 0 /\ ~ AckNews /\ ~ AckAgain
  /\ ~ Due("A") /\ ~ Due("B")

Silence == \A e \in Ends : net[e] = <<>>

\* A tick; it is a fault if packets are under way for longer than a timeout.
Tick ==
  /\ Resting
  /\ Alive("A") \/ Alive("B")
  /\ Silence \/ env.faults < MaxFaults
  /\ env' = [env EXCEPT !.faults = IF Silence THEN @ ELSE @ + 1]
  /\ exp' = [e \in Ends |-> IF Alive(e) THEN [exp[e] EXCEPT !.silent = @ + 1] ELSE exp[e]]
  /\ rcv' = [rcv EXCEPT !.justAcked = FALSE]
  /\ UNCHANGED <<snd, pop, worker, app, reader, conn, net>>

Lose(e, k) ==
  /\ env.faults < MaxFaults
  /\ net' = [net EXCEPT ![e] = RemoveAt(@, k)]
  /\ env' = [env EXCEPT !.faults = @ + 1]
  /\ UNCHANGED <<snd, pop, worker, app, rcv, reader, conn, exp>>

\* The network goes down, with all that is under way.
Cut ==
  /\ ~ env.cut /\ env.faults < MaxFaults
  /\ env' = [faults |-> env.faults + 1, cut |-> TRUE]
  /\ net' = [e \in Ends |-> <<>>]
  /\ UNCHANGED <<snd, pop, worker, app, rcv, reader, conn, exp>>
-----------------------------------------------------------------------------
Deliver ==
  \/ \E k \in DOMAIN net["A"] : RcvAck(k) \/ RcvLite(k) \/ RcvNak(k)
  \/ \E k \in DOMAIN net["B"] : RcvData(k) \/ RcvAck2(k)
  \/ \E e \in Ends : \E k \in DOMAIN net[e] : RcvAlive(e, k) \/ RcvShutdown(e, k)
  \/ \E e \in Ends : Drop(e)

SndWorker == PopBroken \/ PopLost \/ PackLost \/ PackNew
RcvWorker == ArmWorker \/ Release
Writer == Send \/ SendFails \/ Close
Reader == Recv \/ RecvFails
Timers == AckTimer \/ (\E e \in Ends : Expire(e) \/ ExpireIdle(e)) \/ ExpireData

System == RcvWorker \/ SndWorker \/ Timers \/ Tick \/ Deliver
Applications == Writer \/ Reader

Next ==
  \/ System \/ Applications \/ LiteTimer \/ CloseLate \/ RecvLate \/ Cut
  \/ \E e \in Ends : \E k \in DOMAIN net[e] : Lose(e, k)

\* The workers run, the network delivers what it does not lose, time goes on, and the
\* applications call; the lite ACK, the limits of time and the faults may never come.
Fairness == WF_vars(System) /\ WF_vars(Applications)

Spec == Init /\ [][Next]_vars /\ Fairness

-----------------------------------------------------------------------------
\* The number of a packet is its place in what A writes.
Index(seq) == seqoff(InitSeqNo, seq) + 1

Messages ==
  [type : {"data"}, seq : SeqNos, data : 1 .. Packets]
  \cup [type : {"ack"}, no : Nat, ack : SeqNos, window : 2 .. RcvSize]
  \cup [type : {"lite"}, ack : SeqNos]
  \cup [type : {"nak"}, from : SeqNos, upto : SeqNos]
  \cup [type : {"ack2"}, no : Nat]
  \cup [type : {"alive", "shutdown"}]

UnderWay(e) == {net[e][k] : k \in DOMAIN net[e]}

\* The network holds well-formed packets, every number is on the circle and no timer
\* passes its due time (checkTimers runs far more often than it expires).
TypeOK ==
  /\ \A e \in Ends : UnderWay(e) \subseteq Messages
  /\ {snd.LastAck, snd.LastDataAck, snd.CurrSeqNo} \subseteq SeqNos
  /\ {rcv.LastAck, rcv.LastAckAck, rcv.CurrSeqNo} \subseteq SeqNos
  /\ snd.FlowWindow \in 0 .. RcvSize /\ snd.buf.count \in 0 .. SndBufSize
  /\ \A e \in Ends : exp[e].count \in 1 .. ExpLimit + 1 /\ exp[e].silent \in 0 .. exp[e].count

\* A retransmission carries the packet of its number, however the acknowledgements
\* moved the buffer between the choice of the number and the reading of the packet
\* ("protect m_iSndLastDataAck from updating by ACK processing").
RightPacket == \A m \in UnderWay("B") : m.type = "data" => m.data = Index(m.seq)

\* The receiver's loss list holds exactly the numbers it has not got among those up
\* to the largest it has: the list and the buffer agree.
GapsExact ==
  Members(rcv.loss) =
    {seq \in SpanTo(rcv.LastAck, incseq(rcv.CurrSeqNo)) :
       CanAdd(rcv.buf, seqoff(rcv.LastAck, seq))}

\* Whatever is lost, repeated or late, an honest peer never sends what processCtrl
\* takes for "attack or bug" and breaks the connection for.
NotCondemned ==
  Alive("A") => \A m \in UnderWay("A") :
    /\ m.type = "ack" => seqcmp(m.ack, incseq(snd.CurrSeqNo)) <= 0
    /\ m.type = "nak" => seqcmp(m.from, m.upto) <= 0 /\ seqcmp(m.upto, snd.CurrSeqNo) <= 0

\* A lost packet is on its way to be sent again: while the sender has lost numbers,
\* its socket is on the list of senders or a thread is about to put it there.
LostNotForgotten ==
  (Alive("A") /\ snd.loss.len > 0)
    => snd.onList \/ pop # None \/ worker.pc # "idle"

\* The two ends implement the byte stream that the applications rely on: whatever the
\* network does, the reader reads what was written, in order and once each; while it is
\* up, close() returns when all is received or its linger time is over, and the reader
\* learns the end after everything a writer that closed so had written, unless it left
\* the last of it unread for a minute after that.
Stream == INSTANCE ByteStream WITH
  written <- app.written, got <- reader.got, writer <- app.state,
  reader <- reader.state, up <- ~ env.cut
ImplementsStream == Stream!Spec

\* The calls of both applications return, whatever happens to the network.  While it
\* is up they return only when all is read (ImplementsStream), also when the reader is
\* slow and the receive buffer full ("a minimum flow window of 2 is used, even if
\* buffer is full, to break potential deadlock").
CallsReturn == <>(app.state # "open" /\ reader.state # "open")
=============================================================================
