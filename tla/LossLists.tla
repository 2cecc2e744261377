----------------------------- MODULE LossLists -----------------------------
(***************************************************************************)
(* The loss lists of LossList.tla under every sequence of calls that the   *)
(* two ends of a connection make (udt/src/core.cpp).  The sender puts in   *)
(* what a loss report or a time-out names, takes out the first number to   *)
(* send it again and drops what is acknowledged; the receiver puts in the  *)
(* gap before a packet that is ahead, takes out what arrives late and what *)
(* a drop request names.  Sequence numbers go round the circle for ever.   *)
(*                                                                         *)
(* lost and missing are the sets the lists should stand for.               *)
(***************************************************************************)
EXTENDS SeqNo, FiniteSets, FiniteSetsExt

CONSTANTS
  Window,      \* the flow window: packets that may be unacknowledged
  DropWraps    \* whether a drop request may span the end of the circle

\* CUDT::connect gives the sender's list twice the flow window.
S == INSTANCE LossList WITH Size <- 2 * Window
R == INSTANCE LossList WITH Size <- Window + 1

VARIABLES
  side,       \* which of the two lists is in use, "sender" or "receiver"
  acked,      \* m_iSndLastDataAck or m_iRcvLastAck
  curr,       \* m_iSndCurrSeqNo or m_iRcvCurrSeqNo
  snd,        \* m_pSndLossList
  lost,       \* what snd should hold
  rcv,        \* m_pRcvLossList
  missing     \* what rcv should hold

vars == <<side, acked, curr, snd, lost, rcv, missing>>
sndVars == <<snd, lost>>
rcvVars == <<rcv, missing>>

Init ==
  /\ side \in {"sender", "receiver"}
  /\ acked \in SeqNos
  /\ curr = decseq(acked)
  /\ snd = S!NoSndLoss /\ lost = {}
  /\ rcv = R!NoRcvLoss /\ missing = {}

Flight == seqlen(acked, incseq(curr)) - 1
InFlight == Span(acked, curr)

\* The first of a set of numbers that lie close together.
FirstOf(set) == CHOOSE s \in set : \A t \in set : seqcmp(s, t) <= 0

-----------------------------------------------------------------------------
(* The sender.                                                             *)

\* packData: a new packet.
SendNew ==
  /\ side = "sender" /\ Flight < Window
  /\ curr' = incseq(curr)
  /\ UNCHANGED <<side, acked, sndVars, rcvVars>>

\* processCtrl(3): a loss report names a range that was sent.
LossReport(seq1, seq2) ==
  /\ side = "sender" /\ Flight > 0
  /\ seqcmp(seq1, seq2) <= 0
  /\ snd' = S!SndInsert(snd, seq1, seq2)
  /\ lost' = lost \cup Span(seq1, seq2)
  /\ UNCHANGED <<side, acked, curr, rcvVars>>

\* packData: the first lost packet is sent again.
Resend ==
  /\ side = "sender" /\ snd.len > 0
  /\ snd' = S!SndPop(snd)
  /\ lost' = lost \ {FirstOf(lost)}
  /\ UNCHANGED <<side, acked, curr, rcvVars>>

\* processCtrl(2): everything before ack is there.
SndAck(ack) ==
  /\ side = "sender" /\ Flight > 0
  /\ acked' = ack
  /\ snd' = S!SndRemove(snd, decseq(ack))
  /\ lost' = lost \ Span(acked, decseq(ack))
  /\ UNCHANGED <<side, curr, rcvVars>>

\* checkTimers: all that is unacknowledged, when nothing is known to be lost.
SndTimeout ==
  /\ side = "sender" /\ Flight > 0 /\ snd.len = 0
  /\ snd' = S!SndInsert(snd, acked, curr)
  /\ lost' = InFlight
  /\ UNCHANGED <<side, acked, curr, rcvVars>>

-----------------------------------------------------------------------------
(* The receiver.                                                           *)

\* processData: a packet the buffer does not hold.
Arrive(seq) ==
  /\ side = "receiver"
  /\ \/ /\ seqcmp(seq, curr) > 0
        /\ curr' = seq
        /\ IF seq = incseq(curr) THEN UNCHANGED rcvVars
           ELSE /\ rcv' = R!RcvInsert(rcv, incseq(curr), decseq(seq))
                /\ missing' = missing \cup Span(incseq(curr), decseq(seq))
     \/ /\ seq \in missing
        /\ rcv' = R!RcvRemove(rcv, seq)
        /\ missing' = missing \ {seq}
        /\ UNCHANGED curr
  /\ UNCHANGED <<side, acked, sndVars>>

\* sendCtrl(2): the acknowledgement goes up to the first gap.
RcvAck ==
  LET ack == IF rcv.len = 0 THEN incseq(curr) ELSE R!FirstRcvLost(rcv)
  IN /\ side = "receiver"
     /\ seqcmp(ack, acked) > 0
     /\ acked' = ack
     /\ UNCHANGED <<side, curr, sndVars, rcvVars>>

\* processCtrl(7): the sender gives the range up.
Drop(seq1, seq2) ==
  /\ side = "receiver"
  /\ seqcmp(seq1, seq2) <= 0
  /\ seqcmp(seq1, incseq(curr)) <= 0
  /\ seq1 <= seq2 \/ DropWraps
  /\ rcv' = R!RcvRemoveRange(rcv, seq1, seq2)
  /\ missing' = missing \ Span(seq1, seq2)
  /\ curr' = IF seqcmp(seq2, curr) > 0 THEN seq2 ELSE curr
  /\ UNCHANGED <<side, acked, sndVars>>

\* The numbers the receiver has room for.
Room == SpanTo(acked, incseqBy(acked, Window))

Next ==
  \/ SendNew
  \/ \E seq1, seq2 \in InFlight : LossReport(seq1, seq2)
  \/ Resend
  \/ \E seq \in InFlight : SndAck(incseq(seq))
  \/ SndTimeout
  \/ \E seq \in Room : Arrive(seq)
  \/ RcvAck
  \/ \E seq1, seq2 \in Room : Drop(seq1, seq2)

Spec == Init /\ [][Next]_vars

-----------------------------------------------------------------------------
(* Properties.                                                             *)

\* A list stands for a set, it counts the set's members, and its ranges are apart
\* and in order along the chain.
Stands(l, members, for) ==
  /\ members = for
  /\ l.len = Cardinality(for)

\* The sender's list holds the numbers that were reported or timed out and were
\* neither sent again nor acknowledged since, each once, and its length is their
\* number: no join, split or move of the ranges in the array of list.cpp loses a
\* number, makes one up or counts one twice.
SndListExact == Stands(snd, S!Members(snd), lost)

\* The receiver's list holds the gaps between the acknowledged packets and the
\* newest one, whichever of them arrive late, in whatever order.
RcvListExact == Stands(rcv, R!Members(rcv), missing)

\* The first number in each list, the one that is sent again and the one up to which
\* the receiver acknowledges, is the smallest.
SndFirst == lost # {} => S!FirstLost(snd) = FirstOf(lost)
RcvFirst == missing # {} => R!FirstRcvLost(rcv) = FirstOf(missing)
=============================================================================
