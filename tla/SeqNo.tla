------------------------------- MODULE SeqNo -------------------------------
(***************************************************************************)
(* The circular numbers of UDT (class CSeqNo of udt/src/common.h).  A      *)
(* packet's sequence number counts 0..MaxSeqNo and starts again at 0; two  *)
(* numbers are compared as if they were less than half the circle apart.   *)
(* In the program MaxSeqNo is 0x7FFFFFFF and SeqNoTH is 0x3FFFFFFF.         *)
(***************************************************************************)
EXTENDS Integers

CONSTANTS
  MaxSeqNo,   \* CSeqNo::m_iMaxSeqNo, the largest sequence number
  SeqNoTH     \* CSeqNo::m_iSeqNoTH, the threshold for comparing

ASSUME SeqNoAssumption ==
  /\ SeqNoTH \in Nat \ {0}
  /\ MaxSeqNo = 2 * SeqNoTH + 1

SeqNos == 0 .. MaxSeqNo

abs(n) == IF n < 0 THEN -n ELSE n

\* The sign of the distance from seq2 to seq1.
seqcmp(seq1, seq2) ==
  IF abs(seq1 - seq2) < SeqNoTH THEN seq1 - seq2 ELSE seq2 - seq1

\* How many numbers lie between the two, both included.
seqlen(seq1, seq2) ==
  IF seq1 <= seq2 THEN seq2 - seq1 + 1 ELSE seq2 - seq1 + MaxSeqNo + 2

\* How far seq2 is ahead of seq1.
seqoff(seq1, seq2) ==
  IF abs(seq1 - seq2) < SeqNoTH THEN seq2 - seq1
  ELSE IF seq1 < seq2 THEN seq2 - seq1 - MaxSeqNo - 1
  ELSE seq2 - seq1 + MaxSeqNo + 1

incseq(seq) == IF seq = MaxSeqNo THEN 0 ELSE seq + 1

decseq(seq) == IF seq = 0 THEN MaxSeqNo ELSE seq - 1

\* incseq with an offset.
incseqBy(seq, inc) ==
  IF MaxSeqNo - seq >= inc THEN seq + inc ELSE seq - MaxSeqNo + inc - 1

\* The numbers from seq1 to seq2 on the circle, and those from seq1 up to but
\* without seq2: what the lists below stand for.
Span(seq1, seq2) == {incseqBy(seq1, k) : k \in 0 .. seqlen(seq1, seq2) - 1}
SpanTo(seq1, seq2) == {incseqBy(seq1, k) : k \in 0 .. seqlen(seq1, seq2) - 2}
=============================================================================
