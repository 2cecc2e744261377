------------------------------ MODULE LossList ------------------------------
(***************************************************************************)
(* The two loss lists of a UDT connection (udt/src/list.cpp): sequence     *)
(* numbers kept as ranges in a static circular array.  A range that starts *)
(* at number s lives at the slot s is away from the head's number, so a    *)
(* range is found without a search; d1 and d2 are its ends, d2 is None for *)
(* a range of one, and nx and pv chain the ranges in order.                *)
(*                                                                         *)
(* Every operator takes the list before the call and returns the list      *)
(* after it.  The links of a slot that is freed are cleared, which the     *)
(* code does not do: a slot is linked again before its links are read.     *)
(***************************************************************************)
EXTENDS SeqNo, FiniteSets, FiniteSetsExt, SequencesExt

CONSTANT Size     \* m_iSize, the length of the static arrays

ASSUME SizeAssumption == Size \in Nat \ {0}

None == -1
Slots == 0 .. Size - 1
Slot(n) == (n + Size) % Size

NoData == [i \in Slots |-> None]

\* The ranges from `from' on along the chain, up to but without `stop'.
Chain(nx, from, stop) ==
  LET rest[i \in Slots \cup {None}] ==
        IF i \in {stop, None} THEN {} ELSE {i} \cup rest[nx[i]]
  IN rest[from]

\* What a list stands for: the numbers of the ranges on its chain.
EndOf(l, i) == IF l.d2[i] = None THEN l.d1[i] ELSE l.d2[i]
Members(l) ==
  IF l.len = 0 THEN {}
  ELSE UNION {Span(l.d1[i], EndOf(l, i)) : i \in Chain(l.nx, l.head, None)}

\* Writes a range to a slot; d2 is written for two numbers and more only.
Put(l, i, seq1, seq2) ==
  [l EXCEPT !.d1[i] = seq1, !.d2[i] = IF seq2 # seq1 THEN seq2 ELSE @]

-----------------------------------------------------------------------------
(* CSndLossList: last is m_iLastInsertPos.                                 *)

NoSndLoss ==
  [d1 |-> NoData, d2 |-> NoData, nx |-> NoData, head |-> None, len |-> 0, last |-> None]

\* The last range, from `start' on, before the one that seq comes after.
LastBefore(l, start, seq) ==
  LET walk[i \in Slots] ==
        IF l.nx[i] # None /\ seqcmp(l.d1[l.nx[i]], seq) < 0 THEN walk[l.nx[i]] ELSE i
  IN walk[start]

\* One round of the loop that joins the range at i with the next one.
JoinNext(l, i) ==
  LET n == l.nx[i]
      repeated == IF seqcmp(EndOf(l, n), l.d2[i]) > 0
                  THEN IF seqcmp(l.d2[i], l.d1[n]) >= 0 THEN seqlen(l.d1[n], l.d2[i]) ELSE 0
                  ELSE seqlen(l.d1[n], EndOf(l, n))
  IN IF n = None \/ l.d2[i] = None \/ seqcmp(l.d1[n], incseq(l.d2[i])) > 0 THEN l
     ELSE [l EXCEPT !.d1[n] = None,
                    !.d2 = [@ EXCEPT ![n] = None,
                                     ![i] = IF seqcmp(EndOf(l, n), @) > 0 THEN EndOf(l, n) ELSE @],
                    !.nx = [@ EXCEPT ![n] = None, ![i] = l.nx[n]],
                    !.len = @ - repeated]

Coalesce(l, i) ==
  LET round[n \in 0 .. Size] == IF n = 0 THEN l ELSE JoinNext(round[n - 1], i)
  IN round[Size]

\* A range that starts inside the one at i: that one grows, if it has to.
Stretch(l, i, seq2) ==
  IF seqcmp(seq2, EndOf(l, i)) > 0
  THEN Coalesce([l EXCEPT !.d2[i] = seq2, !.last = i,
                          !.len = @ + seqlen(EndOf(l, i), seq2) - 1], i)
  ELSE [l EXCEPT !.last = i]

SndInsert(l, seq1, seq2) ==
  LET offset == seqoff(l.d1[l.head], seq1)
      loc == Slot(l.head + offset)
      node == [Put(l, loc, seq1, seq2) EXCEPT !.last = loc, !.len = @ + seqlen(seq1, seq2)]
      from == IF l.last # None /\ seqcmp(l.d1[l.last], seq1) < 0 THEN l.last ELSE l.head
      prior == LastBefore(l, from, seq1)
  IN IF l.len = 0
     THEN [Put(l, 0, seq1, seq2) EXCEPT !.head = 0, !.nx[0] = None, !.last = 0,
                                        !.len = seqlen(seq1, seq2)]
     ELSE IF offset < 0
     THEN Coalesce([node EXCEPT !.nx[loc] = l.head, !.head = loc], loc)
     ELSE IF seq1 = l.d1[loc] THEN Stretch(l, loc, seq2)
     ELSE IF seqcmp(EndOf(l, prior), seq1) < 0
     THEN Coalesce([node EXCEPT !.nx = [@ EXCEPT ![loc] = l.nx[prior], ![prior] = loc]], loc)
     ELSE Stretch(l, prior, seq2)

\* Splits the range at i: the numbers after seq move to the slot loc.
SplitAfter(l, i, seq, loc) ==
  [Put(l, loc, incseq(seq), l.d2[i]) EXCEPT
     !.nx = [@ EXCEPT ![loc] = l.nx[i], ![i] = loc],
     !.d2[i] = IF l.d1[i] = seq THEN None ELSE seq]

\* Frees the ranges before the one that becomes the head.
FreeUpTo(l, newHead) ==
  LET freed == Chain(l.nx, l.head, newHead)
  IN [l EXCEPT !.d1 = [i \in Slots |-> IF i \in freed THEN None ELSE @[i]],
               !.d2 = [i \in Slots |-> IF i \in freed THEN None ELSE @[i]],
               !.nx = [i \in Slots |-> IF i \in freed THEN None ELSE @[i]],
               !.len = @ - MapThenSumSet(LAMBDA i : seqlen(l.d1[i], EndOf(l, i)), freed),
               !.last = IF @ \in freed THEN None ELSE @,
               !.head = newHead]

\* remove: all the numbers that are not greater than seq.
SndRemove(l, seq) ==
  LET offset == seqoff(l.d1[l.head], seq)
      loc == Slot(l.head + offset)
      at == IF seq = l.d1[loc] THEN loc ELSE LastBefore(l, l.head, seq)
  IN IF l.len = 0 \/ offset < 0 THEN l
     ELSE IF seqcmp(EndOf(l, at), seq) > 0
     THEN FreeUpTo(SplitAfter(l, at, seq, Slot(loc + 1)), Slot(loc + 1))
     ELSE FreeUpTo(l, l.nx[at])

\* getLostSeq: the first lost number, which leaves the list.
FirstLost(l) == IF l.len = 0 THEN None ELSE l.d1[l.head]
SndPop(l) == IF l.len = 0 THEN l ELSE SndRemove(l, FirstLost(l))

-----------------------------------------------------------------------------
(* CRcvLossList: pv is m_piPrior and tail the last range.                  *)

NoRcvLoss ==
  [d1 |-> NoData, d2 |-> NoData, nx |-> NoData, pv |-> NoData,
   head |-> None, tail |-> None, len |-> 0]

\* insert: the numbers are larger than all those in the list.
RcvInsert(l, seq1, seq2) ==
  LET loc == Slot(l.head + seqoff(l.d1[l.head], seq1))
      longer == [l EXCEPT !.len = @ + seqlen(seq1, seq2)]
  IN IF l.len = 0
     THEN [Put(longer, 0, seq1, seq2) EXCEPT !.head = 0, !.tail = 0, !.nx[0] = None, !.pv[0] = None]
     ELSE IF l.d2[l.tail] # None /\ incseq(l.d2[l.tail]) = seq1
     THEN [longer EXCEPT !.d2[l.tail] = seq2]
     ELSE [Put(longer, loc, seq1, seq2) EXCEPT
             !.nx = [@ EXCEPT ![l.tail] = loc, ![loc] = None], !.pv[loc] = l.tail, !.tail = loc]

\* Puts the node at `new' in the place of the node at i, with d1 and d2 given.
RcvMove(l, i, new, seq1, seq2) ==
  [l EXCEPT !.d1 = [@ EXCEPT ![i] = None, ![new] = seq1],
            !.d2 = [@ EXCEPT ![i] = None, ![new] = IF seq2 # seq1 THEN seq2 ELSE @],
            !.nx = [j \in Slots |-> IF j = new THEN l.nx[i] ELSE IF j = i THEN None
                                    ELSE IF i # l.head /\ j = l.pv[i] THEN new ELSE @[j]],
            !.pv = [j \in Slots |-> IF j = new THEN l.pv[i] ELSE IF j = i THEN None
                                    ELSE IF i # l.tail /\ j = l.nx[i] THEN new ELSE @[j]],
            !.head = IF @ = i THEN new ELSE @,
            !.tail = IF @ = i THEN new ELSE @]

\* Takes the node at i, of a single number, off the chain.
RcvUnlink(l, i) ==
  [l EXCEPT !.d1[i] = None,
            !.nx = [j \in Slots |-> IF j = i THEN None
                                    ELSE IF i # l.head /\ j = l.pv[i] THEN l.nx[i] ELSE @[j]],
            !.pv = [j \in Slots |-> IF j = i THEN None
                                    ELSE IF j = l.nx[i]
                                    THEN IF i = l.head THEN None ELSE l.pv[i] ELSE @[j]],
            !.head = IF @ = i THEN l.nx[i] ELSE @,
            !.tail = IF @ = i /\ i # l.head THEN l.pv[i] ELSE @]

\* The range before loc, found by going down the slots.
RangeBelow(l, loc) ==
  LET down[i \in Slots] == IF l.d1[i] = None THEN down[Slot(i - 1)] ELSE i
  IN down[Slot(loc - 1)]

\* The last range when the one at i is split.  Mutant: it is not looked at.
TailKept(l, i, loc) == l.tail
TailAfterSplit(l, i, loc) == IF l.tail = i THEN loc ELSE l.tail

\* Splits the range at i around seq; the numbers after it move to loc.
RcvSplit(l, i, seq, loc) ==
  LET after == Put(l, loc, incseq(seq), l.d2[i])
  IN [after EXCEPT !.d2[i] = IF seq = incseq(l.d1[i]) THEN None ELSE decseq(seq),
                   !.nx = [@ EXCEPT ![loc] = l.nx[i], ![i] = loc],
                   !.pv = [j \in Slots |-> IF j = loc THEN i
                                           ELSE IF i # l.tail /\ j = l.nx[i] THEN loc ELSE @[j]],
                   !.tail = TailAfterSplit(l, i, loc)]

\* Whether seq is in the list: what remove returns.
RcvHas(l, seq) ==
  LET offset == seqoff(l.d1[l.head], seq)
      loc == Slot(l.head + offset)
      below == RangeBelow(l, loc)
  IN /\ l.len > 0
     /\ offset >= 0
     /\ seq = l.d1[loc] \/ (l.d2[below] # None /\ seqcmp(seq, l.d2[below]) <= 0)

\* remove: one number.
RcvRemove(l, seq) ==
  LET loc == Slot(l.head + seqoff(l.d1[l.head], seq))
      below == RangeBelow(l, loc)
      less == [l EXCEPT !.len = @ - 1]
  IN IF ~ RcvHas(l, seq) THEN l
     ELSE IF seq = l.d1[loc]
     THEN IF l.d2[loc] = None THEN RcvUnlink(less, loc)
          ELSE RcvMove(less, loc, Slot(loc + 1), incseq(seq), l.d2[loc])
     ELSE IF seq = l.d2[below]
     THEN [less EXCEPT !.d2[below] = IF seq = incseq(l.d1[below]) THEN None ELSE decseq(seq)]
     ELSE RcvSplit(less, below, seq, Slot(loc + 1))

\* remove with two numbers: the loops over the range, one remove for each.  When
\* the range wraps, the first loop ends before MaxSeqNo.
RcvRemoveRange(l, seq1, seq2) ==
  LET upTo(a, b) == [k \in 1 .. b - a + 1 |-> a + k - 1]
      seqs == IF seq1 <= seq2 THEN upTo(seq1, seq2)
              ELSE upTo(seq1, MaxSeqNo - 1) \o upTo(0, seq2)
  IN FoldLeft(RcvRemove, l, seqs)

FirstRcvLost(l) == IF l.len = 0 THEN None ELSE l.d1[l.head]
=============================================================================
