--------------------------- MODULE Transfer_proofs ---------------------------
(***************************************************************************)
(* Proofs about Transfer: whatever breaks, a destination file that carries *)
(* the time of its source holds the content of its source, the two         *)
(* programs stay in step, and every file arrives.                          *)
(*                                                                         *)
(* All that has been sent and not yet been read is one stream of units.    *)
(* The receiving program reads it like an automaton: from where it stands, *)
(* the units that are still on their way lead it, one move for every unit, *)
(* to where the sending program believes it to be.  The invariant says so; *)
(* what each unit may be at its place is part of the moves.                *)
(*                                                                         *)
(* That every file arrives needs the same stream seen as a whole: a name   *)
(* is announced by a time that is not too old, what it opens is closed     *)
(* before the next one and before the end, and whatever is due is there,   *)
(* open, or still to come (last part).                                     *)
(***************************************************************************)
EXTENDS Transfer, ProofLemmas, SequenceTheorems, TLAPS

Units == Kinds \X Nat

\* Where a reader of the stream stands: the kind of what it reads next, the file it has
\* open and the time it is to get, its size, how much of it there is, how much of a block
\* is still to come, whether data are expected at all.
PlaceRecords ==
  [at : {"header", "FILELIST", "FILENAME", "F_SIZE", "end", "bad"},
   file : Files \cup {NoFile}, time : Nat, size : Nat, total : Nat, left : Nat,
   expects : BOOLEAN]
Places == {p \in PlaceRecords : /\ p.expects => p.total + p.left <= p.size
                                /\ p.left # 0 => p.expects /\ p.file \in Files}

AtHeader(p) == p.at = "header" /\ p.left = 0

\* What can be read at p without losing step.
Takes(p) ==
  IF p.at = "header" THEN IF p.left = 0 THEN Types ELSE {"byte"}
  ELSE IF p.at \in DOMAIN Payload THEN {Payload[p.at]} ELSE {}

\* A file is complete if no later version of its source makes it obsolete.
Finished(v, p) ==
  /\ p.file \in Files /\ p.expects /\ p.time \in 1 .. v[p.file]
  /\ v[p.file] = p.time => p.total = p.size /\ p.size = Size[p.file][p.time]

\* The unit u, sent while the sources were at most at their versions v, leads a reader
\* from p to q.
Moves(v, p, u, q) ==
  \/ Online /\ (p.at = "bad" \/ (p.at # "end" /\ u[1] \notin Takes(p))) /\ q.at = "bad"
  \/ AtHeader(p) /\ u[1] = "FILELIST" /\ q = [p EXCEPT !.at = "FILELIST"]
  \/ /\ AtHeader(p) /\ u[1] = "FILENAME" /\ p.file = NoFile /\ ~p.expects
     /\ q = [p EXCEPT !.at = "FILENAME", !.time = u[2]]
  \/ AtHeader(p) /\ u[1] = "F_SIZE" /\ p.file \in Files /\ q = [p EXCEPT !.at = "F_SIZE"]
  \/ /\ AtHeader(p) /\ u[1] = "DATA" /\ p.file \in Files /\ p.expects
     /\ q = [p EXCEPT !.left = Min({BlockLen, p.size - p.total})]
  \/ /\ AtHeader(p) /\ u[1] = "DATA_COMPLETE" /\ Finished(v, p)
     /\ q = [p EXCEPT !.file = NoFile, !.size = 0, !.expects = FALSE]
  \/ AtHeader(p) /\ u[1] = "COMPLETE" /\ q = [p EXCEPT !.at = "end"]
  \/ /\ p.at = "header" /\ p.left # 0 /\ u[1] = "byte"
     /\ v[p.file] <= p.time => u[2] = p.time
     /\ q = [p EXCEPT !.left = @ - 1, !.total = @ + 1]
  \/ p.at = "FILELIST" /\ u[1] = "list" /\ q = [p EXCEPT !.at = "header"]
  \/ /\ p.at = "FILENAME" /\ ~p.expects /\ u[1] = "name" /\ u[2] \in Files
            /\ p.time \in 1 .. v[u[2]]
     /\ q = [p EXCEPT !.at = "header", !.file = u[2]]
  \/ /\ p.at = "F_SIZE" /\ u[1] = "size"
     /\ q = [p EXCEPT !.at = "header", !.size = u[2], !.total = 0, !.expects = TRUE]

\* The units s lead a reader from p to q.
Leads(v, p, s, q) ==
  \E L \in [Nat -> Places] :
    /\ L[1] = p /\ L[Len(s) + 1] = q
    /\ \A i \in 1 .. Len(s) : Moves(v, L[i], s[i], L[i + 1])

Place(at, file, time, size, n, left, expects) ==
  [at |-> at, file |-> file, time |-> time, size |-> size, total |-> n, left |-> left,
   expects |-> expects]

\* Where the receiving program stands: at, with the header h, the file f open, its time t
\* and size s, n bytes written, expecting data or not, g of w bytes of a block read.  What
\* it does at "DATA_COMPLETE" is not part of it.
Stand(at, h, f, t, s, n, e, w, g) ==
  Place(IF at \in {"FILELIST", "FILENAME", "F_SIZE"} THEN at
        ELSE IF at = "COMPLETE" THEN "end" ELSE "header",
        IF at = "DATA_COMPLETE" THEN NoFile ELSE f,
        IF at = "FILENAME" THEN h[2] ELSE t,
        IF at = "DATA_COMPLETE" THEN 0 ELSE s,
        n + g,
        IF at = "DATA" THEN Min({BlockLen, s - n}) ELSE IF at = "block" THEN w - g ELSE 0,
        IF at = "DATA_COMPLETE" THEN FALSE ELSE e)
Standing == Stand(rmain, header, fout, mtime, rsize, total, expecting, need, Len(got))
Active == rmain \notin {"done", "failed", "desync"}

\* Where the sending program believes a reader of all it has sent to be.  Only what is
\* changed while it is being sent can mislead it.
SentTo(p) ==
  \/ Online /\ p.at = "bad"
  \/ /\ smain \in {"list", "wait", "file"} => AtHeader(p) /\ p.file = NoFile /\ ~p.expects
     /\ smain \in {"size", "data", "eof"} =>
          /\ p.at = "header" /\ p.file = cur /\ p.time \in 1 .. src[cur]
          /\ ~Online => p.time = src[cur]
     /\ smain = "size" => p.left = 0 /\ ~p.expects
     /\ smain \in {"data", "eof"} =>
          /\ p.expects
          /\ p.time = src[cur] =>
               /\ p.left = 0 /\ p.size = Size[cur][src[cur]]
               /\ p.total = IF smain = "data" THEN off ELSE p.size

\* What is on this side of the connection's end, and what is still to be sent.
Arriving == rpipe \o (rbuf \o net)
Leaving == sbuf \o (spipe \o sout)
Sending == conn = "up" /\ sndpc # "gone"

\* Nothing has harmed the stream, or only what Moves knows of.
Undamaged == Faults = 0 \/ harmed = 0

StreamInv ==
  Undamaged /\ Active =>
    \E q \in Places :
      /\ Leads(src, Standing, Arriving, q)
      /\ Sending => \E r \in Places : Leads(src, q, Leaving, r) /\ SentTo(r)

\* What the proofs need of the types.  The threads that move the stream hold nothing when
\* they turn to it, and no more is read of a block than is wanted.
TransferType ==
  /\ src \in [Files -> Nat] /\ \A f \in Files : src[f] \in 1 .. Len(Size[f])
  /\ dst \in [Files -> [data : Seq(Int), mtime : Int]]
  /\ smain \in {"list", "wait", "file", "size", "data", "eof", "pause", "exit"}
  /\ cur \in Nat \ {0} /\ off \in Nat /\ harmed \in Nat
  /\ smain \in {"size", "data", "eof"} => cur \in Files
  /\ sout \in Seq(Units) /\ spipe \in Seq(Units) /\ sbuf \in Seq(Units)
  /\ net \in Seq(Units) /\ rbuf \in Seq(Units) /\ rpipe \in Seq(Units)
  /\ rmain \in Types \cup {"header", "check", "block", "done", "failed", "desync"}
  /\ header \in Units /\ expecting \in BOOLEAN
  /\ fout \in Nat /\ path \in Nat /\ mtime \in Nat
  /\ rsize \in Nat /\ total \in Nat /\ need \in Nat /\ got \in Seq(Nat)

ThreadInv ==
  /\ sndpc = "read" => sbuf = <<>>
  /\ rcvpc = "recv" => rbuf = <<>>
  /\ expecting => total <= rsize
  /\ rmain = "block" => expecting /\ Len(got) <= need /\ total + need <= rsize
  /\ rmain # "block" => got = <<>>

\* The two programs stay in step.
StepInv == (rmain = "desync" => Online \/ harmed > 0) /\ StreamInv

\* What has been written of the file that is open.
Written ==
  /\ fout # NoFile => fout \in Files /\ path = fout /\ mtime \in 1 .. src[fout]
  /\ expecting /\ fout # NoFile /\ src[fout] = mtime =>
       /\ total <= Len(dst[fout].data)
       /\ \A i \in 1 .. total : dst[fout].data[i] = mtime
       /\ \A i \in 1 .. Len(got) : got[i] = mtime
  /\ rmain = "FILENAME" => ~expecting
  /\ rmain = "DATA_COMPLETE" =>
       /\ fout # NoFile /\ expecting
       /\ src[fout] = mtime => total = rsize /\ rsize = Size[fout][mtime]

FilesInv ==
  /\ \A f \in Files : dst[f].mtime <= src[f]
  /\ Active => Written
  /\ MtimeImpliesContent


-----------------------------------------------------------------------------
(* Sequences *)

\* The first units of a sequence, and the rest.
LEMMA CutLengths ==
  ASSUME NEW S, NEW s \in Seq(S), NEW n \in Nat
  PROVE  /\ FirstOf(s, n) \in Seq(S) /\ Rest(s, n) \in Seq(S)
         /\ Len(FirstOf(s, n)) = IF n <= Len(s) THEN n ELSE Len(s)
         /\ Len(Rest(s, n)) = IF n <= Len(s) THEN Len(s) - n ELSE 0
         /\ \A i \in 1 .. Len(FirstOf(s, n)) : FirstOf(s, n)[i] = s[i]
         /\ \A i \in 1 .. Len(Rest(s, n)) : Rest(s, n)[i] = s[n + i]
<1>1. PICK k \in Nat : Len(s) = k
  BY LenProperties
<1>2. Min({n, Len(s)}) = IF n <= k THEN n ELSE k
  BY <1>1, LesserOf
<1>3. PICK m \in Nat : m = (IF n <= k THEN n ELSE k)
  OBVIOUS
<1>4. FirstOf(s, n) = SubSeq(s, 1, m) /\ Rest(s, n) = SubSeq(s, n + 1, k)
  BY <1>1, <1>2, <1>3 DEF FirstOf, Rest
<1>5. /\ SubSeq(s, 1, m) \in Seq(S) /\ Len(SubSeq(s, 1, m)) = m
      /\ \A i \in 1 .. m : SubSeq(s, 1, m)[i] = s[i]
  <2>1. m <= k
    BY <1>3
  <2>2. \A i \in 1 .. m : s[i] \in S
    BY <2>1, <1>1, ElementOfSeq
  <2>3. /\ SubSeq(s, 1, m) \in Seq(S)
        /\ Len(SubSeq(s, 1, m)) = IF 1 <= m THEN m - 1 + 1 ELSE 0
        /\ \A i \in 1 .. m - 1 + 1 : SubSeq(s, 1, m)[i] = s[1 + i - 1]
    BY <2>2, SubSeqProperties
  <2> QED BY <2>3
<1>6. /\ SubSeq(s, n + 1, k) \in Seq(S)
      /\ Len(SubSeq(s, n + 1, k)) = IF n <= k THEN k - n ELSE 0
      /\ \A i \in 1 .. k - n : SubSeq(s, n + 1, k)[i] = s[n + i]
  <2>1. \A i \in n + 1 .. k : s[i] \in S
    BY <1>1, ElementOfSeq
  <2>2. /\ SubSeq(s, n + 1, k) \in Seq(S)
        /\ Len(SubSeq(s, n + 1, k)) = IF n + 1 <= k THEN k - (n + 1) + 1 ELSE 0
        /\ \A i \in 1 .. k - (n + 1) + 1 : SubSeq(s, n + 1, k)[i] = s[n + 1 + i - 1]
    BY <2>1, SubSeqProperties
  <2> QED BY <2>2
<1> QED BY <1>1, <1>3, <1>4, <1>5, <1>6

\* Nothing gets lost where a sequence is cut.
LEMMA CutWhole ==
  ASSUME NEW S, NEW s \in Seq(S), NEW n \in Nat
  PROVE  FirstOf(s, n) \o Rest(s, n) = s
<1>1. PICK k \in Nat : Len(s) = k
  BY LenProperties
<1>2. PICK x \in Seq(S), y \in Seq(S) : x = FirstOf(s, n) /\ y = Rest(s, n)
  BY CutLengths
<1>3. /\ Len(x) = IF n <= k THEN n ELSE k
      /\ Len(y) = IF n <= k THEN k - n ELSE 0
      /\ \A i \in 1 .. Len(x) : x[i] = s[i]
      /\ \A i \in 1 .. Len(y) : y[i] = s[n + i]
  BY <1>1, <1>2, CutLengths, Zenon
<1>4. PICK a \in Nat, b \in Nat : Len(x) = a /\ Len(y) = b
  BY LenProperties
<1>5. a + b = k
  BY <1>3, <1>4
<1>6. /\ x \o y \in Seq(S) /\ Len(x \o y) = k
      /\ \A i \in 1 .. k : (x \o y)[i] = IF i <= a THEN x[i] ELSE y[i - a]
  BY <1>4, <1>5, ConcatProperties
<1>7. ASSUME NEW i \in 1 .. k
      PROVE  (x \o y)[i] = s[i]
  <2>1. CASE i <= a
    BY <2>1, <1>3, <1>4, <1>6
  <2>2. CASE i > a
    <3>1. i - a \in 1 .. b /\ a = n
      BY <2>2, <1>3, <1>4, <1>5
    <3>2. y[i - a] = s[n + (i - a)]
      BY <3>1, <1>3, <1>4
    <3>3. n + (i - a) = i
      BY <3>1
    <3>4. (x \o y)[i] = y[i - a]
      BY <2>2, <1>6
    <3> QED BY <3>2, <3>3, <3>4
  <2>3. i <= a \/ i > a
    OBVIOUS
  <2> QED BY <2>1, <2>2, <2>3
<1>8. \A i \in 1 .. Len(x \o y) : (x \o y)[i] = s[i]
  BY <1>6, <1>7
<1>9. x \o y = s
  BY <1>1, <1>6, <1>8, SeqEqual
<1> QED BY <1>2, <1>9

\* A sequence is put together from its parts in any order.
LEMMA Associates ==
  ASSUME NEW s \in Seq(Units), NEW t \in Seq(Units), NEW u \in Seq(Units)
  PROVE  (s \o t) \o u = s \o (t \o u)
BY ConcatAssociative, SMTT(30)

-----------------------------------------------------------------------------
(* Readers *)

\* Versions of the sources.
Ages == [Files -> Nat]

LEMMA LeadsNowhere ==
  ASSUME NEW v \in Ages, NEW p \in Places
  PROVE  /\ Leads(v, p, <<>>, p)
         /\ \A q : Leads(v, p, <<>>, q) => q = p
<1>1. Len(<<>>) = 0
  BY EmptySeq
<1>2. [i \in Nat |-> p] \in [Nat -> Places]
  OBVIOUS
<1>3. Leads(v, p, <<>>, p)
  <2>1. PICK L \in [Nat -> Places] : L[1] = p /\ L[0 + 1] = p
    <3>1. [i \in Nat |-> p][1] = p /\ [i \in Nat |-> p][0 + 1] = p
      OBVIOUS
    <3> QED BY <3>1, <1>2
  <2>2. \A i \in 1 .. 0 : Moves(v, L[i], <<>>[i], L[i + 1])
    OBVIOUS
  <2> QED BY <1>1, <2>1, <2>2 DEF Leads
<1>4. \A q : Leads(v, p, <<>>, q) => q = p
  BY <1>1 DEF Leads
<1> QED BY <1>3, <1>4

\* A reader that goes from p to q by s and from q to r by t goes from p to r.
LEMMA LeadsOn ==
  ASSUME NEW v \in Ages, NEW s \in Seq(Units), NEW t \in Seq(Units),
         NEW p, NEW q, NEW r, Leads(v, p, s, q), Leads(v, q, t, r)
  PROVE  Leads(v, p, s \o t, r)
<1>1. PICK a \in Nat, b \in Nat : Len(s) = a /\ Len(t) = b
  BY LenProperties
<1>2. PICK L \in [Nat -> Places] :
        /\ L[1] = p /\ L[a + 1] = q /\ \A i \in 1 .. a : Moves(v, L[i], s[i], L[i + 1])
  BY <1>1 DEF Leads
<1>3. PICK M \in [Nat -> Places] :
        /\ M[1] = q /\ M[b + 1] = r /\ \A i \in 1 .. b : Moves(v, M[i], t[i], M[i + 1])
  BY <1>1 DEF Leads
<1>4. PICK N \in [Nat -> Places] :
        \A i \in Nat : N[i] = IF i <= a THEN L[i] ELSE M[i - a]
  <2>1. [i \in Nat |-> IF i <= a THEN L[i] ELSE M[i - a]] \in [Nat -> Places]
    OBVIOUS
  <2> QED BY <2>1
<1>5. /\ Len(s \o t) = a + b
      /\ \A i \in 1 .. a + b : (s \o t)[i] = IF i <= a THEN s[i] ELSE t[i - a]
  BY <1>1, ConcatProperties
<1>6. N[1] = p
  BY <1>2, <1>3, <1>4
<1>7. N[a + b + 1] = r
  <2>1. a + b + 1 \in Nat /\ ~ (a + b + 1 <= a) /\ a + b + 1 - a = b + 1
    OBVIOUS
  <2> QED BY <2>1, <1>3, <1>4
<1>8. ASSUME NEW i \in 1 .. a + b
      PROVE  Moves(v, N[i], (s \o t)[i], N[i + 1])
  <2>1. CASE i < a
    <3>1. i \in 1 .. a /\ i <= a /\ i + 1 <= a
      BY <2>1
    <3> QED BY <3>1, <1>2, <1>4, <1>5
  <2>2. CASE i = a
    <3>1. N[i] = L[a] /\ N[i + 1] = M[1] /\ L[a + 1] = M[1]
      BY <2>2, <1>2, <1>3, <1>4
    <3>2. a \in 1 .. a /\ (s \o t)[i] = s[a]
      BY <2>2, <1>5
    <3> QED BY <3>1, <3>2, <1>2
  <2>3. CASE i > a
    <3>1. PICK j \in 1 .. b : j = i - a /\ i + 1 - a = j + 1
      BY <2>3
    <3>2. N[i] = M[j] /\ N[i + 1] = M[j + 1]
      BY <2>3, <3>1, <1>4
    <3>3. (s \o t)[i] = t[j]
      BY <2>3, <3>1, <1>5
    <3>4. Moves(v, M[j], t[j], M[j + 1])
      BY <1>3
    <3> QED BY <3>2, <3>3, <3>4
  <2>4. i < a \/ i = a \/ i > a
    OBVIOUS
  <2> QED BY <2>1, <2>2, <2>3, <2>4
<1> QED BY <1>5, <1>6, <1>7, <1>8 DEF Leads

\* A reader of s and then t is somewhere in between.
LEMMA LeadsThrough ==
  ASSUME NEW v \in Ages, NEW s \in Seq(Units), NEW t \in Seq(Units),
         NEW p, NEW r, Leads(v, p, s \o t, r)
  PROVE  \E q \in Places : Leads(v, p, s, q) /\ Leads(v, q, t, r)
<1>1. PICK a \in Nat, b \in Nat : Len(s) = a /\ Len(t) = b
  BY LenProperties
<1>2. /\ Len(s \o t) = a + b
      /\ \A i \in 1 .. a + b : (s \o t)[i] = IF i <= a THEN s[i] ELSE t[i - a]
  BY <1>1, ConcatProperties
<1>3. PICK L \in [Nat -> Places] :
        /\ L[1] = p /\ L[a + b + 1] = r
        /\ \A i \in 1 .. a + b : Moves(v, L[i], (s \o t)[i], L[i + 1])
  BY <1>2 DEF Leads
<1>4. PICK M \in [Nat -> Places] : \A i \in Nat : M[i] = L[a + i]
  <2>1. [i \in Nat |-> L[a + i]] \in [Nat -> Places]
    OBVIOUS
  <2> QED BY <2>1
<1>5. ASSUME NEW i \in 1 .. a
      PROVE  Moves(v, L[i], s[i], L[i + 1])
  <2>1. i \in 1 .. a + b /\ i <= a
    OBVIOUS
  <2> QED BY <2>1, <1>2, <1>3
<1>6. ASSUME NEW i \in 1 .. b
      PROVE  Moves(v, M[i], t[i], M[i + 1])
  <2>1. PICK j \in 1 .. a + b : j = a + i /\ ~ (j <= a) /\ j - a = i
    OBVIOUS
  <2>2. (s \o t)[j] = t[i]
    BY <2>1, <1>2
  <2>3. M[i] = L[j] /\ M[i + 1] = L[j + 1]
    BY <2>1, <1>4, SMTT(30)
  <2> QED BY <2>2, <2>3, <1>3
<1>7. L[a + 1] \in Places /\ M[1] = L[a + 1] /\ M[b + 1] = r
  <2>1. a + (b + 1) = a + b + 1
    OBVIOUS
  <2> QED BY <2>1, <1>3, <1>4
<1>8. Leads(v, p, s, L[a + 1])
  BY <1>1, <1>3, <1>5 DEF Leads
<1>9. Leads(v, L[a + 1], t, r)
  BY <1>1, <1>6, <1>7 DEF Leads
<1> QED BY <1>7, <1>8, <1>9

\* Reading one unit.
LEMMA LeadsOne ==
  ASSUME NEW v \in Ages, NEW p \in Places, NEW q \in Places, NEW u \in Units
  PROVE  Leads(v, p, <<u>>, q) <=> Moves(v, p, u, q)
<1>1. Len(<<u>>) = 1 /\ <<u>>[1] = u
  OBVIOUS
<1>2. ASSUME Moves(v, p, u, q)
      PROVE  Leads(v, p, <<u>>, q)
  <2>1. PICK L \in [Nat -> Places] : L[1] = p /\ L[2] = q
    <3>1. [i \in Nat |-> IF i = 1 THEN p ELSE q] \in [Nat -> Places]
      OBVIOUS
    <3>2. [i \in Nat |-> IF i = 1 THEN p ELSE q][1] = p
              /\ [i \in Nat |-> IF i = 1 THEN p ELSE q][2] = q
      OBVIOUS
    <3> QED BY <3>1, <3>2
  <2>2. \A i \in 1 .. 1 : Moves(v, L[i], <<u>>[i], L[i + 1])
    BY <1>1, <1>2, <2>1
  <2> QED BY <1>1, <2>1, <2>2 DEF Leads
<1>3. ASSUME Leads(v, p, <<u>>, q)
      PROVE  Moves(v, p, u, q)
  <2>1. PICK L \in [Nat -> Places] :
          /\ L[1] = p /\ L[1 + 1] = q
          /\ \A i \in 1 .. 1 : Moves(v, L[i], <<u>>[i], L[i + 1])
    BY <1>1, <1>3 DEF Leads
  <2>2. Moves(v, L[1], <<u>>[1], L[1 + 1])
    BY <2>1
  <2> QED BY <1>1, <2>1, <2>2
<1> QED BY <1>2, <1>3

\* The reader takes the first unit and goes on.
LEMMA LeadsFirst ==
  ASSUME NEW v \in Ages, NEW s \in Seq(Units), s # <<>>, NEW p \in Places, NEW r \in Places,
         Leads(v, p, s, r)
  PROVE  \E q \in Places : Moves(v, p, Head(s), q) /\ Leads(v, q, Tail(s), r)
<1>1. Head(s) \in Units /\ Tail(s) \in Seq(Units) /\ s = <<Head(s)>> \o Tail(s)
  <2>1. Head(s) \in Units /\ Tail(s) \in Seq(Units)
    BY HeadTailProperties
  <2> QED BY <2>1
<1>2. <<Head(s)>> \in Seq(Units)
  BY <1>1
<1>3. PICK q \in Places : Leads(v, p, <<Head(s)>>, q) /\ Leads(v, q, Tail(s), r)
  BY <1>1, <1>2, LeadsThrough
<1> QED BY <1>1, <1>3, LeadsOne

LEMMA PlaceFields ==
  ASSUME NEW p \in Places
  PROVE  /\ p \in PlaceRecords
         /\ p.at \in {"header", "FILELIST", "FILENAME", "F_SIZE", "end", "bad"}
         /\ p.file \in Files \cup {NoFile} /\ p.expects \in BOOLEAN
         /\ p.time \in Nat /\ p.size \in Nat /\ p.total \in Nat /\ p.left \in Nat
         /\ p.expects => p.total + p.left <= p.size
         /\ p.left # 0 => p.expects /\ p.file \in Files
<1>1. /\ p \in PlaceRecords
      /\ p.expects => p.total + p.left <= p.size
      /\ p.left # 0 => p.expects /\ p.file \in Files
  BY DEF Places
<1> QED BY <1>1 DEF PlaceRecords

\* What has been sent stays readable when the sources grow older.
LEMMA MovesLater ==
  ASSUME NEW v \in Ages, NEW w \in Ages, \A f \in Files : v[f] <= w[f],
         NEW p \in Places, NEW u \in Units, NEW q, Moves(v, p, u, q)
  PROVE  Moves(w, p, u, q)
<1>1. p.time \in Nat /\ (p.left # 0 => p.file \in Files)
  BY PlaceFields
<1>2. ASSUME NEW f \in Files
      PROVE  v[f] \in Nat /\ w[f] \in Nat /\ v[f] <= w[f]
  BY DEF Ages
<1>3. Finished(v, p) => Finished(w, p)
  <2> SUFFICES ASSUME Finished(v, p)
               PROVE  Finished(w, p)
    OBVIOUS
  <2>1. p.file \in Files /\ p.expects /\ p.time \in 1 .. v[p.file]
    BY DEF Finished
  <2>2. p.time \in 1 .. w[p.file] /\ (w[p.file] = p.time => v[p.file] = p.time)
    BY <2>1, <1>1, <1>2
  <2> QED BY <2>1, <2>2 DEF Finished
<1>4. p.left # 0 /\ (v[p.file] <= p.time => u[2] = p.time)
        => (w[p.file] <= p.time => u[2] = p.time)
  BY <1>1, <1>2
<1>5. u[2] \in Files /\ p.time \in 1 .. v[u[2]] => p.time \in 1 .. w[u[2]]
  BY <1>1, <1>2
<1> QED BY <1>3, <1>4, <1>5 DEF Moves

LEMMA LeadsLater ==
  ASSUME NEW v \in Ages, NEW w \in Ages, \A f \in Files : v[f] <= w[f],
         NEW s \in Seq(Units), NEW p, NEW q, Leads(v, p, s, q)
  PROVE  Leads(w, p, s, q)
<1>1. PICK L \in [Nat -> Places] :
        /\ L[1] = p /\ L[Len(s) + 1] = q
        /\ \A i \in 1 .. Len(s) : Moves(v, L[i], s[i], L[i + 1])
  BY DEF Leads
<1>2. ASSUME NEW i \in 1 .. Len(s)
      PROVE  Moves(w, L[i], s[i], L[i + 1])
  <2>1. L[i] \in Places /\ s[i] \in Units
    BY ElementOfSeq
  <2> QED BY <2>1, <1>1, MovesLater
<1> QED BY <1>1, <1>2 DEF Leads

\* j bytes further.
Ahead(p, j) == [p EXCEPT !.left = p.left - j, !.total = p.total + j]

LEMMA AheadPlace ==
  ASSUME NEW p \in Places, NEW j \in 0 .. p.left, p.at = "header"
  PROVE  /\ Ahead(p, j) \in Places /\ Ahead(p, 0) = p
         /\ Ahead(p, j).at = "header" /\ Ahead(p, j).left = p.left - j
         /\ Ahead(p, j).file = p.file /\ Ahead(p, j).time = p.time
         /\ Ahead(p, j).total = p.total + j
         /\ Ahead(p, j).size = p.size /\ Ahead(p, j).expects = p.expects
<1>1. /\ p \in PlaceRecords /\ j \in Nat /\ j <= p.left
      /\ p.expects => p.total + p.left <= p.size
      /\ p.left # 0 => p.expects /\ p.file \in Files
  BY DEF Places, PlaceRecords
<1>2. PICK a : a = Ahead(p, j)
  OBVIOUS
<1>3. /\ a.at = "header" /\ a.left = p.left - j /\ a.file = p.file /\ a.time = p.time
      /\ a.total = p.total + j /\ a.size = p.size /\ a.expects = p.expects
  BY <1>1, <1>2 DEF Ahead, PlaceRecords
<1>4. p.left - j \in Nat /\ p.total + j \in Nat
  BY <1>1 DEF PlaceRecords
<1>5. a \in PlaceRecords
  BY <1>1, <1>2, <1>4 DEF Ahead, PlaceRecords
<1>6. /\ a.expects => a.total + a.left <= a.size
      /\ a.left # 0 => a.expects /\ a.file \in Files
  BY <1>1, <1>3 DEF PlaceRecords
<1>7. Ahead(p, 0) = p
  <2>1. p.left - 0 = p.left /\ p.total + 0 = p.total
    BY <1>1 DEF PlaceRecords
  <2> QED BY <1>1, <2>1 DEF Ahead, PlaceRecords
<1> QED BY <1>2, <1>3, <1>5, <1>6, <1>7 DEF Places

\* One byte of a block.
LEMMA AheadOne ==
  ASSUME NEW v \in Ages, NEW p \in Places, p.at = "header", NEW j \in Nat, j < p.left,
         NEW u \in Units, NEW q \in Places
  PROVE  /\ u[1] = "byte" /\ (v[p.file] <= p.time => u[2] = p.time)
              => Moves(v, Ahead(p, j), u, Ahead(p, j + 1))
         /\ Moves(v, Ahead(p, j), u, q) /\ (Online => u[1] = "byte")
              => /\ q = Ahead(p, j + 1) /\ u[1] = "byte"
                 /\ v[p.file] <= p.time => u[2] = p.time
<1>1. PICK a \in Places :
        /\ a = Ahead(p, j) /\ a.at = "header" /\ a.left = p.left - j /\ a.left # 0
        /\ a.file = p.file /\ a.time = p.time
  <2>1. p.left \in Nat
    BY PlaceFields
  <2> QED BY <2>1, AheadPlace
<1>2. [a EXCEPT !.left = @ - 1, !.total = @ + 1] = Ahead(p, j + 1)
  <2>1. p \in PlaceRecords /\ p.left \in Nat /\ p.total \in Nat
    BY DEF Places, PlaceRecords
  <2>2. /\ p.left - j - 1 = p.left - (j + 1)
        /\ p.total + j + 1 = p.total + (j + 1)
    BY <2>1
  <2>3. PICK l1 \in Int, t1 \in Int, l2 \in Int, t2 \in Int :
          /\ l1 = p.left - j /\ t1 = p.total + j
          /\ l2 = p.left - (j + 1) /\ t2 = p.total + (j + 1)
          /\ l1 - 1 = l2 /\ t1 + 1 = t2
    BY <2>1, <2>2
  <2>4. [[p EXCEPT !.left = l1, !.total = t1] EXCEPT !.left = @ - 1, !.total = @ + 1]
          = [p EXCEPT !.left = l2, !.total = t2]
    BY <2>1, <2>3 DEF PlaceRecords
  <2> QED BY <1>1, <2>3, <2>4 DEF Ahead
<1>3. ~ AtHeader(a) /\ Takes(a) = {"byte"}
  BY <1>1 DEF AtHeader, Takes
<1>4. u[1] = "byte" /\ (v[p.file] <= p.time => u[2] = p.time)
        => Moves(v, a, u, Ahead(p, j + 1))
  BY <1>1, <1>2 DEF Moves
<1>5. Moves(v, a, u, q) /\ (Online => u[1] = "byte")
        => /\ q = Ahead(p, j + 1) /\ u[1] = "byte"
           /\ v[p.file] <= p.time => u[2] = p.time
  BY <1>1, <1>2, <1>3 DEF Moves
<1> QED BY <1>1, <1>4, <1>5

\* Units that are all bytes, and of the one version x.
AllBytes(s) == \A i \in 1 .. Len(s) : s[i][1] = "byte"
AllOf(s, x) == \A i \in 1 .. Len(s) : s[i][2] = x

\* Inside a block a reader takes bytes: those of the version it was told of, unless there
\* is a later one.
LEMMA BlockRead ==
  ASSUME NEW v \in Ages, NEW p \in Places, p.at = "header", NEW s \in Seq(Units), NEW r,
         Leads(v, p, s, r), NEW k \in Nat, k <= p.left, k = Len(s),
         Online => AllBytes(s)
  PROVE  /\ AllBytes(s) /\ (v[p.file] <= p.time => AllOf(s, p.time))
         /\ r = Ahead(p, k)
<1>1. PICK m \in Nat : p.left = m
  BY PlaceFields
<1>2. PICK L \in [Nat -> Places] :
        /\ L[1] = p /\ L[k + 1] = r
        /\ \A i \in 1 .. k : Moves(v, L[i], s[i], L[i + 1])
  BY DEF Leads
<1>3. ASSUME NEW j \in Nat, j < k, L[j + 1] = Ahead(p, j)
      PROVE  /\ L[j + 2] = Ahead(p, j + 1) /\ s[j + 1][1] = "byte"
             /\ v[p.file] <= p.time => s[j + 1][2] = p.time
  <2>1. PICK i \in 1 .. k : i = j + 1 /\ i + 1 = j + 2
    BY <1>3
  <2>2. j < p.left
    BY <1>1, <1>3
  <2>3. Moves(v, Ahead(p, j), s[i], L[i + 1]) /\ (Online => s[i][1] = "byte")
    BY <2>1, <1>2, <1>3 DEF AllBytes
  <2>4. s[i] \in Units /\ L[i + 1] \in Places
    BY ElementOfSeq
  <2> QED BY <2>1, <2>2, <2>3, <2>4, AheadOne
<1>4. \A j \in 0 .. k : L[j + 1] = Ahead(p, j)
  <2> DEFINE Off == {j \in 0 .. k : L[j + 1] # Ahead(p, j)}
  <2> SUFFICES ASSUME Off # {} PROVE FALSE
    OBVIOUS
  <2>1. PICK j \in Off : \A i \in Off : j <= i
    <3>1. Off \in SUBSET Int /\ IsFiniteSet(Off)
      <4>1. Off \subseteq 0 .. k /\ IsFiniteSet(0 .. k) /\ 0 .. k \in SUBSET Int
        BY FS_Interval
      <4> HIDE DEF Off
      <4> QED BY <4>1, FS_Subset
    <3> HIDE DEF Off
    <3> QED BY <3>1, MinOf
  <2>2. j # 0
    <3>1. 0 \in 0 .. p.left /\ L[0 + 1] = p
      BY <1>1, <1>2
    <3>2. L[0 + 1] = Ahead(p, 0)
      BY <3>1, AheadPlace
    <3> QED BY <3>2
  <2>3. PICK i \in Nat : i = j - 1 /\ i + 1 = j /\ i + 2 = j + 1 /\ i < k
    BY <2>2
  <2>4. i \notin Off /\ i \in 0 .. k
    BY <2>1, <2>3
  <2>5. L[i + 1] = Ahead(p, i)
    BY <2>4
  <2> QED BY <2>3, <2>5, <1>3
<1>5. ASSUME NEW i \in 1 .. k
      PROVE  s[i][1] = "byte" /\ (v[p.file] <= p.time => s[i][2] = p.time)
  <2>1. PICK j \in 0 .. k : j = i - 1 /\ j + 1 = i /\ j < k
    <3>1. i - 1 \in 0 .. k /\ (i - 1) + 1 = i /\ i - 1 < k
      OBVIOUS
    <3> QED BY <3>1
  <2>2. L[j + 1] = Ahead(p, j)
    BY <1>4
  <2>3. s[j + 1][1] = "byte" /\ (v[p.file] <= p.time => s[j + 1][2] = p.time)
    BY <2>1, <2>2, <1>3
  <2> QED BY <2>1, <2>3
<1>6. r = Ahead(p, k)
  <2>1. k \in 0 .. k
    OBVIOUS
  <2> QED BY <1>2, <1>4, <2>1
<1> QED BY <1>5, <1>6 DEF AllBytes, AllOf

\* n bytes of version x.
Bytes(n, x) == [i \in 1 .. n |-> <<"byte", x>>]

\* A reader that is told to expect a block takes that many bytes.  More of them lose it.
LEMMA BlockSent ==
  ASSUME NEW v \in Ages, NEW p \in Places, p.at = "header", NEW n \in Nat, NEW x \in Nat,
         p.left # 0 /\ v[p.file] <= p.time => x = p.time,
         n > p.left => Online
  PROVE  \E r \in Places :
           /\ Leads(v, p, Bytes(n, x), r)
           /\ IF n <= p.left THEN r = Ahead(p, n) ELSE r.at = "bad"
<1>1. PICK m \in Nat : p.left = m
  BY PlaceFields
<1>2. PICK b \in Places : b = [p EXCEPT !.at = "bad"] /\ b.at = "bad"
  <2>1. p \in PlaceRecords /\ p.expects => p.total + p.left <= p.size
    BY PlaceFields
  <2>2. PICK b : b = [p EXCEPT !.at = "bad"]
    OBVIOUS
  <2>3. /\ b \in PlaceRecords /\ b.at = "bad" /\ b.file = p.file /\ b.left = p.left
        /\ b.total = p.total /\ b.size = p.size /\ b.expects = p.expects
    BY <2>2, PlaceFields DEF PlaceRecords
  <2>4. b \in Places
    BY <2>3, PlaceFields DEF Places
  <2> QED BY <2>2, <2>3, <2>4
<1>3. PICK L \in [Nat -> Places] :
        \A i \in Nat : L[i + 1] = IF i <= m THEN Ahead(p, i) ELSE b
  <2>1. \A i \in 0 .. m : Ahead(p, i) \in Places
    BY <1>1, AheadPlace
  <2>2. PICK L : L = [i \in Nat |-> IF i = 0 THEN p ELSE IF i - 1 <= m THEN Ahead(p, i - 1)
                                                   ELSE b]
    OBVIOUS
  <2>3. L \in [Nat -> Places]
    <3>1. ASSUME NEW i \in Nat
          PROVE  (IF i = 0 THEN p ELSE IF i - 1 <= m THEN Ahead(p, i - 1) ELSE b) \in Places
      <4>1. i # 0 /\ i - 1 <= m => i - 1 \in 0 .. m
        OBVIOUS
      <4> QED BY <4>1, <2>1, <1>2
    <3> QED BY <3>1, <2>2
  <2>4. ASSUME NEW i \in Nat
        PROVE  L[i + 1] = IF i <= m THEN Ahead(p, i) ELSE b
    <3>1. i + 1 \in Nat /\ i + 1 # 0 /\ i + 1 - 1 = i
      OBVIOUS
    <3> QED BY <3>1, <2>2
  <2> QED BY <2>3, <2>4
<1>4. /\ Len(Bytes(n, x)) = n
      /\ \A i \in 1 .. n : Bytes(n, x)[i] = <<"byte", x>>
  BY DEF Bytes
<1>5. <<"byte", x>> \in Units /\ <<"byte", x>>[1] = "byte" /\ <<"byte", x>>[2] = x
  BY DEF Units, Kinds
<1>6. ASSUME NEW i \in 1 .. n
      PROVE  Moves(v, L[i], Bytes(n, x)[i], L[i + 1])
  <2>1. PICK j \in Nat : j = i - 1 /\ j + 1 = i /\ j < n
    OBVIOUS
  <2>2. CASE j < m
    <3>1. L[i] = Ahead(p, j) /\ L[i + 1] = Ahead(p, j + 1)
      <4>1. L[j + 1] = Ahead(p, j) /\ L[(j + 1) + 1] = Ahead(p, j + 1)
        BY <2>2, <1>3
      <4> QED BY <4>1, <2>1
    <3>2. v[p.file] <= p.time => x = p.time
      BY <2>2, <1>1
    <3>3. Moves(v, Ahead(p, j), <<"byte", x>>, Ahead(p, j + 1))
      BY <3>2, <2>2, <1>1, <1>5, AheadOne, <1>2
    <3> QED BY <3>1, <3>3, <1>4
  <2>3. CASE j = m
    <3>1. L[i] = Ahead(p, m) /\ L[i + 1] = b
      <4>1. L[j + 1] = Ahead(p, m) /\ L[(j + 1) + 1] = b
        BY <2>3, <1>3
      <4> QED BY <4>1, <2>1
    <3>2. PICK a \in Places : a = Ahead(p, m) /\ a.at = "header" /\ a.left = 0
      BY <1>1, AheadPlace
    <3>3. Takes(a) = Types /\ "byte" \notin Types
      BY <3>2 DEF Takes, Types
    <3>4. Moves(v, a, <<"byte", x>>, b)
      BY <3>2, <3>3, <2>3, <2>1, <1>1, <1>2, <1>5 DEF Moves
    <3> QED BY <3>1, <3>2, <3>4, <1>4
  <2>4. CASE j > m
    <3>1. L[i] = b /\ L[i + 1] = b
      <4>1. L[j + 1] = b /\ L[(j + 1) + 1] = b
        BY <2>4, <1>3
      <4> QED BY <4>1, <2>1
    <3>2. Moves(v, b, <<"byte", x>>, b)
      BY <2>4, <2>1, <1>1, <1>2 DEF Moves
    <3> QED BY <3>1, <3>2, <1>4
  <2>5. j < m \/ j = m \/ j > m
    OBVIOUS
  <2> QED BY <2>2, <2>3, <2>4, <2>5
<1>7. L[1] = p /\ L[n + 1] = IF n <= m THEN Ahead(p, n) ELSE b
  <2>1. L[0 + 1] = Ahead(p, 0) /\ Ahead(p, 0) = p
    BY <1>1, <1>3, AheadPlace
  <2> QED BY <2>1, <1>3
<1>8. Leads(v, p, Bytes(n, x), L[n + 1]) /\ L[n + 1] \in Places
  BY <1>4, <1>6, <1>7 DEF Leads
<1> QED BY <1>1, <1>2, <1>7, <1>8
-----------------------------------------------------------------------------
(* Types *)

LEMMA Kinds_ ==
  /\ Types = {"FILELIST", "FILENAME", "F_SIZE", "DATA", "DATA_COMPLETE", "COMPLETE"}
  /\ DOMAIN Payload = {"FILELIST", "FILENAME", "F_SIZE"}
  /\ Payload["FILELIST"] = "list" /\ Payload["FILENAME"] = "name"
  /\ Payload["F_SIZE"] = "size"
BY DEF Types, Payload

\* What is sent is a sequence of units.
LEMMA Messages ==
  ASSUME NEW t \in Types, NEW x \in Nat
  PROVE  /\ Header(t, x) = <<<<t, x>>>> /\ <<t, x>> \in Units
         /\ Header(t, x) \in Seq(Units)
         /\ \A y \in Nat, k \in {"list", "name", "size"} :
              Header(t, x) \o <<<<k, y>>>> \in Seq(Units) /\ <<k, y>> \in Units
         /\ \A n \in Nat, y \in Nat :
              Header(t, x) \o Bytes(n, y) \in Seq(Units) /\ Bytes(n, y) \in Seq(Units)
<1>1. Header(t, x) = <<<<t, x>>>> /\ <<t, x>> \in Units
  BY DEF Header, Units, Kinds
<1>2. \A y \in Nat, k \in {"list", "name", "size", "byte"} : <<k, y>> \in Units
  BY DEF Units, Kinds
<1>3. Header(t, x) \in Seq(Units)
  BY <1>1
<1>4. ASSUME NEW n \in Nat, NEW y \in Nat
      PROVE  Bytes(n, y) \in Seq(Units)
  <2>1. <<"byte", y>> \in Units
    BY <1>2
  <2> HIDE DEF Units
  <2> QED BY <2>1 DEF Bytes
<1>5. ASSUME NEW y \in Nat, NEW k \in {"list", "name", "size"}
      PROVE  Header(t, x) \o <<<<k, y>>>> \in Seq(Units) /\ <<k, y>> \in Units
  <2>1. <<k, y>> \in Units
    BY <1>2
  <2>2. <<<<k, y>>>> \in Seq(Units)
    BY <2>1
  <2> QED BY <2>1, <2>2, <1>3, ConcatProperties
<1>6. ASSUME NEW n \in Nat, NEW y \in Nat
      PROVE  Header(t, x) \o Bytes(n, y) \in Seq(Units) /\ Bytes(n, y) \in Seq(Units)
  BY <1>3, <1>4, ConcatProperties
<1> QED BY <1>1, <1>3, <1>5, <1>6

LEMMA Names ==
  /\ "FILELIST" \in Types /\ "FILENAME" \in Types /\ "F_SIZE" \in Types
  /\ "DATA" \in Types /\ "DATA_COMPLETE" \in Types /\ "COMPLETE" \in Types
  /\ "list" \in {"list", "name", "size"} /\ "name" \in {"list", "name", "size"}
  /\ "size" \in {"list", "name", "size"} /\ 0 \in Nat
BY DEF Types

\* A message with a payload of one unit.
IsMessage(msg, u, w) == msg \in Seq(Units) /\ u \in Units /\ w \in Units /\ msg = <<u>> \o <<w>>

LEMMA MessageOf ==
  ASSUME NEW t \in Types, NEW x \in Nat,
         NEW k \in {"list", "name", "size"}, NEW y \in Nat
  PROVE  IsMessage(Header(t, x) \o <<<<k, y>>>>, <<t, x>>, <<k, y>>)
<1>1. /\ Header(t, x) = <<<<t, x>>>> /\ <<t, x>> \in Units /\ <<k, y>> \in Units
      /\ Header(t, x) \o <<<<k, y>>>> \in Seq(Units)
  BY Messages
<1> QED BY <1>1 DEF IsMessage

LEMMA MessageAlone ==
  ASSUME NEW t \in Types, NEW x \in Nat
  PROVE  \E u \in Units, msg \in Seq(Units) :
           u = <<t, x>> /\ msg = <<u>> /\ msg = Header(t, x)
<1>1. Header(t, x) = <<<<t, x>>>> /\ <<t, x>> \in Units /\ Header(t, x) \in Seq(Units)
  BY Messages
<1> QED BY <1>1

LEMMA MessageData ==
  ASSUME NEW n \in Nat, NEW y \in Nat
  PROVE  \E u \in Units, s \in Seq(Units), msg \in Seq(Units) :
           /\ u = <<"DATA", 0>> /\ s = Bytes(n, y) /\ msg = <<u>> \o s
           /\ msg = Header("DATA", 0) \o Bytes(n, y)
<1>1. "DATA" \in Types /\ 0 \in Nat
  BY Names
<1>2. /\ Header("DATA", 0) = <<<<"DATA", 0>>>> /\ <<"DATA", 0>> \in Units
      /\ Bytes(n, y) \in Seq(Units) /\ Header("DATA", 0) \o Bytes(n, y) \in Seq(Units)
  BY <1>1, Messages
<1> QED BY <1>2

LEMMA OverwriteIs ==
  ASSUME NEW d \in Seq(Int), NEW at \in Nat, NEW new \in Seq(Nat)
  PROVE  /\ Overwrite(d, at, new) \in Seq(Int)
         /\ at <= Len(d) => at + Len(new) <= Len(Overwrite(d, at, new))
         /\ at <= Len(d) => \A i \in 1 .. at : Overwrite(d, at, new)[i] = d[i]
         /\ \A i \in 1 .. Len(new) : Overwrite(d, at, new)[at + i] = new[i]
<1>1. PICK n \in Nat, m \in Nat : Len(d) = n /\ Len(new) = m
  BY LenProperties
<1>2. PICK k \in Nat : k = Max({n, at + m}) /\ n <= k /\ at + m <= k
  BY GreaterOf
<1>3. PICK o : o = Overwrite(d, at, new)
  OBVIOUS
<1>4. o = [i \in 1 .. k |-> IF i \in at + 1 .. at + m THEN new[i - at]
                            ELSE IF i <= n THEN d[i] ELSE Hole]
  BY <1>1, <1>2, <1>3 DEF Overwrite
<1>5. ASSUME NEW i \in 1 .. k
      PROVE  (IF i \in at + 1 .. at + m THEN new[i - at]
              ELSE IF i <= n THEN d[i] ELSE Hole) \in Int
  <2>1. CASE i \in at + 1 .. at + m
    <3>1. i - at \in 1 .. m
      BY <2>1
    <3>2. new[i - at] \in Nat
      BY <3>1, <1>1, ElementOfSeq
    <3> QED BY <2>1, <3>2
  <2>2. CASE i \notin at + 1 .. at + m
    <3>1. i <= n => d[i] \in Int
      BY <1>1, ElementOfSeq
    <3> QED BY <2>2, <3>1 DEF Hole
  <2> QED BY <2>1, <2>2
<1>6. o \in Seq(Int) /\ Len(o) = k
  BY <1>4, <1>5
<1>7. at <= n => \A i \in 1 .. at : o[i] = d[i]
  <2> SUFFICES ASSUME at <= n, NEW i \in 1 .. at
               PROVE  o[i] = d[i]
    OBVIOUS
  <2>1. i \in 1 .. k /\ i \notin at + 1 .. at + m /\ i <= n
    BY <1>2
  <2> QED BY <2>1, <1>4
<1>8. ASSUME NEW i \in 1 .. m
      PROVE  o[at + i] = new[i]
  <2>1. at + i \in 1 .. k /\ at + i \in at + 1 .. at + m /\ at + i - at = i
    BY <1>2
  <2> QED BY <2>1, <1>4
<1> QED BY <1>1, <1>2, <1>3, <1>6, <1>7, <1>8

LEMMA TruncateIs ==
  ASSUME NEW d \in Seq(Int), NEW n \in Nat
  PROVE  /\ Truncate(d, n) \in Seq(Int) /\ Len(Truncate(d, n)) = n
         /\ n <= Len(d) => \A i \in 1 .. n : Truncate(d, n)[i] = d[i]
<1>1. PICK m \in Nat : Len(d) = m
  BY LenProperties
<1>2. PICK o : o = [i \in 1 .. n |-> IF i <= m THEN d[i] ELSE Hole] /\ o = Truncate(d, n)
  BY <1>1 DEF Truncate
<1>3. ASSUME NEW i \in 1 .. n
      PROVE  (IF i <= m THEN d[i] ELSE Hole) \in Int
  BY <1>1, ElementOfSeq DEF Hole
<1>4. o \in Seq(Int) /\ Len(o) = n
  BY <1>2, <1>3
<1> QED BY <1>1, <1>2, <1>4

\* How much there is of the version a source has.
LEMMA SizeIs ==
  ASSUME NEW f \in Files, NEW x \in 1 .. Len(Size[f])
  PROVE  /\ Size[f][x] \in Nat
         /\ Content(f, x) \in Seq(Int) /\ Len(Content(f, x)) = Size[f][x]
         /\ \A i \in 1 .. Size[f][x] : Content(f, x)[i] = x
<1>1. Size[f] \in Seq(Nat)
  BY SizeAssumption
<1>2. Size[f][x] \in Nat
  BY <1>1, ElementOfSeq
<1>3. x \in Int
  OBVIOUS
<1> QED BY <1>2, <1>3 DEF Content

LEMMA InitTypes ==
  ASSUME Init
  PROVE  TransferType /\ ThreadInv
<1>1. <<>> \in Seq(Units) /\ <<>> \in Seq(Nat) /\ <<>> \in Seq(Int) /\ Len(<<>>) = 0
  BY EmptySeq
<1>2. ASSUME NEW f \in Files
      PROVE  1 \in 1 .. Len(Size[f])
  <2>1. Len(Size[f]) \in 1 .. MaxVersion
    BY SizeAssumption DEF Versions
  <2> QED BY <2>1, CountAssumption
<1>3. TransferType
  <2>1. dst \in [Files -> [data : Seq(Int), mtime : Int]]
    BY <1>1 DEF Init, Absent
  <2>2. header \in Units
    BY DEF Init, Started, Units, Kinds, Types
  <2>3. src \in [Files -> Nat] /\ \A f \in Files : src[f] \in 1 .. Len(Size[f])
    BY <1>2 DEF Init
  <2>4. /\ sout \in Seq(Units) /\ spipe \in Seq(Units) /\ sbuf \in Seq(Units)
        /\ net \in Seq(Units) /\ rbuf \in Seq(Units) /\ rpipe \in Seq(Units)
        /\ got \in Seq(Nat)
    BY <1>1 DEF Init, Started
  <2>5. /\ smain = "list" /\ cur \in Nat \ {0} /\ off \in Nat /\ harmed \in Nat
        /\ rmain = "header" /\ expecting = FALSE
        /\ fout \in Nat /\ path \in Nat /\ mtime \in Nat
        /\ rsize \in Nat /\ total \in Nat /\ need \in Nat
    BY DEF Init, Started, Absent, NoFile
  <2> HIDE DEF Init
  <2> QED BY <2>1, <2>2, <2>3, <2>4, <2>5 DEF TransferType
<1>4. ThreadInv
  BY DEF Init, Started, ThreadInv
<1> QED BY <1>3, <1>4

LEMMA RerunTypes ==
  ASSUME TransferType, Rerun
  PROVE  TransferType' /\ ThreadInv'
<1>1. <<>> \in Seq(Units) /\ <<>> \in Seq(Nat)
  BY EmptySeq
<1>2. header' \in Units
  BY DEF Rerun, Units, Kinds, Types
<1>3. TransferType'
  <2>1. /\ sout' \in Seq(Units) /\ spipe' \in Seq(Units) /\ sbuf' \in Seq(Units)
        /\ net' \in Seq(Units) /\ rbuf' \in Seq(Units) /\ rpipe' \in Seq(Units)
        /\ got' \in Seq(Nat)
    BY <1>1 DEF Rerun
  <2>2. /\ smain' = "list" /\ cur' \in Nat \ {0} /\ off' \in Nat /\ harmed' \in Nat
        /\ rmain' = "header" /\ expecting' = FALSE
        /\ fout' \in Nat /\ path' \in Nat /\ mtime' \in Nat
        /\ rsize' \in Nat /\ total' \in Nat /\ need' \in Nat
    BY DEF Rerun, Absent, NoFile
  <2>3. src' = src /\ dst' = dst
    BY DEF Rerun
  <2> QED BY <1>2, <2>1, <2>2, <2>3 DEF TransferType
<1>4. ThreadInv'
  BY DEF Rerun, ThreadInv
<1> QED BY <1>3, <1>4

\* Harm is counted, and not undone.
LEMMA HarmCounts ==
  ASSUME TransferType, harmed' = harmed \/ Harm
  PROVE  harmed' \in Nat /\ (Harm => harmed' # 0) /\ (harmed' = 0 => harmed = 0)
<1>1. harmed \in Nat /\ Faults \in Nat
  BY CountAssumption DEF TransferType
<1>2. Harm => harmed' \in Nat /\ harmed' # 0
  BY <1>1, LesserOf DEF Harm
<1> QED BY <1>1, <1>2

\* A write to the pipe leaves a sequence of units to be written.
LEMMA PipeWriteTypes ==
  ASSUME TransferType, NEW msg \in Seq(Units), PipeWrite(msg)
  PROVE  sout' \in Seq(Units) /\ harmed' \in Nat /\ (harmed' = 0 => harmed = 0)
<1>1. <<>> \in Seq(Units)
  BY EmptySeq
<1>2. harmed \in Nat /\ Faults \in Nat
  BY CountAssumption DEF TransferType
<1>3. Harm => harmed' \in Nat /\ harmed' # 0
  BY <1>2, LesserOf DEF Harm
<1> QED BY <1>1, <1>2, <1>3 DEF PipeWrite

\* The actions of the sending program keep the types.
LEMMA SenderTypes ==
  ASSUME TransferType, ThreadInv, SenderMain
  PROVE  TransferType' /\ ThreadInv'
<1> DEFINE Others == <<fileVars, reply, sendRest, netVars, recvVars, rmainVars>>
<1>0. <<>> \in Seq(Units)
  BY EmptySeq
<1>1. CASE WriteOn
  <2>1. PICK n \in Nat : n = PipeRoom
    BY <1>1, CapAssumption, LenProperties DEF WriteOn, PipeRoom, TransferType
  <2>2. /\ sout' = Rest(sout, n) /\ spipe' = spipe \o FirstOf(sout, n)
        /\ sout \in Seq(Units) /\ spipe \in Seq(Units)
    BY <1>1, <2>1 DEF WriteOn, TransferType
  <2>3. sout' \in Seq(Units) /\ FirstOf(sout, n) \in Seq(Units)
    BY <2>2, CutLengths
  <2>4. spipe' \in Seq(Units)
    BY <2>2, <2>3, ConcatProperties
  <2> QED BY <1>1, <2>3, <2>4, SMTT(30)
         DEF WriteOn, TransferType, ThreadInv, fileVars, smainVars, netVars, recvVars,
             rmainVars, dataVars
<1>2. ASSUME NEW msg \in Seq(Units), PipeWrite(msg), Others' = Others,
             smain' \in {"list", "wait", "file", "size", "data", "eof", "pause", "exit"},
             cur' \in Nat \ {0}, off' \in Nat,
             smain' \in {"size", "data", "eof"} => cur' \in Files
      PROVE  TransferType' /\ ThreadInv'
  <2>1. sout' \in Seq(Units) /\ harmed' \in Nat
    BY <1>2, PipeWriteTypes
  <2>2. /\ UNCHANGED <<src, dst, spipe, sbuf, sndpc, net, rcvpc, rbuf, rpipe, rmain, header>>
        /\ UNCHANGED <<expecting, fout, path, mtime, rsize, total, need, got>>
    BY <1>2 DEF fileVars, sendRest, netVars, recvVars, rmainVars, dataVars
  <2>3. TransferType'
    BY <1>2, <2>1, <2>2 DEF TransferType
  <2>4. ThreadInv'
    BY <2>2 DEF ThreadInv
  <2> QED BY <2>3, <2>4
<1>3. CASE SendFilelist
  <2>1. PICK u \in Units, w \in Units, msg \in Seq(Units) :
          /\ u = <<"FILELIST", 0>> /\ w = <<"list", 0>> /\ msg = <<u>> \o <<w>>
          /\ msg = Header("FILELIST", 0) \o <<<<"list", 0>>>>
    <3>1. IsMessage(Header("FILELIST", 0) \o <<<<"list", 0>>>>, <<"FILELIST", 0>>, <<"list", 0>>)
      BY Names, MessageOf
    <3> QED BY <3>1 DEF IsMessage
  <2> QED BY <1>2, <1>3, <2>1
         DEF SendFilelist, TransferType, fileVars, sendRest, netVars, recvVars, rmainVars
<1>4. CASE SendFilename
  <2>1. PICK u \in Units, w \in Units, msg \in Seq(Units) :
          /\ u = <<"FILENAME", src[cur]>> /\ w = <<"name", cur>> /\ msg = <<u>> \o <<w>>
          /\ msg = Header("FILENAME", src[cur]) \o <<<<"name", cur>>>>
    <3>1. src[cur] \in Nat /\ cur \in Nat
      BY <1>4 DEF SendFilename, TransferType
    <3>2. IsMessage(Header("FILENAME", src[cur]) \o <<<<"name", cur>>>>,
                    <<"FILENAME", src[cur]>>, <<"name", cur>>)
      BY <3>1, Names, MessageOf
    <3> QED BY <3>2 DEF IsMessage
  <2> QED BY <1>2, <1>4, <2>1
         DEF SendFilename, TransferType, fileVars, sendRest, netVars, recvVars, rmainVars
<1>5. CASE SendFSize
  <2>1. PICK u \in Units, w \in Units, msg \in Seq(Units) :
          /\ u = <<"F_SIZE", 0>> /\ w = <<"size", Size[cur][src[cur]]>> /\ msg = <<u>> \o <<w>>
          /\ msg = Header("F_SIZE", 0) \o <<<<"size", Size[cur][src[cur]]>>>>
    <3>1. Size[cur][src[cur]] \in Nat
      BY <1>5, SizeIs DEF SendFSize, TransferType
    <3>2. IsMessage(Header("F_SIZE", 0) \o <<<<"size", Size[cur][src[cur]]>>>>,
                    <<"F_SIZE", 0>>, <<"size", Size[cur][src[cur]]>>)
      BY <3>1, Names, MessageOf
    <3> QED BY <3>2 DEF IsMessage
  <2> QED BY <1>2, <1>5, <2>1
         DEF SendFSize, TransferType, fileVars, sendRest, netVars, recvVars, rmainVars
<1>6. CASE SendData
  <2>1. PICK n \in Nat : n = Min({BlockLen, Max({0, Size[cur][src[cur]] - off})})
    <3>1. PICK z \in Nat : z = Size[cur][src[cur]]
      BY <1>6, SizeIs DEF SendData, TransferType
    <3>2. PICK y \in Nat : y = Max({0, z - off})
      <4>1. z - off \in Int /\ 0 \in Int
        BY DEF TransferType
      <4>2. Max({0, z - off}) \in Nat
        BY <4>1, GreaterOf
      <4> QED BY <4>2
    <3> QED BY <3>1, <3>2, LesserOf, CapAssumption
  <2>2. src[cur] \in Nat
    BY <1>6 DEF SendData, TransferType
  <2>3. PICK msg \in Seq(Units) : msg = Header("DATA", 0) \o Bytes(n, src[cur])
    BY <2>1, <2>2, MessageData, Zenon
  <2>4. PipeWrite(msg) /\ off' = off + n /\ smain' \in {"eof", "data"} /\ smain = "data"
    BY <1>6, <2>1, <2>3 DEF SendData, Bytes
  <2>5. off' \in Nat /\ cur' = cur /\ cur \in Files /\ cur \in Nat \ {0}
    BY <1>6, <2>4, SMTT(30) DEF SendData, TransferType
  <2> QED BY <1>2, <1>6, <2>3, <2>4, <2>5 DEF SendData
<1>7. CASE SendDataComplete
  <2>1. PICK msg \in Seq(Units) : msg = Header("DATA_COMPLETE", 0)
    BY Names, MessageAlone, Zenon
  <2>2. cur' \in Nat \ {0} /\ smain' = "file"
    BY <1>7 DEF SendDataComplete, TransferType
  <2>3. sout' \in Seq(Units) /\ harmed' \in Nat
    BY <2>1, <1>7, PipeWriteTypes DEF SendDataComplete
  <2> QED BY <1>7, <2>2, <2>3
         DEF SendDataComplete, TransferType, ThreadInv, sendRest, netVars, recvVars,
             rmainVars, dataVars
<1>8. CASE SendComplete
  <2>1. PICK msg \in Seq(Units) : msg = Header("COMPLETE", 0)
    BY Names, MessageAlone, Zenon
  <2> QED BY <1>2, <1>8, <2>1
         DEF SendComplete, TransferType, fileVars, sendRest, netVars, recvVars, rmainVars
<1>9. CASE GotFilelist
  BY <1>9 DEF GotFilelist, TransferType, ThreadInv, fileVars, sendVars, netVars, recvVars,
              rmainVars, dataVars
<1>10. CASE SkipFile
  <2>1. cur' \in Nat \ {0}
    BY <1>10 DEF SkipFile, TransferType
  <2> QED BY <1>10, <2>1
         DEF SkipFile, TransferType, ThreadInv, sendVars, netVars, recvVars, rmainVars, dataVars
<1>11. CASE SenderExit
  BY <1>11 DEF SenderExit, TransferType, ThreadInv, fileVars, netVars, recvVars, rmainVars,
               dataVars
<1> QED BY <1>1, <1>3, <1>4, <1>5, <1>6, <1>7, <1>8, <1>9, <1>10, <1>11 DEF SenderMain

\* The threads that move the stream keep the types.
LEMMA ThreadsTypes ==
  ASSUME TransferType, ThreadInv, Threads
  PROVE  TransferType' /\ ThreadInv'
<1>0. <<>> \in Seq(Units)
  BY EmptySeq
<1>1. CASE SndRead
  BY <1>0, <1>1 DEF SndRead, TransferType, ThreadInv, fileVars, smainVars, netVars, recvVars,
                    rmainVars, dataVars
<1>2. CASE SndSend
  <2>1. CASE conn = "up"
    <3>1. NetRoom > 0
      BY <1>2, <2>1 DEF SndSend
    <3>2. PICK n \in Nat : n = NetRoom
      BY <3>1, CapAssumption, LenProperties DEF NetRoom, TransferType
    <3>3. net' = net \o FirstOf(sbuf, n) /\ sbuf' = Rest(sbuf, n) /\ sndpc' = "send"
      BY <1>2, <2>1, <3>2 DEF SndSend
    <3>4. net' \in Seq(Units) /\ sbuf' \in Seq(Units)
      <4>1. net \in Seq(Units) /\ sbuf \in Seq(Units)
        BY DEF TransferType
      <4>2. FirstOf(sbuf, n) \in Seq(Units) /\ Rest(sbuf, n) \in Seq(Units)
        BY <4>1, CutLengths
      <4> QED BY <3>3, <4>1, <4>2, ConcatProperties
    <3> QED BY <1>2, <3>3, <3>4, Zenon
           DEF SndSend, TransferType, ThreadInv, fileVars, smainVars, recvVars, rmainVars, dataVars
  <2>2. CASE conn # "up"
    BY <1>0, <1>2, <2>2, Zenon
       DEF SndSend, TransferType, ThreadInv, fileVars, smainVars, recvVars, rmainVars, dataVars
  <2> QED BY <2>1, <2>2
<1>3. CASE SndCheck
  <2>1. harmed' \in Nat
    BY <1>3, HarmCounts DEF SndCheck
  <2> QED BY <1>3, <2>1
         DEF SndCheck, TransferType, ThreadInv, fileVars, smainVars, netVars, recvVars,
             rmainVars, dataVars
<1>4. CASE SndClose
  BY <1>4 DEF SndClose, TransferType, ThreadInv, fileVars, smainVars, sendVars, recvVars,
              rmainVars, dataVars
<1>5. CASE SenderSeesLoss
  BY <1>5 DEF SenderSeesLoss, TransferType, ThreadInv, fileVars, smainVars, netVars, recvVars,
              rmainVars, dataVars
<1>6. CASE RcvRecv
  <2>1. PICK n \in Nat : rbuf' = FirstOf(net, n) /\ net' = Rest(net, n)
    <3>1. PICK n \in 1 .. Len(net) : rbuf' = FirstOf(net, n) /\ net' = Rest(net, n)
      BY <1>6 DEF RcvRecv
    <3> QED BY <3>1
  <2>2. rbuf' \in Seq(Units) /\ net' \in Seq(Units)
    BY <2>1, CutLengths DEF TransferType
  <2> QED BY <1>6, <2>2
         DEF RcvRecv, TransferType, ThreadInv, fileVars, smainVars, sendVars, rmainVars, dataVars
<1>7. CASE RcvWrite
  <2>1. PICK n \in Nat : n = RcvRoom
    BY <1>7, CapAssumption, LenProperties DEF RcvWrite, RcvRoom, TransferType
  <2>2. /\ rbuf' = Rest(rbuf, n) /\ rpipe' = rpipe \o FirstOf(rbuf, n)
        /\ rbuf \in Seq(Units) /\ rpipe \in Seq(Units)
    BY <1>7, <2>1 DEF RcvWrite, TransferType
  <2>3. rbuf' \in Seq(Units) /\ FirstOf(rbuf, n) \in Seq(Units)
    BY <2>2, CutLengths
  <2>4. rpipe' \in Seq(Units)
    BY <2>2, <2>3, ConcatProperties
  <2>5. rcvpc' = "recv" => rbuf' = <<>>
    BY <1>7 DEF RcvWrite, RcvNext
  <2> QED BY <1>7, <2>3, <2>4, <2>5, Zenon
         DEF RcvWrite, TransferType, ThreadInv, fileVars, smainVars, sendVars, netVars,
             rmainVars, dataVars
<1>8. CASE RcvDrop
  <2>1. harmed' \in Nat
    <3>1. harmed \in Nat /\ Faults \in Nat
      BY CountAssumption DEF TransferType
    <3> QED BY <1>8, <3>1, LesserOf DEF RcvDrop, Harm
  <2> QED BY <1>0, <1>8, <2>1
         DEF RcvDrop, TransferType, ThreadInv, fileVars, smainVars, sendRest, netVars,
             rmainVars, dataVars
<1>9. CASE RcvLost
  BY <1>9 DEF RcvLost, TransferType, ThreadInv, fileVars, smainVars, sendVars, netVars,
              rmainVars, dataVars
<1>10. CASE RcvClose
  BY <1>0, <1>10 DEF RcvClose, TransferType, ThreadInv, fileVars, smainVars, sendVars, recvVars,
                     rmainVars, dataVars
<1> QED BY <1>1, <1>2, <1>3, <1>4, <1>5, <1>6, <1>7, <1>8, <1>9, <1>10 DEF Threads

\* The actions of the receiving program keep the types.
LEMMA ReceiverTypes ==
  ASSUME TransferType, ThreadInv, ReceiverMain
  PROVE  TransferType' /\ ThreadInv'
<1>0. <<>> \in Seq(Nat) /\ Len(<<>>) = 0 /\ <<>> \in Seq(Units)
  BY EmptySeq
<1>t. rpipe \in Seq(Units) /\ got \in Seq(Nat)
  BY DEF TransferType
<1>u. ASSUME rpipe # <<>>
      PROVE  /\ Head(rpipe) \in Units /\ Head(rpipe)[1] \in Kinds /\ Head(rpipe)[2] \in Nat
             /\ Tail(rpipe) \in Seq(Units) /\ rpipe[1] = Head(rpipe)
  BY <1>t, <1>u, HeadTailProperties DEF Units
<1>1. CASE ReadHeader
  <2>1. rpipe # <<>> /\ rmain = "header"
    BY <1>1 DEF ReadHeader
  <2>3. /\ header' = Head(rpipe) /\ rpipe' = Tail(rpipe)
        /\ rmain' = IF Head(rpipe)[1] \in Types THEN Head(rpipe)[1] ELSE "desync"
    BY <1>1, <2>1, <1>u DEF ReadHeader
  <2>4. header' \in Units /\ rpipe' \in Seq(Units)
    BY <2>1, <2>3, <1>u
  <2>5. rmain' \in Types \cup {"desync"} /\ rmain' # "block"
    BY <2>3, Kinds_
  <2> QED BY <1>1, <2>1, <2>4, <2>5
         DEF ReadHeader, TransferType, ThreadInv, fileVars, smainVars, sendVars, netVars,
             recvRest, dataVars
<1>2. CASE NoHeader
  BY <1>2 DEF NoHeader, TransferType, ThreadInv, fileVars, smainVars, sendVars, netVars,
              recvVars, dataVars
<1>3. CASE RcvCheck
  <2>1. harmed' \in Nat
    BY <1>3, HarmCounts DEF RcvCheck
  <2> QED BY <1>3, <2>1
         DEF RcvCheck, TransferType, ThreadInv, fileVars, smainVars, sendRest, netVars,
             recvVars, dataVars
<1>c. CASE CutHeader
  <2>1. harmed' \in Nat
    BY <1>c, HarmCounts DEF CutHeader
  <2>2. rpipe # <<>>
    BY <1>0, <1>c DEF CutHeader
  <2>3. header' \in Units /\ rpipe' \in Seq(Units)
    <3>1. header \in Units /\ rpipe[1] \in Units
      BY <1>u, <2>2 DEF TransferType
    <3>2. <<header[1], rpipe[1][2]>> \in Units
      BY <3>1 DEF Units
    <3>3. <<"tail", 0>> \in Units
      BY DEF Units, Kinds
    <3> QED BY <1>c, <3>1, <3>2, <3>3 DEF CutHeader
  <2>4. rmain = "header" /\ rmain' \in Types \cup {"failed"} /\ rmain' # "block"
    BY <1>c DEF CutHeader, Types
  <2> QED BY <1>c, <2>1, <2>3, <2>4
         DEF CutHeader, TransferType, ThreadInv, fileVars, smainVars, sendRest, netVars,
             recvRest, dataVars
<1>4. CASE RcvFilelist
  BY <1>4, <1>u DEF RcvFilelist, PayloadRead, TransferType, ThreadInv, fileVars, smainVars,
                    sendVars, netVars, recvRest, dataVars
<1>5. CASE RcvFilename
  <2>1. PICK f \in Nat : f = Head(rpipe)[2] /\ rpipe # <<>> /\ rmain = "FILENAME"
    BY <1>5, <1>u DEF RcvFilename, PayloadRead
  <2>2. /\ dst' = [dst EXCEPT ![f].mtime = OpenedTime(f)]
        /\ mtime' = header[2] /\ path' = f /\ fout' = f
    BY <1>5, <2>1 DEF RcvFilename
  <2>3. dst' \in [Files -> [data : Seq(Int), mtime : Int]]
    <3>1. f \in Files => OpenedTime(f) \in Int
      BY DEF TransferType, OpenedTime, Now
    <3>2. dst \in [Files -> [data : Seq(Int), mtime : Int]]
      BY DEF TransferType
    <3> QED BY <2>2, <3>1, <3>2
  <2>4. mtime' \in Nat
    BY <2>2 DEF TransferType, Units
  <2>5. /\ UNCHANGED <<src, smain, cur, off, sout, harmed, spipe, sndpc, sbuf, net, rcvpc>>
        /\ UNCHANGED <<rbuf, header, rsize, total, expecting, need, got>>
        /\ rpipe' = Tail(rpipe) /\ rmain' = "check" /\ rmain = "FILENAME"
    BY <1>5, <2>1 DEF RcvFilename, smainVars, sendVars, netVars, recvRest
  <2>6. rpipe' \in Seq(Units) /\ mtime' \in Nat /\ path' \in Nat /\ fout' \in Nat
    BY <1>u, <2>1, <2>2, <2>4, <2>5
  <2>7. TransferType'
    BY <2>3, <2>5, <2>6 DEF TransferType
  <2>8. ThreadInv'
    BY <2>5 DEF ThreadInv
  <2> QED BY <2>7, <2>8
<1>6. CASE RcvFSize
  BY <1>6, <1>u DEF RcvFSize, PayloadRead, NewTotal, TransferType, ThreadInv, fileVars,
                    smainVars, sendVars, netVars, recvRest
<1>7. CASE RcvData
  <2>1. expecting => BlockWanted \in Nat /\ total + BlockWanted <= rsize
    <3>1. total \in Nat /\ rsize \in Nat /\ (expecting => total <= rsize) /\ BlockLen \in Nat
      BY CapAssumption DEF TransferType, ThreadInv
    <3>2. BlockWanted = IF BlockLen <= rsize - total THEN BlockLen ELSE rsize - total
      BY <3>1, LesserOf DEF BlockWanted
    <3> QED BY <3>1, <3>2
  <2>2. need' \in Nat /\ (expecting => total + need' <= rsize) /\ got' = <<>>
    BY <1>7, <2>1 DEF RcvData
  <2> QED BY <1>7, <1>0, <2>2
         DEF RcvData, TransferType, ThreadInv, fileVars, smainVars, sendVars, netVars, recvVars
<1>8. CASE ReadBlock
  <2>1. PICK n \in Nat : n = need - Len(got) /\ n > 0
    BY <1>8, LenProperties DEF ReadBlock, TransferType
  <2>2. PICK part \in Seq(Units) : part = FirstOf(rpipe, n) /\ Len(part) <= n
    BY <1>t, <2>1, CutLengths, LenProperties
  <2>3. PICK vals \in Seq(Nat) : /\ vals = [i \in DOMAIN part |-> part[i][2]]
                                 /\ Len(vals) = Len(part)
    <3>1. PICK k \in Nat : Len(part) = k /\ DOMAIN part = 1 .. k
      BY LenProperties
    <3>2. \A i \in 1 .. k : part[i][2] \in Nat
      BY <3>1, ElementOfSeq DEF Units
    <3>3. [i \in 1 .. k |-> part[i][2]] \in Seq(Nat) /\ Len([i \in 1 .. k |-> part[i][2]]) = k
      BY <3>2
    <3> QED BY <3>1, <3>3
  <2>4. /\ rpipe' = Rest(rpipe, n)
        /\ \/ got' = got \o vals /\ rmain' = "block"
           \/ got' = <<>> /\ rmain' = "desync"
    BY <1>8, <2>1, <2>2, <2>3 DEF ReadBlock
  <2>5. rpipe' \in Seq(Units) /\ got' \in Seq(Nat) /\ Len(got') <= need
    <3>1. Len(<<>>) <= need
      BY <1>0 DEF TransferType
    <3>2. PICK a \in Nat, b \in Nat : Len(got) = a /\ Len(vals) = b /\ b <= n
      BY <1>t, <2>2, <2>3, LenProperties
    <3>3. got \o vals \in Seq(Nat) /\ Len(got \o vals) = a + b
      BY <1>t, <3>2, ConcatProperties
    <3>4. a + b <= need
      BY <2>1, <3>2 DEF TransferType
    <3> QED BY <1>0, <1>t, <2>4, <3>1, <3>3, <3>4, CutLengths, Zenon
  <2> QED BY <1>8, <2>4, <2>5
         DEF ReadBlock, TransferType, ThreadInv, fileVars, smainVars, sendVars, netVars, recvRest
<1>9. CASE WriteBlock
  <2>1. dst' \in [Files -> [data : Seq(Int), mtime : Int]]
    <3>1. dst \in [Files -> [data : Seq(Int), mtime : Int]]
      BY DEF TransferType
    <3>2. fout \in Files => Overwrite(dst[fout].data, total, got) \in Seq(Int)
      BY <3>1, <1>t, OverwriteIs DEF TransferType
    <3>3. \/ dst' = dst
          \/ dst' = [dst EXCEPT ![fout] = [data |-> Overwrite(@.data, total, got), mtime |-> Now]]
      BY <1>9 DEF WriteBlock
    <3>4. ASSUME NEW d \in Seq(Int)
          PROVE  [data |-> d, mtime |-> Now] \in [data : Seq(Int), mtime : Int]
      BY DEF Now
    <3>5. fout \in Files => [data |-> Overwrite(dst[fout].data, total, got), mtime |-> Now]
                               \in [data : Seq(Int), mtime : Int]
      BY <3>2, <3>4
    <3> QED BY <3>1, <3>3, <3>5
  <2>2. total' \in Nat /\ total' = total + need /\ rmain = "block"
    BY <1>9 DEF WriteBlock, TransferType
  <2> QED BY <1>9, <1>0, <2>1, <2>2
         DEF WriteBlock, TransferType, ThreadInv, smainVars, sendVars, netVars, recvVars
<1>10. CASE RcvDataComplete
  <2>1. dst' \in [Files -> [data : Seq(Int), mtime : Int]]
    <3>1. dst \in [Files -> [data : Seq(Int), mtime : Int]] /\ mtime \in Int
      BY DEF TransferType
    <3>2. \A f \in Files : Truncate(dst[f].data, rsize) \in Seq(Int)
      BY <3>1, TruncateIs DEF TransferType
    <3>3. [dst EXCEPT ![fout].data = Truncate(@, rsize)] \in [Files -> [data : Seq(Int), mtime :
              Int]]
      BY <3>1, <3>2
    <3>5. PICK e \in [Files -> [data : Seq(Int), mtime : Int]] :
            e = [dst EXCEPT ![fout].data = Truncate(@, rsize)]
      BY <3>3
    <3>6. [e EXCEPT ![path].mtime = mtime] \in [Files -> [data : Seq(Int), mtime : Int]]
      BY <3>1, <3>5, Zenon
    <3>7. dst' = dst \/ dst' = [e EXCEPT ![path].mtime = mtime]
      BY <1>10, <3>5 DEF RcvDataComplete
    <3>8. dst' \in [Files -> [data : Seq(Int), mtime : Int]]
      BY <3>1, <3>6, <3>7
    <3> QED BY <3>8
  <2>2. /\ rmain = "DATA_COMPLETE" /\ rmain' \in {"failed", "check"}
        /\ fout' \in Nat /\ rsize' \in Nat
        /\ (expecting' = FALSE \/ (expecting' = expecting /\ rsize' = rsize))
    BY <1>10, SMTT(30) DEF RcvDataComplete, NoFile, TransferType
  <2>3. UNCHANGED <<src, run, logged, smainVars, reply, sendVars, netVars, recvVars, header,
                    total, mtime, path, need, got>>
    BY <1>10 DEF RcvDataComplete
  <2>4. expecting' \in BOOLEAN
    BY <2>2 DEF TransferType
  <2>5. TransferType'
    BY <2>1, <2>2, <2>3, <2>4 DEF TransferType, smainVars, sendVars, netVars, recvVars
  <2>6. ThreadInv'
    BY <2>2, <2>3 DEF ThreadInv, sendVars, netVars, recvVars
  <2> QED BY <2>5, <2>6
<1>11. CASE RcvComplete
  BY <1>11 DEF RcvComplete, TransferType, ThreadInv, fileVars, smainVars, sendVars, netVars,
               recvVars, dataVars
<1>12. CASE Desync
  <2>1. rmain # "block" /\ rmain' = "desync"
    BY <1>12, Kinds_ DEF Desync
  <2> QED BY <1>12, <2>1
         DEF Desync, TransferType, ThreadInv, fileVars, smainVars, sendVars, netVars, recvVars,
             dataVars
<1>13. CASE ReceiverExit
  BY <1>13 DEF ReceiverExit, TransferType, ThreadInv, fileVars, smainVars, sendVars, netVars,
               rmainVars, dataVars
<1> QED BY <1>1, <1>2, <1>3, <1>c, <1>4, <1>5, <1>6, <1>7, <1>8, <1>9, <1>10, <1>11, <1>12, <1>13
       DEF ReceiverMain

\* Every step keeps the types.
LEMMA NextTypes ==
  ASSUME TransferType, ThreadInv, [Next]_vars
  PROVE  TransferType' /\ ThreadInv'
<1>1. CASE SenderMain
  BY <1>1, SenderTypes
<1>2. CASE Threads
  BY <1>2, ThreadsTypes
<1>3. CASE ReceiverMain
  BY <1>3, ReceiverTypes
<1>4. ASSUME NEW f \in Files, Edit(f)
      PROVE  TransferType' /\ ThreadInv'
  <2>1. PICK n \in Nat : Len(Size[f]) = n
    BY SizeAssumption, LenProperties
  <2>2. /\ src[f] \in 1 .. n /\ src[f] < n /\ src \in [Files -> Nat]
        /\ \A g \in Files : src[g] \in 1 .. Len(Size[g])
        /\ src' = [src EXCEPT ![f] = src[f] + 1]
    BY <1>4, <2>1 DEF Edit, TransferType
  <2>3. src' \in [Files -> Nat]
    BY <2>2
  <2>4. \A g \in Files : src'[g] \in 1 .. Len(Size[g])
    BY <2>1, <2>2
  <2>5. harmed' \in Nat
    BY <1>4, HarmCounts DEF Edit
  <2> QED BY <1>4, <2>3, <2>4, <2>5, SMTT(30)
         DEF Edit, TransferType, ThreadInv, smainVars, sendRest, netVars, recvVars, rmainVars,
             dataVars
<1>5. CASE Lose
  <2>1. net' \in Seq(Units)
    <3>1. PICK n \in Nat : net' = FirstOf(net, n)
      <4>1. PICK n \in 0 .. Len(net) : net' = FirstOf(net, n)
        BY <1>5 DEF Lose
      <4> QED BY <4>1
    <3> QED BY <3>1, CutLengths DEF TransferType
  <2> QED BY <1>5, <2>1
         DEF Lose, TransferType, ThreadInv, fileVars, smainVars, sendVars, recvVars, rmainVars,
             dataVars
<1>6. CASE Rerun
  BY <1>6, RerunTypes
<1>7. CASE UNCHANGED vars
  BY <1>7 DEF vars, TransferType, ThreadInv, fileVars, smainVars, sendVars, netVars, recvVars,
              rmainVars, dataVars
<1> QED BY <1>1, <1>2, <1>3, <1>4, <1>5, <1>6, <1>7 DEF Next
-----------------------------------------------------------------------------
(* The stream *)

LEMMA StreamTypes ==
  ASSUME TransferType
  PROVE  /\ src \in Ages
         /\ rpipe \in Seq(Units) /\ rbuf \in Seq(Units) /\ net \in Seq(Units)
         /\ sbuf \in Seq(Units) /\ spipe \in Seq(Units) /\ sout \in Seq(Units)
         /\ rbuf \o net \in Seq(Units) /\ Arriving \in Seq(Units)
         /\ spipe \o sout \in Seq(Units) /\ Leaving \in Seq(Units)
<1>1. /\ src \in Ages
      /\ rpipe \in Seq(Units) /\ rbuf \in Seq(Units) /\ net \in Seq(Units)
      /\ sbuf \in Seq(Units) /\ spipe \in Seq(Units) /\ sout \in Seq(Units)
  BY DEF TransferType, Ages
<1>2. rbuf \o net \in Seq(Units) /\ spipe \o sout \in Seq(Units)
  BY <1>1, ConcatProperties
<1>3. Arriving \in Seq(Units) /\ Leaving \in Seq(Units)
  BY <1>1, <1>2, ConcatProperties DEF Arriving, Leaving
<1> QED BY <1>1, <1>2, <1>3

LEMMA LeadsPlaces ==
  ASSUME NEW v, NEW p, NEW s \in Seq(Units), NEW q, Leads(v, p, s, q)
  PROVE  p \in Places /\ q \in Places
<1>1. PICK n \in Nat : Len(s) = n
  BY LenProperties
<1>2. PICK L \in [Nat -> Places] : L[1] = p /\ L[n + 1] = q
  BY <1>1 DEF Leads
<1> QED BY <1>2

LEMMA SentToSame ==
  ASSUME UNCHANGED <<src, smain, cur, off>>
  PROVE  \A r : SentTo(r) => SentTo(r)'
BY DEF SentTo

LEMMA StandingSame ==
  ASSUME rmainVars' = rmainVars
  PROVE  Standing' = Standing /\ Active' = Active /\ (rmain' = rmain)
BY DEF rmainVars, dataVars, Standing, Active

\* The places that the moves lead to.
LEMMA PlaceIs ==
  ASSUME NEW p \in PlaceRecords
  PROVE  /\ p = Place(p.at, p.file, p.time, p.size, p.total, p.left, p.expects)
         /\ \A x : [p EXCEPT !.at = x]
                     = Place(x, p.file, p.time, p.size, p.total, p.left, p.expects)
         /\ \A x : [p EXCEPT !.left = x]
                     = Place(p.at, p.file, p.time, p.size, p.total, x, p.expects)
         /\ \A x : [p EXCEPT !.at = "FILENAME", !.time = x]
                     = Place("FILENAME", p.file, x, p.size, p.total, p.left, p.expects)
         /\ [p EXCEPT !.file = NoFile, !.size = 0, !.expects = FALSE]
              = Place(p.at, NoFile, p.time, 0, p.total, p.left, FALSE)
         /\ \A x : [p EXCEPT !.at = "header", !.file = x]
                     = Place("header", x, p.time, p.size, p.total, p.left, p.expects)
         /\ \A x : [p EXCEPT !.at = "header", !.size = x, !.total = 0, !.expects = TRUE]
                     = Place("header", p.file, p.time, x, 0, p.left, TRUE)
<1>1. p = Place(p.at, p.file, p.time, p.size, p.total, p.left, p.expects)
  BY DEF Place, PlaceRecords
<1>2. ASSUME NEW x
      PROVE  /\ [p EXCEPT !.at = x]
                   = Place(x, p.file, p.time, p.size, p.total, p.left, p.expects)
             /\ [p EXCEPT !.left = x]
                   = Place(p.at, p.file, p.time, p.size, p.total, x, p.expects)
  BY DEF Place, PlaceRecords
<1>3. ASSUME NEW x
      PROVE  [p EXCEPT !.at = "FILENAME", !.time = x]
               = Place("FILENAME", p.file, x, p.size, p.total, p.left, p.expects)
  <2>1. PICK q : q = Place("FILENAME", p.file, p.time, p.size, p.total, p.left, p.expects)
    OBVIOUS
  <2>2. [p EXCEPT !.at = "FILENAME"] = q
    BY <1>2, <2>1
  <2>3. [q EXCEPT !.time = x] = Place("FILENAME", p.file, x, p.size, p.total, p.left, p.expects)
    BY <2>1 DEF Place
  <2> QED BY <2>2, <2>3
<1>4. [p EXCEPT !.file = NoFile, !.size = 0, !.expects = FALSE]
        = Place(p.at, NoFile, p.time, 0, p.total, p.left, FALSE)
  <2>1. PICK q : q = Place(p.at, NoFile, p.time, p.size, p.total, p.left, p.expects)
    OBVIOUS
  <2>2. PICK r : r = Place(p.at, NoFile, p.time, 0, p.total, p.left, p.expects)
    OBVIOUS
  <2>3. [p EXCEPT !.file = NoFile] = q
    BY <2>1 DEF Place, PlaceRecords
  <2>4. [q EXCEPT !.size = 0] = r
    BY <2>1, <2>2 DEF Place
  <2>5. ASSUME NEW b
        PROVE  [r EXCEPT !.expects = b] = Place(p.at, NoFile, p.time, 0, p.total, p.left, b)
    BY <2>2 DEF Place
  <2>6. [r EXCEPT !.expects = FALSE] = Place(p.at, NoFile, p.time, 0, p.total, p.left, FALSE)
    BY <2>5
  <2> QED BY <2>3, <2>4, <2>6
<1>5. ASSUME NEW x
      PROVE  [p EXCEPT !.at = "header", !.file = x]
               = Place("header", x, p.time, p.size, p.total, p.left, p.expects)
  <2>1. PICK q : q = Place("header", p.file, p.time, p.size, p.total, p.left, p.expects)
    OBVIOUS
  <2>2. [p EXCEPT !.at = "header"] = q
    BY <1>2, <2>1
  <2>3. [q EXCEPT !.file = x] = Place("header", x, p.time, p.size, p.total, p.left, p.expects)
    BY <2>1 DEF Place
  <2> QED BY <2>2, <2>3
<1>6. ASSUME NEW x
      PROVE  [p EXCEPT !.at = "header", !.size = x, !.total = 0, !.expects = TRUE]
               = Place("header", p.file, p.time, x, 0, p.left, TRUE)
  <2>1. PICK q : q = Place("header", p.file, p.time, p.size, p.total, p.left, p.expects)
    OBVIOUS
  <2>2. PICK r : r = Place("header", p.file, p.time, x, p.total, p.left, p.expects)
    OBVIOUS
  <2>3. PICK s : s = Place("header", p.file, p.time, x, 0, p.left, p.expects)
    OBVIOUS
  <2>4. [p EXCEPT !.at = "header"] = q
    BY <1>2, <2>1
  <2>5. [q EXCEPT !.size = x] = r
    BY <2>1, <2>2 DEF Place
  <2>6. [r EXCEPT !.total = 0] = s
    BY <2>2, <2>3 DEF Place
  <2>7. ASSUME NEW b
        PROVE  [s EXCEPT !.expects = b] = Place("header", p.file, p.time, x, 0, p.left, b)
    BY <2>3 DEF Place
  <2>8. [s EXCEPT !.expects = TRUE] = Place("header", p.file, p.time, x, 0, p.left, TRUE)
    BY <2>7
  <2> QED BY <2>4, <2>5, <2>6, <2>8
<1> QED BY <1>1, <1>2, <1>3, <1>4, <1>5, <1>6

\* A step that neither reads nor sends leaves the stream as it is.
LEMMA StreamOn ==
  ASSUME StreamInv, src' = src, Undamaged' => Undamaged,
         Active' => Active /\ Standing' = Standing, Arriving' = Arriving,
         Sending' => Sending /\ Leaving' = Leaving /\ \A r : SentTo(r) => SentTo(r)'
  PROVE  StreamInv'
<1> SUFFICES ASSUME Undamaged', Active'
             PROVE  \E q \in Places :
                      /\ Leads(src', Standing', Arriving', q)
                      /\ Sending' => \E r \in Places : Leads(src', q, Leaving', r) /\ SentTo(r)'
  BY DEF StreamInv
<1>1. PICK q \in Places :
        /\ Leads(src, Standing, Arriving, q)
        /\ Sending => \E r \in Places : Leads(src, q, Leaving, r) /\ SentTo(r)
  BY DEF StreamInv
<1> QED BY <1>1

\* What a thread hands on is neither lost nor changed.
LEMMA HandedOn ==
  ASSUME NEW s \in Seq(Units), NEW t \in Seq(Units), NEW u \in Seq(Units), NEW n \in Nat
  PROVE  (s \o FirstOf(t, n)) \o (Rest(t, n) \o u) = s \o (t \o u)
<1>1. PICK x \in Seq(Units), y \in Seq(Units) :
        x = FirstOf(t, n) /\ y = Rest(t, n) /\ x \o y = t
  BY CutLengths, CutWhole
<1>2. PICK w \in Seq(Units) : w = y \o u
  BY <1>1, ConcatProperties
<1>3. (s \o x) \o w = s \o (x \o w)
  BY Associates, SMTT(30)
<1>4. (x \o y) \o u = x \o (y \o u)
  BY Associates, SMTT(30)
<1> QED BY <1>1, <1>2, <1>3, <1>4

LEMMA WriteOnKeeps ==
  ASSUME TransferType, WriteOn
  PROVE  Leaving' = Leaving /\ Arriving' = Arriving
<1>t. /\ rpipe \in Seq(Units) /\ rbuf \in Seq(Units) /\ net \in Seq(Units)
      /\ sbuf \in Seq(Units) /\ spipe \in Seq(Units) /\ sout \in Seq(Units)
      /\ rbuf \o net \in Seq(Units) /\ spipe \o sout \in Seq(Units)
  BY StreamTypes
<1>1. PICK n \in Nat : spipe' = spipe \o FirstOf(sout, n) /\ sout' = Rest(sout, n)
  <2>1. PipeRoom \in Nat
    BY CapAssumption, LenProperties DEF WriteOn, PipeRoom, TransferType
  <2> QED BY <2>1 DEF WriteOn
<1>2. <<>> \in Seq(Units) /\ sout' \in Seq(Units)
  BY <1>1, StreamTypes, CutLengths, EmptySeq
<1>3. (spipe \o FirstOf(sout, n)) \o (Rest(sout, n) \o <<>>) = spipe \o (sout \o <<>>)
  <2>1. PICK a \in Seq(Units), b \in Seq(Units), e \in Seq(Units) :
          a = spipe /\ b = sout /\ e = <<>>
    BY <1>2, <1>t
  <2>2. (a \o FirstOf(b, n)) \o (Rest(b, n) \o e) = a \o (b \o e)
    BY HandedOn, Zenon
  <2> QED BY <2>1, <2>2
<1>4. spipe' \o sout' = spipe \o sout
  BY <1>1, <1>2, <1>3, StreamTypes, ConcatEmptySeq
<1> QED BY <1>4 DEF Leaving, Arriving, WriteOn, netVars, recvVars

LEMMA SndReadKeeps ==
  ASSUME TransferType, ThreadInv, SndRead
  PROVE  Leaving' = Leaving /\ Arriving' = Arriving
<1>1. sbuf = <<>> /\ sbuf' = spipe /\ spipe' = <<>> /\ sout' = sout
  BY DEF SndRead, ThreadInv
<1>2. <<>> \o (spipe \o sout) = spipe \o (<<>> \o sout)
  BY StreamTypes, ConcatEmptySeq
<1> QED BY <1>1, <1>2 DEF Leaving, Arriving, SndRead, netVars, recvVars

LEMMA RcvRecvKeeps ==
  ASSUME TransferType, ThreadInv, RcvRecv
  PROVE  Leaving' = Leaving /\ Arriving' = Arriving
<1>1. PICK n \in Nat : rbuf' = FirstOf(net, n) /\ net' = Rest(net, n) /\ rbuf = <<>>
  <2>1. PICK n \in 1 .. Len(net) : rbuf' = FirstOf(net, n) /\ net' = Rest(net, n)
    BY DEF RcvRecv
  <2> QED BY <2>1 DEF RcvRecv, ThreadInv
<1>2. rbuf' \o net' = rbuf \o net
  BY <1>1, StreamTypes, CutWhole, ConcatEmptySeq
<1> QED BY <1>2 DEF Leaving, Arriving, RcvRecv, sendVars

LEMMA RcvWriteKeeps ==
  ASSUME TransferType, RcvWrite
  PROVE  Leaving' = Leaving /\ Arriving' = Arriving
<1>t. /\ rpipe \in Seq(Units) /\ rbuf \in Seq(Units) /\ net \in Seq(Units)
      /\ sbuf \in Seq(Units) /\ spipe \in Seq(Units) /\ sout \in Seq(Units)
      /\ rbuf \o net \in Seq(Units) /\ spipe \o sout \in Seq(Units)
  BY StreamTypes
<1>1. PICK n \in Nat : rpipe' = rpipe \o FirstOf(rbuf, n) /\ rbuf' = Rest(rbuf, n)
  <2>1. RcvRoom \in Nat
    BY CapAssumption, LenProperties DEF RcvWrite, RcvRoom, TransferType
  <2> QED BY <2>1 DEF RcvWrite
<1>2. (rpipe \o FirstOf(rbuf, n)) \o (Rest(rbuf, n) \o net) = rpipe \o (rbuf \o net)
  <2>1. PICK a \in Seq(Units), b \in Seq(Units), c \in Seq(Units) :
          a = rpipe /\ b = rbuf /\ c = net
    BY <1>t
  <2>2. (a \o FirstOf(b, n)) \o (Rest(b, n) \o c) = a \o (b \o c)
    BY HandedOn, Zenon
  <2> QED BY <2>1, <2>2
<1> QED BY <1>1, <1>2 DEF Leaving, Arriving, RcvWrite, sendVars, netVars

\* A thread hands on what it holds.
LEMMA HandsOnStream ==
  ASSUME TransferType, ThreadInv, StreamInv, WriteOn \/ SndRead \/ RcvRecv \/ RcvWrite
  PROVE  StreamInv'
<1>1. Leaving' = Leaving /\ Arriving' = Arriving
  BY WriteOnKeeps, SndReadKeeps, RcvRecvKeeps, RcvWriteKeeps
<1>2. UNCHANGED <<src, smain, cur, off>> /\ rmainVars' = rmainVars
  BY DEF WriteOn, SndRead, RcvRecv, RcvWrite, fileVars, smainVars
<1>3. (Undamaged' => Undamaged) /\ (Sending' => Sending)
  BY DEF WriteOn, SndRead, RcvRecv, RcvWrite, Undamaged, Sending, sendVars, netVars
<1> QED BY <1>1, <1>2, <1>3, SentToSame, StandingSame, StreamOn

\* What UDT takes over is on the other side of the connection's end.
LEMMA SndSendHandsOver ==
  ASSUME TransferType, SndSend, conn = "up"
  PROVE  \E x \in Seq(Units) : /\ Arriving' = Arriving \o x /\ Leaving = x \o Leaving'
                              /\ Leaving' \in Seq(Units)
<1>t. /\ rpipe \in Seq(Units) /\ rbuf \in Seq(Units) /\ net \in Seq(Units)
      /\ sbuf \in Seq(Units) /\ spipe \in Seq(Units) /\ sout \in Seq(Units)
      /\ rbuf \o net \in Seq(Units) /\ spipe \o sout \in Seq(Units)
  BY StreamTypes
<1>1. NetRoom \in Nat
  <2>1. NetRoom > 0
    BY DEF SndSend
  <2> QED BY <2>1, CapAssumption, LenProperties DEF NetRoom, TransferType
<1>2. PICK n \in Nat : net' = net \o FirstOf(sbuf, n) /\ sbuf' = Rest(sbuf, n)
  BY <1>1 DEF SndSend
<1>3. PICK x \in Seq(Units), y \in Seq(Units) :
        x = FirstOf(sbuf, n) /\ y = Rest(sbuf, n) /\ x \o y = sbuf
  BY StreamTypes, CutLengths, CutWhole, SMTT(30)
<1>4. Arriving' = Arriving \o x
  <2>1. rbuf \o (net \o x) = (rbuf \o net) \o x
    <3>1. PICK a \in Seq(Units), b \in Seq(Units) : a = rbuf /\ b = net
      BY <1>t
    <3>2. (a \o b) \o x = a \o (b \o x)
      BY Associates, Zenon
    <3> QED BY <3>1, <3>2
  <2>2. rpipe \o ((rbuf \o net) \o x) = (rpipe \o (rbuf \o net)) \o x
    <3>1. PICK a \in Seq(Units), b \in Seq(Units) : a = rpipe /\ b = rbuf \o net
      BY <1>t
    <3>2. (a \o b) \o x = a \o (b \o x)
      BY Associates
    <3> QED BY <3>1, <3>2
  <2> QED BY <1>2, <1>3, <2>1, <2>2 DEF SndSend, Arriving, recvVars
<1>5. Leaving' = y \o (spipe \o sout) /\ Leaving = x \o Leaving'
  <2>1. (x \o y) \o (spipe \o sout) = x \o (y \o (spipe \o sout))
    <3>1. PICK a \in Seq(Units) : a = spipe \o sout
      BY <1>t
    <3>2. (x \o y) \o a = x \o (y \o a)
      BY Associates
    <3> QED BY <3>1, <3>2
  <2>2. Leaving' = y \o (spipe \o sout)
    BY <1>2, <1>3 DEF SndSend, Leaving
  <2> QED BY <1>3, <2>1, <2>2 DEF Leaving
<1>6. Leaving' \in Seq(Units)
  BY <1>5, StreamTypes, ConcatProperties
<1> QED BY <1>4, <1>5, <1>6

LEMMA SndSendStream ==
  ASSUME TransferType, StreamInv, SndSend
  PROVE  StreamInv'
<1>1. UNCHANGED <<src, smain, cur, off>> /\ rmainVars' = rmainVars
  BY DEF SndSend, fileVars, smainVars
<1>2. Standing' = Standing /\ Active' = Active /\ (Undamaged' => Undamaged)
  BY <1>1, StandingSame DEF SndSend, Undamaged
<1>3. CASE conn # "up"
  <2>1. Arriving' = Arriving /\ ~Sending'
    BY <1>3 DEF SndSend, Arriving, Sending, recvVars
  <2> QED BY <1>1, <1>2, <2>1, StreamOn
<1>4. CASE conn = "up"
  <2>1. PICK x \in Seq(Units) : /\ Arriving' = Arriving \o x /\ Leaving = x \o Leaving'
                                /\ Leaving' \in Seq(Units)
    BY <1>4, SndSendHandsOver
  <2>2. Sending /\ src' = src
    BY <1>4, <1>1 DEF SndSend, Sending
  <2> SUFFICES ASSUME Undamaged, Active
               PROVE  \E q \in Places :
                        /\ Leads(src, Standing, Arriving', q)
                        /\ \E r \in Places : Leads(src, q, Leaving', r) /\ SentTo(r)'
    BY <1>1, <1>2 DEF StreamInv
  <2>3. PICK q \in Places, r \in Places :
          Leads(src, Standing, Arriving, q) /\ Leads(src, q, Leaving, r) /\ SentTo(r)
    BY <2>2 DEF StreamInv
  <2>4. PICK p \in Places : Leads(src, q, x, p) /\ Leads(src, p, Leaving', r)
    BY <2>1, <2>3, StreamTypes, LeadsThrough
  <2>5. Leads(src, Standing, Arriving \o x, p)
    BY <2>3, <2>4, StreamTypes, LeadsOn
  <2>6. SentTo(r)'
    BY <1>1, <2>3, SentToSame
  <2> QED BY <2>1, <2>4, <2>5, <2>6
<1> QED BY <1>3, <1>4

\* Part of what was in flight is lost with the connection.
LEMMA LoseStream ==
  ASSUME TransferType, StreamInv, Lose \/ RcvClose
  PROVE  StreamInv'
<1>t. /\ rpipe \in Seq(Units) /\ rbuf \in Seq(Units) /\ net \in Seq(Units)
      /\ sbuf \in Seq(Units) /\ spipe \in Seq(Units) /\ sout \in Seq(Units)
      /\ rbuf \o net \in Seq(Units) /\ spipe \o sout \in Seq(Units)
  BY StreamTypes
<1>1. rmainVars' = rmainVars /\ src' = src /\ ~Sending' /\ (Undamaged' => Undamaged)
      /\ rpipe' = rpipe /\ rbuf' = rbuf
  BY DEF Lose, RcvClose, fileVars, sendVars, recvVars, Sending, Undamaged
<1>2. Standing' = Standing /\ Active' = Active
  BY <1>1, StandingSame
<1>3. PICK x \in Seq(Units), y \in Seq(Units) : net' = x /\ x \o y = net
  <2>1. CASE Lose
    <3>1. PICK n \in Nat : net' = FirstOf(net, n)
      <4>1. PICK n \in 0 .. Len(net) : net' = FirstOf(net, n)
        BY <2>1 DEF Lose
      <4> QED BY <4>1
    <3>2. PICK s \in Seq(Units) : s = net
      BY StreamTypes
    <3>3. FirstOf(s, n) \in Seq(Units) /\ Rest(s, n) \in Seq(Units)
      BY CutLengths
    <3>4. FirstOf(s, n) \o Rest(s, n) = s
      BY CutWhole
    <3> QED BY <3>1, <3>2, <3>3, <3>4
  <2>2. CASE RcvClose
    <3>1. net' = <<>> /\ <<>> \in Seq(Units) /\ <<>> \o net = net
      BY <2>2, StreamTypes, ConcatEmptySeq, EmptySeq DEF RcvClose
    <3> QED BY <3>1, StreamTypes
  <2> QED BY <2>1, <2>2
<1>4. Arriving' \in Seq(Units) /\ Arriving = Arriving' \o y
  <2>1. Arriving' = rpipe \o (rbuf \o x)
    BY <1>1, <1>3 DEF Arriving
  <2>2. rbuf \o x \in Seq(Units)
    BY StreamTypes, ConcatProperties
  <2>3. rbuf \o (x \o y) = (rbuf \o x) \o y
    <3>1. PICK a \in Seq(Units) : a = rbuf
      BY <1>t
    <3>2. (a \o x) \o y = a \o (x \o y)
      BY Associates
    <3> QED BY <3>1, <3>2
  <2>4. rpipe \o ((rbuf \o x) \o y) = (rpipe \o (rbuf \o x)) \o y
    <3>1. PICK a \in Seq(Units), b \in Seq(Units) : a = rpipe /\ b = rbuf \o x
      BY <2>2, <1>t
    <3>2. (a \o b) \o y = a \o (b \o y)
      BY Associates, Zenon
    <3> QED BY <3>1, <3>2
  <2> QED BY <1>3, <2>1, <2>2, <2>3, <2>4, StreamTypes, ConcatProperties DEF Arriving
<1> SUFFICES ASSUME Undamaged, Active
             PROVE  \E q \in Places : Leads(src, Standing, Arriving', q)
  BY <1>1, <1>2 DEF StreamInv
<1>5. PICK r \in Places : Leads(src, Standing, Arriving, r)
  BY DEF StreamInv
<1>6. PICK q \in Places : Leads(src, Standing, Arriving', q)
  BY <1>4, <1>5, StreamTypes, LeadsThrough
<1> QED BY <1>6
-----------------------------------------------------------------------------
(* What is sent *)

LEMMA BadStays ==
  ASSUME Online, NEW v \in Ages, NEW p \in Places, p.at = "bad", NEW s \in Seq(Units)
  PROVE  Leads(v, p, s, p)
<1>1. PICK n \in Nat : Len(s) = n
  BY LenProperties
<1>2. PICK L \in [Nat -> Places] : \A i \in Nat : L[i] = p
  <2>1. [i \in Nat |-> p] \in [Nat -> Places]
    OBVIOUS
  <2> QED BY <2>1
<1>3. ASSUME NEW i \in 1 .. n
      PROVE  Moves(v, L[i], s[i], L[i + 1])
  <2>1. L[i] = p /\ L[i + 1] = p
    BY <1>2
  <2> QED BY <2>1 DEF Moves
<1>4. L[1] = p /\ L[n + 1] = p
  BY <1>2
<1> QED BY <1>1, <1>3, <1>4 DEF Leads

\* A reader is led astray by what it does not take.
LEMMA GoesBad ==
  ASSUME Online, NEW v \in Ages, NEW p \in Places, p.at # "end", NEW s \in Seq(Units),
         NEW u \in Units, u[1] \notin Takes(p)
  PROVE  \E r \in Places : Leads(v, p, <<u>> \o s, r) /\ r.at = "bad"
<1>1. PICK b : b = [p EXCEPT !.at = "bad"]
  OBVIOUS
<1>2. /\ b \in PlaceRecords /\ b.at = "bad" /\ b.file = p.file /\ b.left = p.left
      /\ b.total = p.total /\ b.size = p.size /\ b.expects = p.expects
  BY <1>1, PlaceFields DEF PlaceRecords
<1>3. b \in Places
  BY <1>2, PlaceFields DEF Places
<1>4. Moves(v, p, u, b)
  BY <1>2 DEF Moves
<1>5. Leads(v, p, <<u>>, b) /\ Leads(v, b, s, b)
  BY <1>2, <1>3, <1>4, LeadsOne, BadStays
<1>6. <<u>> \in Seq(Units)
  OBVIOUS
<1> QED BY <1>2, <1>3, <1>5, <1>6, LeadsOn

\* Two units.
LEMMA LeadsTwo ==
  ASSUME NEW v \in Ages, NEW p \in Places, NEW m \in Places, NEW r \in Places,
         NEW u \in Units, NEW w \in Units, Moves(v, p, u, m), Moves(v, m, w, r)
  PROVE  Leads(v, p, <<u>> \o <<w>>, r)
<1>1. Leads(v, p, <<u>>, m) /\ Leads(v, m, <<w>>, r)
  BY LeadsOne
<1>2. <<u>> \in Seq(Units) /\ <<w>> \in Seq(Units)
  OBVIOUS
<1> QED BY <1>1, <1>2, LeadsOn

\* A message goes to the end of what has been sent.
LEMMA LeavesLast ==
  ASSUME TransferType, sout = <<>>, NEW msg \in Seq(Units), sout' = msg, UNCHANGED sendRest
  PROVE  Leaving' = Leaving \o msg
<1>1. PICK a \in Seq(Units), b \in Seq(Units) : a = sbuf /\ b = spipe
  BY StreamTypes
<1>2. Leaving = a \o b /\ a \o b \in Seq(Units)
  <2>1. b \o <<>> = b
    BY ConcatEmptySeq
  <2> QED BY <1>1, <2>1, ConcatProperties DEF Leaving
<1>3. (a \o b) \o msg = a \o (b \o msg)
  BY Associates
<1>4. Leaving' = a \o (b \o msg)
  BY <1>1 DEF Leaving, sendRest
<1> QED BY <1>2, <1>3, <1>4

LEMMA SendsStream ==
  ASSUME TransferType, StreamInv, sout = <<>>, NEW msg \in Seq(Units), PipeWrite(msg),
         src' = src, UNCHANGED <<sendRest, netVars, recvVars, rmainVars>>,
         \A p \in Places : SentTo(p) => \E r \in Places : Leads(src, p, msg, r) /\ SentTo(r)'
  PROVE  StreamInv'
<1>1. Standing' = Standing /\ Active' = Active /\ Arriving' = Arriving
  BY StandingSame DEF Arriving, netVars, recvVars
<1>2. harmed' \in Nat /\ (harmed' = 0 => harmed = 0)
  BY PipeWriteTypes
<1>3. Undamaged' => Undamaged
  BY <1>2 DEF Undamaged
<1>4. (Sending' => Sending) /\ (Undamaged' /\ Sending' => sout' = msg)
  <2>1. Harm => harmed' # 0
    <3>1. harmed \in Nat /\ Faults \in Nat
      BY CountAssumption DEF TransferType
    <3> QED BY <3>1, LesserOf DEF Harm
  <2>2. Faults = 0 => ~ (harmed < Faults)
    BY DEF TransferType
  <2> QED BY <2>1, <2>2 DEF PipeWrite, Sending, sendRest, netVars, Undamaged
<1>5. sout' = msg => Leaving' = Leaving \o msg
  BY LeavesLast
<1> SUFFICES ASSUME Undamaged', Active
             PROVE  \E q \in Places :
                      /\ Leads(src, Standing, Arriving, q)
                      /\ Sending' => \E r \in Places : Leads(src, q, Leaving', r) /\ SentTo(r)'
  BY <1>1 DEF StreamInv
<1>6. PICK q \in Places :
        /\ Leads(src, Standing, Arriving, q)
        /\ Sending => \E r \in Places : Leads(src, q, Leaving, r) /\ SentTo(r)
  BY <1>3 DEF StreamInv
<1>7. ASSUME Sending'
      PROVE  \E r \in Places : Leads(src, q, Leaving', r) /\ SentTo(r)'
  <2>1. PICK p \in Places : Leads(src, q, Leaving, p) /\ SentTo(p)
    BY <1>4, <1>6, <1>7
  <2>2. PICK r \in Places : Leads(src, p, msg, r) /\ SentTo(r)'
    BY <2>1
  <2>3. Leads(src, q, Leaving \o msg, r)
    BY <2>1, <2>2, StreamTypes, LeadsOn
  <2> QED BY <1>4, <1>5, <1>7, <2>2, <2>3
<1> QED BY <1>6, <1>7

LEMMA SendFilelistStream ==
  ASSUME TransferType, StreamInv, SendFilelist
  PROVE  StreamInv'
<1>1. PICK u \in Units, w \in Units, msg \in Seq(Units) :
        /\ u = <<"FILELIST", 0>> /\ w = <<"list", 0>> /\ msg = <<u>> \o <<w>>
        /\ PipeWrite(msg)
  <2>1. PICK u \in Units, w \in Units, msg \in Seq(Units) :
          /\ u = <<"FILELIST", 0>> /\ w = <<"list", 0>> /\ msg = <<u>> \o <<w>>
          /\ msg = Header("FILELIST", 0) \o <<<<"list", 0>>>>
    <3>1. IsMessage(Header("FILELIST", 0) \o <<<<"list", 0>>>>, <<"FILELIST", 0>>, <<"list", 0>>)
      BY Names, MessageOf
    <3> QED BY <3>1 DEF IsMessage
  <2>2. PipeWrite(msg)
    BY <2>1 DEF SendFilelist
  <2> QED BY <2>1, <2>2
<1>2. smain = "list" /\ smain' = "wait"
  BY DEF SendFilelist
<1>3. ASSUME NEW p \in Places, SentTo(p)
      PROVE  \E r \in Places : Leads(src, p, msg, r) /\ SentTo(r)'
  <2>1. CASE Online /\ p.at = "bad"
    BY <2>1, StreamTypes, BadStays DEF SentTo
  <2>2. CASE ~ (Online /\ p.at = "bad")
    <3>1. AtHeader(p) /\ p.file = NoFile /\ ~p.expects
      BY <1>2, <1>3, <2>2 DEF SentTo
    <3>2. PICK m \in Places : m = [p EXCEPT !.at = "FILELIST"] /\ m.at = "FILELIST"
      <4>1. PICK m : m = [p EXCEPT !.at = "FILELIST"]
        OBVIOUS
      <4>2. /\ m \in PlaceRecords /\ m.at = "FILELIST" /\ m.left = 0 /\ ~m.expects
        BY <3>1, <4>1, PlaceFields DEF PlaceRecords, AtHeader
      <4> QED BY <4>1, <4>2 DEF Places
    <3>3. [m EXCEPT !.at = "header"] = p
      BY <3>1, <3>2, PlaceFields DEF PlaceRecords, AtHeader
    <3>4. Moves(src, p, u, m) /\ Moves(src, m, w, p)
      BY <1>1, <3>1, <3>2, <3>3 DEF Moves
    <3>5. Leads(src, p, msg, p)
      BY <1>1, <3>4, StreamTypes, LeadsTwo
    <3>6. SentTo(p)'
      BY <1>2, <3>1 DEF SentTo
    <3> QED BY <3>5, <3>6
  <2> QED BY <2>1, <2>2
<1> QED BY <1>1, <1>3, SendsStream DEF SendFilelist, fileVars

LEMMA SendFilenameStream ==
  ASSUME TransferType, StreamInv, SendFilename
  PROVE  StreamInv'
<1>1. PICK x \in Nat, f \in Files : x = src[cur] /\ f = cur /\ x \in 1 .. src[f]
  <2>1. cur \in Files /\ src[cur] \in 1 .. Len(Size[cur]) /\ src[cur] \in Nat
    BY DEF SendFilename, TransferType
  <2> QED BY <2>1
<1>2. PICK u \in Units, w \in Units, msg \in Seq(Units) :
        /\ u = <<"FILENAME", x>> /\ w = <<"name", f>> /\ msg = <<u>> \o <<w>>
        /\ PipeWrite(msg)
  <2>1. f \in Nat
    BY DEF Files
  <2>2. PICK u \in Units, w \in Units, msg \in Seq(Units) :
          /\ u = <<"FILENAME", x>> /\ w = <<"name", f>> /\ msg = <<u>> \o <<w>>
          /\ msg = Header("FILENAME", x) \o <<<<"name", f>>>>
    <3>1. IsMessage(Header("FILENAME", x) \o <<<<"name", f>>>>, <<"FILENAME", x>>, <<"name", f>>)
      BY <2>1, Names, MessageOf
    <3> QED BY <3>1 DEF IsMessage
  <2>3. PipeWrite(msg)
    BY <1>1, <2>2 DEF SendFilename
  <2> QED BY <2>2, <2>3
<1>3. smain = "file" /\ smain' = "size" /\ src' = src /\ cur' = cur
  BY DEF SendFilename, fileVars
<1>4. ASSUME NEW p \in Places, SentTo(p)
      PROVE  \E r \in Places : Leads(src, p, msg, r) /\ SentTo(r)'
  <2>1. CASE Online /\ p.at = "bad"
    BY <2>1, StreamTypes, BadStays DEF SentTo
  <2>2. CASE ~ (Online /\ p.at = "bad")
    <3>1. AtHeader(p) /\ p.file = NoFile /\ ~p.expects
      BY <1>3, <1>4, <2>2 DEF SentTo
    <3>2. PICK m \in Places :
            /\ m = [p EXCEPT !.at = "FILENAME", !.time = x]
            /\ m.at = "FILENAME" /\ m.left = 0 /\ ~m.expects /\ m.time = x
      <4>1. PICK m : m = [p EXCEPT !.at = "FILENAME", !.time = x]
        OBVIOUS
      <4>2. /\ m \in PlaceRecords /\ m.at = "FILENAME" /\ m.left = 0 /\ ~m.expects
            /\ m.time = x
        BY <3>1, <4>1, PlaceFields DEF PlaceRecords, AtHeader
      <4> QED BY <4>1, <4>2 DEF Places
    <3>3. PICK r \in Places :
            /\ r = [m EXCEPT !.at = "header", !.file = f]
            /\ r.at = "header" /\ r.file = f /\ r.left = 0 /\ ~r.expects /\ r.time = x
      <4>1. PICK r : r = [m EXCEPT !.at = "header", !.file = f]
        OBVIOUS
      <4>2. /\ r \in PlaceRecords /\ r.at = "header" /\ r.left = 0 /\ ~r.expects
            /\ r.time = x /\ r.file = f
        BY <3>2, <4>1, PlaceFields, Zenon DEF PlaceRecords
      <4> QED BY <4>1, <4>2 DEF Places
    <3>4. Moves(src, p, u, m)
      BY <1>2, <3>1, <3>2 DEF Moves
    <3>5. Moves(src, m, w, r)
      BY <1>1, <1>2, <3>2, <3>3 DEF Moves
    <3>6. Leads(src, p, msg, r)
      BY <1>2, <3>4, <3>5, StreamTypes, LeadsTwo
    <3>7. SentTo(r)'
      BY <1>1, <1>3, <3>3 DEF SentTo
    <3> QED BY <3>6, <3>7
  <2> QED BY <2>1, <2>2
<1> QED BY <1>2, <1>4, SendsStream DEF SendFilename, fileVars

LEMMA SendFSizeStream ==
  ASSUME TransferType, StreamInv, SendFSize
  PROVE  StreamInv'
<1>1. PICK x \in Nat : x = Size[cur][src[cur]]
  BY SizeIs DEF SendFSize, TransferType
<1>2. PICK u \in Units, w \in Units, msg \in Seq(Units) :
        /\ u = <<"F_SIZE", 0>> /\ w = <<"size", x>> /\ msg = <<u>> \o <<w>>
        /\ PipeWrite(msg)
  <2>1. PICK u \in Units, w \in Units, msg \in Seq(Units) :
          /\ u = <<"F_SIZE", 0>> /\ w = <<"size", x>> /\ msg = <<u>> \o <<w>>
          /\ msg = Header("F_SIZE", 0) \o <<<<"size", x>>>>
    <3>1. IsMessage(Header("F_SIZE", 0) \o <<<<"size", x>>>>, <<"F_SIZE", 0>>, <<"size", x>>)
      BY Names, MessageOf
    <3> QED BY <3>1 DEF IsMessage
  <2>2. PipeWrite(msg)
    BY <1>1, <2>1 DEF SendFSize
  <2> QED BY <2>1, <2>2
<1>3. /\ smain = "size" /\ smain' = "data" /\ src' = src /\ cur' = cur /\ off' = 0
      /\ cur \in Files
  BY DEF SendFSize, fileVars, TransferType
<1>4. ASSUME NEW p \in Places, SentTo(p)
      PROVE  \E r \in Places : Leads(src, p, msg, r) /\ SentTo(r)'
  <2>1. CASE Online /\ p.at = "bad"
    BY <2>1, StreamTypes, BadStays DEF SentTo
  <2>2. CASE ~ (Online /\ p.at = "bad")
    <3>1. /\ p.at = "header" /\ p.left = 0 /\ p.file = cur /\ ~p.expects
          /\ p.time \in 1 .. src[cur] /\ (~Online => p.time = src[cur])
      BY <1>3, <1>4, <2>2 DEF SentTo
    <3>2. PICK m \in Places : m = [p EXCEPT !.at = "F_SIZE"] /\ m.at = "F_SIZE" /\ m.left = 0
                              /\ m.file = cur /\ m.time = p.time
      <4>1. PICK m : m = [p EXCEPT !.at = "F_SIZE"]
        OBVIOUS
      <4>2. /\ m \in PlaceRecords /\ m.at = "F_SIZE" /\ m.left = 0 /\ ~m.expects
            /\ m.time = p.time /\ m.file = cur
        BY <3>1, <4>1, PlaceFields DEF PlaceRecords
      <4> QED BY <4>1, <4>2 DEF Places
    <3>3. PICK r \in Places :
            /\ r = [m EXCEPT !.at = "header", !.size = x, !.total = 0, !.expects = TRUE]
            /\ r.at = "header" /\ r.file = cur /\ r.left = 0 /\ r.expects
            /\ r.time = p.time /\ r.total = 0 /\ r.size = x
      <4>1. PICK r : r = [m EXCEPT !.at = "header", !.size = x, !.total = 0, !.expects = TRUE]
        OBVIOUS
      <4>2. /\ r \in PlaceRecords /\ r.at = "header" /\ r.left = 0 /\ r.expects
            /\ r.time = p.time /\ r.file = cur /\ r.total = 0 /\ r.size = x
        BY <3>2, <4>1, PlaceFields, Zenon DEF PlaceRecords
      <4>3. r.total + r.left <= r.size
        BY <4>2
      <4> QED BY <4>1, <4>2, <4>3 DEF Places
    <3>4. Moves(src, p, u, m)
      BY <1>2, <1>3, <3>1, <3>2 DEF Moves, AtHeader
    <3>5. Moves(src, m, w, r)
      BY <1>2, <3>2, <3>3 DEF Moves
    <3>6. Leads(src, p, msg, r)
      BY <1>2, <3>4, <3>5, StreamTypes, LeadsTwo
    <3>7. SentTo(r)'
      BY <1>1, <1>3, <3>1, <3>3 DEF SentTo
    <3> QED BY <3>6, <3>7
  <2> QED BY <2>1, <2>2
<1> QED BY <1>2, <1>4, SendsStream DEF SendFSize, fileVars

LEMMA SendDataStream ==
  ASSUME TransferType, StreamInv, SendData
  PROVE  StreamInv'
<1>1. PICK x \in Nat, z \in Nat, o \in Nat : x = src[cur] /\ z = Size[cur][src[cur]] /\ o = off
  BY SizeIs DEF SendData, TransferType
<1>2. PICK n \in Nat :
        /\ n = Min({BlockLen, Max({0, z - o})})
        /\ o <= z => n = IF BlockLen <= z - o THEN BlockLen ELSE z - o
  <2>1. PICK y \in Nat : y = Max({0, z - o}) /\ (o <= z => y = z - o)
    <3>1. Max({0, z - o}) = IF 0 <= z - o THEN z - o ELSE 0
      BY GreaterOf
    <3>2. Max({0, z - o}) \in Nat
      BY <3>1
    <3> QED BY <3>1, <3>2
  <2>2. BlockLen \in Nat
    BY CapAssumption
  <2>3. Min({BlockLen, y}) = IF BlockLen <= y THEN BlockLen ELSE y
    BY <2>1, <2>2, LesserOf
  <2> QED BY <2>1, <2>2, <2>3
<1>3. PICK u \in Units, s \in Seq(Units), msg \in Seq(Units) :
        /\ u = <<"DATA", 0>> /\ s = Bytes(n, x) /\ msg = <<u>> \o s
        /\ PipeWrite(msg)
  <2>1. PICK u \in Units, s \in Seq(Units), msg \in Seq(Units) :
          /\ u = <<"DATA", 0>> /\ s = Bytes(n, x) /\ msg = <<u>> \o s
          /\ msg = Header("DATA", 0) \o Bytes(n, x)
    BY MessageData
  <2>2. PipeWrite(msg)
    BY <1>1, <1>2, <2>1 DEF SendData, Bytes
  <2> QED BY <2>1, <2>2
<1>4. /\ smain = "data" /\ src' = src /\ cur' = cur /\ off' = o + n /\ cur \in Files
      /\ smain' = IF n = 0 THEN "eof" ELSE "data"
  BY <1>1, <1>2 DEF SendData, fileVars, TransferType
<1>5. ASSUME NEW p \in Places, SentTo(p)
      PROVE  \E r \in Places : Leads(src, p, msg, r) /\ SentTo(r)'
  <2>1. CASE Online /\ p.at = "bad"
    BY <2>1, StreamTypes, BadStays DEF SentTo
  <2>2. CASE ~ (Online /\ p.at = "bad")
    <3>1. /\ p.at = "header" /\ p.file = cur /\ p.expects
          /\ p.time \in 1 .. x /\ (~Online => p.time = x)
          /\ p.time = x => p.left = 0 /\ p.size = z /\ p.total = o
      BY <1>1, <1>4, <1>5, <2>2 DEF SentTo
    <3>2. CASE p.left # 0
      <4>1. u[1] \notin Takes(p) /\ Online
        BY <1>3, <3>1, <3>2 DEF Takes
      <4>2. PICK r \in Places : Leads(src, p, <<u>> \o s, r) /\ r.at = "bad"
        BY <3>1, <4>1, StreamTypes, GoesBad, Zenon
      <4> QED BY <1>3, <4>1, <4>2 DEF SentTo
    <3>3. CASE p.left = 0
      <4>1. PICK k \in Nat : /\ k = Min({BlockLen, p.size - p.total})
                             /\ k = IF BlockLen <= p.size - p.total THEN BlockLen
                                    ELSE p.size - p.total
                             /\ p.total + k <= p.size
        <5>1. BlockLen \in Nat /\ p.size \in Nat /\ p.total \in Nat /\ p.total <= p.size
          BY <3>1, <3>3, CapAssumption, PlaceFields
        <5>2. Min({BlockLen, p.size - p.total}) = IF BlockLen <= p.size - p.total THEN BlockLen
                                                  ELSE p.size - p.total
          BY <5>1, LesserOf
        <5> QED BY <5>1, <5>2
      <4>2. PICK m \in Places :
              /\ m = [p EXCEPT !.left = Min({BlockLen, p.size - p.total})]
              /\ m.at = "header" /\ m.file = cur /\ m.time = p.time /\ m.left = k
              /\ m.size = p.size /\ m.total = p.total /\ m.expects
        <5>1. PICK m : m = [p EXCEPT !.left = k]
          OBVIOUS
        <5>2. /\ m \in PlaceRecords /\ m.at = "header" /\ m.file = cur /\ m.time = p.time
              /\ m.left = k /\ m.size = p.size /\ m.total = p.total /\ m.expects
          BY <3>1, <5>1, PlaceFields DEF PlaceRecords
        <5>3. m \in Places
          BY <1>4, <4>1, <5>2 DEF Places
        <5> QED BY <4>1, <5>1, <5>2, <5>3
      <4>3. Moves(src, p, u, m)
        BY <1>3, <1>4, <3>1, <3>3, <4>2 DEF Moves, AtHeader
      <4>4. p.time = x => n = k
        BY <1>2, <3>1, <4>1, PlaceFields, SMTT(30)
      <4>5. n > m.left => Online
        BY <3>1, <4>2, <4>4
      <4>6. src[m.file] <= m.time => x = m.time
        BY <1>1, <3>1, <4>2
      <4>7. PICK r \in Places : /\ Leads(src, m, s, r)
                                /\ IF n <= k THEN r = Ahead(m, n) ELSE r.at = "bad"
        <5>1. m.left # 0 /\ src[m.file] <= m.time => x = m.time
          BY <4>6
        <5>2. src \in Ages
          BY StreamTypes
        <5>3. \E r \in Places : /\ Leads(src, m, Bytes(n, x), r)
                              /\ IF n <= m.left THEN r = Ahead(m, n) ELSE r.at = "bad"
          <6>1. m.at = "header"
            BY <4>2
          <6> QED BY <6>1, <4>5, <5>1, <5>2, BlockSent
        <5> QED BY <1>3, <4>2, <5>3
      <4>8. Leads(src, p, msg, r)
        <5>1. Leads(src, p, <<u>>, m) /\ <<u>> \in Seq(Units)
          BY <4>3, StreamTypes, LeadsOne
        <5> QED BY <1>3, <4>7, <5>1, StreamTypes, LeadsOn
      <4>9. SentTo(r)'
        <5>1. CASE n > k
          BY <4>2, <4>5, <4>7, <5>1 DEF SentTo
        <5>2. CASE n <= k
          <6>1. /\ r.at = "header" /\ r.file = cur /\ r.time = p.time /\ r.expects
                /\ r.left = k - n /\ r.total = p.total + n /\ r.size = p.size
            <7>1. n \in 0 .. m.left /\ r = Ahead(m, n)
              BY <4>2, <4>7, <5>2
            <7>2. /\ r.at = "header" /\ r.left = m.left - n /\ r.file = m.file
                  /\ r.time = m.time /\ r.total = m.total + n /\ r.size = m.size
                  /\ r.expects = m.expects
              <8>1. m.at = "header"
                BY <4>2
              <8> QED BY <8>1, <7>1, AheadPlace
            <7> QED BY <4>2, <7>2
          <6>2. p.time = x => /\ r.left = 0 /\ r.size = z /\ r.total = o + n
                              /\ n = 0 => r.total = r.size
            <7>1. BlockLen \in Nat \ {0}
              BY CapAssumption
            <7> SUFFICES ASSUME p.time = x
                         PROVE  /\ r.left = 0 /\ r.size = z /\ r.total = o + n
                                /\ n = 0 => r.total = r.size
              OBVIOUS
            <7>2. n = k /\ p.size = z /\ p.total = o
              BY <3>1, <4>4
            <7>3. k = IF BlockLen <= z - o THEN BlockLen ELSE z - o
              BY <4>1, <7>2
            <7>4. r.left = k - k /\ r.total = o + k /\ r.size = z
              BY <6>1, <7>2
            <7>5. n = 0 => o + k = z
              BY <7>1, <7>2, <7>3
            <7> QED BY <7>2, <7>4, <7>5
          <6> QED BY <1>1, <1>4, <3>1, <6>1, <6>2 DEF SentTo
        <5> QED BY <5>1, <5>2
      <4> QED BY <4>8, <4>9
    <3> QED BY <3>2, <3>3
  <2> QED BY <2>1, <2>2
<1> QED BY <1>3, <1>5, SendsStream DEF SendData, fileVars

LEMMA SendDataCompleteStream ==
  ASSUME TransferType, StreamInv, SendDataComplete
  PROVE  StreamInv'
<1>1. PICK x \in Nat : x = src[cur] /\ cur \in Files
  BY DEF SendDataComplete, TransferType
<1>2. PICK u \in Units, msg \in Seq(Units) :
        u = <<"DATA_COMPLETE", 0>> /\ msg = <<u>> /\ PipeWrite(msg)
  <2>1. PICK u \in Units, msg \in Seq(Units) :
          u = <<"DATA_COMPLETE", 0>> /\ msg = <<u>> /\ msg = Header("DATA_COMPLETE", 0)
    BY Names, MessageAlone, Zenon
  <2>2. PipeWrite(msg)
    BY <2>1 DEF SendDataComplete
  <2> QED BY <2>1, <2>2
<1>3. smain = "eof" /\ smain' = "file" /\ src' = src
  BY DEF SendDataComplete
<1>4. ASSUME NEW p \in Places, SentTo(p)
      PROVE  \E r \in Places : Leads(src, p, msg, r) /\ SentTo(r)'
  <2>1. CASE Online /\ p.at = "bad"
    BY <2>1, StreamTypes, BadStays DEF SentTo
  <2>2. CASE ~ (Online /\ p.at = "bad")
    <3>1. /\ p.at = "header" /\ p.file = cur /\ p.expects
          /\ p.time \in 1 .. x /\ (~Online => p.time = x)
          /\ p.time = x => p.left = 0 /\ p.size = Size[cur][x] /\ p.total = p.size
      BY <1>1, <1>3, <1>4, <2>2 DEF SentTo
    <3>2. CASE p.left # 0
      <4>1. u[1] \notin Takes(p) /\ Online
        BY <1>2, <3>1, <3>2 DEF Takes
      <4>2. <<>> \in Seq(Units) /\ <<u>> \o <<>> = msg
        BY <1>2, EmptySeq, ConcatEmptySeq
      <4>3. PICK r \in Places : Leads(src, p, <<u>> \o <<>>, r) /\ r.at = "bad"
        BY <3>1, <4>1, <4>2, StreamTypes, GoesBad, Zenon
      <4> QED BY <4>1, <4>2, <4>3 DEF SentTo
    <3>3. CASE p.left = 0
      <4>1. Finished(src, p)
        BY <1>1, <3>1 DEF Finished
      <4>2. PICK r \in Places :
              /\ r = [p EXCEPT !.file = NoFile, !.size = 0, !.expects = FALSE]
              /\ r.at = "header" /\ r.left = 0 /\ r.file = NoFile /\ ~r.expects
        <5>1. PICK r : r = [p EXCEPT !.file = NoFile, !.size = 0, !.expects = FALSE]
          OBVIOUS
        <5>2. /\ r \in PlaceRecords /\ r.at = "header" /\ r.left = 0 /\ r.file = NoFile
              /\ ~r.expects
          BY <3>1, <3>3, <5>1, PlaceFields DEF PlaceRecords
        <5> QED BY <5>1, <5>2 DEF Places
      <4>3. Moves(src, p, u, r)
        BY <1>2, <3>1, <3>3, <4>1, <4>2 DEF Moves, AtHeader
      <4>4. Leads(src, p, msg, r)
        BY <1>2, <4>3, StreamTypes, LeadsOne
      <4>5. SentTo(r)'
        BY <1>3, <4>2 DEF SentTo, AtHeader
      <4> QED BY <4>4, <4>5
    <3> QED BY <3>2, <3>3
  <2> QED BY <2>1, <2>2
<1> QED BY <1>2, <1>4, SendsStream DEF SendDataComplete

LEMMA SendCompleteStream ==
  ASSUME TransferType, StreamInv, SendComplete
  PROVE  StreamInv'
<1>1. PICK u \in Units, msg \in Seq(Units) :
        u = <<"COMPLETE", 0>> /\ msg = <<u>> /\ PipeWrite(msg)
  <2>1. PICK u \in Units, msg \in Seq(Units) :
          u = <<"COMPLETE", 0>> /\ msg = <<u>> /\ msg = Header("COMPLETE", 0)
    BY Names, MessageAlone, Zenon
  <2>2. PipeWrite(msg)
    BY <2>1 DEF SendComplete
  <2> QED BY <2>1, <2>2
<1>2. smain = "file" /\ smain' = "pause"
  BY DEF SendComplete
<1>3. ASSUME NEW p \in Places, SentTo(p)
      PROVE  \E r \in Places : Leads(src, p, msg, r) /\ SentTo(r)'
  <2>1. CASE Online /\ p.at = "bad"
    BY <2>1, StreamTypes, BadStays DEF SentTo
  <2>2. CASE ~ (Online /\ p.at = "bad")
    <3>1. AtHeader(p) /\ ~p.expects
      BY <1>2, <1>3, <2>2 DEF SentTo
    <3>2. PICK r \in Places : r = [p EXCEPT !.at = "end"]
      <4>1. PICK r : r = [p EXCEPT !.at = "end"]
        OBVIOUS
      <4>2. /\ r \in PlaceRecords /\ r.left = 0 /\ ~r.expects
        BY <3>1, <4>1, PlaceFields DEF PlaceRecords, AtHeader
      <4> QED BY <4>1, <4>2 DEF Places
    <3>3. Leads(src, p, msg, r)
      <4>1. Moves(src, p, u, r)
        BY <1>1, <3>1, <3>2 DEF Moves
      <4> QED BY <1>1, <4>1, StreamTypes, LeadsOne
    <3>4. SentTo(r)'
      BY <1>2 DEF SentTo
    <3> QED BY <3>3, <3>4
  <2> QED BY <2>1, <2>2
<1> QED BY <1>1, <1>3, SendsStream DEF SendComplete, fileVars
-----------------------------------------------------------------------------
(* What changes elsewhere *)

\* A file that is edited while it is being sent can only mislead a reader further.
LEMMA EditStream ==
  ASSUME TransferType, TransferType', StreamInv, NEW f \in Files, Edit(f)
  PROVE  StreamInv'
<1>1. /\ src \in Ages /\ src' \in Ages /\ \A g \in Files : src[g] <= src'[g]
      /\ \A g \in Files : src'[g] = IF g = f THEN src[g] + 1 ELSE src[g]
  <2>1. src \in [Files -> Nat] /\ src' = [src EXCEPT ![f] = src[f] + 1]
    BY DEF Edit, TransferType
  <2>2. \A g \in Files : src[g] \in Nat /\ src'[g] = IF g = f THEN src[g] + 1 ELSE src[g]
    BY <2>1
  <2> QED BY <2>1, <2>2 DEF Ages
<1>2. /\ rmainVars' = rmainVars /\ UNCHANGED <<smain, cur, off>>
      /\ Arriving' = Arriving /\ Leaving' = Leaving
      /\ (Undamaged' => Undamaged) /\ (Sending' => Sending)
  <2>1. Undamaged' => Undamaged
    BY HarmCounts DEF Edit, Undamaged
  <2> QED BY <2>1
         DEF Edit, smainVars, sendRest, netVars, recvVars, Arriving, Leaving, Sending
<1>3. Standing' = Standing /\ Active' = Active
  BY <1>2, StandingSame
<1>4. ASSUME NEW r, SentTo(r)
      PROVE  SentTo(r)'
  <2>1. CASE Online /\ r.at = "bad"
    BY <2>1 DEF SentTo
  <2>2. CASE ~ (Online /\ r.at = "bad") /\ smain = "list"
    BY <1>2, <1>4, <2>2 DEF SentTo
  <2>3. CASE ~ (Online /\ r.at = "bad") /\ smain # "list"
    <3>1. Online
      BY <2>3 DEF Edit
    <3>2. smain \in {"size", "data", "eof"} => cur \in Files
      BY DEF TransferType
    <3>3. cur \in Files => /\ src[cur] \in Nat /\ src'[cur] \in Nat
                           /\ src'[cur] = IF cur = f THEN src[cur] + 1 ELSE src[cur]
      BY <1>1 DEF Ages
    <3>4. cur \in Files /\ r.time \in 1 .. src[cur]
            => r.time \in 1 .. src'[cur] /\ (r.time = src'[cur] => src'[cur] = src[cur])
      BY <3>3
    <3> QED BY <1>2, <1>4, <2>3, <3>1, <3>2, <3>4 DEF SentTo
  <2> QED BY <2>1, <2>2, <2>3
<1> SUFFICES ASSUME Undamaged', Active'
             PROVE  \E q \in Places :
                      /\ Leads(src', Standing', Arriving', q)
                      /\ Sending' => \E r \in Places : Leads(src', q, Leaving', r) /\ SentTo(r)'
  BY DEF StreamInv
<1>5. PICK q \in Places :
        /\ Leads(src, Standing, Arriving, q)
        /\ Sending => \E r \in Places : Leads(src, q, Leaving, r) /\ SentTo(r)
  BY <1>2, <1>3 DEF StreamInv
<1>6. Leads(src', Standing', Arriving', q)
  BY <1>1, <1>2, <1>3, <1>5, StreamTypes, LeadsLater
<1>7. ASSUME Sending'
      PROVE  \E r \in Places : Leads(src', q, Leaving', r) /\ SentTo(r)'
  <2>1. PICK r \in Places : Leads(src, q, Leaving, r) /\ SentTo(r)
    BY <1>2, <1>5, <1>7
  <2>2. Leads(src', q, Leaving', r)
    BY <1>1, <1>2, <2>1, StreamTypes, LeadsLater
  <2> QED BY <1>4, <2>1, <2>2
<1> QED BY <1>6, <1>7

\* The sending program goes on without sending.
LEMMA SenderQuietStream ==
  ASSUME StreamInv, GotFilelist \/ SkipFile \/ SenderExit
  PROVE  StreamInv'
<1>1. /\ src' = src /\ rmainVars' = rmainVars
      /\ Arriving' = Arriving /\ Leaving' = Leaving
      /\ (Undamaged' => Undamaged) /\ (Sending' => Sending)
  BY DEF GotFilelist, SkipFile, SenderExit, fileVars, sendVars, netVars, recvVars,
         Arriving, Leaving, Undamaged, Sending
<1>2. \A r : SentTo(r) => SentTo(r)'
  BY <1>1 DEF GotFilelist, SkipFile, SenderExit, SentTo
<1> QED BY <1>1, <1>2, StandingSame, StreamOn

\* A thread looks at a flag, ends, or closes its socket.
LEMMA ThreadsQuietStream ==
  ASSUME TransferType, StreamInv,
         SndCheck \/ SndClose \/ SenderSeesLoss \/ RcvLost \/ UNCHANGED vars
  PROVE  StreamInv'
<1>1. /\ src' = src /\ rmainVars' = rmainVars /\ UNCHANGED <<smain, cur, off>>
      /\ Arriving' = Arriving /\ Leaving' = Leaving
      /\ (Undamaged' => Undamaged) /\ (Sending' => Sending)
  <2>1. Undamaged' => Undamaged
    BY HarmCounts DEF SndCheck, SndClose, SenderSeesLoss, RcvLost, vars, sendVars, Undamaged
  <2> QED BY <2>1
         DEF SndCheck, SndClose, SenderSeesLoss, RcvLost, vars, fileVars, smainVars, sendVars,
             netVars, recvVars, Arriving, Leaving, Sending
<1> QED BY <1>1, SentToSame, StandingSame, StreamOn

\* A message is dropped only when the pipe was full for too long or nobody reads any more, and
\* a header is cut only when the stream may be harmed.
LEMMA RcvDropStream ==
  ASSUME TransferType, StreamInv, RcvDrop \/ CutHeader
  PROVE  StreamInv'
<1>1. harmed' # 0
  <2>1. harmed \in Nat /\ Faults \in Nat
    BY CountAssumption DEF TransferType
  <2> QED BY <2>1, LesserOf DEF RcvDrop, CutHeader, Harm
<1>2. ~Undamaged' \/ ~Active'
  <2>1. Faults = 0 => ~ (harmed < Faults)
    BY DEF TransferType
  <2>2. CASE RcvDrop
    <3>1. rmain' = rmain
      BY <2>2 DEF RcvDrop, rmainVars
    <3> QED BY <1>1, <2>1, <2>2, <3>1 DEF RcvDrop, Undamaged, Active
  <2>3. CASE CutHeader
    BY <1>1, <2>1, <2>3 DEF CutHeader, Undamaged
  <2> QED BY <2>2, <2>3
<1> QED BY <1>2 DEF StreamInv

LEMMA InitStream ==
  ASSUME TransferType, Started
  PROVE  StreamInv
<1>1. <<>> \in Seq(Units) /\ <<>> \o <<>> = <<>> /\ Len(<<>>) = 0
  BY EmptySeq, ConcatEmptySeq
<1>2. Arriving = <<>> /\ Leaving = <<>>
  BY <1>1 DEF Started, Arriving, Leaving
<1>3. Standing = [at |-> "header", file |-> NoFile, time |-> 0, size |-> 0, total |-> 0,
                  left |-> 0, expects |-> FALSE]
  <2>1. total + Len(got) = 0
    BY <1>1 DEF Started
  <2> QED BY <2>1 DEF Started, Standing, Absent, Stand, Place
<1>4. Standing \in Places /\ AtHeader(Standing) /\ Standing.file = NoFile /\ ~Standing.expects
  BY <1>3 DEF Places, PlaceRecords, AtHeader
<1>5. SentTo(Standing)
  BY <1>4 DEF SentTo, Started
<1>6. Leads(src, Standing, <<>>, Standing)
  BY <1>4, LeadsNowhere DEF TransferType, Ages
<1> QED BY <1>2, <1>4, <1>5, <1>6 DEF StreamInv

LEMMA RerunStream ==
  ASSUME TransferType', Rerun
  PROVE  StreamInv'
<1>1. Started'
  BY DEF Rerun, Started
<1>2. <<>> \in Seq(Units) /\ <<>> \o <<>> = <<>> /\ Len(<<>>) = 0
  BY EmptySeq, ConcatEmptySeq
<1>3. Arriving' = <<>> /\ Leaving' = <<>>
  BY <1>1, <1>2 DEF Started, Arriving, Leaving
<1>4. PICK p : p = [at |-> "header", file |-> NoFile, time |-> 0, size |-> 0, total |-> 0,
                    left |-> 0, expects |-> FALSE]
  OBVIOUS
<1>5. Standing' = p
  <2>1. total' + Len(got') = 0
    BY <1>1, <1>2 DEF Started
  <2> QED BY <1>1, <1>4, <2>1 DEF Started, Standing, Absent, Stand, Place
<1>6. p \in Places /\ AtHeader(p) /\ p.file = NoFile /\ ~p.expects
  BY <1>4 DEF Places, PlaceRecords, AtHeader
<1>7. SentTo(p)'
  BY <1>1, <1>6 DEF SentTo, Started
<1>8. Leads(src', p, <<>>, p)
  BY <1>6, LeadsNowhere DEF TransferType, Ages
<1> QED BY <1>3, <1>5, <1>6, <1>7, <1>8 DEF StreamInv

-----------------------------------------------------------------------------
(* What is read *)

\* The receiving program stands somewhere, and its next unit leads it on.
LEMMA ReadsFirst ==
  ASSUME TransferType, StreamInv, Undamaged, Active, rpipe # <<>>
  PROVE  /\ Standing \in Places
         /\ Head(rpipe) \in Units /\ Tail(rpipe) \in Seq(Units)
         /\ \E m \in Places, q \in Places :
              /\ Moves(src, Standing, Head(rpipe), m)
              /\ Leads(src, m, Tail(rpipe) \o (rbuf \o net), q)
              /\ Sending => \E r \in Places : Leads(src, q, Leaving, r) /\ SentTo(r)
<1>1. PICK s \in Seq(Units), t \in Seq(Units) : s = rpipe /\ t = rbuf \o net
  BY StreamTypes, Zenon
<1>2. PICK q \in Places :
        /\ Leads(src, Standing, s \o t, q)
        /\ Sending => \E r \in Places : Leads(src, q, Leaving, r) /\ SentTo(r)
  BY <1>1 DEF StreamInv, Arriving
<1>3. Standing \in Places
  BY <1>2, LeadsPlaces, ConcatProperties, Zenon
<1>4. PICK u \in Units, w \in Seq(Units) : u = Head(s) /\ w = Tail(s) /\ s = <<u>> \o w
  <2>1. s # <<>>
    BY <1>1
  <2>2. Head(s) \in Units /\ Tail(s) \in Seq(Units)
    BY <2>1, HeadTailProperties
  <2>3. s = <<Head(s)>> \o Tail(s)
    BY <2>1, <2>2
  <2> QED BY <2>2, <2>3, Zenon
<1>5. s \o t = <<u>> \o (w \o t) /\ <<u>> \in Seq(Units) /\ w \o t \in Seq(Units)
  <2>1. <<u>> \in Seq(Units) /\ w \o t \in Seq(Units)
    BY ConcatProperties
  <2>2. (<<u>> \o w) \o t = <<u>> \o (w \o t)
    BY <2>1, Associates
  <2> QED BY <1>4, <2>1, <2>2
<1>6. PICK m \in Places : Leads(src, Standing, <<u>>, m) /\ Leads(src, m, w \o t, q)
  BY <1>2, <1>5, StreamTypes, LeadsThrough
<1>7. Moves(src, Standing, u, m)
  BY <1>3, <1>6, StreamTypes, LeadsOne
<1> QED BY <1>1, <1>2, <1>3, <1>4, <1>6, <1>7

\* Having read it, it stands where the unit leads.
LEMMA ReadsOn ==
  ASSUME src' = src, UNCHANGED <<conn, sndpc, sbuf, spipe, sout, smain, cur, off>>,
         NEW q \in Places, Active' => Leads(src, Standing', Arriving', q),
         Sending => \E r \in Places : Leads(src, q, Leaving, r) /\ SentTo(r)
  PROVE  StreamInv'
<1>1. Sending' = Sending /\ Leaving' = Leaving
  BY DEF Sending, Leaving
<1>2. ASSUME NEW r, SentTo(r)
      PROVE  SentTo(r)'
  BY <1>2, SentToSame
<1> QED BY <1>1, <1>2 DEF StreamInv

\* A header that has come whole is one unit.
LEMMA HeaderRead ==
  ASSUME TransferType, ReadHeader
  PROVE  \E u \in Units :
           /\ u = Head(rpipe) /\ u = rpipe[1] /\ u[1] \in Kinds /\ u[2] \in Nat
           /\ rmain' = IF u[1] \in Types THEN u[1] ELSE "desync"
           /\ header'[2] = u[2] /\ rpipe' = Tail(rpipe)
<1>1. rpipe # <<>>
  BY DEF ReadHeader
<1>2. PICK u \in Units : u = Head(rpipe) /\ u = rpipe[1] /\ u[1] \in Kinds /\ u[2] \in Nat
  <2>1. Head(rpipe) \in Units
    BY <1>1, StreamTypes, HeadTailProperties
  <2> QED BY <1>1, <2>1, StreamTypes, HeadTailProperties DEF Units
<1>3. /\ rmain' = IF u[1] \in Types THEN u[1] ELSE "desync"
      /\ header'[2] = u[2] /\ rpipe' = Tail(rpipe)
  BY <1>2 DEF ReadHeader
<1> QED BY <1>2, <1>3

LEMMA ReadHeaderStream ==
  ASSUME TransferType, ThreadInv, StreamInv, ReadHeader
  PROVE  /\ StreamInv'
         /\ Undamaged =>
              /\ rmain' = "desync" => Online
              /\ rmain' = "FILENAME" => ~expecting
              /\ rmain' = "DATA_COMPLETE" =>
                   /\ fout \in Files /\ expecting /\ mtime \in 1 .. src[fout]
                   /\ src[fout] = mtime => total = rsize /\ rsize = Size[fout][mtime]
<1>1. rmain = "header" /\ rpipe # <<>> /\ got = <<>> /\ Len(got) = 0 /\ Active
  BY EmptySeq DEF ReadHeader, ThreadInv, Active
<1>2. PICK u \in Units :
        /\ u = Head(rpipe) /\ u[1] \in Kinds /\ u[2] \in Nat
        /\ rmain' = IF u[1] \in Types THEN u[1] ELSE "desync"
        /\ header'[2] = u[2] /\ rpipe' = Tail(rpipe)
  BY HeaderRead
<1>4. /\ UNCHANGED <<fout, rsize, total, expecting, mtime, need, got, rbuf, net>>
      /\ UNCHANGED <<src, conn, sndpc, sbuf, spipe, sout, smain, cur, off, harmed>>
  BY DEF ReadHeader, dataVars, recvRest, netVars, sendVars, fileVars, smainVars
<1>5. Undamaged' = Undamaged
  BY <1>4 DEF Undamaged
<1>6. CASE ~Undamaged
  BY <1>5, <1>6 DEF StreamInv
<1>7. CASE Undamaged
  <2>1. PICK m \in Places, q \in Places :
          /\ Moves(src, Standing, u, m)
          /\ Leads(src, m, Arriving', q)
          /\ Sending => \E r \in Places : Leads(src, q, Leaving, r) /\ SentTo(r)
    BY <1>1, <1>2, <1>4, <1>7, ReadsFirst DEF Arriving
  <2>2. PICK p \in Places : p = Standing
    BY <1>1, <1>7, ReadsFirst
  <2>3. /\ p = Place("header", fout, mtime, rsize, total, 0, expecting)
        /\ p.at = "header" /\ p.left = 0 /\ p.file = fout /\ p.time = mtime /\ p.size = rsize
        /\ p.total = total /\ p.expects = expecting
    <3>1. p = Place("header", fout, mtime, rsize, total, 0, expecting)
      <4>1. total \in Nat
        BY DEF TransferType
      <4>2. total + 0 = total
        BY <4>1
      <4> QED BY <1>1, <2>2, <4>2 DEF Standing, Stand
    <3> QED BY <3>1 DEF Place
  <2>4. AtHeader(p) /\ Takes(p) = Types
    BY <2>3 DEF AtHeader, Takes
  <2>5. CASE u[1] \notin Types
    <3>1. rmain' = "desync" /\ ~Active'
      BY <1>2, <2>5 DEF Active
    <3>2. Online
      BY <2>1, <2>2, <2>3, <2>5, Kinds_ DEF Moves
    <3> QED BY <3>1, <3>2 DEF StreamInv
  <2>6. CASE u[1] \in Types
    <3>1. rmain' = u[1]
      BY <1>2, <2>6
    <3>2. /\ u[1] = "FILELIST" => m = [p EXCEPT !.at = "FILELIST"]
          /\ u[1] = "FILENAME" =>
               p.file = NoFile /\ ~p.expects /\ m = [p EXCEPT !.at = "FILENAME", !.time = u[2]]
          /\ u[1] = "F_SIZE" => m = [p EXCEPT !.at = "F_SIZE"]
          /\ u[1] = "DATA" => m = [p EXCEPT !.left = Min({BlockLen, p.size - p.total})]
          /\ u[1] = "DATA_COMPLETE" =>
               Finished(src, p) /\ m = [p EXCEPT !.file = NoFile, !.size = 0, !.expects = FALSE]
          /\ u[1] = "COMPLETE" => m = [p EXCEPT !.at = "end"]
      BY <2>1, <2>2, <2>3, <2>4, <2>6, Kinds_ DEF Moves
    <3>3. Standing' = m
      <4>1. total + Len(got') = total
        BY <1>1, <1>4 DEF TransferType
      <4>2. PICK k : k = Min({BlockLen, rsize - total})
        OBVIOUS
      <4>3. /\ u[1] \in {"FILELIST", "F_SIZE"} =>
                 Standing' = Place(u[1], fout, mtime, rsize, total, 0, expecting)
            /\ u[1] = "FILENAME" =>
                 Standing' = Place("FILENAME", fout, u[2], rsize, total, 0, expecting)
            /\ u[1] = "DATA" => Standing' = Place("header", fout, mtime, rsize, total, k, expecting)
            /\ u[1] = "DATA_COMPLETE" =>
                 Standing' = Place("header", NoFile, mtime, 0, total, 0, FALSE)
            /\ u[1] = "COMPLETE" =>
                 Standing' = Place("end", fout, mtime, rsize, total, 0, expecting)
        BY <1>2, <1>4, <3>1, <4>1, <4>2 DEF Standing, Stand
      <4>4. p \in PlaceRecords
        BY PlaceFields
      <4>5. /\ u[1] \in {"FILELIST", "F_SIZE"} =>
                 m = Place(u[1], fout, mtime, rsize, total, 0, expecting)
            /\ u[1] = "FILENAME" =>
                 m = Place("FILENAME", fout, u[2], rsize, total, 0, expecting)
            /\ u[1] = "DATA_COMPLETE" =>
                 m = Place("header", NoFile, mtime, 0, total, 0, FALSE)
            /\ u[1] = "COMPLETE" =>
                 m = Place("end", fout, mtime, rsize, total, 0, expecting)
        <5>1. CASE u[1] \in {"FILELIST", "F_SIZE"}
          <6>1. m = [p EXCEPT !.at = u[1]]
            BY <3>2, <5>1
          <6>2. m = Place(u[1], p.file, p.time, p.size, p.total, p.left, p.expects)
            BY <4>4, <6>1, PlaceIs, Zenon
          <6> QED BY <2>3, <5>1, <6>2, Zenon
        <5>2. CASE u[1] = "FILENAME"
          <6>1. m = Place("FILENAME", p.file, u[2], p.size, p.total, p.left, p.expects)
            BY <3>2, <4>4, <5>2, PlaceIs, Zenon
          <6> QED BY <2>3, <5>2, <6>1
        <5>3. CASE u[1] = "DATA_COMPLETE"
          <6>1. m = Place(p.at, NoFile, p.time, 0, p.total, p.left, FALSE)
            BY <3>2, <4>4, <5>3, PlaceIs, Zenon
          <6> QED BY <2>3, <5>3, <6>1
        <5>4. CASE u[1] = "COMPLETE"
          <6>1. m = Place("end", p.file, p.time, p.size, p.total, p.left, p.expects)
            BY <3>2, <4>4, <5>4, PlaceIs, Zenon
          <6> QED BY <2>3, <5>4, <6>1
        <5> QED BY <5>1, <5>2, <5>3, <5>4
      <4>6. u[1] = "DATA" => m = Place("header", fout, mtime, rsize, total, k, expecting)
        <5>1. Min({BlockLen, p.size - p.total}) = k
          BY <2>3, <4>2
        <5>2. u[1] = "DATA" => m = [p EXCEPT !.left = k]
          BY <3>2, <5>1
        <5>3. [p EXCEPT !.left = k] = Place(p.at, p.file, p.time, p.size, p.total, k, p.expects)
          BY <4>4, PlaceIs, Zenon
        <5> QED BY <2>3, <5>2, <5>3
      <4> QED BY <2>6, <4>3, <4>5, <4>6, Kinds_
    <3>4. StreamInv'
      BY <1>4, <2>1, <3>3, ReadsOn
    <3>5. rmain' = "FILENAME" => ~expecting
      BY <2>3, <3>1, <3>2
    <3>6. rmain' = "DATA_COMPLETE" =>
            /\ fout \in Files /\ expecting /\ mtime \in 1 .. src[fout]
            /\ src[fout] = mtime => total = rsize /\ rsize = Size[fout][mtime]
      BY <2>3, <3>1, <3>2 DEF Finished
    <3>7. rmain' # "desync"
      BY <2>6, <3>1, Kinds_
    <3> QED BY <3>4, <3>5, <3>6, <3>7
  <2> QED BY <2>5, <2>6
<1> QED BY <1>6, <1>7

\* The payload of one unit, u, leads the receiving program from p to m, and what follows on.
PayloadMoves(p, m, q, u) ==
  /\ u = Head(rpipe) /\ u[2] \in Nat
  /\ p = Standing /\ p.at = rmain /\ p.left = 0 /\ p.file = fout
  /\ p.expects = expecting
  /\ p.time = (IF rmain = "FILENAME" THEN header[2] ELSE mtime)
  /\ p = Place(rmain, fout, p.time, rsize, total, 0, expecting)
  /\ Moves(src, p, u, m)
  /\ Leads(src, m, Tail(rpipe) \o (rbuf \o net), q)
  /\ Sending => \E r \in Places : Leads(src, q, Leaving, r) /\ SentTo(r)
  /\ u[1] # Payload[rmain] => Online
  /\ u[1] = "list" /\ rmain = "FILELIST" => m = [p EXCEPT !.at = "header"]
  /\ u[1] = "name" /\ rmain = "FILENAME" =>
       /\ ~p.expects /\ u[2] \in Files /\ p.time \in 1 .. src[u[2]]
       /\ m = [p EXCEPT !.at = "header", !.file = u[2]]
  /\ u[1] = "size" /\ rmain = "F_SIZE" =>
       m = [p EXCEPT !.at = "header", !.size = u[2], !.total = 0, !.expects = TRUE]

LEMMA ReadPayloadStream ==
  ASSUME TransferType, ThreadInv, StreamInv, Undamaged,
         rmain \in {"FILELIST", "FILENAME", "F_SIZE"}, rpipe # <<>>
  PROVE  \E p \in Places, m \in Places, q \in Places, u \in Units : PayloadMoves(p, m, q, u)
<1>1. Active /\ got = <<>> /\ Len(got) = 0
  BY EmptySeq DEF Active, ThreadInv
<1>2. PICK m \in Places, q \in Places :
        /\ Moves(src, Standing, Head(rpipe), m)
        /\ Leads(src, m, Tail(rpipe) \o (rbuf \o net), q)
        /\ Sending => \E r \in Places : Leads(src, q, Leaving, r) /\ SentTo(r)
  BY <1>1, ReadsFirst
<1>3. PICK p \in Places, u \in Units : p = Standing /\ u = Head(rpipe)
  BY <1>1, ReadsFirst
<1>4. u[2] \in Nat
  BY <1>3 DEF Units
<1>5. /\ p.at = rmain /\ p.left = 0 /\ p.file = fout /\ p.expects = expecting
      /\ p.time = (IF rmain = "FILENAME" THEN header[2] ELSE mtime)
      /\ p = Place(rmain, fout, p.time, rsize, total, 0, expecting)
  <2>1. total \in Nat /\ expecting \in BOOLEAN
    BY DEF TransferType
  <2>2. PICK t : t = IF rmain = "FILENAME" THEN header[2] ELSE mtime
    OBVIOUS
  <2>3. p = Place(rmain, fout, t, rsize, total, 0, expecting)
    <3>1. total + Len(got) = total
      BY <1>1, <2>1
    <3>2. CASE rmain = "FILENAME"
      BY <1>1, <1>3, <2>2, <3>1, <3>2 DEF Standing, Stand
    <3>3. CASE rmain \in {"FILELIST", "F_SIZE"}
      BY <1>1, <1>3, <2>2, <3>1, <3>3 DEF Standing, Stand
    <3> QED BY <3>2, <3>3
  <2>4. /\ p.at = rmain /\ p.left = 0 /\ p.file = fout /\ p.expects = expecting
        /\ p.time = t
    BY <2>3 DEF Place
  <2> QED BY <2>2, <2>3, <2>4
<1>6. ~AtHeader(p) /\ p.at # "header" /\ p.at # "end" /\ p.at # "bad"
      /\ Takes(p) = {Payload[rmain]}
  BY <1>5, Kinds_ DEF AtHeader, Takes
<1>7. Moves(src, p, u, m)
  BY <1>2, <1>3
<1>8. /\ u[1] # Payload[rmain] => Online
      /\ u[1] = "list" /\ rmain = "FILELIST" => m = [p EXCEPT !.at = "header"]
      /\ u[1] = "name" /\ rmain = "FILENAME" =>
           /\ ~p.expects /\ u[2] \in Files /\ p.time \in 1 .. src[u[2]]
           /\ m = [p EXCEPT !.at = "header", !.file = u[2]]
      /\ u[1] = "size" /\ rmain = "F_SIZE" =>
           m = [p EXCEPT !.at = "header", !.size = u[2], !.total = 0, !.expects = TRUE]
  <2>1. CASE rmain = "FILELIST"
    BY <1>5, <1>6, <1>7, <2>1, Kinds_ DEF Moves
  <2>2. CASE rmain = "FILENAME"
    BY <1>5, <1>6, <1>7, <2>2, Kinds_ DEF Moves
  <2>3. CASE rmain = "F_SIZE"
    BY <1>5, <1>6, <1>7, <2>3, Kinds_ DEF Moves
  <2> QED BY <2>1, <2>2, <2>3
<1>9. u = Head(rpipe) /\ u[2] \in Nat /\ p = Standing
  BY <1>3, <1>4
<1>10. PayloadMoves(p, m, q, u)
  BY <1>2, <1>5, <1>7, <1>8, <1>9 DEF PayloadMoves
<1> QED BY <1>10

\* Having dealt with the payload, the program looks for the next header.
LEMMA PayloadTaken ==
  ASSUME NEW p \in Places, NEW m \in Places, NEW q \in Places, NEW u \in Units,
         PayloadMoves(p, m, q, u), src' = src,
         UNCHANGED <<conn, net, sndpc, sbuf, spipe, sout, smain, cur, off, rbuf>>,
         rpipe' = Tail(rpipe), Standing' = m
  PROVE  StreamInv'
<1>1. Leads(src, m, Tail(rpipe) \o (rbuf \o net), q)
      /\ (Sending => \E r \in Places : Leads(src, q, Leaving, r) /\ SentTo(r))
  BY DEF PayloadMoves
<1>2. Arriving' = Tail(rpipe) \o (rbuf \o net)
  BY DEF Arriving
<1>3. Leads(src, Standing', Arriving', q)
  BY <1>1, <1>2
<1> QED BY <1>1, <1>3, ReadsOn

\* Where it stands then.
LEMMA StandsAtHeader ==
  ASSUME TransferType', rmain' = "check", got' = <<>>
  PROVE  Standing' = Place("header", fout', mtime', rsize', total', 0, expecting')
<1>1. total' + Len(got') = total'
  <2>1. \A a \in Nat : a + 0 = a
    OBVIOUS
  <2>2. total' \in Nat /\ Len(got') = 0
    BY EmptySeq DEF TransferType
  <2> QED BY <2>1, <2>2, Zenon
<1> QED BY <1>1 DEF Standing, Stand

LEMMA RcvFilelistStream ==
  ASSUME TransferType, TransferType', ThreadInv, StreamInv, RcvFilelist
  PROVE  StreamInv'
<1>1. /\ rmain = "FILELIST" /\ rpipe # <<>> /\ Head(rpipe)[1] = "list"
      /\ rpipe' = Tail(rpipe) /\ rmain' = "check"
  BY Kinds_ DEF RcvFilelist, PayloadRead
<1>2. /\ UNCHANGED <<fout, mtime, rsize, total, expecting, got, rbuf, conn, net>>
      /\ UNCHANGED <<src, sndpc, sbuf, spipe, sout, smain, cur, off, harmed>>
  BY DEF RcvFilelist, dataVars, recvRest, netVars, sendVars, fileVars, smainVars
<1>3. CASE ~Undamaged
  BY <1>2, <1>3 DEF StreamInv, Undamaged
<1>4. CASE Undamaged
  <2>1. PICK p \in Places, m \in Places, q \in Places, u \in Units : PayloadMoves(p, m, q, u)
    BY <1>1, <1>4, ReadPayloadStream
  <2>2. /\ p = Place("FILELIST", fout, mtime, rsize, total, 0, expecting)
        /\ m = [p EXCEPT !.at = "header"]
    BY <1>1, <2>1 DEF PayloadMoves
  <2>3. m = Place("header", fout, mtime, rsize, total, 0, expecting)
    <3>1. m = Place("header", p.file, p.time, p.size, p.total, p.left, p.expects)
      <4>1. p \in PlaceRecords
        BY PlaceFields
      <4>2. m = [p EXCEPT !.at = "header"]
        BY <2>2
      <4> QED BY <4>1, <4>2, PlaceIs, Zenon
    <3> QED BY <2>2, <3>1 DEF Place
  <2>4. got' = <<>>
    BY <1>1, <1>2 DEF ThreadInv
  <2>5. Standing' = m
    BY <1>1, <1>2, <2>3, <2>4, StandsAtHeader
  <2> QED BY <1>1, <1>2, <2>1, <2>5, PayloadTaken
<1> QED BY <1>3, <1>4

LEMMA RcvFilenameStream ==
  ASSUME TransferType, TransferType', ThreadInv, StreamInv, RcvFilename
  PROVE  /\ StreamInv'
         /\ Undamaged => Head(rpipe)[2] \in Files /\ ~expecting
                         /\ header[2] \in 1 .. src[Head(rpipe)[2]]
<1>1. /\ rmain = "FILENAME" /\ rpipe # <<>> /\ Head(rpipe)[1] = "name"
      /\ rpipe' = Tail(rpipe) /\ rmain' = "check"
      /\ mtime' = header[2] /\ fout' = Head(rpipe)[2]
  BY Kinds_ DEF RcvFilename, PayloadRead
<1>2. /\ UNCHANGED <<rsize, total, expecting, got, rbuf, conn, net>>
      /\ UNCHANGED <<src, sndpc, sbuf, spipe, sout, smain, cur, off, harmed>>
  BY DEF RcvFilename, recvRest, netVars, sendVars, smainVars
<1>3. CASE ~Undamaged
  BY <1>2, <1>3 DEF StreamInv, Undamaged
<1>4. CASE Undamaged
  <2>1. PICK p \in Places, m \in Places, q \in Places, u \in Units : PayloadMoves(p, m, q, u)
    BY <1>1, <1>4, ReadPayloadStream
  <2>2. /\ u = Head(rpipe) /\ p.time = header[2] /\ p.expects = expecting
        /\ p = Place("FILENAME", fout, p.time, rsize, total, 0, expecting)
        /\ ~p.expects /\ u[2] \in Files /\ p.time \in 1 .. src[u[2]]
        /\ m = [p EXCEPT !.at = "header", !.file = u[2]]
    BY <1>1, <2>1 DEF PayloadMoves
  <2>3. m = Place("header", fout', mtime', rsize, total, 0, expecting)
    <3>1. m = Place("header", u[2], p.time, p.size, p.total, p.left, p.expects)
      BY <2>2, PlaceIs, PlaceFields, Zenon
    <3>2. p.size = rsize /\ p.total = total /\ p.left = 0
      BY <2>2 DEF Place
    <3> QED BY <1>1, <2>2, <3>1, <3>2
  <2>4. got' = <<>>
    BY <1>1, <1>2 DEF ThreadInv
  <2>5. Standing' = m
    BY <1>1, <1>2, <2>3, <2>4, StandsAtHeader
  <2>6. StreamInv'
    BY <1>1, <1>2, <2>1, <2>5, PayloadTaken
  <2> QED BY <2>2, <2>6
<1> QED BY <1>3, <1>4

LEMMA RcvFSizeStream ==
  ASSUME TransferType, TransferType', ThreadInv, StreamInv, RcvFSize
  PROVE  StreamInv'
<1>1. /\ rmain = "F_SIZE" /\ rpipe # <<>> /\ Head(rpipe)[1] = "size"
      /\ rpipe' = Tail(rpipe) /\ rmain' = "check"
      /\ rsize' = Head(rpipe)[2] /\ total' = 0 /\ expecting' = TRUE
  BY Kinds_ DEF RcvFSize, PayloadRead, NewTotal
<1>2. /\ UNCHANGED <<fout, mtime, got, rbuf, conn, net>>
      /\ UNCHANGED <<src, sndpc, sbuf, spipe, sout, smain, cur, off, harmed>>
  BY DEF RcvFSize, recvRest, netVars, sendVars, fileVars, smainVars
<1>3. CASE ~Undamaged
  BY <1>2, <1>3 DEF StreamInv, Undamaged
<1>4. CASE Undamaged
  <2>1. PICK p \in Places, m \in Places, q \in Places, u \in Units : PayloadMoves(p, m, q, u)
    BY <1>1, <1>4, ReadPayloadStream
  <2>2. /\ u = Head(rpipe) /\ p.time = mtime
        /\ p = Place("F_SIZE", fout, p.time, rsize, total, 0, expecting)
        /\ m = [p EXCEPT !.at = "header", !.size = u[2], !.total = 0, !.expects = TRUE]
    BY <1>1, <2>1 DEF PayloadMoves
  <2>3. m = Place("header", fout', mtime', rsize', total', 0, expecting')
    <3>1. m = Place("header", p.file, p.time, u[2], 0, p.left, TRUE)
      BY <2>2, PlaceIs, PlaceFields, Zenon
    <3>2. p.file = fout /\ p.left = 0
      BY <2>2 DEF Place
    <3> QED BY <1>1, <1>2, <2>2, <3>1, <3>2
  <2>4. got' = <<>>
    BY <1>1, <1>2 DEF ThreadInv
  <2>5. Standing' = m
    BY <1>1, <2>3, <2>4, StandsAtHeader
  <2> QED BY <1>1, <1>2, <2>1, <2>5, PayloadTaken
<1> QED BY <1>3, <1>4

\* A payload of the wrong kind is met only if a file has changed while it was sent.
LEMMA DesyncStream ==
  ASSUME TransferType, ThreadInv, StreamInv, Desync
  PROVE  /\ StreamInv'
         /\ Undamaged => Online
<1>1. /\ rmain \in {"FILELIST", "FILENAME", "F_SIZE"} /\ rpipe # <<>>
      /\ Head(rpipe)[1] # Payload[rmain] /\ rmain' = "desync"
  BY Kinds_ DEF Desync
<1>2. ~Active'
  BY <1>1 DEF Active
<1>3. ASSUME Undamaged
      PROVE  Online
  <2>1. PICK p \in Places, m \in Places, q \in Places, u \in Units : PayloadMoves(p, m, q, u)
    BY <1>1, <1>3, ReadPayloadStream
  <2> QED BY <1>1, <2>1 DEF PayloadMoves
<1> QED BY <1>2, <1>3 DEF StreamInv

-----------------------------------------------------------------------------
(* Blocks *)

\* What is read of a block is cut off what the pipe holds.
LEMMA BlockCut ==
  ASSUME TransferType, ReadBlock
  PROVE  \E part \in Seq(Units), rest \in Seq(Units), vals \in Seq(Nat), k \in Nat :
           /\ part \o rest = rpipe /\ rpipe' = rest
           /\ k = Len(part) /\ k # 0 /\ Len(got) + k <= need
           /\ Len(vals) = k /\ \A i \in 1 .. k : vals[i] = part[i][2]
           /\ (\A i \in 1 .. k : part[i][1] = "byte") => got' = got \o vals /\ rmain' = "block"
           /\ ~(\A i \in 1 .. k : part[i][1] = "byte") => got' = <<>> /\ rmain' = "desync"
<1>0. rpipe # <<>> /\ rmain = "block" /\ Len(got) < need
  BY DEF ReadBlock
<1>1. PICK a \in Nat, n \in Nat : a = Len(got) /\ n = need - a /\ n > 0 /\ need = a + n
  <2>1. Len(got) \in Nat /\ need \in Nat
    BY LenProperties DEF TransferType
  <2>2. PICK a \in Nat : a = Len(got) /\ a < need
    BY <1>0, <2>1
  <2>3. need - a \in Nat /\ need - a > 0 /\ need = a + (need - a)
    BY <2>1, <2>2
  <2> QED BY <2>2, <2>3
<1>2. PICK part \in Seq(Units), rest \in Seq(Units), k \in Nat :
        /\ part = FirstOf(rpipe, n) /\ rest = Rest(rpipe, n)
        /\ k = Len(part) /\ k <= n /\ k # 0
        /\ part \o rest = rpipe
  <2>1. /\ FirstOf(rpipe, n) \in Seq(Units) /\ Rest(rpipe, n) \in Seq(Units)
        /\ Len(FirstOf(rpipe, n)) <= n /\ Len(FirstOf(rpipe, n)) # 0
    <3>1. PICK s \in Seq(Units) : s = rpipe
      BY StreamTypes
    <3>2. PICK l \in Nat : l = Len(s) /\ l # 0
      BY <1>0, <3>1, LenProperties, EmptySeq
    <3>3. /\ FirstOf(s, n) \in Seq(Units) /\ Rest(s, n) \in Seq(Units)
          /\ Len(FirstOf(s, n)) = IF n <= l THEN n ELSE l
      BY <3>2, CutLengths
    <3> QED BY <1>1, <3>1, <3>2, <3>3
  <2>2. FirstOf(rpipe, n) \o Rest(rpipe, n) = rpipe
    BY StreamTypes, CutWhole
  <2>3. Len(FirstOf(rpipe, n)) \in Nat
    BY <2>1, LenProperties
  <2> QED BY <2>1, <2>2, <2>3
<1>3. PICK vals \in Seq(Nat) :
        /\ vals = [i \in DOMAIN part |-> part[i][2]] /\ Len(vals) = k
        /\ \A i \in 1 .. k : vals[i] = part[i][2]
  <2>1. DOMAIN part = 1 .. k
    BY <1>2, LenProperties
  <2>2. \A i \in 1 .. k : part[i][2] \in Nat
    BY <1>2, ElementOfSeq DEF Units
  <2>3. /\ [i \in 1 .. k |-> part[i][2]] \in Seq(Nat)
        /\ Len([i \in 1 .. k |-> part[i][2]]) = k
    BY <2>2
  <2> QED BY <2>1, <2>3
<1>4. /\ (\A i \in 1 .. k : part[i][1] = "byte") => got' = got \o vals /\ rmain' = "block"
      /\ ~(\A i \in 1 .. k : part[i][1] = "byte") => got' = <<>> /\ rmain' = "desync"
      /\ rpipe' = rest
  <2>1. DOMAIN part = 1 .. k
    BY <1>2, LenProperties
  <2>2. need - Len(got) = n
    BY <1>1
  <2>3. /\ got' = IF \A i \in DOMAIN part : part[i][1] = "byte" THEN got \o vals ELSE <<>>
        /\ rmain' = IF \A i \in DOMAIN part : part[i][1] = "byte" THEN "block" ELSE "desync"
        /\ rpipe' = rest
    BY <1>2, <1>3, <2>2, Zenon DEF ReadBlock
  <2> QED BY <2>1, <2>3
<1>5. Len(got) + k <= need
  BY <1>1, <1>2
<1> QED BY <1>2, <1>3, <1>4, <1>5

LEMMA ReadBlockStream ==
  ASSUME TransferType, TransferType', ThreadInv, ThreadInv', StreamInv, ReadBlock
  PROVE  /\ StreamInv'
         /\ Undamaged =>
              /\ rmain' = "desync" => Online
              /\ rmain' = "block" /\ src[fout] <= mtime
                   => \A i \in 1 .. Len(got') :
                       got'[i] = mtime \/ (i <= Len(got) /\ got'[i] = got[i])
<1>1. PICK a \in Nat, n \in Nat : a = Len(got) /\ rmain = "block" /\ need = a + n
  <2>1. Len(got) \in Nat /\ need \in Nat /\ Len(got) < need /\ rmain = "block"
    BY LenProperties DEF ReadBlock, TransferType
  <2>2. PICK a \in Nat : a = Len(got)
    BY <2>1
  <2>3. need - a \in Nat /\ need = a + (need - a)
    BY <2>1, <2>2
  <2> QED BY <2>1, <2>2, <2>3
<1>2. PICK part \in Seq(Units), rest \in Seq(Units), vals \in Seq(Nat), k \in Nat :
        /\ part \o rest = rpipe /\ rpipe' = rest
        /\ k = Len(part) /\ k # 0 /\ Len(got) + k <= need
        /\ Len(vals) = k /\ \A i \in 1 .. k : vals[i] = part[i][2]
        /\ (\A i \in 1 .. k : part[i][1] = "byte") => got' = got \o vals /\ rmain' = "block"
        /\ ~(\A i \in 1 .. k : part[i][1] = "byte") => got' = <<>> /\ rmain' = "desync"
  BY BlockCut
<1>3. k <= n /\ n > 0
  BY <1>1, <1>2
<1>4. /\ UNCHANGED <<fout, mtime, rsize, total, expecting, need, rbuf, conn, net>>
      /\ UNCHANGED <<src, sndpc, sbuf, spipe, sout, smain, cur, off, harmed>>
  BY DEF ReadBlock, recvRest, netVars, sendVars, fileVars, smainVars
<1>5. CASE ~Undamaged
  BY <1>4, <1>5 DEF StreamInv, Undamaged
<1>6. CASE Undamaged
  <2>1. PICK t \in Seq(Units) : t = rbuf \o net
    BY StreamTypes
  <2>2. PICK q \in Places :
          /\ Leads(src, Standing, rpipe \o t, q)
          /\ Sending => \E r \in Places : Leads(src, q, Leaving, r) /\ SentTo(r)
    BY <1>1, <1>6, <2>1 DEF StreamInv, Arriving, Active
  <2>3. rpipe \o t = part \o (rest \o t) /\ rest \o t \in Seq(Units)
    <3>1. (part \o rest) \o t = part \o (rest \o t)
      BY Associates
    <3> QED BY <1>2, <3>1, ConcatProperties
  <2>4. PICK m \in Places : Leads(src, Standing, part, m) /\ Leads(src, m, rest \o t, q)
    BY <2>2, <2>3, StreamTypes, LeadsThrough
  <2>5. PICK p \in Places : p = Standing
    BY <2>4, LeadsPlaces
  <2>6. p = Place("header", fout, mtime, rsize, total + a, n, expecting)
    <3>1. p = Stand("block", header, fout, mtime, rsize, total, expecting, need, a)
      BY <1>1, <2>5 DEF Standing
    <3> QED BY <1>1, <3>1 DEF Stand
  <2>7. /\ p.at = "header" /\ p.file = fout /\ p.time = mtime /\ p.left = n
        /\ p.size = rsize /\ p.total = total + a /\ p.expects = expecting
    BY <2>6 DEF Place
  <2>8. CASE \A i \in 1 .. k : part[i][1] = "byte"
    <3>1. /\ \A i \in 1 .. k : src[p.file] <= p.time => part[i][2] = p.time
          /\ m = Ahead(p, k)
      <4>1. src \in Ages /\ p.at = "header" /\ Leads(src, p, part, m) /\ k <= p.left
        BY <1>2, <1>3, <2>4, <2>5, <2>7, StreamTypes
      <4>2. k = Len(part) /\ (Online => AllBytes(part))
        BY <1>2, <2>8 DEF AllBytes
      <4>3. m = Ahead(p, k) /\ (src[p.file] <= p.time => AllOf(part, p.time))
        BY <4>1, <4>2, BlockRead
      <4> QED BY <4>2, <4>3 DEF AllOf
    <3>2. got' = got \o vals /\ rmain' = "block" /\ Active'
      BY <1>2, <2>8 DEF Active
    <3>3. Len(got') = a + k /\ Len(got') \in Nat
      <4>1. got \in Seq(Nat) /\ Len(vals) = k
        BY <1>2 DEF TransferType
      <4>2. Len(got \o vals) = Len(got) + Len(vals)
        BY <4>1, ConcatProperties
      <4> QED BY <1>1, <3>2, <4>1, <4>2
    <3>4. Standing' = m
      <4>1. total + (a + k) = (total + a) + k /\ need - (a + k) = n - k
        BY <1>1 DEF TransferType
      <4>2. Standing' = Place("header", fout, mtime, rsize, (total + a) + k, n - k, expecting)
        <5>1. Standing' = Stand("block", header', fout, mtime, rsize, total, expecting, need, a + k)
          BY <1>4, <3>2, <3>3 DEF Standing
        <5> QED BY <4>1, <5>1 DEF Stand
      <4>3. Ahead(p, k) = Place("header", fout, mtime, rsize, (total + a) + k, n - k, expecting)
        <5>1. Ahead(p, k) = [p EXCEPT !.left = n - k, !.total = (total + a) + k]
          BY <2>7 DEF Ahead
        <5> QED BY <2>6, <5>1 DEF Place
      <4> QED BY <3>1, <4>2, <4>3
    <3>5. Arriving' = rest \o t
      BY <1>2, <1>4, <2>1 DEF Arriving
    <3>6. StreamInv'
      <4>1. Leads(src, Standing', Arriving', q)
        BY <2>4, <3>4, <3>5
      <4> QED BY <1>4, <2>2, <4>1, ReadsOn
    <3>7. ASSUME src[fout] <= mtime, NEW i \in 1 .. Len(got')
          PROVE  got'[i] = mtime \/ (i <= Len(got) /\ got'[i] = got[i])
      <4>1. CASE i <= a
        BY <1>1, <3>2, <3>3, <4>1, ConcatProperties DEF TransferType
      <4>2. CASE i > a
        <5>1. PICK j \in 1 .. k : j = i - a /\ i = a + j
          BY <3>3, <4>2
        <5>2. got'[i] = vals[j]
          BY <1>1, <1>2, <3>2, <3>3, <4>2, <5>1, ConcatProperties DEF TransferType
        <5>3. vals[j] = part[j][2] /\ part[j][2] = mtime
          <6>1. src[p.file] <= p.time /\ p.time = mtime
            BY <2>7, <3>7
          <6>2. part[j][2] = p.time
            BY <3>1, <6>1
          <6>3. vals[j] = part[j][2]
            BY <1>2
          <6> QED BY <6>1, <6>2, <6>3
        <5> QED BY <5>2, <5>3
      <4> QED BY <3>3, <4>1, <4>2
    <3> QED BY <3>2, <3>6, <3>7
  <2>9. CASE ~(\A i \in 1 .. k : part[i][1] = "byte")
    <3>1. rmain' = "desync" /\ ~Active'
      BY <1>2, <2>9 DEF Active
    <3>2. ASSUME ~Online
          PROVE  FALSE
      <4>1. src \in Ages /\ p.at = "header" /\ Leads(src, p, part, m) /\ k <= p.left
        BY <1>2, <1>3, <2>4, <2>5, <2>7, StreamTypes
      <4>2. AllBytes(part)
        BY <1>2, <3>2, <4>1, BlockRead
      <4> QED BY <1>2, <2>9, <4>2 DEF AllBytes
    <3>3. StreamInv'
      BY <3>1 DEF StreamInv
    <3> QED BY <3>1, <3>2, <3>3
  <2> QED BY <2>8, <2>9
<1> QED BY <1>5, <1>6

\* The receiving program goes on without reading.
LEMMA ReceiverQuietStream ==
  ASSUME TransferType, TransferType', ThreadInv, StreamInv,
         \/ NoHeader \/ RcvCheck \/ RcvData \/ WriteBlock
         \/ RcvDataComplete \/ RcvComplete \/ ReceiverExit
  PROVE  StreamInv'
<1>1. /\ src' = src /\ (harmed' = harmed \/ Harm) /\ UNCHANGED <<smain, cur, off>>
      /\ UNCHANGED <<sout, spipe, sbuf, sndpc, conn, net, rbuf, rpipe>>
  BY DEF NoHeader, RcvCheck, RcvData, WriteBlock, RcvDataComplete, RcvComplete, ReceiverExit,
         fileVars, smainVars, sendVars, sendRest, netVars, recvVars
<1>2. /\ Arriving' = Arriving /\ Leaving' = Leaving
      /\ (Undamaged' => Undamaged) /\ (Sending' => Sending)
  <2>1. Undamaged' => Undamaged
    BY <1>1, HarmCounts DEF Undamaged
  <2> QED BY <1>1, <2>1 DEF Arriving, Leaving, Sending
<1>3. \A a \in Nat : a + 0 = a /\ a - 0 = a /\ a - a = 0
  OBVIOUS
<1>4. /\ total \in Nat /\ need \in Nat /\ total' \in Nat /\ need' \in Nat
      /\ Len(<<>>) = 0 /\ (rmain # "block" => got = <<>>)
  BY EmptySeq DEF TransferType, ThreadInv
<1>5. ASSUME Active'
      PROVE  Active /\ Standing' = Standing
  <2>1. CASE NoHeader \/ RcvCheck
    <3>1. /\ rmain \in {"header", "check"} /\ rmain' \in {"header", "check"}
          /\ UNCHANGED <<fout, rsize, total, expecting, mtime, need, got>>
      BY <1>5, <2>1 DEF NoHeader, RcvCheck, Active, dataVars
    <3> QED BY <3>1 DEF Active, Standing, Stand
  <2>2. CASE RcvData
    <3>1. /\ rmain = "DATA" /\ rmain' = "block" /\ got = <<>> /\ got' = <<>>
          /\ need' = BlockWanted
          /\ UNCHANGED <<fout, rsize, total, expecting, mtime>>
      BY <1>4, <1>5, <2>2 DEF RcvData, Active
    <3>2. total + 0 = total /\ need' - 0 = need'
      BY <1>3, <1>4, Zenon
    <3>3. Standing = Place("header", fout, mtime, rsize, total, BlockWanted, expecting)
      BY <1>4, <3>1, <3>2 DEF Standing, Stand, BlockWanted
    <3>4. Standing' = Place("header", fout, mtime, rsize, total, need', expecting)
      BY <1>4, <3>1, <3>2 DEF Standing, Stand
    <3> QED BY <3>1, <3>3, <3>4 DEF Active
  <2>3. CASE WriteBlock
    <3>1. /\ rmain = "block" /\ rmain' = "check" /\ Len(got) = need /\ got' = <<>>
          /\ total' = total + need
          /\ UNCHANGED <<fout, rsize, expecting, mtime>>
      BY <1>5, <2>3 DEF WriteBlock, Active
    <3>2. Standing = Place("header", fout, mtime, rsize, total + need, 0, expecting)
      <4>1. need - Len(got) = 0
        BY <1>3, <1>4, <3>1, Zenon
      <4> QED BY <3>1, <4>1 DEF Standing, Stand
    <3>3. Standing' = Place("header", fout', mtime', rsize', total', 0, expecting')
      BY <3>1, StandsAtHeader
    <3> QED BY <3>1, <3>2, <3>3 DEF Active
  <2>4. CASE RcvDataComplete
    <3>1. /\ rmain = "DATA_COMPLETE" /\ rmain' = "check" /\ got = <<>> /\ got' = <<>>
          /\ fout' = NoFile /\ rsize' = 0 /\ expecting' = FALSE
          /\ UNCHANGED <<mtime, total>>
      BY <1>4, <1>5, <2>4 DEF RcvDataComplete, Active
    <3>2. Standing = Place("header", NoFile, mtime, 0, total, 0, FALSE)
      <4>1. total + 0 = total
        BY <1>3, <1>4, Zenon
      <4> QED BY <1>4, <3>1, <4>1 DEF Standing, Stand
    <3>3. Standing' = Place("header", fout', mtime', rsize', total', 0, expecting')
      BY <3>1, StandsAtHeader
    <3> QED BY <3>1, <3>2, <3>3 DEF Active
  <2>5. CASE RcvComplete
    BY <1>5, <2>5 DEF RcvComplete, Active
  <2>6. CASE ReceiverExit
    BY <1>5, <2>6, StandingSame DEF ReceiverExit
  <2> QED BY <2>1, <2>2, <2>3, <2>4, <2>5, <2>6
<1> QED BY <1>1, <1>2, <1>5, SentToSame, StreamOn

-----------------------------------------------------------------------------
(* In step *)

\* Every step keeps the stream in order, and only a step that meets what was changed while
\* it was sent, or what is left of a message, loses step.
LEMMA NextStream ==
  ASSUME TransferType, ThreadInv, StreamInv, [Next]_vars
  PROVE  /\ StreamInv'
         /\ rmain' = "desync" =>
              /\ Online \/ ~Undamaged \/ rmain = "desync"
              /\ harmed > 0 => harmed' > 0
<1>1. TransferType' /\ ThreadInv'
  BY NextTypes
<1>2. harmed > 0 => harmed' > 0 \/ rmain' = "header"
  <2>1. Harm => harmed' > 0
    <3>1. harmed \in Nat /\ Faults \in Nat
      BY CountAssumption DEF TransferType
    <3> QED BY <3>1, LesserOf DEF Harm
  <2>2. harmed' = harmed \/ Harm \/ Rerun
    <3>1. SenderMain => harmed' = harmed \/ Harm
      BY DEF SenderMain, WriteOn, SendFilelist, GotFilelist, SkipFile, SendFilename, SendFSize,
             SendData, SendDataComplete, SendComplete, SenderExit, PipeWrite, sendVars
    <3>2. Threads => harmed' = harmed \/ Harm
      BY DEF Threads, SndRead, SndSend, SndCheck, SndClose, SenderSeesLoss, RcvRecv, RcvWrite,
             RcvDrop, RcvLost, RcvClose, sendVars
    <3>3. ReceiverMain => harmed' = harmed \/ Harm
      BY DEF ReceiverMain, ReadHeader, CutHeader, NoHeader, RcvCheck, RcvFilelist, RcvFilename,
             RcvFSize, RcvData, ReadBlock, WriteBlock, RcvDataComplete, RcvComplete, Desync,
             ReceiverExit, sendVars
    <3>4. (\E f \in Files : Edit(f)) \/ Lose \/ UNCHANGED vars => harmed' = harmed \/ Harm
      BY DEF Edit, Lose, vars, sendVars
    <3> QED BY <3>1, <3>2, <3>3, <3>4 DEF Next
  <2>3. Rerun => rmain' = "header"
    BY DEF Rerun
  <2> QED BY <2>1, <2>2, <2>3
<1>3. CASE SenderMain
  <2>1. StreamInv'
    BY <1>3, HandsOnStream, SendFilelistStream, SendFilenameStream, SendFSizeStream,
       SendDataStream, SendDataCompleteStream, SendCompleteStream, SenderQuietStream
       DEF SenderMain
  <2>2. rmain' = rmain
    BY <1>3 DEF SenderMain, WriteOn, SendFilelist, GotFilelist, SkipFile, SendFilename,
                SendFSize, SendData, SendDataComplete, SendComplete, SenderExit, rmainVars
  <2> QED BY <1>2, <2>1, <2>2
<1>4. CASE Threads
  <2>1. StreamInv'
    BY <1>4, HandsOnStream, SndSendStream, ThreadsQuietStream, RcvDropStream, LoseStream
       DEF Threads
  <2>2. rmain' = rmain
    BY <1>4 DEF Threads, SndRead, SndSend, SndCheck, SndClose, SenderSeesLoss, RcvRecv,
                RcvWrite, RcvDrop, RcvLost, RcvClose, rmainVars
  <2> QED BY <1>2, <2>1, <2>2
<1>5. CASE ReceiverMain
  <2>1. CASE ReadHeader
    BY <1>2, <2>1, ReadHeaderStream
  <2>2. CASE RcvFilelist
    BY <1>1, <2>2, RcvFilelistStream DEF RcvFilelist
  <2>3. CASE RcvFilename
    BY <1>1, <2>3, RcvFilenameStream DEF RcvFilename
  <2>4. CASE RcvFSize
    BY <1>1, <2>4, RcvFSizeStream DEF RcvFSize
  <2>5. CASE Desync
    BY <1>2, <2>5, DesyncStream
  <2>6. CASE ReadBlock
    BY <1>1, <1>2, <2>6, ReadBlockStream
  <2>7. CASE NoHeader \/ RcvCheck \/ RcvData \/ WriteBlock \/ RcvDataComplete \/ RcvComplete
               \/ ReceiverExit
    <3>1. rmain' # "desync" \/ rmain' = rmain
      BY <2>7 DEF NoHeader, RcvCheck, RcvData, WriteBlock, RcvDataComplete, RcvComplete,
                  ReceiverExit, rmainVars
    <3> QED BY <1>1, <1>2, <2>7, <3>1, ReceiverQuietStream
  <2>8. CASE CutHeader
    <3>1. rmain' # "desync"
      BY <2>8 DEF CutHeader, Types
    <3> QED BY <2>8, <3>1, RcvDropStream
  <2> QED BY <1>5, <2>1, <2>2, <2>3, <2>4, <2>5, <2>6, <2>7, <2>8 DEF ReceiverMain
<1>6. CASE \E f \in Files : Edit(f)
  <2>1. rmain' = rmain
    BY <1>6 DEF Edit, rmainVars
  <2> QED BY <1>1, <1>2, <1>6, <2>1, EditStream
<1>7. CASE Lose
  <2>1. rmain' = rmain
    BY <1>7 DEF Lose, rmainVars
  <2> QED BY <1>2, <1>7, <2>1, LoseStream
<1>8. CASE Rerun
  BY <1>1, <1>8, RerunStream DEF Rerun
<1>9. CASE UNCHANGED vars
  <2>1. rmain' = rmain
    BY <1>9 DEF vars, rmainVars
  <2> QED BY <1>2, <1>9, <2>1, ThreadsQuietStream
<1> QED BY <1>3, <1>4, <1>5, <1>6, <1>7, <1>8, <1>9 DEF Next

\* Until the stream is harmed, all that is on its way leads the receiving program to where
\* the sending program believes it to be, and it loses step only if the stream was harmed or
\* the sources may change while they are sent.
THEOREM StreamLeads == Spec => [](TransferType /\ ThreadInv /\ StepInv)
<1>1. Init => TransferType /\ ThreadInv /\ StepInv
  <2> SUFFICES ASSUME Init PROVE TransferType /\ ThreadInv /\ StepInv
    OBVIOUS
  <2>1. TransferType /\ ThreadInv
    BY InitTypes
  <2>2. Started /\ rmain = "header"
    BY DEF Init, Started
  <2> QED BY <2>1, <2>2, InitStream DEF StepInv
<1>2. TransferType /\ ThreadInv /\ StepInv /\ [Next]_vars
        => (TransferType /\ ThreadInv /\ StepInv)'
  <2> SUFFICES ASSUME TransferType, ThreadInv, StepInv, [Next]_vars
               PROVE  TransferType' /\ ThreadInv' /\ StepInv'
    OBVIOUS
  <2>1. TransferType' /\ ThreadInv'
    BY NextTypes
  <2>2. /\ StreamInv'
        /\ rmain' = "desync" =>
             /\ Online \/ ~Undamaged \/ rmain = "desync"
             /\ harmed > 0 => harmed' > 0
    BY NextStream DEF StepInv
  <2>3. ~Undamaged => harmed > 0
    BY DEF Undamaged, TransferType
  <2> QED BY <2>1, <2>2, <2>3 DEF StepInv
<1> QED BY <1>1, <1>2, PTL DEF Spec

\* If the sources rest while a transfer runs, the receiving program takes a payload for a
\* header or the reverse only if a full pipe has dropped a message or a header was read in
\* part.
THEOREM StaysInSync ==
  ASSUME ~Online
  PROVE  Spec => []InSync
<1>1. StepInv => InSync
  BY DEF StepInv, InSync
<1> QED BY <1>1, StreamLeads, PTL

-----------------------------------------------------------------------------
(* The files *)

DestFiles == [data : Seq(Int), mtime : Int]

\* The time of one destination file changes, or all of it.
LEMMA TimeChanged ==
  ASSUME NEW d \in [Files -> DestFiles], NEW f \in Files, NEW t \in Int
  PROVE  \A g \in Files : /\ [d EXCEPT ![f].mtime = t][g].data = d[g].data
                          /\ [d EXCEPT ![f].mtime = t][g].mtime
                               = IF g = f THEN t ELSE d[g].mtime
BY DEF DestFiles

LEMMA BothChanged ==
  ASSUME NEW d \in [Files -> DestFiles], NEW f \in Files, NEW t \in Int, NEW b \in Seq(Int)
  PROVE  \A g \in Files : /\ [d EXCEPT ![f] = [data |-> b, mtime |-> t]][g].mtime
                               = IF g = f THEN t ELSE d[g].mtime
                          /\ [d EXCEPT ![f] = [data |-> b, mtime |-> t]][g].data
                               = IF g = f THEN b ELSE d[g].data
BY DEF DestFiles

\* Nothing of the file that is open has changed.
LEMMA WrittenSame ==
  ASSUME Written, src' = src, dst' = dst,
         UNCHANGED <<fout, path, mtime, expecting, total, rsize, got>>,
         rmain' \notin {"FILENAME", "DATA_COMPLETE"} \/ rmain' = rmain
  PROVE  Written'
BY DEF Written

LEMMA FilesSame ==
  ASSUME FilesInv, src' = src, dst' = dst, Active' => Written'
  PROVE  FilesInv'
BY DEF FilesInv, MtimeImpliesContent

LEMMA ReadHeaderFiles ==
  ASSUME Faults = 0, TransferType, ThreadInv, StreamInv, FilesInv, ReadHeader
  PROVE  FilesInv'
<1>1. /\ src' = src /\ dst' = dst /\ rmain = "header"
      /\ UNCHANGED <<fout, path, mtime, expecting, total, rsize, got>>
  BY DEF ReadHeader, fileVars, dataVars
<1>2. /\ rmain' = "FILENAME" => ~expecting
      /\ rmain' = "DATA_COMPLETE" =>
           /\ fout \in Files /\ expecting
           /\ src[fout] = mtime => total = rsize /\ rsize = Size[fout][mtime]
  BY ReadHeaderStream DEF Undamaged
<1>3. fout \in Files => fout # NoFile
  BY DEF Files, NoFile
<1>4. Written
  BY <1>1 DEF FilesInv, Active
<1>5. Written'
  BY <1>1, <1>2, <1>3, <1>4 DEF Written
<1> QED BY <1>1, <1>5, FilesSame

LEMMA RcvFilenameFiles ==
  ASSUME Faults = 0, TransferType, TransferType', ThreadInv, StreamInv, FilesInv, RcvFilename
  PROVE  /\ FilesInv'
         /\ \A g \in Files : /\ dst'[g].data = dst[g].data
                             /\ dst'[g].mtime # dst[g].mtime
                                  => dst[g].mtime = Absent /\ dst'[g].mtime = Now
<1>1. PICK f \in Files : f = Head(rpipe)[2] /\ ~expecting /\ header[2] \in 1 .. src[f]
  BY RcvFilenameStream DEF Undamaged
<1>2. /\ src' = src /\ rmain' = "check"
      /\ fout' = f /\ path' = f /\ mtime' = header[2] /\ expecting' = expecting
      /\ dst' = [dst EXCEPT ![f].mtime = OpenedTime(f)]
  BY <1>1 DEF RcvFilename
<1>3. /\ dst \in [Files -> DestFiles] /\ <<>> \in Seq(Int)
      /\ dst[f].mtime \in Int /\ OpenedTime(f) \in Int
      /\ OpenedTime(f) = IF dst[f].mtime = Absent THEN Now ELSE dst[f].mtime
  <2>1. dst \in [Files -> DestFiles] /\ <<>> \in Seq(Int)
    BY EmptySeq DEF TransferType, DestFiles
  <2>2. dst[f].mtime \in Int
    BY <2>1 DEF DestFiles
  <2> QED BY <2>1, <2>2 DEF OpenedTime, Now
<1>4. \A g \in Files : /\ dst'[g].data = dst[g].data
                       /\ dst'[g].mtime = IF g = f THEN OpenedTime(f) ELSE dst[g].mtime
  BY <1>2, <1>3, TimeChanged
<1>5. Written'
  <2>1. f # NoFile
    BY DEF Files, NoFile
  <2> QED BY <1>1, <1>2, <2>1 DEF Written
<1>6. \A g \in Files : src[g] \in Nat /\ src[g] >= 1
  BY DEF TransferType
<1>7. ASSUME NEW g \in Files
      PROVE  /\ dst'[g].mtime <= src[g]
             /\ dst'[g].mtime = src[g] => dst'[g].mtime = dst[g].mtime
  <2>1. dst[g].mtime <= src[g]
    BY DEF FilesInv
  <2>2. Now <= src[g] /\ Now # src[g]
    BY <1>6 DEF Now
  <2> QED BY <1>3, <1>4, <2>1, <2>2
<1>8. MtimeImpliesContent'
  BY <1>2, <1>4, <1>7 DEF MtimeImpliesContent, FilesInv
<1>9. FilesInv'
  BY <1>2, <1>5, <1>7, <1>8 DEF FilesInv
<1> QED BY <1>3, <1>4, <1>9

LEMMA ReadBlockFiles ==
  ASSUME Faults = 0, TransferType, TransferType', ThreadInv, ThreadInv', StreamInv, FilesInv,
         ReadBlock
  PROVE  FilesInv'
<1>1. /\ src' = src /\ dst' = dst /\ rmain = "block" /\ rmain' \in {"block", "desync"}
      /\ UNCHANGED <<fout, path, mtime, expecting, total, rsize>>
  BY DEF ReadBlock, fileVars
<1>2. rmain' = "block" /\ src[fout] <= mtime
        => \A i \in 1 .. Len(got') : got'[i] = mtime \/ (i <= Len(got) /\ got'[i] = got[i])
  BY ReadBlockStream DEF Undamaged
<1>3. Written
  BY <1>1 DEF FilesInv, Active
<1>4. ASSUME Active'
      PROVE  Written'
  <2>1. rmain' = "block"
    BY <1>1, <1>4 DEF Active
  <2>2. ASSUME expecting, fout # NoFile, src[fout] = mtime, NEW i \in 1 .. Len(got')
        PROVE  got'[i] = mtime
    <3>1. src[fout] <= mtime
      <4>1. mtime \in Nat
        BY DEF TransferType
      <4> QED BY <2>2, <4>1
    <3>2. \A j \in 1 .. Len(got) : got[j] = mtime
      BY <1>3, <2>2 DEF Written
    <3>3. i \in Nat /\ i >= 1 /\ Len(got) \in Nat
      BY LenProperties DEF TransferType
    <3>4. got'[i] = mtime \/ (i <= Len(got) /\ got'[i] = got[i])
      BY <1>2, <2>1, <2>2, <3>1
    <3> QED BY <3>2, <3>3, <3>4
  <2> QED BY <1>1, <1>3, <2>1, <2>2 DEF Written
<1> QED BY <1>1, <1>4, FilesSame

LEMMA WriteBlockFiles ==
  ASSUME TransferType, TransferType', ThreadInv, FilesInv, WriteBlock
  PROVE  /\ FilesInv'
         /\ dst' = dst \/ \E f \in Files :
              \A g \in Files :
                /\ dst'[g].mtime = IF g = f THEN Now ELSE dst[g].mtime
                /\ g # f => dst'[g].data = dst[g].data
<1>1. /\ src' = src /\ rmain = "block" /\ rmain' \in {"check", "failed"}
      /\ Len(got) = need /\ got' = <<>> /\ total' = total + need
      /\ UNCHANGED <<fout, path, mtime, expecting, rsize>>
      /\ fout = NoFile \/ need = 0 => dst' = dst
      /\ ~(fout = NoFile \/ need = 0) =>
           dst' = [dst EXCEPT ![fout] =
                              [data |-> Overwrite(dst[fout].data, total, got), mtime |-> Now]]
  BY DEF WriteBlock
<1>2. Written /\ expecting /\ Len(<<>>) = 0
  BY <1>1, EmptySeq DEF FilesInv, Active, ThreadInv
<1>3. /\ total \in Nat /\ need \in Nat /\ got \in Seq(Nat) /\ dst \in [Files -> DestFiles]
      /\ Now \in Int
  BY DEF TransferType, DestFiles, Now
<1>4. CASE fout = NoFile \/ need = 0
  <2>1. dst' = dst /\ (fout # NoFile => total' = total)
    BY <1>1, <1>3, <1>4
  <2>2. Written'
    BY <1>1, <1>2, <2>1 DEF Written
  <2> QED BY <1>1, <2>1, <2>2, FilesSame
<1>5. CASE ~(fout = NoFile \/ need = 0)
  <2>1. PICK f \in Files : f = fout /\ path = f /\ mtime \in 1 .. src[f]
    BY <1>2, <1>5 DEF Written
  <2>2. PICK d \in Seq(Int) : d = dst[f].data
    BY <1>3 DEF DestFiles
  <2>3. PICK b \in Seq(Int) :
          /\ b = Overwrite(d, total, got)
          /\ total <= Len(d) => total + need <= Len(b)
          /\ total <= Len(d) => \A i \in 1 .. total : b[i] = d[i]
          /\ \A i \in 1 .. need : b[total + i] = got[i]
    <3>1. PICK b \in Seq(Int) :
            /\ b = Overwrite(d, total, got)
            /\ total <= Len(d) => total + Len(got) <= Len(b)
            /\ total <= Len(d) => \A i \in 1 .. total : b[i] = d[i]
            /\ \A i \in 1 .. Len(got) : b[total + i] = got[i]
      BY <1>3, OverwriteIs
    <3> QED BY <1>1, <3>1
  <2>4. dst' = [dst EXCEPT ![f] = [data |-> b, mtime |-> Now]]
    BY <1>1, <1>5, <2>1, <2>2, <2>3
  <2>5. \A g \in Files : /\ dst'[g].mtime = IF g = f THEN Now ELSE dst[g].mtime
                         /\ dst'[g].data = IF g = f THEN b ELSE dst[g].data
    BY <1>3, <2>4, BothChanged
  <2>6. ASSUME src[f] = mtime
        PROVE  total' <= Len(b) /\ \A i \in 1 .. total' : b[i] = mtime
    <3>1. /\ total <= Len(d) /\ \A i \in 1 .. total : d[i] = mtime
          /\ \A i \in 1 .. need : got[i] = mtime
      BY <1>1, <1>2, <1>5, <2>1, <2>2, <2>6 DEF Written
    <3>2. ASSUME NEW i \in 1 .. total'
          PROVE  b[i] = mtime
      <4>1. CASE i <= total
        <5>1. i \in 1 .. total
          BY <1>3, <4>1
        <5> QED BY <2>3, <3>1, <5>1
      <4>2. CASE i > total
        <5>1. PICK j \in 1 .. need : j = i - total /\ total + j = i
          BY <1>1, <1>3, <4>2
        <5> QED BY <2>3, <3>1, <5>1
      <4> QED BY <1>1, <1>3, <4>1, <4>2
    <3> QED BY <1>1, <2>3, <3>1, <3>2
  <2>7. Written'
    <3>1. f # NoFile /\ dst'[f].data = b
      BY <1>5, <2>1, <2>5
    <3>2. fout' = f /\ src' = src /\ path' = f /\ mtime' = mtime /\ mtime \in 1 .. src[f]
          /\ got' = <<>> /\ rmain' \notin {"FILENAME", "DATA_COMPLETE"}
      BY <1>1, <2>1
    <3>3. \A i \in 1 .. Len(got') : got'[i] = mtime'
      BY <1>2, <3>2
    <3> QED BY <2>6, <3>1, <3>2, <3>3 DEF Written
  <2>8. \A g \in Files : src[g] \in Nat /\ src[g] >= 1
    BY DEF TransferType
  <2>9. ASSUME NEW g \in Files
        PROVE  /\ dst'[g].mtime <= src[g]
               /\ dst'[g].mtime = src[g] =>
                      dst'[g] .mtime = dst[g].mtime /\ dst'[g].data = dst[g].data
    <3>1. dst[g].mtime <= src[g]
      BY DEF FilesInv
    <3>2. Now <= src[g] /\ Now # src[g]
      BY <2>8 DEF Now
    <3> QED BY <2>5, <3>1, <3>2
  <2>10. MtimeImpliesContent'
    BY <1>1, <2>9 DEF MtimeImpliesContent, FilesInv
  <2>11. FilesInv'
    BY <1>1, <2>7, <2>9, <2>10 DEF FilesInv
  <2> QED BY <2>5, <2>11
<1> QED BY <1>4, <1>5

LEMMA RcvDataCompleteFiles ==
  ASSUME TransferType, TransferType', ThreadInv, FilesInv, RcvDataComplete
  PROVE  /\ FilesInv'
         /\ \E f \in Files : \E v \in 1 .. src[f] :
              /\ \A g \in Files : dst'[g].mtime = IF g = f THEN v ELSE dst[g].mtime
              /\ \A g \in Files : g # f => dst'[g].data = dst[g].data
              /\ v = src[f] => dst'[f].data = Content(f, v)
<1>1. rmain = "DATA_COMPLETE" /\ src' = src /\ UNCHANGED <<path, mtime, got, total>>
  BY DEF RcvDataComplete
<1>2. Written /\ got = <<>> /\ Len(<<>>) = 0
  BY <1>1, EmptySeq DEF FilesInv, Active, ThreadInv
<1>3. PICK f \in Files, v \in Nat :
        /\ v \in 1 .. src[f] /\ f = fout /\ path = f /\ v = mtime /\ expecting /\ f # NoFile
        /\ src[f] = v => total = rsize /\ rsize = Size[f][v]
  BY <1>1, <1>2 DEF Written, TransferType
<1>4. PICK d \in Seq(Int) : d = dst[f].data
  BY DEF TransferType
<1>5. /\ rsize \in Nat /\ v \in Int /\ dst \in [Files -> DestFiles]
      /\ src[f] \in Nat /\ src[f] \in 1 .. Len(Size[f])
  BY SMTT(30) DEF TransferType, DestFiles
<1>6. PICK b \in Seq(Int) :
        /\ b = Truncate(d, rsize) /\ Len(b) = rsize
        /\ rsize <= Len(d) => \A i \in 1 .. rsize : b[i] = d[i]
  BY <1>5, TruncateIs
<1>7. /\ dst' = [[dst EXCEPT ![f].data = b] EXCEPT ![f].mtime = v]
      /\ fout' = NoFile /\ expecting' = FALSE /\ rmain' = "check"
  BY <1>3, <1>4, <1>6 DEF RcvDataComplete
<1>8. \A g \in Files : /\ dst'[g].mtime = IF g = f THEN v ELSE dst[g].mtime
                       /\ dst'[g].data = IF g = f THEN b ELSE dst[g].data
  <2>1. PICK e \in [Files -> DestFiles] :
          /\ e = [dst EXCEPT ![f].data = b]
          /\ \A g \in Files : /\ e[g].mtime = dst[g].mtime
                              /\ e[g].data = IF g = f THEN b ELSE dst[g].data
    <3>1. /\ [dst EXCEPT ![f].data = b] \in [Files -> DestFiles]
          /\ \A g \in Files :
               /\ [dst EXCEPT ![f].data = b][g].mtime = dst[g].mtime
               /\ [dst EXCEPT ![f].data = b][g].data = IF g = f THEN b ELSE dst[g].data
      BY <1>5 DEF DestFiles
    <3> QED BY <3>1
  <2>2. dst' = [e EXCEPT ![f].mtime = v]
    BY <1>7, <2>1
  <2>3. \A g \in Files : /\ dst'[g].data = e[g].data
                         /\ dst'[g].mtime = IF g = f THEN v ELSE e[g].mtime
    BY <1>5, <2>2, TimeChanged
  <2> QED BY <2>1, <2>3
<1>9. ASSUME v = src[f]
      PROVE  b = Content(f, v)
  <2>1. /\ total = rsize /\ rsize = Size[f][v] /\ total <= Len(d)
        /\ \A i \in 1 .. total : d[i] = v
    BY <1>2, <1>3, <1>4, <1>9 DEF Written
  <2>2. Len(b) = rsize /\ \A i \in 1 .. rsize : b[i] = v
    BY <1>6, <2>1
  <2>3. /\ Content(f, v) \in Seq(Int) /\ Len(Content(f, v)) = rsize
        /\ \A i \in 1 .. rsize : Content(f, v)[i] = v
    BY <1>5, <1>9, <2>1, SizeIs
  <2>4. PICK c \in Seq(Int) : c = Content(f, v)
    BY <2>3
  <2>5. Len(b) = Len(c) /\ \A i \in 1 .. Len(b) : b[i] = c[i]
    BY <2>2, <2>3, <2>4
  <2>6. b = c
    BY <2>5, SeqEqual
  <2> QED BY <2>4, <2>6
<1>10. Written'
  BY <1>1, <1>2, <1>7 DEF Written
<1>11. ASSUME NEW g \in Files
       PROVE  /\ dst'[g].mtime <= src[g]
              /\ dst'[g].mtime = src[g] => dst'[g].data = Content(g, src[g])
  <2>1. /\ dst[g].mtime <= src[g]
        /\ dst[g].mtime = src[g] => dst[g].data = Content(g, src[g])
    BY DEF FilesInv, MtimeImpliesContent
  <2>2. v <= src[f]
    BY <1>3, <1>5
  <2> QED BY <1>8, <1>9, <2>1, <2>2
<1>12. FilesInv'
  BY <1>1, <1>10, <1>11 DEF FilesInv, MtimeImpliesContent
<1>13. /\ \A g \in Files : dst'[g].mtime = IF g = f THEN v ELSE dst[g].mtime
       /\ \A g \in Files : g # f => dst'[g].data = dst[g].data
       /\ v = src[f] => dst'[f].data = Content(f, v)
  BY <1>8, <1>9
<1> QED BY <1>3, <1>12, <1>13

LEMMA EditFiles ==
  ASSUME TransferType, FilesInv, NEW f \in Files, Edit(f)
  PROVE  FilesInv'
<1>1. /\ dst' = dst /\ rmainVars' = rmainVars
      /\ UNCHANGED <<fout, path, mtime, expecting, total, rsize, got, rmain>>
  BY DEF Edit, rmainVars, dataVars
<1>2. \A g \in Files : src[g] \in Nat /\ src'[g] = IF g = f THEN src[g] + 1 ELSE src[g]
  BY DEF Edit, TransferType
<1>3. dst \in [Files -> DestFiles] /\ mtime \in Nat
  BY DEF TransferType, DestFiles
<1>4. ASSUME NEW g \in Files
      PROVE  /\ dst[g].mtime <= src'[g]
             /\ dst[g].mtime = src'[g] => src'[g] = src[g]
  <2>1. dst[g].mtime \in Int /\ dst[g].mtime <= src[g]
    BY <1>3 DEF FilesInv, DestFiles
  <2> QED BY <1>2, <2>1
<1>5. ASSUME Active'
      PROVE  Written'
  <2>1. Written
    BY <1>1, <1>5 DEF Active, FilesInv
  <2>2. fout # NoFile => fout \in Files /\ path = fout /\ mtime \in 1 .. src[fout]
    BY <2>1 DEF Written
  <2>3. fout # NoFile => mtime \in 1 .. src'[fout] /\ (src'[fout] = mtime => src[fout] = mtime)
    BY <1>2, <1>3, <2>2
  <2> QED BY <1>1, <2>1, <2>2, <2>3 DEF Written
<1>6. MtimeImpliesContent'
  BY <1>1, <1>4 DEF MtimeImpliesContent, FilesInv
<1> QED BY <1>1, <1>4, <1>5, <1>6 DEF FilesInv

LEMMA RestFiles ==
  ASSUME TransferType, ThreadInv, FilesInv,
         \/ NoHeader \/ RcvCheck \/ RcvFilelist \/ RcvFSize \/ RcvData \/ RcvComplete
         \/ Desync \/ ReceiverExit \/ Rerun
         \/ src' = src /\ dst' = dst /\ rmainVars' = rmainVars
  PROVE  FilesInv' /\ src' = src /\ dst' = dst
<1>1. src' = src /\ dst' = dst
  BY DEF NoHeader, RcvCheck, RcvFilelist, RcvFSize, RcvData, RcvComplete, Desync, ReceiverExit,
         Rerun, fileVars
<1>2. ASSUME Active'
      PROVE  Written'
  <2>1. CASE NoHeader \/ RcvCheck \/ RcvFilelist
    <3>1. /\ rmain \in {"header", "check", "FILELIST"} /\ rmain' \in {"header", "check", "done"}
          /\ UNCHANGED <<fout, path, mtime, expecting, total, rsize, got>>
      BY <2>1 DEF NoHeader, RcvCheck, RcvFilelist, PayloadRead, dataVars
    <3>2. Written
      BY <3>1 DEF FilesInv, Active
    <3> QED BY <1>1, <3>1, <3>2, WrittenSame
  <2>2. CASE RcvFSize
    <3>1. /\ rmain = "F_SIZE" /\ rmain' = "check" /\ total' = 0 /\ expecting' = TRUE
          /\ UNCHANGED <<fout, path, mtime, got>>
      BY <2>2 DEF RcvFSize, PayloadRead, NewTotal
    <3>2. Written /\ got = <<>>
      BY <3>1 DEF FilesInv, Active, ThreadInv
    <3>3. fout # NoFile => /\ fout \in Files /\ path = fout /\ mtime \in 1 .. src[fout]
                           /\ 0 <= Len(dst[fout].data)
      <4>1. fout # NoFile => fout \in Files /\ path = fout /\ mtime \in 1 .. src[fout]
        BY <3>2 DEF Written
      <4>2. fout \in Files => dst[fout].data \in Seq(Int)
        BY DEF TransferType
      <4>3. \A s \in Seq(Int) : 0 <= Len(s)
        BY LenProperties
      <4> QED BY <4>1, <4>2, <4>3
    <3>4. /\ \A i \in 1 .. total' : dst[fout].data[i] = mtime
          /\ \A i \in 1 .. Len(got') : got'[i] = mtime
      <4>1. Len(<<>>) = 0 /\ 1 .. 0 = {}
        BY EmptySeq
      <4>2. 1 .. total' = {} /\ 1 .. Len(got') = {}
        BY <3>1, <3>2, <4>1, Zenon
      <4> QED BY <4>2
    <3> QED BY <1>1, <3>1, <3>3, <3>4 DEF Written
  <2>3. CASE RcvData
    <3>1. /\ rmain = "DATA" /\ rmain' = "block" /\ got' = <<>>
          /\ UNCHANGED <<fout, path, mtime, expecting, total, rsize>>
      BY <1>2, <2>3 DEF RcvData, Active
    <3>2. Written /\ got = <<>>
      BY <3>1 DEF FilesInv, Active, ThreadInv
    <3> QED BY <1>1, <3>1, <3>2, WrittenSame
  <2>4. CASE RcvComplete \/ Desync
    BY <1>2, <2>4 DEF RcvComplete, Desync, Active
  <2>5. CASE ReceiverExit \/ (src' = src /\ dst' = dst /\ rmainVars' = rmainVars)
    <3>1. /\ rmain' = rmain
          /\ UNCHANGED <<fout, path, mtime, expecting, total, rsize, got>>
      BY <2>5 DEF ReceiverExit, rmainVars, dataVars
    <3>2. Written
      BY <1>2, <3>1 DEF FilesInv, Active
    <3> QED BY <1>1, <3>1, <3>2, WrittenSame
  <2>6. CASE Rerun
    <3>1. rmain' = "header" /\ fout' = NoFile /\ expecting' = FALSE
      BY <2>6 DEF Rerun
    <3> QED BY <3>1 DEF Written
  <2> QED BY <2>1, <2>2, <2>3, <2>4, <2>5, <2>6
<1> QED BY <1>1, <1>2, FilesSame

\* What SyncService sees of the destination files d.
DataOf(d) == [f \in Files |-> d[f].data]
ClaimOf(d) == [f \in Files |-> IF d[f].mtime = Now THEN Absent ELSE d[f].mtime]

\* It does not see that a file has been created, and nothing of what is not on a disk.
LEMMA SyncStutters ==
  ASSUME src' = src,
         \A g \in Files : /\ dst'[g].data = dst[g].data
                          /\ dst'[g].mtime # dst[g].mtime
                               => dst[g].mtime = Absent /\ dst'[g].mtime = Now
  PROVE  UNCHANGED Sync!svars
<1>1. DataOf(dst') = DataOf(dst)
  BY DEF DataOf
<1>2. ClaimOf(dst') = ClaimOf(dst)
  BY DEF ClaimOf
<1> QED BY <1>1, <1>2 DEF Sync!svars, DataOf, ClaimOf

\* Every step keeps what is known of the files, and is one of the steps that SyncService
\* takes, or none.
LEMMA NextFiles ==
  ASSUME Faults = 0, TransferType, ThreadInv, StreamInv, FilesInv,
         [Next]_vars
  PROVE  FilesInv' /\ [Sync!Next]_(Sync!svars)
<1>1. TransferType' /\ ThreadInv'
  BY NextTypes
<1>2. CASE \/ SenderMain \/ Threads \/ Lose \/ Rerun \/ UNCHANGED vars
           \/ NoHeader \/ RcvCheck \/ RcvFilelist \/ RcvFSize \/ RcvData \/ RcvComplete
           \/ Desync \/ ReceiverExit
  <2>1. SenderMain => src' = src /\ dst' = dst /\ rmainVars' = rmainVars
    BY DEF SenderMain, WriteOn, SendFilelist, GotFilelist, SkipFile, SendFilename, SendFSize,
           SendData, SendDataComplete, SendComplete, SenderExit, fileVars
  <2>2. Threads => src' = src /\ dst' = dst /\ rmainVars' = rmainVars
    BY DEF Threads, SndRead, SndSend, SndCheck, SndClose, SenderSeesLoss, RcvRecv, RcvWrite,
           RcvDrop, RcvLost, RcvClose, fileVars
  <2>3. Lose \/ UNCHANGED vars => src' = src /\ dst' = dst /\ rmainVars' = rmainVars
    BY DEF Lose, vars, fileVars
  <2>4. FilesInv' /\ src' = src /\ dst' = dst
    BY <1>2, <2>1, <2>2, <2>3, RestFiles
  <2>5. UNCHANGED Sync!svars
    BY <2>4, SyncStutters
  <2> QED BY <2>4, <2>5
<1>c. CASE CutHeader
  <2>1. ~ (harmed < 0)
    BY DEF TransferType
  <2> QED BY <1>c, <2>1 DEF CutHeader
<1>3. CASE ReadHeader
  <2>1. src' = src /\ dst' = dst
    BY <1>3 DEF ReadHeader, fileVars
  <2>2. UNCHANGED Sync!svars
    BY <2>1, SyncStutters
  <2> QED BY <1>3, <2>2, ReadHeaderFiles
<1>4. CASE ReadBlock
  <2>1. src' = src /\ dst' = dst
    BY <1>4 DEF ReadBlock, fileVars
  <2>2. UNCHANGED Sync!svars
    BY <2>1, SyncStutters
  <2> QED BY <1>1, <1>4, <2>2, ReadBlockFiles
<1>5. CASE RcvFilename
  <2>1. src' = src
    BY <1>5 DEF RcvFilename
  <2>2. UNCHANGED Sync!svars
    BY <1>1, <1>5, <2>1, RcvFilenameFiles, SyncStutters
  <2> QED BY <1>1, <1>5, <2>2, RcvFilenameFiles
<1>6. CASE WriteBlock
  <2>1. src' = src
    BY <1>6 DEF WriteBlock
  <2>2. CASE dst' = dst
    BY <1>1, <1>6, <2>1, <2>2, WriteBlockFiles, SyncStutters
  <2>3. CASE dst' # dst
    <3>1. PICK f \in Files : \A g \in Files :
            /\ dst'[g].mtime = IF g = f THEN Now ELSE dst[g].mtime
            /\ g # f => dst'[g].data = dst[g].data
      BY <1>1, <1>6, <2>3, WriteBlockFiles
    <3>2. ClaimOf(dst') = [ClaimOf(dst) EXCEPT ![f] = Sync!None]
      BY <3>1 DEF ClaimOf, Sync!None, Absent
    <3>3. \A g \in Files \ {f} : DataOf(dst')[g] = DataOf(dst)[g]
      BY <3>1 DEF DataOf
    <3>4. Sync!Write(f)
      BY <2>1, <3>2, <3>3 DEF Sync!Write, ClaimOf, DataOf
    <3>5. Sync!Next
      BY <3>4 DEF Sync!Next
    <3> QED BY <1>1, <1>6, <3>5, WriteBlockFiles
  <2> QED BY <2>2, <2>3
<1>7. CASE RcvDataComplete
  <2>1. src' = src
    BY <1>7 DEF RcvDataComplete
  <2>2. PICK f \in Files : \E v \in 1 .. src[f] :
          /\ \A g \in Files : dst'[g].mtime = IF g = f THEN v ELSE dst[g].mtime
          /\ \A g \in Files : g # f => dst'[g].data = dst[g].data
          /\ v = src[f] => dst'[f].data = Content(f, v)
    BY <1>1, <1>7, RcvDataCompleteFiles
  <2>3. PICK v \in 1 .. src[f] :
          /\ \A g \in Files : dst'[g].mtime = IF g = f THEN v ELSE dst[g].mtime
          /\ \A g \in Files : g # f => dst'[g].data = dst[g].data
          /\ v = src[f] => dst'[f].data = Content(f, v)
    BY <2>2
  <2>4. v # Now
    BY DEF Now, TransferType
  <2>5. ClaimOf(dst') = [ClaimOf(dst) EXCEPT ![f] = v]
    BY <2>3, <2>4 DEF ClaimOf
  <2>6. /\ \A g \in Files \ {f} : DataOf(dst')[g] = DataOf(dst)[g]
        /\ v = src[f] => DataOf(dst')[f] = Content(f, v)
    BY <2>3 DEF DataOf
  <2>7. Sync!Certify(f)
    BY <2>1, <2>5, <2>6 DEF Sync!Certify, ClaimOf, DataOf
  <2>8. Sync!Next
    BY <2>7 DEF Sync!Next
  <2> QED BY <1>1, <1>7, <2>8, RcvDataCompleteFiles
<1>8. CASE \E f \in Files : Edit(f)
  <2>1. PICK f \in Files : Edit(f)
    BY <1>8
  <2>2. Sync!Edit(f)
    BY <2>1 DEF Edit, Sync!Edit
  <2>3. Sync!Next
    BY <2>2 DEF Sync!Next
  <2> QED BY <2>1, <2>3, EditFiles
<1> QED BY <1>2, <1>c, <1>3, <1>4, <1>5, <1>6, <1>7, <1>8 DEF Next, ReceiverMain

LEMMA InitFiles ==
  ASSUME Init
  PROVE  FilesInv /\ Sync!Init
<1>1. /\ src = [f \in Files |-> 1] /\ dst = [f \in Files |-> [data |-> <<>>, mtime |-> Absent]]
      /\ fout = NoFile /\ expecting = FALSE /\ rmain = "header"
  BY DEF Init, Started
<1>2. FilesInv
  BY <1>1 DEF FilesInv, Written, MtimeImpliesContent, Absent
<1>3. \A f \in Files : dst[f].data = <<>> /\ dst[f].mtime = Absent
  BY <1>1
<1>4. ClaimOf(dst) = [f \in Files |-> Sync!None] /\ DataOf(dst) = [f \in Files |-> <<>>]
  BY <1>3 DEF ClaimOf, DataOf, Sync!None, Absent
<1> QED BY <1>1, <1>2, <1>4 DEF Sync!Init, ClaimOf, DataOf

\* What is known of the files, whatever is edited, lost, killed and run again.
LEMMA FilesHold ==
  ASSUME Faults = 0
  PROVE  Spec => /\ [](TransferType /\ ThreadInv /\ StepInv /\ FilesInv)
                 /\ Sync!Init /\ [][Sync!Next]_(Sync!svars)
<1>1. Init => FilesInv /\ Sync!Init
  BY InitFiles
<1>2. /\ TransferType /\ ThreadInv /\ StepInv /\ FilesInv /\ [Next]_vars
      => FilesInv' /\ [Sync!Next]_(Sync!svars)
  BY NextFiles DEF StepInv
<1>3. Spec => [](TransferType /\ ThreadInv /\ StepInv)
  BY StreamLeads
<1> QED BY <1>1, <1>2, <1>3, PTL DEF Spec

\* If no pipe stays full for too long and no header is read in part, a destination file that
\* carries the time of its source holds all of it and nothing else: whatever is edited while it
\* is sent, and wherever a run is cut short and begun again.
THEOREM TimeMeansContent ==
  ASSUME Faults = 0
  PROVE  Spec => []MtimeImpliesContent
<1>1. FilesInv => MtimeImpliesContent
  BY DEF FilesInv
<1> QED BY <1>1, FilesHold, PTL

\* Under the same condition the destination files change as SyncService says.
THEOREM Implements ==
  ASSUME Faults = 0
  PROVE  Spec => ImplementsSync
BY FilesHold, PTL DEF ImplementsSync, Sync!Spec

-----------------------------------------------------------------------------
(* What must be true of all that is on its way *)

\* All that has been sent and not yet been read, when nothing of it was dropped or lost.
Whole == Arriving \o Leaving
Intact == harmed = 0 /\ conn \in {"up", "closed"}

\* A unit that opens a file at the receiving side, one that closes it, and one before which
\* it has to be closed.
Opens(u) == u[1] = "name"
Closes(u) == u[1] = "DATA_COMPLETE"
Parts(u) == u[1] \in {"FILENAME", "COMPLETE"}

\* Before each file, and before the end, the one before is closed: the one that is open, if
\* there is one, and those still to come.  The same goes for the end of s if the sending
\* program is between two files.
Apart(s, open, between) ==
  \A j \in 1 .. Len(s) + 1 :
    (IF j = Len(s) + 1 THEN between ELSE Parts(s[j])) =>
      /\ open => \E k \in 1 .. j - 1 : Closes(s[k])
      /\ \A i \in 1 .. j - 1 : Opens(s[i]) => \E k \in i + 1 .. j - 1 : Closes(s[k])

\* Before each name comes a header with a time that is not older than the one in the list;
\* it may have been read, and be the one the program is at.
Announced(s, l, at, time) ==
  \A i \in 1 .. Len(s) : Opens(s[i]) =>
    IF i = 1 THEN at = "FILENAME" /\ l[s[1][2]] <= time
    ELSE s[i - 1][1] = "FILENAME" /\ l[s[i][2]] <= s[i - 1][2]

\* The answer to the list and the end of a transfer come last when they are sent.
Endings(s, asks, ends) ==
  \A i \in 1 .. Len(s) : /\ s[i][1] = "list" => i = Len(s) /\ asks
                         /\ s[i][1] = "COMPLETE" => i = Len(s) /\ ends

\* The name of f has been sent, because its times differ.
Due(f) ==
  /\ f \in Files /\ listed[f] # reply[f]
  /\ f < cur \/ (f = cur /\ smain \in {"size", "data", "eof"})

-----------------------------------------------------------------------------
(* Sequences of messages *)

\* t is s without its first n units.
Behind(s, n, t) ==
  /\ s \in Seq(Units) /\ t \in Seq(Units) /\ n \in Nat \ {0}
  /\ Len(s) = n + Len(t)
  /\ \A i \in 1 .. Len(t) : t[i] = s[n + i]

\* What holds of a stream holds of what is left of it after a part was read.
LEMMA EndingsBehind ==
  ASSUME NEW s, NEW t, NEW n, Behind(s, n, t), NEW asks, NEW ends, Endings(s, asks, ends)
  PROVE  Endings(t, asks, ends)
<1>1. PICK a \in Nat, b \in Nat : a = Len(s) /\ b = Len(t) /\ a = n + b /\ n \in Nat
  BY LenProperties DEF Behind
<1> SUFFICES ASSUME NEW i \in 1 .. b
             PROVE  /\ t[i][1] = "list" => i = b /\ asks
                    /\ t[i][1] = "COMPLETE" => i = b /\ ends
  BY <1>1 DEF Endings
<1>2. n + i \in 1 .. a /\ t[i] = s[n + i] /\ (n + i = a => i = b)
  BY <1>1 DEF Behind
<1> QED BY <1>1, <1>2 DEF Endings

LEMMA AnnouncedBehind ==
  ASSUME NEW s, NEW t, NEW n, Behind(s, n, t), NEW l, NEW at, NEW time, Announced(s, l, at, time),
         NEW at2, NEW time2, s[n][1] = "FILENAME" => at2 = "FILENAME" /\ time2 = s[n][2]
  PROVE  Announced(t, l, at2, time2)
<1>1. PICK a \in Nat, b \in Nat :
        a = Len(s) /\ b = Len(t) /\ a = n + b /\ n \in Nat /\ n # 0
  BY LenProperties DEF Behind
<1> SUFFICES ASSUME NEW i \in 1 .. b, Opens(t[i])
             PROVE  IF i = 1 THEN at2 = "FILENAME" /\ l[t[1][2]] <= time2
                    ELSE t[i - 1][1] = "FILENAME" /\ l[t[i][2]] <= t[i - 1][2]
  BY <1>1 DEF Announced
<1>2. n + i \in 1 .. a /\ t[i] = s[n + i] /\ n + i # 1
  BY <1>1 DEF Behind
<1>3. s[n + i - 1][1] = "FILENAME" /\ l[s[n + i][2]] <= s[n + i - 1][2]
  BY <1>1, <1>2 DEF Announced
<1>4. CASE i = 1
  <2>1. n + i - 1 = n
    BY <1>1, <1>4
  <2> QED BY <1>2, <1>3, <1>4, <2>1
<1>5. CASE i # 1
  <2>1. i - 1 \in 1 .. b /\ n + (i - 1) = n + i - 1
    BY <1>1, <1>5
  <2>2. t[i - 1] = s[n + i - 1]
    BY <1>1, <2>1 DEF Behind
  <2> QED BY <1>2, <1>3, <1>5, <2>2
<1> QED BY <1>4, <1>5

LEMMA ApartBehind ==
  ASSUME NEW s, NEW t, NEW n, Behind(s, n, t), NEW open, NEW between, Apart(s, open, between),
         NEW open2,
         open2 => \/ open /\ \A k \in 1 .. n : ~ Closes(s[k])
                  \/ n = 1 /\ Opens(s[1])
  PROVE  Apart(t, open2, between)
<1>1. PICK a \in Nat, b \in Nat :
        a = Len(s) /\ b = Len(t) /\ a = n + b /\ n \in Nat /\ n # 0
  BY LenProperties DEF Behind
<1> SUFFICES ASSUME NEW j \in 1 .. b + 1, IF j = b + 1 THEN between ELSE Parts(t[j])
             PROVE  /\ open2 => \E k \in 1 .. j - 1 : Closes(t[k])
                    /\ \A i \in 1 .. j - 1 : Opens(t[i]) => \E k \in i + 1 .. j - 1 : Closes(t[k])
  BY <1>1 DEF Apart
<1>2. \A i \in 1 .. b : n + i \in 1 .. a /\ t[i] = s[n + i]
  BY <1>1 DEF Behind
<1>3. PICK m \in 1 .. a + 1 : m = n + j /\ (m = a + 1 <=> j = b + 1)
  BY <1>1
<1>4. IF m = a + 1 THEN between ELSE Parts(s[m])
  <2>1. CASE j = b + 1
    BY <1>3, <2>1
  <2>2. CASE j # b + 1
    BY <1>2, <1>3, <2>2
  <2> QED BY <2>1, <2>2
<1>5. /\ open => \E k \in 1 .. m - 1 : Closes(s[k])
      /\ \A i \in 1 .. m - 1 : Opens(s[i]) => \E k \in i + 1 .. m - 1 : Closes(s[k])
  BY <1>1, <1>4 DEF Apart
<1>6. ASSUME NEW i \in 1 .. j - 1, Opens(t[i])
      PROVE  \E k \in i + 1 .. j - 1 : Closes(t[k])
  <2>1. n + i \in 1 .. m - 1 /\ t[i] = s[n + i]
    BY <1>1, <1>2, <1>3
  <2>2. PICK k \in n + i + 1 .. m - 1 : Closes(s[k])
    BY <1>5, <1>6, <2>1
  <2>3. k - n \in i + 1 .. j - 1 /\ k - n \in 1 .. b /\ n + (k - n) = k
    BY <1>1, <1>3
  <2> QED BY <1>2, <2>2, <2>3
<1>7. ASSUME open2
      PROVE  \E k \in 1 .. j - 1 : Closes(t[k])
  <2>1. PICK k \in n + 1 .. m - 1 : Closes(s[k])
    <3>1. CASE open /\ \A k \in 1 .. n : ~ Closes(s[k])
      <4>1. PICK k \in 1 .. m - 1 : Closes(s[k])
        BY <1>5, <3>1
      <4>2. ~ (k \in 1 .. n)
        BY <3>1, <4>1
      <4> QED BY <1>1, <4>1, <4>2
    <3>2. CASE n = 1 /\ Opens(s[1])
      <4>1. 1 \in 1 .. m - 1
        BY <1>3, <3>2
      <4>2. PICK k \in 1 + 1 .. m - 1 : Closes(s[k])
        BY <1>5, <3>2, <4>1
      <4> QED BY <3>2, <4>2
    <3> QED BY <1>7, <3>1, <3>2
  <2>2. k - n \in 1 .. j - 1 /\ k - n \in 1 .. b /\ n + (k - n) = k
    BY <1>1, <1>3, <2>1
  <2> QED BY <1>2, <2>1, <2>2
<1> QED BY <1>6, <1>7

\* Two sequences put together.
LEMMA Joined ==
  ASSUME NEW s \in Seq(Units), NEW m \in Seq(Units)
  PROVE  \E t \in Seq(Units), a \in Nat, b \in Nat :
           /\ t = s \o m /\ a = Len(s) /\ b = Len(m) /\ Len(t) = a + b
           /\ \A i \in 1 .. a : t[i] = s[i]
           /\ \A i \in 1 .. b : t[a + i] = m[i]
<1>1. PICK a \in Nat, b \in Nat : a = Len(s) /\ b = Len(m)
  BY LenProperties
<1>2. PICK t \in Seq(Units) :
        /\ t = s \o m /\ Len(t) = a + b
        /\ \A i \in 1 .. a + b : t[i] = IF i <= a THEN s[i] ELSE m[i - a]
  <2>1. /\ s \o m \in Seq(Units) /\ Len(s \o m) = a + b
        /\ \A i \in 1 .. a + b : (s \o m)[i] = IF i <= a THEN s[i] ELSE m[i - a]
    BY <1>1, ConcatProperties
  <2> QED BY <2>1
<1>3. ASSUME NEW i \in 1 .. b
      PROVE  t[a + i] = m[i]
  <2>1. PICK h \in 1 .. a + b : h = a + i /\ ~ (h <= a) /\ h - a = i
    <3>1. a + i \in 1 .. a + b /\ ~ (a + i <= a) /\ a + i - a = i
      BY <1>1
    <3> QED BY <3>1
  <2>2. t[h] = IF h <= a THEN s[h] ELSE m[h - a]
    BY <1>2
  <2> QED BY <2>1, <2>2
<1>4. ASSUME NEW i \in 1 .. a
      PROVE  t[i] = s[i]
  <2>1. i \in 1 .. a + b /\ i <= a
    BY <1>1
  <2>2. t[i] = IF i <= a THEN s[i] ELSE m[i - a]
    BY <1>2, <2>1
  <2> QED BY <2>1, <2>2
<1> QED BY <1>1, <1>2, <1>3, <1>4

\* A message that is added, after which the sending program is between two files or not.
LEMMA ApartAdded ==
  ASSUME NEW s \in Seq(Units), NEW m \in Seq(Units), NEW open, NEW between, NEW between2,
         Apart(s, open, between),
         \A i \in 1 .. Len(m) : Parts(m[i]) => i = 1 /\ between,
         between2 => \/ between /\ \A i \in 1 .. Len(m) : ~ Opens(m[i])
                     \/ Len(m) = 1 /\ Closes(m[1])
  PROVE  Apart(s \o m, open, between2)
<1>1. PICK t \in Seq(Units), a \in Nat, b \in Nat :
        /\ t = s \o m /\ a = Len(s) /\ b = Len(m) /\ Len(t) = a + b
        /\ \A i \in 1 .. a : t[i] = s[i]
        /\ \A i \in 1 .. b : t[a + i] = m[i]
  BY Joined
<1>s. SUFFICES ASSUME NEW j \in 1 .. Len(t) + 1, IF j = Len(t) + 1 THEN between2 ELSE Parts(t[j])
               PROVE  /\ open => \E k \in 1 .. j - 1 : Closes(t[k])
                      /\ \A i \in 1 .. j - 1 : Opens(t[i]) => \E k \in i + 1 .. j - 1 : Closes(t[k])
  <2> HIDE DEF Opens, Closes, Parts
  <2> QED BY <1>1 DEF Apart
<1>0. j \in 1 .. a + b + 1 /\ IF j = a + b + 1 THEN between2 ELSE Parts(t[j])
  BY <1>1, <1>s
<1>2. ASSUME NEW h \in 1 .. a + 1, IF h = a + 1 THEN between ELSE Parts(s[h])
      PROVE  /\ open => \E k \in 1 .. h - 1 : Closes(t[k])
             /\ \A i \in 1 .. h - 1 : Opens(t[i]) => \E k \in i + 1 .. h - 1 : Closes(t[k])
  <2>1. /\ open => \E k \in 1 .. h - 1 : Closes(s[k])
        /\ \A i \in 1 .. h - 1 : Opens(s[i]) => \E k \in i + 1 .. h - 1 : Closes(s[k])
    BY <1>1, <1>2 DEF Apart
  <2>2. \A k \in 1 .. h - 1 : k \in 1 .. a /\ t[k] = s[k]
    BY <1>1
  <2>3. ASSUME NEW i \in 1 .. h - 1, Opens(t[i])
        PROVE  \E k \in i + 1 .. h - 1 : Closes(t[k])
    <3>1. PICK k \in i + 1 .. h - 1 : Closes(s[k])
      BY <2>1, <2>2, <2>3
    <3>2. k \in 1 .. h - 1
      OBVIOUS
    <3> QED BY <2>2, <3>1, <3>2
  <2> QED BY <2>1, <2>2, <2>3
<1>3. CASE j <= a
  <2>1. j # a + b + 1 /\ j \in 1 .. a + 1 /\ j # a + 1 /\ t[j] = s[j]
    BY <1>0, <1>1, <1>3
  <2>2. Parts(s[j])
    BY <1>0, <2>1
  <2> QED BY <1>2, <2>1, <2>2
<1>4. CASE j > a /\ j # a + b + 1
  <2>1. j - a \in 1 .. b /\ a + (j - a) = j
    BY <1>0, <1>4
  <2>2. Parts(m[j - a])
    BY <1>0, <1>1, <1>4, <2>1
  <2>3. j - a = 1 /\ between
    BY <1>1, <2>1, <2>2
  <2>4. j = a + 1 /\ j \in 1 .. a + 1
    BY <2>1, <2>3
  <2> QED BY <1>2, <2>3, <2>4
<1>5. CASE j = a + b + 1 /\ between /\ \A i \in 1 .. b : ~ Opens(m[i])
  <2>1. /\ open => \E k \in 1 .. a : Closes(t[k])
        /\ \A i \in 1 .. a : Opens(t[i]) => \E k \in i + 1 .. a : Closes(t[k])
    <3>1. PICK h \in 1 .. a + 1 : h = a + 1 /\ h - 1 = a
      BY <1>1
    <3>2. IF h = a + 1 THEN between ELSE Parts(s[h])
      BY <1>5, <3>1
    <3>3. /\ open => \E k \in 1 .. h - 1 : Closes(t[k])
          /\ \A i \in 1 .. h - 1 : Opens(t[i]) => \E k \in i + 1 .. h - 1 : Closes(t[k])
      BY <1>2, <3>2
    <3> QED BY <3>1, <3>3
  <2>2. \A i \in 1 .. j - 1 : i \in 1 .. a \/ ~ Opens(t[i])
    <3> SUFFICES ASSUME NEW i \in 1 .. j - 1, i > a PROVE ~ Opens(t[i])
      OBVIOUS
    <3>1. i - a \in 1 .. b /\ a + (i - a) = i
      BY <1>1, <1>5
    <3> QED BY <1>1, <1>5, <3>1
  <2>3. \A i \in 1 .. a : \A k \in i + 1 .. a : k \in i + 1 .. j - 1
    BY <1>1, <1>5
  <2>4. \A k \in 1 .. a : k \in 1 .. j - 1
    BY <1>1, <1>5
  <2> QED BY <2>1, <2>2, <2>3, <2>4
<1>6. CASE j = a + b + 1 /\ b = 1 /\ Closes(m[1])
  <2>1. Closes(t[a + 1]) /\ a + 1 = j - 1 /\ ~ Opens(t[a + 1])
    BY <1>1, <1>6 DEF Closes, Opens
  <2>2. a + 1 \in 1 .. j - 1 /\ \A i \in 1 .. a : a + 1 \in i + 1 .. j - 1
    BY <1>1, <2>1
  <2>3. \A i \in 1 .. j - 1 : i \in 1 .. a \/ i = a + 1
    BY <1>1, <2>1
  <2> QED BY <2>1, <2>2, <2>3
<1>7. ASSUME j = a + b + 1
      PROVE  \/ between /\ \A i \in 1 .. b : ~ Opens(m[i])
             \/ b = 1 /\ Closes(m[1])
  <2>1. between2
    BY <1>0, <1>7
  <2>2. \/ between /\ \A i \in 1 .. Len(m) : ~ Opens(m[i])
        \/ Len(m) = 1 /\ Closes(m[1])
    BY <2>1
  <2>3. Len(m) = b
    BY <1>1
  <2> QED BY <2>2, <2>3
<1> QED BY <1>0, <1>3, <1>4, <1>5, <1>6, <1>7

\* No answer and no end of a transfer was on its way.
LEMMA EndingsAdded ==
  ASSUME NEW s \in Seq(Units), NEW m \in Seq(Units), NEW asks, NEW ends,
         Endings(s, FALSE, FALSE), Endings(m, asks, ends)
  PROVE  Endings(s \o m, asks, ends)
<1>1. PICK t \in Seq(Units), a \in Nat, b \in Nat :
        /\ t = s \o m /\ a = Len(s) /\ b = Len(m) /\ Len(t) = a + b
        /\ \A i \in 1 .. a : t[i] = s[i]
        /\ \A i \in 1 .. b : t[a + i] = m[i]
  BY Joined
<1> SUFFICES ASSUME NEW i \in 1 .. a + b
             PROVE  /\ t[i][1] = "list" => i = a + b /\ asks
                    /\ t[i][1] = "COMPLETE" => i = a + b /\ ends
  BY <1>1 DEF Endings
<1>2. CASE i <= a
  <2>1. i \in 1 .. a /\ t[i] = s[i]
    BY <1>1, <1>2
  <2>2. s[i][1] # "list" /\ s[i][1] # "COMPLETE"
    BY <1>1, <2>1 DEF Endings
  <2> QED BY <2>1, <2>2
<1>3. CASE i > a
  <2>1. PICK k \in 1 .. b : i = a + k /\ (k = b => i = a + b)
    BY <1>3
  <2>2. t[i] = m[k]
    BY <1>1, <2>1
  <2>3. /\ m[k][1] = "list" => k = b /\ asks
        /\ m[k][1] = "COMPLETE" => k = b /\ ends
    BY <1>1 DEF Endings
  <2> QED BY <2>1, <2>2, <2>3
<1> QED BY <1>2, <1>3

LEMMA AnnouncedAdded ==
  ASSUME NEW s \in Seq(Units), NEW m \in Seq(Units), NEW l, NEW at, NEW time,
         Announced(s, l, at, time),
         \A i \in 1 .. Len(m) : Opens(m[i]) =>
           i # 1 /\ m[i - 1][1] = "FILENAME" /\ l[m[i][2]] <= m[i - 1][2]
  PROVE  Announced(s \o m, l, at, time)
<1>1. PICK t \in Seq(Units), a \in Nat, b \in Nat :
        /\ t = s \o m /\ a = Len(s) /\ b = Len(m) /\ Len(t) = a + b
        /\ \A i \in 1 .. a : t[i] = s[i]
        /\ \A i \in 1 .. b : t[a + i] = m[i]
  BY Joined
<1> SUFFICES ASSUME NEW i \in 1 .. a + b, Opens(t[i])
             PROVE  IF i = 1 THEN at = "FILENAME" /\ l[t[1][2]] <= time
                    ELSE t[i - 1][1] = "FILENAME" /\ l[t[i][2]] <= t[i - 1][2]
  BY <1>1 DEF Announced
<1>2. CASE i <= a
  <2>1. i \in 1 .. a /\ t[i] = s[i]
    BY <1>1, <1>2
  <2>2. IF i = 1 THEN at = "FILENAME" /\ l[s[1][2]] <= time
        ELSE s[i - 1][1] = "FILENAME" /\ l[s[i][2]] <= s[i - 1][2]
    BY <1>1, <2>1 DEF Announced
  <2>3. i # 1 => t[i - 1] = s[i - 1]
    BY <1>1, <2>1
  <2> QED BY <2>1, <2>2, <2>3
<1>3. CASE i > a
  <2>0. i - a \in 1 .. b /\ i = a + (i - a)
    BY <1>3
  <2>1. PICK k \in 1 .. b : i = a + k
    BY <2>0
  <2>2. t[i] = m[k]
    BY <1>1, <2>1
  <2>3. k # 1 /\ m[k - 1][1] = "FILENAME" /\ l[m[k][2]] <= m[k - 1][2]
    BY <1>1, <2>2
  <2>4. k - 1 \in 1 .. b /\ a + (k - 1) = i - 1 /\ i # 1
    BY <2>1, <2>3
  <2>5. t[i - 1] = m[k - 1]
    BY <1>1, <2>4
  <2> QED BY <2>2, <2>3, <2>4, <2>5
<1> QED BY <1>2, <1>3

-----------------------------------------------------------------------------
(* All that is on its way *)

LEMMA WholeType ==
  ASSUME TransferType
  PROVE  Whole \in Seq(Units)
BY StreamTypes, ConcatProperties DEF Whole

\* A message that is not harmed comes last.
LEMMA WholeAdded ==
  ASSUME TransferType, sout = <<>>, NEW msg \in Seq(Units), sout' = msg,
         UNCHANGED <<sendRest, net, rbuf, rpipe>>
  PROVE  Whole' = Whole \o msg
<1>1. Leaving' = Leaving \o msg /\ Arriving' = Arriving
  BY LeavesLast DEF Arriving
<1>2. PICK a \in Seq(Units), b \in Seq(Units) : a = Arriving /\ b = Leaving
  BY StreamTypes
<1>3. (a \o b) \o msg = a \o (b \o msg)
  BY Associates
<1> QED BY <1>1, <1>2, <1>3 DEF Whole

\* What is handed on is on its way as before.
LEMMA WholeKept ==
  ASSUME TransferType, ThreadInv,
         WriteOn \/ SndRead \/ RcvRecv \/ RcvWrite \/ (SndSend /\ conn = "up")
  PROVE  Whole' = Whole
<1>1. CASE WriteOn \/ SndRead \/ RcvRecv \/ RcvWrite
  BY <1>1, WriteOnKeeps, SndReadKeeps, RcvRecvKeeps, RcvWriteKeeps DEF Whole
<1>2. CASE SndSend /\ conn = "up"
  <2>1. PICK x \in Seq(Units) : /\ Arriving' = Arriving \o x /\ Leaving = x \o Leaving'
                               /\ Leaving' \in Seq(Units)
    BY <1>2, SndSendHandsOver
  <2>2. PICK a \in Seq(Units), b \in Seq(Units) : a = Arriving /\ b = Leaving'
    BY <2>1, StreamTypes
  <2>3. (a \o x) \o b = a \o (x \o b)
    BY Associates
  <2> QED BY <2>1, <2>2, <2>3 DEF Whole
<1> QED BY <1>1, <1>2

\* What is read comes first.
LEMMA WholeRead ==
  ASSUME TransferType, NEW part \in Seq(Units), NEW rest \in Seq(Units), NEW n \in Nat \ {0},
         n = Len(part), part \o rest = rpipe, rpipe' = rest,
         UNCHANGED <<rbuf, net, sbuf, spipe, sout>>
  PROVE  Behind(Whole, n, Whole') /\ \A i \in 1 .. n : Whole[i] = part[i]
<1>0. \A z \in Seq(Units) : (part \o rest) \o z = part \o (rest \o z)
  BY Associates
<1>1. PICK x \in Seq(Units), y \in Seq(Units), z \in Seq(Units) :
        x = rbuf \o net /\ y = Leaving /\ z = x \o y
  <2>1. PICK x \in Seq(Units), y \in Seq(Units) : x = rbuf \o net /\ y = Leaving
    BY StreamTypes
  <2>2. x \o y \in Seq(Units)
    BY ConcatProperties
  <2> QED BY <2>1, <2>2
<1>2. Whole' = rest \o z
  <2>1. (rest \o x) \o y = rest \o (x \o y)
    BY Associates
  <2> QED BY <1>1, <2>1 DEF Whole, Arriving, Leaving
<1>3. Whole = part \o (rest \o z)
  <2>1. PICK w \in Seq(Units) : w = part \o rest
    BY ConcatProperties
  <2>2. (w \o x) \o y = w \o (x \o y)
    BY Associates
  <2>3. (part \o rest) \o z = part \o (rest \o z)
    BY <1>0
  <2> QED BY <1>1, <2>1, <2>2, <2>3 DEF Whole, Arriving
<1>4. PICK t \in Seq(Units) : t = rest \o z
  BY ConcatProperties
<1>5. PICK s \in Seq(Units), a \in Nat, b \in Nat :
        /\ s = part \o t /\ a = Len(part) /\ b = Len(t) /\ Len(s) = a + b
        /\ \A i \in 1 .. a : s[i] = part[i]
        /\ \A i \in 1 .. b : s[a + i] = t[i]
  BY Joined
<1>6. s = Whole /\ t = Whole' /\ a = n
  BY <1>2, <1>3, <1>4, <1>5
<1>7. Behind(s, n, t)
  BY <1>5, <1>6 DEF Behind
<1> QED BY <1>5, <1>6, <1>7

LEMMA WholeTail ==
  ASSUME TransferType, rpipe # <<>>, rpipe' = Tail(rpipe),
         UNCHANGED <<rbuf, net, sbuf, spipe, sout>>
  PROVE  Behind(Whole, 1, Whole') /\ Whole[1] = Head(rpipe)
<1>1. PICK s \in Seq(Units) : s = rpipe /\ s # <<>>
  BY StreamTypes
<1>2. PICK u \in Units, w \in Seq(Units) : u = Head(s) /\ w = Tail(s) /\ s = <<u>> \o w
  <2>1. Head(s) \in Units /\ Tail(s) \in Seq(Units)
    BY <1>1, HeadTailProperties
  <2>2. s = <<Head(s)>> \o Tail(s)
    BY <1>1, <2>1
  <2> QED BY <2>1, <2>2, Zenon
<1>3. PICK p \in Seq(Units) : p = <<u>> /\ Len(p) = 1 /\ p[1] = u
  <2>1. <<u>> \in Seq(Units)
    OBVIOUS
  <2>2. Len(<<u>>) = 1 /\ <<u>>[1] = u
    OBVIOUS
  <2> QED BY <2>1, <2>2, Zenon
<1>4. p \o w = rpipe /\ rpipe' = w
  BY <1>1, <1>2, <1>3
<1>5. PICK n \in Nat \ {0} : n = 1
  OBVIOUS
<1>6. Behind(Whole, n, Whole') /\ \A i \in 1 .. n : Whole[i] = p[i]
  BY <1>3, <1>4, <1>5, WholeRead
<1>7. 1 \in 1 .. n
  BY <1>5
<1>8. Whole[1] = p[1]
  BY <1>6, <1>7
<1> QED BY <1>1, <1>2, <1>3, <1>5, <1>6, <1>8

-----------------------------------------------------------------------------
(* What the whole stream says *)

\* Between two files, as the sending program sees it.
Between == smain \notin {"size", "data", "eof"}

\* How far the two programs are with each other.
PhaseInv ==
  /\ smain \in {"list", "wait"} => cur = 1
  /\ smain \in {"pause", "exit"} => cur = NF + 1
  /\ smain = "list" => Whole = <<>> /\ reply = NoReply /\ fout = NoFile
                       /\ rmain \in {"header", "check"}
  /\ smain # "list" => \A f \in Files : listed[f] <= src[f]
  /\ Endings(Whole, smain = "wait" /\ reply = NoReply, smain \in {"pause", "exit"})
  /\ rmain = "COMPLETE" => Whole = <<>> /\ smain \in {"pause", "exit"}
  /\ smain \in {"pause", "exit"} =>
       rmain = "COMPLETE" \/ \E i \in 1 .. Len(Whole) : Whole[i][1] = "COMPLETE"

\* A name, on its way or of the file that is open, is of a file whose times differ, and
\* comes with a time that is not older than the one in the list.
NamesInv ==
  /\ \A i \in 1 .. Len(Whole) : Opens(Whole[i]) => Due(Whole[i][2])
  /\ Announced(Whole, listed, rmain, header[2])
  /\ fout # NoFile => Due(fout) /\ path = fout /\ listed[fout] <= mtime
  /\ Apart(Whole, fout # NoFile /\ rmain # "DATA_COMPLETE", Between)
  /\ rmain \in {"FILENAME", "COMPLETE"} => fout = NoFile

\* A file is there as it was listed, or it is open, or its name is still to come.
Reaches(f) ==
  \/ dst[f].mtime >= listed[f]
  \/ fout = f
  \/ \E i \in 1 .. Len(Whole) : Whole[i] = <<"name", f>>

FilesReach ==
  /\ reply # NoReply => \A f \in Files : listed[f] = reply[f] => dst[f].mtime >= listed[f]
  /\ smain \notin {"list", "wait"} => reply # NoReply
  /\ \A f \in Files : Due(f) => Reaches(f)

FlowInv == PhaseInv /\ NamesInv /\ FilesReach

\* Nothing is read or sent, and only the file that is open changes.
LEMMA FlowSame ==
  ASSUME FlowInv, Whole' = Whole,
         UNCHANGED <<smain, cur, listed, reply, src, fout, path, mtime, header>>,
         \/ rmain' = rmain
         \/ rmain \in {"header", "check"} /\ rmain' \in {"header", "check"}
         \/ rmain \in {"DATA", "block"} /\ rmain' \in {"block", "check"},
         \A f \in Files : f # fout => dst'[f].mtime = dst[f].mtime
  PROVE  FlowInv'
<1>1. \A f : Due(f)' = Due(f)
  BY DEF Due
<1>2. Between' = Between
  BY DEF Between
<1>3. PhaseInv'
  BY DEF FlowInv, PhaseInv
<1>4. Announced(Whole, listed, rmain', header[2])
  <2>1. Announced(Whole, listed, rmain, header[2])
    BY DEF FlowInv, NamesInv
  <2>2. CASE rmain' = rmain
    BY <2>1, <2>2
  <2>3. CASE rmain' # rmain
    <3>1. rmain # "FILENAME"
      BY <2>3
    <3> QED BY <2>1, <3>1 DEF Announced
  <2> QED BY <2>2, <2>3
<1>5. NamesInv'
  <2>1. (rmain' # "DATA_COMPLETE") = (rmain # "DATA_COMPLETE")
    OBVIOUS
  <2> QED BY <1>1, <1>2, <1>4, <2>1 DEF FlowInv, NamesInv
<1>6. FilesReach'
  <2>1. ASSUME NEW f \in Files, reply # NoReply, listed[f] = reply[f]
        PROVE  dst'[f].mtime >= listed[f]
    <3>1. f # fout
      <4>1. f # NoFile
        BY DEF Files, NoFile
      <4> QED BY <2>1, <4>1 DEF FlowInv, NamesInv, Due
    <3> QED BY <2>1, <3>1 DEF FlowInv, FilesReach
  <2>2. ASSUME NEW f \in Files, Due(f)
        PROVE  Reaches(f)'
    <3>1. Reaches(f)
      BY <2>2 DEF FlowInv, FilesReach
    <3> QED BY <3>1 DEF Reaches
  <2> QED BY <1>1, <2>1, <2>2 DEF FlowInv, FilesReach
<1> QED BY <1>3, <1>5, <1>6 DEF FlowInv

\* The sending program goes on without sending.
LEMMA FlowTurns ==
  ASSUME TransferType, FlowInv, Whole' = Whole, GotFilelist \/ SkipFile \/ SenderExit
  PROVE  FlowInv'
<1>1. UNCHANGED <<listed, reply, src, dst, fout, path, mtime, header, rmain>>
  BY DEF GotFilelist, SkipFile, SenderExit, fileVars, rmainVars, dataVars
<1>2. \/ smain = "wait" /\ reply # NoReply /\ smain' = "file" /\ cur' = cur
      \/ /\ smain = "file" /\ smain' = "file" /\ cur' = cur + 1 /\ listed[cur] = reply[cur]
      \/ smain = "pause" /\ smain' = "exit" /\ cur' = cur
  BY DEF GotFilelist, SkipFile, SenderExit, SameTimestamps
<1>3. ASSUME NEW f
      PROVE  Due(f)' <=> Due(f)
  <2>1. cur \in Nat /\ (f \in Files => f \in Nat)
    BY DEF TransferType, Files
  <2>2. smain' \notin {"size", "data", "eof"} /\ smain \notin {"size", "data", "eof"}
    BY <1>2
  <2>3. CASE cur' = cur
    BY <1>1, <2>2, <2>3 DEF Due
  <2>4. CASE cur' = cur + 1 /\ listed[cur] = reply[cur]
    <3>1. f \in Files => (f < cur + 1 <=> f < cur \/ f = cur)
      BY <2>1
    <3> QED BY <1>1, <2>2, <2>4, <3>1 DEF Due
  <2> QED BY <1>2, <2>3, <2>4
<1>4. Between' = Between
  BY <1>2 DEF Between
<1>5. PhaseInv'
  <2>1. Endings(Whole, smain = "wait" /\ reply = NoReply, smain \in {"pause", "exit"})
    BY DEF FlowInv, PhaseInv
  <2>2. (smain' = "wait" /\ reply = NoReply) = (smain = "wait" /\ reply = NoReply)
    BY <1>2
  <2>3. (smain' \in {"pause", "exit"}) = (smain \in {"pause", "exit"})
    BY <1>2
  <2> QED BY <1>1, <1>2, <2>1, <2>2, <2>3 DEF FlowInv, PhaseInv
<1>6. NamesInv'
  BY <1>1, <1>3, <1>4 DEF FlowInv, NamesInv
<1>7. FilesReach'
  <2>1. \A f : Reaches(f)' = Reaches(f)
    BY <1>1 DEF Reaches
  <2> QED BY <1>1, <1>2, <1>3, <2>1 DEF FlowInv, FilesReach
<1> QED BY <1>5, <1>6, <1>7 DEF FlowInv

\* A message of send_files or complete_xfer.
LEMMA FlowSends ==
  ASSUME TransferType, FlowInv, NEW msg \in Seq(Units), Whole' = Whole \o msg,
         UNCHANGED <<listed, reply, src, dst, fout, path, mtime, header, rmain>>,
         smain \in {"file", "size", "data", "eof"}, smain' \notin {"list", "wait", "exit"},
         Endings(msg, FALSE, smain' = "pause"),
         smain' = "pause" => cur' = NF + 1 /\ \E i \in 1 .. Len(msg) : msg[i][1] = "COMPLETE",
         \A i \in 1 .. Len(msg) : Opens(msg[i]) =>
           /\ i # 1 /\ msg[i - 1][1] = "FILENAME" /\ listed[msg[i][2]] <= msg[i - 1][2]
           /\ Due(msg[i][2])',
         \A f : Due(f) => Due(f)',
         \A f : Due(f)' => Due(f) \/ \E i \in 1 .. Len(msg) : msg[i] = <<"name", f>>,
         \A i \in 1 .. Len(msg) : Parts(msg[i]) => i = 1 /\ Between,
         Between' => \/ Between /\ \A i \in 1 .. Len(msg) : ~ Opens(msg[i])
                     \/ Len(msg) = 1 /\ Closes(msg[1])
  PROVE  FlowInv'
<1>1. PICK s \in Seq(Units) : s = Whole
  BY WholeType
<1>2. PICK t \in Seq(Units), a \in Nat, b \in Nat :
        /\ t = s \o msg /\ a = Len(s) /\ b = Len(msg) /\ Len(t) = a + b
        /\ \A i \in 1 .. a : t[i] = s[i]
        /\ \A i \in 1 .. b : t[a + i] = msg[i]
  BY Joined
<1>3. t = Whole'
  BY <1>1, <1>2
<1>4. ASSUME NEW i \in 1 .. a + b
      PROVE  \/ i \in 1 .. a /\ t[i] = s[i]
             \/ \E k \in 1 .. b : t[i] = msg[k]
  <2>1. CASE i <= a
    BY <1>2, <2>1
  <2>2. CASE i > a
    <3>1. i - a \in 1 .. b /\ a + (i - a) = i
      BY <2>2
    <3> QED BY <1>2, <3>1
  <2> QED BY <2>1, <2>2
<1>5. \A i \in 1 .. a : i \in 1 .. a + b
  OBVIOUS
<1>6. \A k \in 1 .. b : a + k \in 1 .. a + b
  OBVIOUS
<1>7. PhaseInv'
  <2>1. Endings(s, FALSE, FALSE)
    <3>1. (smain = "wait" /\ reply = NoReply) = FALSE /\ (smain \in {"pause", "exit"}) = FALSE
      OBVIOUS
    <3>2. Endings(s, smain = "wait" /\ reply = NoReply, smain \in {"pause", "exit"})
      BY <1>1 DEF FlowInv, PhaseInv
    <3> QED BY <3>1, <3>2
  <2>2. Endings(t, FALSE, smain' = "pause")
    BY <1>2, <2>1, EndingsAdded
  <2>3. Endings(t, smain' = "wait" /\ reply = NoReply, smain' \in {"pause", "exit"})
    <3>1. (smain' = "wait" /\ reply = NoReply) = FALSE
          /\ (smain' \in {"pause", "exit"}) = (smain' = "pause")
      OBVIOUS
    <3> QED BY <2>2, <3>1
  <2>4. smain' = "pause" => \E i \in 1 .. Len(t) : t[i][1] = "COMPLETE"
    BY <1>2, <1>6
  <2>5. rmain # "COMPLETE"
    BY DEF FlowInv, PhaseInv
  <2>6. \A f \in Files : listed[f] <= src[f]
    BY DEF FlowInv, PhaseInv
  <2> QED BY <1>3, <2>3, <2>4, <2>5, <2>6 DEF PhaseInv
<1>8. NamesInv'
  <2>1. \A i \in 1 .. Len(t) : Opens(t[i]) => Due(t[i][2])'
    <3> SUFFICES ASSUME NEW i \in 1 .. a + b, Opens(t[i]) PROVE Due(t[i][2])'
      BY <1>2
    <3>1. CASE i \in 1 .. a /\ t[i] = s[i]
      BY <1>1, <1>2, <3>1 DEF FlowInv, NamesInv
    <3>2. CASE \E k \in 1 .. b : t[i] = msg[k]
      BY <1>2, <3>2
    <3> QED BY <1>4, <3>1, <3>2
  <2>2. Announced(t, listed, rmain, header[2])
    <3>1. Announced(s, listed, rmain, header[2])
      BY <1>1 DEF FlowInv, NamesInv
    <3> QED BY <1>2, <3>1, AnnouncedAdded
  <2>3. Apart(t, fout # NoFile /\ rmain # "DATA_COMPLETE", Between')
    <3>1. Apart(s, fout # NoFile /\ rmain # "DATA_COMPLETE", Between)
      BY <1>1 DEF FlowInv, NamesInv
    <3> QED BY <1>2, <3>1, ApartAdded
  <2> QED BY <1>3, <2>1, <2>2, <2>3 DEF FlowInv, NamesInv
<1>9. FilesReach'
  <2>1. ASSUME NEW f \in Files, Due(f)'
        PROVE  Reaches(f)'
    <3>1. CASE Due(f)
      <4>1. Reaches(f)
        BY <3>1 DEF FlowInv, FilesReach
      <4>2. (\E i \in 1 .. Len(s) : s[i] = <<"name", f>>)
              => \E i \in 1 .. Len(t) : t[i] = <<"name", f>>
        BY <1>2, <1>5
      <4> QED BY <1>1, <1>3, <4>1, <4>2 DEF Reaches
    <3>2. CASE \E k \in 1 .. Len(msg) : msg[k] = <<"name", f>>
      <4>1. PICK k \in 1 .. b : msg[k] = <<"name", f>>
        BY <1>2, <3>2
      <4>2. a + k \in 1 .. Len(t) /\ t[a + k] = <<"name", f>>
        BY <1>2, <1>6, <4>1
      <4> QED BY <1>3, <4>2 DEF Reaches
    <3> QED BY <2>1, <3>1, <3>2
  <2> QED BY <2>1 DEF FlowInv, FilesReach
<1> QED BY <1>7, <1>8, <1>9 DEF FlowInv

\* A message that is not counted as harmed is in the pipe or on its way into it.
LEMMA Sent ==
  ASSUME TransferType, NEW msg \in Seq(Units), PipeWrite(msg), harmed' = 0, sout = <<>>,
         UNCHANGED <<sendRest, netVars, recvVars>>
  PROVE  Whole' = Whole \o msg
<1>1. Harm => harmed' # 0
  <2>1. harmed \in Nat /\ Faults \in Nat
    BY CountAssumption DEF TransferType
  <2> QED BY <2>1, LesserOf DEF Harm
<1>2. sout' = msg
  BY <1>1 DEF PipeWrite
<1> QED BY <1>2, WholeAdded DEF netVars, recvVars

LEMMA TwoUnits ==
  ASSUME NEW msg, NEW u, NEW w, IsMessage(msg, u, w)
  PROVE  /\ msg \in Seq(Units) /\ Len(msg) = 2 /\ msg[1] = u /\ msg[2] = w
         /\ \A i \in 1 .. Len(msg) : i = 1 \/ i = 2
BY DEF IsMessage

\* The messages of the sending program, one by one.
LEMMA SendFilelistFlow ==
  ASSUME TransferType, FlowInv, SendFilelist, harmed' = 0
  PROVE  FlowInv'
<1>1. PICK u, w, msg :
        u = <<"FILELIST", 0>> /\ w = <<"list", 0>> /\ IsMessage(msg, u, w) /\ PipeWrite(msg)
  BY Names, MessageOf DEF SendFilelist
<1>2. /\ msg \in Seq(Units) /\ Len(msg) = 2 /\ msg[1] = u /\ msg[2] = w
      /\ \A i \in 1 .. Len(msg) : i = 1 \/ i = 2
  BY <1>1, TwoUnits
<1>3. Whole' = msg
  <2>1. Whole = <<>>
    BY DEF SendFilelist, FlowInv, PhaseInv
  <2>2. Whole' = Whole \o msg
    BY <1>1, <1>2, Sent DEF SendFilelist
  <2>3. <<>> \o msg = msg
    BY <1>2, ConcatEmptySeq
  <2> QED BY <2>1, <2>2, <2>3
<1>4. /\ smain = "list" /\ cur = 1 /\ reply = NoReply /\ fout = NoFile
      /\ rmain \in {"header", "check"} /\ smain' = "wait" /\ listed' = src
      /\ UNCHANGED <<cur, reply, src, dst, fout, rmain, header, mtime, path>>
  BY DEF SendFilelist, FlowInv, PhaseInv, fileVars, rmainVars, dataVars
<1>5. PhaseInv'
  <2>1. Endings(msg, TRUE, FALSE)
    BY <1>1, <1>2 DEF Endings
  <2>2. (smain' = "wait" /\ reply' = NoReply) = TRUE /\ (smain' \in {"pause", "exit"}) = FALSE
    BY <1>4
  <2>3. Endings(msg, smain' = "wait" /\ reply' = NoReply, smain' \in {"pause", "exit"})
    BY <2>1, <2>2
  <2>4. \A f \in Files : listed'[f] <= src'[f]
    BY <1>4 DEF TransferType
  <2> QED BY <1>3, <1>4, <2>3, <2>4 DEF PhaseInv
<1>6. \A i \in 1 .. Len(msg) : ~ Opens(msg[i]) /\ ~ Parts(msg[i])
  BY <1>1, <1>2 DEF Opens, Parts
<1>7. NamesInv'
  <2>1. Announced(msg, listed', rmain', header'[2])
    BY <1>6 DEF Announced
  <2>2. (fout' # NoFile /\ rmain' # "DATA_COMPLETE") = FALSE /\ Between' = TRUE
    BY <1>4 DEF Between
  <2>3. Apart(msg, FALSE, TRUE)
    <3> HIDE DEF Opens
    <3>1. ASSUME NEW j \in 1 .. Len(msg) + 1, NEW i \in 1 .. j - 1
          PROVE  ~ Opens(msg[i])
      BY <1>2, <1>6
    <3> QED BY <3>1 DEF Apart
  <2>4. Apart(msg, fout' # NoFile /\ rmain' # "DATA_COMPLETE", Between')
    BY <2>2, <2>3
  <2> QED BY <1>3, <1>4, <1>6, <2>1, <2>4 DEF NamesInv
<1>8. FilesReach'
  <2>1. \A f : ~ Due(f)'
    BY <1>4 DEF Due, Files
  <2> QED BY <1>4, <2>1 DEF FilesReach
<1> QED BY <1>5, <1>7, <1>8 DEF FlowInv

LEMMA SendFilenameFlow ==
  ASSUME TransferType, FlowInv, SendFilename, harmed' = 0
  PROVE  FlowInv'
<1>1. /\ smain = "file" /\ cur \in Files /\ listed[cur] # reply[cur] /\ smain' = "size"
      /\ src[cur] \in Nat /\ cur \in Nat
      /\ UNCHANGED <<listed, reply, src, dst, fout, path, mtime, header, rmain, cur>>
  BY DEF SendFilename, SameTimestamps, fileVars, rmainVars, dataVars, TransferType
<1>2. PICK u, w, msg :
        /\ u = <<"FILENAME", src[cur]>> /\ w = <<"name", cur>>
        /\ IsMessage(msg, u, w) /\ PipeWrite(msg)
  BY <1>1, Names, MessageOf DEF SendFilename
<1>3. /\ msg \in Seq(Units) /\ Len(msg) = 2 /\ msg[1] = u /\ msg[2] = w
      /\ \A i \in 1 .. Len(msg) : i = 1 \/ i = 2
  BY <1>2, TwoUnits
<1>4. Whole' = Whole \o msg
  BY <1>2, <1>3, Sent DEF SendFilename
<1>5. Endings(msg, FALSE, smain' = "pause")
  BY <1>2, <1>3 DEF Endings
<1>6. PICK c \in Files : c = cur /\ Due(c)'
  BY <1>1 DEF Due
<1>7. ASSUME NEW i \in 1 .. Len(msg), Opens(msg[i])
      PROVE  /\ i # 1 /\ msg[i - 1][1] = "FILENAME" /\ listed[msg[i][2]] <= msg[i - 1][2]
             /\ Due(msg[i][2])'
  <2>1. i = 2
    BY <1>2, <1>3, <1>7 DEF Opens
  <2>2. i - 1 = 1
    BY <2>1
  <2>3. listed[c] <= src[c]
    BY <1>1, <1>6 DEF FlowInv, PhaseInv
  <2>4. msg[i][2] = c /\ msg[i - 1] = <<"FILENAME", src[c]>>
    BY <1>2, <1>3, <1>6, <2>1, <2>2
  <2> QED BY <1>6, <2>1, <2>3, <2>4
<1>8. \A f : Due(f) => Due(f)'
  BY <1>1 DEF Due
<1>9. ASSUME NEW f, Due(f)'
      PROVE  Due(f) \/ \E i \in 1 .. Len(msg) : msg[i] = <<"name", f>>
  <2>1. f = cur => \E i \in 1 .. Len(msg) : msg[i] = <<"name", f>>
    BY <1>2, <1>3
  <2>2. f # cur => Due(f)
    BY <1>1, <1>9 DEF Due
  <2> QED BY <2>1, <2>2
<1>10. \A i \in 1 .. Len(msg) : Parts(msg[i]) => i = 1 /\ Between
  BY <1>1, <1>2, <1>3 DEF Parts, Between
<1>11. ~ Between'
  BY <1>1 DEF Between
<1> QED BY <1>1, <1>3, <1>4, <1>5, <1>7, <1>8, <1>9, <1>10, <1>11, FlowSends

\* The size and the data are sent between the name and the end of a file.
LEMMA SendInsideFlow ==
  ASSUME TransferType, FlowInv, NEW msg \in Seq(Units), Whole' = Whole \o msg,
         UNCHANGED <<listed, reply, src, dst, fout, path, mtime, header, rmain, cur>>,
         smain \in {"size", "data"}, smain' \in {"data", "eof"},
         \A i \in 1 .. Len(msg) : msg[i][1] \in {"F_SIZE", "size", "DATA", "byte"}
  PROVE  FlowInv'
<1>1. Endings(msg, FALSE, smain' = "pause")
  BY DEF Endings
<1>2. \A i \in 1 .. Len(msg) : ~ Opens(msg[i]) /\ ~ Parts(msg[i])
  BY DEF Opens, Parts
<1>3. \A f : Due(f)' <=> Due(f)
  BY DEF Due
<1>4. ~ Between'
  BY DEF Between
<1> QED BY <1>1, <1>2, <1>3, <1>4, FlowSends

LEMMA SendFSizeFlow ==
  ASSUME TransferType, FlowInv, SendFSize, harmed' = 0
  PROVE  FlowInv'
<1>1. PICK x \in Nat : x = Size[cur][src[cur]]
  BY SizeIs DEF SendFSize, TransferType
<1>2. PICK u, w, msg :
        u = <<"F_SIZE", 0>> /\ w = <<"size", x>> /\ IsMessage(msg, u, w) /\ PipeWrite(msg)
  BY <1>1, Names, MessageOf DEF SendFSize
<1>3. /\ msg \in Seq(Units) /\ Len(msg) = 2 /\ msg[1] = u /\ msg[2] = w
      /\ \A i \in 1 .. Len(msg) : i = 1 \/ i = 2
  BY <1>2, TwoUnits
<1>4. Whole' = Whole \o msg
  BY <1>2, <1>3, Sent DEF SendFSize
<1>5. /\ smain = "size" /\ smain' = "data"
      /\ UNCHANGED <<listed, reply, src, dst, fout, path, mtime, header, rmain, cur>>
  BY DEF SendFSize, fileVars, rmainVars, dataVars
<1>6. \A i \in 1 .. Len(msg) : msg[i][1] \in {"F_SIZE", "size", "DATA", "byte"}
  BY <1>2, <1>3
<1> QED BY <1>3, <1>4, <1>5, <1>6, SendInsideFlow

LEMMA SendDataFlow ==
  ASSUME TransferType, FlowInv, SendData, harmed' = 0
  PROVE  FlowInv'
<1>1. PICK n \in Nat, x \in Nat :
        PipeWrite(Header("DATA", 0) \o Bytes(n, x)) /\ smain' \in {"data", "eof"}
  <2>1. PICK y \in Nat, x \in Nat : y = Size[cur][src[cur]] /\ x = src[cur]
    BY SizeIs DEF SendData, TransferType
  <2>2. PICK n \in Nat : n = Min({BlockLen, Max({0, y - off})})
    <3>1. Max({0, y - off}) \in Nat
      <4>1. PICK d \in Int : d = y - off
        BY DEF TransferType
      <4>2. Max({0, d}) = IF 0 <= d THEN d ELSE 0
        BY GreaterOf
      <4> QED BY <4>1, <4>2
    <3>2. BlockLen \in Nat
      BY CapAssumption
    <3>3. PICK z \in Nat : z = Max({0, y - off})
      BY <3>1
    <3> QED BY <3>2, <3>3, LesserOf
  <2> QED BY <2>1, <2>2 DEF SendData, Bytes
<1>2. PICK u \in Units, s \in Seq(Units), msg \in Seq(Units) :
        /\ u = <<"DATA", 0>> /\ s = Bytes(n, x) /\ msg = <<u>> \o s
        /\ msg = Header("DATA", 0) \o Bytes(n, x)
  BY MessageData
<1>3. PipeWrite(msg)
  BY <1>1, <1>2
<1>4. Whole' = Whole \o msg
  BY <1>3, Sent DEF SendData
<1>5. /\ smain = "data"
      /\ UNCHANGED <<listed, reply, src, dst, fout, path, mtime, header, rmain, cur>>
  BY DEF SendData, fileVars, rmainVars, dataVars
<1>6. ASSUME NEW i \in 1 .. Len(msg)
      PROVE  msg[i][1] \in {"F_SIZE", "size", "DATA", "byte"}
  <2>1. PICK p \in Seq(Units) : p = <<u>> /\ Len(p) = 1 /\ p[1] = u
    <3>1. <<u>> \in Seq(Units) /\ Len(<<u>>) = 1 /\ <<u>>[1] = u
      OBVIOUS
    <3> QED BY <3>1, Zenon
  <2>2. Len(s) = n /\ \A k \in 1 .. n : s[k][1] = "byte"
    BY <1>2 DEF Bytes
  <2>3. Len(p \o s) = 1 + n /\ \A k \in 1 .. 1 + n : (p \o s)[k] = IF k <= 1 THEN p[k] ELSE s[k - 1]
    BY <2>1, <2>2, ConcatProperties
  <2>4. i \in 1 .. 1 + n /\ msg[i] = IF i <= 1 THEN p[i] ELSE s[i - 1]
    BY <1>2, <2>1, <2>3
  <2>5. i <= 1 => i = 1
    BY <2>4
  <2>6. ~ (i <= 1) => i - 1 \in 1 .. n
    BY <2>4
  <2> QED BY <1>2, <2>1, <2>2, <2>4, <2>5, <2>6
<1> QED BY <1>1, <1>4, <1>5, <1>6, SendInsideFlow

LEMMA SendDataCompleteFlow ==
  ASSUME TransferType, FlowInv, SendDataComplete, harmed' = 0
  PROVE  FlowInv'
<1>1. PICK u \in Units, msg \in Seq(Units) :
        u = <<"DATA_COMPLETE", 0>> /\ msg = <<u>> /\ PipeWrite(msg)
  BY Names, MessageAlone DEF SendDataComplete
<1>2. Len(msg) = 1 /\ msg[1] = u /\ \A i \in 1 .. Len(msg) : i = 1
  BY <1>1
<1>3. Whole' = Whole \o msg
  BY <1>1, Sent DEF SendDataComplete
<1>4. /\ smain = "eof" /\ smain' = "file" /\ cur' = cur + 1 /\ cur \in Nat
      /\ UNCHANGED <<listed, reply, src, dst, fout, path, mtime, header, rmain>>
  BY DEF SendDataComplete, rmainVars, dataVars, TransferType
<1>5. Endings(msg, FALSE, smain' = "pause")
  BY <1>1, <1>2 DEF Endings
<1>6. \A i \in 1 .. Len(msg) : ~ Opens(msg[i]) /\ ~ Parts(msg[i])
  BY <1>1, <1>2 DEF Opens, Parts
<1>7. ASSUME NEW f
      PROVE  Due(f)' <=> Due(f)
  <2>1. f \in Files => (f < cur + 1 <=> f < cur \/ f = cur)
    BY <1>4 DEF Files
  <2> QED BY <1>4, <2>1 DEF Due
<1>8. Len(msg) = 1 /\ Closes(msg[1])
  BY <1>1, <1>2 DEF Closes
<1> QED BY <1>3, <1>4, <1>5, <1>6, <1>7, <1>8, FlowSends

LEMMA SendCompleteFlow ==
  ASSUME TransferType, FlowInv, SendComplete, harmed' = 0
  PROVE  FlowInv'
<1>1. PICK u \in Units, msg \in Seq(Units) :
        u = <<"COMPLETE", 0>> /\ msg = <<u>> /\ PipeWrite(msg)
  BY Names, MessageAlone DEF SendComplete
<1>2. Len(msg) = 1 /\ msg[1] = u /\ \A i \in 1 .. Len(msg) : i = 1
  BY <1>1
<1>3. Whole' = Whole \o msg
  BY <1>1, Sent DEF SendComplete
<1>4. /\ smain = "file" /\ smain' = "pause" /\ cur' = cur /\ cur = NF + 1
      /\ UNCHANGED <<listed, reply, src, dst, fout, path, mtime, header, rmain>>
  BY DEF SendComplete, ListDone, fileVars, rmainVars, dataVars
<1>5. Endings(msg, FALSE, smain' = "pause")
  BY <1>1, <1>2, <1>4 DEF Endings
<1>6. \A i \in 1 .. Len(msg) : ~ Opens(msg[i]) /\ i = 1
  BY <1>1, <1>2 DEF Opens
<1>7. \A f : Due(f)' <=> Due(f)
  BY <1>4 DEF Due
<1>8. Between
  BY <1>4 DEF Between
<1>9. \E i \in 1 .. Len(msg) : msg[i][1] = "COMPLETE"
  BY <1>1, <1>2
<1> QED BY <1>3, <1>4, <1>5, <1>6, <1>7, <1>8, <1>9, FlowSends

-----------------------------------------------------------------------------
(* What is read of the stream *)

\* Units that open no file are read, or a header.
LEMMA FlowReads ==
  ASSUME FlowInv, NEW n, Behind(Whole, n, Whole'),
         UNCHANGED <<src, dst, listed, reply, smain, cur, fout, mtime, path>>,
         rmain \notin {"DATA_COMPLETE", "FILENAME", "COMPLETE"},
         \A k \in 1 .. n : ~ Opens(Whole[k]),
         \A k \in 1 .. n : Whole[k][1] = "COMPLETE" => rmain' = "COMPLETE",
         rmain' \in {"FILENAME", "COMPLETE"} => n = 1 /\ Whole[1][1] = rmain',
         Whole[n][1] = "FILENAME" => rmain' = "FILENAME" /\ header'[2] = Whole[n][2],
         rmain' = "DATA_COMPLETE" \/ \A k \in 1 .. n : ~ Closes(Whole[k])
  PROVE  FlowInv'
<1>1. PICK a \in Nat, b \in Nat :
        a = Len(Whole) /\ b = Len(Whole') /\ a = n + b /\ n \in Nat /\ n # 0
  BY LenProperties DEF Behind
<1>2. \A i \in 1 .. b : n + i \in 1 .. a /\ Whole'[i] = Whole[n + i]
  BY <1>1 DEF Behind
<1>3. \A i \in 1 .. a : i \in 1 .. n \/ \E k \in 1 .. b : i = n + k
  <2> SUFFICES ASSUME NEW i \in 1 .. a, i > n PROVE \E k \in 1 .. b : i = n + k
    BY <1>1
  <2>1. i - n \in 1 .. b /\ i = n + (i - n)
    BY <1>1
  <2> QED BY <2>1
<1>4. smain # "list" /\ Len(Whole) # 0
  <2>1. Len(Whole) # 0
    BY <1>1
  <2> QED BY <2>1, EmptySeq DEF FlowInv, PhaseInv
<1>5. \A f : Due(f)' <=> Due(f)
  BY DEF Due
<1>6. Between' = Between
  BY DEF Between
<1>7. PhaseInv'
  <2>1. Endings(Whole, smain = "wait" /\ reply = NoReply, smain \in {"pause", "exit"})
    BY DEF FlowInv, PhaseInv
  <2>2. Endings(Whole', smain = "wait" /\ reply = NoReply, smain \in {"pause", "exit"})
    BY <2>1, EndingsBehind
  <2>3. rmain' = "COMPLETE" => Whole' = <<>> /\ smain \in {"pause", "exit"}
    <3> SUFFICES ASSUME rmain' = "COMPLETE" PROVE Whole' = <<>> /\ smain \in {"pause", "exit"}
      OBVIOUS
    <3>1. n = 1 /\ Whole[1][1] = "COMPLETE" /\ 1 \in 1 .. a
      BY <1>1
    <3>2. a = 1 /\ smain \in {"pause", "exit"}
      BY <1>1, <2>1, <3>1 DEF Endings
    <3>3. Len(Whole') = 0 /\ Whole' \in Seq(Units)
      BY <1>1, <3>1, <3>2 DEF Behind
    <3> QED BY <3>2, <3>3, EmptySeq
  <2>4. ASSUME smain \in {"pause", "exit"}
        PROVE  rmain' = "COMPLETE" \/ \E i \in 1 .. b : Whole'[i][1] = "COMPLETE"
    <3>1. PICK i \in 1 .. a : Whole[i][1] = "COMPLETE"
      BY <1>1, <2>4 DEF FlowInv, PhaseInv
    <3>2. CASE i \in 1 .. n
      BY <3>1, <3>2
    <3>3. CASE \E k \in 1 .. b : i = n + k
      BY <1>2, <3>1, <3>3
    <3> QED BY <1>3, <3>2, <3>3
  <2>5. \A f \in Files : listed[f] <= src[f]
    BY <1>4 DEF FlowInv, PhaseInv
  <2> QED BY <1>1, <1>4, <2>2, <2>3, <2>4, <2>5 DEF FlowInv, PhaseInv
<1>8. NamesInv'
  <2>0. PICK t : t = Whole'
    OBVIOUS
  <2>1. \A i \in 1 .. b : Opens(t[i]) => Due(t[i][2])'
    <3> SUFFICES ASSUME NEW i \in 1 .. b, Opens(t[i]) PROVE Due(t[i][2])'
      OBVIOUS
    <3>1. t[i] = Whole[n + i] /\ n + i \in 1 .. Len(Whole)
      BY <1>1, <1>2, <2>0
    <3>2. Due(t[i][2])
      BY <3>1 DEF FlowInv, NamesInv
    <3> QED BY <1>5, <3>2
  <2>2. Announced(Whole', listed, rmain', header'[2])
    <3>1. Announced(Whole, listed, rmain, header[2])
      BY DEF FlowInv, NamesInv
    <3> QED BY <3>1, AnnouncedBehind
  <2>3. Apart(Whole, fout # NoFile /\ rmain # "DATA_COMPLETE", Between)
    BY DEF FlowInv, NamesInv
  <2>4. Apart(Whole', fout # NoFile /\ rmain' # "DATA_COMPLETE", Between)
    BY <2>3, ApartBehind
  <2>5. rmain' \in {"FILENAME", "COMPLETE"} => fout = NoFile
    <3> SUFFICES ASSUME rmain' \in {"FILENAME", "COMPLETE"} PROVE fout = NoFile
      OBVIOUS
    <3>1. 1 \in 1 .. Len(Whole) + 1 /\ 1 # Len(Whole) + 1 /\ Parts(Whole[1])
      BY <1>1 DEF Parts
    <3>2. fout # NoFile /\ rmain # "DATA_COMPLETE" => \E k \in 1 .. 1 - 1 : Closes(Whole[k])
      BY <2>3, <3>1 DEF Apart
    <3>3. ~ \E k \in 1 .. 1 - 1 : Closes(Whole[k])
      OBVIOUS
    <3> QED BY <3>2, <3>3
  <2>6. fout # NoFile => Due(fout)'
    <3>1. PICK g : g = fout
      OBVIOUS
    <3>2. g # NoFile => Due(g)'
      BY <1>5, <3>1 DEF FlowInv, NamesInv
    <3> QED BY <3>1, <3>2 DEF Due
  <2> QED BY <1>1, <1>6, <2>0, <2>1, <2>2, <2>4, <2>5, <2>6 DEF FlowInv, NamesInv
<1>9. FilesReach'
  <2>1. ASSUME NEW f \in Files, Due(f)
        PROVE  Reaches(f)'
    <3>1. CASE dst[f].mtime >= listed[f] \/ fout = f
      BY <3>1 DEF Reaches
    <3>2. CASE \E i \in 1 .. a : Whole[i] = <<"name", f>>
      <4>1. PICK i \in 1 .. a : Whole[i] = <<"name", f>>
        BY <3>2
      <4>2. i \notin 1 .. n
        BY <4>1 DEF Opens
      <4>3. PICK k \in 1 .. b : Whole'[k] = <<"name", f>>
        BY <1>2, <1>3, <4>1, <4>2
      <4> QED BY <1>1, <4>3 DEF Reaches
    <3>3. Reaches(f)
      BY <2>1 DEF FlowInv, FilesReach
    <3> QED BY <1>1, <3>1, <3>2, <3>3 DEF Reaches
  <2> QED BY <1>5, <2>1 DEF FlowInv, FilesReach
<1> QED BY <1>7, <1>8, <1>9 DEF FlowInv

\* The reads of the receiving program, one by one.
LEMMA ReadHeaderFlow ==
  ASSUME TransferType, FlowInv, ReadHeader, Active'
  PROVE  FlowInv'
<1>1. PICK u \in Units :
        /\ u = Head(rpipe) /\ u[1] \in Kinds /\ u[2] \in Nat
        /\ rmain' = IF u[1] \in Types THEN u[1] ELSE "desync"
        /\ header'[2] = u[2] /\ rpipe' = Tail(rpipe)
  BY HeaderRead
<1>2. /\ rmain = "header" /\ rpipe # <<>>
      /\ UNCHANGED <<src, dst, listed, reply, smain, cur, fout, mtime, path>>
      /\ UNCHANGED <<rbuf, net, sbuf, spipe, sout>>
  BY DEF ReadHeader, fileVars, smainVars, dataVars, sendVars, netVars, recvRest
<1>3. Behind(Whole, 1, Whole') /\ Whole[1] = u
  BY <1>1, <1>2, WholeTail
<1>4. u[1] \in Types /\ rmain' = u[1]
  BY <1>1 DEF Active
<1>5. /\ ~ Opens(u)
      /\ u[1] = "COMPLETE" => rmain' = "COMPLETE"
      /\ u[1] = "FILENAME" => rmain' = "FILENAME" /\ header'[2] = u[2]
      /\ rmain' = "DATA_COMPLETE" \/ ~ Closes(u)
  BY <1>1, <1>4, Kinds_ DEF Opens, Closes
<1>6. \A k \in 1 .. 1 : Whole[k] = u
  BY <1>3
<1> QED BY <1>2, <1>3, <1>4, <1>5, <1>6, FlowReads

LEMMA RcvFSizeFlow ==
  ASSUME TransferType, FlowInv, RcvFSize
  PROVE  FlowInv'
<1>1. /\ rmain = "F_SIZE" /\ rmain' = "check" /\ rpipe # <<>> /\ Head(rpipe)[1] = "size"
      /\ UNCHANGED <<src, dst, listed, reply, smain, cur, fout, mtime, path>>
      /\ UNCHANGED <<rbuf, net, sbuf, spipe, sout>> /\ rpipe' = Tail(rpipe)
  BY Kinds_ DEF RcvFSize, PayloadRead, fileVars, smainVars, sendVars, netVars, recvRest
<1>2. Behind(Whole, 1, Whole') /\ Whole[1] = Head(rpipe)
  BY <1>1, WholeTail
<1>3. \A k \in 1 .. 1 : Whole[k][1] = "size"
  BY <1>1, <1>2
<1> QED BY <1>1, <1>2, <1>3, FlowReads DEF Opens, Closes

LEMMA ReadBlockFlow ==
  ASSUME TransferType, FlowInv, ReadBlock, Active'
  PROVE  FlowInv'
<1>1. PICK part \in Seq(Units), rest \in Seq(Units), k \in Nat :
        /\ part \o rest = rpipe /\ rpipe' = rest /\ k = Len(part) /\ k # 0
        /\ ~(\A i \in 1 .. k : part[i][1] = "byte") => rmain' = "desync"
        /\ (\A i \in 1 .. k : part[i][1] = "byte") => rmain' = "block"
  BY BlockCut
<1>2. (\A i \in 1 .. k : part[i][1] = "byte") /\ rmain' = "block"
  BY <1>1 DEF Active
<1>3. /\ rmain = "block"
      /\ UNCHANGED <<src, dst, listed, reply, smain, cur, fout, mtime, path>>
      /\ UNCHANGED <<rbuf, net, sbuf, spipe, sout>>
  BY DEF ReadBlock, fileVars, smainVars, sendVars, netVars, recvRest
<1>4. Behind(Whole, k, Whole') /\ \A i \in 1 .. k : Whole[i] = part[i]
  BY <1>1, <1>3, WholeRead
<1>5. \A i \in 1 .. k : Whole[i][1] = "byte"
  BY <1>2, <1>4
<1>6. k \in 1 .. k
  BY <1>1
<1> QED BY <1>2, <1>3, <1>4, <1>5, <1>6, FlowReads DEF Opens, Closes

\* A name is read: its file is open, and none was before.
LEMMA RcvFilenameFlow ==
  ASSUME TransferType, FlowInv, RcvFilename
  PROVE  FlowInv'
<1>1. /\ rmain = "FILENAME" /\ rmain' = "check" /\ rpipe # <<>> /\ Head(rpipe)[1] = "name"
      /\ UNCHANGED <<src, listed, reply, smain, cur>>
      /\ UNCHANGED <<rbuf, net, sbuf, spipe, sout>> /\ rpipe' = Tail(rpipe)
      /\ header' = header
  BY Kinds_ DEF RcvFilename, PayloadRead, smainVars, sendVars, netVars, recvRest
<1>2. PICK u, g : u = Head(rpipe) /\ g = u[2] /\ u[1] = "name" /\ u \in Units
  BY <1>1, StreamTypes, HeadTailProperties
<1>3. /\ mtime' = header[2] /\ path' = g /\ fout' = g
      /\ dst' = [dst EXCEPT ![g].mtime = OpenedTime(g)]
  BY <1>2 DEF RcvFilename
<1>4. Behind(Whole, 1, Whole') /\ Whole[1] = u
  BY <1>1, <1>2, WholeTail
<1>5. PICK a \in Nat, b \in Nat, t \in Seq(Units) :
        /\ t = Whole' /\ a = Len(Whole) /\ b = Len(t) /\ a = 1 + b
        /\ \A i \in 1 .. b : t[i] = Whole[1 + i]
  BY <1>4, LenProperties DEF Behind
<1>6. fout = NoFile /\ Due(g) /\ g \in Files /\ g # NoFile /\ listed[g] <= header[2]
  <2>1. 1 \in 1 .. Len(Whole) /\ Opens(Whole[1]) /\ Whole[1][2] = g
    BY <1>2, <1>4, <1>5 DEF Opens
  <2>2. Due(g) /\ fout = NoFile
    BY <1>1, <2>1 DEF FlowInv, NamesInv
  <2>3. listed[g] <= header[2]
    BY <2>1 DEF FlowInv, NamesInv, Announced
  <2> QED BY <2>2, <2>3 DEF Due, Files, NoFile
<1>7. \A f : Due(f)' <=> Due(f)
  BY <1>1 DEF Due
<1>8. Between' = Between
  BY <1>1 DEF Between
<1>9. smain # "list" /\ Len(Whole) # 0
  <2>1. Len(Whole) # 0
    BY <1>5
  <2> QED BY <2>1, EmptySeq DEF FlowInv, PhaseInv
<1>10. PhaseInv'
  <2>1. Endings(Whole, smain = "wait" /\ reply = NoReply, smain \in {"pause", "exit"})
    BY DEF FlowInv, PhaseInv
  <2>2. Endings(Whole', smain = "wait" /\ reply = NoReply, smain \in {"pause", "exit"})
    BY <1>4, <2>1, EndingsBehind
  <2>3. ASSUME smain \in {"pause", "exit"}
        PROVE  \E i \in 1 .. b : t[i][1] = "COMPLETE"
    <3>1. PICK i \in 1 .. a : Whole[i][1] = "COMPLETE"
      BY <1>1, <1>5, <2>3 DEF FlowInv, PhaseInv
    <3>2. i # 1
      BY <1>2, <1>4, <3>1
    <3>3. i - 1 \in 1 .. b /\ 1 + (i - 1) = i
      BY <1>5, <3>2
    <3> QED BY <1>5, <3>1, <3>3
  <2>4. \A f \in Files : listed[f] <= src[f]
    BY <1>9 DEF FlowInv, PhaseInv
  <2> QED BY <1>1, <1>5, <1>9, <2>2, <2>3, <2>4 DEF FlowInv, PhaseInv
<1>11. NamesInv'
  <2>1. \A i \in 1 .. b : Opens(t[i]) => Due(t[i][2])'
    <3> SUFFICES ASSUME NEW i \in 1 .. b, Opens(t[i]) PROVE Due(t[i][2])'
      OBVIOUS
    <3>1. t[i] = Whole[1 + i] /\ 1 + i \in 1 .. Len(Whole)
      BY <1>5
    <3>2. Due(t[i][2])
      BY <3>1 DEF FlowInv, NamesInv
    <3> QED BY <1>7, <3>2
  <2>2. Announced(Whole', listed, "check", header[2])
    <3>1. Announced(Whole, listed, rmain, header[2])
      BY DEF FlowInv, NamesInv
    <3>2. Whole[1][1] # "FILENAME"
      BY <1>2, <1>4
    <3> QED BY <1>4, <3>1, <3>2, AnnouncedBehind
  <2>3. Apart(Whole, fout # NoFile /\ rmain # "DATA_COMPLETE", Between)
    BY DEF FlowInv, NamesInv
  <2>4. Apart(Whole', fout' # NoFile /\ rmain' # "DATA_COMPLETE", Between)
    <3>1. Opens(Whole[1])
      BY <1>2, <1>4 DEF Opens
    <3> QED BY <1>4, <2>3, <3>1, ApartBehind
  <2>5. Due(g)'
    BY <1>6, <1>7
  <2> QED BY <1>1, <1>3, <1>5, <1>6, <1>8, <2>1, <2>2, <2>4, <2>5 DEF NamesInv, Due
<1>12. FilesReach'
  <2>1. \A f \in Files : f # g => dst'[f].mtime = dst[f].mtime
    BY <1>3 DEF TransferType
  <2>2. ASSUME NEW f \in Files, reply # NoReply, listed[f] = reply[f]
        PROVE  dst'[f].mtime >= listed[f]
    <3>1. f # g
      BY <1>6, <2>2 DEF Due
    <3> QED BY <2>1, <2>2, <3>1 DEF FlowInv, FilesReach
  <2>3. ASSUME NEW f \in Files, Due(f)
        PROVE  Reaches(f)'
    <3>1. CASE f = g
      BY <1>3, <3>1 DEF Reaches
    <3>2. CASE f # g
      <4>1. Reaches(f) /\ fout # f
        BY <1>6, <2>3 DEF FlowInv, FilesReach, Files, NoFile
      <4>2. CASE dst[f].mtime >= listed[f]
        BY <1>1, <2>1, <3>2, <4>2 DEF Reaches
      <4>3. CASE \E i \in 1 .. a : Whole[i] = <<"name", f>>
        <5>1. PICK i \in 1 .. a : Whole[i] = <<"name", f>>
          BY <4>3
        <5>2. i # 1
          BY <1>2, <1>4, <3>2, <5>1
        <5>3. i - 1 \in 1 .. b /\ 1 + (i - 1) = i
          BY <1>5, <5>2
        <5>4. t[i - 1] = <<"name", f>>
          BY <1>5, <5>1, <5>3
        <5> QED BY <1>5, <5>3, <5>4 DEF Reaches
      <4> QED BY <1>5, <4>1, <4>2, <4>3 DEF Reaches
    <3> QED BY <3>1, <3>2
  <2> QED BY <1>1, <1>7, <2>2, <2>3 DEF FlowInv, FilesReach
<1> QED BY <1>10, <1>11, <1>12 DEF FlowInv

\* The list is read and answered: it was all there was.
LEMMA RcvFilelistFlow ==
  ASSUME TransferType, FlowInv, RcvFilelist, smain = "wait" => conn = "up",
         \A f \in Files : listed[f] \in Nat
  PROVE  FlowInv'
<1>1. /\ rmain = "FILELIST" /\ rmain' = "check" /\ rpipe # <<>> /\ Head(rpipe)[1] = "list"
      /\ UNCHANGED <<src, dst, listed, smain, cur, header, fout, mtime, path>>
      /\ UNCHANGED <<rbuf, net, sbuf, spipe, sout>> /\ rpipe' = Tail(rpipe)
  BY Kinds_ DEF RcvFilelist, PayloadRead, fileVars, smainVars, sendVars, netVars, recvRest,
                dataVars
<1>2. Behind(Whole, 1, Whole') /\ Whole[1] = Head(rpipe)
  BY <1>1, WholeTail
<1>3. PICK a \in Nat, b \in Nat :
        a = Len(Whole) /\ b = Len(Whole') /\ a = 1 + b /\ Whole' \in Seq(Units)
  BY <1>2, LenProperties DEF Behind
<1>4. a = 1 /\ smain = "wait" /\ cur = 1
  <2>1. Endings(Whole, smain = "wait" /\ reply = NoReply, smain \in {"pause", "exit"})
    BY DEF FlowInv, PhaseInv
  <2>2. 1 \in 1 .. Len(Whole) /\ Whole[1][1] = "list"
    BY <1>1, <1>2, <1>3
  <2>3. 1 = Len(Whole) /\ smain = "wait"
    BY <2>1, <2>2 DEF Endings
  <2> QED BY <1>3, <2>3 DEF FlowInv, PhaseInv
<1>r. reply' = Found
  BY <1>4 DEF RcvFilelist, Answer
<1>5. Whole' = <<>> /\ \A i \in 1 .. Len(Whole') : FALSE
  <2>1. Len(Whole') = 0
    BY <1>3, <1>4
  <2> QED BY <1>3, <2>1, EmptySeq
<1>6. \A f : ~ Due(f) /\ ~ Due(f)'
  BY <1>1, <1>r, <1>4 DEF Due, Files
<1>7. fout = NoFile
  BY <1>6 DEF FlowInv, NamesInv
<1>8. PhaseInv'
  <2>1. Endings(Whole', smain' = "wait" /\ reply' = NoReply, smain' \in {"pause", "exit"})
    BY <1>5 DEF Endings
  <2>2. \A f \in Files : listed[f] <= src[f]
    BY <1>4 DEF FlowInv, PhaseInv
  <2> QED BY <1>1, <1>r, <1>4, <2>1, <2>2 DEF PhaseInv
<1>9. NamesInv'
  <2>1. Announced(Whole', listed', rmain', header'[2])
    BY <1>5 DEF Announced
  <2>2. \A x, y : Apart(<<>>, FALSE, y)
    BY DEF Apart
  <2>3. (fout' # NoFile /\ rmain' # "DATA_COMPLETE") = FALSE
    BY <1>1, <1>r, <1>7
  <2>4. Apart(Whole', fout' # NoFile /\ rmain' # "DATA_COMPLETE", Between')
    BY <1>5, <2>2, <2>3
  <2> QED BY <1>1, <1>r, <1>5, <1>7, <2>1, <2>4 DEF NamesInv
<1>10. FilesReach'
  <2>1. ASSUME NEW f \in Files, listed[f] = Found[f]
        PROVE  dst[f].mtime >= listed[f]
    <3>1. dst[f].mtime = listed[f] /\ listed[f] \in Nat
      BY <2>1 DEF Found
    <3> QED BY <3>1
  <2> QED BY <1>1, <1>r, <1>4, <1>6, <2>1 DEF FilesReach
<1> QED BY <1>8, <1>9, <1>10 DEF FlowInv

\* A file is closed, and gets its time.
LEMMA RcvDataCompleteFlow ==
  ASSUME TransferType, FlowInv, RcvDataComplete, Active'
  PROVE  FlowInv'
<1>1. /\ rmain = "DATA_COMPLETE" /\ rmain' = "check" /\ fout # NoFile /\ fout' = NoFile
      /\ dst' = [[dst EXCEPT ![fout].data = Truncate(@, rsize)] EXCEPT ![path].mtime = mtime]
      /\ UNCHANGED <<src, listed, reply, smain, cur, mtime, path, header>>
      /\ UNCHANGED <<rpipe, rbuf, net, sbuf, spipe, sout>>
  BY DEF RcvDataComplete, Active, smainVars, sendVars, netVars, recvVars
<1>2. PICK g : g = fout /\ g \in Files /\ path = g /\ Due(g) /\ listed[g] <= mtime
  BY <1>1 DEF FlowInv, NamesInv, Due
<1>3. /\ dst'[g].mtime = mtime
      /\ \A f \in Files : f # g => dst'[f].mtime = dst[f].mtime
  <2>1. PICK d : d = [dst EXCEPT ![g].data = Truncate(@, rsize)]
    OBVIOUS
  <2>2. d \in [Files -> [data : Seq(Int), mtime : Int]]
    <3>1. dst \in [Files -> [data : Seq(Int), mtime : Int]] /\ rsize \in Nat
      BY DEF TransferType
    <3>2. PICK x \in Seq(Int) : x = dst[g].data
      BY <1>2, <3>1
    <3>3. PICK y \in Seq(Int) : y = Truncate(x, rsize)
      BY <3>1, TruncateIs
    <3>4. d = [dst EXCEPT ![g].data = y]
      BY <2>1, <3>2, <3>3
    <3> QED BY <1>2, <3>1, <3>4
  <2>3. \A f \in Files : f # g => d[f] = dst[f]
    BY <2>1 DEF TransferType
  <2>4. dst' = [d EXCEPT ![g].mtime = mtime]
    BY <1>1, <1>2, <2>1
  <2> QED BY <1>2, <2>2, <2>3, <2>4
<1>4. Whole' = Whole
  BY <1>1 DEF Whole, Arriving, Leaving
<1>5. \A f : Due(f)' <=> Due(f)
  BY <1>1 DEF Due
<1>6. Between' = Between
  BY <1>1 DEF Between
<1>7. PhaseInv'
  BY <1>1, <1>4 DEF FlowInv, PhaseInv
<1>8. NamesInv'
  <2>1. Announced(Whole, listed, rmain', header[2])
    <3>1. Announced(Whole, listed, rmain, header[2])
      BY DEF FlowInv, NamesInv
    <3> QED BY <1>1, <3>1 DEF Announced
  <2>2. (fout' # NoFile /\ rmain' # "DATA_COMPLETE") = (fout # NoFile /\ rmain # "DATA_COMPLETE")
    BY <1>1
  <2> QED BY <1>1, <1>4, <1>5, <1>6, <2>1, <2>2 DEF FlowInv, NamesInv
<1>9. FilesReach'
  <2>1. ASSUME NEW f \in Files, reply # NoReply, listed[f] = reply[f]
        PROVE  dst'[f].mtime >= listed[f]
    <3>1. f # g
      BY <1>2, <2>1 DEF Due
    <3> QED BY <1>3, <2>1, <3>1 DEF FlowInv, FilesReach
  <2>2. ASSUME NEW f \in Files, Due(f)
        PROVE  Reaches(f)'
    <3>1. CASE f = g
      BY <1>1, <1>2, <1>3, <3>1 DEF Reaches
    <3>2. CASE f # g
      <4>1. Reaches(f)
        BY <2>2 DEF FlowInv, FilesReach
      <4> QED BY <1>1, <1>2, <1>3, <1>4, <3>2, <4>1 DEF Reaches
    <3> QED BY <3>1, <3>2
  <2> QED BY <1>1, <1>5, <2>1, <2>2 DEF FlowInv, FilesReach
<1> QED BY <1>7, <1>8, <1>9 DEF FlowInv

\* The receiving program goes on, and writes at most to the file that is open.
LEMMA QuietFlow ==
  ASSUME TransferType, FlowInv, NoHeader \/ RcvCheck \/ RcvData \/ WriteBlock, Active'
  PROVE  FlowInv'
<1>1. /\ UNCHANGED <<smain, cur, listed, reply, src, fout, path, mtime, header>>
      /\ UNCHANGED <<rpipe, rbuf, net, sbuf, spipe, sout>>
  BY DEF NoHeader, RcvCheck, RcvData, WriteBlock, fileVars, smainVars, sendVars, sendRest,
         netVars, recvVars, dataVars
<1>2. Whole' = Whole
  BY <1>1 DEF Whole, Arriving, Leaving
<1>3. \/ rmain' = rmain
      \/ rmain \in {"header", "check"} /\ rmain' \in {"header", "check"}
      \/ rmain \in {"DATA", "block"} /\ rmain' \in {"block", "check"}
  BY DEF NoHeader, RcvCheck, RcvData, WriteBlock, Active
<1>4. \A f \in Files : f # fout => dst'[f].mtime = dst[f].mtime
  <2>1. CASE WriteBlock
    <3>1. dst' = dst \/ \E x : dst' = [dst EXCEPT ![fout] = x]
      BY <2>1 DEF WriteBlock
    <3> QED BY <3>1 DEF TransferType
  <2>2. CASE ~ WriteBlock
    BY <2>2 DEF NoHeader, RcvCheck, RcvData, fileVars
  <2> QED BY <2>1, <2>2
<1> QED BY <1>1, <1>2, <1>3, <1>4, FlowSame

LEMMA EditFlow ==
  ASSUME TransferType, FlowInv, NEW g \in Files, Edit(g), \A f \in Files : listed[f] \in Nat
  PROVE  FlowInv'
<1>1. /\ UNCHANGED <<dst, smain, cur, listed, reply, fout, path, mtime, header, rmain>>
      /\ UNCHANGED <<rpipe, rbuf, net, sbuf, spipe, sout>>
  BY DEF Edit, smainVars, sendRest, netVars, recvVars, rmainVars, dataVars
<1>2. Whole' = Whole
  BY <1>1 DEF Whole, Arriving, Leaving
<1>3. \A f : Due(f)' <=> Due(f)
  BY <1>1 DEF Due
<1>4. Between' = Between
  BY <1>1 DEF Between
<1>5. \A f \in Files : src[f] <= src'[f] /\ src[f] \in Nat /\ src'[f] \in Nat
  BY DEF Edit, TransferType
<1>6. PhaseInv'
  <2>1. ASSUME smain # "list", NEW f \in Files
        PROVE  listed[f] <= src'[f]
    <3>1. listed[f] <= src[f]
      BY <2>1 DEF FlowInv, PhaseInv
    <3> QED BY <1>5, <3>1
  <2> QED BY <1>1, <1>2, <2>1 DEF FlowInv, PhaseInv
<1>7. NamesInv'
  BY <1>1, <1>2, <1>3, <1>4 DEF FlowInv, NamesInv
<1>8. FilesReach'
  <2>1. \A f : Reaches(f)' <=> Reaches(f)
    BY <1>1, <1>2 DEF Reaches
  <2> QED BY <1>1, <1>3, <2>1 DEF FlowInv, FilesReach
<1> QED BY <1>6, <1>7, <1>8 DEF FlowInv

-----------------------------------------------------------------------------
(* How a connection is closed *)

\* The sending program leaves when it has written all, its thread when the program has left,
\* and closes the connection; what the thread leaves in the pipe harms the stream.  The
\* receiving side closes the connection when the receiving program has ended; before that its
\* exit flag is raised only when all that was sent has been received.
ClosingInv ==
  /\ conn = "shut" => rmain \in {"done", "failed"}
  /\ rexit /\ rmain \notin {"done", "failed"} =>
       conn # "up" /\ rcvpc = "gone" /\ net = <<>> /\ rbuf = <<>>
  /\ sndpc = "gone" => sbuf = <<>>
  /\ conn \in {"up", "closed"} =>
       /\ sexit => smain = "exit"
       /\ smain = "exit" => sout = <<>>
       /\ sndpc = "gone" => smain = "exit" /\ (harmed = 0 => spipe = <<>>)
  /\ conn = "closed" => sndpc = "gone"

\* What the two programs and the threads between them do to it.
LEMMA SenderCloses ==
  ASSUME TransferType, ClosingInv, SenderMain
  PROVE  ClosingInv'
<1>1. UNCHANGED <<conn, net, rbuf, rcvpc, rmain, rexit, sndpc, sbuf>>
  BY DEF SenderMain, WriteOn, SendFilelist, GotFilelist, SkipFile, SendFilename, SendFSize,
         SendData, SendDataComplete, SendComplete, SenderExit, sendVars, sendRest, netVars,
         recvVars, rmainVars
<1>2. CASE SenderExit
  BY <1>1, <1>2 DEF SenderExit, ClosingInv
<1>3. CASE WriteOn
  BY <1>1, <1>3 DEF WriteOn, ClosingInv, smainVars
<1>4. CASE ~ SenderExit /\ ~ WriteOn
  <2>1. smain # "exit" /\ smain' # "exit" /\ sexit' = sexit
    BY <1>4 DEF SenderMain, SendFilelist, GotFilelist, SkipFile, SendFilename, SendFSize,
                SendData, SendDataComplete, SendComplete, sendVars, sendRest
  <2> QED BY <1>1, <2>1 DEF ClosingInv
<1> QED BY <1>2, <1>3, <1>4

LEMMA ThreadsClose ==
  ASSUME TransferType, ThreadInv, ClosingInv, Threads
  PROVE  ClosingInv'
<1>1. UNCHANGED <<smain, rmain>>
  BY DEF Threads, SndRead, SndSend, SndCheck, SndClose, SenderSeesLoss, RcvRecv, RcvWrite,
         RcvDrop, RcvLost, RcvClose, smainVars, rmainVars
<1>2. CASE SndRead \/ SndSend
  BY <1>1, <1>2 DEF SndRead, SndSend, ClosingInv, netVars, recvVars
<1>3. CASE SndCheck
  <2>1. UNCHANGED <<conn, net, rexit, rbuf, rcvpc, sexit, sout, spipe, sbuf>>
    BY <1>3 DEF SndCheck, netVars, recvVars
  <2>2. sndpc = "send" /\ sbuf = <<>> /\ sndpc' = IF sexit THEN "gone" ELSE "read"
    BY <1>3 DEF SndCheck
  <2>3. harmed' = 0 => harmed = 0 /\ (sexit => spipe = <<>>)
    BY <1>3, HarmCounts DEF SndCheck
  <2> QED BY <1>1, <2>1, <2>2, <2>3 DEF ClosingInv
<1>4. CASE SndClose \/ SenderSeesLoss
  BY <1>1, <1>4 DEF SndClose, SenderSeesLoss, ClosingInv, sendVars, netVars, recvVars
<1>5. CASE RcvRecv \/ RcvWrite \/ RcvDrop
  <2>1. UNCHANGED <<conn, rexit, sexit, sndpc, sbuf, spipe, sout>> /\ rcvpc # "gone"
    BY <1>5 DEF RcvRecv, RcvWrite, RcvDrop, sendVars, sendRest, netVars
  <2>2. harmed' = 0 => harmed = 0
    BY <1>5, HarmCounts DEF RcvRecv, RcvWrite, RcvDrop, sendVars
  <2> QED BY <1>1, <2>1, <2>2 DEF ClosingInv
<1>6. CASE RcvLost \/ RcvClose
  BY <1>1, <1>6 DEF RcvLost, RcvClose, ThreadInv, ClosingInv, sendVars, netVars, recvVars
<1> QED BY <1>2, <1>3, <1>4, <1>5, <1>6 DEF Threads

LEMMA ReceiverCloses ==
  ASSUME TransferType, ClosingInv, ReceiverMain
  PROVE  ClosingInv'
<1>1. UNCHANGED <<smain, sout, spipe, sexit, sndpc, sbuf, conn, net, rbuf, rcvpc>>
  BY DEF ReceiverMain, ReadHeader, CutHeader, NoHeader, RcvCheck, RcvFilelist, RcvFilename,
         RcvFSize, RcvData, ReadBlock, WriteBlock, RcvDataComplete, RcvComplete, Desync,
         ReceiverExit, smainVars, sendVars, sendRest, netVars, recvVars, recvRest
<1>2. harmed' = 0 => harmed = 0
  <2>1. harmed' = harmed \/ Harm
    BY DEF ReceiverMain, ReadHeader, CutHeader, NoHeader, RcvCheck, RcvFilelist, RcvFilename,
           RcvFSize, RcvData, ReadBlock, WriteBlock, RcvDataComplete, RcvComplete, Desync,
           ReceiverExit, sendVars
  <2> QED BY <2>1, HarmCounts
<1>3. CASE ReceiverExit
  BY <1>1, <1>2, <1>3 DEF ReceiverExit, ClosingInv, rmainVars
<1>4. CASE ~ ReceiverExit
  <2>1. rmain \notin {"done", "failed"} /\ rexit' = rexit
    BY <1>4, Kinds_ DEF ReceiverMain, ReadHeader, CutHeader, NoHeader, RcvCheck, RcvFilelist,
         RcvFilename, RcvFSize, RcvData, ReadBlock, WriteBlock, RcvDataComplete, RcvComplete,
         Desync, recvVars, recvRest, PayloadRead
  <2> QED BY <1>1, <1>2, <2>1 DEF ClosingInv
<1> QED BY <1>3, <1>4

\* The same with what the environment does.
LEMMA NextCloses ==
  ASSUME TransferType, ThreadInv, ClosingInv, [Next]_vars
  PROVE  ClosingInv'
<1>1. CASE \E f \in Files : Edit(f)
  <2>1. harmed' = 0 => harmed = 0
    BY <1>1, HarmCounts DEF Edit
  <2> QED BY <1>1, <2>1 DEF Edit, ClosingInv, smainVars, sendRest, netVars, recvVars, rmainVars
<1>2. CASE Lose
  BY <1>2 DEF Lose, ClosingInv, smainVars, sendVars, recvVars, rmainVars
<1>3. CASE Rerun
  BY <1>3 DEF Rerun, ClosingInv
<1>4. CASE UNCHANGED vars
  BY <1>4 DEF vars, ClosingInv, smainVars, sendVars, netVars, recvVars, rmainVars
<1> QED BY <1>1, <1>2, <1>3, <1>4, SenderCloses, ThreadsClose, ReceiverCloses DEF Next

-----------------------------------------------------------------------------
(* Everything is delivered *)

DeliverInv ==
  /\ listed \in [Files -> Nat] /\ conn \in {"up", "closed", "lost", "shut"}
  /\ ClosingInv
  /\ Intact /\ Active => FlowInv
  /\ AllDelivered

\* Only another run undoes a loss, harm to the stream or the end of the receiving program.
LEMMA NothingUndone ==
  ASSUME TransferType, [Next]_vars, ~ Rerun
  PROVE  /\ harmed' = 0 => harmed = 0
         /\ conn' # "lost" => conn # "lost"
         /\ conn' \in {"up", "closed"} => conn \in {"up", "closed"}
         /\ Active' => Active
<1>1. harmed' = harmed \/ Harm => (harmed' = 0 => harmed = 0)
  BY HarmCounts
<1>2. CASE SenderMain
  <2>1. (harmed' = harmed \/ Harm) /\ conn' = conn /\ rmain' = rmain
    BY <1>2 DEF SenderMain, WriteOn, SendFilelist, GotFilelist, SkipFile, SendFilename, SendFSize,
                SendData, SendDataComplete, SendComplete, SenderExit, PipeWrite, sendVars, netVars,
                rmainVars
  <2> QED BY <1>1, <2>1 DEF Active
<1>3. CASE Threads
  <2>1. (harmed' = harmed \/ Harm) /\ rmain' = rmain
    BY <1>3 DEF Threads, SndRead, SndSend, SndCheck, SndClose, SenderSeesLoss, RcvRecv, RcvWrite,
                RcvDrop, RcvLost, RcvClose, sendVars, rmainVars
  <2>2. conn' = conn \/ conn = "up"
    BY <1>3 DEF Threads, SndRead, SndSend, SndCheck, SndClose, SenderSeesLoss, RcvRecv, RcvWrite,
                RcvDrop, RcvLost, RcvClose, netVars
  <2> QED BY <1>1, <2>1, <2>2 DEF Active
<1>4. CASE ReceiverMain
  <2>1. (harmed' = harmed \/ Harm) /\ conn' = conn /\ (rmain' = rmain \/ Active)
    BY <1>4, Kinds_ DEF ReceiverMain, ReadHeader, CutHeader, NoHeader, RcvCheck, RcvFilelist,
         RcvFilename, RcvFSize, RcvData, ReadBlock, WriteBlock, RcvDataComplete, RcvComplete,
         Desync, ReceiverExit, sendVars, netVars, rmainVars, PayloadRead, Active
  <2> QED BY <1>1, <2>1 DEF Active
<1>5. CASE (\E f \in Files : Edit(f)) \/ Lose \/ UNCHANGED vars
  <2>1. (harmed' = harmed \/ Harm) /\ rmain' = rmain /\ (conn' = conn \/ conn = "up")
    BY <1>5 DEF Edit, Lose, vars, sendVars, netVars, rmainVars
  <2> QED BY <1>1, <2>1 DEF Active
<1> QED BY <1>2, <1>3, <1>4, <1>5 DEF Next

\* Every step but another run keeps what the whole stream says.
LEMMA NextFlow ==
  ASSUME TransferType, ThreadInv, DeliverInv, [Next]_vars, ~ Rerun,
         Intact', Active'
  PROVE  FlowInv'
<1>1. harmed' = 0 /\ conn' \in {"up", "closed"}
  BY DEF Intact
<1>2. FlowInv /\ Active /\ conn \in {"up", "closed"} /\ ClosingInv
  <2>1. Intact /\ Active
    BY <1>1, NothingUndone DEF Intact
  <2> QED BY <2>1 DEF DeliverInv, Intact
<1>3. \A f \in Files : listed[f] \in Nat
  BY DEF DeliverInv
<1>4. ASSUME Whole' = Whole, UNCHANGED <<smain, cur, listed, reply, src, dst, rmainVars>>
      PROVE  FlowInv'
  <2>1. UNCHANGED <<fout, path, mtime, header, rmain>>
    BY <1>4 DEF rmainVars, dataVars
  <2> QED BY <1>2, <1>4, <2>1, FlowSame
<1>5. CASE SenderMain
  <2>1. CASE WriteOn
    <3>1. UNCHANGED <<smain, cur, listed, reply, src, dst, rmainVars>>
      BY <2>1 DEF WriteOn, smainVars, fileVars
    <3> QED BY <1>4, <2>1, <3>1, WholeKept
  <2>2. CASE GotFilelist \/ SkipFile \/ SenderExit
    <3>1. Whole' = Whole
      BY <2>2 DEF GotFilelist, SkipFile, SenderExit, sendVars, netVars, recvVars,
                  Whole, Arriving, Leaving
    <3> QED BY <1>2, <2>2, <3>1, FlowTurns
  <2> QED BY <1>1, <1>2, <1>5, <2>1, <2>2, SendFilelistFlow, SendFilenameFlow, SendFSizeFlow,
             SendDataFlow, SendDataCompleteFlow, SendCompleteFlow DEF SenderMain
<1>6. CASE Threads
  <2>1. UNCHANGED <<smain, cur, listed, reply, src, dst, rmainVars>>
    BY <1>6 DEF Threads, SndRead, SndSend, SndCheck, SndClose, SenderSeesLoss, RcvRecv, RcvWrite,
                RcvDrop, RcvLost, RcvClose, smainVars, fileVars
  <2>2. CASE SndRead \/ RcvRecv \/ RcvWrite \/ (SndSend /\ conn = "up")
    BY <1>4, <2>1, <2>2, WholeKept
  <2>3. CASE SndSend /\ conn # "up"
    BY <1>2, <2>3 DEF SndSend, ClosingInv
  <2>4. CASE SndCheck \/ SndClose \/ SenderSeesLoss \/ RcvLost
    <3>1. Whole' = Whole
      BY <2>4 DEF SndCheck, SndClose, SenderSeesLoss, RcvLost, sendVars, netVars, recvVars,
                  Whole, Arriving, Leaving
    <3> QED BY <1>4, <2>1, <3>1
  <2>5. CASE RcvDrop
    <3>1. harmed \in Nat /\ Faults \in Nat
      BY CountAssumption DEF TransferType
    <3> QED BY <1>1, <2>5, <3>1, LesserOf DEF RcvDrop, Harm
  <2>6. CASE RcvClose
    BY <1>1, <2>6 DEF RcvClose
  <2> QED BY <1>6, <2>2, <2>3, <2>4, <2>5, <2>6 DEF Threads
<1>7. CASE ReceiverMain
  <2>1. CASE RcvFilelist
    <3>1. smain = "wait" => conn = "up"
      BY <1>2 DEF ClosingInv
    <3> QED BY <1>2, <1>3, <2>1, <3>1, RcvFilelistFlow
  <2>2. CASE RcvComplete \/ Desync \/ ReceiverExit
    BY <2>2 DEF RcvComplete, Desync, ReceiverExit, Active, rmainVars
  <2>3. CASE CutHeader
    BY <1>1, <2>3, HarmCounts DEF CutHeader
  <2> QED BY <1>2, <1>7, <2>1, <2>2, <2>3, ReadHeaderFlow, QuietFlow, RcvFilenameFlow, RcvFSizeFlow,
             ReadBlockFlow, RcvDataCompleteFlow DEF ReceiverMain
<1>8. CASE \E f \in Files : Edit(f)
  BY <1>2, <1>3, <1>8, EditFlow
<1>9. CASE Lose
  BY <1>1, <1>9 DEF Lose
<1>10. CASE UNCHANGED vars
  <2>1. Whole' = Whole
    BY <1>10 DEF vars, sendVars, netVars, recvVars, Whole, Arriving, Leaving
  <2> QED BY <1>4, <1>10, <2>1 DEF vars, smainVars, fileVars
<1> QED BY <1>5, <1>6, <1>7, <1>8, <1>9, <1>10 DEF Next

\* When the end of the transfer has been read, every file is there.
LEMMA CompleteDelivers ==
  ASSUME TransferType, FlowInv, rmain = "COMPLETE"
  PROVE  smain # "list" /\ \A f \in Files : dst[f].mtime >= listed[f]
<1>1. Whole = <<>> /\ smain \in {"pause", "exit"} /\ cur = NF + 1 /\ fout = NoFile
      /\ reply # NoReply
  BY DEF FlowInv, PhaseInv, NamesInv, FilesReach
<1>2. ASSUME NEW f \in Files
      PROVE  dst[f].mtime >= listed[f]
  <2>1. CASE listed[f] = reply[f]
    BY <1>1, <2>1 DEF FlowInv, FilesReach
  <2>2. CASE listed[f] # reply[f]
    <3>1. Due(f)
      BY <1>1, <2>2, CountAssumption DEF Due, Files
    <3>2. Reaches(f)
      BY <3>1 DEF FlowInv, FilesReach
    <3>3. fout # f
      BY <1>1 DEF Files, NoFile
    <3>4. ~ \E i \in 1 .. Len(Whole) : Whole[i] = <<"name", f>>
      <4>1. Len(Whole) = 0
        BY <1>1, EmptySeq
      <4> QED BY <4>1
    <3> QED BY <3>2, <3>3, <3>4 DEF Reaches
  <2> QED BY <2>1, <2>2
<1> QED BY <1>1, <1>2

\* The receiving program ends its loop when it has read the end of the transfer, or has seen the
\* connection closed; what it then leaves unread harms the stream.
LEMMA NextDelivers ==
  ASSUME TransferType, DeliverInv, [Next]_vars
  PROVE  AllDelivered'
<1>1. CASE Rerun
  BY <1>1 DEF Rerun, AllDelivered
<1>2. CASE ~ Rerun
  <2> SUFFICES ASSUME rmain' = "done", conn' # "lost", harmed' = 0
               PROVE  smain' # "list" /\ \A f \in Files : dst'[f].mtime >= listed'[f]
    BY DEF AllDelivered
  <2>1. harmed = 0 /\ conn # "lost"
    BY <1>2, NothingUndone
  <2>2. CASE rmain = "done"
    <3>1. smain # "list" /\ \A f \in Files : dst[f].mtime >= listed[f]
      BY <2>1, <2>2 DEF DeliverInv, AllDelivered
    <3>2. listed' = listed /\ smain' # "list"
      <4>1. SenderMain => listed' = listed /\ smain' # "list"
        BY <3>1 DEF SenderMain, WriteOn, SendFilelist, GotFilelist, SkipFile, SendFilename,
               SendFSize, SendData, SendDataComplete, SendComplete, SenderExit, smainVars
      <4>2. Threads => listed' = listed /\ smain' = smain
        BY DEF Threads, SndRead, SndSend, SndCheck, SndClose, SenderSeesLoss, RcvRecv, RcvWrite,
               RcvDrop, RcvLost, RcvClose, smainVars
      <4>3. ReceiverMain => listed' = listed /\ smain' = smain
        BY DEF ReceiverMain, ReadHeader, CutHeader, NoHeader, RcvCheck, RcvFilelist, RcvFilename,
               RcvFSize, RcvData, ReadBlock, WriteBlock, RcvDataComplete, RcvComplete, Desync,
               ReceiverExit, smainVars
      <4>4. (\E f \in Files : Edit(f)) \/ Lose \/ UNCHANGED vars
              => listed' = listed /\ smain' = smain
        BY DEF Edit, Lose, vars, smainVars
      <4> QED BY <1>2, <3>1, <4>1, <4>2, <4>3, <4>4 DEF Next
    <3>3. dst' = dst
      <4>1. SenderMain => dst' = dst
        BY DEF SenderMain, WriteOn, SendFilelist, GotFilelist, SkipFile, SendFilename,
               SendFSize, SendData, SendDataComplete, SendComplete, SenderExit, fileVars
      <4>2. Threads => dst' = dst
        BY DEF Threads, SndRead, SndSend, SndCheck, SndClose, SenderSeesLoss, RcvRecv, RcvWrite,
               RcvDrop, RcvLost, RcvClose, fileVars
      <4>3. ReceiverMain => dst' = dst
        BY <2>2, Kinds_ DEF ReceiverMain, ReadHeader, CutHeader, NoHeader, RcvCheck, RcvFilelist,
               RcvFilename,
               RcvFSize, RcvData, ReadBlock, WriteBlock, RcvDataComplete, RcvComplete, Desync,
               ReceiverExit, fileVars, PayloadRead
      <4>4. (\E f \in Files : Edit(f)) \/ Lose \/ UNCHANGED vars => dst' = dst
        BY DEF Edit, Lose, vars, fileVars
      <4> QED BY <1>2, <4>1, <4>2, <4>3, <4>4 DEF Next
    <3> QED BY <3>1, <3>2, <3>3
  <2>3. CASE rmain # "done"
    <3>1. RcvComplete \/ (RcvCheck /\ rexit)
      <4>0. CutHeader => harmed' # 0
        BY HarmCounts DEF CutHeader
      <4>1. ReadHeader => rmain' # "done"
        <5> SUFFICES ASSUME ReadHeader PROVE rmain' # "done"
          OBVIOUS
        <5>1. PICK u \in Units : rmain' = IF u[1] \in Types THEN u[1] ELSE "desync"
          BY HeaderRead
        <5> QED BY <5>1, Kinds_
      <4>2. SenderMain => rmain' = rmain
        BY DEF SenderMain, WriteOn, SendFilelist, GotFilelist, SkipFile, SendFilename,
               SendFSize, SendData, SendDataComplete, SendComplete, SenderExit, rmainVars
      <4>3. Threads => rmain' = rmain
        BY DEF Threads, SndRead, SndSend, SndCheck, SndClose, SenderSeesLoss, RcvRecv, RcvWrite,
               RcvDrop, RcvLost, RcvClose, rmainVars
      <4>4. ReceiverMain => \/ ReadHeader \/ CutHeader \/ rmain' # "done"
                            \/ RcvComplete \/ (RcvCheck /\ rexit)
        BY <2>3 DEF ReceiverMain, NoHeader, RcvCheck, RcvFilelist, RcvFilename,
               RcvFSize, RcvData, ReadBlock, WriteBlock, RcvDataComplete, Desync,
               ReceiverExit, rmainVars
      <4>5. (\E f \in Files : Edit(f)) \/ Lose \/ UNCHANGED vars => rmain' = rmain
        BY DEF Edit, Lose, vars, rmainVars
      <4> QED BY <1>2, <2>3, <4>0, <4>1, <4>2, <4>3, <4>4, <4>5 DEF Next
    <3>2. Active
      BY <3>1 DEF RcvComplete, RcvCheck, Active
    <3>3. Intact /\ FlowInv /\ conn # "shut"
      <4>1. conn # "shut"
        BY <3>1 DEF RcvComplete, RcvCheck, DeliverInv, ClosingInv
      <4>2. Intact
        BY <2>1, <4>1 DEF DeliverInv, Intact
      <4> QED BY <3>2, <4>1, <4>2 DEF DeliverInv
    <3>4. CASE RcvComplete
      <4>1. rmain = "COMPLETE" /\ UNCHANGED <<smain, listed, dst>>
        BY <3>4 DEF RcvComplete, fileVars, smainVars
      <4>2. smain # "list" /\ \A f \in Files : dst[f].mtime >= listed[f]
        BY <3>3, <4>1, CompleteDelivers
      <4> QED BY <4>1, <4>2
    <3>5. CASE RcvCheck /\ rexit
      <4>1. rmain = "check" /\ rexit
        BY <3>5 DEF RcvCheck
      <4>2. conn = "closed" /\ rbuf = <<>> /\ net = <<>>
        BY <3>3, <4>1 DEF DeliverInv, ClosingInv, Intact
      <4>3. rpipe = <<>>
        BY <3>5, <4>1, HarmCounts DEF RcvCheck
      <4>7. sbuf = <<>> /\ spipe = <<>> /\ sout = <<>> /\ smain = "exit"
        BY <2>1, <4>2 DEF DeliverInv, ClosingInv
      <4>4. Whole = <<>>
        BY <4>2, <4>3, <4>7, EmptySeq, ConcatEmptySeq DEF Whole, Arriving, Leaving
      <4>5. Len(Whole) = 0
        BY <4>4, EmptySeq
      <4>6. rmain = "COMPLETE" \/ \E i \in 1 .. Len(Whole) : Whole[i][1] = "COMPLETE"
        BY <3>3, <4>7 DEF FlowInv, PhaseInv
      <4> QED BY <4>1, <4>5, <4>6
    <3> QED BY <3>1, <3>4, <3>5
  <2> QED BY <2>2, <2>3
<1> QED BY <1>1, <1>2

\* Where a run starts, whatever the files are.
LEMMA StartCloses ==
  ASSUME Started
  PROVE  ClosingInv
BY DEF Started, ClosingInv

LEMMA StartFlow ==
  ASSUME Started
  PROVE  FlowInv
<1>1. Whole = <<>> /\ Len(Whole) = 0
  <2>1. Whole = <<>>
    BY EmptySeq, ConcatEmptySeq DEF Started, Whole, Arriving, Leaving
  <2> QED BY <2>1, EmptySeq
<1>2. /\ smain = "list" /\ cur = 1 /\ reply = NoReply /\ rmain = "header" /\ fout = NoFile
      /\ \A f \in Files : listed[f] = 0
  BY DEF Started, Absent
<1>3. \A i \in 1 .. Len(Whole) : FALSE
  BY <1>1
<1>4. PhaseInv
  <2>1. Endings(Whole, smain = "wait" /\ reply = NoReply, smain \in {"pause", "exit"})
    BY <1>3 DEF Endings
  <2> QED BY <1>1, <1>2, <2>1 DEF PhaseInv
<1>5. NamesInv
  <2>1. Announced(Whole, listed, rmain, header[2])
    BY <1>3 DEF Announced
  <2>2. Apart(Whole, fout # NoFile /\ rmain # "DATA_COMPLETE", Between)
    BY <1>1, <1>2 DEF Apart
  <2> QED BY <1>2, <1>3, <2>1, <2>2 DEF NamesInv
<1>6. FilesReach
  <2>1. ASSUME NEW f \in Files
        PROVE  ~ Due(f)
    BY <1>2 DEF Due, Files
  <2> QED BY <1>2, <2>1 DEF FilesReach
<1> QED BY <1>4, <1>5, <1>6 DEF FlowInv

LEMMA RerunFlow ==
  ASSUME Rerun
  PROVE  FlowInv' /\ ClosingInv'
<1>1. Started'
  BY DEF Rerun, Started
<1>2. Whole' = <<>> /\ Len(Whole') = 0
  <2>1. Whole' = <<>>
    BY <1>1, EmptySeq, ConcatEmptySeq DEF Started, Whole, Arriving, Leaving
  <2> QED BY <2>1, EmptySeq
<1>3. /\ smain' = "list" /\ cur' = 1 /\ reply' = NoReply /\ rmain' = "header"
      /\ fout' = NoFile /\ \A f \in Files : listed'[f] = 0
  BY <1>1 DEF Started, Absent
<1>4. \A i \in 1 .. Len(Whole') : FALSE
  BY <1>2
<1>5. PhaseInv'
  <2>1. Endings(Whole', (smain = "wait" /\ reply = NoReply)', (smain \in {"pause", "exit"})')
    BY <1>4 DEF Endings
  <2> QED BY <1>2, <1>3, <2>1 DEF PhaseInv
<1>6. NamesInv'
  <2>1. Announced(Whole', listed', rmain', header'[2])
    BY <1>4 DEF Announced
  <2>2. Apart(Whole', (fout # NoFile /\ rmain # "DATA_COMPLETE")', Between')
    BY <1>2, <1>3 DEF Apart
  <2> QED BY <1>3, <1>4, <2>1, <2>2 DEF NamesInv
<1>7. FilesReach'
  <2>1. ASSUME NEW f \in Files
        PROVE  ~ Due(f)'
    BY <1>3 DEF Due, Files
  <2> QED BY <1>3, <2>1 DEF FilesReach
<1>8. ClosingInv'
  BY <1>1 DEF Started, ClosingInv
<1> QED BY <1>5, <1>6, <1>7, <1>8 DEF FlowInv

\* The list holds times, and the connection is in one of its states.
LEMMA NextListed ==
  ASSUME TransferType, DeliverInv, [Next]_vars
  PROVE  listed' \in [Files -> Nat] /\ conn' \in {"up", "closed", "lost", "shut"}
<1>1. SenderMain => (listed' = listed \/ listed' = src) /\ conn' = conn
  BY DEF SenderMain, WriteOn, SendFilelist, GotFilelist, SkipFile, SendFilename, SendFSize,
         SendData, SendDataComplete, SendComplete, SenderExit, smainVars, netVars
<1>2. Threads => listed' = listed /\ (conn' = conn \/ conn' \in {"closed", "shut"})
  BY DEF Threads, SndRead, SndSend, SndCheck, SndClose, SenderSeesLoss, RcvRecv, RcvWrite,
         RcvDrop, RcvLost, RcvClose, smainVars, netVars
<1>3. ReceiverMain => listed' = listed /\ conn' = conn
  BY DEF ReceiverMain, ReadHeader, CutHeader, NoHeader, RcvCheck, RcvFilelist, RcvFilename,
         RcvFSize, RcvData,
         ReadBlock, WriteBlock, RcvDataComplete, RcvComplete, Desync, ReceiverExit, smainVars,
         netVars
<1>4. (\E f \in Files : Edit(f)) \/ Lose \/ UNCHANGED vars
        => listed' = listed /\ (conn' = conn \/ conn' = "lost")
  BY DEF Edit, Lose, vars, smainVars, netVars
<1>5. Rerun => listed' = [f \in Files |-> 0] /\ conn' = "up"
  BY DEF Rerun, Absent
<1>6. listed \in [Files -> Nat] /\ src \in [Files -> Nat] /\ [f \in Files |-> 0] \in [Files -> Nat]
  BY DEF DeliverInv, TransferType
<1> QED BY <1>1, <1>2, <1>3, <1>4, <1>5, <1>6 DEF Next, DeliverInv

LEMMA NextDeliverInv ==
  ASSUME TransferType, ThreadInv, DeliverInv, [Next]_vars
  PROVE  DeliverInv'
<1>1. ClosingInv'
  BY NextCloses DEF DeliverInv
<1>2. Intact' /\ Active' => FlowInv'
  BY NextFlow, RerunFlow
<1> QED BY <1>1, <1>2, NextListed, NextDelivers DEF DeliverInv

\* When the receiving program ends its loop, every file of the list is there, unless the
\* connection was lost or the stream harmed: a message dropped, a header read in part, a file
\* changed while it was sent, or the exit flag seen with something still unread.
THEOREM EverythingArrives == Spec => []AllDelivered
<1>1. Init => TransferType /\ ThreadInv /\ DeliverInv
  <2> SUFFICES ASSUME Init PROVE TransferType /\ ThreadInv /\ DeliverInv
    OBVIOUS
  <2>1. Started
    BY DEF Init
  <2>2. listed \in [Files -> Nat] /\ conn = "up" /\ AllDelivered
    BY <2>1 DEF Started, Absent, AllDelivered
  <2> QED BY <2>1, <2>2, InitTypes, StartFlow, StartCloses DEF DeliverInv
<1>2. TransferType /\ ThreadInv /\ DeliverInv /\ [Next]_vars
        => (TransferType /\ ThreadInv /\ DeliverInv)'
  BY NextTypes, NextDeliverInv
<1>3. DeliverInv => AllDelivered
  BY DEF DeliverInv
<1> QED BY <1>1, <1>2, <1>3, PTL DEF Spec

=============================================================================
