------------------------ MODULE CryptoFraming_proofs ------------------------
(***************************************************************************)
(* Proofs about CryptoFraming: whatever the lengths of blocks and sectors, *)
(* the number of workers and the pieces in which the blocks come in, what  *)
(* recvdata writes are the blocks that senddata read.                      *)
(*                                                                         *)
(* What has to be shown is that the two ends cut every block alike.  Chunk *)
(* k of a block, counted from 0, begins after Start(k) bytes.  The pool    *)
(* that senddata had before it passed chunk k of block b is F[<<b, k>>];   *)
(* the invariant says that there is such an F, that its entries follow     *)
(* each other as the chunks do, that every byte on its way met the stream  *)
(* of the pool at its chunk, and that the pool of recvdata is the entry of *)
(* F where recvdata is.                                                    *)
(***************************************************************************)
EXTENDS CryptoFraming, ProofLemmas, SequenceTheorems

Pools == [turn : Workers, at : [Workers -> Nat]]
Bytes == [value : Nat \X Nat, place : Nat \X Nat]
Items == Bytes \cup [length : Nat]

\* Where chunk k of a block begins, how long it is, and which chunk comes after it.
Start(k) == k * crypto_buff_len
SizeOf(b, k) == Min({crypto_buff_len, Input[b] - Start(k)})
After(b, k) == IF Start(k + 1) < Input[b] THEN <<b, k + 1>> ELSE <<b + 1, 0>>

\* senddata has passed chunk k of block b.
CutOff(b, k) ==
  Start(k) < IF b <= sent THEN Input[b] ELSE IF b = sent + 1 THEN Len(outdata) ELSE 0

\* x is byte i of block b and met the stream of the pool at its chunk.
MetAt(F, b, i, place) ==
  \A k \in Nat : Start(k) < i /\ i <= Start(k) + crypto_buff_len
                   => place = Place(F[<<b, k>>], i - Start(k))
Byte(F, b, i, x) == x \in Bytes /\ x.value = <<b, i>> /\ MetAt(F, b, i, x.place)

\* The block recvdata is at.
Current == Len(out) + 1

TypeInv ==
  /\ sent \in 0 .. Len(Input) /\ {lost, passing, new_block} \subseteq BOOLEAN
  /\ {enc, dec} \subseteq Pools
  /\ outdata \in Seq(Bytes) /\ net \in Seq(Items) /\ indata \in Seq(Items)
  /\ out \in Seq(Seq(Nat \X Nat))

\* The pools follow each other as the chunks do.
TraceInv(F) ==
  \A b \in Blocks, k \in Nat : CutOff(b, k) => F[After(b, k)] = Passed(F[<<b, k>>], SizeOf(b, k))

\* senddata is at chunk ks of the next block, or has passed all of it.
SndInv(F, ks) ==
  /\ \A i \in 1 .. Len(outdata) : Byte(F, sent + 1, i, outdata[i])
  /\ sent + 1 \in Blocks => Len(outdata) <= Input[sent + 1]
  /\ IF sent + 1 \in Blocks /\ Len(outdata) = Input[sent + 1] THEN enc = F[<<sent + 2, 0>>]
     ELSE Len(outdata) = Start(ks) /\ enc = F[<<sent + 1, ks>>]

\* The length of block b, which is not yet received, is or will be item st[b] of what is on
\* its way, and its bytes come after it.
Item(F, b, j, x) == IF j = 0 THEN x.length = Input[b] ELSE Byte(F, b, j, x)
QueueInv(F, st) ==
  /\ \A b \in Current .. sent : st[b + 1] = st[b] + 1 + Input[b] /\ st[b + 1] <= st[sent + 1]
  /\ Len(net) < st[sent + 1] /\ (~ lost => Len(net) + 1 = st[sent + 1])
  /\ \A b \in Current .. sent : \A j \in 0 .. Input[b] :
       st[b] + j \in 1 .. Len(net) => Item(F, b, j, net[st[b] + j])
NetInv(F, st) ==
  /\ Len(out) <= sent
  /\ st[Current] = IF new_block THEN 1 ELSE - Len(indata)
  /\ QueueInv(F, st)

\* recvdata is at chunk kr of the block, or has passed all of it.
RcvInv(F, kr) ==
  /\ \A b \in 1 .. Len(out) : out[b] = Plain(b)
  /\ new_block => ~ passing /\ dec = F[<<Current, 0>>]
  /\ ~ new_block =>
       /\ Len(out) < sent /\ block_size = Input[Current]
       /\ Len(indata) <= block_size /\ crypto_cursor \in 0 .. Len(indata)
       /\ \A i \in 1 .. Len(indata) : Byte(F, Current, i, indata[i])
       /\ plain \in Seq(Nat \X Nat) /\ Len(plain) = crypto_cursor
       /\ \A i \in 1 .. Len(plain) : plain[i] = <<Current, i>>
       /\ IF crypto_cursor = block_size THEN dec = F[<<Current + 1, 0>>]
          ELSE crypto_cursor = Start(kr) /\ dec = F[<<Current, kr>>]

FramingInv ==
  /\ TypeInv
  /\ \E F, st :
       /\ F \in [Nat \X Nat -> Pools] /\ st \in [Nat -> Int]
       /\ TraceInv(F) /\ NetInv(F, st)
       /\ (\E ks \in Nat : SndInv(F, ks)) /\ (\E kr \in Nat : RcvInv(F, kr))

-----------------------------------------------------------------------------
(* Chunks *)

\* Chunks are equally long and follow each other.
LEMMA StartFacts ==
  /\ Start(0) = 0
  /\ \A k \in Nat : Start(k) \in Nat /\ Start(k + 1) = Start(k) + crypto_buff_len
  /\ \A k, m \in Nat : k < m => Start(k) + crypto_buff_len <= Start(m)
<1>1. PICK n \in Nat : n = crypto_buff_len /\ n > 0
  BY NAssumption
<1>2. ASSUME NEW k \in Nat
      PROVE  k * n \in Nat /\ (k + 1) * n = k * n + n /\ 0 * n = 0
  BY <1>1
<1>3. ASSUME NEW k \in Nat, NEW m \in Nat, k < m
      PROVE  k * n + n <= m * n
  <2>1. PICK d \in Nat : m = k + 1 + d
    <3>1. m - k - 1 \in Nat /\ m = k + 1 + (m - k - 1)
      BY <1>3
    <3> QED BY <3>1
  <2>2. m * n = k * n + n + d * n
    BY <1>1, <2>1
  <2>3. d * n \in Nat /\ k * n \in Nat /\ m * n \in Nat
    BY <1>1
  <2> QED BY <1>1, <2>2, <2>3
<1> QED BY <1>1, <1>2, <1>3 DEF Start

\* The blocks are numbered from 1, and none of them is empty.
LEMMA InputFacts ==
  /\ Blocks = 1 .. Len(Input) /\ Len(Input) \in Nat
  /\ \A b \in Blocks : Input[b] \in Nat /\ Input[b] > 0
BY InputAssumption, LenProperties, ElementOfSeq DEF Blocks

\* The length of a chunk, and where the next one begins.
LEMMA SizeIs ==
  ASSUME NEW b \in Blocks, NEW k \in Nat, Start(k) < Input[b]
  PROVE  /\ SizeOf(b, k) \in 1 .. crypto_buff_len
         /\ IF Start(k) + crypto_buff_len < Input[b]
              THEN SizeOf(b, k) = crypto_buff_len /\ After(b, k) = <<b, k + 1>>
              ELSE SizeOf(b, k) = Input[b] - Start(k) /\ After(b, k) = <<b + 1, 0>>
<1>1. Start(k) \in Nat /\ Start(k + 1) = Start(k) + crypto_buff_len /\ Input[b] \in Nat
  BY StartFacts, InputFacts
<1>2. PICK n \in Nat, m \in Nat : n = crypto_buff_len /\ n > 0 /\ m = Input[b] - Start(k) /\ m > 0
  BY <1>1, NAssumption
<1>3. Min({n, m}) = IF n <= m THEN n ELSE m
  BY LesserOf
<1>4. SizeOf(b, k) = Min({n, m})
  BY <1>2 DEF SizeOf
<1> QED BY <1>1, <1>2, <1>3, <1>4 DEF After

\* A pool that has been passed a chunk is a pool.
LEMMA PoolPassed ==
  ASSUME NEW p \in Pools, NEW len \in Nat
  PROVE  Passed(p, len) \in Pools
<1>1. PICK n \in Nat : n = N /\ n > 0
  BY NAssumption
<1>2. PICK t \in Nat, a \in [Workers -> Nat] : p = [turn |-> t, at |-> a] /\ t \in Workers
  BY DEF Pools, Workers
<1>3. (t + 1) % n \in 0 .. n - 1
  BY <1>1, Divided
<1>4. [a EXCEPT ![t] = @ + len] \in [Workers -> Nat]
  BY <1>2
<1> QED BY <1>1, <1>2, <1>3, <1>4 DEF Passed, Pools, Workers

\* A place is a worker and a position of its stream.
LEMMA PlaceType ==
  ASSUME NEW p \in Pools, NEW i \in Nat
  PROVE  Place(p, i) \in Nat \X Nat
<1>1. PICK t \in Nat, a \in [Workers -> Nat] : p = [turn |-> t, at |-> a] /\ t \in Workers
  BY DEF Pools, Workers
<1>2. a[t] + i \in Nat
  BY <1>1
<1> QED BY <1>1, <1>2 DEF Place

\* A byte keeps its place as long as the chunks that may hold it keep their pools.
LEMMA ByteKept ==
  ASSUME NEW F, NEW G, NEW b, NEW i, NEW x, Byte(F, b, i, x),
         \A k \in Nat : Start(k) < i => G[<<b, k>>] = F[<<b, k>>]
  PROVE  Byte(G, b, i, x)
BY DEF Byte, MetAt

-----------------------------------------------------------------------------
(* senddata *)

\* Another table of pools, which agrees with the first one where it has been used.
Agree(F, G) ==
  \A b \in Nat, k \in Nat : b <= sent \/ (b = sent + 1 /\ k = 0) => G[<<b, k>>] = F[<<b, k>>]

\* What holds with one of them of the blocks on their way, and of recvdata, holds with
\* the other.
LEMMA TableKept ==
  ASSUME TypeInv, NEW F, NEW G, NEW st, NEW kr \in Nat, NetInv(F, st), RcvInv(F, kr), Agree(F, G)
  PROVE  NetInv(G, st) /\ RcvInv(G, kr)
<1>1. PICK a \in Nat, c \in Nat : a = sent /\ c = Current /\ c <= a + 1 /\ c = Len(out) + 1
  <2>1. sent \in Nat /\ Len(out) \in Nat
    BY InputFacts, LenProperties DEF TypeInv
  <2>2. Len(out) <= sent
    BY DEF NetInv
  <2> QED BY <2>1, <2>2 DEF Current
<1>2. ASSUME NEW b \in Nat, b <= a, NEW i, NEW x, Byte(F, b, i, x)
      PROVE  Byte(G, b, i, x)
  BY <1>1, <1>2, ByteKept DEF Agree
<1>3. NetInv(G, st)
  <2>1. ASSUME NEW b \in c .. a, NEW j \in 0 .. Input[b], st[b] + j \in 1 .. Len(net)
        PROVE  Item(G, b, j, net[st[b] + j])
    <3>1. Item(F, b, j, net[st[b] + j])
      BY <1>1, <2>1 DEF NetInv, QueueInv
    <3> QED BY <1>2, <2>1, <3>1 DEF Item
  <2> QED BY <1>1, <2>1 DEF NetInv, QueueInv
<1>4. RcvInv(G, kr)
  <2>1. CASE new_block
    <3>1. G[<<c, 0>>] = F[<<c, 0>>]
      BY <1>1 DEF Agree
    <3> QED BY <1>1, <2>1, <3>1 DEF RcvInv
  <2>2. CASE ~ new_block
    <3>1. c <= a
      BY <1>1, <2>2 DEF RcvInv
    <3>2. G[<<c, kr>>] = F[<<c, kr>>] /\ G[<<c + 1, 0>>] = F[<<c + 1, 0>>]
      BY <1>1, <3>1 DEF Agree
    <3>3. \A i \in 1 .. Len(indata) : Byte(G, c, i, indata[i])
      BY <1>1, <1>2, <2>2, <3>1 DEF RcvInv
    <3> QED BY <1>1, <2>2, <3>2, <3>3 DEF RcvInv
  <2> QED BY <2>1, <2>2
<1> QED BY <1>3, <1>4

\* The pool after the chunk is entered in the table, for the chunk that comes next.
LEMMA NextChunkFraming ==
  ASSUME FramingInv, NextChunk
  PROVE  FramingInv'
<1>0. PICK F, st :
        /\ F \in [Nat \X Nat -> Pools] /\ st \in [Nat -> Int]
        /\ TraceInv(F) /\ NetInv(F, st)
        /\ (\E ks \in Nat : SndInv(F, ks)) /\ (\E kr \in Nat : RcvInv(F, kr))
  BY Zenon DEF FramingInv
<1>k. PICK ks \in Nat, kr \in Nat : SndInv(F, ks) /\ RcvInv(F, kr)
  BY <1>0
<1>1. /\ F \in [Nat \X Nat -> Pools] /\ st \in [Nat -> Int]
      /\ TraceInv(F) /\ NetInv(F, st) /\ SndInv(F, ks) /\ RcvInv(F, kr)
  BY <1>0, <1>k
<1>2. PICK a \in Nat, b \in Nat, m \in Nat, d \in Nat :
        /\ a = sent /\ b = a + 1 /\ b \in Blocks /\ m = Input[b] /\ d = Len(outdata) /\ d < m
  <2>1. sent \in Nat /\ Len(outdata) \in Nat
    BY InputFacts, LenProperties DEF FramingInv, TypeInv
  <2>2. sent + 1 \in Blocks /\ Len(outdata) < Input[sent + 1]
    BY DEF NextChunk
  <2>3. Input[sent + 1] \in Nat /\ sent + 1 \in Nat
    BY <2>1, <2>2, InputFacts
  <2> QED BY <2>1, <2>2, <2>3
<1>3. d = Start(ks) /\ enc = F[<<b, ks>>]
  <2>1. SndInv(F, ks)
    BY <1>1
  <2>2. ~ (sent + 1 \in Blocks /\ Len(outdata) = Input[sent + 1])
    BY <1>2
  <2> QED BY <1>2, <2>1, <2>2 DEF SndInv
<1>4. PICK n \in Nat : n = SizeOf(b, ks) /\ n \in 1 .. crypto_buff_len
  BY <1>2, <1>3, SizeIs, NAssumption
<1>5. PICK q : q = After(b, ks) /\ (q = <<b, ks + 1>> \/ q = <<b + 1, 0>>)
  BY <1>2, <1>3, SizeIs
<1>6. PICK e : e = enc' /\ e = Passed(F[<<b, ks>>], n) /\ e \in Pools
  <2>1. enc' = Passed(enc, n)
    BY <1>2, <1>3, <1>4 DEF NextChunk, SizeOf
  <2>2. F[<<b, ks>>] \in Pools
    BY <1>1, <1>2
  <2> QED BY <1>3, <2>1, <2>2, PoolPassed
<1>7. PICK G :
        /\ G \in [Nat \X Nat -> Pools] /\ G[q] = e
        /\ \A c \in Nat, k \in Nat : <<c, k>> # q => G[<<c, k>>] = F[<<c, k>>]
  <2> DEFINE H == [F EXCEPT ![q] = e]
  <2>0. q \in Nat \X Nat
    BY <1>2, <1>5
  <2>1. H \in [Nat \X Nat -> Pools] /\ H[q] = e
    BY <1>1, <1>6, <2>0
  <2>2. \A c \in Nat, k \in Nat : <<c, k>> # q => H[<<c, k>>] = F[<<c, k>>]
    BY <1>1
  <2> HIDE DEF H
  <2> QED BY <2>1, <2>2
<1>8. \A c \in Nat, k \in Nat : c <= a \/ (c = b /\ k <= ks) => G[<<c, k>>] = F[<<c, k>>]
  <2> SUFFICES ASSUME NEW c \in Nat, NEW k \in Nat, c <= a \/ (c = b /\ k <= ks)
               PROVE  <<c, k>> # q
    BY <1>7
  <2> QED BY <1>2, <1>5
<1>9. PICK new \in Seq(Bytes) :
        /\ Len(new) = n /\ outdata' = outdata \o new
        /\ \A i \in 1 .. n : new[i] = [value |-> <<b, d + i>>, place |-> Place(enc, i)]
  <2> DEFINE v == [i \in 1 .. n |-> [value |-> Plain(b)[Len(outdata) + i], place |-> Place(enc, i)]]
  <2>1. outdata' = outdata \o v
    BY <1>2, <1>3, <1>4 DEF NextChunk, SizeOf
  <2>2. d + n <= m
    BY <1>2, <1>3, <1>4, SizeIs
  <2>3. ASSUME NEW i \in 1 .. n
        PROVE  v[i] = [value |-> <<b, d + i>>, place |-> Place(enc, i)] /\ v[i] \in Bytes
    <3>1. d + i \in 1 .. m
      BY <1>2, <2>2
    <3>2. v[i] = [value |-> <<b, d + i>>, place |-> Place(enc, i)]
      BY <1>2, <3>1 DEF Plain
    <3>3. Place(enc, i) \in Nat \X Nat
      <4>1. enc \in Pools /\ i \in Nat
        BY DEF FramingInv, TypeInv
      <4> QED BY <4>1, PlaceType
    <3> QED BY <1>2, <3>2, <3>3 DEF Bytes
  <2>4. v \in Seq(Bytes) /\ Len(v) = n
    <3>1. v \in [1 .. n -> Bytes]
      BY <2>3
    <3> HIDE DEF v
    <3> QED BY <3>1
  <2> QED BY <2>1, <2>3, <2>4
<1>10. PICK t \in Seq(Bytes) :
         /\ t = outdata' /\ Len(t) = d + n
         /\ \A i \in 1 .. d : t[i] = outdata[i]
         /\ \A i \in d + 1 .. d + n : t[i] = [value |-> <<b, i>>, place |-> Place(enc, i - d)]
  <2>1. /\ outdata \o new \in Seq(Bytes) /\ Len(outdata \o new) = d + n
        /\ \A i \in 1 .. d + n : (outdata \o new)[i] = IF i <= d THEN outdata[i] ELSE new[i - d]
    BY <1>2, <1>9, ConcatProperties DEF FramingInv, TypeInv
  <2>2. ASSUME NEW i \in d + 1 .. d + n
        PROVE  (outdata \o new)[i] = [value |-> <<b, i>>, place |-> Place(enc, i - d)]
    <3>1. PICK h \in 1 .. n : h = i - d /\ i = d + h /\ i \in 1 .. d + n /\ ~ (i <= d)
      BY <1>2
    <3>2. (outdata \o new)[i] = new[h] /\ new[h] = [value |-> <<b, d + h>>, place |-> Place(enc, h)]
      BY <1>9, <2>1, <3>1
    <3> QED BY <3>1, <3>2
  <2>3. \A i \in 1 .. d : (outdata \o new)[i] = outdata[i]
    BY <1>2, <1>4, <2>1
  <2> QED BY <1>9, <2>1, <2>2, <2>3
<1>11. /\ UNCHANGED <<sent, net, lost, out, new_block, indata, passing, block_size, crypto_cursor>>
       /\ UNCHANGED <<plain, dec>>
  BY DEF NextChunk, recvVars
<1>12. TypeInv'
  BY <1>6, <1>10, <1>11 DEF FramingInv, TypeInv
<1>13. TraceInv(G)'
  <2> SUFFICES ASSUME NEW c \in Blocks, NEW k \in Nat, CutOff(c, k)'
               PROVE  G[After(c, k)] = Passed(G[<<c, k>>], SizeOf(c, k))
    BY DEF TraceInv, CutOff
  <2>0. c \in Nat /\ Start(k) \in Nat
    BY InputFacts, StartFacts
  <2>1. CASE c = b /\ k = ks
    <3>1. G[<<c, k>>] = F[<<c, k>>] /\ G[After(c, k)] = e
      BY <1>2, <1>5, <1>7, <1>8, <2>1
    <3> QED BY <1>4, <1>6, <2>1, <3>1
  <2>2. CASE ~ (c = b /\ k = ks)
    <3>1. c <= a \/ (c = b /\ k < ks)
      <4>1. c <= a \/ (c = b /\ Start(k) < d + n)
        BY <1>2, <1>10, <1>11, <2>0 DEF CutOff
      <4>2. ks < k => d + n <= Start(k)
        <5>1. ks < k => Start(ks) + crypto_buff_len <= Start(k)
          BY StartFacts
        <5>2. crypto_buff_len \in Nat
          BY NAssumption
        <5> QED BY <1>3, <1>4, <2>0, <5>1, <5>2
      <4> QED BY <1>4, <2>0, <2>2, <4>1, <4>2
    <3>2. CutOff(c, k) /\ Start(k) < Input[c]
      <4>1. CASE c <= a
        BY <1>2, <1>10, <1>11, <2>0, <4>1 DEF CutOff
      <4>2. CASE c = b /\ k < ks
        <5>1. Start(k) + crypto_buff_len <= d /\ crypto_buff_len \in Nat /\ crypto_buff_len > 0
          BY <1>3, <4>2, StartFacts, NAssumption
        <5>2. Start(k) < d
          BY <2>0, <5>1
        <5> QED BY <1>2, <2>0, <4>2, <5>2 DEF CutOff
      <4> QED BY <3>1, <4>1, <4>2
    <3>3. F[After(c, k)] = Passed(F[<<c, k>>], SizeOf(c, k))
      BY <1>1, <3>2 DEF TraceInv
    <3>4. G[<<c, k>>] = F[<<c, k>>]
      BY <1>8, <2>0, <3>1
    <3>5. G[After(c, k)] = F[After(c, k)]
      <4>1. CASE After(c, k) = <<c, k + 1>>
        BY <1>8, <2>0, <3>1, <4>1
      <4>2. CASE After(c, k) = <<c + 1, 0>>
        <5>1. c # b
          <6> SUFFICES ASSUME c = b, k < ks PROVE FALSE
            BY <1>2, <3>1
          <6>1. Start(k) + crypto_buff_len <= d /\ Start(k + 1) = Start(k) + crypto_buff_len
            BY <1>3, StartFacts
          <6>2. Start(k + 1) < Input[c]
            BY <1>2, <2>0, <6>1, NAssumption
          <6> QED BY <1>2, <4>2, <6>2 DEF After
        <5> QED BY <1>2, <1>8, <2>0, <3>1, <4>2, <5>1
      <4> QED BY <3>2, <4>1, <4>2, SizeIs
    <3> QED BY <3>3, <3>4, <3>5
  <2> QED BY <2>1, <2>2
<1>14. \A i \in 1 .. Len(t) : Byte(G, b, i, t[i])
  <2>1. ASSUME NEW i \in 1 .. d
        PROVE  Byte(G, b, i, t[i])
    <3>1. Byte(F, b, i, outdata[i])
      BY <1>1, <1>2 DEF SndInv
    <3>2. ASSUME NEW k \in Nat, Start(k) < i
          PROVE  G[<<b, k>>] = F[<<b, k>>]
      <4>1. ks < k => d <= Start(k)
        <5>1. ks < k => d + crypto_buff_len <= Start(k)
          BY <1>3, StartFacts
        <5>2. Start(k) \in Nat /\ crypto_buff_len \in Nat
          BY StartFacts, NAssumption
        <5> QED BY <1>2, <5>1, <5>2
      <4>2. k <= ks
        <5>1. Start(k) \in Nat
          BY StartFacts
        <5> QED BY <1>2, <3>2, <4>1, <5>1
      <4> QED BY <1>2, <1>8, <4>2
    <3> QED BY <1>10, <3>1, <3>2, ByteKept
  <2>2. ASSUME NEW i \in d + 1 .. d + n
        PROVE  Byte(G, b, i, t[i])
    <3>1. t[i] = [value |-> <<b, i>>, place |-> Place(enc, i - d)] /\ t[i] \in Bytes
      <4>1. i \in 1 .. Len(t)
        BY <1>2, <1>10
      <4> QED BY <1>10, <4>1, ElementOfSeq
    <3>2. ASSUME NEW k \in Nat, Start(k) < i, i <= Start(k) + crypto_buff_len
          PROVE  Place(enc, i - d) = Place(G[<<b, k>>], i - Start(k))
      <4>1. k = ks
        <5>1. Start(k) \in Nat /\ crypto_buff_len \in Nat
          BY StartFacts, NAssumption
        <5>2. /\ k < ks => Start(k) + crypto_buff_len <= d
              /\ ks < k => d + crypto_buff_len <= Start(k)
          BY <1>3, StartFacts
        <5>3. ~ (k < ks) /\ ~ (ks < k)
          BY <1>2, <1>4, <3>2, <5>1, <5>2
        <5> QED BY <5>3
      <4>2. G[<<b, k>>] = enc
        BY <1>2, <1>3, <1>8, <4>1
      <4> QED BY <1>3, <4>1, <4>2
    <3> QED BY <3>1, <3>2 DEF Byte, MetAt
  <2> QED BY <1>2, <1>10, <2>1, <2>2
<1>15. SndInv(G, ks + 1)'
  <2>1. CASE Start(ks) + crypto_buff_len < m
    <3>1. n = crypto_buff_len /\ q = <<b, ks + 1>> /\ Start(ks + 1) = d + n
      BY <1>2, <1>3, <1>4, <1>5, <2>1, SizeIs, StartFacts
    <3>2. d + n < m
      BY <1>3, <2>1, <3>1
    <3> QED BY <1>2, <1>6, <1>7, <1>10, <1>11, <1>14, <3>1, <3>2 DEF SndInv
  <2>2. CASE ~ (Start(ks) + crypto_buff_len < m)
    <3>1. n = m - d /\ q = <<b + 1, 0>>
      BY <1>2, <1>3, <1>4, <1>5, <2>2, SizeIs
    <3>2. d + n = m /\ b + 1 = sent + 2 /\ b = sent + 1
      BY <1>2, <3>1
    <3>3. enc' = G[<<sent + 2, 0>>]
      BY <1>6, <1>7, <3>1, <3>2
    <3>4. Len(outdata') = Input[sent + 1] /\ sent + 1 \in Blocks /\ sent' = sent
      BY <1>2, <1>10, <1>11, <3>2
    <3>5. \A i \in 1 .. Len(outdata') : Byte(G, sent + 1, i, outdata'[i])
      BY <1>10, <1>14, <3>2
    <3>6. Input[sent + 1] \in Nat
      BY <1>2
    <3> QED BY <3>3, <3>4, <3>5, <3>6 DEF SndInv
  <2> QED BY <2>1, <2>2
<1>16. NetInv(G, st) /\ RcvInv(G, kr)
  <2>1. Agree(F, G)
    BY <1>2, <1>8 DEF Agree
  <2>2. TypeInv /\ NetInv(F, st) /\ RcvInv(F, kr)
    BY <1>1 DEF FramingInv
  <2> QED BY <2>1, <2>2, TableKept
<1>17. NetInv(G, st)' /\ RcvInv(G, kr)'
  BY <1>11, <1>16 DEF NetInv, QueueInv, RcvInv, Current
<1>18. ks + 1 \in Nat
  OBVIOUS
<1> QED BY <1>1, <1>7, <1>12, <1>13, <1>15, <1>17, <1>18, Zenon DEF FramingInv

\* The block is behind what is on its way, length first.
LEMMA SendBlockFraming ==
  ASSUME FramingInv, SendBlock
  PROVE  FramingInv'
<1>0. PICK F, st :
        /\ F \in [Nat \X Nat -> Pools] /\ st \in [Nat -> Int]
        /\ TraceInv(F) /\ NetInv(F, st)
        /\ (\E ks \in Nat : SndInv(F, ks)) /\ (\E kr \in Nat : RcvInv(F, kr))
  BY Zenon DEF FramingInv
<1>k. PICK ks \in Nat, kr \in Nat : SndInv(F, ks) /\ RcvInv(F, kr)
  BY <1>0
<1>1. /\ F \in [Nat \X Nat -> Pools] /\ st \in [Nat -> Int]
      /\ TraceInv(F) /\ NetInv(F, st) /\ SndInv(F, ks) /\ RcvInv(F, kr)
  BY <1>0, <1>k
<1>2. PICK a \in Nat, b \in Nat, m \in Nat, l \in Nat, c \in Nat :
        /\ a = sent /\ b = a + 1 /\ b \in Blocks /\ m = Input[b] /\ l = Len(net)
        /\ c = Current /\ c = Len(out) + 1 /\ c <= b /\ 0 < c
  <2>1. sent \in Nat /\ Len(net) \in Nat /\ Len(out) \in Nat
    BY InputFacts, LenProperties DEF FramingInv, TypeInv
  <2>2. sent + 1 \in Blocks /\ Len(out) <= sent
    BY <1>1 DEF SendBlock, NetInv
  <2>3. Input[sent + 1] \in Nat /\ sent + 1 \in Nat
    BY <2>1, <2>2, InputFacts
  <2>4. PICK c \in Nat : c = Current /\ c = Len(out) + 1 /\ c <= sent + 1 /\ 0 < c
    BY <2>1, <2>2 DEF Current
  <2> QED BY <2>1, <2>2, <2>3, <2>4
<1>3. /\ m = Len(outdata) /\ ~ lost /\ sent' = b /\ outdata' = <<>>
      /\ net' = Append(net, [length |-> m]) \o outdata
      /\ UNCHANGED <<enc, dec, lost, out, new_block, indata, passing, block_size>>
      /\ UNCHANGED <<crypto_cursor, plain>>
  BY <1>2 DEF SendBlock, recvVars
<1>4. enc = F[<<b + 1, 0>>] /\ \A i \in 1 .. m : Byte(F, b, i, outdata[i])
  <2>1. SndInv(F, ks)
    BY <1>1
  <2>2. sent + 1 \in Blocks /\ Len(outdata) = Input[sent + 1] /\ sent + 2 = b + 1
    BY <1>2, <1>3
  <2> QED BY <1>2, <1>3, <2>1, <2>2 DEF SndInv
<1>5. PICK t \in Seq(Items) :
        /\ t = net' /\ Len(t) = l + 1 + m
        /\ \A i \in 1 .. l : t[i] = net[i]
        /\ t[l + 1] = [length |-> m]
        /\ \A i \in 1 .. m : t[l + 1 + i] = outdata[i]
  <2>1. PICK x \in Seq(Items) : x = net /\ Len(x) = l
    BY <1>2 DEF FramingInv, TypeInv
  <2>2. PICK y \in Seq(Items) : y = outdata /\ Len(y) = m
    <3>1. outdata \in Seq(Items)
      BY SeqMonotonic DEF FramingInv, TypeInv, Items
    <3> QED BY <1>3, <3>1
  <2>3. PICK u \in Items : u = [length |-> m]
    BY DEF Items
  <2>4. PICK z \in Seq(Items) :
          /\ z = Append(x, u) /\ Len(z) = l + 1 /\ z[l + 1] = u
          /\ \A i \in 1 .. l : z[i] = x[i]
    <3>1. /\ Append(x, u) \in Seq(Items) /\ Len(Append(x, u)) = l + 1
          /\ Append(x, u)[l + 1] = u /\ \A i \in 1 .. l : Append(x, u)[i] = x[i]
      BY <2>1, <2>3, AppendProperties
    <3> QED BY <3>1
  <2>5. /\ z \o y \in Seq(Items) /\ Len(z \o y) = l + 1 + m
        /\ \A i \in 1 .. l + 1 + m : (z \o y)[i] = IF i <= l + 1 THEN z[i] ELSE y[i - (l + 1)]
    <3>1. /\ z \o y \in Seq(Items) /\ Len(z \o y) = Len(z) + Len(y)
          /\ \A i \in 1 .. Len(z) + Len(y) :
               (z \o y)[i] = IF i <= Len(z) THEN z[i] ELSE y[i - Len(z)]
      BY ONLY z \in Seq(Items), y \in Seq(Items), ConcatProperties
    <3> QED BY <2>2, <2>4, <3>1
  <2>6. PICK w \in Seq(Items) :
          /\ w = z \o y /\ Len(w) = l + 1 + m
          /\ \A i \in 1 .. l + 1 + m : w[i] = IF i <= l + 1 THEN z[i] ELSE y[i - (l + 1)]
    BY <2>5
  <2>7. net' = w
    BY <1>3, <2>1, <2>2, <2>3, <2>4, <2>6
  <2>8. ASSUME NEW i \in 1 .. m
        PROVE  w[l + 1 + i] = y[i]
    <3>1. PICK h \in 1 .. l + 1 + m : h = l + 1 + i /\ ~ (h <= l + 1) /\ h - (l + 1) = i
      <4>1. l + 1 + i \in 1 .. l + 1 + m /\ ~ (l + 1 + i <= l + 1) /\ l + 1 + i - (l + 1) = i
        OBVIOUS
      <4> QED BY <4>1
    <3>2. w[h] = IF h <= l + 1 THEN z[h] ELSE y[h - (l + 1)]
      BY <2>6
    <3> QED BY <3>1, <3>2
  <2>9. ASSUME NEW i \in 1 .. l + 1
        PROVE  w[i] = z[i]
    <3>1. i \in 1 .. l + 1 + m /\ i <= l + 1
      OBVIOUS
    <3>2. w[i] = IF i <= l + 1 THEN z[i] ELSE y[i - (l + 1)]
      BY <2>6, <3>1
    <3> QED BY <3>1, <3>2
  <2>10. w[l + 1] = u /\ \A i \in 1 .. l : w[i] = x[i]
    BY <2>4, <2>9
  <2>11. \A i \in 1 .. l : w[i] = net[i]
    BY ONLY <2>1, <2>10
  <2>12. w[l + 1] = [length |-> m]
    BY ONLY <2>3, <2>10
  <2>13. \A i \in 1 .. m : w[l + 1 + i] = outdata[i]
    BY ONLY <2>2, <2>8
  <2>14. w = net' /\ Len(w) = l + 1 + m
    BY ONLY <2>6, <2>7
  <2> QED BY Zenon, <2>11, <2>12, <2>13, <2>14
<1>6. TypeInv'
  <2>1. sent' \in 0 .. Len(Input)
    BY <1>2, <1>3, InputFacts
  <2>2. outdata' \in Seq(Bytes)
    BY <1>3, EmptySeq
  <2> QED BY <1>3, <1>5, <2>1, <2>2 DEF FramingInv, TypeInv
<1>7. TraceInv(F)'
  <2> SUFFICES ASSUME NEW x \in Blocks, NEW k \in Nat, CutOff(x, k)'
               PROVE  CutOff(x, k)
    BY <1>1 DEF TraceInv
  <2>1. x \in Nat /\ Start(k) \in Nat /\ Len(<<>>) = 0
    BY InputFacts, StartFacts, EmptySeq
  <2>2. Start(k) < IF x <= b THEN Input[x] ELSE 0
    BY <1>2, <1>3, <2>1 DEF CutOff
  <2>3. x <= b /\ Start(k) < Input[x]
    BY <2>1, <2>2
  <2>4. CASE x <= a
    BY <1>2, <2>3, <2>4 DEF CutOff
  <2>5. CASE x = a + 1
    <3>1. x = b /\ ~ (b <= a)
      BY <1>2, <2>5
    <3>2. Start(k) < m
      BY <1>2, <2>3, <3>1
    <3>3. Start(k) < Len(outdata) /\ ~ (x <= sent) /\ x = sent + 1
      BY <1>2, <1>3, <3>1, <3>2
    <3> QED BY <3>3 DEF CutOff
  <2> QED BY <1>2, <2>1, <2>3, <2>4, <2>5
<1>8. SndInv(F, 0)'
  <2>1. Len(outdata') = 0 /\ Start(0) = 0
    BY <1>3, StartFacts, EmptySeq
  <2>2. sent' + 1 \in Blocks => Input[sent' + 1] \in Nat /\ Input[sent' + 1] > 0
    BY InputFacts
  <2> QED BY <1>3, <1>4, <2>1, <2>2 DEF SndInv
<1>9. PICK s2 :
        /\ s2 \in [Nat -> Int]
        /\ s2[b + 1] = st[b] + 1 + m /\ \A x \in Nat : x <= b => s2[x] = st[x]
  <2> DEFINE v == [st EXCEPT ![b + 1] = st[b] + 1 + m]
  <2>1. st[b] + 1 + m \in Int /\ b + 1 \in Nat
    BY <1>1
  <2>2. v \in [Nat -> Int] /\ v[b + 1] = st[b] + 1 + m
    BY <1>1, <2>1
  <2>3. \A x \in Nat : x <= b => v[x] = st[x]
    BY <1>1
  <2> HIDE DEF v
  <2> QED BY <2>2, <2>3
<1>10. NetInv(F, s2)'
  <2>1. l + 1 = st[b] /\ st[b] \in Int
    BY <1>1, <1>2, <1>3 DEF NetInv, QueueInv
  <2>2. s2[b + 1] = l + 2 + m /\ s2[b] = l + 1
    <3>1. s2[b] = st[b]
      <4>1. b <= b
        OBVIOUS
      <4> QED BY <1>9, <4>1
    <3>2. s2[b + 1] = st[b] + 1 + m
      BY <1>9
    <3> QED BY <2>1, <3>1, <3>2
  <2>3. ASSUME NEW x \in c .. b
        PROVE  s2[x + 1] = s2[x] + 1 + Input[x] /\ s2[x + 1] <= s2[b + 1]
    <3>1. CASE x = b
      BY <1>2, <2>2, <3>1
    <3>2. CASE x # b
      <4>1. x \in c .. a
        BY <1>2, <3>2
      <4>2. st[x + 1] = st[x] + 1 + Input[x] /\ st[x + 1] <= st[b] /\ st[x + 1] \in Int
        BY <1>1, <1>2, <4>1 DEF NetInv, QueueInv
      <4>3. s2[x + 1] = st[x + 1] /\ s2[x] = st[x]
        <5>1. x \in Nat /\ x + 1 \in Nat /\ x <= b /\ x + 1 <= b
          BY <1>2, <4>1
        <5> QED BY <1>9, <5>1
      <4> QED BY <2>1, <2>2, <4>2, <4>3
    <3> QED BY <3>1, <3>2
  <2>4. ASSUME NEW x \in c .. b, NEW j \in 0 .. Input[x], s2[x] + j \in 1 .. l + 1 + m
        PROVE  Item(F, x, j, t[s2[x] + j])
    <3>1. CASE x = b
      <4>1. CASE j = 0
        BY <1>2, <1>5, <2>2, <3>1, <4>1 DEF Item
      <4>2. CASE j # 0
        <5>1. j \in 1 .. m /\ s2[x] + j = l + 1 + j
          BY <1>2, <2>2, <3>1, <4>2
        <5>2. t[l + 1 + j] = outdata[j] /\ Byte(F, b, j, outdata[j])
          BY <1>4, <1>5, <5>1
        <5> QED BY <3>1, <4>2, <5>1, <5>2 DEF Item
      <4> QED BY <4>1, <4>2
    <3>2. CASE x # b
      <4>1. x \in c .. a /\ x \in Nat
        BY <1>2, <3>2
      <4>2. st[x + 1] = st[x] + 1 + Input[x] /\ st[x + 1] <= st[b] /\ st[x] \in Int
        BY <1>1, <1>2, <4>1 DEF NetInv, QueueInv
      <4>3. s2[x] = st[x]
        BY <1>2, <1>9, <4>1
      <4>4. x \in Blocks
        BY <1>2, <4>1, InputFacts
      <4>5. st[x] + j \in 1 .. l
        <5>1. PICK y \in Int, e \in Int, g \in Nat : y = st[x] /\ e = st[b] /\ g = Input[x]
          BY <2>1, <4>2, <4>4, InputFacts
        <5>2. y + 1 + g <= e /\ l + 1 = e
          BY ONLY <2>1, <4>2, <5>1
        <5>3. j \in 0 .. g /\ y + j \in 1 .. l + 1 + m
          BY ONLY <2>4, <4>3, <5>1
        <5>4. y + j \in 1 .. l
          BY ONLY <5>2, <5>3, y \in Int, e \in Int, g \in Nat, l \in Nat, m \in Nat
        <5> QED BY ONLY <5>1, <5>4
      <4>6. Item(F, x, j, net[st[x] + j])
        BY <1>1, <1>2, <4>1, <4>5 DEF NetInv, QueueInv
      <4> QED BY <1>5, <4>3, <4>5, <4>6
    <3> QED BY <3>1, <3>2
  <2>5. QueueInv(F, s2)'
    <3>1. Current' = c /\ sent' = b /\ net' = t /\ ~ lost'
      BY <1>2, <1>3, <1>5 DEF Current
    <3>2. Len(t) < s2[b + 1] /\ Len(t) + 1 = s2[b + 1]
      BY <1>5, <2>2
    <3>3. \A x \in c .. b : \A j \in 0 .. Input[x] :
            s2[x] + j \in 1 .. Len(t) => Item(F, x, j, t[s2[x] + j])
      BY <1>5, <2>4
    <3> QED BY <2>3, <3>1, <3>2, <3>3 DEF QueueInv
  <2>6. Len(out') <= sent' /\ s2[Current'] = IF new_block' THEN 1 ELSE - Len(indata')
    <3>1. st[c] = IF new_block THEN 1 ELSE - Len(indata)
      BY <1>1, <1>2 DEF NetInv
    <3>2. s2[c] = st[c] /\ Current' = c
      BY <1>2, <1>3, <1>9 DEF Current
    <3> QED BY <1>2, <1>3, <3>1, <3>2
  <2> QED BY <2>5, <2>6 DEF NetInv
<1>11. RcvInv(F, kr)'
  <2>1. RcvInv(F, kr) /\ (Len(out) < sent => Len(out) < sent')
    <3>1. Len(out) = c - 1
      BY <1>2, LenProperties DEF FramingInv, TypeInv
    <3>2. Len(out) < sent'
      BY <1>2, <1>3, <3>1
    <3> QED BY <1>1, <3>2
  <2> QED BY <1>3, <2>1 DEF RcvInv, Current
<1> QED BY <1>1, <1>6, <1>7, <1>8, <1>9, <1>10, <1>11, Zenon DEF FramingInv

-----------------------------------------------------------------------------
(* recvdata *)

\* The first n items are taken from what is on its way.
LEMMA QueueShifted ==
  ASSUME TypeInv, NEW F, NEW st, st \in [Nat -> Int], Len(out) <= sent, QueueInv(F, st),
         NEW n \in Nat, n <= Len(net), net' = SubSeq(net, n + 1, Len(net)),
         UNCHANGED <<sent, out, lost>>
  PROVE  /\ net' \in Seq(Items)
         /\ \E s2 : s2 \in [Nat -> Int] /\ s2[Current] = st[Current] - n /\ QueueInv(F, s2)'
<1>1. PICK a \in Nat, l \in Nat, c \in Nat :
        a = sent /\ l = Len(net) /\ c = Current /\ c <= a + 1 /\ 0 < c
  <2>1. sent \in Nat /\ Len(net) \in Nat /\ Len(out) \in Nat
    BY InputFacts, LenProperties DEF TypeInv
  <2>2. Current \in Nat /\ Current <= sent + 1 /\ 0 < Current
    BY <2>1 DEF Current
  <2> QED BY <2>1, <2>2
<1>2. PICK t \in Seq(Items) :
        t = net' /\ Len(t) = l - n /\ \A h \in 1 .. l - n : t[h] = net[n + h]
  <2>1. \A h \in n + 1 .. l : net[h] \in Items
    <3>1. net \in [1 .. l -> Items]
      BY <1>1, LenProperties DEF TypeInv
    <3> QED BY <3>1
  <2>2. /\ SubSeq(net, n + 1, l) \in Seq(Items)
        /\ Len(SubSeq(net, n + 1, l)) = IF n + 1 <= l THEN l - (n + 1) + 1 ELSE 0
        /\ \A h \in 1 .. l - (n + 1) + 1 : SubSeq(net, n + 1, l)[h] = net[n + 1 + h - 1]
    <3>1. PICK h1 \in Int, h2 \in Int : h1 = n + 1 /\ h2 = l
      OBVIOUS
    <3>2. \A h \in h1 .. h2 : net[h] \in Items
      BY <2>1, <3>1
    <3>3. /\ SubSeq(net, h1, h2) \in Seq(Items)
          /\ Len(SubSeq(net, h1, h2)) = IF h1 <= h2 THEN h2 - h1 + 1 ELSE 0
          /\ \A h \in 1 .. h2 - h1 + 1 : SubSeq(net, h1, h2)[h] = net[h1 + h - 1]
      BY ONLY <3>2, h1 \in Int, h2 \in Int, SubSeqProperties
    <3> QED BY <3>1, <3>3
  <2>3. n <= l /\ net' = SubSeq(net, n + 1, l)
    BY <1>1
  <2>4. l - (n + 1) + 1 = l - n /\ \A h \in 1 .. l - n : n + 1 + h - 1 = n + h
    OBVIOUS
  <2>5. \A h \in 1 .. l - n : SubSeq(net, n + 1, l)[h] = net[n + h]
    BY <2>2, <2>4
  <2>6. Len(SubSeq(net, n + 1, l)) = l - n
    BY <2>2, <2>3
  <2> QED BY <2>2, <2>3, <2>5, <2>6
<1>3. PICK s2 : s2 \in [Nat -> Int] /\ \A x \in Nat : s2[x] = st[x] - n
  <2> DEFINE v == [x \in Nat |-> st[x] - n]
  <2>1. v \in [Nat -> Int] /\ \A x \in Nat : v[x] = st[x] - n
    OBVIOUS
  <2> HIDE DEF v
  <2> QED BY <2>1
<1>4. st[a + 1] \in Int /\ s2[a + 1] = st[a + 1] - n
  <2>1. a + 1 \in Nat
    OBVIOUS
  <2> QED BY <1>3, <2>1
<1>5. ASSUME NEW b \in c .. a
      PROVE  s2[b + 1] = s2[b] + 1 + Input[b] /\ s2[b + 1] <= s2[a + 1]
  <2>1. b \in Nat /\ b + 1 \in Nat /\ b \in Blocks /\ b \in Current .. sent
    BY <1>1, InputFacts DEF TypeInv
  <2>2. st[b + 1] = st[b] + 1 + Input[b] /\ st[b + 1] <= st[a + 1]
    BY <1>1, <2>1 DEF QueueInv
  <2>3. /\ st[b] \in Int /\ st[b + 1] \in Int /\ Input[b] \in Nat
        /\ s2[b] = st[b] - n /\ s2[b + 1] = st[b + 1] - n
    BY <1>3, <2>1, InputFacts
  <2>4. s2[b + 1] = s2[b] + 1 + Input[b]
    <3>1. PICK x \in Int, y \in Int, m \in Nat : x = st[b] /\ y = st[b + 1] /\ m = Input[b]
      BY <2>3
    <3>2. y = x + 1 + m /\ s2[b] = x - n /\ s2[b + 1] = y - n
      BY <2>2, <2>3, <3>1
    <3>3. y - n = x - n + 1 + m
      BY <3>2
    <3> QED BY <3>1, <3>2, <3>3
  <2>5. s2[b + 1] <= s2[a + 1]
    <3>1. PICK x \in Int, y \in Int : x = st[b + 1] /\ y = st[a + 1]
      BY ONLY <1>4, <2>3
    <3>2. x <= y /\ s2[b + 1] = x - n /\ s2[a + 1] = y - n
      BY ONLY <1>4, <2>2, <2>3, <3>1
    <3>3. n \in Int
      BY <1>1
    <3>4. x - n <= y - n
      BY ONLY <3>2, <3>3, x \in Int, y \in Int
    <3> QED BY ONLY <3>2, <3>4
  <2> QED BY <2>4, <2>5
<1>6. Len(t) < s2[a + 1] /\ (~ lost => Len(t) + 1 = s2[a + 1])
  <2>1. l < st[a + 1] /\ (~ lost => l + 1 = st[a + 1])
    BY <1>1 DEF QueueInv
  <2>2. Len(t) = l - n
    BY <1>2
  <2>3. Len(t) < s2[a + 1]
    BY <1>4, <2>1, <2>2
  <2>4. ASSUME ~ lost
        PROVE  Len(t) + 1 = s2[a + 1]
    BY <1>4, <2>1, <2>2, <2>4
  <2> QED BY <2>3, <2>4
<1>7. ASSUME NEW b \in c .. a, NEW j \in 0 .. Input[b], s2[b] + j \in 1 .. Len(t)
      PROVE  Item(F, b, j, t[s2[b] + j])
  <2>1. b \in Nat /\ b \in Blocks /\ b \in Current .. sent
    BY <1>1, InputFacts DEF TypeInv
  <2>2. PICK h \in 1 .. l - n : h = s2[b] + j
    BY <1>2, <1>7
  <2>3. n + h = st[b] + j /\ n + h \in 1 .. l
    <3>1. st[b] \in Int /\ s2[b] = st[b] - n /\ j \in Int
      BY <1>3, <2>1, InputFacts
    <3>2. n + h = st[b] + j
      <4>1. PICK x \in Int, i \in Int : x = st[b] /\ i = j
        BY <3>1
      <4>2. h = x - n + i
        BY <2>2, <3>1, <4>1
      <4>3. n + h = x + i
        BY <4>2
      <4> QED BY <4>1, <4>3
    <3>3. n + h \in 1 .. l
      OBVIOUS
    <3> QED BY <3>2, <3>3
  <2>4. Item(F, b, j, net[n + h])
    BY <1>1, <2>1, <2>3 DEF QueueInv
  <2>5. t[h] = net[n + h]
    BY <1>2
  <2> QED BY <2>2, <2>4, <2>5
<1>8. QueueInv(F, s2)'
  <2>1. Current' = c /\ sent' = a /\ net' = t /\ lost' = lost
    BY <1>1, <1>2 DEF Current
  <2>2. \A b \in c .. a : s2[b + 1] = s2[b] + 1 + Input[b] /\ s2[b + 1] <= s2[a + 1]
    BY <1>5
  <2>3. \A b \in c .. a : \A j \in 0 .. Input[b] :
          s2[b] + j \in 1 .. Len(t) => Item(F, b, j, t[s2[b] + j])
    BY <1>7
  <2>4. Len(t) < s2[a + 1] /\ (~ lost' => Len(t) + 1 = s2[a + 1])
    BY <1>6, <2>1
  <2> QED BY <2>1, <2>2, <2>3, <2>4 DEF QueueInv
<1>9. s2[Current] = st[Current] - n
  BY <1>1, <1>3
<1> QED BY <1>2, <1>3, <1>8, <1>9

\* With new_block set, the length of the current block is what comes next.
LEMMA RecvSizeFraming ==
  ASSUME FramingInv, RecvSize
  PROVE  FramingInv'
<1>0. PICK F, st :
        /\ F \in [Nat \X Nat -> Pools] /\ st \in [Nat -> Int]
        /\ TraceInv(F) /\ NetInv(F, st)
        /\ (\E ks \in Nat : SndInv(F, ks)) /\ (\E kr \in Nat : RcvInv(F, kr))
  BY Zenon DEF FramingInv
<1>k. PICK ks \in Nat, kr \in Nat : SndInv(F, ks) /\ RcvInv(F, kr)
  BY <1>0
<1>1. /\ F \in [Nat \X Nat -> Pools] /\ st \in [Nat -> Int]
      /\ TraceInv(F) /\ NetInv(F, st) /\ SndInv(F, ks) /\ RcvInv(F, kr)
  BY <1>0, <1>k
<1>2. PICK a \in Nat, l \in Nat, c \in Nat :
        /\ a = sent /\ l = Len(net) /\ c = Current /\ c = Len(out) + 1 /\ c <= a + 1 /\ 0 < c
        /\ 0 < l
  <2>1. sent \in Nat /\ Len(net) \in Nat /\ Len(out) \in Nat
    BY InputFacts, LenProperties DEF FramingInv, TypeInv
  <2>2. Len(out) <= sent /\ net # <<>> /\ net \in Seq(Items)
    BY <1>1 DEF RecvSize, NetInv, FramingInv, TypeInv
  <2>3. Len(net) # 0
    BY <2>2, EmptySeq
  <2>4. PICK c \in Nat : c = Current /\ c = Len(out) + 1 /\ c <= sent + 1 /\ 0 < c
    <3>1. Current \in Nat /\ Current <= sent + 1 /\ 0 < Current /\ Current = Len(out) + 1
      BY <2>1, <2>2 DEF Current
    <3> QED BY <3>1
  <2>5. 0 < Len(net)
    BY <2>1, <2>3
  <2> QED BY <2>1, <2>4, <2>5
<1>3. /\ new_block /\ new_block' = FALSE /\ indata' = <<>> /\ crypto_cursor' = 0 /\ plain' = <<>>
      /\ block_size' = net[1].length /\ net' = Tail(net)
      /\ UNCHANGED <<sent, outdata, enc, lost, passing, out, dec>>
  BY DEF RecvSize, sendVars
<1>4. st[c] = 1 /\ ~ passing /\ dec = F[<<c, 0>>]
  BY <1>1, <1>2, <1>3 DEF NetInv, RcvInv
<1>5. c <= a /\ c \in Blocks
  <2>1. l < st[a + 1]
    BY <1>1, <1>2 DEF NetInv, QueueInv
  <2>2. c # a + 1
    BY <1>2, <1>4, <2>1
  <2>3. c <= a /\ a <= Len(Input)
    <3>1. c <= a
      BY <1>2, <2>2
    <3>2. a <= Len(Input)
      BY <1>2, InputFacts DEF FramingInv, TypeInv
    <3> QED BY <3>1, <3>2
  <2> QED BY <1>2, <2>3, InputFacts
<1>6. PICK m \in Nat : m = Input[c] /\ m > 0
  BY <1>5, InputFacts
<1>7. block_size' = m
  <2>1. c \in Current .. sent /\ 0 \in 0 .. Input[c] /\ st[c] + 0 \in 1 .. Len(net)
    BY <1>2, <1>4, <1>5, <1>6
  <2>2. Item(F, c, 0, net[st[c] + 0])
    BY <1>1, <2>1 DEF NetInv, QueueInv
  <2>3. st[c] + 0 = 1
    BY <1>4
  <2> QED BY <1>3, <1>6, <2>2, <2>3 DEF Item
<1>8. /\ net' \in Seq(Items)
      /\ \E s2 : s2 \in [Nat -> Int] /\ s2[Current] = st[Current] - 1 /\ QueueInv(F, s2)'
  <2>1. net' = SubSeq(net, 1 + 1, Len(net))
    <3>1. net # <<>> /\ net \in Seq(Items)
      BY DEF RecvSize, FramingInv, TypeInv
    <3>2. Tail(net) = SubSeq(net, 2, Len(net)) /\ 1 + 1 = 2
      BY <3>1, TailIsSubSeq
    <3> QED BY <1>3, <3>2
  <2>2. /\ TypeInv /\ st \in [Nat -> Int] /\ Len(out) <= sent /\ QueueInv(F, st)
        /\ UNCHANGED <<sent, out, lost>>
    BY <1>1, <1>3 DEF FramingInv, NetInv
  <2>3. 1 \in Nat /\ 1 <= Len(net)
    BY <1>2
  <2> QED BY <2>1, <2>2, <2>3, QueueShifted
<1>9. PICK s2 : s2 \in [Nat -> Int] /\ s2[c] = 0 /\ QueueInv(F, s2)'
  <2>1. st[Current] - 1 = 0
    BY <1>2, <1>4
  <2> QED BY <1>2, <1>8, <2>1
<1>10. Current' = c /\ Len(indata') = 0
  BY <1>2, <1>3, EmptySeq DEF Current
<1>11. TypeInv'
  <2>1. indata' \in Seq(Items)
    BY <1>3, EmptySeq
  <2> QED BY <1>3, <1>8, <2>1 DEF FramingInv, TypeInv
<1>12. TraceInv(F)' /\ SndInv(F, ks)'
  BY <1>1, <1>3 DEF TraceInv, CutOff, SndInv
<1>13. NetInv(F, s2)'
  <2>1. Len(out') <= sent' /\ ~ new_block'
    BY <1>1, <1>3 DEF NetInv
  <2>2. s2[Current'] = - Len(indata')
    <3>1. - Len(indata') = 0
      <4>1. PICK d \in Int : d = Len(indata') /\ d = 0 /\ - d = 0
        BY <1>10
      <4> QED BY <4>1
    <3> QED BY <1>9, <1>10, <3>1
  <2> QED BY <1>9, <2>1, <2>2 DEF NetInv
<1>14. RcvInv(F, 0)'
  <2>1. Len(out') < sent'
    BY <1>2, <1>3, <1>5
  <2>2. plain' \in Seq(Nat \X Nat) /\ Len(plain') = 0 /\ Start(0) = 0
    BY <1>3, EmptySeq, StartFacts
  <2>3. \A b \in 1 .. Len(out') : out'[b] = Plain(b)
    BY <1>1, <1>3 DEF RcvInv
  <2>4. block_size' = Input[Current'] /\ block_size' = m /\ crypto_cursor' # block_size'
    BY <1>3, <1>6, <1>7, <1>10
  <2>5. dec' = F[<<Current', 0>>]
    BY <1>3, <1>4, <1>10
  <2> QED BY <1>3, <1>6, <1>10, <2>1, <2>2, <2>3, <2>4, <2>5 DEF RcvInv
<1>15. 0 \in Nat
  OBVIOUS
<1> QED BY <1>1, <1>9, <1>11, <1>12, <1>13, <1>14, <1>15, Zenon DEF FramingInv

\* Inside of a block, its bytes are what comes next.
LEMMA RecvPieceFraming ==
  ASSUME FramingInv, RecvPiece
  PROVE  FramingInv'
<1>0. PICK F, st :
        /\ F \in [Nat \X Nat -> Pools] /\ st \in [Nat -> Int]
        /\ TraceInv(F) /\ NetInv(F, st)
        /\ (\E ks \in Nat : SndInv(F, ks)) /\ (\E kr \in Nat : RcvInv(F, kr))
  BY Zenon DEF FramingInv
<1>k. PICK ks \in Nat, kr \in Nat : SndInv(F, ks) /\ RcvInv(F, kr)
  BY <1>0
<1>1. /\ F \in [Nat \X Nat -> Pools] /\ st \in [Nat -> Int]
      /\ TraceInv(F) /\ NetInv(F, st) /\ SndInv(F, ks) /\ RcvInv(F, kr)
  BY <1>0, <1>k
<1>2. PICK a \in Nat, l \in Nat, c \in Nat, d \in Nat :
        /\ a = sent /\ l = Len(net) /\ c = Current /\ c = Len(out) + 1 /\ c <= a /\ 0 < c
        /\ d = Len(indata)
  <2>1. sent \in Nat /\ Len(net) \in Nat /\ Len(out) \in Nat /\ Len(indata) \in Nat
    BY InputFacts, LenProperties DEF FramingInv, TypeInv
  <2>2. Len(out) < sent
    BY <1>1 DEF RecvPiece, RcvInv
  <2>4. PICK c \in Nat : c = Current /\ c = Len(out) + 1 /\ c <= sent /\ 0 < c
    BY <2>1, <2>2 DEF Current
  <2> QED BY <2>1, <2>4
<1>3. c \in Blocks /\ c \in Current .. sent
  <2>1. a <= Len(Input)
    BY <1>2, InputFacts DEF FramingInv, TypeInv
  <2>2. c \in Blocks
    BY <1>2, <2>1, InputFacts
  <2> QED BY <1>2, <2>2
<1>4. PICK m \in Nat : m = Input[c] /\ block_size = m /\ d <= m /\ ~ new_block
  <2>1. block_size = Input[Current] /\ Len(indata) <= block_size
    BY <1>1 DEF RecvPiece, RcvInv
  <2> QED BY <1>2, <1>3, <2>1, InputFacts DEF RecvPiece
<1>5. PICK n \in Nat :
        /\ 0 < n /\ n <= l /\ n <= m - d
        /\ indata' = indata \o SubSeq(net, 1, n) /\ net' = SubSeq(net, n + 1, Len(net))
  <2>1. Min({l, m - d}) = IF l <= m - d THEN l ELSE m - d
    <3>1. l \in Int /\ m - d \in Int
      OBVIOUS
    <3> QED BY <3>1, LesserOf
  <2>2. \E n \in 1 .. Min({l, m - d}) :
          indata' = indata \o SubSeq(net, 1, n) /\ net' = SubSeq(net, n + 1, Len(net))
    BY <1>2, <1>4 DEF RecvPiece
  <2>3. PICK n \in 1 .. Min({l, m - d}) :
          indata' = indata \o SubSeq(net, 1, n) /\ net' = SubSeq(net, n + 1, Len(net))
    BY <2>2
  <2>4. n \in Nat /\ 0 < n /\ n <= l /\ n <= m - d
    BY <2>1
  <2> QED BY <2>3, <2>4
<1>6. UNCHANGED <<sent, outdata, enc, lost, new_block, block_size, crypto_cursor, plain, out, dec>>
      /\ passing' = TRUE
  BY DEF RecvPiece, sendVars
<1>7. st[c] = - d
  BY <1>1, <1>2, <1>4 DEF NetInv
<1>8. PICK t \in Seq(Items) :
        /\ t = indata' /\ Len(t) = d + n
        /\ \A i \in 1 .. d : t[i] = indata[i]
        /\ \A h \in 1 .. n : t[d + h] = net[h]
  <2>1. \A h \in 1 .. n : net[h] \in Items
    <3>1. net \in [1 .. l -> Items]
      BY <1>2, LenProperties DEF FramingInv, TypeInv
    <3> QED BY <1>5, <3>1
  <2>2. /\ SubSeq(net, 1, n) \in Seq(Items)
        /\ Len(SubSeq(net, 1, n)) = IF 1 <= n THEN n - 1 + 1 ELSE 0
        /\ \A h \in 1 .. n - 1 + 1 : SubSeq(net, 1, n)[h] = net[1 + h - 1]
    BY <2>1, SubSeqProperties
  <2>3. PICK u \in Seq(Items) :
          u = SubSeq(net, 1, n) /\ Len(u) = n /\ \A h \in 1 .. n : u[h] = net[h]
    <3>1. n - 1 + 1 = n /\ 1 <= n /\ \A h \in 1 .. n : 1 + h - 1 = h
      BY <1>5
    <3>2. \A h \in 1 .. n : SubSeq(net, 1, n)[h] = net[h]
      BY <2>2, <3>1
    <3>3. Len(SubSeq(net, 1, n)) = n
      BY <2>2, <3>1
    <3> QED BY <2>2, <3>2, <3>3
  <2>4. PICK y \in Seq(Items) : y = indata /\ Len(y) = d
    BY <1>2 DEF FramingInv, TypeInv
  <2>5. /\ y \o u \in Seq(Items) /\ Len(y \o u) = Len(y) + Len(u)
        /\ \A i \in 1 .. Len(y) + Len(u) :
             (y \o u)[i] = IF i <= Len(y) THEN y[i] ELSE u[i - Len(y)]
    BY ONLY y \in Seq(Items), u \in Seq(Items), ConcatProperties
  <2>6. PICK w \in Seq(Items) :
          /\ w = y \o u /\ Len(w) = d + n
          /\ \A i \in 1 .. d + n : w[i] = IF i <= d THEN y[i] ELSE u[i - d]
    <3>1. Len(y) = d /\ Len(u) = n
      BY <2>3, <2>4
    <3> QED BY <2>5, <3>1
  <2>7. \A i \in 1 .. d : w[i] = y[i]
    BY <2>6
  <2>8. ASSUME NEW h \in 1 .. n
        PROVE  w[d + h] = u[h]
    <3>1. d + h \in 1 .. d + n /\ ~ (d + h <= d) /\ d + h - d = h
      OBVIOUS
    <3> QED BY <2>6, <3>1
  <2>9. w = indata'
    <3>1. w = indata \o SubSeq(net, 1, n)
      BY <2>3, <2>4, <2>6
    <3> QED BY <1>5, <3>1
  <2>10. \A i \in 1 .. d : w[i] = indata[i]
    BY <2>4, <2>7
  <2>11. \A h \in 1 .. n : w[d + h] = net[h]
    BY <2>3, <2>8
  <2> QED BY <2>6, <2>9, <2>10, <2>11
<1>9. /\ net' \in Seq(Items)
      /\ \E s2 : s2 \in [Nat -> Int] /\ s2[Current] = st[Current] - n /\ QueueInv(F, s2)'
  <2>1. /\ TypeInv /\ st \in [Nat -> Int] /\ Len(out) <= sent /\ QueueInv(F, st)
        /\ n \in Nat /\ n <= Len(net) /\ UNCHANGED <<sent, out, lost>>
        /\ net' = SubSeq(net, n + 1, Len(net))
    BY <1>1, <1>2, <1>5, <1>6 DEF FramingInv, NetInv
  <2> QED BY <2>1, QueueShifted
<1>10. PICK s2 : s2 \in [Nat -> Int] /\ s2[c] = - (d + n) /\ QueueInv(F, s2)'
  <2>1. st[Current] - n = - (d + n)
    BY <1>2, <1>7
  <2> QED BY <1>2, <1>9, <2>1
<1>11. Current' = c
  BY <1>2, <1>6 DEF Current
<1>12. TypeInv'
  BY <1>6, <1>8, <1>9 DEF FramingInv, TypeInv
<1>13. TraceInv(F)' /\ SndInv(F, ks)'
  BY <1>1, <1>6 DEF TraceInv, CutOff, SndInv
<1>14. NetInv(F, s2)'
  <2>1. Len(out') <= sent' /\ s2[Current'] = - Len(indata') /\ ~ new_block'
    BY <1>1, <1>4, <1>6, <1>8, <1>10, <1>11 DEF NetInv
  <2> QED BY <1>10, <2>1 DEF NetInv
<1>15. \A i \in 1 .. d + n : Byte(F, c, i, t[i])
  <2>1. ASSUME NEW i \in 1 .. d
        PROVE  Byte(F, c, i, t[i])
    <3>1. Byte(F, c, i, indata[i])
      BY <1>1, <1>2, <1>4 DEF RcvInv
    <3> QED BY <1>8, <3>1
  <2>2. ASSUME NEW h \in 1 .. n
        PROVE  Byte(F, c, d + h, t[d + h])
    <3>1. d + h \in 0 .. Input[c] /\ d + h # 0 /\ st[c] + (d + h) = h /\ h \in 1 .. Len(net)
      <4>1. st[c] = - d
        BY ONLY <1>2, <1>7
      <4>2. h \in 1 .. n /\ n <= l /\ n <= m - d /\ l = Len(net) /\ m = Input[c]
        BY ONLY <1>2, <1>4, <1>5, <2>2
      <4>3. d + h \in 0 .. m /\ d + h # 0 /\ - d + (d + h) = h /\ h \in 1 .. l
        BY ONLY <4>2, d \in Nat, n \in Nat, l \in Nat, m \in Nat
      <4> QED BY ONLY <4>1, <4>2, <4>3
    <3>2. Item(F, c, d + h, net[h])
      BY <1>1, <1>3, <3>1 DEF NetInv, QueueInv
    <3> QED BY <1>8, <3>1, <3>2 DEF Item
  <2>3. ASSUME NEW i \in 1 .. d + n, ~ (i <= d)
        PROVE  Byte(F, c, i, t[i])
    <3>1. PICK h \in 1 .. n : i = d + h
      <4>1. i - d \in 1 .. n /\ i = d + (i - d)
        BY <2>3
      <4> QED BY <4>1
    <3> QED BY <2>2, <3>1
  <2>4. ASSUME NEW i \in 1 .. d + n
        PROVE  i \in 1 .. d \/ ~ (i <= d)
    OBVIOUS
  <2> QED BY <2>1, <2>3, <2>4
<1>16. RcvInv(F, kr)'
  <2>1. crypto_cursor \in 0 .. d + n /\ d + n <= m /\ crypto_cursor \in 0 .. d
    <3>1. crypto_cursor \in 0 .. d
      BY <1>1, <1>2, <1>4 DEF RcvInv
    <3> QED BY <1>5, <3>1
  <2>2. \A i \in 1 .. Len(indata') : Byte(F, Current', i, indata'[i])
    BY <1>8, <1>11, <1>15
  <2>3. ~ new_block' /\ Len(indata') = d + n
    BY <1>4, <1>6, <1>8
  <2> QED BY <1>1, <1>2, <1>4, <1>6, <1>11, <2>1, <2>2, <2>3 DEF RcvInv
<1> QED BY <1>1, <1>10, <1>12, <1>13, <1>14, <1>16, Zenon DEF FramingInv

\* What is handed over is the chunk that senddata had cut there: a sector that is full, with
\* more to come, or what remains of the block.
LEMMA HandOverFraming ==
  ASSUME FramingInv, HandOver
  PROVE  FramingInv'
<1>0. PICK F, st :
        /\ F \in [Nat \X Nat -> Pools] /\ st \in [Nat -> Int]
        /\ TraceInv(F) /\ NetInv(F, st)
        /\ (\E ks \in Nat : SndInv(F, ks)) /\ (\E kr \in Nat : RcvInv(F, kr))
  BY Zenon DEF FramingInv
<1>k. PICK ks \in Nat, kr \in Nat : SndInv(F, ks) /\ RcvInv(F, kr)
  BY <1>0
<1>1. /\ F \in [Nat \X Nat -> Pools] /\ st \in [Nat -> Int]
      /\ TraceInv(F) /\ NetInv(F, st) /\ SndInv(F, ks) /\ RcvInv(F, kr)
  BY <1>0, <1>k
<1>2. PICK a \in Nat, c \in Nat, d \in Nat, e \in Nat :
        /\ a = sent /\ c = Current /\ c <= a /\ 0 < c /\ d = Len(indata)
        /\ e = crypto_cursor /\ e <= d /\ ~ new_block
  <2>1. sent \in Nat /\ Len(out) \in Nat /\ Len(indata) \in Nat
    BY InputFacts, LenProperties DEF FramingInv, TypeInv
  <2>2. Len(out) < sent /\ ~ new_block /\ crypto_cursor \in 0 .. Len(indata)
    BY <1>1 DEF HandOver, RcvInv
  <2>3. Current \in Nat /\ Current <= sent /\ 0 < Current
    BY <2>1, <2>2 DEF Current
  <2>4. crypto_cursor \in Nat /\ crypto_cursor <= Len(indata)
    BY <2>1, <2>2
  <2> QED BY <2>1, <2>2, <2>3, <2>4
<1>3. c \in Blocks
  <2>1. a <= Len(Input)
    BY <1>2, InputFacts DEF FramingInv, TypeInv
  <2> QED BY <1>2, <2>1, InputFacts
<1>4. PICK m \in Nat : m = Input[c] /\ block_size = m /\ d <= m
  <2>1. block_size = Input[Current] /\ Len(indata) <= block_size
    BY <1>1, <1>2 DEF RcvInv
  <2> QED BY <1>2, <1>3, <2>1, InputFacts
<1>5. PICK s \in Nat, n \in Nat :
        /\ s = crypto_buff_len /\ n = Handed /\ n > 0 /\ e + n <= d /\ n <= s
        /\ (n = s /\ e + s < d) \/ (d = m /\ n = m - e /\ ~ (e + s < d))
  <2>1. crypto_buff_len \in Nat /\ Handed > 0
    BY NAssumption DEF HandOver
  <2>2. Handed = IF e + crypto_buff_len < d THEN crypto_buff_len
                 ELSE IF d = m THEN d - e ELSE 0
    BY <1>2, <1>4 DEF Handed, Complete
  <2>3. PICK s \in Nat : s = crypto_buff_len
    BY <2>1
  <2>4. CASE e + s < d
    <3>1. Handed = s /\ s > 0
      BY <2>1, <2>2, <2>3, <2>4
    <3>2. e + s <= d /\ s <= s
      BY <2>4
    <3>3. s = s /\ e + s < d
      BY <2>4
    <3> QED BY <2>3, <3>1, <3>2, <3>3
  <2>5. CASE ~ (e + s < d)
    <3>1. d = m
      BY <2>1, <2>2, <2>3, <2>5
    <3>2. Handed = d - e /\ d - e \in Nat /\ d - e <= s /\ e + (d - e) = d
      BY <1>2, <2>2, <2>3, <2>5, <3>1
    <3> QED BY <2>1, <2>3, <2>5, <3>1, <3>2
  <2> QED BY <2>4, <2>5
<1>6. e < m /\ e = Start(kr) /\ dec = F[<<c, kr>>]
  <2>1. e < m
    BY <1>2, <1>4, <1>5
  <2>2. RcvInv(F, kr) /\ ~ new_block /\ crypto_cursor # block_size
    BY <1>1, <1>2, <1>4, <2>1
  <2>3. crypto_cursor = Start(kr) /\ dec = F[<<Current, kr>>]
    BY <2>2 DEF RcvInv
  <2> QED BY <1>2, <2>1, <2>3
<1>7. /\ n = SizeOf(c, kr)
      /\ IF e + n < m THEN After(c, kr) = <<c, kr + 1>> /\ e + n = Start(kr + 1)
         ELSE e + n = m /\ After(c, kr) = <<c + 1, 0>>
  <2>1. IF e + s < m THEN SizeOf(c, kr) = s /\ After(c, kr) = <<c, kr + 1>>
        ELSE SizeOf(c, kr) = m - e /\ After(c, kr) = <<c + 1, 0>>
    BY <1>3, <1>4, <1>5, <1>6, SizeIs
  <2>2. Start(kr + 1) = e + s
    BY <1>5, <1>6, StartFacts
  <2>3. CASE e + s < m
    <3>1. n = s
      BY <1>2, <1>5, <2>3
    <3> QED BY <2>1, <2>2, <2>3, <3>1
  <2>4. CASE ~ (e + s < m)
    <3>1. n = m - e /\ e + n = m
      BY <1>4, <1>5, <1>6, <2>4
    <3> QED BY <2>1, <2>4, <3>1
  <2> QED BY <2>3, <2>4
<1>8. dec' = F[After(c, kr)] /\ dec' \in Pools /\ crypto_cursor' = e + n
  <2>1. CutOff(c, kr)
    BY <1>2, <1>4, <1>6 DEF CutOff
  <2>2. F[After(c, kr)] = Passed(F[<<c, kr>>], SizeOf(c, kr))
    BY <1>1, <1>3, <2>1 DEF TraceInv
  <2>3. dec' = Passed(dec, n) /\ crypto_cursor' = e + n
    BY <1>2, <1>5 DEF HandOver
  <2>4. Passed(dec, n) \in Pools
    BY PoolPassed DEF FramingInv, TypeInv
  <2> QED BY <1>6, <1>7, <2>2, <2>3, <2>4
<1>9. UNCHANGED <<sent, outdata, enc, net, lost, passing, new_block, block_size, indata, out>>
  BY DEF HandOver, sendVars
<1>10. PICK p \in Seq(Nat \X Nat) :
         p = plain /\ Len(p) = e /\ \A i \in 1 .. e : p[i] = <<c, i>>
  BY <1>1, <1>2 DEF RcvInv
<1>11. PICK u \in Seq(Nat \X Nat) :
         plain' = plain \o u /\ Len(u) = n /\ \A i \in 1 .. n : u[i] = <<c, e + i>>
  <2> DEFINE v == [i \in 1 .. n |-> Decrypted(indata[e + i], Place(dec, i))]
  <2>1. plain' = plain \o v
    BY <1>2, <1>5 DEF HandOver
  <2>2. ASSUME NEW i \in 1 .. n
        PROVE  v[i] = <<c, e + i>> /\ <<c, e + i>> \in Nat \X Nat
    <3>1. e + i \in 1 .. d /\ e < e + i /\ e + i <= e + s /\ e + i - e = i
      BY <1>2, <1>5
    <3>2. Byte(F, c, e + i, indata[e + i])
      BY <1>1, <1>2, <3>1 DEF RcvInv
    <3>3. indata[e + i].value = <<c, e + i>>
      BY <3>2 DEF Byte
    <3>4. indata[e + i].place = Place(F[<<c, kr>>], i)
      <4>0. PICK pl : pl = indata[e + i].place
        OBVIOUS
      <4>1. PICK j \in Nat : j = e + i /\ pl = indata[j].place
        BY <3>1, <4>0
      <4>2. Start(kr) < j /\ j <= Start(kr) + crypto_buff_len /\ j - Start(kr) = i
        BY <1>5, <1>6, <3>1, <4>1
      <4>3. MetAt(F, c, j, pl)
        BY <3>2, <4>1 DEF Byte
      <4>4. pl = Place(F[<<c, kr>>], j - Start(kr))
        BY <4>2, <4>3 DEF MetAt
      <4> QED BY <4>1, <4>2, <4>4
    <3>5. Decrypted(indata[e + i], Place(dec, i)) = <<c, e + i>>
      BY <1>6, <3>3, <3>4 DEF Decrypted
    <3> QED BY <3>5
  <2>3. v \in Seq(Nat \X Nat) /\ Len(v) = n
    <3>1. v \in [1 .. n -> Nat \X Nat]
      BY <2>2
    <3> HIDE DEF v
    <3> QED BY <3>1
  <2>4. \A i \in 1 .. n : v[i] = <<c, e + i>>
    BY <2>2
  <2> HIDE DEF v
  <2> QED BY <2>1, <2>3, <2>4
<1>12. PICK w \in Seq(Nat \X Nat) :
         w = plain' /\ Len(w) = e + n /\ \A i \in 1 .. e + n : w[i] = <<c, i>>
  <2>1. /\ p \o u \in Seq(Nat \X Nat) /\ Len(p \o u) = Len(p) + Len(u)
        /\ \A i \in 1 .. Len(p) + Len(u) :
             (p \o u)[i] = IF i <= Len(p) THEN p[i] ELSE u[i - Len(p)]
    BY ONLY p \in Seq(Nat \X Nat), u \in Seq(Nat \X Nat), ConcatProperties
  <2>2. Len(p) = e /\ Len(u) = n
    BY <1>10, <1>11
  <2>3. ASSUME NEW i \in 1 .. e + n
        PROVE  (p \o u)[i] = <<c, i>>
    <3>1. (p \o u)[i] = IF i <= e THEN p[i] ELSE u[i - e]
      BY <2>1, <2>2
    <3>2. CASE i <= e
      <4>1. i \in 1 .. e
        BY <3>2
      <4> QED BY <1>10, <3>1, <3>2, <4>1
    <3>3. CASE ~ (i <= e)
      <4>1. i - e \in 1 .. n /\ e + (i - e) = i
        BY <3>3
      <4> QED BY <1>11, <3>1, <3>3, <4>1
    <3> QED BY <3>2, <3>3
  <2>4. plain' = p \o u /\ Len(p \o u) = e + n
    BY <1>10, <1>11, <2>1, <2>2
  <2> QED BY <2>1, <2>3, <2>4
<1>13. TypeInv'
  BY <1>8, <1>9 DEF FramingInv, TypeInv
<1>14. TraceInv(F)' /\ SndInv(F, ks)' /\ NetInv(F, st)'
  BY <1>1, <1>9 DEF TraceInv, CutOff, SndInv, NetInv, QueueInv, Current
<1>15. RcvInv(F, kr + 1)'
  <2>1. Current' = c /\ Len(out') < sent' /\ block_size' = Input[c] /\ Len(indata') = d /\ d <= m
        /\ block_size' = m /\ ~ new_block'
    BY <1>1, <1>2, <1>4, <1>9 DEF RcvInv, Current
  <2>2. \A b \in 1 .. Len(out') : out'[b] = Plain(b)
    BY <1>1, <1>9 DEF RcvInv
  <2>3. \A i \in 1 .. d : Byte(F, c, i, indata'[i])
    BY <1>1, <1>2, <1>9 DEF RcvInv
  <2>4. crypto_cursor' = e + n /\ e + n \in 0 .. d
    BY <1>5, <1>8
  <2>5. /\ plain' \in Seq(Nat \X Nat) /\ Len(plain') = e + n
        /\ \A i \in 1 .. e + n : plain'[i] = <<c, i>>
    BY <1>12
  <2>6. IF e + n = m THEN dec' = F[<<c + 1, 0>>]
        ELSE e + n = Start(kr + 1) /\ dec' = F[<<c, kr + 1>>]
    <3>1. CASE e + n < m
      <4>1. e + n # m
        BY <3>1
      <4> QED BY <1>7, <1>8, <3>1, <4>1
    <3>2. CASE ~ (e + n < m)
      BY <1>7, <1>8, <3>2
    <3> QED BY <3>1, <3>2
  <2> QED BY <2>1, <2>2, <2>3, <2>4, <2>5, <2>6 DEF RcvInv
<1>16. kr + 1 \in Nat
  OBVIOUS
<1> QED BY <1>1, <1>13, <1>14, <1>15, <1>16, Zenon DEF FramingInv

\* A block that is complete has been handed over to its end.
LEMMA LoopEndFraming ==
  ASSUME FramingInv, LoopEnd
  PROVE  FramingInv'
<1>0. PICK F, st :
        /\ F \in [Nat \X Nat -> Pools] /\ st \in [Nat -> Int]
        /\ TraceInv(F) /\ NetInv(F, st)
        /\ (\E ks \in Nat : SndInv(F, ks)) /\ (\E kr \in Nat : RcvInv(F, kr))
  BY Zenon DEF FramingInv
<1>k. PICK ks \in Nat, kr \in Nat : SndInv(F, ks) /\ RcvInv(F, kr)
  BY <1>0
<1>1. /\ F \in [Nat \X Nat -> Pools] /\ st \in [Nat -> Int]
      /\ TraceInv(F) /\ NetInv(F, st) /\ SndInv(F, ks) /\ RcvInv(F, kr)
  BY <1>0, <1>k
<1>2. /\ UNCHANGED <<sent, outdata, enc, net, lost, block_size, indata, crypto_cursor, plain, dec>>
      /\ new_block' = Complete /\ passing' = FALSE
      /\ out' = IF Complete THEN Append(out, plain) ELSE out
  BY DEF LoopEnd, sendVars
<1>3. ~ new_block
  BY <1>1 DEF LoopEnd, RcvInv
<1>4. CASE ~ Complete
  <2>1. UNCHANGED <<out, new_block>>
    BY <1>2, <1>3, <1>4 DEF FramingInv, TypeInv, Complete
  <2>2. TypeInv'
    BY <1>2, <2>1 DEF FramingInv, TypeInv
  <2>3. TraceInv(F)' /\ SndInv(F, ks)'
    BY <1>1, <1>2 DEF TraceInv, CutOff, SndInv
  <2>4. NetInv(F, st)'
    BY <1>1, <1>2, <2>1 DEF NetInv, QueueInv, Current
  <2>5. RcvInv(F, kr)'
    <3>1. RcvInv(F, kr) /\ ~ new_block'
      BY <1>1, <1>3, <2>1
    <3> QED BY <1>2, <1>3, <2>1, <3>1 DEF RcvInv, Current
  <2> QED BY <1>1, <2>2, <2>3, <2>4, <2>5, Zenon DEF FramingInv
<1>5. CASE Complete
  <2>1. PICK a \in Nat, o \in Nat, c \in Nat, d \in Nat, e \in Nat, m \in Nat :
          /\ a = sent /\ o = Len(out) /\ c = Current /\ c = o + 1 /\ c <= a /\ 0 < c
          /\ d = Len(indata) /\ e = crypto_cursor /\ e <= d
          /\ m = block_size /\ m = Input[c] /\ d = m
    <3>1. sent \in Nat /\ Len(out) \in Nat /\ Len(indata) \in Nat
      BY InputFacts, LenProperties DEF FramingInv, TypeInv
    <3>2. /\ Len(out) < sent /\ crypto_cursor \in 0 .. Len(indata) /\ Len(indata) = block_size
          /\ block_size = Input[Current]
      BY <1>1, <1>3, <1>5 DEF RcvInv, Complete
    <3>3. Current \in Nat /\ Current <= sent /\ 0 < Current /\ Current = Len(out) + 1
      BY <3>1, <3>2 DEF Current
    <3>4. crypto_cursor \in Nat /\ crypto_cursor <= Len(indata)
      BY <3>1, <3>2
    <3> QED BY <3>1, <3>2, <3>3, <3>4
  <2>2. e = m
    <3>1. Handed = 0 /\ crypto_buff_len \in Nat /\ crypto_buff_len > 0
      BY NAssumption DEF LoopEnd
    <3>2. Handed = IF e + crypto_buff_len < d THEN crypto_buff_len ELSE d - e
      BY <1>5, <2>1 DEF Handed
    <3> QED BY <2>1, <3>1, <3>2
  <2>3. dec = F[<<c + 1, 0>>]
    BY <1>1, <1>3, <2>1, <2>2 DEF RcvInv
  <2>4. plain = Plain(c) /\ plain \in Seq(Nat \X Nat)
    <3>1. PICK p \in Seq(Nat \X Nat) : p = plain /\ Len(p) = m /\ \A i \in 1 .. m : p[i] = <<c, i>>
      BY <1>1, <1>3, <2>1, <2>2 DEF RcvInv
    <3>2. p = [i \in 1 .. m |-> p[i]]
      BY <3>1, LenProperties
    <3>3. p = [i \in 1 .. m |-> <<c, i>>]
      BY <3>1, <3>2
    <3> QED BY <2>1, <3>1, <3>3 DEF Plain
  <2>5. PICK z \in Seq(Seq(Nat \X Nat)) :
          z = out' /\ Len(z) = c /\ \A b \in 1 .. c : z[b] = Plain(b)
    <3>1. PICK y \in Seq(Seq(Nat \X Nat)) : y = out /\ Len(y) = o
      BY <2>1 DEF FramingInv, TypeInv
    <3>2. PICK p \in Seq(Nat \X Nat) : p = plain /\ p = Plain(c)
      BY <2>4
    <3>3. /\ Append(y, p) \in Seq(Seq(Nat \X Nat)) /\ Len(Append(y, p)) = Len(y) + 1
          /\ \A b \in 1 .. Len(y) : Append(y, p)[b] = y[b]
          /\ Append(y, p)[Len(y) + 1] = p
      BY ONLY y \in Seq(Seq(Nat \X Nat)), p \in Seq(Nat \X Nat), AppendProperties
    <3>4. out' = Append(y, p)
      BY <1>2, <1>5, <3>1, <3>2
    <3>5. \A b \in 1 .. o : Append(y, p)[b] = Plain(b)
      BY <1>1, <2>1, <3>1, <3>3 DEF RcvInv
    <3>6. Append(y, p)[c] = Plain(c) /\ Len(Append(y, p)) = c
      BY <2>1, <3>1, <3>2, <3>3
    <3>7. ASSUME NEW b \in 1 .. c
          PROVE  Append(y, p)[b] = Plain(b)
      <4>1. b \in 1 .. o \/ b = c
        BY <2>1
      <4> QED BY <3>5, <3>6, <4>1
    <3> QED BY <3>3, <3>4, <3>6, <3>7
  <2>6. Current' = c + 1
    BY <2>5 DEF Current
  <2>7. TypeInv'
    BY <1>2, <1>5, <2>5 DEF FramingInv, TypeInv
  <2>8. TraceInv(F)' /\ SndInv(F, ks)'
    BY <1>1, <1>2 DEF TraceInv, CutOff, SndInv
  <2>9. NetInv(F, st)'
    <3>1. QueueInv(F, st)
      BY <1>1 DEF NetInv
    <3>2. \A b \in c + 1 .. a : b \in Current .. sent
      BY <2>1
    <3>3. QueueInv(F, st)'
      BY <1>2, <2>1, <2>6, <3>1, <3>2 DEF QueueInv
    <3>4. st[c + 1] = 1
      <4>1. st[c] = - d
        BY <1>1, <1>3, <2>1 DEF NetInv
      <4>2. st[c + 1] = st[c] + 1 + m
        <5>1. c \in Current .. sent
          BY <2>1
        <5> QED BY <2>1, <3>1, <5>1 DEF QueueInv
      <4> QED BY <2>1, <4>1, <4>2
    <3>5. Len(out') <= sent' /\ new_block'
      BY <1>2, <1>5, <2>1, <2>5
    <3> QED BY <2>6, <3>3, <3>4, <3>5 DEF NetInv
  <2>10. RcvInv(F, 0)'
    <3>1. new_block' /\ ~ passing' /\ dec' = F[<<Current', 0>>]
      BY <1>2, <1>5, <2>3, <2>6
    <3>2. \A b \in 1 .. Len(out') : out'[b] = Plain(b)
      BY <2>5
    <3> QED BY <3>1, <3>2 DEF RcvInv
  <2>11. 0 \in Nat
    OBVIOUS
  <2> QED BY <1>1, <2>7, <2>8, <2>9, <2>10, <2>11, Zenon DEF FramingInv
<1> QED BY <1>4, <1>5

-----------------------------------------------------------------------------
(* The whole *)

\* At first every entry of the table is the fresh pool.
LEMMA FramingInit == Init => FramingInv
<1> SUFFICES ASSUME Init PROVE FramingInv
  OBVIOUS
<1>1. /\ sent = 0 /\ outdata = <<>> /\ enc = Fresh /\ dec = Fresh /\ net = <<>> /\ lost = FALSE
      /\ passing = FALSE /\ new_block = TRUE /\ indata = <<>> /\ out = <<>>
      /\ Len(outdata) = 0 /\ Len(net) = 0 /\ Len(out) = 0 /\ Current = 1
  BY EmptySeq DEF Init, Current
<1>2. Fresh \in Pools
  <2>1. 0 \in Workers
    BY NAssumption DEF Workers
  <2> QED BY <2>1 DEF Fresh, Pools
<1>3. TypeInv
  <2>1. 0 \in 0 .. Len(Input)
    BY InputFacts
  <2>2. /\ outdata \in Seq(Bytes) /\ net \in Seq(Items) /\ indata \in Seq(Items)
        /\ out \in Seq(Seq(Nat \X Nat))
    BY <1>1, EmptySeq
  <2> QED BY <1>1, <1>2, <2>1, <2>2 DEF TypeInv
<1>4. PICK F : F \in [Nat \X Nat -> Pools] /\ \A b \in Nat, k \in Nat : F[<<b, k>>] = Fresh
  <2> DEFINE v == [x \in Nat \X Nat |-> Fresh]
  <2>1. v \in [Nat \X Nat -> Pools] /\ \A b \in Nat, k \in Nat : v[<<b, k>>] = Fresh
    BY <1>2
  <2> HIDE DEF v
  <2> QED BY <2>1
<1>5. PICK st : st \in [Nat -> Int] /\ st[1] = 1
  <2> DEFINE v == [x \in Nat |-> 1]
  <2>1. v \in [Nat -> Int] /\ v[1] = 1
    OBVIOUS
  <2> HIDE DEF v
  <2> QED BY <2>1
<1>6. TraceInv(F)
  <2> SUFFICES ASSUME NEW b \in Blocks, NEW k \in Nat, CutOff(b, k)
               PROVE  FALSE
    BY DEF TraceInv
  <2>1. b \in Nat /\ b > 0 /\ Start(k) \in Nat
    BY InputFacts, StartFacts
  <2>2. Start(k) < 0
    BY <1>1, <2>1 DEF CutOff
  <2> QED BY <2>1, <2>2
<1>7. NetInv(F, st)
  <2>1. sent + 1 = 1 /\ Current = 1 /\ Current .. sent = {}
    BY <1>1
  <2>2. Len(net) < st[1] /\ Len(net) + 1 = st[1]
    BY <1>1, <1>5
  <2> QED BY <1>1, <1>5, <2>1, <2>2 DEF NetInv, QueueInv
<1>8. SndInv(F, 0)
  <2>1. Start(0) = 0 /\ sent + 1 = 1 /\ 1 .. Len(outdata) = {}
    BY <1>1, StartFacts
  <2>2. 1 \in Blocks => Input[1] \in Nat /\ Input[1] > 0
    BY InputFacts
  <2>3. F[<<1, 0>>] = Fresh
    BY <1>4
  <2> QED BY <1>1, <2>1, <2>2, <2>3 DEF SndInv
<1>9. RcvInv(F, 0)
  <2>1. 1 .. Len(out) = {} /\ F[<<1, 0>>] = Fresh
    BY <1>1, <1>4
  <2> QED BY <1>1, <2>1 DEF RcvInv
<1>10. 0 \in Nat
  OBVIOUS
<1> QED BY <1>3, <1>4, <1>5, <1>6, <1>7, <1>8, <1>9, <1>10, Zenon DEF FramingInv

\* Only what is on its way, and what still comes, is cut off when the connection is lost.
LEMMA LoseFraming ==
  ASSUME FramingInv, Lose
  PROVE  FramingInv'
<1>0. PICK F, st :
        /\ F \in [Nat \X Nat -> Pools] /\ st \in [Nat -> Int]
        /\ TraceInv(F) /\ NetInv(F, st)
        /\ (\E ks \in Nat : SndInv(F, ks)) /\ (\E kr \in Nat : RcvInv(F, kr))
  BY Zenon DEF FramingInv
<1>k. PICK ks \in Nat, kr \in Nat : SndInv(F, ks) /\ RcvInv(F, kr)
  BY <1>0
<1>1. /\ F \in [Nat \X Nat -> Pools] /\ st \in [Nat -> Int]
      /\ TraceInv(F) /\ NetInv(F, st) /\ SndInv(F, ks) /\ RcvInv(F, kr)
  BY <1>0, <1>k
<1>2. PICK n \in 0 .. Len(net) : net' = SubSeq(net, 1, n)
  BY DEF Lose
<1>3. PICK l \in Nat, a \in Nat : l = Len(net) /\ a = sent /\ n \in Nat /\ n <= l
  <2>1. Len(net) \in Nat /\ sent \in Nat
    BY InputFacts, LenProperties DEF FramingInv, TypeInv
  <2> QED BY <2>1
<1>4. /\ UNCHANGED <<sent, outdata, enc, passing, new_block, block_size, indata, crypto_cursor>>
      /\ UNCHANGED <<plain, out, dec>> /\ lost' = TRUE
  BY DEF Lose, sendVars, recvVars
<1>5. PICK t \in Seq(Items) : t = net' /\ Len(t) = n /\ \A h \in 1 .. n : t[h] = net[h]
  <2>1. \A h \in 1 .. n : net[h] \in Items
    <3>1. net \in [1 .. l -> Items]
      BY <1>3, LenProperties DEF FramingInv, TypeInv
    <3> QED BY <1>3, <3>1
  <2>2. /\ SubSeq(net, 1, n) \in Seq(Items)
        /\ Len(SubSeq(net, 1, n)) = IF 1 <= n THEN n - 1 + 1 ELSE 0
        /\ \A h \in 1 .. n - 1 + 1 : SubSeq(net, 1, n)[h] = net[1 + h - 1]
    BY <1>3, <2>1, SubSeqProperties
  <2>3. n - 1 + 1 = n /\ (~ (1 <= n) => n = 0) /\ \A h \in 1 .. n : 1 + h - 1 = h
    BY <1>3
  <2>4. \A h \in 1 .. n : SubSeq(net, 1, n)[h] = net[h]
    BY <2>2, <2>3
  <2>5. Len(SubSeq(net, 1, n)) = n
    BY <2>2, <2>3
  <2> QED BY <1>2, <2>2, <2>4, <2>5
<1>6. TypeInv'
  BY <1>4, <1>5 DEF FramingInv, TypeInv
<1>7. TraceInv(F)' /\ SndInv(F, ks)'
  BY <1>1, <1>4 DEF TraceInv, CutOff, SndInv
<1>8. QueueInv(F, st)'
  <2>1. QueueInv(F, st)
    BY <1>1 DEF NetInv
  <2>2. Current' = Current /\ sent' = sent /\ net' = t /\ lost'
    BY <1>4, <1>5 DEF Current
  <2>3. Len(t) < st[sent + 1]
    <3>1. l < st[a + 1] /\ st[a + 1] \in Int
      BY <1>1, <1>3, <2>1 DEF QueueInv
    <3> QED BY <1>3, <1>5, <3>1
  <2>4. ASSUME NEW b \in Current .. sent, NEW j \in 0 .. Input[b], st[b] + j \in 1 .. Len(t)
        PROVE  Item(F, b, j, t[st[b] + j])
    <3>1. PICK h \in 1 .. n : h = st[b] + j
      BY <1>5, <2>4
    <3>2. h \in 1 .. Len(net)
      BY <1>3
    <3>3. Item(F, b, j, net[h])
      BY <2>1, <3>1, <3>2 DEF QueueInv
    <3> QED BY <1>5, <3>1, <3>3
  <2> QED BY <2>1, <2>2, <2>3, <2>4 DEF QueueInv
<1>9. NetInv(F, st)'
  <2>1. Len(out') <= sent' /\ st[Current'] = IF new_block' THEN 1 ELSE - Len(indata')
    BY <1>1, <1>4 DEF NetInv, Current
  <2> QED BY <1>8, <2>1 DEF NetInv
<1>10. RcvInv(F, kr)'
  BY <1>1, <1>4 DEF RcvInv, Current
<1> QED BY <1>1, <1>6, <1>7, <1>9, <1>10, Zenon DEF FramingInv

\* The invariant does not depend on the flags that end the loops.
LEMMA OthersFraming ==
  ASSUME FramingInv, UNCHANGED <<sendVars, net, lost, recvVars>>
  PROVE  FramingInv'
<1>0. PICK F, st :
        /\ F \in [Nat \X Nat -> Pools] /\ st \in [Nat -> Int]
        /\ TraceInv(F) /\ NetInv(F, st)
        /\ (\E ks \in Nat : SndInv(F, ks)) /\ (\E kr \in Nat : RcvInv(F, kr))
  BY Zenon DEF FramingInv
<1>k. PICK ks \in Nat, kr \in Nat : SndInv(F, ks) /\ RcvInv(F, kr)
  BY <1>0
<1>1. /\ F \in [Nat \X Nat -> Pools] /\ st \in [Nat -> Int]
      /\ TraceInv(F) /\ NetInv(F, st) /\ SndInv(F, ks) /\ RcvInv(F, kr)
  BY <1>0, <1>k
<1>2. /\ UNCHANGED <<sent, outdata, enc, net, lost, passing, new_block, block_size, indata>>
      /\ UNCHANGED <<crypto_cursor, plain, out, dec>>
  BY DEF sendVars, recvVars
<1>3. TypeInv'
  BY <1>2 DEF FramingInv, TypeInv
<1>4. TraceInv(F)' /\ SndInv(F, ks)'
  BY <1>1, <1>2 DEF TraceInv, CutOff, SndInv
<1>5. NetInv(F, st)'
  BY <1>1, <1>2 DEF NetInv, QueueInv, Current
<1>6. RcvInv(F, kr)'
  BY <1>1, <1>2 DEF RcvInv, Current
<1> QED BY <1>1, <1>3, <1>4, <1>5, <1>6, Zenon DEF FramingInv

\* Both ends cut every block alike: there is one table of pools which both of them follow,
\* chunk by chunk (the crypto loops of senddata and recvdata, udpipe_threads.cpp).
THEOREM CutAlike == Spec => []FramingInv
<1>1. FramingInv /\ [Next]_vars => FramingInv'
  <2> SUFFICES ASSUME FramingInv, [Next]_vars PROVE FramingInv'
    OBVIOUS
  <2>1. CASE NextChunk
    BY <2>1, NextChunkFraming
  <2>2. CASE SendBlock
    BY <2>2, SendBlockFraming
  <2>3. CASE RecvSize
    BY <2>3, RecvSizeFraming
  <2>4. CASE RecvPiece
    BY <2>4, RecvPieceFraming
  <2>5. CASE HandOver
    BY <2>5, HandOverFraming
  <2>6. CASE LoopEnd
    BY <2>6, LoopEndFraming
  <2>7. CASE RecvLost
    BY <2>7, OthersFraming DEF RecvLost
  <2>8. CASE SetThreadExit
    BY <2>8, OthersFraming DEF SetThreadExit
  <2>9. CASE Lose
    BY <2>9, LoseFraming
  <2>10. CASE UNCHANGED vars
    BY <2>10, OthersFraming DEF vars
  <2> QED BY <2>1, <2>2, <2>3, <2>4, <2>5, <2>6, <2>7, <2>8, <2>9, <2>10
          DEF Next, Sender, Receiver
<1> QED BY <1>1, FramingInit, PTL DEF Spec

\* What recvdata writes are the blocks that senddata read, whole, decrypted and in order:
\* every byte meets the stream of the worker that encrypted it, at the same place, in
\* whatever pieces it comes in (senddata and recvdata, pass_to_enc_thread).
THEOREM BlocksComeOut == Spec => []WholeBlocksOut
<1>1. FramingInv => WholeBlocksOut
  <2> SUFFICES ASSUME FramingInv PROVE WholeBlocksOut
    OBVIOUS
  <2>1. Len(out) <= sent /\ \A b \in 1 .. Len(out) : out[b] = Plain(b)
    BY DEF FramingInv, NetInv, RcvInv
  <2>2. PICK o \in Nat : o = Len(out) /\ o <= Len(Input) /\ out \in Seq(Seq(Nat \X Nat))
    <3>1. Len(out) \in Nat /\ sent \in 0 .. Len(Input) /\ out \in Seq(Seq(Nat \X Nat))
      BY LenProperties DEF FramingInv, TypeInv
    <3>2. Len(out) <= Len(Input)
      BY <2>1, <3>1, InputFacts
    <3> QED BY <3>1, <3>2
  <2>3. \A b \in 1 .. o : out[b] = AllPlain[b]
    BY <2>1, <2>2, InputFacts DEF AllPlain
  <2>4. Len(AllPlain) = Len(Input)
    <3>1. AllPlain = [b \in 1 .. Len(Input) |-> Plain(b)] /\ Len(Input) \in Nat
      BY InputFacts DEF AllPlain
    <3> QED BY <3>1
  <2> QED BY <2>2, <2>3, <2>4 DEF WholeBlocksOut, IsPrefix
<1> QED BY <1>1, CutAlike, PTL
=============================================================================
