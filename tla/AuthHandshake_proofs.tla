------------------------- MODULE AuthHandshake_proofs -------------------------
(***************************************************************************)
(* Proofs about AuthHandshake: each thread reads what is meant for it, and *)
(* no end opens for data unless both hold the same key.                    *)
(*                                                                         *)
(* The two threads of an end share one byte stream.  The invariant says    *)
(* which byte comes at which place of the stream to an end, counted from   *)
(* the first byte ever sent, and how many places have been read: what a    *)
(* thread reads then follows from where the other one stopped.             *)
(***************************************************************************)
EXTENDS AuthHandshake, SequenceTheorems, TLAPS

\* What is sent to the two ends, place by place: the minion gets the master's challenge,
\* the answer to its own, and then blocks; the master gets the answer to its challenge
\* first, and then the minion's challenge.
TheChallenge(e) == <<"challenge", Peer[e]>>
TheAnswer(e) == <<"signed", e, "challenge", key[Peer[e]]>>
TheBlock(e) == <<"block", Peer[e]>>
FirstTo(e) == IF e = "minion" THEN TheChallenge(e) ELSE TheAnswer(e)
ThenTo(e) == IF e = "minion" THEN TheAnswer(e) ELSE TheChallenge(e)
ByteTo(e, i) ==
  IF i <= KeyLen THEN FirstTo(e) ELSE IF i <= 2 * KeyLen THEN ThenTo(e) ELSE TheBlock(e)

\* How many bytes have been sent to e, and how many e has read.
SentTo(e) ==
  LET p == Peer[e]
      challenge == IF rpc[p] = "start" THEN 0 ELSE KeyLen
      answer == IF spc[p] = "start" THEN 0 ELSE KeyLen
      block == IF spc[p] = "open" THEN 1 ELSE 0
  IN  challenge + answer + block
ReadBy(e) ==
  IF rpc[e] = "listen" THEN KeyLen + Len(rgot[e]) + Len(sgot[e]) ELSE Len(rgot[e]) + Len(sgot[e])

HandshakeType ==
  /\ key \in Keys
  /\ rpc \in [Ends -> {"start", "recv", "authed", "listen", "exit"}]
  /\ spc \in [Ends -> {"start", "sent", "signed", "open"}]
  /\ g_signed_auth \in [Ends -> BOOLEAN] /\ g_authed_peer \in [Ends -> BOOLEAN]
  /\ READ_IN \in [Ends -> BOOLEAN] /\ up \in BOOLEAN
  /\ rgot \in [Ends -> Seq(Bytes)] /\ sgot \in [Ends -> Seq(Bytes)]
         /\ stream \in [Ends -> Seq(Bytes)]

\* The flags say where the threads are, and the threads wait for the flags: the master
\* signs once its peer has, the minion challenges once it has signed.
OrderAt(e) ==
  /\ g_signed_auth[e] <=> spc[e] \in {"signed", "open"}
  /\ g_authed_peer[e] <=> rpc[e] \in {"authed", "listen"}
  /\ READ_IN[e] <=> rpc[e] = "listen"
  /\ rpc[e] = "listen" => g_signed_auth[e]
  /\ spc[e] = "open" => g_authed_peer[e]
  /\ spc[e] # "start" => Len(sgot[e]) = KeyLen
  /\ rpc[e] = "authed" => Len(rgot[e]) = KeyLen
  /\ rpc[e] = "start" => Len(rgot[e]) = 0
  /\ Len(sgot[e]) <= KeyLen /\ Len(rgot[e]) <= KeyLen
  /\ e = "master" => (sgot[e] # <<>> \/ spc[e] # "start" => g_authed_peer[e])
  /\ e = "minion" => (rpc[e] # "start" => g_signed_auth[e])

\* What is on its way, after what has been read.  The tail of it may be lost.
WireAt(e) ==
  /\ IF up THEN ReadBy(e) + Len(stream[e]) = SentTo(e) ELSE ReadBy(e) + Len(stream[e]) <= SentTo(e)
  /\ \A i \in 1 .. Len(stream[e]) : stream[e][i] = ByteTo(e, ReadBy(e) + i)

\* What has been read: the peer's challenge by one thread; the answer to the own, later
\* blocks, by the other.
GotAt(e) ==
  /\ \A i \in 1 .. Len(sgot[e]) : sgot[e][i] = TheChallenge(e)
  /\ \A i \in 1 .. Len(rgot[e]) :
         rgot[e][i] = IF rpc[e] = "listen" THEN TheBlock(e) ELSE TheAnswer(e)

\* Who is satisfied with its peer holds the same key as the peer.
KeyInv == \A e \in Ends : g_authed_peer[e] => key["master"] = key["minion"]

HandshakeInv ==
  HandshakeType /\ KeyInv /\ \A e \in Ends : OrderAt(e) /\ WireAt(e) /\ GotAt(e)

-----------------------------------------------------------------------------
(* The helpers *)

LEMMA TheEnds ==
  /\ Ends = {"master", "minion"}
  /\ \A e \in Ends : Peer[e] \in Ends /\ Peer[e] # e /\ Peer[Peer[e]] = e
  /\ KeyLen \in Nat /\ KeyLen > 0
BY KeyLenAssumption DEF Ends, Peer

\* The bytes of the handshake are bytes.
LEMMA TheBytes ==
  ASSUME HandshakeType, NEW e \in Ends
  PROVE  TheChallenge(e) \in Bytes /\ TheAnswer(e) \in Bytes /\ TheBlock(e) \in Bytes
<1>1. key[Peer[e]] \in KeysHeld /\ Peer[e] \in Ends
  BY TheEnds DEF HandshakeType, KeysHeld
<1> QED BY <1>1 DEF TheChallenge, TheAnswer, TheBlock, Bytes

\* A challenge, and the answer to it.
LEMMA ChallengeAndAnswer ==
  ASSUME HandshakeType, NEW e \in Ends
  PROVE  /\ Challenge(e) \in Seq(Bytes) /\ Len(Challenge(e)) = KeyLen
         /\ \A i \in 1 .. KeyLen : Challenge(e)[i] = TheChallenge(Peer[e])
         /\ \A s \in Seq(Bytes) :
              Len(s) = KeyLen /\ (\A i \in 1 .. Len(s) : s[i] = TheChallenge(e)) =>
                /\ Signed(s, key[e]) \in Seq(Bytes) /\ Len(Signed(s, key[e])) = KeyLen
                /\ \A i \in 1 .. KeyLen : Signed(s, key[e])[i] = TheAnswer(Peer[e])
<1>0. Peer[e] \in Ends /\ Peer[Peer[e]] = e /\ KeyLen \in Nat
  BY TheEnds
<1>1. /\ Challenge(e) = [i \in 1 .. KeyLen |-> TheChallenge(Peer[e])]
      /\ TheChallenge(Peer[e]) \in Bytes /\ TheAnswer(Peer[e]) \in Bytes
  BY <1>0, TheBytes DEF Challenge, TheChallenge
<1>2. \A n \in Nat, b \in Bytes :
          [i \in 1 .. n |-> b] \in Seq(Bytes) /\ Len([i \in 1 .. n |-> b]) = n
  OBVIOUS
<1>3. Challenge(e) \in Seq(Bytes) /\ Len(Challenge(e)) = KeyLen
  BY <1>0, <1>1, <1>2
<1>4. ASSUME NEW s \in Seq(Bytes), Len(s) = KeyLen, \A i \in 1 .. Len(s) : s[i] = TheChallenge(e)
      PROVE  Signed(s, key[e]) = [i \in 1 .. KeyLen |-> TheAnswer(Peer[e])]
  <2>1. DOMAIN s = 1 .. KeyLen
    BY <1>4, LenProperties
  <2>2. \A i \in 1 .. KeyLen : <<"signed", s[i][2], s[i][1], key[e]>> = TheAnswer(Peer[e])
    BY <1>0, <1>4 DEF TheChallenge, TheAnswer
  <2> QED BY <2>1, <2>2 DEF Signed
<1>5. \A s \in Seq(Bytes) :
        Len(s) = KeyLen /\ (\A i \in 1 .. Len(s) : s[i] = TheChallenge(e)) =>
          /\ Signed(s, key[e]) \in Seq(Bytes) /\ Len(Signed(s, key[e])) = KeyLen
          /\ \A i \in 1 .. KeyLen : Signed(s, key[e])[i] = TheAnswer(Peer[e])
  BY <1>0, <1>1, <1>2, <1>4
<1> QED BY <1>1, <1>3, <1>5

\* The first m elements of a sequence, and what is left of it.
LEMMA FirstOnes ==
  ASSUME NEW S, NEW t \in Seq(S), NEW m \in Nat, m <= Len(t), NEW u, u = SubSeq(t, 1, m)
  PROVE  /\ u \in Seq(S) /\ Len(u) = m
         /\ \A i \in 1 .. m : i \in 1 .. Len(t) /\ u[i] = t[i]
<1>1. \A i \in 1 .. m : i \in 1 .. Len(t) /\ t[i] \in S
  BY LenProperties, ElementOfSeq
<1>2. /\ u \in Seq(S) /\ Len(u) = IF 1 <= m THEN m - 1 + 1 ELSE 0
      /\ \A i \in 1 .. m - 1 + 1 : u[i] = t[1 + i - 1]
  BY <1>1, SubSeqProperties
<1>3. Len(u) = m /\ m - 1 + 1 = m /\ \A i \in 1 .. m : 1 + i - 1 = i
  BY <1>2
<1> QED BY <1>1, <1>2, <1>3

\* What recv does: the first k bytes of the stream go behind what has been received.
TakesOver(e, k, got, all) ==
  /\ k \in Nat /\ k <= Len(stream[e])
  /\ stream' \in [Ends -> Seq(Bytes)] /\ stream'[Peer[e]] = stream[Peer[e]]
  /\ Len(stream'[e]) = Len(stream[e]) - k
  /\ \A i \in 1 .. Len(stream'[e]) : stream'[e][i] = stream[e][k + i]
  /\ all \in Seq(Bytes) /\ Len(all) = Len(got) + k
  /\ \A i \in 1 .. Len(all) : all[i] = IF i <= Len(got) THEN got[i] ELSE stream[e][i - Len(got)]

LEMMA WhatIsTaken ==
  ASSUME HandshakeType, NEW e \in Ends, NEW n \in Int, Take(e, n), NEW got \in Seq(Bytes), NEW all,
         all = got \o SubSeq(stream[e], 1, Len(stream[e]) - Len(stream'[e]))
  PROVE  \E k \in 1 .. n : TakesOver(e, k, got, all)
<1>0. /\ stream[e] \in Seq(Bytes) /\ Len(stream[e]) \in Nat /\ Peer[e] # e /\ Peer[e] \in Ends
      /\ \A i \in 1 .. Len(stream[e]) : stream[e][i] \in Bytes
  BY TheEnds, LenProperties, ElementOfSeq DEF HandshakeType
<1>1. PICK k \in 1 .. n : /\ k <= Len(stream[e])
                          /\ stream' = [stream EXCEPT ![e] = SubSeq(@, k + 1, Len(@))]
  BY DEF Take
<1>2. k \in Nat /\ k >= 1 /\ k + 1 \in Int
  BY <1>1
<1>3. PICK rest : rest = SubSeq(stream[e], k + 1, Len(stream[e]))
  OBVIOUS
<1>4. /\ rest \in Seq(Bytes) /\ Len(rest) = Len(stream[e]) - k
      /\ \A i \in 1 .. Len(rest) : rest[i] = stream[e][k + i]
  <2>1. \A i \in k + 1 .. Len(stream[e]) : stream[e][i] \in Bytes
    BY <1>0, <1>2
  <2>2. /\ rest \in Seq(Bytes)
        /\ Len(rest) = IF k + 1 <= Len(stream[e]) THEN Len(stream[e]) - (k + 1) + 1 ELSE 0
        /\ \A i \in 1 .. Len(stream[e]) - (k + 1) + 1 : rest[i] = stream[e][(k + 1) + i - 1]
    BY <1>0, <1>2, <1>3, <2>1, SubSeqProperties
  <2>3. PICK l \in Nat : l = Len(stream[e])
    BY <1>0
  <2>4. Len(rest) = l - k
    BY <1>1, <1>2, <2>2, <2>3
  <2> QED BY <1>2, <2>2, <2>3, <2>4
<1>5. stream' \in [Ends -> Seq(Bytes)] /\ stream'[e] = rest /\ stream'[Peer[e]] = stream[Peer[e]]
  BY <1>0, <1>1, <1>3, <1>4 DEF HandshakeType
<1>6. Len(stream[e]) - Len(stream'[e]) = k
  BY <1>0, <1>2, <1>4, <1>5
<1>7. PICK head : head = SubSeq(stream[e], 1, k)
  OBVIOUS
<1>8. /\ head \in Seq(Bytes) /\ Len(head) = k
      /\ \A i \in 1 .. k : head[i] = stream[e][i]
  BY <1>0, <1>1, <1>2, <1>7, FirstOnes
<1>9. /\ got \o head \in Seq(Bytes) /\ Len(got \o head) = Len(got) + k /\ Len(got) \in Nat
      /\ \A i \in 1 .. Len(got) + k :
             (got \o head)[i] = IF i <= Len(got) THEN got[i] ELSE head[i - Len(got)]
  BY <1>8, ConcatProperties, LenProperties
<1>10. \A i \in 1 .. Len(got) + k :
         (got \o head)[i] = IF i <= Len(got) THEN got[i] ELSE stream[e][i - Len(got)]
  BY <1>2, <1>8, <1>9
<1>11. all = got \o head
  BY <1>6, <1>7
<1>12. TakesOver(e, k, got, all)
  BY <1>1, <1>2, <1>4, <1>5, <1>6, <1>9, <1>10, <1>11 DEF TakesOver
<1> QED BY <1>12

\* What send does: bytes go behind what is on its way.
LEMMA WhatIsSent ==
  ASSUME HandshakeType, NEW e \in Ends, NEW s \in Seq(Bytes),
         stream' = [stream EXCEPT ![Peer[e]] = @ \o s]
  PROVE  /\ stream' \in [Ends -> Seq(Bytes)] /\ stream'[e] = stream[e]
         /\ Len(stream'[Peer[e]]) = Len(stream[Peer[e]]) + Len(s)
         /\ \A i \in 1 .. Len(stream'[Peer[e]]) :
              stream'[Peer[e]][i] = IF i <= Len(stream[Peer[e]]) THEN stream[Peer[e]][i]
                                                                 ELSE s[i - Len(stream[Peer[e]])]
<1>0. Peer[e] \in Ends /\ Peer[e] # e /\ stream[Peer[e]] \in Seq(Bytes)
  BY TheEnds DEF HandshakeType
<1>1. stream'[Peer[e]] = stream[Peer[e]] \o s /\ stream'[e] = stream[e]
  BY <1>0 DEF HandshakeType
<1>2. /\ stream[Peer[e]] \o s \in Seq(Bytes)
      /\ Len(stream[Peer[e]] \o s) = Len(stream[Peer[e]]) + Len(s)
      /\ \A i \in 1 .. Len(stream[Peer[e]]) + Len(s) :
           (stream[Peer[e]] \o s)[i] = IF i <= Len(stream[Peer[e]]) THEN stream[Peer[e]][i]
                                                                    ELSE s[i - Len(stream[Peer[e]])]
  BY <1>0, ConcatProperties
<1>3. stream' \in [Ends -> Seq(Bytes)]
  BY <1>0, <1>2 DEF HandshakeType
<1> QED BY <1>1, <1>2, <1>3

\* Lengths are numbers.
LEMMA TheLengths ==
  ASSUME HandshakeType, NEW e \in Ends
  PROVE  /\ Len(rgot[e]) \in Nat /\ Len(sgot[e]) \in Nat /\ Len(stream[e]) \in Nat
         /\ ReadBy(e) \in Nat /\ SentTo(e) \in Nat
         /\ (sgot[e] = <<>> <=> Len(sgot[e]) = 0)
<1>1. /\ Len(rgot[e]) \in Nat /\ Len(sgot[e]) \in Nat /\ Len(stream[e]) \in Nat
      /\ (sgot[e] = <<>> <=> Len(sgot[e]) = 0)
  <2>1. rgot[e] \in Seq(Bytes) /\ sgot[e] \in Seq(Bytes) /\ stream[e] \in Seq(Bytes)
    BY DEF HandshakeType
  <2> QED BY <2>1, LenProperties, EmptySeq
<1>2. ReadBy(e) \in Nat
  <2>1. rgot \in [Ends -> Seq(Bytes)] /\ sgot \in [Ends -> Seq(Bytes)]
    BY DEF HandshakeType
  <2> QED BY <2>1, TheEnds DEF ReadBy
<1>3. SentTo(e) \in Nat
  BY TheEnds DEF SentTo
<1> QED BY <1>1, <1>2, <1>3

\* The bytes are told by the keys alone.
LEMMA SameBytes ==
  ASSUME key' = key, NEW e
  PROVE  /\ TheChallenge(e)' = TheChallenge(e) /\ TheAnswer(e)' = TheAnswer(e)
                /\ TheBlock(e)' = TheBlock(e)
         /\ \A i : ByteTo(e, i)' = ByteTo(e, i)
BY DEF TheChallenge, TheAnswer, TheBlock, ByteTo, FirstTo, ThenTo

\* An end nothing happens to.
LEMMA Untouched ==
  ASSUME NEW e \in Ends, WireAt(e), key' = key, up' = up, stream'[e] = stream[e],
         ReadBy(e)' = ReadBy(e), SentTo(e)' = SentTo(e)
  PROVE  WireAt(e)'
BY SameBytes DEF WireAt

LEMMA UntouchedGot ==
  ASSUME NEW e \in Ends, GotAt(e), key' = key, rgot'[e] = rgot[e], sgot'[e] = sgot[e],
         rpc'[e] = "listen" <=> rpc[e] = "listen"
  PROVE  GotAt(e)'
BY SameBytes DEF GotAt

\* What is sent comes next on the wire.
LEMMA SendStep ==
  ASSUME HandshakeType, NEW e \in Ends, WireAt(Peer[e]), NEW s \in Seq(Bytes), up,
         stream' = [stream EXCEPT ![Peer[e]] = @ \o s],
         key' = key, up' = up, ReadBy(Peer[e])' = ReadBy(Peer[e]),
         SentTo(Peer[e])' = SentTo(Peer[e]) + Len(s),
         \A i \in 1 .. Len(s) : s[i] = ByteTo(Peer[e], SentTo(Peer[e]) + i)
  PROVE  WireAt(Peer[e])'
<1>1. PICK p : p = Peer[e]
  OBVIOUS
<1>2. /\ p \in Ends /\ Len(stream[p]) \in Nat /\ ReadBy(p) \in Nat /\ SentTo(p) \in Nat
             /\ Len(s) \in Nat
  BY <1>1, TheEnds, TheLengths, LenProperties
<1>3. /\ Len(stream'[p]) = Len(stream[p]) + Len(s)
      /\ \A i \in 1 .. Len(stream'[p]) :
           stream'[p][i] = IF i <= Len(stream[p]) THEN stream[p][i] ELSE s[i - Len(stream[p])]
  <2>1. /\ Len(stream'[Peer[e]]) = Len(stream[Peer[e]]) + Len(s)
        /\ \A i \in 1 .. Len(stream'[Peer[e]]) :
             stream'[Peer[e]][i] = IF i <= Len(stream[Peer[e]]) THEN stream[Peer[e]][i]
                                                                ELSE s[i - Len(stream[Peer[e]])]
    BY WhatIsSent
  <2> QED BY <1>1, <2>1
<1>4. ReadBy(p) + Len(stream[p]) = SentTo(p) /\ \A i \in 1 .. Len(stream[p]) :
          stream[p][i] = ByteTo(p, ReadBy(p) + i)
  BY <1>1 DEF WireAt
<1>5. ASSUME NEW i \in 1 .. Len(stream'[p]) PROVE stream'[p][i] = ByteTo(p, ReadBy(p) + i)
  <2>1. CASE i <= Len(stream[p])
    BY <1>2, <1>3, <1>4, <1>5, <2>1
  <2>2. CASE i > Len(stream[p])
    <3>1. i - Len(stream[p]) \in 1 .. Len(s) /\ ~(i <= Len(stream[p]))
      BY <1>2, <1>3, <1>5, <2>2
    <3>2. SentTo(p) + (i - Len(stream[p])) = ReadBy(p) + i
      BY <1>2, <1>4, <1>5
    <3>3. s[i - Len(stream[p])] = ByteTo(p, SentTo(p) + (i - Len(stream[p])))
      BY <1>1, <3>1
    <3> QED BY <1>3, <1>5, <3>1, <3>2, <3>3
  <2> QED BY <1>2, <1>5, <2>1, <2>2
<1>6. ReadBy(p) + Len(stream'[p]) = SentTo(p) + Len(s)
  BY <1>2, <1>3, <1>4
<1>7. ReadBy(p)' = ReadBy(p) /\ SentTo(p)' = SentTo(p) + Len(s) /\ \A i :
          ByteTo(p, i)' = ByteTo(p, i)
  BY <1>1, SameBytes
<1>8. WireAt(p)'
  BY <1>5, <1>6, <1>7 DEF WireAt
<1> QED BY <1>1, <1>8

\* What is read is no longer on the wire.
LEMMA ReadStep ==
  ASSUME HandshakeType, NEW e \in Ends, WireAt(e), NEW k \in Nat, k <= Len(stream[e]),
         Len(stream'[e]) = Len(stream[e]) - k,
         \A i \in 1 .. Len(stream'[e]) : stream'[e][i] = stream[e][k + i],
         key' = key, up' = up, ReadBy(e)' = ReadBy(e) + k, SentTo(e)' = SentTo(e)
  PROVE  WireAt(e)'
<1>1. Len(stream[e]) \in Nat /\ ReadBy(e) \in Nat /\ SentTo(e) \in Nat
  BY TheLengths
<1>2. ASSUME NEW i \in 1 .. Len(stream'[e]) PROVE stream'[e][i] = ByteTo(e, ReadBy(e) + k + i)
  <2>1. k + i \in 1 .. Len(stream[e]) /\ ReadBy(e) + (k + i) = ReadBy(e) + k + i
    BY <1>1, <1>2
  <2> QED BY <1>2, <2>1 DEF WireAt
<1>3. IF up THEN (ReadBy(e) + k) + Len(stream'[e]) = SentTo(e)
            ELSE (ReadBy(e) + k) + Len(stream'[e]) <= SentTo(e)
  BY <1>1 DEF WireAt
<1> QED BY <1>2, <1>3, SameBytes DEF WireAt

-----------------------------------------------------------------------------
(* The actions of recvdata *)

\* The challenge is the first that the minion gets, and the last that the master gets
\* before the blocks.
LEMMA NextSendChallenge ==
  ASSUME HandshakeInv, NEW e \in Ends, SendChallenge(e)
  PROVE  HandshakeInv'
<1> USE TheEnds
<1>1. PICK p : p = Peer[e]
  OBVIOUS
<1>2. /\ HandshakeType /\ p \in Ends /\ p # e /\ Peer[p] = e
      /\ OrderAt(e) /\ OrderAt(p) /\ WireAt(e) /\ WireAt(p) /\ GotAt(e) /\ GotAt(p)
  BY <1>1 DEF HandshakeInv
<1>3. /\ rpc[e] = "start" /\ rpc'[e] = "recv" /\ rpc'[p] = rpc[p] /\ up
      /\ rpc' \in [Ends -> {"start", "recv", "authed", "listen", "exit"}]
      /\ key' = key /\ spc' = spc /\ rgot' = rgot /\ sgot' = sgot /\ READ_IN' = READ_IN /\ up' = up
      /\ g_signed_auth' = g_signed_auth /\ g_authed_peer' = g_authed_peer
      /\ stream' = [stream EXCEPT ![Peer[e]] = @ \o Challenge(e)]
      /\ e = "minion" => g_signed_auth[e]
  BY <1>2 DEF SendChallenge, HandshakeType, MayChallenge, flags
<1>4. /\ Challenge(e) \in Seq(Bytes) /\ Len(Challenge(e)) = KeyLen
      /\ \A i \in 1 .. KeyLen : Challenge(e)[i] = TheChallenge(p)
  BY <1>1, <1>2, ChallengeAndAnswer
<1>5. HandshakeType'
  BY <1>2, <1>3, <1>4, WhatIsSent DEF HandshakeType
<1>6. OrderAt(e)' /\ OrderAt(p)'
  BY <1>2, <1>3 DEF OrderAt
<1>7. GotAt(e)' /\ GotAt(p)'
  BY <1>2, <1>3, UntouchedGot
<1>8. WireAt(e)'
  <2>1. stream'[e] = stream[e]
    BY <1>2, <1>3, <1>4, WhatIsSent
  <2>2. ReadBy(e)' = ReadBy(e) /\ SentTo(e)' = SentTo(e)
    BY <1>1, <1>3 DEF ReadBy, SentTo
  <2> QED BY <1>2, <1>3, <2>1, <2>2, Untouched
<1>9. WireAt(p)'
  <2>1. ReadBy(p)' = ReadBy(p) /\ SentTo(p)' = SentTo(p) + KeyLen
    BY <1>2, <1>3 DEF ReadBy, SentTo
  <2>2. SentTo(p) = IF p = "minion" THEN 0 ELSE KeyLen
    BY <1>2, <1>3 DEF SentTo, OrderAt
  <2>3. \A i \in 1 .. KeyLen : ByteTo(p, SentTo(p) + i) = TheChallenge(p)
    BY <1>2, <2>2 DEF ByteTo, FirstTo, ThenTo
  <2>4. \A i \in 1 .. KeyLen : Challenge(e)[i] = ByteTo(p, SentTo(p) + i)
    BY <1>4, <2>3
  <2>5. PICK s \in Seq(Bytes) : s = Challenge(e) /\ Len(s) = KeyLen
    BY <1>4
  <2>6. stream' = [stream EXCEPT ![Peer[e]] = @ \o s]
    BY <1>3, <2>5
  <2>7. /\ WireAt(Peer[e]) /\ ReadBy(Peer[e])' = ReadBy(Peer[e])
        /\ SentTo(Peer[e])' = SentTo(Peer[e]) + Len(s)
        /\ \A i \in 1 .. Len(s) : s[i] = ByteTo(Peer[e], SentTo(Peer[e]) + i)
    BY <1>1, <1>2, <2>1, <2>4, <2>5
  <2>8. WireAt(Peer[e])'
    BY <1>2, <1>3, <2>6, <2>7, SendStep
  <2> QED BY <1>1, <2>8
<1>10. KeyInv'
  BY <1>3 DEF HandshakeInv, KeyInv
<1> QED BY <1>1, <1>2, <1>5, <1>6, <1>7, <1>8, <1>9, <1>10 DEF HandshakeInv

\* An action of e at which nothing is sent leaves the other end alone.
LEMMA OtherEnd ==
  ASSUME HandshakeInv, NEW e \in Ends, key' = key, up' = up, stream'[Peer[e]] = stream[Peer[e]],
         rpc' = [rpc EXCEPT ![e] = rpc'[e]], spc' = [spc EXCEPT ![e] = spc'[e]],
         rgot' = [rgot EXCEPT ![e] = rgot'[e]], sgot' = [sgot EXCEPT ![e] = sgot'[e]],
         g_signed_auth' = [g_signed_auth EXCEPT ![e] = g_signed_auth'[e]],
         g_authed_peer' = [g_authed_peer EXCEPT ![e] = g_authed_peer'[e]],
         READ_IN' = [READ_IN EXCEPT ![e] = READ_IN'[e]],
         rpc'[e] = "start" <=> rpc[e] = "start", spc'[e] = "start" <=> spc[e] = "start",
         spc'[e] = "open" <=> spc[e] = "open"
  PROVE  /\ OrderAt(Peer[e])' /\ WireAt(Peer[e])' /\ GotAt(Peer[e])'
         /\ SentTo(e)' = SentTo(e)
<1> USE TheEnds
<1>1. PICK p : p = Peer[e]
  OBVIOUS
<1>2. /\ HandshakeType /\ p \in Ends /\ p # e /\ Peer[p] = e
      /\ OrderAt(p) /\ WireAt(p) /\ GotAt(p)
  BY <1>1 DEF HandshakeInv
<1>3. /\ rpc'[p] = rpc[p] /\ spc'[p] = spc[p] /\ rgot'[p] = rgot[p] /\ sgot'[p] = sgot[p]
      /\ g_signed_auth'[p] = g_signed_auth[p] /\ g_authed_peer'[p] = g_authed_peer[p]
      /\ READ_IN'[p] = READ_IN[p]
  BY <1>2 DEF HandshakeType
<1>4. ReadBy(p)' = ReadBy(p) /\ SentTo(p)' = SentTo(p) /\ SentTo(e)' = SentTo(e)
  BY <1>1, <1>2, <1>3 DEF ReadBy, SentTo
<1>5. OrderAt(p)'
  BY <1>2, <1>3 DEF OrderAt
<1>6. WireAt(p)' /\ GotAt(p)'
  BY <1>1, <1>2, <1>3, <1>4, Untouched, UntouchedGot
<1> QED BY <1>1, <1>4, <1>5, <1>6

\* recvdata reads the answer to its challenge.
LEMMA NextRecvSigned ==
  ASSUME HandshakeInv, NEW e \in Ends, RecvSigned(e)
  PROVE  HandshakeInv'
<1> USE TheEnds
<1>1. HandshakeType /\ OrderAt(e) /\ WireAt(e) /\ GotAt(e)
  BY DEF HandshakeInv
<1>2. PICK r \in Nat, s \in Nat, l \in Nat, at \in Nat :
        Len(rgot[e]) = r /\ Len(sgot[e]) = s /\ Len(stream[e]) = l /\ ReadBy(e) = at
  BY <1>1, TheLengths
<1>3. /\ rpc[e] = "recv" /\ r < KeyLen /\ Take(e, KeyLen - r)
      /\ rgot' = [rgot EXCEPT ![e] = @ \o SubSeq(stream[e], 1, Len(stream[e]) - Len(stream'[e]))]
      /\ key' = key /\ rpc' = rpc /\ spc' = spc /\ sgot' = sgot /\ READ_IN' = READ_IN /\ up' = up
      /\ g_signed_auth' = g_signed_auth /\ g_authed_peer' = g_authed_peer
  BY <1>2 DEF RecvSigned, Wanted, flags
<1>4. PICK k \in 1 .. KeyLen - r :
        /\ k \in Nat /\ k <= l
        /\ stream' \in [Ends -> Seq(Bytes)] /\ stream'[Peer[e]] = stream[Peer[e]]
        /\ Len(stream'[e]) = l - k
        /\ \A i \in 1 .. l - k : stream'[e][i] = stream[e][k + i]
        /\ rgot'[e] \in Seq(Bytes) /\ Len(rgot'[e]) = r + k
        /\ \A i \in 1 .. r + k : rgot'[e][i] = IF i <= r THEN rgot[e][i] ELSE stream[e][i - r]
  <2>1. PICK all : all = rgot[e] \o SubSeq(stream[e], 1, Len(stream[e]) - Len(stream'[e]))
    OBVIOUS
  <2>2. rgot'[e] = all /\ rgot[e] \in Seq(Bytes)
    BY <1>1, <1>3, <2>1 DEF HandshakeType
  <2>3. PICK n \in Int : n = KeyLen - r /\ Take(e, n)
    BY <1>3
  <2>4. PICK k \in 1 .. n : TakesOver(e, k, rgot[e], all)
    BY <1>1, <2>1, <2>2, <2>3, WhatIsTaken
  <2>5. k \in 1 .. KeyLen - r
    BY <2>3
  <2>6. /\ k \in Nat /\ k <= l
        /\ stream' \in [Ends -> Seq(Bytes)] /\ stream'[Peer[e]] = stream[Peer[e]]
        /\ Len(stream'[e]) = l - k
        /\ \A i \in 1 .. l - k : stream'[e][i] = stream[e][k + i]
    BY <1>2, <2>4 DEF TakesOver
  <2>7. /\ all \in Seq(Bytes) /\ Len(all) = r + k
        /\ \A i \in 1 .. r + k : all[i] = IF i <= r THEN rgot[e][i] ELSE stream[e][i - r]
    BY <1>2, <2>4 DEF TakesOver
  <2>8. /\ rgot'[e] \in Seq(Bytes) /\ Len(rgot'[e]) = r + k
        /\ \A i \in 1 .. r + k :
             rgot'[e][i] = IF i <= r THEN rgot[e][i] ELSE stream[e][i - r]
    BY <2>2, <2>7
  <2> QED BY <2>5, <2>6, <2>8
<1>16. k \in Nat /\ k > 0 /\ k <= KeyLen - r /\ k <= l
  BY <1>4
<1>17. \A i \in 1 .. r + k :
         rgot'[e][i] = IF i <= r THEN rgot[e][i] ELSE stream[e][i - r]
  BY <1>4
<1>5. HandshakeType'
  BY <1>1, <1>3, <1>4 DEF HandshakeType
<1>6. /\ OrderAt(Peer[e])' /\ WireAt(Peer[e])' /\ GotAt(Peer[e])'
      /\ SentTo(e)' = SentTo(e)
  <2>1. rgot' = [rgot EXCEPT ![e] = rgot'[e]]
    BY <1>1, <1>3 DEF HandshakeType
  <2>2. /\ rpc' = [rpc EXCEPT ![e] = rpc'[e]] /\ spc' = [spc EXCEPT ![e] = spc'[e]]
        /\ sgot' = [sgot EXCEPT ![e] = sgot'[e]]
        /\ g_signed_auth' = [g_signed_auth EXCEPT ![e] = g_signed_auth'[e]]
        /\ g_authed_peer' = [g_authed_peer EXCEPT ![e] = g_authed_peer'[e]]
        /\ READ_IN' = [READ_IN EXCEPT ![e] = READ_IN'[e]]
    BY <1>1, <1>3 DEF HandshakeType
  <2> QED BY <1>3, <1>4, <2>1, <2>2, OtherEnd
<1>7. OrderAt(e)'
  <2>1. Len(rgot'[e]) <= KeyLen
    BY <1>3, <1>4
  <2> QED BY <1>1, <1>3, <2>1 DEF OrderAt
<1>8. at = r + s
  BY <1>2, <1>3 DEF ReadBy
<1>9. ReadBy(e)' = at + k
  <2>1. ReadBy(e)' = Len(rgot'[e]) + Len(sgot'[e])
    BY <1>3 DEF ReadBy
  <2>2. Len(sgot'[e]) = s
    BY <1>2, <1>3
  <2>3. ReadBy(e)' = (r + k) + s
    BY <1>4, <2>1, <2>2
  <2> QED BY <1>8, <2>3
<1>10. WireAt(e)'
  <2>1. /\ k <= Len(stream[e]) /\ Len(stream'[e]) = Len(stream[e]) - k
        /\ \A i \in 1 .. Len(stream'[e]) : stream'[e][i] = stream[e][k + i]
    BY <1>2, <1>4
  <2>2. ReadBy(e)' = ReadBy(e) + k
    BY <1>2, <1>9
  <2> QED BY <1>1, <1>3, <1>6, <1>16, <2>1, <2>2, ReadStep
<1>11. s = IF e = "minion" THEN KeyLen ELSE 0
  <2>1. e = "master" => sgot[e] = <<>>
    BY <1>1, <1>3 DEF OrderAt
  <2> QED BY <1>1, <1>2, <1>3, <2>1, TheLengths DEF OrderAt
<1>12. \A i \in 1 .. KeyLen : ByteTo(e, i + s) = TheAnswer(e)
  BY <1>11 DEF ByteTo, FirstTo, ThenTo
<1>13. ASSUME NEW i \in 1 .. r + k PROVE rgot'[e][i] = TheAnswer(e)
  <2>1. CASE i <= r
    BY <1>1, <1>2, <1>3, <1>4, <2>1 DEF GotAt
  <2>2. CASE i > r
    <3>1. i - r \in 1 .. l /\ i \in 1 .. KeyLen /\ at + (i - r) = i + s
      BY <1>8, <1>16, <2>2
    <3>2. stream[e][i - r] = ByteTo(e, at + (i - r))
      BY <1>1, <1>2, <3>1 DEF WireAt
    <3>3. rgot'[e][i] = stream[e][i - r]
      BY <1>17, <2>2
    <3> QED BY <1>12, <3>1, <3>2, <3>3
  <2> QED BY <2>1, <2>2
<1>14. GotAt(e)'
  BY <1>1, <1>3, <1>4, <1>13, SameBytes DEF GotAt
<1>15. KeyInv'
  BY <1>3 DEF HandshakeInv, KeyInv
<1> QED BY <1>5, <1>6, <1>7, <1>10, <1>14, <1>15 DEF HandshakeInv

\* recvdata reads blocks once it listens.
LEMMA NextRecvBlock ==
  ASSUME HandshakeInv, NEW e \in Ends, RecvBlock(e)
  PROVE  HandshakeInv'
<1> USE TheEnds
<1>1. HandshakeType /\ OrderAt(e) /\ WireAt(e) /\ GotAt(e)
  BY DEF HandshakeInv
<1>2. PICK r \in Nat, s \in Nat, l \in Nat, at \in Nat :
        Len(rgot[e]) = r /\ Len(sgot[e]) = s /\ Len(stream[e]) = l /\ ReadBy(e) = at
  BY <1>1, TheLengths
<1>3. /\ rpc[e] = "listen" /\ Take(e, KeyLen)
      /\ rgot' = [rgot EXCEPT ![e] = @ \o SubSeq(stream[e], 1, Len(stream[e]) - Len(stream'[e]))]
      /\ key' = key /\ rpc' = rpc /\ spc' = spc /\ sgot' = sgot /\ READ_IN' = READ_IN /\ up' = up
      /\ g_signed_auth' = g_signed_auth /\ g_authed_peer' = g_authed_peer
  BY <1>2 DEF RecvBlock, Wanted, flags, MaySign
<1>4. PICK k \in 1 .. KeyLen :
        /\ k \in Nat /\ k <= l
        /\ stream' \in [Ends -> Seq(Bytes)] /\ stream'[Peer[e]] = stream[Peer[e]]
        /\ Len(stream'[e]) = l - k
        /\ \A i \in 1 .. l - k : stream'[e][i] = stream[e][k + i]
        /\ rgot'[e] \in Seq(Bytes) /\ Len(rgot'[e]) = r + k
        /\ \A i \in 1 .. r + k : rgot'[e][i] = IF i <= r THEN rgot[e][i] ELSE stream[e][i - r]
  <2>1. PICK all : all = rgot[e] \o SubSeq(stream[e], 1, Len(stream[e]) - Len(stream'[e]))
    OBVIOUS
  <2>2. rgot'[e] = all /\ rgot[e] \in Seq(Bytes)
    BY <1>1, <1>3, <2>1 DEF HandshakeType
  <2>3. PICK n \in Int : n = KeyLen /\ Take(e, n)
    BY <1>3
  <2>4. PICK k \in 1 .. n : TakesOver(e, k, rgot[e], all)
    BY <1>1, <2>1, <2>2, <2>3, WhatIsTaken
  <2>5. k \in 1 .. KeyLen
    BY <2>3
  <2>6. /\ k \in Nat /\ k <= l
        /\ stream' \in [Ends -> Seq(Bytes)] /\ stream'[Peer[e]] = stream[Peer[e]]
        /\ Len(stream'[e]) = l - k
        /\ \A i \in 1 .. l - k : stream'[e][i] = stream[e][k + i]
    BY <1>2, <2>4 DEF TakesOver
  <2>7. /\ all \in Seq(Bytes) /\ Len(all) = r + k
        /\ \A i \in 1 .. r + k : all[i] = IF i <= r THEN rgot[e][i] ELSE stream[e][i - r]
    BY <1>2, <2>4 DEF TakesOver
  <2>8. /\ rgot'[e] \in Seq(Bytes) /\ Len(rgot'[e]) = r + k
        /\ \A i \in 1 .. r + k :
             rgot'[e][i] = IF i <= r THEN rgot[e][i] ELSE stream[e][i - r]
    BY <2>2, <2>7
  <2> QED BY <2>5, <2>6, <2>8
<1>16. k \in Nat /\ k > 0 /\ k <= KeyLen /\ k <= l
  BY <1>4
<1>17. \A i \in 1 .. r + k :
         rgot'[e][i] = IF i <= r THEN rgot[e][i] ELSE stream[e][i - r]
  BY <1>4
<1>5. HandshakeType'
  BY <1>1, <1>3, <1>4 DEF HandshakeType
<1>6. /\ OrderAt(Peer[e])' /\ WireAt(Peer[e])' /\ GotAt(Peer[e])'
      /\ SentTo(e)' = SentTo(e)
  <2>1. rgot' = [rgot EXCEPT ![e] = rgot'[e]]
    BY <1>1, <1>3 DEF HandshakeType
  <2>2. /\ rpc' = [rpc EXCEPT ![e] = rpc'[e]] /\ spc' = [spc EXCEPT ![e] = spc'[e]]
        /\ sgot' = [sgot EXCEPT ![e] = sgot'[e]]
        /\ g_signed_auth' = [g_signed_auth EXCEPT ![e] = g_signed_auth'[e]]
        /\ g_authed_peer' = [g_authed_peer EXCEPT ![e] = g_authed_peer'[e]]
        /\ READ_IN' = [READ_IN EXCEPT ![e] = READ_IN'[e]]
    BY <1>1, <1>3 DEF HandshakeType
  <2> QED BY <1>3, <1>4, <2>1, <2>2, OtherEnd
<1>8. at = KeyLen + r + s /\ s = KeyLen
  <2>1. at = KeyLen + r + s
    BY <1>2, <1>3 DEF ReadBy
  <2> QED BY <1>1, <1>2, <1>3, <2>1 DEF OrderAt
<1>9. ReadBy(e)' = at + k
  <2>1. ReadBy(e)' = KeyLen + Len(rgot'[e]) + Len(sgot'[e])
    BY <1>3 DEF ReadBy
  <2>2. Len(sgot'[e]) = s
    BY <1>2, <1>3
  <2>3. ReadBy(e)' = KeyLen + (r + k) + s
    BY <1>4, <2>1, <2>2
  <2> QED BY <1>8, <2>3
<1>10. WireAt(e)'
  <2>1. /\ k <= Len(stream[e]) /\ Len(stream'[e]) = Len(stream[e]) - k
        /\ \A i \in 1 .. Len(stream'[e]) : stream'[e][i] = stream[e][k + i]
    BY <1>2, <1>4
  <2>2. ReadBy(e)' = ReadBy(e) + k
    BY <1>2, <1>9
  <2> QED BY <1>1, <1>3, <1>6, <1>16, <2>1, <2>2, ReadStep
<1>7. OrderAt(e)'
  <2>1. at + l <= SentTo(e)
    BY <1>1, <1>2, TheLengths DEF WireAt
  <2>2. SentTo(e) <= 2 * KeyLen + 1
    BY DEF SentTo
  <2>3. SentTo(e) \in Nat
    BY <1>1, TheLengths
  <2>4. r + k <= KeyLen
    BY <1>4, <1>8, <2>1, <2>2, <2>3
  <2> QED BY <1>1, <1>3, <1>4, <2>4 DEF OrderAt
<1>12. \A i \in 1 .. r + k : ByteTo(e, KeyLen + i + KeyLen) = TheBlock(e)
  BY <1>4 DEF ByteTo
<1>13. ASSUME NEW i \in 1 .. r + k PROVE rgot'[e][i] = TheBlock(e)
  <2>1. CASE i <= r
    <3>1. i \in 1 .. r
      BY <2>1
    <3> QED BY <1>1, <1>2, <1>3, <1>4, <2>1, <3>1 DEF GotAt
  <2>2. CASE i > r
    <3>1. i - r \in 1 .. l /\ at + (i - r) = KeyLen + i + KeyLen
      BY <1>8, <1>16, <2>2
    <3>2. stream[e][i - r] = ByteTo(e, at + (i - r))
      BY <1>1, <1>2, <3>1 DEF WireAt
    <3>3. rgot'[e][i] = stream[e][i - r]
      BY <1>17, <2>2
    <3> QED BY <1>12, <3>1, <3>2, <3>3
  <2> QED BY <2>1, <2>2
<1>14. GotAt(e)'
  BY <1>1, <1>3, <1>4, <1>13, SameBytes DEF GotAt
<1>15. KeyInv'
  BY <1>3 DEF HandshakeInv, KeyInv
<1> QED BY <1>5, <1>6, <1>7, <1>10, <1>14, <1>15 DEF HandshakeInv

\* recvdata compares; what it has is the answer under the peer's key.
LEMMA NextCheckSigned ==
  ASSUME HandshakeInv, NEW e \in Ends, CheckSigned(e)
  PROVE  HandshakeInv'
<1> USE TheEnds
<1>1. HandshakeType /\ OrderAt(e) /\ WireAt(e) /\ GotAt(e)
  BY DEF HandshakeInv
<1>2. PICK r \in Nat, s \in Nat : Len(rgot[e]) = r /\ Len(sgot[e]) = s
  BY <1>1, TheLengths
<1>3. /\ rpc[e] = "recv" /\ r = KeyLen
      /\ rpc' = [rpc EXCEPT ![e] = IF Compares(e) THEN "authed" ELSE "exit"]
      /\ g_authed_peer' = [g_authed_peer EXCEPT ![e] = Compares(e)]
      /\ key' = key /\ spc' = spc /\ rgot' = rgot /\ sgot' = sgot /\ READ_IN' = READ_IN /\ up' = up
      /\ g_signed_auth' = g_signed_auth /\ stream' = stream
  BY <1>2 DEF CheckSigned
<1>4. Compares(e) \in BOOLEAN
  BY DEF Compares
<1>5. HandshakeType'
  BY <1>1, <1>3, <1>4 DEF HandshakeType
<1>6. /\ rpc'[e] = IF Compares(e) THEN "authed" ELSE "exit"
      /\ g_authed_peer'[e] = Compares(e)
  BY <1>1, <1>3 DEF HandshakeType
<1>7. /\ OrderAt(Peer[e])' /\ WireAt(Peer[e])' /\ GotAt(Peer[e])'
      /\ SentTo(e)' = SentTo(e)
  <2>1. /\ rpc' = [rpc EXCEPT ![e] = rpc'[e]] /\ spc' = [spc EXCEPT ![e] = spc'[e]]
        /\ rgot' = [rgot EXCEPT ![e] = rgot'[e]] /\ sgot' = [sgot EXCEPT ![e] = sgot'[e]]
        /\ g_signed_auth' = [g_signed_auth EXCEPT ![e] = g_signed_auth'[e]]
        /\ g_authed_peer' = [g_authed_peer EXCEPT ![e] = g_authed_peer'[e]]
        /\ READ_IN' = [READ_IN EXCEPT ![e] = READ_IN'[e]]
    BY <1>1, <1>3, <1>6 DEF HandshakeType
  <2>2. /\ rpc'[e] = "start" <=> rpc[e] = "start"
        /\ spc'[e] = "start" <=> spc[e] = "start"
        /\ spc'[e] = "open" <=> spc[e] = "open"
        /\ stream'[Peer[e]] = stream[Peer[e]]
    BY <1>3, <1>6
  <2> QED BY <1>3, <2>1, <2>2, OtherEnd
<1>8. OrderAt(e)'
  <2>1. e = "master" => sgot[e] = <<>> /\ spc[e] = "start"
    BY <1>1, <1>3 DEF OrderAt
  <2>2. spc[e] # "open"
    BY <1>1, <1>3 DEF OrderAt
  <2> QED BY <1>1, <1>2, <1>3, <1>6, <2>1, <2>2 DEF OrderAt
<1>9. ReadBy(e)' = ReadBy(e)
  <2>1. rpc[e] # "listen" /\ rpc'[e] # "listen"
    BY <1>3, <1>6
  <2>2. ReadBy(e) = Len(rgot[e]) + Len(sgot[e]) /\ ReadBy(e)' = Len(rgot'[e]) + Len(sgot'[e])
    BY <2>1 DEF ReadBy
  <2> QED BY <1>3, <2>2
<1>10. WireAt(e)' /\ GotAt(e)'
  BY <1>1, <1>3, <1>6, <1>7, <1>9, Untouched, UntouchedGot
<1>11. Compares(e) => key["master"] = key["minion"]
  <2> SUFFICES ASSUME Compares(e) PROVE key["master"] = key["minion"]
    OBVIOUS
  <2>1. rgot[e] = Signed(Challenge(e), key[e])
    BY DEF Compares
  <2>2. rgot[e][1] = TheAnswer(e)
    BY <1>1, <1>2, <1>3 DEF GotAt
  <2>3. Signed(Challenge(e), key[e])[1] = <<"signed", e, "challenge", key[e]>>
    BY DEF Signed, Challenge
  <2>4. key[e] = key[Peer[e]]
    BY <2>1, <2>2, <2>3 DEF TheAnswer
  <2> QED BY <2>4
<1>12. KeyInv'
  BY <1>3, <1>6, <1>11 DEF HandshakeInv, KeyInv, HandshakeType
<1> QED BY <1>5, <1>7, <1>8, <1>10, <1>12 DEF HandshakeInv

\* recvdata turns to the blocks.
LEMMA NextListen ==
  ASSUME HandshakeInv, NEW e \in Ends, Listen(e)
  PROVE  HandshakeInv'
<1> USE TheEnds
<1>1. HandshakeType /\ OrderAt(e) /\ WireAt(e) /\ GotAt(e)
  BY DEF HandshakeInv
<1>3. /\ rpc[e] = "authed" /\ g_signed_auth[e] /\ g_authed_peer[e]
      /\ rpc' = [rpc EXCEPT ![e] = "listen"] /\ rgot' = [rgot EXCEPT ![e] = <<>>]
      /\ READ_IN' = [READ_IN EXCEPT ![e] = TRUE]
      /\ key' = key /\ spc' = spc /\ sgot' = sgot /\ up' = up /\ stream' = stream
      /\ g_signed_auth' = g_signed_auth /\ g_authed_peer' = g_authed_peer
  BY DEF Listen, EncryptReady, flags
<1>4. <<>> \in Seq(Bytes) /\ Len(<<>>) = 0
  BY EmptySeq
<1>5. HandshakeType'
  BY <1>1, <1>3, <1>4 DEF HandshakeType
<1>6. rpc'[e] = "listen" /\ rgot'[e] = <<>> /\ READ_IN'[e]
  BY <1>1, <1>3 DEF HandshakeType
<1>7. /\ OrderAt(Peer[e])' /\ WireAt(Peer[e])' /\ GotAt(Peer[e])'
      /\ SentTo(e)' = SentTo(e)
  <2>1. /\ rpc' = [rpc EXCEPT ![e] = rpc'[e]] /\ spc' = [spc EXCEPT ![e] = spc'[e]]
        /\ rgot' = [rgot EXCEPT ![e] = rgot'[e]] /\ sgot' = [sgot EXCEPT ![e] = sgot'[e]]
        /\ g_signed_auth' = [g_signed_auth EXCEPT ![e] = g_signed_auth'[e]]
        /\ g_authed_peer' = [g_authed_peer EXCEPT ![e] = g_authed_peer'[e]]
        /\ READ_IN' = [READ_IN EXCEPT ![e] = READ_IN'[e]]
    BY <1>1, <1>3, <1>6 DEF HandshakeType
  <2> QED BY <1>3, <1>6, <2>1, OtherEnd
<1>8. OrderAt(e)'
  BY <1>1, <1>3, <1>4, <1>6 DEF OrderAt
<1>9. ReadBy(e)' = ReadBy(e)
  <2>1. PICK s \in Nat : Len(sgot[e]) = s
    BY <1>1, TheLengths
  <2>2. ReadBy(e) = KeyLen + s
    BY <1>1, <1>3, <2>1 DEF ReadBy, OrderAt
  <2>3. ReadBy(e)' = KeyLen + 0 + s
    BY <1>3, <1>4, <1>6, <2>1 DEF ReadBy
  <2> QED BY <2>2, <2>3
<1>10. WireAt(e)'
  BY <1>1, <1>3, <1>7, <1>9, Untouched
<1>11. GotAt(e)'
  BY <1>1, <1>3, <1>4, <1>6, SameBytes DEF GotAt
<1>12. KeyInv'
  BY <1>3 DEF HandshakeInv, KeyInv
<1> QED BY <1>5, <1>7, <1>8, <1>10, <1>11, <1>12 DEF HandshakeInv

-----------------------------------------------------------------------------
(* The actions of senddata *)

\* senddata reads the challenge of the peer.
LEMMA NextRecvChallenge ==
  ASSUME HandshakeInv, NEW e \in Ends, RecvChallenge(e)
  PROVE  HandshakeInv'
<1> USE TheEnds
<1>1. HandshakeType /\ OrderAt(e) /\ WireAt(e) /\ GotAt(e)
  BY DEF HandshakeInv
<1>2. PICK r \in Nat, s \in Nat, l \in Nat, at \in Nat :
        Len(rgot[e]) = r /\ Len(sgot[e]) = s /\ Len(stream[e]) = l /\ ReadBy(e) = at
  BY <1>1, TheLengths
<1>3. /\ spc[e] = "start" /\ (e = "master" => g_authed_peer[e]) /\ s < KeyLen /\ Take(e, KeyLen - s)
      /\ sgot' = [sgot EXCEPT ![e] = @ \o SubSeq(stream[e], 1, Len(stream[e]) - Len(stream'[e]))]
      /\ key' = key /\ rpc' = rpc /\ spc' = spc /\ rgot' = rgot /\ READ_IN' = READ_IN /\ up' = up
      /\ g_signed_auth' = g_signed_auth /\ g_authed_peer' = g_authed_peer
  BY <1>2 DEF RecvChallenge, Wanted, flags, MaySign
<1>4. PICK k \in 1 .. KeyLen - s :
        /\ k \in Nat /\ k <= l
        /\ stream' \in [Ends -> Seq(Bytes)] /\ stream'[Peer[e]] = stream[Peer[e]]
        /\ Len(stream'[e]) = l - k
        /\ \A i \in 1 .. l - k : stream'[e][i] = stream[e][k + i]
        /\ sgot'[e] \in Seq(Bytes) /\ Len(sgot'[e]) = s + k
        /\ \A i \in 1 .. s + k : sgot'[e][i] = IF i <= s THEN sgot[e][i] ELSE stream[e][i - s]
  <2>1. PICK all : all = sgot[e] \o SubSeq(stream[e], 1, Len(stream[e]) - Len(stream'[e]))
    OBVIOUS
  <2>2. sgot'[e] = all /\ sgot[e] \in Seq(Bytes)
    BY <1>1, <1>3, <2>1 DEF HandshakeType
  <2>3. PICK n \in Int : n = KeyLen - s /\ Take(e, n)
    BY <1>3
  <2>4. PICK k \in 1 .. n : TakesOver(e, k, sgot[e], all)
    BY <1>1, <2>1, <2>2, <2>3, WhatIsTaken
  <2>5. k \in 1 .. KeyLen - s
    BY <2>3
  <2>6. /\ k \in Nat /\ k <= l
        /\ stream' \in [Ends -> Seq(Bytes)] /\ stream'[Peer[e]] = stream[Peer[e]]
        /\ Len(stream'[e]) = l - k
        /\ \A i \in 1 .. l - k : stream'[e][i] = stream[e][k + i]
    BY <1>2, <2>4 DEF TakesOver
  <2>7. /\ all \in Seq(Bytes) /\ Len(all) = s + k
        /\ \A i \in 1 .. s + k : all[i] = IF i <= s THEN sgot[e][i] ELSE stream[e][i - s]
    BY <1>2, <2>4 DEF TakesOver
  <2>8. /\ sgot'[e] \in Seq(Bytes) /\ Len(sgot'[e]) = s + k
        /\ \A i \in 1 .. s + k :
             sgot'[e][i] = IF i <= s THEN sgot[e][i] ELSE stream[e][i - s]
    BY <2>2, <2>7
  <2> QED BY <2>5, <2>6, <2>8
<1>16. k \in Nat /\ k > 0 /\ k <= KeyLen - s /\ k <= l
  BY <1>4
<1>17. \A i \in 1 .. s + k :
         sgot'[e][i] = IF i <= s THEN sgot[e][i] ELSE stream[e][i - s]
  BY <1>4
<1>5. HandshakeType'
  BY <1>1, <1>3, <1>4 DEF HandshakeType
<1>6. /\ OrderAt(Peer[e])' /\ WireAt(Peer[e])' /\ GotAt(Peer[e])'
      /\ SentTo(e)' = SentTo(e)
  <2>1. sgot' = [sgot EXCEPT ![e] = sgot'[e]]
    BY <1>1, <1>3 DEF HandshakeType
  <2>2. /\ rpc' = [rpc EXCEPT ![e] = rpc'[e]] /\ spc' = [spc EXCEPT ![e] = spc'[e]]
        /\ rgot' = [rgot EXCEPT ![e] = rgot'[e]]
        /\ g_signed_auth' = [g_signed_auth EXCEPT ![e] = g_signed_auth'[e]]
        /\ g_authed_peer' = [g_authed_peer EXCEPT ![e] = g_authed_peer'[e]]
        /\ READ_IN' = [READ_IN EXCEPT ![e] = READ_IN'[e]]
    BY <1>1, <1>3 DEF HandshakeType
  <2> QED BY <1>3, <1>4, <2>1, <2>2, OtherEnd
<1>7. OrderAt(e)'
  <2>1. Len(sgot'[e]) <= KeyLen
    BY <1>3, <1>4
  <2> QED BY <1>1, <1>3, <2>1 DEF OrderAt
<1>8. at = r + s /\ r = IF e = "master" THEN KeyLen ELSE 0
  <2>1. rpc[e] # "listen" /\ (e = "minion" => rpc[e] = "start") /\ (e = "master" =>
            rpc[e] = "authed")
    BY <1>1, <1>3 DEF OrderAt
  <2>2. at = r + s
    BY <1>2, <2>1 DEF ReadBy
  <2> QED BY <1>1, <1>2, <2>1, <2>2 DEF OrderAt
<1>9. ReadBy(e)' = at + k
  <2>1. rpc'[e] # "listen"
    BY <1>1, <1>3 DEF OrderAt
  <2>2. ReadBy(e)' = Len(rgot'[e]) + Len(sgot'[e])
    BY <2>1 DEF ReadBy
  <2>3. Len(rgot'[e]) = r
    BY <1>2, <1>3
  <2>4. ReadBy(e)' = r + (s + k)
    BY <1>4, <2>2, <2>3
  <2> QED BY <1>8, <2>4
<1>10. WireAt(e)'
  <2>1. /\ k <= Len(stream[e]) /\ Len(stream'[e]) = Len(stream[e]) - k
        /\ \A i \in 1 .. Len(stream'[e]) : stream'[e][i] = stream[e][k + i]
    BY <1>2, <1>4
  <2>2. ReadBy(e)' = ReadBy(e) + k
    BY <1>2, <1>9
  <2> QED BY <1>1, <1>3, <1>6, <1>16, <2>1, <2>2, ReadStep
<1>12. \A i \in 1 .. KeyLen : ByteTo(e, r + i) = TheChallenge(e)
  BY <1>8 DEF ByteTo, FirstTo, ThenTo
<1>13. ASSUME NEW i \in 1 .. s + k PROVE sgot'[e][i] = TheChallenge(e)
  <2>1. CASE i <= s
    BY <1>1, <1>2, <1>3, <1>4, <2>1 DEF GotAt
  <2>2. CASE i > s
    <3>1. i - s \in 1 .. l /\ i \in 1 .. KeyLen /\ at + (i - s) = r + i
      BY <1>8, <1>16, <2>2
    <3>2. stream[e][i - s] = ByteTo(e, at + (i - s))
      BY <1>1, <1>2, <3>1 DEF WireAt
    <3>3. sgot'[e][i] = stream[e][i - s]
      BY <1>17, <2>2
    <3> QED BY <1>12, <3>1, <3>2, <3>3
  <2> QED BY <2>1, <2>2
<1>14. GotAt(e)'
  <2>1. /\ TheChallenge(e)' = TheChallenge(e) /\ TheAnswer(e)' = TheAnswer(e)
        /\ TheBlock(e)' = TheBlock(e)
    BY <1>3, SameBytes
  <2>2. \A i \in 1 .. Len(sgot'[e]) : sgot'[e][i] = TheChallenge(e)'
    BY <1>4, <1>13, <2>1
  <2>3. \A i \in 1 .. Len(rgot'[e]) :
          rgot'[e][i] = IF rpc'[e] = "listen" THEN TheBlock(e)' ELSE TheAnswer(e)'
    BY <1>1, <1>3, <2>1 DEF GotAt
  <2> QED BY <2>2, <2>3 DEF GotAt
<1>15. KeyInv'
  BY <1>3 DEF HandshakeInv, KeyInv
<1> QED BY <1>5, <1>6, <1>7, <1>10, <1>14, <1>15 DEF HandshakeInv

\* senddata answers the challenge it has read.
LEMMA NextSendSigned ==
  ASSUME HandshakeInv, NEW e \in Ends, SendSigned(e)
  PROVE  HandshakeInv'
<1> USE TheEnds
<1>1. PICK p : p = Peer[e]
  OBVIOUS
<1>2. /\ HandshakeType /\ p \in Ends /\ p # e /\ Peer[p] = e
      /\ OrderAt(e) /\ OrderAt(p) /\ WireAt(e) /\ WireAt(p) /\ GotAt(e) /\ GotAt(p)
  BY <1>1 DEF HandshakeInv
<1>3. /\ spc[e] = "start" /\ Len(sgot[e]) = KeyLen /\ spc'[e] = "sent" /\ spc'[p] = spc[p] /\ up
      /\ spc' \in [Ends -> {"start", "sent", "signed", "open"}]
      /\ key' = key /\ rpc' = rpc /\ rgot' = rgot /\ sgot' = sgot /\ READ_IN' = READ_IN /\ up' = up
      /\ g_signed_auth' = g_signed_auth /\ g_authed_peer' = g_authed_peer
      /\ stream' = [stream EXCEPT ![Peer[e]] = @ \o Signed(sgot[e], key[e])]
  BY <1>2 DEF SendSigned, HandshakeType, flags
<1>4. PICK s \in Seq(Bytes) : /\ s = Signed(sgot[e], key[e]) /\ Len(s) = KeyLen
                              /\ \A i \in 1 .. KeyLen : s[i] = TheAnswer(p)
  <2>1. PICK t \in Seq(Bytes) : t = sgot[e]
    BY <1>2 DEF HandshakeType
  <2>2. Len(t) = KeyLen /\ \A i \in 1 .. Len(t) : t[i] = TheChallenge(e)
    BY <1>2, <1>3, <2>1 DEF GotAt
  <2>3. \A u \in Seq(Bytes) :
          Len(u) = KeyLen /\ (\A i \in 1 .. Len(u) : u[i] = TheChallenge(e)) =>
            /\ Signed(u, key[e]) \in Seq(Bytes) /\ Len(Signed(u, key[e])) = KeyLen
            /\ \A i \in 1 .. KeyLen : Signed(u, key[e])[i] = TheAnswer(Peer[e])
    BY <1>2, ChallengeAndAnswer
  <2>4. /\ Signed(t, key[e]) \in Seq(Bytes) /\ Len(Signed(t, key[e])) = KeyLen
        /\ \A i \in 1 .. KeyLen : Signed(t, key[e])[i] = TheAnswer(Peer[e])
    BY <2>2, <2>3
  <2> QED BY <1>1, <2>1, <2>4
<1>5. HandshakeType'
  BY <1>2, <1>3, <1>4, WhatIsSent DEF HandshakeType
<1>6. OrderAt(e)' /\ OrderAt(p)'
  <2>1. e = "master" => g_authed_peer[e]
    <3>1. e = "master" => sgot[e] # <<>>
      BY <1>2, <1>3, TheLengths
    <3> QED BY <1>2, <3>1 DEF OrderAt
  <2> QED BY <1>2, <1>3, <2>1 DEF OrderAt
<1>7. GotAt(e)' /\ GotAt(p)'
  BY <1>2, <1>3, UntouchedGot
<1>8. WireAt(e)'
  <2>1. stream'[e] = stream[e]
    BY <1>2, <1>3, <1>4, WhatIsSent
  <2>2. ReadBy(e)' = ReadBy(e) /\ SentTo(e)' = SentTo(e)
    BY <1>1, <1>3 DEF ReadBy, SentTo
  <2> QED BY <1>2, <1>3, <2>1, <2>2, Untouched
<1>9. WireAt(p)'
  <2>1. ReadBy(p)' = ReadBy(p) /\ SentTo(p)' = SentTo(p) + KeyLen
    BY <1>2, <1>3 DEF ReadBy, SentTo
  <2>2. SentTo(p) = IF p = "minion" THEN KeyLen ELSE 0
    <3>1. e = "master" => sgot[e] # <<>>
      BY <1>2, <1>3, TheLengths
    <3>2. IF p = "minion" THEN rpc[e] # "start" ELSE rpc[e] = "start"
      BY <1>2, <1>3, <3>1 DEF OrderAt
    <3> QED BY <1>2, <1>3, <3>2 DEF SentTo
  <2>3. \A i \in 1 .. KeyLen : ByteTo(p, SentTo(p) + i) = TheAnswer(p)
    BY <1>2, <2>2 DEF ByteTo, FirstTo, ThenTo
  <2>4. \A i \in 1 .. KeyLen : s[i] = ByteTo(p, SentTo(p) + i)
    BY <1>4, <2>3
  <2> QED BY <1>1, <1>2, <1>3, <1>4, <2>1, <2>4, SendStep
<1>10. KeyInv'
  BY <1>3 DEF HandshakeInv, KeyInv
<1> QED BY <1>1, <1>2, <1>5, <1>6, <1>7, <1>8, <1>9, <1>10 DEF HandshakeInv

\* senddata says that it has signed.
LEMMA NextSetSigned ==
  ASSUME HandshakeInv, NEW e \in Ends, SetSigned(e)
  PROVE  HandshakeInv'
<1> USE TheEnds
<1>1. HandshakeType /\ OrderAt(e) /\ WireAt(e) /\ GotAt(e)
  BY DEF HandshakeInv
<1>3. /\ spc[e] = "sent"
      /\ spc' = [spc EXCEPT ![e] = "signed"] /\ g_signed_auth' = [g_signed_auth EXCEPT ![e] = TRUE]
      /\ key' = key /\ rpc' = rpc /\ rgot' = rgot /\ sgot' = sgot /\ READ_IN' = READ_IN /\ up' = up
      /\ g_authed_peer' = g_authed_peer /\ stream' = stream
  BY DEF SetSigned
<1>5. HandshakeType'
  BY <1>1, <1>3 DEF HandshakeType
<1>6. spc'[e] = "signed" /\ g_signed_auth'[e]
  BY <1>1, <1>3 DEF HandshakeType
<1>7. /\ OrderAt(Peer[e])' /\ WireAt(Peer[e])' /\ GotAt(Peer[e])'
      /\ SentTo(e)' = SentTo(e)
  <2>1. /\ rpc' = [rpc EXCEPT ![e] = rpc'[e]] /\ spc' = [spc EXCEPT ![e] = spc'[e]]
        /\ rgot' = [rgot EXCEPT ![e] = rgot'[e]] /\ sgot' = [sgot EXCEPT ![e] = sgot'[e]]
        /\ g_signed_auth' = [g_signed_auth EXCEPT ![e] = g_signed_auth'[e]]
        /\ g_authed_peer' = [g_authed_peer EXCEPT ![e] = g_authed_peer'[e]]
        /\ READ_IN' = [READ_IN EXCEPT ![e] = READ_IN'[e]]
    BY <1>1, <1>3, <1>6 DEF HandshakeType
  <2> QED BY <1>3, <1>6, <2>1, OtherEnd
<1>8. OrderAt(e)'
  BY <1>1, <1>3, <1>6 DEF OrderAt
<1>9. WireAt(e)' /\ GotAt(e)'
  <2>1. ReadBy(e)' = ReadBy(e)
    BY <1>3 DEF ReadBy
  <2> QED BY <1>1, <1>3, <1>7, <2>1, Untouched, UntouchedGot
<1>12. KeyInv'
  BY <1>3 DEF HandshakeInv, KeyInv
<1> QED BY <1>5, <1>7, <1>8, <1>9, <1>12 DEF HandshakeInv

\* senddata sends its first block, after all else.
LEMMA NextSendBlock ==
  ASSUME HandshakeInv, NEW e \in Ends, SendBlock(e)
  PROVE  HandshakeInv'
<1> USE TheEnds
<1>1. PICK p : p = Peer[e]
  OBVIOUS
<1>2. /\ HandshakeType /\ p \in Ends /\ p # e /\ Peer[p] = e
      /\ OrderAt(e) /\ OrderAt(p) /\ WireAt(e) /\ WireAt(p) /\ GotAt(e) /\ GotAt(p)
  BY <1>1 DEF HandshakeInv
<1>3. /\ spc[e] = "signed" /\ g_signed_auth[e] /\ g_authed_peer[e] /\ spc'[e] = "open"
             /\ spc'[p] = spc[p]
      /\ spc' \in [Ends -> {"start", "sent", "signed", "open"}]
      /\ key' = key /\ rpc' = rpc /\ rgot' = rgot /\ sgot' = sgot /\ READ_IN' = READ_IN /\ up' = up
      /\ g_signed_auth' = g_signed_auth /\ g_authed_peer' = g_authed_peer
      /\ stream' = [stream EXCEPT ![Peer[e]] = IF up THEN Append(@, <<"block", e>>) ELSE @]
  BY <1>2 DEF SendBlock, HandshakeType, EncryptReady, flags
<1>4. PICK s \in Seq(Bytes) : s = <<TheBlock(p)>> /\ Len(s) = 1 /\ s[1] = TheBlock(p)
  <2>1. PICK b \in Bytes : b = TheBlock(p)
    BY <1>2, TheBytes
  <2>2. <<b>> \in Seq(Bytes) /\ Len(<<b>>) = 1 /\ <<b>>[1] = b
    OBVIOUS
  <2> QED BY <2>1, <2>2
<1>5. IF up THEN stream' = [stream EXCEPT ![Peer[e]] = @ \o s] ELSE stream' = stream
  <2>1. stream[p] \in Seq(Bytes) /\ TheBlock(p) \in Bytes /\ TheBlock(p) = <<"block", e>>
    BY <1>2, TheBytes DEF HandshakeType, TheBlock
  <2>2. Append(stream[p], TheBlock(p)) = stream[p] \o s
    BY <1>4, <2>1, AppendIsConcat
  <2>3. CASE up
    <3>1. stream' = [stream EXCEPT ![p] = Append(stream[p], TheBlock(p))]
      BY <1>1, <1>3, <2>1, <2>3
    <3> QED BY <1>1, <2>2, <2>3, <3>1
  <2>4. CASE ~up
    <3>1. stream' = [stream EXCEPT ![p] = stream[p]]
      BY <1>1, <1>3, <2>4
    <3> QED BY <1>2, <2>4, <3>1 DEF HandshakeType
  <2> QED BY <2>3, <2>4
<1>6. HandshakeType' /\ stream'[e] = stream[e]
  <2>1. stream' \in [Ends -> Seq(Bytes)] /\ stream'[e] = stream[e]
    <3>1. CASE up
      BY <1>2, <1>4, <1>5, <3>1, WhatIsSent
    <3>2. CASE ~up
      BY <1>2, <1>5, <3>2 DEF HandshakeType
    <3> QED BY <3>1, <3>2
  <2> QED BY <1>2, <1>3, <2>1 DEF HandshakeType
<1>7. OrderAt(e)' /\ OrderAt(p)'
  BY <1>2, <1>3 DEF OrderAt
<1>8. GotAt(e)' /\ GotAt(p)'
  BY <1>2, <1>3, UntouchedGot
<1>9. WireAt(e)'
  <2>1. ReadBy(e)' = ReadBy(e) /\ SentTo(e)' = SentTo(e)
    BY <1>1, <1>3 DEF ReadBy, SentTo
  <2> QED BY <1>2, <1>3, <1>6, <2>1, Untouched
<1>10. ReadBy(p)' = ReadBy(p) /\ SentTo(p)' = SentTo(p) + 1 /\ SentTo(p) = 2 * KeyLen
  <2>1. rpc[e] # "start"
    BY <1>2, <1>3 DEF OrderAt
  <2> QED BY <1>2, <1>3, <2>1 DEF ReadBy, SentTo
<1>11. WireAt(p)'
  <2>1. CASE up
    <3>1. \A i \in 1 .. 1 : s[i] = ByteTo(p, SentTo(p) + i)
      BY <1>4, <1>10 DEF ByteTo
    <3>2. stream' = [stream EXCEPT ![Peer[e]] = @ \o s]
      BY <1>5, <2>1
    <3>3. /\ WireAt(Peer[e]) /\ ReadBy(Peer[e])' = ReadBy(Peer[e])
          /\ SentTo(Peer[e])' = SentTo(Peer[e]) + Len(s)
          /\ \A i \in 1 .. Len(s) : s[i] = ByteTo(Peer[e], SentTo(Peer[e]) + i)
      BY <1>1, <1>2, <1>4, <1>10, <3>1
    <3>4. WireAt(Peer[e])'
      BY <1>2, <1>3, <2>1, <3>2, <3>3, SendStep
    <3> QED BY <1>1, <3>4
  <2>2. CASE ~up
    <3>1. PICK l \in Nat, at \in Nat : Len(stream[p]) = l /\ ReadBy(p) = at /\ at + l <= 2 * KeyLen
      <4>1. ReadBy(p) + Len(stream[p]) <= SentTo(p)
        BY <1>2, <2>2 DEF WireAt
      <4>2. Len(stream[p]) \in Nat /\ ReadBy(p) \in Nat
        BY <1>2, TheLengths
      <4> QED BY <1>10, <4>1, <4>2
    <3>2. ReadBy(p)' + Len(stream'[p]) <= SentTo(p)'
      BY <1>5, <1>10, <2>2, <3>1
    <3>3. ~up' /\ stream'[p] = stream[p]
      BY <1>3, <1>5, <2>2
    <3>4. \A i : ByteTo(p, i)' = ByteTo(p, i)
      BY <1>3, SameBytes
    <3>5. \A i \in 1 .. Len(stream[p]) : stream[p][i] = ByteTo(p, at + i)
      BY <1>2, <3>1 DEF WireAt
    <3>6. \A i \in 1 .. Len(stream'[p]) : stream'[p][i] = ByteTo(p, at + i)'
      BY <3>3, <3>4, <3>5
    <3>7. ReadBy(p)' = at
      BY <1>10, <3>1
    <3> QED BY <3>2, <3>3, <3>6, <3>7 DEF WireAt
  <2> QED BY <1>2, <2>1, <2>2 DEF HandshakeType
<1>12. KeyInv'
  BY <1>3 DEF HandshakeInv, KeyInv
<1> QED BY <1>1, <1>2, <1>6, <1>7, <1>8, <1>9, <1>11, <1>12 DEF HandshakeInv

-----------------------------------------------------------------------------
(* The loss of the connection *)

LEMMA NextLose ==
  ASSUME HandshakeInv, Lose
  PROVE  HandshakeInv'
<1> USE TheEnds
<1>1. HandshakeType /\ \A e \in Ends : OrderAt(e) /\ WireAt(e) /\ GotAt(e)
  BY DEF HandshakeInv
<1>2. /\ up /\ ~up'
      /\ key' = key /\ rpc' = rpc /\ spc' = spc /\ rgot' = rgot /\ sgot' = sgot
             /\ READ_IN' = READ_IN
      /\ g_signed_auth' = g_signed_auth /\ g_authed_peer' = g_authed_peer
  BY DEF Lose, flags
<1>3. \A e \in Ends : \E m \in 0 .. Len(stream[e]) : stream'[e] = SubSeq(stream[e], 1, m)
  <2>1. PICK m \in 0 .. Len(stream["master"]), n \in 0 .. Len(stream["minion"]) :
          stream' = [master |-> SubSeq(stream["master"], 1, m),
                     minion |-> SubSeq(stream["minion"], 1, n)]
    BY DEF Lose
  <2>2. /\ stream'["master"] = SubSeq(stream["master"], 1, m)
        /\ stream'["minion"] = SubSeq(stream["minion"], 1, n)
    BY <2>1
  <2> QED BY <2>2
<1>4. ASSUME NEW e \in Ends
      PROVE  /\ stream'[e] \in Seq(Bytes) /\ Len(stream'[e]) <= Len(stream[e])
             /\ \A i \in 1 .. Len(stream'[e]) :
                    i \in 1 .. Len(stream[e]) /\ stream'[e][i] = stream[e][i]
  <2>1. PICK m \in 0 .. Len(stream[e]) : stream'[e] = SubSeq(stream[e], 1, m)
    BY <1>3
  <2>2. stream[e] \in Seq(Bytes) /\ Len(stream[e]) \in Nat
    BY <1>1, TheLengths DEF HandshakeType
  <2>3. m \in Nat /\ m <= Len(stream[e])
    BY <2>1, <2>2
  <2>4. /\ stream'[e] \in Seq(Bytes) /\ Len(stream'[e]) = m
        /\ \A i \in 1 .. m : i \in 1 .. Len(stream[e]) /\ stream'[e][i] = stream[e][i]
    BY <2>1, <2>2, <2>3, FirstOnes
  <2> QED BY <2>3, <2>4
<1>5. HandshakeType'
  <2>1. stream' = [e \in Ends |-> stream'[e]]
    BY DEF Lose
  <2>2. stream' \in [Ends -> Seq(Bytes)]
    BY <1>4, <2>1
  <2>3. up' \in BOOLEAN
    BY DEF Lose
  <2> QED BY <1>1, <1>2, <2>2, <2>3 DEF HandshakeType
<1>6. ASSUME NEW e \in Ends PROVE WireAt(e)'
  <2>1. PICK l \in Nat, n \in Nat, at \in Nat :
          Len(stream[e]) = l /\ Len(stream'[e]) = n /\ ReadBy(e) = at /\ n <= l
    BY <1>1, <1>4, LenProperties, TheLengths
  <2>2. ReadBy(e)' = ReadBy(e) /\ SentTo(e)' = SentTo(e) /\ SentTo(e) \in Nat
    BY <1>1, <1>2, TheLengths DEF ReadBy, SentTo
  <2>3. at + n <= SentTo(e)
    BY <1>1, <1>2, <2>1, <2>2 DEF WireAt
  <2>4. \A i \in 1 .. n : stream'[e][i] = ByteTo(e, at + i)
    BY <1>1, <1>4, <2>1 DEF WireAt
  <2>5. \A i : ByteTo(e, i)' = ByteTo(e, i)
    BY <1>2, SameBytes
  <2>6. ReadBy(e)' = at /\ SentTo(e)' = SentTo(e)
    BY <2>1, <2>2
  <2>7. ReadBy(e)' + Len(stream'[e]) <= SentTo(e)'
    BY <2>1, <2>3, <2>6
  <2>8. \A i \in 1 .. Len(stream'[e]) : stream'[e][i] = ByteTo(e, at + i)'
    BY <2>1, <2>4, <2>5
  <2> QED BY <1>2, <2>6, <2>7, <2>8 DEF WireAt
<1>7. \A e \in Ends : OrderAt(e)' /\ GotAt(e)'
  BY <1>1, <1>2, UntouchedGot DEF OrderAt
<1>8. KeyInv'
  BY <1>2 DEF HandshakeInv, KeyInv
<1> QED BY <1>5, <1>6, <1>7, <1>8 DEF HandshakeInv

-----------------------------------------------------------------------------
(* The theorems *)

LEMMA InitHandshake == Init => HandshakeInv
<1> SUFFICES ASSUME Init PROVE HandshakeInv
  OBVIOUS
<1> USE TheEnds
<1>0. <<>> \in Seq(Bytes) /\ Len(<<>>) = 0
  BY EmptySeq
<1>1. HandshakeType
  BY <1>0 DEF Init, HandshakeType
<1>2. ASSUME NEW e \in Ends
      PROVE  /\ rpc[e] = "start" /\ spc[e] = "start" /\ rgot[e] = <<>> /\ sgot[e] = <<>>
             /\ ~g_signed_auth[e] /\ ~g_authed_peer[e] /\ ~READ_IN[e] /\ stream[e] = <<>> /\ up
  BY DEF Init
<1>3. ASSUME NEW e \in Ends PROVE OrderAt(e) /\ GotAt(e)
  BY <1>0, <1>2 DEF OrderAt, GotAt
<1>4. ASSUME NEW e \in Ends PROVE WireAt(e)
  <2>1. SentTo(e) = 0
    <3>1. rpc[Peer[e]] = "start" /\ spc[Peer[e]] = "start"
      BY <1>2
    <3> QED BY <3>1 DEF SentTo
  <2>2. ReadBy(e) = 0
    <3>1. rpc[e] # "listen" /\ Len(rgot[e]) = 0 /\ Len(sgot[e]) = 0
      BY <1>0, <1>2
    <3> QED BY <3>1 DEF ReadBy
  <2> QED BY <1>0, <1>2, <2>1, <2>2 DEF WireAt
<1>5. KeyInv
  BY <1>2 DEF KeyInv
<1> QED BY <1>1, <1>3, <1>4, <1>5 DEF HandshakeInv

LEMMA NextHandshake == HandshakeInv /\ [Next]_vars => HandshakeInv'
<1> SUFFICES ASSUME HandshakeInv, [Next]_vars PROVE HandshakeInv'
  OBVIOUS
<1>1. CASE UNCHANGED vars
  <2>1. /\ key' = key /\ rpc' = rpc /\ spc' = spc /\ rgot' = rgot /\ sgot' = sgot
        /\ g_signed_auth' = g_signed_auth /\ g_authed_peer' = g_authed_peer
        /\ READ_IN' = READ_IN /\ stream' = stream /\ up' = up
    BY <1>1 DEF vars, flags
  <2>2. HandshakeType' /\ KeyInv'
    BY <2>1 DEF HandshakeInv, HandshakeType, KeyInv
  <2>3. ASSUME NEW e \in Ends PROVE OrderAt(e)' /\ WireAt(e)' /\ GotAt(e)'
    <3>1. OrderAt(e)'
      BY <2>1 DEF HandshakeInv, OrderAt
    <3>2. ReadBy(e)' = ReadBy(e) /\ SentTo(e)' = SentTo(e)
      BY <2>1 DEF ReadBy, SentTo
    <3> QED BY <2>1, <3>1, <3>2, Untouched, UntouchedGot DEF HandshakeInv
  <2> QED BY <2>2, <2>3 DEF HandshakeInv
<1>2. CASE Next
  BY <1>2, NextSendChallenge, NextRecvSigned, NextCheckSigned, NextListen, NextRecvBlock,
     NextRecvChallenge,
     NextSendSigned, NextSetSigned, NextSendBlock, NextLose DEF Next, EndStep
<1> QED BY <1>1, <1>2

\* What is known of the handshake holds at all times: for every length of the key, with
\* equal and with different keys, with and without a loss of the connection.
THEOREM HandshakeHolds == Spec => []HandshakeInv
BY InitHandshake, NextHandshake, PTL DEF Spec

\* No end opens for data unless both have the same key.
THEOREM OnlySameKeyOpens == Spec => []OpenMeansSameKey
<1>1. HandshakeInv => OpenMeansSameKey
  BY DEF HandshakeInv, KeyInv, OrderAt, OpenMeansSameKey
<1> QED BY <1>1, HandshakeHolds, PTL

\* The two threads of an end, which read one stream, never read what is meant for the other.
THEOREM NobodyReadsAmiss == Spec => []ReadsItsOwn
<1>1. HandshakeInv => ReadsItsOwn
  <2> SUFFICES ASSUME HandshakeInv, NEW e \in Ends
               PROVE  /\ \A b \in Range(rgot[e]) :
                             IF rpc[e] = "listen" THEN b = <<"block", Peer[e]>>
                                                                       ELSE b[1] = "signed"
                                                                           /\ b[2] = e
                      /\ \A b \in Range(sgot[e]) : b = <<"challenge", Peer[e]>>
    BY DEF ReadsItsOwn
  <2>1. DOMAIN rgot[e] = 1 .. Len(rgot[e]) /\ DOMAIN sgot[e] = 1 .. Len(sgot[e])
    BY LenProperties DEF HandshakeInv, HandshakeType
  <2>2. \A b \in Range(rgot[e]) : \E i \in 1 .. Len(rgot[e]) : b = rgot[e][i]
    BY <2>1 DEF Range
  <2>3. \A b \in Range(sgot[e]) : \E i \in 1 .. Len(sgot[e]) : b = sgot[e][i]
    BY <2>1 DEF Range
  <2>4. GotAt(e)
    BY DEF HandshakeInv
  <2> QED BY <2>2, <2>3, <2>4 DEF GotAt, TheBlock, TheAnswer, TheChallenge
<1> QED BY <1>1, HandshakeHolds, PTL
=============================================================================
