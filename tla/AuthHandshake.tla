---------------------------- MODULE AuthHandshake ----------------------------
(***************************************************************************)
(* How the two ends find out that they hold the same key, when encryption  *)
(* is on (auth_peer, sign_auth and the waits around them in                *)
(* udpipe_threads.cpp; the flags in files.cpp).                            *)
(*                                                                         *)
(* At each end recvdata challenges the peer: it sends random bytes and     *)
(* checks that what comes back decrypts to them; senddata signs: it        *)
(* receives the peer's bytes and returns them encrypted.  The two threads  *)
(* of an end read the SAME byte stream, and so does the transfer after     *)
(* them: only the waits on the flags g_signed_auth and g_authed_peer keep  *)
(* each from reading what is meant for another.                            *)
(*                                                                         *)
(* Bytes are pairs <<what, who>>: who is the end that made the challenge.  *)
(***************************************************************************)
EXTENDS Integers, Sequences, SequencesExt

CONSTANTS
  KeyLen,       \* KEY_LEN, in bytes
  Keys,         \* assignments of session keys to the two ends, one of them taken
  Loses         \* TRUE: the connection may be lost

Ends == {"master", "minion"}
Peer == [master |-> "minion", minion |-> "master"]

ASSUME KeyLenAssumption == KeyLen \in Nat \ {0}
ASSUME KeysAssumption == \A k \in Keys : DOMAIN k = Ends
ASSUME LosesAssumption == Loses \in BOOLEAN

VARIABLES
  key,              \* key[e]: the session key of e
  rpc, spc,         \* rpc[e], spc[e]: where recvdata and senddata of e are
  rgot, sgot,       \* rgot[e], sgot[e]: what they have received so far
  g_signed_auth, g_authed_peer,
  READ_IN,          \* recvdata is about to listen
  stream,           \* stream[e]: bytes on their way to e
  up                \* the connection is there

flags == <<g_signed_auth, g_authed_peer>>
vars == <<key, rpc, spc, rgot, sgot, flags, READ_IN, stream, up>>

Init ==
  /\ key \in Keys
  /\ rpc = [e \in Ends |-> "start"] /\ spc = [e \in Ends |-> "start"]
  /\ rgot = [e \in Ends |-> <<>>] /\ sgot = [e \in Ends |-> <<>>]
  /\ g_signed_auth = [e \in Ends |-> FALSE] /\ g_authed_peer = [e \in Ends |-> FALSE]
  /\ READ_IN = [e \in Ends |-> FALSE]
  /\ stream = [e \in Ends |-> <<>>]
  /\ up = TRUE

Challenge(e) == [i \in 1 .. KeyLen |-> <<"challenge", e>>]
\* The encryption under key k of a challenge.
Signed(bytes, k) == [i \in DOMAIN bytes |-> <<"signed", bytes[i][2], bytes[i][1], k>>]

\* get_encrypt_ready.
EncryptReady(e) == g_signed_auth[e] /\ g_authed_peer[e]

-----------------------------------------------------------------------------
(* recvdata *)

\* The master challenges at once; the minion once it has signed.
\* Mutant: the minion challenges at once too.
MayChallengeAtOnce(e) == TRUE
MayChallenge(e) == e = "minion" => g_signed_auth[e]

\* auth_peer, send_full of the random key.
SendChallenge(e) ==
  /\ rpc[e] = "start" /\ MayChallenge(e) /\ up
  /\ stream' = [stream EXCEPT ![Peer[e]] = @ \o Challenge(e)]
  /\ rpc' = [rpc EXCEPT ![e] = "recv"]
  /\ UNCHANGED <<key, spc, rgot, sgot, flags, READ_IN, up>>

\* What recv_full asks for.
Wanted(got) == KeyLen - Len(got)

\* UDT::recv returns some of the bytes there are, at most the bytes asked for.
Take(e, n) == \E k \in 1 .. n :
  /\ k <= Len(stream[e])
  /\ stream' = [stream EXCEPT ![e] = SubSeq(@, k + 1, Len(@))]

\* auth_peer, recv_full of the signed key.
RecvSigned(e) ==
  /\ rpc[e] = "recv" /\ Len(rgot[e]) < KeyLen
  /\ Take(e, Wanted(rgot[e]))
  /\ rgot' = [rgot EXCEPT ![e] = @ \o SubSeq(stream[e], 1, Len(stream[e]) - Len(stream'[e]))]
  /\ UNCHANGED <<key, rpc, spc, sgot, flags, READ_IN, up>>

\* The decryption of what came back is the challenge.
\* Mutant: memcmp's result is read the wrong way round.
ComparesWrong(e) == rgot[e] # Signed(Challenge(e), key[e])
Compares(e) == rgot[e] = Signed(Challenge(e), key[e])

\* memcmp, then set_peer_authed or exit(1).
CheckSigned(e) ==
  /\ rpc[e] = "recv" /\ Len(rgot[e]) = KeyLen
  /\ rpc' = [rpc EXCEPT ![e] = IF Compares(e) THEN "authed" ELSE "exit"]
  /\ g_authed_peer' = [g_authed_peer EXCEPT ![e] = Compares(e)]
  /\ UNCHANGED <<key, spc, rgot, sgot, g_signed_auth, READ_IN, stream, up>>

\* get_encrypt_ready, then recvdata lets senddata go and listens for blocks.
Listen(e) ==
  /\ rpc[e] = "authed" /\ EncryptReady(e)
  /\ rpc' = [rpc EXCEPT ![e] = "listen"]
  /\ rgot' = [rgot EXCEPT ![e] = <<>>]
  /\ READ_IN' = [READ_IN EXCEPT ![e] = TRUE]
  /\ UNCHANGED <<key, spc, sgot, flags, stream, up>>

\* The transfer: recvdata takes whatever comes for a block.
RecvBlock(e) ==
  /\ rpc[e] = "listen"
  /\ Take(e, KeyLen)
  /\ rgot' = [rgot EXCEPT ![e] = @ \o SubSeq(stream[e], 1, Len(stream[e]) - Len(stream'[e]))]
  /\ UNCHANGED <<key, rpc, spc, sgot, flags, READ_IN, up>>

-----------------------------------------------------------------------------
(* senddata *)

\* The minion signs at once; the master once its peer has signed.
\* Mutant: the master signs at once too.
MaySignAtOnce(e) == TRUE
MaySign(e) == e = "master" => g_authed_peer[e]

\* sign_auth, recv_full of the peer's key.
RecvChallenge(e) ==
  /\ spc[e] = "start" /\ MaySign(e) /\ Len(sgot[e]) < KeyLen
  /\ Take(e, Wanted(sgot[e]))
  /\ sgot' = [sgot EXCEPT ![e] = @ \o SubSeq(stream[e], 1, Len(stream[e]) - Len(stream'[e]))]
  /\ UNCHANGED <<key, rpc, spc, rgot, flags, READ_IN, up>>

\* sign_auth, the key is encrypted and sent back.
SendSigned(e) ==
  /\ spc[e] = "start" /\ Len(sgot[e]) = KeyLen /\ up
  /\ stream' = [stream EXCEPT ![Peer[e]] = @ \o Signed(sgot[e], key[e])]
  /\ spc' = [spc EXCEPT ![e] = "sent"]
  /\ UNCHANGED <<key, rpc, rgot, sgot, flags, READ_IN, up>>

\* set_auth_signed.
SetSigned(e) ==
  /\ spc[e] = "sent"
  /\ g_signed_auth' = [g_signed_auth EXCEPT ![e] = TRUE]
  /\ spc' = [spc EXCEPT ![e] = "signed"]
  /\ UNCHANGED <<key, rpc, rgot, sgot, g_authed_peer, READ_IN, stream, up>>

\* get_encrypt_ready and READ_IN, then the first block goes out.
SendBlock(e) ==
  /\ spc[e] = "signed" /\ EncryptReady(e) /\ READ_IN[e]
  /\ spc' = [spc EXCEPT ![e] = "open"]
  /\ stream' = [stream EXCEPT ![Peer[e]] = IF up THEN Append(@, <<"block", e>>) ELSE @]
  /\ UNCHANGED <<key, rpc, rgot, sgot, flags, READ_IN, up>>

\* The connection breaks, or goes down with a program that has ended.
Lose ==
  /\ up /\ (Loses \/ \E e \in Ends : rpc[e] = "exit")
  /\ up' = FALSE
  /\ \E m \in 0 .. Len(stream["master"]), n \in 0 .. Len(stream["minion"]) :
        stream' = [master |-> SubSeq(stream["master"], 1, m),
                   minion |-> SubSeq(stream["minion"], 1, n)]
  /\ UNCHANGED <<key, rpc, spc, rgot, sgot, flags, READ_IN>>

\* A program that has called exit has no threads left.
EndStep(e) ==
  /\ rpc[e] # "exit"
  /\ \/ SendChallenge(e) \/ RecvSigned(e) \/ CheckSigned(e) \/ Listen(e) \/ RecvBlock(e)
     \/ RecvChallenge(e) \/ SendSigned(e) \/ SetSigned(e) \/ SendBlock(e)

Next == (\E e \in Ends : EndStep(e)) \/ Lose

Spec == Init /\ [][Next]_vars

\* Each thread runs; neither end's reads starve the other thread, because the
\* reads are never enabled together.
Fairness ==
  \A e \in Ends :
    /\ WF_vars(rpc[e] # "exit" /\ (SendChallenge(e) \/ RecvSigned(e) \/ CheckSigned(e) \/ Listen(e)
                                  \/ RecvBlock(e)))
    /\ WF_vars(rpc[e] # "exit" /\ (RecvChallenge(e) \/ SendSigned(e) \/ SetSigned(e) \/ SendBlock(e)))

FairSpec == Spec /\ Fairness

-----------------------------------------------------------------------------
(* Properties *)

KeysHeld == {k[e] : k \in Keys, e \in Ends}
Bytes == {<<w, e>> : w \in {"challenge", "block"}, e \in Ends}
           \cup {<<"signed", e, w, k>> : e \in Ends, w \in {"challenge", "block"}, k \in KeysHeld}

\* Every variable has its type; in particular nobody has received more than the
\* length of a key when it goes on.
TypeOK ==
  /\ key \in Keys
  /\ rpc \in [Ends -> {"start", "recv", "authed", "listen", "exit"}]
  /\ spc \in [Ends -> {"start", "sent", "signed", "open"}]
  /\ {g_signed_auth, g_authed_peer, READ_IN} \subseteq [Ends -> BOOLEAN]
  /\ up \in BOOLEAN
  /\ \A e \in Ends : /\ Range(rgot[e]) \cup Range(sgot[e]) \cup Range(stream[e]) \subseteq Bytes
                     /\ Len(rgot[e]) <= KeyLen /\ Len(sgot[e]) <= KeyLen

\* Each thread reads what is meant for it: the challenger the answer to its own
\* challenge and then blocks, the signer the peer's challenge.
ReadsItsOwn ==
  \A e \in Ends :
    /\ \A b \in Range(rgot[e]) : IF rpc[e] = "listen" THEN b = <<"block", Peer[e]>>
                                                     ELSE b[1] = "signed" /\ b[2] = e
    /\ \A b \in Range(sgot[e]) : b = <<"challenge", Peer[e]>>

\* No end opens for data unless both have the same key.
OpenMeansSameKey ==
  \A e \in Ends : rpc[e] = "listen" \/ spc[e] = "open" => key["master"] = key["minion"]

\* With the same key at both ends neither waits for the other forever, as long as
\* there is a connection: both open.  With different keys an end notices, and ends.
HandshakeEnds ==
  IF key["master"] = key["minion"]
  THEN <>(~up \/ \A e \in Ends : rpc[e] = "listen" /\ spc[e] = "open")
  ELSE <>(~up \/ \E e \in Ends : rpc[e] = "exit")
=============================================================================
