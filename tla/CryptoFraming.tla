---------------------------- MODULE CryptoFraming ----------------------------
(***************************************************************************)
(* How encrypted data crosses the connection: the crypto loops of senddata *)
(* and recvdata (udpipe_threads.cpp).                                      *)
(*                                                                         *)
(* senddata makes a block of what one read of the pipe returned, cuts it   *)
(* into chunks of crypto_buff_len, has the pool encrypt them and sends the *)
(* length of the block and the block.  recvdata gets the block in pieces   *)
(* of any size and hands sectors of it to its own pool while the rest is   *)
(* still on its way.  The cipher contexts are streams (CryptoPool), so the *)
(* two must cut every block alike: a byte comes out right only if it meets *)
(* the same worker at the same place in that worker's stream.  (The        *)
(* handshake before gives every worker one chunk of the same length, so it *)
(* leaves turns and streams level.)                                        *)
(*                                                                         *)
(* A step passes one chunk, and the worker runs to completion in it; what  *)
(* a pool does with several at once is the subject of CryptoPool.  A worker*)
(* that has left on the exit flag completes nothing: the join after its    *)
(* chunk, or the next chunk for it, never returns (FairSpec).              *)
(***************************************************************************)
EXTENDS Integers, Sequences, SequencesExt, FiniteSetsExt

CONSTANTS
  N,               \* n_crypto_threads, the same at both ends
  crypto_buff_len, \* BUFF_SIZE / n_crypto_threads, in bytes
  Input,           \* Input[b]: length of block b, what one pipe_read returned
  MayStop          \* TRUE: the exit flag may go up, the connection may be lost

Workers == 0 .. N - 1
Blocks == DOMAIN Input
Plain(b) == [i \in 1 .. Input[b] |-> <<b, i>>]
AllPlain == [b \in Blocks |-> Plain(b)]

ASSUME NAssumption == N \in Nat \ {0} /\ crypto_buff_len \in Nat \ {0}
ASSUME InputAssumption == Input \in Seq(Nat \ {0}) /\ MayStop \in BOOLEAN

VARIABLES
  sent,           \* number of blocks sent
  outdata,        \* what is encrypted of the next one; crypto_cursor is its length
  enc, dec,       \* the two pools: whose turn it is, how far each stream is
  net,            \* on the way: lengths, and bytes with the place they met
  running, g_time_to_exit, lost,
  passing,        \* recvdata is past UDT::recv in its loop
  new_block, block_size,
  indata,         \* bytes received of the block; buffer_cursor is their number
  crypto_cursor,  \* how many of them were handed to the pool
  plain,          \* what became of those
  out             \* the blocks written to recv_pipe

sendVars == <<sent, outdata, enc>>
recvVars == <<passing, new_block, block_size, indata, crypto_cursor, plain, out, dec>>
vars == <<sendVars, net, running, g_time_to_exit, lost, recvVars>>

Fresh == [turn |-> 0, at |-> [w \in Workers |-> 0]]

Init ==
  /\ sent = 0 /\ outdata = <<>> /\ enc = Fresh /\ dec = Fresh /\ net = <<>>
  /\ running = TRUE /\ g_time_to_exit = FALSE /\ lost = FALSE
  /\ passing = FALSE /\ new_block = TRUE /\ block_size = 0
  /\ indata = <<>> /\ crypto_cursor = 0 /\ plain = <<>> /\ out = <<>>

-----------------------------------------------------------------------------
(* pass_to_enc_thread, for a chunk that is not empty *)

\* Byte i of a chunk meets the stream of the worker whose turn it is.
Place(pool, i) == <<pool.turn, pool.at[pool.turn] + i>>

\* The pool after a chunk of len bytes.
Passed(pool, len) ==
  [turn |-> (pool.turn + 1) % N, at |-> [pool.at EXCEPT ![pool.turn] = @ + len]]

\* A byte under decryption comes out as it went in, or as garbage.
Garbage == <<0, 0>>
Decrypted(byte, place) == IF byte.place = place THEN byte.value ELSE Garbage

-----------------------------------------------------------------------------
(* senddata *)

\* The next chunk of the block: min(crypto_buff_len, bytes_read - crypto_cursor).
NextChunk ==
  LET b == sent + 1
      size == Min({crypto_buff_len, Input[b] - Len(outdata)})
  IN /\ b \in Blocks /\ Len(outdata) < Input[b]
     /\ outdata' = outdata \o [i \in 1 .. size |-> [value |-> Plain(b)[Len(outdata) + i],
                                                   place |-> Place(enc, i)]]
     /\ enc' = Passed(enc, size)
     /\ UNCHANGED <<sent, net, running, g_time_to_exit, lost, recvVars>>

\* All chunks are joined; the length of the block and the block are sent.
SendBlock ==
  LET b == sent + 1
  IN /\ b \in Blocks /\ Len(outdata) = Input[b] /\ ~lost
     /\ net' = Append(net, [length |-> Input[b]]) \o outdata
     /\ sent' = b /\ outdata' = <<>>
     /\ UNCHANGED <<enc, running, g_time_to_exit, lost, recvVars>>

-----------------------------------------------------------------------------
(* recvdata *)

\* The int in front of a block.  It is at the start of a UDT packet and never cut.
RecvSize ==
  /\ running /\ new_block /\ net # <<>>
  /\ block_size' = Head(net).length
  /\ new_block' = FALSE /\ indata' = <<>> /\ crypto_cursor' = 0 /\ plain' = <<>>
  /\ net' = Tail(net)
  /\ UNCHANGED <<sendVars, running, g_time_to_exit, lost, passing, out, dec>>

\* A piece of the block.
RecvPiece ==
  /\ running /\ ~new_block /\ ~passing
  /\ \E n \in 1 .. Min({Len(net), block_size - Len(indata)}) :
       /\ indata' = indata \o SubSeq(net, 1, n)
       /\ net' = SubSeq(net, n + 1, Len(net))
  /\ passing' = TRUE
  /\ UNCHANGED <<sendVars, running, g_time_to_exit, lost, new_block, block_size,
                 crypto_cursor, plain, out, dec>>

\* The whole block is there.  Mutant: a byte more is waited for.
CompleteLate == Len(indata) > block_size
Complete == Len(indata) = block_size

\* The length of what is handed to the pool next: sectors that are more than full and,
\* when the block is complete, what remains.  Mutant: whatever has been received.
HandedAtOnce == Min({crypto_buff_len, Len(indata) - crypto_cursor})
Handed ==
  IF crypto_cursor + crypto_buff_len < Len(indata) THEN crypto_buff_len
  ELSE IF Complete THEN Len(indata) - crypto_cursor ELSE 0

HandOver ==
  /\ running /\ passing /\ Handed > 0
  /\ plain' = plain \o [i \in 1 .. Handed |->
                          Decrypted(indata[crypto_cursor + i], Place(dec, i))]
  /\ dec' = Passed(dec, Handed)
  /\ crypto_cursor' = crypto_cursor + Handed
  /\ UNCHANGED <<sendVars, net, running, g_time_to_exit, lost, passing, new_block, block_size,
                 indata, out>>

\* The loop of recvdata ends when told to, but not inside of a block.
Stops == g_time_to_exit /\ Complete

\* The end of the loop; a block that is complete is joined and written.
LoopEnd ==
  /\ running /\ passing /\ Handed = 0
  /\ out' = IF Complete THEN Append(out, plain) ELSE out
  /\ new_block' = Complete
  /\ running' = ~Stops
  /\ passing' = FALSE
  /\ UNCHANGED <<sendVars, net, g_time_to_exit, lost, block_size, indata, crypto_cursor, plain,
                 dec>>

\* UDT::recv fails, on a connection that is gone and has nothing left to give.
RecvLost ==
  /\ running /\ ~passing /\ lost /\ net = <<>>
  /\ running' = FALSE
  /\ UNCHANGED <<sendVars, net, g_time_to_exit, lost, recvVars>>

Sender == NextChunk \/ SendBlock
Receiver == RecvSize \/ RecvPiece \/ HandOver \/ LoopEnd \/ RecvLost

-----------------------------------------------------------------------------

SetThreadExit ==
  /\ MayStop /\ ~g_time_to_exit
  /\ g_time_to_exit' = TRUE
  /\ UNCHANGED <<sendVars, net, running, lost, recvVars>>

Lose ==
  /\ MayStop /\ ~lost
  /\ lost' = TRUE
  /\ \E n \in 0 .. Len(net) : net' = SubSeq(net, 1, n)
  /\ UNCHANGED <<sendVars, running, g_time_to_exit, recvVars>>

Next == Sender \/ Receiver \/ SetThreadExit \/ Lose

Spec == Init /\ [][Next]_vars

\* Both go on as long as nobody is told to leave.  Once the flag is up a worker may leave
\* with a chunk posted (crypto_update_thread looks at the flag after it looked for a
\* chunk), and who waits for it waits forever: no further step need be taken.
FairSpec ==
  Spec /\ WF_vars(~g_time_to_exit /\ Sender) /\ WF_vars(~g_time_to_exit /\ Receiver)

-----------------------------------------------------------------------------
(* Properties *)

\* Every variable has its type; in particular the cursor never passes what has
\* been received, and both end with the block.
TypeOK ==
  /\ sent \in 0 .. Len(Input)
  /\ {enc, dec} \subseteq [turn : Workers, at : [Workers -> Nat]]
  /\ {running, g_time_to_exit, lost, passing, new_block} \subseteq BOOLEAN
  /\ block_size \in Nat /\ Len(indata) <= block_size
  /\ crypto_cursor \in 0 .. Len(indata) /\ Len(plain) = crypto_cursor

\* What comes out is what went in, decrypted, block by block in the same order and
\* only whole blocks of it, however recvdata is stopped.
WholeBlocksOut == IsPrefix(out, AllPlain)

\* Nothing is left behind by a recvdata that nothing stops.
AllOut == <>(out = AllPlain \/ g_time_to_exit \/ lost)
=============================================================================
