---------------------------- MODULE CipherService ----------------------------
(***************************************************************************)
(* What senddata and recvdata rely on when they use a Crypto object: a     *)
(* buffer is lent to the pool chunk by chunk, each of the N streams takes  *)
(* its chunks in the order they were passed, and the buffer comes back     *)
(* only when every chunk is done, but for those of a stream that broke:    *)
(* such a stream does nothing any more.                                    *)
(***************************************************************************)
EXTENDS Integers

CONSTANTS N, MaxChunks

VARIABLES
  owner,    \* who may touch the buffer
  passed,   \* number of chunks lent so far
  done,     \* chunks that have been ciphered
  broken    \* streams that reported an error

Init == owner = "caller" /\ passed = 0 /\ done = {} /\ broken = {}

Begin == owner = "caller" /\ owner' = "pool" /\ UNCHANGED <<passed, done, broken>>

Pass ==
  /\ owner = "pool" /\ passed < MaxChunks
  /\ passed' = passed + 1
  /\ UNCHANGED <<owner, done, broken>>

\* Chunk c follows chunk c - N on its stream.
Cipher(c) ==
  /\ c \notin done /\ c % N \notin broken
  /\ c >= N => c - N \in done
  /\ done' = done \cup {c}
  /\ UNCHANGED <<owner, passed, broken>>

Break(i) == broken' = broken \cup {i} /\ UNCHANGED <<owner, passed, done>>

GiveBack ==
  /\ owner = "pool" /\ owner' = "caller"
  /\ \A c \in 0 .. passed - 1 : c \in done \/ c % N \in broken
  /\ UNCHANGED <<passed, done, broken>>

Next ==
  \/ Begin \/ Pass \/ GiveBack
  \/ \E c \in 0 .. passed - 1 : Cipher(c)
  \/ \E i \in 0 .. N - 1 : Break(i)

Spec == Init /\ [][Next]_<<owner, passed, done, broken>>
=============================================================================
