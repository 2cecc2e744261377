-------------------------- MODULE CryptoPool_proofs --------------------------
(***************************************************************************)
(* Proofs about CryptoPool, for every number of workers and chunks.        *)
(***************************************************************************)
EXTENDS CryptoPool, ProofLemmas, TLAPS

\* The initial state has every lock free, no job, and stream i waiting for
\* chunk i, the first one it will be handed.
LEMMA InitIInv == Init => IInv
<1> USE NAssumption DEF Workers, NoChunk
<1> SUFFICES ASSUME Init PROVE IInv
  OBVIOUS
<1>1. TypeOK
  <2>1. e_args \in [Workers -> Nat \cup {NoChunk}]
    BY DEF Init
  <2>2. ctx \in [Workers -> Nat]
    <3>1. \A i \in Workers : i \in Nat
      OBVIOUS
    <3> QED BY <3>1 DEF Init
  <2>3. wpc \in [Workers -> WorkerPC]
    BY DEF Init, WorkerPC
  <2>4. /\ c_lock \in [Workers -> BOOLEAN]
        /\ thread_ready \in [Workers -> BOOLEAN]
        /\ g_time_to_exit \in BOOLEAN
    BY DEF Init
  <2>5. /\ pc \in PasserPC /\ id \in Workers /\ thread_id \in Workers
        /\ sent \in Nat /\ spoilt \subseteq Nat \cup {NoChunk}
        /\ failed \subseteq Workers
    BY DEF Init, PasserPC
  <2> QED BY <2>1, <2>2, <2>3, <2>4, <2>5 DEF TypeOK
<1>2. LockInv /\ PasserInv
  BY DEF Init, LockInv, PasserInv, Busy
<1>3. StreamInv
  BY DEF Init, StreamInv, Owed, NextFor
<1> QED BY <1>1, <1>2, <1>3 DEF IInv

\* Types are preserved by every step.
LEMMA NextTypeOK == ASSUME TypeOK, LockInv, [Next]_vars PROVE TypeOK'
<1> USE NAssumption, BoundAssumption
        DEF TypeOK, Workers, NoChunk, PasserPC, WorkerPC, passerVars, workerVars,
            CanLock, Turn, JoinedAll
<1>1. CASE GetThreadId
  BY <1>1 DEF GetThreadId
<1>2. CASE LockData
  BY <1>2 DEF LockData
<1>3. CASE FillArgs
  BY <1>3 DEF FillArgs
<1>4. CASE SetThreadReady
  BY <1>4 DEF SetThreadReady
<1>5. CASE JoinStart
  BY <1>5 DEF JoinStart
<1>6. CASE JoinWorker
  BY <1>6 DEF JoinWorker
<1>7. ASSUME NEW i \in Workers, Worker(i) PROVE TypeOK'
  <2>1. CASE Poll(i)
    BY <2>1 DEF Poll
  <2>2. CASE Cipher(i)
    <3>1. ctx' \in [Workers -> Nat]
      BY <2>2 DEF Cipher
    <3>2. spoilt' \subseteq Nat \cup {NoChunk}
      <4>1. spoilt' = spoilt \/ spoilt' = spoilt \cup {e_args[i]}
        BY <2>2 DEF Cipher
      <4>2. e_args[i] \in Nat \cup {NoChunk} /\ spoilt \subseteq Nat \cup {NoChunk}
        OBVIOUS
      <4> HIDE DEF NoChunk
      <4> QED BY <4>1, <4>2
    <3>3. wpc' \in [Workers -> WorkerPC]
      BY <2>2 DEF Cipher
    <3> QED BY <2>2, <3>1, <3>2, <3>3 DEF Cipher
  <2>3. CASE CipherFails(i)
    BY <2>3 DEF CipherFails
  <2>4. CASE UnlockData(i)
    BY <2>4 DEF UnlockData
  <2>5. CASE CheckForExit(i)
    BY <2>5 DEF CheckForExit
  <2>6. CASE Leave(i)
    BY <2>6 DEF Leave
  <2> QED BY <1>7, <2>1, <2>2, <2>3, <2>4, <2>5, <2>6 DEF Worker
<1>8. CASE SetThreadExit
  BY <1>8 DEF SetThreadExit
<1>9. CASE UNCHANGED vars
  BY <1>9 DEF vars
<1> QED
  BY <1>1, <1>2, <1>3, <1>4, <1>5, <1>6, <1>7, <1>8, <1>9 DEF Next, Passer

\* The two mutexes of each worker, and what the passer knows of them.
LEMMA NextLocks ==
  ASSUME TypeOK, LockInv, PasserInv, [Next]_vars
  PROVE  LockInv' /\ PasserInv'
<1> USE NAssumption DEF TypeOK, Workers, PasserPC, WorkerPC, LockInv, PasserInv, Busy,
        passerVars, workerVars, CanLock, Turn, JoinedAll
<1>1. CASE GetThreadId
  BY <1>1 DEF GetThreadId
<1>2. CASE LockData
  BY <1>2 DEF LockData
<1>3. CASE FillArgs
  BY <1>3 DEF FillArgs
<1>4. CASE SetThreadReady
  BY <1>4 DEF SetThreadReady
<1>5. CASE JoinStart
  BY <1>5 DEF JoinStart
<1>6. CASE JoinWorker
  BY <1>6 DEF JoinWorker
<1>7. ASSUME NEW i \in Workers, Worker(i) PROVE LockInv' /\ PasserInv'
  <2>1. CASE Poll(i)
    BY <2>1 DEF Poll
  <2>2. CASE Cipher(i)
    BY <2>2 DEF Cipher
  <2>3. CASE CipherFails(i)
    BY <2>3 DEF CipherFails
  <2>4. CASE UnlockData(i)
    BY <2>4 DEF UnlockData
  <2>5. CASE CheckForExit(i)
    BY <2>5 DEF CheckForExit
  <2>6. CASE Leave(i)
    BY <2>6 DEF Leave
  <2> QED BY <1>7, <2>1, <2>2, <2>3, <2>4, <2>5, <2>6 DEF Worker
<1>8. CASE SetThreadExit
  BY <1>8 DEF SetThreadExit
<1>9. CASE UNCHANGED vars
  BY <1>9 DEF vars
<1> QED
  BY <1>1, <1>2, <1>3, <1>4, <1>5, <1>6, <1>7, <1>8, <1>9 DEF Next, Passer

\* Arithmetic of one turn: the worker just served (t) is due again N chunks
\* later, and what each other worker is waiting for does not change.
LEMMA TurnTaking ==
  ASSUME NEW t \in 0 .. N - 1, NEW i \in 0 .. N - 1, NEW s \in Nat,
         NEW u \in 0 .. N - 1, NEW v \in Nat,
         v = s + 1, u = Turn(t)
  PROVE  (IF i >= u THEN v + (i - u) ELSE v + N - u + i)
           = IF i = t THEN s + N
             ELSE IF i >= t THEN s + (i - t) ELSE s + N - t + i
BY NAssumption DEF Turn

\* The turn-taking of pass_to_enc_thread keeps every context in step: a chunk
\* handed over is the very one its context must see next.
LEMMA NextStreams ==
  ASSUME IInv, [Next]_vars
  PROVE  StreamInv'
<1> USE NAssumption DEF IInv, TypeOK, Workers, PasserPC, WorkerPC, StreamInv, Owed, NextFor,
        passerVars, workerVars, CanLock, Turn, JoinedAll
<1>1. CASE GetThreadId
  BY <1>1 DEF GetThreadId
<1>2. CASE LockData
  BY <1>2 DEF LockData
<1>3. CASE FillArgs
  <2> SUFFICES ASSUME NEW i \in Workers \ failed
              PROVE  /\ Owed(i)' => e_args'[i] = ctx'[i] /\ NextFor(i)' = ctx'[i] + N
                     /\ ~Owed(i)' => NextFor(i)' = ctx'[i]
    BY <1>3 DEF FillArgs
  <2>1. /\ id = thread_id /\ ~Owed(id)
        /\ id \notin failed => NextFor(id) = ctx[id]
    BY <1>3 DEF FillArgs, PasserInv, Busy
  <2>4. /\ sent' = sent + 1
        /\ thread_id' = Turn(thread_id)
        /\ sent \in Nat /\ thread_id \in 0 .. N - 1 /\ i \in 0 .. N - 1
        /\ sent' \in Nat /\ thread_id' \in 0 .. N - 1
    BY <1>3 DEF FillArgs
  <2>5. /\ Owed(i) => e_args[i] = ctx[i] /\ NextFor(i) = ctx[i] + N
        /\ ~Owed(i) => NextFor(i) = ctx[i]
    OBVIOUS
  <2> HIDE DEF IInv, TypeOK, StreamInv, Owed
  <2>2. CASE i = id
    <3>1. NextFor(i)' = sent + N
      BY <2>1, <2>2, <2>4, TurnTaking
    <3>2. ctx'[i] = sent /\ e_args'[i] = sent /\ Owed(i)'
      BY <1>3, <2>1, <2>2 DEF FillArgs, IInv, TypeOK, Owed
    <3> QED BY <1>3, <3>1, <3>2, <2>1, <2>2, <2>5 DEF FillArgs
  <2>3. CASE i # id
    <3>1. NextFor(i)' = NextFor(i)
      BY <2>1, <2>3, <2>4, TurnTaking
    <3>2. Owed(i)' = Owed(i) /\ e_args'[i] = e_args[i]
      BY <1>3, <2>1, <2>3 DEF FillArgs, IInv, TypeOK, Owed
    <3> QED BY <1>3, <3>1, <3>2, <2>5 DEF FillArgs
  <2> QED BY <2>2, <2>3
<1>4. CASE SetThreadReady
  BY <1>4 DEF SetThreadReady
<1>5. CASE JoinStart
  BY <1>5 DEF JoinStart
<1>6. CASE JoinWorker
  BY <1>6 DEF JoinWorker
<1>7. ASSUME NEW i \in Workers, Worker(i) PROVE StreamInv'
  <2>1. CASE Poll(i)
    BY <2>1 DEF Poll
  <2>2. CASE Cipher(i)
    BY <2>2 DEF Cipher, passerVars, LockInv, PasserInv, Busy
  <2>3. CASE CipherFails(i)
    BY <2>3 DEF CipherFails
  <2>4. CASE UnlockData(i)
    BY <2>4 DEF UnlockData
  <2>5. CASE CheckForExit(i)
    BY <2>5 DEF CheckForExit
  <2>6. CASE Leave(i)
    BY <2>6 DEF Leave
  <2> QED BY <1>7, <2>1, <2>2, <2>3, <2>4, <2>5, <2>6 DEF Worker
<1>8. CASE SetThreadExit
  BY <1>8 DEF SetThreadExit
<1>9. CASE UNCHANGED vars
  BY <1>9 DEF vars
<1> QED
  BY <1>1, <1>2, <1>3, <1>4, <1>5, <1>6, <1>7, <1>8, <1>9 DEF Next, Passer

\* The inductive invariant holds in every reachable state.
THEOREM Inductive == Spec => []IInv
<1>1. IInv /\ [Next]_vars => IInv'
  BY NextTypeOK, NextLocks, NextStreams DEF IInv
<1> QED BY InitIInv, <1>1, PTL DEF Spec

\* Every variable keeps its type.
THEOREM TypeCorrect == Spec => []TypeOK
<1>1. IInv => TypeOK
  BY DEF IInv
<1> QED BY Inductive, <1>1, PTL

\* join_all_encryption_threads gives the caller's buffer back untouched by
\* any worker from then on.
THEOREM BufferSafe == Spec => []JoinReturnsBuffer
<1>1. IInv => JoinReturnsBuffer
  BY DEF IInv, LockInv, PasserInv, Busy, JoinReturnsBuffer
<1> QED BY Inductive, <1>1, PTL

\* e_args[i] has one user at a time, so "The length changed during
\* encryption" (crypto.cpp:396) cannot happen.
THEOREM ArgsSafe == Spec => []ArgsNotShared
<1>1. IInv => ArgsNotShared
  BY DEF IInv, PasserInv, Busy, ArgsNotShared
<1> QED BY Inductive, <1>1, PTL

\* Each cipher stream sees its chunks once each and in order.
THEOREM StreamsInOrder == Spec => []StreamInOrder
<1>1. IInv => StreamInOrder
  BY DEF IInv, StreamInv, StreamInOrder
<1> QED BY Inductive, <1>1, PTL

\* A block is wholly ciphered when the join returns.
THEOREM BlocksDone == Spec => []BlockDone
<1>1. IInv => BlockDone
  BY DEF IInv, LockInv, PasserInv, StreamInv, Owed, Busy, BlockDone
<1> QED BY Inductive, <1>1, PTL

-----------------------------------------------------------------------------
(* The pool implements the service its callers rely on *)

\* What the mapping to CipherService needs besides IInv: chunk c goes to worker c % N,
\* and no context is ahead of what has been passed.
ServiceInv ==
  /\ sent % N = thread_id
  /\ pc \in {"lock", "fill"} => sent < MaxChunks
  /\ \A i \in Workers : ctx[i] % N = i /\ ctx[i] <= NextFor(i)

LEMMA InitService == Init => ServiceInv
<1> SUFFICES ASSUME Init PROVE ServiceInv
  OBVIOUS
<1>1. ASSUME NEW i \in Workers PROVE i % N = i
  <2>1. i \in Nat /\ i = N * 0 + i /\ i \in 0 .. N - 1
    BY NAssumption DEF Workers
  <2> QED BY <2>1, NAssumption, RestIs
<1>2. 0 \in Workers
  BY NAssumption DEF Workers
<1> QED BY <1>1, <1>2, NAssumption DEF Init, ServiceInv, NextFor, Workers

\* The worker served is due again after all the others; for these nothing changes.
LEMMA TurnMoves ==
  ASSUME TypeOK, FillArgs, NEW t \in Workers, t = thread_id
  PROVE  /\ NextFor(t) = sent /\ NextFor(t)' = sent + N
         /\ \A i \in Workers : i # t => NextFor(i)' = NextFor(i)
<1>1. /\ sent' = sent + 1 /\ thread_id' = Turn(t) /\ t \in 0 .. N - 1
      /\ sent \in Nat /\ sent' \in Nat /\ thread_id' \in 0 .. N - 1
  BY NAssumption DEF FillArgs, TypeOK, Turn, Workers
<1>2. NextFor(t) = sent
  BY <1>1 DEF NextFor
<1>3. ASSUME NEW i \in Workers
      PROVE  NextFor(i)' = IF i = t THEN sent + N
                           ELSE IF i >= t THEN sent + (i - t) ELSE sent + N - t + i
  <2>1. i \in 0 .. N - 1
    BY DEF Workers
  <2>2. (IF i >= thread_id' THEN sent' + (i - thread_id') ELSE sent' + N - thread_id' + i)
          = IF i = t THEN sent + N ELSE IF i >= t THEN sent + (i - t) ELSE sent + N - t + i
    <3>1. PICK u \in 0 .. N - 1, v \in Nat : /\ u = thread_id' /\ v = sent'
                                           /\ v = sent + 1 /\ u = Turn(t)
      BY <1>1
    <3>2. (IF i >= u THEN v + (i - u) ELSE v + N - u + i)
            = IF i = t THEN sent + N ELSE IF i >= t THEN sent + (i - t) ELSE sent + N - t + i
      BY <1>1, <2>1, <3>1, NAssumption DEF Turn
    <3> QED BY <3>1, <3>2
  <2> QED BY <2>2 DEF NextFor
<1> QED BY <1>2, <1>3 DEF NextFor

\* What is due to a worker lies within the next round.
LEMMA DueWithin ==
  ASSUME TypeOK, NEW i \in Workers
  PROVE  NextFor(i) \in Nat /\ sent <= NextFor(i) /\ NextFor(i) <= sent + N - 1
BY NAssumption DEF TypeOK, NextFor, Workers

LEMMA NextService ==
  ASSUME IInv, ServiceInv, [Next]_vars
  PROVE  ServiceInv'
<1> USE NAssumption
<1>0. TypeOK /\ N \in Nat /\ N > 0 /\ sent \in Nat
  BY DEF IInv, TypeOK
<1>1. ASSUME sent' = sent, thread_id' = thread_id, ctx' = ctx,
             pc' \in {"lock", "fill"} => sent < MaxChunks
      PROVE  ServiceInv'
  BY <1>1 DEF ServiceInv, NextFor
<1>2. CASE FillArgs
  <2>1. id = thread_id /\ sent' = sent + 1 /\ thread_id' = Turn(thread_id) /\ ctx' = ctx
            /\ pc' = "post"
    BY <1>2 DEF FillArgs, IInv, PasserInv, workerVars
  <2>2. sent' % N = thread_id'
    BY <1>0, <2>1, NextTurn DEF ServiceInv, Turn
  <2>3. ASSUME NEW i \in Workers PROVE ctx[i] <= NextFor(i)'
    <3>1. NextFor(i) \in Nat /\ ctx[i] \in Nat /\ ctx[i] <= NextFor(i)
      BY <1>0, DueWithin DEF ServiceInv, TypeOK
    <3>2. PICK t \in Workers : t = thread_id
      BY <1>0 DEF TypeOK
    <3>3. NextFor(t) = sent /\ NextFor(t)' = sent + N /\ (i # t => NextFor(i)' = NextFor(i))
      BY <1>0, <1>2, <3>2, TurnMoves
    <3>4. CASE i = t
      BY <1>0, <3>1, <3>3, <3>4
    <3>5. CASE i # t
      BY <3>1, <3>3, <3>5
    <3> QED BY <3>4, <3>5
  <2> QED BY <2>1, <2>2, <2>3 DEF ServiceInv
<1>3. ASSUME NEW i \in Workers, Cipher(i) PROVE ServiceInv'
  <2>1. /\ wpc[i] = "work" /\ ctx' = [ctx EXCEPT ![i] = @ + N]
        /\ sent' = sent /\ thread_id' = thread_id /\ pc' = pc
    BY <1>3 DEF Cipher, passerVars
  <2>2. ctx \in [Workers -> Nat] /\ ctx'[i] = ctx[i] + N
    BY <1>0, <2>1 DEF TypeOK
  <2>3. ctx'[i] % N = i
    BY <1>0, <2>2, NextRound DEF ServiceInv
  <2>4. NextFor(i) = ctx[i] + N
    BY <2>1 DEF IInv, StreamInv, Owed
  <2>5. ASSUME NEW j \in Workers PROVE ctx'[j] % N = j /\ ctx'[j] <= NextFor(j)
    <3>1. CASE j = i
      BY <1>0, <2>2, <2>3, <2>4, <3>1
    <3>2. CASE j # i
      BY <2>1, <2>2, <3>2 DEF ServiceInv
    <3> QED BY <3>1, <3>2
  <2>6. \A j : NextFor(j)' = NextFor(j)
    BY <2>1 DEF NextFor
  <2> QED BY <2>1, <2>5, <2>6 DEF ServiceInv
<1>4. CASE GetThreadId
  BY <1>1, <1>4 DEF GetThreadId, workerVars
<1>5. CASE LockData
  BY <1>1, <1>5 DEF LockData, workerVars, ServiceInv
<1>6. CASE SetThreadReady \/ JoinStart \/ JoinWorker
  BY <1>1, <1>6 DEF SetThreadReady, JoinStart, JoinWorker, workerVars, ServiceInv
<1>7. ASSUME NEW i \in Workers, Poll(i) \/ CipherFails(i) \/ UnlockData(i) \/ CheckForExit(i)
                 \/ Leave(i)
      PROVE  ServiceInv'
  BY <1>1, <1>7
     DEF Poll, CipherFails, UnlockData, CheckForExit, Leave, passerVars, ServiceInv
<1>8. CASE SetThreadExit
  BY <1>1, <1>8 DEF SetThreadExit, passerVars, ServiceInv
<1>9. CASE UNCHANGED vars
  BY <1>1, <1>9 DEF vars, passerVars, workerVars, ServiceInv
<1> QED
  BY <1>2, <1>3, <1>4, <1>5, <1>6, <1>7, <1>8, <1>9 DEF Next, Passer, Worker

\* The chunks a worker has done: those of its own below its context.
DoneBy(n, c) == {x \in 0 .. n - 1 : x < c[x % N]}

\* The service sees one more chunk done when a worker is through with it.
LEMMA OneMoreDone ==
  ASSUME IInv, ServiceInv, NEW i \in Workers, Cipher(i)
  PROVE  /\ ctx[i] \in 0 .. sent - 1 /\ ctx[i] % N = i /\ i \notin failed
         /\ ctx[i] \notin DoneBy(sent, ctx)
         /\ ctx[i] >= N => ctx[i] - N \in DoneBy(sent, ctx)
         /\ DoneBy(sent', ctx') = DoneBy(sent, ctx) \cup {ctx[i]}
<1> USE NAssumption
<1>0. TypeOK /\ N \in Nat /\ N > 0 /\ sent \in Nat /\ ctx[i] \in Nat /\ ctx[i] % N = i
  BY DEF IInv, TypeOK, ServiceInv
<1>1. /\ wpc[i] = "work" /\ ctx' = [ctx EXCEPT ![i] = @ + N] /\ sent' = sent /\ ctx'[i] = ctx[i] + N
  BY <1>0 DEF Cipher, passerVars, TypeOK
<1>2. i \notin failed /\ NextFor(i) = ctx[i] + N
  BY <1>1 DEF IInv, StreamInv, Owed
<1>3. ctx[i] \in 0 .. sent - 1
  BY <1>0, <1>2, DueWithin
<1>4. ctx[i] >= N => ctx[i] - N \in DoneBy(sent, ctx)
  <2> SUFFICES ASSUME ctx[i] >= N PROVE ctx[i] - N \in DoneBy(sent, ctx)
    OBVIOUS
  <2>1. PICK c \in Nat : c = ctx[i] - N /\ c + N = ctx[i]
    BY <1>0
  <2>2. c % N = i
    BY <1>0, <2>1, NextRound
  <2>3. c < ctx[i] /\ c \in 0 .. sent - 1
    BY <1>0, <1>3, <2>1
  <2> QED BY <2>1, <2>2, <2>3 DEF DoneBy
<1>5. ASSUME NEW c \in 0 .. sent - 1
      PROVE  c < ctx'[c % N] <=> (c < ctx[c % N] \/ c = ctx[i])
  <2>1. c \in Nat /\ c % N \in Workers
    BY <1>0, Divided DEF Workers
  <2>2. CASE c % N = i
    <3>1. c < ctx[i] + N <=> (c < ctx[i] \/ c = ctx[i])
      <4>1. ASSUME c < ctx[i] + N, ~(c < ctx[i]) PROVE c = ctx[i]
        <5>1. PICK b \in Nat : b = ctx[i] /\ b % N = c % N /\ b <= c /\ c < b + N
          BY <1>0, <2>1, <2>2, <4>1
        <5> QED BY <1>0, <2>1, <5>1, SameRest
      <4> QED BY <1>0, <2>1, <4>1
    <3> QED BY <1>1, <2>2, <3>1
  <2>3. CASE c % N # i
    BY <1>0, <1>1, <2>1, <2>3 DEF TypeOK
  <2> QED BY <2>2, <2>3
<1>6. DoneBy(sent', ctx') = DoneBy(sent, ctx) \cup {ctx[i]}
  BY <1>1, <1>3, <1>5 DEF DoneBy
<1>7. ctx[i] \notin DoneBy(sent, ctx)
  BY <1>0 DEF DoneBy
<1> QED BY <1>0, <1>2, <1>3, <1>4, <1>6, <1>7

\* A chunk just passed is not done; the others stay as they are.
LEMMA NotYetDone ==
  ASSUME IInv, ServiceInv, FillArgs
  PROVE  DoneBy(sent', ctx') = DoneBy(sent, ctx)
<1> USE NAssumption
<1>0. TypeOK /\ N \in Nat /\ N > 0 /\ sent \in Nat /\ ctx' = ctx /\ sent' = sent + 1
  BY DEF IInv, TypeOK, FillArgs, workerVars
<1>1. thread_id \in Workers /\ sent % N = thread_id
  BY <1>0 DEF TypeOK, ServiceInv
<1>2. NextFor(thread_id) = sent
  BY <1>0 DEF NextFor, TypeOK, Workers
<1>3. ~(sent < ctx[sent % N])
  BY <1>0, <1>1, <1>2 DEF ServiceInv, TypeOK
<1>4. \A c \in 0 .. sent : c \in 0 .. sent - 1 \/ c = sent
  BY <1>0
<1> QED BY <1>0, <1>3, <1>4 DEF DoneBy

\* When a block is given back all its chunks are done, but for those of broken streams.
LEMMA AllDone ==
  ASSUME IInv, ServiceInv, JoinWorker, JoinedAll(id)
  PROVE  \A c \in 0 .. sent - 1 : c \in DoneBy(sent, ctx) \/ c % N \in failed
<1>0. TypeOK /\ N \in Nat /\ N > 0 /\ sent \in Nat
  BY NAssumption DEF IInv, TypeOK
<1>1. ASSUME NEW c \in 0 .. sent - 1, c % N \notin failed PROVE c \in DoneBy(sent, ctx)
  <2>1. PICK i \in Workers : i = c % N /\ i \notin failed
    BY <1>0, <1>1, Divided DEF Workers
  <2>2. ~c_lock[i]
    <3>1. i < id \/ i = id
      BY <1>0, <2>1 DEF JoinedAll, TypeOK, Workers
    <3> QED BY <2>1, <3>1 DEF JoinWorker, CanLock, IInv, PasserInv
  <2>3. ~Owed(i)
    BY <2>1, <2>2 DEF Owed, IInv, LockInv, Busy, JoinWorker
  <2>4. NextFor(i) = ctx[i]
    BY <2>1, <2>3 DEF IInv, StreamInv
  <2>5. c < ctx[i]
    BY <1>0, <2>1, <2>4, DueWithin
  <2> QED BY <2>1, <2>5 DEF DoneBy
<1> QED BY <1>1

\* A step of the pool, seen by its callers: a step of the service, or none.
LEMMA ServiceStep ==
  ASSUME IInv, ServiceInv, [Next]_vars
  PROVE  [Service!Next]_<<IF pc = "own" THEN "caller" ELSE "pool", sent,
                          {c \in 0 .. sent - 1 : c < ctx[c % N]}, failed>>
<1> USE NAssumption
<1> DEFINE Owner(p) == IF p = "own" THEN "caller" ELSE "pool"
           Seen == <<Owner(pc), sent, DoneBy(sent, ctx), failed>>
           SeenNext == <<Owner(pc'), sent', DoneBy(sent', ctx'), failed'>>
<1>1. TypeOK /\ N \in Nat /\ N > 0 /\ sent \in Nat
  BY DEF IInv, TypeOK
<1>2. CASE GetThreadId \/ JoinStart
  <2>1. /\ Owner(pc') = "pool" /\ Owner(pc) \in {"caller", "pool"}
        /\ sent' = sent /\ ctx' = ctx /\ failed' = failed
    BY <1>2 DEF GetThreadId, JoinStart, workerVars
  <2>2. Service!Begin \/ Seen = SeenNext
    BY <2>1 DEF Service!Begin, DoneBy
  <2> QED BY <2>2 DEF Service!Next, DoneBy
<1>3. CASE FillArgs
  <2>1. sent' = sent + 1 /\ sent < MaxChunks /\ failed' = failed /\ Owner(pc) = "pool"
            /\ Owner(pc') = "pool"
    BY <1>3 DEF FillArgs, ServiceInv, workerVars
  <2>2. DoneBy(sent', ctx') = DoneBy(sent, ctx)
    BY <1>3, NotYetDone
  <2>3. Service!Pass
    BY <2>1, <2>2 DEF Service!Pass, DoneBy
  <2> QED BY <2>3 DEF Service!Next
<1>4. CASE LockData \/ SetThreadReady
  BY <1>4 DEF LockData, SetThreadReady, workerVars
<1>5. CASE JoinWorker
  <2>1. sent' = sent /\ ctx' = ctx /\ failed' = failed /\ pc = "join"
    BY <1>5 DEF JoinWorker, workerVars
  <2>2. CASE JoinedAll(id)
    <3>1. pc' = "own"
      BY <1>5, <2>2 DEF JoinWorker
    <3>2. \A c \in 0 .. sent - 1 : c \in DoneBy(sent, ctx) \/ c % N \in failed
      BY <1>5, <2>2, AllDone
    <3>3. Service!GiveBack
      BY <2>1, <3>1, <3>2 DEF Service!GiveBack, DoneBy
    <3> QED BY <3>3 DEF Service!Next
  <2>3. CASE ~JoinedAll(id)
    BY <1>5, <2>1, <2>3 DEF JoinWorker
  <2> QED BY <2>2, <2>3
<1>6. ASSUME NEW i \in Workers, Cipher(i)
      PROVE  Service!Next
  <2>1. /\ ctx[i] \in 0 .. sent - 1 /\ ctx[i] % N = i /\ i \notin failed
        /\ ctx[i] \notin DoneBy(sent, ctx)
        /\ ctx[i] >= N => ctx[i] - N \in DoneBy(sent, ctx)
        /\ DoneBy(sent', ctx') = DoneBy(sent, ctx) \cup {ctx[i]}
    BY <1>6, OneMoreDone
  <2>2. pc' = pc /\ sent' = sent /\ failed' = failed
    BY <1>6 DEF Cipher, passerVars
  <2>3. PICK c \in 0 .. sent - 1 : c = ctx[i]
    BY <2>1
  <2>4. Service!Cipher(c)
    BY <2>1, <2>2, <2>3 DEF Service!Cipher, DoneBy
  <2> QED BY <2>4 DEF Service!Next
<1>7. ASSUME NEW i \in Workers, CipherFails(i)
      PROVE  Service!Next
  <2>1. Service!Break(i)
    BY <1>7 DEF Service!Break, CipherFails, passerVars
  <2> QED BY <2>1 DEF Service!Next, Workers
<1>8. ASSUME NEW i \in Workers, Poll(i) \/ UnlockData(i) \/ CheckForExit(i) \/ Leave(i)
      PROVE  pc' = pc /\ sent' = sent /\ ctx' = ctx /\ failed' = failed
  BY <1>8 DEF Poll, UnlockData, CheckForExit, Leave, passerVars
<1>9. CASE SetThreadExit \/ UNCHANGED vars
  BY <1>9 DEF SetThreadExit, vars, passerVars, workerVars
<1> QED
  BY <1>2, <1>3, <1>4, <1>5, <1>6, <1>7, <1>8, <1>9 DEF Next, Passer, Worker

\* The pool of cipher threads implements the service its callers rely on: they get back a
\* block of which every chunk has been through its stream, in order and once.
THEOREM Implements == Spec => ImplementsService
<1>1. Init => Service!Init
  BY DEF Init, Service!Init
<1>2. Init => IInv /\ ServiceInv
  BY InitIInv, InitService
<1>3. IInv /\ ServiceInv /\ [Next]_vars => IInv' /\ ServiceInv'
  BY NextTypeOK, NextLocks, NextStreams, NextService DEF IInv
<1>4. IInv /\ ServiceInv /\ [Next]_vars =>
        [Service!Next]_<<IF pc = "own" THEN "caller" ELSE "pool", sent,
                         {c \in 0 .. sent - 1 : c < ctx[c % N]}, failed>>
  BY ServiceStep
<1> QED BY <1>1, <1>2, <1>3, <1>4, PTL DEF Spec, ImplementsService, Service!Spec
=============================================================================
