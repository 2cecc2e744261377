----------------------------- MODULE CryptoPool -----------------------------
(***************************************************************************)
(* The hand-off of data to the pool of cipher threads of one Crypto object *)
(* (src/src/crypto.cpp, crypto.h).                                         *)
(*                                                                         *)
(* One thread, the passer (senddata for the encrypting object, recvdata    *)
(* for the decrypting one), cuts a block into chunks, gives each chunk to  *)
(* the next worker in turn (pass_to_enc_thread), and waits for all of them *)
(* (join_all_encryption_threads) before it uses the block.  Each worker i  *)
(* owns cipher context ctx[i], which is a STREAM: what it does to a chunk  *)
(* depends on every chunk it was given before.  Two mutexes per worker     *)
(* make the hand-off: c_lock[i] is taken by the passer and released by the *)
(* worker; thread_ready[i] is created locked, released by the passer and   *)
(* polled with trylock by the worker.                                      *)
(*                                                                         *)
(* Chunks are numbered 0, 1, 2, ... in the order they are passed, over the *)
(* whole life of the object.                                               *)
(***************************************************************************)
EXTENDS Integers, FiniteSets

CONSTANTS
  N,           \* N_CRYPTO_THREADS: workers of this Crypto object
  MaxChunks,   \* bound: chunks passed in a behaviour
  MayFail,     \* TRUE: EVP_CipherUpdate may report an error
  MayExit      \* TRUE: some other thread may call set_thread_exit

ASSUME NAssumption == N \in Nat \ {0}
ASSUME BoundAssumption == MaxChunks \in Nat
ASSUME SwitchAssumption == MayFail \in BOOLEAN /\ MayExit \in BOOLEAN

VARIABLES
  pc,             \* where the passer is
  id,             \* local thread_id of pass_to_enc_thread, loop index of the join
  sent,           \* number of chunks passed so far: the next chunk's number
  thread_id,      \* Crypto::thread_id, the worker whose turn it is
  c_lock,         \* c_lock[i]: is the mutex held
  thread_ready,   \* thread_ready[i]: is the mutex UNlocked (a job is posted)
  e_args,         \* e_args[i]: the chunk in/out/len of worker i describe
  wpc,            \* where worker i is
  ctx,            \* ctx[i]: number of the chunk the stream of i must see next
  spoilt,         \* chunks ciphered out of turn
  failed,         \* workers whose EVP_CipherUpdate has reported an error
  g_time_to_exit

passerVars == <<pc, id, sent, thread_id>>
workerVars == <<wpc, ctx, spoilt, failed, g_time_to_exit>>
vars == <<passerVars, c_lock, thread_ready, e_args, workerVars>>

Workers == 0 .. N - 1
NoChunk == -1

\* Who may touch the caller's buffer: the passer alone at "own"; the workers
\* may be reading and writing it at every other point.
PasserPC == {"own", "passed", "lock", "fill", "post", "join"}
WorkerPC == {"poll", "work", "unlock", "failed", "check", "leave", "gone"}

\* The constructor: every mutex initialised, thread_ready[i] locked, the
\* workers started.
Init ==
  /\ pc = "own" /\ id = 0 /\ sent = 0
  /\ thread_id = 0
  /\ c_lock = [i \in Workers |-> FALSE]
  /\ thread_ready = [i \in Workers |-> FALSE]
  /\ e_args = [i \in Workers |-> NoChunk]
  /\ wpc = [i \in Workers |-> "poll"]
  /\ ctx = [i \in Workers |-> i]
  /\ spoilt = {} /\ failed = {}
  /\ g_time_to_exit = FALSE

-----------------------------------------------------------------------------
(* The passer *)

\* pthread_mutex_lock on c_lock[i] can return.
\* Mutant: trylock, its result ignored.
CanLockTry(i) == TRUE
CanLock(i) == ~c_lock[i]

\* increment_thread_id.  Mutant: forgotten.
TurnStuck(t) == t
Turn(t) == IF t + 1 >= N THEN 0 ELSE t + 1

\* The end of the loop of join_all_encryption_threads.  Mutant: one short.
JoinedAllEarly(i) == i + 2 >= N
JoinedAll(i) == i + 1 >= N

\* get_thread_id: read the turn.
GetThreadId ==
  /\ pc \in {"own", "passed"} /\ sent < MaxChunks
  /\ id' = thread_id
  /\ pc' = "lock"
  /\ UNCHANGED <<sent, thread_id, c_lock, thread_ready, e_args, workerVars>>

\* lock_data(thread_id) returns.
LockData ==
  /\ pc = "lock" /\ CanLock(id)
  /\ c_lock' = [c_lock EXCEPT ![id] = TRUE]
  /\ pc' = "fill"
  /\ UNCHANGED <<id, sent, thread_id, thread_ready, e_args, workerVars>>

\* increment_thread_id, then in, out and len of e_args[thread_id].
FillArgs ==
  /\ pc = "fill"
  /\ thread_id' = Turn(thread_id)
  /\ e_args' = [e_args EXCEPT ![id] = sent]
  /\ sent' = sent + 1
  /\ pc' = "post"
  /\ UNCHANGED <<id, c_lock, thread_ready, workerVars>>

\* set_thread_ready(thread_id).
SetThreadReady ==
  /\ pc = "post"
  /\ thread_ready' = [thread_ready EXCEPT ![id] = TRUE]
  /\ pc' = "passed"
  /\ UNCHANGED <<id, sent, thread_id, c_lock, e_args, workerVars>>

\* join_all_encryption_threads begins with worker 0 (senddata joins even when
\* a failed pipe_read left it nothing to pass).
JoinStart ==
  /\ pc \in {"own", "passed"}
  /\ pc' = "join" /\ id' = 0
  /\ UNCHANGED <<sent, thread_id, c_lock, thread_ready, e_args, workerVars>>

\* lock_data(i) returns and unlock_data(i) follows with nothing in between.
JoinWorker ==
  /\ pc = "join" /\ CanLock(id)
  /\ pc' = IF JoinedAll(id) THEN "own" ELSE "join"
  /\ id' = IF JoinedAll(id) THEN 0 ELSE id + 1
  /\ UNCHANGED <<sent, thread_id, c_lock, thread_ready, e_args, workerVars>>

Passer == GetThreadId \/ LockData \/ FillArgs \/ SetThreadReady
            \/ JoinStart \/ JoinWorker

-----------------------------------------------------------------------------
(* Worker i: crypto_update_thread *)

\* wait_thread_ready: trylock on thread_ready[i]; EBUSY skips to the exit check.
Poll(i) ==
  /\ wpc[i] = "poll"
  /\ wpc' = [wpc EXCEPT ![i] = IF thread_ready[i] THEN "work" ELSE "check"]
  /\ thread_ready' = [thread_ready EXCEPT ![i] = FALSE]
  /\ UNCHANGED <<passerVars, c_lock, e_args, ctx, spoilt, failed,
                 g_time_to_exit>>

\* EVP_CipherUpdate over the whole of args->in .. args->in + args->len.
Cipher(i) ==
  /\ wpc[i] = "work"
  /\ wpc' = [wpc EXCEPT ![i] = "unlock"]
  /\ ctx' = [ctx EXCEPT ![i] = @ + N]
  /\ spoilt' = IF e_args[i] = ctx[i] THEN spoilt ELSE spoilt \cup {e_args[i]}
  /\ UNCHANGED <<passerVars, c_lock, thread_ready, e_args, failed, g_time_to_exit>>

\* EVP_CipherUpdate returns 0: the chunk is left as it is.
CipherFails(i) ==
  /\ MayFail /\ wpc[i] = "work"
  /\ wpc' = [wpc EXCEPT ![i] = "failed"]
  /\ failed' = failed \cup {i}
  /\ UNCHANGED <<passerVars, c_lock, thread_ready, e_args, ctx, spoilt, g_time_to_exit>>

\* unlock_data(i); after an error the worker breaks out of its loop.
UnlockData(i) ==
  /\ wpc[i] \in {"unlock", "failed"}
  /\ c_lock' = [c_lock EXCEPT ![i] = FALSE]
  /\ wpc' = [wpc EXCEPT ![i] = IF @ = "failed" THEN "leave" ELSE "check"]
  /\ UNCHANGED <<passerVars, thread_ready, e_args, ctx, spoilt, failed,
                 g_time_to_exit>>

\* check_for_exit(THREAD_TYPE_1)
CheckForExit(i) ==
  /\ wpc[i] = "check"
  /\ wpc' = [wpc EXCEPT ![i] = IF g_time_to_exit THEN "leave" ELSE "poll"]
  /\ UNCHANGED <<passerVars, c_lock, thread_ready, e_args, ctx, spoilt, failed,
                 g_time_to_exit>>

\* Mutant: a worker leaves without telling anybody.
LeaveQuietly(i) ==
  /\ wpc[i] = "leave"
  /\ wpc' = [wpc EXCEPT ![i] = "gone"]
  /\ UNCHANGED <<passerVars, c_lock, thread_ready, e_args, ctx, spoilt, failed,
                 g_time_to_exit>>

\* set_thread_exit and unregister_thread on the way out.
Leave(i) ==
  /\ wpc[i] = "leave"
  /\ wpc' = [wpc EXCEPT ![i] = "gone"]
  /\ g_time_to_exit' = TRUE
  /\ UNCHANGED <<passerVars, c_lock, thread_ready, e_args, ctx, spoilt, failed>>

Worker(i) == Poll(i) \/ Cipher(i) \/ CipherFails(i) \/ UnlockData(i)
               \/ CheckForExit(i) \/ Leave(i)

\* set_thread_exit by main, a signal handler or another thread.
SetThreadExit ==
  /\ MayExit /\ ~g_time_to_exit
  /\ g_time_to_exit' = TRUE
  /\ UNCHANGED <<passerVars, c_lock, thread_ready, e_args, wpc, ctx, spoilt, failed>>

Next == Passer \/ (\E i \in Workers : Worker(i)) \/ SetThreadExit

Spec == Init /\ [][Next]_vars

\* Threads are scheduled; the passer need not pass again once it owns its
\* buffer, but it always joins what it passed.
Fairness ==
  /\ WF_vars(LockData \/ FillArgs \/ SetThreadReady \/ JoinStart \/ JoinWorker)
  /\ \A i \in Workers : WF_vars(Worker(i))

FairSpec == Spec /\ Fairness

-----------------------------------------------------------------------------
(* Properties *)

\* The number of the chunk worker i will be handed next.
NextFor(i) == IF i >= thread_id THEN sent + (i - thread_id)
                                ELSE sent + N - thread_id + i

\* Every variable has its type; in particular the turn is that of a worker.
TypeOK ==
  /\ pc \in PasserPC /\ id \in Workers /\ thread_id \in Workers
  /\ sent \in Nat
  /\ c_lock \in [Workers -> BOOLEAN]
  /\ thread_ready \in [Workers -> BOOLEAN]
  /\ e_args \in [Workers -> Nat \cup {NoChunk}]
  /\ wpc \in [Workers -> WorkerPC]
  /\ ctx \in [Workers -> Nat]
  /\ spoilt \subseteq Nat \cup {NoChunk} /\ failed \subseteq Workers
  /\ g_time_to_exit \in BOOLEAN

\* When join_all_encryption_threads has returned, the buffer is the caller's:
\* no worker has a job posted or is inside EVP_CipherUpdate.
JoinReturnsBuffer ==
  pc = "own" => \A i \in Workers :
                   ~thread_ready[i] /\ wpc[i] \notin {"work", "unlock", "failed"}

\* The arguments of a job are never rewritten while a worker may read them:
\* while the passer writes e_args[id] no job of id is posted or running.
ArgsNotShared ==
  pc \in {"fill", "post"} =>
     ~thread_ready[id] /\ wpc[id] \notin {"work", "unlock", "failed"}

\* Every context sees its chunks in the order they were passed, each exactly
\* once: what the peer's context i produced is what ours must undo.
StreamInOrder == spoilt = {}

\* When join_all_encryption_threads has returned, every chunk ever passed has
\* been through its context, those of a worker that reported an error aside:
\* senddata sends, and recvdata writes, a whole block.
BlockDone == pc = "own" => \A i \in Workers \ failed : ctx[i] = NextFor(i)

\* A worker has left with a job posted, and the exit flag is up.
Deserted == g_time_to_exit /\ \E i \in Workers : wpc[i] = "gone" /\ thread_ready[i]

\* pass_to_enc_thread and join_all_encryption_threads return, so that the last block is
\* finished before the thread exits (udpipe_threads.cpp:385), also when the exit flag goes
\* up or a cipher reports an error, with one exception.  A worker that looks at the flag,
\* or has left after an error, when its job is posted does not do it (crypto.cpp:405), and
\* the call then waits for its lock for good; but the flag is up.
CallsReturn ==
  /\ (pc = "lock") ~> (pc = "passed" \/ Deserted)
  /\ (pc = "join") ~> (pc = "own" \/ Deserted)

-----------------------------------------------------------------------------
(* The inductive invariant behind the safety properties *)

Busy(i) == wpc[i] \in {"work", "unlock", "failed"}

\* A chunk has been handed to i and its context has not consumed it yet.
Owed(i) == thread_ready[i] \/ wpc[i] = "work" \/ (pc = "post" /\ id = i)

\* c_lock[i] is held exactly for: the passer filling in a job, a posted job,
\* a running job; and these exclude one another.
LockInv ==
  \A i \in Workers :
    /\ thread_ready[i] => c_lock[i] /\ ~Busy(i)
    /\ Busy(i) => c_lock[i]
    /\ c_lock[i] => thread_ready[i] \/ Busy(i) \/ (pc \in {"fill", "post"} /\ id = i)

PasserInv ==
  /\ pc \in {"lock", "fill"} => id = thread_id
  /\ pc \in {"fill", "post"} => c_lock[id] /\ ~thread_ready[id] /\ ~Busy(id)
  /\ pc = "own" => \A i \in Workers : ~c_lock[i]
  /\ pc = "join" => \A i \in Workers : i < id => ~c_lock[i]

StreamInv ==
  /\ spoilt = {}
  /\ \A i \in Workers : wpc[i] = "failed" => i \in failed
  /\ \A i \in failed : wpc[i] \in {"failed", "leave", "gone"}
  /\ \A i \in Workers \ failed :
       /\ Owed(i) => e_args[i] = ctx[i] /\ NextFor(i) = ctx[i] + N
       /\ ~Owed(i) => NextFor(i) = ctx[i]

IInv == TypeOK /\ LockInv /\ PasserInv /\ StreamInv

-----------------------------------------------------------------------------
\* The pool gives its callers the service CipherService describes.
Service == INSTANCE CipherService WITH
             owner <- IF pc = "own" THEN "caller" ELSE "pool",
             passed <- sent,
             done <- {c \in 0 .. sent - 1 : c < ctx[c % N]},
             broken <- failed

ImplementsService == Service!Spec
=============================================================================
