------------------------ MODULE ThreadManager_proofs ------------------------
(***************************************************************************)
(* Proofs about ThreadManager: the count is never less than what the table *)
(* shows, and the clean-up is the last thing that happens.  They hold      *)
(* although two threads may take one slot, a thread may leave before it is *)
(* entered, and a signal may stop the main thread on its way: what is      *)
(* counted is the threads that have been entered and not found again.      *)
(***************************************************************************)
EXTENDS ThreadManager, ProofLemmas, SequenceTheorems

\* All the proofs ask of a program: it has finitely many threads, each is started at most
\* once, and by a thread that comes before it in some order.
Ordered(rank) ==
  \A p \in Everybody : \A i \in DOMAIN Children[p] : rank[p] < rank[Children[p][i]]
Forest ==
  /\ IsFiniteSet(Threads)
  /\ \A p, q \in Everybody : \A i \in DOMAIN Children[p], j \in DOMAIN Children[q] :
       Children[p][i] = Children[q][j] => p = q /\ i = j
  /\ \E rank \in [Everybody -> Nat] : Ordered(rank)
Rank == CHOOSE rank \in [Everybody -> Nat] : Ordered(rank)

Places == {"unborn", "run", "scan", "store", "find", "clear", "stuck", "wait", "gone", "astray"}

\* What is known of the table: as a function of the slots 1 .. size.
TableType ==
  /\ \E size \in PoolSizes : activeThreads \in [1 .. size -> Threads \cup {Nobody}]
  /\ g_thread_count \in Int /\ g_time_to_exit \in BOOLEAN
  /\ pc \in [Everybody -> Places]
  /\ todo \in [Everybody -> Seq(Threads)]
  /\ slot \in [Everybody -> Slots \cup {NoSlot}]
  /\ unknown \subseteq Threads
  /\ pc[Main] \in {"run", "scan", "store", "wait", "gone"}

\* Where a thread is that has been started, is not found and not out of the table.
About == Places \ {"unborn", "clear", "gone"}
MainLeft == pc[Main] \in {"wait", "gone"}

\* The threads still to be started are those nobody has started, each once; but the one
\* being entered runs.
TodoInv ==
  /\ \A p, q \in Everybody : \A i \in DOMAIN todo[p], j \in DOMAIN todo[q] :
       todo[p][i] = todo[q][j] => p = q /\ i = j
  /\ \A p \in Everybody : \A i \in DOMAIN todo[p] : Rank[p] < Rank[todo[p][i]]
  /\ \A p \in Everybody : Entering(p) => todo[p] # <<>>
  /\ \A p \in Everybody : ~(p = Main /\ MainLeft) =>
       \A i \in DOMAIN todo[p] :
         IF i = 1 /\ Entering(p) THEN pc[todo[p][i]] \in About ELSE pc[todo[p][i]] = "unborn"

\* The threads the count stands for.
Counted == {t \in Threads \ unknown : pc[t] \notin {"unborn", "gone"} /\ ~BeingEntered(t)}

\* The table shows counted threads only, each once, not always all of them; and a thread
\* between search and lock has no slot but the one it has found.
CountInv ==
  /\ g_thread_count = Cardinality(Counted)
  /\ \A i \in Slots : activeThreads[i] # Nobody => activeThreads[i] \in Counted
  /\ \A i, j \in Slots : activeThreads[i] = activeThreads[j] /\ activeThreads[i] # Nobody => i = j
  /\ \A t \in Threads : pc[t] = "clear" =>
       /\ t \in Counted /\ slot[t] \in Slots
       /\ \A i \in Slots : activeThreads[i] = t => slot[t] = i

\* Who is outside of the count starts threads outside of the count.
UnknownInv == \A p \in Everybody : Entering(p) /\ p \in unknown => Head(todo[p]) \in unknown

TableInv == TableType /\ TodoInv /\ CountInv /\ UnknownInv

-----------------------------------------------------------------------------
(* The helpers *)

\* A search that finds something finds a slot that is what it looks for.
LEMMA FirstSlotFinds ==
  ASSUME TableType, NEW S \in SUBSET Slots
  PROVE  IF S = {} THEN FirstSlot(S) = NoSlot ELSE FirstSlot(S) \in S /\ FirstSlot(S) # NoSlot
<1> USE PoolAssumption
<1>1. PICK size \in PoolSizes : activeThreads \in [1 .. size -> Threads \cup {Nobody}]
  BY DEF TableType
<1>2. IsFiniteSet(1 .. size) /\ Slots = 1 .. size
  BY <1>1, FS_Interval DEF Slots
<1>3. IsFiniteSet(S) /\ S \in SUBSET Int
  <2>1. IsFiniteSet(S)
    BY <1>2, FS_Subset
  <2> QED BY <1>2, <2>1
<1>4. CASE S # {}
  <2>1. Min(S) \in S
    BY <1>3, <1>4, MinOf
  <2> QED BY <2>1, <1>2, <1>4 DEF FirstSlot, NoSlot
<1> QED BY <1>4 DEF FirstSlot

\* The thread a search finds is there; if the table is full or the thread is not in
\* it, nothing is found.
LEMMA SearchFinds ==
  ASSUME TableType
  PROVE  /\ FirstSlot({i \in Slots : activeThreads[i] = Nobody}) \in Slots \cup {NoSlot}
         /\ FirstSlot({i \in Slots : activeThreads[i] = Nobody}) # NoSlot =>
              activeThreads[FirstSlot({i \in Slots : activeThreads[i] = Nobody})] = Nobody
         /\ \A t \in Threads :
              /\ FirstSlot({i \in Slots : activeThreads[i] = t}) \in Slots \cup {NoSlot}
              /\ IF FirstSlot({i \in Slots : activeThreads[i] = t}) = NoSlot
                   THEN \A i \in Slots : activeThreads[i] # t
                   ELSE activeThreads[FirstSlot({i \in Slots : activeThreads[i] = t})] = t
<1>1. \A S \in SUBSET Slots : IF S = {} THEN FirstSlot(S) = NoSlot
                              ELSE FirstSlot(S) \in S /\ FirstSlot(S) # NoSlot
  BY FirstSlotFinds
<1>2. \A x : {i \in Slots : activeThreads[i] = x} \in SUBSET Slots
  OBVIOUS
<1>3. \A x : LET S == {i \in Slots : activeThreads[i] = x}
             IN  IF S = {} THEN FirstSlot(S) = NoSlot
                 ELSE FirstSlot(S) \in S /\ FirstSlot(S) # NoSlot
  BY <1>1, <1>2
<1> QED BY <1>3

\* What a thread still has to start.
LEMMA HeadAndTail ==
  ASSUME TableType, NEW p \in Everybody, todo[p] # <<>>
  PROVE  /\ Head(todo[p]) = todo[p][1] /\ Head(todo[p]) \in Threads
         /\ Len(todo[p]) \in Nat \ {0} /\ 1 \in DOMAIN todo[p]
         /\ DOMAIN todo[p] = 1 .. Len(todo[p])
         /\ Tail(todo[p]) \in Seq(Threads) /\ Len(Tail(todo[p])) = Len(todo[p]) - 1
         /\ DOMAIN Tail(todo[p]) = 1 .. Len(todo[p]) - 1
         /\ \A i \in DOMAIN Tail(todo[p]) :
                i + 1 \in DOMAIN todo[p] /\ Tail(todo[p])[i] = todo[p][i + 1]
<1>1. todo[p] \in Seq(Threads)
  BY DEF TableType
<1>2. Len(todo[p]) \in Nat \ {0} /\ DOMAIN todo[p] = 1 .. Len(todo[p])
  BY <1>1, EmptySeq, LenProperties
<1>3. /\ Tail(todo[p]) \in Seq(Threads) /\ Len(Tail(todo[p])) = Len(todo[p]) - 1
      /\ \A i \in 1 .. Len(Tail(todo[p])) : Tail(todo[p])[i] = todo[p][i + 1]
      /\ Head(todo[p]) \in Threads
  BY <1>1, HeadTailProperties
<1>4. DOMAIN Tail(todo[p]) = 1 .. Len(todo[p]) - 1
  BY <1>3, LenProperties
<1>5. Head(todo[p]) = todo[p][1]
  BY <1>1
<1> QED BY <1>2, <1>3, <1>4, <1>5

\* The thread being entered is one.
LEMMA EnteredOne ==
  ASSUME TableType, TodoInv, NEW p \in Everybody, Entering(p)
  PROVE  /\ Head(todo[p]) \in Threads /\ Head(todo[p]) = todo[p][1] /\ 1 \in DOMAIN todo[p]
         /\ BeingEntered(Head(todo[p])) /\ pc[Head(todo[p])] \in About
         /\ \A q \in Everybody : Entering(q) /\ Head(todo[q]) = Head(todo[p]) => q = p
<1>1. \A q \in Everybody : Entering(q) =>
        Head(todo[q]) \in Threads /\ Head(todo[q]) = todo[q][1] /\ 1 \in DOMAIN todo[q]
  BY HeadAndTail DEF TodoInv
<1>2. BeingEntered(Head(todo[p]))
  BY DEF BeingEntered
<1>3. pc[Head(todo[p])] \in About
  <2>1. ~(p = Main /\ MainLeft)
    BY DEF MainLeft, Entering
  <2> QED BY <1>1, <2>1 DEF TodoInv
<1>4. \A q \in Everybody : Entering(q) /\ Head(todo[q]) = Head(todo[p]) => q = p
  BY <1>1 DEF TodoInv
<1> QED BY <1>1, <1>2, <1>3, <1>4

\* With a thread its creator is entering go only such threads, and all that those enter.
LEMMA WithThem ==
  ASSUME TableType, TodoInv, NEW t \in Threads, BeingEntered(t)
  PROVE  /\ WithThose(t) \subseteq Threads /\ t \in WithThose(t)
         /\ \A u \in WithThose(t) : BeingEntered(u)
         /\ \A p \in WithThose(t) : Entering(p) => Head(todo[p]) \in WithThose(t)
<1> DEFINE Closed(S) == t \in S /\ \A p \in S : Entering(p) => Head(todo[p]) \in S
           B == {u \in Threads : BeingEntered(u)}
<1>0. WithThose(t) = {u \in Threads : \A S \in SUBSET Threads : Closed(S) => u \in S}
  BY DEF WithThose
<1>1. \A p \in Threads : p \in Everybody
  BY DEF Everybody
<1>2. Closed(B) /\ B \in SUBSET Threads
  BY <1>1, EnteredOne
<1>3. \A u \in WithThose(t) : BeingEntered(u)
  <2> HIDE DEF Closed
  <2>1. \A u \in WithThose(t) : u \in B
    BY <1>0, <1>2
  <2> QED BY <2>1
<1>4. ASSUME NEW p \in WithThose(t), Entering(p) PROVE Head(todo[p]) \in WithThose(t)
  <2>1. p \in Threads /\ \A S \in SUBSET Threads : Closed(S) => p \in S
    <3> HIDE DEF Closed
    <3> QED BY <1>0
  <2>2. Head(todo[p]) \in Threads
    BY <1>1, <1>4, <2>1, EnteredOne
  <2>3. \A S \in SUBSET Threads : Closed(S) => Head(todo[p]) \in S
    BY <1>4, <2>1
  <2> HIDE DEF Closed
  <2> QED BY <1>0, <2>2, <2>3
<1>5. t \in WithThose(t)
  BY <1>0
<1> QED BY <1>0, <1>3, <1>4, <1>5

\* Nobody is in the table while he is being entered.
LEMMA NotYetThere ==
  ASSUME CountInv, NEW u \in Threads, BeingEntered(u) \/ pc[u] \in {"unborn", "gone"}
  PROVE  u \notin Counted /\ \A i \in Slots : activeThreads[i] # u
BY MainAssumption DEF CountInv, Counted, Everybody

-----------------------------------------------------------------------------
(* What the actions do *)

\* create_thread, before the new thread is entered.
LEMMA CreateDoes ==
  ASSUME TableType, TodoInv, NEW t \in Everybody, Create(t)
  PROVE  \E h \in Threads :
         /\ h = Head(todo[t]) /\ h = todo[t][1] /\ 1 \in DOMAIN todo[t] /\ pc[h] = "unborn"
         /\ h # t /\ pc[t] = "run" /\ ~Entering(t)
         /\ pc' = [pc EXCEPT ![t] = "scan", ![h] = "run"] /\ todo' = todo /\ slot' = slot
         /\ unknown' = IF t \in unknown THEN unknown \cup {h} ELSE unknown
         /\ activeThreads' = activeThreads /\ Slots' = Slots /\ g_thread_count' = g_thread_count
         /\ g_time_to_exit' = g_time_to_exit
         /\ \A p \in Everybody : Entering(p)' <=> Entering(p) \/ p = t
         /\ \A u \in Threads : BeingEntered(u)' <=> BeingEntered(u) \/ u = h
<1>1. PICK h \in Threads : h = Head(todo[t]) /\ h = todo[t][1] /\ 1 \in DOMAIN todo[t]
  BY HeadAndTail DEF Create
<1>2. pc[t] = "run" /\ pc[h] = "unborn" /\ h # t /\ ~Entering(t) /\ h \in Everybody
  BY <1>1 DEF Create, TodoInv, Entering, MainLeft, Everybody
<1>3. /\ pc' = [pc EXCEPT ![t] = "scan", ![h] = "run"] /\ todo' = todo /\ slot' = slot
      /\ unknown' = IF t \in unknown THEN unknown \cup {h} ELSE unknown
      /\ activeThreads' = activeThreads /\ Slots' = Slots /\ g_thread_count' = g_thread_count
      /\ g_time_to_exit' = g_time_to_exit
  BY <1>1 DEF Create, Slots
<1>4. \A p \in Everybody : Entering(p)' <=> Entering(p) \/ p = t
  BY <1>2, <1>3 DEF Entering, TableType
<1>5. \A u \in Threads : BeingEntered(u)' <=> BeingEntered(u) \/ u = h
  BY <1>1, <1>3, <1>4 DEF BeingEntered
<1> QED BY <1>1, <1>2, <1>3, <1>4, <1>5

\* register_thread, under the lock.
LEMMA RegisterDoes ==
  ASSUME TableType, TodoInv, NEW t \in Everybody, Register(t)
  PROVE  \E h \in Threads :
         /\ h = Head(todo[t]) /\ BeingEntered(h) /\ pc[h] \in About
         /\ pc[t] = "store" /\ Entering(t)
         /\ \A p \in Everybody : Entering(p) /\ Head(todo[p]) = h => p = t
         /\ pc' = [pc EXCEPT ![t] = "run"] /\ slot' = [slot EXCEPT ![t] = NoSlot]
         /\ todo' = [todo EXCEPT ![t] = Tail(@)]
         /\ unknown' = IF slot[t] = NoSlot THEN unknown \cup WithThose(h) ELSE unknown \ {h}
         /\ activeThreads' = IF slot[t] = NoSlot THEN activeThreads
                             ELSE [activeThreads EXCEPT ![slot[t]] = h]
         /\ g_thread_count' = g_thread_count + Added(t) /\ Slots' = Slots
         /\ g_time_to_exit' = g_time_to_exit
         /\ slot[t] \in Slots \cup {NoSlot} /\ NoSlot \notin Slots
         /\ \A p \in Everybody : Entering(p)' <=> Entering(p) /\ p # t
         /\ \A u \in Threads : BeingEntered(u)' <=> BeingEntered(u) /\ u # h
<1>1. pc[t] = "store" /\ Entering(t)
  BY DEF Register, Moves, Entering
<1>2. PICK h \in Threads :
        /\ h = Head(todo[t]) /\ BeingEntered(h) /\ pc[h] \in About
        /\ \A p \in Everybody : Entering(p) /\ Head(todo[p]) = h => p = t
  BY <1>1, EnteredOne
<1>3. NoSlot \notin Slots /\ slot[t] \in Slots \cup {NoSlot}
  BY PoolAssumption DEF TableType, Slots, NoSlot
<1>4. /\ pc' = [pc EXCEPT ![t] = "run"] /\ slot' = [slot EXCEPT ![t] = NoSlot]
      /\ todo' = [todo EXCEPT ![t] = Tail(@)]
      /\ unknown' = IF slot[t] = NoSlot THEN unknown \cup WithThose(h) ELSE unknown \ {h}
      /\ activeThreads' = IF slot[t] = NoSlot THEN activeThreads
                          ELSE [activeThreads EXCEPT ![slot[t]] = h]
      /\ g_thread_count' = g_thread_count + Added(t) /\ g_time_to_exit' = g_time_to_exit
  BY <1>2 DEF Register, Moves
<1>5. Slots' = Slots
  BY <1>4 DEF Slots
<1>6. \A p \in Everybody : Entering(p)' <=> Entering(p) /\ p # t
  BY <1>4 DEF Entering, TableType
<1>7. \A p \in Everybody : p # t => todo'[p] = todo[p]
  BY <1>4 DEF TableType
<1>8. \A u \in Threads : BeingEntered(u)' <=> BeingEntered(u) /\ u # h
  <2> SUFFICES ASSUME NEW u \in Threads PROVE BeingEntered(u)' <=> BeingEntered(u) /\ u # h
    OBVIOUS
  <2>1. BeingEntered(u) <=> \E p \in Everybody : Entering(p) /\ Head(todo[p]) = u
    BY DEF BeingEntered
  <2>2. BeingEntered(u)' <=> \E p \in Everybody : Entering(p)' /\ Head(todo'[p]) = u
    BY DEF BeingEntered
  <2> HIDE DEF Entering
  <2> QED BY <1>2, <1>6, <1>7, <2>1, <2>2
<1> QED BY <1>1, <1>2, <1>3, <1>4, <1>5, <1>6, <1>8

\* clean_exit stops the main thread, with what it was entering.
LEMMA CleanExitDoes ==
  ASSUME TableType, TodoInv, CleanExit
  PROVE  /\ pc' = [pc EXCEPT ![Main] = "wait"] /\ todo' = todo /\ MainLeft'
         /\ slot' = [slot EXCEPT ![Main] = NoSlot]
         /\ activeThreads' = activeThreads /\ Slots' = Slots /\ g_thread_count' = g_thread_count
         /\ g_time_to_exit' \in BOOLEAN /\ Main \in Everybody
         /\ \A p \in Everybody : Entering(p)' <=> Entering(p) /\ p # Main
         /\ \/ /\ ~Entering(Main) /\ unknown' = unknown
               /\ \A u \in Threads : BeingEntered(u)' <=> BeingEntered(u)
            \/ \E h \in Threads :
                 /\ Entering(Main) /\ h = Head(todo[Main]) /\ BeingEntered(h)
                 /\ unknown' = unknown \cup WithThose(h)
                 /\ \A u \in Threads : BeingEntered(u)' <=> BeingEntered(u) /\ u # h
<1>0. Main \in Everybody /\ pc[Main] \in {"run", "scan", "store"}
  BY DEF Everybody, CleanExit
<1>1. /\ pc' = [pc EXCEPT ![Main] = "wait"] /\ todo' = todo
      /\ slot' = [slot EXCEPT ![Main] = NoSlot] /\ Slots' = Slots
      /\ activeThreads' = activeThreads /\ g_thread_count' = g_thread_count
      /\ g_time_to_exit' \in BOOLEAN
      /\ unknown' = IF pc[Main] = "run" THEN unknown ELSE unknown \cup WithThose(Head(todo[Main]))
  BY DEF CleanExit, Slots
<1>2. MainLeft' /\ \A p \in Everybody : Entering(p)' <=> Entering(p) /\ p # Main
  BY <1>0, <1>1 DEF MainLeft, Entering, TableType
<1>3. CASE pc[Main] = "run"
  <2>1. ~Entering(Main) /\ unknown' = unknown
    BY <1>1, <1>3 DEF Entering
  <2>2. \A u \in Threads : BeingEntered(u)' <=> BeingEntered(u)
    BY <1>1, <1>2, <2>1 DEF BeingEntered
  <2> QED BY <1>0, <1>1, <1>2, <2>1, <2>2
<1>4. CASE pc[Main] # "run"
  <2>1. Entering(Main)
    BY <1>0, <1>4 DEF Entering
  <2>2. PICK h \in Threads :
          /\ h = Head(todo[Main]) /\ BeingEntered(h)
          /\ \A p \in Everybody : Entering(p) /\ Head(todo[p]) = h => p = Main
    BY <1>0, <2>1, EnteredOne
  <2>3. \A u \in Threads : BeingEntered(u)' <=> BeingEntered(u) /\ u # h
    BY <1>1, <1>2, <2>1, <2>2 DEF BeingEntered
  <2>4. unknown' = unknown \cup WithThose(h)
    BY <1>1, <1>4, <2>2
  <2> QED BY <1>0, <1>1, <1>2, <2>1, <2>2, <2>3, <2>4
<1> QED BY <1>3, <1>4

\* unregister_thread, the search, when it finds the thread.
Finds(t) == Find(t) /\ slot'[t] # NoSlot
LEMMA FindsDoes ==
  ASSUME TableType, NEW t \in Everybody, Finds(t)
  PROVE  /\ t \in Threads /\ pc[t] = "find" /\ pc' = [pc EXCEPT ![t] = "clear"] /\ todo' = todo
         /\ slot'[t] \in Slots /\ activeThreads[slot'[t]] = t
         /\ slot' = [slot EXCEPT ![t] = slot'[t]]
         /\ activeThreads' = activeThreads /\ Slots' = Slots /\ g_thread_count' = g_thread_count
         /\ g_time_to_exit' = g_time_to_exit /\ unknown' = unknown
         /\ \A p \in Everybody : Entering(p)' <=> Entering(p)
         /\ \A u \in Threads : BeingEntered(u)' <=> BeingEntered(u)
<1>1. t \in Threads /\ pc[t] = "find"
  BY DEF Finds, Find, TableType, Everybody
<1>2. slot'[t] \in Slots /\ activeThreads[slot'[t]] = t /\ slot' = [slot EXCEPT ![t] = slot'[t]]
  BY <1>1, SearchFinds DEF Finds, Find, TableType
<1>3. /\ pc' = [pc EXCEPT ![t] = "clear"] /\ todo' = todo
      /\ activeThreads' = activeThreads /\ Slots' = Slots /\ g_thread_count' = g_thread_count
      /\ g_time_to_exit' = g_time_to_exit /\ unknown' = unknown
  BY DEF Finds, Find, Slots
<1>4. \A p \in Everybody : Entering(p)' <=> Entering(p)
  BY <1>1, <1>3 DEF Entering, TableType
<1>5. \A u \in Threads : BeingEntered(u)' <=> BeingEntered(u)
  BY <1>3, <1>4 DEF BeingEntered
<1> QED BY <1>1, <1>2, <1>3, <1>4, <1>5

\* unregister_thread, under the lock.
LEMMA ClearDoes ==
  ASSUME TableType, CountInv, NEW t \in Everybody, Clear(t)
  PROVE  /\ t \in Threads /\ pc[t] = "clear" /\ pc' = [pc EXCEPT ![t] = "gone"] /\ todo' = todo
         /\ t \in Counted /\ slot[t] \in Slots /\ slot' = [slot EXCEPT ![t] = NoSlot]
         /\ activeThreads' = [activeThreads EXCEPT ![slot[t]] = Nobody] /\ Slots' = Slots
         /\ g_thread_count' = g_thread_count - 1
         /\ g_time_to_exit' = g_time_to_exit /\ unknown' = unknown
         /\ \A p \in Everybody : Entering(p)' <=> Entering(p)
         /\ \A u \in Threads : BeingEntered(u)' <=> BeingEntered(u)
<1>1. t \in Threads /\ pc[t] = "clear"
  BY DEF Clear, Moves, TableType, Everybody
<1>2. /\ pc' = [pc EXCEPT ![t] = "gone"] /\ todo' = todo /\ slot' = [slot EXCEPT ![t] = NoSlot]
      /\ activeThreads' = [activeThreads EXCEPT ![slot[t]] = Nobody]
      /\ g_thread_count' = g_thread_count - 1
      /\ g_time_to_exit' = g_time_to_exit /\ unknown' = unknown
  BY DEF Clear, Moves, CountDown
<1>3. Slots' = Slots
  BY <1>2 DEF Slots
<1>4. \A p \in Everybody : Entering(p)' <=> Entering(p)
  BY <1>1, <1>2 DEF Entering, TableType
<1>5. \A u \in Threads : BeingEntered(u)' <=> BeingEntered(u)
  BY <1>2, <1>4 DEF BeingEntered
<1>6. t \in Counted /\ slot[t] \in Slots
  BY <1>1 DEF CountInv
<1> QED BY <1>1, <1>2, <1>3, <1>4, <1>5, <1>6

\* The other steps move a thread from one place about the program to another, or end the
\* main thread; none of them touches the table or the count.
Quiet(t) ==
  Scan(t) \/ EndsLoop(t) \/ (Find(t) /\ slot'[t] = NoSlot) \/ Vanish(t) \/ Block(t)
          \/ SetThreadExit(t)
LEMMA QuietDoes ==
  ASSUME TableType, (\E t \in Everybody : Quiet(t)) \/ Cleanup \/ UNCHANGED vars
  PROVE  /\ activeThreads' = activeThreads /\ Slots' = Slots /\ g_thread_count' = g_thread_count
         /\ todo' = todo /\ unknown' = unknown /\ TableType' /\ (MainLeft' <=> MainLeft)
         /\ \A u \in Threads : pc'[u] = pc[u] \/ (pc[u] \in About /\ pc'[u] \in About)
         /\ \A u \in Threads : pc[u] = "clear" => slot'[u] = slot[u]
         /\ \A p \in Everybody : Entering(p)' <=> Entering(p)
         /\ \A u \in Threads : BeingEntered(u)' <=> BeingEntered(u)
<1> DEFINE Same == /\ activeThreads' = activeThreads /\ g_thread_count' = g_thread_count
                   /\ todo' = todo /\ unknown' = unknown
           Kept == /\ pc' \in [Everybody -> Places] /\ slot' \in [Everybody -> Slots \cup {NoSlot}]
                   /\ g_time_to_exit' \in BOOLEAN
                   /\ pc'[Main] \in {"run", "scan", "store", "wait", "gone"}
                   /\ (MainLeft' <=> MainLeft)
                   /\ \A u \in Threads : pc'[u] = pc[u] \/ (pc[u] \in About /\ pc'[u] \in About)
                   /\ \A u \in Threads : pc[u] = "clear" => slot'[u] = slot[u]
                   /\ \A p \in Everybody : Entering(p)' <=> Entering(p)
<1>0. /\ pc \in [Everybody -> Places] /\ slot \in [Everybody -> Slots \cup {NoSlot}]
      /\ g_time_to_exit \in BOOLEAN /\ pc[Main] \in {"run", "scan", "store", "wait", "gone"}
      /\ Main \in Everybody /\ Main \notin Threads /\ Threads \subseteq Everybody
  BY MainAssumption DEF TableType, Everybody
<1> USE <1>0 DEF Entering, MainLeft, About, Places
<1>1. ASSUME NEW t \in Everybody, Scan(t) PROVE Same /\ Kept
  <2>1. slot'[t] \in Slots \cup {NoSlot}
    BY <1>1, SearchFinds DEF Scan
  <2> QED BY <1>1, <2>1 DEF Scan, Moves
<1>2. ASSUME NEW t \in Everybody, EndsLoop(t) PROVE Same /\ Kept
  BY <1>2 DEF EndsLoop, Moves
<1>3. ASSUME NEW t \in Everybody, Find(t) /\ slot'[t] = NoSlot PROVE Same /\ Kept
  <2>1. /\ pc[t] = "find" /\ pc' = [pc EXCEPT ![t] = "astray"] /\ Same
        /\ slot' = [slot EXCEPT ![t] = NoSlot] /\ g_time_to_exit' = g_time_to_exit
    BY <1>3 DEF Find, Missed
  <2> QED BY <2>1
<1>4. ASSUME NEW t \in Everybody, Vanish(t) \/ Block(t) PROVE Same /\ Kept
  BY <1>4, SetsAssumption DEF Vanish, Block, Moves
<1>5. ASSUME NEW t \in Everybody, SetThreadExit(t) PROVE Same /\ Kept
  BY <1>5 DEF SetThreadExit
<1>6. ASSUME Cleanup PROVE Same /\ Kept
  <2>1. /\ pc[Main] = "wait" /\ pc' = [pc EXCEPT ![Main] = "gone"] /\ slot' = slot
        /\ g_time_to_exit' = g_time_to_exit /\ Same
    BY <1>6 DEF Cleanup, Moves
  <2> QED BY <2>1
<1>7. ASSUME UNCHANGED vars PROVE Same /\ Kept
  BY <1>7 DEF vars
<1>8. Same /\ Kept
  <2> HIDE DEF Same, Kept
  <2> QED BY <1>1, <1>2, <1>3, <1>4, <1>5, <1>6, <1>7 DEF Quiet
<1>9. Slots' = Slots /\ TableType'
  BY <1>8 DEF TableType, Slots
<1>10. \A u \in Threads : BeingEntered(u)' <=> BeingEntered(u)
  <2>1. todo' = todo /\ \A p \in Everybody : Entering(p)' <=> Entering(p)
    BY <1>8
  <2> HIDE DEF Entering
  <2> QED BY <2>1 DEF BeingEntered
<1> QED BY <1>8, <1>9, <1>10

\* There are no other steps.
LEMMA Steps ==
  ASSUME [Next]_vars, TableType
  PROVE  \/ \E t \in Everybody : Create(t) \/ Register(t) \/ Clear(t) \/ Finds(t)
         \/ CleanExit
         \/ (\E t \in Everybody : Quiet(t)) \/ Cleanup \/ UNCHANGED vars
BY DEF Next, Step, Quiet, Finds, Everybody

-----------------------------------------------------------------------------
(* The invariant *)

\* The actions keep the types.
LEMMA NextType == TableInv /\ [Next]_vars => TableType'
<1> SUFFICES ASSUME TableInv, [Next]_vars PROVE TableType'
  OBVIOUS
<1>0. TableType /\ TodoInv /\ CountInv
  BY DEF TableInv
<1>a. PICK size \in PoolSizes : activeThreads \in [1 .. size -> Threads \cup {Nobody}]
  BY <1>0 DEF TableType
<1>b. Slots = 1 .. size
  BY <1>a DEF Slots
<1>c. /\ g_thread_count \in Int /\ g_time_to_exit \in BOOLEAN /\ pc \in [Everybody -> Places]
      /\ todo \in [Everybody -> Seq(Threads)] /\ slot \in [Everybody -> Slots \cup {NoSlot}]
      /\ unknown \subseteq Threads /\ pc[Main] \in {"run", "scan", "store", "wait", "gone"}
      /\ Threads \subseteq Everybody /\ Main \in Everybody /\ Main \notin Threads
  BY <1>0, MainAssumption DEF TableType, Everybody
<1>1. ASSUME NEW t \in Everybody, Create(t) PROVE TableType'
  <2>1. PICK h \in Threads :
          /\ h # t /\ pc[t] = "run"
          /\ pc' = [pc EXCEPT ![t] = "scan", ![h] = "run"] /\ todo' = todo /\ slot' = slot
          /\ unknown' = IF t \in unknown THEN unknown \cup {h} ELSE unknown
          /\ activeThreads' = activeThreads /\ Slots' = Slots /\ g_thread_count' = g_thread_count
          /\ g_time_to_exit' = g_time_to_exit
    BY <1>0, <1>1, CreateDoes
  <2>2. pc' \in [Everybody -> Places] /\ pc'[Main] \in {"run", "scan", "store", "wait", "gone"}
    BY <1>c, <2>1 DEF Places
  <2> QED BY <1>a, <1>c, <2>1, <2>2 DEF TableType
<1>2. ASSUME NEW t \in Everybody, Register(t) PROVE TableType'
  <2>1. PICK h \in Threads :
          /\ h = Head(todo[t]) /\ BeingEntered(h) /\ pc[t] = "store" /\ Entering(t)
          /\ pc' = [pc EXCEPT ![t] = "run"] /\ slot' = [slot EXCEPT ![t] = NoSlot]
          /\ todo' = [todo EXCEPT ![t] = Tail(@)]
          /\ unknown' = IF slot[t] = NoSlot THEN unknown \cup WithThose(h) ELSE unknown \ {h}
          /\ activeThreads' = IF slot[t] = NoSlot THEN activeThreads
                              ELSE [activeThreads EXCEPT ![slot[t]] = h]
          /\ g_thread_count' = g_thread_count + Added(t) /\ Slots' = Slots
          /\ g_time_to_exit' = g_time_to_exit
    BY <1>0, <1>2, RegisterDoes
  <2>2. todo' \in [Everybody -> Seq(Threads)]
    <3>1. todo[t] # <<>>
      BY <1>0, <2>1 DEF TodoInv
    <3>2. Tail(todo[t]) \in Seq(Threads)
      BY <1>0, <3>1, HeadAndTail
    <3> QED BY <1>c, <2>1, <3>2
  <2>3. unknown' \subseteq Threads
    BY <1>0, <1>c, <2>1, WithThem
  <2>4. activeThreads' \in [1 .. size -> Threads \cup {Nobody}]
    BY <1>a, <2>1
  <2>5. g_thread_count' \in Int
    BY <1>c, <2>1 DEF Added
  <2>6. /\ pc' \in [Everybody -> Places] /\ pc'[Main] \in {"run", "scan", "store", "wait", "gone"}
        /\ slot' \in [Everybody -> Slots \cup {NoSlot}]
    BY <1>c, <2>1 DEF Places
  <2> QED BY <1>c, <2>1, <2>2, <2>3, <2>4, <2>5, <2>6 DEF TableType
<1>3. ASSUME NEW t \in Everybody, Clear(t) PROVE TableType'
  <2>1. /\ t \in Threads /\ pc' = [pc EXCEPT ![t] = "gone"] /\ todo' = todo
        /\ slot[t] \in Slots /\ slot' = [slot EXCEPT ![t] = NoSlot]
        /\ activeThreads' = [activeThreads EXCEPT ![slot[t]] = Nobody] /\ Slots' = Slots
        /\ g_thread_count' = g_thread_count - 1
        /\ g_time_to_exit' = g_time_to_exit /\ unknown' = unknown
    BY <1>0, <1>3, ClearDoes
  <2>2. /\ activeThreads' \in [1 .. size -> Threads \cup {Nobody}] /\ g_thread_count' \in Int
        /\ slot' \in [Everybody -> Slots \cup {NoSlot}]
        /\ pc' \in [Everybody -> Places] /\ pc'[Main] \in {"run", "scan", "store", "wait", "gone"}
    BY <1>a, <1>b, <1>c, <2>1 DEF Places
  <2> QED BY <1>c, <2>1, <2>2 DEF TableType
<1>4. ASSUME NEW t \in Everybody, Finds(t) PROVE TableType'
  <2>1. /\ t \in Threads /\ pc' = [pc EXCEPT ![t] = "clear"] /\ todo' = todo
        /\ slot'[t] \in Slots /\ slot' = [slot EXCEPT ![t] = slot'[t]]
        /\ activeThreads' = activeThreads /\ Slots' = Slots /\ g_thread_count' = g_thread_count
        /\ g_time_to_exit' = g_time_to_exit /\ unknown' = unknown
    BY <1>0, <1>4, FindsDoes
  <2>2. PICK s \in Slots : slot' = [slot EXCEPT ![t] = s]
    BY <2>1
  <2>3. slot' \in [Everybody -> Slots \cup {NoSlot}]
    BY <1>c, <2>2
  <2>4. pc' \in [Everybody -> Places] /\ pc'[Main] \in {"run", "scan", "store", "wait", "gone"}
    BY <1>c, <2>1 DEF Places
  <2> QED BY <1>a, <1>c, <2>1, <2>3, <2>4 DEF TableType
<1>5. CASE CleanExit
  <2>1. /\ pc' = [pc EXCEPT ![Main] = "wait"] /\ todo' = todo
        /\ slot' = [slot EXCEPT ![Main] = NoSlot]
        /\ activeThreads' = activeThreads /\ Slots' = Slots /\ g_thread_count' = g_thread_count
        /\ g_time_to_exit' \in BOOLEAN
    BY <1>0, <1>5, CleanExitDoes
  <2>2. unknown' \subseteq Threads
    <3>1. unknown' = unknown \/ \E h \in Threads : BeingEntered(h)
                                                    /\ unknown' = unknown \cup WithThose(h)
      BY <1>0, <1>5, CleanExitDoes
    <3> QED BY <1>0, <1>c, <3>1, WithThem
  <2>3. /\ pc' \in [Everybody -> Places] /\ pc'[Main] \in {"run", "scan", "store", "wait", "gone"}
        /\ slot' \in [Everybody -> Slots \cup {NoSlot}]
    BY <1>c, <2>1 DEF Places
  <2> QED BY <1>a, <1>c, <2>1, <2>2, <2>3 DEF TableType
<1>6. CASE (\E t \in Everybody : Quiet(t)) \/ Cleanup \/ UNCHANGED vars
  BY <1>0, <1>6, QuietDoes
<1> QED BY <1>0, <1>1, <1>2, <1>3, <1>4, <1>5, <1>6, Steps

\* Every thread is started once.
LEMMA NextTodo == TableInv /\ [Next]_vars => TodoInv'
<1> SUFFICES ASSUME TableInv, [Next]_vars PROVE TodoInv'
  OBVIOUS
<1>0. TableType /\ TodoInv /\ CountInv
  BY DEF TableInv
<1>a. \A p \in Everybody : \A i \in DOMAIN todo[p] : todo[p][i] \in Threads /\ i \in Nat \ {0}
  BY <1>0, LenProperties, ElementOfSeq DEF TableType
<1>b. pc \in [Everybody -> Places] /\ Threads \subseteq Everybody /\ Main \notin Threads
  BY <1>0, MainAssumption DEF TableType, Everybody
<1>1. ASSUME NEW t \in Everybody, Create(t) PROVE TodoInv'
  <2>1. PICK h \in Threads :
          /\ h = Head(todo[t]) /\ h = todo[t][1] /\ 1 \in DOMAIN todo[t] /\ pc[h] = "unborn"
          /\ h # t /\ pc[t] = "run" /\ ~Entering(t)
          /\ pc' = [pc EXCEPT ![t] = "scan", ![h] = "run"] /\ todo' = todo
          /\ \A p \in Everybody : Entering(p)' <=> Entering(p) \/ p = t
    BY <1>0, <1>1, CreateDoes
  <2>2. /\ pc'[t] = "scan" /\ pc'[h] = "run"
        /\ \A p \in Everybody : p # t /\ p # h => pc'[p] = pc[p]
    BY <1>b, <2>1
  <2>3. (MainLeft' <=> MainLeft)
    BY <1>b, <2>1, <2>2 DEF MainLeft, Everybody
  <2>4. \A p \in Everybody : Entering(p)' => todo'[p] # <<>>
    BY <1>1, <1>0, <2>1 DEF TodoInv, Create
  <2>5. ASSUME NEW p \in Everybody, ~(p = Main /\ MainLeft'), NEW i \in DOMAIN todo[p]
        PROVE  IF i = 1 /\ Entering(p)' THEN pc'[todo[p][i]] \in About
                                        ELSE pc'[todo[p][i]] = "unborn"
    <3>1. IF i = 1 /\ Entering(p) THEN pc[todo[p][i]] \in About ELSE pc[todo[p][i]] = "unborn"
      BY <1>0, <2>3, <2>5 DEF TodoInv
    <3>2. todo[p][i] = h => p = t /\ i = 1
      BY <1>0, <2>1, <2>5 DEF TodoInv
    <3>3. todo[p][i] \in Everybody
      BY <1>a, <1>b, <2>5
    <3>4. CASE todo[p][i] = h
      BY <2>1, <2>2, <3>2, <3>4 DEF About, Places
    <3>5. CASE todo[p][i] # h
      <4>1. ~(p = t /\ i = 1)
        BY <2>1, <3>5
      <4>2. pc'[todo[p][i]] = IF todo[p][i] = t THEN "scan" ELSE pc[todo[p][i]]
        BY <2>2, <3>3, <3>5
      <4>3. i = 1 => (Entering(p)' <=> Entering(p))
        BY <2>1, <2>5, <4>1
      <4>4. todo[p][i] = t => i = 1 /\ Entering(p)
        BY <2>1, <3>1
      <4> QED BY <3>1, <4>2, <4>3, <4>4 DEF About, Places
    <3> QED BY <3>4, <3>5
  <2>6. \A p \in Everybody : ~(p = Main /\ MainLeft') => \A i \in DOMAIN todo'[p] :
          IF i = 1 /\ Entering(p)' THEN pc'[todo'[p][i]] \in About'
                                   ELSE pc'[todo'[p][i]] = "unborn"
    <3>1. About' = About
      BY DEF About, Places
    <3> QED BY <2>1, <2>5, <3>1
  <2>7. /\ \A p, q \in Everybody : \A i \in DOMAIN todo'[p], j \in DOMAIN todo'[q] :
             todo'[p][i] = todo'[q][j] => p = q /\ i = j
        /\ \A p \in Everybody : \A i \in DOMAIN todo'[p] : Rank[p] < Rank[todo'[p][i]]
    BY <1>0, <2>1 DEF TodoInv
  <2> HIDE DEF About, Entering, MainLeft
  <2> QED BY <2>4, <2>6, <2>7 DEF TodoInv
<1>2. ASSUME NEW t \in Everybody, Register(t) PROVE TodoInv'
  <2>1. /\ pc[t] = "store" /\ Entering(t)
        /\ pc' = [pc EXCEPT ![t] = "run"] /\ todo' = [todo EXCEPT ![t] = Tail(@)]
        /\ \A p \in Everybody : Entering(p)' <=> Entering(p) /\ p # t
    BY <1>0, <1>2, RegisterDoes
  <2>2. /\ pc'[t] = "run" /\ (MainLeft' <=> MainLeft)
        /\ \A p \in Everybody : p # t => pc'[p] = pc[p] /\ todo'[p] = todo[p]
        /\ todo'[t] = Tail(todo[t]) /\ todo[t] # <<>>
    BY <1>0, <1>b, <2>1 DEF MainLeft, TableType, TodoInv, Everybody
  <2>3. \A i \in DOMAIN todo'[t] :
          i \in Nat \ {0} /\ i + 1 \in DOMAIN todo[t] /\ todo'[t][i] = todo[t][i + 1]
    BY <1>0, <2>2, HeadAndTail
  <2>4. ASSUME NEW p \in Everybody, NEW i \in DOMAIN todo'[p]
        PROVE  \E k \in {0, 1} : /\ i \in Nat \ {0} /\ i + k \in DOMAIN todo[p]
                                 /\ todo'[p][i] = todo[p][i + k]
                                 /\ k = 0 <=> p # t
    <3>1. CASE p = t
      BY <2>3, <2>4, <3>1
    <3>2. CASE p # t
      BY <1>a, <2>2, <2>4, <3>2
    <3> QED BY <3>1, <3>2
  <2>5. ASSUME NEW p \in Everybody, NEW q \in Everybody, NEW i \in DOMAIN todo'[p],
               NEW j \in DOMAIN todo'[q], todo'[p][i] = todo'[q][j]
        PROVE  p = q /\ i = j
    <3>1. PICK k \in {0, 1} : /\ i \in Nat \ {0} /\ i + k \in DOMAIN todo[p]
                              /\ todo'[p][i] = todo[p][i + k]
                              /\ k = 0 <=> p # t
      BY <2>4
    <3>2. PICK l \in {0, 1} : /\ j \in Nat \ {0} /\ j + l \in DOMAIN todo[q]
                              /\ todo'[q][j] = todo[q][j + l]
                              /\ l = 0 <=> q # t
      BY <2>4
    <3>3. todo[p][i + k] = todo[q][j + l]
      BY <2>5, <3>1, <3>2
    <3>4. p = q /\ i + k = j + l
      BY <1>0, <3>1, <3>2, <3>3 DEF TodoInv
    <3> QED BY <3>1, <3>2, <3>4
  <2>6. ASSUME NEW p \in Everybody, NEW i \in DOMAIN todo'[p]
        PROVE  /\ Rank[p] < Rank[todo'[p][i]]
               /\ ~(p = Main /\ MainLeft') =>
                    IF i = 1 /\ Entering(p)' THEN pc'[todo'[p][i]] \in About
                                             ELSE pc'[todo'[p][i]] = "unborn"
    <3>1. PICK k \in {0, 1} : /\ i \in Nat \ {0} /\ i + k \in DOMAIN todo[p]
                              /\ todo'[p][i] = todo[p][i + k]
                              /\ k = 0 <=> p # t
      BY <2>4, <2>6
    <3>2. Rank[p] < Rank[todo[p][i + k]]
      BY <1>0, <3>1 DEF TodoInv
    <3>3. ASSUME ~(p = Main /\ MainLeft')
          PROVE  IF i = 1 /\ Entering(p)' THEN pc'[todo'[p][i]] \in About
                                          ELSE pc'[todo'[p][i]] = "unborn"
      <4>1. IF i + k = 1 /\ Entering(p) THEN pc[todo[p][i + k]] \in About
                                        ELSE pc[todo[p][i + k]] = "unborn"
        BY <1>0, <2>2, <3>1, <3>3 DEF TodoInv
      <4>2. i + k = 1 /\ Entering(p) <=> i = 1 /\ Entering(p)'
        BY <2>1, <2>6, <3>1
      <4>3. todo[p][i + k] \in Everybody
        BY <1>a, <1>b, <3>1
      <4>4. pc'[todo[p][i + k]] = IF todo[p][i + k] = t THEN "run" ELSE pc[todo[p][i + k]]
        BY <2>2, <4>3
      <4> QED BY <2>1, <3>1, <4>1, <4>2, <4>4 DEF About, Places
    <3> QED BY <3>1, <3>2, <3>3
  <2>7. \A p \in Everybody : Entering(p)' => todo'[p] # <<>>
    BY <1>0, <2>1, <2>2 DEF TodoInv
  <2> QED BY <2>5, <2>6, <2>7 DEF TodoInv
<1>3. ASSUME todo' = todo,
             \A u \in Threads : pc'[u] = pc[u] \/ (pc[u] \in About /\ pc'[u] \in About)
                                 \/ (u \in Counted /\ pc[u] # "unborn"),
             \A p \in Everybody : Entering(p)' <=> Entering(p) /\ ~(p = Main /\ MainLeft'),
             MainLeft => MainLeft'
      PROVE  TodoInv'
  <2>1. ASSUME NEW p \in Everybody, ~(p = Main /\ MainLeft'), NEW i \in DOMAIN todo[p]
        PROVE  IF i = 1 /\ Entering(p)' THEN pc'[todo[p][i]] \in About
                                        ELSE pc'[todo[p][i]] = "unborn"
    <3>1. IF i = 1 /\ Entering(p) THEN pc[todo[p][i]] \in About ELSE pc[todo[p][i]] = "unborn"
      BY <1>0, <1>3, <2>1 DEF TodoInv
    <3>2. i = 1 /\ Entering(p) => BeingEntered(todo[p][i])
      BY <1>0, EnteredOne
    <3>3. todo[p][i] \in Threads /\ (Entering(p)' <=> Entering(p))
      BY <1>a, <1>3, <2>1
    <3>4. \/ pc'[todo[p][i]] = pc[todo[p][i]]
          \/ pc[todo[p][i]] \in About /\ pc'[todo[p][i]] \in About
      BY <1>3, <3>1, <3>2, <3>3 DEF Counted
    <3> QED BY <3>1, <3>3, <3>4 DEF About
  <2> QED BY <1>0, <1>3, <2>1 DEF TodoInv
<1>m. ASSUME NEW p \in Everybody, Entering(p) PROVE ~(p = Main /\ MainLeft)
  BY <1>m DEF Entering, MainLeft
<1>4. ASSUME NEW t \in Everybody, Clear(t) PROVE TodoInv'
  <2>1. /\ t \in Threads /\ pc[t] = "clear" /\ pc' = [pc EXCEPT ![t] = "gone"] /\ todo' = todo
        /\ t \in Counted /\ \A p \in Everybody : Entering(p)' <=> Entering(p)
    BY <1>0, <1>4, ClearDoes
  <2>2. (MainLeft' <=> MainLeft) /\ \A u \in Threads : pc'[u] = pc[u] \/ u = t
    BY <1>b, <2>1 DEF MainLeft, Everybody
  <2> QED BY <1>3, <1>m, <2>1, <2>2
<1>5. ASSUME NEW t \in Everybody, Finds(t) PROVE TodoInv'
  <2>1. /\ t \in Threads /\ pc[t] = "find" /\ pc' = [pc EXCEPT ![t] = "clear"] /\ todo' = todo
        /\ slot'[t] \in Slots /\ activeThreads[slot'[t]] = t
        /\ \A p \in Everybody : Entering(p)' <=> Entering(p)
    BY <1>0, <1>5, FindsDoes
  <2>2. (MainLeft' <=> MainLeft) /\ \A u \in Threads : pc'[u] = pc[u] \/ u = t
    BY <1>b, <2>1 DEF MainLeft, Everybody
  <2>3. t \in Counted
    BY <1>0, <2>1, MainAssumption DEF CountInv, Everybody
  <2> QED BY <1>3, <1>m, <2>1, <2>2, <2>3
<1>6. CASE CleanExit
  <2>1. /\ pc' = [pc EXCEPT ![Main] = "wait"] /\ todo' = todo /\ MainLeft'
        /\ \A p \in Everybody : Entering(p)' <=> Entering(p) /\ p # Main
    BY <1>0, <1>6, CleanExitDoes
  <2>2. \A u \in Threads : pc'[u] = pc[u]
    BY <1>b, <2>1
  <2> QED BY <1>3, <2>1, <2>2
<1>7. CASE (\E t \in Everybody : Quiet(t)) \/ Cleanup \/ UNCHANGED vars
  <2>1. /\ todo' = todo /\ (MainLeft' <=> MainLeft)
        /\ \A u \in Threads : pc'[u] = pc[u] \/ (pc[u] \in About /\ pc'[u] \in About)
        /\ \A p \in Everybody : Entering(p)' <=> Entering(p)
    BY <1>0, <1>7, QuietDoes
  <2> QED BY <1>3, <1>m, <2>1
<1> QED BY <1>0, <1>1, <1>2, <1>4, <1>5, <1>6, <1>7, Steps

\* Who is counted, after each kind of step.
LEMMA CountedNext ==
  ASSUME TableType, TodoInv, CountInv
  PROVE  /\ \A t \in Everybody : Create(t) \/ Finds(t) => Counted' = Counted
         /\ \A t \in Everybody, h \in Threads : Register(t) /\ h = Head(todo[t]) =>
              Counted' = IF slot[t] = NoSlot THEN Counted ELSE Counted \cup {h}
         /\ \A t \in Everybody : Clear(t) => Counted' = Counted \ {t}
         /\ CleanExit => Counted' = Counted
         /\ (\E t \in Everybody : Quiet(t)) \/ Cleanup \/ UNCHANGED vars => Counted' = Counted
<1>a. pc \in [Everybody -> Places] /\ Threads \subseteq Everybody /\ Main \notin Threads
  BY MainAssumption DEF TableType, Everybody
<1>b. \A u : u \in Counted <=> u \in Threads /\ u \notin unknown /\ ~BeingEntered(u)
                                /\ pc[u] \notin {"unborn", "gone"}
  BY DEF Counted
<1>c. \A u : u \in Counted' <=> u \in Threads /\ u \notin unknown' /\ ~BeingEntered(u)'
                                /\ pc'[u] \notin {"unborn", "gone"}
  BY DEF Counted
<1>1. ASSUME NEW t \in Everybody, Create(t) PROVE Counted' = Counted
  <2>1. PICK h \in Threads :
          /\ pc[h] = "unborn" /\ h # t /\ pc[t] = "run"
          /\ pc' = [pc EXCEPT ![t] = "scan", ![h] = "run"]
          /\ unknown' = IF t \in unknown THEN unknown \cup {h} ELSE unknown
          /\ \A u \in Threads : BeingEntered(u)' <=> BeingEntered(u) \/ u = h
    BY <1>1, CreateDoes
  <2>2. pc'[t] = "scan" /\ \A u \in Threads : u # t /\ u # h => pc'[u] = pc[u]
    BY <1>a, <2>1
  <2> QED BY <1>b, <1>c, <2>1, <2>2
<1>2. ASSUME NEW t \in Everybody, Finds(t) PROVE Counted' = Counted
  <2>1. /\ t \in Threads /\ pc[t] = "find" /\ pc' = [pc EXCEPT ![t] = "clear"]
        /\ unknown' = unknown /\ \A u \in Threads : BeingEntered(u)' <=> BeingEntered(u)
    BY <1>2, FindsDoes
  <2>2. pc'[t] = "clear" /\ \A u \in Threads : u # t => pc'[u] = pc[u]
    BY <1>a, <2>1
  <2> QED BY <1>b, <1>c, <2>1, <2>2
<1>3. ASSUME NEW t \in Everybody, NEW h \in Threads, Register(t), h = Head(todo[t])
      PROVE  Counted' = IF slot[t] = NoSlot THEN Counted ELSE Counted \cup {h}
  <2>1. /\ BeingEntered(h) /\ pc[h] \in About /\ pc[t] = "store"
        /\ pc' = [pc EXCEPT ![t] = "run"]
        /\ unknown' = IF slot[t] = NoSlot THEN unknown \cup WithThose(h) ELSE unknown \ {h}
        /\ \A u \in Threads : BeingEntered(u)' <=> BeingEntered(u) /\ u # h
    BY <1>3, RegisterDoes
  <2>2. pc'[t] = "run" /\ \A u \in Threads : u # t => pc'[u] = pc[u]
    BY <1>a, <2>1
  <2>3. h \in WithThose(h) /\ \A u \in WithThose(h) : BeingEntered(u)
    BY <2>1, WithThem
  <2>4. \A u \in Threads : pc'[u] \in {"unborn", "gone"} <=> pc[u] \in {"unborn", "gone"}
    BY <2>1, <2>2
  <2>5. pc[h] \notin {"unborn", "gone"}
    BY <2>1 DEF About
  <2>6. CASE slot[t] = NoSlot
    BY <1>b, <1>c, <2>1, <2>3, <2>4, <2>6
  <2>7. CASE slot[t] # NoSlot
    BY <1>b, <1>c, <2>1, <2>4, <2>5, <2>7
  <2> QED BY <2>6, <2>7
<1>4. ASSUME NEW t \in Everybody, Clear(t) PROVE Counted' = Counted \ {t}
  <2>1. /\ t \in Threads /\ pc[t] = "clear" /\ pc' = [pc EXCEPT ![t] = "gone"]
        /\ unknown' = unknown /\ \A u \in Threads : BeingEntered(u)' <=> BeingEntered(u)
    BY <1>4, ClearDoes
  <2>2. pc'[t] = "gone" /\ \A u \in Threads : u # t => pc'[u] = pc[u]
    BY <1>a, <2>1
  <2> QED BY <1>b, <1>c, <2>1, <2>2
<1>5. ASSUME CleanExit PROVE Counted' = Counted
  <2>1. \A u \in Threads : pc'[u] = pc[u]
    BY <1>5, <1>a, CleanExitDoes
  <2>2. \/ /\ unknown' = unknown
           /\ \A u \in Threads : BeingEntered(u)' <=> BeingEntered(u)
        \/ \E h \in Threads :
             /\ BeingEntered(h) /\ unknown' = unknown \cup WithThose(h)
             /\ \A u \in Threads : BeingEntered(u)' <=> BeingEntered(u) /\ u # h
    BY <1>5, CleanExitDoes
  <2>3. \A h \in Threads : BeingEntered(h) =>
          h \in WithThose(h) /\ \A u \in WithThose(h) : BeingEntered(u)
    BY WithThem
  <2> QED BY <1>b, <1>c, <2>1, <2>2, <2>3
<1>6. ASSUME (\E t \in Everybody : Quiet(t)) \/ Cleanup \/ UNCHANGED vars PROVE Counted' = Counted
  <2>1. /\ unknown' = unknown /\ \A u \in Threads : BeingEntered(u)' <=> BeingEntered(u)
        /\ \A u \in Threads : pc'[u] = pc[u] \/ (pc[u] \in About /\ pc'[u] \in About)
    BY <1>6, QuietDoes
  <2> QED BY <1>b, <1>c, <2>1 DEF About
<1> QED BY <1>1, <1>2, <1>3, <1>4, <1>5, <1>6

\* The table goes with the count.
LEMMA NextCount == Forest /\ TableInv /\ [Next]_vars => CountInv'
<1> SUFFICES ASSUME Forest, TableInv, [Next]_vars PROVE CountInv'
  OBVIOUS
<1>0. TableType /\ TodoInv /\ CountInv /\ NoSlot \notin Slots
  BY PoolAssumption DEF TableInv, TableType, Slots, NoSlot
<1>a. /\ pc \in [Everybody -> Places] /\ slot \in [Everybody -> Slots \cup {NoSlot}]
      /\ activeThreads = [i \in Slots |-> activeThreads[i]]
      /\ Threads \subseteq Everybody /\ Main \notin Threads /\ Nobody \notin Threads
  BY <1>0, MainAssumption DEF TableType, Everybody, Slots
<1>b. IsFiniteSet(Counted) /\ Counted \subseteq Threads /\ Cardinality(Counted) \in Int
  <2>1. Counted \subseteq Threads
    BY DEF Counted
  <2> QED BY <2>1, FS_Subset, FS_CardinalityType DEF Forest
<1>c. /\ g_thread_count = Cardinality(Counted)
      /\ \A i \in Slots : activeThreads[i] # Nobody => activeThreads[i] \in Counted
      /\ \A i, j \in Slots :
           activeThreads[i] = activeThreads[j] /\ activeThreads[i] # Nobody => i = j
      /\ \A t \in Threads : pc[t] = "clear" =>
           /\ t \in Counted /\ slot[t] \in Slots
           /\ \A i \in Slots : activeThreads[i] = t => slot[t] = i
  BY <1>0 DEF CountInv
<1>1. ASSUME activeThreads' = activeThreads, Slots' = Slots, Counted' = Counted,
             g_thread_count' = g_thread_count,
             \A u \in Threads : pc'[u] = "clear" => pc[u] = "clear" /\ slot'[u] = slot[u]
      PROVE  CountInv'
  BY <1>c, <1>1 DEF CountInv
<1>2. ASSUME NEW t \in Everybody, Create(t) PROVE CountInv'
  <2>1. PICK h \in Threads :
          /\ h # t /\ pc' = [pc EXCEPT ![t] = "scan", ![h] = "run"] /\ slot' = slot
          /\ activeThreads' = activeThreads /\ Slots' = Slots /\ g_thread_count' = g_thread_count
    BY <1>0, <1>2, CreateDoes
  <2>2. \A u \in Threads : pc'[u] = "clear" => pc[u] = "clear"
    BY <1>a, <2>1
  <2>3. Counted' = Counted
    BY <1>0, <1>2, CountedNext
  <2> QED BY <1>1, <2>1, <2>2, <2>3
<1>3. ASSUME NEW t \in Everybody, Register(t) PROVE CountInv'
  <2>1. PICK h \in Threads :
          /\ h = Head(todo[t]) /\ BeingEntered(h) /\ pc[h] \in About
          /\ pc' = [pc EXCEPT ![t] = "run"] /\ slot' = [slot EXCEPT ![t] = NoSlot]
          /\ activeThreads' = IF slot[t] = NoSlot THEN activeThreads
                              ELSE [activeThreads EXCEPT ![slot[t]] = h]
          /\ g_thread_count' = g_thread_count + Added(t) /\ Slots' = Slots
          /\ slot[t] \in Slots \cup {NoSlot}
    BY <1>0, <1>3, RegisterDoes
  <2>2. pc'[t] = "run" /\ \A u \in Threads : u # t => pc'[u] = pc[u] /\ slot'[u] = slot[u]
    BY <1>a, <2>1
  <2>3. \A u \in Threads : pc'[u] = "clear" => u # t /\ pc[u] = "clear" /\ slot'[u] = slot[u]
    BY <2>2
  <2>4. CASE slot[t] = NoSlot
    <3>1. Counted' = Counted
      BY <1>0, <1>3, <2>1, <2>4, CountedNext
    <3>2. activeThreads' = activeThreads /\ g_thread_count' = g_thread_count
      BY <1>0, <2>1, <2>4 DEF Added, TableType
    <3> QED BY <1>1, <2>1, <2>3, <3>1, <3>2
  <2>5. CASE slot[t] # NoSlot
    <3>1. Counted' = Counted \cup {h}
      BY <1>0, <1>3, <2>1, <2>5, CountedNext
    <3>2. h \notin Counted /\ \A i \in Slots : activeThreads[i] # h
      BY <1>0, <2>1, NotYetThere
    <3>3. Cardinality(Counted') = Cardinality(Counted) + 1
      BY <1>b, <3>1, <3>2, FS_AddElement
    <3>4. g_thread_count' = Cardinality(Counted')
      BY <1>c, <2>1, <2>5, <3>3 DEF Added
    <3>5. \A i \in Slots : activeThreads'[i] = IF i = slot[t] THEN h ELSE activeThreads[i]
      BY <1>a, <2>1, <2>5
    <3>6. \A i \in Slots : activeThreads'[i] # Nobody => activeThreads'[i] \in Counted'
      BY <1>c, <3>1, <3>5
    <3>7. \A i, j \in Slots :
            activeThreads'[i] = activeThreads'[j] /\ activeThreads'[i] # Nobody => i = j
      BY <1>c, <3>2, <3>5
    <3>8. \A u \in Threads : pc'[u] = "clear" =>
            /\ u \in Counted' /\ slot'[u] \in Slots
            /\ \A i \in Slots : activeThreads'[i] = u => slot'[u] = i
      <4> SUFFICES ASSUME NEW u \in Threads, pc'[u] = "clear"
                   PROVE  /\ u \in Counted' /\ slot'[u] \in Slots
                          /\ \A i \in Slots : activeThreads'[i] = u => slot'[u] = i
        OBVIOUS
      <4>1. pc[u] = "clear" /\ slot'[u] = slot[u] /\ u # h
        BY <2>1, <2>3 DEF About
      <4> QED BY <1>c, <3>1, <3>5, <4>1
    <3> QED BY <2>1, <3>4, <3>6, <3>7, <3>8 DEF CountInv
  <2> QED BY <2>4, <2>5
<1>4. ASSUME NEW t \in Everybody, Clear(t) PROVE CountInv'
  <2>1. /\ t \in Threads /\ pc[t] = "clear" /\ pc' = [pc EXCEPT ![t] = "gone"]
        /\ t \in Counted /\ slot[t] \in Slots /\ slot' = [slot EXCEPT ![t] = NoSlot]
        /\ activeThreads' = [activeThreads EXCEPT ![slot[t]] = Nobody] /\ Slots' = Slots
        /\ g_thread_count' = g_thread_count - 1
    BY <1>0, <1>4, ClearDoes
  <2>2. pc'[t] = "gone" /\ \A u \in Threads : u # t => pc'[u] = pc[u] /\ slot'[u] = slot[u]
    BY <1>a, <2>1
  <2>3. Counted' = Counted \ {t}
    BY <1>0, <1>4, CountedNext
  <2>4. g_thread_count' = Cardinality(Counted')
    <3>1. Cardinality(Counted') = Cardinality(Counted) - 1
      BY <1>b, <2>1, <2>3, FS_RemoveElement
    <3> QED BY <1>c, <2>1, <3>1
  <2>5. \A i \in Slots : activeThreads'[i] = IF i = slot[t] THEN Nobody ELSE activeThreads[i]
    BY <1>a, <2>1
  <2>6. \A i \in Slots : i # slot[t] => activeThreads[i] # t
    BY <1>c, <2>1
  <2>7. \A i \in Slots : activeThreads'[i] # Nobody => activeThreads'[i] \in Counted'
    BY <1>c, <2>3, <2>5, <2>6
  <2>8. \A i, j \in Slots :
          activeThreads'[i] = activeThreads'[j] /\ activeThreads'[i] # Nobody => i = j
    BY <1>c, <2>5
  <2>9. \A u \in Threads : pc'[u] = "clear" =>
          /\ u \in Counted' /\ slot'[u] \in Slots
          /\ \A i \in Slots : activeThreads'[i] = u => slot'[u] = i
    <3> SUFFICES ASSUME NEW u \in Threads, pc'[u] = "clear"
                 PROVE  /\ u \in Counted' /\ slot'[u] \in Slots
                        /\ \A i \in Slots : activeThreads'[i] = u => slot'[u] = i
      OBVIOUS
    <3>1. u # t /\ pc[u] = "clear" /\ slot'[u] = slot[u]
      BY <2>2
    <3>2. \A i \in Slots : activeThreads'[i] = u => activeThreads[i] = u
      BY <1>a, <2>5
    <3> QED BY <1>c, <2>3, <3>1, <3>2
  <2> QED BY <2>1, <2>4, <2>7, <2>8, <2>9 DEF CountInv
<1>5. ASSUME NEW t \in Everybody, Finds(t) PROVE CountInv'
  <2>1. /\ t \in Threads /\ pc[t] = "find" /\ pc' = [pc EXCEPT ![t] = "clear"]
        /\ slot'[t] \in Slots /\ activeThreads[slot'[t]] = t
        /\ slot' = [slot EXCEPT ![t] = slot'[t]]
        /\ activeThreads' = activeThreads /\ Slots' = Slots /\ g_thread_count' = g_thread_count
    BY <1>0, <1>5, FindsDoes
  <2>2. Counted' = Counted
    BY <1>0, <1>5, CountedNext
  <2>3. \A u \in Threads : u # t => pc'[u] = pc[u] /\ slot'[u] = slot[u]
    BY <1>a, <2>1
  <2>4. t \in Counted /\ \A i \in Slots : activeThreads[i] = t => slot'[t] = i
    BY <1>a, <1>c, <2>1
  <2> QED BY <1>c, <2>1, <2>2, <2>3, <2>4 DEF CountInv
<1>6. CASE CleanExit
  <2>1. /\ pc' = [pc EXCEPT ![Main] = "wait"] /\ slot' = [slot EXCEPT ![Main] = NoSlot]
        /\ activeThreads' = activeThreads /\ Slots' = Slots /\ g_thread_count' = g_thread_count
    BY <1>0, <1>6, CleanExitDoes
  <2>2. \A u \in Threads : pc'[u] = pc[u] /\ slot'[u] = slot[u]
    BY <1>a, <2>1
  <2>3. Counted' = Counted
    BY <1>0, <1>6, CountedNext
  <2> QED BY <1>1, <2>1, <2>2, <2>3
<1>7. CASE (\E t \in Everybody : Quiet(t)) \/ Cleanup \/ UNCHANGED vars
  <2>1. /\ activeThreads' = activeThreads /\ Slots' = Slots /\ g_thread_count' = g_thread_count
        /\ \A u \in Threads : pc'[u] = pc[u] \/ (pc[u] \in About /\ pc'[u] \in About)
        /\ \A u \in Threads : pc[u] = "clear" => slot'[u] = slot[u]
    BY <1>0, <1>7, QuietDoes
  <2>2. Counted' = Counted
    BY <1>0, <1>7, CountedNext
  <2>3. \A u \in Threads : pc'[u] = "clear" => pc[u] = "clear" /\ slot'[u] = slot[u]
    BY <2>1 DEF About
  <2> QED BY <1>1, <2>1, <2>2, <2>3
<1> QED BY <1>0, <1>2, <1>3, <1>4, <1>5, <1>6, <1>7, Steps

\* Nor does anybody come back into the count by those he starts.
LEMMA NextUnknown == TableInv /\ [Next]_vars => UnknownInv'
<1> SUFFICES ASSUME TableInv, [Next]_vars PROVE UnknownInv'
  OBVIOUS
<1>0. TableType /\ TodoInv /\ CountInv /\ UnknownInv
  BY DEF TableInv
<1>1. ASSUME NEW t \in Everybody, Create(t) PROVE UnknownInv'
  <2>1. PICK h \in Threads :
          /\ h = Head(todo[t]) /\ pc[h] = "unborn" /\ h # t /\ todo' = todo
          /\ unknown' = IF t \in unknown THEN unknown \cup {h} ELSE unknown
          /\ \A p \in Everybody : Entering(p)' <=> Entering(p) \/ p = t
    BY <1>0, <1>1, CreateDoes
  <2>2. ~Entering(h)
    BY <2>1 DEF Entering
  <2> QED BY <1>0, <2>1, <2>2 DEF UnknownInv
<1>2. ASSUME NEW t \in Everybody, Register(t) PROVE UnknownInv'
  <2>1. PICK h \in Threads :
          /\ h = Head(todo[t]) /\ BeingEntered(h)
          /\ \A p \in Everybody : Entering(p) /\ Head(todo[p]) = h => p = t
          /\ todo' = [todo EXCEPT ![t] = Tail(@)]
          /\ unknown' = IF slot[t] = NoSlot THEN unknown \cup WithThose(h) ELSE unknown \ {h}
          /\ \A p \in Everybody : Entering(p)' <=> Entering(p) /\ p # t
    BY <1>0, <1>2, RegisterDoes
  <2>2. \A p \in Everybody : p # t => todo'[p] = todo[p]
    BY <1>0, <2>1 DEF TableType
  <2>3. \A p \in WithThose(h) : Entering(p) => Head(todo[p]) \in WithThose(h)
    BY <1>0, <2>1, WithThem
  <2> SUFFICES ASSUME NEW p \in Everybody, Entering(p)', p \in unknown'
               PROVE  Head(todo'[p]) \in unknown'
    BY DEF UnknownInv
  <2>4. Entering(p) /\ p # t /\ todo'[p] = todo[p] /\ Head(todo[p]) # h
    BY <2>1, <2>2
  <2>5. p \in unknown => Head(todo[p]) \in unknown
    BY <1>0, <2>4 DEF UnknownInv
  <2> QED BY <2>1, <2>3, <2>4, <2>5
<1>3. ASSUME todo' = todo, unknown' = unknown,
             \A p \in Everybody : Entering(p)' => Entering(p)
      PROVE  UnknownInv'
  BY <1>0, <1>3 DEF UnknownInv
<1>4. ASSUME NEW t \in Everybody, Clear(t) PROVE UnknownInv'
  BY <1>0, <1>3, <1>4, ClearDoes
<1>5. ASSUME NEW t \in Everybody, Finds(t) PROVE UnknownInv'
  BY <1>0, <1>3, <1>5, FindsDoes
<1>6. CASE CleanExit
  <2>1. /\ todo' = todo
        /\ \A p \in Everybody : Entering(p)' <=> Entering(p) /\ p # Main
        /\ \/ unknown' = unknown
           \/ \E h \in Threads : BeingEntered(h) /\ unknown' = unknown \cup WithThose(h)
    BY <1>0, <1>6, CleanExitDoes
  <2>2. ASSUME NEW h \in Threads, BeingEntered(h), unknown' = unknown \cup WithThose(h)
        PROVE  UnknownInv'
    <3>1. \A p \in WithThose(h) : Entering(p) => Head(todo[p]) \in WithThose(h)
      BY <1>0, <2>2, WithThem
    <3> QED BY <1>0, <2>1, <2>2, <3>1 DEF UnknownInv
  <2> QED BY <1>3, <2>1, <2>2
<1>7. CASE (\E t \in Everybody : Quiet(t)) \/ Cleanup \/ UNCHANGED vars
  BY <1>0, <1>3, <1>7, QuietDoes
<1> QED BY <1>0, <1>1, <1>2, <1>4, <1>5, <1>6, <1>7, Steps

\* It holds at first: nobody is in the table, and Children are to be started.
LEMMA InitTable == Forest /\ Init => TableInv
<1> SUFFICES ASSUME Forest, Init PROVE TableInv
  OBVIOUS
<1>1. /\ Main \in Everybody /\ Main \notin Threads /\ Threads \subseteq Everybody
      /\ pc = [t \in Everybody |-> IF t = Main THEN "run" ELSE "unborn"] /\ todo = Children
      /\ slot = [t \in Everybody |-> NoSlot] /\ unknown = {} /\ g_thread_count = 0
      /\ g_time_to_exit = FALSE /\ \A i \in Slots : activeThreads[i] = Nobody
      /\ Children \in [Everybody -> Seq(Threads)]
  BY MainAssumption, ChildrenAssumption DEF Init, Everybody, Slots
<1>2. PICK size \in PoolSizes : activeThreads = [i \in 1 .. size |-> Nobody]
  BY DEF Init
<1>3. TableType
  <2>1. activeThreads \in [1 .. size -> Threads \cup {Nobody}]
    BY <1>2
  <2>2. /\ pc \in [Everybody -> Places] /\ pc[Main] = "run"
        /\ slot \in [Everybody -> Slots \cup {NoSlot}]
    BY <1>1 DEF Places
  <2>3. g_thread_count \in Int
    BY <1>1
  <2>5. g_time_to_exit \in BOOLEAN
    BY <1>1
  <2>6. unknown \subseteq Threads
    BY <1>1, Zenon
  <2>4. todo \in [Everybody -> Seq(Threads)]
    BY <1>1, Zenon
  <2> QED BY <2>1, <2>2, <2>3, <2>4, <2>5, <2>6 DEF TableType
<1>4. \A p \in Everybody : ~Entering(p)
  BY <1>1 DEF Entering
<1>5. Ordered(Rank)
  BY DEF Forest, Rank
<1>6. \A p \in Everybody : \A i \in DOMAIN Children[p] : Children[p][i] \in Threads
  BY <1>1, ElementOfSeq, LenProperties
<1>7. TodoInv
  BY <1>1, <1>4, <1>5, <1>6 DEF TodoInv, Forest, Ordered
<1>8. Counted = {}
  BY <1>1 DEF Counted
<1>9. CountInv
  BY <1>1, <1>8, FS_EmptySet DEF CountInv
<1>10. UnknownInv
  BY <1>4 DEF UnknownInv
<1> QED BY <1>3, <1>7, <1>9, <1>10 DEF TableInv

\* Every step keeps all of it.
LEMMA NextTable == Forest /\ TableInv /\ [Next]_vars => TableInv'
BY NextType, NextTodo, NextCount, NextUnknown DEF TableInv

-----------------------------------------------------------------------------
(* The theorems *)

\* No search leaves the table, whoever writes into it between a search and its lock.
THEOREM TableHolds == ASSUME Forest PROVE Spec => []TypeOK
<1>1. TableInv => TypeOK
  BY DEF TableInv, TableType, TypeOK, Slots, Places, Ended
<1> QED BY <1>1, InitTable, NextTable, PTL DEF Spec

\* The table shows no more threads than are counted.
LEMMA ShownAreCounted == Forest /\ TableInv => CountCovers
<1> SUFFICES ASSUME Forest, TableInv PROVE CountCovers
  OBVIOUS
<1>1. IsFiniteSet(Counted)
  <2>1. Counted \subseteq Threads
    BY DEF Counted
  <2> QED BY <2>1, FS_Subset DEF Forest
<1> DEFINE shown == [i \in Used |-> activeThreads[i]]
<1>2. \A i \in Used : i \in Slots /\ activeThreads[i] # Nobody
  BY DEF Used
<1>3. \A i \in Used : shown[i] = activeThreads[i] /\ shown[i] \in Counted
  BY <1>2 DEF TableInv, CountInv
<1>4. \A i, j \in Used : shown[i] = shown[j] => i = j
  BY <1>2, <1>3 DEF TableInv, CountInv
<1>5. shown \in [Used -> Counted]
  BY <1>3
<1> HIDE DEF shown
<1>6. shown \in Injection(Used, Counted)
  BY <1>4, <1>5 DEF Injection, IsInjective
<1>7. Cardinality(Used) <= Cardinality(Counted)
  BY <1>1, <1>6, FS_Injection
<1> QED BY <1>7 DEF CountCovers, TableInv, CountInv

\* clean_exit waits for all the threads that the table shows.
THEOREM CountNeverShort == ASSUME Forest PROVE Spec => []CountCovers
BY InitTable, NextTable, ShownAreCounted, PTL DEF Spec

\* With the count down to 0 nobody is left: a thread that has not been entered is being
\* entered by one that has not either, and there is a first.
LEMMA NobodyCounted ==
  ASSUME Forest, TableInv, MainLeft, g_thread_count <= 0, NEW t \in Threads \ unknown
  PROVE  pc[t] \in {"unborn", "gone"}
<1> DEFINE B == {u \in Threads \ unknown : BeingEntered(u)}
           R == {Rank[u] : u \in B}
<1>0. /\ TableType /\ TodoInv /\ CountInv /\ UnknownInv
  BY DEF TableInv
<1>1. Rank \in [Everybody -> Nat] /\ Threads \subseteq Everybody
  BY DEF Forest, Rank, Everybody
<1>2. Counted = {}
  <2>1. Counted \subseteq Threads
    BY DEF Counted
  <2>2. IsFiniteSet(Counted)
    BY <2>1, FS_Subset DEF Forest
  <2>3. Cardinality(Counted) \in Nat /\ Cardinality(Counted) <= 0
    BY <1>0, <2>2, FS_CardinalityType DEF CountInv
  <2>4. Cardinality(Counted) = 0
    BY <2>3
  <2> QED BY <2>2, <2>4, FS_EmptySet
<1>3. ASSUME NEW u \in B PROVE \E v \in B : Rank[v] < Rank[u]
  <2>1. PICK p \in Everybody : Entering(p) /\ Head(todo[p]) = u
    BY DEF BeingEntered
  <2>2. p \in Threads \ unknown
    BY <1>0, <2>1 DEF MainLeft, Entering, UnknownInv, Everybody
  <2>3. BeingEntered(p)
    BY <1>2, <2>1, <2>2 DEF Counted, Entering
  <2>4. Rank[p] < Rank[u]
    BY <1>0, <2>1, EnteredOne DEF TodoInv
  <2> QED BY <2>2, <2>3, <2>4
<1>4. B = {}
  <2> SUFFICES ASSUME B # {} PROVE FALSE
    OBVIOUS
  <2>1. IsFiniteSet(B)
    <3>1. B \in SUBSET Threads
      OBVIOUS
    <3> QED BY <3>1, FS_Subset DEF Forest
  <2>2. \A u \in B : Rank[u] \in Nat
    BY <1>1
  <2> HIDE DEF B
  <2>3. IsFiniteSet(R) /\ R \in SUBSET Int /\ R # {}
    <3> DEFINE f == [u \in B |-> Rank[u]]
    <3>1. f \in Surjection(B, R)
      BY DEF Surjection
    <3>2. IsFiniteSet(R)
      <4> HIDE DEF f, R
      <4> QED BY <2>1, <3>1, FS_Surjection
    <3> QED BY <2>2, <3>2
  <2>4. Min(R) \in R /\ \A y \in R : Min(R) <= y
    BY <2>3, MinOf
  <2>5. PICK u \in B : Rank[u] = Min(R)
    BY <2>4
  <2>6. PICK v \in B : Rank[v] < Rank[u]
    BY <1>3
  <2>7. Rank[v] \in R /\ Rank[v] \in Int /\ Rank[u] \in Int
    BY <2>2
  <2> QED BY <2>4, <2>5, <2>6, <2>7
<1> QED BY <1>2, <1>4 DEF Counted

\* The main thread ends by the clean-up only.
LEMMA OnlyCleanup ==
  ASSUME TableType, pc[Main] # "gone", [Next]_vars, ~Cleanup
  PROVE  pc'[Main] # "gone"
<1>0. pc \in [Everybody -> Places] /\ Main \in Everybody /\ Main \notin Threads
  BY MainAssumption DEF TableType, Everybody
<1>1. ASSUME NEW t \in Everybody, Create(t) PROVE pc'[Main] # "gone"
  BY <1>0, <1>1 DEF Create
<1>2. ASSUME NEW t \in Everybody, Scan(t) \/ Register(t) \/ EndsLoop(t) PROVE pc'[Main] # "gone"
  BY <1>0, <1>2 DEF Scan, Register, EndsLoop, Moves
<1>3. ASSUME NEW t \in Everybody, Find(t) PROVE pc'[Main] # "gone"
  BY <1>0, <1>3 DEF Find
<1>4. ASSUME NEW t \in Everybody, Clear(t) PROVE pc'[Main] # "gone"
  <2>1. t # Main
    BY <1>4 DEF Clear, Moves, TableType
  <2> QED BY <1>0, <1>4, <2>1 DEF Clear, Moves
<1>5. ASSUME NEW t \in Threads, Vanish(t) \/ Block(t) \/ SetThreadExit(t)
      PROVE  pc'[Main] # "gone"
  BY <1>0, <1>5 DEF Vanish, Block, SetThreadExit, Moves
<1>6. CASE CleanExit
  BY <1>0, <1>6 DEF CleanExit
<1>7. CASE UNCHANGED vars
  BY <1>7 DEF vars
<1> QED BY <1>1, <1>2, <1>3, <1>4, <1>5, <1>6, <1>7 DEF Next, Step

\* When pipes and contexts go, so have all threads the program could know of: whatever slots
\* they have taken from each other, and wherever a signal found the main thread.
THEOREM CleanupComesLast == ASSUME Forest PROVE Spec => []CleanupIsLast
<1> DEFINE I == TableInv /\ CleanupIsLast
<1>1. Init => I
  BY InitTable, MainAssumption DEF Init, CleanupIsLast, Everybody
<1>2. ASSUME I, [Next]_vars PROVE I'
  <2>1. TableInv'
    BY <1>2, NextTable
  <2>2. CASE pc[Main] = "gone"
    <3>1. UNCHANGED vars
      BY <1>2, <2>2 DEF Next, Running
    <3> QED BY <1>2, <2>1, <3>1 DEF CleanupIsLast, Ended, vars
  <2>3. CASE Cleanup
    <3>1. g_thread_count <= 0 /\ MainLeft /\ unknown' = unknown
      BY <2>3 DEF Cleanup, NobodyLeft, Moves, MainLeft
    <3>2. \A t \in Threads : pc'[t] = pc[t]
      BY <2>3, MainAssumption DEF Cleanup, Moves, TableInv, TableType, Everybody
    <3>3. \A t \in Threads \ unknown : pc[t] \in {"unborn", "gone"}
      BY <1>2, <3>1, NobodyCounted
    <3> QED BY <2>1, <3>1, <3>2, <3>3 DEF CleanupIsLast, Ended
  <2>4. CASE pc[Main] # "gone" /\ ~Cleanup
    <3>1. TableType /\ TodoInv /\ CountInv /\ Main \in Everybody /\ Main \notin Threads
      BY <1>2, MainAssumption DEF TableInv, Everybody
    <3>2. pc'[Main] # "gone"
      BY <1>2, <2>4, <3>1, OnlyCleanup
    <3> QED BY <2>1, <3>2 DEF CleanupIsLast
  <2> QED BY <2>2, <2>3, <2>4
<1>3. I => CleanupIsLast
  OBVIOUS
<1> QED BY <1>1, <1>2, <1>3, PTL DEF Spec
=============================================================================
