------------------------- MODULE ReconcileLoopProofs -------------------------
(***************************************************************************)
(* The safety of the reconcile loop and its promise of a level-triggered   *)
(* controller, for any pods, any finite set of cells and any number of     *)
(* changes and failures.                                                   *)
(***************************************************************************)
EXTENDS ReconcileLoop, SequenceTheorems, FiniteSetTheorems, TLAPS

\* The parents of the pods a store holds are parents, and a view of it is a store.
LEMMA ViewOfStore ==
    ASSUME NEW c \in Caches, NEW p
    PROVE  View(c, p) \in Caches
BY DEF View, Caches

\* A batch queues its keys behind the others, each once.
LEMMA BatchKeys ==
    ASSUME NEW q \in Seq(Parents), \A i, j \in DOMAIN q : q[i] = q[j] => i = j,
           NEW S \in SUBSET Parents, NEW s \in Batches(S \ Elements(q))
    PROVE  /\ q \o s \in Seq(Parents)
           /\ \A i, j \in DOMAIN (q \o s) : (q \o s)[i] = (q \o s)[j] => i = j
           /\ Elements(q \o s) = Elements(q) \cup S
           /\ S = {} => q \o s = q
<1> DEFINE new == S \ Elements(q)
<1>1. /\ Cardinality(new) \in Nat
      /\ s \in [1..Cardinality(new) -> new] /\ Elements(s) = new
      /\ \A i, j \in DOMAIN s : s[i] = s[j] => i = j
  BY SetsAssumption, FS_Subset, FS_CardinalityType DEF Batches
<1>2. s \in Seq(Parents) /\ DOMAIN s = 1..Len(s) /\ DOMAIN q = 1..Len(q) /\ Len(q) \in Nat /\ Len(s) \in Nat
  <2>1. PICK n \in Nat : s \in [1..n -> new]
    BY <1>1
  <2>2. s \in [1..n -> Parents]
    BY <2>1
  <2>3. s \in Seq(Parents)
    BY <2>2, SeqDef
  <2> QED BY <2>3, LenProperties
<1>3. /\ q \o s \in Seq(Parents) /\ Len(q \o s) = Len(q) + Len(s)
      /\ \A i \in 1..Len(q) + Len(s) : (q \o s)[i] = IF i <= Len(q) THEN q[i] ELSE s[i - Len(q)]
      /\ DOMAIN (q \o s) = 1..Len(q \o s)
  <2>1. /\ q \o s \in Seq(Parents) /\ Len(q \o s) = Len(q) + Len(s)
        /\ \A i \in 1..Len(q) + Len(s) : (q \o s)[i] = IF i <= Len(q) THEN q[i] ELSE s[i - Len(q)]
    BY <1>2, ConcatProperties
  <2>2. DOMAIN (q \o s) = 1..Len(q \o s)
    BY <2>1, LenProperties
  <2> QED BY <2>1, <2>2
<1>4. \A i \in 1..Len(s) : s[i] \in S \ Elements(q)
  BY <1>1, <1>2
<1>5. ASSUME NEW i \in DOMAIN (q \o s), NEW j \in DOMAIN (q \o s), (q \o s)[i] = (q \o s)[j]
      PROVE  i = j
  <2>1. i \in 1..Len(q) + Len(s) /\ j \in 1..Len(q) + Len(s)
    BY <1>3, <1>5
  <2>2. CASE i <= Len(q) /\ j <= Len(q)
    <3>1. i \in DOMAIN q /\ j \in DOMAIN q /\ q[i] = q[j]
      BY <1>2, <1>3, <1>5, <2>1, <2>2
    <3> QED BY <3>1
  <2>3. CASE i > Len(q) /\ j > Len(q)
    <3>1. i - Len(q) \in 1..Len(s) /\ j - Len(q) \in 1..Len(s)
      BY <1>2, <2>1, <2>3
    <3>2. s[i - Len(q)] = s[j - Len(q)]
      BY <1>2, <1>3, <1>5, <2>1, <2>3
    <3>3. i - Len(q) = j - Len(q)
      BY <1>1, <1>2, <3>1, <3>2
    <3> QED BY <1>2, <2>1, <3>3
  <2>4. ASSUME NEW x \in 1..Len(q), NEW y \in Len(q) + 1..Len(q) + Len(s)
        PROVE  (q \o s)[x] # (q \o s)[y]
    <3>1. (q \o s)[x] = q[x] /\ q[x] \in Elements(q)
      BY <1>2, <1>3, <2>4 DEF Elements
    <3>2. (q \o s)[y] = s[y - Len(q)] /\ y - Len(q) \in 1..Len(s)
      BY <1>2, <1>3, <2>4
    <3> QED BY <1>4, <3>1, <3>2
  <2> QED BY <1>2, <1>5, <2>1, <2>2, <2>3, <2>4
<1>6. Elements(q \o s) = Elements(q) \cup new
  <2>1. \A x \in Elements(q \o s) : x \in Elements(q) \cup Elements(s)
    BY <1>2, <1>3 DEF Elements
  <2>2. \A x \in Elements(q) : x \in Elements(q \o s)
    BY <1>2, <1>3 DEF Elements
  <2>3. ASSUME NEW x \in Elements(s) PROVE x \in Elements(q \o s)
    <3>1. PICK i \in 1..Len(s) : x = s[i]
      BY <1>2 DEF Elements
    <3>2. i + Len(q) \in DOMAIN (q \o s) /\ (q \o s)[i + Len(q)] = x
      BY <1>2, <1>3, <3>1
    <3> QED BY <3>2 DEF Elements
  <2> QED BY <1>1, <2>1, <2>2, <2>3
<1>7. S = {} => q \o s = q
  <2>1. SUFFICES ASSUME S = {} PROVE q \o s = q
    OBVIOUS
  <2>2. Len(s) = 0
    <3>1. \A i \in 1..Len(s) : FALSE
      BY <1>4, <2>1
    <3> QED BY <1>2, <3>1
  <2> QED BY <1>2, <2>2, EmptySeq, ConcatEmptySeq
<1> QED BY <1>3, <1>5, <1>6, <1>7

\* What is owed is a set of keys.
LEMMA OwedKeys == IInv => cache \in Caches /\ Owed \in SUBSET Parents
BY SetsAssumption DEF IInv, LoopInvariant, TypeOK, Owed, Waiting, Elements

\* What the keys of a changed store, of due retries or of a resync need is queued:
\* every key outside S has the view and the retry it had.
LEMMA EnqueueStep ==
    ASSUME IInv, NEW S \in SUBSET Parents, Enqueue(S), cache' \in Caches,
           \A p \in Parents \ S : View(cache, p)' = View(cache, p),
           \A p \in Parents \ S : retry[p] = "waiting" => retry'[p] = "waiting",
           UNCHANGED <<phase, work>>
    PROVE  /\ queue' \in Seq(Parents) /\ wakeup' \in BOOLEAN
           /\ QueueHasNoDuplicates' /\ StaleReadIsQueued' /\ NoLostWakeup' /\ NothingForgotten'
           /\ Owed \subseteq Owed'
<1> USE DEF IInv, LoopInvariant, TypeOK, work
<1>1. CASE Running
  <2>1. PICK s \in Batches(S \ Elements(queue)) : queue' = queue \o s
    BY <1>1 DEF Enqueue
  <2>2. wakeup' = (wakeup \/ S # {})
    BY <1>1 DEF Enqueue
  <2>3. /\ queue' \in Seq(Parents) /\ QueueHasNoDuplicates'
        /\ Elements(queue') = Elements(queue) \cup S
        /\ S = {} => queue' = queue
    <3>1. queue \in Seq(Parents) /\ \A i, j \in DOMAIN queue : queue[i] = queue[j] => i = j
      BY DEF QueueHasNoDuplicates
    <3>2. /\ queue \o s \in Seq(Parents)
          /\ \A i, j \in DOMAIN (queue \o s) : (queue \o s)[i] = (queue \o s)[j] => i = j
          /\ Elements(queue \o s) = Elements(queue) \cup S
          /\ S = {} => queue \o s = queue
      BY ONLY <2>1, <3>1, BatchKeys, S \in SUBSET Parents
    <3> QED BY <2>1, <3>2 DEF QueueHasNoDuplicates
  <2>4. StaleReadIsQueued'
    BY <1>1, <2>3, SetsAssumption DEF StaleReadIsQueued, Running
  <2>5. NoLostWakeup'
    BY <2>2, <2>3 DEF NoLostWakeup
  <2>6. NothingForgotten'
    BY <1>1, <2>3 DEF NothingForgotten, Owed, Running, Waiting
  <2>7. Owed \subseteq Owed'
    BY <1>1, <2>3 DEF Owed, Running, Waiting
  <2> QED BY <2>2, <2>3, <2>4, <2>5, <2>6, <2>7
<1>2. CASE ~Running
  <2>1. UNCHANGED <<queue, wakeup>>
    BY <1>2 DEF Enqueue
  <2> QED BY <1>2, <2>1 DEF QueueHasNoDuplicates, StaleReadIsQueued, NoLostWakeup,
                            NothingForgotten, Owed, Running
<1> QED BY <1>1, <1>2

\* An upsert, a delete or a replacement leaves a store, and every key whose view it
\* changes is among the keys it queues.
LEMMA UpsertKeys ==
    ASSUME NEW c \in Caches, NEW o \in Objects, NEW v \in Mapped \cup Unmapped
    PROVE  /\ Upserted(c, o, v) \in Caches
           /\ UpsertAffects(c, o, v) \in SUBSET Parents
           /\ \A p \in Parents \ UpsertAffects(c, o, v) : View(Upserted(c, o, v), p) = View(c, p)
BY SetsAssumption DEF Caches, Upserted, UpsertAffects, View, Mapped, Unmapped, Gone

\* The same of a delete, whose object may not be in the store.
LEMMA DeleteKeys ==
    ASSUME NEW c \in Caches, NEW o \in Objects, NEW last \in PodStates
    PROVE  /\ [c EXCEPT ![o] = Gone] \in Caches
           /\ DeleteAffects(c, o, last) \in SUBSET Parents
           /\ \A p \in Parents \ DeleteAffects(c, o, last) : View([c EXCEPT ![o] = Gone], p) = View(c, p)
BY SetsAssumption DEF Caches, DeleteAffects, View, Mapped, Unmapped, Gone, Garbled, PodStates

\* The same of a replacement by the world that was listed.
LEMMA ReplaceKeys ==
    ASSUME NEW c \in Caches, NEW w \in [Objects -> PodStates]
    PROVE  /\ Replaced(c, w) \in Caches
           /\ ReplaceAffects(c, w) \in SUBSET Parents
           /\ \A p \in Parents \ ReplaceAffects(c, w) : View(Replaced(c, w), p) = View(c, p)
<1> USE SetsAssumption DEF Mapped, Unmapped, Gone, Garbled, PodStates
<1>1. \A o \in Objects : /\ Replaced(c, w)[o] = IF w[o].parent = NoParent THEN Gone ELSE w[o]
                         /\ Replaced(c, w)[o] \in Mapped \cup {Gone}
  BY DEF Replaced
<1>2. Replaced(c, w) \in Caches
  BY DEF Replaced, Caches
<1>a. \A p : p \in ReplaceAffects(c, w) <=>
               p # NoParent /\ \E o \in Objects : p = w[o].parent \/ p = c[o].parent
  BY DEF ReplaceAffects
<1>b. \A o \in Objects : w[o].parent \in Parents \cup {NoParent} /\ c[o].parent \in Parents \cup {NoParent}
  BY DEF Caches
<1>3. ReplaceAffects(c, w) \in SUBSET Parents
  BY <1>a, <1>b
<1>4. ASSUME NEW p \in Parents \ ReplaceAffects(c, w) PROVE View(Replaced(c, w), p) = View(c, p)
  <2>1. \A o \in Objects : w[o].parent # p /\ c[o].parent # p
    BY <1>4, <1>a
  <2>2. \A o \in Objects : Replaced(c, w)[o].parent # p
    BY <1>1, <2>1
  <2> QED BY <2>1, <2>2 DEF View
<1> QED BY <1>2, <1>3, <1>4

\* A frame carries the one object its resource version changed.
LEMMA FrameObject ==
    ASSUME IInv, NEW n \in 2..Len(hist)
    PROVE  /\ ChangedAt(n) \in Objects
           /\ \A q \in Objects \ {ChangedAt(n)} : hist[n][q] = hist[n - 1][q]
<1>1. PICK o \in Objects : hist[n][o] # hist[n - 1][o] /\ \A q \in Objects \ {o} : hist[n][q] = hist[n - 1][q]
  BY DEF IInv, OneChange
<1>2. ChangedAt(n) \in Objects /\ hist[n][ChangedAt(n)] # hist[n - 1][ChangedAt(n)]
  BY <1>1 DEF ChangedAt
<1> QED BY <1>1, <1>2

\* The apiserver moves to a next world, in one object.
LEMMA ChangeWorldKeeps ==
    ASSUME IInv, NEW o \in Objects, NEW v \in PodStates, ChangeWorld(o, v)
    PROVE  IInv' /\ Owed \subseteq Owed'
<1> USE DEF IInv, LoopInvariant, TypeOK, ChangeWorld, reflector, store, work
<1>1. World \in [Objects -> PodStates] /\ Len(hist) \in Nat \ {0}
  BY EmptySeq DEF World
<1>2. /\ hist' \in Seq([Objects -> PodStates]) /\ hist' # <<>> /\ Len(hist') = Len(hist) + 1
      /\ \A n \in 1..Len(hist) : hist'[n] = hist[n]
      /\ hist'[Len(hist) + 1] = [World EXCEPT ![o] = v]
  BY <1>1, AppendProperties
<1>3. TypeOK'
  BY <1>1, <1>2
<1>4. OneChange'
  <2>1. ASSUME NEW n \in 2..Len(hist')
        PROVE  \E x \in Objects :
                 hist'[n][x] # hist'[n - 1][x] /\ \A q \in Objects \ {x} : hist'[n][q] = hist'[n - 1][q]
    <3>1. CASE n <= Len(hist)
      <4>1. n \in 2..Len(hist) /\ hist'[n] = hist[n] /\ hist'[n - 1] = hist[n - 1]
        BY <1>1, <1>2, <3>1
      <4>2. PICK x \in Objects : hist[n][x] # hist[n - 1][x] /\ \A q \in Objects \ {x} : hist[n][q] = hist[n - 1][q]
        BY <4>1 DEF OneChange
      <4> QED BY <4>1, <4>2
    <3>2. CASE n = Len(hist) + 1
      <4>1. hist'[n] = [World EXCEPT ![o] = v] /\ hist'[n - 1] = World
        BY <1>1, <1>2, <3>2 DEF World
      <4> QED BY <1>1, <4>1
    <3>3. n <= Len(hist) \/ n = Len(hist) + 1
      BY <1>1, <1>2
    <3> QED BY <3>1, <3>2, <3>3
  <2> QED BY <2>1 DEF OneChange
<1>5. CursorMatchesStore'
  BY <1>1, <1>2 DEF CursorMatchesStore
<1>6. /\ QueueHasNoDuplicates' /\ StaleReadIsQueued' /\ NoLostWakeup' /\ NothingForgotten' /\ WatchHasCursor'
      /\ Owed \subseteq Owed'
  BY DEF QueueHasNoDuplicates, StaleReadIsQueued, NoLostWakeup, NothingForgotten, WatchHasCursor,
         Running, Owed, Waiting
<1> QED BY <1>3, <1>4, <1>5, <1>6

\* A LIST answer replaces the store with the world it lists.
LEMMA HandleReplaceKeeps ==
    ASSUME IInv, HandleReplace
    PROVE  IInv' /\ Owed \subseteq Owed'
<1> USE DEF IInv, LoopInvariant, TypeOK, server, work
<1>1. page \in 1..Len(hist) /\ hist[page] \in [Objects -> PodStates]
  BY ElementOfSeq DEF HandleReplace
<1>2. /\ cache' = Replaced(cache, hist[page]) /\ cache' \in Caches
      /\ ReplaceAffects(cache, hist[page]) \in SUBSET Parents
      /\ \A p \in Parents \ ReplaceAffects(cache, hist[page]) : View(cache', p) = View(cache, p)
  BY <1>1, ReplaceKeys DEF HandleReplace
<1>3. /\ queue' \in Seq(Parents) /\ wakeup' \in BOOLEAN
      /\ QueueHasNoDuplicates' /\ StaleReadIsQueued' /\ NoLostWakeup' /\ NothingForgotten'
      /\ Owed \subseteq Owed'
  BY <1>2, EnqueueStep DEF HandleReplace
<1>4. TypeOK'
  BY <1>1, <1>2, <1>3 DEF HandleReplace
<1>5. CursorMatchesStore'
  BY <1>1, <1>2 DEF HandleReplace, CursorMatchesStore, Replaced
<1>6. OneChange' /\ WatchHasCursor'
  BY <1>1 DEF HandleReplace, OneChange, WatchHasCursor
<1> QED BY <1>3, <1>4, <1>5, <1>6

\* A frame brings the store from the world at the cursor to the next one.
LEMMA HandleFrameKeeps ==
    ASSUME IInv, HandleFrame
    PROVE  IInv' /\ Owed \subseteq Owed'
<1> USE DEF IInv, LoopInvariant, TypeOK, server, work
<1> DEFINE n == cursor + 1
           o == ChangedAt(n)
<1>1. n \in 2..Len(hist) /\ n - 1 = cursor /\ cursor \in 1..Len(hist)
  BY DEF HandleFrame, WatchHasCursor
<1>2. hist[n] \in [Objects -> PodStates] /\ hist[cursor] \in [Objects -> PodStates]
  BY <1>1, ElementOfSeq
<1>3. o \in Objects /\ \A q \in Objects \ {o} : hist[n][q] = hist[cursor][q]
  BY <1>1, FrameObject
<1>4. hist[n][o] # Garbled /\ cursor' = n
  BY DEF HandleFrame, Unreadable
<1> HIDE DEF n, o
<1>5. /\ cache' \in Caches
      /\ cache' = [cache EXCEPT ![o] = IF hist[n][o].parent = NoParent THEN Gone ELSE hist[n][o]]
      /\ \E S \in SUBSET Parents :
           /\ Enqueue(S)
           /\ \A p \in Parents \ S : View(cache', p) = View(cache, p)
  <2>1. CASE hist[n][o] = Gone
    <3>1. cache' = [cache EXCEPT ![o] = Gone] /\ Enqueue(DeleteAffects(cache, o, hist[n - 1][o]))
      BY <2>1 DEF HandleFrame, n, o
    <3>2. hist[n - 1][o] \in PodStates
      BY <1>1, <1>2, <1>3
    <3>3. /\ cache' \in Caches
          /\ DeleteAffects(cache, o, hist[n - 1][o]) \in SUBSET Parents
          /\ \A p \in Parents \ DeleteAffects(cache, o, hist[n - 1][o]) : View(cache', p) = View(cache, p)
      <4>1. cache \in Caches /\ o \in Objects
        BY <1>3
      <4>2. cache' = [cache EXCEPT ![o] = Gone]
        BY <3>1
      <4> HIDE DEF IInv, LoopInvariant, TypeOK
      <4> QED BY <4>1, <4>2, <3>2, DeleteKeys
    <3>4. cache' = [cache EXCEPT ![o] = IF hist[n][o].parent = NoParent THEN Gone ELSE hist[n][o]]
      <4>1. Gone.parent = NoParent
        BY DEF Gone
      <4>2. hist[n][o].parent = NoParent
        BY <2>1, <4>1
      <4> QED BY <3>1, <4>2
    <3> QED BY <3>1, <3>3, <3>4
  <2>2. CASE hist[n][o] # Gone
    <3>1. cache' = Upserted(cache, o, hist[n][o]) /\ Enqueue(UpsertAffects(cache, o, hist[n][o]))
      BY <2>2 DEF HandleFrame, n, o
    <3>2. hist[n][o] \in Mapped \cup Unmapped
      BY <1>2, <1>3, <1>4, <2>2 DEF PodStates
    <3>3. /\ cache' \in Caches
          /\ UpsertAffects(cache, o, hist[n][o]) \in SUBSET Parents
          /\ \A p \in Parents \ UpsertAffects(cache, o, hist[n][o]) : View(cache', p) = View(cache, p)
      BY <1>3, <3>1, <3>2, UpsertKeys
    <3>4. cache' = [cache EXCEPT ![o] = IF hist[n][o].parent = NoParent THEN Gone ELSE hist[n][o]]
      BY <3>1 DEF Upserted
    <3> QED BY <3>1, <3>3, <3>4
  <2> QED BY <2>1, <2>2
<1>6. /\ queue' \in Seq(Parents) /\ wakeup' \in BOOLEAN
      /\ QueueHasNoDuplicates' /\ StaleReadIsQueued' /\ NoLostWakeup' /\ NothingForgotten'
      /\ Owed \subseteq Owed'
  BY <1>5, EnqueueStep DEF HandleFrame
<1>7. TypeOK'
  BY <1>1, <1>4, <1>5, <1>6 DEF HandleFrame
<1>8. CursorMatchesStore'
  <2>1. /\ cache = [x \in Objects |-> IF hist[cursor][x].parent = NoParent THEN Gone ELSE hist[cursor][x]]
        /\ hist' = hist
    BY <1>1 DEF HandleFrame, CursorMatchesStore
  <2>2. cache' = [x \in Objects |-> IF hist[n][x].parent = NoParent THEN Gone ELSE hist[n][x]]
    BY <1>3, <1>5, <2>1
  <2> QED BY <1>4, <2>1, <2>2 DEF CursorMatchesStore
<1>9. OneChange' /\ WatchHasCursor'
  BY <1>1, <1>4 DEF HandleFrame, OneChange, WatchHasCursor
<1> QED BY <1>6, <1>7, <1>8, <1>9

\* The reflector moves between watches and LIST answers, and the apiserver forgets
\* versions, without an event.
LEMMA ReflectorKeeps ==
    ASSUME IInv, List \/ OpenWatch \/ FrameUnreadable \/ WatchEnds \/ CursorRejected \/ StreamDies \/ Compact
    PROVE  IInv' /\ Owed \subseteq Owed'
<1> USE DEF IInv, LoopInvariant, TypeOK, server, reflector, store, work
<1>1. TypeOK'
  BY BoundsAssumption DEF List, OpenWatch, FrameUnreadable, WatchEnds, CursorRejected, StreamDies, Compact, Fault
<1>2. UNCHANGED <<hist, store, phase, queue, wakeup, work, retry>> /\ cursor' \in {cursor, 0}
  BY DEF List, OpenWatch, FrameUnreadable, WatchEnds, CursorRejected, StreamDies, Compact
<1>3. /\ QueueHasNoDuplicates' /\ StaleReadIsQueued' /\ NoLostWakeup' /\ NothingForgotten'
      /\ Owed \subseteq Owed'
  BY <1>2 DEF QueueHasNoDuplicates, StaleReadIsQueued, NoLostWakeup, NothingForgotten, Owed, Running, Waiting
<1>4. CursorMatchesStore' /\ OneChange'
  BY <1>2 DEF CursorMatchesStore, OneChange
<1>5. WatchHasCursor'
  BY DEF List, OpenWatch, FrameUnreadable, WatchEnds, CursorRejected, StreamDies, Compact, WatchHasCursor
<1> QED BY <1>1, <1>3, <1>4, <1>5

\* A loop that stops owes every key, and reads nothing any more.
LEMMA LifecycleKeeps ==
    ASSUME IInv, Start \/ CancelStart \/ Stop \/ CancelTasks
    PROVE  IInv' /\ Owed \subseteq Owed'
<1> USE DEF IInv, LoopInvariant, TypeOK, server, reflector, store, work
<1>1. TypeOK'
  BY DEF Start, CancelStart, Stop, CancelTasks
<1>2. QueueHasNoDuplicates' /\ StaleReadIsQueued' /\ NoLostWakeup'
  BY DEF Start, CancelStart, Stop, CancelTasks, QueueHasNoDuplicates, StaleReadIsQueued, NoLostWakeup, Running
<1>4. Owed \subseteq Owed'
  <2>1. CASE Start
    BY <2>1 DEF Start, Owed, Running, Waiting
  <2>2. CASE CancelStart \/ Stop \/ CancelTasks
    <3>1. Owed' = Parents
      BY <2>2 DEF CancelStart, Stop, CancelTasks, Owed, Running
    <3> QED BY <3>1, OwedKeys
  <2> QED BY <2>1, <2>2
<1>5. NothingForgotten'
  BY <1>4 DEF Start, CancelStart, Stop, CancelTasks, NothingForgotten
<1>3. CursorMatchesStore' /\ OneChange' /\ WatchHasCursor'
  <2>1. UNCHANGED <<hist, cursor, cache, link>>
    BY DEF Start, CancelStart, Stop, CancelTasks
  <2> QED BY <2>1 DEF CursorMatchesStore, OneChange, WatchHasCursor
<1> QED BY <1>1, <1>2, <1>3, <1>4, <1>5

\* The key taken from the queue is the one being reconciled.
LEMMA GetKeyKeeps ==
    ASSUME IInv, GetKey
    PROVE  IInv' /\ Owed \subseteq Owed'
<1> USE DEF IInv, LoopInvariant, TypeOK, server, reflector, store, work
<1>1. /\ queue # <<>> /\ Head(queue) \in Parents /\ Tail(queue) \in Seq(Parents)
      /\ Head(queue) = queue[1] /\ Len(Tail(queue)) = Len(queue) - 1 /\ Len(queue) \in Nat \ {0}
      /\ \A i \in 1..Len(queue) - 1 : Tail(queue)[i] = queue[i + 1]
      /\ DOMAIN queue = 1..Len(queue) /\ DOMAIN Tail(queue) = 1..Len(queue) - 1
  BY HeadTailProperties, LenProperties, EmptySeq DEF GetKey
<1>2. TypeOK'
  BY <1>1, SetsAssumption DEF GetKey
<1>3. Elements(queue) = Elements(Tail(queue)) \cup {Head(queue)}
  <2>1. ASSUME NEW i \in 1..Len(queue) PROVE queue[i] \in Elements(Tail(queue)) \cup {Head(queue)}
    <3>1. CASE i = 1
      BY <1>1, <3>1
    <3>2. CASE i # 1
      <4>1. i - 1 \in DOMAIN Tail(queue) /\ Tail(queue)[i - 1] = queue[i]
        BY <1>1, <2>1, <3>2
      <4> QED BY <4>1 DEF Elements
    <3> QED BY <3>1, <3>2
  <2>2. ASSUME NEW i \in 1..Len(queue) - 1 PROVE Tail(queue)[i] \in Elements(queue)
    <3>1. i + 1 \in DOMAIN queue /\ Tail(queue)[i] = queue[i + 1]
      BY <1>1, <2>2
    <3> QED BY <3>1 DEF Elements
  <2>3. Head(queue) \in Elements(queue)
    BY <1>1 DEF Elements
  <2>4. /\ \A x \in Elements(queue) : x \in Elements(Tail(queue)) \cup {Head(queue)}
        /\ \A x \in Elements(Tail(queue)) : x \in Elements(queue)
    <3>1. \A x \in Elements(queue) : \E i \in 1..Len(queue) : x = queue[i]
      BY <1>1 DEF Elements
    <3>2. \A x \in Elements(Tail(queue)) : \E i \in 1..Len(queue) - 1 : x = Tail(queue)[i]
      BY <1>1 DEF Elements
    <3> QED BY <2>1, <2>2, <3>1, <3>2
  <2> QED BY <2>3, <2>4
<1>4. QueueHasNoDuplicates'
  BY <1>1 DEF GetKey, QueueHasNoDuplicates
<1>5. StaleReadIsQueued' /\ NoLostWakeup'
  BY DEF GetKey, StaleReadIsQueued, NoLostWakeup
<1>6. NothingForgotten' /\ Owed \subseteq Owed'
  BY <1>1, <1>3, SetsAssumption DEF GetKey, NothingForgotten, Owed, Running, Waiting
<1>7. CursorMatchesStore' /\ OneChange' /\ WatchHasCursor'
  BY DEF GetKey, CursorMatchesStore, OneChange, WatchHasCursor
<1> QED BY <1>2, <1>4, <1>5, <1>6, <1>7

\* The worker sleeps on an empty queue, wakes or exits.
LEMMA GetKeeps ==
    ASSUME IInv, GetWaits \/ GetWakes \/ WorkerExits
    PROVE  IInv' /\ Owed \subseteq Owed'
<1> USE DEF IInv, LoopInvariant, TypeOK, server, reflector, store, work
<1>1. TypeOK'
  BY DEF GetWaits, GetWakes, WorkerExits
<1>2. /\ QueueHasNoDuplicates' /\ StaleReadIsQueued' /\ NoLostWakeup' /\ NothingForgotten'
      /\ Owed \subseteq Owed'
  BY DEF GetWaits, GetWakes, WorkerExits, QueueHasNoDuplicates, StaleReadIsQueued, NoLostWakeup, NothingForgotten, Owed, Running, Waiting
<1>3. CursorMatchesStore' /\ OneChange' /\ WatchHasCursor'
  <2>1. UNCHANGED <<hist, cursor, cache, link>>
    BY DEF GetWaits, GetWakes, WorkerExits
  <2> QED BY <2>1 DEF CursorMatchesStore, OneChange, WatchHasCursor
<1> QED BY <1>1, <1>2, <1>3

\* A reconcile reads what the store holds of its key.
LEMMA ReadStoreKeeps ==
    ASSUME IInv, ReadStore
    PROVE  IInv' /\ Owed \subseteq Owed'
<1> USE DEF IInv, LoopInvariant, TypeOK, server, reflector, store, work
<1>1. current \in Parents /\ View(cache, current) \in Caches
  BY ViewOfStore DEF ReadStore
<1>2. TypeOK'
  BY <1>1 DEF ReadStore
<1>3. /\ QueueHasNoDuplicates' /\ StaleReadIsQueued' /\ NoLostWakeup' /\ NothingForgotten'
      /\ Owed \subseteq Owed'
  BY DEF ReadStore, QueueHasNoDuplicates, StaleReadIsQueued, NoLostWakeup, NothingForgotten, Owed, Running, Waiting
<1>4. CursorMatchesStore' /\ OneChange' /\ WatchHasCursor'
  BY DEF ReadStore, CursorMatchesStore, OneChange, WatchHasCursor
<1> QED BY <1>2, <1>3, <1>4

\* A reconcile that read something stale leaves its key queued.
LEMMA SucceedKeeps ==
    ASSUME IInv, Succeed
    PROVE  IInv'
<1> USE DEF IInv, LoopInvariant, TypeOK, server, reflector, store, work
<1>1. TypeOK'
  BY DEF Succeed
<1>2. QueueHasNoDuplicates' /\ StaleReadIsQueued' /\ NoLostWakeup' /\ NothingForgotten'
  BY DEF Succeed, QueueHasNoDuplicates, StaleReadIsQueued, NoLostWakeup, NothingForgotten, Owed, Running, Waiting
<1>3. CursorMatchesStore' /\ OneChange' /\ WatchHasCursor'
  BY DEF Succeed, CursorMatchesStore, OneChange, WatchHasCursor
<1> QED BY <1>1, <1>2, <1>3

\* A reconcile that fails leaves its key to the retry scheduler.
LEMMA FailKeeps ==
    ASSUME IInv, Fail
    PROVE  IInv' /\ Owed \subseteq Owed'
<1> USE DEF IInv, LoopInvariant, TypeOK, server, reflector, store, work
<1>1. /\ current \in Parents /\ faults' \in 0..MaxFaults
      /\ retry' \in [Parents -> {"none", "waiting", "handed"}]
      /\ \A p \in Parents \ {current} : retry'[p] = retry[p]
      /\ Running /\ phase # "starting" => retry'[current] = "waiting"
      /\ worker' = "ready" /\ current' = NoParent /\ hasRead' = FALSE
      /\ phase # "starting"
      /\ UNCHANGED <<hist, oldest, reflector, store, phase, queue, wakeup, seen, acted>>
  BY BoundsAssumption, SetsAssumption DEF Fail, Fault, Running, WorkerUp
<1>2. TypeOK' /\ QueueHasNoDuplicates' /\ StaleReadIsQueued' /\ NoLostWakeup'
  BY <1>1, SetsAssumption DEF QueueHasNoDuplicates, StaleReadIsQueued, NoLostWakeup
<1>4. NothingForgotten' /\ Owed \subseteq Owed'
  BY <1>1 DEF NothingForgotten, Owed, Running, Waiting
<1>3. CursorMatchesStore' /\ OneChange' /\ WatchHasCursor'
  BY DEF Fail, Fault, CursorMatchesStore, OneChange, WatchHasCursor
<1> QED BY <1>2, <1>3, <1>4

\* Due keys leave the retry scheduler for the queue.
LEMMA PollKeeps ==
    ASSUME IInv, NEW due \in SUBSET Waiting, Poll(due)
    PROVE  IInv' /\ Owed \subseteq Owed'
<1> USE DEF IInv, LoopInvariant, TypeOK, server, reflector, store, work
<1>1. due \in SUBSET Parents
  BY DEF Waiting
<1>2. /\ queue' \in Seq(Parents) /\ wakeup' \in BOOLEAN
      /\ QueueHasNoDuplicates' /\ StaleReadIsQueued' /\ NoLostWakeup' /\ NothingForgotten'
      /\ Owed \subseteq Owed'
  BY <1>1, EnqueueStep DEF Poll
<1>3. TypeOK'
  BY <1>2 DEF Poll
<1>4. CursorMatchesStore' /\ OneChange' /\ WatchHasCursor'
  BY DEF Poll, CursorMatchesStore, OneChange, WatchHasCursor
<1> QED BY <1>2, <1>3, <1>4

\* Every parent with members is queued.
LEMMA ResyncKeeps ==
    ASSUME IInv, Resync
    PROVE  IInv' /\ Owed \subseteq Owed'
<1> USE DEF IInv, LoopInvariant, TypeOK, server, reflector, store, work
<1> DEFINE S == {cache[o].parent : o \in Objects} \ {NoParent}
<1>1. S \in SUBSET Parents
  BY DEF Caches, Mapped, Gone
<1>2. /\ queue' \in Seq(Parents) /\ wakeup' \in BOOLEAN
      /\ QueueHasNoDuplicates' /\ StaleReadIsQueued' /\ NoLostWakeup' /\ NothingForgotten'
      /\ Owed \subseteq Owed'
  BY <1>1, EnqueueStep DEF Resync
<1>3. TypeOK'
  BY <1>2 DEF Resync
<1>4. CursorMatchesStore' /\ OneChange' /\ WatchHasCursor'
  BY DEF Resync, CursorMatchesStore, OneChange, WatchHasCursor
<1> QED BY <1>2, <1>3, <1>4

\* Nothing happens.
LEMMA StutterKeeps ==
    ASSUME IInv, UNCHANGED vars
    PROVE  IInv' /\ Owed \subseteq Owed'
<1> USE DEF IInv, LoopInvariant, TypeOK, server, reflector, store, work
<1>1. TypeOK'
  BY DEF vars
<1>2. /\ QueueHasNoDuplicates' /\ StaleReadIsQueued' /\ NoLostWakeup' /\ NothingForgotten'
      /\ Owed \subseteq Owed'
  BY DEF vars, QueueHasNoDuplicates, StaleReadIsQueued, NoLostWakeup, NothingForgotten, Owed, Running, Waiting
<1>3. CursorMatchesStore' /\ OneChange' /\ WatchHasCursor'
  BY DEF vars, CursorMatchesStore, OneChange, WatchHasCursor
<1> QED BY <1>1, <1>2, <1>3

\* Every step keeps the invariant.
LEMMA Step == IInv /\ [Next]_vars => IInv'
<1> SUFFICES ASSUME IInv, [Next]_vars PROVE IInv'
  OBVIOUS
<1>1. ASSUME Environment PROVE IInv'
  BY <1>1, ReflectorKeeps, ChangeWorldKeeps DEF Environment
<1>2. ASSUME Reflect PROVE IInv'
  BY <1>2, ReflectorKeeps, HandleReplaceKeeps, HandleFrameKeeps DEF Reflect
<1>3. ASSUME Work PROVE IInv'
  BY <1>3, GetKeyKeeps, GetKeeps, ReadStoreKeeps, SucceedKeeps, FailKeeps DEF Work
<1>4. ASSUME Start \/ CancelStart \/ Stop \/ CancelTasks PROVE IInv'
  BY <1>4, LifecycleKeeps
<1>5. ASSUME NEW due \in SUBSET Waiting \ {{}}, Poll(due) PROVE IInv'
  BY <1>5, PollKeeps
<1>6. ASSUME Resync PROVE IInv'
  BY <1>6, ResyncKeeps
<1>7. ASSUME UNCHANGED vars PROVE IInv'
  BY <1>7, StutterKeeps
<1> QED BY <1>1, <1>2, <1>3, <1>4, <1>5, <1>6, <1>7 DEF Next

\* A loop that starts has acted on a world without pods.
LEMMA InitIInv == Init => IInv
<1> SUFFICES ASSUME Init PROVE IInv
  OBVIOUS
<1> USE DEF Init
<1>1. [o \in Objects |-> Gone] \in Caches /\ [o \in Objects |-> Gone] \in [Objects -> PodStates]
  BY DEF Caches, PodStates
<1>2. hist \in Seq([Objects -> PodStates]) /\ Len(hist) = 1 /\ hist # <<>>
  <2>1. PICK w \in [Objects -> {Gone}] : hist = <<w>>
    OBVIOUS
  <2>2. w \in [Objects -> PodStates]
    BY DEF PodStates
  <2> HIDE DEF Init
  <2>3. hist \in Seq([Objects -> PodStates]) /\ Len(hist) = 1
    BY <2>1, <2>2
  <2>4. hist # <<>>
    BY <2>1
  <2> QED BY <2>3, <2>4
<1>3. TypeOK
  <2>1. oldest \in 1..Len(hist) /\ cursor \in 0..Len(hist) /\ page \in 0..Len(hist) /\ faults \in 0..MaxFaults
    BY <1>2, BoundsAssumption
  <2>2. queue \in Seq(Parents) /\ current \in Parents \cup {NoParent}
    OBVIOUS
  <2>3. acted \in [Parents -> Caches] /\ cache \in Caches /\ seen \in Caches
    BY <1>1
  <2>4. retry \in [Parents -> {"none", "waiting", "handed"}]
    OBVIOUS
  <2> QED BY <1>2, <2>1, <2>2, <2>3, <2>4 DEF TypeOK
<1>4. QueueHasNoDuplicates /\ CursorMatchesStore /\ StaleReadIsQueued /\ NoLostWakeup
  BY DEF QueueHasNoDuplicates, CursorMatchesStore, StaleReadIsQueued, NoLostWakeup
<1>5. NothingForgotten
  BY DEF NothingForgotten, View, Gone
<1>6. OneChange /\ WatchHasCursor
  BY <1>2 DEF OneChange, WatchHasCursor
<1> QED BY <1>3, <1>4, <1>5, <1>6 DEF IInv, LoopInvariant

\* The inductive invariant holds of every behaviour of the loop.
THEOREM ReconcileInvariant == Spec => []IInv
<1> QED BY InitIInv, Step, PTL DEF Spec

\* No key whose pods differ from what its last successful reconcile read is
\* forgotten: an event that arrives while its key is reconciled queues it again
\* (WorkQueue.add), and a failure leaves it to the retry scheduler
\* (note_failure).
THEOREM KeysAreOwed == Spec => []NothingForgotten
<1>1. IInv => NothingForgotten
  BY DEF IInv
<1> QED BY <1>1, ReconcileInvariant, PTL

\* The store is the world at the cursor over reconnects, relists and compactions,
\* no key is queued twice, and the worker sleeps on an empty queue only.
THEOREM LoopIsConsistent == Spec => []LoopInvariant
<1>1. IInv => LoopInvariant
  BY DEF IInv
<1> QED BY <1>1, ReconcileInvariant, PTL

\* A loop that starts has observed nothing.
LEMMA PromiseInit == Init => Promise!Init
BY SetsAssumption DEF Init, Promise!Init, View, Gone, Owed, Running, Elements, Waiting

\* A reconcile that succeeds is Act of its key: if it read the store as it is, the
\* key may be settled, and if not the key is queued.
LEMMA SucceedActs ==
    ASSUME IInv, Succeed
    PROVE  Promise!Act(current)
<1> USE DEF IInv, LoopInvariant, TypeOK, reflector, store
<1>1. current \in Parents /\ seen \in Caches /\ current \in Owed
  BY SetsAssumption DEF Succeed, Owed, Running
<1>2. acted' = [acted EXCEPT ![current] = seen]
  BY DEF Succeed
<1>3. \A p \in Parents : View(cache, p)' = View(cache, p)
  BY DEF Succeed, View
<1>4. \/ Owed' = Owed
      \/ seen = View(cache, current) /\ Owed' = Owed \ {current}
  <2>1. CASE ~Running
    BY <2>1 DEF Succeed, Owed, Running
  <2>2. CASE Running
    <3>1. Owed = Elements(queue) \cup {current} \cup Waiting
      BY <2>2, <1>1, SetsAssumption DEF Owed
    <3>2. Waiting' = Waiting \ {current}
      BY <1>1 DEF Succeed, Waiting
    <3>3. Owed' = Elements(queue) \cup (Waiting \ {current})
      BY <2>2, <3>2 DEF Succeed, Owed, Running
    <3>4. current \in Elements(queue) \/ seen = View(cache, current)
      BY <2>2 DEF Succeed, StaleReadIsQueued
    <3> QED BY <3>1, <3>3, <3>4
  <2> QED BY <2>1, <2>2
<1> QED BY <1>1, <1>2, <1>3, <1>4 DEF Promise!Act

\* Every other step leaves what was acted on, and what was owed stays owed.  By
\* NothingForgotten, before and after, a key whose view changes is owed.
LEMMA OthersObserve ==
    ASSUME IInv, IInv', acted' = acted, Owed \subseteq Owed'
    PROVE  Promise!Observe
<1>1. (IInv => cache \in Caches /\ Owed \in SUBSET Parents)'
  BY OwedKeys, PTL
<1>2. \A p \in Parents : View(cache', p) \in Caches
  BY <1>1, ViewOfStore
<1>3. \A p \in Parents : View(cache', p) # View(cache, p) => p \in Owed'
  BY DEF IInv, NothingForgotten
<1> QED BY <1>1, <1>2, <1>3 DEF Promise!Observe

\* Each step of the loop is Act of the key reconciled, or Observe.
LEMMA PromiseStep == IInv /\ IInv' /\ [Next]_vars => [Promise!Next]_(Promise!vars)
<1> SUFFICES ASSUME IInv, IInv', [Next]_vars PROVE Promise!Next
  BY DEF Promise!Next
<1>1. ASSUME Succeed PROVE Promise!Next
  <2>1. current \in Parents
    BY <1>1 DEF Succeed, IInv, LoopInvariant, TypeOK
  <2> QED BY <1>1, <2>1, SucceedActs DEF Promise!Next
<1>2. ASSUME Owed \subseteq Owed', acted' = acted PROVE Promise!Next
  BY <1>2, OthersObserve DEF Promise!Next
<1>3. ASSUME Environment PROVE Owed \subseteq Owed' /\ acted' = acted
  <2>1. Owed \subseteq Owed'
    BY <1>3, ReflectorKeeps, ChangeWorldKeeps DEF Environment
  <2>2. acted' = acted
    BY <1>3 DEF Environment, Compact, WatchEnds, StreamDies, ChangeWorld, work
  <2> QED BY <2>1, <2>2
<1>4. ASSUME Reflect PROVE Owed \subseteq Owed' /\ acted' = acted
  <2>1. Owed \subseteq Owed'
    BY <1>4, ReflectorKeeps, HandleReplaceKeeps, HandleFrameKeeps DEF Reflect
  <2>2. acted' = acted
    BY <1>4 DEF Reflect, List, HandleReplace, OpenWatch, HandleFrame, FrameUnreadable, CursorRejected, work
  <2> QED BY <2>1, <2>2
<1>5. ASSUME GetKey \/ GetWaits \/ GetWakes \/ WorkerExits \/ ReadStore \/ Fail
      PROVE  Owed \subseteq Owed' /\ acted' = acted
  <2>1. Owed \subseteq Owed'
    BY <1>5, GetKeyKeeps, GetKeeps, ReadStoreKeeps, FailKeeps
  <2>2. acted' = acted
    BY <1>5 DEF GetKey, GetWaits, GetWakes, WorkerExits, ReadStore, Fail
  <2> QED BY <2>1, <2>2
<1>6. ASSUME Start \/ CancelStart \/ Stop \/ CancelTasks \/ Resync \/ UNCHANGED vars
      PROVE  Owed \subseteq Owed' /\ acted' = acted
  <2>1. Owed \subseteq Owed'
    BY <1>6, LifecycleKeeps, ResyncKeeps, StutterKeeps
  <2>2. acted' = acted
    BY <1>6 DEF Start, CancelStart, Stop, CancelTasks, Resync, vars, work
  <2> QED BY <2>1, <2>2
<1>7. ASSUME NEW due \in SUBSET Waiting \ {{}}, Poll(due) PROVE Owed \subseteq Owed' /\ acted' = acted
  <2>1. Owed \subseteq Owed'
    BY <1>7, PollKeeps
  <2>2. acted' = acted
    BY <1>7 DEF Poll, work
  <2> QED BY <2>1, <2>2
<1> QED BY <1>1, <1>2, <1>3, <1>4, <1>5, <1>6, <1>7 DEF Next, Work

\* The loop implements the level-triggered controller: it observes, acts on keys it
\* owes a reconcile, and settles a key only by a reconcile that read its state.
THEOREM LoopImplementsPromise == Spec => ImplementsPromise
<1> QED BY ReconcileInvariant, PromiseInit, PromiseStep, PTL DEF Spec, ImplementsPromise, Promise!Spec
==============================================================================
