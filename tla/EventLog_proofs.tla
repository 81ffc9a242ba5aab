--------------------------- MODULE EventLog_proofs --------------------------
(***************************************************************************)
(* The event log is what was added and not removed, and its viewer is on   *)
(* one of its items, for a pool of any size, as long as the user clears    *)
(* the log only when it has at most one item (MaxClear <= 1).  A second    *)
(* item that is removed keeps a link to its successor, and with it the     *)
(* list has no end: eventlog_clear shows how.                              *)
(*                                                                         *)
(* The walks of the list are functions on 0 .. max_items that are defined  *)
(* by their own values.  The first lemmas say that such a function is the  *)
(* only one, by its least point of difference, so that the walk from an    *)
(* item of the log can be written down.                                    *)
(***************************************************************************)
EXTENDS EventLog, SequenceTheorems, FiniteSetTheorems, WellFoundedInduction, TLAPS

\* What Steps(i) is, when g stands for its own values.
Walk(i, g) == [n \in 0 .. max_items |-> IF n = 0 THEN i
                                        ELSE IF g[n - 1] = NULL THEN NULL ELSE next[g[n - 1]]]

\* A non-empty set of numbers has a least one.
LEMMA LeastNatural ==
  ASSUME NEW T, T \subseteq Nat, T # {}
  PROVE  \E n \in T : \A m \in T : n <= m
<1>1. \E n \in T : \A m \in T : ~ (<<m, n>> \in OpToRel(<, Nat))
  BY NatLessThanWellFounded, WFMin
<1>2. \A m, n \in T : <<m, n>> \in OpToRel(<, Nat) <=> m < n
  BY DEF OpToRel
<1>3. PICK n \in T : \A m \in T : ~ (<<m, n>> \in OpToRel(<, Nat))
  BY <1>1
<1>4. \A m \in T : ~ (m < n)
  BY <1>2, <1>3
<1>5. \A m \in T : m \in Nat /\ n \in Nat
  OBVIOUS
<1>6. \A m \in T : n <= m
  BY <1>4, <1>5
<1> QED
  BY <1>6

\* Two walks from the same item are the same.
LEMMA WalkUnique ==
  ASSUME NEW i, NEW g, NEW h, g = Walk(i, g), h = Walk(i, h)
  PROVE  g = h
<1>0. max_items \in Nat
  BY ItemAssumption
<1> DEFINE T == {n \in 0 .. max_items : g[n] # h[n]}
<1>1. SUFFICES ASSUME T # {} PROVE FALSE
  BY DEF Walk
<1>2. PICK n \in T : \A m \in T : n <= m
  <2>1. T \subseteq Nat
    BY <1>0
  <2> HIDE DEF T
  <2> QED
    BY <1>1, <2>1, LeastNatural
<1>3. n # 0
  BY <1>0 DEF Walk
<1>4. n \in 1 .. max_items /\ n - 1 \in 0 .. max_items /\ ~ (n <= n - 1)
  BY <1>0, <1>2, <1>3
<1>5. g[n - 1] = h[n - 1]
  BY <1>2, <1>4
<1>6. g[n] = h[n]
  BY <1>3, <1>4, <1>5 DEF Walk
<1> QED
  BY <1>6

\* What walks as Steps(i) does is Steps(i).
LEMMA StepsAre ==
  ASSUME NEW i, NEW g, g = Walk(i, g)
  PROVE  Steps(i) = g
<1>1. Steps(i) = CHOOSE f : f = Walk(i, f)
  BY DEF Steps, Walk
<1>2. \E f : f = Walk(i, f)
  OBVIOUS
<1>3. Steps(i) = Walk(i, Steps(i))
  BY <1>1, <1>2
<1> QED
  BY <1>3, WalkUnique

-----------------------------------------------------------------------------
(* The inductive invariant.                                                *)

\* Each item is once in the pool or once in the log, and an item of the pool
\* has no successor: nothing resets the link of an item that is taken again.
PoolInv ==
  /\ IsInjective(pool) /\ IsInjective(added)
  /\ \A j \in DOMAIN pool, k \in DOMAIN added : pool[j] # added[k]
  /\ \A i \in Items : \/ \E j \in DOMAIN pool : pool[j] = i
                      \/ \E k \in DOMAIN added : added[k] = i
  /\ \A j \in DOMAIN pool : next[pool[j]] = NULL

\* The links go through the log in order, from items_head on.
ChainInv ==
  /\ items_head = IF added = << >> THEN NULL ELSE added[1]
  /\ \A k \in DOMAIN added : next[added[k]] = IF k = Len(added) THEN NULL ELSE added[k + 1]

\* The viewer keeps its item, and clear() runs on a log of one item at most.
ViewInv ==
  /\ clearing => Len(added) <= 1 /\ position = "clear"
  /\ ViewerOnItem

\* All of it.
LogInv == TypeOK /\ PoolInv /\ ChainInv /\ ViewInv

-----------------------------------------------------------------------------
(* The list is the log.                                                    *)

\* A sequence without repetitions is no longer than there are items.
LEMMA NoMoreThanItems ==
  ASSUME NEW s \in Seq(Items), IsInjective(s)
  PROVE  Len(s) <= max_items
<1>1. max_items \in Nat /\ Len(s) \in Nat /\ DOMAIN s = 1 .. Len(s)
  BY ItemAssumption, LenProperties
<1>2. s \in [1 .. Len(s) -> Items]
  BY LenProperties
<1>3. s \in Injection(1 .. Len(s), Items)
  BY <1>1, <1>2 DEF Injection
<1>4. IsFiniteSet(Items) /\ Cardinality(Items) = max_items
  <2>1. IsFiniteSet(1 .. max_items) /\ Cardinality(1 .. max_items) = IF 1 > max_items THEN 0 ELSE max_items - 1 + 1
    BY <1>1, FS_Interval
  <2> QED
    BY <1>1, <2>1 DEF Items
<1>5. Cardinality(1 .. Len(s)) <= Cardinality(Items)
  BY <1>3, <1>4, FS_Injection
<1>6. Cardinality(1 .. Len(s)) = Len(s)
  <2>1. ASSUME NEW n \in Nat PROVE Cardinality(1 .. n) = n
    <3>1. Cardinality(1 .. n) = IF 1 > n THEN 0 ELSE n - 1 + 1
      BY FS_Interval
    <3> QED
      BY <3>1
  <2> QED
    BY <1>1, <2>1
<1> QED
  BY <1>4, <1>5, <1>6

\* The walk from item m of the log.
From(m) == [n \in 0 .. max_items |-> IF m + n <= Len(added) THEN added[m + n] ELSE NULL]

\* What is in the log and in the pool are items.
LEMMA AddedTyped ==
  ASSUME TypeOK, PoolInv
  PROVE  /\ Len(added) \in Nat /\ DOMAIN added = 1 .. Len(added) /\ Len(added) <= max_items
         /\ \A k \in 1 .. Len(added) : added[k] \in Items /\ added[k] # NULL
         /\ Len(pool) \in Nat /\ DOMAIN pool = 1 .. Len(pool)
         /\ \A j \in 1 .. Len(pool) : pool[j] \in Items /\ pool[j] # NULL
         /\ max_items \in Nat \ {0} /\ NULL \notin Items
<1>1. max_items \in Nat \ {0} /\ NULL \notin Items
  BY ItemAssumption DEF Items, NULL
<1>2. added \in Seq(Items) /\ pool \in Seq(Items) /\ IsInjective(added)
  BY DEF TypeOK, PoolInv
<1>3. Len(added) <= max_items
  BY <1>2, NoMoreThanItems
<1> QED
  BY <1>1, <1>2, <1>3, LenProperties, ElementOfSeq

\* The links lead through the rest of the log.
LEMMA StepsFrom ==
  ASSUME TypeOK, PoolInv, ChainInv, NEW m \in 1 .. Len(added)
  PROVE  Steps(added[m]) = From(m)
<1> USE DEF NULL
<1>1. Len(added) \in Nat /\ DOMAIN added = 1 .. Len(added) /\ max_items \in Nat \ {0}
       /\ \A k \in 1 .. Len(added) : added[k] # NULL
  BY AddedTyped
<1>2. ASSUME NEW n \in 0 .. max_items
      PROVE  From(m)[n] = IF n = 0 THEN added[m]
                          ELSE IF From(m)[n - 1] = NULL THEN NULL ELSE next[From(m)[n - 1]]
  <2>1. CASE n = 0
    BY <1>1, <2>1 DEF From
  <2>2. CASE n # 0 /\ m + (n - 1) <= Len(added)
    <3>1. n - 1 \in 0 .. max_items /\ m + (n - 1) \in 1 .. Len(added)
      BY <1>1, <2>2
    <3>2. From(m)[n - 1] = added[m + (n - 1)]
      BY <3>1, <2>2 DEF From
    <3>3. next[added[m + (n - 1)]] = IF m + (n - 1) = Len(added) THEN NULL ELSE added[(m + (n - 1)) + 1]
      BY <1>1, <3>1 DEF ChainInv
    <3>4. From(m)[n] = IF m + n <= Len(added) THEN added[m + n] ELSE NULL
      BY DEF From
    <3>5. (m + (n - 1)) + 1 = m + n /\ (m + (n - 1) = Len(added) <=> ~ (m + n <= Len(added)))
      BY <1>1, <3>1
    <3> QED
      BY <1>1, <2>2, <3>1, <3>2, <3>3, <3>4, <3>5
  <2>3. CASE n # 0 /\ ~ (m + (n - 1) <= Len(added))
    <3>1. n - 1 \in 0 .. max_items /\ ~ (m + n <= Len(added))
      BY <1>1, <2>3
    <3>2. From(m)[n - 1] = NULL /\ From(m)[n] = NULL
      BY <3>1, <2>3 DEF From
    <3> QED
      BY <2>3, <3>2
  <2> QED
    BY <2>1, <2>2, <2>3
<1>3. From(m) = Walk(added[m], From(m))
  <2> DEFINE f == From(m)
  <2>1. f = [n \in 0 .. max_items |-> f[n]]
    BY DEF From
  <2>2. \A n \in 0 .. max_items : f[n] = IF n = 0 THEN added[m]
                          ELSE IF f[n - 1] = NULL THEN NULL ELSE next[f[n - 1]]
    BY <1>2
  <2> HIDE DEF f
  <2>3. f = Walk(added[m], f)
    BY <2>1, <2>2 DEF Walk
  <2> QED
    BY <2>3 DEF f
<1> QED
  BY <1>3, StepsAre

\* A walk from NULL stays there.
LEMMA StepsNowhere ==
  Steps(NULL) = [n \in 0 .. max_items |-> NULL]
<1> DEFINE g == [n \in 0 .. max_items |-> NULL]
<1>0. max_items \in Nat
  BY ItemAssumption
<1>1. \A n \in 0 .. max_items : n # 0 => n - 1 \in 0 .. max_items
  BY <1>0
<1>2. g = Walk(NULL, g)
  BY <1>1 DEF Walk
<1> QED
  BY <1>2, StepsAre

\* The list from an item ends, and is the rest of the log.
LEMMA ListFromItem ==
  ASSUME TypeOK, PoolInv, ChainInv, NEW m \in 1 .. Len(added)
  PROVE  /\ Ends(added[m])
         /\ ListFrom(added[m]) = [k \in 1 .. (Len(added) - m + 1) |-> added[m + k - 1]]
<1>1. Len(added) \in Nat /\ Len(added) <= max_items /\ max_items \in Nat \ {0}
       /\ \A k \in 1 .. Len(added) : added[k] # NULL
  BY AddedTyped
<1>2. Steps(added[m]) = From(m)
  BY StepsFrom
<1>3. max_items \in 0 .. max_items /\ ~ (m + max_items <= Len(added))
  BY <1>1
<1>4. Ends(added[m])
  BY <1>2, <1>3 DEF Ends, From
<1> DEFINE l == Len(added) - m + 1
           Stops(k) == From(m)[k] = NULL /\ \A j \in 0 .. k - 1 : From(m)[j] # NULL
<1>5. l \in 0 .. max_items /\ l \in 1 .. max_items
  BY <1>1
<1>6. \A j \in 0 .. l - 1 : From(m)[j] = added[m + j] /\ From(m)[j] # NULL
  <2> TAKE j \in 0 .. l - 1
  <2>1. j \in 0 .. max_items /\ m + j \in 1 .. Len(added)
    BY <1>1
  <2> QED
    BY <1>1, <2>1 DEF From
<1>7. From(m)[l] = NULL
  <2>1. ~ (m + l <= Len(added))
    BY <1>1
  <2> QED
    BY <1>5, <2>1 DEF From
<1>8. ASSUME NEW k \in 0 .. max_items, Stops(k) PROVE k = l
  <2>1. ~ (k < l)
    <3>1. k < l => k \in 0 .. l - 1
      BY <1>1, <1>5
    <3> QED
      BY <3>1, <1>6, <1>8
  <2>2. ~ (l < k)
    <3>1. l < k => l \in 0 .. k - 1
      BY <1>1, <1>5
    <3> QED
      BY <3>1, <1>7, <1>8
  <2> QED
    BY <1>1, <1>5, <2>1, <2>2
<1>9. (CHOOSE k \in 0 .. max_items : Stops(k)) = l
  <2>1. Stops(l)
    BY <1>6, <1>7
  <2> HIDE DEF l, Stops
  <2> QED
    BY <1>5, <1>8, <2>1
<1>10. ListFrom(added[m]) = [k \in 1 .. l |-> From(m)[k - 1]]
  BY <1>2, <1>9 DEF ListFrom
<1>11. \A k \in 1 .. l : From(m)[k - 1] = added[m + k - 1]
  <2> TAKE k \in 1 .. l
  <2>1. k - 1 \in 0 .. l - 1 /\ m + (k - 1) = m + k - 1
    BY <1>1
  <2> QED
    BY <1>6, <2>1
<1> QED
  BY <1>4, <1>10, <1>11

\* The list from items_head ends, and is the log.
LEMMA WholeList ==
  ASSUME TypeOK, PoolInv, ChainInv
  PROVE  Ends(items_head) /\ ListFrom(items_head) = added
<1> USE DEF NULL
<1>1. /\ Len(added) \in Nat /\ max_items \in Nat \ {0} /\ added \in Seq(Items)
  BY AddedTyped DEF TypeOK
<1>2. CASE added = << >>
  <2>1. items_head = NULL
    BY <1>2 DEF ChainInv
  <2>2. Steps(items_head) = [n \in 0 .. max_items |-> NULL]
    BY <2>1, StepsNowhere
  <2>3. 0 \in 0 .. max_items /\ max_items \in 0 .. max_items
    BY <1>1
  <2>4. Ends(items_head)
    BY <2>2, <2>3 DEF Ends
  <2> DEFINE Stops(k) == Steps(items_head)[k] = NULL /\ \A j \in 0 .. k - 1 : Steps(items_head)[j] # NULL
  <2>5. Stops(0)
    BY <2>2, <2>3
  <2>6. ASSUME NEW k \in 0 .. max_items, Stops(k) PROVE k = 0
    <3>1. k # 0 => 0 \in 0 .. k - 1
      BY <1>1
    <3> QED
      BY <2>2, <2>3, <2>6, <3>1
  <2>7. (CHOOSE k \in 0 .. max_items : Stops(k)) = 0
    <3> HIDE DEF Stops
    <3> QED
      BY <2>3, <2>5, <2>6
  <2>8. ListFrom(items_head) = [k \in 1 .. 0 |-> Steps(items_head)[k - 1]]
    BY <2>7 DEF ListFrom
  <2>9. ListFrom(items_head) = << >>
    BY <2>8
  <2> QED
    BY <1>2, <2>4, <2>9
<1>3. CASE added # << >>
  <2>1. 1 \in 1 .. Len(added) /\ items_head = added[1]
    BY <1>1, <1>3, EmptySeq DEF ChainInv
  <2>2. Ends(items_head) /\ ListFrom(items_head) = [k \in 1 .. (Len(added) - 1 + 1) |-> added[1 + k - 1]]
    BY <2>1, ListFromItem
  <2>3. Len(added) - 1 + 1 = Len(added) /\ \A k \in 1 .. Len(added) : 1 + k - 1 = k
    BY <1>1
  <2>4. added = [k \in 1 .. Len(added) |-> added[k]]
    BY <1>1, LenProperties
  <2> QED
    BY <2>2, <2>3, <2>4
<1> QED
  BY <1>2, <1>3

\* add_item()'s search finds the last item of the log.
LEMMA LastItem ==
  ASSUME TypeOK, PoolInv, ChainInv, NEW m \in 1 .. Len(added)
  PROVE  Last(added[m]) = added[Len(added)]
<1>1. Len(added) \in Nat
  BY AddedTyped
<1> DEFINE l == Len(added) - m + 1
           s == [k \in 1 .. l |-> added[m + k - 1]]
<1>2. ListFrom(added[m]) = s
  BY ListFromItem
<1>3. l \in Nat /\ l \in 1 .. l /\ m + l - 1 = Len(added)
  BY <1>1
<1>4. Len(s) = l
  BY <1>3
<1>5. s[l] = added[Len(added)]
  BY <1>3
<1> QED
  BY <1>2, <1>4, <1>5 DEF Last

\* previous() finds an item of the log, or none.
LEMMA PreviousItem ==
  ASSUME TypeOK, PoolInv, ChainInv, NEW k \in 1 .. Len(added)
  PROVE  \/ previous(added[k]) = NULL
         \/ \E j \in 1 .. Len(added) : previous(added[k]) = added[j]
<1>1. /\ Len(added) \in Nat /\ DOMAIN added = 1 .. Len(added)
      /\ \A j \in 1 .. Len(added) : added[j] \in Items /\ added[j] # NULL
  BY AddedTyped
<1>2. added # << >> /\ 1 \in 1 .. Len(added) /\ items_head = added[1]
  <2>1. added # << >>
    BY <1>1
  <2> QED
    BY <1>1, <2>1 DEF ChainInv
<1>3. CASE k = 1
  BY <1>2, <1>3 DEF previous
<1>4. CASE k # 1
  <2>1. k - 1 \in 1 .. Len(added) /\ k - 1 # Len(added) /\ (k - 1) + 1 = k
    BY <1>1, <1>4
  <2>2. next[added[k - 1]] = added[k]
    BY <1>1, <2>1 DEF ChainInv
  <2>3. added[k] # items_head
    BY <1>1, <1>2, <1>4 DEF PoolInv, IsInjective
  <2>4. ListFrom(items_head) = added
    BY WholeList
  <2> DEFINE Before(j) == next[j] = added[k] /\ \E n \in DOMAIN added : added[n] = j
  <2>5. previous(added[k]) = CHOOSE j \in Items : Before(j)
    BY <1>1, <1>2, <2>3, <2>4 DEF previous
  <2>6. added[k - 1] \in Items /\ Before(added[k - 1])
    BY <1>1, <2>1, <2>2
  <2>7. Before(CHOOSE j \in Items : Before(j))
    <3> HIDE DEF Before
    <3> QED
      BY <2>6
  <2> QED
    BY <1>1, <2>5, <2>7
<1> QED
  BY <1>3, <1>4

\* So the list, as the links give it, is what was added, and the pool has the rest.
LEMMA LogInvIsWhatWasAdded ==
  ASSUME TypeOK, PoolInv, ChainInv
  PROVE  ListIsWhatWasAdded
<1>1. Ends(items_head) /\ ListFrom(items_head) = added
  BY WholeList
<1>2. ASSUME NEW i \in Items
      PROVE  Cardinality({k \in DOMAIN pool : pool[k] = i})
               + Cardinality({k \in DOMAIN added : added[k] = i}) = 1
  <2> DEFINE P == {k \in DOMAIN pool : pool[k] = i}
             A == {k \in DOMAIN added : added[k] = i}
  <2>1. CASE \E j \in DOMAIN pool : pool[j] = i
    <3>1. PICK j \in DOMAIN pool : pool[j] = i
      BY <2>1
    <3>2. P = {j} /\ A = {}
      BY <3>1 DEF PoolInv, IsInjective
    <3>3. Cardinality(P) = 1 /\ Cardinality(A) = 0
      BY <3>2, FS_Singleton, FS_EmptySet
    <3> QED
      BY <3>3
  <2>2. CASE \E j \in DOMAIN added : added[j] = i
    <3>1. PICK j \in DOMAIN added : added[j] = i
      BY <2>2
    <3>2. A = {j} /\ P = {}
      BY <3>1 DEF PoolInv, IsInjective
    <3>3. Cardinality(A) = 1 /\ Cardinality(P) = 0
      BY <3>2, FS_Singleton, FS_EmptySet
    <3> QED
      BY <3>3
  <2> QED
    BY <2>1, <2>2 DEF PoolInv
<1> QED
  BY <1>1, <1>2 DEF ListIsWhatWasAdded

-----------------------------------------------------------------------------
(* The steps.                                                              *)

\* A step that leaves the list and the pool alone.
LEMMA MemoryKept ==
  ASSUME PoolInv, ChainInv, UNCHANGED memory
  PROVE  PoolInv' /\ ChainInv'
BY DEF memory, PoolInv, ChainInv

\* items_head is the first item of the log.
LEMMA HeadItem ==
  ASSUME TypeOK, PoolInv, ChainInv
  PROVE  /\ items_head = NULL <=> added = << >>
         /\ added = << >> <=> Len(added) = 0
         /\ added # << >> => 1 \in 1 .. Len(added) /\ Len(added) \in 1 .. Len(added) /\ items_head = added[1]
<1>1. added \in Seq(Items) /\ Len(added) \in Nat /\ \A k \in 1 .. Len(added) : added[k] # NULL
  BY AddedTyped DEF TypeOK
<1>2. added = << >> <=> Len(added) = 0
  BY <1>1, EmptySeq
<1>3. added # << >> => 1 \in 1 .. Len(added) /\ Len(added) \in 1 .. Len(added)
  BY <1>1, <1>2
<1> QED
  BY <1>1, <1>2, <1>3 DEF ChainInv

\* add_item() finds the end of the list and links an item without successor to it.
LEMMA AddKeeps ==
  ASSUME LogInv, NEW s \in Severities, add(s)
  PROVE  LogInv'
<1> USE DEF NULL
<1> DEFINE new == Head(pool)
           n == Len(added)
<1>0. TypeOK /\ PoolInv /\ ChainInv /\ ViewInv
  BY DEF LogInv
<1>1. /\ pool # << >> /\ pool' = Tail(pool) /\ added' = Append(added, new)
      /\ severity' = [severity EXCEPT ![new] = s]
      /\ position = "closed" /\ UNCHANGED <<viewer, monitor>> /\ ~hung
  BY DEF add
<1>2. /\ n \in Nat /\ DOMAIN added = 1 .. n /\ n <= max_items
      /\ Len(pool) \in Nat /\ DOMAIN pool = 1 .. Len(pool)
      /\ pool \in Seq(Items) /\ added \in Seq(Items)
      /\ \A k \in 1 .. n : added[k] \in Items /\ added[k] # NULL
      /\ \A k \in 1 .. Len(pool) : pool[k] \in Items /\ pool[k] # NULL
  BY <1>0, AddedTyped DEF TypeOK
<1>3. /\ Len(pool) > 0 /\ 1 \in 1 .. Len(pool) /\ new = pool[1] /\ new \in Items
  BY <1>1, <1>2, EmptySeq
<1>4. /\ pool' \in Seq(Items) /\ Len(pool') = Len(pool) - 1 /\ DOMAIN pool' = 1 .. Len(pool) - 1
      /\ \A j \in 1 .. Len(pool) - 1 : pool'[j] = pool[j + 1]
  BY <1>1, <1>2, HeadTailProperties, LenProperties
<1>5. /\ added' \in Seq(Items) /\ Len(added') = n + 1 /\ DOMAIN added' = 1 .. n + 1
      /\ \A k \in 1 .. n : added'[k] = added[k]
      /\ added'[n + 1] = new
  BY <1>1, <1>2, <1>3, AppendProperties, LenProperties
<1>6. /\ \A k \in 1 .. n : added[k] # new
      /\ \A j \in 1 .. Len(pool) - 1 : pool[j + 1] # new
      /\ next[new] = NULL
  <2>1. \A k \in 1 .. n : added[k] # new
    BY <1>0, <1>2, <1>3 DEF PoolInv
  <2>2. ASSUME NEW j \in 1 .. Len(pool) - 1 PROVE pool[j + 1] # new
    <3>1. j + 1 \in 1 .. Len(pool) /\ j + 1 # 1
      BY <1>2
    <3> QED
      BY <1>0, <1>2, <1>3, <3>1 DEF PoolInv, IsInjective
  <2> QED
    BY <1>0, <1>2, <1>3, <2>1, <2>2 DEF PoolInv
<1>7. IsInjective(pool')
  <2> SUFFICES ASSUME NEW j \in 1 .. Len(pool) - 1, NEW k \in 1 .. Len(pool) - 1, pool'[j] = pool'[k]
               PROVE  j = k
    BY <1>4 DEF IsInjective
  <2>1. j + 1 \in 1 .. Len(pool) /\ k + 1 \in 1 .. Len(pool) /\ pool[j + 1] = pool[k + 1]
    BY <1>2, <1>4
  <2>2. j + 1 = k + 1
    BY <1>0, <1>2, <2>1 DEF PoolInv, IsInjective
  <2> QED
    BY <1>2, <2>2
<1>8. IsInjective(added')
  <2> SUFFICES ASSUME NEW j \in 1 .. n + 1, NEW k \in 1 .. n + 1, added'[j] = added'[k]
               PROVE  j = k
    BY <1>5 DEF IsInjective
  <2>1. \A m \in 1 .. n + 1 : m \in 1 .. n \/ m = n + 1
    BY <1>2
  <2>2. CASE j \in 1 .. n /\ k \in 1 .. n
    <3>1. j \in DOMAIN added /\ k \in DOMAIN added /\ added[j] = added[k]
      BY <1>2, <1>5, <2>2
    <3> QED
      BY <1>0, <3>1 DEF PoolInv, IsInjective
  <2>3. CASE j = n + 1 \/ k = n + 1
    BY <1>5, <1>6, <2>1, <2>3
  <2> QED
    BY <2>1, <2>2, <2>3
<1>9. \A j \in DOMAIN pool', k \in DOMAIN added' : pool'[j] # added'[k]
  <2> TAKE j \in DOMAIN pool', k \in DOMAIN added'
  <2>1. j + 1 \in 1 .. Len(pool) /\ pool'[j] = pool[j + 1] /\ pool[j + 1] # new
    BY <1>2, <1>4, <1>6
  <2>2. k \in 1 .. n \/ k = n + 1
    BY <1>2, <1>5
  <2> QED
    BY <1>0, <1>2, <1>5, <2>1, <2>2 DEF PoolInv
<1>10. ASSUME NEW i \in Items
       PROVE  (\E j \in DOMAIN pool' : pool'[j] = i) \/ (\E k \in DOMAIN added' : added'[k] = i)
  <2>1. CASE \E j \in DOMAIN pool : pool[j] = i
    <3>1. PICK j \in 1 .. Len(pool) : pool[j] = i
      BY <1>2, <2>1
    <3>2. CASE j = 1
      <4>1. n + 1 \in 1 .. n + 1
        BY <1>2
      <4> QED
        BY <1>3, <1>5, <3>1, <3>2, <4>1
    <3>3. CASE j # 1
      <4>1. j - 1 \in 1 .. Len(pool) - 1 /\ (j - 1) + 1 = j
        BY <1>2, <3>3
      <4>2. pool'[j - 1] = i
        BY <1>4, <3>1, <4>1
      <4> QED
        BY <1>4, <4>1, <4>2
    <3> QED
      BY <3>2, <3>3
  <2>2. CASE \E k \in DOMAIN added : added[k] = i
    <3>1. PICK k \in 1 .. n : added[k] = i
      BY <1>2, <2>2
    <3>2. k \in 1 .. n + 1
      BY <1>2
    <3> QED
      BY <1>5, <3>1, <3>2
  <2> QED
    BY <1>0, <2>1, <2>2 DEF PoolInv
<1>11. /\ hung' = FALSE
       /\ items_head' = IF added = << >> THEN new ELSE items_head
       /\ next' = IF added = << >> THEN next ELSE [next EXCEPT ![added[n]] = new]
  <2>1. Ends(items_head) /\ (items_head = NULL <=> added = << >>)
    BY <1>0, WholeList, HeadItem
  <2>2. added # << >> => Last(items_head) = added[n]
    BY <1>0, HeadItem, LastItem
  <2>3. CASE added = << >>
    BY <1>1, <2>1, <2>3 DEF add
  <2>4. CASE added # << >>
    BY <1>1, <2>1, <2>2, <2>4 DEF add
  <2> QED
    BY <2>3, <2>4
<1>12. next \in [Items -> Pointers] /\ Items \subseteq Pointers /\ NULL \in Pointers /\ NULL \notin Items
  BY <1>0, AddedTyped DEF TypeOK, Pointers
<1>13. ASSUME added = << >>
       PROVE  /\ items_head' = added'[1] /\ added' # << >>
              /\ items_head' \in Pointers /\ next' \in [Items -> Pointers]
              /\ \A k \in DOMAIN added' : next'[added'[k]] = IF k = Len(added') THEN NULL ELSE added'[k + 1]
              /\ \A j \in DOMAIN pool' : next'[pool'[j]] = NULL
  <2>1. n = 0 /\ items_head' = added'[1] /\ next' = next /\ added' # << >>
    BY <1>0, <1>1, <1>2, <1>3, <1>5, <1>11, <1>13, HeadItem, AppendProperties
  <2>2. \A k \in DOMAIN added' : next'[added'[k]] = IF k = Len(added') THEN NULL ELSE added'[k + 1]
    BY <1>5, <1>6, <2>1
  <2>3. \A j \in DOMAIN pool' : next'[pool'[j]] = NULL
    <3> TAKE j \in DOMAIN pool'
    <3>1. j + 1 \in 1 .. Len(pool) /\ pool'[j] = pool[j + 1]
      BY <1>2, <1>4
    <3> QED
      BY <1>0, <1>2, <2>1, <3>1 DEF PoolInv
  <2>4. items_head' \in Pointers /\ next' \in [Items -> Pointers]
    BY <1>3, <1>11, <1>12, <1>13
  <2> QED
    BY <2>1, <2>2, <2>3, <2>4
<1>14. ASSUME added # << >>
       PROVE  /\ items_head' = added'[1] /\ added' # << >>
              /\ items_head' \in Pointers /\ next' \in [Items -> Pointers]
              /\ \A k \in DOMAIN added' : next'[added'[k]] = IF k = Len(added') THEN NULL ELSE added'[k + 1]
              /\ \A j \in DOMAIN pool' : next'[pool'[j]] = NULL
  <2>1. /\ n \in 1 .. n /\ 1 \in 1 .. n /\ items_head' = added'[1] /\ added' # << >>
        /\ added[n] \in Items /\ next' = [next EXCEPT ![added[n]] = new]
    BY <1>0, <1>1, <1>2, <1>3, <1>5, <1>11, <1>14, HeadItem, AppendProperties
  <2>2. ASSUME NEW k \in DOMAIN added'
        PROVE  next'[added'[k]] = IF k = Len(added') THEN NULL ELSE added'[k + 1]
    <3>1. CASE k = n + 1
      <4>1. added'[k] = new /\ new # added[n]
        BY <1>5, <1>6, <2>1, <3>1
      <4> QED
        BY <1>3, <1>5, <1>6, <1>12, <2>1, <3>1, <4>1
    <3>2. CASE k = n
      <4>0. n + 1 # n
        <5>1. \A q \in Nat : q + 1 # q
          OBVIOUS
        <5>2. n \in Nat
          BY <1>2
        <5> HIDE DEF n
        <5> QED
          BY <5>1, <5>2
      <4>1. added'[k] = added[n] /\ k # Len(added') /\ added'[k + 1] = new
        BY <1>5, <2>1, <3>2, <4>0
      <4> QED
        BY <1>12, <2>1, <4>1
    <3>3. CASE k \in 1 .. n - 1
      <4>1. k \in 1 .. n /\ k # n /\ k # Len(added') /\ k + 1 \in 1 .. n
        BY <1>2, <1>5, <3>3
      <4>2. added[k] # added[n] /\ added[k] \in Items
        BY <1>0, <1>2, <2>1, <4>1 DEF PoolInv, IsInjective
      <4>3. next[added[k]] = added[k + 1]
        BY <1>0, <1>2, <4>1 DEF ChainInv
      <4> QED
        BY <1>5, <1>12, <2>1, <4>1, <4>2, <4>3
    <3> QED
      BY <1>2, <1>5, <3>1, <3>2, <3>3
  <2>3. \A j \in DOMAIN pool' : next'[pool'[j]] = NULL
    <3> TAKE j \in DOMAIN pool'
    <3>1. j + 1 \in 1 .. Len(pool) /\ pool'[j] = pool[j + 1]
      BY <1>2, <1>4
    <3>2. pool[j + 1] # added[n] /\ next[pool[j + 1]] = NULL /\ pool[j + 1] \in Items
      BY <1>0, <1>2, <2>1, <3>1 DEF PoolInv
    <3> QED
      BY <1>12, <2>1, <3>1, <3>2
  <2>4. items_head' \in Pointers /\ next' \in [Items -> Pointers]
    BY <1>0, <1>3, <1>11, <1>12, <1>14, <2>1 DEF TypeOK
  <2> QED
    BY <2>1, <2>2, <2>3, <2>4
<1>18. /\ items_head' = added'[1] /\ added' # << >>
       /\ items_head' \in Pointers /\ next' \in [Items -> Pointers]
       /\ \A k \in DOMAIN added' : next'[added'[k]] = IF k = Len(added') THEN NULL ELSE added'[k + 1]
       /\ \A j \in DOMAIN pool' : next'[pool'[j]] = NULL
  <2>1. CASE added = << >>
    BY <1>13, <2>1
  <2>2. CASE added # << >>
    BY <1>14, <2>2
  <2> QED
    BY <2>1, <2>2
<1>15. PoolInv' /\ ChainInv'
  <2>1. PoolInv'
    BY <1>7, <1>8, <1>9, <1>10, <1>18 DEF PoolInv
  <2>2. ChainInv'
    BY <1>18 DEF ChainInv
  <2> QED
    BY <2>1, <2>2
<1>16. TypeOK'
  <2>1. severity' \in [Items -> Severities]
    BY <1>0, <1>1 DEF TypeOK
  <2>2. Len(pool') <= max_items
    BY <1>4, <1>7, NoMoreThanItems
  <2>3. items_head' \in Pointers /\ next' \in [Items -> Pointers]
    BY <1>18
  <2> QED
    BY <1>0, <1>1, <1>4, <1>5, <1>11, <2>1, <2>2, <2>3 DEF TypeOK, viewer, monitor
<1>17. ViewInv'
  BY <1>0, <1>1 DEF ViewInv, ViewerOnItem, viewer
<1> QED
  BY <1>15, <1>16, <1>17 DEF LogInv

\* clear() returns an item to the pool that links to no other.
LEMMA RemoveKeeps ==
  ASSUME LogInv, remove
  PROVE  LogInv'
<1> USE DEF NULL
<1> DEFINE h == added[1]
<1>0. TypeOK /\ PoolInv /\ ChainInv /\ ViewInv
  BY DEF LogInv
<1>1. /\ clearing /\ items_head # NULL /\ items_head' = next[items_head]
      /\ pool' = <<items_head>> \o pool /\ added' = Tail(added)
      /\ UNCHANGED <<next, severity, hung, viewer, monitor>>
  BY DEF remove
<1>2. /\ Len(added) \in Nat /\ DOMAIN added = 1 .. Len(added)
      /\ Len(pool) \in Nat /\ DOMAIN pool = 1 .. Len(pool)
      /\ pool \in Seq(Items) /\ added \in Seq(Items)
      /\ \A k \in 1 .. Len(added) : added[k] \in Items
      /\ NULL \in Pointers
  BY <1>0, AddedTyped DEF TypeOK, Pointers
<1>3. added # << >> /\ items_head = h /\ Len(added) = 1 /\ h \in Items /\ 1 \in DOMAIN added
  <2>1. added # << >> /\ items_head = h /\ 1 \in 1 .. Len(added)
    BY <1>0, <1>1, HeadItem
  <2>2. Len(added) <= 1
    BY <1>0, <1>1 DEF ViewInv
  <2> QED
    BY <1>2, <2>1, <2>2
<1>4. next[h] = NULL
  BY <1>0, <1>3 DEF ChainInv
<1>5. added' = << >> /\ items_head' = NULL /\ DOMAIN added' = {} /\ Len(added') = 0
  <2>1. added' \in Seq(Items) /\ Len(added') = 0
    BY <1>1, <1>2, <1>3, HeadTailProperties
  <2>2. added' = << >>
    BY <2>1, EmptySeq
  <2> QED
    BY <1>1, <1>3, <1>4, <2>1, <2>2
<1>6. /\ pool' \in Seq(Items) /\ Len(pool') = 1 + Len(pool) /\ DOMAIN pool' = 1 .. Len(pool) + 1
      /\ pool'[1] = h
      /\ \A j \in 1 .. Len(pool) : pool'[j + 1] = pool[j]
  <2> DEFINE one == <<h>>
  <2>1. one \in Seq(Items) /\ Len(one) = 1 /\ one[1] = h
    BY <1>3
  <2>2. pool' = one \o pool
    BY <1>1, <1>3
  <2> HIDE DEF one
  <2>3. /\ one \o pool \in Seq(Items) /\ Len(one \o pool) = 1 + Len(pool)
        /\ \A j \in 1 .. 1 + Len(pool) : (one \o pool)[j] = IF j <= 1 THEN one[j] ELSE pool[j - 1]
    <3>1. /\ one \o pool \in Seq(Items) /\ Len(one \o pool) = Len(one) + Len(pool)
          /\ \A j \in 1 .. Len(one) + Len(pool) :
               (one \o pool)[j] = IF j <= Len(one) THEN one[j] ELSE pool[j - Len(one)]
      BY <1>2, <2>1, ConcatProperties
    <3> QED
      BY <2>1, <3>1
  <2>4. DOMAIN pool' = 1 .. Len(pool) + 1
    BY <1>2, <2>2, <2>3, LenProperties
  <2>5. \A j \in 1 .. Len(pool) : j + 1 \in 1 .. 1 + Len(pool) /\ ~ (j + 1 <= 1) /\ (j + 1) - 1 = j
    BY <1>2
  <2>6. 1 \in 1 .. 1 + Len(pool)
    BY <1>2
  <2> QED
    BY <2>1, <2>2, <2>3, <2>4, <2>5, <2>6
<1>7. \A j \in DOMAIN pool' : j = 1 \/ (j - 1 \in 1 .. Len(pool) /\ (j - 1) + 1 = j /\ pool'[j] = pool[j - 1])
  <2> TAKE j \in DOMAIN pool'
  <2>1. j = 1 \/ (j - 1 \in 1 .. Len(pool) /\ (j - 1) + 1 = j)
    BY <1>2, <1>6
  <2> QED
    BY <1>6, <2>1
<1>8. \A j \in 1 .. Len(pool) : pool[j] # h /\ next[pool[j]] = NULL
  BY <1>0, <1>2, <1>3 DEF PoolInv
<1>9. IsInjective(pool')
  <2> SUFFICES ASSUME NEW j \in DOMAIN pool', NEW k \in DOMAIN pool', pool'[j] = pool'[k]
               PROVE  j = k
    BY DEF IsInjective
  <2>1. CASE j = 1 \/ k = 1
    BY <1>6, <1>7, <1>8, <2>1
  <2>2. CASE j # 1 /\ k # 1
    <3>1. j - 1 \in 1 .. Len(pool) /\ k - 1 \in 1 .. Len(pool) /\ pool[j - 1] = pool[k - 1]
      BY <1>7, <2>2
    <3>2. j - 1 = k - 1
      BY <1>0, <1>2, <3>1 DEF PoolInv, IsInjective
    <3> QED
      BY <1>7, <2>2, <3>2
  <2> QED
    BY <2>1, <2>2
<1>10. ASSUME NEW i \in Items
       PROVE  \E j \in DOMAIN pool' : pool'[j] = i
  <2>1. CASE \E j \in DOMAIN pool : pool[j] = i
    <3>1. PICK j \in 1 .. Len(pool) : pool[j] = i
      BY <1>2, <2>1
    <3>2. j + 1 \in DOMAIN pool' /\ pool'[j + 1] = i
      BY <1>2, <1>6, <3>1
    <3> QED
      BY <3>2
  <2>2. CASE \E k \in DOMAIN added : added[k] = i
    <3>1. i = h
      BY <1>2, <1>3, <2>2
    <3>2. 1 \in DOMAIN pool'
      BY <1>2, <1>6
    <3> QED
      BY <1>6, <3>1, <3>2
  <2> QED
    BY <1>0, <2>1, <2>2 DEF PoolInv
<1>11. \A j \in DOMAIN pool' : next'[pool'[j]] = NULL
  BY <1>1, <1>4, <1>6, <1>7, <1>8
<1>12. PoolInv' /\ ChainInv'
  <2>1. IsInjective(added')
    BY <1>5 DEF IsInjective
  <2> QED
    BY <1>5, <1>9, <1>10, <1>11, <2>1 DEF PoolInv, ChainInv
<1>13. TypeOK'
  <2>1. Len(pool') <= max_items
    BY <1>6, <1>9, NoMoreThanItems
  <2>2. added' \in Seq(Items)
    BY <1>5
  <2> QED
    BY <1>0, <1>1, <1>2, <1>5, <1>6, <2>1, <2>2 DEF TypeOK, viewer, monitor
<1>14. ViewInv'
  BY <1>0, <1>1, <1>5 DEF ViewInv, ViewerOnItem, viewer
<1> QED
  BY <1>12, <1>13, <1>14 DEF LogInv

\* The viewer starts at the first item.
LEMMA OpenKeeps ==
  ASSUME LogInv, open
  PROVE  LogInv'
<1>1. /\ position' = "items" /\ item' = items_head /\ UNCHANGED <<memory, hung, clearing, monitor>>
      /\ position = "closed"
  BY DEF open, View
<1>2. TypeOK /\ PoolInv /\ ChainInv /\ ViewInv
  BY DEF LogInv
<1>3. TypeOK'
  BY <1>1, <1>2 DEF TypeOK, memory, monitor, Positions
<1>4. PoolInv' /\ ChainInv'
  BY <1>1, <1>2, MemoryKept
<1>5. ~ clearing'
  BY <1>1, <1>2 DEF ViewInv
<1>6. ViewInv'
  <2>1. /\ items_head = NULL <=> added = << >>
        /\ added # << >> => 1 \in DOMAIN added /\ items_head = added[1]
    BY <1>2, HeadItem, AddedTyped
  <2> QED
    BY <1>1, <1>5, <2>1 DEF ViewInv, ViewerOnItem, memory
<1> QED
  BY <1>3, <1>4, <1>6 DEF LogInv

\* A viewer that is not clearing has an item if the log has one.
LEMMA AttendedItem ==
  ASSUME LogInv, ~clearing, position # "closed"
  PROVE  /\ item = NULL <=> added = << >>
         /\ position = "clear" => item # NULL
         /\ item # NULL => \E k \in 1 .. Len(added) : item = added[k]
BY AddedTyped DEF LogInv, ViewInv, ViewerOnItem

\* The viewer may go to any item of the log, and only to "Clear" with one.
LEMMA ViewKeeps ==
  ASSUME LogInv, ~clearing, NEW p \in Positions, NEW i, View(p, i),
         i = NULL <=> added = << >>,
         i # NULL => \E k \in 1 .. Len(added) : i = added[k],
         p = "clear" => i # NULL
  PROVE  LogInv'
<1>1. position' = p /\ item' = i /\ UNCHANGED <<memory, hung, clearing, monitor>>
  BY DEF View
<1>2. TypeOK /\ PoolInv /\ ChainInv /\ ViewInv
  BY DEF LogInv
<1>3. DOMAIN added = 1 .. Len(added) /\ \A k \in 1 .. Len(added) : added[k] \in Items
  BY <1>2, AddedTyped
<1>4. i \in Pointers
  BY <1>3 DEF Pointers
<1>5. TypeOK'
  BY <1>1, <1>2, <1>4 DEF TypeOK, memory, monitor
<1>6. PoolInv' /\ ChainInv'
  BY <1>1, <1>2, MemoryKept
<1>7. ViewInv'
  BY <1>1, <1>3 DEF ViewInv, ViewerOnItem, memory
<1> QED
  BY <1>5, <1>6, <1>7 DEF LogInv

\* MASK_LEFT goes to an item before, or stays.
LEMMA LeftKeeps ==
  ASSUME LogInv, left
  PROVE  LogInv'
<1>1. ~clearing /\ TypeOK /\ PoolInv /\ ChainInv
  BY DEF left, Attends, LogInv
<1>2. "items" \in Positions /\ "clear" \in Positions
  BY DEF Positions
<1>3. CASE position = "items" /\ View("items", IF previous(item) = NULL /\ item # NULL THEN item ELSE previous(item))
  <2> DEFINE i == IF previous(item) = NULL /\ item # NULL THEN item ELSE previous(item)
  <2>1. /\ item = NULL <=> added = << >>
        /\ item # NULL => \E k \in 1 .. Len(added) : item = added[k]
    BY <1>1, <1>3, AttendedItem
  <2>2. CASE item = NULL
    <3>1. items_head = NULL
      BY <1>1, <2>1, <2>2, HeadItem
    <3>2. i = NULL
      BY <2>2, <3>1 DEF previous
    <3> HIDE DEF i
    <3> QED
      BY <1>1, <1>2, <1>3, <2>1, <2>2, <3>2, ViewKeeps DEF i
  <2>3. CASE item # NULL
    <3>1. PICK k \in 1 .. Len(added) : item = added[k]
      BY <2>1, <2>3
    <3>2. previous(item) = NULL \/ \E j \in 1 .. Len(added) : previous(item) = added[j]
      BY <1>1, <3>1, PreviousItem
    <3>3. i # NULL /\ \E j \in 1 .. Len(added) : i = added[j]
      BY <2>3, <3>1, <3>2
    <3>4. View("items", i)
      BY <1>3
    <3> HIDE DEF i
    <3> QED
      BY <1>1, <1>2, <2>1, <2>3, <3>3, <3>4, ViewKeeps
  <2> QED
    BY <2>2, <2>3
<1>4. CASE position = "clear" /\ View("items", IF item = NULL THEN NULL ELSE Last(item))
  <2> DEFINE i == IF item = NULL THEN NULL ELSE Last(item)
  <2>1. item # NULL /\ added # << >> /\ \E k \in 1 .. Len(added) : item = added[k]
    BY <1>1, <1>4, AttendedItem
  <2>2. i = added[Len(added)]
    BY <1>1, <2>1, LastItem
  <2>3. Len(added) \in 1 .. Len(added) /\ added[Len(added)] # NULL
    BY <1>1, <2>1, HeadItem, AddedTyped
  <2>4. View("items", i)
    BY <1>4
  <2> HIDE DEF i
  <2> QED
    BY <1>1, <1>2, <2>1, <2>2, <2>3, <2>4, ViewKeeps
<1>5. CASE position = "exit" /\ View(IF item = NULL THEN "items" ELSE "clear", item)
  <2> DEFINE p == IF item = NULL THEN "items" ELSE "clear"
  <2>1. /\ item = NULL <=> added = << >>
        /\ item # NULL => \E k \in 1 .. Len(added) : item = added[k]
    BY <1>1, <1>5, AttendedItem
  <2>2. p \in Positions /\ (p = "clear" => item # NULL) /\ View(p, item)
    BY <1>2, <1>5
  <2> HIDE DEF p
  <2> QED
    BY <1>1, <2>1, <2>2, ViewKeeps
<1> QED
  BY <1>3, <1>4, <1>5 DEF left

\* MASK_RIGHT goes to the next item, or past the last.
LEMMA RightKeeps ==
  ASSUME LogInv, right
  PROVE  LogInv'
<1>1. ~clearing /\ TypeOK /\ PoolInv /\ ChainInv
  BY DEF right, Attends, LogInv
<1>2. "items" \in Positions /\ "clear" \in Positions /\ "exit" \in Positions
  BY DEF Positions
<1>3. CASE position = "items" /\ item = NULL /\ View("exit", item)
  BY <1>1, <1>2, <1>3, AttendedItem, ViewKeeps
<1>4. CASE /\ position = "items" /\ item # NULL
           /\ IF next[item] = NULL THEN View("clear", item) ELSE View("items", next[item])
  <2>1. /\ item = NULL <=> added = << >>
        /\ \E k \in 1 .. Len(added) : item = added[k]
    BY <1>1, <1>4, AttendedItem
  <2>2. CASE next[item] = NULL
    BY <1>1, <1>2, <1>4, <2>1, <2>2, ViewKeeps
  <2>3. CASE next[item] # NULL
    <3>1. PICK k \in 1 .. Len(added) : item = added[k]
      BY <2>1
    <3>2. Len(added) \in Nat /\ DOMAIN added = 1 .. Len(added)
      BY <1>1, AddedTyped
    <3>3. next[item] = added[k + 1] /\ k # Len(added)
      BY <1>1, <2>3, <3>1, <3>2 DEF ChainInv
    <3>4. k + 1 \in 1 .. Len(added)
      <4>1. \A n \in Nat : \A q \in 1 .. n : q # n => q + 1 \in 1 .. n
        OBVIOUS
      <4>2. Len(added) \in Nat /\ k \in 1 .. Len(added) /\ k # Len(added)
        BY <3>1, <3>2, <3>3
      <4> QED
        BY <4>1, <4>2
    <3>5. View("items", next[item])
      BY <1>4, <2>3
    <3> QED
      BY <1>1, <1>2, <1>4, <2>1, <2>3, <3>3, <3>4, <3>5, ViewKeeps
  <2> QED
    BY <2>2, <2>3
<1>5. CASE position = "clear" /\ View("exit", item)
  BY <1>1, <1>2, <1>5, AttendedItem, ViewKeeps
<1> QED
  BY <1>3, <1>4, <1>5 DEF right

\* SELECT starts clear() on one item at most.
LEMMA SelectKeeps ==
  ASSUME MaxClear <= 1, LogInv, select
  PROVE  LogInv'
<1>1. /\ position = "clear" /\ Len(added) <= MaxClear /\ clearing' = TRUE
      /\ UNCHANGED <<memory, hung, position, item, monitor>>
  BY DEF select
<1>2. TypeOK /\ PoolInv /\ ChainInv /\ ViewInv
  BY DEF LogInv
<1>3. Len(added) \in Nat /\ MaxClear \in Nat
  BY <1>2, AddedTyped, ItemAssumption
<1>4. TypeOK'
  BY <1>1, <1>2 DEF TypeOK, memory, monitor
<1>5. PoolInv' /\ ChainInv'
  BY <1>1, <1>2, MemoryKept
<1>6. Len(added) <= 1
  BY <1>1, <1>3
<1>7. ViewInv'
  BY <1>1, <1>6 DEF ViewInv, ViewerOnItem, memory
<1> QED
  BY <1>4, <1>5, <1>7 DEF LogInv

\* clear() ends with an empty log, and the viewer has no item.
LEMMA ClearedKeeps ==
  ASSUME LogInv, cleared
  PROVE  LogInv'
<1>1. /\ items_head = NULL /\ clearing' = FALSE /\ position' = "items" /\ item' = NULL
      /\ UNCHANGED <<memory, hung, monitor>>
  BY DEF cleared
<1>2. TypeOK /\ PoolInv /\ ChainInv /\ ViewInv
  BY DEF LogInv
<1>3. TypeOK'
  BY <1>1, <1>2 DEF TypeOK, memory, monitor, Pointers, Positions
<1>4. PoolInv' /\ ChainInv'
  BY <1>1, <1>2, MemoryKept
<1>5. added = << >>
  BY <1>1, <1>2, HeadItem
<1>6. ViewInv'
  BY <1>1, <1>5 DEF ViewInv, ViewerOnItem, memory
<1> QED
  BY <1>3, <1>4, <1>6 DEF LogInv

\* A viewer that is closed shows nothing.
LEMMA LeaveKeeps ==
  ASSUME LogInv, leave
  PROVE  LogInv'
<1>1. /\ ~clearing /\ position' = "closed" /\ item' = item
      /\ UNCHANGED <<memory, hung, clearing, monitor>>
  BY DEF leave, Attends, View
<1>2. TypeOK /\ PoolInv /\ ChainInv /\ ViewInv
  BY DEF LogInv
<1>3. TypeOK'
  BY <1>1, <1>2 DEF TypeOK, memory, monitor, Positions
<1>4. PoolInv' /\ ChainInv'
  BY <1>1, <1>2, MemoryKept
<1>5. ViewInv'
  BY <1>1 DEF ViewInv, ViewerOnItem
<1> QED
  BY <1>3, <1>4, <1>5 DEF LogInv

\* The monitor only reads the list, and its walk is at an item, at NULL or asleep.
LEMMA MonitorKeeps ==
  ASSUME LogInv, run_monitor
  PROVE  LogInv'
<1>1. TypeOK /\ PoolInv /\ ChainInv /\ ViewInv
  BY DEF LogInv
<1>2. UNCHANGED <<memory, hung, viewer>>
  BY DEF run_monitor, walkStart, walkStep, walkEnd
<1>3. walk' \in Pointers \union {ASLEEP} /\ seen' \subseteq Severities /\ shown' \subseteq Severities
  <2>1. CASE walkStart
    BY <1>1, <2>1 DEF walkStart, TypeOK
  <2>2. CASE walkStep
    BY <1>1, <2>2 DEF walkStep, TypeOK
  <2>3. CASE walkEnd
    BY <1>1, <2>3 DEF walkEnd, TypeOK
  <2> QED
    BY <2>1, <2>2, <2>3 DEF run_monitor
<1>4. TypeOK'
  BY <1>1, <1>2, <1>3 DEF TypeOK, memory, viewer
<1>5. PoolInv' /\ ChainInv'
  BY <1>1, <1>2, MemoryKept
<1>6. ViewInv'
  BY <1>1, <1>2 DEF ViewInv, ViewerOnItem, memory, viewer
<1> QED
  BY <1>4, <1>5, <1>6 DEF LogInv

\* An add_item() without an item in the pool adds nothing.
LEMMA ExhaustedKeeps ==
  ASSUME LogInv, addExhausted
  PROVE  LogInv'
<1>1. hung' \in BOOLEAN /\ UNCHANGED <<memory, viewer, monitor>>
  BY DEF addExhausted
<1>2. TypeOK /\ PoolInv /\ ChainInv /\ ViewInv
  BY DEF LogInv
<1>3. TypeOK'
  BY <1>1, <1>2 DEF TypeOK, memory, viewer, monitor
<1>4. PoolInv' /\ ChainInv'
  BY <1>1, <1>2, MemoryKept
<1>5. ViewInv'
  BY <1>1, <1>2 DEF ViewInv, ViewerOnItem, memory, viewer
<1> QED
  BY <1>3, <1>4, <1>5 DEF LogInv

\* At reset the pool has every item, and no item has a successor.
LEMMA InitLogInv ==
  ASSUME Init
  PROVE  LogInv
<1>0. max_items \in Nat \ {0}
  BY ItemAssumption
<1>1. /\ items_head = NULL /\ next = [i \in Items |-> NULL] /\ severity = [i \in Items |-> "warning"]
      /\ pool = [i \in Items |-> max_items + 1 - i]
      /\ hung = FALSE /\ position = "closed" /\ item = NULL /\ clearing = FALSE
      /\ walk = ASLEEP /\ seen = {} /\ shown = {} /\ added = << >>
  BY DEF Init
<1>2. \A i \in 1 .. max_items : max_items + 1 - i \in 1 .. max_items
  BY <1>0
<1>3. pool \in [1 .. max_items -> Items]
  BY <1>1, <1>2 DEF Items
<1>4. pool \in Seq(Items) /\ Len(pool) = max_items /\ DOMAIN pool = 1 .. max_items
  BY <1>0, <1>3
<1>5. added \in Seq(Items) /\ Len(added) = 0 /\ DOMAIN added = {}
  BY <1>1
<1>6. TypeOK
  <2>1. next \in [Items -> Pointers] /\ severity \in [Items -> Severities]
    BY <1>1 DEF Pointers, Severities
  <2>2. Len(pool) <= max_items
    BY <1>0, <1>4
  <2>3. /\ items_head \in Pointers /\ hung \in BOOLEAN /\ position \in Positions /\ item \in Pointers
        /\ clearing \in BOOLEAN /\ walk \in Pointers \union {ASLEEP}
        /\ seen \subseteq Severities /\ shown \subseteq Severities
    BY <1>1 DEF Pointers, Positions
  <2> QED
    BY <1>4, <1>5, <2>1, <2>2, <2>3 DEF TypeOK
<1>7. IsInjective(pool)
  <2> SUFFICES ASSUME NEW j \in 1 .. max_items, NEW k \in 1 .. max_items, pool[j] = pool[k] PROVE j = k
    BY <1>4 DEF IsInjective
  <2>1. max_items + 1 - j = max_items + 1 - k
    BY <1>1 DEF Items
  <2> QED
    BY <1>0, <2>1
<1>8. ASSUME NEW i \in Items PROVE \E j \in DOMAIN pool : pool[j] = i
  <2>1. max_items + 1 - i \in 1 .. max_items /\ max_items + 1 - (max_items + 1 - i) = i
    BY <1>0 DEF Items
  <2>2. pool[max_items + 1 - i] = i
    BY <1>1, <2>1 DEF Items
  <2> QED
    BY <1>4, <2>1, <2>2
<1>9. \A j \in DOMAIN pool : next[pool[j]] = NULL
  BY <1>1, <1>3, <1>4
<1>10. PoolInv
  BY <1>5, <1>7, <1>8, <1>9 DEF PoolInv, IsInjective
<1>11. ChainInv /\ ViewInv
  BY <1>1, <1>5 DEF ChainInv, ViewInv, ViewerOnItem
<1> QED
  BY <1>6, <1>10, <1>11 DEF LogInv

\* Every step keeps the invariant.
LEMMA StepLogInv ==
  ASSUME MaxClear <= 1, LogInv, [Next]_vars
  PROVE  LogInv'
<1>1. ASSUME NEW s \in Severities, add(s) PROVE LogInv'
  BY <1>1, AddKeeps
<1>2. CASE addExhausted
  BY <1>2, ExhaustedKeeps
<1>3. CASE open
  BY <1>3, OpenKeeps
<1>4. CASE left
  BY <1>4, LeftKeeps
<1>5. CASE right
  BY <1>5, RightKeeps
<1>6. CASE select
  BY <1>6, SelectKeeps
<1>7. CASE remove
  BY <1>7, RemoveKeeps
<1>8. CASE cleared
  BY <1>8, ClearedKeeps
<1>9. CASE leave
  BY <1>9, LeaveKeeps
<1>10. CASE run_monitor
  BY <1>10, MonitorKeeps
<1>11. CASE UNCHANGED vars
  <2>1. UNCHANGED <<memory, hung, viewer, monitor>>
    BY <1>11 DEF vars, memory, viewer, monitor
  <2>2. TypeOK /\ PoolInv /\ ChainInv /\ ViewInv
    BY DEF LogInv
  <2>3. TypeOK'
    BY <2>1, <2>2 DEF TypeOK, memory, viewer, monitor
  <2>4. PoolInv' /\ ChainInv'
    BY <2>1, <2>2, MemoryKept
  <2>5. ViewInv'
    BY <2>1, <2>2 DEF ViewInv, ViewerOnItem, memory, viewer
  <2> QED
    BY <2>3, <2>4, <2>5 DEF LogInv
<1> QED
  BY <1>1, <1>2, <1>3, <1>4, <1>5, <1>6, <1>7, <1>8, <1>9, <1>10, <1>11 DEF Next

-----------------------------------------------------------------------------
(* The theorems.                                                           *)

\* The inductive invariant holds of every run in which clear() finds at most
\* one item.
THEOREM LogKept ==
  ASSUME MaxClear <= 1
  PROVE  Spec => []LogInv
<1>1. Init => LogInv
  BY InitLogInv
<1>2. LogInv /\ [Next]_vars => LogInv'
  BY StepLogInv
<1> QED
  BY <1>1, <1>2, PTL DEF Spec

\* EventLog::add_item() and remove_item(): the list, as the links give it, is
\* what was added and not removed, in order, and the pool has the other items.
THEOREM ListAsAdded ==
  ASSUME MaxClear <= 1
  PROVE  Spec => []ListIsWhatWasAdded
<1>1. LogInv => ListIsWhatWasAdded
  BY LogInvIsWhatWasAdded DEF LogInv
<1> QED
  BY <1>1, LogKept, PTL

\* EventLogMenu: the item the viewer keeps between two calls is in the list, there
\* is none only when the log is empty, and "Clear" is only offered for an item.
THEOREM ViewerKeepsItem ==
  ASSUME MaxClear <= 1
  PROVE  Spec => []ViewerOnItem
<1>1. LogInv => ViewerOnItem
  BY DEF LogInv, ViewInv
<1> QED
  BY <1>1, LogKept, PTL

\* "Iterate until the last item": add_item()'s search with interrupts locked ends.
THEOREM SearchEnds ==
  ASSUME MaxClear <= 1
  PROVE  Spec => []LastItemExists
<1>1. LogInv => LastItemExists
  BY WholeList DEF LogInv, LastItemExists
<1> QED
  BY <1>1, LogKept, PTL

=============================================================================
