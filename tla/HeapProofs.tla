----------------------------- MODULE HeapProofs -----------------------------
(***************************************************************************)
(* The block list of the heap stays sound, its mutex excludes, and the     *)
(* first fit search misses no free space, for any heap and any threads.    *)
(***************************************************************************)
EXTENDS Heap, WellFoundedInduction, TLAPS

-----------------------------------------------------------------------------
(***************************************************************************)
(* The list by itself: what inserting, resizing and freeing a block keep.  *)
(***************************************************************************)
List == ListType /\ ListSound

(* All that the proofs use of the width of a word. *)
LEMMA WordNat == Word \in Nat /\ Word > HDR
BY DEF Word, HDR

(* A function of the right domain whose values are in T. *)
LEMMA FunctionIn ==
    ASSUME NEW f, NEW S, NEW T, f = [x \in S |-> f[x]], \A x \in S : f[x] \in T
    PROVE  f \in [S -> T]
OBVIOUS

(* The list, block by block. *)
LEMMA ListFacts ==
    ASSUME List
    PROVE  \A b \in Blocks :
              /\ b \in Int /\ next[b] \in Int /\ committed[b] \in Int
              /\ First <= b /\ b + HDR <= End
              /\ next[b] \in Blocks \/ next[b] = End
              /\ prev[b] \in Blocks \/ prev[b] = None
              /\ b + HDR <= next[b] /\ next[b] <= End
              /\ b + committed[b] <= next[b] /\ 0 <= committed[b]
<1> USE HeapAssumption, WordNat
<1>1. \A b \in Blocks : b \in First .. End - HDR
  BY DEF List, ListType
<1>2. \A b \in Blocks : b \in Int /\ First <= b /\ b + HDR <= End
  BY <1>1 DEF HDR
<1>3. \A b \in Blocks : next[b] \in Blocks \/ next[b] = End
  BY DEF List, ListType
<1>4. \A b \in Blocks : prev[b] \in Blocks \/ prev[b] = None
  BY DEF List, ListType
<1>5. \A b \in Blocks : committed[b] \in 0 .. Word - 1
  BY DEF List, ListType
<1>6. \A b \in Blocks : next[b] \in Int /\ next[b] <= End
  BY <1>2, <1>3 DEF HDR
<1>7. \A b \in Blocks : committed[b] \in Int /\ 0 <= committed[b]
  BY <1>5
<1>8. \A b \in Blocks : b + HDR <= next[b] /\ b + committed[b] <= next[b]
  BY DEF List, ListSound, InOrder, CommittedFits
<1> QED
  BY <1>2, <1>3, <1>4, <1>6, <1>7, <1>8

(* Exactly one block is in front of a given one. *)
LEMMA OnePredecessor ==
    ASSUME List, NEW b \in Blocks, NEW c \in Blocks, next[b] = next[c]
    PROVE  b = c
<1>1. b < c => next[b] <= c
  BY DEF List, ListSound, InOrder
<1>2. c < b => next[c] <= b
  BY DEF List, ListSound, InOrder
<1>3. /\ b \in Int /\ c \in Int /\ next[b] \in Int /\ next[c] \in Int
      /\ b + HDR <= next[b] /\ c + HDR <= next[c]
  BY ListFacts
<1> QED
  BY <1>1, <1>2, <1>3 DEF HDR

(* The list heap_init writes. *)
LEMMA FreshList ==
    ASSUME next' = [b \in {First} |-> End],
           committed' = [b \in {First} |-> 0],
           prev' = [b \in {First} |-> None]
    PROVE  List'
BY HeapAssumption, WordNat
   DEF List, ListType, ListSound, InOrder, BackLinks, CommittedFits, Covered,
       Blocks, HDR, None

(* A block put into the free bytes of another. *)
LEMMA InsertSound ==
    ASSUME List, NEW b \in Blocks, NEW new \in Int, NEW gross \in Int,
           gross >= HDR, b + HDR <= new, b + committed[b] <= new,
           new + gross <= next[b], InsertBlock(b, new, gross)
    PROVE  /\ List'
           /\ Blocks' = Blocks \cup {new}
           /\ \A c \in Blocks : committed'[c] = committed[c]
<1> USE HeapAssumption, WordNat, ListFacts
<1> DEFINE S == Blocks \cup {new}
<1>1. new \notin Blocks
  BY DEF List, ListSound, InOrder, HDR
<1>2. /\ S = Blocks'
      /\ next' = [x \in S |-> next'[x]]
      /\ committed' = [x \in S |-> committed'[x]]
      /\ prev' = [x \in S |-> prev'[x]]
  BY DEF InsertBlock, Blocks
<1>3. /\ next'[new] = next[b]
      /\ next'[b] = new
      /\ \A c \in Blocks \ {b} : next'[c] = next[c]
  BY <1>1 DEF InsertBlock
<1>4. /\ prev'[new] = b
      /\ \A c \in Blocks : prev'[c] = IF c = next[b] THEN new ELSE prev[c]
  BY <1>1 DEF InsertBlock
<1>5. committed'[new] = gross /\ \A c \in Blocks : committed'[c] = committed[c]
  BY <1>1 DEF InsertBlock
<1>6. S = Blocks \cup {new} /\ b \in S /\ new \in S
  OBVIOUS
<1> HIDE DEF S
<1>7. ListType'
  <2>1. Blocks' \subseteq First .. End - HDR
    BY <1>2, <1>6 DEF HDR
  <2>2. next' \in [Blocks' -> Blocks' \cup {End}]
    <3>1. \A c \in S : next'[c] \in S \cup {End}
      BY <1>3, <1>6
    <3> QED
      BY <1>2, <3>1, FunctionIn
  <2>3. committed' \in [Blocks' -> 0 .. Word - 1]
    <3>1. gross \in 0 .. Word - 1
      <4>1. next[b] \in Int /\ b \in Int /\ next[b] <= End /\ First <= b
        OBVIOUS
      <4> QED
        BY <4>1 DEF HDR
    <3>2. \A c \in Blocks : committed[c] \in 0 .. Word - 1
      BY DEF List, ListType
    <3>3. \A c \in S : committed'[c] \in 0 .. Word - 1
      BY <1>5, <1>6, <3>1, <3>2
    <3> QED
      BY <1>2, <3>3, FunctionIn
  <2>4. prev' \in [Blocks' -> Blocks' \cup {None}]
    <3>1. \A c \in S : prev'[c] \in S \cup {None}
      BY <1>4, <1>6
    <3> QED
      BY <1>2, <3>1, FunctionIn
  <2> QED
    BY <2>1, <2>2, <2>3, <2>4 DEF ListType
<1>8. InOrder'
  <2>1. \A c \in S : next'[c] >= c + HDR
    BY <1>3, <1>6 DEF HDR
  <2>2. ASSUME NEW c \in S, NEW d \in S, c < d
        PROVE  next'[c] <= d
    <3>1. \A x, y \in Blocks : x < y => next[x] <= y
      BY DEF List, ListSound, InOrder
    <3> QED
      BY <1>3, <1>6, <2>2, <3>1 DEF HDR
  <2> QED
    BY <1>2, <2>1, <2>2 DEF InOrder
<1>9. BackLinks'
  <2>1. First \in Blocks /\ prev[First] = None
    BY DEF List, ListSound, BackLinks
  <2>2. First \in S /\ prev'[First] = None
    BY <1>4, <1>6, <2>1 DEF HDR
  <2>3. ASSUME NEW c \in S \ {First}
        PROVE  prev'[c] \in S /\ next'[prev'[c]] = c
    <3>1. CASE c = new
      BY <1>3, <1>4, <1>6, <3>1, OnePredecessor
    <3>2. CASE c # new /\ c = next[b]
      BY <1>3, <1>4, <1>6, <3>2
    <3>3. CASE c # new /\ c # next[b]
      <4>1. c \in Blocks /\ prev[c] \in Blocks /\ next[prev[c]] = c
        BY <1>6, <3>3 DEF List, ListSound, BackLinks
      <4> QED
        BY <1>3, <1>4, <1>6, <3>3, <4>1
    <3> QED
      BY <3>1, <3>2, <3>3
  <2> QED
    BY <1>2, <2>2, <2>3 DEF BackLinks
<1>10. CommittedFits'
  <2>1. \A c \in Blocks : IF committed[c] = 0 THEN c = First ELSE committed[c] >= HDR
    BY DEF List, ListSound, CommittedFits
  <2>2. \A c \in S : c + committed'[c] <= next'[c]
    BY <1>3, <1>5, <1>6
  <2>3. \A c \in S : IF committed'[c] = 0 THEN c = First ELSE committed'[c] >= HDR
    BY <1>5, <1>6, <2>1 DEF HDR
  <2> QED
    BY <1>2, <2>2, <2>3 DEF CommittedFits
<1>11. Covered'
  <2>1. ASSUME NEW x \in First .. End - 1
        PROVE  \E c \in S : c <= x /\ x < next'[c]
    <3>1. PICK c \in Blocks : c <= x /\ x < next[c]
      BY DEF List, ListSound, Covered
    <3>2. CASE c # b
      BY <1>3, <1>6, <3>1, <3>2
    <3>3. CASE c = b /\ x < new
      BY <1>3, <1>6, <3>1, <3>3
    <3>4. CASE c = b /\ x >= new
      BY <1>3, <1>6, <3>1, <3>4
    <3> QED
      BY <3>2, <3>3, <3>4
  <2> QED
    BY <1>2, <2>1 DEF Covered
<1> QED
  BY <1>2, <1>5, <1>6, <1>7, <1>8, <1>9, <1>10, <1>11 DEF List, ListSound

(* Another number of committed bytes that still fits. *)
LEMMA CommitSound ==
    ASSUME List, NEW b \in Blocks, NEW gross \in Int, gross >= HDR,
           b + gross <= next[b],
           committed' = [committed EXCEPT ![b] = gross],
           UNCHANGED <<next, prev>>
    PROVE  /\ List'
           /\ Blocks' = Blocks
           /\ committed'[b] = gross
           /\ \A c \in Blocks \ {b} : committed'[c] = committed[c]
<1> USE HeapAssumption, WordNat
<1>1. /\ Blocks' = Blocks
      /\ committed'[b] = gross
      /\ \A c \in Blocks \ {b} : committed'[c] = committed[c]
  BY DEF List, ListType, Blocks
<1>2. gross \in 0 .. Word - 1
  <2>1. next[b] \in Int /\ b \in Int /\ next[b] <= End /\ First <= b
    BY ListFacts
  <2> QED
    BY <2>1 DEF HDR
<1>3. ListType'
  BY <1>1, <1>2 DEF List, ListType
<1>4. InOrder' /\ BackLinks' /\ Covered'
  BY <1>1 DEF List, ListSound, InOrder, BackLinks, Covered
<1>5. CommittedFits'
  BY <1>1, ListFacts DEF List, ListSound, CommittedFits, HDR
<1> QED
  BY <1>1, <1>3, <1>4, <1>5 DEF List, ListSound

(* __heap_allocate_block in the free bytes at the front of what is free in b. *)
LEMMA AllocateSound ==
    ASSUME List, NEW b \in Blocks, NEW gross \in Int, gross >= HDR,
           Room(b) >= gross, heap_allocate_block(b, b + committed[b], gross)
    PROVE  List' /\ Pointers \subseteq Pointers'
<1>1. committed[b] \in Int /\ next[b] \in Int /\ b \in Int /\ gross # 0
  BY ListFacts DEF HDR
<1>2. CASE b + committed[b] = b /\ OverlayBlock(b, gross)
  <2>1. b + gross <= next[b]
    BY <1>1, <1>2 DEF Room
  <2>2. committed' = [committed EXCEPT ![b] = gross] /\ UNCHANGED <<next, prev>>
    BY <1>2 DEF OverlayBlock
  <2>3. /\ List' /\ Blocks' = Blocks /\ committed'[b] = gross
        /\ \A c \in Blocks \ {b} : committed'[c] = committed[c]
    BY <2>1, <2>2, CommitSound
  <2> QED
    BY <1>1, <2>3 DEF Pointers
<1>3. CASE b + committed[b] # b /\ InsertBlock(b, b + committed[b], gross)
  <2>1. b + HDR <= b + committed[b]
    BY <1>1, <1>3 DEF List, ListSound, CommittedFits, HDR
  <2>2. /\ b + committed[b] \in Int
        /\ b + committed[b] <= b + committed[b]
        /\ b + committed[b] + gross <= next[b]
    BY <1>1 DEF Room
  <2>3. /\ List' /\ Blocks' = Blocks \cup {b + committed[b]}
        /\ \A c \in Blocks : committed'[c] = committed[c]
    BY <1>3, <2>1, <2>2, InsertSound
  <2> QED
    BY <2>3 DEF Pointers
<1> QED
  BY <1>2, <1>3 DEF heap_allocate_block

(* asm_heap_free_unlocked; its place can be filled again. *)
LEMMA FreeSound ==
    ASSUME List, NEW b \in Blocks, committed[b] # 0, heap_free_unlocked(b)
    PROVE  /\ List'
           /\ Pointers \ {b + HDR} \subseteq Pointers'
           /\ committed[b] >= HDR
           /\ \/ /\ prev[b] = None /\ b = First /\ committed'[b] = 0
                 /\ b \in Blocks' /\ b + committed[b] <= next'[b]
              \/ /\ prev[b] \in Blocks'
                 /\ prev[b] + HDR <= b
                 /\ prev[b] + committed'[prev[b]] <= b
                 /\ b + committed[b] <= next'[prev[b]]
<1> USE HeapAssumption, WordNat DEF HDR, None
<1>0. /\ committed[b] >= HDR /\ committed[b] \in Int /\ next[b] \in Int /\ b \in Int
      /\ b + HDR <= next[b] /\ b + committed[b] <= next[b]
  BY ListFacts DEF List, ListSound, CommittedFits
<1>1. CASE prev[b] = None
  <2>1. b = First
    BY <1>1 DEF List, ListType, ListSound, BackLinks
  <2>2. committed' = [committed EXCEPT ![b] = 0] /\ UNCHANGED <<next, prev>>
    BY <1>1 DEF heap_free_unlocked
  <2>3. /\ Blocks' = Blocks /\ committed'[b] = 0
        /\ \A c \in Blocks \ {b} : committed'[c] = committed[c]
    BY <2>2 DEF List, ListType, Blocks
  <2>4. ListType'
    BY <2>2, <2>3 DEF List, ListType
  <2>5. InOrder' /\ BackLinks' /\ Covered'
    BY <2>2, <2>3 DEF List, ListSound, InOrder, BackLinks, Covered
  <2>6. CommittedFits'
    BY <1>0, <2>1, <2>2, <2>3 DEF List, ListType, ListSound, CommittedFits
  <2>7. Pointers \ {b + HDR} \subseteq Pointers'
    BY <2>3 DEF Pointers
  <2> QED
    BY <1>0, <1>1, <2>1, <2>2, <2>3, <2>4, <2>5, <2>6, <2>7
       DEF List, ListSound, CommittedFits
<1>2. CASE prev[b] # None
  <2> DEFINE p == prev[b]
             n == next[b]
  <2>1. b # First /\ p \in Blocks /\ next[p] = b /\ p # b /\ p + HDR <= b /\ p \in Int
    <3>1. b # First /\ p \in Blocks /\ next[p] = b
      BY <1>2 DEF List, ListSound, BackLinks
    <3>2. p \in Int /\ p + HDR <= next[p]
      BY <3>1, ListFacts
    <3> QED
      BY <1>0, <3>1, <3>2
  <2>2. /\ Blocks' = Blocks \ {b}
        /\ next'[p] = n
        /\ \A c \in Blocks \ {b, p} : next'[c] = next[c]
        /\ \A c \in Blocks \ {b} : committed'[c] = committed[c]
        /\ \A c \in Blocks \ {b} : prev'[c] = IF c = n THEN p ELSE prev[c]
    BY <1>2, <2>1 DEF heap_free_unlocked, Blocks
  <2>3. n # b /\ n \in (Blocks \ {b}) \cup {End} /\ p \in Blocks \ {b}
    BY <1>0, <2>1 DEF List, ListType, ListSound, InOrder
  <2>4. \A c \in Blocks \ {p} : next[c] # b
    BY <2>1, OnePredecessor
  <2>5. ListType'
    <3>1. next' \in [Blocks' -> Blocks' \cup {End}]
      BY <1>2, <2>2, <2>3, <2>4 DEF List, ListType, heap_free_unlocked
    <3>2. \A c \in Blocks \ {b} : prev[c] = b => c = n
      BY <2>1 DEF List, ListType, ListSound, BackLinks
    <3>3. prev' \in [Blocks' -> Blocks' \cup {None}]
      BY <1>2, <2>2, <2>3, <3>2 DEF List, ListType, heap_free_unlocked
    <3>4. committed' \in [Blocks' -> 0 .. Word - 1]
      BY <1>2, <2>2 DEF List, ListType, heap_free_unlocked
    <3> QED
      BY <2>2, <3>1, <3>3, <3>4 DEF List, ListType
  <2>6. InOrder'
    BY <1>0, <2>1, <2>2, <2>3 DEF List, ListType, ListSound, InOrder
  <2>7. BackLinks'
    <3>1. First \in Blocks' /\ prev'[First] = None
      BY <1>0, <2>1, <2>2, <2>3 DEF List, ListType, ListSound, InOrder, BackLinks
    <3>2. ASSUME NEW c \in Blocks' \ {First}
          PROVE  prev'[c] \in Blocks' /\ next'[prev'[c]] = c
      <4>1. CASE c = n
        BY <2>1, <2>2, <2>3, <4>1
      <4>2. CASE c # n
        <5>1. prev[c] \in Blocks /\ next[prev[c]] = c /\ prev'[c] = prev[c]
          BY <2>2, <4>2 DEF List, ListSound, BackLinks
        <5>2. prev[c] # b /\ prev[c] # p
          BY <2>1, <2>2, <4>2, <5>1
        <5> QED
          BY <2>2, <5>1, <5>2
      <4> QED
        BY <4>1, <4>2
    <3> QED
      BY <3>1, <3>2 DEF BackLinks
  <2>8. CommittedFits'
    BY <1>0, <2>1, <2>2, <2>3 DEF List, ListType, ListSound, InOrder, CommittedFits
  <2>9. Covered'
    <3>1. ASSUME NEW x \in First .. End - 1
          PROVE  \E c \in Blocks' : c <= x /\ x < next'[c]
      <4>1. PICK c \in Blocks : c <= x /\ x < next[c]
        BY DEF List, ListSound, Covered
      <4>2. CASE c = b
        BY <1>0, <2>1, <2>2, <2>3, <4>1, <4>2
      <4>3. CASE c = p
        BY <1>0, <2>1, <2>2, <2>3, <4>1, <4>3 DEF List, ListType, ListSound, InOrder
      <4>4. CASE c \notin {b, p}
        BY <2>2, <4>1, <4>4
      <4> QED
        BY <4>2, <4>3, <4>4
    <3> QED
      BY <3>1 DEF Covered
  <2>10. Pointers \ {b + HDR} \subseteq Pointers'
    BY <2>2 DEF Pointers
  <2>11. /\ p \in Blocks' /\ p + committed'[p] <= b /\ b + committed[b] <= next'[p]
    BY <2>1, <2>2, <2>3 DEF List, ListSound, CommittedFits
  <2> QED
    BY <1>0, <2>1, <2>5, <2>6, <2>7, <2>8, <2>9, <2>10, <2>11 DEF List, ListSound
<1> QED
  BY <1>1, <1>2

-----------------------------------------------------------------------------
(***************************************************************************)
(* The threads.  Only the one that has the lock changes the list, and the  *)
(* invariant says nothing of the list for the others, but for the pointers *)
(* they pass.                                                              *)
(***************************************************************************)
ThreadSound(t) ==
    /\ pc[t] \in Holding => lock = t
    /\ pc[t] = "wait" /\ Passes(t) => req[t].arg \in Pointers
    /\ Walking(t) => cur[t] \in Blocks \cup {End}
    /\ pc[t] \in {"first", "aligned", "largest"} => Gross(t) < Word
    /\ pc[t] = "largest" => req[t].op = "realloc"
    /\ pc[t] = "first" => \A b \in Blocks : b < cur[t] => Room(b) < Gross(t)
    /\ pc[t] \in {"out", "wait"} => best[t] = NoBlock
    /\ best[t] # NoBlock /\ pc[t] = "largest" =>
          best[t].block \in Blocks /\ best[t].room = Room(best[t].block)
    /\ Moving(t) =>
          LET b == req[t].arg - HDR
              p == old[t].prev
          IN  /\ old[t].committed >= HDR
              /\ \/ /\ p = None /\ b = First /\ committed[b] = 0
                    /\ b + old[t].committed <= next[b]
                 \/ /\ p \in Blocks
                    /\ p + HDR <= b /\ p + committed[p] <= b
                    /\ b + old[t].committed <= next[p]

OneFrees ==
    \A t, u \in Threads :
        Passes(t) /\ Passes(u) /\ req[t].arg = req[u].arg => t = u

LEMMA InvariantByThread ==
    HInv <=> TypeOK /\ ListSound /\ OneFrees /\ \A t \in Threads : ThreadSound(t)
BY DEF HInv, OneFrees, ThreadSound, Exclusive, PointersLive, LoopsInList,
       SearchedInVain, BestIsThere, Restorable

LEMMA InvariantByThreadNext ==
    HInv' <=> TypeOK' /\ ListSound' /\ OneFrees' /\ \A t \in Threads : ThreadSound(t)'
BY DEF HInv, OneFrees, ThreadSound, Exclusive, PointersLive, LoopsInList,
       SearchedInVain, BestIsThere, Restorable

LEMMA HolderAlone ==
    ASSUME HInv, NEW t \in Threads, lock \in {Free, Destroyed, t}
    PROVE  \A u \in Threads \ {t} : pc[u] \in {"out", "wait"}
BY ThreadsAssumption DEF HInv, TypeOK, Exclusive, Free, Destroyed

(* What another thread knows is true after a step of t. *)
LEMMA OthersSound ==
    ASSUME NEW u \in Threads, ThreadSound(u), pc[u] \in {"out", "wait"},
           pc'[u] = pc[u], req'[u] = req[u], best'[u] = best[u],
           Passes(u) /\ req[u].arg \in Pointers => req[u].arg \in Pointers'
    PROVE  ThreadSound(u)'
BY DEF ThreadSound, Passes, Walking, Moving, Holding

LEMMA StepSound ==
    ASSUME HInv, NEW t \in Threads, lock \in {Free, Destroyed, t},
           TypeOK', ListSound',
           \A u \in Threads \ {t} :
              pc'[u] = pc[u] /\ req'[u] = req[u] /\ best'[u] = best[u],
           req'[t] \in {req[t], Idle},
           \A p \in Pointers : p \in Pointers' \/ (Passes(t) /\ p = req[t].arg),
           ThreadSound(t)'
    PROVE  HInv'
<1>1. OneFrees /\ \A u \in Threads : ThreadSound(u)
  BY InvariantByThread
<1>2. OneFrees'
  <2>1. \A u \in Threads : Passes(u)' => Passes(u) /\ req'[u].arg = req[u].arg
    BY DEF Passes, Idle
  <2> QED
    BY <1>1, <2>1 DEF OneFrees
<1>3. ASSUME NEW u \in Threads, u # t
      PROVE  ThreadSound(u)'
  <2>1. pc[u] \in {"out", "wait"}
    BY <1>3, HolderAlone
  <2>2. Passes(u) /\ req[u].arg \in Pointers => req[u].arg \in Pointers'
    BY <1>1, <1>3 DEF OneFrees
  <2> QED
    BY <1>1, <1>3, <2>1, <2>2, OthersSound
<1> QED
  BY <1>2, <1>3, InvariantByThreadNext

(* A call is done but for giving the lock back, or the processor is lost. *)
LEMMA LeaveSound ==
    ASSUME HInv, NEW t \in Threads, lock \in {Free, t}, lock' = t, List',
           NEW p \in {"release", "lost"}, Goto(t, p), UNCHANGED <<req, local>>,
           \A a \in Pointers : a \in Pointers' \/ (Passes(t) /\ a = req[t].arg)
    PROVE  HInv'
<1>1. TypeOK'
  BY DEF HInv, TypeOK, List, Goto, local, Holding
<1>2. /\ \A u \in Threads \ {t} : pc'[u] = pc[u]
      /\ pc'[t] = p
  BY DEF HInv, TypeOK, Goto
<1>3. ThreadSound(t)'
  BY <1>2 DEF ThreadSound, Passes, Walking, Moving
<1> QED
  BY <1>1, <1>2, <1>3, StepSound DEF List, local
(* The same list, nothing else to show for it. *)
LEMMA SameList ==
    ASSUME HInv, UNCHANGED list
    PROVE  List /\ List' /\ Blocks' = Blocks /\ Pointers' = Pointers
BY DEF HInv, TypeOK, List, list, ListType, ListSound, InOrder, BackLinks,
       CommittedFits, Covered, Blocks, Pointers

(* A loop begins. *)
LEMMA WalkSound ==
    ASSUME HInv, NEW t \in Threads, pc[t] = "wait", lock = Free, lock' = t,
           NEW p \in {"first", "aligned", "locate", "largest"}, Walk(t, p),
           p # "locate" => Gross(t) < Word,
           p = "largest" => req[t].op = "realloc" /\ req[t].arg = None
    PROVE  HInv'
<1>1. List' /\ Blocks' = Blocks /\ Pointers' = Pointers /\ List
  BY SameList DEF Walk
<1>2. First \in Blocks /\ First \in Addresses
  BY <1>1, HeapAssumption DEF List, ListSound, BackLinks, Addresses, HDR
<1>3. TypeOK'
  BY <1>1, <1>2 DEF HInv, TypeOK, List, Walk, Goto, Holding
<1>4. /\ \A u \in Threads \ {t} : pc'[u] = pc[u]
      /\ pc'[t] = p /\ cur'[t] = First
  BY DEF HInv, TypeOK, Walk, Goto
<1>5. best[t] = NoBlock /\ best'[t] = NoBlock
  BY DEF HInv, BestIsThere, Walk
<1>6. \A b \in Blocks : ~ (b < First)
  BY <1>1, ListFacts, HeapAssumption
<1>7. Gross(t)' = Gross(t)
  BY DEF Walk, Gross
<1>8. ThreadSound(t)'
  BY <1>1, <1>2, <1>4, <1>5, <1>6, <1>7 DEF ThreadSound, Passes, Walking, Moving, Walk
<1> QED
  BY <1>1, <1>3, <1>4, <1>8, StepSound DEF List, Walk

(* A loop goes on. *)
LEMMA AdvanceSound ==
    ASSUME HInv, NEW t \in Threads, pc[t] \in {"first", "aligned", "locate"},
           cur[t] \in Blocks, Advance(t),
           pc[t] = "first" => Room(cur[t]) < Gross(t)
    PROVE  HInv'
<1>1. List' /\ Blocks' = Blocks /\ Pointers' = Pointers /\ List
  BY SameList DEF Advance
<1> DEFINE n == next[cur[t]]
<1>2. n \in Blocks \cup {End} /\ n \in Addresses
  <2>1. n \in Blocks \cup {End}
    BY <1>1, ListFacts
  <2>2. \A b \in Blocks : b \in Addresses
    BY <1>1, ListFacts, HeapAssumption DEF Addresses, HDR
  <2>3. End \in Addresses
    BY HeapAssumption DEF Addresses, HDR
  <2> QED
    BY <2>1, <2>2, <2>3
<1>3. cur'[t] = n /\ cur' \in [Threads -> Addresses \cup {None}]
  BY <1>2 DEF HInv, TypeOK, Advance
<1>4. TypeOK'
  BY <1>1, <1>3 DEF HInv, TypeOK, List, Advance
<1>5. ThreadSound(t)
  BY InvariantByThread
<1>6. lock = t
  BY <1>5 DEF ThreadSound, Holding
<1>7. /\ Gross(t)' = Gross(t)
      /\ \A b : Room(b)' = Room(b)
  BY DEF Advance, Gross, Room, list
<1>8. ASSUME pc[t] = "first", NEW b \in Blocks, b < n
      PROVE  Room(b) < Gross(t)
  <2>1. cur[t] < b => n <= b
    BY <1>1 DEF List, ListSound, InOrder
  <2>2. b \in Int /\ cur[t] \in Int /\ n \in Int
    BY <1>1, ListFacts
  <2>3. b < cur[t] \/ b = cur[t]
    BY <1>8, <2>1, <2>2
  <2> QED
    BY <1>5, <1>8, <2>3 DEF ThreadSound
<1>9. ThreadSound(t)'
  BY <1>1, <1>2, <1>3, <1>5, <1>6, <1>7, <1>8
     DEF ThreadSound, Passes, Walking, Moving, Advance
<1> QED
  BY <1>1, <1>4, <1>6, <1>9, StepSound DEF List, Advance

LEMMA RefuseSound ==
    ASSUME HInv, NEW t \in Threads, lock \in {Free, t}, lock' = t,
           Refuse(t) \/ Lose(t)
    PROVE  HInv'
<1>1. UNCHANGED list
  BY DEF Refuse, Lose
<1>2. PICK p \in {"release", "lost"} : Goto(t, p)
  BY DEF Refuse, Lose, Finish
<1> QED
  BY <1>1, <1>2, SameList, LeaveSound DEF Refuse, Lose, Finish
-----------------------------------------------------------------------------
(***************************************************************************)
(* The actions of a call, one lemma each.                                  *)
(***************************************************************************)
LEMMA AcquireFacts ==
    ASSUME HInv, NEW t \in Threads, heap_lock_acquire(t)
    PROVE  pc[t] = "wait" /\ lock = Free /\ lock' = t /\ best[t] = NoBlock
BY DEF heap_lock_acquire, HInv, BestIsThere

LEMMA RequestFacts ==
    ASSUME HInv, NEW t \in Threads
    PROVE  /\ req[t].size \in 0 .. Word - 1 /\ req[t].arg \in 0 .. Word - 1
           /\ Gross(t) \in Int /\ Gross(t) >= HDR
<1>1. req[t] \in Request
  BY DEF HInv, TypeOK
<1>2. req[t].size \in 0 .. Word - 1 /\ req[t].arg \in 0 .. Word - 1
  BY <1>1 DEF Request
<1> QED
  BY <1>2, WordNat DEF Gross, HDR

LEMMA StartSound ==
    ASSUME HInv, NEW t \in Threads, heap_lock_acquire(t), StartFirstFit(t)
    PROVE  HInv'
<1>1. pc[t] = "wait" /\ lock = Free /\ lock' = t
  BY AcquireFacts
<1>2. CASE Refuse(t)
  BY <1>1, <1>2, RefuseSound
<1>3. CASE req[t].size \in 1 .. Word - HDR - 1 /\ Walk(t, "first")
  <2>1. Gross(t) < Word
    BY <1>3, WordNat DEF Gross, HDR
  <2> QED
    BY <1>1, <1>3, <2>1, WalkSound
<1> QED
  BY <1>2, <1>3 DEF StartFirstFit

LEMMA EnterAligned ==
    ASSUME HInv, NEW t \in Threads, heap_alloc_aligned(t)
    PROVE  HInv'
<1> DEFINE n == PowerOf2(req[t].arg)
<1>1. pc[t] = "wait" /\ lock = Free /\ lock' = t
  BY AcquireFacts DEF heap_alloc_aligned
<1>2. CASE Refuse(t) \/ Lose(t)
  BY <1>1, <1>2, RefuseSound
<1>3. CASE StartFirstFit(t)
  BY <1>3, StartSound DEF heap_alloc_aligned
<1>4. CASE ~ TooBig(t) /\ Walk(t, "aligned")
  <2>1. Gross(t) < Word
    BY <1>4, RequestFacts, WordNat DEF TooBig
  <2> QED
    BY <1>1, <1>4, <2>1, WalkSound
<1> QED
  BY <1>2, <1>3, <1>4 DEF heap_alloc_aligned

LEMMA EnterFixed ==
    ASSUME HInv, NEW t \in Threads, heap_alloc_fixed(t)
    PROVE  HInv'
BY AcquireFacts, WalkSound DEF heap_alloc_fixed

(* What a call that passes a pointer finds behind it. *)
LEMMA PassedBlock ==
    ASSUME HInv, NEW t \in Threads, pc[t] = "wait", Passes(t)
    PROVE  /\ req[t].arg - HDR \in Blocks
           /\ committed[req[t].arg - HDR] # 0
           /\ req[t].arg = req[t].arg - HDR + HDR
           /\ req[t].arg - HDR \in Int
<1>1. req[t].arg \in Pointers
  BY DEF HInv, PointersLive
<1>2. PICK b \in Blocks : committed[b] # 0 /\ req[t].arg = b + HDR
  BY <1>1 DEF Pointers
<1>3. List /\ b \in Int
  BY ListFacts DEF HInv, TypeOK, List
<1>4. req[t].arg - HDR = b
  BY <1>2, <1>3 DEF HDR
<1> QED
  BY <1>2, <1>3, <1>4

LEMMA EnterFree ==
    ASSUME HInv, NEW t \in Threads, heap_free(t)
    PROVE  HInv'
<1> DEFINE b == req[t].arg - HDR
<1>1. pc[t] = "wait" /\ lock = Free /\ lock' = t
  BY AcquireFacts DEF heap_free
<1>2. CASE Refuse(t)
  BY <1>1, <1>2, RefuseSound
<1>3. CASE req[t].arg # None /\ heap_free_unlocked(b) /\ Finish(t)
  <2>1. Passes(t)
    BY <1>3 DEF heap_free, Passes
  <2>2. b \in Blocks /\ committed[b] # 0 /\ req[t].arg = b + HDR /\ List
    BY <1>1, <2>1, PassedBlock DEF HInv, TypeOK, List
  <2>3. List' /\ Pointers \ {b + HDR} \subseteq Pointers'
    BY <1>3, <2>2, FreeSound
  <2>4. \A a \in Pointers : a \in Pointers' \/ (Passes(t) /\ a = req[t].arg)
    BY <2>1, <2>2, <2>3
  <2> HIDE DEF b
  <2> QED
    BY <1>1, <1>3, <2>3, <2>4, LeaveSound DEF Finish
<1> QED
  BY <1>2, <1>3 DEF heap_free

LEMMA EnterRealloc ==
    ASSUME HInv, NEW t \in Threads, heap_realloc(t)
    PROVE  HInv'
<1> DEFINE b == req[t].arg - HDR
<1>1. pc[t] = "wait" /\ lock = Free /\ lock' = t /\ best[t] = NoBlock
  BY AcquireFacts DEF heap_realloc
<1>2. Gross(t) \in Int /\ Gross(t) >= HDR /\ (~ TooBig(t) => Gross(t) < Word)
  BY RequestFacts, WordNat DEF TooBig
<1>3. List /\ req[t].op = "realloc"
  BY DEF heap_realloc, HInv, TypeOK, List
<1>4. CASE Refuse(t)
  BY <1>1, <1>4, RefuseSound
<1>5. CASE ~ TooBig(t) /\ req[t].arg = None /\ Walk(t, "largest")
  BY <1>1, <1>2, <1>3, <1>5, WalkSound
<1>6. CASE /\ req[t].arg # None
           /\ next[b] - b >= Gross(t)
           /\ committed' = [committed EXCEPT ![b] = Gross(t)]
           /\ UNCHANGED <<next, prev>>
           /\ Finish(t)
  <2>1. Passes(t)
    BY <1>3, <1>6 DEF Passes
  <2>2. b \in Blocks /\ b \in Int /\ next[b] \in Int
    BY <1>1, <1>3, <2>1, PassedBlock, ListFacts
  <2> HIDE DEF b
  <2>3. b + Gross(t) <= next[b]
    BY <1>2, <1>6, <2>2
  <2>4. /\ List' /\ Blocks' = Blocks /\ committed'[b] = Gross(t)
        /\ \A c \in Blocks \ {b} : committed'[c] = committed[c]
    BY <1>2, <1>3, <1>6, <2>2, <2>3, CommitSound
  <2>5. Gross(t) # 0
    BY <1>2 DEF HDR
  <2>6. Pointers \subseteq Pointers'
    BY <2>4, <2>5 DEF Pointers
  <2> QED
    BY <1>1, <1>6, <2>4, <2>6, LeaveSound DEF Finish
<1>7. CASE /\ ~ TooBig(t) /\ req[t].arg # None
           /\ heap_free_unlocked(b)
           /\ old' = [old EXCEPT ![t] = [committed |-> committed[b], prev |-> prev[b]]]
           /\ Goto(t, "largest")
           /\ cur' = [cur EXCEPT ![t] = First]
           /\ UNCHANGED <<mem, req, best>>
  <2>1. Passes(t)
    BY <1>3, <1>7 DEF Passes
  <2>2. b \in Blocks /\ committed[b] # 0 /\ req[t].arg = b + HDR /\ b \in Int
    BY <1>1, <2>1, PassedBlock
  <2> HIDE DEF b
  <2>3. /\ List'
        /\ Pointers \ {b + HDR} \subseteq Pointers'
        /\ committed[b] >= HDR
        /\ \/ /\ prev[b] = None /\ b = First /\ committed'[b] = 0
              /\ b \in Blocks' /\ b + committed[b] <= next'[b]
           \/ /\ prev[b] \in Blocks'
              /\ prev[b] + HDR <= b
              /\ prev[b] + committed'[prev[b]] <= b
              /\ b + committed[b] <= next'[prev[b]]
    BY <1>3, <1>7, <2>2, FreeSound
  <2>4. \A a \in Pointers : a \in Pointers' \/ (Passes(t) /\ a = req[t].arg)
    BY <2>1, <2>2, <2>3
  <2>5. First \in Blocks' /\ First \in Addresses
    BY <2>3, HeapAssumption DEF List, ListSound, BackLinks, Addresses, HDR
  <2>6. committed[b] \in 0 .. Word - 1 /\ prev[b] \in Addresses \cup {None}
    <3>1. committed[b] \in 0 .. Word - 1 /\ prev[b] \in Blocks \cup {None}
      BY <1>3, <2>2 DEF List, ListType
    <3>2. \A c \in Blocks : c \in Addresses
      BY <1>3, ListFacts, HeapAssumption DEF Addresses, HDR
    <3> QED
      BY <3>1, <3>2
  <2>7. TypeOK'
    BY <1>1, <1>7, <2>3, <2>5, <2>6 DEF HInv, TypeOK, List, Goto, Holding
  <2>8. /\ \A u \in Threads \ {t} : pc'[u] = pc[u]
        /\ pc'[t] = "largest" /\ cur'[t] = First
        /\ old'[t] = [committed |-> committed[b], prev |-> prev[b]]
        /\ req' = req /\ best' = best
    BY <1>7 DEF HInv, TypeOK, Goto
  <2>9. Gross(t)' = Gross(t) /\ Gross(t) < Word
    BY <1>2, <1>7, <2>8 DEF Gross
  <2>10. b = req'[t].arg - HDR
    BY <2>8 DEF b
  <2>11. ThreadSound(t)'
    BY <1>1, <1>3, <2>3, <2>5, <2>8, <2>9, <2>10
       DEF ThreadSound, Passes, Walking, Moving
  <2> QED
    BY <1>1, <2>3, <2>4, <2>7, <2>8, <2>11, StepSound DEF List
<1> QED
  BY <1>4, <1>5, <1>6, <1>7 DEF heap_realloc
(* What a loop finds at its block. *)
LEMMA WalkingFacts ==
    ASSUME HInv, NEW t \in Threads, Walking(t)
    PROVE  /\ lock = t /\ List
           /\ cur[t] \in Blocks \cup {End}
           /\ pc[t] # "locate" => Gross(t) < Word
BY DEF HInv, Walking, Exclusive, LoopsInList, Holding, TypeOK, List

LEMMA FirstFitSound ==
    ASSUME HInv, NEW t \in Threads, first_fit(t)
    PROVE  HInv'
<1> DEFINE b == cur[t]
<1>1. pc[t] = "first" /\ Walking(t)
  BY DEF first_fit, Walking
<1>2. lock = t /\ List /\ b \in Blocks \cup {End}
  BY <1>1, WalkingFacts
<1>3. Gross(t) \in Int /\ Gross(t) >= HDR
  BY RequestFacts
<1>4. CASE Refuse(t) /\ UNCHANGED lock
  BY <1>2, <1>4, RefuseSound
<1>5. CASE b # End /\ Room(b) < Gross(t) /\ Advance(t)
  BY <1>1, <1>2, <1>5, AdvanceSound
<1>6. CASE /\ b # End
           /\ Room(b) >= Gross(t)
           /\ heap_allocate_block(b, b + committed[b], Gross(t))
           /\ Finish(t) /\ UNCHANGED lock
  <2>1. List' /\ Pointers \subseteq Pointers'
    BY <1>2, <1>3, <1>6, AllocateSound
  <2> QED
    BY <1>2, <1>6, <2>1, LeaveSound DEF Finish
<1> QED
  BY <1>4, <1>5, <1>6 DEF first_fit

(* A block put where heap_place_block has said it fits. *)
LEMMA PlaceSound ==
    ASSUME HInv, NEW t \in Threads, lock = t, lock' = lock,
           NEW b \in Blocks, NEW new \in Int,
           heap_place_block(b, new, Gross(t)) = "fits",
           InsertBlock(b, new, Gross(t)), Finish(t)
    PROVE  HInv'
<1>1. List
  BY DEF HInv, TypeOK, List
<1>2. new + Gross(t) <= next[b] /\ committed[b] # 0 /\ new >= b + committed[b]
  BY DEF heap_place_block, Fits
<1>3. b \in Int /\ committed[b] \in Int /\ committed[b] >= HDR
  BY <1>1, <1>2, ListFacts DEF List, ListSound, CommittedFits
<1>4. b + HDR <= new /\ b + committed[b] <= new
  BY <1>2, <1>3 DEF HDR
<1>5. Gross(t) \in Int /\ Gross(t) >= HDR
  BY RequestFacts
<1>6. /\ List' /\ Blocks' = Blocks \cup {new}
      /\ \A c \in Blocks : committed'[c] = committed[c]
  BY <1>1, <1>2, <1>4, <1>5, InsertSound
<1>7. Pointers \subseteq Pointers'
  BY <1>6 DEF Pointers
<1> QED
  BY <1>6, <1>7, LeaveSound DEF Finish

LEMMA PowersPositive == Powers \subseteq Nat \ {0}
BY DEF Powers

LEMMA PowerOf2ByteIs ==
    ASSUME NEW a \in 0 .. 255
    PROVE  PowerOf2Byte(a) \in Powers /\ PowerOf2Byte(a) >= a
<1> DEFINE T == {m \in Powers : m >= a}
           R == {ss \in Nat \X Nat : ss[1] < ss[2]}
<1>1. 256 \in T /\ T \subseteq Nat
  BY PowersPositive DEF Powers
<1>2. IsWellFoundedOn(R, Nat)
  BY NatLessThanWellFounded DEF OpToRel
<1>3. PICK m \in T : \A k \in T : <<k, m>> \notin R
  <2> HIDE DEF T, R
  <2> QED
    BY <1>1, <1>2, WFMin
<1>4. ASSUME NEW k \in T
      PROVE  m <= k
  <2>1. k \in Nat /\ m \in Nat
    BY <1>1
  <2>2. k < m => <<k, m>> \in R
    <3> HIDE DEF T
    <3> QED
      BY <2>1
  <2>3. <<k, m>> \notin R
    BY <1>3
  <2> QED
    BY <2>1, <2>2, <2>3
<1>5. m \in Powers /\ m >= a /\ \A k \in Powers : k >= a => m <= k
  BY <1>3, <1>4
<1> QED
  BY <1>5 DEF PowerOf2Byte

LEMMA PowerOf2Positive ==
    ASSUME NEW a \in 0 .. Word - 1
    PROVE  PowerOf2(a) \in Nat \ {0}
<1>1. CASE a < 256
  <2>1. a \in 0 .. 255
    BY <1>1
  <2> QED
    BY <1>1, <2>1, PowerOf2ByteIs, PowersPositive DEF PowerOf2
<1>2. CASE a >= 256
  <2>1. a \in 0 .. 65535
    BY DEF Word
  <2>2. a \div 256 \in 0 .. 255
    BY <2>1
  <2>3. PowerOf2Byte(a \div 256) \in Nat \ {0}
    BY <2>2, PowerOf2ByteIs, PowersPositive
  <2>4. ~ (a < 256)
    BY <1>2, <2>1
  <2> QED
    BY <2>3, <2>4 DEF PowerOf2
<1> QED
  BY <1>1, <1>2, WordNat

LEMMA AlignUpInteger ==
    ASSUME NEW n \in Nat \ {0}, NEW a \in Int
    PROVE  AlignUp(a, n) \in Int
BY DEF AlignUp

LEMMA AlignedPlaceInteger ==
    ASSUME HInv, NEW t \in Threads, NEW b \in Blocks
    PROVE  AlignedPlace(b, PowerOf2(req[t].arg)) \in Int
<1> DEFINE n == PowerOf2(req[t].arg)
<1>1. n \in Nat \ {0}
  BY RequestFacts, PowerOf2Positive
<1>2. b \in Int /\ committed[b] \in Int
  BY ListFacts DEF HInv, TypeOK, List
<1> HIDE DEF n
<1>3. /\ b + 2 * HDR \in Int /\ b + committed[b] + HDR \in Int
  BY <1>2 DEF HDR
<1>4. AlignUp(b + 2 * HDR, n) \in Int /\ AlignUp(b + committed[b] + HDR, n) \in Int
  BY <1>1, <1>3, AlignUpInteger
<1>5. AlignedPlace(b, n) \in Int
  BY <1>2, <1>4 DEF AlignedPlace, HDR
<1> QED
  BY <1>5 DEF n

LEMMA AlignedFitSound ==
    ASSUME HInv, NEW t \in Threads, aligned_fit(t)
    PROVE  HInv'
<1> DEFINE b == cur[t]
           n == PowerOf2(req[t].arg)
           new == AlignedPlace(b, n)
<1>1. pc[t] = "aligned" /\ Walking(t)
  BY DEF aligned_fit, Walking
<1>2. lock = t /\ List /\ b \in Blocks \cup {End}
  BY <1>1, WalkingFacts
<1>3. CASE (Refuse(t) \/ Lose(t)) /\ UNCHANGED lock
  BY <1>2, <1>3, RefuseSound
<1>4. CASE b # End /\ Advance(t)
  BY <1>1, <1>2, <1>4, AdvanceSound
<1>5. CASE /\ b # End
           /\ heap_place_block(b, new, Gross(t)) = "fits"
           /\ InsertBlock(b, new, Gross(t))
           /\ Finish(t) /\ UNCHANGED lock
  <2>1. b \in Blocks
    BY <1>2, <1>5
  <2>2. new \in Int
    BY <2>1, AlignedPlaceInteger
  <2> HIDE DEF b, new
  <2> QED
    BY <1>2, <1>5, <2>1, <2>2, PlaceSound
<1> QED
  BY <1>3, <1>4, <1>5 DEF aligned_fit

LEMMA LocateSound ==
    ASSUME HInv, NEW t \in Threads, locate_fixed(t)
    PROVE  HInv'
<1> DEFINE b == cur[t]
           new == (req[t].arg - HDR) % Word
<1>1. pc[t] = "locate" /\ Walking(t)
  BY DEF locate_fixed, Walking
<1>2. lock = t /\ List /\ b \in Blocks \cup {End}
  BY <1>1, WalkingFacts
<1>3. CASE (Refuse(t) \/ Lose(t)) /\ UNCHANGED lock
  BY <1>2, <1>3, RefuseSound
<1>4. CASE b # End /\ Advance(t)
  BY <1>1, <1>2, <1>4, AdvanceSound
<1>5. CASE /\ heap_place_block(b, new, Gross(t)) = "fits"
           /\ InsertBlock(b, new, Gross(t))
           /\ Finish(t) /\ UNCHANGED lock
  <2>1. b \in Blocks
    BY <1>2, <1>5 DEF heap_place_block
  <2>2. new \in Int
    BY RequestFacts, WordNat DEF HDR
  <2> HIDE DEF b, new
  <2> QED
    BY <1>2, <1>5, <2>1, <2>2, PlaceSound
<1> QED
  BY <1>3, <1>4, <1>5 DEF locate_fixed
LEMMA LargestSound ==
    ASSUME HInv, NEW t \in Threads, largest_fit(t)
    PROVE  HInv'
<1> DEFINE b == cur[t]
<1>1. pc[t] = "largest" /\ Walking(t) /\ b # End
  BY DEF largest_fit, Walking
<1>2. lock = t /\ List /\ b \in Blocks
  BY <1>1, WalkingFacts
<1>3. /\ List' /\ Blocks' = Blocks /\ Pointers' = Pointers
      /\ \A c : Room(c)' = Room(c)
      /\ Gross(t)' = Gross(t)
  BY SameList DEF largest_fit, Room, Gross, list
<1>4. next[b] \in Blocks \cup {End} /\ next[b] \in Addresses /\ b \in Addresses
  <2>1. next[b] \in Blocks \cup {End}
    BY <1>2, ListFacts
  <2>2. \A c \in Blocks \cup {End} : c \in Addresses
    BY <1>2, ListFacts, HeapAssumption DEF Addresses, HDR
  <2> QED
    BY <1>2, <2>1, <2>2
<1>5. Room(b) \in Nat
  <2>1. b \in Int /\ next[b] \in Int /\ committed[b] \in Int /\ b + committed[b] <= next[b]
    BY <1>2, ListFacts
  <2> QED
    BY <2>1 DEF Room
<1>6. best[t] \in [block : Addresses \cup {None}, room : Nat]
  BY DEF HInv, TypeOK
<1>7. \/ /\ best'[t].block = b /\ best'[t].room = Room(b)
         /\ best' \in [Threads -> [block : Addresses \cup {None}, room : Nat]]
      \/ best' = best
  <2>1. CASE Room(b) > best[t].room
    <3>1. best' = [best EXCEPT ![t] = [block |-> b, room |-> Room(b)]]
      BY <2>1 DEF largest_fit
    <3>2. [block |-> b, room |-> Room(b)] \in [block : Addresses \cup {None}, room : Nat]
      BY <1>4, <1>5
    <3> QED
      BY <3>1, <3>2 DEF HInv, TypeOK
  <2>2. CASE ~ (Room(b) > best[t].room)
    BY <2>2 DEF largest_fit
  <2> QED
    BY <2>1, <2>2
<1>8. /\ cur'[t] = next[b] /\ cur' \in [Threads -> Addresses \cup {None}]
      /\ \A u \in Threads \ {t} : best'[u] = best[u]
      /\ pc' = pc /\ lock' = lock /\ req' = req /\ old' = old
  BY <1>4 DEF HInv, TypeOK, largest_fit
<1>9. TypeOK'
  BY <1>3, <1>7, <1>8 DEF HInv, TypeOK, List
<1>10. ThreadSound(t)
  BY InvariantByThread
<1>11. next' = next /\ committed' = committed
  BY DEF largest_fit, list
<1> HIDE DEF b
<1>12. best'[t] # NoBlock => best'[t].block \in Blocks' /\ best'[t].room = Room(best[t].block)'
  <2>1. best[t] # NoBlock => best[t].block \in Blocks /\ best[t].room = Room(best[t].block)
    BY <1>1, <1>10 DEF ThreadSound
  <2>2. CASE best'[t].block = b /\ best'[t].room = Room(b)
    BY <1>2, <1>3, <1>11, <2>2 DEF Room
  <2>3. CASE best' = best
    BY <1>3, <1>11, <2>1, <2>3 DEF Room
  <2> QED
    BY <1>7, <2>2, <2>3
<1>13. Moving(t)' =>
         LET c == req'[t].arg - HDR
             p == old'[t].prev
         IN  /\ old'[t].committed >= HDR
             /\ \/ /\ p = None /\ c = First /\ committed'[c] = 0
                   /\ c + old'[t].committed <= next'[c]
                \/ /\ p \in Blocks'
                   /\ p + HDR <= c /\ p + committed'[p] <= c
                   /\ c + old'[t].committed <= next'[p]
  BY <1>3, <1>8, <1>10, <1>11 DEF ThreadSound, Moving
<1>14. ThreadSound(t)'
  <2>1. Gross(t) < Word /\ req[t].op = "realloc" /\ lock = t
    BY <1>1, <1>2, <1>10 DEF ThreadSound
  <2> QED
    BY <1>1, <1>3, <1>4, <1>8, <1>12, <1>13, <2>1 DEF ThreadSound, Passes, Walking
<1> QED
  BY <1>2, <1>3, <1>8, <1>9, <1>14, StepSound DEF List

LEMMA FoundSound ==
    ASSUME HInv, NEW t \in Threads, largest_found(t)
    PROVE  HInv'
<1> DEFINE b == best[t].block
<1>1. pc[t] = "largest" /\ Walking(t)
  BY DEF largest_found, Walking
<1>2. lock = t /\ List
  BY <1>1, WalkingFacts
<1>3. Gross(t) \in Int /\ Gross(t) >= HDR
  BY RequestFacts
<1>4. best[t] # NoBlock
  BY <1>3 DEF largest_found, NoBlock, HDR
<1>5. b \in Blocks /\ best[t].room = Room(b)
  BY <1>1, <1>4 DEF HInv, BestIsThere
<1>6. Room(b) >= Gross(t) /\ heap_allocate_block(b, b + committed[b], Gross(t))
  BY <1>5 DEF largest_found
<1> HIDE DEF b
<1>7. List' /\ Pointers \subseteq Pointers'
  BY <1>2, <1>3, <1>5, <1>6, AllocateSound
<1> QED
  BY <1>2, <1>7, LeaveSound DEF largest_found, Finish

(* The block goes back where it was. *)
LEMMA PutBackSound ==
    ASSUME HInv, NEW t \in Threads, alloc_fail(t)
    PROVE  HInv'
<1> DEFINE b == req[t].arg - HDR
           p == old[t].prev
           n == old[t].committed
<1>1. pc[t] = "largest" /\ Walking(t)
  BY DEF alloc_fail, Walking
<1>2. lock = t /\ List
  BY <1>1, WalkingFacts
<1>3. lock' = lock
  BY DEF alloc_fail
<1>4. CASE Refuse(t)
  BY <1>2, <1>3, <1>4, RefuseSound
<1>5. CASE /\ req[t].arg # None /\ Finish(t)
           /\ heap_allocate_block(IF p = None THEN b ELSE p, b, n)
  <2>1. Moving(t)
    BY <1>1, <1>5 DEF Moving
  <2>2. /\ n >= HDR
        /\ \/ /\ p = None /\ b = First /\ committed[b] = 0 /\ b + n <= next[b]
           \/ /\ p \in Blocks
              /\ p + HDR <= b /\ p + committed[p] <= b
              /\ b + n <= next[p]
    BY <2>1 DEF HInv, Restorable
  <2>3. n \in Int /\ b \in Int
    <3>1. old[t] \in [committed : 0 .. Word - 1, prev : Addresses \cup {None}]
      BY DEF HInv, TypeOK
    <3> QED
      BY <3>1, RequestFacts, WordNat DEF HDR
  <2>4. \A c \in Blocks : c \in Int /\ First <= c
    BY <1>2, ListFacts
  <2>5. First \in Blocks
    BY <1>2 DEF List, ListSound, BackLinks
  <2> HIDE DEF b, p, n
  <2>6. List' /\ Pointers \subseteq Pointers'
    <3>1. CASE p = None
      <4>1. b \in Blocks /\ b + n <= next[b] /\ OverlayBlock(b, n)
        BY <1>5, <2>2, <2>4, <2>5, <3>1, HeapAssumption
           DEF heap_allocate_block, None
      <4>2. /\ List' /\ Blocks' = Blocks /\ committed'[b] = n
            /\ \A c \in Blocks \ {b} : committed'[c] = committed[c]
        BY <1>2, <2>2, <2>3, <4>1, CommitSound DEF OverlayBlock
      <4>3. n # 0
        BY <2>2 DEF HDR
      <4> QED
        BY <4>2, <4>3 DEF Pointers
    <3>2. CASE p # None
      <4>1. p \in Blocks /\ p \in Int /\ p + HDR <= b /\ p + committed[p] <= b /\ b + n <= next[p]
        BY <2>2, <2>4, <3>2
      <4>2. InsertBlock(p, b, n)
        BY <1>5, <2>3, <3>2, <4>1 DEF heap_allocate_block, HDR
      <4>3. /\ List' /\ Blocks' = Blocks \cup {b}
            /\ \A c \in Blocks : committed'[c] = committed[c]
        BY <1>2, <2>2, <2>3, <4>1, <4>2, InsertSound
      <4> QED
        BY <4>3 DEF Pointers
    <3> QED
      BY <3>1, <3>2
  <2> QED
    BY <1>2, <1>3, <1>5, <2>6, LeaveSound DEF Finish
<1> QED
  BY <1>3, <1>4, <1>5 DEF alloc_fail

-----------------------------------------------------------------------------
(***************************************************************************)
(* The actions around the calls.                                           *)
(***************************************************************************)
LEMMA InitSound == Init => HInv
<1> SUFFICES ASSUME Init
             PROVE  HInv
  OBVIOUS
<1>1. Blocks = {First}
  BY DEF Init, Blocks
<1>2. ListType
  BY <1>1, HeapAssumption, WordNat DEF Init, ListType, HDR, None
<1>3. ListSound
  BY <1>1, HeapAssumption
     DEF Init, ListSound, InOrder, BackLinks, CommittedFits, Covered, HDR, None
<1>4. \A t \in Threads : req[t] = Idle /\ ~ Passes(t)
  BY DEF Init, Passes, Idle
<1>5. Idle \in Request /\ NoBlock \in [block : Addresses \cup {None}, room : Nat]
      /\ NoHeader \in [committed : 0 .. Word - 1, prev : Addresses \cup {None}]
  BY WordNat DEF Idle, Request, NoBlock, NoHeader, None, HDR
<1>6. TypeOK
  BY <1>2, <1>5 DEF Init, TypeOK, Free
<1>7. OneFrees /\ \A t \in Threads : ThreadSound(t)
  BY <1>4 DEF Init, OneFrees, ThreadSound, Holding, Walking, Moving
<1> QED
  BY <1>3, <1>6, <1>7, InvariantByThread

LEMMA CallSound ==
    ASSUME HInv, NEW t \in Threads, NEW r \in Calls[t], Call(t, r)
    PROVE  HInv'
<1>1. /\ List' /\ Blocks' = Blocks /\ Pointers' = Pointers /\ List
      /\ lock' = lock /\ cur' = cur /\ best' = best /\ old' = old
  BY SameList DEF Call, local
<1>2. /\ pc[t] = "out" /\ pc'[t] = "wait"
      /\ pc' \in [Threads -> {"out", "wait"} \cup Holding]
      /\ \A u \in Threads \ {t} : pc'[u] = pc[u]
  BY DEF Call, Goto, HInv, TypeOK, Holding
<1>3. r \in Request
  BY CallsAssumption
<1>4. \A p \in Pointers : p \in 0 .. Word - 1
  <2>1. \A b \in Blocks : b + HDR \in 0 .. Word - 1
    BY <1>1, ListFacts, HeapAssumption, WordNat DEF HDR
  <2> QED
    BY <2>1 DEF Pointers
<1>5. PICK q \in Request :
         /\ req' = [req EXCEPT ![t] = q]
         /\ q.op \in {"free", "realloc"} => q.arg \in Usable \cup {None}
  <2>1. CASE r.op \notin {"free", "realloc"} /\ req' = [req EXCEPT ![t] = r]
    BY <1>3, <2>1
  <2>2. CASE \E p \in Usable \cup {None} : req' = [req EXCEPT ![t] = [r EXCEPT !.arg = p]]
    <3>1. PICK p \in Usable \cup {None} : req' = [req EXCEPT ![t] = [r EXCEPT !.arg = p]]
      BY <2>2
    <3>2. p \in 0 .. Word - 1
      BY <1>4, WordNat DEF Usable, None, HDR
    <3> DEFINE q == [r EXCEPT !.arg = p]
    <3>3. q \in Request /\ q.arg = p
      BY <1>3, <3>2 DEF Request
    <3>4. req' = [req EXCEPT ![t] = q]
      BY <3>1
    <3> HIDE DEF q
    <3> QED
      BY <3>3, <3>4
  <2> QED
    BY <2>1, <2>2 DEF Call
<1>6. /\ req'[t] = q
      /\ \A u \in Threads \ {t} : req'[u] = req[u]
      /\ req' \in [Threads -> Request]
  BY <1>5 DEF HInv, TypeOK
<1>7. TypeOK'
  BY <1>1, <1>2, <1>6 DEF HInv, TypeOK, List
<1>8. OneFrees /\ \A u \in Threads : ThreadSound(u)
  BY InvariantByThread
<1>9. OneFrees'
  <2>1. Passes(t)' => q.arg \in Usable
    BY <1>5, <1>6 DEF Passes
  <2>2. \A u \in Threads \ {t} : Passes(u)' => Passes(u) /\ req'[u].arg = req[u].arg
    BY <1>6 DEF Passes
  <2>3. \A u \in Threads \ {t} : Passes(u) /\ q.arg \in Usable => req[u].arg # q.arg
    BY DEF Usable, Passes
  <2> QED
    BY <1>6, <1>8, <2>1, <2>2, <2>3 DEF OneFrees
<1>10. ThreadSound(t)'
  BY <1>1, <1>2, <1>5, <1>6, <1>8
     DEF ThreadSound, Holding, Walking, Moving, Passes, Usable
<1>11. ASSUME NEW u \in Threads, u # t
       PROVE  ThreadSound(u)'
  <2>1. /\ pc'[u] = pc[u] /\ req'[u] = req[u] /\ best'[u] = best[u] /\ cur'[u] = cur[u]
        /\ old'[u] = old[u] /\ lock' = lock /\ next' = next /\ committed' = committed
    BY <1>1, <1>2, <1>6, <1>11 DEF Call, list
  <2> QED
    BY <1>1, <1>8, <2>1 DEF ThreadSound, Walking, Moving, Passes, Room, Gross
<1> QED
  BY <1>1, <1>7, <1>9, <1>10, <1>11, InvariantByThreadNext DEF List
(* Back in the program: nothing is said of t but that it remembers nothing. *)
LEMMA ReturnSound ==
    ASSUME HInv, NEW t \in Threads, lock \in {Free, Destroyed, t},
           lock' \in {Free, Destroyed}, UNCHANGED list, Return(t)
    PROVE  HInv'
<1>1. List' /\ Blocks' = Blocks /\ Pointers' = Pointers
  BY SameList
<1>2. /\ Idle \in Request /\ NoBlock \in [block : Addresses \cup {None}, room : Nat]
      /\ NoHeader \in [committed : 0 .. Word - 1, prev : Addresses \cup {None}]
  BY WordNat DEF Idle, Request, NoBlock, NoHeader, None, HDR
<1>3. TypeOK'
  BY <1>1, <1>2 DEF HInv, TypeOK, List, Return, Goto
<1>4. /\ pc'[t] = "out" /\ req'[t] = Idle /\ best'[t] = NoBlock
      /\ \A u \in Threads \ {t} :
            pc'[u] = pc[u] /\ req'[u] = req[u] /\ best'[u] = best[u]
  BY DEF HInv, TypeOK, Return, Goto
<1>5. ThreadSound(t)'
  BY <1>4 DEF ThreadSound, Walking, Moving, Holding
<1> QED
  BY <1>1, <1>3, <1>4, <1>5, StepSound DEF List

LEMMA StoreSound ==
    ASSUME HInv, NEW p \in Pointers, NEW v \in Values, Store(p, v)
    PROVE  HInv'
<1>1. UNCHANGED <<list, lock, pc, req, local>>
  BY DEF Store
<1> QED
  BY <1>1 DEF list, local, HInv, TypeOK, ListType, ListSound, InOrder, BackLinks,
       CommittedFits, Covered, Exclusive, PointersLive, LoopsInList, SearchedInVain,
       BestIsThere, Restorable, Blocks, Pointers, Walking, Moving, Passes, Gross, Room

(* Between two uses of the heap. *)
LEMMA OutsideSound ==
    ASSUME HInv, NobodyInside, List', lock' \in {Free, Destroyed},
           UNCHANGED <<pc, req, local>>
    PROVE  HInv'
<1>1. TypeOK'
  BY DEF HInv, TypeOK, List, local
<1>2. OneFrees /\ \A t \in Threads : ThreadSound(t)
  BY InvariantByThread
<1>3. OneFrees'
  BY <1>2 DEF OneFrees, Passes
<1>4. \A t \in Threads : pc[t] = "out" /\ pc'[t] = "out" /\ best'[t] = best[t]
  BY DEF NobodyInside, local
<1>5. \A t \in Threads : ThreadSound(t)'
  BY <1>2, <1>4 DEF ThreadSound, Holding, Walking, Moving
<1> QED
  BY <1>1, <1>3, <1>5, InvariantByThreadNext DEF List

-----------------------------------------------------------------------------
LEMMA NextSound == HInv /\ [Next]_vars => HInv'
<1> SUFFICES ASSUME HInv, [Next]_vars
             PROVE  HInv'
  OBVIOUS
<1>1. CASE \E t \in Threads : \E r \in Calls[t] : Call(t, r)
  BY <1>1, CallSound
<1>2. ASSUME NEW t \in Threads, Enter(t)
      PROVE  HInv'
  BY <1>2, StartSound, EnterAligned, EnterFixed, EnterFree, EnterRealloc
     DEF Enter, heap_alloc
<1>3. ASSUME NEW t \in Threads, Inside(t)
      PROVE  HInv'
  <2>1. CASE error_enolck(t)
    BY <2>1, ReturnSound DEF error_enolck
  <2>2. CASE heap_lock_release(t)
    <3>1. lock = t
      BY <2>2 DEF heap_lock_release, HInv, Exclusive, Holding
    <3> QED
      BY <2>2, <3>1, ReturnSound DEF heap_lock_release
  <2> QED
    BY <1>3, <2>1, <2>2, FirstFitSound, AlignedFitSound, LocateSound,
       LargestSound, FoundSound, PutBackSound DEF Inside
<1>4. CASE \E p \in Pointers, v \in Values : Store(p, v)
  BY <1>4, StoreSound
<1>5. CASE heap_init
  BY <1>5, FreshList, OutsideSound DEF heap_init
<1>6. CASE heap_destroy
  <2>1. List'
    BY <1>6, SameList DEF heap_destroy
  <2> QED
    BY <1>6, <2>1, OutsideSound DEF heap_destroy
<1>7. CASE UNCHANGED vars
  BY <1>7 DEF vars, list, local, HInv, TypeOK, ListType, ListSound, InOrder, BackLinks,
       CommittedFits, Covered, Exclusive, PointersLive, LoopsInList, SearchedInVain,
       BestIsThere, Restorable, Blocks, Pointers, Walking, Moving, Passes, Gross, Room
<1> QED
  BY <1>1, <1>2, <1>3, <1>4, <1>5, <1>6, <1>7 DEF Next

(***************************************************************************)
(* In every reachable state the list is sound, only the holder of the      *)
(* mutex is inside, and what it remembers of the list is true.             *)
(***************************************************************************)
THEOREM HeapInvariant == Spec => []HInv
<1>1. Init => HInv
  BY InitSound
<1>2. HInv /\ [Next]_vars => HInv'
  BY NextSound
<1> QED
  BY <1>1, <1>2, PTL DEF Spec

(* The headers of the list lie inside the heap. *)
THEOREM HeapTypeOK == Spec => []TypeOK
<1>1. HInv => TypeOK
  BY DEF HInv
<1> QED
  BY <1>1, HeapInvariant, PTL

(***************************************************************************)
(* The block list is ordered, linked both ways, without gaps or overlaps,  *)
(* through any calls of any threads, with the headers the source's own     *)
(* link surgery writes.                                                    *)
(***************************************************************************)
THEOREM HeapListSound == Spec => []ListSound
<1>1. HInv => ListSound
  BY DEF HInv
<1> QED
  BY <1>1, HeapInvariant, PTL

(***************************************************************************)
(* malloc does not fail while there are as many free bytes in a row as it  *)
(* needs: the first fit search meets every run of free bytes.              *)
(***************************************************************************)
THEOREM HeapNoSpuriousENOMEM == Spec => []NoSpuriousENOMEM
<1>1. HInv => NoSpuriousENOMEM
  <2> SUFFICES ASSUME HInv,
                      NEW t \in Threads, pc[t] = "first", cur[t] = End,
                      NEW a \in Addresses, FreeRun(a, Gross(t))
               PROVE  FALSE
    BY DEF NoSpuriousENOMEM
  <2> DEFINE n == Gross(t)
  <2>1. List /\ n \in Int /\ n > 0
    BY RequestFacts DEF HInv, TypeOK, List, HDR
  <2>2. a \in Int /\ First <= a /\ a + n <= End
    BY HeapAssumption DEF Addresses, FreeRun
  <2>3. PICK b \in Blocks : b <= a /\ a < next[b]
    BY <2>1, <2>2, HeapAssumption DEF List, ListSound, Covered
  <2>4. /\ b \in Int /\ committed[b] \in Int /\ next[b] \in Int
        /\ b < End /\ b + committed[b] <= next[b]
        /\ next[b] \in Blocks \/ next[b] = End
    BY <2>1, ListFacts, HeapAssumption DEF HDR
  <2>5. Room(b) < n
    BY <2>4 DEF HInv, SearchedInVain
  <2>6. a >= b + committed[b]
    BY <2>1, <2>2, <2>3, <2>4 DEF FreeRun
  <2>7. a + n <= next[b]
    <3>1. CASE next[b] = End
      BY <2>2, <3>1
    <3>2. CASE next[b] \in Blocks
      <4>1. committed[next[b]] \in Int /\ 0 <= committed[next[b]]
        BY <2>1, <3>2, ListFacts
      <4>2. a + n <= next[b] \/ a >= next[b] + committed[next[b]]
        BY <3>2 DEF FreeRun
      <4> QED
        BY <2>2, <2>3, <2>4, <4>1, <4>2
    <3> QED
      BY <2>4, <3>1, <3>2
  <2> HIDE DEF n
  <2> QED
    BY <2>1, <2>2, <2>4, <2>5, <2>6, <2>7 DEF Room
<1> QED
  BY <1>1, HeapInvariant, PTL

-----------------------------------------------------------------------------
FreeAt(b) == IF committed[b] = 0 THEN b + HDR ELSE b + committed[b]
HeaderArea(b) == <<"header", b, HDR>>
AllocatedArea(b) == <<"allocated", b + HDR, committed[b] - HDR>>
FreeArea(b) == <<"free", FreeAt(b), next[b] - FreeAt(b)>>
Contains(a, x) == a[2] <= x /\ x < a[2] + a[3]

(* The area a byte is in belongs to the block the byte is in. *)
LEMMA AreaOfBlock ==
    ASSUME List, NEW x \in Int, NEW b \in Blocks, b <= x, x < next[b],
           NEW a \in InfoAreas, Contains(a, x)
    PROVE  \/ a = HeaderArea(b) /\ x < b + HDR
           \/ a = AllocatedArea(b) /\ committed[b] # 0
              /\ b + HDR <= x /\ x < b + committed[b]
           \/ a = FreeArea(b) /\ FreeAt(b) <= x
<1>1. /\ \A d \in Blocks : d \in Int /\ next[d] \in Int /\ committed[d] \in Int
      /\ \A d \in Blocks : d + HDR <= next[d] /\ d + committed[d] <= next[d]
      /\ \A d \in Blocks : 0 <= committed[d] /\ (committed[d] # 0 => committed[d] >= HDR)
  BY ListFacts DEF List, ListSound, CommittedFits
<1>2. ASSUME NEW d \in Blocks, d <= x, x < next[d]
      PROVE  d = b
  <2>1. ~ (d < b) /\ ~ (b < d)
    BY <1>1, <1>2 DEF List, ListSound, InOrder
  <2> QED
    BY <1>1, <2>1
<1>3. PICK d \in Blocks : \/ a = HeaderArea(d)
                          \/ a = AllocatedArea(d) /\ committed[d] # 0
                          \/ a = FreeArea(d)
  BY DEF InfoAreas, HeaderArea, AllocatedArea, FreeArea, FreeAt
<1>4. CASE a = HeaderArea(d)
  <2>1. d <= x /\ x < d + HDR
    BY <1>4 DEF Contains, HeaderArea
  <2>2. d = b
    BY <1>1, <1>2, <2>1 DEF HDR
  <2> QED
    BY <1>4, <2>1, <2>2
<1>5. CASE a = AllocatedArea(d) /\ committed[d] # 0
  <2>1. d + HDR <= x /\ x < (d + HDR) + (committed[d] - HDR)
    BY <1>5 DEF Contains, AllocatedArea
  <2>2. x < d + committed[d]
    BY <1>1, <2>1 DEF HDR
  <2>3. d = b
    BY <1>1, <1>2, <2>1, <2>2 DEF HDR
  <2> QED
    BY <1>5, <2>1, <2>2, <2>3
<1>6. CASE a = FreeArea(d)
  <2>1. FreeAt(d) <= x /\ x < FreeAt(d) + (next[d] - FreeAt(d))
    BY <1>6 DEF Contains, FreeArea
  <2>2. FreeAt(d) \in Int /\ d <= FreeAt(d)
    BY <1>1 DEF FreeAt, HDR
  <2>3. d <= x /\ x < next[d]
    BY <1>1, <2>1, <2>2
  <2>4. d = b
    BY <1>2, <2>3
  <2> QED
    BY <1>6, <2>1, <2>4
<1> QED
  BY <1>3, <1>4, <1>5, <1>6

(***************************************************************************)
(* A program that walks the heap with heap_info is shown every byte once,  *)
(* whatever calls came before.                                             *)
(***************************************************************************)
THEOREM HeapInfoTiles == Spec => []InfoTiles
<1>1. HInv => InfoTiles
  <2> SUFFICES ASSUME HInv, NEW x \in First .. End - 1
               PROVE  \E a \in InfoAreas : \A c \in InfoAreas : Contains(c, x) <=> c = a
    BY DEF InfoTiles, Contains
  <2>1. List /\ x \in Int
    BY HeapAssumption DEF HInv, TypeOK, List
  <2>2. PICK b \in Blocks : b <= x /\ x < next[b]
    BY <2>1 DEF List, ListSound, Covered
  <2>3. /\ b \in Int /\ next[b] \in Int /\ committed[b] \in Int
        /\ 0 <= committed[b] /\ (committed[b] # 0 => committed[b] >= HDR)
    BY <2>1, ListFacts DEF List, ListSound, CommittedFits
  <2>4. \A c \in InfoAreas : Contains(c, x) =>
           \/ c = HeaderArea(b) /\ x < b + HDR
           \/ c = AllocatedArea(b) /\ committed[b] # 0
              /\ b + HDR <= x /\ x < b + committed[b]
           \/ c = FreeArea(b) /\ FreeAt(b) <= x
    BY <2>1, <2>2, AreaOfBlock
  <2>5. CASE x < b + HDR
    <3>1. HeaderArea(b) \in InfoAreas
      BY DEF InfoAreas, HeaderArea
    <3>2. Contains(HeaderArea(b), x)
      BY <2>2, <2>5 DEF Contains, HeaderArea
    <3>3. ~ (b + HDR <= x) /\ ~ (FreeAt(b) <= x)
      BY <2>1, <2>3, <2>5 DEF FreeAt, HDR
    <3> QED
      BY <2>4, <3>1, <3>2, <3>3
  <2>6. CASE committed[b] # 0 /\ b + HDR <= x /\ x < b + committed[b]
    <3>1. AllocatedArea(b) \in InfoAreas
      BY <2>6 DEF InfoAreas, AllocatedArea
    <3>2. x < (b + HDR) + (committed[b] - HDR)
      BY <2>1, <2>3, <2>6 DEF HDR
    <3>3. Contains(AllocatedArea(b), x)
      BY <2>6, <3>2 DEF Contains, AllocatedArea
    <3>4. ~ (x < b + HDR) /\ ~ (FreeAt(b) <= x)
      BY <2>1, <2>3, <2>6 DEF FreeAt, HDR
    <3> QED
      BY <2>4, <3>1, <3>3, <3>4
  <2>7. CASE b + HDR <= x /\ FreeAt(b) <= x
    <3>1. FreeAt(b) \in Int /\ next[b] # FreeAt(b)
      BY <2>1, <2>2, <2>3, <2>7 DEF FreeAt, HDR
    <3>2. FreeArea(b) \in InfoAreas
      BY <3>1 DEF InfoAreas, FreeArea, FreeAt
    <3>3. x < FreeAt(b) + (next[b] - FreeAt(b))
      BY <2>1, <2>2, <2>3, <3>1
    <3>4. Contains(FreeArea(b), x)
      BY <2>7, <3>3 DEF Contains, FreeArea
    <3>5. ~ (x < b + HDR) /\ ~ (committed[b] # 0 /\ x < b + committed[b])
      BY <2>1, <2>3, <2>7 DEF FreeAt, HDR
    <3> QED
      BY <2>4, <3>2, <3>4, <3>5
  <2> QED
    BY <2>1, <2>3, <2>5, <2>6, <2>7 DEF FreeAt, HDR
<1> QED
  BY <1>1, HeapInvariant, PTL

=============================================================================
