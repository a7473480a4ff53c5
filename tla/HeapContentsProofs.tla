------------------------- MODULE HeapContentsProofs -------------------------
(***************************************************************************)
(* Nothing the heap or the program writes hits a header, and the heap      *)
(* implements Allocator: objects keep their contents and every call takes  *)
(* effect once, for any heap and any threads.                              *)
(***************************************************************************)
EXTENDS HeapProofs

-----------------------------------------------------------------------------
(***************************************************************************)
(* The bytes of headers.                                                   *)
(***************************************************************************)
HeaderAt(m, b) == \A x \in Int : b <= x /\ x < b + HDR => m[x] = "hdr"

EndIntact(m) == m[End] = "hdr" /\ m[End + 1] = "hdr"

LEMMA ArgIsAddress == HInv => \A t \in Threads : req[t].arg \in 0 .. Word - 1
<1>1. HInv => \A t \in Threads : req[t] \in Request
  BY DEF HInv, TypeOK
<1> QED
  BY <1>1 DEF Request

LEMMA HeaderBytes ==
    ASSUME NEW m, NEW a \in Int
    PROVE  /\ HeaderAt(m, a) <=> \A x \in a .. a + HDR - 1 : m[x] = "hdr"
           /\ HeaderAt(m, a - HDR) <=> \A x \in a - HDR .. a - 1 : m[x] = "hdr"
BY DEF HeaderAt, HDR

LEMMA HeadersApart ==
    HInv => (HeadersIntact <=>
                /\ \A b \in Blocks : HeaderAt(mem, b)
                /\ EndIntact(mem)
                /\ \A t \in Threads : Moving(t) => HeaderAt(mem, req[t].arg - HDR))
<1> SUFFICES ASSUME HInv
             PROVE  HeadersIntact <=>
                      /\ \A b \in Blocks : HeaderAt(mem, b)
                      /\ EndIntact(mem)
                      /\ \A t \in Threads : Moving(t) => HeaderAt(mem, req[t].arg - HDR)
  OBVIOUS
<1>1. \A b \in Blocks :
         HeaderAt(mem, b) <=> \A x \in b .. b + HDR - 1 : mem[x] = "hdr"
  <2>1. \A b \in Blocks : b \in Int
    BY ListFacts DEF HInv, TypeOK, List
  <2> QED
    BY <2>1, HeaderBytes
<1>2. \A t \in Threads : HeaderAt(mem, req[t].arg - HDR) <=>
         \A x \in req[t].arg - HDR .. req[t].arg - 1 : mem[x] = "hdr"
  <2>1. ASSUME NEW t \in Threads
        PROVE  req[t].arg \in Int
    BY ArgIsAddress, WordNat
  <2>2. ASSUME NEW a \in Int
        PROVE  HeaderAt(mem, a - HDR) <=> \A x \in a - HDR .. a - 1 : mem[x] = "hdr"
    BY HeaderBytes
  <2> QED
    BY <2>1, <2>2, Zenon
<1> QED
  BY <1>1, <1>2 DEF HeadersIntact, EndIntact

LEMMA HeadersApartNext ==
    HInv' => (HeadersIntact' <=>
                 /\ \A b \in Blocks' : HeaderAt(mem', b)
                 /\ EndIntact(mem')
                 /\ \A t \in Threads : Moving(t)' => HeaderAt(mem', req'[t].arg - HDR))
<1>1. (HInv => (HeadersIntact <=>
                /\ \A b \in Blocks : HeaderAt(mem, b)
                /\ EndIntact(mem)
                /\ \A t \in Threads : Moving(t) => HeaderAt(mem, req[t].arg - HDR)))'
  BY HeadersApart, PTL
<1> QED
  BY <1>1

(* Where the blocks lie. *)
LEMMA BlocksInside ==
    List => \A b \in Blocks : /\ b \in Int /\ committed[b] \in Int /\ First <= b
                             /\ b + HDR <= End /\ b + committed[b] <= End
BY ListFacts, HeapAssumption

LEMMA BlocksInsideNext ==
    List' => \A b \in Blocks' : /\ b \in Int /\ committed'[b] \in Int /\ First <= b
                               /\ b + HDR <= End /\ b + committed'[b] <= End
<1>1. (List => \A b \in Blocks : /\ b \in Int /\ committed[b] \in Int /\ First <= b
                             /\ b + HDR <= End /\ b + committed[b] <= End)'
  BY BlocksInside, PTL
<1> QED
  BY <1>1

(* What is occupied after a step is what was written. *)
LEMMA ForgetKeeps ==
    ASSUME List', NEW m, mem' = Forget(m)
    PROVE  /\ mem'[End] = m[End] /\ mem'[End + 1] = m[End + 1]
           /\ \A b \in Blocks' : \A x \in Int :
                 b <= x /\ (x < b + HDR \/ x < b + committed'[b]) => mem'[x] = m[x]
<1>1. \A b \in Blocks' : /\ b \in Int /\ committed'[b] \in Int /\ First <= b
                         /\ b + HDR <= End /\ b + committed'[b] <= End
  BY BlocksInsideNext
<1>2. \A x \in Addresses : Occupied(x)' => mem'[x] = m[x]
  BY DEF Forget
<1>3. End \in Addresses /\ End + 1 \in Addresses /\ Occupied(End)' /\ Occupied(End + 1)'
  BY HeapAssumption DEF Addresses, Occupied, HDR
<1>4. ASSUME NEW b \in Blocks', NEW x \in Int,
             b <= x, x < b + HDR \/ x < b + committed'[b]
      PROVE  mem'[x] = m[x]
  <2>1. x \in Addresses
    BY <1>1, <1>4, HeapAssumption DEF Addresses, HDR
  <2>2. Occupied(x)'
    BY <1>4 DEF Occupied
  <2> QED
    BY <1>2, <2>1, <2>2
<1> QED
  BY <1>2, <1>3, <1>4

-----------------------------------------------------------------------------
(***************************************************************************)
(* Steps that write no memory, and steps that end a call.                  *)
(***************************************************************************)
LEMMA IdleOutside ==
    ASSUME ContentsInv, NEW t \in Threads, pc'[t] # "out", req' = req,
           \A u \in Threads \ {t} : pc'[u] = pc[u]
    PROVE  OutsideIdle'
BY DEF ContentsInv, OutsideIdle

LEMMA QuietContents ==
    ASSUME ContentsInv, UNCHANGED <<list, mem>>, OutsideIdle',
           \A u \in Threads : Moving(u)' =>
              Moving(u) /\ req'[u] = req[u] /\ old'[u] = old[u]
    PROVE  ContentsInv'
<1>1. MovesToGrow'
  BY DEF ContentsInv, MovesToGrow, Gross
<1>2. HeadersIntact'
  BY DEF ContentsInv, HeadersIntact, list, Blocks
<1> QED
  BY <1>1, <1>2 DEF ContentsInv

(* Nobody moves a block once a call has been served. *)
LEMMA ServedAlone ==
    ASSUME HInv, NEW t \in Threads, lock \in {Free, t},
           NEW p \in {"release", "lost"}, Goto(t, p)
    PROVE  /\ \A u \in Threads : ~ Moving(u)'
           /\ \A u \in Threads \ {t} : ~ Moving(u) /\ pc'[u] = pc[u]
           /\ pc'[t] = p
<1>1. pc'[t] = p /\ \A u \in Threads \ {t} : pc'[u] = pc[u]
  BY DEF Goto, HInv, TypeOK
<1>2. \A u \in Threads \ {t} : pc[u] \in {"out", "wait"}
  BY HolderAlone
<1> QED
  BY <1>1, <1>2 DEF Moving

LEMMA ServedContents ==
    ASSUME HInv, HInv', ContentsInv, NEW t \in Threads, lock \in {Free, t}, Finish(t),
           NEW m, mem' = Forget(m), \A b \in Blocks' : HeaderAt(m, b), EndIntact(m)
    PROVE  ContentsInv'
<1>1. /\ \A u \in Threads : ~ Moving(u)'
      /\ \A u \in Threads \ {t} : pc'[u] = pc[u]
      /\ pc'[t] = "release"
  BY ServedAlone DEF Finish
<1>2. MovesToGrow' /\ OutsideIdle'
  BY <1>1, IdleOutside DEF MovesToGrow, Finish
<1>3. List'
  BY DEF HInv, TypeOK, List
<1>4. EndIntact(mem')
  BY <1>3, ForgetKeeps DEF EndIntact
<1>5. \A b \in Blocks' : HeaderAt(mem', b)
  BY <1>3, ForgetKeeps DEF HeaderAt
<1> QED
  BY <1>1, <1>2, <1>4, <1>5, HeadersApartNext DEF ContentsInv

LEMMA RefuseContents ==
    ASSUME HInv, ContentsInv, NEW t \in Threads, lock \in {Free, t},
           Refuse(t) \/ Lose(t)
    PROVE  ContentsInv'
<1>1. PICK p \in {"release", "lost"} : Goto(t, p)
  BY DEF Refuse, Lose, Finish
<1>2. /\ \A u \in Threads : ~ Moving(u)'
      /\ \A u \in Threads \ {t} : pc'[u] = pc[u]
      /\ pc'[t] = p
  BY <1>1, ServedAlone
<1>3. UNCHANGED <<list, mem>> /\ req' = req
  BY DEF Refuse, Lose, Finish
<1>4. OutsideIdle'
  BY <1>2, <1>3, IdleOutside
<1> QED
  BY <1>2, <1>3, <1>4, QuietContents

(* A loop that begins or goes on. *)
LEMMA LoopContents ==
    ASSUME HInv, ContentsInv, NEW t \in Threads, UNCHANGED <<list, mem, req, old>>,
           \/ pc' = pc
           \/ \E p \in {"first", "aligned", "locate"} : Goto(t, p)
           \/ Goto(t, "largest") /\ req[t].arg = None
    PROVE  ContentsInv'
<1>1. /\ \A u \in Threads : Moving(u)' => Moving(u)
      /\ \A u \in Threads : pc'[u] = "out" => pc[u] = "out"
  BY DEF Goto, HInv, TypeOK, Moving
<1>2. OutsideIdle'
  BY <1>1 DEF ContentsInv, OutsideIdle
<1> QED
  BY <1>1, <1>2, QuietContents

-----------------------------------------------------------------------------
(***************************************************************************)
(* Where a new block is put there is no header, and its own header is      *)
(* written.                                                                *)
(***************************************************************************)
Slot(b, new) == b \in Blocks /\ new \in Int /\ (new = b \/ b + HDR <= new)

LEMMA SlotClear ==
    ASSUME List, NEW b, NEW new, Slot(b, new),
           NEW x \in Int, new + HDR <= x, x < next[b], NEW c \in Blocks \cup {new}
    PROVE  ~ (c <= x /\ x < c + HDR) /\ x < End
<1>1. \A d \in Blocks : d \in Int /\ next[d] \in Int /\ d + HDR <= next[d] /\ next[d] <= End
  BY ListFacts
<1>2. \A d \in Blocks : (d < b => next[d] <= b) /\ (b < d => next[b] <= d)
  BY DEF List, ListSound, InOrder, Slot
<1> QED
  BY <1>1, <1>2, HeapAssumption DEF Slot, HDR

LEMMA NewHeader ==
    ASSUME HInv, ContentsInv, NEW b, NEW new, Slot(b, new), new + HDR <= next[b]
    PROVE  /\ \A c \in Blocks \cup {new} : HeaderAt(HeaderWritten(b, new), c)
           /\ EndIntact(HeaderWritten(b, new))
<1>1. (\A c \in Blocks : HeaderAt(mem, c)) /\ EndIntact(mem)
  BY HeadersApart DEF ContentsInv
<1>2. /\ b \in Int /\ First <= b /\ next[b] \in Int /\ next[b] <= End
      /\ \A c \in Blocks : c \in Int /\ First <= c /\ c + HDR <= End
  BY ListFacts DEF HInv, TypeOK, List, Slot
<1>3. CASE new = b
  BY <1>1, <1>3 DEF HeaderWritten, Slot
<1>4. CASE new # b
  <2> DEFINE m == HeaderWritten(b, new)
  <2>1. \A x \in Addresses : m[x] = IF new <= x /\ x < new + HDR THEN "hdr" ELSE mem[x]
    BY <1>4 DEF HeaderWritten, Fill
  <2>2. \A c \in Blocks \cup {new} : \A x \in Int : c <= x /\ x < c + HDR => x \in Addresses
    BY <1>2, HeapAssumption DEF Addresses, HDR, Slot
  <2>3. End \in Addresses /\ End + 1 \in Addresses
    BY HeapAssumption DEF Addresses, HDR
  <2> HIDE DEF m
  <2>4. EndIntact(m)
    BY <1>1, <2>1, <2>3 DEF EndIntact
  <2>5. \A c \in Blocks \cup {new} : HeaderAt(m, c)
    BY <1>1, <2>1, <2>2 DEF HeaderAt
  <2> QED
    BY <2>4, <2>5 DEF m
<1> QED
  BY <1>3, <1>4

(* What is written behind the new header leaves every header alone. *)
Differ(m, w, a, n) == \A x \in Addresses : ~ (a <= x /\ x < a + n) => m[x] = w[x]

LEMMA WriteClear ==
    ASSUME List, NEW b, NEW new, Slot(b, new), NEW n \in Nat, new + HDR + n <= next[b],
           NEW w, NEW m, Differ(m, w, new + HDR, n),
           \A c \in Blocks \cup {new} : HeaderAt(w, c), EndIntact(w)
    PROVE  (\A c \in Blocks \cup {new} : HeaderAt(m, c)) /\ EndIntact(m)
<1>1. /\ b \in Int /\ First <= b /\ next[b] \in Int /\ next[b] <= End /\ new \in Int
      /\ b + HDR <= next[b]
      /\ \A c \in Blocks : c \in Int /\ First <= c /\ c + HDR <= End
  BY ListFacts DEF Slot
<1>2. End \in Addresses /\ End + 1 \in Addresses
  BY HeapAssumption DEF Addresses, HDR
<1>3. EndIntact(m)
  BY <1>1, <1>2, HeapAssumption DEF EndIntact, Differ, HDR
<1>4. ASSUME NEW c \in Blocks \cup {new}, NEW x \in Int, c <= x, x < c + HDR
      PROVE  m[x] = "hdr"
  <2>1. w[x] = "hdr"
    BY <1>4 DEF HeaderAt
  <2>2. ~ (new + HDR <= x /\ x < next[b])
    BY <1>4, SlotClear
  <2>3. ~ (new + HDR <= x /\ x < new + HDR + n)
    BY <1>1, <2>2 DEF HDR
  <2>4. x \in Addresses
    <3>1. First <= x
      BY <1>1, <1>4, HeapAssumption DEF Slot, HDR
    <3>2. x < End + 2
      BY <1>1, <1>4, HeapAssumption DEF HDR
    <3> QED
      BY <3>1, <3>2, HeapAssumption DEF Addresses
  <2> QED
    BY <2>1, <2>3, <2>4 DEF Differ
<1> QED
  BY <1>3, <1>4 DEF HeaderAt

(* The blocks after __heap_allocate_block. *)
LEMMA AllocateBlocks ==
    ASSUME List, NEW b, NEW new, Slot(b, new), new < next[b], NEW gross,
           heap_allocate_block(b, new, gross)
    PROVE  /\ Blocks' = Blocks \cup {new}
           /\ committed'[new] = gross
           /\ \A c \in Blocks \ {new} : committed'[c] = committed[c]
           /\ new = b \/ new \notin Blocks
<1>1. CASE new = b /\ OverlayBlock(b, gross)
  BY <1>1 DEF Slot, OverlayBlock, List, ListType, Blocks
<1>2. CASE new # b /\ InsertBlock(b, new, gross)
  <2>1. new > b
    BY <1>2, ListFacts DEF Slot, HDR
  <2>2. new \notin Blocks
    BY <2>1, ListFacts DEF List, ListSound, InOrder, Slot
  <2> QED
    BY <1>2, <2>2 DEF InsertBlock, Blocks
<1> QED
  BY <1>1, <1>2 DEF heap_allocate_block

-----------------------------------------------------------------------------
(***************************************************************************)
(* The headers stay intact, one lemma for each action.                     *)
(***************************************************************************)
LEMMA StartContents ==
    ASSUME HInv, ContentsInv, NEW t \in Threads, heap_lock_acquire(t), StartFirstFit(t)
    PROVE  ContentsInv'
<1>1. lock \in {Free, t}
  BY AcquireFacts
<1>2. CASE Refuse(t)
  BY <1>1, <1>2, RefuseContents
<1>3. CASE Walk(t, "first")
  BY <1>3, LoopContents DEF Walk
<1> QED
  BY <1>2, <1>3 DEF StartFirstFit

LEMMA EnterAlignedContents ==
    ASSUME HInv, ContentsInv, NEW t \in Threads, heap_alloc_aligned(t)
    PROVE  ContentsInv'
<1>1. lock \in {Free, t}
  BY AcquireFacts DEF heap_alloc_aligned
<1>2. CASE Refuse(t) \/ Lose(t)
  BY <1>1, <1>2, RefuseContents
<1>3. CASE StartFirstFit(t)
  BY <1>3, StartContents DEF heap_alloc_aligned
<1>4. CASE Walk(t, "aligned")
  BY <1>4, LoopContents DEF Walk
<1> QED
  BY <1>2, <1>3, <1>4 DEF heap_alloc_aligned

LEMMA EnterFixedContents ==
    ASSUME HInv, ContentsInv, NEW t \in Threads, heap_alloc_fixed(t)
    PROVE  ContentsInv'
BY LoopContents DEF heap_alloc_fixed, Walk

LEMMA EnterFreeContents ==
    ASSUME HInv, HInv', ContentsInv, NEW t \in Threads, heap_free(t)
    PROVE  ContentsInv'
<1>1. lock \in {Free, t}
  BY AcquireFacts DEF heap_free
<1>2. CASE Refuse(t)
  BY <1>1, <1>2, RefuseContents
<1>3. CASE heap_free_unlocked(req[t].arg - HDR) /\ mem' = Forget(mem) /\ Finish(t)
  <2>1. Blocks' \subseteq Blocks
    BY <1>3 DEF heap_free_unlocked, Blocks
  <2>2. (\A c \in Blocks : HeaderAt(mem, c)) /\ EndIntact(mem)
    BY HeadersApart DEF ContentsInv
  <2> QED
    BY <1>1, <1>3, <2>1, <2>2, ServedContents
<1> QED
  BY <1>2, <1>3 DEF heap_free

LEMMA EnterReallocContents ==
    ASSUME HInv, HInv', ContentsInv, NEW t \in Threads, heap_realloc(t)
    PROVE  ContentsInv'
<1> DEFINE b == req[t].arg - HDR
<1>1. pc[t] = "wait" /\ lock \in {Free, t}
  BY AcquireFacts DEF heap_realloc
<1>2. CASE Refuse(t)
  BY <1>1, <1>2, RefuseContents
<1>3. CASE req[t].arg = None /\ Walk(t, "largest")
  BY <1>3, LoopContents DEF Walk
<1>4. (\A c \in Blocks : HeaderAt(mem, c)) /\ EndIntact(mem)
  BY HeadersApart DEF ContentsInv
<1>5. CASE /\ committed' = [committed EXCEPT ![b] = Gross(t)]
           /\ UNCHANGED <<next, prev>>
           /\ mem' = Forget(mem)
           /\ Finish(t)
  <2>1. Blocks' = Blocks
    BY <1>5 DEF Blocks
  <2> QED
    BY <1>1, <1>4, <1>5, <2>1, ServedContents
<1>6. CASE /\ req[t].arg # None
           /\ next[b] - b < Gross(t)
           /\ heap_free_unlocked(b)
           /\ old' = [old EXCEPT ![t] = [committed |-> committed[b], prev |-> prev[b]]]
           /\ Goto(t, "largest")
           /\ UNCHANGED <<mem, req, best>>
  <2>1. /\ pc'[t] = "largest"
        /\ \A u \in Threads \ {t} : pc'[u] = pc[u] /\ pc[u] \in {"out", "wait"}
        /\ old'[t].committed = committed[b]
    BY <1>1, <1>6, HolderAlone DEF HInv, TypeOK, Goto
  <2>2. Passes(t)
    BY <1>6 DEF heap_realloc, Passes
  <2>3. b \in Blocks /\ List
    BY <1>1, <2>2, PassedBlock DEF HInv, TypeOK, List
  <2>4. committed[b] < Gross(t)
    <3>1. /\ b \in Int /\ committed[b] \in Int /\ next[b] \in Int
          /\ b + committed[b] <= next[b]
      BY <2>3, ListFacts
    <3> HIDE DEF b
    <3> QED
      BY <1>6, <3>1, RequestFacts
  <2>5. MovesToGrow'
    <3>1. \A u \in Threads : Moving(u)' => u = t
      BY <2>1 DEF Moving
    <3>2. Gross(t)' = Gross(t)
      BY <1>6 DEF Gross
    <3> QED
      BY <2>1, <2>4, <3>1, <3>2 DEF MovesToGrow
  <2>6. OutsideIdle'
    BY <1>6, <2>1, IdleOutside
  <2>7. Blocks' \subseteq Blocks
    BY <1>6 DEF heap_free_unlocked, Blocks
  <2>8. \A u \in Threads : Moving(u)' => HeaderAt(mem, req[u].arg - HDR)
    BY <1>4, <2>1, <2>3 DEF Moving
  <2>9. HeadersIntact'
    BY <1>4, <1>6, <2>7, <2>8, HeadersApartNext
  <2> QED
    BY <2>5, <2>6, <2>9 DEF ContentsInv
<1> QED
  BY <1>2, <1>3, <1>5, <1>6 DEF heap_realloc

LEMMA FirstFitContents ==
    ASSUME HInv, HInv', ContentsInv, NEW t \in Threads, first_fit(t)
    PROVE  ContentsInv'
<1> DEFINE b == cur[t]
           new == b + committed[b]
           w == HeaderWritten(b, new)
           z == Fill(w, new + HDR, req[t].size, "zero")
<1>1. lock \in {Free, t} /\ List /\ b \in Blocks \cup {End}
  BY WalkingFacts DEF first_fit, Walking
<1>2. CASE Refuse(t)
  BY <1>1, <1>2, RefuseContents
<1>3. CASE Advance(t)
  BY <1>3, LoopContents DEF Advance
<1>4. CASE /\ b # End
           /\ Room(b) >= Gross(t)
           /\ heap_allocate_block(b, new, Gross(t))
           /\ mem' = Forget(IF req[t].op = "calloc" THEN z ELSE w)
           /\ Finish(t)
  <2>1. /\ b \in Blocks /\ b \in Int /\ committed[b] \in Int /\ next[b] \in Int
        /\ committed[b] = 0 \/ committed[b] >= HDR
    BY <1>1, <1>4, ListFacts DEF List, ListSound, CommittedFits
  <2>2. /\ Gross(t) \in Int /\ Gross(t) >= HDR
        /\ req[t].size \in Nat /\ req[t].size + HDR = Gross(t)
    BY RequestFacts, WordNat DEF Gross
  <2>3. Slot(b, new)
    BY <2>1 DEF Slot, HDR
  <2> HIDE DEF b
  <2>4. new + Gross(t) <= next[b]
    BY <1>4, <2>1, <2>2 DEF Room
  <2>5. new + HDR <= next[b] /\ new < next[b] /\ new + HDR + req[t].size <= next[b]
    BY <2>1, <2>2, <2>4 DEF HDR
  <2> HIDE DEF new
  <2>6. (\A c \in Blocks \cup {new} : HeaderAt(w, c)) /\ EndIntact(w)
    BY <2>3, <2>5, NewHeader
  <2>7. Blocks' = Blocks \cup {new}
    BY <1>1, <1>4, <2>3, <2>5, AllocateBlocks
  <2>8. (\A c \in Blocks \cup {new} : HeaderAt(z, c)) /\ EndIntact(z)
    <3>1. Differ(z, w, new + HDR, req[t].size)
      BY DEF Differ, Fill
    <3> HIDE DEF z, w
    <3> QED
      BY <1>1, <2>2, <2>3, <2>5, <2>6, <3>1, WriteClear
  <2> QED
    BY <1>1, <1>4, <2>6, <2>7, <2>8, ServedContents
<1> QED
  BY <1>2, <1>3, <1>4 DEF first_fit

(* Where heap_place_block says it fits, it does. *)
LEMMA PlaceFacts ==
    ASSUME HInv, NEW t \in Threads, NEW b \in Blocks, NEW new \in Int,
           heap_place_block(b, new, Gross(t)) = "fits"
    PROVE  /\ Slot(b, new) /\ new # b
           /\ new + Gross(t) <= next[b] /\ new + HDR <= next[b] /\ new < next[b]
           /\ b + committed[b] <= new
<1>1. new + Gross(t) <= next[b] /\ committed[b] # 0 /\ new >= b + committed[b]
  BY DEF heap_place_block, Fits
<1>2. /\ b \in Int /\ committed[b] \in Int /\ committed[b] >= HDR /\ next[b] \in Int
  BY <1>1, ListFacts DEF HInv, TypeOK, List, ListSound, CommittedFits
<1>3. Gross(t) \in Int /\ Gross(t) >= HDR
  BY RequestFacts
<1> QED
  BY <1>1, <1>2, <1>3 DEF Slot, HDR

LEMMA PlaceContents ==
    ASSUME HInv, HInv', ContentsInv, NEW t \in Threads, lock = t,
           NEW b \in Blocks, NEW new \in Int,
           heap_place_block(b, new, Gross(t)) = "fits",
           InsertBlock(b, new, Gross(t)),
           mem' = Forget(HeaderWritten(b, new)), Finish(t)
    PROVE  ContentsInv'
<1>1. Slot(b, new) /\ new + HDR <= next[b]
  BY PlaceFacts
<1>2. Blocks' = Blocks \cup {new}
  BY DEF InsertBlock, Blocks
<1> QED
  BY <1>1, <1>2, NewHeader, ServedContents

LEMMA AlignedFitContents ==
    ASSUME HInv, HInv', ContentsInv, NEW t \in Threads, aligned_fit(t)
    PROVE  ContentsInv'
<1> DEFINE b == cur[t]
           n == PowerOf2(req[t].arg)
           new == AlignedPlace(b, n)
<1>1. lock = t /\ List /\ b \in Blocks \cup {End}
  BY WalkingFacts DEF aligned_fit, Walking
<1>2. CASE Refuse(t) \/ Lose(t)
  BY <1>1, <1>2, RefuseContents
<1>3. CASE Advance(t)
  BY <1>3, LoopContents DEF Advance
<1>4. CASE /\ b # End
           /\ heap_place_block(b, new, Gross(t)) = "fits"
           /\ InsertBlock(b, new, Gross(t))
           /\ mem' = Forget(HeaderWritten(b, new))
           /\ Finish(t)
  <2>1. new \in Int
    BY <1>1, <1>4, AlignedPlaceInteger
  <2> HIDE DEF b, new
  <2> QED
    BY <1>1, <1>4, <2>1, PlaceContents
<1> QED
  BY <1>2, <1>3, <1>4 DEF aligned_fit

LEMMA LocateContents ==
    ASSUME HInv, HInv', ContentsInv, NEW t \in Threads, locate_fixed(t)
    PROVE  ContentsInv'
<1> DEFINE b == cur[t]
           new == (req[t].arg - HDR) % Word
<1>1. lock = t /\ List /\ b \in Blocks \cup {End}
  BY WalkingFacts DEF locate_fixed, Walking
<1>2. CASE Refuse(t) \/ Lose(t)
  BY <1>1, <1>2, RefuseContents
<1>3. CASE Advance(t)
  BY <1>3, LoopContents DEF Advance
<1>4. CASE /\ heap_place_block(b, new, Gross(t)) = "fits"
           /\ InsertBlock(b, new, Gross(t))
           /\ mem' = Forget(HeaderWritten(b, new))
           /\ Finish(t)
  <2>1. b \in Blocks
    BY <1>1, <1>4 DEF heap_place_block
  <2>2. new \in Int
    BY RequestFacts, WordNat DEF HDR
  <2> HIDE DEF b, new
  <2> QED
    BY <1>1, <1>4, <2>1, <2>2, PlaceContents
<1> QED
  BY <1>2, <1>3, <1>4 DEF locate_fixed

LEMMA LargestContents ==
    ASSUME HInv, ContentsInv, NEW t \in Threads, largest_fit(t)
    PROVE  ContentsInv'
BY LoopContents DEF largest_fit

(* The largest space, and that what realloc moves there fits. *)
LEMMA FoundFacts ==
    ASSUME HInv, ContentsInv, NEW t \in Threads, largest_found(t)
    PROVE  LET b == best[t].block
               new == b + committed[b]
           IN  /\ lock = t /\ List /\ b \in Blocks
               /\ Slot(b, new) /\ new + Gross(t) <= next[b]
               /\ new + HDR <= next[b] /\ new < next[b]
               /\ req[t].arg # None =>
                     /\ Moving(t) /\ old[t].committed - HDR \in Nat
                     /\ old[t].committed < Gross(t)
<1> DEFINE b == best[t].block
           new == b + committed[b]
<1>1. pc[t] = "largest" /\ Walking(t)
  BY DEF largest_found, Walking
<1>2. lock = t /\ List
  BY <1>1, WalkingFacts
<1>3. Gross(t) \in Int /\ Gross(t) >= HDR
  BY RequestFacts
<1>4. best[t] # NoBlock
  BY <1>3 DEF largest_found, NoBlock, HDR
<1>5. b \in Blocks /\ best[t].room = Room(b)
  BY <1>1, <1>4 DEF HInv, BestIsThere
<1>6. Room(b) >= Gross(t)
  BY <1>5 DEF largest_found
<1>7. req[t].arg # None =>
         /\ Moving(t) /\ old[t].committed - HDR \in Nat
         /\ old[t].committed < Gross(t)
  <2> SUFFICES ASSUME req[t].arg # None
               PROVE  /\ Moving(t) /\ old[t].committed - HDR \in Nat
                      /\ old[t].committed < Gross(t)
    OBVIOUS
  <2>1. Moving(t)
    BY <1>1 DEF Moving
  <2>2. old[t].committed >= HDR /\ old[t].committed \in 0 .. Word - 1
    BY <2>1 DEF HInv, TypeOK, Restorable
  <2> QED
    BY <2>1, <2>2, WordNat DEF ContentsInv, MovesToGrow, HDR
<1> HIDE DEF b
<1>8. /\ b \in Int /\ committed[b] \in Int /\ next[b] \in Int
      /\ committed[b] = 0 \/ committed[b] >= HDR
  BY <1>2, <1>5, ListFacts DEF List, ListSound, CommittedFits
<1>9. new + Gross(t) <= next[b] /\ new + HDR <= next[b] /\ new < next[b]
  BY <1>3, <1>6, <1>8 DEF Room, HDR
<1>10. Slot(b, new)
  BY <1>5, <1>8 DEF Slot, HDR
<1> QED
  BY <1>2, <1>5, <1>7, <1>9, <1>10 DEF b

LEMMA FoundContents ==
    ASSUME HInv, HInv', ContentsInv, NEW t \in Threads, largest_found(t)
    PROVE  ContentsInv'
<1> DEFINE b == best[t].block
           new == b + committed[b]
           n == old[t].committed - HDR
           w == HeaderWritten(b, new)
           z == memmove(w, new + HDR, req[t].arg, n)
<1>1. /\ lock = t /\ List /\ b \in Blocks
      /\ Slot(b, new) /\ new + Gross(t) <= next[b]
      /\ new + HDR <= next[b] /\ new < next[b]
  BY FoundFacts
<1>2. /\ heap_allocate_block(b, new, Gross(t))
      /\ mem' = Forget(IF req[t].arg = None THEN w ELSE z)
      /\ Finish(t)
  BY DEF largest_found
<1>3. req[t].arg # None => n \in Nat /\ n + HDR < Gross(t)
  <2>1. req[t].arg # None => n \in Nat /\ old[t].committed < Gross(t)
    BY FoundFacts
  <2>2. old[t].committed \in Int
    BY WordNat DEF HInv, TypeOK
  <2> QED
    BY <2>1, <2>2 DEF HDR
<1>4. Differ(z, w, new + HDR, n)
  BY DEF Differ, memmove
<1> HIDE DEF b, n, z, w
<1>5. (\A c \in Blocks \cup {new} : HeaderAt(w, c)) /\ EndIntact(w)
  BY <1>1, NewHeader DEF w
<1>6. Blocks' = Blocks \cup {new}
  BY <1>1, <1>2, AllocateBlocks
<1>7. CASE req[t].arg = None
  BY <1>1, <1>2, <1>5, <1>6, <1>7, ServedContents
<1>8. CASE req[t].arg # None
  <2>1. new + HDR + n <= next[b]
    <3>1. next[b] \in Int /\ new \in Int /\ Gross(t) \in Int
      BY <1>1, ListFacts, RequestFacts DEF Slot
    <3> HIDE DEF new
    <3> QED
      BY <1>1, <1>3, <1>8, <3>1 DEF HDR
  <2> HIDE DEF new
  <2>2. (\A c \in Blocks \cup {new} : HeaderAt(z, c)) /\ EndIntact(z)
    BY <1>1, <1>3, <1>4, <1>5, <1>8, <2>1, WriteClear
  <2> QED
    BY <1>1, <1>2, <1>6, <1>8, <2>2, ServedContents
<1> QED
  BY <1>7, <1>8

(* The place realloc has freed, as the search for another one leaves it. *)
Into(t) == IF old[t].prev = None THEN req[t].arg - HDR ELSE old[t].prev

LEMMA MovingFacts ==
    ASSUME HInv, NEW t \in Threads, Moving(t)
    PROVE  LET a == req[t].arg - HDR
               n == old[t].committed
           IN  /\ lock = t /\ List /\ Slot(Into(t), a)
               /\ n \in Nat /\ n >= HDR /\ n < Word /\ a \in Int
               /\ First <= a /\ a + n <= next[Into(t)] /\ a + n <= End
               /\ a + HDR <= next[Into(t)] /\ a < next[Into(t)]
               /\ Into(t) # a => Into(t) + committed[Into(t)] <= a
               /\ Into(t) = a => committed[a] = 0
               /\ \A u \in Threads : Moving(u) => u = t
<1> DEFINE a == req[t].arg - HDR
           n == old[t].committed
           p == old[t].prev
<1>1. lock = t /\ \A u \in Threads : Moving(u) => u = t
  BY DEF HInv, Exclusive, Moving, Holding
<1>2. List
  BY DEF HInv, TypeOK, List
<1>3. n \in Nat /\ a \in Int /\ n < Word
  <2>1. old[t] \in [committed : 0 .. Word - 1, prev : Addresses \cup {None}]
    BY DEF HInv, TypeOK
  <2> QED
    BY <2>1, RequestFacts, WordNat DEF HDR
<1>4. /\ n >= HDR
      /\ \/ /\ p = None /\ a = First /\ committed[a] = 0 /\ a + n <= next[a]
         \/ /\ p \in Blocks
            /\ p + HDR <= a /\ p + committed[p] <= a
            /\ a + n <= next[p]
  BY DEF HInv, Restorable
<1>5. First \in Blocks
  BY <1>2 DEF List, ListSound, BackLinks
<1>6. \A c \in Blocks : c \in Int /\ First <= c /\ next[c] \in Int /\ next[c] <= End
  BY <1>2, ListFacts
<1> HIDE DEF a, n, p
<1>7. ASSUME p = None
      PROVE  /\ Slot(Into(t), a)
             /\ First <= a /\ a + n <= next[Into(t)] /\ a + n <= End
             /\ a + HDR <= next[Into(t)] /\ a < next[Into(t)]
             /\ Into(t) # a => Into(t) + committed[Into(t)] <= a
             /\ Into(t) = a => committed[a] = 0
  <2>1. a = First /\ committed[a] = 0 /\ a + n <= next[a]
    BY <1>4, <1>6, <1>7, HeapAssumption DEF None
  <2>2. Into(t) = a
    BY <1>7 DEF Into, a, p
  <2> QED
    BY <1>3, <1>4, <1>5, <1>6, <2>1, <2>2, HeapAssumption DEF Slot, HDR
<1>8. ASSUME p # None
      PROVE  /\ Slot(Into(t), a)
             /\ First <= a /\ a + n <= next[Into(t)] /\ a + n <= End
             /\ a + HDR <= next[Into(t)] /\ a < next[Into(t)]
             /\ Into(t) # a => Into(t) + committed[Into(t)] <= a
             /\ Into(t) = a => committed[a] = 0
  <2>1. p \in Blocks /\ p + HDR <= a /\ p + committed[p] <= a /\ a + n <= next[p]
    BY <1>4, <1>8
  <2>2. Into(t) = p
    BY <1>8 DEF Into, p
  <2> QED
    BY <1>3, <1>4, <1>6, <2>1, <2>2, HeapAssumption DEF Slot, HDR
<1> QED
  BY <1>1, <1>2, <1>3, <1>4, <1>7, <1>8 DEF a, n

LEMMA PutBackContents ==
    ASSUME HInv, HInv', ContentsInv, NEW t \in Threads, alloc_fail(t)
    PROVE  ContentsInv'
<1> DEFINE a == req[t].arg - HDR
<1>1. pc[t] = "largest" /\ lock = t
  BY DEF alloc_fail, HInv, Exclusive, Holding
<1>2. CASE Refuse(t)
  BY <1>1, <1>2, RefuseContents
<1>3. CASE /\ req[t].arg # None
           /\ heap_allocate_block(Into(t), a, old[t].committed)
           /\ mem' = Forget(HeaderWritten(Into(t), a))
           /\ Finish(t)
  <2>1. Moving(t)
    BY <1>1, <1>3 DEF Moving
  <2>2. List /\ Slot(Into(t), a) /\ a + HDR <= next[Into(t)] /\ a < next[Into(t)]
    BY <2>1, MovingFacts
  <2> HIDE DEF a
  <2>3. Blocks' = Blocks \cup {a}
    BY <1>3, <2>2, AllocateBlocks
  <2>4. /\ \A c \in Blocks \cup {a} : HeaderAt(HeaderWritten(Into(t), a), c)
        /\ EndIntact(HeaderWritten(Into(t), a))
    BY <2>2, NewHeader
  <2> QED
    BY <1>1, <1>3, <2>3, <2>4, ServedContents
<1> QED
  BY <1>2, <1>3 DEF alloc_fail, Into

(* A store into an object stays inside the object's own block. *)
LEMMA StoreInside ==
    ASSUME HInv, NEW p \in Pointers, NEW x \in Int,
           p <= x, x < p + committed[p - HDR] - HDR
    PROVE  /\ p - HDR \in Blocks /\ committed[p - HDR] # 0
           /\ p - HDR + HDR <= x /\ x < p - HDR + committed[p - HDR] /\ x < End
           /\ \A c \in Blocks : c <= x /\ (x < c + HDR \/ x < c + committed[c]) => c = p - HDR
           /\ \A t \in Threads : Moving(t) =>
                 ~ (req[t].arg - HDR <= x /\ x < req[t].arg - HDR + old[t].committed)
<1>1. PICK b \in Blocks : committed[b] # 0 /\ p = b + HDR
  BY DEF Pointers
<1>2. List
  BY DEF HInv, TypeOK, List
<1>3. \A c \in Blocks : /\ c \in Int /\ committed[c] \in Int /\ next[c] \in Int
                        /\ c + HDR <= next[c] /\ c + committed[c] <= next[c]
                        /\ next[c] <= End
  BY <1>2, ListFacts
<1>4. p - HDR = b /\ b + HDR <= x /\ x < b + committed[b]
  BY <1>1, <1>3 DEF HDR
<1>5. \A c \in Blocks : (c < b => next[c] <= b) /\ (b < c => next[b] <= c)
  BY <1>2 DEF List, ListSound, InOrder
<1>6. ASSUME NEW c \in Blocks, c <= x, x < c + HDR \/ x < c + committed[c]
      PROVE  c = p - HDR
  BY <1>3, <1>4, <1>5, <1>6 DEF HDR
<1>7. ASSUME NEW t \in Threads, Moving(t)
      PROVE  ~ (req[t].arg - HDR <= x /\ x < req[t].arg - HDR + old[t].committed)
  <2> DEFINE a == req[t].arg - HDR
             n == old[t].committed
             q == Into(t)
  <2>1. /\ q \in Blocks /\ a \in Int /\ n \in Nat /\ (q = a \/ q + HDR <= a)
        /\ a + n <= next[q]
        /\ q # a => q + committed[q] <= a
        /\ q = a => committed[a] = 0
    BY <1>7, MovingFacts DEF Slot
  <2> HIDE DEF a, n, q
  <2>2. ASSUME b = q
        PROVE  ~ (a <= x /\ x < a + n)
    BY <1>1, <1>3, <1>4, <2>1, <2>2
  <2>3. ASSUME b # q
        PROVE  ~ (a <= x /\ x < a + n)
    <3>1. next[q] <= b \/ next[b] <= q
      BY <1>2, <1>3, <2>1, <2>3 DEF List, ListSound, InOrder
    <3> QED
      BY <1>3, <1>4, <2>1, <2>3, <3>1 DEF HDR
  <2> QED
    BY <2>2, <2>3 DEF a, n
<1>8. x < End
  BY <1>1, <1>3, <1>4, HeapAssumption
<1>9. /\ p - HDR \in Blocks /\ committed[p - HDR] # 0
      /\ p - HDR + HDR <= x /\ x < p - HDR + committed[p - HDR]
  BY <1>1, <1>4
<1> QED
  BY <1>6, <1>7, <1>8, <1>9

LEMMA StoreContents ==
    ASSUME HInv, ContentsInv, NEW p \in Pointers, NEW v \in Values, Store(p, v)
    PROVE  ContentsInv'
<1>1. UNCHANGED <<list, lock, pc, req, local>>
  BY DEF Store
<1>2. MovesToGrow' /\ OutsideIdle'
  BY <1>1 DEF ContentsInv, MovesToGrow, OutsideIdle, Moving, Gross, local
<1>3. \A x \in Addresses : ~ (p <= x /\ x < p + (committed[p - HDR] - HDR)) => mem'[x] = mem[x]
  BY DEF Store, Fill
<1>4. List
  BY DEF HInv, TypeOK, List
<1>5. /\ p - HDR \in Int /\ committed[p - HDR] \in Int /\ p \in Int
  <2>1. PICK b \in Blocks : p = b + HDR
    BY DEF Pointers
  <2>2. b \in Int /\ committed[b] \in Int
    BY <1>4, ListFacts
  <2>3. p - HDR = b
    BY <2>1, <2>2 DEF HDR
  <2> QED
    BY <2>1, <2>2, <2>3 DEF HDR
<1>6. ASSUME NEW x \in Addresses,
             \/ x >= End
             \/ \E c \in Blocks : c <= x /\ x < c + HDR
             \/ \E t \in Threads : Moving(t) /\ req[t].arg - HDR <= x /\ x < req[t].arg
      PROVE  mem'[x] = mem[x]
  <2>1. x \in Int
    BY HeapAssumption DEF Addresses
  <2> SUFFICES ASSUME p <= x, x < p + (committed[p - HDR] - HDR)
               PROVE  FALSE
    BY <1>3
  <2>2. x < p + committed[p - HDR] - HDR
    BY <1>5, <2>1 DEF HDR
  <2>3. /\ p - HDR + HDR <= x /\ x < End
        /\ \A c \in Blocks : c <= x /\ (x < c + HDR \/ x < c + committed[c]) => c = p - HDR
        /\ \A t \in Threads : Moving(t) =>
              ~ (req[t].arg - HDR <= x /\ x < req[t].arg - HDR + old[t].committed)
    BY <2>1, <2>2, StoreInside
  <2>4. CASE x >= End
    BY <2>1, <2>3, <2>4, HeapAssumption
  <2>5. CASE \E c \in Blocks : c <= x /\ x < c + HDR
    <3>1. PICK c \in Blocks : c <= x /\ x < c + HDR
      BY <2>5
    <3>2. c = p - HDR
      BY <2>3, <3>1
    <3> QED
      BY <1>5, <2>1, <2>3, <3>1, <3>2 DEF HDR
  <2>6. CASE \E t \in Threads : Moving(t) /\ req[t].arg - HDR <= x /\ x < req[t].arg
    <3>1. PICK t \in Threads : Moving(t) /\ req[t].arg - HDR <= x /\ x < req[t].arg
      BY <2>6
    <3>2. /\ req[t].arg \in Int /\ old[t].committed \in Nat /\ old[t].committed >= HDR
      BY <3>1, MovingFacts, RequestFacts, WordNat
    <3>3. x < req[t].arg - HDR + old[t].committed
      BY <2>1, <3>1, <3>2 DEF HDR
    <3> QED
      BY <2>3, <3>1, <3>3
  <2> QED
    BY <1>6, <2>4, <2>5, <2>6
<1>7. /\ \A b \in Blocks : HeaderAt(mem, b)
      /\ EndIntact(mem)
      /\ \A t \in Threads : Moving(t) => HeaderAt(mem, req[t].arg - HDR)
  BY HeadersApart DEF ContentsInv
<1>8. \A b \in Blocks : HeaderAt(mem', b)
  <2>1. \A c \in Blocks : \A x \in Int : c <= x /\ x < c + HDR => x \in Addresses
    BY <1>4, BlocksInside, HeapAssumption DEF Addresses, HDR
  <2> QED
    BY <1>6, <1>7, <2>1 DEF HeaderAt
<1>9. EndIntact(mem')
  <2>1. End \in Addresses /\ End + 1 \in Addresses /\ End >= End /\ End + 1 >= End
    BY HeapAssumption DEF Addresses, HDR
  <2> QED
    BY <1>6, <1>7, <2>1 DEF EndIntact
<1>10. ASSUME NEW t \in Threads, Moving(t), NEW x \in Int,
              req[t].arg - HDR <= x, x < req[t].arg - HDR + HDR
       PROVE  mem'[x] = "hdr"
  <2>1. /\ req[t].arg \in Int /\ old[t].committed \in Nat /\ old[t].committed >= HDR
        /\ First <= req[t].arg - HDR /\ req[t].arg - HDR + old[t].committed <= End
    BY <1>10, MovingFacts, RequestFacts, WordNat
  <2>2. x < req[t].arg /\ x \in Addresses
    BY <1>10, <2>1, HeapAssumption DEF Addresses, HDR
  <2>3. mem'[x] = mem[x]
    BY <1>6, <1>10, <2>2
  <2>4. mem[x] = "hdr"
    BY <1>7, <1>10 DEF HeaderAt
  <2> QED
    BY <2>3, <2>4
<1>11. HeadersIntact'
  <2>1. HInv'
    BY StoreSound
  <2>2. Blocks' = Blocks /\ req' = req /\ \A t \in Threads : Moving(t)' => Moving(t)
    BY <1>1 DEF Blocks, list, Moving
  <2>3. \A t \in Threads : Moving(t)' => HeaderAt(mem', req'[t].arg - HDR)
    BY <1>10, <2>2 DEF HeaderAt
  <2> QED
    BY <1>8, <1>9, <2>1, <2>2, <2>3, HeadersApartNext
<1> QED
  BY <1>2, <1>11 DEF ContentsInv

LEMMA CallContents ==
    ASSUME HInv, ContentsInv, NEW t \in Threads, NEW r \in Calls[t], Call(t, r)
    PROVE  ContentsInv'
<1>1. /\ UNCHANGED <<list, mem, local>>
      /\ pc'[t] = "wait"
      /\ \A u \in Threads \ {t} : pc'[u] = pc[u] /\ req'[u] = req[u]
  BY DEF Call, Goto, HInv, TypeOK
<1>2. OutsideIdle'
  BY <1>1 DEF ContentsInv, OutsideIdle
<1>3. \A u \in Threads : Moving(u)' => Moving(u) /\ req'[u] = req[u]
  BY <1>1 DEF Moving
<1> QED
  BY <1>1, <1>2, <1>3, QuietContents DEF local

LEMMA ReturnContents ==
    ASSUME HInv, ContentsInv, NEW t \in Threads, Return(t), UNCHANGED <<list, mem>>
    PROVE  ContentsInv'
<1>1. /\ pc'[t] = "out" /\ req'[t] = Idle
      /\ \A u \in Threads \ {t} : /\ pc'[u] = pc[u] /\ req'[u] = req[u]
                                  /\ old'[u] = old[u]
  BY DEF Return, Goto, HInv, TypeOK
<1>2. OutsideIdle'
  BY <1>1 DEF ContentsInv, OutsideIdle
<1>3. \A u \in Threads : Moving(u)' => u # t /\ Moving(u)
  BY <1>1 DEF Moving
<1> QED
  BY <1>1, <1>2, <1>3, QuietContents

LEMMA InitContents == Init => ContentsInv
<1> SUFFICES ASSUME Init
             PROVE  ContentsInv
  OBVIOUS
<1>1. \A x \in Addresses : x < First + HDR \/ x >= End => mem[x] = "hdr"
  BY DEF Init
<1>2. \A b \in Blocks : \A x \in b .. b + HDR - 1 : x \in Addresses /\ x < First + HDR
  BY HeapAssumption DEF Init, Blocks, Addresses, HDR
<1>3. End \in Addresses /\ End + 1 \in Addresses /\ End + 1 >= End /\ End >= End
  BY HeapAssumption DEF Addresses, HDR
<1>4. \A t \in Threads : ~ Moving(t) /\ req[t] = Idle
  BY DEF Init, Moving
<1> QED
  BY <1>1, <1>2, <1>3, <1>4 DEF ContentsInv, MovesToGrow, OutsideIdle, HeadersIntact

LEMMA ResetContents ==
    ASSUME HInv, HInv', ContentsInv, heap_init
    PROVE  ContentsInv'
<1> DEFINE m == Fill(mem, First, HDR, "hdr")
<1>1. /\ \A t \in Threads : pc'[t] = "out" /\ ~ Moving(t)'
      /\ pc' = pc /\ req' = req /\ Blocks' = {First} /\ mem' = Forget(m)
  BY DEF heap_init, NobodyInside, Moving, Blocks
<1>2. MovesToGrow' /\ OutsideIdle'
  BY <1>1 DEF ContentsInv, MovesToGrow, OutsideIdle
<1>3. HeaderAt(m, First) /\ EndIntact(m)
  <2>1. EndIntact(mem)
    BY HeadersApart DEF ContentsInv
  <2>2. \A x \in Addresses : m[x] = IF First <= x /\ x < First + HDR THEN "hdr" ELSE mem[x]
    BY DEF Fill
  <2> HIDE DEF m
  <2>3. End \in Addresses /\ End + 1 \in Addresses
    BY HeapAssumption DEF Addresses, HDR
  <2>4. \A x \in Int : First <= x /\ x < First + HDR => x \in Addresses
    BY HeapAssumption DEF Addresses, HDR
  <2> QED
    BY <2>1, <2>2, <2>3, <2>4 DEF HeaderAt, EndIntact
<1> HIDE DEF m
<1>4. List'
  BY DEF HInv, TypeOK, List
<1>5. EndIntact(mem') /\ \A b \in Blocks' : HeaderAt(mem', b)
  BY <1>1, <1>3, <1>4, ForgetKeeps DEF EndIntact, HeaderAt
<1> QED
  BY <1>1, <1>2, <1>5, HeadersApartNext DEF ContentsInv

-----------------------------------------------------------------------------
LEMMA ContentsSound == HInv /\ HInv' /\ ContentsInv /\ [Next]_vars => ContentsInv'
<1> SUFFICES ASSUME HInv, HInv', ContentsInv, [Next]_vars
             PROVE  ContentsInv'
  OBVIOUS
<1>1. CASE \E t \in Threads : \E r \in Calls[t] : Call(t, r)
  BY <1>1, CallContents
<1>2. ASSUME NEW t \in Threads, Enter(t)
      PROVE  ContentsInv'
  BY <1>2, StartContents, EnterAlignedContents, EnterFixedContents, EnterFreeContents,
     EnterReallocContents DEF Enter, heap_alloc
<1>3. ASSUME NEW t \in Threads, Inside(t)
      PROVE  ContentsInv'
  <2>1. CASE error_enolck(t) \/ heap_lock_release(t)
    BY <2>1, ReturnContents DEF error_enolck, heap_lock_release
  <2> QED
    BY <1>3, <2>1, FirstFitContents, AlignedFitContents, LocateContents,
       LargestContents, FoundContents, PutBackContents DEF Inside
<1>4. CASE \E p \in Pointers, v \in Values : Store(p, v)
  BY <1>4, StoreContents
<1>5. CASE heap_init
  BY <1>5, ResetContents
<1>6. CASE heap_destroy \/ UNCHANGED vars
  <2>1. UNCHANGED <<list, mem, pc, req, local>>
    BY <1>6 DEF heap_destroy, vars
  <2>2. OutsideIdle'
    BY <2>1 DEF ContentsInv, OutsideIdle
  <2> QED
    BY <2>1, <2>2, QuietContents DEF Moving, local
<1> QED
  BY <1>1, <1>2, <1>3, <1>4, <1>5, <1>6 DEF Next

(***************************************************************************)
(* In every reachable state the headers are intact, realloc moves a block  *)
(* only to make it larger, and a thread outside the heap asks nothing.     *)
(***************************************************************************)
THEOREM HeapContentsInvariant == Spec => [](HInv /\ ContentsInv)
<1>1. Init => HInv /\ ContentsInv
  BY InitSound, InitContents
<1>2. HInv /\ ContentsInv /\ [Next]_vars => (HInv /\ ContentsInv)'
  BY NextSound, ContentsSound
<1> QED
  BY <1>1, <1>2, PTL DEF Spec

(***************************************************************************)
(* The header bytes of the list, the end marker, and what realloc reads    *)
(* back of a header it has freed are never overwritten: not by the stores  *)
(* of the program into its objects, and not by the filling and moving of   *)
(* contents in calloc and realloc.                                         *)
(***************************************************************************)
THEOREM HeapHeadersIntact == Spec => []HeadersIntact
<1>1. HInv /\ ContentsInv => HeadersIntact
  BY DEF ContentsInv
<1> QED
  BY <1>1, HeapContentsInvariant, PTL

-----------------------------------------------------------------------------
(***************************************************************************)
(* Which call is in which loop.                                            *)
(***************************************************************************)
LEMMA SameLoop ==
    ASSUME RightLoop, NEW t \in Threads,
           \A u \in Threads \ {t} : pc'[u] = pc[u] /\ req'[u] = req[u],
           \/ pc'[t] \in {"out", "wait", "release", "lost", "largest"}
           \/ pc'[t] = pc[t] /\ req'[t] = req[t]
    PROVE  RightLoop'
BY DEF RightLoop

LEMMA StartLoop ==
    ASSUME HInv, RightLoop, NEW t \in Threads, StartFirstFit(t),
           \/ req[t].op \in {"alloc", "calloc"}
           \/ req[t].op = "aligned" /\ PowerOf2(req[t].arg) = 1
    PROVE  RightLoop'
<1>1. req' = req
  BY DEF StartFirstFit, Refuse, Finish, Walk
<1>2. /\ pc'[t] \in {"release", "first"}
      /\ \A u \in Threads \ {t} : pc'[u] = pc[u]
  BY DEF StartFirstFit, Refuse, Finish, Walk, Goto, HInv, TypeOK
<1> QED
  BY <1>1, <1>2 DEF RightLoop

LEMMA AlignedLoop ==
    ASSUME HInv, RightLoop, NEW t \in Threads, heap_alloc_aligned(t)
    PROVE  RightLoop'
<1>1. CASE Refuse(t) \/ Lose(t)
  <2>1. req' = req /\ pc'[t] \in {"release", "lost"}
        /\ \A u \in Threads \ {t} : pc'[u] = pc[u]
    BY <1>1 DEF Refuse, Lose, Finish, Goto, HInv, TypeOK
  <2> QED
    BY <2>1, SameLoop
<1>2. CASE PowerOf2(req[t].arg) = 1 /\ StartFirstFit(t)
  BY <1>2, StartLoop DEF heap_alloc_aligned
<1>3. CASE PowerOf2(req[t].arg) \notin {1, Word} /\ Walk(t, "aligned")
  <2>1. req' = req /\ pc'[t] = "aligned" /\ \A u \in Threads \ {t} : pc'[u] = pc[u]
    BY <1>3 DEF Walk, Goto, HInv, TypeOK
  <2>2. req[t].op = "aligned"
    BY DEF heap_alloc_aligned
  <2> QED
    BY <1>3, <2>1, <2>2 DEF RightLoop
<1> QED
  BY <1>1, <1>2, <1>3 DEF heap_alloc_aligned

LEMMA FixedLoop ==
    ASSUME HInv, RightLoop, NEW t \in Threads, heap_alloc_fixed(t)
    PROVE  RightLoop'
<1>1. /\ req' = req /\ pc'[t] = "locate" /\ req[t].op = "fixed"
      /\ \A u \in Threads \ {t} : pc'[u] = pc[u]
  BY DEF heap_alloc_fixed, Walk, Goto, HInv, TypeOK
<1> QED
  BY <1>1 DEF RightLoop

(* The other actions begin no such loop. *)
LEMMA OtherLoop ==
    ASSUME HInv, RightLoop, NEW t \in Threads,
           \/ heap_free(t) \/ heap_realloc(t) \/ Inside(t)
           \/ \E r \in Calls[t] : Call(t, r)
    PROVE  RightLoop'
<1> USE DEF Goto, HInv, TypeOK
<1>1. /\ \A u \in Threads \ {t} : pc'[u] = pc[u] /\ req'[u] = req[u]
      /\ \/ pc'[t] \in {"out", "wait", "release", "lost", "largest"}
         \/ pc'[t] = pc[t] /\ req'[t] = req[t]
  <2>1. CASE heap_free(t) \/ heap_realloc(t)
    BY <2>1 DEF heap_free, heap_realloc, Refuse, Finish, Walk
  <2>2. CASE first_fit(t) \/ aligned_fit(t) \/ locate_fixed(t)
    BY <2>2 DEF first_fit, aligned_fit, locate_fixed, Refuse, Lose, Finish, Advance
  <2>3. CASE largest_fit(t) \/ largest_found(t) \/ alloc_fail(t)
    BY <2>3 DEF largest_fit, largest_found, alloc_fail, Refuse, Finish
  <2>4. CASE error_enolck(t) \/ heap_lock_release(t)
    BY <2>4 DEF error_enolck, heap_lock_release, Return
  <2>5. CASE \E r \in Calls[t] : Call(t, r)
    BY <2>5 DEF Call
  <2> QED
    BY <2>1, <2>2, <2>3, <2>4, <2>5 DEF Inside
<1> QED
  BY <1>1, SameLoop

LEMMA LoopSound == HInv /\ RightLoop /\ [Next]_vars => RightLoop'
<1> SUFFICES ASSUME HInv, RightLoop, [Next]_vars
             PROVE  RightLoop'
  OBVIOUS
<1>1. ASSUME NEW t \in Threads, \/ Enter(t) \/ Inside(t)
                                \/ \E r \in Calls[t] : Call(t, r)
      PROVE  RightLoop'
  BY <1>1, StartLoop, AlignedLoop, FixedLoop, OtherLoop DEF Enter, heap_alloc
<1>2. ASSUME UNCHANGED <<pc, req>>
      PROVE  RightLoop'
  BY <1>2 DEF RightLoop
<1> QED
  BY <1>1, <1>2 DEF Next, Store, heap_init, heap_destroy, vars

LEMMA InitLoop == Init => RightLoop
BY DEF Init, RightLoop

-----------------------------------------------------------------------------
(***************************************************************************)
(* The objects: every live pointer, and the one realloc is moving.         *)
(***************************************************************************)
Body(m, p, n) == [i \in 0 .. n - 1 |-> m[p + i]]

LEMMA BodyAt ==
    ASSUME NEW m, NEW p, NEW n
    PROVE  /\ DOMAIN Body(m, p, n) = 0 .. n - 1
           /\ \A i \in DOMAIN Body(m, p, n) : Body(m, p, n)[i] = m[p + i]
BY DEF Body

LEMMA BodyEqual ==
    ASSUME NEW m, NEW w, NEW p \in Int, NEW n \in Int,
           \A x \in Int : p <= x /\ x < p + n => m[x] = w[x]
    PROVE  Body(m, p, n) = Body(w, p, n)
<1>1. \A i \in 0 .. n - 1 : m[p + i] = w[p + i]
  OBVIOUS
<1> QED
  BY <1>1 DEF Body

LEMMA BlockPointer ==
    HInv => \A p \in Pointers :
               /\ p - HDR \in Blocks /\ committed[p - HDR] # 0
               /\ p \in Int /\ p - HDR + HDR = p
               /\ committed[p - HDR] \in Nat /\ committed[p - HDR] >= HDR
               /\ First + HDR <= p /\ p - HDR + committed[p - HDR] <= End
<1> SUFFICES ASSUME HInv, NEW p \in Pointers
             PROVE  /\ p - HDR \in Blocks /\ committed[p - HDR] # 0
                    /\ p \in Int /\ p - HDR + HDR = p
                    /\ committed[p - HDR] \in Nat /\ committed[p - HDR] >= HDR
                    /\ First + HDR <= p /\ p - HDR + committed[p - HDR] <= End
  BY Zenon
<1>1. List
  BY DEF HInv, TypeOK, List
<1>2. PICK b \in Blocks : committed[b] # 0 /\ p = b + HDR
  BY DEF Pointers
<1>3. /\ b \in Int /\ committed[b] \in Int /\ First <= b
      /\ b + HDR <= End /\ b + committed[b] <= End
  BY <1>1, BlocksInside
<1>4. committed[b] >= HDR
  BY <1>1, <1>2 DEF List, ListSound, CommittedFits
<1>5. p - HDR = b
  BY <1>2, <1>3 DEF HDR
<1> QED
  BY <1>2, <1>3, <1>4, <1>5, HeapAssumption DEF HDR

LEMMA BlockPointerNext ==
    HInv' => \A p \in Pointers' :
               /\ p - HDR \in Blocks' /\ committed'[p - HDR] # 0
               /\ p \in Int /\ p - HDR + HDR = p
               /\ committed'[p - HDR] \in Nat /\ committed'[p - HDR] >= HDR
<1>1. (HInv => \A p \in Pointers :
               /\ p - HDR \in Blocks /\ committed[p - HDR] # 0
               /\ p \in Int /\ p - HDR + HDR = p
               /\ committed[p - HDR] \in Nat /\ committed[p - HDR] >= HDR
               /\ First + HDR <= p /\ p - HDR + committed[p - HDR] <= End)'
  BY BlockPointer, PTL
<1> QED
  BY <1>1

LEMMA ObjectsAre ==
    HInv =>
      /\ DOMAIN Objects = Pointers \cup Moved
      /\ \A p \in Pointers : Objects[p] = Body(mem, p, committed[p - HDR] - HDR)
      /\ (\A t \in Threads : ~ Moving(t)) => Moved = {}
      /\ \A t \in Threads : Moving(t) =>
            /\ Moved = {req[t].arg} /\ req[t].arg \notin Pointers
            /\ Objects[req[t].arg] = Body(mem, req[t].arg, old[t].committed - HDR)
<1> SUFFICES ASSUME HInv
             PROVE  /\ \A p \in Pointers : Objects[p] = Body(mem, p, committed[p - HDR] - HDR)
                    /\ \A t \in Threads : Moving(t) =>
                          /\ Moved = {req[t].arg} /\ req[t].arg \notin Pointers
                          /\ Objects[req[t].arg] = Body(mem, req[t].arg, old[t].committed - HDR)
  BY DEF Objects, Moved
<1>1. ASSUME NEW t \in Threads, Moving(t)
      PROVE  /\ Moved = {req[t].arg} /\ req[t].arg \notin Pointers
             /\ SizeOf(req[t].arg) = old[t].committed - HDR
  <2>1. \A u \in Threads : Moving(u) => u = t
    BY <1>1, MovingFacts
  <2>2. Moved = {req[t].arg}
    BY <1>1, <2>1 DEF Moved
  <2>3. (CHOOSE u \in Threads : Moving(u) /\ req[u].arg = req[t].arg) = t
    BY <1>1, <2>1
  <2>4. SizeOf(req[t].arg) = old[t].committed - HDR
    BY <2>2, <2>3 DEF SizeOf
  <2>5. req[t].arg \notin Pointers
    <3> DEFINE a == req[t].arg - HDR
               q == Into(t)
    <3>1. /\ List /\ q \in Blocks /\ a \in Int /\ (q = a \/ q + HDR <= a) /\ a < next[q]
          /\ q = a => committed[a] = 0
      BY <1>1, MovingFacts DEF Slot
    <3> HIDE DEF a, q
    <3>2. a \in Blocks => a = q
      BY <3>1, ListFacts DEF List, ListSound, InOrder, HDR
    <3> QED
      BY <3>1, <3>2, BlockPointer DEF a
  <2> QED
    BY <2>2, <2>4, <2>5
<1>2. ASSUME NEW p \in Pointers
      PROVE  SizeOf(p) = committed[p - HDR] - HDR
  <2>1. p \notin Moved
    BY <1>1 DEF Moved
  <2> QED
    BY <2>1 DEF SizeOf
<1>3. ASSUME NEW p \in Pointers \cup Moved
      PROVE  Objects[p] = Body(mem, p, SizeOf(p))
  BY DEF Objects, Body
<1> QED
  BY <1>1, <1>2, <1>3

LEMMA ObjectsAreNext ==
    HInv' =>
      /\ DOMAIN Objects' = Pointers' \cup Moved'
      /\ \A p \in Pointers' : Objects'[p] = Body(mem', p, committed'[p - HDR] - HDR)
      /\ (\A t \in Threads : ~ Moving(t)') => Moved' = {}
      /\ \A t \in Threads : Moving(t)' =>
            /\ Moved' = {req'[t].arg} /\ req'[t].arg \notin Pointers'
            /\ Objects'[req'[t].arg] = Body(mem', req'[t].arg, old'[t].committed - HDR)
<1>1. (HInv =>
      /\ DOMAIN Objects = Pointers \cup Moved
      /\ \A p \in Pointers : Objects[p] = Body(mem, p, committed[p - HDR] - HDR)
      /\ (\A t \in Threads : ~ Moving(t)) => Moved = {}
      /\ \A t \in Threads : Moving(t) =>
            /\ Moved = {req[t].arg} /\ req[t].arg \notin Pointers
            /\ Objects[req[t].arg] = Body(mem, req[t].arg, old[t].committed - HDR))'
  BY ObjectsAre, PTL
<1> QED
  BY <1>1

LEMMA ObjectsEqual ==
    ASSUME DOMAIN Objects' = DOMAIN Objects,
           \A p \in DOMAIN Objects : Objects'[p] = Objects[p]
    PROVE  Objects' = Objects
<1>1. Objects = [p \in DOMAIN Objects |-> Objects[p]]
  BY DEF Objects
<1>2. Objects' = [p \in DOMAIN Objects' |-> Objects'[p]]
  BY DEF Objects
<1> QED
  BY <1>1, <1>2, Zenon

(***************************************************************************)
(* The objects lie inside the heap and apart from each other.              *)
(***************************************************************************)
LEMMA ObjectsApart == HInv => A!Apart(Objects)
<1> SUFFICES ASSUME HInv
             PROVE  A!Apart(Objects)
  OBVIOUS
<1>1. ASSUME NEW p \in Pointers
      PROVE  A!Extent(Objects, p) = {p + i : i \in 0 .. committed[p - HDR] - HDR - 1}
  BY ObjectsAre DEF A!Extent, Body
<1>2. ASSUME NEW p \in Pointers, NEW x \in A!Extent(Objects, p)
      PROVE  /\ x \in Int /\ p <= x /\ x < p + committed[p - HDR] - HDR /\ p >= First + HDR
             /\ x < End
  <2>1. PICK i \in 0 .. committed[p - HDR] - HDR - 1 : x = p + i
    BY <1>1, <1>2
  <2>2. /\ p \in Int /\ committed[p - HDR] \in Nat /\ p >= First + HDR
        /\ p - HDR + committed[p - HDR] <= End
    BY BlockPointer
  <2> QED
    BY <2>1, <2>2, HeapAssumption DEF HDR
<1>3. ASSUME NEW t \in Threads, Moving(t)
      PROVE  A!Extent(Objects, req[t].arg) =
                {req[t].arg + i : i \in 0 .. old[t].committed - HDR - 1}
  BY <1>3, ObjectsAre DEF A!Extent, Body
<1>4. ASSUME NEW t \in Threads, Moving(t)
      PROVE  /\ req[t].arg >= First + HDR
             /\ \A x \in A!Extent(Objects, req[t].arg) :
                   /\ x \in Int /\ x >= First + HDR /\ x < End
                   /\ req[t].arg - HDR <= x /\ x < req[t].arg - HDR + old[t].committed
  <2>1. /\ old[t].committed \in Nat /\ First <= req[t].arg - HDR
        /\ req[t].arg - HDR + old[t].committed <= End
        /\ req[t].arg \in Int
    BY <1>4, MovingFacts, RequestFacts, WordNat
  <2>2. ASSUME NEW x \in A!Extent(Objects, req[t].arg)
        PROVE  \E i \in 0 .. old[t].committed - HDR - 1 : x = req[t].arg + i
    BY <1>3, <1>4
  <2>3. ASSUME NEW i \in 0 .. old[t].committed - HDR - 1, NEW x, x = req[t].arg + i
        PROVE  /\ x \in Int /\ x >= First + HDR /\ x < End
               /\ req[t].arg - HDR <= x /\ x < req[t].arg - HDR + old[t].committed
    BY <2>1, <2>3, HeapAssumption DEF HDR
  <2>4. req[t].arg >= First + HDR
    BY <2>1, HeapAssumption DEF HDR
  <2> QED
    BY <2>2, <2>3, <2>4
<1>5. \A p \in DOMAIN Objects :
         p \in Pointers \/ \E t \in Threads : Moving(t) /\ p = req[t].arg
  BY ObjectsAre DEF Moved
<1>6. \A p \in DOMAIN Objects :
         p >= First + HDR /\ A!Extent(Objects, p) \subseteq First + HDR .. End - 1
  <2>1. ASSUME NEW p \in Pointers
        PROVE  p >= First + HDR /\ A!Extent(Objects, p) \subseteq First + HDR .. End - 1
    BY <1>2, BlockPointer, HeapAssumption DEF HDR
  <2>2. ASSUME NEW t \in Threads, Moving(t)
        PROVE  /\ req[t].arg >= First + HDR
               /\ A!Extent(Objects, req[t].arg) \subseteq First + HDR .. End - 1
    BY <1>4, <2>2, HeapAssumption DEF HDR
  <2> QED
    BY <1>5, <2>1, <2>2
<1>7. ASSUME NEW p \in Pointers, NEW r \in DOMAIN Objects, p # r
      PROVE  A!Extent(Objects, p) \cap A!Extent(Objects, r) = {}
  <2> SUFFICES ASSUME NEW x \in A!Extent(Objects, p), x \in A!Extent(Objects, r)
               PROVE  FALSE
    OBVIOUS
  <2>1. /\ x \in Int /\ p <= x /\ x < p + committed[p - HDR] - HDR
    BY <1>2
  <2>2. /\ \A c \in Blocks : c <= x /\ (x < c + HDR \/ x < c + committed[c]) => c = p - HDR
        /\ \A t \in Threads : Moving(t) =>
              ~ (req[t].arg - HDR <= x /\ x < req[t].arg - HDR + old[t].committed)
    BY <2>1, StoreInside
  <2>3. CASE r \in Pointers
    <3>1. r <= x /\ x < r + committed[r - HDR] - HDR
      BY <1>2, <2>3
    <3>2. r - HDR \in Blocks /\ r \in Int /\ committed[r - HDR] \in Nat
      BY <2>3, BlockPointer
    <3>3. r - HDR = p - HDR
      BY <2>1, <2>2, <3>1, <3>2 DEF HDR
    <3> QED
      BY <1>7, <3>2, <3>3, BlockPointer DEF HDR
  <2>4. CASE \E t \in Threads : Moving(t) /\ r = req[t].arg
    BY <1>4, <2>2, <2>4
  <2> QED
    BY <1>5, <2>3, <2>4
<1>8. \A p, r \in DOMAIN Objects :
         p # r => A!Extent(Objects, p) \cap A!Extent(Objects, r) = {}
  <2>1. ASSUME NEW p \in DOMAIN Objects \ Pointers, NEW r \in DOMAIN Objects \ Pointers
        PROVE  p = r
    BY <1>5, ObjectsAre
  <2> QED
    BY <1>7, <2>1
<1> QED
  BY <1>6, <1>8 DEF A!Apart

-----------------------------------------------------------------------------
(***************************************************************************)
(* A step of the heap is a step of Allocator, or no step.                  *)
(***************************************************************************)
Refines ==
    \/ \E t \in Threads : A!Serve(t) \/ A!Call(t) \/ A!Return(t)
    \/ A!Store \/ A!Reset
    \/ UNCHANGED <<Objects, req, Served>>

LEMMA QuietObjects ==
    ASSUME HInv, HInv', UNCHANGED <<list, mem>>,
           \A t \in Threads : Moving(t)' <=> Moving(t),
           \A t \in Threads : Moving(t) => req'[t] = req[t] /\ old'[t] = old[t]
    PROVE  Objects' = Objects
<1>1. Pointers' = Pointers /\ mem' = mem /\ committed' = committed
  BY DEF Pointers, Blocks, list
<1>2. Moved' = Moved
  BY DEF Moved
<1>3. DOMAIN Objects' = DOMAIN Objects
  BY <1>1, <1>2, ObjectsAre, ObjectsAreNext
<1>4. \A p \in Pointers : Objects'[p] = Objects[p]
  BY <1>1, ObjectsAre, ObjectsAreNext
<1>5. \A t \in Threads : Moving(t) => Objects'[req[t].arg] = Objects[req[t].arg]
  BY <1>1, ObjectsAre, ObjectsAreNext
<1>6. \A p \in DOMAIN Objects : Objects'[p] = Objects[p]
  BY <1>4, <1>5, ObjectsAre DEF Moved
<1> QED
  BY <1>3, <1>6, ObjectsEqual

LEMMA ServeSound ==
    ASSUME HInv, NEW t \in Threads, pc[t] # "release", Goto(t, "release"), req' = req,
           A!Allocate(req[t]) \/ A!Free(req[t]) \/ A!Resize(req[t]) \/ A!Fail(req[t])
    PROVE  Refines
<1>1. t \notin Served /\ Served' = Served \cup {t}
  BY DEF Goto, Served, HInv, TypeOK
<1>2. A!Serve(t)
  BY <1>1 DEF A!Serve
<1> QED
  BY <1>2 DEF Refines

(* A call that fails, or has nothing to free. *)
LEMMA RefuseRefines ==
    ASSUME HInv, HInv', NEW t \in Threads, pc[t] # "release", lock \in {Free, t},
           ~ Moving(t), Refuse(t), req[t].op = "free" => req[t].arg = None
    PROVE  Refines
<1>1. UNCHANGED <<list, mem, req, local>> /\ Goto(t, "release")
  BY DEF Refuse, Finish
<1>2. \A u \in Threads : ~ Moving(u)' /\ ~ Moving(u)
  BY <1>1, ServedAlone
<1>3. Objects' = Objects
  BY <1>1, <1>2, QuietObjects
<1>4. CASE req[t].op # "free"
  BY <1>1, <1>3, <1>4, ServeSound DEF A!Fail
<1>5. CASE req[t].op = "free"
  <2>1. None \notin DOMAIN Objects
    <3>1. \A p \in Pointers : First + HDR <= p
      BY BlockPointer
    <3>2. Moved = {} /\ DOMAIN Objects = Pointers \cup Moved
      BY <1>2, ObjectsAre
    <3>3. ~ (First + HDR <= None)
      BY HeapAssumption DEF None, HDR
    <3> QED
      BY <3>1, <3>2, <3>3
  <2>2. DOMAIN Objects \ {None} = DOMAIN Objects
    BY <2>1
  <2>3. Objects = [p \in DOMAIN Objects |-> Objects[p]]
    BY DEF Objects
  <2>4. Objects' = [p \in DOMAIN Objects \ {req[t].arg} |-> Objects[p]]
    BY <1>3, <1>5, <2>2, <2>3
  <2>5. A!Free(req[t])
    BY <1>5, <2>4 DEF A!Free
  <2> QED
    BY <1>1, <2>5, ServeSound
<1> QED
  BY <1>4, <1>5

(* A loop that begins or goes on, and a processor that is lost. *)
LEMMA LoopRefines ==
    ASSUME HInv, HInv', NEW t \in Threads, UNCHANGED <<list, mem, req, old>>,
           pc[t] # "release",
           \/ pc' = pc
           \/ \E p \in {"first", "aligned", "locate", "lost"} : Goto(t, p) /\ ~ Moving(t)
           \/ Goto(t, "largest") /\ req[t].arg = None
    PROVE  Refines
<1>1. /\ \A u \in Threads : Moving(u)' <=> Moving(u)
      /\ Served' = Served
  BY DEF Goto, HInv, TypeOK, Moving, Served
<1>2. Objects' = Objects
  BY <1>1, QuietObjects
<1> QED
  BY <1>1, <1>2 DEF Refines

(* The objects when a call is done. *)
LEMMA ServedObjects ==
    ASSUME HInv, HInv', NEW t \in Threads, lock \in {Free, t}, Finish(t),
           NEW m, mem' = Forget(m)
    PROVE  /\ DOMAIN Objects' = Pointers'
           /\ \A p \in Pointers' :
                 Objects'[p] = Body(m, p, committed'[p - HDR] - HDR)
<1>1. \A u \in Threads : ~ Moving(u)'
  BY ServedAlone DEF Finish
<1>2. /\ DOMAIN Objects' = Pointers'
      /\ \A p \in Pointers' : Objects'[p] = Body(mem', p, committed'[p - HDR] - HDR)
  BY <1>1, ObjectsAreNext
<1>3. List'
  BY DEF HInv, TypeOK, List
<1>4. ASSUME NEW p \in Pointers'
      PROVE  Body(mem', p, committed'[p - HDR] - HDR) = Body(m, p, committed'[p - HDR] - HDR)
  <2> DEFINE n == committed'[p - HDR]
  <2>1. p \in Int /\ n \in Nat /\ p - HDR \in Blocks' /\ p - HDR + HDR = p
    BY BlockPointerNext
  <2>2. \A x \in Int : p - HDR <= x /\ (x < p - HDR + HDR \/ x < p - HDR + n) => mem'[x] = m[x]
    BY <1>3, <2>1, ForgetKeeps
  <2>3. \A x \in Int : p <= x /\ x < p + (n - HDR) => mem'[x] = m[x]
    BY <2>1, <2>2 DEF HDR
  <2>4. n - HDR \in Int
    BY <2>1 DEF HDR
  <2> HIDE DEF n
  <2> QED
    BY <2>1, <2>3, <2>4, BodyEqual DEF n
<1> QED
  BY <1>2, <1>4

(* What lies in the free bytes of a block is in no object. *)
LEMMA WriteApart ==
    ASSUME List, NEW b, NEW new, Slot(b, new), b + committed[b] <= new,
           NEW c \in Blocks, NEW x \in Int, c <= x, x < c + committed[c]
    PROVE  ~ (new <= x /\ x < next[b])
<1>1. \A d \in Blocks : /\ d \in Int /\ next[d] \in Int /\ committed[d] \in Int
                        /\ d + committed[d] <= next[d]
  BY ListFacts
<1>2. \A d \in Blocks : (d < b => next[d] <= b) /\ (b < d => next[b] <= d)
  BY DEF List, ListSound, InOrder, Slot
<1> QED
  BY <1>1, <1>2 DEF Slot, HDR

(* A memory that differs only in the free bytes of b from new on. *)
WrittenFree(m, b, new) ==
    \A x \in Addresses : ~ (new <= x /\ x < next[b]) => m[x] = mem[x]

(* One more object, and the others as they were. *)
LEMMA NewObject ==
    ASSUME HInv, HInv', NEW t \in Threads, lock \in {Free, t}, Finish(t),
           NEW b, NEW new, Slot(b, new), b + committed[b] <= new,
           NEW gross \in Int, gross >= HDR, new + gross <= next[b],
           heap_allocate_block(b, new, gross), NEW m, mem' = Forget(m),
           WrittenFree(m, b, new)
    PROVE  /\ new + HDR \notin Pointers
           /\ DOMAIN Objects' = Pointers \cup {new + HDR}
           /\ \A p \in Pointers : Objects'[p] = Objects[p]
           /\ Objects'[new + HDR] = Body(m, new + HDR, gross - HDR)
<1>1. List /\ b \in Blocks /\ new \in Int
  BY DEF HInv, TypeOK, List, Slot
<1>2. /\ b \in Int /\ next[b] \in Int /\ committed[b] \in Int /\ 0 <= committed[b]
      /\ \A c \in Blocks : c \in Int
  BY <1>1, ListFacts
<1>3. new < next[b]
  BY <1>1, <1>2 DEF HDR
<1>4. /\ Blocks' = Blocks \cup {new} /\ committed'[new] = gross
      /\ \A c \in Blocks \ {new} : committed'[c] = committed[c]
      /\ new = b \/ new \notin Blocks
  BY <1>1, <1>3, AllocateBlocks
<1>5. new + HDR \notin Pointers
  <2> SUFFICES ASSUME new + HDR \in Pointers
               PROVE  FALSE
    OBVIOUS
  <2>1. PICK c \in Blocks : committed[c] # 0 /\ new + HDR = c + HDR
    BY DEF Pointers
  <2>2. c = new
    BY <1>1, <1>2, <2>1 DEF HDR
  <2> QED
    BY <1>2, <1>4, <2>1, <2>2
<1>6. \A p \in Pointers : p - HDR \in Blocks \ {new}
  BY <1>5, BlockPointer
<1>7. Pointers' = Pointers \cup {new + HDR}
  <2>1. \A c \in Blocks \ {new} : committed'[c] = committed[c]
    BY <1>4
  <2>2. gross # 0
    BY DEF HDR
  <2>3. new \in Blocks => committed[new] = 0
    BY <1>2, <1>4
  <2> QED
    BY <1>4, <2>1, <2>2, <2>3 DEF Pointers
<1>8. /\ DOMAIN Objects' = Pointers'
      /\ \A p \in Pointers' : Objects'[p] = Body(m, p, committed'[p - HDR] - HDR)
  BY ServedObjects
<1>9. Objects'[new + HDR] = Body(m, new + HDR, gross - HDR)
  <2>1. (new + HDR) - HDR = new
    BY <1>1 DEF HDR
  <2> QED
    BY <1>4, <1>7, <1>8, <2>1
<1>10. ASSUME NEW p \in Pointers
       PROVE  Objects'[p] = Objects[p]
  <2> DEFINE c == p - HDR
             n == committed[c]
  <2>1. /\ c \in Blocks \ {new} /\ p \in Int /\ n \in Nat /\ n >= HDR /\ c + HDR = p
        /\ First + HDR <= p /\ c + n <= End
    BY <1>6, BlockPointer
  <2>2. committed'[c] = n
    BY <1>4, <2>1
  <2>3. Objects'[p] = Body(m, p, n - HDR)
    BY <1>7, <1>8, <2>2
  <2>4. Objects[p] = Body(mem, p, n - HDR)
    BY ObjectsAre
  <2>5. ASSUME NEW x \in Int, p <= x, x < p + (n - HDR)
        PROVE  m[x] = mem[x]
    <3>1. c \in Int /\ c <= x /\ x < c + committed[c] /\ x \in Addresses
      BY <1>2, <2>1, <2>5, HeapAssumption DEF Addresses, HDR
    <3>2. ~ (new <= x /\ x < next[b])
      BY <1>1, <2>1, <3>1, WriteApart
    <3> QED
      BY <3>1, <3>2 DEF WrittenFree
  <2>6. n - HDR \in Int
    BY <2>1 DEF HDR
  <2> HIDE DEF n
  <2> QED
    BY <2>1, <2>3, <2>4, <2>5, <2>6, BodyEqual
<1> QED
  BY <1>5, <1>7, <1>8, <1>9, <1>10

(* A call that allocates, and does not move anything. *)
LEMMA AllocateRefines ==
    ASSUME HInv, HInv', NEW t \in Threads, lock \in {Free, t}, Finish(t), ~ Moving(t),
           pc[t] # "release",
           NEW b, NEW new, Slot(b, new), b + committed[b] <= new,
           new + Gross(t) <= next[b],
           heap_allocate_block(b, new, Gross(t)), NEW m, mem' = Forget(m),
           WrittenFree(m, b, new),
           \/ req[t].op \in {"alloc", "calloc", "aligned", "fixed"}
           \/ req[t].op = "realloc" /\ req[t].arg = None,
           req[t].op = "calloc" =>
              \A x \in Addresses : new + HDR <= x /\ x < new + HDR + req[t].size => m[x] = "zero",
           req[t].op = "aligned" =>
              \E n \in A!Alignments : n >= A!Asked(req[t].arg) /\ (new + HDR) % n = 0,
           req[t].op = "fixed" => new + HDR = req[t].arg
    PROVE  Refines
<1> DEFINE p == new + HDR
<1>1. /\ Gross(t) \in Int /\ Gross(t) >= HDR /\ Gross(t) - HDR = req[t].size
      /\ req[t].size \in Nat
  BY RequestFacts, WordNat DEF Gross, HDR
<1>2. /\ p \notin Pointers
      /\ DOMAIN Objects' = Pointers \cup {p}
      /\ \A q \in Pointers : Objects'[q] = Objects[q]
      /\ Objects'[p] = Body(m, p, req[t].size)
  <2> DEFINE gross == Gross(t)
  <2>1. gross \in Int /\ gross >= HDR
    BY <1>1
  <2>2. new + gross <= next[b] /\ heap_allocate_block(b, new, gross)
    OBVIOUS
  <2>3. gross - HDR = req[t].size
    BY <1>1
  <2> HIDE DEF gross
  <2>4. /\ new + HDR \notin Pointers
        /\ DOMAIN Objects' = Pointers \cup {new + HDR}
        /\ \A q \in Pointers : Objects'[q] = Objects[q]
        /\ Objects'[new + HDR] = Body(m, new + HDR, gross - HDR)
    BY <2>1, <2>2, NewObject
  <2> QED
    BY <2>3, <2>4
<1>3. /\ Goto(t, "release") /\ req' = req
  BY DEF Finish
<1>4. DOMAIN Objects = Pointers
  <2>1. \A u \in Threads : ~ Moving(u)
    BY <1>3, ServedAlone
  <2> QED
    BY <2>1, ObjectsAre
<1>5. DOMAIN Objects'[p] = 0 .. req[t].size - 1
  BY <1>2 DEF Body
<1>6. req[t].op = "calloc" => \A i \in 0 .. req[t].size - 1 : Objects'[p][i] = "zero"
  <2>1. next[b] <= End /\ First <= b /\ b \in Int /\ new \in Int /\ next[b] \in Int
    BY ListFacts DEF HInv, TypeOK, List, Slot
  <2>2. ASSUME NEW i \in 0 .. req[t].size - 1
        PROVE  p + i \in Addresses /\ new + HDR <= p + i /\ p + i < new + HDR + req[t].size
    BY <1>1, <2>1, HeapAssumption DEF Addresses, HDR, Slot
  <2>3. \A i \in 0 .. req[t].size - 1 : Objects'[p][i] = m[p + i]
    BY <1>2 DEF Body
  <2> QED
    BY <2>2, <2>3
<1> HIDE DEF p
<1>7. A!Same(DOMAIN Objects)
  BY <1>2, <1>4 DEF A!Same
<1>8. /\ p \in DOMAIN Objects' \ DOMAIN Objects
      /\ DOMAIN Objects' = DOMAIN Objects \cup {p}
  BY <1>2, <1>4
<1>9. /\ req[t].op = "aligned" => \E n \in A!Alignments : n >= A!Asked(req[t].arg) /\ p % n = 0
      /\ req[t].op = "fixed" => p = req[t].arg
  BY DEF p
<1>10. A!Allocate(req[t])
  BY <1>5, <1>6, <1>7, <1>8, <1>9 DEF A!Allocate, A!Null, None
<1> QED
  BY <1>3, <1>10, ServeSound

-----------------------------------------------------------------------------
(***************************************************************************)
(* The actions as steps of Allocator, one lemma each.                      *)
(***************************************************************************)
LEMMA HeaderFree ==
    ASSUME HInv, NEW b, NEW new, Slot(b, new), new + HDR <= next[b]
    PROVE  WrittenFree(HeaderWritten(b, new), b, new)
<1>1. new \in Int /\ next[b] \in Int
  BY ListFacts DEF HInv, TypeOK, List, Slot
<1>2. ASSUME NEW x \in Addresses, ~ (new <= x /\ x < next[b])
      PROVE  ~ (new <= x /\ x < new + HDR)
  BY <1>1, <1>2, HeapAssumption DEF Addresses, HDR
<1> QED
  BY <1>2 DEF WrittenFree, HeaderWritten, Fill

(* What is written behind the header of a new block. *)
LEMMA BehindHeader ==
    ASSUME HInv, NEW b, NEW new, Slot(b, new), NEW n \in Int,
           new + HDR + n <= next[b], NEW w, WrittenFree(w, b, new),
           NEW m, Differ(m, w, new + HDR, n)
    PROVE  WrittenFree(m, b, new)
<1>1. new \in Int /\ next[b] \in Int
  BY ListFacts DEF HInv, TypeOK, List, Slot
<1>2. ASSUME NEW x \in Addresses, ~ (new <= x /\ x < next[b])
      PROVE  ~ (new + HDR <= x /\ x < new + HDR + n)
  BY <1>1, <1>2, HeapAssumption DEF Addresses, HDR
<1> QED
  BY <1>2 DEF WrittenFree, Differ

LEMMA StartRefines ==
    ASSUME HInv, HInv', NEW t \in Threads, heap_lock_acquire(t), StartFirstFit(t),
           req[t].op # "free"
    PROVE  Refines
<1>1. pc[t] = "wait" /\ lock \in {Free, t} /\ ~ Moving(t)
  BY AcquireFacts DEF Moving
<1>2. CASE Refuse(t)
  BY <1>1, <1>2, RefuseRefines
<1>3. CASE Walk(t, "first")
  BY <1>1, <1>3, LoopRefines DEF Walk
<1> QED
  BY <1>2, <1>3 DEF StartFirstFit

LEMMA EnterAlignedRefines ==
    ASSUME HInv, HInv', NEW t \in Threads, heap_alloc_aligned(t)
    PROVE  Refines
<1>1. /\ pc[t] = "wait" /\ lock \in {Free, t} /\ ~ Moving(t) /\ heap_lock_acquire(t)
      /\ req[t].op # "free"
  BY AcquireFacts DEF heap_alloc_aligned, Moving
<1>2. CASE Refuse(t)
  BY <1>1, <1>2, RefuseRefines
<1>3. CASE StartFirstFit(t)
  BY <1>1, <1>3, StartRefines
<1>4. CASE Walk(t, "aligned")
  BY <1>1, <1>4, LoopRefines DEF Walk
<1>5. CASE Lose(t)
  BY <1>1, <1>5, LoopRefines DEF Lose, local
<1> QED
  BY <1>2, <1>3, <1>4, <1>5 DEF heap_alloc_aligned

LEMMA EnterFixedRefines ==
    ASSUME HInv, HInv', NEW t \in Threads, heap_alloc_fixed(t)
    PROVE  Refines
<1>1. pc[t] = "wait" /\ ~ Moving(t) /\ Walk(t, "locate")
  BY AcquireFacts DEF heap_alloc_fixed, Moving
<1> QED
  BY <1>1, LoopRefines DEF Walk

(* What an alignment is promoted to, and that AlignUp aligns. *)
LEMMA PowerOfTwo ==
    ASSUME NEW a \in 0 .. Word - 1, PowerOf2(a) # Word
    PROVE  PowerOf2(a) \in A!Alignments /\ PowerOf2(a) >= A!Asked(a)
<1>1. CASE a < 256
  <2>1. a \in 0 .. 255
    BY <1>1
  <2>2. PowerOf2Byte(a) \in Powers /\ PowerOf2Byte(a) >= a
    BY <2>1, PowerOf2ByteIs
  <2>3. PowerOf2(a) = PowerOf2Byte(a) /\ A!Asked(a) = a
    BY <1>1 DEF PowerOf2, A!Asked
  <2> QED
    BY <2>2, <2>3 DEF Powers, A!Alignments
<1>2. CASE ~ (a < 256)
  <2> DEFINE k == a \div 256
             m == PowerOf2Byte(k)
  <2>1. k \in 0 .. 255
    BY <1>2 DEF Word
  <2>2. m \in Powers /\ m >= k
    BY <2>1, PowerOf2ByteIs
  <2>3. PowerOf2(a) = 256 * m /\ A!Asked(a) = 256 * k
    BY <1>2 DEF PowerOf2, A!Asked
  <2> HIDE DEF k, m
  <2>4. m \in {1, 2, 4, 8, 16, 32, 64, 128}
    BY <2>2, <2>3 DEF Powers, Word
  <2> QED
    BY <2>1, <2>2, <2>3, <2>4 DEF A!Alignments
<1> QED
  BY <1>1, <1>2

LEMMA RemainderOfOne == \A x \in Int : x % 1 = 0
OBVIOUS

LEMMA MultipleOf ==
    ASSUME NEW k \in Int, NEW n \in A!Alignments
    PROVE  (k * n) % n = 0
<1>1. CASE n \in {1, 2, 4, 8, 16, 32}
  BY <1>1
<1>2. CASE n \in {64, 128, 256, 512, 1024}
  BY <1>2
<1>3. CASE n \in {2048, 4096, 8192, 16384, 32768}
  BY <1>3
<1> QED
  BY <1>1, <1>2, <1>3 DEF A!Alignments

LEMMA AlignUpAligns ==
    ASSUME NEW a \in Int, NEW n \in A!Alignments
    PROVE  AlignUp(a, n) % n = 0
<1>1. n \in Nat \ {0}
  BY DEF A!Alignments
<1>2. ((a + n - 1) \div n) \in Int
  BY <1>1
<1> QED
  BY <1>2, MultipleOf DEF AlignUp

LEMMA FirstFitRefines ==
    ASSUME HInv, HInv', RightLoop, NEW t \in Threads, first_fit(t)
    PROVE  Refines
<1> DEFINE b == cur[t]
           new == b + committed[b]
           w == HeaderWritten(b, new)
           z == Fill(w, new + HDR, req[t].size, "zero")
           m == IF req[t].op = "calloc" THEN z ELSE w
<1>1. /\ lock \in {Free, t} /\ List /\ b \in Blocks \cup {End}
      /\ pc[t] = "first" /\ ~ Moving(t)
  BY WalkingFacts DEF first_fit, Walking, Moving
<1>2. /\ req[t].op \in {"alloc", "calloc", "aligned"}
      /\ req[t].op = "aligned" => PowerOf2(req[t].arg) = 1
  BY <1>1 DEF RightLoop
<1>3. CASE Refuse(t)
  BY <1>1, <1>2, <1>3, RefuseRefines
<1>4. CASE Advance(t)
  BY <1>1, <1>4, LoopRefines DEF Advance
<1>5. CASE /\ b # End
           /\ Room(b) >= Gross(t)
           /\ heap_allocate_block(b, new, Gross(t))
           /\ mem' = Forget(m)
           /\ Finish(t)
  <2>1. /\ b \in Blocks /\ b \in Int /\ committed[b] \in Int /\ next[b] \in Int
        /\ committed[b] = 0 \/ committed[b] >= HDR
    BY <1>1, <1>5, ListFacts DEF List, ListSound, CommittedFits
  <2>2. /\ Gross(t) \in Int /\ Gross(t) >= HDR
        /\ req[t].size \in Nat /\ req[t].size + HDR = Gross(t)
    BY RequestFacts, WordNat DEF Gross
  <2>3. Slot(b, new) /\ new \in Int /\ b + committed[b] <= new
    BY <2>1 DEF Slot, HDR
  <2> HIDE DEF b
  <2>4. new + Gross(t) <= next[b]
    BY <1>5, <2>1, <2>2 DEF Room
  <2>5. new + HDR <= next[b] /\ new + HDR + req[t].size <= next[b]
    BY <2>1, <2>2, <2>4 DEF HDR
  <2> HIDE DEF new
  <2>6. WrittenFree(w, b, new)
    BY <2>3, <2>5, HeaderFree
  <2>7. WrittenFree(z, b, new)
    <3>1. Differ(z, w, new + HDR, req[t].size)
      BY DEF Differ, Fill
    <3> HIDE DEF z, w
    <3> QED
      BY <2>2, <2>3, <2>5, <2>6, <3>1, BehindHeader
  <2>8. WrittenFree(m, b, new)
    BY <2>6, <2>7
  <2>9. req[t].op = "calloc" =>
          \A x \in Addresses : new + HDR <= x /\ x < new + HDR + req[t].size => m[x] = "zero"
    BY DEF Fill
  <2>10. req[t].op = "aligned" =>
           \E n \in A!Alignments : n >= A!Asked(req[t].arg) /\ (new + HDR) % n = 0
    <3> SUFFICES ASSUME req[t].op = "aligned"
                 PROVE  1 \in A!Alignments /\ 1 >= A!Asked(req[t].arg) /\ (new + HDR) % 1 = 0
      OBVIOUS
    <3>1. PowerOf2(req[t].arg) = 1 /\ 1 # Word
      BY <1>2 DEF Word
    <3>2. req[t].arg \in 0 .. Word - 1
      BY RequestFacts
    <3>3. 1 \in A!Alignments /\ 1 >= A!Asked(req[t].arg)
      BY <3>1, <3>2, PowerOfTwo
    <3> QED
      BY <2>3, <3>3, RemainderOfOne DEF HDR
  <2>11. Finish(t) /\ heap_allocate_block(b, new, Gross(t)) /\ mem' = Forget(m)
    BY <1>5
  <2> HIDE DEF m
  <2>12. req[t].op \in {"alloc", "calloc", "aligned", "fixed"} /\ req[t].op # "fixed"
    BY <1>2
  <2> QED
    BY <1>1, <2>3, <2>4, <2>8, <2>9, <2>10, <2>11, <2>12, AllocateRefines
<1> QED
  BY <1>3, <1>4, <1>5 DEF first_fit

(* A block where it was asked for. *)
LEMMA PlaceRefines ==
    ASSUME HInv, HInv', NEW t \in Threads, lock = t, ~ Moving(t), pc[t] # "release",
           NEW b \in Blocks, NEW new \in Int,
           heap_place_block(b, new, Gross(t)) = "fits",
           InsertBlock(b, new, Gross(t)),
           mem' = Forget(HeaderWritten(b, new)), Finish(t),
           req[t].op \in {"aligned", "fixed"},
           req[t].op = "aligned" =>
              \E n \in A!Alignments : n >= A!Asked(req[t].arg) /\ (new + HDR) % n = 0,
           req[t].op = "fixed" => new + HDR = req[t].arg
    PROVE  Refines
<1> DEFINE m == HeaderWritten(b, new)
<1>1. /\ Slot(b, new) /\ new # b /\ new + Gross(t) <= next[b] /\ new + HDR <= next[b]
      /\ b + committed[b] <= new
  BY PlaceFacts
<1>2. heap_allocate_block(b, new, Gross(t))
  BY <1>1 DEF heap_allocate_block
<1>3. WrittenFree(m, b, new)
  BY <1>1, HeaderFree
<1>4. mem' = Forget(m) /\ lock \in {Free, t}
  OBVIOUS
<1>5. /\ req[t].op \in {"alloc", "calloc", "aligned", "fixed"} /\ req[t].op # "calloc"
  OBVIOUS
<1> HIDE DEF m
<1> QED
  BY <1>1, <1>2, <1>3, <1>4, <1>5, AllocateRefines

LEMMA AlignedFitRefines ==
    ASSUME HInv, HInv', RightLoop, NEW t \in Threads, aligned_fit(t)
    PROVE  Refines
<1> DEFINE b == cur[t]
           n == PowerOf2(req[t].arg)
           new == AlignedPlace(b, n)
<1>1. /\ lock = t /\ List /\ b \in Blocks \cup {End}
      /\ pc[t] = "aligned" /\ ~ Moving(t)
  BY WalkingFacts DEF aligned_fit, Walking, Moving
<1>2. req[t].op = "aligned" /\ n # Word
  BY <1>1 DEF RightLoop
<1>3. CASE Refuse(t)
  BY <1>1, <1>2, <1>3, RefuseRefines
<1>4. CASE Advance(t)
  BY <1>1, <1>4, LoopRefines DEF Advance
<1>5. CASE Lose(t)
  BY <1>1, <1>5, LoopRefines DEF Lose, local
<1>6. CASE /\ b # End
           /\ heap_place_block(b, new, Gross(t)) = "fits"
           /\ InsertBlock(b, new, Gross(t))
           /\ mem' = Forget(HeaderWritten(b, new))
           /\ Finish(t)
  <2>1. b \in Blocks /\ new \in Int
    BY <1>1, <1>6, AlignedPlaceInteger
  <2>2. n \in A!Alignments /\ n >= A!Asked(req[t].arg) /\ n \in Nat \ {0}
    BY <1>2, RequestFacts, PowerOfTwo, PowerOf2Positive
  <2>3. (new + HDR) % n = 0
    <3> DEFINE a == b + committed[b] + HDR
    <3>1. committed[b] # 0
      BY <1>6 DEF heap_place_block
    <3>2. new = AlignUp(a, n) - HDR
      BY <3>1 DEF AlignedPlace
    <3>3. a \in Int
      BY <1>1, <2>1, ListFacts DEF HDR
    <3> HIDE DEF a, b, n, new
    <3>4. AlignUp(a, n) \in Int /\ AlignUp(a, n) % n = 0
      BY <2>2, <3>3, AlignUpInteger, AlignUpAligns
    <3>5. new + HDR = AlignUp(a, n)
      BY <3>2, <3>4 DEF HDR
    <3> QED
      BY <3>4, <3>5
  <2>4. \E k \in A!Alignments : k >= A!Asked(req[t].arg) /\ (new + HDR) % k = 0
    BY <2>2, <2>3
  <2> HIDE DEF b, new
  <2> QED
    BY <1>1, <1>2, <1>6, <2>1, <2>4, PlaceRefines
<1> QED
  BY <1>3, <1>4, <1>5, <1>6 DEF aligned_fit

LEMMA SmallRemainder ==
    ASSUME NEW w \in Nat, w > 0, NEW a \in Int
    PROVE  /\ 0 <= a /\ a < w => a % w = a
           /\ a < 0 /\ a + w >= 0 => a % w = a + w
OBVIOUS

LEMMA LocateRefines ==
    ASSUME HInv, HInv', RightLoop, NEW t \in Threads, locate_fixed(t)
    PROVE  Refines
<1> DEFINE b == cur[t]
           new == (req[t].arg - HDR) % Word
<1>1. /\ lock = t /\ List /\ b \in Blocks \cup {End}
      /\ pc[t] = "locate" /\ ~ Moving(t) /\ req[t].op = "fixed"
  BY WalkingFacts DEF locate_fixed, Walking, Moving, RightLoop
<1>2. CASE Refuse(t)
  BY <1>1, <1>2, RefuseRefines
<1>3. CASE Advance(t)
  BY <1>1, <1>3, LoopRefines DEF Advance
<1>4. CASE Lose(t)
  BY <1>1, <1>4, LoopRefines DEF Lose, local
<1>5. CASE /\ heap_place_block(b, new, Gross(t)) = "fits"
           /\ InsertBlock(b, new, Gross(t))
           /\ mem' = Forget(HeaderWritten(b, new))
           /\ Finish(t)
  <2>1. b \in Blocks
    BY <1>1, <1>5 DEF heap_place_block
  <2>2. new \in Int
    BY RequestFacts, WordNat DEF HDR
  <2>3. new + HDR < Word
    <3>1. new + Gross(t) <= next[b]
      BY <1>5 DEF heap_place_block, Fits
    <3>2. next[b] \in Int /\ next[b] <= End
      BY <1>1, <2>1, ListFacts
    <3> HIDE DEF new, b
    <3> QED
      BY <2>2, <3>1, <3>2, RequestFacts, WordNat, HeapAssumption DEF HDR
  <2>4. new + HDR = req[t].arg
    <3>1. req[t].arg \in 0 .. Word - 1
      BY RequestFacts
    <3> DEFINE a == req[t].arg - HDR
    <3>2. a \in Int /\ a < Word /\ a + Word >= 0 /\ a + HDR = req[t].arg
      BY <3>1, WordNat DEF HDR
    <3> HIDE DEF a
    <3>3. CASE a >= 0
      <4>1. a % Word = a
        BY <3>2, <3>3, WordNat, SmallRemainder
      <4> QED
        BY <3>2, <4>1 DEF a
    <3>4. CASE a < 0
      <4>1. a % Word = a + Word
        BY <3>2, <3>4, WordNat, SmallRemainder DEF HDR
      <4>2. new + HDR = (a + Word) + HDR
        BY <4>1 DEF a
      <4>3. a >= 0 - HDR
        BY <3>1, WordNat DEF a, HDR
      <4> HIDE DEF new
      <4> QED
        BY <2>3, <3>2, <4>2, <4>3, WordNat DEF HDR
    <3> QED
      BY <3>2, <3>3, <3>4
  <2> HIDE DEF b, new
  <2> QED
    BY <1>1, <1>5, <2>1, <2>2, <2>4, PlaceRefines
<1> QED
  BY <1>2, <1>3, <1>4, <1>5 DEF locate_fixed

(* The objects without the one whose block is freed. *)
LEMMA FreePointers ==
    ASSUME List, NEW b \in Blocks, committed[b] # 0, heap_free_unlocked(b)
    PROVE  /\ Pointers' = Pointers \ {b + HDR}
           /\ \A c \in Blocks \ {b} : committed'[c] = committed[c]
<1>1. \A c \in Blocks : c \in Int
  BY ListFacts
<1>2. CASE /\ committed' = [committed EXCEPT ![b] = 0]
           /\ UNCHANGED <<next, prev>>
  <2>1. /\ Blocks' = Blocks /\ committed'[b] = 0
        /\ \A c \in Blocks \ {b} : committed'[c] = committed[c]
    BY <1>2 DEF List, ListType, Blocks
  <2>2. \A c \in Blocks : c + HDR = b + HDR => c = b
    BY <1>1 DEF HDR
  <2> QED
    BY <2>1, <2>2 DEF Pointers
<1>3. CASE /\ next' = [x \in Blocks \ {b} |-> IF x = prev[b] THEN next[b] ELSE next[x]]
           /\ committed' = [x \in Blocks \ {b} |-> committed[x]]
  <2>1. /\ Blocks' = Blocks \ {b}
        /\ \A c \in Blocks \ {b} : committed'[c] = committed[c]
    BY <1>3 DEF Blocks
  <2>2. \A c \in Blocks : c + HDR = b + HDR => c = b
    BY <1>1 DEF HDR
  <2> QED
    BY <2>1, <2>2 DEF Pointers
<1> QED
  BY <1>2, <1>3 DEF heap_free_unlocked

LEMMA EnterFreeRefines ==
    ASSUME HInv, HInv', NEW t \in Threads, heap_free(t)
    PROVE  Refines
<1> DEFINE b == req[t].arg - HDR
<1>1. /\ pc[t] = "wait" /\ lock \in {Free, t} /\ ~ Moving(t) /\ req[t].op = "free"
  BY AcquireFacts DEF heap_free, Moving
<1>2. CASE req[t].arg = None /\ Refuse(t)
  BY <1>1, <1>2, RefuseRefines
<1>3. CASE /\ req[t].arg # None
           /\ heap_free_unlocked(b)
           /\ mem' = Forget(mem)
           /\ Finish(t)
  <2>1. b \in Blocks /\ committed[b] # 0 /\ req[t].arg = b + HDR /\ List
    BY <1>1, <1>3, PassedBlock DEF Passes, HInv, TypeOK, List
  <2> HIDE DEF b
  <2>2. /\ Pointers' = Pointers \ {req[t].arg}
        /\ \A c \in Blocks \ {b} : committed'[c] = committed[c]
    BY <1>3, <2>1, FreePointers
  <2>3. /\ DOMAIN Objects' = Pointers'
        /\ \A p \in Pointers' : Objects'[p] = Body(mem, p, committed'[p - HDR] - HDR)
    BY <1>1, <1>3, ServedObjects
  <2>4. /\ DOMAIN Objects = Pointers
        /\ \A p \in Pointers : Objects[p] = Body(mem, p, committed[p - HDR] - HDR)
    <3>1. \A u \in Threads : ~ Moving(u)
      BY <1>1, <1>3, ServedAlone DEF Finish
    <3> QED
      BY <3>1, ObjectsAre
  <2>5. ASSUME NEW p \in Pointers'
        PROVE  Objects'[p] = Objects[p]
    <3>1. p - HDR \in Blocks \ {b}
      BY <2>1, <2>2, BlockPointer
    <3> QED
      BY <2>2, <2>3, <2>4, <3>1
  <2>6. Objects' = [p \in DOMAIN Objects' |-> Objects'[p]]
    BY DEF Objects
  <2>7. A!Free(req[t])
    BY <1>1, <2>2, <2>3, <2>4, <2>5, <2>6 DEF A!Free
  <2> QED
    BY <1>1, <1>3, <2>7, ServeSound DEF Finish
<1> QED
  BY <1>2, <1>3 DEF heap_free

LEMMA EnterReallocRefines ==
    ASSUME HInv, HInv', NEW t \in Threads, heap_realloc(t)
    PROVE  Refines
<1> DEFINE b == req[t].arg - HDR
           p == req[t].arg
<1>1. /\ pc[t] = "wait" /\ lock \in {Free, t} /\ ~ Moving(t) /\ req[t].op = "realloc"
  BY AcquireFacts DEF heap_realloc, Moving
<1>2. CASE Refuse(t)
  BY <1>1, <1>2, RefuseRefines
<1>3. CASE p = None /\ Walk(t, "largest")
  BY <1>1, <1>3, LoopRefines DEF Walk
<1>4. ASSUME p # None
      PROVE  /\ b \in Blocks /\ b \in Int /\ committed[b] # 0 /\ p = b + HDR /\ List
             /\ \A q \in Pointers : q # p => q - HDR \in Blocks \ {b}
             /\ p \in Pointers
  <2>1. b \in Blocks /\ b \in Int /\ committed[b] # 0 /\ p = b + HDR /\ List
    BY <1>1, <1>4, PassedBlock DEF Passes, HInv, TypeOK, List
  <2> HIDE DEF b
  <2> QED
    BY <2>1, BlockPointer DEF Pointers
<1>5. (\A u \in Threads \ {t} : pc[u] \in {"out", "wait"}) /\ \A u \in Threads : ~ Moving(u)
  <2>1. \A u \in Threads \ {t} : pc[u] \in {"out", "wait"}
    BY <1>1, HolderAlone
  <2> QED
    BY <1>1, <2>1 DEF Moving
<1>6. /\ DOMAIN Objects = Pointers
      /\ \A q \in Pointers : Objects[q] = Body(mem, q, committed[q - HDR] - HDR)
  BY <1>5, ObjectsAre
<1>7. Gross(t) \in Int /\ Gross(t) >= HDR /\ Gross(t) - HDR = req[t].size
  BY RequestFacts, WordNat DEF Gross, HDR
<1>8. CASE /\ p # None
           /\ committed' = [committed EXCEPT ![b] = Gross(t)]
           /\ UNCHANGED <<next, prev>>
           /\ mem' = Forget(mem)
           /\ Finish(t)
  <2>1. /\ Blocks' = Blocks /\ committed'[b] = Gross(t)
        /\ \A c \in Blocks \ {b} : committed'[c] = committed[c]
    BY <1>4, <1>8 DEF List, ListType, Blocks
  <2>2. Pointers' = Pointers
    <3>1. Gross(t) # 0
      BY <1>7 DEF HDR
    <3> HIDE DEF b
    <3> QED
      BY <1>4, <1>8, <2>1, <3>1 DEF Pointers
  <2>3. /\ DOMAIN Objects' = Pointers'
        /\ \A q \in Pointers' : Objects'[q] = Body(mem, q, committed'[q - HDR] - HDR)
    BY <1>1, <1>8, ServedObjects
  <2>4. \A q \in Pointers \ {p} : Objects'[q] = Objects[q]
    BY <1>4, <1>6, <1>8, <2>1, <2>2, <2>3
  <2>5. Objects'[p] = Body(mem, p, req[t].size)
    BY <1>4, <1>7, <1>8, <2>1, <2>2, <2>3
  <2>6. DOMAIN Objects'[p] = 0 .. req[t].size - 1
    BY <2>5 DEF Body
  <2>7. \A i \in DOMAIN Objects[p] \cap DOMAIN Objects'[p] : Objects'[p][i] = Objects[p][i]
    <3>1. Objects[p] = Body(mem, p, committed[b] - HDR)
      BY <1>4, <1>6, <1>8
    <3> QED
      BY <2>5, <3>1, BodyAt
  <2>8. A!Same(DOMAIN Objects \ {p})
    BY <1>6, <2>2, <2>3, <2>4 DEF A!Same
  <2>9. p \in DOMAIN Objects' /\ DOMAIN Objects' = (DOMAIN Objects \ {p}) \cup {p}
    BY <1>4, <1>6, <1>8, <2>2, <2>3
  <2>10. A!Resize(req[t])
    BY <1>1, <1>8, <2>6, <2>7, <2>8, <2>9 DEF A!Resize, A!Null, None
  <2> QED
    BY <1>1, <1>8, <2>10, ServeSound DEF Finish
<1>9. CASE /\ p # None
           /\ heap_free_unlocked(b)
           /\ old' = [old EXCEPT ![t] = [committed |-> committed[b], prev |-> prev[b]]]
           /\ Goto(t, "largest")
           /\ UNCHANGED <<mem, req, best>>
  <2>1. /\ pc'[t] = "largest"
        /\ \A u \in Threads \ {t} : pc'[u] = pc[u]
        /\ old'[t].committed = committed[b]
    BY <1>9 DEF HInv, TypeOK, Goto
  <2>2. Moving(t)' /\ Served' = Served /\ \A u \in Threads : Moving(u)' => u = t
    BY <1>1, <1>5, <1>9, <2>1 DEF Moving, Served
  <2>3. /\ Pointers' = Pointers \ {p}
        /\ \A c \in Blocks \ {b} : committed'[c] = committed[c]
    BY <1>4, <1>9, FreePointers
  <2>4. /\ DOMAIN Objects' = Pointers' \cup Moved' /\ Moved' = {p}
        /\ \A q \in Pointers' : Objects'[q] = Body(mem, q, committed'[q - HDR] - HDR)
        /\ Objects'[p] = Body(mem, p, committed[b] - HDR)
    BY <1>9, <2>1, <2>2, ObjectsAreNext
  <2>5. DOMAIN Objects' = DOMAIN Objects
    BY <1>4, <1>6, <1>9, <2>3, <2>4
  <2>6. \A q \in DOMAIN Objects : Objects'[q] = Objects[q]
    BY <1>4, <1>6, <1>9, <2>3, <2>4
  <2>7. Objects' = Objects
    BY <2>5, <2>6, ObjectsEqual
  <2> QED
    BY <1>9, <2>2, <2>7 DEF Refines
<1> QED
  BY <1>2, <1>3, <1>8, <1>9 DEF heap_realloc

LEMMA LargestRefines ==
    ASSUME HInv, HInv', NEW t \in Threads, largest_fit(t)
    PROVE  Refines
BY LoopRefines DEF largest_fit

(* What realloc is moving does not lie under the header of its new place. *)
LEMMA SourceClear ==
    ASSUME HInv, NEW t \in Threads, Moving(t), NEW b, NEW new,
           Slot(b, new), new = b + committed[b], new + HDR <= next[b],
           NEW x \in Int, req[t].arg <= x, x < req[t].arg + (old[t].committed - HDR)
    PROVE  x \in Addresses /\ HeaderWritten(b, new)[x] = mem[x]
<1> DEFINE a == req[t].arg - HDR
           n == old[t].committed
           q == Into(t)
<1>1. /\ List /\ q \in Blocks /\ a \in Int /\ n \in Nat /\ n >= HDR
      /\ First <= a /\ a + n <= next[q] /\ a + n <= End
      /\ q # a => q + HDR <= a /\ q + committed[q] <= a
      /\ q = a => committed[a] = 0
  BY MovingFacts DEF Slot
<1>2. req[t].arg \in Int
  BY RequestFacts, WordNat
<1>3. a + HDR <= x /\ x < a + n
  BY <1>1, <1>2 DEF HDR
<1> HIDE DEF a, n, q
<1>4. x \in Addresses
  BY <1>1, <1>3, HeapAssumption DEF Addresses, HDR
<1>5. CASE new = b
  BY <1>4, <1>5 DEF HeaderWritten
<1>6. CASE new # b
  <2>1. /\ \A c \in Blocks : /\ c \in Int /\ next[c] \in Int /\ committed[c] \in Int
                             /\ c + HDR <= next[c]
        /\ b \in Blocks /\ new \in Int /\ b + HDR <= new
    BY <1>1, <1>6, ListFacts DEF Slot
  <2>2. (b < q => next[b] <= q) /\ (q < b => next[q] <= b)
    BY <1>1, <2>1 DEF List, ListSound, InOrder
  <2>3. ASSUME b = q
        PROVE  ~ (new <= x /\ x < new + HDR)
    BY <1>1, <1>3, <1>6, <2>1, <2>3 DEF HDR
  <2>4. ASSUME b # q
        PROVE  ~ (new <= x /\ x < new + HDR)
    <3>1. q <= a
      BY <1>1, <2>1 DEF HDR
    <3> QED
      BY <1>1, <1>3, <2>1, <2>2, <2>4, <3>1 DEF HDR
  <2> QED
    BY <1>4, <1>6, <2>3, <2>4 DEF HeaderWritten, Fill
<1> QED
  BY <1>4, <1>5, <1>6

LEMMA FoundRefines ==
    ASSUME HInv, HInv', ContentsInv, NEW t \in Threads, largest_found(t)
    PROVE  Refines
<1> DEFINE b == best[t].block
           new == b + committed[b]
           p == req[t].arg
           n == old[t].committed - HDR
           w == HeaderWritten(b, new)
           z == memmove(w, new + HDR, p, n)
           gross == Gross(t)
<1>1. /\ lock \in {Free, t} /\ List /\ b \in Blocks
      /\ Slot(b, new) /\ new + gross <= next[b] /\ new + HDR <= next[b]
      /\ p # None => Moving(t) /\ n \in Nat /\ old[t].committed < gross
  BY FoundFacts
<1>2. /\ heap_allocate_block(b, new, gross)
      /\ mem' = Forget(IF p = None THEN w ELSE z)
      /\ Finish(t) /\ pc[t] = "largest" /\ req[t].op = "realloc"
  BY DEF largest_found, HInv, LoopsInList
<1>3. gross \in Int /\ gross >= HDR /\ gross - HDR = req[t].size /\ req[t].size \in Nat
  BY RequestFacts, WordNat DEF Gross, HDR
<1>4. /\ new \in Int /\ b + committed[b] <= new /\ next[b] \in Int /\ next[b] <= End
      /\ First <= new
  <2>1. /\ b \in Int /\ committed[b] \in Int /\ next[b] \in Int /\ next[b] <= End
        /\ First <= b /\ 0 <= committed[b]
    BY <1>1, ListFacts
  <2> HIDE DEF b
  <2> QED
    BY <2>1, HeapAssumption
<1>5. WrittenFree(w, b, new)
  BY <1>1, HeaderFree
<1>6. CASE p = None
  <2>1. ~ Moving(t) /\ mem' = Forget(w)
    BY <1>2, <1>6 DEF Moving
  <2> HIDE DEF b, new, w
  <2> QED
    BY <1>1, <1>2, <1>4, <1>5, <1>6, <2>1, AllocateRefines
<1>7. CASE p # None
  <2>1. Moving(t) /\ n \in Nat /\ n < req[t].size /\ mem' = Forget(z)
    <3>1. old[t].committed \in Int
      BY WordNat DEF HInv, TypeOK
    <3>2. Moving(t) /\ n \in Nat /\ old[t].committed < gross
      BY <1>1, <1>7
    <3> HIDE DEF gross
    <3>3. n < req[t].size
      BY <1>3, <3>1, <3>2 DEF HDR
    <3> QED
      BY <1>2, <1>7, <3>2, <3>3
  <2>2. WrittenFree(z, b, new)
    <3>1. Differ(z, w, new + HDR, n)
      BY DEF Differ, memmove
    <3> HIDE DEF n, new, b, w, z, gross
    <3>2. new + HDR + n <= next[b]
      BY <1>1, <1>3, <1>4, <2>1 DEF HDR
    <3> QED
      BY <1>1, <1>5, <2>1, <3>1, <3>2, BehindHeader
  <2>3. /\ new + HDR \notin Pointers
        /\ DOMAIN Objects' = Pointers \cup {new + HDR}
        /\ \A q \in Pointers : Objects'[q] = Objects[q]
        /\ Objects'[new + HDR] = Body(z, new + HDR, gross - HDR)
    <3> HIDE DEF b, new, z, gross
    <3> QED
      BY <1>1, <1>2, <1>3, <1>4, <2>1, <2>2, NewObject
  <2>4. /\ DOMAIN Objects = Pointers \cup {p} /\ p \notin Pointers
        /\ Objects[p] = Body(mem, p, n)
    BY <2>1, ObjectsAre
  <2>5. ASSUME NEW i \in 0 .. n - 1
        PROVE  z[new + HDR + i] = mem[p + i]
    <3>1. p \in Int /\ i \in Int /\ n \in Int /\ 0 <= i /\ i < n
      BY <2>1, RequestFacts, WordNat
    <3>2. w[p + i] = mem[p + i]
      <4> DEFINE x == p + i
      <4>1. x \in Int /\ p <= x /\ x < p + (old[t].committed - HDR)
        BY <3>1
      <4>2. new = b + committed[b]
        OBVIOUS
      <4> HIDE DEF x, new, b
      <4>3. HeaderWritten(b, new)[x] = mem[x]
        BY <1>1, <2>1, <4>1, <4>2, SourceClear
      <4> QED
        BY <4>3 DEF x
    <3> HIDE DEF n, new, w, p
    <3>3. /\ new + HDR + i \in Addresses
          /\ new + HDR <= new + HDR + i /\ new + HDR + i < new + HDR + n
          /\ p + (new + HDR + i) - (new + HDR) = p + i
      BY <1>1, <1>3, <1>4, <2>1, <3>1, HeapAssumption DEF Addresses, HDR
    <3> QED
      BY <3>2, <3>3 DEF memmove
  <2> HIDE DEF n, new, w, z, b, p
  <2>6. Objects'[new + HDR] = Body(z, new + HDR, req[t].size)
    BY <1>3, <2>3
  <2>7. /\ DOMAIN Objects'[new + HDR] = 0 .. req[t].size - 1
        /\ \A i \in 0 .. req[t].size - 1 : Objects'[new + HDR][i] = z[new + HDR + i]
    BY <2>6 DEF Body
  <2>8. DOMAIN Objects[p] = 0 .. n - 1 /\ \A i \in 0 .. n - 1 : Objects[p][i] = mem[p + i]
    BY <2>4 DEF Body
  <2>9. \A i \in DOMAIN Objects[p] \cap DOMAIN Objects'[new + HDR] :
           Objects'[new + HDR][i] = Objects[p][i]
    BY <2>5, <2>7, <2>8
  <2>10. A!Same(DOMAIN Objects \ {p})
    BY <2>3, <2>4 DEF A!Same
  <2>11. /\ new + HDR \in DOMAIN Objects' /\ new + HDR \notin DOMAIN Objects \ {p}
         /\ DOMAIN Objects' = (DOMAIN Objects \ {p}) \cup {new + HDR}
    BY <2>3, <2>4
  <2>12. A!Resize(req[t])
    BY <1>2, <1>7, <2>7, <2>9, <2>10, <2>11 DEF A!Resize, A!Null, None, p
  <2> QED
    BY <1>2, <2>12, ServeSound DEF Finish
<1> QED
  BY <1>6, <1>7

(* The object whose block is put back is the one that was there. *)
LEMMA PutBackRefines ==
    ASSUME HInv, HInv', NEW t \in Threads, alloc_fail(t)
    PROVE  Refines
<1> DEFINE p == req[t].arg
           a == p - HDR
           n == old[t].committed
           q == Into(t)
           m == HeaderWritten(q, a)
<1>1. /\ pc[t] = "largest" /\ lock \in {Free, t} /\ req[t].op = "realloc"
  BY DEF alloc_fail, HInv, Exclusive, Holding, LoopsInList
<1>2. CASE p = None /\ Refuse(t)
  BY <1>1, <1>2, RefuseRefines DEF Moving
<1>3. CASE /\ p # None
           /\ heap_allocate_block(q, a, n)
           /\ mem' = Forget(m)
           /\ Finish(t)
  <2>1. Moving(t)
    BY <1>1, <1>3 DEF Moving
  <2>2. /\ List /\ Slot(q, a) /\ n \in Int /\ n >= HDR /\ a \in Int
        /\ First <= a /\ a + n <= next[q] /\ a + n <= End /\ a + HDR <= next[q]
        /\ q # a => q + committed[q] <= a
        /\ q = a => committed[a] = 0
    BY <2>1, MovingFacts
  <2>3. q + committed[q] <= a
    BY <2>2
  <2>4. p \in Int /\ a + HDR = p
    BY RequestFacts, WordNat DEF HDR
  <2>5. WrittenFree(m, q, a)
    BY <2>2, HeaderFree
  <2> HIDE DEF m, n, a, q
  <2>6. /\ DOMAIN Objects' = Pointers \cup {a + HDR}
        /\ \A r \in Pointers : Objects'[r] = Objects[r]
        /\ Objects'[a + HDR] = Body(m, a + HDR, n - HDR)
    BY <1>1, <1>3, <2>2, <2>3, <2>5, NewObject
  <2>7. /\ DOMAIN Objects = Pointers \cup {p}
        /\ Objects[p] = Body(mem, p, n - HDR)
    BY <2>1, ObjectsAre DEF n
  <2>8. Body(m, p, n - HDR) = Body(mem, p, n - HDR)
    <3>1. ASSUME NEW x \in Int, p <= x, x < p + (n - HDR)
          PROVE  m[x] = mem[x]
      <4>1. ~ (a <= x /\ x < a + HDR) /\ x \in Addresses
        BY <2>2, <2>4, <3>1, HeapAssumption DEF Addresses, HDR
      <4> QED
        BY <4>1 DEF m, HeaderWritten, Fill
    <3>2. n - HDR \in Int
      BY <2>2 DEF HDR
    <3> HIDE DEF p
    <3> QED
      BY <2>4, <3>1, <3>2, BodyEqual
  <2>9. Objects' = Objects
    <3>1. \A r \in DOMAIN Objects : Objects'[r] = Objects[r]
      BY <2>4, <2>6, <2>7, <2>8
    <3> QED
      BY <2>4, <2>6, <2>7, <3>1, ObjectsEqual
  <2>10. A!Fail(req[t])
    BY <1>1, <2>9 DEF A!Fail
  <2> QED
    BY <1>1, <1>3, <2>10, ServeSound DEF Finish
<1> QED
  BY <1>2, <1>3 DEF alloc_fail, Into

LEMMA CallRefines ==
    ASSUME HInv, HInv', ContentsInv, NEW t \in Threads, NEW r \in Calls[t], Call(t, r)
    PROVE  Refines
<1>1. /\ UNCHANGED <<list, mem, local>>
      /\ pc[t] = "out" /\ pc'[t] = "wait"
      /\ \A u \in Threads \ {t} : pc'[u] = pc[u] /\ req'[u] = req[u]
  BY DEF Call, Goto, HInv, TypeOK
<1>2. req[t] = Idle
  BY <1>1 DEF ContentsInv, OutsideIdle
<1>3. req' = [req EXCEPT ![t] = req'[t]]
  <2>1. PICK q : req' = [req EXCEPT ![t] = q]
    BY DEF Call
  <2> QED
    BY <2>1 DEF HInv, TypeOK
<1>4. /\ \A u \in Threads : Moving(u)' <=> Moving(u)
      /\ \A u \in Threads : Moving(u) => req'[u] = req[u] /\ old'[u] = old[u]
      /\ Served' = Served
  BY <1>1 DEF Moving, local, Served
<1>5. Objects' = Objects
  BY <1>1, <1>4, QuietObjects
<1>6. A!Call(t)
  BY <1>2, <1>3, <1>4, <1>5 DEF A!Call, A!Idle, Idle
<1> QED
  BY <1>6 DEF Refines

LEMMA ReturnRefines ==
    ASSUME HInv, HInv', NEW t \in Threads, error_enolck(t) \/ heap_lock_release(t)
    PROVE  Refines
<1>1. /\ UNCHANGED <<list, mem>> /\ Return(t) /\ pc[t] \in {"wait", "release"}
  BY DEF error_enolck, heap_lock_release
<1>2. /\ pc'[t] = "out"
      /\ \A u \in Threads \ {t} : pc'[u] = pc[u] /\ req'[u] = req[u] /\ old'[u] = old[u]
  BY <1>1 DEF Return, Goto, HInv, TypeOK
<1>3. /\ \A u \in Threads : Moving(u)' <=> Moving(u)
      /\ \A u \in Threads : Moving(u) => req'[u] = req[u] /\ old'[u] = old[u]
  BY <1>1, <1>2 DEF Moving
<1>4. Served' = Served \ {t}
  BY <1>2 DEF Served
<1>5. Objects' = Objects
  BY <1>1, <1>3, QuietObjects
<1>6. A!Return(t)
  BY <1>1, <1>4, <1>5 DEF A!Return, Return, A!Idle, Idle
<1> QED
  BY <1>6 DEF Refines

LEMMA StoreRefines ==
    ASSUME HInv, HInv', NEW p \in Pointers, NEW v \in Values, Store(p, v)
    PROVE  Refines
<1>1. UNCHANGED <<list, lock, pc, req, local>>
  BY DEF Store
<1>2. /\ Pointers' = Pointers /\ committed' = committed /\ Served' = Served
      /\ \A u \in Threads : Moving(u)' <=> Moving(u)
      /\ Moved' = Moved /\ req' = req /\ old' = old
  BY <1>1 DEF Pointers, Blocks, list, Served, Moving, local, Moved
<1>3. \A x \in Addresses : ~ (p <= x /\ x < p + (committed[p - HDR] - HDR)) => mem'[x] = mem[x]
  BY DEF Store, Fill
<1>4. /\ p \in Int /\ committed[p - HDR] \in Nat
  BY BlockPointer
<1>5. DOMAIN Objects' = DOMAIN Objects /\ p \in DOMAIN Objects
  BY <1>2, ObjectsAre, ObjectsAreNext
<1>6. DOMAIN Objects'[p] = DOMAIN Objects[p]
  BY <1>2, ObjectsAre, ObjectsAreNext DEF Body
<1>7. ASSUME NEW r \in Pointers, r # p
      PROVE  Objects'[r] = Objects[r]
  <2> DEFINE n == committed[r - HDR] - HDR
  <2>1. /\ r \in Int /\ n \in Int /\ First + HDR <= r /\ r - HDR \in Blocks
        /\ committed[r - HDR] \in Nat /\ r - HDR + committed[r - HDR] <= End
        /\ p - HDR \in Int
    BY <1>4, BlockPointer DEF HDR
  <2>2. Objects'[r] = Body(mem', r, n) /\ Objects[r] = Body(mem, r, n)
    BY <1>2, ObjectsAre, ObjectsAreNext
  <2>3. ASSUME NEW x \in Int, r <= x, x < r + n
        PROVE  mem'[x] = mem[x]
    <3>1. x \in Addresses /\ r - HDR <= x /\ x < r - HDR + committed[r - HDR]
      BY <2>1, <2>3, HeapAssumption DEF Addresses, HDR
    <3>2. ASSUME p <= x, x < p + (committed[p - HDR] - HDR)
          PROVE  FALSE
      <4>1. x < p + committed[p - HDR] - HDR
        BY <1>4, <3>2 DEF HDR
      <4>2. r - HDR = p - HDR
        BY <2>1, <3>1, <3>2, <4>1, StoreInside
      <4> QED
        BY <1>4, <1>7, <2>1, <4>2 DEF HDR
    <3> QED
      BY <1>3, <3>1, <3>2
  <2> HIDE DEF n
  <2> QED
    BY <2>1, <2>2, <2>3, BodyEqual
<1>8. ASSUME NEW t \in Threads, Moving(t)
      PROVE  Objects'[req[t].arg] = Objects[req[t].arg]
  <2> DEFINE r == req[t].arg
             n == old[t].committed - HDR
  <2>1. /\ r \in Int /\ n \in Int /\ old[t].committed \in Nat /\ First <= r - HDR
        /\ r - HDR + old[t].committed <= End
    BY <1>8, MovingFacts, RequestFacts, WordNat DEF HDR
  <2>2. Objects'[r] = Body(mem', r, n) /\ Objects[r] = Body(mem, r, n)
    BY <1>2, <1>8, ObjectsAre, ObjectsAreNext
  <2>3. ASSUME NEW x \in Int, r <= x, x < r + n
        PROVE  mem'[x] = mem[x]
    <3>1. x \in Addresses /\ r - HDR <= x /\ x < r - HDR + old[t].committed
      BY <2>1, <2>3, HeapAssumption DEF Addresses, HDR
    <3>2. ASSUME p <= x, x < p + (committed[p - HDR] - HDR)
          PROVE  FALSE
      <4>1. x < p + committed[p - HDR] - HDR
        BY <1>4, <3>2 DEF HDR
      <4> QED
        BY <1>8, <3>1, <3>2, <4>1, StoreInside
    <3> QED
      BY <1>3, <3>1, <3>2
  <2> HIDE DEF n, r
  <2>4. Objects'[r] = Objects[r]
    BY <2>1, <2>2, <2>3, BodyEqual
  <2> QED
    BY <2>4 DEF r
<1>9. A!Same(DOMAIN Objects \ {p})
  <2>1. \A r \in DOMAIN Objects \ {p} : Objects'[r] = Objects[r]
    BY <1>7, <1>8, ObjectsAre DEF Moved
  <2> QED
    BY <1>5, <2>1 DEF A!Same
<1>10. A!Store
  BY <1>2, <1>5, <1>6, <1>9 DEF A!Store
<1> QED
  BY <1>10 DEF Refines

LEMMA NoObjects ==
    ASSUME HInv, \A b \in Blocks : committed[b] = 0, \A t \in Threads : ~ Moving(t)
    PROVE  Objects = <<>>
<1>1. Pointers = {}
  BY DEF Pointers
<1>2. DOMAIN Objects = {}
  BY <1>1, ObjectsAre
<1>3. Objects = [p \in {} |-> Objects[p]]
  BY <1>2 DEF Objects
<1> QED
  BY <1>3

LEMMA NoObjectsNext ==
    HInv' /\ (\A b \in Blocks' : committed'[b] = 0) /\ (\A t \in Threads : ~ Moving(t)')
       => Objects' = <<>>
<1>1. HInv /\ (\A b \in Blocks : committed[b] = 0) /\ (\A t \in Threads : ~ Moving(t))
         => Objects = <<>>
  BY NoObjects
<1>2. (HInv /\ (\A b \in Blocks : committed[b] = 0) /\ (\A t \in Threads : ~ Moving(t))
         => Objects = <<>>)'
  BY <1>1, PTL
<1> QED
  BY <1>2

LEMMA ResetRefines ==
    ASSUME HInv, HInv', heap_init
    PROVE  Refines
<1>1. \A t \in Threads : ~ Moving(t)'
  BY DEF heap_init, NobodyInside, Moving
<1>2. \A b \in Blocks' : committed'[b] = 0
  BY DEF heap_init, Blocks
<1>3. Objects' = <<>>
  BY <1>1, <1>2, NoObjectsNext
<1>4. req' = req /\ Served' = Served
  BY DEF heap_init, Served
<1> QED
  BY <1>3, <1>4 DEF Refines, A!Reset

LEMMA InitRefines == Init => A!Init
<1> SUFFICES ASSUME Init
             PROVE  A!Init
  OBVIOUS
<1>1. HInv
  BY InitSound
<1>2. Objects = <<>>
  <2>1. \A b \in Blocks : committed[b] = 0
    BY DEF Init, Blocks
  <2>2. \A t \in Threads : ~ Moving(t)
    BY DEF Init, Moving
  <2> QED
    BY <1>1, <2>1, <2>2, NoObjects
<1>3. req = [t \in Threads |-> A!Idle] /\ Served = {}
  BY DEF Init, A!Idle, Idle, Served
<1> QED
  BY <1>2, <1>3 DEF A!Init

-----------------------------------------------------------------------------
LEMMA StepRefines ==
    HInv /\ HInv' /\ ContentsInv /\ RightLoop /\ [Next]_vars => Refines
<1> SUFFICES ASSUME HInv, HInv', ContentsInv, RightLoop, [Next]_vars
             PROVE  Refines
  OBVIOUS
<1>1. CASE \E t \in Threads : \E r \in Calls[t] : Call(t, r)
  BY <1>1, CallRefines
<1>2. ASSUME NEW t \in Threads, Enter(t)
      PROVE  Refines
  BY <1>2, StartRefines, EnterAlignedRefines, EnterFixedRefines, EnterFreeRefines,
     EnterReallocRefines DEF Enter, heap_alloc
<1>3. ASSUME NEW t \in Threads, Inside(t)
      PROVE  Refines
  BY <1>3, ReturnRefines, FirstFitRefines, AlignedFitRefines, LocateRefines,
     LargestRefines, FoundRefines, PutBackRefines DEF Inside
<1>4. CASE \E p \in Pointers, v \in Values : Store(p, v)
  BY <1>4, StoreRefines
<1>5. CASE heap_init
  BY <1>5, ResetRefines
<1>6. CASE heap_destroy \/ UNCHANGED vars
  <2>1. UNCHANGED <<list, mem, pc, req, local>>
    BY <1>6 DEF heap_destroy, vars
  <2>2. /\ \A t \in Threads : Moving(t)' <=> Moving(t)
        /\ Served' = Served /\ req' = req /\ old' = old
    BY <2>1 DEF Moving, Served, local
  <2>3. Objects' = Objects
    BY <2>1, <2>2, QuietObjects
  <2> QED
    BY <2>2, <2>3 DEF Refines
<1> QED
  BY <1>1, <1>2, <1>3, <1>4, <1>5, <1>6 DEF Next

(* And the objects are apart after it, as Allocator demands of every step. *)
LEMMA StepImplements ==
    HInv /\ HInv' /\ ContentsInv /\ RightLoop /\ [Next]_vars => [A!Next]_(A!vars)
<1>1. (HInv => A!Apart(Objects))'
  BY ObjectsApart, PTL
<1> SUFFICES ASSUME HInv, HInv', ContentsInv, RightLoop, [Next]_vars
             PROVE  [A!Next]_(A!vars)
  OBVIOUS
<1>2. A!Apart(Objects')
  BY <1>1
<1>3. Refines
  BY StepRefines
<1> QED
  BY <1>2, <1>3 DEF Refines, A!Next, A!vars

(***************************************************************************)
(* The heap keeps the promise of malloc and its relatives: the objects lie *)
(* apart inside the heap and keep their contents, a new one has the size,  *)
(* the alignment or the address asked for, realloc carries the contents    *)
(* along, and a call that fails changes no object.  The search loops, the  *)
(* block realloc frees before it has found another one, and the header it  *)
(* puts back are invisible.                                                *)
(***************************************************************************)
THEOREM HeapImplementsAllocator == Spec => ImplementsAllocator
<1>1. Init => HInv /\ ContentsInv /\ RightLoop /\ A!Init
  BY InitSound, InitContents, InitLoop, InitRefines
<1>2. HInv /\ ContentsInv /\ RightLoop /\ [Next]_vars
         => (HInv /\ ContentsInv /\ RightLoop)' /\ [A!Next]_(A!vars)
  BY NextSound, ContentsSound, LoopSound, StepImplements
<1> QED
  BY <1>1, <1>2, PTL DEF Spec, ImplementsAllocator, A!Spec

=============================================================================
