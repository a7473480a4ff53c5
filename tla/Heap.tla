-------------------------------- MODULE Heap --------------------------------
(***************************************************************************)
(* The heap of the new C library (libsrc/newlib/alloc/malloc): a list of   *)
(* blocks threaded through memory and a mutex that every call holds.  A    *)
(* block starts with a header of six bytes {next, committed, prev};        *)
(* committed counts the header and the allocated bytes, the rest up to     *)
(* next is free.  Only the first block can have nothing committed.         *)
(* An action is one pass of a loop, or what a call does before or after    *)
(* it.                                                                     *)
(***************************************************************************)
EXTENDS Integers

CONSTANTS
    Threads,        \* the threads that use the heap
    First,          \* address of the first header, behind the mutex
    End,            \* address of the two zero bytes that end the heap
    Calls,          \* thread -> the calls the program makes: [op, size, arg]
    Values          \* what the program stores in a byte

HDR == 6                        \* sizeof(header)
Word == 65536                   \* addresses and sizes have 16 bits
None == 0                       \* the null pointer
Free == 0                       \* the mutex has no owner
Destroyed == -1                 \* the mutex has no type

ASSUME HeapAssumption ==
    /\ First \in Nat \ {0} /\ End \in Nat
    /\ First + HDR <= End
    /\ End + 2 < Word
Request == [op : {"none", "alloc", "calloc", "aligned", "fixed", "free", "realloc"},
            size : 0 .. Word - 1, arg : 0 .. Word - 1]

ASSUME CallsAssumption ==
    \A t \in Threads :
        Calls[t] \subseteq Request
ASSUME ThreadsAssumption == Threads \subseteq Nat \ {0}

VARIABLES
    next, committed, prev,      \* the headers in the list, by address
    mem,                        \* what every byte of the heap holds
    lock,                       \* the heap's mutex: its holder
    pc, req,                    \* where each thread is, the call it makes
    cur,                        \* & block its loop has reached
    best,                       \* block_largest and its free bytes
    old                         \* the header realloc has freed

list == <<next, committed, prev>>
local == <<cur, best, old>>
vars == <<list, mem, lock, pc, req, local>>

Blocks == DOMAIN next
Addresses == First .. End + 1
Idle == [op |-> "none", size |-> 0, arg |-> 0]
NoBlock == [block |-> None, room |-> 0]
NoHeader == [committed |-> 0, prev |-> 0]
Holding == {"first", "aligned", "locate", "largest", "release", "lost"}

Gross(t) == req[t].size + HDR
TooBig(t) == Gross(t) >= Word

(* Free bytes behind what a block has committed. *)
Room_OffByOne(b) == next[b] - b - committed[b] - 1

Room(b) == next[b] - b - committed[b]

Pointers == {b + HDR : b \in {c \in Blocks : committed[c] # 0}}

(***************************************************************************)
(* Memory.  What lies in free space is never read again; it is forgotten   *)
(* when a call is done.                                                    *)
(***************************************************************************)
Fill(m, a, n, v) == [x \in Addresses |-> IF a <= x /\ x < a + n THEN v ELSE m[x]]

memmove_ToHeader(m, dst, src, n) ==
    [x \in Addresses |-> IF dst - HDR <= x /\ x < dst - HDR + n THEN m[src + x - dst + HDR] ELSE m[x]]

memmove(m, dst, src, n) ==
    [x \in Addresses |-> IF dst <= x /\ x < dst + n THEN m[src + x - dst] ELSE m[x]]

Occupied(x) ==
    \/ x >= End
    \/ \E b \in Blocks : b <= x /\ (x < b + HDR \/ x < b + committed[b])

Forget(m) == [x \in Addresses |-> IF Occupied(x)' THEN m[x] ELSE "junk"]

-----------------------------------------------------------------------------
(***************************************************************************)
(* __heap_allocate_block: a block inside the free bytes of block b, or on  *)
(* top of b when b has nothing committed.  The end marker has no prev.     *)
(***************************************************************************)
InsertBlock_NoBackLink(b, new, gross) ==
    /\ next' = [x \in Blocks \cup {new} |->
                   IF x = new THEN next[b] ELSE IF x = b THEN new ELSE next[x]]
    /\ committed' = [x \in Blocks \cup {new} |->
                        IF x = new THEN gross ELSE committed[x]]
    /\ prev' = [x \in Blocks \cup {new} |-> IF x = new THEN b ELSE prev[x]]

InsertBlock(b, new, gross) ==
    /\ next' = [x \in Blocks \cup {new} |->
                   IF x = new THEN next[b] ELSE IF x = b THEN new ELSE next[x]]
    /\ committed' = [x \in Blocks \cup {new} |->
                        IF x = new THEN gross ELSE committed[x]]
    /\ prev' = [x \in Blocks \cup {new} |->
                   IF x = new THEN b ELSE IF x = next[b] THEN new ELSE prev[x]]

OverlayBlock(b, gross) ==
    /\ committed' = [committed EXCEPT ![b] = gross]
    /\ UNCHANGED <<next, prev>>

heap_allocate_block(b, new, gross) ==
    \/ new = b /\ OverlayBlock(b, gross)
    \/ new # b /\ InsertBlock(b, new, gross)

HeaderWritten(b, new) == IF new = b THEN mem ELSE Fill(mem, new, HDR, "hdr")

(***************************************************************************)
(* __heap_place_block: may a block of gross bytes lie at new, in the free  *)
(* bytes of b?  When b has nothing committed, the call of                  *)
(* committed_nonzero leaves a return address between what the routine      *)
(* pushed and what it pops, and the processor is lost.  So what fits never *)
(* lies on top of b.                                                       *)
(***************************************************************************)
Fits(b, new, gross) == b <= new /\ new + gross <= next[b]

heap_place_block(b, new, gross) ==
    IF b = End \/ ~ Fits(b, new, gross) THEN "fail"
    ELSE IF committed[b] = 0 THEN "lost"
    ELSE IF new >= b + committed[b] THEN "fits" ELSE "fail"

(***************************************************************************)
(* asm_heap_free_unlocked: the first block stays and commits nothing, any  *)
(* other leaves the list and its bytes become free bytes of the one before.*)
(***************************************************************************)
heap_free_unlocked_StaysLinked(b) ==
    \/ /\ prev[b] = None
       /\ committed' = [committed EXCEPT ![b] = 0]
       /\ UNCHANGED <<next, prev>>
    \/ /\ prev[b] # None
       /\ next' = [x \in Blocks \ {b} |-> next[x]]
       /\ committed' = [x \in Blocks \ {b} |-> committed[x]]
       /\ prev' = [x \in Blocks \ {b} |-> IF x = next[b] THEN prev[b] ELSE prev[x]]

heap_free_unlocked(b) ==
    \/ /\ prev[b] = None
       /\ committed' = [committed EXCEPT ![b] = 0]
       /\ UNCHANGED <<next, prev>>
    \/ /\ prev[b] # None
       /\ next' = [x \in Blocks \ {b} |-> IF x = prev[b] THEN next[b] ELSE next[x]]
       /\ committed' = [x \in Blocks \ {b} |-> committed[x]]
       /\ prev' = [x \in Blocks \ {b} |-> IF x = next[b] THEN prev[b] ELSE prev[x]]

-----------------------------------------------------------------------------
Goto(t, p) == pc' = [pc EXCEPT ![t] = p]

Init ==
    /\ next = [b \in {First} |-> End]
    /\ committed = [b \in {First} |-> 0]
    /\ prev = [b \in {First} |-> None]
    /\ mem = [x \in Addresses |-> IF x < First + HDR \/ x >= End THEN "hdr" ELSE "junk"]
    /\ lock = Free
    /\ pc = [t \in Threads |-> "out"]
    /\ req = [t \in Threads |-> Idle]
    /\ cur = [t \in Threads |-> None]
    /\ best = [t \in Threads |-> NoBlock]
    /\ old = [t \in Threads |-> NoHeader]

(***************************************************************************)
(* The program: calls, with pointers that are live and that no other call  *)
(* is working on, and stores into its objects.                             *)
(***************************************************************************)
Usable == {p \in Pointers : \A t \in Threads : req[t].op \in {"free", "realloc"} => req[t].arg # p}

Call(t, r) ==
    /\ pc[t] = "out"
    /\ Goto(t, "wait")
    /\ \/ /\ r.op \notin {"free", "realloc"}
          /\ req' = [req EXCEPT ![t] = r]
       \/ /\ r.op \in {"free", "realloc"}
          /\ \E p \in Usable \cup {None} : req' = [req EXCEPT ![t] = [r EXCEPT !.arg = p]]
    /\ UNCHANGED <<list, mem, lock, local>>

Store(p, v) ==
    /\ p \in Usable
    /\ mem' = Fill(mem, p, committed[p - HDR] - HDR, v)
    /\ UNCHANGED <<list, lock, pc, req, local>>

NobodyInside == \A t \in Threads : pc[t] = "out"

heap_init ==
    /\ NobodyInside
    /\ next' = [b \in {First} |-> End]
    /\ committed' = [b \in {First} |-> 0]
    /\ prev' = [b \in {First} |-> None]
    /\ mem' = Forget(Fill(mem, First, HDR, "hdr"))
    /\ lock' = Free
    /\ UNCHANGED <<pc, req, local>>

heap_destroy ==
    /\ NobodyInside
    /\ lock' = Destroyed
    /\ UNCHANGED <<list, mem, pc, req, local>>

(***************************************************************************)
(* The lock.  A call on a destroyed heap returns with ENOLCK.              *)
(***************************************************************************)
Return(t) ==
    /\ Goto(t, "out")
    /\ req' = [req EXCEPT ![t] = Idle]
    /\ cur' = [cur EXCEPT ![t] = None]
    /\ best' = [best EXCEPT ![t] = NoBlock]
    /\ old' = [old EXCEPT ![t] = NoHeader]

error_enolck(t) ==
    /\ pc[t] = "wait"
    /\ lock = Destroyed
    /\ Return(t)
    /\ UNCHANGED <<list, mem, lock>>

heap_lock_acquire(t) ==
    /\ pc[t] = "wait"
    /\ lock = Free
    /\ lock' = t

heap_lock_release_StaysLocked(t) ==
    /\ pc[t] = "release"
    /\ Return(t)
    /\ UNCHANGED <<list, mem, lock>>

heap_lock_release(t) ==
    /\ pc[t] = "release"
    /\ lock' = Free
    /\ Return(t)
    /\ UNCHANGED <<list, mem>>

(* A loop over the blocks begins at the first. *)
Walk(t, p) ==
    /\ Goto(t, p)
    /\ cur' = [cur EXCEPT ![t] = First]
    /\ UNCHANGED <<list, mem, req, best, old>>

Finish(t) == Goto(t, "release") /\ UNCHANGED <<req, local>>

Refuse(t) == Finish(t) /\ UNCHANGED <<list, mem>>

Lose(t) == Goto(t, "lost") /\ UNCHANGED <<list, mem, req, local>>

Advance(t) ==
    /\ cur' = [cur EXCEPT ![t] = next[@]]
    /\ UNCHANGED <<list, mem, lock, pc, req, best, old>>

-----------------------------------------------------------------------------
(***************************************************************************)
(* heap_alloc, heap_calloc: first fit.                                     *)
(***************************************************************************)
StartFirstFit(t) ==
    \/ req[t].size \in {0} \cup Word - HDR .. Word - 1 /\ Refuse(t)
    \/ req[t].size \in 1 .. Word - HDR - 1 /\ Walk(t, "first")

heap_alloc(t) ==
    /\ req[t].op \in {"alloc", "calloc"}
    /\ heap_lock_acquire(t)
    /\ StartFirstFit(t)

first_fit(t) ==
    LET b == cur[t]
        new == b + committed[b]
    IN  /\ pc[t] = "first"
        /\ \/ b = End /\ Refuse(t) /\ UNCHANGED lock
           \/ /\ b # End
              /\ Room(b) < Gross(t)
              /\ Advance(t)
           \/ /\ b # End
              /\ Room(b) >= Gross(t)
              /\ heap_allocate_block(b, new, Gross(t))
              /\ mem' = Forget(IF req[t].op = "calloc"
                               THEN Fill(HeaderWritten(b, new), new + HDR, req[t].size, "zero")
                               ELSE HeaderWritten(b, new))
              /\ Finish(t) /\ UNCHANGED lock

(***************************************************************************)
(* heap_alloc_aligned: arg is the alignment, promoted to a power of two    *)
(* (from 256 on the low byte is ignored: 300 becomes 256, not 512).        *)
(* When adding the header to the size overflows, the error path returns    *)
(* with the alignment still on the stack.                                  *)
(***************************************************************************)
Powers == {1, 2, 4, 8, 16, 32, 64, 128, 256}

PowerOf2Byte(n) == CHOOSE m \in Powers : m >= n /\ \A k \in Powers : k >= n => m <= k

PowerOf2(n) == IF n < 256 THEN PowerOf2Byte(n) ELSE 256 * PowerOf2Byte(n \div 256)

AlignUp(a, n) == ((a + n - 1) \div n) * n

AlignedPlace(b, n) ==
    IF committed[b] = 0
    THEN IF (b + HDR) % n = 0 THEN b ELSE AlignUp(b + 2 * HDR, n) - HDR
    ELSE AlignUp(b + committed[b] + HDR, n) - HDR

heap_alloc_aligned(t) ==
    LET n == PowerOf2(req[t].arg)
    IN  /\ req[t].op = "aligned"
        /\ heap_lock_acquire(t)
        /\ \/ (req[t].size = 0 \/ n = Word) /\ Refuse(t)
           \/ req[t].size # 0 /\ n = 1 /\ StartFirstFit(t)
           \/ req[t].size # 0 /\ n \notin {1, Word} /\ TooBig(t) /\ Lose(t)
           \/ req[t].size # 0 /\ n \notin {1, Word} /\ ~ TooBig(t) /\ Walk(t, "aligned")

aligned_fit(t) ==
    LET b == cur[t]
        new == AlignedPlace(b, PowerOf2(req[t].arg))
        place == heap_place_block(b, new, Gross(t))
    IN  /\ pc[t] = "aligned"
        /\ \/ b = End /\ Refuse(t) /\ UNCHANGED lock
           \/ b # End /\ new + HDR >= Word /\ Refuse(t) /\ UNCHANGED lock
           \/ /\ b # End /\ new + HDR < Word
              /\ \/ place = "fail" /\ Advance(t)
                 \/ place = "lost" /\ Lose(t) /\ UNCHANGED lock
                 \/ /\ place = "fits"
                    /\ InsertBlock(b, new, Gross(t))
                    /\ mem' = Forget(HeaderWritten(b, new))
                    /\ Finish(t) /\ UNCHANGED lock

(***************************************************************************)
(* heap_alloc_fixed: arg is the address; the block it would lie in is      *)
(* located, then it fits there or nowhere.                                 *)
(***************************************************************************)
heap_alloc_fixed(t) ==
    /\ req[t].op = "fixed"
    /\ heap_lock_acquire(t)
    /\ Walk(t, "locate")

locate_fixed(t) ==
    LET b == cur[t]
        new == (req[t].arg - HDR) % Word
        place == IF TooBig(t) THEN "fail" ELSE heap_place_block(b, new, Gross(t))
    IN  /\ pc[t] = "locate"
        /\ \/ b # End /\ new >= next[b] /\ Advance(t)
           \/ /\ b # End => new < next[b]
              /\ \/ place = "fail" /\ Refuse(t)
                 \/ place = "lost" /\ Lose(t)
                 \/ /\ place = "fits"
                    /\ InsertBlock(b, new, Gross(t))
                    /\ mem' = Forget(HeaderWritten(b, new))
                    /\ Finish(t)
              /\ UNCHANGED lock

heap_free(t) ==
    /\ req[t].op = "free"
    /\ heap_lock_acquire(t)
    /\ \/ req[t].arg = None /\ Refuse(t)
       \/ /\ req[t].arg # None
          /\ heap_free_unlocked(req[t].arg - HDR)
          /\ mem' = Forget(mem)
          /\ Finish(t)

(***************************************************************************)
(* heap_realloc: in place when the bytes up to the next block suffice;     *)
(* else the block is freed, the largest free space is taken, and the       *)
(* contents are moved after the new header is written.  When nothing is    *)
(* large enough, the block goes back where it was, from what free left of  *)
(* its header.  Without a block it only allocates.                         *)
(***************************************************************************)
heap_realloc(t) ==
    LET b == req[t].arg - HDR
    IN  /\ req[t].op = "realloc"
        /\ heap_lock_acquire(t)
        /\ \/ TooBig(t) /\ Refuse(t)
           \/ ~ TooBig(t) /\ req[t].arg = None /\ Walk(t, "largest")
           \/ /\ ~ TooBig(t) /\ req[t].arg # None
              /\ next[b] - b >= Gross(t)
              /\ committed' = [committed EXCEPT ![b] = Gross(t)]
              /\ UNCHANGED <<next, prev>>
              /\ mem' = Forget(mem)
              /\ Finish(t)
           \/ /\ ~ TooBig(t) /\ req[t].arg # None
              /\ next[b] - b < Gross(t)
              /\ heap_free_unlocked(b)
              /\ old' = [old EXCEPT ![t] = [committed |-> committed[b], prev |-> prev[b]]]
              /\ Goto(t, "largest")
              /\ cur' = [cur EXCEPT ![t] = First]
              /\ UNCHANGED <<mem, req, best>>

largest_fit(t) ==
    /\ pc[t] = "largest"
    /\ cur[t] # End
    /\ best' = IF Room(cur[t]) > best[t].room
               THEN [best EXCEPT ![t] = [block |-> cur[t], room |-> Room(cur[t])]]
               ELSE best
    /\ cur' = [cur EXCEPT ![t] = next[@]]
    /\ UNCHANGED <<list, mem, lock, pc, req, old>>

largest_found(t) ==
    LET b == best[t].block
        new == b + committed[b]
        p == req[t].arg
    IN  /\ pc[t] = "largest"
        /\ cur[t] = End
        /\ best[t].room >= Gross(t)
        /\ heap_allocate_block(b, new, Gross(t))
        /\ mem' = Forget(IF p = None THEN HeaderWritten(b, new)
                         ELSE memmove(HeaderWritten(b, new), new + HDR, p, old[t].committed - HDR))
        /\ Finish(t)
        /\ UNCHANGED lock

alloc_fail_DropsBlock(t) ==
    /\ pc[t] = "largest"
    /\ cur[t] = End
    /\ best[t].room < Gross(t)
    /\ Refuse(t)
    /\ UNCHANGED lock

alloc_fail(t) ==
    LET b == req[t].arg - HDR
        into == IF old[t].prev = None THEN b ELSE old[t].prev
    IN  /\ pc[t] = "largest"
        /\ cur[t] = End
        /\ best[t].room < Gross(t)
        /\ \/ req[t].arg = None /\ Refuse(t)
           \/ /\ req[t].arg # None
              /\ heap_allocate_block(into, b, old[t].committed)
              /\ mem' = Forget(HeaderWritten(into, b))
              /\ Finish(t)
        /\ UNCHANGED lock

-----------------------------------------------------------------------------
Enter(t) ==
    \/ heap_alloc(t) \/ heap_alloc_aligned(t) \/ heap_alloc_fixed(t)
    \/ heap_free(t) \/ heap_realloc(t)

Inside(t) ==
    \/ error_enolck(t)
    \/ first_fit(t) \/ aligned_fit(t) \/ locate_fixed(t)
    \/ largest_fit(t) \/ largest_found(t) \/ alloc_fail(t)
    \/ heap_lock_release(t)

Next ==
    \/ \E t \in Threads :
          \/ \E r \in Calls[t] : Call(t, r)
          \/ Enter(t)
          \/ Inside(t)
    \/ \E p \in Pointers, v \in Values : Store(p, v)
    \/ heap_init
    \/ heap_destroy

Spec == Init /\ [][Next]_vars

(***************************************************************************)
(* Fairness: a thread inside the library keeps running, and the mutex is   *)
(* not withheld from a thread that waits for it.                           *)
(***************************************************************************)
FairSpec ==
    /\ Spec
    /\ \A t \in Threads : WF_vars(Inside(t)) /\ SF_vars(Enter(t))

-----------------------------------------------------------------------------
ListType ==
    /\ Blocks \subseteq First .. End - HDR
    /\ next \in [Blocks -> Blocks \cup {End}]
    /\ committed \in [Blocks -> 0 .. Word - 1]
    /\ prev \in [Blocks -> Blocks \cup {None}]

(* The headers lie inside the heap, and every thread is somewhere in a call. *)
TypeOK ==
    /\ ListType
    /\ lock \in Threads \cup {Free, Destroyed}
    /\ pc \in [Threads -> {"out", "wait"} \cup Holding]
    /\ req \in [Threads -> Request]
    /\ cur \in [Threads -> Addresses \cup {None}]
    /\ best \in [Threads -> [block : Addresses \cup {None}, room : Nat]]
    /\ old \in [Threads -> [committed : 0 .. Word - 1, prev : Addresses \cup {None}]]

(***************************************************************************)
(* The list is in order of address, forwards and backwards, without a gap  *)
(* or an overlap: next is the block that follows, prev its inverse, and    *)
(* what a block has committed ends before the next one begins.             *)
(***************************************************************************)
InOrder ==
    \A b \in Blocks :
        /\ next[b] >= b + HDR
        /\ \A c \in Blocks : b < c => next[b] <= c

BackLinks ==
    /\ First \in Blocks /\ prev[First] = None
    /\ \A b \in Blocks \ {First} : prev[b] \in Blocks /\ next[prev[b]] = b

CommittedFits ==
    \A b \in Blocks :
        /\ b + committed[b] <= next[b]
        /\ IF committed[b] = 0 THEN b = First ELSE committed[b] >= HDR

Covered ==
    \A x \in First .. End - 1 : \E b \in Blocks : b <= x /\ x < next[b]

ListSound == InOrder /\ BackLinks /\ CommittedFits /\ Covered

(***************************************************************************)
(* ENOMEM is never returned while there is room: when the first fit search *)
(* has reached the end, there is no run of free bytes as long as the       *)
(* request; what is free when the search begins stays so until it ends.    *)
(***************************************************************************)
FreeRun(a, n) ==
    /\ a >= First /\ a + n <= End
    /\ \A b \in Blocks : a + n <= b \/ a >= b + committed[b]

NoSpuriousENOMEM ==
    \A t \in Threads :
        pc[t] = "first" /\ cur[t] = End => \A a \in Addresses : ~ FreeRun(a, Gross(t))

(***************************************************************************)
(* heap_info: the areas it reports, as [type, address, size].              *)
(***************************************************************************)
InfoAreas_NoSkip ==
    LET free(b) == b + committed[b]
    IN  {<<"header", b, HDR>> : b \in Blocks}
        \cup {<<"allocated", b + HDR, committed[b] - HDR>> :
                 b \in {c \in Blocks : committed[c] # 0}}
        \cup {<<"free", free(b), next[b] - free(b)>> :
                 b \in {c \in Blocks : next[c] # free(c)}}

InfoAreas ==
    LET free(b) == IF committed[b] = 0 THEN b + HDR ELSE b + committed[b]
    IN  {<<"header", b, HDR>> : b \in Blocks}
        \cup {<<"allocated", b + HDR, committed[b] - HDR>> :
                 b \in {c \in Blocks : committed[c] # 0}}
        \cup {<<"free", free(b), next[b] - free(b)>> :
                 b \in {c \in Blocks : next[c] # free(c)}}

(* Every byte between mutex and end marker is in exactly one area. *)
InfoTiles ==
    lock = Free =>
        \A x \in First .. End - 1 :
            \E a \in InfoAreas : \A c \in InfoAreas :
                (c[2] <= x /\ x < c[2] + c[3]) <=> c = a

(***************************************************************************)
(* No store and no move of contents ever hits a header in the list, the    *)
(* end marker, or what is left of the header that realloc may put back.    *)
(***************************************************************************)
Moving(t) == pc[t] = "largest" /\ req[t].arg # None

HeadersIntact ==
    /\ \A b \in Blocks : \A x \in b .. b + HDR - 1 : mem[x] = "hdr"
    /\ mem[End] = "hdr" /\ mem[End + 1] = "hdr"
    /\ \A t \in Threads : Moving(t) =>
          \A x \in req[t].arg - HDR .. req[t].arg - 1 : mem[x] = "hdr"

(***************************************************************************)
(* The heap implements Allocator: objects keep their contents and stay     *)
(* apart, every call takes effect once or, when it fails, not at all.  The *)
(* object realloc has freed counts as there until it is moved or put back. *)
(***************************************************************************)
Moved == {req[t].arg : t \in {u \in Threads : Moving(u)}}

SizeOf(p) ==
    IF p \in Moved THEN old[CHOOSE t \in Threads : Moving(t) /\ req[t].arg = p].committed - HDR
    ELSE committed[p - HDR] - HDR

Objects == [p \in Pointers \cup Moved |-> [i \in 0 .. SizeOf(p) - 1 |-> mem[p + i]]]

Served == {t \in Threads : pc[t] = "release"}

A == INSTANCE Allocator WITH
        Low <- First + HDR, High <- End, objs <- Objects, served <- Served

ImplementsAllocator == A!Spec

(***************************************************************************)
(* Every call returns: the loops reach the end of the list and the mutex   *)
(* is given back on every path, unless the processor was lost.             *)
(***************************************************************************)
CallsReturn ==
    \A t \in Threads :
        pc[t] # "out" ~> pc[t] = "out" \/ \E u \in Threads : pc[u] = "lost"

-----------------------------------------------------------------------------
(***************************************************************************)
(* The inductive invariant: the list is sound, whoever works on it has the *)
(* lock, and what a thread in the middle of a call remembers of the list   *)
(* is still true of it.                                                    *)
(***************************************************************************)
Exclusive == \A t \in Threads : pc[t] \in Holding => lock = t

\* A thread that passes a pointer, and nobody else, can free it.
Passes(t) == req[t].op \in {"free", "realloc"} /\ req[t].arg # None

PointersLive ==
    \A t \in Threads :
        /\ pc[t] = "wait" /\ Passes(t) => req[t].arg \in Pointers
        /\ \A u \in Threads : Passes(t) /\ Passes(u) /\ req[t].arg = req[u].arg => t = u

\* Where the loops stand, and that the sizes they use did not overflow.
Walking(t) == pc[t] \in {"first", "aligned", "locate", "largest"}

LoopsInList ==
    \A t \in Threads :
        /\ Walking(t) => cur[t] \in Blocks \cup {End}
        /\ pc[t] \in {"first", "aligned", "largest"} => Gross(t) < Word
        /\ pc[t] = "largest" => req[t].op = "realloc"

SearchedInVain ==
    \A t \in Threads : pc[t] = "first" =>
        \A b \in Blocks : b < cur[t] => Room(b) < Gross(t)

BestIsThere ==
    \A t \in Threads :
        /\ pc[t] \in {"out", "wait"} => best[t] = NoBlock
        /\ best[t] # NoBlock /\ pc[t] = "largest" =>
              best[t].block \in Blocks /\ best[t].room = Room(best[t].block)

\* The place of the block realloc has freed is still free.
Restorable ==
    \A t \in Threads : Moving(t) =>
        LET b == req[t].arg - HDR
            p == old[t].prev
        IN  /\ old[t].committed >= HDR
            /\ \/ /\ p = None /\ b = First /\ committed[b] = 0
                  /\ b + old[t].committed <= next[b]
               \/ /\ p \in Blocks
                  /\ p + HDR <= b /\ p + committed[p] <= b
                  /\ b + old[t].committed <= next[p]

HInv ==
    /\ TypeOK
    /\ ListSound
    /\ Exclusive
    /\ PointersLive
    /\ LoopsInList
    /\ SearchedInVain
    /\ BestIsThere
    /\ Restorable

(***************************************************************************)
(* What the contents of the objects need besides: realloc moves a block    *)
(* only to make it larger, who is outside asks for nothing, and a loop is  *)
(* entered by the calls it is for.                                         *)
(***************************************************************************)
MovesToGrow == \A t \in Threads : Moving(t) => old[t].committed < Gross(t)

OutsideIdle == \A t \in Threads : pc[t] = "out" => req[t] = Idle

RightLoop ==
    \A t \in Threads :
        /\ pc[t] = "first" =>
              \/ req[t].op \in {"alloc", "calloc"}
              \/ req[t].op = "aligned" /\ PowerOf2(req[t].arg) = 1
        /\ pc[t] = "aligned" => req[t].op = "aligned" /\ PowerOf2(req[t].arg) # Word
        /\ pc[t] = "locate" => req[t].op = "fixed"

ContentsInv == MovesToGrow /\ OutsideIdle /\ HeadersIntact
=============================================================================
