# Verification of the z88dk run-time core

z88dk is a C and assembler tool chain for Z80 family machines together with the
C libraries its programs are linked with. The host tools (compiler driver,
compilers, assembler, linker, `appmake`, the `ticks` simulator) are sequential
programs that transform files. The part of the repository where behaviour is
hard to get right and hard to test is the **target run-time**: assembler code
that shares memory with interrupt handlers and pre-empted threads, with `di`,
`ei` and spinlocks placed by hand. This project models that part, the
code that schedules threads, the code that keeps them apart, the heap they
share, a driver that shares its buffers with an interrupt handler, and the
tables of handlers an interrupt works through.

## Inventory

| component | state it keeps | operations | interacts with | what is hard, what makes it correct |
|---|---|---|---|---|
| classic pre-emptive threads, `libsrc/classic/threading/preempt` | thread base: current thread, slice and ticks left, task selected last, table of pid and flags | `roundrobin_scheduler`, `thread_manager_init`, `thread_manager_start`, `thread_create`, `thread_exit`, the timer interrupt `thread_manager` | calls the scheduler at every tick; semaphores write the sleep bit of its table | a tick between any two instructions, slots reused after exit. Program code is run by threads that are awake; ready threads get the processor |
| classic semaphores, same directory | value, list of waiting threads and its length | `sem_init`, `sem_wait`, `sem_post`, `sem_getvalue`, `sem_destroy` | the thread table, the `halt` that gives the slice away | test, list, halt, test again. No lost wake-up, no stale list entry, exclusion, progress |
| C11 mutex of the new library, `libsrc/newlib/threads/mutex` | owner, type, recursion count, spinlock byte, queue | `mtx_init`, `mtx_destroy`, `mtx_lock`, `mtx_timedlock`, `mtx_trylock`, `mtx_unlock`, `spinlock_*` | block and unblock primitives of a scheduler the repository leaves to the user | owner compared without the lock, hand-over of the spinlock, time limits, two builds with different spinlocks. Exclusion, exact counts and queue, nobody stranded |
| `call_once`, same directory | once_flag: spinlock byte, completion byte | `call_once` | the spinlock, `func()` | threads racing for the flag. Entered once, nobody returns early, everybody returns |
| heap of the new library, `libsrc/newlib/alloc/malloc` | block list threaded through memory, a mutex | `heap_alloc`, `free`, `realloc`, aligned and fixed allocation | the mutex | splitting and merging, a move that frees first, addresses near 64K, every way out of a call. Blocks tile the heap, objects are disjoint and keep their contents, nothing is refused while there is room |
| interrupt driven serial drivers, `libsrc/target/rc2014/device/acia` and relatives | two ring buffers with counts, echo of the control register | `getc`, `putc`, `peekc`, `pollc`, flush, the interrupt handler | the chip, flow control | counts shared with the handler, transmit interrupt switched from both sides. No byte lost, duplicated or stuck |
| interrupt callback lists, `libsrc/newlib/im2`, `libsrc/classic/interrupts` | table of handler addresses, ended by zero | `im1_install_isr`, `im1_uninstall_isr`, the same for nmi, append, prepend and remove for im2, the dispatchers | the handlers, which may change the table | changed byte by byte while an interrupt may walk them. Always terminated, nobody called who is not in it, nobody missed |
| stdio and fcntl of the new library | list of open files, stream state, descriptor table | open, close, read, write, locking | mutex, heap, drivers | locks held across calls, failure half way through an open |
| allocators and data types, `libsrc/alloc`, `libsrc/adt` | free lists, arrays, lists | their operations | heap | sequential |
| I2C drivers, `libsrc/target/yaz180/driver/i2c` | transfer state | start, interrupt handler | the chip | interrupt driven state machine |
| host tools, `src/zcc`, `sccz80`, `80cc`, `z80asm`, `copt`, `ucpp`, `appmake`, `ticks` | files, symbol tables | translation | each other through files | unbounded inputs |
| target libraries: graphics, sound, sprites, consoles, math | hardware registers | many | hardware | no protocol |

The first seven rows are modelled (of the drivers the ACIA of the rc2014). `PROJECT.json` lists every component with its
status, and under `hazards` what in the modelled code a test would hardly reach.

## Modules

| module | stands for | |
|---|---|---|
| `Preempt` | `libsrc/classic/threading/preempt`, all of it but the macros of `preempt.h` | one processor, the tick interrupt, the table, the semaphores |
| `BroadcastSemaphore` | what `sem_wait` and `sem_post` promise | abstract specification, implemented by `Preempt` |
| `PreemptLock` | a program that uses the library as `examples/spectrum/preempt.c` does | composes `Preempt` with critical sections |
| `PreemptClaims` | what comments of the library say of it | violated by it, see Findings |
| `Mutex` | `asm_mtx_*.asm`, `asm_spinlock_acquire.asm`, `asm_spinlock_release.asm` | both builds, chosen at the start of a behaviour |
| `CallOnce` | `asm_call_once.asm`, `asm_spinlock_tryacquire.asm` | both builds, chosen at the start of a behaviour |
| `Heap` | `libsrc/newlib/alloc/malloc/z80`, `l_power_2_bc` | the block list, the bytes of the heap, its mutex, the threads that call |
| `Allocator` | what the heap promises the program | abstract specification, implemented by `Heap` |
| `Acia` | `libsrc/target/rc2014/device/acia/8080` | driver, interrupt routine, the chip and the far end of the line |
| `Channel` | one direction of the line | abstract specification, implemented twice by `Acia` |
| `InterruptChain` | the tables of handlers of im1, nmi and im2 and their dispatchers | the program changes them byte by byte, handlers change them too |
| `HandlerList` | what such a table promises | abstract specification, implemented by `InterruptChain` |
| `PreemptProofs`, `PreemptLockProofs`, `MutexProofs`, `CallOnceProofs`, `HeapProofs`, `HeapContentsProofs`, `AciaProofs`, `InterruptChainProofs` | theorems | |
| `MCPreempt`, `MCPreemptLock`, `MCMutex`, `MCCallOnce`, `MCHeap`, `MCAcia`, `MCInterruptChain` | instances for TLC | |

**Preempt.** `current`, `slice`, `count`, `last`, `pid`, `flags` are fields of
`threadbase_t`; `value`, `waiters`, `waiters_num` are fields of `sem_t`; `pc`
and `on` are the saved context of each slot (in program code, in the `halt` of
`sem_wait`, behind it, in the `halt` of `thread_exit`). Code between
`di` and `ei` is one action. `ei; halt` cannot be interrupted between the two
instructions, so `sem_wait` up to its `halt` is one action too, and
`sem_wait_again` is the retry of a context that has left the `halt`. The tick
`thread_manager` counts the slice down and, at its end, runs the search of
`roundrobin_task_schedule` (`Select`), including what the search leaves out: the
task it started from is not looked at, and main is the fallback whether ready or
not. `thread_create` inherits flag bits from the pid of the slot's previous
user, as the `ldir` of the code does. A full table changes nothing. A waiter
list is the set of its entries together with its length; a thread that retries
asleep adds itself again, so the length grows although the set does not, and
`overrun` records a write past the array. The memory behind the array is not
modelled: the invariants say nothing of a semaphore after its overrun, and the
refinement takes the stray write to hit nothing the library uses.

`thread_exit` gives the slot up and halts; a tick that does not end the slice, or
the fallback to main, ends the halt, and the context goes on with the program,
without a slot (see Findings). In every run it may then post and exit again.
Whether it also waits or creates is the program's choice, and the constant
`MayGoOn` is the set of the slots whose threads do (`HasSlot` is the guard). The
runs, and the theorems that say `NobodyGoesOn`, are about programs where none
does. That is an assumption the library needs and does not state: a thread that
waits without a slot is listed, the slot is given to another, and the list then
names the wrong thread, so `NoStaleWaiter`, `RunnerAwake` and
`ImplementsSemaphore` fail with any thread in `MayGoOn`. `NoLostWakeup` does not
fail, and is proved without the assumption.

**PreemptLock** adds the set of threads between `sem_wait` and `sem_post`. The
program takes a semaphore once, posts what it took and does not exit inside.

**Mutex.** Threads are pre-empted at any instruction, so an action is one access
to memory that other threads use: the comparison of the owner, the rotate or
increment of the spinlock byte, the write of the owner, of the count, of the
spinlock. `mtx_lock` is `mtx_timedlock` without a time limit, as in the code.
`depth` is the program's own view, the number of unlocks it owes. `hl` and
`carry` are what the call that returned last gave its thread. The scheduler
primitives `__thread_block_timeout` and `__thread_unblock` are not in the
repository. They are atomic actions that do what the call sites rely on and
`libsrc/newlib/threads/readme.txt` describes: block releases the spinlock and
appends to the queue, unblock gives the spinlock to the front of the queue, an
expired limit removes the thread from the queue. That a scheduler may unblock a
thread with an error for other reasons is left out.

**CallOnce.** `spinlock` and `completed` are the two bytes of the flag; `func()`
is a step of any length. `started` and `finished` record what `func()` has seen.

**Heap.** `next`, `committed` and `prev` are the three words of a header, as
functions on the addresses of the headers that are in the list; the end marker,
two zero bytes, is the address `End`. `mem` says of every byte whether it holds
part of a header, zero, a value the program stored, or nothing anybody relies on.
What lies in free space is forgotten when a call is done, but not before: realloc
frees a block, and reads its contents and the remains of its header afterwards.
A call is split where the code loops: one action enters with the mutex, one is a
pass of the search, one takes effect, one gives the mutex back. The mutex is
reduced to its holder (`Mutex` models it in full). Addresses and sizes have 16
bits, and the sums that can overflow are the ones the code tests or does not
test. A routine that pops what it did not push ends in the state `lost`. The
program passes only pointers that are live and that no other call has, and
stores only into its own objects. `heap_init` and `heap_destroy` are for a
program whose threads are all outside. `heap_info` is not an action: the areas
it would report are the definition `InfoAreas`, and a property is about them.
calloc's `size` is the product of its arguments.

The abstract `Allocator` is a set of objects with their contents: a call
allocates, frees, resizes or fails in one step, objects stay inside and apart.
In `Heap` that step is the one that changes the list; the object realloc has
freed counts as being there until it is moved or put back, and that nobody can
see the difference is what `ImplementsAllocator` checks.

**Acia.** `rxIn`, `rxOut`, `rxCount` and their Tx likes are the variables of
`__acia_data_Rx.asm` and `__acia_data_Tx.asm`, the pointers as offsets; `control`
is the control register together with its echo `aciaControl`; `rdr` and `tdr` are
the chip's data registers. The interrupt routine runs with interrupts disabled
but the chip receives and sends meanwhile, so it is split where it looks at the
status; `getc` and `putc` are split at every access to something the interrupt
routine changes. `ei` takes effect behind the instruction that follows it, so a
`di ... ei; out` is one action. The program is one thread that reads, writes
(retrying while the buffer is full, as `rc_00_output_acia_ochar_msg_putc` does)
and flushes. The far end sends when it likes, and up to `Lag` bytes after it was
told to stop. A received byte is fetched before the next has arrived, that is,
the chip itself does not overrun. Bytes carry the number they were sent with;
`overrun` records that the ring buffer was overwritten, and nothing is received
from then on. `peekc` and `pollc` only read.

**InterruptChain.** `table` is the memory of the table, byte for byte; an address
is a pair of bytes. `kind` says whether it is one of im1 or nmi, changed by
`asm_interrupt_add_handler` and `asm_interrupt_remove_handler`, or the callbacks
of an im2 isr, changed by the three routines of `libsrc/newlib/im2`. The search of
a call is one action (nobody else writes before it is done), every write of a
byte is one. `de` is the register the calls carry an address in, `at`, `left` and
`from` are their pointers and counter. The dispatcher is at slot `isr`; the program
stands still meanwhile. A handler that is called may remove a handler or append
one, by the routine of the same kind, if the program is not in the middle of a
call; an im2 callback may end the dispatch by setting carry. `masked` says whether
the program disabled interrupts around its call, which the library leaves to it
(and which is no help against an nmi). `stray` is the call of an address that
belongs to no handler; the processor is then `Lost`. `Code` is what the handlers'
own bytes are, since `asm_interrupt_remove_handler` copies them (see Findings);
`spoilt` records that it has. The program adds only when there is room, as the
im2 routines require; those of im1 test it.

## Runs

| run | result | distinct states | what it shows |
|---|---|---|---|
| `kernel` | pass | 311295 | Four slots, every thread, main too, may exit, wait and post, two may create, in any order, any tick pattern; an exited thread may go on to post: `NoLostWakeup`, `NoStaleWaiter`, `RunnerAwake`, and `ImplementsSemaphore`, the refinement of `BroadcastSemaphore` |
| `lock` | pass | 1247 | Main only creates; three threads contend, one exits and is created again: `MutualExclusion`, `ReadyThreadsRun`, `WokenUp`, `FreeUnitTaken` |
| `mutex` | pass | 14333 | Three threads on the Z80, where one of them tries, and on the 8080, where none does; plain and recursive type and a refused type, one thread has a time limit: exclusion of mutex and of either spinlock, exact count and queue, nobody stranded, the spinlock given back on every path; on the Z80 results that agree, and every call returns |
| `once` | pass | 685 | Three threads race for a flag on both builds, again and again |
| `heap` | pass | 184716 | Two threads, one makes every kind of call, the other competes with `realloc`: `ListSound`, `NoSpuriousENOMEM`, `InfoTiles`, `HeadersIntact`, `ImplementsAllocator`, the refinement of `Allocator`, and `CallsReturn` |
| `acia` | pass | 386572 | The program interrupted between any two steps, the far end overshooting: both directions implement `Channel` (`RxInOrder`, `TxInOrder`), `FlowControlHolds`, `OnlyFlushStrands`, `OnlyReceiveStalls`, `WriterProceeds` |
| `chain` | pass | 16165 | Handlers added and removed with interrupts enabled or not, by the program and by handlers: `ImplementsHandlerList`, the refinement of `HandlerList`, `Terminated`, `OnlyHalfWrittenStrays`, `EveryoneServed`, `ServedAndReturned` |
| `waiter_overrun`, `slot_reuse`, `exit_returns`, `example_livelock`, `uninstall` | violation | | see Findings |

The type invariants of `Preempt`, `Mutex`, `CallOnce`, `Acia` and `InterruptChain`
are no part of the runs: they are proved, for every instance.

Every property of a passing run has a mutant in `PROJECT.json`: a plausible slip
in the code (a post that wakes one waiter, a missing `scf`, an unlock that
forgets the queue) that TLC must find with that property.

## Findings

Each is a counterexample to a sentence of the repository.

- `waiter_overrun`: `sem_wait` lists the caller anew after every `halt` it is
  resumed from, with no test of the list's length, so one thread that waits long
  enough writes past `waiters[MAX_THREADS]`.
- `slot_reuse`: the `ldir` in `thread_create` that is to clear the entry spreads
  the previous pid; in a reused odd slot the new thread is born asleep.
- `exit_returns`: behind the `halt` of `thread_exit` a comment says "We should no
  longer exist". The scheduler leaves the current task alone unless the slice is
  over, and takes main when nobody is ready, so the context is resumed there and
  returns to its caller, which executes the program without a slot.
- `example_livelock`: with main and one thread on a semaphore, as in the
  repository's example, the search gives up at the task it started from, main is
  resumed asleep for ever and the only ready thread never runs again.
- `uninstall`: `asm_interrupt_remove_handler` exchanges `de` and `hl` before it
  copies, so it copies from the address of the handler instead of from the next
  slot. `im1_uninstall_isr` and `nmi_uninstall_isr` report success, and the slot
  and all behind it hold the code of the handler, which the next interrupt takes
  for addresses. Every property of `chain` but `Terminated` and
  `ServedAndReturned` holds only up to the first such removal, and says so.

More follow from the actions and have no run of their own.

- `roundrobin_scheduler(ticks)` stores its argument before `thread_manager_init`
  clears the memory it is in.
- `thread_exit` tests bit 2 where `THREAD_SYSTEM` is bit 1, so main can exit, and
  then always goes on, being the fallback. The `kernel` run lets it; that
  `NoStaleWaiter`, `RunnerAwake` and `ImplementsSemaphore` hold there all the same
  rests on its neither waiting nor creating afterwards (`MayGoOn`).
- `asm_mtx_trylock.asm:79` and `:97` free the spinlock with `$fe`, the byte of the
  Z80 build, whatever they are built for; on the 8080 nobody acquires it again.
  Nobody tries on the 8080 in the `mutex` run therefore. `ONCE_FLAG_INIT` (`threads.h:23`)
  is the same byte: on the 8080 a thread alone never enters `func()`.
- A recursive lock on the 8080 returns success with carry set (`Owned`), which is
  why `ResultsAgree` is claimed for the Z80.
- `__heap_place_block.asm:82` calls `committed_nonzero` between pushes and the
  pops that belong to them when the block has nothing committed: the first
  aligned or fixed allocation that fits at the start of an empty heap returns to
  a wrong address, with the mutex held. `asm_heap_alloc_aligned_unlocked.asm:75`
  leaves by an error path with the alignment still on the stack. Both are the
  state `lost` in `Heap`, which `CallsReturn` excepts.
- `l_power_2_bc` ignores the low byte of numbers from 256 on, so an alignment of
  300 becomes 256, and not "the next power of 2" of
  `asm_heap_alloc_aligned_unlocked.asm`.
- `acia_putc.asm:66` sets RTS low together with the Tx interrupt however full the
  Rx buffer is, and `acia_getc.asm:29` on a count that may be out of date: the
  far end goes on sending into a buffer that is filled, and the interrupt routine
  pokes without asking. `FlowControlHolds` names the two steps; after them bytes
  can be overwritten.
- Telling the far end to stop (`acia_interrupt.asm:45`) and to go on
  (`acia_getc.asm:31`) turns the Tx interrupt off with bytes queued, which then
  wait for the next `putc` (`OnlyReceiveStalls` names them).
- A flush of the Rx buffer leaves RTS high; the count never meets the low limit
  again unless the far end overshoots, and the line is stopped for good
  (`OnlyFlushStrands` names it).
- Adding, prepending and removing a handler with interrupts enabled leaves, for a
  few instructions, an address of which one byte is old and one new
  (`asm_interrupt_add_handler.asm:19`, `asm_im2_prepend_generic_callback.asm:33`,
  `asm_im2_remove_generic_callback.asm:68`); an interrupt then calls it.
  `OnlyHalfWrittenStrays` names these moments. Nothing can be done about them in
  the nmi table.
- A handler that removes itself makes the dispatcher skip the one behind it, and an
  interrupt in the middle of a prepend misses the handler just being carried to
  the next slot (`EveryoneServed` excepts both).

## Bounds

- Slots: `MaxThreads` is 4, a power of two as `preempt.h` requires; with main
  and three threads the search has tasks before, at and behind the one selected
  last, and slots of both parities are reused. Counterexamples need 2 or 4.
- One semaphore with one unit. `IntMax` is 2 so that a post reaches the limit of
  an int and wraps within a few steps; a value that has wrapped is negative, and
  who waits then sleeps, which `NoLostWakeup` and `ImplementsSemaphore` cover.
- `Ticks` is 4: more than the default slice the code falls back to, so that the
  difference is visible; the slice in force is 2, the code's own value.
- Mutex: three threads, so that a third can come between hand-over partners and
  two can be queued; `CountMax` is 2 instead of 255, so that the limit is met.
- call_once: three threads, two inside while a third returns; `started` stops
  counting at 2.
- `waiters_num` saturates one past the array.

- Heap: 22 bytes from 65508 to 65530, room for a header and three small objects,
  as close to 64K as the end marker allows, so that sums of addresses overflow
  within the search. Sizes 0, 2, 4, 8 and two at the upper end, alignments 1, 3
  (promoted to 4) and 40000 (to 65536), fixed addresses at the start, at the end
  and 0. One value that is stored suffices to tell contents from zeros, headers
  and free space. Two threads, since the mutex admits one and the other waits.
- Acia: a byte-sized counter wraps at 4 instead of 256, and
  the limits lie between 0 and the size as they do in `config_acia.m4`, so that
  every comparison is met from both sides. Bytes are numbered modulo 2: a byte that is
  lost, repeated or swapped with its neighbour breaks the alternation.
- InterruptChain: room for 3 handlers, so that one is removed or skipped at the
  front, in the middle and at the end; of three addresses two share a byte and one
  has a low byte of zero, so that tests of a single byte are told from tests of
  both.

No counter is bounded otherwise and no state constraint is used. Deadlock is
checked in all passing runs but `heap` and `chain`, where the processor may be lost.

## Fairness

- `LockFairSpec`: the timer keeps ticking, set-up is finished, and a thread that
  is given the processor again and again takes its pending retry or leaves its
  critical section (strong fairness: each slice is thousands of instructions but
  a tick may interrupt any attempt). Threads are not assumed to enter, create or
  exit.
- `Mutex!FairSpec`: a thread inside the library keeps running (weak fairness;
  failed attempts yield through `__thread_context_switch`), a thread that finds
  the spinlock free again and again gets it (strong fairness: spinlock sections
  are a few instructions), and the owner of a mutex unlocks it as often as it
  has locked it, which is the duty of the program. Time limits need not expire.
  `CallsReturn` is claimed of the Z80: on the 8080 failed attempts can keep the
  byte from ever being seen free.
- `Heap!FairSpec`: a thread inside the library keeps running (weak fairness), and
  the mutex is not withheld for ever from a thread that waits for it (strong
  fairness; `Mutex` shows its queue served). Calls are not assumed to be made.
- `Acia!FairSpec`: what is in the transmit register is sent, a pending interrupt
  is taken and its routine ends (weak fairness), and the program runs again and
  again (strong fairness: a byte takes longer on the line than in the routine,
  hundreds of cycles at 115200 baud, so the interrupt cannot starve it). Nothing
  need be received, nothing need be read.
- `InterruptChain!FairSpec`: handlers return, so that a dispatch goes on (weak
  fairness), and between interrupts the program runs (strong fairness: the isr
  ends with `ei; reti`, and one more instruction is executed before the next).
- `CallOnce!FairSpec`: weak fairness of each thread inside `call_once`, and
  `func()` returns.

## Proofs

For every value of the constants that the named assumptions admit, checked by
TLAPS (10551 obligations). Every safety property of the passing runs, refinements
included, is among them.

*PreemptProofs* (any power of two of slots up to 128, any set of semaphores and
initial values, any int width). `NoLostWakeup` (`WakeupsKept`) is proved of every
program, whatever exited threads go on to do, from `WakeInv`: a sleeper is on the
list of the semaphore it sleeps on, which has no units (`SleepersListed`), with
the types. The other theorems assume `NobodyGoesOn` and rest on `IInv`, which
adds: the waiter lists hold exactly the threads asleep in `sem_wait`
(`ListsExact`), a list is empty while units are free (`UnitsMeanNoWaiters`), a
context inside `sem_wait` keeps its slot (`SlotKept`), nothing happens before the
start (`BeforeStart`), the current context and main's are awake when they stand in
program code or in the `halt` of `thread_exit` (`ResumedAwake`; main is resumed
without being looked at, which is why it is named), and main's pid is 0, from
which its flags would be inherited. From it follow `ListsNeverStale`,
`RunnerIsAwake` and `Refinement`: with `Asleep` equal to the lists, every step is
a step of `BroadcastSemaphore` or a stutter. `RunnerIsAwake` says that program
code is executed by a thread that is awake; it does not say that the thread has a
slot, which is false (`exit_returns`).

*PreemptLockProofs*: `LockExcludes`, of every program as well. On top of the
types: value plus holders is the initial value (`UnitsConserved`), which with a
value that is never negative bounds the number of threads inside.

*MutexProofs*, for any set of thread ids from 1 to 255, for the Z80 build and for
an 8080 build whose program does not call `mtx_trylock` (`NoTryOnIntel`, a
hypothesis of all but `ResultsAreOne`; with `mtx_trylock` the spinlock is not
given back, see Findings). The invariant `MInv` says what a thread
at each step knows of the owner (`OwnerKnown`), that nobody gets into an
uninitialised mutex (`Called`), that a thread about to free the spinlock found an
empty queue (`FreeMeansEmpty`), and what the spinlock byte means (`SpinByte`). On
the Z80 it is 255 while somebody works under it. On the 8080 it counts: one more
than the byte, modulo 256, is the number of threads that work under the spinlock or
have failed to take it and not yet undone their increment. So a result of zero
means that there are none, however attempts and releases overlap; that the count
cannot come round to zero with threads inside is why at most 255 of them are
assumed, as the byte that holds a thread id assumes too. `MutexExcludes`,
`SpinlockExcludes`, `CountIsExact`, `NobodyStranded`, `QueueIsExact` and `MutexTypeOK`
follow. So does `SpinlockReleased`: on the 8080 by the count, on the Z80 from
`SpinHeld`, a byte that is not the free one has a thread working under it.
`ResultsAreOne` is about the Z80, as `ResultsAgree` is: on the 8080 the results
of a recursive lock do not agree.

*CallOnceProofs*, for any set of threads: `FuncEnteredOnce` for the Z80,
`NobodyReturnsEarly` and `CallOnceTypeOK` for both builds.

*HeapProofs* (a heap anywhere in 16 bits, any sizes, any threads). That the list
tiles the heap is not inductive over the loops of the search, nor over realloc,
which frees first and may have to put the block back. `HInv` adds: one thread at a
time is inside (`Exclusive`), pointers the program and the calls hold are headers
of live blocks (`PointersLive`), the pointers of the loops are in the list
(`LoopsInList`), a search has seen nothing that would do so far (`SearchedInVain`),
the best block found so far is one that would do (`BestIsThere`), and the block
realloc freed can be restored (`Restorable`). From it follow `HeapTypeOK`,
`HeapListSound`, `HeapNoSpuriousENOMEM` and `HeapInfoTiles`.

*HeapContentsProofs* builds on it. That no write hits a header in use
(`HeapHeadersIntact`) needs of realloc that it moves a block only to make it larger
(`MovesToGrow`): the bytes it copies and clears then lie in the new block, and the
header it may have to restore is not among them. It needs also that a thread
outside has no call pending (`OutsideIdle`). `HeapImplementsAllocator` is proved one
action at a time: entering and leaving, the passes of the searches and the fruitless
exits are steps in which no object changes; the step that changes the list serves
the call. The objects before and after it are compared by their extents, which
blocks that tile the heap keep apart (`ListSound`), and by their contents, of which
the step writes only those of the block it gives out. `RightLoop` says which calls a
loop works for, so that the block found is one that was asked for, on its
alignment or at its address.

*AciaProofs* (any buffer sizes, counter width and limits the configuration
allows). `AInv` is the type invariant with `RxInv`, which accounts for what the far
end may still send when it has been told to stop and for what the interrupt routine
and `getc` are in the middle of. `AciaTypeOK`, `AciaFlowControl`,
`AciaOnlyFlushStrands` and `AciaOnlyReceiveStalls` follow.

Both directions are shown to implement `Channel` (`AciaRxInOrder`, `AciaTxInOrder`)
with two more invariants. `RxOrder`: as long as nothing was overwritten, the
interrupt routine pokes right behind the bytes held, which are the counted ones less
the one `getc` has popped and not yet uncounted. `TxOrder`: `putc`'s byte waits behind
the counted ones until it is counted, and `putc` writes to the device itself only
when nothing waits that it could overtake. Lemmas about a ring buffer, whatever its
size, say what a poke behind the last and a pop of the first byte do to the sequence
it stores. `Channel` promises nothing of the step that overwrites bytes; with a
buffer smaller than the counter's range that step is no step of a channel, though
flow control was still in force before it.

*InterruptChainProofs* (a table of any size, any handlers, any code). That no
stray address is met needs to know what a call has written: `SlotsSound` says that
every slot but the half written one holds a handler or zero, `Progress` where a
call stands and what it carries, that prepend still has a free slot before the end
(`FreeFrom`) and that the bytes of one address come from one slot (`AtSlot`).
`ChainTypeOK`, `ChainTerminated` and `StraysOnlyHalfWritten` follow.

`ChainImplementsHandlerList` is proved from `ListInv`: between calls the slots hold the
handlers of the list, one each, and zeros behind it; during a call every slot but
the one it stands at holds what the old or the new list has there, old behind and
new before it for a prepend (`Prepending`), and the same for a removal (`Removing`).
The step that ends the call is the step of the abstract list. `ChainEveryoneServed`
adds `ServedInv`, that the handlers called so far are those in the slots passed, and
a case for every call that may be interrupted: a slot that is half written can
hide only the handler just carried, provided it does not read as the end of the
chain. It can if a handler lies in page zero, so `EveryoneServed` is stated for
handlers that do not (`NoneInPageZero`), as those of the run.

Only model-checked are the liveness properties `ReadyThreadsRun`, `WokenUp`,
`FreeUnitTaken`, `CallsReturn` of mutex and heap, `PollersReturn`, `WriterProceeds`
and `ServedAndReturned`: they rest on fairness, whose `ENABLED` is out of the
prover's reach.

## Not modelled

`thread_sleep` and `thread_wake` (macros of `preempt.h`), `sem_getvalue`,
`sem_destroy` (change nothing), the save and restore hooks of a context, the
priority scheduler and `thread_renice` (declared, defined nowhere), `sem_t`
memory behind an overrun array; the callback of `heap_info` (the areas it is told
are a definition) and the `_unlocked` entry points of the heap, which are the same
actions without the mutex; the SIO, UART and ASCI drivers, which follow the
pattern of the ACIA with other registers; nested interrupts and the set-up of the
im2 vector table; everything below the seventh row of the inventory. The host
tools and the target libraries will stay out: their correctness is about unbounded
texts, file formats, hardware and arithmetic. They are nearly all of the
repository's lines, most of them generated tables of the assembler.

## Plan

1. stdio file list and descriptor table on top of mutex and heap: locks held
   across calls, an open that fails half way.
2. The `thread_sleep` and `thread_wake` macros added to `Preempt`.
3. The I2C driver of the yaz180, an interrupt driven state machine.
4. Proofs: every new module's invariants; an abstract mutex that `Mutex` implements
   and that `Heap` takes its holder from.
