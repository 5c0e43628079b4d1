# A verification development for Hike

Hike is a compiled language. This repository holds its compiler (`hikec`, written in Go),
the runtime it links into every native program (LLVM text templates), and a standard
library in Hike itself. Three kinds of behaviour are hard to get right and hard to test. One
is where threads meet: the runtime under `Async`, channels and `lock`, the library built on
it, and the compiler's own forked loading of sources. The second is the translation of
control flow: every statement is rebuilt as a tree of labelled nodes, flattened, and turned
into blocks by two backends. The third is memory: the table behind a map, the areas that end with
their block, and the image, which a dying process may leave half written. This directory models those parts in TLA+, checks them with TLC and proves the
central claims with TLAPS.

## 1. Inventory

| Component | State | Operations | Hard behaviours | What makes it correct |
|---|---|---|---|---|
| Channel runtime (`runtime_common.ll` 956-1185, event in `runtime_linux.ll.tmpl`) | ring buffer with count, head, tail; closed word; spin lock; two auto-reset events | make, send, recv, close | a value and a signal in separate steps, one pending signal per event, unlock before wait, timeouts, spurious wakeups, close while threads sleep | linearizable first-in first-out queue; nobody sleeps through data, room or close |
| Async tasks (`runtime_common.ll` 845-954, thunks in `emitter.go`) | task record: result buffer, completed word, event handle | Async, worker thunk, `<-task` | worker and waiter race on word, event and buffer; plain loads and stores; event destroyed by the waiter | an await returns, with the result; no use of a destroyed event |
| std/eventloop | queue of closures, `running`, one reply channel per call | Init, Run, Stop, Post, InvokeCh, Invoke | unsynchronized test of `running`; calls from workers, from closures and before Run; full queue | each closure at most once; stop drains; replies arrive; order of one thread's calls |
| std/sync, lock blocks, concurrent variables | one lock word per process; Once.done; WaitGroup.count; globals | Lock, Unlock, Do, Add, Done, Wait, load, store | one lock for everything, spinning Wait, leaving a block early, read-modify-write without a lock | exclusion; fn once; join complete; no lost update |
| Source loader (`pkg/loader`) | visited files, jobs and their order, native dependencies | Load (sequential, or forked with `-compile-fork`) | jobs start jobs while Load walks their list; several jobs meet one file; errors in any of them; import cycles | same verdict and files as the sequential loader; no job left; termination; same order |
| Areas and regions (`runtime_common.ll` 534-695, `areaStack` of the lowering) | a frame per area: buffer, cursor, capacity, parent and its cursor; the areas open in the function being compiled | begin, alloc, end, at the end of a block and on the way out of a function | areas in areas, in calls, in loops that are left; the fallback to the heap; alignment | live allocations do not overlap nor outlive their buffer; what is taken is given back; a callee leaves its caller's areas alone |
| String runtime | buffers with reference counts | retain, release, writable, append | sharing, copy on write, counts without atomics | no use after free, no write to a shared buffer |
| Compact dictionary behind `map[K]V` (`runtime_common.ll` 2308-2801), conventional hashmap | index table with open addressing, array of entries in order of insertion | create, get, set, delete, grow, iteration | deleted slots on the way of other keys, growth in the middle of a set, deletion during iteration | an ordered map: one value per key, order of insertion |
| Persistent memory blocks (`pkg/memoryblock`; `lower_call.go` 789-920 and `runtime_common.ll` 15-249 for mapped variables) | image file: header, payload, relocations | Serialize, SerializeGraph, ReadGraph, RestoreGraphPointers; MappedSerialize, MappedDeserialize | several writes per image, crash in or between them, a write that fails half way, a reader of another version | a readable image is the one written; a load never mixes saves |
| Panic and recover runtime | one panic value per process | panic, recover | panics of several workers | recover returns the panic of its thread |
| Windows events; WebAssembly and 32-bit runtimes | as above | as above | host scheduling | as above |
| Lexer, parser, sema, transform | trees | passes | none concurrent; what sema forbids in lock blocks matters above | accepts and rejects as documented |
| Lowering (`pkg/lower`) and control nodes (`pkg/hir`) | stack of open bodies, stack of loops, areas, deferred calls, nodes with labels and IDs | one function per statement; placeholders for what follows a node; flattening | placeholders that give up their place while they are branch targets; one stack for loops and switches; several ways out of a function | the nodes are a tree; the compiled function does what the source says |
| LLVM and WABT backends | blocks, text buffers | structured body to blocks; structured WebAssembly, or one switch over all blocks | labels resolved by name or ID, branches out of a block's scope, forked emission | every branch has a target; output independent of the schedule |
| Code generators for hosts | text buffers | emit | none | plain output |
| Driver, modules, packing, target, toolchain, language server, logging, commands, rest of std | files, processes | command lines | a mutex or none | plain input and output |

How they interact: the compiler lowers `Async`, `<-`, `ch <- v`, `lock` and concurrent
variables to calls of the runtime and to single loads and stores. std/eventloop is written
on channels; std/sync on the lock word, which it shares with `lock` blocks. A worker is an
operating-system thread that ends with its function. The loader is Go and depends on
goroutines, two mutexes and channels that are only closed. The compiler also emits the code
that saves and loads mapped variables, as a sequence of calls of the runtime.

## 2. Modules

| Module | Models | Uses |
|---|---|---|
| `FifoChannel` | what a channel promises: a bounded queue, each operation one atomic step between its call and its return | |
| `HikeChannel` | channel and event, one step per group of stores another thread could tell apart | refines `FifoChannel` |
| `HikeChannelProofs` | the inductive invariant and the refinement, proved | `HikeChannel` |
| `HikeTask` | Async, worker thunk, `<-task` | |
| `HikeTaskProofs` | the life of the event and the awaited result, proved | `HikeTask` |
| `HikeEventLoop` | std/eventloop on a queue with atomic operations | relies on what `FifoChannel` promises |
| `HikeEventLoopProofs` | single evaluation and draining before a stop, proved | `HikeEventLoop` |
| `HikeSync` | the lock word under Once, WaitGroup, lock blocks and concurrent variables, in a fork and join | |
| `HikeSyncProofs` | mutual exclusion, Once and the join, proved | `HikeSync` |
| `HikeLoader` | `loadWithCompileFork` and its jobs | |
| `SequentialLoad` | `loadSequential`: one queue of files | |
| `LoaderEquivalence` | the forked loader against the sequential one | `HikeLoader`, `SequentialLoad` |
| `HikeLoaderProofs` | quiescence when a program is returned; same verdict and same files as the sequential loader, proved | `LoaderEquivalence` |
| `OrderedMap` | what `map[K]V` promises: one value per key, in the order of insertion | |
| `HikeDict` | the compact dict: probing, growth, deletion | compared with `OrderedMap` |
| `HikeDictProofs` | the index table, lookups, the steps of the map and its ordinals, proved | `HikeDict` |
| `HikeSyntax` | the statements of a function body | |
| `HikeSource` | what a body means: the events it may show next, as a continuation of statements | `HikeSyntax` |
| `HikeLower` | `pkg/lower`: statements to control nodes | `HikeSyntax` |
| `HikeCfg` | `FlattenTransparentBlocks`, then `structuredcfg` and the LLVM backend's use of it: nodes to blocks | `HikeLower` |
| `HikeWat` | the WebAssembly backend: structured where it can, else a switch over the blocks | `HikeCfg` |
| `HikeCompile` | the pipeline and a machine that runs the blocks, with the source alongside | `HikeWat`; compared with `HikeSource` |
| `HikeImage` | three writers of memory images, failing writes, crashes, and their readers | |
| `HikeImageProofs` | what can be read of a file is what was saved, proved | `HikeImage` |
| `HikeArea` | areas: their buffers, cursors and ends, on several threads, under calls and loops | |
| `HikeAreaProofs` | memory safety of areas, and that all of it comes back, proved | `HikeArea` |
| `MC...` | the small instances for TLC | |

### HikeChannel

`lock`, `closed`, `cnt`, `head`, `tail`, `buf` are the fields of `struct.__hike_chan`; `ev`
holds the state words of `ev_recv` and `ev_send`. `pc` and `op` say where in which operation
a thread is; `reg` is the count it loaded (`%cnt`), which it later stores back plus or minus
one, so that a broken lock would lose updates in the model as in the code. `val` is the
payload behind `val_ptr`. A critical section is cut at the stores: *check* (loads and
branches), *copy* (payload and head or tail), *count*, *signal*, *unlock*. The event's
operations are one step each, because `hike_event_wait` and `hike_event_signal` hold the
event's mutex throughout and give it up only inside `pthread_cond_wait`. A signal sets the
word and wakes at most one sleeper; who is woken tests the word again (`TestEvent`), a
timeout returns without testing, and a condition variable may wake for no reason.

### HikeTask

One worker per task. `result` tells a result that has been stored from one that the other
threads can see; `Propagate` is the memory system making it visible, and the event's mutex
does so at the latest. The signal is one step: `hike_event_signal` gives up the mutex last, and who waits cannot
leave `hike_event_wait`, and destroy the event, before it has the mutex; that `pthread_mutex_unlock` is
through with a mutex another thread may take is what POSIX says. With `OrderedStores` the completed word follows the result (x86-64).
`handle` and `event` separate the field of the task from the event itself, so that destroying
the event and forgetting it are the two steps they are in the code. `Async` may get no event,
which leads to the polling loop. The failure of `pthread_create`, whose result the runtime
ignores, is not modelled.

### HikeEventLoop

Calls are numbered in the order they are made; `state` says what has become of the closure of
a call and `resCh` what its reply channel holds. The test of `running` in `InvokeCh` and what
follows from it are separate steps. A closure that Run evaluates may call the package again, which
is how the main thread can wait for itself (`MainStuck`): it posts while the queue is full, or it
waits for the reply of a call that it made before Run (`running` was 0, so the closure is in the
queue, behind this one) or of the call whose closure this is. Nothing in the code prevents either, and a
stop that is queued then never takes effect; `StopEndsRun` and `ReplyArrives` except exactly these states.

### HikeSync

Loads and stores of the words are separate steps under or without the lock. `ReturnFromBlock`
is a `return` under an `if` inside a lock block: the lowering emits the unlock only after the
block's last statement (`lower_stmt.go` 138-145), so this path keeps the lock. The main thread
forks workers under a WaitGroup and waits.

### HikeLoader, SequentialLoad, LoaderEquivalence

A goroutine per package, and one step per critical section of the two mutexes; `bad` is a set
of files and directories, chosen initially, that fail. `SequentialLoad` takes the next file of its
queue (`NextFile`) or follows the next import of the file at hand (`FollowImport`). In
`LoaderEquivalence` it loads the same sources with the same `bad` and is through before the forked
loader begins: they share nothing. Imports that do not resolve
are skipped by the code and do not appear; name mangling, build constraints and Go-Hike mode
are left out.

### OrderedMap, HikeDict

`cap`, `indices`, `entries` and `live` are the fields of `struct.__hike_compact_map` (the entry
count is `Len(entries)`; entries are numbered from 1). A probe is a choice of the first slot
that stops it (`FirstSlot`), and the three kinds of probe differ in what stops them:
`LookupSlot`, `SetSlot` and `RehashSlot`. A set that has to grow first is split: `BeginGrow`
makes the new table, `Rehash` is one turn of the loop that fills it, `Retry` looks again as
`load_map` does. Nothing runs in between; the steps make the half-built table visible to
`DictInv`. `Hash` is any function of the key, so keys can be made to collide at will. `Pairs`
is what a range loop is shown: the n-th live entry, as `__hike_cdict_entry_at` finds it by counting
(`Rank`, `EntryAt`).

### HikeSyntax, HikeSource, HikeLower, HikeCfg, HikeWat, HikeCompile

A statement is a record; a test or a call is an event with a name, a test also a value.
`HikeSource` says what the source means: `todo`, a sequence of statements and marks for what encloses
them, offers a set of events, and each leads to another `todo`. `HikeLower` is `pkg/lower` as
a function from the statements to the same control nodes the code builds: its state `l`
holds the nodes, the stack of open bodies, the loop contexts, the areas and the deferred calls, and one
operator stands for one `Lower...` function. An item of a body is an instruction or the
reference to a node; instructions are silent unless a reader of the program could observe
them. Node IDs, placeholders and the two ways to name a branch target (label and ID) are
those of the code, because that is where lowering goes wrong. `HikeCfg` flattens the
nodes, resolves the targets and yields blocks with one terminator each; `HikeWat` decides as
`canEmitStructuredBody` does between structured code and `emitCFG`, and represents both as
blocks, where a branch that WebAssembly's scoping would not allow leads nowhere (0). `HikeCompile` chooses a
body, takes it through the passes as steps, and runs the result: a step is one event, the
silent instructions in between are followed with it, at most `Fuel` of them. Since the branch
targets of a compiled body do not depend on data, a body's events stand for all data at once:
each test may have any outcome that its statement allows.

A body left out of the programs is one of these, for each of which the code is known to be
wrong (the first is a run of its own):

1. `continue` in a switch in a loop: the target is the switch's, which is 0 (`compile_continue`).
2. `break` in a slice, iterator or async range behind a nested range of the same kind: their
   labels are constants (`lower_control.go` 407, 1127, 1544), although `hir/control.go` 13 gives every
   construct a unique one, and the branch leads to the inner loop's end.
3. Deferred calls and a call of the function itself: `prepareTailCallCleanup` empties the list of
   deferred calls that a later `return` needs. The same call inside an area crashes the compiler.
4. `break` and `continue` out of an area do not end it; `return`, `break` and panic inside a
   lock block keep the lock (`HikeSync` has the consequences).
5. `defer` that is not at the top level of the function: deferred calls are registered when
   they are compiled, not when they are met, and a statement in two buckets of a switch is compiled twice.
6. A `case` of 2^63 or more: its bucket is computed with a signed remainder.
7. `continue` in a range over a conventional hashmap goes to the next bucket, not the next entry.

Also left out: loops and cases with an empty body, and endless loops without an event.

### HikeImage

A file is a sequence of units, a header field or a pointer or an element; a write puts its
units at the start, behind the end, or over the start of the file. `steps` is what a save
has yet to write, `saved` what the file was last created for, `status` what became of that.
Serialize writes once; SerializeGraph writes the image and then patches its header; the
code generated for MappedSerialize creates the file with header and root, appends each payload with
an open and a close of its own, and writes the header again. `WriteFails` and `Crash` put any
part of the units into the file. The Go code returns at the first error; the generated code ignores
the runtime's results and goes on, so `failures` is bounded and `NeverMixed` leaves out
files with a failed write: in those a payload may lie where another should.
`MappedDeserialize` reads the root into a buffer on the stack (`Leftovers` is what it holds
before, any numbers at all) and then every payload by the offset and length found there. What lies
at that place need not be elements: a field of a header or a number read as an element is `Junk`,
an element read as a number is `Garbage`. Where the runtime's load rejects
the file, all variables are overwritten with what was in the buffer, and nil is returned all
the same, although `schema.go` 36-37 says of the hash that a file from another declaration is rejected
"before any serialized bytes are applied". The death of the machine, where written units may
be lost in any order, is not modelled: the code syncs only in SerializeGraph.

### HikeArea

An element of `areas[t]` is a `struct.__hike_area`: its pointer to memory is split into the buffer
that malloc gave (`buf`) and the distance from its beginning (`base`), and `parent` is the number of the area around
it. `heap` holds the size of each buffer, 0 for a free one. Two variables are about the program
and not the runtime: `given`, the extents handed out by each area and still
alive (a history: the code keeps none), and `calls`, the number of areas open at each call. `Floor`
is what separates a function's areas from its caller's: the compiler starts every function with an empty `areaStack`, so the
first area of a callee has no parent and gets a buffer of its own, although its caller has
areas open (`Parent`).

`BeginRoot`, `BeginNested`, `AreaAlloc`, `AreaSpill`, `EndNested` and `EndRoot` are the branches of the three runtime
functions, one step each: they touch only the frames of the thread, and the platform's malloc.
The end of a block and the way out of a function (`Exit`, then ends, then `Return`) use the same two ends,
innermost first. `Leave` is `break` or `continue`, which the lowering turns into a jump and
nothing else: the areas inside the loop are dropped, their cursors and buffers stay as they are.
`left`, another history, remembers which threads have done that: what they have lost does not come back
(`Restored` and `Released` leave them out), but their memory is as safe as ever.

Sizes of allocations are those of types, known to the compiler; strings and slices stay on the heap
(`isAreaHeapValue`). The size written for a nested area is computed and ignored by the
runtime. A nested area may begin at an odd place, after 12 bytes of 8-aligned memory, say: only
distances from its base are rounded. `Capacity` in KiB is given when the program runs; negative
ones, and a malloc that fails, are not modelled. Neither are frames (40 bytes) that `Leave` loses, nor the
blocks of the fallback, which nothing frees (`spilt` counts them). The WebAssembly and 32-bit runtimes repeat the scheme.

## 3. What the runs check

| Run | Instance | What it shows |
|---|---|---|
| `channel` | 3 threads on 2 slots: one sends and closes, one receives, one does both; 1 payload | `ChannelInv`, `Linearizable`, `CloseReleases`, `SleepersWake`: the ring wraps, all three can collide, and two may sleep on one event with one pending signal |
| `task` | main, two tasks, nested or side by side, each awaited up to twice | `AwaitedResult`, `EventLifetime`, `AwaitReturns` |
| `eventloop` | main, 2 workers, queue of two; 3 calls and Run twice, or a fourth call by main and Run once | `EvaluatedOnce`, `StopDrains`, `StopEndsRun`, `ReplyArrives` |
| `eventloop_order` | main, 2 workers, 3 calls, queue of one, Run twice | **violates** `CallOrder` |
| `sync` | 3 workers with lock blocks, some left by a return | `Exclusion`, `FnOnce`, `JoinComplete`, `AllCounted`, `WaitReturns` |
| `loader` | 4 packages, 5 files, import cycles, every set of bad files and directories | `Quiescent`, `SameOutcome`, `SameFiles`, `LoadReturns` |
| `dict` | 6 keys of 2 hashes, 2 values, 9 entries, symmetric | `DictInv`, `KeysFound`, `StepsOfMap`, `OrdinalsStable` |
| `dict_map` | 2 keys of one hash | **violates** `ImplementsMap` |
| `compile` | 875 bodies up to three nested statements deep, both backends, `Fuel` 60 | `OneTree`, `Executable`, `Implements` |
| `compile_continue` | 30 loops around switches that continue | **violates** `FollowsSource` |
| `area` | 2 threads, 3 buffers of 1 KiB, 3 open areas, 2 calls each, 3 live values of 340 bytes; loops may be left | `MemorySafe`, `GivenBack`, `CallerUntouched` |
| `image` | a block, 18 graphs, a mapped number, string and slice of up to 2 elements; 2 versions, 1 failed write, 2 contents of the stack | `RoundTrip`, `NeverMixed`, `ReadableIsWritten` |

The bounds. Two threads are enough for most races of one pair of operations; the third makes a
second sleeper on one event, a competitor for the lock, and a job that is started by either of
two others. Two slots with three threads make head and tail wrap and the channel full, empty
and in between. One payload tells a value from none, and how many there are, but not an order
from its reverse: that, and the safety of every other capacity, is left to the theorems about the channel, which
hold for all payloads and capacities. Two tasks give both a
nested and a parallel start; a second await on a task covers its three paths with the event
present, destroyed and forgotten. Three calls are the least that put two of one thread around
a stop or a closure of another, and that put a closure of the main thread in front of the call it waits
for; a queue of two slots has room for that. The fourth finds the queue full from a
closure. Without either part of `MainStuck` both liveness properties fail in this run, so both states are met.
`Explored` of `MCHikeEventLoop` also lets only `w1` make the first call of a worker: the workers are alike.
Nine entries are one more than the first table holds, and six keys are the least whose load makes
it grow, so both reasons to grow occur; the keys collide at the end of the table, so that probing
wraps. `Explored` of `MCHikeDict` keeps the two apart: many deletions with at most two live keys,
or many live keys of one value with at most one deletion. The bodies of `MCHikeCompile` put every way out (break, continue, return, panic, a call of the
function itself) under every kind of loop, switch, area and test, alone and in pairs, with
a statement behind, and some triples: a placeholder, a label or a table that is shared is shared
by two neighbours or by a node and the one around it. Case values share
buckets, meet the adjusted one and the default, and operands are negative, zero and above the
table. No body has more than 60 silent instructions between two events; one that did would be
reported. Texts of one and two elements tell an offset from the next and a part from a whole;
the variables start empty, so that every saved value differs from one never saved. One content of the
stack names plausible payloads, the other one that begins inside the header.
Three values of 340 bytes fill an area of 1 KiB but for the rounding: the third fits only if the
cursor is not rounded up. Three open areas are an area in an area in a caller's or beside it. A nested area gets 512 and the next 256 bytes, so values
go into it, past it and to the heap.
`MaxAwaits`, `MaxCalls`, `MaxRuns`, `MaxEntries`, `Explored`, `Fuel`, `MaxFailures`, `MaxAreas`, `MaxLive` and
`MaxSpilt` are the only artificial bounds.

The three violations are disagreements of the code with what its documents, comments or tests
say; `PROJECT.json` quotes both sides under "findings". `CHECK_DEADLOCK FALSE` stands where
the modelled program may be over, or may hang as the code does: a stopped event loop, a
joined program, a returned `Load`. The channel and the dict never stop and are checked for
deadlock: a growth that found no slot for an entry would be one. Neither do programs with areas, which
can always return.

Four more disagreements show when a constant or a property is changed. With
`OrderedStores = FALSE` in `MCHikeTask.cfg` (linux-arm64, linux-arm32) `AwaitedResult` fails: the
completed word and the result are plain stores and loads (`runtime_common.ll` 866, 931-949) with
no fence. With `Updates = {"plain"}` in `MCHikeSync.cfg` `AllCounted` fails: `completed = completed + 1` on a
concurrent variable is two atomic steps, and `e2e_threadable_variables_test.go` 138 expects no
update lost. And nothing orders the jobs of the forked loader (`loader.go` 551), so packages may merge in
an order that `loadSequential` never produces (`SameOrder` of `LoaderEquivalence` fails), where `loader.go` 422-425 wants discovery order.
And a `break` or `continue` out of an area ends nothing (`lower_stmt.go` 149-172; `lower.go` 908-912 and 1040-1047 end
areas before a return or a panic only), where `area-allocation.md` 126-127 says of a nested area "When the nested
block ends, its allocations are invalidated and the parent area cursor is restored in O(1)". Without
`\ left` in its bound `Restored` fails: every round of a loop that is left so takes half of what the
outer area has left, until its values go to the heap, which nothing frees.

`StepsOfMap` leaves out the steps of a dict in which some key has two live entries, and
`KeysFound` asks of such a key only that one of its values is read. This is where the code
departs from a map, which `dict_map` shows by itself.

### Fairness

The operating system runs every thread that can run: weak fairness on each thread's own steps,
never on its decision to call something. Beyond that only the spin locks and the 10 ms timeout
get strong fairness. Neither lock keeps a queue, but each is free between any two critical
sections and polled again and again, so a thread that finds it free infinitely often gets it;
and the timeout is an absolute deadline computed once per wait, so a sleeper that is woken for
nothing again and again is still timed out. The event loop uses weak fairness for channel
operations, no more than the run of the channel establishes. A Go program needs weak
fairness of each goroutine only. The compiler, the compiled code and the image are sequential and
have safety properties only, and so have areas; that compiled code goes on where its source does is `Executable`
and the absence of deadlock.

## 4. What is proved

`HikeChannelProofs`, for every set of threads and payloads, every assignment of operations to
threads and every integer capacity:

* `ChannelTypes`: `Spec => []TypeOK`; `ChannelSafe`: `Spec => []ChannelInv`.
* `ChannelLinearizable`: `Spec => Linearizable`, the refinement of `FifoChannel`.

Assumptions: the zero payload is not an ordinary one (it only tells a closed and drained
channel apart), programs are sets of operations, the capacity is an integer.

The inductive invariant is `TypeOK /\ ChannelInv`. Mutual exclusion is not inductive by itself:
it needs `LockWord` (the word is set exactly while somebody is inside), which needs to know
which places are inside at all (`Placed`). The ring equation `tail = head + cnt (mod cap)` is
broken between the store of head or tail and that of the count, so `Ring` adds what is still
owed (`Uncounted`); and since the count is stored from a register, `Loaded` says that the
register still equals the count while its thread is inside. `Carried` relates the payload in a
thread's hands to the slot, without which the refinement of a receive could not be shown: the
abstract queue loses its head when the count is stored, one step after the slot was read. Each
action is a lemma; the ones that disturb the ring (`CopyIInv`, `CountIInv`) split on who is
inside. The refinement maps the queue to `Contents`, the `cnt` slots from the oldest one; the
linearization points are the store of the count, the test that finds the channel closed, and
the store of the closed word; every other step leaves the mapped state unchanged.

`HikeTaskProofs`, for every set of tasks and number of awaits:

* `TaskTypes`: `Spec => []TypeOK`; `EventSafe`: `Spec => []EventLifetime`, whatever the target does to the order of stores.
* `ResultSafe`: `Spec => []AwaitedResult`, assuming `OrderedStores`; on linux-arm64 and linux-arm32
  it does not hold, for which `HikeTask` has a constant. It also assumes that "none" names no thread.

`EventLifetime` by itself says nothing of who may still come to the event. `OwnTask` (only the
creator awaits a task) makes the waiter unique; `Worked` orders the worker's stores; `Signalled`
says that a set event means the worker is past its last use of it, and that a freed one is
forgotten before its waiter does anything else; `Waits` carries what the waiter has learnt from
the event to the step that frees it. `AwaitedResult` needs `Visible`: the completion word is never
seen before the result.

`HikeSyncProofs`, for every finite set of workers:

* `SyncTypes`: `Spec => []TypeOK`; `OnceSafe`: `Spec => []FnOnce`; `JoinSafe`: `Spec => []JoinComplete`,
  whether or not updates are in lock blocks;
* `LockSafe`: `Spec => []Exclusion` and `UpdatesCounted`: `Spec => []AllCounted`, assuming that every
  update is in a lock block (`Locked`). An unlocked update loses counts, as it should, and for it the
  last part of `Exclusion` is false.

The counters are tied to sets of workers: `count` is the number of `Counted` workers, and one more
while the main thread has added a worker it has not started (`Ahead`); `completed` is at most the number
of `Updated` ones, and equal to it under `Locked` (`Shows`); the bounds of the counters in `TypeOK`
follow by counting. `Wait` returns on a register, so `Joined` says that a register that read 0 means
all have finished. `OnceInv` equates the runs of fn with the `done` word, less the one worker that
has set it and is on its way (`Starting`). A block that was left by a return keeps the lock
for ever, which `Mutex` records, and the other invariants hold all the same.

`HikeEventLoopProofs`, for every set of workers, capacity, number of calls and runs:

* `LoopTypes`: `Spec => []TypeOK`; `LoopEvaluatesOnce`: `Spec => []EvaluatedOnce`; `LoopDrains`: `Spec => []StopDrains`.

`Held` says in whose hands a call is, the caller's or Run's, and never both; `Waiting` ties the
state of closures to the queue; `InOrder` says that whatever the caller of a waiting closure called
before it is over, being evaluated by Run, or further ahead. `StopDrains` is strengthened
to hold from the moment Run takes up the stop.

`HikeLoaderProofs`, for every set of packages, files, imports and broken files (each package has
a sequence of files, each file a sequence of imports):

* `LoaderTypes`: `Spec => []TypeOK`; `LoaderQuiescent`: `Spec => []Quiescent`;
* `ForkedSameOutcome`: `BothSpec => []SameOutcome`; `ForkedSameFiles`: `BothSpec => []SameFiles`.

`Over` ties the closed done channels to ended jobs, `Entered` says that an entered file is loaded,
being parsed or the end of a failed job, and `Gathered` that what has been appended comes from
jobs that have ended, so that nothing is added to it later; the list of jobs can no longer grow
once the last of them has been collected.

For the comparison with the sequential loader no induction over the import graph is needed. A set of files is `Closed` if it holds the entry
package and, with each file, all files of the packages it imports. Upper half, for either loader:
at any moment what it has entered, queued or started lies within every closed set, and if it has
failed no closed set is free of bad files and directories (`ForkedUpper`, `SeqUpper`). Lower half:
what a loader has entered, together with what still waits, follows its imports (`Listed`, `Followed`, `SeqFollows`), so that
at the end, with nothing waiting, what it has loaded is itself closed and sound. Two sets each of which is closed and within every
closed set are equal; and a loader cannot fail when the other's
result is a sound closed set. The inductive invariant quantifies over sets of files, so it is proved and not model-checked;
TLC checks its consequences. `Once` gives every file one place, in the list of one goroutine or under its parser.

`HikeDictProofs`, for all keys, values and hashes, every capacity asked for and any number of entries:

* `DictTypes`: `Spec => []TypeOK`; `DictSafe`: `Spec => []DictInv`; `DictFinds`: `Spec => []KeysFound`;
* `DictMaps`: `Spec => StepsOfMap`; `DictOrdinals`: `Spec => OrdinalsStable`.

`KeysFound` rests on `Reach`: on the way from a key's hash to the slot that holds it no slot is
empty. Deletion keeps it because it leaves `Deleted` behind, a set because it takes the first slot
that is free, a growth because it takes the first that is empty. That some slot is free follows by
counting: `live` stays below the capacity, and the slots in use map one to one to live entries.

The last two relate the entries before and after a step. The n-th live entry is the one of rank n,
and ranks grow by one from each live entry to the next, so the live entries and the numbers from 1 to
`live` correspond one to one. An append adds the last
number; a store in place keeps all of them; an erased entry takes its number away and moves
those behind it down by one, which is what `OrderedMap` does with `RemoveAt`.

`HikeImageProofs`, for all variables, payloads, blocks, graphs and versions, any number of failed
writes, and a crash after any unit of any write:

* `ImageTypes`: `Spec => []TypeOK`; `ImageRoundTrip`: `Spec => RoundTrip`;
* `ImageNeverMixed`: `Spec => NeverMixed`; `ImageReadable`: `Spec => []ReadableIsWritten`.

Assumptions: elements are neither numbers nor the mark of an absent file, the sources and targets of
pointers are not negative, variables have different names, and a stack buffer has the size of the
root. Its content is arbitrary.

The invariant says of a file that it is a beginning of what its save writes, with the header of before or
after the last write. `BlockInv` and `GraphInv` give that as a formula of the file (`Patched`: the first n
units of the image, the first m of which come from the second header). For the mapped writer
`MappedInv` says it place by place: each unit that the file is long enough to hold is the header's, the
root's, or the element that `Offset` puts there (`RootOf`, `PayloadsOf`); and while a save is under
way, the size of the file is that of the payloads written so far, which is why the next append lands at
its offset. `StepsInv` and `SavingInv` tie what remains of a save to what it is saving,
`WritingInv` its progress to the status. A reader then has two cases: the file is long enough for
what the header or the root promises, and holds it, or the reader sees that it is too short. The
sums in `Offset` and `Flat` are recursive functions; what the proof needs of them (offsets grow, each
element of a concatenation has its place) is shown by least numbers (`EveryNumber`), since a
set of numbers can be given to the prover where an operator cannot.

`HikeAreaProofs`, for every set of threads and buffers, any sizes of areas and allocations, any
nesting and any calls:

* `AreaInvariant`: `Spec => []IInv`; `AreaTypes`: `Spec => []TypeOK`;
* `AreaNonOverlap`: `Spec => []NonOverlap`; `AreaNoDangling`: `Spec => []NoDangling`;
  the three together are `AreaMemorySafe`: `Spec => []MemorySafe`;
* `AreaCallerUntouched`: `Spec => CallerUntouched`;
* `AreaRestored`: `Spec => []Restored` and `AreaReleased`: `Spec => []Released`, together `AreaGivenBack`: `Spec => []GivenBack`.

Assumptions: sizes are natural numbers.

`NonOverlap` compares any two values of any areas; what is inductive is about neighbours. `StackInv` is a
property of one stack of areas `A`, what they have given out `G`, the sizes of buffers `H` and the
calls `C`: each area lies in its buffer (`Within`); one with a parent begins at its parent's cursor (`Nested`); one without
has no buffer in common with those below it (`Separate`); of two in one buffer the upper begins behind the cursor of the lower
(`Above`); values lie between base and cursor, one after the other (`Filled`); and the first area of
a function has no parent (`Roots`). The cursor proper of an area is not its
field `used` while an area nested in it is open, but where that one began (`Cursor`): `Above` is stated of it, and a
cursor that has been restored is the one it was. What remains when loops are left is
that `used` may be beyond it, which keeps values apart all the better. So every action changes one stack in one of four ways, each
a lemma with a part for every conjunct: areas are dropped (`DropStack`), one is put on top (`PushStack`), the top one gives out memory
(`AllocStack`), or it ends and its parent's cursor is set back (`EndStack`). The
stacks of different threads meet only in `Foreign`: they have no buffer in common, because
malloc gives no buffer twice.

`CallerUntouched` follows from `Roots`: an end, or the begin of a nested area, changes a parent only, and that
one belongs to the same function. `Restored` and `Released` are inductive with
`IInv`: a nested area has its parent below it, in the same buffer, so that its end leaves the buffer to an open area
and the parent's cursor where `Cursor` had it all along.

With these theorems every safety invariant and every action property of the passing runs is proved,
except those of `HikeCompile`.

Only model-checked:

* `HikeCompile`: `OneTree`, `Executable` (with its `TypeOK`), `Implements`. Lowering, flattening and the meaning
  of a body are recursive over trees of statements; the operators are RECURSIVE, for which
  the prover has no support, and what they compute for every body would be shown by induction over data.
* Liveness of every part, and whatever depends on ENABLED, for which the prover has no support.
* The violations, which are counterexamples.

## 5. Not modelled

* The failure of `pthread_create` and of `malloc`; the death of the process when main returns.
* The Windows event (system calls with the same contract) and the WebAssembly and 32-bit runtimes.
* Composite concurrent variables, `threadable` variables (thread-local), `std/sync/atomic`.
* Several mutexes: they are one lock, and a thread that nests them waits for itself.
* Of the maps: range loops, clones, access by index, the conventional hashmap, and the memory that
  deleted entries keep (growth copies them along, other than `compact-dict.md` says).
* Lexer, parser, semantic analysis and the transformation of generics, closures and methods:
  sequential translations of trees into trees or verdicts, tested by example.
* Of the lowering and the backends: expressions without control flow, ownership (retain, release),
  types, text, debug information, the forked emission; the combinations of statements listed under
  `HikeCompile`.
* Of the images: mmap; structs and maps that `lower_call.go` 893-908 copies raw, with the pointers in them
  (they are dangling after a restart); images of the Go writer and of the runtime read by the other, which
  the Go reader would reject although both say HMB3, version 3.
* The string runtime. Regions (`--alloc=region`): `finishRegionFunction` (`lower.go` 673-720) puts their
  instructions into the legacy blocks of a function, which are dropped before a backend sees
  them, so that no region begins in a compiled program.

## 6. Plan

1. `HikeString`: retain, release and copy on write by several owners, then by several threads.
2. Range loops over the dict, which read its length once and ask for entries by number, with
   deletions in their bodies.
3. Theorems about the parts of the compiler that do not recurse over statements: `HikeCfg` and `HikeWat`
   once their recursion is over positions in a list of nodes.
4. Forked emission of the LLVM backend.
