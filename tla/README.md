# yazik in TLA+

Models of yazik, a C++ library for coroutines, concurrency and RPC with a
protobuf code generator: the executors and what threads and coroutines wait on,
coroutines and their errors, gRPC calls on both sides, counted pointers, type
lists, and the code that the compiler generates for messages. TLC checks them on
small instances; TLAPS proves the safety properties, all but that of the type
lists, for all instances. Paths are relative to `src/src/yazik/` unless they begin with
`examples/`, which is `src/examples/`.

## The system

| part | state | operations | interacts with |
|---|---|---|---|
| `RWXSpinlock` (concurrency/rwx_spinlock) | one atomic `long` | lock, try-lock, upgrade, unlock in three modes | any threads |
| `RWXLocker` (same file) | pointer to a lock, a mode | construct, move, assign, upgrade, unlock, destroy | `RWXSpinlock` |
| `ref_counted`, `intrusive_ptr` (utility) | atomic count | ref, deref, copy, move, reset | everything |
| `Stack` (concurrency/stack.hpp) | atomic head of a linked list | push, sweep, sweep_ordered, steal | executors, `MPSCResultEvent` |
| `SingleThreadExecutor` (concurrency/executor) | two stacks, token, thread, condition variable | dispatch, managed dispatch, defer, start, stop, wait | clients, its callbacks, `Stack`, `CVWaiter` |
| Asio schedulers (concurrency/scheduler) | io_service, token, thread, timers | dispatch, defer, delayed, periodic, start, stop, wait, run_until_done | clients |
| gRPC queue schedulers (rpc/grpc/grpc_scheduler) | completion queue, actions, token, thread | the same | gRPC, calls |
| `Event` (concurrency/event) | flag, mutex, condition variable | wait, wait_for, set, clear | threads |
| `CoroEvent` (same file) | one atomic word: null, set, or a list | co_await, set, reset | coroutines |
| `MPSCResultEvent` (same file) | stack, state, condition variable | wait_multiple, set | `Stack` |
| `SequenceBarrier` (concurrency/sequence_barrier.hpp) | last published number, list of waiting operations | wait_until_published, publish | executors, `CoroScope` |
| `CoroScope`, `CoroDefer` (concurrency/coro_scope) | barrier, counters | push_deferred, join | `SequenceBarrier` |
| Task, Future, Promise, Channel, Generator, Result | coroutine frames, continuations, results | co_await, yield, return, failure | each other, executors |
| runtime, workers, tags, server and client support (rpc/grpc, compiler/support) | calls and streams, completion queue | start, stop, wait; read, write, finish, release | gRPC, schedulers, coroutines |
| compiler and generators | descriptors, text buffers | protobuf descriptors to C++ text | none |
| generated messages (examples/out/book) | the message | `Ref`: read; `Builder`, `LayeredBuilder`: change; serialize, deserialize, move | protobuf, calls |
| type lists, traits | none | compile-time computation | - |

What is hard: interleavings of lock-free operations; notifications sent without
the waiters' mutex; lists of suspended coroutines that two sides race for; start,
stop and wait with work in flight; completion tags shared by the operations of a
call; errors that pass coroutines without unwinding them; temporaries that point
to each other; files generated by separate loops that must agree. `PROJECT.json`
lists the hazards, each at its line, with the properties that would notice, and a
note where none does.

## Modules

| module | models | correspondence |
|---|---|---|
| `RWXLock` | what the lock promises | `held` says who holds what; a grant or a release is one step |
| `RWXSpinlock` | `RWXSpinlock` | `flag` is `_flag`; an operation is `Enter` (the load), `Spin` / `GiveUp` (a test or a compare-exchange that fails, also spuriously) and `Acquire` (one that succeeds) |
| `RWXLocker` | `RWXLocker` | one action per member function; a blocking lock call is one step, enabled when it would return, which the refinement of `RWXLock` justifies |
| `RefCount` | `ref_counted`, `intrusive_ptr` | the test for uniqueness, the decrement and the deletion of `deref()` are steps of their own |
| `HandoffQueue` | what the stack promises | a queue that takers empty at once, in push or reverse order |
| `TreiberStack` | `Stack` | `head`, `next`, `data` on a heap of addresses that are reused; one step per atomic access and per turn of a loop |
| `SingleThreadExecutor` | the executor, its tokens, `CVWaiter` | the stacks are queues as in `HandoffQueue`; pushing and notifying are separate steps; `loop` is the program counter of `thread_loop`, `ctl` that of the thread that starts, stops and waits |
| `AsioScheduler` | `AsioScheduler`, `AsioThreadScheduler` | the io_service hands out what is queued or expired (external); the thread runs it and looks at its token between runs; `stopped` is the io_service's own flag, which ends every later `run_for` at once |
| `GrpcQueueScheduler` | `GrpcQueueThreadScheduler` and its actions | queue and alarms are external: `armed` alarms expire into `events`; `loop` is the program counter of `thread_loop` and `step()`, `stopping` those of the threads inside `stop_impl()` |
| `Event` | `Event` | the flag, the mutex, and the steps of a condition variable wait, with deadlines |
| `CoroEvent` | `CoroEvent`, `CoroEventOp` | the word is `set` and `waiters`; what `set()` has still to resume is `pending` |
| `MPSCResultEvent` | `MPSCResultEvent` | one waiting thread, a thread per result; the stack is the queue it implements |
| `SequenceBarrier` | the barrier and its wait operation | `thread[t]` holds the locals of `publish()` or `add_awaiter()`; `op[c]` is the operation of a consumer |
| `CoroScope` | `CoroScope` | a task draws its number in one step and publishes it in a later one, on the barrier of `SequenceBarrier` |
| `Coroutines` | tasks, channels, generators, futures, promise_base | `frame[i]` is the promise of a coroutine, frame `i + 1` is what it awaits; `cur` runs; a failure climbs by `Last`, `AfterError` |
| `GrpcClientCall` | compiler/support/grpc_client_support.hpp | `pc[c]` is where a coroutine stands, `handle` the one coroutine its tag remembers; `misuse` records what the code counts on and does not enforce |
| `GrpcServerCalls` | grpc_support.hpp, grpc_runtime.cpp | a payload is a coroutine with a tag; `pc` says what it waits for, `events` the queue |
| `TypeList` | utility/type_list.hpp | each recursive template is a recursive operator, its specialisations the cases |
| `BookEntity` | sample.pb.*, sample.yaz.pb.cc, for `Book` | two messages, their fields and oneofs; bytes are a sequence of tagged entries |
| `LayeredBuilder` | `LayeredBuilder`, `VecEntityLayeredBuilder`, `VecLayeredBuilder` | `obj` are the living builders with the pointers they hold, `temps` those of the current statement, `heap` the messages |
| `CodeGenerator` | compiler/utility, compiler/generators | a message is a sequence of fields; a generated file is the sequence of slots, types, calls and accessors in it |
| `SampleCode` | examples/out/book/sample.yaz.* | the code that is checked in, in the same terms |

`RWXSpinlockProofs` (also the lockers), `UtilitiesProofs`,
`SingleThreadExecutorProofs`, `SchedulersProofs`, `SequenceBarrierProofs`,
`WaitingProofs` and `CallsProofs` hold the theorems, `SequenceLemmas` facts about
sequences that repeat nothing. `Lists` has the operators on lists that the
modules share, `Among`, which splits them, and `Total`, which adds them up. `MC*.tla` give the constants values and
compose what is checked together. Most of them (`MCRWXSpinlock`, `MCUtilities`,
`MCSchedulers`, `MCWaiting`, `MCRpc`, `MCSingleThreadExecutor`) check components that share nothing in one run: a behaviour
exercises one of them, chosen at the start, so the state space is the sum of
theirs and not the product. `Utilities` composes the components of `MCUtilities` that
there are theorems about: all of them but the lists of types.
Definitions called `X_Something`, with a one-line comment, are faulty variants of
`X`: for every property of a passing run there is one that makes the run fail.

`steal()` is the loop of `sweep` with a function that pushes to a `std::stack`,
so it is the sweep that is not ordered. A compare-exchange loop that only retries
until the word is what it read, with no other effect of a failure, is one step in
`CoroEvent` and `SequenceBarrier`; in `TreiberStack` and `RWXSpinlock` the retries
are steps, since there the stale value is the point. Atomic accesses are
interleaved in one order. `SequenceBarrier` uses seq_cst for the accesses it
depends on; `Stack::steel_head` reads nodes after a compare-exchange that is only
`release`, which the model takes for an acquire too.

## What is checked

Every run explores its whole state space.

| run | instance | shows |
|---|---|---|
| `rwx_spinlock` | 3 threads, `long` of -16..15, fair; 4 lockers, 2 locks | `FlagCounts`, `WriterShutsDoor`, `UpgradeCompletes`, and `ImplementsLock`: the spinlock refines `RWXLock`, so it excludes what must be excluded; `LockersAccounted` |
| `executor` | 2 clients, 2 actions, 1 managed, 2 deferred, 2 starts; stack: 2 pushers of 2 values, a sweeper and an ordered one, 3 addresses; CoroScope: 2 tasks, 2 joiners | `GlobalFifo`, `DrainedAtExit`, `DeferredRunFirst`, `TokenOutlivesLoop`; `OneOwner`, `ImplementsQueue`: the stack refines `HandoffQueue` in spite of reused addresses; `JoinCovers` |
| `schedulers` | each with one action of every kind it has, 2 starts (for Asio the second also on a stopped io_service), stop() from two threads for gRPC, fair | `BothOwnedOnce` (an action is armed, queued, running or deleted, and only one of these), `ReadyRun` (the drain of the gRPC scheduler finds what was queued), `EveryDispatchedRuns`, `EveryStopEnds` |
| `waiting` | Event: 1 waiter, 1 timed, 2 setters, 1 clearer; CoroEvent: 3 coroutines, 2 setters, 1 resetter, 3 sets; MPSCResultEvent: 2 results, 2 waits; barrier: 2 consumers, targets 1 or 2 ahead; fair | `OnlyUnheardSleep` (the one way to oversleep a set event), `WaitForReturns`; `BothLinkedOnce` (of `CoroEvent` and the barrier: a suspended coroutine is in one list, once, and one that runs in none), `SetWakes`; `ListenerHears`; `PublishedWakes` |
| `barrier` | 3 consumers, 1 producer, 2 numbers, the first of which wraps around | `ResultCoversTarget`, `NoneForgotten` |
| `rpc` | chain of 4 calls; client call: 2 coroutines that finish or release it, 3 messages; service: 3 payloads, 2 calls; fair | `FailedNeverResumed`, `ReportsOutcome`, `WrappedContains`; `OnlyMisuseBreaks`, `TruthfulStatus`, `ReleasedIsFinished`; `AlwaysListening`, `StopsClean`, `CallsAreAnswered` |
| `utilities` | 3 threads with 2 pointers, 2 objects; lists of up to 3 of 3 types; 2 books, 2 values, 4 operations; messages of up to 3 fields, one of them called as a keyword, with 2 oneofs; 7 builder calls, 2 saved builders | `CountsReferences`, `DeletedUnreferenced`; `ListsMeetReference`; `WireFaithful`, `ReadsKeepContents`; `GeneratedCodeAgrees`; `BuildersReachTheirMessage`. Before it starts, TLC evaluates the assumption that the code checked in for sample.proto is the code `CodeGenerator` describes (`SampleIsGenerated`) |

Five runs end in a counterexample, each against what the repository says:

* `event_wait`: `Event::wait()` can sleep for ever on an event that is set,
  because `set()` notifies without the mutex. The tests of the executor wait for
  events that are set once by another thread.
* `barrier_who`: a consumer that is suspended may be resumed by another consumer
  inside `add_awaiter()`, where the comment promises "inside the call to publish()".
* `scope_order`: the tasks of a `CoroScope` publish on their barrier out of order,
  where the barrier asks for numbers that increase. `JoinCovers` shows that
  `join()` survives it.
* `refcount_start`: a new object has the count 0, not the 1 of the comment.
* `list_comments`: a list of one type refutes four comments of type_list.hpp at
  once (`SomeCommentHolds` is their disjunction). `tl_filter_type` drops the type it
  should keep (:792), `tl_count_not` counts what does not satisfy the predicate
  where the comment says what does (:517), `tl_pad_left` does not shorten a list
  that is longer than `NewSize` (:903), and `tl_push_front` does not append (:579).
  `ListsMeetReference` leaves out what these four are wrong about.

### Assumptions about users and libraries

What the code counts on and does not enforce is a variable or a guard of the
model, named, and the properties are about behaviours up to there:

* `misuse` (`GrpcClientCall`): two operations of a call under way at once, or an
  end before the start. One tag remembers one coroutine, so this may resume the
  wrong one; `OnlyMisuseBreaks` says that nothing else does.
* `early` (`GrpcServerCalls`): a stop of the runtime before the first request was posted.
* `overtaken` (`AsioScheduler`): stop() before the new thread has made its token;
  it cancels nothing. `EveryStopEnds` excepts it.
* `stopped` (`AsioScheduler`): an earlier run ended with nothing outstanding, so that
  its `io_service::work` was the last work and the io_service stopped. Nobody
  restarts it: `EveryDispatchedRuns`, and what `EveryStopEnds` says of
  `run_until_done()`, except the runs after it. A `stop()` still ends such a run.
* `aborted`: gRPC ends the program when something is posted on a queue that is
  shut down. A periodic action that re-arms itself when `stop()` comes between its
  look at the token and the end of its callback is a use no user can avoid.
* A builder saved in a variable of which the chain it came from is gone is `loose`:
  its `done()` would read a dead temporary, and is not called.

The barrier's targets stay closer than half the range of the sequence type. At
exactly half, `add_awaiter()`, which compares `difference(target, known) > 0`, and
everything else, which compares `precedes(known, target)`, disagree. The proofs
that are about numbers suppose more: a single producer, which the comment of the
class asks for, and `Within`, that all numbers published and awaited lie within
half a word of each other. For a `size_t` that is more numbers than a program
publishes in its life; the first of them, `initial_sequence + 1`, wraps around.

### Bounds

Three threads are the fewest for a writer, a reader that stays and a newcomer,
and for a counted object one that drops it, one that copies it and one that
deletes another; the proofs cover all numbers. The minimum of the `long` is small
so that the value for "exclusive" is within reach of a faulty count. Four lockers
are a holder, the one moved over it, a reader of the same lock and a spare. The
stack has fewer addresses than pushes, so that they are reused while a
compare-exchange is pending. The executor needs two actions for an order, a second
start to see leftovers, and two deferred callbacks for one that defers another.
The schedulers have one action of each kind, which meet in the queue, and a second
start on what the first stop left. Three consumers of the barrier are one that
takes the list, one whose operation it resumes and one that it requeues; two
published numbers make the requeued one due. A chain of four coroutines has one
that fails, one that is passed, one that asked to hear of it and its caller; the
proofs cover all depths. Three payloads are one in a call, one that listens and
one that is refused. Three types give lists with all patterns of equal and
different elements at both ends and the middle. Three fields give a oneof with two
alternatives next to another field, two oneofs, and all pairs of types, one of
them with a name that must be escaped. Seven calls reach a builder of lines under
a page that was pushed after another, with a move in between. `MaxPush`,
`MaxStarts`, `MaxSets`, `MaxWaits`, `MaxPublished`, `MaxMessages`, `MaxCalls`,
`MaxOps` and `MaxSaved` are the only bounds on counters.

### Fairness

Only what a scheduler, the standard library and gRPC provide: a thread inside an
operation goes on; a compare-exchange that could succeed again and again does so
in the end (strong fairness); a timed wait times out; a mutex is granted to who
keeps asking; alarms and timers expire, and an io_service that is not stopped
runs what is ready; gRPC completes what it was given. No thread is obliged to begin an operation, and
no call to arrive. Three assumptions are about users: who holds the read lock
releases it (`UpgradeCompletes`), a managed callback returns once it sees its
token cancelled (`EveryStopEnds`, where `SeesCancelled` is the guard of its return; the
callbacks of the other schedulers return), and a unit of a service answers and
does not stream for ever (`CallsAreAnswered`). Wake-ups without a reason are
allowed and never relied on, except by the executor thread and by
`MPSCResultEvent`, whose waits have a timeout.

`CHECK_DEADLOCK FALSE` stands where the system may really stop: nobody sets an
event or publishes any more, the last start is over, a call has ended.

## What is proved

TLAPS checks every theorem, from the assumptions on the constants only.

**`RWXSpinlockProofs`**, for every finite set of threads and every range of the
`long` that can count them (`ThreadsAssumption`, `MinLongAssumption`): type
correctness, `FlagCounts`, `Exclusion`, `UpgradeAssert`, `WriterShutsDoor`, that
the spinlock implements `RWXLock`, and that the counter stays clear of the ends of
its range (`NoOverflow`), which a run with a small `long` could not show. The
inductive invariant is `TypeOK`, `FlagCounts`, `Exclusion`, `PendingFrom` (a
thread inside an upgrade is still in the mode it upgrades from) and
`UpgradeAssert`. `Exclusion` alone is not inductive: an operation decides by the
flag, so the flag must be known to count the holders; and `FlagCounts` can only be
read as "nobody else" when the holders are compatible. `FlagReading` states what a
flag tells about the holders, `HoldersMove` how their sets change; `AcquireStep`
and `UnlockStep` treat the steps that change anything. The value a
compare-exchange compares with may be arbitrarily old: the proof needs only that
it is the flag now.

The lockers (`LockersAccounted`, for any finite set of places and any locks) are
treated one lock at a time: `Good` says that its flag is the sum over the lockers
of each mode, an exclusive one is alone, and there is one writer at most. That a
locker is added, removed or replaced keeps it (`AddKeeps`, `RemoveKeeps`,
`RenameKeeps`), and each member function is made of these: a move assignment
releases and then replaces, an upgrade releases one mode and adds the other, a
locker moved to itself only releases.

**`UtilitiesProofs`** covers four components of the run `utilities`.

Reference counts, for any finite set of threads, any number of pointers each
and any set of objects: `CountsReferences` and `DeletedUnreferenced`. The invariant
adds `NewPrivate` (an object that no pointer has adopted is known to its maker
alone). `LastReference` is the heart: a thread in `deref()` that finds the count 1
holds the last reference, so that the two-step test is safe; `PointedStays` says that
what a pointer points to is not being deleted.

Messages, for any set of messages, any values and any number of operations:
`WireFaithful` and `ReadsKeepContents`, which rest on type correctness. For that one,
what a parser leaves behind is a message also when the bytes end in the middle of an
entry (`ParseKeepsType`). `WireFaithful` is no fact about states
but about all messages of the right type. Parsing bytes after bytes continues with
the message so far (`ParseOfConcat`), so the entries of a message can be parsed one
field at a time, and for each field they do what `MergeFrom` does to it
(`ScalarParsed`, `AuthorParsed`, `PagesParsed`, `FirstParsed`, `SecondParsed`):
parsing the bytes of `y` into `x` is `MergeFrom(x, y)` (`EntriesMerged`), and merged
into an empty message it is `y` (`MergedIntoEmpty`). `SizeOfEntries` adds up the bytes of the
fields. For the reads: a `mutable_` accessor makes only what reads as absent
(`MutableFields`).

Layered builders, for chains of any length and any number of saved builders:
`BuildersReachTheirMessage`. The invariant `LayeredIInv` adds that a builder points to
something that exists, where its path leads (`Reaches`), and that the builder it came
from, unless it is loose, is alive and the one before it in the chain (`AllChained`); a saved
builder must be chained to saved builders, which the end of a statement spares
(`SavedChained`). An author is made only where there was none and pages are only
appended, so that paths keep leading where they led (`ReachesKept`), and `move_from`
exchanges what is under two roots together with the paths that start there. The identity of a
new builder is fresh by counting (`NewIdIsNew`). Addresses are numbers, and the
assumption says that `nullptr` is none of them.

Generated code, for any names of fields and oneofs and messages of any number of
fields: `GeneratedCodeAgrees`. The assumption (`CodeAssumption`) is that names which
differ still do when they are escaped; where they do not, the code protoc itself
writes has one accessor twice. Each file comes from loops over some of the fields,
and a loop meets each of them once and in their order (`AmongFields`); the first
alternative stands for its oneof and no other field has that name, so the getters of
a message differ (`NamesOfMessage`), and so do those of a oneof (`NamesOfVariants`). For
one field, what is declared, what the specification returns or takes, and what
`as_dynamic()` makes of it fit (`ReadsFit`, `WritesFit`, `DynamicFits`), and its name
is in the accessors it is reached through (`AccessorsNamed`). From these, line by
line, the files of a message agree (`MessageIsAgreed`) and those of its oneofs, each of
which is wrapped by its message (`VariantIsAgreed`).

**`SingleThreadExecutorProofs`**, for any clients, callbacks and number of starts:
`GlobalFifo`, `DrainedAtExit`, `DeferredRunFirst`, `TokenOutlivesLoop`. The
invariant adds `InHand` (what the thread has in its hands where), `Life` (which
states of the thread go with which of its owner), `OwedHeld` (what was dispatched
before a stop is in a queue or batch until it has run) and `DueNext` (deferred
callbacks that are due come before the next dispatched one). Here too, for any tasks
and joiners, fewer than half of what a `size_t` counts (`ScopeAssumption`):
`JoinCovers` of `CoroScope`. Tasks publish out of order and together, so the theorems
about a single producer do not apply; instead `Drawn` says that the numbers drawn
are counted by the tasks that have ended, and `Below`, an invariant of the barrier
under any producers, that whatever it has resumed or will resume waited for a number
below all bounds of those published.

And `OneOwner` and `ImplementsQueue` of `TreiberStack`, for any producers,
consumers, finite heap and number of pushes. A chain of addresses is described in
the model by a walk of bounded length. The invariant `StackInv` names the lists
instead: there is a function `L` from who may hold nodes (`_head`, a push, the two
lists of a sweep) to sequences of nodes, which are disjoint, repeat nothing and
hold together the live nodes (`Held`), and `next` runs along each of them
(`OnLists`, with `Links` of `SequenceLemmas`). Each step changes at most two of the
lists (`HeldChange`, `HeldMove`). `ListedChain` says that the walk meets just what
the list holds, so that the queue of the refinement can be read off `L`
(`BarsAre`). That the address a push or a sweep compares with may have been freed
and reused does no harm, because whatever is under `_head` when the comparison
succeeds is that list: `PushSucceedsStep` and `StealSucceedsStep` do not ask when it
was read. A sweep that reverses keeps what it will deliver (`InOrder`, `ValuesTurn`).
The executor, whose stacks are queues in its model, rests on this theorem.

**`SchedulersProofs`**, for any actions, callbacks and number of starts:
`BothOwnedOnce` and `ReadyRun`. For the gRPC scheduler the invariant adds
`Partition` (the alarms, the queue, the action in hand and the deleted ones are
disjoint and the queue repeats nothing), `Stages` (the queue is shut before the
token is cancelled; the second loop has seen the token) and `Kept` (what was ready
never goes back to an alarm, and the second loop fails only on an empty queue). A
periodic action that re-arms after the shutdown aborts the program, which both
properties leave out. For the asio scheduler it adds the same partition of what is
ready, timed, running or done, and who may run the io_service when (`AsioStages`).

**`SequenceBarrierProofs`**, for any consumers, any even word and any number of
publications: `LinkedOnce` of the barrier, whoever publishes, since its lists are
taken whole and split (`Apart`: no list repeats an operation, no two share one;
`Locals`: which local list is used where). `NoneForgotten` and `ResultCoversTarget`
for one producer and numbers within half a word (see above). Their invariant
speaks of the lag of a number, by how much the last published one is past it,
which turns the modular comparisons into those of integers (`LagOfPlus`): the
target of who waits lies from the farthest ahead to what was published since
(`Numbers`), each local list is sorted by the number its thread last looked at
(`Sorted`), and whenever an operation in the barrier is due, a thread will take the
list (`Covered`): a producer that has published and not yet looked, or an
`add_awaiter()` whose own look will succeed. `Covered` holds when `add_awaiter()`
pushes back several operations because it looks again by the earliest target
of them.

**`WaitingProofs`**, for any threads and coroutines: `BothLinkedOnce` and
`OnlyUnheardSleep`. For `CoroEvent` the invariant says of the lists themselves what
`LinkedOnce` says of a coroutine; for the barrier the theorem is that of
`SequenceBarrierProofs`, through an instance of it. For `Event` it says of
who is about to sleep what the property says of sleepers.

**`CallsProofs`** proves all invariants of the run `rpc`, and `WrappedContains`.

* Chains of calls of any depth: `FailedNeverResumed`, `ReportsOutcome`,
  `WrappedContains`. The invariant adds `Linked` (continuations lead to the frame
  below), `Active` (the frames at and below `cur` are suspended in a call, those
  above have ended or yielded) and `AllReport`. An error climbs from frame to frame;
  `Climb` shows where it ends, by the least frame from which all above pass it on
  (well-foundedness of `<`).
* A client call with any coroutines that end it, for as long as `misuse` is empty:
  `OnlyMisuseBreaks`, `TruthfulStatus`. One coroutine is under way (`Serial`), gRPC
  has its operation and no other (`OneOperation`), what is asked of gRPC goes with
  the kind of call and where the coroutine stands (`Requests`), and the status that
  is kept is that of the call unless the operation that will tell it is in flight
  (`Statuses`).
* A service with any payloads: `AlwaysListening`, `StopsClean`. The calls taken are
  those answered and those in progress (`Counted`), a payload has one event at most
  and of the sort it waits for (`EventsFit`), one of them listens for as long as the
  queue is open (`Listener`), and once it is shut only ends are left to come (`Quiet`).

Where a property belongs to one of several components of a run, its theorem is
about the specification of the run, `MCSpec`; in the run `utilities` about that of
`Utilities` (`PartsSpec`), the part of the run without recursive operators, of which
`MCSpec` only adds steps that leave it as it is.

Only model-checked: liveness under fairness, which is out of the prover's reach;
`ListsMeetReference`, which is about recursive operators; and `MPSCResultEvent`, whose one
property is liveness. `SampleCode` is one assumption that TLC evaluates. Facts about all
lengths of a list that the proofs need, of `Among`, of `Total`, of the rounds of a parser and of walks along a chain, are shown by
well-foundedness of `<` on the numbers, as a set of counterexamples without a least
element (`SetInduction`).

## Other observations

Facts about the code met on the way, for which no document says otherwise:

* `MPSCResultEvent::set_if_empty()` calls `Stack::push_if_empty()`, which does not
  exist; a second waiting thread would call `try_lock()` on a `unique_lock` that
  the first has locked, and throw. `Task::is_ready()` is never instantiated.
* An executor thread that has idled waits a number of nanoseconds taken for milliseconds
  (baton.hpp:87).
* An Asio scheduler runs once. When a run ends with no handler or timer outstanding,
  the destruction of its `io_service::work` (scheduler.cpp:125, 156) stops the
  io_service, and `restart()` is never called: after a second `start()` nothing that
  is dispatched runs, and a second `run_until_done()` spins for ever, since its task
  never starts. The properties except these runs; without `~stopped` in them TLC
  finds both.
* `start()` of `AsioThreadScheduler` followed at once by `stop()`, or by destruction,
  may find no token; the thread then runs on and `wait()` joins it for ever.
* Type lists: "(First, Last]" of `tl_slice` is right only for positions that count from 1,
  and a slice past the end is filled with `unit_t`; the comments of `tl_index_of` and
  `tl_find` (type_list.hpp:317, 385, 401) stand over the wrong templates, and neither takes a
  position to begin at.
* Reading `author()` of a `Ref` creates the author, so the bytes of the message
  change although no reader can tell (`ReadsKeepContents`). `second_oneof_message()`
  of a const `Ref` destroys another alternative that is set. `as_dynamic()` of
  messages that contain each other does not end.
* Compiler: the list of keywords that are escaped has only `delete`; names in camel
  case get getters that differ from protobuf's accessors; a field called as a
  member of every class (`serialize`, `as_builder`, `done`, `move_from`) collides;
  `as_dynamic()` keys a oneof by the name of its first alternative; the setter of
  an enum in a oneof does not compile (utility.cpp:1035); the slot `is_null` of the
  builder of a oneof is neither filled nor called; maps are skipped.
* The sample is older than the generator where `SampleCode` does not look:
  sample.yaz.rpc.h lacks the member `meta` of the context and the `UnitTag`, and
  sample.yaz.grpc.h the test of `can_proceed` that cpp_yaz_grpc_gen_h.chai writes.

## What is not modelled

* Executor providers (a round-robin over a fixed pool), `CoroDefer` (one callback
  on destruction), `TSMap` (every operation under one mutex, and unused), concepts
  and traits (compile time, no state), logging, build rules.
* Of modelled parts: the return value of `Stack::push` (undefined behaviour,
  unused), back-off times, memory orders weaker than sequential consistency,
  exceptions thrown by callbacks (they terminate the program: the sweeps are
  `noexcept`), `start`, `stop` and `wait` of an executor by several threads at once
  (stop() of the gRPC scheduler excepted), `run_work` of the gRPC scheduler,
  several workers of a runtime (they share nothing), the metadata and contents of
  gRPC messages, conversions between error types.
* Of the type lists: `tl_group_by` and `tl_replicate`, which cannot be
  instantiated as meant (one passes `tl_head` itself to its predicate, the other
  swaps the arguments of `tl_cons`), and the adapters `tl_apply`, `tl_reduce`,
  `tl_from`.
* Of the compiler: the layout of the text, file names and includes, the
  declarations in sample.yaz.pb.h. Of the generated messages: the map of
  `BookStore`, unknown fields, arenas, and, in the chains of builders, the setters
  of scalars (which return the builder itself) and the `done()` of the root.

What would come next: a refinement of one abstract executor by the three
schedulers; several producers of a barrier.
