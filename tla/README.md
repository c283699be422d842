# A TLA+ development of travis-test (the cppkg libraries)

The repository is a set of small C++ libraries. Three of them carry logic of
their own that is hard to test: `jobs` (threads), `egrpc` (asynchronous RPC
handlers driven by a completion queue) and `diff` (Myers' algorithm and batched
messages on top of it); the others (`estd`, `fmts`, `logs`, `flag`) are containers,
strings and the ways errors are told. This directory models them in TLA+, checks
the models with TLC and proves their safety results with TLAPS: about `jobs`, each of the
`egrpc` handlers, client and server together, the libraries and the messages of `diff`;
only the algorithm of `myers_diff` itself is checked and not proved. Paths below are
relative to the repository's root; `PROJECT.json` maps each definition to its lines.

## 1. Inventory

| Component | State it keeps | Operations | Modules | Status |
|---|---|---|---|---|
| `jobs::Sequence` | queue of tasks, mutex, condition, stop promise, `stopped_`, last future, a `ManagedJob` | construct, `attach_job`, `join`, `is_running`, `stop`, destroy; master and task thread | `SerialJobs`, `JobSequence`, `JobSequenceProofs` | modelled, proved |
| `jobs::ManagedJob` | promise, shared future, thread | two constructors, move, assign, `stop`, `join`, destroy; the thread's loop | `ManagedThreads`, `ManagedJob`, `ManagedJobProofs` | modelled, proved |
| `jobs::ScopeGuard` | a function | construct, move, assign, destroy | `ScopeGuard`, `LibraryProofs` | modelled, proved |
| `egrpc` unary client | handler per attempt, promise of the call, retries | construct, `handle`, delete, `wait_for` | `CompletionQueue`, `RemoteCalls`, `AsyncClient`, `AsyncClientProofs` | modelled, proved |
| `egrpc` streaming client | handler with `call_status_` | construct, `handle` in three states | `CompletionQueue`, `RemoteCalls`, `AsyncClientStream`, `AsyncClientStreamProofs` | modelled, proved |
| `egrpc` unary server | handler with `done_` | construct, `serve`, `shutdown` | `CompletionQueue`, `AsyncServerCall`, `EndToEndProofs` | modelled, proved |
| `egrpc` streaming server | handler with `status_`, range, iterator | construct, `serve` in three states, `shutdown` | `CompletionQueue`, `AsyncServerStreamCall`, `AsyncServerStreamCallProofs` | modelled, proved |
| `egrpc` client and server together | what each attempt's request met with | a network that delays requests and loses answers | `AtLeastOnce`, `EndToEnd`, `EndToEndProofs` | modelled, proved |
| `egrpc::GrpcClient` | configuration | sets deadlines | `EndToEnd` (`Unanswered`) | partly: durations left out |
| `diff::myers_diff` | cost tables | trace, backtrace, list of edits | `EditScripts`, `MyersDiff` | modelled |
| `diff` messages | none between calls | `diff_lines`, `safe_diff_msg`, `to_string` | `EditScripts`, `DiffMessage`, `LibraryProofs` | modelled, proved, layout left out |
| `estd::HashList` | list and map of iterators into it | push, pop, insert, erase, clear, copy, move | `OrderedSets`, `HashList`, `LibraryProofs` | modelled, proved |
| `estd::ConfigMap` | entries shared by copies | add, remove, copy, move, destroy; loose entries | `ConfigMap`, `LibraryProofs` | modelled, proved |
| `logs` | global logger, level | log, set level, set logger | `Logging`, `LibraryProofs` | modelled, proved, texts left out |
| `flag` | option descriptions, variables of the caller | `parse` | `FlagSet`, `LibraryProofs` | partly, proved: declared options abstracted |
| `fmts` | none | `split`, `String`, `join`, `strip`, `trim` | `Texts`, `LibraryProofs` | partly, proved: formatting of single values left out |
| other `estd` | none | `must_getf`, casts; `has_prefix`, `has_affix`; lookups | `Logging`, `Texts`, `LibraryProofs` | partly, proved |
| `types`, `error` | none | aliases; an immutable message | - | not modelled |
| `exam`, scripts, build files | - | test support, packaging | - | not modelled |

How the parts meet. `Sequence` owns a `ManagedJob` whose thread (the master)
calls one lambda over and over; the lambda waits in a condition variable, takes
one task, runs it in a thread of its own and joins that. `ManagedJob` asks a
thread to stop through a promise; each thread has its own copy of the future.
The `egrpc` handlers know nothing of each other: each starts one operation with
its own address as tag, and whichever polling thread takes the completion calls
back into it. A client's attempt is a request to a server's handler, over grpc.
`diff_lines` feeds `safe_diff_msg`, which calls `myers_diff` on
batches. `estd`'s lookups and casts and `Sequence` report what must not happen to
`logs::fatal` and rely on it to throw (`FatalStops` says when it does; it is the
constant `FatalThrows` of `JobSequence`); `flag` reports through the same logger.

What is hard here: the lock hand-over and the two stop signals of `Sequence`;
handlers that delete or replace themselves while other threads poll; the hand-over
of a promise between retries; retries that race with late answers; iterators and
objects that outlive what they came from; 16-bit indices in the diff. `PROJECT.json` lists
the hazards at their lines, with the properties aimed at each.

What makes each component correct:

* `Sequence`: jobs run one at a time in attach order; an attached job's wakeup
  is not lost; `stop()` ends everything within one more call of a job; `join()`
  waits for everything; destruction leaves no thread, no job and no unready future.
* `ManagedJob`: a running thread always has exactly one owner that can stop and
  join it; it ends when, and only when, it was asked.
* `ScopeGuard`: a function is called once, wherever it was moved.
* clients: the promise of a call is set once, last, and with the truth.
* servers: one handler listens; each call is answered once; a handler is used by
  one thread at a time, and never after it was deleted; all are freed in the end.
* client and server: each call is carried out at least once if it succeeds, its
  callback runs at most once, and each side is freed whatever the other does, unless
  that callback throws.
* containers: list and map stay in step; an object lives as long as its entry.
* logs and flags: a fatal message never returns under the default logger; `parse`
  never claims success where help was asked for, and says why it fails.
* diff: the result is a shortest edit list; batches add up to the whole.

## 2. Modules

Abstract specifications:

* `SerialJobs`: a queue of jobs and at most one active job (for `Sequence`).
* `ManagedThreads`: threads that start, make rounds, are asked, and end (for `ManagedJob`).
* `AtLeastOnce`: what a call through client and server amounts to (for `EndToEnd`).
* `OrderedSets`: sequences without repetition (for `HashList`).
* `RemoteCalls`: answers, then one result, per call (for both clients).
* `EditScripts`: what a minimal edit list is, by recursive functions over the pairs of
  prefixes of the two arrays; the reference for `MyersDiff` and all that `DiffMessage`
  assumes of it.

`CompletionQueue` is grpc's queue as the code uses it: operations are started,
complete in any order with either flag, and are taken once by some thread. It is
external to the sources, as are the steps of the modules that stand for the grpc
server and the network.

Each `MC...` module extends a specification and names the model values. `MCLibrary`
puts the six specifications without threads side by side, of which one moves in each
behaviour; `MCDiffMessage` has that of messages alone, with its fairness.

### JobSequence (jobs/sequence.hpp)

A step is what happens between two points where another thread can interfere. A
critical section that cannot block is one step. The one that can block is the
master's: its predicate waits up to 1 ms for the exit future with the mutex held
(`mpc = "pred"`), so everyone else who needs the mutex is held up
(`QueueLocked`), and `MasterProceed` / `MasterWait` are separate steps. Notes:

* `pc` is per client thread, `mpc` is shared by the master and the task thread,
  because the master is blocked in `thd.join()` while a task thread exists.
* The constructor starts the master and only then move-assigns `master_`. The
  lambda reads `seq->master_`, so its first predicate may be looking at the state
  of the default-constructed object: `saw = "stale"`, with either answer once
  that state was broken or freed (`ExitReady`, `ExitTimedOut`).
* `attach_job` assigns `last_future_`, then takes the lock, then notifies outside
  of it: three actions. `stop()` is one action. The destructor is four.
* A condition variable may wake without being notified: `SpuriousWake`.
* `late` is a history counter, capped at `LateBound = 2`, one above what
  `StopIsPrompt` allows.

Excluded, because the class does not support them: calls before the constructor
has returned or after the destructor has begun to return, and `attach_job` while
the owner is in `join()` (it assigns the future that is waited on).

### ManagedJob (jobs/managed_job.hpp)

Each construction makes a shared state; promise, future and thread of each handle
point to states, so a move is a move of pointers. A promise destroyed or
overwritten unset makes its state ready (`broken_promise`). Calls that throw are
modelled by what they leave behind: `stop()` a second time (nothing), assignment
onto a stopped handle (not enabled: nothing changes), the move constructor (always
throws, since it asks for a future that was taken; with a joinable thread that
terminates the process) and the destructor (noexcept, so a second `set_value`
terminates the process). `fate` records a termination.

### ScopeGuard (jobs/scope_guard.hpp)

The function may throw: in the destructor that terminates the process, in the
assignment it leaves both guards as they were, so it may be called again later.

### AsyncClient, AsyncClientStream (egrpc/client_async*.hpp, iclient_async)

Handlers of `AsyncClient` are `<<call, attempt>>`. `holds` is the set of attempts
whose `complete_promise_` is not null: two for a while during a hand-over, since
the next attempt is constructed (and may be handled and deleted by another
thread) before this one lets go. A callback may throw (`CallbackThrows`): the
exception passes `delete this`, so the handler is lost with the promise and `wait_for`
hangs there and nowhere else. `wait_for` is modelled over the whole list, front to back.
`AsyncClientStream` has one handler per stream. The start of an operation is a
step of its own (`Start`), after the state of the handler was changed, so other
threads can take the completion before `handle()` returns.

### AsyncServerCall, AsyncServerStreamCall (egrpc/server_async*.hpp)

Handlers are numbered as they are constructed. Polling threads dispatch as the
repository's tests do: `serve()` if the flag is true, `shutdown()` otherwise.
Construction of the replacement, marking, and the start of the answer are
separate steps, and so is the end of the constructor, which logs after it has handed
the object to the queue (`builds`, `Created`): meanwhile another thread may serve the
new handler, and finish it, before its constructor has returned. In the streaming server a stream may be cut short, by a failed
write or by the program calling `shutdown()` between two writes; `cut` is a
history variable of those. `shutdown()` then starts a finish and deletes the
handler at once, and the tag comes back for a handler that is gone: what the
program does then is undefined, and such a tag is not dispatched in the model.

### EndToEnd (egrpc client and server)

`EndToEnd` extends `AsyncServerCall` and instantiates `AsyncClient`. It replaces what
each assumes of the other: a request of an attempt arrives late or never, the
answer of the handler that got it reaches the attempt only if that still waits, and
an attempt without an answer ends with an error when its deadline passes.
`carries` relates a server's handler to the attempt it serves.

### HashList (estd/hashlist.hpp)

Nodes have addresses that are used again; the allocator (`Free`) may choose any that is
free. The map has nodes in it, so stale
iterators exist in the model as they do in memory. The class does not define copying,
and the implicit copy keeps the iterators of the original; `erase` keeps using its
argument after the node it may refer to is gone. `tainted` has the objects to which
one of the two has happened, and both properties say that all others are sound.
An erase through a node of another list ends the behaviour (`fate`).

### ConfigMap (estd/config.hpp)

Entries and their objects are one value. `adding` is the stack of the `add_entry` calls
that are inside the program's `init`; everything else may happen meanwhile. What
no map holds any more is deleted, which is what the shared pointers do. Entries
outside of maps show the move operations of `ConfigEntry`: assignment forgets the object
that was there.

### Logging, FlagSet (logs/, flag/, estd/contain.hpp, estd/cast.hpp)

`Logging` has the level of the default logger and what became of the last message; a
logger of the program's own may throw or not, whatever the level. `FlagSet` extends it
with `parse()`: store, look for help, notify, each of which may end the call. How often
a set has the option `help` and which variables have it from earlier are its state.

### Texts (fmts/, estd/src/strs.cpp)

One call in each behaviour. `split` and the escape of `fmts::String` work on a text
that changes in the loop and are steps; `strip` and the comparisons are operators.

### MyersDiff, DiffMessage (diff/)

`MyersDiff` has a step per round of the outer loops; `IndexT(i)` wraps to `Width`
bits where the code assigns to an `IndexT`. All inputs up to a bound are initial
states. `DiffMessage` takes any shortest edit list for each batch, which is more
than `myers_diff` returns, and computes which lines a message shows, with what
numbers; how a line is laid out is left out.

## 3. Runs

| Run | Instance | Shows |
|---|---|---|
| `seq_race` | 3 jobs, owner and helper attach, a killer stops | `NoLostWakeup`, `StopIsPrompt`, `DestructorAdmitsNoJob`, `QuietAfterDestruction`, refinement of `SerialJobs`; `StopSettlesAll`, `DestructorHangsOnlyAsleep` under fairness |
| `seq_owner` | 3 jobs, the owner attaches, a killer stops | `JoinWaitsForAll`; `JoinReturns` if jobs end |
| `seq_destructor` | 2 jobs, one attacher | violated: `DestructorReturns` |
| `job_handles` | 2 handles, 3 states, 2 callers | `RunningThreadHasOneOwner`, `RunningThreadIsNotDropped`, refinement of `ManagedThreads`, `AskedThreadEnds` |
| `library` | 3 guards, 3 functions; 2 lists of 2 values, 4 nodes; 2 maps, 2 keys, 3 objects, 2 loose entries; texts up to 4 over 3 characters, arguments up to 2; 2 flag sets, 2 variable maps, all levels; texts up to 3 lines, 4 kinds of line, all flags, batches of 1 and 2 | `UncalledIsHeld`, `CalledOnce`; `InStep`, refinement of `OrderedSets`; `ObjectsFollowEntries`; `ResultsAreExact`; `FatalStops`, `ParseTellsWhy`; `BatchesAddUp`, `MessageIsTrue`, `EmptyMessageMeansSame` |
| `client_calls` | 2 calls, 2 retries, 2 pollers, 1 waiter | the promise's hand-over (`PromiseIsInGoodHands`, `SetPromiseIsFinal`), refinement of `RemoteCalls`, `WaitReturns` |
| `client_streams` | 2 streams of up to 2 answers, 2 pollers | `HandlerHasOneHolder`, `AnswersComeBeforePromise`, `CallEnds` |
| `end_to_end` | 1 call, 1 retry, 2 server pollers, 1 client poller, 2 server handlers, shutdown | `HandlersAreInPlace`, `AnsweredOnce`, refinement of `AtLeastOnce`, `AllIsFreed` |
| `server_streams` | 2 streams of up to 2 items, cut short or not, shutdown, 2 pollers | `HandlersAreInPlace`, `ItemsInOrder`, `CallFinished` |
| `myers_small` | arrays up to 5 over 2 values, 5-bit indices | `DiffIsShortest` |
| `myers_wide` | arrays up to 3, 4-bit indices | violated: `EmptyDiffMeansSame` |
| `messages` | the messages of `library`, under fairness | `Terminates` |

Why the bounds are enough to be of interest. Two threads in one handler, or two
handlers of one call, need two pollers; a third would only repeat. With three jobs
one can run, one wait and one be attached, or one each be done, running and
cancelled. Three shared states let two handles be constructed, moved onto each other and constructed again. Two
retries have a middle attempt that is neither first nor last. In `end_to_end` one retry
is enough for an attempt to be repeated while the first is still served; `client_calls`
has the longer chains. In `library` the parts share no state, so each behaviour has one
of them and the run is the sum of six instances: four nodes let both lists be full
and freed nodes be used again, a depth of two nests `add_entry` in itself, three objects let
one be refused and one replaced, and two parses of a set make `help` ambiguous, and three lines with batches of two cut inside and at the end of a
text. With two items a
stream has a first, a middle and a last completion. In `myers_small`, 5-bit
indices hold a row size up to 15, so sums of lengths up to 7 fit and 8 to 10 do
not: both sides of the limit are in the run. Sums that do not fit `IndexT` themselves make
the constructor of the table throw (`phase = "threw"`); no run has such lengths.

Each module states a type invariant, `AsyncClientStream` and `AsyncServerStreamCall` in the
modules of their proofs. All but that of `MyersDiff` are
proved, that of `DiffMessage` as part of `MessageInv`.
The runs spend their properties on what could really be wrong.

Deadlock is not checked: clients may stop calling, and every program here may
come to rest.

Every property has a mutant in `PROJECT.json`: a definition of the code changed
by a plausible bug (`Mut...`), under which TLC finds the property violated.

### Fairness

`FairSpec` is always `Spec` with these assumptions and no others:

* threads that can go on do (weak fairness per thread or call under way);
  nobody has to make a call, attach, stop, or destroy;
* a thread that waits for `queue_mutex_` gets it if it is released again and again
  (strong fairness of `AttachPush` and `DestroyStop`): the master takes and
  releases it in every round;
* wakeups without notification need not happen, nor clients arrive;
* grpc completes what was started: client calls carry a deadline
  (egrpc/iclient.hpp:43-50), and a server's write or finish completes when
  it was sent or the client is gone. A request need not come. `EndToEnd` assumes of the
  network only that deadlines pass: neither requests nor answers need to get through;
* a job's call returns. Whether it ever returns true is not assumed, except in
  `JoinReturns`, which has it as a premise (`JobsEnd`).

## 4. Proofs

`JobSequenceProofs` proves for any sets of jobs, attachers and stoppers, and for
either kind of logger:

* `Invariance`: `Spec => []IInv`, with the lemmas `TypeStep`, `AttachingStep`,
  `QueueStep`, `RunningStep`, `LateStep`, `DestructionStep`, `NoLostWakeupStep`,
  one case per action each;
* `TypeCorrect`, `AttachWakesMaster` (`NoLostWakeup`), `StopEndsCalls`
  (`StopIsPrompt`), `DestructionIsQuiet` (`QuietAfterDestruction`), and
  `DestructorEmptiesQueue` (`DestructorAdmitsNoJob`, if `fatal` throws);
* `Refinement`: `Spec` implements `SerialJobs`.

Why the invariant has its parts: `QuietAfterDestruction` needs that no job is in
flight when the destructor ends, hence where each `st[j]` comes from:
"attaching" jobs belong to a client inside `attach_job` (`AttachingInv`), "queued"
ones are exactly the entries of `tasks` (`QueueInv`), "running" is `cur` while
the task thread lives (`RunningInv`). `StopIsPrompt` needs that a job not yet
begun was never called late, and that none was before the signal (`LateInv`).
`DestructorAdmitsNoJob` needs `stopped_` set from the destructor's first step on
(`DestructionInv`).
The refinement maps `tasks`, the job of the task thread, and the jobs done and
dropped; `AttachingIsUnknown` shows that a job being attached is new to `SerialJobs`.

`JoinIsComplete` (`JoinWaitsForAll`) has the owner as the only attacher as its hypothesis,
as `seq_owner` has, and a strengthening of its own, `JoinInv`: until somebody stops the
sequence, the job attached last is the last of `tasks`, or the one that runs if `tasks` is
empty, unless it is still inside `attach_job`.

`ManagedJobProofs`, for any handles, callers and number of constructions:
`OneOwner` (`RunningThreadHasOneOwner`), `NotDropped` (`RunningThreadIsNotDropped`, an
action property) and `Refinement` (`ManagedThreads`). A construction makes a promise, a
future and a thread that the property wants in one handle, so the invariant says that a
handle has the thread only with the promise and the promise only with the future
(`MembersAgree`), and that no two handles share a future (`OwnersApart`). That a handle has
the state at all while the thread runs is `StatesProgress`: what a handle lets go without
moving it has ended or was made ready in the same step. `Readied` abstracts from all the ways
in which a state becomes ready, and is all the refinement needs to know of them.

`CompletionQueueProofs` says once, for all four handlers, what starting, completing, taking
and failing an operation do to the outstanding ones. The condition is `QueueOK`: nobody starts
an operation that is still outstanding. Each handler's proof has to show that of itself.

`AsyncClientProofs`, for any calls, retries, threads and order of waiting:
`PromiseStaysInGoodHands`, `SetPromiseStaysFinal` and `Refinement` (`RemoteCalls`).
The attempts of a call are made in order (`MadeInOrder`), only the newest one is
outstanding or in `handle()` (`NewestIsOutstanding`, `ThreadsProgress`), and it has the promise
until it sets it, alone except for the attempt that is just handing over (`NewestHolds`).
Then setting the promise twice would take an attempt newer than the newest.

`AsyncClientStreamProofs`, for any calls, answers and threads: `OneHolder`
(`HandlerHasOneHolder`) and `AnswersFirst` (`AnswersComeBeforePromise`). `call_status_`
names the only operation that a living handler can have under way (`OpOf`, `PlacesApart`), and
each living one has it outstanding or has a thread (`NoneIsForgotten`). `AnswersAddUp` counts
the one answer that was read and did not reach the handler function yet (`OnItsWay`), in the
queue or at a thread; it is gone when the status becomes `FINISH`. `Refinement` shows from
this that a stream, too, is a call of `RemoteCalls` to its caller; no run checks that again.

`EndToEndProofs` has two parts. The first is about the unary server by itself, with
clients that may do anything, for any number of calls and any threads: `AnsweredOnceHolds`
(`AnsweredOnce`) and `HandlersStayInPlace` (`HandlersAreInPlace`). A handler is in one place
(`PlacesApart`, `AliveInPlaces`), each place goes with a stage of its call
(`HandlersProgress`, `EventsProgress`, `ThreadsProgress`), and `ListenerIsNewest`: only the
handler that was constructed last listens. Without the last, the number of a replacement
might be in use, and the request it starts might be outstanding.

The second is about client and server together, for any calls, retries and threads. Each
step is one of the server, of the client or of both. `SidesInvariance`: each side keeps the
invariant it has alone, the client's from `AsyncClientProofs`, since what the network does is
something that each allowed its other side to do; hence `ServerStaysInOrder`, the two
properties under the specification that the run checks. `WireInv` ties the sides: an attempt
reaches one handler, a handler says once how its call went, and a callback that is about to
run, or a success that waits in the queue, is of a call that some handler said `ok` to.
`FewCarryOut` counts: the handlers that carry a call out are no more than its attempts. From
these follows `CallsAreMadeAtLeastOnce` (`ImplementsAtLeastOnce`).

`AsyncServerStreamCallProofs`, for any number of calls, items and threads:
`HandlersStayInPlace` (`HandlersAreInPlace`) and `ItemsStayInOrder` (`ItemsInOrder`). The
places are told as for the streaming client. Streams that are cut short make the difference:
a deleted handler may still have tags of its own under way, so `PlacesApart` says that they
are of handlers in `cut` and not requests, and `FailuresAreCuts` and `DeadAreAnswered`
follow a completion that is not ok from the queue through the thread to the deletion, which is
what `HandlerHasOneHolder` says of a handler that is still in its constructor. `ItemsInOrder` rests
on `ItemsProgress`: what was written, in order, is what of the range `it_` has passed. Its
lemmas are `NaturalMin` (a set of naturals has a least one, by well-founded induction) and
`AppendInOrder`.

`LibraryProofs` is about the parts that have no threads. `LibrarySpec` puts the six of them side
by side, as the run `library` does, and the theorems are about that specification for any
sets of objects (those of scope guards about the `Spec` they move by in it). Each part has an
invariant of its own, and `LibraryInvariance` says that they hold together:

* scope guards: `NoFunctionIsLost` (`UncalledIsHeld`) and `NoFunctionRunsTwice`
  (`CalledOnce`), from `HoldersInv`: no two guards have the same function, and none has one
  that has run without throwing;
* logs and flags: `FatalAlwaysStops` (`FatalStops`) and `ParseAlwaysTellsWhy`
  (`ParseTellsWhy`). `FlagInv` says that the level is never one below which a fatal message
  would not be seen, and that a call of `parse()` stays the last call while it runs;
* configuration maps: `ObjectsAlwaysFollowEntries` (`ObjectsFollowEntries`). It is inductive
  together with `MapInv`: what a loose entry holds is in no map and no other loose entry, so
  an entry that is destroyed deletes nothing that somebody else has;
* hash lists: `ListsStayInStep` (`InStep`) and `ListsImplementOrderedSets` (`OrderedSets`).
  `ListInv`: a node is in one place of one list, and the map of a list without taint
  leads to exactly its nodes;
* texts: `TextsAreExact` (`ResultsAreExact`), for any texts and arguments. In the middle of
  `split`, the parts so far and the rest of the text make up the text again (`SplitIsExact`
  itself); in the middle of the escape, the text is the escape of its start and then its rest
  (`EscapeInv`);
* messages of differences: `BatchesAlwaysAddUp` (`BatchesAddUp`), `MessagesAreTrue`
  (`MessageIsTrue`) and `EmptyMessagesMeanSame` (`EmptyMessageMeansSame`), for any texts, flags,
  numbers of context lines and batch limits above 0.

For messages, `MessageInv` says that the edits so far and the rest make up
both texts, and that for equal texts the rests stay equal and no edit changes anything. It
needs two facts of `EditScripts`: every list in `Scripts` turns the one array into the
other, and a shortest one between equal arrays has no additions and deletions, because the
longest common subsequence of an array and itself is the array (`LcsOfSame`). Since a
batch may end at any common line, the invariant is stated of sequences and their
concatenation, not of batches. The other direction of `EmptyMessagesMeanSame` is that lines
are shown around every edit that is not `EQ`, and that what `process_lines` leaves of a text
(`ProcessLines`) and what of it counts (`Considerable`) tell the same texts apart.

What is said of data of any length needs induction. The theorem on induction takes a
predicate as parameter, which the provers cannot instantiate. These proofs take a set
instead: the numbers for which the claim fails have a least one (`LeastOf`, from
`WellFoundedInduction`), or the set of those for which it holds is closed under successor
(`EveryNumber`). A recursively defined function is first shown to exist, since TLA+
defines it by choice, and then to satisfy its equation; the folds of the community modules
(`FlattenSeq`) are treated in the same way.

All these inductive invariants were model-checked on the instances of the runs, or smaller
ones, before they were proved. In the modules about handlers one lemma per action says what
the action does to the places (`...Effect`), and one lemma per conjunct of `IInv` shows that
every action keeps it (`...Step`).

The assumptions are the named `ASSUME`s of the modules: `None` is none of the values it
is used beside (`NoneIsNoJob`, `NoneIsNothing`, `NoneIsNoOp`, `NoneIsNoObject`,
`NoneIsNoValue`, the last part of `ClientParameters`; in both servers `NoneIsNoHandler`: a
thread that is in no constructor is not taken for one that is), bounds and numbers of lines
are natural numbers, batch limits are above 0 (`LimitsArePositive`), the waiting thread has a
list of calls, and `FatalThrows` is a Boolean. `JoinIsComplete` has the hypothesis named above.
`MessageParameters` repeats for `MCLibrary`, which only instantiates `DiffMessage`, what is
assumed there.

Only model-checked:

* everything under fairness, since TLAPS does not do liveness with ENABLED:
  `StopSettlesAll`, `JoinReturns`, `DestructorHangsOnlyAsleep`, `AskedThreadEnds`,
  `WaitReturns`, `CallEnds`, `AllIsFreed`, `CallFinished`, `Terminates`;
* `DiffIsShortest`: that the trace of `MyersDiff` finds the furthest points on each diagonal
  is a theorem about paths in the grid of the two arrays that goes beyond invariants of a
  step, and the wrapping of `IndexT` is in every term of it. `DiffMessage` does not rest on the
  algorithm, only on what `EditScripts` promises in its place.

## 5. Where the code and its words differ

Shown by a run:

* `seq_destructor`. `~Sequence` notifies the master inside `stop()` and sets the
  exit signal afterwards, without the lock and without another notification
  (sequence.hpp:63-64). A master that evaluates its predicate in between goes
  to sleep, and `master_.join()` never returns. `DestructorHangsOnlyAsleep` shows
  that this is the only way it hangs.
* `myers_wide`. `myers_diff_backtrace` keeps its row size `2 * (x + y) + 1` in an
  `IndexT` (myers_diff.hpp:144). From 16384 lines in sum on, it finds no rows
  and the diff is empty, which diff/msg.hpp:29 says means equal. With the narrow
  index of the run the limit is at small lengths.

Seen while modelling, and described by the models' guards and outcomes:

* `Sequence::join()` says "Join all jobs to complete" (sequence.hpp:110); it waits
  for the job attached last, whose promise `stop()` may break while an earlier job runs.
  `JoinWaitsForAll` has "no stop" as a premise for this reason.
* "don't allow enqueueing after stopping the pool" (sequence.hpp:93) is about
  `stopped_`, which only the destructor sets; after `stop()` jobs are still taken,
  and each is called once.
* `Sequence::is_running()` and `ManagedJob::is_running()` are true for what
  has ended and was not replaced or joined (sequence.hpp:103, managed_job.hpp:86).
* "since job is never detached" (managed_job.hpp:90): move assignment detaches.
* `stop()` followed by the destructor sets the promise twice in a noexcept
  function and terminates the process (managed_job.hpp:48): `fate = "destructor"`.
* `AsyncServerStreamCall::shutdown()` of a streaming handler deletes it with an
  operation outstanding (server_async_stream.hpp:116), which is why
  `HandlerHasOneHolder` leaves out the streams in `cut`.
* flag/flag.hpp:29 says that `--help` is answered with a help message; from the second
  `parse()` of one set on it is an ambiguous option, and an error (flag.cpp:53). And
  variables that once had `help` make every later `parse()` into them fail.
* `supports_level` accepts names in any case (logs.hpp:104-111), but a message logged
  with such a name counts as `trace` (logs.hpp:117-122): even `"FATAL"` does not throw.
  The level `throw_err` does not throw either; its messages are plain lines.
* `has_prefix` holds for a string that is shorter than the prefix (strs.cpp:12-13).
* `split` with an empty delimiter does not end (fmts.cpp:82).
* A copied `HashList` has iterators into the original; `erase(list.front())` reads a
  value that it has just freed (hashlist.hpp:146-147).

## 6. Not modelled

Not modelled: timing (a wait of 1 ms is a choice of outcomes), memory order of the
hardware, layout of messages and of the usage, grpc's and boost's inside, exceptions
out of handler functions other than a client's callback, deletion functions that use their own map,
`exam` and the build scripts (support for tests and packaging), `types` and `error` (no
state), and the one-line lookups of `estd`.

Left open: a proof of `DiffIsShortest`, below the lengths at which `IndexT` wraps. It would
make the messages a theorem about `diff_lines` as it is, without `EditScripts` in between.
