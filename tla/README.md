# Verification of cppkg

cppkg is a C++ library of small packages. Two of them run concurrently and carry
the library's own control logic: `jobs` (threads that can be stopped, sequences
of jobs, scope guards) and `egrpc` (asynchronous gRPC clients and servers driven
by completion queues). The others run in one thread: `diff`, the containers of
`estd`, `flag` and `numbers` have algorithms or state that long sequences of calls can
get wrong. This directory holds TLA+ modules of all of these, the configurations
that check them with TLC, and proofs about them for TLAPS.

    tlc -config Sequence.cfg Sequence.tla     # a run of the table below
    tlapm SequenceProofs.tla                  # the proofs of a module

## Inventory

| component | state it keeps | operations | what is hard | what makes it correct |
|---|---|---|---|---|
| `jobs::Sequence` | `tasks_`, `last_future_`, `stopped_`, the stop signal, a master thread | `attach_job`, `join`, `stop`, `is_running`, constructor, destructor | master, job threads and callers interleave; condition variable; jobs attach jobs; stop and destruction at any time | jobs run one at a time in the order of attachment; every future becomes ready; nothing survives the destructor |
| `jobs::ManagedJob` | a promise, a shared future, a thread | construct, move, `stop`, `join`, destructor, `is_running` | ownership of thread and signal through moves; promise errors in a `noexcept` destructor | no thread runs without somebody who can end it; destruction joins |
| `jobs::ScopeGuard` | a function | construct, move, destroy | moved-from functions; functions that throw | a function runs exactly once |
| egrpc unary client | per attempt: status, retries left, the promise | construct (issue), `handle`, destroy | two handlers share a promise during a retry; events handled by several threads | the promise is set once and says what happened; a call is attempted at most `request_retry_` + 1 times |
| egrpc `wait_for` | a list of promises | wait | it must not end while an attempt is under way | it returns, and then the queue may be shut down |
| egrpc streaming client | `call_status_`, `reply_` | `handle` | the next event may be handled before the present call returns | messages in order; one operation at a time |
| egrpc unary server | `done_`, the successor | construct (register), `serve`, `shutdown` | an object deletes itself when its tag comes back; several pollers | one listener; each request answered once; no leak, no deletion of an object in use |
| egrpc streaming server | `status_`, `ranges_`, `it_` | the same | clients that leave in the middle | all elements, in order, then one end; clean deletion |
| egrpc queues, interfaces, `ClientConfig` | none of their own | forwarding to gRPC | - | - |
| `diff`: Myers algorithm | none (pure) | `myers_diff` and its helpers | 16-bit indices; rows of costs kept for the way back | a script that is correct and as short as can be |
| `diff`: messages | the differences so far | `diff_msg`, `safe_diff_msg`, `diff_lines` | texts cut into batches | the batches together are a script; numbers of lines are right |
| `estd::HashList` | `lst_`, `umap_` | insertions, removals, copies, moves | iterators kept in an index; references given out | list and index agree |
| `estd::ConfigMap`, `ConfigEntry` | `entries_`; `data_`, `deletion_` | add, remove, copies, moves | shared entries, moves by hand, failures half-way | an object is deleted once |
| `estd` wrappers, strings | none | `has`, casts, ranges, prefixes | - | - |
| `flag::FlagSet` | option descriptions | `add_flags`, `add_arg`, `parse` | parsing twice, into an old map, errors half-way | a refused line changes no variable |
| `numbers::Fraction` | numerator, denominator | `*`, `pow`, `reverse` | overflow of the denominator | exact results |
| `units`, `error`, `arrs` | none (pure) | formatting, containers | - | - |

How they interact: `Sequence` owns a `ManagedJob` as its master thread, and calls
its `stop` and `join`; jobs call back into `Sequence::attach_job`. A client
handler is created by the user's client class, its address is the tag in the
completion queue, and whoever polls the queue calls `handle`; the waiter sees
only the promise. A server call object registers itself with gRPC under its own
address and is called (`serve`, `shutdown`) by whoever polls. `PROJECT.json`
lists the hazards of this code at their lines, with the properties for them.
`DiffMsg` is built on `MyersDiff` as `msg.cc` is on `myers_diff.h`; the other packages
do not use each other.

## Modules

| module | models | correspondence |
|---|---|---|
| `SerialExecutor` | the promise of a sequence | abstract: jobs are submitted, start in order one at a time, finish, or are discarded before they start |
| `Sequence` | `jobs/sequence.h` | see below |
| `ManagedJob` | `jobs/managed_job.h` | a member function is one step, the destructor two; a shared state and the thread made with it have one name |
| `ScopeGuard` | `jobs/scope_guard.h` | a member function is one step; a moved-from function may or may not be empty |
| `AsyncClient` | `egrpc/client_async.h`, `iclient_async.*` | a handler is a pair of a call and an attempt; the statements of `handle` that others can tell apart are steps |
| `AsyncClientStream` | `egrpc/client_async_stream.h` | one handler; `handle` is cut before its last statement, which hands the handler to gRPC; an exception of `handler_` leaves before it (`CallbackThrows`) |
| `AsyncServer` | `egrpc/server_async.h` | all the call objects of one method; the constructor of the successor is cut where its tag is given to gRPC (`Register`, `Created`), `serve` where `done_` is set (`Work`, `Answer`) |
| `AsyncServerStream` | `egrpc/server_async_stream.h` | one call object, from where its constructor has given away its tag; the loop over the range is a step up to the next element that is written |
| `MyersDiff` | `diff/myers_diff.h` | operators with the names of the functions; a round of each loop is an operator, a loop a recursive function; beside them the reference: edit distance by the longest common subsequence, and what a script turns into what |
| `DiffMsg` | `diff/msg.cc`, `format.h` | a call of `safe_diff_msg_helper` is a step (`Cut`, or `Rest` for the last), `to_string` another (`Show`) |
| `HashList` | `estd/hashlist.h` | a member function is one step; nodes of all lists come from one heap, so that an iterator can point into another list or at a node that was freed |
| `ConfigMap` | `estd/config.h`, `has` of `contain.h` | a member function is one step, with every way `add_entry` can fail; entries that are in no map are slots of a caller |
| `FlagSet` | `flag/flagset.*` | `parse` is one step: the operator `Parse` is its body, `Store` and `Missing` are boost's store and notify |
| `Fraction` | `numbers/decimal.*` | operators for the functions, and calculations of a few steps |
| `MCPackages` | - | `ScopeGuard` and the five above (`MyersDiff` within `DiffMsg`) side by side: a behaviour uses one of them |
| `MCAsyncClient` | - | the list `wait_for` is given, for TLC |
| `SequenceProofs`, `ManagedJobProofs`, `AsyncClientProofs`, `AsyncClientStreamProofs`, `AsyncServerProofs`, `AsyncServerStreamProofs` | - | theorems about the module of that name |
| `PackagesProofs` | - | theorems about `HashList`, `ConfigMap`, `FlagSet`, `Fraction` and `ScopeGuard`: the components without threads |
| `DiffProofs` | - | theorems about `MyersDiff` and `DiffMsg`; EXTENDS the latter |

`Sequence` in detail. A critical section of `queue_mutex_` is one step, because
nothing reads `tasks_` outside it. What happens outside is split at every point
that others can see: in `attach_job` the replacement of `last_future_`
(`Announce`), the locked push or the rejection (`Push`, `Reject`) and the
notification (`Notify`); in the constructor the two moves that leave `master_`
with a broken future in between (`MoveSignal`, `MoveFuture`); in the destructor
its four statements. The master thread evaluates the predicate and parks
(`Park`), takes a task and starts its thread (`Take`), joins it (`MasterJoin`) and looks at
its own copy of the exit future (`LoopCheck`). A job's thread calls the job,
which returns true or false or throws, and polls the stop future in between.
`last_future_` has no lock: the callers of `attach_job` and `join` are assumed
to take turns (`Unclaimed`), which the type leaves to its users. `stop` may come
from any thread. Spurious wakeups happen, but nothing relies on them.

Definitions named `Fault...` are seeded faults: what a plausible bug would make
of the definition below them. No specification uses them; each shows that some
property notices the bug.

In the components without threads a member function is a step, since nothing can
come between its statements. What they leave to their callers is followed as far
as C++ defines it: `HashList` gives out references through which a value can be
changed under its index (`Overwrite`), an argument of `erase` may refer to the
element that is erased (`EraseItself`, after which the key that is looked up may
be any), and a copied list has the other list's iterators in its index. The
history variable `trust` names the lists this happened to, and an `erase` through a
foreign or dead iterator ends the behaviour (`undefined`).

What is external. gRPC is modelled by how the code uses it: an operation is
answered once with a result, calls may fail at any time, a server that shuts
down fails its registrations. The pollers do what the tests do: `handle` for
every event of a client, `serve` for a server's event that is ok, `shutdown` for one that is not;
an exception of a callback leaves `serve` or `handle`, and the poller goes on.
boost's program_options refuses a name that it finds twice, keeps what it stored
of a line that it refuses in the end, never replaces a value that an earlier line
gave, and writes variables only when no required option is missing. A moved-from
container or function is empty, as in libstdc++ and libc++.

## Runs

| run | bounds | shows |
|---|---|---|
| `Sequence` | 4 jobs, one of them endless, fair | order (`InOrder`), the last future covers all (`LastCoversAll`), no survivors after destruction (`NothingOutlivesIt`), the master's end (`MasterLives`), promptness of `stop` (`StopsSoon`), the destructor ends if it does not find the master parked (`DestructorEnds`), refinement of `SerialExecutor` with its progress (`ImplementsExecutor`) |
| `ManagedJob` | 3 handles, 3 threads, fair | a handle controls the thread it owns (`HandleControlsJob`); no orphans (`NoOrphan`); destructors end (`DestructorEnds`) |
| `AsyncClient` | 2 calls, 2 retries, 2 pollers, callbacks of one call may throw, fair | the promise is set once, never lost, truthful; the queue is quiet after `wait_for`; `wait_for` returns, or comes to the call whose callbacks throw |
| `AsyncClientStream` | 3 pollers, 4 messages, fair | one in charge (`OneInCharge`); order (`HandledInOrder`); the promise is truthful, and it is set unless `handler_` threw, after which the handler is leaked with its promise unset (`StreamEnds`) |
| `AsyncServer` | 2 pollers, 4 requests, fair | an object is in one place, so it is deleted once, not while a poller is in its `serve`, and leaked by nothing but an exception (`OnePlace`); one listener; one answer; shutdown ends with no object; an exception of `write_call_` costs its own object and nothing else |
| `AsyncServerStream` | 2 pollers, ranges of up to 4, fair | one in charge; order and completeness; one end; every stream that was started is deleted, unless a callback threw |
| `Packages` | texts of up to 5 lines of 2 kinds in batches of 1, 2, 3 or all (16-bit indices); raw texts of 2 lines with spaces; 2 hash lists, 2 values, 4 nodes; 2 maps, 2 keys, 3 objects, 2 entries; 2 options of 2 values, lines of 2 words, 3 parses; denominators of 3 bits, 2 operations, powers to 3; 3 guards, 4 functions, one throwing (run at most twice) | a shortest script (`ScriptIsShortest`), batches and message right (`DiffIsRight`), list and index agree (`IndexAgrees`), deletion once (`DeletedOnce`), a refused line changes nothing (`ParseIsAllOrNothing`), exact fractions (`ProductExact`), a function runs once and is held by one guard until then (`RunsExactlyOnce`) |

`Packages` has safety properties only, and the nodes of its heap are symmetric. The
other runs check safety and liveness together, so
they use no symmetry: it is not sound for liveness.

Why the bounds are enough. With four jobs the queue can hold two tasks while one
runs and another one is being attached from inside it, which is every relation
a new job can have to the others; the fourth job, which never returns true, shows
that only `stop` gets past it. Three handles are needed for a
move from a moved-from handle, three threads so that each handle can own one
while they are assigned to each other. Two retries give a first, a middle and a last attempt; one attempt
more than the code may make is represented, so that it would be seen. Handlers
of different calls share nothing but pollers, so that two calls suffice. Three
pollers are one more than can be near one stream handler. A server needs two
objects past their registration and one that listens; four requests allow two
more generations.
Five lines on each side contain every turn the algorithm can take, ties included,
and several cuts; two lists with two values each can be copied, moved and filled again
while old iterators are still in an index, on a heap of the four nodes they
need. A map and a copy of it, and two slots between which an entry moves, are all
the owners an object can have at a time but one; three parses are a first, a
second with the help option added again, and one with a map that both may have
written. With three bits the products of denominators that `mul_is_safe` accepts
wrongly appear at both of its borders (3 * 3 and 2 * 4).

All safety properties of the passing runs are proved
besides, for any number of jobs, handles, calls, retries, messages, lines and so on; the
bounds matter for liveness only.

The counters that only record history are bounded where they are defined: calls
of a job after `stop` are counted up to 2 (`late`), runs of a throwing function up to `MaxRuns`.

Deadlock checking is off: every one of these systems ends, with the destructor,
the last handle, the last event, the shutdown of a server, the message, the last
parse or operation.

### Runs that show a disagreement

| run | what the code says of itself | what happens |
|---|---|---|
| `SequenceExitMissed` | `sequence.h:48` "immediately trigger condition" | the exit signal is set without a notification: a master that parked again after `stop`'s notification waits for ever, and so does the destructor |
| `SequenceJoinShort` | `sequence.h:113` "Join all jobs to complete" | after `stop` discarded the last job, its broken promise lets `join` return while an earlier job runs |
| `AsyncServerCreated` | the tests expect that the successor logs its creation, with its own `logger_` (`egrpc/test/main.cc:478` "ignore creation message for next handler") | the constructor gives its tag away (`server_async.h:52`) before it reads `logger_` (53); another poller can get the tag and delete the object between the two |
| `AsyncServerStreamTags` | the tests cast every tag to a live object (`egrpc/test/main.cc:812`) and disable the test of this path as flaky (943) | a client that leaves in mid-stream: the object is deleted with an operation outstanding, and its tag dangles |
| `DiffOverflow` | `myers_diff.h:214` "Return minimum-cost list of differences between orig and updated arrays", `msg.h:34` "the product of size of the vectors is roughly limited to 2^32" | `myers_diff_backtrace` keeps the length of a row in 16 bits (line 147): from 16384 elements in both arrays together no difference is returned and the message says that the texts are equal; from 32768 on the constructor of a vector throws. The run has 4 bits in place of 16: 4 elements |

The default limit of `safe_diff_msg` is `IndexT`'s largest value for each side, so that
it does not avoid this either; a limit of 8191 would.

Other disagreements were seen while modelling. Some comments say more than a
single statement of the code does: `Sequence::is_running` (`sequence.h:106-107`,
"Return true if any job is running otherwise false") answers true for ever after
the first job, because a future stays valid; `ManagedJob::is_running`
(`managed_job.h:89-90`, "Return true if job is running") is true for an ended
thread until it is joined; and its reason, "since job is never detached"
(`managed_job.h:93`), overlooks the assignment, which detaches a running job
after telling it to exit (`managed_job.h:73-74`). `FlagSet::parse` (`flagset.h:27`, "--help flag
will logs::warn with help message") shows the help message only in the first
parse of a set: each parse adds the option again, and a name that is there twice
is an error (`flagset.cc:53`; in `FlagSet` the line is refused). `mul_is_safe`
(`decimal.cc:22`) accepts denominators whose product has up to 66 bits: the product
of two fractions over 2^32 gets a denominator of 0 and fails the assertion of
`decimal.h:21`; `ProductExact` speaks of calculations in which no product was cut.
Without a module: `human_readable_time` (`time.cc:39-47`) does not divide when the
unit went up by less than 10000, so that 5000 ns are shown as 5000 μs; and
`has_prefix` of `strs.cc` accepts a string that is shorter than the prefix and agrees with it so far.

The constructor of a streaming call has the same flaw (`server_async_stream.h:57-58`): `Created` of
`AsyncServerStream` models it, without a run of its own. `OnePollerIsSafe` proves that one poller, as in
the tests, never meets it.

The other properties of `AsyncServer` and `AsyncServerStream` hold up to the first use of a
deleted object (`broken`), after which C++ says nothing; both models go on as a build does in which
the freed memory still holds what it held. The same goes for `dead` in
`ManagedJob`, `ScopeGuard` and `AsyncClient`: `std::terminate` was called. `DiffMsg` has the
phase `undefined` for more than 32767 differences, which make the length of an
array in `to_string` negative; no run reaches it.

## Fairness

Threads that can go on do so (weak fairness of the master, of the thread of a
job, of a call that has begun, of pollers). No client is obliged to call
anything. A job outside `Endless` that is called again and again returns true on
some attempt (strong fairness of `ReturnTrue`), which is what a client promises with such a job.
`SerialExecutor` promises the same: what is queued starts when nothing runs, and
a job outside `Endless` ends.
gRPC answers an operation that was asked for: clients set a deadline in
`build_ctx`, and servers learn of a client that is gone. No spurious wakeup is
assumed, which is why `SequenceExitMissed` is violated; `DestructorEnds`
therefore speaks only of a destructor that does not find the master parked.

## Proofs

`SequenceProofs` proves every safety invariant of `Sequence` for any set of
jobs, endless or not, from `JobsAssumption` alone (the owner and the
empty future are no jobs). The invariants are not inductive: `InOrder` speaks of jobs' numbers, and why
a job that is taken finds all earlier ones settled depends on the list being
sorted by number, on every job that is not in it being older or just announced,
and on the master holding no other job. The inductive invariant `IndInv` has
these parts:

- `Numbering`: numbers are distinct, `last_future_` has the highest, and only
  that job can be announced but not pushed;
- `Queueing`: the list holds exactly the queued jobs, in the order of their numbers;
- `Working`: at most one job is active, the one the master joins, and a job
  makes calls only while it is called;
- `Stopping`: how the destructor, the signals, discarded jobs and late calls go together;
- with `TypeOK`, `InOrder` and `EmptyOnceStopped` themselves.

Each part has a lemma of its own about one step, with a case for each group of
actions that touch it. The theorems then follow from `Spec => []IndInv`.

`EmptyOnceStopped` (theorem `NothingQueuedAfterStop`) is the part of
`NothingOutlivesIt` that holds before the destructor is over; it has no run of its own.

`ImplementsSerially` is the refinement: `Spec => Executor!Spec`. The active job
is the one that runs, the list is the queue. `StepSimulates` sorts the
steps of the code by what the executor sees: `Push` submits, `Reject` refuses, `Take` starts the head of
the queue, a call that is the last of its job finishes it, `stop` discards
what is queued, and all others are stutters. It needs `IndInv`: that nothing else is active is no guard of `Take`.

Of the other modules, each has an inductive invariant `IndInv` with lemmas for
its actions. Besides the types and the properties themselves it says:

- `ManagedJob`: `Ownership` (no two handles refer to the same signal or future), `Together`
  (a handle that can join a thread has the signal and the future made with it),
  `Fresh` (what was not constructed yet is nowhere). `NoOrphan` alone is not kept by a
  move: that the signal of the job that is assigned over ends the right
  thread, and only that one, is what the other parts say.
- `ScopeGuard`: only live guards hold functions, and what was not given to a guard never ran.
- `AsyncClient`: `PromiseSetOnce`, `Handling` (a handler in `handle` is in one poller),
  `Waiting` (`wait_for` is past a promise only when it is set), and for each call `Chain` (attempts
  are made in order; all but the newest failed and passed the promise on), `Counted` (`nretries_` counts
  them down), `Responsible` (the newest has the promise until it is through, and what its state
  says of replies and promise), `Unissued`. The promise has two holders during a
  retry; that the older of them is `retrying` is what keeps its destructor from setting it.
- `AsyncClientStream`: `InCharge` (`OneInCharge` without counting), `Phases` (which
  operation can be outstanding in which `call_status_`), `Progress` (how many messages were
  delivered and handled, which the result of a read that nobody looked at yet puts one apart).
- `AsyncServer`: `OnePlace`, `Serving` (a poller is in an object exactly while it is inside `serve`), `Newest` (only
  the newest object listens), `Unmade`, `Past` (behind `done_` there is an answer, unless `write_call_` is still at work or threw).
  `OnePollerIsSafe` needs `TypeOK` besides: the only poller cannot delete while it constructs.
- `AsyncServerStream`: `OneInCharge`, `Phases` (what `status_` says of the
  operations and of the end), `WrittenInOrder`.
- `HashList` (`ListInv`): `Apart` (no node is in two lists) and `Fits` (the nodes of a list are
  allocated and distinct, and the index of a list with `trust = "own"` is its inverse). An operation of one list must leave
  those of the others alone, although all nodes come from one heap and old indices
  still point into it.
- `ConfigMap` (`ConfigInv`): `OneKey`, `OneSlot`, and for each object `ObjectInv`: `uses` is the
  number of maps that have it, it is with maps, with one slot, or lost, and it was deleted
  once when it is with none of them. There may be infinitely many maps, of which finitely many have an object.
- `FlagSet` (`FlagInv`): the map holds what lines and defaults can give, and help once that option is final.
- `Fraction` (`FractionInv`): a fraction in which nothing was cut is the number it should be.

The last two speak of recursive functions. TLAPS has no rule for them, and its
induction theorems take operators; `UpTo` and `AllNumbers` of `PackagesProofs`
state induction for sets, from the smallest element of a set of numbers, and
with them the functions are shown to exist and to satisfy their equations. So
the loop of boost's `store` (`StoreTakes`), Euclid's algorithm (`GcdEquation`,
`GcdDivides`, `GcdScales`), the powers of a number (`ToTheSteps`, `ToTheSum`)
and the squaring of `pow` (`PowSound`) are proved for lines and exponents of any length. That a product is exact needs
that lowest terms do not depend on when they are taken (`MultLowest`,
`LowestOver`). `ProductExact` does not need that `mul_is_safe` is right, only
that what it lets through wrongly counts as cut.

`DiffProofs` proves the algorithm and the messages, with the same induction for sets.

- The reference is the table of common subsequences: `Distances` says what the edit
  distances of all pairs of prefixes satisfy, and `DistancesExist` that there are such numbers.
- `Reach` is what the algorithm should compute: how far d edits get on each
  diagonal. Its points have at most d edits (`Sound`), and no point on the diagonal with as many
  is further (`Complete`); so the end is reached at the edit distance (`EndsAtDistance`).
- The rows of costs hold exactly that (`AdvanceIs`, `RoundIs`, `SearchIs`, `TraceIs`), although the two
  parities of diagonals share a row, negative ones wrap around, and a sweep that reaches the end
  leaves the rest of its row as it was.
- Backwards, each row is the one by which an edit was chosen, so that the walk makes the same choices
  (`BackChoice`, `BackIs`): after d rows less, the point is one that d edits reach, and in
  the end it is the beginning of both arrays. The length of the walk gives the
  number of changes.
- Forwards, the points are a `Path`: every edit leads from a pair of prefixes to the next one. A
  path makes both of its prefixes (`PathMakes`) and its length says how many changes it has (`PathChanges`).

That is `ShortestScript`. `DiffIsRight` is not inductive either, since it speaks of what edits make
and not of where they lead: `DiffInv` says that the edits so far are a path to
`efrom` and `gfrom`, that they have no change if the texts are equal, and that nothing was thrown. The
beginning of a batch's script up to its last common line is a path (`PathPrefix`),
and goes on from where the last batch ended (`LeadsOn`). The
line numbers of the message are the lengths of what the edits before a line make (`LineIs`).

The hypotheses are exact about the indices: `TextsFit` says that a row for two of the longest texts,
twice as long as both together and one more, is an `IndexT`; `BatchesFit` says so of batches, which are
as long as their limit or the texts, and of the number of edits. Both hold in `Packages`, and
`DiffOverflow` shows what happens without the first. A caller who passes a limit of 8191 has
`BatchesFit` for texts of up to 16383 lines.

The assumptions are those of the modules on their constants, which every run evaluates. Two
of them say more than the code needs, for the provers know no powers: `FractionAssumption` that
`2^DenomBits` is a positive number, `IndexAssumption` that `2^(IndexBits - 1)` is one and `2^IndexBits`
twice that.

Only model-checked is liveness, which is out of the prover's reach: `DestructorEnds` of
`Sequence` and `ManagedJob`, `WaitEnds`, `StreamEnds` of both stream modules, `ShutdownCleansUp`, and the fairness
in `ImplementsExecutor`. The five runs that expect a violation have no
theorem, of course, but for `CreatedIsAlive` under the hypothesis that there is one poller.

## Not modelled

- Data: arguments of jobs, requests, replies, messages, log lines, durations.
- Data races on members without a lock, beyond the order of whole statements:
  `last_future_`, the exit future of `master_` while it is assigned.
- Exceptions of the functions with which a call object registers itself or its
  successor: after one nobody listens any more.
- An overlapping use of one object of `diff`, `estd`, `flag` or `numbers` by several threads, against which they have no lock.
- A batch limit of 0, with which `safe_diff_msg` recurses for ever (`DiffAssumption` excludes it).
- Guessed, abbreviated and environment options of boost, several values of one option, and the usage text.
- Rounding, infinities and negative numerators of `Fraction`.
- A `shutdown` of a streaming call that the application makes on its own while an operation is outstanding.
- `units`, `error`, `arrs`, and the wrappers and strings of `estd`: functions without state, whose
  text or conversion is all they are; and build files.

## Plan

Done, in this order: `Sequence` with `SerialExecutor` and its proofs, `ManagedJob`,
`ScopeGuard` with its proofs, `AsyncClient`, `AsyncClientStream`, `AsyncServer`, `AsyncServerStream`,
`MyersDiff` and `DiffMsg`, `HashList`, `ConfigMap`, `FlagSet`, `Fraction`; then the theorems about all of them,
and the refinement of `SerialExecutor`.

What is left: the hazards of `PROJECT.json` without a property, most of which need
a finer grain than whole statements (assignments of `master_` and `last_future_` without a lock).
