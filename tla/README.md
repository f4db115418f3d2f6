# A TLA+ verification of xeus

xeus is a C++ implementation of the Jupyter kernel protocol.  The author of a
kernel derives a class from `xinterpreter`, a companion project (xeus-zmq,
xeus-lite) derives one from `xserver`, and `xkernel` wires the two together
with what is in this repository: a dispatcher, a registry of comms, a history
and some utilities.  This directory specifies the parts where an order of
events can go wrong, model-checks them on small instances with TLC and proves
the main results for every instance with TLAPS.

## The system

| part | code | state | operations | what makes it correct |
|---|---|---|---|---|
| kernel core | `src/xkernel_core.*` | handler table, execute callbacks | `dispatch_shell`, `dispatch_control`, 13 handlers, `abort_request` | busy is followed by idle; at most one reply; idle comes after all effects; stop-on-error aborts what is queued and nothing else |
| interpreter base | `src/xinterpreter.cpp` | one request context, execution count | `execute_request`, `publish_*`, `input_request`, `input_reply` | messages carry the header of their execution; numbers agree in the prompt, the reply and the history |
| server | `src/xserver.cpp` (interface) | channels, threads | `abort_queue`, `stop`, `send_*`, `publish` | outside this repository; assumed |
| comm registry | `src/xcomm.cpp` | map from ids to addresses, targets | `comm_open`, `comm_close`, `comm_msg`, and the constructors, assignments and destructor of `xcomm` | the map has the live object of every open comm and nothing else |
| history | `src/xhistory_manager.cpp`, `src/xin_memory_history_manager.cpp` | list of lines | store, tail, range, search | the lines asked for, in order |
| stdin | `src/xinput.cpp` | the handler for replies | `blocking_input_request` | a prompt gets its own answer |
| assembly | `src/xkernel.cpp`, `src/xkernel_configuration.cpp` | owns all parts | build, `start`, `stop`, destroy | parts outlive their users; a stopped kernel ends |
| debugger, messenger | `src/xdebugger.cpp`, `src/xcontrol_messenger.cpp` | a pointer | `process_request`, `send_to_shell` | the control thread gets an answer from the shell thread |
| registration | `src/xmock_interpreter.cpp` | a global pointer | `register_interpreter`, `get_interpreter` | prompts find their interpreter |
| loggers | `src/xlogger*.cpp` | chain of loggers | log | output only |
| fixed string | `include/xeus/xbasic_fixed_string.hpp` | a buffer in the object, and its size in one of three ways | the edits, searches and comparisons of `std::string` | size and NUL agree; answers are those of `std::string`; ids survive the conversions |
| utilities | base64, hash, guid, helpers, system, messages | none | pure functions | round trips |

How they interact.  The server has a thread for the shell channel and one for
the control channel, and calls `dispatch_shell` and `dispatch_control` on them.
The core calls the interpreter's virtual methods; the interpreter calls back
through std::functions: the publisher, the stdin sender, and for each execution
a reply callback.  The callback sends the reply, appends to the history, may ask
the server to drain the shell queue through `abort_queue`, and publishes the
idle status.  It may be called before `execute_request_impl` returns or later.
Interpreter code on the shell thread may wait for the client
(`blocking_input_request`), code on the control thread for the shell thread
(`send_to_shell`), and a handler on either thread, or the owner of the kernel,
may stop the server while the others run.
Comm requests go through the registry to `xcomm` objects that live wherever the
author of the kernel moved them.

What is hard.  Two threads share the interpreter, the history and the registry
without locks.  Callbacks outlive the call that made them.  Interpreter code may
throw anywhere.  A registry of addresses has to follow objects through copies,
moves and destructors that callbacks perform while the registry is using them.
`PROJECT.json` lists these hazards one by one, with their lines.

## Modules

* `RequestLifecycle`: what a client may see of one request, whatever happens in
  the kernel: pending, then busy, replied, idle, or aborted with an error reply.
* `KernelCore`: the core, the base class of the interpreter and the two threads
  of the server.
* `KernelCoreInvariant`: the inductive invariant of KernelCore, as a conjunction
  of named parts, checked by TLC and used by the proofs.
* `KernelCore_proofs`: theorems about KernelCore: types, places, the refinement.
* `KernelCoreCounts_proofs`: theorems about KernelCore: numbers, aborts, the
  history and parent headers.
* `MCKernelCore`: sets of messages for TLC.
* `XComm`: the comm registry and the life of comm objects.
* `XComm_proofs`: theorems about XComm.
* `MCXComm`: instances for TLC.
* `History`: the history in memory and the requests for it.
* `History_proofs`: theorems about History.
* `MCHistory`: an instance for TLC.
* `Session`: construction and destruction of a kernel and what happens between
  its parts while it runs: prompts, internal requests, shutdowns.
* `Session_proofs`: theorems about Session.
* `MCSession`: an instance for TLC.
* `StdString`: what `std::string` promises, as splices, extremes of sets of
  positions and an order: the reference for FixedString.
* `FixedString`: the string type of the ids of messages and comms.
* `FixedString_proofs`: theorems about the memory of FixedString.
* `FixedStringText_proofs`: a theorem about its edits.
* `FixedStringReads_proofs`: theorems about its searches, comparisons and
  conversions.
* `MCFixedString`: alphabets for TLC.

### KernelCore

A thread is a program counter per channel.  `Dispatch` takes a message and
publishes busy; one action per handler does all that the handler does; `Return`
is where dispatch continues after a handler: `CloseDispatch`, which publishes
idle, when the handler is blocking, the next message when it is not.  The
handlers that only ask the interpreter for a reply (`complete_request`,
`inspect_request`, `is_complete_request`, `kernel_info_request`,
`comm_info_request`) are one kind of message, and so are the three comm
messages, which have no reply.  `HandlerThrows` is the catch clause of dispatch.

An execution takes one step per effect that another thread can observe:
`ExecuteRequest` (context slot, count, `execute_input`), `InterpreterPublishes`,
then `ReplyCallback`, `StoreInputs`, `AbortRequest` for each message drained,
`AbortEnds`, and `CompleteExecution`, which publishes idle.
`InterpreterThrows` is the catch clause of `xkernel_core::execute_request`,
`InterpreterDefers` an interpreter that returns and calls the callback later, on
the shell thread between two messages, as an event loop does.

Requests carry what decides the control flow: kind, channel, `silent`,
`store_history`, `stop_on_error`.  A kind without handler stands for unknown
message types, and "garbled" for one whose name has no underscore, for which
`abort_request` throws.  `seen` and `doomed` are ghosts.

`OutputsAttributed` is about what executions publish.  What the callbacks of comms
publish (`src/xcomm.cpp:51`) takes its parent header from the same slot and so has
that of the latest execution; comm messages have no outputs in the model.

### XComm

Memory is a function from addresses to objects.  An object has the id, the
target, the id that its handlers were installed for, and the flag `m_moved_from`
of the code; `spent` is a ghost that says what the flag should say.  The two
handlers of an object are one: `Listen` installs both.  The actions
are the special members of `xcomm`, the author's use of targets, and the comm
requests, which are open calls: between `CommHandler` or `CommOpen` and the
matching return, the callback may take any step of the author, including one on
the object that is being called.

Four disciplines of authors are guards.  Moved-from objects are not used, except
as targets of assignments when `Reassign` is TRUE.  No object is moved onto
itself, unless `SelfMove` is TRUE: `operator=(xcomm&&)` does not test for it,
resets the flag and sets it on the same object.  A target is unregistered only
when it has no comm left.  Ids are never used twice, as UUIDs are not.  The runs
`comm_reassign` and `comm_self_move` drop the first and the second, which ordinary
code on containers breaks; the code documents no meaning for breaking the others.

Which handlers a message runs is a ghost, `installed`: those that the owner
installed since the comm has its id, wherever it moved.  The copy constructor
copies none, but `operator=(const xcomm&)` keeps the handlers that the object had
for the comm it stood for before, under the new id; `HandlersFollow` says so, for
every id in the registry.  A closed comm may
be moved, which registers it again; the properties say nothing about closed
comms beyond that their entry points to a live object.

### History

`KernelCore` says which executions store a line and when; `History` says what a
client finds.  The state is the list of lines, the only action is `store_inputs`.
The requests read: `get_tail`, `get_range` and `search` are operators, and the
properties make every request in every state, through `process_request`, with
every choice of the keys that a message may leave out.  An iterator outside of
the list gives `Undefined`, as for a negative count; the properties are about
counts and bounds from zero on, and say that these never get there.

A pattern is the set of the inputs it matches: the code's translation of globs
to regular expressions is left to `std::regex`.  Sessions are left out, the core
has one.  The same line may be stored twice, as
`test/test_xin_memory_history_manager.cpp:153` does; the lines of a kernel
have distinct numbers (`HistoryLinesDistinct`), and `unique`, which compares lines
with their numbers, then removes nothing.

### Session

`stage` follows the constructor of `xkernel`, then its owner: built, running,
unwinding, gone.  `alive` is the set of members that exist and `refs` the set of
pointers that one part holds to another.  Each step of the constructor adds the
ones that the code stores (`Store`), and no code ever resets one, so what
protects a call is the order: `Declared` is the order of the members, which are
destroyed from the last to the first, also when a builder or `configure_impl`
throws half way.  `BuildUses` and `ThreadUses` say which pointers the code that
runs now may follow, and `CallsAreSound` that they were stored and lead to
something alive.  The comment at `include/xeus/xkernel.hpp:88` asks for a part of
this, that the context goes last.

The threads have a program counter per channel, as in `KernelCore`, but here a
request is a stay in the author's code (`run`), of which the kinds of requests do
not matter.  From there the shell thread may prompt and the control thread may
ask the shell thread for something, both as often as they like.

A prompt goes through `Ask` (the handler is installed, the message sent),
`Deliver` (`dispatch_stdin`) and `EndPrompt` (the handler is removed).
`SendThrows` and `WaitThrows` are exceptions before and after the client saw the
prompt; both leave the handler behind, since `blocking_input_request` has no
guard.  Prompts are "blocking", through that function, or "direct", by authors who
call `input_request`.  `slot` is the prompt whose local variable the handler
captures, `wire` the answers that the server has not read.  Clients answer each
prompt once, at any time.  `end`, `call` and `answer` are ghosts.
`docs/source/kernel_implementation.rst` describes a request context among the
arguments of `blocking_input_request`, which it no longer takes: its prompt goes
to the client of the latest execution.

What the server does is external, and taken from what the code needs of it:
`send_stdin` returns after it gave one message to the stdin listener, or throws;
an internal request is served by the shell thread between two messages, while
the control thread waits; `start` returns when both threads have left their
loops, which they do between two messages after `stop`.  Four disciplines of
authors are built in: interpreters are registered before the kernel is built,
prompts come from the shell thread, `send_to_shell` is called on the control
thread, and destructors of interpreters do not use the core.  `StopKernel` is both
steps of `xkernel::stop`, the interpreter's `shutdown_request` and then the
server's `stop`: the first is the author's and changes nothing here, and nobody
is assumed to destroy the kernel between them.

Two promises have an exception, which the property names.  After a prompt that
threw, a bare `input_request` has its answer written through the handler that was
left behind, into a frame that is gone (`HandlersAlive`).  A prompt that threw
after the client saw it leaves an answer on its way, which the next prompt takes
for its own (`OwnAnswer`).

### FixedString

`xguid`, the type of comm ids, is an `xbasic_fixed_string` of 55 characters.
The state is the memory of one string, buffer and size member.  `Size` and
`SetSize` are two storages: the size as its complement in the last character of
the buffer (`small`, that of `xguid`), or as a member (`sized`).  Every call is an operator from the memory
before to the memory after, written over the same primitives as the code
(`set_size`, `adjust_size`, copying forwards or backwards), and an action makes
the call with every argument.  Overloads that only convert their arguments are
one call; those that check something of their own (`insert_at`, `erase_at`,
`replace_at`, `assign_part`, the ones that take a C string) are calls of their own.
`assign(const string_type&, pos, count)` checks nothing: from a position beyond
the end of its text it copies whatever memory follows, so that `AssignBeyond`
assigns any text.  It is undefined and may also crash, which is left out.

`EditsLikeStd` compares every edit with `std::string` and states where the code
differs: `operator=` and `assign` cut a `std::string` at its first NUL,
`insert(end(), ...)` and the replacement of an empty range of iterators are
ignored without an error, and what throws changes nothing.  Only `AssignBeyond` is
not part of it.

The code makes all its checks before it changes anything, so a call that throws
leaves the string as it was.  Under the policy `silent_error` nothing is checked
and a text that does not fit is undefined behaviour, which is not modelled: what
fits is the same under both policies.  `npos` is a number above every size.
Arguments do not overlap the string itself.

`Becomes(n, m)` names what a call asks for (n characters) and what it makes (m).
Unless `FillSmall`, it leaves out the calls that fill a string in small storage,
which is where this storage loses count of its size.

## Runs

| run | instance | asks |
|---|---|---|
| `kernel_sync` | 3 requests, every kind of message, throws, callbacks before return | `HistoryInOrder`, `IdleIsInHistory`, `OutputsAttributed`, the inductive `SyncInv` |
| `kernel_async` | 3 requests, deferred callbacks, throws, garbled messages | `CountsMatch`, `HistoryLinesDistinct`, `AbortedForCause`, the inductive invariant, the refinement `LifecycleSpec` |
| `kernel_live` | 3 requests, deferred callbacks, nothing throws, fairness | `EveryRequestEnds`, `BusyGetsIdle`, `DoomedNeverRun`, the inductive `DoomedInv` |
| `kernel_throw` | the interpreter may throw | violated: `BusyGetsIdle` |
| `comm_registry` | 3 addresses, 3 ids, 2 targets | `NoDangling`, `LiveIsRegistered`, `HandlersFollow`, `InfoIsTruthful`, `EntriesNotLost`, the inductive invariant |
| `comm_reassign` | assignments to moved-from objects | violated: `LiveIsRegistered` |
| `comm_self_move` | moves of an object onto itself | violated: `NoDangling` |
| `comm_flag` | indeterminate `m_moved_from` | violated: `NoDangling` |
| `history` | 4 lines; 2 numbers, inputs and outputs | `TailAnswers`, `RangeAnswers`, `SearchAnswers`, `RangesStable` |
| `session` | 2 prompts, everything that may throw throws, fairness | `CallsAreSound`, `OwnAnswer`, `HandlersAlive`, `PromptsEnd`, `InternalAnswered`, `KernelEnds` |
| `fixed_string` | capacity 5, small and sized storage | `Terminated`, `EditsLikeStd`, `SearchesLikeStd`, `ComparesLikeStd`, `IdsRoundTrip` |
| `fixed_small_full` | capacity 4, small storage, filled | violated: `SizeFits` |

Bounds.  Three requests are what the properties need: one that fails, one queued
behind it and one that observes, or three that overlap; the counters and
sequences are bounded by the requests, no other bound cuts the state space.
Three addresses and ids allow a move into an occupied object while a callback
runs on a third one; addresses and ids are symmetric, and so are requests in the
runs without liveness.

Two characters, one of which is NUL, are enough for strings: the code compares
characters for equality and order and gives a meaning to NUL only.  Texts,
counts and positions go up to one more than the capacity, so each check of
range and length both passes and fails.  A capacity of 5 lets a search meet a
false start before a hit, and a replacement shrink, grow or keep its part with a
tail of several characters behind it.  `Radix` is 16 rather than 256: it only has to be above
the capacity.  `EditsLikeStd` and its companions are invariants over every call
from every reachable memory, so what earlier calls left behind the NUL is there.

Four lines with two inputs make every pattern of matches and repetitions that
`unique` can treat in different ways: a repetition next to a line, behind one that
does not match, and behind one that matches and differs.  Counts and bounds go
one beyond the bound on the length.  The run allows deadlock because a full
history stops it.

Two prompts are one that fails and leaves its handler or its answer behind and
one that could be harmed by it.  Executions, internal requests and shutdowns are
not bounded; the number of prompts is the only bound of `Session`, and the
invariants, not the liveness properties, were also checked with three.

`HistoryInOrder` and `OutputsAttributed` are only asked of interpreters that
call the callback before they return: with deferred callbacks executions
overlap, the lines are stored in the order in which executions end, and the
single context slot has the header of the latest one.  xeus leaves this to the
interpreter.

Fairness.  Each server thread keeps taking steps when it has one (weak
fairness), and an interpreter that accepted an execution calls its callback in
the end (strong fairness, because the callback can only run while the shell
thread is between two messages).  `EveryRequestEnds` needs `MayThrow = FALSE`:
the code does not promise it otherwise, as `kernel_throw` shows.

In `Session` the steps of the library itself are weakly fair: the delivery of an
answer that is there, the end of a prompt, the end of `dispatch`, destructors.
The author's code returns although it may prompt, or call the shell thread, any
number of times before it does, and a loop that the thread enters and leaves
again and again looks at internal requests and at the stop flag in the end:
these are strongly fair, as they are enabled only now and then.  The client
answers each prompt it sees.  Nobody has to stop the kernel, start an execution,
or throw.  The exception of `InternalAnswered` and `KernelEnds` is `Orphaned`: a
shell thread that has left its loop after a stop does not serve the request that
the control thread then makes, and nothing in this repository ends that wait.
It is up to the server, and one of the two states in which the run may stop.

### What the violations show

* `kernel_throw`: `execute_request` catches what the interpreter throws, logs
  it, and neither replies nor publishes idle.  The comment at
  `src/xkernel_core.cpp:223` makes the handler responsible for idle.
* `comm_reassign`: `operator=(const xcomm&)` unregisters the id of the object it
  assigns to (`src/xcomm.cpp:152`) even when that id has moved to another object.
  In the trace the comm of a1 is moved to a2 and a2 copied to a1: a1 gets a new
  id, and the comm in a2 is alive and unreachable.  `operator=(xcomm&&)` does the
  same (line 140) when a third comm is moved in, which takes a longer trace: the
  last step of `std::swap(a, b)` does it, and `erase` in a vector.
* `comm_self_move`: `operator=(xcomm&&)` of an object onto itself resets its flag
  and then sets it (`src/xcomm.cpp:142`), while the object stays registered.  When
  it is destroyed, its destructor takes it for one that was moved from and leaves
  its address.  `v[i] = std::move(v.back()); v.pop_back();` does it when i is the
  last index.
* `comm_flag`: the constructor that `comm_open` uses does not initialise
  `m_moved_from`.  When it happens to be TRUE, a comm that dies without having
  been moved leaves its address in the registry.
* `fixed_small_full`: the size byte of a small string of N characters is the
  place of its NUL, and reads as size N + 1.  The comment at
  `include/xeus/xguid.hpp:28` promises room for 55 characters.  For the
  same reason an empty string of capacity 255 has size 256.

## Proofs

All hold for any sets of requests, messages, addresses, ids and targets, and
for any capacity, alphabet and length.  Every invariant that a passing run checks
is a theorem.

* `KernelCore_proofs`.  `TypeCorrect`; `PlaceCorrect`: every request is in
  exactly one place (unsent, in one position of one queue, on a thread, deferred
  or done) and its statuses and replies are those of that place.  The second is
  the strengthening that the rest needs: `BusyGetsIdle` says nothing about
  queues, and is not inductive without knowing that no request is in two of
  them.  `BusyRequestsGetIdle` follows from it, for interpreters that do not
  throw and messages that can be aborted.  `KernelRefinesLifecycle` shows that
  each step of the core is a step of `RequestLifecycle` or changes no phase.

* `KernelCoreCounts_proofs`.  `InvariantCorrect` is all of `IInv`, in parts that
  each rest on the places.  `CountInv`: the number that an execution announced is
  the one that its callback captured, replies carry it, and a line is that of one
  execution that announced a number of its own; hence `CountsAgree` and
  `HistoryIsKeyed`.  `AbortInv` keeps the cause of an abort while the callback
  drains the queue (`AbortsHaveACause`).  `StoredInv` says that the line is there
  before idle is, and that a history reply has what was there when its request was
  sent (`IdleIsStored`).  `DoomedAreNotRun` needs `DoomedInv`: a doomed request
  without a reply is still in the queue that is being drained; messages that
  `abort_request` throws on are excluded by hypothesis, because they end the
  drain and leave the rest in the queue.  It is a theorem too
  (`DoomedAreDrained`).  `HistoryIsOrdered` and `OutputsAreAttributed` need
  `SyncInv` (`SyncCorrect`) and no deferred callbacks: the execution
  that the shell thread is in then owns the context slot and, until its line is
  stored, the last number.

* `XComm_proofs`.  `BaseCorrect` is the part of the invariant that holds whatever
  authors assign or move onto itself, and whatever the flags hold.  `NothingDangles` adds what needs initialised flags and no moves of
  an object onto itself, and `OwnersAreRegistered` and `EntriesStay` what needs
  that nobody assigns to moved-from objects.  The disciplines are thus separate, each the hypothesis
  of one part.  `MessagesReachHandlers` has the hypotheses of `NothingDangles`;
  `InfoCorrect` and `RegistryCoherent`, the whole invariant, have all three.

* `History_proofs`.  `TailCorrect` and `RangeCorrect`, from the lemma that what
  two iterators enclose is an interval of positions and one that reduces a
  message to the keys it has; `RangesStay`.  `SearchCorrect` goes through lines
  (`Line`), the values at a set of positions in order: the loop that collects the
  matches makes the line of the positions that match, `std::unique` makes of a
  line that of the positions that differ from the one before, and what
  `clean_history` leaves of a line is a line again (`LineOfLine`).  Besides the
  types no invariant is needed.

* `FixedString_proofs`.  `StaysTerminated`: after any sequence of calls the
  memory has its type (`TypeCorrect`), the size is within the capacity, and the
  text ends with a NUL.  The invariant says that
  some k is at once what the storage says the size is and a position that holds
  NUL (`Sealed`), that is, that the two places where a string records its end
  agree.  A lemma for each call shows that it seals the string again at its new
  size.  The hypothesis `NotFilled` says that no call fills a small string; `fixed_small_full`
  shows one that is filled.
* `FixedStringText_proofs`.  `EditsAreStd`, with a lemma for each part of
  `EditsLikeStd`.  `Shows(m, t)` adds to `Sealed` that
  the characters before the end are t.  Inserting, erasing and replacing move the
  tail within the buffer, forwards or backwards; a lemma on the characters shows
  that the direction of each copy never reads a place that it has written, and
  each call then is the splice of the reference.
* `FixedStringReads_proofs`.  `ComparesAreStd`, `IdsSurvive` and `SearchesAreStd`.

* `Session_proofs`, for any number of prompts.  `CallsStaySound` rests on
  `AssemblyInv`: which members exist at each stage, and that what two existing
  members were given of each other is there.  `CallsAreSound` alone is not
  inductive, because it says nothing of pointers that are not in use yet.
  Destruction keeps it because the member that goes is the newest, and the
  context is the oldest.  `HandlersStayAlive` rests on `SlotInv`: the handler is
  that of the prompt on the stack or of one that threw.  `PromptsGetOwnAnswer`
  needs in addition that without abandoned prompts the server holds no message but
  the answer to the prompt on the stack, and that no client owes another
  (`AnswerInv`); prompts after one that was abandoned are left out by `Clean`,
  which later steps cannot make true again (`AbandonedStays`).

Loops.  The searches of the string, the loop over the history and `std::unique`
are recursive functions or folds, and the prover has no induction over data.
Each is instead shown to be what it computes in two steps: the closed form of the
result (the first hit from here on, the line of the positions seen so far)
satisfies the equation of the recursion, so that the function exists; and two
functions that satisfy it agree, because there is no least place at which they
differ.

The assumptions are those on the constants, named in the modules, and the
hypotheses in the theorems: on `MayThrow`, `Async` and garbled messages for the
kernel, `FreshFlags`, `Reassign` and `SelfMove` for the comms, `FillSmall` for
strings.  `kernel_throw`, `comm_reassign`, `comm_self_move`, `comm_flag` and
`fixed_small_full` show what happens without those on `MayThrow`, `Reassign`,
`SelfMove`, `FreshFlags` and `FillSmall`.

Only model-checked, because they are out of the prover's reach:
`EveryRequestEnds`, `PromptsEnd`, `InternalAnswered` and `KernelEnds`, which need
fairness and with it ENABLED.

## Not modelled

* The server's sockets, polling and heartbeat, and the middleware of the
  debugger: other projects implement them.
* Loggers, hashes, base64 (which nothing in the library calls), the helpers that build JSON replies, the date format, the
  calls to the operating system, the generator of UUIDs (the models assume that
  ids never repeat): no state of the kernel depends on them.
* Fixed strings that keep no size and ask `strlen` for it: only the tests have
  them.  `resize` never makes such a string longer, because it compares the old
  size with what `strlen` still finds
  (`include/xeus/xbasic_fixed_string.hpp:1171`); for the same reason `insert`
  overwrites the characters that it should move, and `push_back` asks for the
  size after it wrote over the NUL.
* Of Session: a second kernel in the same process, whose prompts would go to the
  interpreter that was registered first; `send_to_shell` on the shell thread;
  exceptions of `internal_request`; the configuration, which is copied once.
* `xwfixed_string`, which has no instance in the repository.
* Of FixedString: arguments that are parts of the string itself, counts so
  large that `size + count` wraps, overflow under `silent_error`.
* The contents of messages and replies beyond what decides the control flow.

## Plan

1. The steps that `EveryRequestEnds` and `PromptsEnd` rest on, as far as they are
   safety: an action that is enabled stays so until it is taken, and each step
   brings a request nearer to its end.
2. The hazards in `PROJECT.json` that no property covers yet.
