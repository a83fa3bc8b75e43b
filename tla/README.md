# A verification model of the stream media analysis server

This directory holds TLA+ modules that model the server in `Analyzer/`, the TLC
configurations that check them on small instances, and proofs for TLAPS. Every
definition is translated from the C++ source; `PROJECT.json` gives the lines.

## The system

One process. `main.cpp` reads the configuration, makes a `TaskScheduler`, starts
the HTTP server on a detached thread and polls a key until it is told to stop.
HTTP requests add, pause, restart and remove *tasks*; a task pulls a media stream,
decodes it, and pushes it re-encoded to another address, with three threads of
its own.

| component | state | operations | talks to |
|---|---|---|---|
| main program (`main.cpp`) | the scheduler pointer | start-up, overrides, shutdown | constructs and deletes the scheduler |
| HTTP server (`server.cpp`) | none beyond libevent's | six routes, parsing, replying | calls the scheduler, one handler at a time |
| task scheduler (`scheduler.cpp`) | `m_executorMap` and its mutex, `m_state`, the delete queue, its condition variable and thread | add, pause, start, remove, get_state, `loop`, destructor | owns the executors |
| task executor (`executor.cpp`) | `m_state`, `m_threads`, the two streams | `start`, `pause`, `getState`, destructor | launches workers; the stream workers call `pause` back |
| pull stream (`stream.cpp`) | FFmpeg input context, decoders, frame queue | connect, disconnect, reconnect, getFrame, `start` (thread) | executor, its configuration |
| push stream (`stream.cpp`) | output context, encoders, frame queue | connect, disconnect, pushFrame, `start` (thread) | reads the pull stream's context |
| configuration (`config.cpp`, `config.h`) | typed parameters by name, with callbacks | get, set, clear, checks | read and written by every thread |
| utilities (`utils.h`) | none | clock, keyboard, directories | |
| vendored code | easylogging++, nlohmann json, argparse | | outcomes only |

### What is hard in it

* **Three kinds of threads edit one executor.** The HTTP thread calls `start`,
  `pause` and the destructor under `m_executorMap_mutex`; the pull and the push
  worker call `pause()` themselves, without that mutex, when their stream ends.
  `m_state` is tested and cleared in two separate accesses, `m_threads` has no
  lock, and a join of the own handle or a second join ends the process.
* **Half-done starts.** `start()` can fail after it has set `m_state`, made
  streams and launched two of three workers; `addTask` then deletes the executor
  and uses the configuration that went with it.
* **Shutdown.** The server thread is detached, the delete thread waits on a
  condition variable without a predicate, and the destructor of the scheduler
  runs while handlers may be on their way into it.
* **Frames and contexts** have several owners and are freed on several paths. The push
  stream reads the context of the pull stream without a lock, while the pull thread may
  be reconnecting, possibly to an input whose streams are others.
* **Connecting fails half-way.** Each call into FFmpeg may fail, and what has been
  allocated until then is left to a `disconnect()` that frees the array of codec
  contexts and keeps the pointer.
* **Parameters by name and type.** `get<T>()` of a name that is missing or has another
  type is a null pointer, which every reader follows; a JSON value of another type throws.

What makes each component correct:

* executor: no thread handle is lost; the destructor completes only when no
  worker runs; `pause` returns, and when it did the stopping nothing runs any
  more; `getState()` follows the workers.
* scheduler: the pool never exceeds its limit; a task that failed to start was
  never visible; the destructor and the methods exclude each other; shutdown ends.
* server: every request is answered, truthfully; its end is noticed by `loop()`.
* streams: a frame is in one place until it is freed, and freed once; frames leave in
  the order in which they were decoded.
* connections: what a stream keeps in its arrays is given back once, and the one codec
  context that the code does lose is lost by a `connect()` that is the stream's last; the
  threads that share a connection agree about it; a source that stays away does not keep a
  thread for ever.
* configuration: every parameter that is read is there with the type it is read as, but for
  `--port` and for the deleted configuration of a failed launch; a running task is usable
  (with the exception that `PushStream::connect` makes), and no request changes it.

## The modules

| module | models |
|---|---|
| `TaskLifecycle` | abstract: handles are given back only after their worker has finished, the task is released only when all are given back |
| `TaskExecutor` | one executor, its three workers per `start()`, and the scheduler's calls, step by step |
| `TaskExecutorProofs`, `PauseProofs`, `SequenceLemmas` | proofs about it |
| `PooledExecutor` | composes `TaskExecutor` with `TaskScheduler`: the executor seen as the pool's entry for one task |
| `PooledExecutorProofs` | proof that the executor implements that entry |
| `TaskRegistry` | abstract: a request has one effect on the set of tasks, and a truthful answer |
| `TaskScheduler` | the pool: the bodies of the scheduler's methods, the delete thread, the workers that end by themselves |
| `ServerProcess` | extends it with the main thread and the HTTP thread |
| `ServerProcessProofs` | proofs about it |
| `FrameChannel` | abstract: frames arrive in the order of sending, each at most once; they may be lost |
| `FramePipeline` | the frames of one task: the pull thread, the forwarding thread, the push thread and the two queues |
| `FramePipelineProofs` | proofs about it |
| `StreamConnection` | the connections of one task: contexts, arrays and codecs of both streams through connect, disconnect and reconnect, with the threads that use them |
| `StreamConnectionProofs` | proofs about it |
| `Configuration` | the command line, the configuration file, the task of an add request, and everything that reads a parameter |
| `ConfigurationProofs` | proofs about it |
| `MC...` | instances for TLC |

### TaskExecutor

The variables `m_state`, `m_threads`, `m_pullStream`, `m_pushStream` are the members
of that name; a stream pointer is represented by the number of the `start()` call
that made the object. `pc` gives each thread's place in the code, `iter` the handles
that a thread's `for (auto th : m_threads)` has still to join, `joinable` the
`std::thread` objects that are not joined. `Caller` stands for the HTTP thread or the
main thread, of which one at a time is inside the executor, because both hold
`m_executorMap_mutex`. `start()` is split at every access that another thread can
see: the store to `m_state`, each connect, each thread creation, each `push_back`,
the assignment of `m_pushStream`. `pause()` is split into the test, the store, the
evaluation of the range, each join, and the deletion of the handles.

What a worker does with packets and frames is `LoopIterate`, a step that changes
nothing here; it ends by `LoopExit` (it saw `m_state` false), `StreamEnd` (end of
input, an error) or `PushAllocFails`. An exception in a thread or the destruction of a
joinable handle ends the process (`alive`). Undefined behaviour (the unassigned
`m_pushStream`, the use of the deleted configuration, `push_back` against a running
iteration) is a choice between going on and ending the process.

### TaskScheduler and ServerProcess

`executor[i]` abstracts an executor to `absent` (not in the map), `running`,
`claimed` (`m_state` true, no worker, after a failed restart) and `off`. `ending`
are the tasks one of whose workers has called `pause()` and is in its joins. The
methods run under `mutex`, so each is one step between `ServerLocks` and
`ServerUnlocks`; only a failed add takes two, since its entry is in the map while the
executor is already deleted. (`AddErases`, the second, lets the deleted configuration
still yield its id, and so does `TaskExecutor`. That is more than the code can do, as
`~TaskConfig` nulls the pointer it reads through; the properties of the run `server` hold
without that outcome too. The insertion into the map that throws is a disjunct of `AddRefused`.) `main` follows `main()`, `loop()` and `~TaskScheduler`;
`deleter` follows `deleteTaskThread`. After the destructor's body (`Destructed`) the
map is empty and `m_config` null; after `MainDeletes` the memory is gone, and any
access by the HTTP thread either finds it intact or faults.

### PooledExecutor

`TaskExecutor` and `TaskScheduler` describe the same object at two levels. `View` and
`Ending` map the first to the second's `executor[i]` and `ending`, and `ImplementsPool`
says that every step of the executor is a step of the pool for one task, inside the call
that this step stands for, or none. A call takes effect at one point in it:
`addTask` when `start()` has succeeded (or, for a failed add, at the end of the
destructor and at the erase), `startTask` at the store to `m_state`, `pauseTask` after its
joins or, if the task has stopped before, nowhere, `removeTask` when nothing is left to
join. A worker that clears `m_state` itself is the pool's `WorkerEnds`. What the call
reports must agree with the entry when it returns.

`claimed` is not used by the mapping: after a failed restart the entry is `running`
whether workers run or not, which allows the pool all that `claimed` does and the ends of
workers besides.

`TaskScheduler` allows the process to end in any call of an executor. `PoolStep` says
more: in `addTask`, in a `removeTask` that finds the task stopped while handles are
unjoined, or once a worker has begun to end by itself. `pauseTask` and
`startTask` alone never end it, and the scheduler's joins never meet a handle twice.

### FramePipeline

A frame is the number under which it was decoded. `queue` holds the two
`stream_frameQueue`s, `mutex` the holder of each `m_frameQueueMutex` (only the
forwarding thread's sections are split; the others are one step each, which waits
until the lock is free). `last` are the two pointers of `PullStream::start` that keep
their value after the frame has been queued, `frame` and `frame_in` the pointers of the
other two threads. `freed` collects what `av_frame_free` was called on; a second call
on a frame, `front()` or `pop()` of an empty queue, and possibly the use of a freed frame
end the process. Emptying the queue in `disconnect()` is split into the test, the
free and the pop, since it takes no lock. A reconnect empties the queue twice, in
`disconnect()` and again in `connect()`; the second time it is empty, and only the pull thread
itself adds to it. `caller` is the scheduler's pause and removal of a task that runs;
what happens after a worker has stopped the task itself is `TaskExecutor`'s matter,
and so is a second set of threads, by a start of a task that runs.

The model is that of the program as it is built: `server.cpp` calls `WSAStartup`
unconditionally, so the key test is that of Windows, which does not block. (The
other branch of `is_escape_key_pressed` would block in `getchar()`, and `loop()`
would not see `m_state` until a key is pressed.)

### StreamConnection

`conn[s]` is the place in the `connect()` or `disconnect()` that is under way for the
stream `s`, `pc` the places of the scheduler's thread (`TaskExecutor::start`, then a
pause or a removal, then `~TaskExecutor`), of the pull thread and of the push thread. A
call of `connect()` begins where its caller sets `conn[s]` to `release`, the first line of
`disconnect()`, and is over when the caller finds `up` or `failed`; one action stands for
one call into FFmpeg with its error path, one round of the loop over the streams, or one
store to the configuration. `context`, `stream_ctx` and `codec_ctx` are the pointers: a
freed array whose pointer is kept is `freed`, not `null`. Between `avcodec_alloc_context3`
and the store into the array a codec context is known to a local variable only; a `connect()`
that returns there (stream.cpp:96-113, 546-574) leaks it, and `lost[s]` collects those.
`Owned` does not say that nothing leaks: it says that nothing in the arrays does, and
that such a `connect()` is the last of its stream, so a stream loses one context at most.
`streams` is what the input consists of; each `avformat_find_stream_info` may find
another of the `Layouts`, so a reconnect may. `config` has the two indices that the pull
stream's `connect()` stores in the task's configuration and both threads copy at their
start.

A stream's memory is used by two threads without a lock. Where one reads what the other
has freed or not made, the action is `Fault`, and the process is over. So is it when a
thread joins itself, or a trailer is written without a header.

One `start()` of the task is modelled; a second one on the same executor makes new stream
objects, and what becomes of the old ones is `TaskExecutor`'s matter. Frames are
`FramePipeline`'s.

### Configuration

`cma` and `task` are the maps of the two `ConfigManager`s, a parameter being its type and
value. A JSON object is a function on its names, a value has a kind, and `Converts` is the
table of what `get<T>()` of the JSON library accepts: numbers as `int` or `int64_t`, a
boolean as an `int` too. `...Reads` are the names and types that the readers ask for, in
`server.cpp`, `scheduler.cpp`, `executor.cpp` and `stream.cpp`; they are written down
independently of what the constructors set, so that a disagreement is a null pointer here
as there. `ended` says how the process ended: by `exit`, by an exception, or by a null
pointer. The values that a task's threads store while it runs (sizes, rates, indices) are
left out. A launch that fails, or an insertion into the map that throws, deletes the executor,
whose destructor deletes the `TaskConfig` and with it the parameters (`task` is empty from there
on). After a failed launch `addTask` asks that `TaskConfig` for its id (`erase`,
scheduler.cpp:193); the pointer it goes through is null, and the handler is the only thread
here, so the process ends in every behaviour that gets there. `NoNullParameter` names this
exception besides `--port`. `halfway` is a history variable: the running tasks whose
`PushStream::connect` returned true at stream.cpp:546-548, before it opened the push address;
only these may run without one. A request without a member that is needed ends the process, before
`check_config` could refuse it, which is therefore never seen to fail.

## The runs

| run | asks | bounds |
|---|---|---|
| `executor` | types; `HandlesRecorded`, `StateTracksWorkers`, `PushStreamAssigned`, `PauseQuiesces`; `TaskExecutor` implements `TaskLifecycle`, and the entry of `TaskScheduler`'s pool (`ImplementsPool`); `pause()` from the scheduler ends (`PauseTerminates`), and why: `PauseNeverStuck`, `PauseWindsDown` | two `start()` calls, any number of pauses |
| `server` | types; `MapBound`, `DestroyerAlone`, `RepliesTrue`; `ServerProcess` implements `TaskRegistry`; `NobodyStuck`, `DestructorEnds`; requests are answered, `loop()` notices the server's end, shutdown completes if the delete thread waits | three ids, limit two, four requests |
| `pipeline` | types; `Custody`, `FrontExists`; `FramePipeline` implements `FrameChannel`; a queued frame reaches the encoder | three frames |
| `connection` | types; `Owned`, `SafeUndisturbed`, `HeaderFirst`, `ThreadsAgree`, `DecoderOpen`, `NoThreadStuck`; `SourceLost`, `CallsReturn`, `StopCompletes` | two streams, in the layouts video, audio and data, video; one read error before a reconnect |
| `configuration` | types; `NoNullParameter`, `PoolUsable`, `ServesWhereTold`, `RunningTaskKept` | two hosts, six ports, six files, ten bodies |
| `self_join` | violated: what a comment says of `pause` | two `start()` calls |
| `shutdown_hangs`, `handler_after_delete`, `failed_add_faults` | violated: what comments and replies say of the destructor, the server thread, a failed add | two ids, limit one, two requests |
| `frame_freed_twice` | violated: what `stream.h` says of a queued frame's owner | two frames |
| `released_twice` | violated: what a comment says of `connect()` | as `connection` |
| `port_option` | violated: what the help says of `--port` | as `configuration` |

Two `start()` calls are enough for a first set of workers to meet a second: a third
set meets the same code as the second. In `server`, two ids fill the pool and the
third is refused; four requests let a task be added, operated, removed and added
again, or the pool be filled and emptied by one. (Its liveness properties
rule out symmetry in the ids.) The limits `MaxStarts` and `MaxRequests` are guards of `StartCall` and
`Receive` and bound nothing else. Three frames put one into each queue and one into a
thread's hand, with video and audio as the two pointers that may be left behind;
`MaxFrames` bounds only how many frames the decoder yields, the pull thread may go on
reading packets without a frame for ever.

In `connection`, two streams let a loop over the streams fail at its first and at its last
round, and leave one codec to be freed. Between the layouts the video moves to another
index and the audio goes or appears, so an old index can name a stream of another kind, one
without a codec, or the right one. The number of reconnects is not bounded. With an
`ErrorLimit` of one, errors are counted, reset and exceeded; five differ in nothing else.
In `configuration`, a file or a body is correct, without members, without one of them,
or with a value at a boundary: an empty address, another kind, a limit of one task. The
ports lie around the two limits of the code (1024, and what fits a `short`).

### Fairness

Weak fairness of each thread's own steps: the operating system runs every thread
that can run, and the library calls inside a step return. It is given to the main
thread without the key, to the HTTP thread, to the delete thread's two calls, to the
scheduler's calls on an executor, and to the workers' leaving of their loops once
`m_state` is false. It is not given to requests, keys, stream errors or spurious
wake-ups: those may never come. Weak fairness suffices for the mutex because only
one thread ever competes with the HTTP thread for it, once. `ServerProcess` takes for
granted that a method that holds the mutex returns; `PauseTerminates` of
`TaskExecutor` is the reason. In `FramePipeline` each of the three threads is weakly
fair. That a thread waiting for `m_frameQueueMutex` gets it in the end follows there
from the bound: the forwarding thread takes the push queue's lock once for every frame.

In `StreamConnection` the scheduler's thread, the pull thread, the push stream's
`connect()` or `disconnect()`, and the push thread are weakly fair: calls into FFmpeg return. (The code sets no
timeout, so this is an assumption about the network; without it nothing can be said.)
Nothing obliges the scheduler to stop a task, a read to succeed, or a connection to come
up; hence the form of `SourceLost`, in which the thread's end is due only when packets
and connections have ceased to come.

`NobodyStuck` and `NoThreadStuck` are about these same actions (`MainMoves`, `PullMoves`,
...): they name all that a thread may have to wait for, and say that a thread which has
none of it to wait for is `ENABLED`. They are stronger than the absence of deadlock, which one
running thread suffices for.

### What the violated runs show

1. `NoSelfJoin`: a stream worker that ends while `m_state` is set joins its own
   handle; `std::thread::join` throws and nothing catches. A task whose input ends by
   itself takes the server down.
2. `ShutdownCompletes`: `notify_all` before the delete thread waits is lost; the
   destructor joins for ever.
3. `NoHandlerAfterDelete`: the scheduler is deleted under the HTTP thread.
4. `AddFailureIsReported`: a failed add may end the process while it erases the entry.
5. `QueuedFrameIsGivenAway`: at its end the pull thread frees the frame it queued last,
   which the push thread or a drain frees as well.
6. `NothingReleasedTwice`: a reconnect that opens the input and fails before it has a new
   array leaves the old pointer, and the next `disconnect()` frees the array again.
7. `PortOptionWins`: `get<short>` and `get<int>` of the same option cannot both succeed,
   and the null result is followed: no `--port` is ever used.

## The proofs

`TaskExecutorProofs` proves, for any number of `start()` calls, what the run `executor`
checks for two: `TypeCorrect`, `HandlesStayRecorded`, `StateFollowsWorkers`,
`PauseJoinsAll`, `ImplementsLifecycle`, and that no worker runs when the destructor has
completed (`ExecutorOutlivesWorkers`). None of these is
inductive. The invariant `IInv` adds that workers not yet launched are fresh
(`UnlaunchedIsFresh`), that a freed executor has nothing to join (`FreedIsJoined`), that
the loop the Caller joins in still has every unjoined worker before it
(`JoinsTheRest`; true because nobody adds to `m_threads` while the Caller is in
`pause`), that a set `m_state` means that the pull and forward workers of the latest start have
not got past the store in `pause` (`SetMeansLooping`), and that the Caller is busy only after a first
start. The proof goes action by action, and in each by the conjuncts the action can
disturb. It assumes only `MaxStarts \in Nat`.

`PooledExecutorProofs` proves `ExecutorImplementsPool` from the same assumption. To `IInv`
it adds `Order`: which call the Caller is in (`CallInPlace`), that only a failed
add leaves `m_pushStream` unassigned (`PushAssigned`), that a thread which finds `m_state`
cleared between its own test and its own store has another at work in `pause`
(`StopHasCause`), that a worker's end during an add makes it fail (`AddNotices`),
and that no handle is listed early or twice, or joined by anyone while no worker joins
(`RecordedOnce`, `HandlesGood`). The crucial case is `WorkerDeletesKeeps`: a worker
survives its own `pause` only if it is the one `start()` is recording and no other is left.

`PauseProofs` is about the waits in `pause()`, again for any number of `start()` calls.
`PushStreamIsAssigned` follows from `Order`. `WaitsAreNotCircular` needs `WInv`: every
list of handles, in `m_threads` or left in a loop over it, is in the order of launching
(`ListsByLaunch`), a worker in that loop has its own handle still before it, or only
handles of earlier workers (`MeetsItself`), and what can be joined was launched. The lists stay in order because
`start()` appends handles in the order in which it launches. `PauseIsNeverStuck` takes the
earliest launched of the workers that have not finished: it sees `m_state` clear, or what
it waits for is finished, or is itself.
That there is such a one is `LeastNumber`, from the well-foundedness of the natural
numbers. `PauseKeepsWindingDown` goes through the steps that are possible meanwhile.
Together they are the safety part of `PauseTerminates`: some thread can go on, and
whatever goes on gets nearer to its end. `PauseEnds` concludes from them, with weak fairness,
that the pause ends.

`ServerProcessProofs` proves `ProcessTypeCorrect`, `PoolStaysBounded`,
`DestroyerIsAlone`, `RepliesStayTrue` and `ImplementsRegistry`, for any finite set of
ids, any integer limit and any number of requests. The strengthening says who holds
the mutex (`LockHeld`), what a handler on its way has and has not done yet
(`NotYetServed`), that a result is true from the moment the method has it
(`ResultTrue`), and that the HTTP thread does not exist before the main thread's
first step. The bound follows from one lemma: no step enlarges the pool but one by
`addTask` below the limit (`TasksGrowBelowLimit`).

`GuardsHold` says that each thread that waits for nothing `NobodyStuck` names finds the guard
of one of its actions true (`SomeGuardHolds`), which needs `IInv`, that `help` calls no method
(`HandlerHasMethod`), and that the destructor leaves no task and no handler adds one
(`Emptied`). `NobodyIsStuck` follows, if an action whose guard holds is `ENABLED`.

The last part proves liveness: `LoopNotices`, `RequestIsAnswered`, `DestructorReachesEnd` and
`ShutdownEnds`. For each stage of a handler or of the shutdown there are three facts: no step
leaves the stage but forward (from `OneThreadMoves`), the fair thread's step leaves it, and in
it the thread is enabled, which `NobodyStuck` says. The destructor's loop ends because no one
adds a task meanwhile (`DestructorAddsNone`) and each round deletes one. The shutdown
also needs requests to stop arriving (`RequestsStop`, a behaviour in which after some time
no `Receive` happens): a client that asks for ever could keep the destructor from the
mutex, since weak fairness does not oblige the mutex to change hands. In the run
`MaxRequests` sees to it. `LoopNotices` rests on `QuietBegin`: before the first request there
is no task whose worker could end the process, and a thread that has ended has cleared
`m_state`, which nothing sets again. `ServerGoesOn` puts the pieces together.

`FramePipelineProofs` proves `PipelineTypeCorrect`, `FrontAlwaysExists`,
`FramesInCustody` and `ImplementsChannel`, for any number of frames. `Core` says who holds
the locks and which pointers are set: the push thread has seen a frame that only it can take, or
the forwarding thread is just appending one. `Ordered` says that a frame further on its
way was decoded earlier; from it follow both the channel (the encoder's frame is below
all others) and the disjointness in `Custody`. Most steps only let frames stay or go
away (`Loses`), which one lemma settles; decoding, queueing, taking, appending and encoding have
a lemma each. `Custody` is made inductive by what the pull thread has not done yet (`Kept`).

`FramesDoMove` is liveness, for any number of frames. `Left` weighs every frame by how many
hand-overs it has before it, those not yet decoded included. While the task runs no step
enlarges it (`EachTurn`), so in a behaviour in which a frame is never written it stays the
same from some time on. Then the pull thread goes round without a frame (it may do so
for ever), the forwarding thread can only come to rest with nothing in its hand and its queue
empty (`Clear`), and the frame, which is still on its way (`TurnKeepsUnderway`), is the push
thread's to take: the lock is free, and each label of its loop leads to the one at which it
must take or write a frame. That no two of the threads wait for each other is part of this.

`StreamConnectionProofs` proves `ConnectionTypeCorrect`, `MemoryIsOwned`,
`PushIsReleasedOnce`, `UndisturbedIsSafe`, `DecoderIsOpen` and `ThreadsDoAgree`, for any
number of streams, any layouts and any number of errors before a reconnect. The invariant
has four layers, each proved from those before it. `Control` says which threads exist at
each stage and that one thread at a time is inside a stream's `connect()` or
`disconnect()`. `Kept` follows the memory of a stream through the two: an array that is not
freed has an open context, and what is destroyed or not yet connected has none; its part
`LostOnce` says that a `connect()` that has lost a codec context failed at it, or returned
half-way, and that no other follows on that stream.
`PullComplete` and `PushComplete` say that the codecs opened so far are those of the streams
below the loop's index, so that a connection that is up has all of them. `Indices` says
that, until the pull thread disconnects, both threads work with the indices the
configuration has. `SafeUndisturbed` then follows fault by fault. `HeaderIsFirst` adds
`HeaderWritten`: a push stream that came up whole has its header until it is closed.

The rest is liveness. `GuardsHold` and `NothingIsStuck` are as in `ServerProcessProofs`: whatever
the pull stream's connection looks like, `PushStream::connect` has an outcome for it, and a
thread that waits for its call is at the label that takes the result. `EachCallReturns`: a
`connect()` or `disconnect()` has a number of steps left (`Left`), one for each stage and one
for each stream still to be opened, which its own steps lower and no other step raises.
`StopEnds`: while the starter is in
its joins `m_state` is clear for good (`Stopping`), so the pull thread goes from wherever it is
to its last read and to its end (`PullStops`), the push thread starts its loop at most once
more (`PushStops`), and then both streams are disconnected. `LostSourceEndsPull`: while no packet
comes and no connection is up, only the pull thread changes the number of errors, so it passes
the limit, and a reconnect that fails is the thread's last. `StopEndsFromGuards` and
`LostSourceEndsPullFromGuards` put the pieces together.

`ConfigurationProofs` proves `ConfigurationTypeCorrect`, `ParametersAreThere`,
`RunningTasksAreUsable`, `TheAddressIsTheOneTold` and `RunningTasksAreKept`, for any
options, files and request bodies. The core is `NamesAndTypes`: the names and types
the readers ask for are among those the constructors set. The invariant carries that from
the file over the override of the host to the handlers (`ServerTyped`, `Overridden`), and
says how far the task of a request has been looked at (`TaskLookedAt`): typed, then with an id
and a source, then new to the pool, which is why a launch replaces no task, and after a
failed launch gone. The theorems state the same exceptions as the properties: the port and the
erase after a failed launch, and the tasks in `halfway`.

### What the liveness theorems assume

Every property of a passing run is stated by a theorem. Those that hold by fairness have
hypotheses besides `FairSpec`, each true of every behaviour of the specification for a reason
the prover cannot express:

* `GuardsEnable` (`ServerProcessProofs`, `StreamConnectionProofs`, `PauseProofs`,
  `FramePipelineProofs`): if the guard of an action holds, the action is `ENABLED`. The prover has
  no rule for `ENABLED`. The guards are written out disjunct by disjunct (`MainReady`,
  `PullReady`, `PushReady`, `CanStep`, ...), and every action assigns all the variables and
  changes one. TLC evaluates `ENABLED`: on the instances of the runs `GuardsEnable` is an
  invariant, and so is its converse for `StreamConnection` and `FramePipeline`.
* `NoEndlessFall`, `NoEndlessErrors`, `NoEndlessWinding`: a natural number does not fall
  again and again without growing. That each is a natural number is proved (`LeftIsNatural`,
  `TasksFinite`, `ConnectionTypeCorrect`); the induction over time is out of reach, as the
  temporal prover is propositional and the induction rule takes no temporal formula. In
  `NoEndlessWinding` there is a number for each thread and each stage, of finitely many.
* `FairnessLasts` (`PauseProofs`): weak fairness at one moment is weak fairness at every later
  one. The temporal prover sees that of one action, not under a quantifier over the workers.
* `RequestsStop`: no client asks for ever. This one is a restriction.

So of a property like `FramesMove` the theorem proves the argument (what lowers the number,
what never raises it, who can go on in each state), and TLC checks the conclusion outright
on its instance. Only refuted, by a counterexample, are the properties of the violated runs.

## Not modelled

* The vendored libraries, and FFmpeg and libevent: a call has its possible outcomes.
* JSON text, log lines and messages: a request is well formed or the parser throws. The
  copy of a request's bytes in `parse_post`.
* Most of the lines under `src/` are vendored: `json.hpp` (24596 lines), `log.h` (5195), `log.cpp`
  (3121) and `argparse.hpp` (2035) of 38262. Their outcomes are modelled, their code is
  not, so the share of all lines that the modules stand for stays small; it is most of
  the 3300 lines of the program itself.
* `getTaskConfig`, `getTaskList`, `parse_get`, `TaskComparator`, `PushStream::reconnect` and
  the overloads without result arguments have no caller.
* In `StreamConnection`: a second `start()` of the same executor, the sizes and rates of streams. In `Configuration`: a
  configuration that was refused and is never freed, `--help`, the values that the
  threads of a task store.
* `setValue`'s callbacks (none is registered), `checkCancel`, and the second constructor of
  `TaskConfig`, which have no caller.
* The contents of a frame, timestamps, and the encoder's own buffering: a frame counts as
  written when it has been given to the encoder.
* `AlgorithmManage` and `ResultManage` are empty.

## Plan

1. `TaskExecutor`, `TaskLifecycle`, proofs: done.
2. `TaskScheduler`, `ServerProcess`, `TaskRegistry`, proofs: done.
3. `FramePipeline`, `FrameChannel`, proofs: done.
4. `StreamConnection`, proofs: done.
5. `Configuration`, proofs: done.
6. `PooledExecutor` (the executor implements the scheduler's entry for it), proof: done.
7. Liveness of the server, of the connections, of `pause()` and of the frames, from the guards
   of the fair actions and the numbers that fall; the header of the output: done.
8. Left: the ends of the loops in `FramePipeline` and `StreamConnection` as the executor's
   `StreamEnd`. The three share only `m_state` and the workers' places; the product of their
   state spaces is out of reach of TLC.
