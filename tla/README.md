# Verification of SteamDeckGyroDSU

SteamDeckGyroDSU reads the HID reports of a Steam Deck's controls and serves
their motion data over UDP with the DSU (cemuhook) protocol. This directory
holds TLA+ models of the program, configurations with which TLC checks them,
and proofs that TLAPS checks. Paths below are relative to the repository.

## 1. Inventory

| component | state | operations |
|---|---|---|
| `PipeOut<T>` (`inc/pipeline/pipeout.hpp`) | `bufMod`, `bufSent`, `bufRcv`, `bufWasSent` | `SendData`, `WaitForData` (with and without timeout), `TryData`, `Flush` |
| `Serve<T>` (`inc/pipeline/serve.hpp`) | a mutex, the flag `served` | `ServeLock` (producer), `ConsumeLock` (consumer) |
| `Thread` (`src/pipeline/thread.cpp`) | `executeThread`, `stop` | `Start`, `Stop`, `Kill`, `TryStopThenKill`, the restarts |
| `SignalOut` (`src/pipeline/signalout.cpp`) | `signal` | `SendSignal`, `TrySignal` |
| `ReadDataApi` with `HidApiDev` (`src/hiddev/...`) | the device, `Data` | loop: signal or read, then send |
| `ServeFrame` (`src/hiddev/hiddevreader/serveframe.cpp`) | `frames`, `framesMutex`, `framesCv` | loop: wait for consumers, lock them, wait for a frame; `GetServe`, `StopServe`, `FlushPipes` |
| `HidDevReader` (`src/hiddev/hiddevreader.cpp`) | the list of threads, `startStopMutex` | `Start`, `Stop`, `GetServe`, `StopServe` |
| `CemuhookAdapter` (`src/sdgyrodsu/cemuhookadapter.cpp`) | `ignoreFirst`, `lastInc`, `lastTimestamp`, `toReplicate`, `noGyroCooldown` | `StartFrameGrab`, `SetMotionDataNewFrame`, `StopFrameGrab` |
| `Server` (`src/cemuhook/cemuhookserver.cpp`) | `clients`, `checkTimeout`, `stop`, `stopSending`, the answers | `serverTask`, `sendTask`, `CheckClientTimeout`, the destructor |
| `main` (`src/main.cpp`) | `stop`, `stopMutex` | start-up, `SignalHandler`, wait, destruction |
| `ReadDataFile` with `HidDevFile` (`readdatafile.cpp`, `hiddevfile.cpp`) | the file, `Data` | loop: read, check, reopen or send; used instead of `ReadDataApi` with `cUseHiddevFile`, which is off in the shipped build |
| `ProcessData` (`processdata.cpp`) | a second `PipeOut` | loop: wait for records, decode, send; restart of `ReadDataFile` when none come |

Not stateful, or not part of the service: `HidDevFinder`, `Presenter`,
`GyroValDetermine`, `log`, `shell`, the scripts in `pkg/`.

How they interact:

```
            hid_read            PipeOut              Serve            sendto
 device ------------> ReadDataApi ----> ServeFrame ----> CemuhookAdapter ----> clients
                          ^                               (in sendTask)
                          +------------- SignalOut NoGyro -----+
 clients -- recvfrom --> serverTask -- starts, stops, joins --> sendTask
 main    -- ~Server: stop, join --> serverTask
```

The first client that subscribes makes `serverTask` start `sendTask`, which
starts the two threads of the pipeline; the last client that falls silent makes
it stop them. One process goes through many such sessions with the same objects.

What is hard, and what makes each part correct:

* `PipeOut`: three instances, exchanged by pointer so that neither side waits
  while the other works. The receiver gets the newest object, and never one that
  is being written. `FlushPipes` of `ServeFrame` breaks the discipline: it calls
  `SendData` from the receiving side.
* `Serve`/`ServeFrame`: consumers read in place, so the frame may not be
  exchanged while any of them reads. `framesMutex` is held during an unbounded
  wait for a frame.
* `Thread`: stop flag, flush, join, and after a timeout `pthread_cancel`. A lost
  notification or a silent device may not keep `Stop` from returning.
* sessions: what the last one left in buffers and flags may not reach the next.
* `CemuhookAdapter`: reports are lost and repeated, the device's 32-bit counter
  restarts and wraps; the timestamps of motion data still have to advance evenly.
* `Server`: subscription, timeouts counted by two threads, one answer buffer for
  all clients, start and stop of `sendTask`, shutdown.
* hiddev-file path: a thread of the pipeline stops, kills and starts another one
  while somebody stops the whole pipeline; `Thread` has no lock for that. A read
  may hang, fail half-way or start in the middle of a report.
* `main`: a signal may come at any time and on any thread, before there is
  anybody to wait for it, too; the objects go in the right order.

`PROJECT.json` lists the hazards one by one with the lines they are at.

## 2. Modules

| module | models | composed of |
|---|---|---|
| `LatestValue` | abstract: a mailbox of one place in which newer objects replace older ones, and only a flush makes an older one be received | |
| `PipeOut` | the operations of `PipeOut<T>` | |
| `PipeOutThreads` | a writer and a reader that share a `PipeOut` as its header prescribes | `PipeOut`; refines `LatestValue` |
| `FramePipeline` | `ReadDataApi`, `HidApiDev`, `ServeFrame`, `Serve`, `Thread`, `HidDevReader` and its consumers | `PipeOut` |
| `FrameHistory` | `FramePipeline` with a record of the frames each consumer was handed | `FramePipeline` |
| `CemuhookAdapter` | `CemuhookAdapter` and the NoGyro signal | |
| `FilePipeline` | `ReadDataFile`, `HidDevFile`, `ProcessData`, `Thread` with two callers, `HidDevReader` with the pipeline of the hiddev-file constructor | `PipeOut` |
| `Subscriptions` | abstract: who is subscribed, and that each packet reaches each subscriber once | |
| `Server` | `Server`: both threads and the destructor | refines `Subscriptions` |
| `Main` | `main()`, `SignalHandler` | `Server` |
| `PipeOutProofs`, `FramePipelineProofs`, `CemuhookAdapterProofs`, `FilePipelineProofs`, `ServerProofs`, `MainProofs` | theorems about the module they are named after | `MainProofs` uses `ServerProofs` |

Operators marked "Slip" in the modules are wrong variants of the definition
below them. They are used by no specification; each shows, put in the
definition's place, that a property notices such a mistake.

### PipeOut, PipeOutThreads, LatestValue

The critical sections of `bufSentMutex` never block, so each operation is one
action, and a wait is an action that is enabled while its predicate is true (the
flag changes under the mutex of the condition variable, so no notification is
lost). Filling and reading an instance are split into begin and end, since the
code does both without a lock. `IsLatestValue` maps the number of objects sent
to `SentCount`, the object on offer to the content of `bufSent` while
`bufWasSent` holds and of `bufRcv` afterwards, and `waiting` to `bufWasSent`
itself. `ForceWait` calls `Flush` at any time, so the refinement says exactly
how much of the promise `Flush` takes back: the next object received may be an
older one, never one that was not sent.

### FramePipeline

One program counter per thread of the code: `readAt`, `serveAt`, and `at[c]` for
each consumer. The `Sender` is the send thread of the DSU server; after its last
packet it stops the pipeline itself, and the thread that `std::async` creates
for `Thread::Stop` is part of it, because the caller waits for it. Lock
ownership is read off the program counters and the set `locks`.

* A wait on `framesCv` has three states: the predicate is evaluated
  (`waitServes`), found false with the mutex still held (`blocking`), and asleep.
  `stop` is set between any two of them, which is what the lost notification
  needs. A condition variable may also wake up by itself (`WakeUnnotified`);
  fairness does not make it do so.
* A read is `TryNoGyro` (which takes the pointer to fill) to `ReadReport`. It
  stores a whole report, a part of one (`Torn`), or nothing, and returns the
  count `HidApiDev::Read` would return.
* The comparison `readCnt < data->size()` is made modulo `SizeModulus`, 2^w for
  the width of `size_t`.
* `StopTimeout` may happen at any time: nothing orders the 10 s. A cancelled
  thread stops at its cancellation points only: `hid_read` and `hid_write`, the
  waits on condition variables and the sleep (the lines logged in between are
  left out). Unwinding releases what it holds.
  `LateCancel` is the cancellation of a thread that has just been joined, when
  it ends the process; when it does nothing, it is no step.
* `OpenFails` is the exception that ends the process. `RestartProcess` is the end
  of the process and the restart by systemd (`pkg/sdgyrodsu.service`). The device
  goes on counting.
* The history variables `seen` and `stale` record the newest report that is old
  news to a consumer and whether a read has failed since it started.
* The moved `ConsumeLock` tests a `moved` that its move constructor
  (`serve.hpp:16`) never sets. Either outcome leaves `served` FALSE under the
  mutex, so the model needs no choice there.

`FrameHistory` adds the variable `handed`, the last frame each consumer was
given, for the one property that compares a frame with the one before it.

### CemuhookAdapter

A motion is its timestamp and the Increment of the frame whose values it
carries; smoothing and the dead zone are abstracted into "the values of that
frame". (The special case for a header of 0xDD in `SetMotionData` is dead code:
`frame.Header & 0xFF == 0xDD` compares the two constants first.) The Increment
of the next frame is any of the `IncModulus` values, which covers loss,
repetition, restart and wrap-around. `isPersistent` is chosen in `Init`, so one
run and one proof cover both kinds of caller. `sinceSignal` and `emitted` are
history.

### Server

A turn of `serverTask` is the path from `loop` through `recv` and back. Every
critical section of the code is a step of its own, except the shared lock of
`clientsMutex` which `sendTask` holds while it goes through the clients
(`sendAt = "send"`), during which nobody changes the list. `dataAnswer` is the
one buffer of `sendTask`: the number of the packet and the id it was last
rewritten with. An uninitialised `eventType` is a member of `UnsetTypes`.
`answers` is the set of the answers sent in a turn, built by `VersionAnswer` and
`InfoAnswer`. A request for information is answered for any set of slots, because
`portCnt` is not compared with the four slots a request has room for; the empty
set stands for every datagram nobody answers. `answers` is history, and so is
`got`, the last datagram each address was sent in its present subscription.
`StreamUnbroken` says with it that the number goes up by one from datagram to
datagram and the id stays, for each client, whoever comes and goes in between.
`StartFrameGrab` and `StopFrameGrab` are single steps here; `FramePipeline` and
`CemuhookAdapter` say what they do and that they come to an end.

`IsSubscription` maps the list to a function from addresses to `sendTimeout`, and
the packet on its way to the addresses of the clients from `next` on. It says in
one place what the guards of seven actions bring about together: nobody comes or
goes under a packet that is being sent, nobody is dropped before he has been
silent long enough, asking again starts the count anew and does not make two
subscriptions, and a packet that was begun reaches everyone.

### FilePipeline

`at` is where each of the two threads is. `Thread::Stop` runs on a thread of its
own (`std::async`), so each caller of `TryStopThenKill` has two places: `stopAt`
for `Thread::Stop`, `waitAt` for whoever waits for its future, gives up and
cancels. The callers are `HidDevReader` (start, then stop from the end of the
pipeline, for ever) and `ProcessData` (restart of `ReadDataFile`); neither holds
a lock the other takes.

* A read takes the pointer to fill when it begins, and `FlushPipes` may exchange
  that buffer under it. It hangs as long as it likes: `Read` has no fairness
  while a file is open. Its outcome is a count and whether the start marker is
  there; `CheckData` decides from these, modulo `SizeModulus`.
* A full count may also be the end of one report and the start of another. The
  marker is then missing, as a rule; the bytes where it is looked for may look
  like it, and then the records are taken for whole ones.
* No timeout is ordered by a clock: `ProcessData` may find nothing at any time,
  and `TimedOut` may come at any time before the future is ready.
* A cancelled thread ends at a cancellation point: the file operations, the wait
  for records, the first line logged in a restart and the join at its end. Other
  lines that are logged are left out.
* `ProcessEnds` is the exception when the file cannot be opened at first, and
  what `pthread_cancel` on a joined thread may do; systemd starts the process
  again.
* `trust` and `decoded` are history: the first object of a session may be left
  over, and after a read that failed with -1, or found the marker by chance,
  nothing is said about the order in that session.

### Main

`Main` EXTENDS `Server`; the variables of `Server` are as its constructor leaves
them until `mainAt` has passed `build`. `Build` ends with the constructor of `Server`,
whose threads run from then on and may be the ones a signal interrupts while main
still logs (`built`); `LockStop` takes `stopMutex` for the wait. `SignalArrives` interrupts main or
another thread. Whether the interrupted thread is just logging is a free choice
wherever it may log; then, or if main holds `stopMutex`, the handler waits for a
mutex that its own thread holds (`stuck`). The wait is evaluated under the mutex
(`test`), left for a notification, and may wake up by itself. `BuildFails` is
the exception of `Server::Start`.

## 3. Runs

Each run finishes within two minutes on a small machine.

| run | bounds | shows |
|---|---|---|
| `PipeOutThreads` | 8 objects, Flush at any time | type; `NoTornRead`; `IsLatestValue`: refinement of `LatestValue` |
| `FramePipelineSafe` | one consumer, 2 reports, 2 bytes | type; `NoTornRead`; `FreshUnlessReadFailed` |
| `FramePipelineTwo` | two consumers, no whole report | `FrameKeptUnderLock` |
| `FramePipelineLive` | one consumer, 1 report, 1 byte, fairness | `ConsumerServed`; `StopReturns` |
| `CemuhookAdapter` | 12 Increments, both kinds of caller, fairness | type; `GapFilled`; `StampsInStep`; `SignalsApart`; `CallReturns` |
| `Server` | 2 addresses, 2 ids, timeout 1, fairness | type; `SendThreadIffClients`; `SubscribedOnce`; `FoundClientKept`; `StreamUnbroken`; `SilentClientDropped`; `DestructorReturns`; `IsSubscription`: refinement of `Subscriptions` |
| `FilePipeline` | 1 report, 2 bytes, two callers, fairness | type; `NoTornRead`; `RestartAlone`; `NothingSurvivesStop`; `DecodedInOrder`; `StuckReaderReplaced`; `StopReturns` |
| `Main` | 1 address, 2 signals, fairness | type; `DestroyedInOrder`; `SignalStops` |

Why the bounds are enough for what they are used for:

* Three instances are what the code has. Sessions are not bounded: start and
  stop repeat for ever, so leftovers of any earlier session are reached.
* `MaxIncrement` bounds the whole reports of a run. Two are enough for a buffer
  that is two exchanges old to be told from the newest one; with none
  (`FramePipelineTwo`) the device still times out, and those reads are passed on
  too, so frames keep being exchanged. `FrameLen` is 2 where broken reads
  matter, 1 elsewhere; all values of `size_t` from 16 up behave alike.
  `FramePipelineRecent` has 1, so that no frame is a broken one, and 2 reports:
  what TLC finds is a timeout, and a frame that is older than the one before.
* The adapter compares an Increment with 1, with the repeat window and with the
  greatest gap that is filled: 3 and 4 of 12 leave room on both sides of every
  limit and for a wrap-around. The cooldown of 3 calls and 2 repetitions stand
  for 1000 each.
* `sendTimeout` is compared with one limit only, so it stops growing just above
  it. The packet number counts modulo 3 and there is a tick every second packet,
  where the code has 2^32 and 500. Two clients are needed for one to keep the
  other's socket busy.

* In `FilePipeline` one report tells the newest records from older ones (0 is the
  content of a buffer nothing was read into); with two, 1.1 million states, the
  same holds. Sessions, restarts and crashes are not bounded.
* `Main`: one client is enough for the Server to be in every state a signal may
  find it in, with and without a send thread; the second signal is the one that
  comes while the first one is being handled or after it.

Deadlock is checked in every run. `Destroyed` is the only state in which the
server may stop, `Halted` (exited, or stuck for good) that of `Main`.

### Fairness

* `FramePipelineLive`: weak fairness of both pipeline threads and of whoever is
  inside an operation, which is what a preemptive scheduler gives. Strong
  fairness of the steps that take a lock `ServeFrame` takes again and again: it
  sleeps 500 us between two frames without holding any. Strong fairness of
  "a read is passed on": the device sends whole reports or falls silent, but does
  not answer with short reports only. Nothing is assumed of the consumers'
  wish to go on or to stop.
* `CemuhookAdapter`: a call that has begun goes on; a frame comes, which is
  `ConsumerServed`.
* `Server`: both threads run (`recvfrom` has a timeout of 2 s, the adapter
  returns by `CallReturns`), and strong fairness of the exclusive lock on
  `clients`, which `sendTask` gives up after every packet. No fairness of
  clients. `stop` need not happen.
* `FilePipeline`: both threads, whoever is inside an operation, and a file that
  is not open (`Read` answers at once). Not a read from an open file, and nobody
  has to start or stop anything. So `StuckReaderReplaced` shows that it is
  `ProcessData` that ends a read that hangs, and `StopReturns` that the
  cancellation after the timeout does.
* `Main`: that of `Server`, every step of main and of the handler, and waking up
  after a notification only: a wait never ends by luck.

## 4. Findings

Four runs each check one statement the repository makes about itself, which TLC
refutes.
In the first, the consumer is handed the second report and then the first one,
each by a read that timed out.

| run | statement | what the code does |
|---|---|---|
| `FramePipelineRecent` | `hiddevreader.h:21` "provides most recent frame" | `readdataapi.cpp:51` compares -1 with a `size_t`; a timeout publishes an old buffer |
| `FramePipelineFlush` | `thread.h:44` "Force thread to continue through all waits" | `serveframe.cpp:104` can notify between predicate and sleep; `Stop` then takes 10 s and a cancellation |
| `AdapterRestart` | `cemuhookadapter.h:22` "in case of missing frames" | `StartFrameGrab` leaves `toReplicate` from the last session |
| `ServerAnswers` | `cemuhookprotocol.h:17-20` event types | `eventType` of the version answer is never set |

Some observations have no run of their own. `FlushPipes` (`serveframe.cpp:103`)
calls `SendData` on a buffer that may just be read into, where `pipeout.h:25,32`
speaks of sending "the modified object". In spite of it no consumer sees a torn
frame in the shipped configuration (`NoTornRead`, checked and proved): its only
consumer is the thread that stops the pipeline, so nobody reads while the buffers
are exchanged the wrong way round, and the frame left behind is the one
`ignoreFirst` skips.

The header of a data packet carries the id of the client addressed
(`cemuhookserver.cpp:354`), where `cemuhookprotocol.h:15` calls it constant among
one run: with two clients of different ids the code and the comment disagree, at
the first packet. What is left of the comment is constant among one
subscription, and `StreamUnbroken` includes it.

`thread.h:25` says "Kill if stopping fails."; `thread.hpp:10-12` also cancels when
the stop succeeds between the end of `wait_for` and `pthread_cancel`, which is
then called on a thread that has been joined (`LateCancel` and `ProcessEnds` are
the outcome that ends the process).
`hiddevreader.h:60` says that the destructor closes the input file; a
`ReadDataFile` that was cancelled leaves it open until the next run opens it
again, because nothing closes it on unwinding. `hiddevreader.h:31` says that the
constructor starts the pipeline, which it does not. And `readdatafile.cpp:86` has
the comparison of `readdataapi.cpp:51`: on the hiddev-file path only the start
marker stands between a read that failed and `ProcessData`.

What `FramePipelineRecent` shows may be something the code has come to rely on:
because timed-out reads are passed on, a consumer is served while the device is
silent. With the comparison repaired alone, `ConsumerServed` fails, since
`ServeFrame` waits for a frame without a bound.

## 5. Theorems

For every value of the constants, under the assumptions named in the modules:
the three instances of a `PipeOut` differ, and so do the three of the one with
records (`FileAssumption`; the code allocates them one by one); bounds are natural
numbers; the Sender is not a presenter.

* `PipeOutProofs`. `Ownership` proves the inductive invariant: the pointers own
  the three instances, and a thread at work holds its own one
  (`OwnInstance`). It is needed because `NoTornRead` alone says nothing of
  where the pointers are when work begins. `TypeCorrect` and `NeverTorn` follow.
  `UnsentIsKept` adds `OnlySent`: an object filled and not yet sent is in
  `bufMod`, and whatever the other instances hold has been sent. With it
  `ImplementsLatestValue` maps every step to a step of `LatestValue` or a
  stutter, whatever use is made of `Flush`.
* `FramePipelineProofs`. `LocksExclude` proves the invariant about the mutexes
  of the Serves (only registered ones are locked, a consumer that reads is not
  locked, ServeFrame has all of them while it waits for data); `FrameKept`
  follows for any set of consumers. `FillsOwnBuffer` proves, for one consumer,
  that what is being filled is the writer's own instance until `FlushPipes`
  exchanges it, and that after this the Sender does not read until `ReadDataApi`
  is joined (`Flushed`); `NeverTorn` follows. It is not true with presenters,
  which is why the theorem has that hypothesis. `TypeCorrect` includes
  that no content is newer than the newest report.
  `FreshFrames` has the same hypothesis and two more invariants. `SessionInv`
  says what a session can rely on: its consumer is registered exactly while it is
  served, neither thread is told to stop or cancelled under it, and when it asks
  for its Serve, `ServeFrame` does not wait for data yet and `ignoreFirst` holds. `NewsInv` follows a report through the buffers: what was
  read and not sent is newer than everything else; what was sent is newer than
  what was received, once the first frame has been received; and a frame on offer
  is newer than what the consumer has seen. The exception for the first frame is
  the buffer left over from the session before. All of it ends with the first
  read that fails, as `FramePipelineRecent` shows.
* `CemuhookAdapterProofs`. `GapInvariant` proves that in a gap `lastTimestamp`
  is as many scan times behind `lastInc` as replicas are still to come, and
  that the last motion made agrees; `SessionInv` separates a gap of this session
  from one left by an earlier one. `TypeCorrect`, `GapsAreFilled` and
  `StampsGoInStep` follow, for both kinds of caller. `SignalsAreApart` rests on
  `CoolInv`: the calls since the last signal and the calls before the next one
  add up to the cooldown, so a signal can only be sent when a whole one is over.
  A signal counts when it is set anew, too: two within one call, which no call
  separates, would break the property.
* `FilePipelineProofs`. `LifeCycle` proves `LifeInv`. `RestartAlone` alone is not
  inductive: that `ProcessData` cannot be running once `Stop` has gone on to
  `ReadDataFile` takes that a ready future means a joined thread
  (`ReadyMeansGone`) and that `ProcessData` runs only between its start and the
  end of its stop (`RunsInBetween`). `NothingPending` says that a request to stop
  and a cancellation end with the thread they were meant for. `RestartsAlone`
  and `NothingSurvives` follow. The lemma `MovesKeep` covers all steps of the
  two threads, which only go from one place to another.
  For the buffers, `Serving` names the time in which `ProcessData` may take
  records, from its start until its stop flag is set; `ServingBegins` shows that
  it begins only when the whole pipeline was stopped: a stop flag that is set stays
  set until its thread is joined. `FlushInv` says that only `HidDevReader` calls
  `FlushPipes`, and outside of this time, and `FillInv` that within it a read fills
  the writer's own instance; `NeverTorn` follows. `OrderInv` is the
  counterpart of `NewsInv` for records, with `trust` for the time in which no
  read failed; `InOrder` follows. `Quiet` collects the steps that touch none of
  this, which are most of them.
* `ServerProofs`. `ThreadIsHeld`: `serverTask` has a thread to join exactly while
  there is a send thread. `TypeCorrect` is proved as `TypeInv`, which also says
  that `sendTask` is at the first client whenever it is not sending and that a
  request is there while it is handled. `SendsForClients` needs `ForClients`
  (clients without a send thread exist only between `AddClient` and `StartSend`,
  a send thread without clients only between the erasing and the join) and
  `ToldToStop` (`stopSending` is set only while somebody is about to join).
  `OncePerAddress` and `FoundStays` come from `SubscriptionInv`, with what
  `serverTask` remembers between its critical sections: whoever is about to be
  added is not in the list, whoever is about to be touched is, because only
  `serverTask` itself adds and erases. `StreamsUnbroken`
  needs two invariants. `StreamOf`: whoever has been sent something is
  subscribed, under the id it was sent. `StreamAt`: the packet `sendTask` is at is
  the one after the last a client was sent, if it is still due to the client, and
  the same one otherwise; and `sendTask` does not begin anew, with packet
  number 0, while there is a client that was sent something (`SessionGoesOn`,
  from `ForClients` and `ToldToStop`). That nobody comes or goes during a walk
  through the list is what keeps a client on its side of `next`.
  `Remaining`, the erasing of clients, is a loop over the list. That the loop
  keeps exactly the clients that are not late, in their order, is shown by
  induction on how far it has come (`RemainingSelects`). The library's theorems
  on induction have the predicate as a parameter, which no prover here
  instantiates; `Induction` says the same of a set of numbers, and
  `LoopExists` that the recursive function exists at all, without which its
  definition, a CHOOSE, would say nothing.
  `ImplementsSubscriptions` maps each of the six actions that change the list or
  the place in it to one step of `Subscriptions` (`TouchIsRequest` to
  `SendIsDeliver`), and all others to a stutter (`OthersKeepPromise`). That no
  address is subscribed twice is needed for it: only then is the list a function
  from addresses to silence. It is the safety part of `IsSubscription`.
* `MainProofs`. `RunsServer`: whatever main() and its signal handlers do, the
  program takes steps of `Server` only, so that all theorems of `ServerProofs`
  hold in the program. `MainTypeCorrect` uses it, and `DestroyedLast`, which rests
  on `ThreadHeld` (`serverTask` ends only without a send thread) and
  `JoinedFirst`: main() destroys nothing else before it has joined `serverTask`.

Model-checked only: liveness under fairness, which is out of reach of the prover
(`ConsumerServed`, `StopReturns`, `CallReturns`, `SilentClientDropped`,
`DestructorReturns`, `StuckReaderReplaced`, `SignalStops`, and of `IsSubscription`
that a packet that was begun reaches everyone). Every safety property of a passing
run is stated by a theorem. The four statements refuted in section 4 are of course
not proved.

## 6. What is not modelled

The byte layout and CRC of datagrams, reads past the end of a request (a
`portCnt` of more than four, `cemuhookserver.cpp:259`) beyond the slots they come
up with, the options of the socket, the text parsing
of `HidDevFinder`, the wording of the log, the presenter's output, packaging.
Memory effects of data races are not modelled: `stopSending = false`
(`cemuhookserver.cpp:288`) is written without its mutex, but before the thread
that reads it exists. Destructors of threads that are still running at the end of
the process do not occur: `~HidDevReader` stops the pipeline first. The vector
`frames` behind the Serves is a set in `FramePipeline`; the reference and the
iterator that are used after the unlock (`serveframe.cpp:23`, `:40`) take two
consumers that register at once, and the shipped build has one. `ProcessData` writes each byte of a frame through the pointer to fill
(`processdata.cpp:50`), which `ServeFrame::FlushPipes` may exchange in the middle;
`FilePipeline` ends before that `PipeOut`. A signal handler
that allocates memory is undefined in C++; of this only the mutexes are modelled.

## 7. Plan

1. `ServeRegistry`: the vector `frames` with two consumers.
2. The motion stream: `CemuhookAdapter` composed with a lossy source, against an
   abstract stream of evenly spaced motions.
3. Proofs: what is left are generalisations: `FreshFrames` per consumer when
   there are presenters that do not outlive the Sender's session, and the safety
   properties of 1 and 2.
