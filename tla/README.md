# multidiagtools: a verification project

TLA+ models of the communication core of multidiagtools (C++/Qt 4, `src/src/`) and of its table controllers, the runs of TLC that check them on
small instances, and proofs, checked by TLAPS, of what matters most for every instance.

## 1. The system

| Part | Where | State it keeps | Operations |
|---|---|---|---|
| Port | `mdtport/mdtAbstractPort`, `linux/mdtPort`, `mdtserialport/` | two pools and two queues of frames, a mutex, a condition variable, two flush flags | setup, close, flushIn/Out, read, write, waits |
| Read thread | `mdtPortReadThread`, `mdtPortThread`, `mdtPortThreadHelper(Port)` | running flag, current frame, last error notified | start, stop, the loop of `run()` |
| Write thread | `mdtPortWriteThread`, same helpers | the same, tries left | start, stop, the loop of `run()` |
| Port manager | `mdtPortManager`, `mdtPortManagerStateMachine` | state machine, threads ready, transactions (pool, pending, done), current identifier, timers | start, stop, sendData, waitTransactionDone, readenFrame(s), flush |
| TCP socket thread | `mdtTcpSocketThread`, `mdtPortThreadHelperSocket` | connection, tries left, three timers | slots of a QTcpSocket |
| Modbus/TCP manager | `mdtModbusTcpPortManager` | identifiers 0..65535, scan results | sendData, queries, scan |
| USBTMC | `mdtUsbtmcTransferHandler`, `mdtUsbTransferPool.h`, `mdtUsbtmcPort` | four pools of transfers, a state machine | submit, callbacks of libusb, abort, clear |
| SQL table controllers | `mdtdatabase/mdtAbstractSqlTableController`, `mdtSql*Controller` | edition state machine, current row, children | select, insert, edit, submit, revert, remove |
| Devices | `mdtdevice/` | values of I/O, a query timer | queries through a port manager |
| Frames and codecs | `mdtutils/mdtFrame*`, `mdtBuffer` | bytes | encode, decode |
| Other utilities, wiring database, widgets, tools | `mdtutils/`, `mdttools/`, `mdtutilsgui/` | | |

How they interact. A port manager lives in the main thread. It owns one port and its threads (a reader and a writer,
or one socket thread). A *frame* is allocated by `mdtAbstractPort::initQueues()` and then only its pointer moves:

    read side:   pool -> read thread -> readen frames -> (main thread) -> pool
    write side:  pool -> main thread -> write frames -> write thread -> pool

Every queue is protected by the port mutex, which a thread releases to sleep, to `select()` or to wait for the condition
variable. The threads talk to the manager with queued signals (`newFrameReaden`, `errorOccured`, `ready`, `stopped`); the
manager stops a thread with a flag, a `wakeAll()` and a SIGALRM. Blocking calls of the manager run the event loop, in
which any other slot, or another blocking call, may run.

What is hard here: the order of steps of three threads between a lock and the next one; state looked at before a wait
and used after it (queues, flush flags, the running flag); signals that arrive before the wait they should end; errors
that end a thread while it holds a frame; event loops inside event loops. `PROJECT.json` lists each hazard at its line
with the properties that would catch it, or says why none does yet.

What makes each part correct:
- *port and threads*: no frame is lost, doubled or used by two owners; a flush cancels what came before it and nothing
  else; no wake-up is missed; a shortage of frames is reported and ends; a stop ends the thread;
- *manager, life of the threads*: the port is closed only when no thread runs; start and stop end;
- *manager, transactions*: a transaction is in one place; a reply is given to the query it answers; a wait ends;
- *USBTMC*: a transfer goes back to its pool once, after its callback; abort and clear end;
- *table controllers*: a failed operation leaves the controller usable; a blocking call returns.

## 2. Modules

| Module | What it is |
|---|---|
| `FrameCycle` | Abstract specification: a frame is in one place and moves along the links of a circuit |
| `FrameQueues` | `Partition`: what it means that queues and holders share the frames |
| `ReadThread` | The read side: queues, read thread and helper, and the calls of the main thread; implements `FrameCycle` |
| `WriteThread` | The write side, in the same way |
| `PortManagerStates` | The state machine of a manager as a function of state and event |
| `PortLifecycle` | `start()` and `stop()`, the state machine, and threads that become ready, fail and end |
| `PortTransactions` | sendData(), waitTransactionDone(), readenFrame(), with and without identifiers, and the slots run while they wait |
| `TableController` | A controller of an SQL table, its one-to-one children, and the calls that wait in the event loop |
| `UsbtmcTransfers` | The USBTMC transfer handler with its pools and state machine, the callbacks of libusb, and the calls of the port |
| `QueueLemmas` | Theorems about queues and `Partition` |
| `ReadThreadProofs`, `WriteThreadProofs`, `PortLifecycleProofs`, `PortTransactionsProofs`, `TableControllerProofs`, `UsbtmcTransfersProofs` | Theorems about the module of the same name |
| `MCReadThread`, `MCWriteThread`, `MCPortLifecycle`, `MCPortTransactions`, `MCTableController`, `MCUsbtmcTransfers` | Instances for TLC |

### How the threads are modelled

A section of code between a lock and the next unlock is one action, since nobody else can see its inside. It is split,
with `mutex` held from one action to the next, where it loops over frames or runs several of its own functions: the read
thread between a return of `select()` and its next unlock (`pc` in `Check`, `Store`), the main thread while it collects
frames (`TakeBegin`, `TakeFrame`, `TakeEnd`) or sends one (`SendTake`, `SendAdd`). `pc` says where the thread sleeps or
what it does next:

| `pc` (read) | Code |
|---|---|
| `Begin` | `run()` before its first frame |
| `PreSelect`, `Select` | `waitForReadyRead()` after the unlock, before and inside `select()` |
| `Check` | after `waitForReadyRead()`: flush request, then `readFromPort()` |
| `Store` | `submitReadenData()`, with frames still to complete |
| `PollStart`, `PollTimeout`, `PollData` | the polling loop of `getNewFrameRead()`, called from three places |
| `Leaving`, `Off` | after the last unlock of `run()`, before and after the destructor of the helper |

| `pc` (write) | Code |
|---|---|
| `Interframe`, `ByteGap`, `Retry` | the sleeps of `run()` and `writeToPort()`, with the mutex released |
| `CondWait` | `pvWriteFrameAvailable.wait()` |
| `PreSelect`, `Select` | `waitEventWriteReady()` |

Three things deserve a word. *Errors*: `notifyError()` keeps the last error and swallows it when it comes again; `start()`
and `stop()` set it to `UnhandledError`. *Signals*: SIGALRM interrupts `select()` if the thread is inside it, and does
nothing a step earlier (`EnterSelect` is a step of its own). *The destructor of the helper* puts the current frame back
without the mutex, after `run()` has released it; if the main thread is inside a section, both are in the same QQueue,
which is undefined: `raced` becomes true, the queue has one of the outcomes of such a race, and what the properties promise
about frames ends there. Every other access is made with the mutex locked.

### How the manager is modelled

`PortLifecycle` keeps of a thread what the manager can notice: `life` (`Started` until `run()` sets the running flag,
`Running`, `Leaving` once it was told to stop or has failed, `Off`) and the last error. Its signals go to one queue, `events`,
as Qt posts them to the main thread; `Deliver` runs the slot of the first one. The signals of the manager itself reach the
state machine at once, so `Emit` is part of the step that emits: `React` gives the next state, and entering `Stopping` begins
`stopThreads()`, one thread per step. `calls` is the stack of `start()` and `stop()` that wait in the event loop: only the last
one can return, and `stop()` can be called while another call waits. An error whose name the manager does not know stands for
all of them (`PortAccess`).

### How the transactions are modelled

`PortTransactions` takes the base class and the Modbus/TCP manager in one module: `identified`, chosen at the start, says whether
frames carry an identifier (the Modbus/TCP manager gives it when it sends; the base class when the query is made, and it then
takes a reply for that of the current transaction). `calls` is again the stack of calls that wait in the event loop, each with
its transaction and its phase:

| `phase` | Code | Left by |
|---|---|---|
| `frame` | `sendData()` waits until the manager is ready and has a frame to write | `TakeFrame` (with the mutex locked), `NoFrame`, `SendFails` |
| `slot` | `waitTransactionPossible()`, with the mutex locked | `Send`, `SendFails` |
| `reply` | `waitTransactionDone()`, then `readenFrame()` | `TakeReply`, `WaitFails`, `WaitTimesOut` |
| `stop` | `stop()` waits for the state `Stopped` | `StopReturns` |

Only the last call runs, and slots run above it: `Collect`, `CollectAnswer`, `CollectOther`, `CollectEnds`
(`fromThreadNewFrameReaden()`), `Timeout`, `Error`, `Connected`. While `collecting`, nothing else of the main thread runs. A
transaction has the number of the query it was made for and, when done, the number of the query that its data answers: the code
has neither, they are what `RepliesMatch` compares. `pooled` and `frames` are only sizes: what is in the pools is cleared before
use. `locked` is `pvPortMutexLocked`; the threads take their steps on the queues when it is false. `lockPortMutex()` on a locked
mutex returns at once and the next `unlockPortMutex()` frees it for everybody, so a slot can free the mutex of a `sendData()` below
it; `Emit` frees it when `Stopping` is entered.

Threads and device are reduced to one step per frame (`Write`, `Answer`), which may never come (`Ignore`, no fairness) or come at
any time, after a timeout too; `Unasked` is data nobody asked for. `Start` goes to the first ready state: how the threads get there
is in `PortLifecycle`.

### How the table controllers are modelled

`TableController` has one thread, and no interleaving but that of the event loop. `ctl` gives each controller its record: the
state of its machine, the current row, what the model holds (`rows`, `dirty`, `new`, `doomed`: rows, cached changes, a row that was
inserted and not saved, a row marked for removal), what the widgets hold (`typed`, `mapped`), and the two flags by which a waiting
call knows the end (`complete`, `error`). `filter` is the row of the parent by which each child is filtered. The transient states
(`Reverting`, `Inserting` and so on) begin and end in one action. A handler of the main controller that calls its children one by
one is split: `step` says which operation, which child, and whether the child's `submitAndWait()` or `removeAndWait()` is to be
called, waits, or returned. While it waits, the event loop runs and so do the user's actions (`Free`); `waiting` is the
application's own `submitAndWait()` or `removeAndWait()` on the main controller.

`Faults` is what may go wrong: a validator, the widget mapper or the database refuses, a row is not inserted or removed, a select
fails, the user answers no. `TypesWhileBusy` lets the user and `setData()` edit while the main controller waits for a child.

### How the USBTMC handler is modelled

`UsbtmcTransfers` has two threads. Each callback of libusb is one action, for `process_event()` holds the recursive mutex of the
machine from the event to the end of its transition, the events raised in it included. `th` is the handler: the machine `sm`, the
four pools as the pending transfers (`out`, `in`, `control`, `interrupt`), and the signals queued to the main thread. A pending
transfer is `flying`, `cancelling`, holds an `answer`, or was `left` in the list by a callback that neither restored nor resubmitted
it. The main thread is in a `call` (a command, a query, a clear): it reads the flag of the machine (`check`), looks at the pools and
submits (`submit`), waits in the event loop (`wait`), or has locked the bulk-OUT pool it waits for (`locked`). `close()` is a stop
request, then a wait that ends after 1000 ms whatever happened (`CloseReturns`). `faults` is chosen at the start among all the
subsets: a device that never fails, one that fails in one way, or in several.

Abstracted in all modules: bytes (a read completes some number of frames or leaves the current one partly filled; a frame to write needs
some number of `write()` calls), formatting, logging, times (a sleep ends when it ends), the errors the code treats alike.

## 3. Runs

| Run | Configuration | Shows |
|---|---|---|
| `read_timeout` | 2 frames, timeout protocol, up to 2 frames completed per read, a fresh port before each start | `TypeOK`, `BusyOnlyWhilePolling`, the refinement `Circulation`, and under fairness `FrameDelivered`, `ShortageEnds`, `AcceptedStopEnds` |
| `read_data` | 2 frames, frames ended by their content, 1 per read, restarts on the same port | `FramesConserved`, `FlushDropsCurrent` |
| `read_stop` | as `read_data`, fair | violation of `AcceptedStopEnds` |
| `write` | 2 frames of 1 or 2 writes, 1 retry, every interframe and byte per byte setting | `TypeOK`, `FramesConserved`, `FlushSparesNewFramesWithoutGaps`, `FlushStopsWriting`, `Circulation`, `QueuedFrameTaken`, `AcceptedStopEnds` |
| `write_flush` | the same, 1 write per frame | violation of `FlushSparesNewFrames` |
| `lifecycle` | a reader and a writer, calls 2 deep | `TypeOK`, `StoppedMeansIdle`, `ThreadsUseOpenPort`, and under fairness `FatalErrorStopsAll`, `StoppingEnds`, `StartEnds` |
| `lifecycle_stop` | the same as `lifecycle`, one call at a time | violation of `StopEnds` |
| `transactions` | both managers, 2 frames and pending transactions, calls 2 deep, 3 queries | `TypeOK`, `TransactionsConserved`, `RepliesMatch`, `NoOrphans`, `MutexReleased`, and under fairness `LastWaitEnds`, `TimeoutMakesRoom`, `ClosedReleases` |
| `transactions_wait` | 1 frame, 2 queries | violation of `WaitEnds` |
| `table` | a controller with a one-to-one child, 2 rows, every fault | `TypeOK`, `SavedMeansSaved`, `ChildrenFollow`, `NewRowIsCurrent`, `BlockedSubmitCanEnd`, `EditsKeepTheirRow` |
| `table_wait` | 1 row, a validator that may refuse | violation of `WaitEndsWithOperation` |
| `usbtmc` | every set of faults, 1 "not yet" answer per call | `TypeOK`, `StopsByItself`, `QueryAnswered`, and under fairness `CallersAreTold`, `CallEnds` |

Bounds. Two frames are enough for an empty pool, a full queue, one frame in the thread while another is queued, and a
frame that comes back while another leaves; the proofs of section 5 hold for any number. Two writes per frame give a frame
partly written; one retry gives the last try and one before it.

For the manager, two threads are what every subclass has but the TCP one (which has one); two calls that wait give one
`stop()` inside `start()` or inside another `stop()`. `MaxEvents` bounds only what a thread says without ending (a shortage of
frames and its end); errors that end a thread, `ready()` and `finished()` are always posted.

For the transactions, a call inside another one is enough for all that one call can do to the other (the mutex, the timer, the
frame, the slot); the third query is there for a reply that comes late, when the identifiers have moved on. A port that is
closed and opened again counts its identifiers from 0: the run includes it.

For the tables, two rows give a current row that moves while a record exists, is inserted, marked or removed, and a last row that
is not the first; a child has no record, or one, saved or inserted. One child is enough for the parent to wait, to be let go
or to fail in the middle of each operation; with two children and `MaxRows = 1` (1.9 million states) the same properties hold.

For USBTMC, the model lets the bulk-IN and control pools grow as the code does; that none ever has more than one transfer pending
(a query is refused while anything is pending for reading) is part of the invariant proved in section 5. `MaxPolls` only bounds how
often a device says "not yet", which changes nothing else.

Why `FlushDropsCurrent` is checked without the timeout protocol and with one frame per read: with two frames completed by
one read, or with a frame completed by a read timeout, the code submits a frame after it slept in the polling loop, where
a flush request may have come, before it looks at the flag again. `mdtAbstractPort.h:322` ("If a request is pending, thread
will put his current read frame back to pool") is then kept only later.

Deadlock is checked in every run but `read_data`, `usbtmc` and those of the manager. In `usbtmc` a call that waits for ever (see
below) blocks its port. In those of the manager the system really stops, for the
reason `lifecycle_stop` shows, or, with transactions, when the bound on queries is reached. In `read_data`, a thread stopped
while it polls for its first frame returns with the mutex locked (`mdtPortReadThread.cpp:81`), and nothing can go on.

### Fairness
A thread that can run runs (weak fairness); a thread that needs the mutex gets it if it finds it free again and again
(strong fairness: a pthread mutex is given to a waiter); a sleep ends; a `select()` that was interrupted, or that has a
finite timeout, returns; the main thread finishes the call it has begun and its event loop runs the queued slot. Nothing
makes a device send or accept data, a read fail, or the application call anything.

In `PortLifecycle` a started thread sets its running flag, and a thread that leaves ends: for the read and write threads that
is `AcceptedStopEnds`, checked with the same fairness in their own runs. The main thread goes on with the call on top of the
stack and delivers events.

In `PortTransactions` the main thread goes on with what it does, timers fire and threads that are told to stop end (`StoppingEnds`
says when they do). The write thread need not write and the device need not answer.

In `UsbtmcTransfers` libusb ends every transfer it was given, at the latest by its timeout; the event loop delivers what was
signalled and the call goes on; a call that is told its end again and again returns, rather than sending parts of a command for
ever (`SF_vars(ReturnFromCall)`). No fairness makes the application call or close anything. `TableController` states none: what its
waiting calls need is the user.

### What the violations show
- `read_stop`: `waitForReadyRead()` releases the mutex, then calls `select()`. A stop in between sends its signal too early;
  without a read timeout the thread stays in `select()` for ever, and `mdtPortManager::stop()` with it. The timeout protocol
  hides it (`read_timeout` checks that the stop then ends the thread).
- `write_flush`: a flush requested while the write thread sleeps between two frames (or after the last byte of one) discards
  the next frame, although it was queued after the flush. `FlushSparesNewFramesWithoutGaps` shows that the code is right where
  its comment (`mdtAbstractPort.cpp:313`) looked: without these sleeps.
- `lifecycle_stop`: errors such as a disconnection or a write timeout end a thread without moving the manager to `Stopping`.
  When all have ended, `pmAllThreadsStoppedEvent` has come and gone in a running state, and a later `stop()` waits for the state
  `Stopped`, for ever. `StoppingEnds` shows that stopping does end while the manager knows a thread that has not finished.
  `StopEnds` fails in two other ways that have no run of their own: the event of a `stop()` called in `Starting` is ignored, and
  an inner `stop()` takes the machine past the state its outer one waits for.
- `transactions_wait`: one timer serves all the waits. A query made by a slot inside another wait stops it when it is answered,
  and the outer wait has no timeout any more. `LastWaitEnds` shows that a wait ends as long as the timer runs.

- `table_wait`: a submit that fails returns to `Editing`, and only the entry in `Visualizing` ends the wait. The caller of
  `submitAndWait()` does not hear of the failure before the user has submitted again or reverted; that is also how a parent waits
  in its own submit for a child (`BlockedSubmitCanEnd`).

Other disagreements met while modelling, without a run of their own. The threads of a port:
- `handleCommonWriteErrors()` (`mdtPortThreadHelper.cpp:147`) tests the read errors instead of the write errors its documentation
  names (`mdtPortThreadHelper.h:98-101`), so a write timeout ends the write thread.
- `mdtPortThread::stop()` does nothing to a thread that has not set its running flag yet, and the manager knows only the threads
  that were ready. If the other one fails and ends first, the manager is `Stopped` and closes the port under a thread that then runs:
  `StoppedMeansIdle` is violated with `EarlyFailures = TRUE`. With `EarlyFailures = FALSE` (no failure before all threads run, the
  value in the runs) it is proved.

The transactions:
- `mdtPortManager.cpp:342` says "we keep port mutext locked": a slot that collects frames, or a nested `sendData()`, unlocks it
  (`MutexReleased` is what remains true), and the outer call unlocks it a second time.
- `mdtPortManager.h:422` says that `sendData()` returns when the manager stops for an unhandled error: it looks for `PortClosed`,
  while such a manager is `Stopped` until somebody calls `stop()`.
- `sendData()` with a saturated list of pending transactions keeps the mutex from the threads that would bring the answers. If the
  transaction timer runs, its timeout makes room (`TimeoutMakesRoom`), and a port that is closed releases the call
  (`ClosedReleases`). A query that nobody waits for starts no timer: when only such queries are pending, the call may wait for ever.
- `abort()` and the flush methods lock the mutex of the port themselves: called by a slot while `sendData()` has it, they wait for
  their own thread (not modelled: the application calls neither here).

The table controllers:
- `allDataAreSaved()` ("return true if all data are saved", `mdtAbstractSqlTableController.h:894`) does not see what was typed while
  a submit waited for a child, since the machine was then in a state that ignores `dataEdited()`: `SavedMeansSaved` needs
  `TypesWhileBusy = FALSE`. The widgets are enabled meanwhile. So does `EditsKeepTheirRow`: what is typed in a child while a removal
  waits for another one is lost with the row.
- A failed removal stays in `Removing`, which only a success leaves, although "we return allways to Visualizing state"
  (`mdtAbstractSqlTableController.cpp:1388`).
- A failed insert goes on after it emitted `errorOccured()` (`:1268`, no return): the child then edits a new row and its parent does not.
- A new row that was saved in the parent and not in the child, and is then reverted ("Do you really want to loose new record ?",
  `:1338`), is only marked for removal and stays in the database until the next submit.
- A submit of a parent without a record in its one-to-one child waits until a record is there; `submitAndWait()` answers true when a
  validator refused and the user then reverted; the value a failed submit put in the model's cache survives a revert of the widgets.
- Sorting is disabled while a new row is submitted and stays so when that fails (`:1300`; sorting is not modelled).

USBTMC:
- Data left in the device when `openDevice()` clears it: the transfer that fetches it ends in `restoreBulkInTransferSA()`, whose
  cases for `CHECK_CLEAR_STATUS` and `CHECK_ABORT_STATUS` fall through (`mdtUsbtmcTransferHandler.cpp:832-837`) to an event the state
  does not take. `mdtUsbtmcTransferHandler.h:316-319` says that the action will be executed; the call waits for ever.
- `LIBUSB_TRANSFER_NO_DEVICE` raises `DeviceDisconnectedEvent`, which has no transition: the waiting call does not return, unless an
  interrupt-IN transfer fails too. A stall cancels transfers that libusb has already ended, so nothing follows. An answer without EOM,
  an answer with a wrong bTag, a clear while the machine is not `Processing`: the call waits for ever, or leaves a transfer that
  makes later queries refused and `Stopping` last until the thread is "Forced to stop in abnormal way (probably a bug!)"
  (`mdtUsbtmcPortThreadNew.cpp:74`).
- Entering `ClearingBulkOutEndpointHalt` with a transfer pending never sends CLEAR_FEATURE; `ClearingBulkInEndpointHalt` is not
  reachable; with transfers pending in both directions INITIATE_CLEAR is sent twice.
- When libusb refuses the transfer of `submitCommand()`, its thread waits for the mutex it holds (`mdtUsbtmcTransferHandler.cpp:201`).
- An error between an answer and its reading makes `sendQuery()` return nothing as if it were the answer. `close()` called by a slot
  under `sendQuery()`, between the answer and its reading, stops the read: with `CloseDuringCall = TRUE` the call does not return.

This is why `CallEnds` and `StopsByItself` speak of the faults in `Recovers` only (transfers that end with an error, submits that
are refused inside the machine, control requests that answer a failure), while `QueryAnswered` and `CallersAreTold` hold for all.

## 4. Mutants
Each property of a passing run has an operator next to the definition it alters ("Faulty variants"), a mistake one could
make in that code (a frame not given back, a forgotten `wakeAll()`, a flag not looked at, a limit dropped); the property
is violated when it replaces the definition.

## 5. Proofs
`ReadThreadProofs` proves, for any number of frames, any bound and both protocols (`ReadAssumption`: the pool has no frame
twice, the null frame is none of them):
- `TypeCorrect`: `Spec => []TypeOK`;
- `Conservation`: `Spec => []FramesConserved`;
- `BusyReported`: `Spec => []BusyOnlyWhilePolling`;
- `Refinement`: `Spec => Circulation`, the read side implements `FrameCycle`;
- `FlushDrops`: `Spec => FlushDropsCurrent`, without the timeout protocol and with one frame per read.

`FramesConserved` is not inductive: it does not say where the thread may be without a frame. The invariant `IInv` adds
`Holding` (the thread has a frame in every place where it uses one, and none where it polls or is off) and the types.
`NextInvariant` shows that each step keeps it, one step per action, with the lemmas of `QueueLemmas` for what a step does
to the queues: take the head, put at the end, move one, move all. `BusyReported` needs an invariant of its own, which ties
the last error kept to the last one notified. `Refinement` shows that each step moves a frame along a link of the circuit or
none (`StepMoves`, `Places`). `FlushDrops` needs to know that the thread looked at the request under the mutex it still holds when
it submits a frame (`FlushSeen`); its two hypotheses are those of section 3, without which the code does not keep the promise.

`WriteThreadProofs` proves, for any number of frames, of writes per frame and of tries, and any set of configurations
(`WriteAssumption`: the pool has no frame twice, the null frame is none of them):
- `TypeCorrect`: `Spec => []TypeOK`;
- `Conservation`: `Spec => []FramesConserved`;
- `FlushStops`: `Spec => FlushStopsWriting`, and `FlushSparesTheNew`: `Spec => []FlushSparesNewFramesWithoutGaps`;
- `Refinement`: `Spec => Circulation`, the write side implements `FrameCycle`.

Every step is one of nine moves of frames (`StepMoves`: `FrameStep`), and what follows about the queues is proved move by move.
The flush theorems need more than `FramesConserved`, which says nothing after a race: they need that no frame is ever doubled, race
or not. So `IInv` says (`NoDouble`) that the frames that are left, whatever set `G` they are, are partitioned; losing one makes `G`
smaller, and only `setup()` makes it whole. `FlushStops` rests on `FreshInv`: what is queued, and what is being written unless a
request is pending, was queued since the last `flushOut()`. `FlushSparesTheNew` rests on a count of the frames (`Counted`): a thread
starts with a full pool, so with an empty queue, and cannot take a frame before it has cleared an old request (`BeginsEmpty`).

`PortLifecycleProofs` proves, for any number of threads and calls (`LifecycleAssumption`: the list of threads is finite, not
empty and names each once):
- `TypeCorrect`: `Spec => []TypeOK`;
- `StoppedIdle` and `PortOpen`: if no thread fails while another one is starting, `Spec => []StoppedMeansIdle` and
  `Spec => []ThreadsUseOpenPort`.

The manager counts threads, and the count is right only because of the order in which events are posted. The invariant `IInv`
says so: no `ready()` is posted after an event that a thread posts only when all have begun (`ReadyFirst`), `ready()` and
`finished()` are pending once (`PostedOnce`), an error that is pending comes from a live thread or before its `finished()`
(`ErrorsOfLiving`), what the manager knows or will be told of a thread agrees with its life (`Ledger`), and each state has its
consequences (`Phase`). The proviso is the hypothesis under which `FailKept` holds; section 3 says what happens without it.

`PortTransactionsProofs` proves, for any size of the queues and any number of calls and queries:
- `TypeCorrect`: `Spec => []TypeOK`;
- `MutexGivenBack`: `Spec => []MutexReleased`;
- `RepliesToQueries`: `Spec => []RepliesMatch`;
- `Conservation`: `Spec => []TransactionsConserved`;
- `KeptAreAwaited`: `Spec => []NoOrphans`.

The first two are inductive with the types (and the finiteness of the sets of transactions). `RepliesMatch` needs `Matching`: the
frames on their way agree with the pending transactions that have their identifier, and no identifier in use is above the current
one. It survives a new start, which counts from 0 again, because of `Closing`: with the port closed no transaction is left, and the
queues are new. `TransactionsConserved` is a count, and holds because a step never adds to a set what is in it already: that is
`Ids`, which says what the assertions of `addTransactionPending()` and `addTransactionDone()` check at run time.

`NoOrphans` rests on that invariant too, and on when a wait gives up: after a timeout, or in a state that only an error
that flushes the transactions leads to, so when nothing is kept any more (`KeptAwaited`).

`TableControllerProofs` proves, for any number of one-to-one children and of rows, and any set of faults (`TableAssumption`: the list
of children names each once):
- `TypeCorrect`: `Spec => []TypeOK`, where the row numbers stay within the model;
- `ChildrenHoldCurrentRow`: `Spec => []ChildrenFollow`;
- `NewRowsAreCurrent`: `Spec => []NewRowIsCurrent`;
- `BlockedSubmitsCanEnd`: `Spec => []BlockedSubmitCanEnd`;
- `SavedIsSaved` and `EditsKept`: with `TypesWhileBusy = FALSE`, `Spec => []SavedMeansSaved` and `Spec => EditsKeepTheirRow`. TLC finds
  both violated with `TRUE` (section 3). `SavedMeansSaved` is about an idle controller with a current row: a row that is given up while a child
  still holds a change is left out.

None of these is inductive, because a controller passes through states in which its row is not settled. `IInv` says what each state
allows: where the current row, the new row and the row marked for removal are (`MainFits`, and `KidFits` for a child, which
has one row at most), which state of the machine goes with which `step` (`StepFits`), that a child which shows a record has told so (`Rested`) and that
only a removal leaves one busy (`KidsFit`), that filters follow (`Follow`), and, when nobody types meanwhile, that the machine knows of all that was
typed (`MainKnows`, `Untyped`). The operators on one record have lemmas of their own (setting a row, submitting, removing, restoring);
the actions are then treated one by one.

`UsbtmcTransfersProofs` proves, for any set of faults and any number of "not yet" answers (`UsbtmcAssumption`):
- `TypeCorrect`: `Spec => []TypeOK`;
- `QueriesAnswered`: `Spec => QueryAnswered`, with or without a `close()` during a call;
- `StopsAlone`: with `CloseDuringCall = FALSE`, `Spec => []StopsByItself`. TLC finds it violated with `TRUE`: `close()` then cancels what
  a callback had left, and nothing calls back.

Neither property survives one step back: what a query reads depends on what the call before left in the pools, and on which of them
the callbacks used since. `IInv` therefore says what the pools, the machine and the signals are in each phase of a call: `Resting`
before it has submitted anything, then `ClearPhase`, `CommandPhase` or `QueryPhase`, whose disjuncts are the stages of the exchange,
ending in `Told` (the signal is queued, or delivered, but not both). A machine that gave up has emptied its pools whatever the call
waits for (`GaveUp`), so the cases of a refused transfer are done once. A device may do anything wrong at any time; only one with faults outside
`Recovers` leaves a transfer in the bulk-IN pool for the next call (`Unread`). A submit that read the flag of the machine, and finds the
machine ended when it gets to the pool, is a case like the others.

Left to TLC: the liveness properties (`FrameDelivered`, `ShortageEnds`, `AcceptedStopEnds`, `QueuedFrameTaken`, `FatalErrorStopsAll`,
`StoppingEnds`, `StartEnds`, `LastWaitEnds`, `TimeoutMakesRoom`, `ClosedReleases`, `CallersAreTold`, `CallEnds`), since fairness and ENABLED are out of the
prover's reach. Every invariant and every action property that a run finds to hold is proved, under the hypotheses given here.

## 6. Plan
Done: the read and write sides, the life of the manager's threads, the transactions, the table controllers and the USBTMC transfer
handler, each with the proof of all its safety properties. In order of what matters most:
1. `SocketThread`: connections and timeouts of the TCP thread, which completes `PortLifecycle` with the manager's third kind of thread.
2. The hazards of `PROJECT.json` that no property covers yet.

## 7. Not modelled
Codecs and other sequential functions with unit tests, SQL statements, widgets, device types, lock files (see `components` in
`PROJECT.json`). Of the table controllers: stop and restart, sorting, `setCurrentRow(-1)`, insert, remove and select on a child, a
saved record that leaves the filter, one-to-many children, the event loops of dialogs. Of USBTMC: the `dbgSubmit...` entries and what
only they reach (`AbortingBulkOut`), synchronous control transfers, a `cancel()` that fails, more than 40 unread answers, errors of
`libusb_handle_events()`, calls of the port inside a call other than `close()`, bTags and payloads, and what libusb still has in
flight when the device is closed.
