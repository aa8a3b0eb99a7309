----------------------------- MODULE ReadThread -----------------------------
(***************************************************************************)
(* The read side of a port: the read queues of mdtAbstractPort, the thread *)
(* mdtPortReadThread with its mdtPortThreadHelperPort, and the calls the   *)
(* main thread makes (start, stop, flushIn, collecting readen frames).     *)
(*                                                                         *)
(* Every access to the queues and flags is made with the port mutex        *)
(* locked, except the one in the helper's destructor.  A section of code   *)
(* between a lock and the next unlock is one action when it touches few    *)
(* frames, and a sequence of actions with mutex = "reader" or "main" when  *)
(* it loops over frames.                                                   *)
(***************************************************************************)
EXTENDS FrameQueues

CONSTANTS InitialPool,     (* pvReadFramesPool as initQueues() fills it    *)
          NoFrame,         (* the null frame pointer                       *)
          TimeoutProtocol, (* config().useReadTimeoutProtocol()            *)
          FreshStart,      (* the thread is only started on a port that    *)
                           (* was set up again, as mdtPortManager does     *)
          MaxComplete      (* bound: frames completed by one read()        *)

Frames == Range(InitialPool)

ASSUME ReadAssumption ==
  /\ InitialPool \in Seq(Frames)
  /\ IsInjective(InitialPool)
  /\ NoFrame \notin Frames
  /\ TimeoutProtocol \in BOOLEAN
  /\ FreshStart \in BOOLEAN
  /\ MaxComplete \in Nat

VARIABLES mutex,          (* pvMutex: its owner, or "free"                 *)
          readFramesPool, (* pvReadFramesPool                              *)
          readenFrames,   (* pvReadenFrames                                *)
          currentFrame,   (* the helper's pvCurrentReadFrame               *)
          frameUsed,      (* !currentReadFrame()->isEmpty()                *)
          toComplete,     (* frames the data being stored still completes  *)
          flushInPending, (* pvFlushInRequestPending                       *)
          running,        (* pvRunning                                     *)
          pc,             (* where the thread is in run()                  *)
          interrupted,    (* SIGALRM reached the thread inside select()    *)
          currentError,   (* pvCurrentError                                *)
          emitted,        (* last errorOccured() since start(), or "none"  *)
          newFrame,       (* newFrameReaden() emitted, slot not yet run    *)
          stopAsked,      (* history: stop() called since start()          *)
          raced           (* history: two threads were in a queue at once  *)

queues == <<readFramesPool, readenFrames>>
holding == <<currentFrame, frameUsed, toComplete>>
errors == <<currentError, emitted>>
history == <<stopAsked, raced>>
vars == <<mutex, queues, holding, flushInPending, running, pc, interrupted,
          errors, newFrame, history>>

Polling == {"PollStart", "PollTimeout", "PollData"}
Locations == {"Off", "Begin", "PreSelect", "Select", "Check", "Store", "Leaving"}
               \cup Polling
Errors == {"NoError", "ReadPoolEmpty", "ReadTimeout", "ReadCanceled",
           "Disconnected", "UnhandledError", "Unknown"}

TypeOK ==
  /\ mutex \in {"free", "reader", "main"}
  /\ readFramesPool \in Seq(Frames)
  /\ readenFrames \in Seq(Frames)
  /\ currentFrame \in Frames \cup {NoFrame}
  /\ frameUsed \in BOOLEAN
  /\ toComplete \in 0 .. MaxComplete
  /\ flushInPending \in BOOLEAN
  /\ running \in BOOLEAN
  /\ pc \in Locations
  /\ interrupted \in BOOLEAN
  /\ currentError \in Errors
  /\ emitted \in Errors \cup {"none"}
  /\ newFrame \in BOOLEAN
  /\ stopAsked \in BOOLEAN
  /\ raced \in BOOLEAN

Init ==
  /\ mutex = "free"
  /\ readFramesPool = InitialPool
  /\ readenFrames = <<>>
  /\ currentFrame = NoFrame
  /\ frameUsed = FALSE
  /\ toComplete = 0
  /\ flushInPending = FALSE
  /\ running = FALSE
  /\ pc = "Off"
  /\ interrupted = FALSE
  /\ currentError = "UnhandledError"
  /\ emitted = "none"
  /\ newFrame = FALSE
  /\ stopAsked = FALSE
  /\ raced = FALSE

-----------------------------------------------------------------------------
(* Pieces of the thread's code.                                            *)

(* mdtPortThread::notifyError(): an error equal to the current one is not  *)
(* emitted again.                                                          *)
Notify(e) == /\ currentError' = e
             /\ emitted' = IF e = currentError THEN emitted ELSE e

(* The top of the loop of run(), with the mutex locked: leave when the     *)
(* running flag is unset, else enter waitForReadyRead(), which unlocks.    *)
LoopTop == /\ mutex' = "free"
           /\ pc' = IF running THEN "PreSelect" ELSE "Leaving"
           /\ UNCHANGED running

(* The end of run(): unset the running flag, unlock.                       *)
Leave == /\ mutex' = "free"
         /\ pc' = "Leaving"
         /\ running' = FALSE

(* getNewFrameRead() on the given pool: its head becomes the current frame *)
(* and the thread goes on at next with the mutex held by owner; if it is   *)
(* empty, this is notified and the thread polls at wait.                   *)
GetFrame(pool, next, owner, wait) ==
  \/ /\ pool # <<>>
     /\ currentFrame' = Head(pool)
     /\ readFramesPool' = Tail(pool)
     /\ pc' = next
     /\ mutex' = owner
     /\ UNCHANGED errors
  \/ /\ pool = <<>>
     /\ currentFrame' = NoFrame
     /\ readFramesPool' = pool
     /\ pc' = wait
     /\ mutex' = "free"
     /\ Notify("ReadPoolEmpty")

SubmitCurrentSilently == /\ readenFrames' = Append(readenFrames, currentFrame)
                         /\ UNCHANGED newFrame

(* submitCurrentReadFrame(true) *)
SubmitCurrent == /\ readenFrames' = Append(readenFrames, currentFrame)
                 /\ newFrame' = TRUE

-----------------------------------------------------------------------------
(* Faulty variants of definitions below, each of which one property of the *)
(* thread refutes; they are part of no specification.                      *)

(* The error branch for Disconnected goes on without a frame. *)
SelectFailsUnnoticed ==
  /\ pc = "Select" /\ mutex = "free" /\ running
  /\ Notify("Disconnected")
  /\ readFramesPool' = Append(readFramesPool, currentFrame)
  /\ currentFrame' = NoFrame
  /\ frameUsed' = FALSE
  /\ interrupted' = FALSE
  /\ mutex' = "reader"
  /\ pc' = "Check"
  /\ UNCHANGED <<readenFrames, toComplete, flushInPending, running, newFrame, history>>

(* restoreCurrentReadFrameToPool() that keeps the pointer, with no new     *)
(* frame taken.                                                            *)
FlushCurrentKeeps ==
  /\ pc = "Check"
  /\ flushInPending
  /\ flushInPending' = FALSE
  /\ readFramesPool' = Append(readFramesPool, currentFrame)
  /\ frameUsed' = FALSE
  /\ LoopTop
  /\ UNCHANGED <<readenFrames, currentFrame, toComplete, interrupted, errors, newFrame, history>>

(* Reading without looking at the flush request. *)
ReadDataAnyway ==
  /\ pc = "Check"
  /\ \/ /\ frameUsed' \in {frameUsed, TRUE}
        /\ LoopTop
        /\ UNCHANGED toComplete
     \/ /\ toComplete' \in 1 .. MaxComplete
        /\ pc' = "Store"
        /\ UNCHANGED <<mutex, frameUsed, running>>
  /\ UNCHANGED <<queues, currentFrame, flushInPending, interrupted, errors, newFrame, history>>

(* A polling loop that does not tell when the pool has frames again. *)
PollEndsSilently ==
  /\ pc \in Polling /\ mutex = "free" /\ running /\ readFramesPool # <<>>
  /\ currentFrame' = Head(readFramesPool)
  /\ readFramesPool' = Tail(readFramesPool)
  /\ \/ pc = "PollStart" /\ pc' = "PreSelect" /\ UNCHANGED mutex
     \/ pc = "PollTimeout" /\ pc' = "Check" /\ mutex' = "reader"
     \/ pc = "PollData" /\ pc' = "Store" /\ mutex' = "reader"
  /\ UNCHANGED <<readenFrames, frameUsed, toComplete, flushInPending, running, interrupted,
                 errors, newFrame, history>>

(* A polling loop that does not look at the running flag. *)
PollNotStopped == FALSE /\ UNCHANGED vars

(* A collected frame that is not given back to the pool. *)
TakeFrameForGood ==
  /\ mutex = "main"
  /\ readenFrames # <<>>
  /\ readenFrames' = Tail(readenFrames)
  /\ UNCHANGED <<mutex, readFramesPool, holding, flushInPending, running, pc, interrupted,
                 errors, newFrame, history>>

-----------------------------------------------------------------------------
(* The thread.                                                             *)

(* run() up to its loop.  If the pool is empty, ready() is not yet emitted *)
(* while the thread polls.                                                 *)
Begin ==
  /\ pc = "Begin"
  /\ mutex = "free"
  /\ running' = TRUE
  /\ GetFrame(readFramesPool, "PreSelect", "free", "PollStart")
  /\ frameUsed' = FALSE
  /\ UNCHANGED <<readenFrames, toComplete, flushInPending, interrupted, newFrame, history>>

(* waitForReadyRead() has unlocked the mutex and now calls select(): a     *)
(* signal that arrived before this step does not interrupt it.             *)
EnterSelect ==
  /\ pc = "PreSelect"
  /\ pc' = "Select"
  /\ UNCHANGED <<mutex, queues, holding, flushInPending, running, interrupted,
                 errors, newFrame, history>>

(* select() returned and waitForReadyRead() locked the mutex again.        *)
SelectReturns ==
  /\ pc = "Select"
  /\ mutex = "free"
  /\ interrupted' = FALSE

SelectReady ==
  /\ SelectReturns
  /\ mutex' = "reader"
  /\ pc' = "Check"
  /\ UNCHANGED <<queues, holding, flushInPending, running, errors, newFrame, history>>

(* Any error of waitForReadyRead() while stopping. *)
SelectStopped ==
  /\ SelectReturns
  /\ ~running
  /\ Leave
  /\ UNCHANGED <<queues, holding, flushInPending, errors, newFrame, history>>

(* ReadTimeout of the timeout protocol: a frame that received data is      *)
(* complete.  Without the protocol the read timeout is set to infinite.    *)
FrameTimeout ==
  /\ SelectReturns
  /\ running
  /\ TimeoutProtocol
  /\ \/ /\ frameUsed
        /\ SubmitCurrent
        /\ GetFrame(readFramesPool, "Check", "reader", "PollTimeout")
        /\ frameUsed' = FALSE
     \/ /\ ~frameUsed
        /\ mutex' = "reader"
        /\ pc' = "Check"
        /\ UNCHANGED <<queues, currentFrame, frameUsed, errors, newFrame>>
  /\ UNCHANGED <<toComplete, flushInPending, running, history>>

(* ReadCanceled while running (a signal that is not a stop): the current   *)
(* frame is cleared and the thread goes on.                                *)
SelectCanceled ==
  /\ SelectReturns
  /\ running
  /\ Notify("ReadCanceled")
  /\ frameUsed' = FALSE
  /\ mutex' = "reader"
  /\ pc' = "Check"
  /\ UNCHANGED <<queues, currentFrame, toComplete, flushInPending, running, newFrame, history>>

(* An error that handleCommonReadErrors() does not handle.  On             *)
(* Disconnected the frame goes back to the pool before the reconnection,   *)
(* which no port class implements: it always fails.                        *)
SelectFails ==
  /\ SelectReturns
  /\ running
  /\ \/ /\ Notify("UnhandledError")
        /\ UNCHANGED <<readFramesPool, currentFrame>>
     \/ /\ Notify("Disconnected")
        /\ readFramesPool' = Append(readFramesPool, currentFrame)
        /\ currentFrame' = NoFrame
  /\ frameUsed' = FALSE
  /\ Leave
  /\ UNCHANGED <<readenFrames, toComplete, flushInPending, newFrame, history>>

(* A pending flush request: the current frame goes back to the pool, a new *)
(* one is taken (the pool cannot be empty here).                           *)
FlushCurrent ==
  /\ pc = "Check"
  /\ flushInPending
  /\ flushInPending' = FALSE
  /\ LET pool == Append(readFramesPool, currentFrame)
     IN  /\ currentFrame' = Head(pool)
         /\ readFramesPool' = Tail(pool)
  /\ frameUsed' = FALSE
  /\ LoopTop
  /\ UNCHANGED <<readenFrames, toComplete, interrupted, errors, newFrame, history>>

(* readFromPort(): the data completes n frames.  With n = 0, nothing was   *)
(* read or the current frame is left partly filled.                        *)
ReadData ==
  /\ pc = "Check"
  /\ ~flushInPending
  /\ \/ /\ frameUsed' \in {frameUsed, TRUE}
        /\ LoopTop
        /\ UNCHANGED toComplete
     \/ /\ toComplete' \in 1 .. MaxComplete
        /\ pc' = "Store"
        /\ UNCHANGED <<mutex, frameUsed, running>>
  /\ UNCHANGED <<queues, currentFrame, flushInPending, interrupted, errors, newFrame, history>>

(* read() failed: handled like an error of waitForReadyRead().  For an     *)
(* unexpected errno mdtSerialPort::read() returns UnhandledError and       *)
(* mdtPort::read() returns -1, which is no error_t value (Unknown).        *)
ReadFails ==
  /\ pc = "Check"
  /\ ~flushInPending
  /\ \/ /\ ~running
        /\ Leave
        /\ UNCHANGED <<frameUsed, errors>>
     \/ /\ running
        /\ Notify("ReadTimeout")
        /\ frameUsed' = FALSE
        /\ LoopTop
     \/ /\ running
        /\ \E e \in {"UnhandledError", "Unknown"} : Notify(e)
        /\ frameUsed' = FALSE
        /\ Leave
  /\ UNCHANGED <<queues, currentFrame, toComplete, flushInPending, interrupted, newFrame, history>>

(* submitReadenData(): the current frame is complete, a new one is needed. *)
CompleteFrame ==
  /\ pc = "Store"
  /\ toComplete > 0
  /\ SubmitCurrent
  /\ toComplete' = toComplete - 1
  /\ GetFrame(readFramesPool, "Store", "reader", "PollData")
  /\ frameUsed' = FALSE
  /\ UNCHANGED <<flushInPending, running, interrupted, history>>

(* The rest of the data, if any, stays in the current frame.               *)
StoreEnd ==
  /\ pc = "Store"
  /\ toComplete = 0
  /\ frameUsed' \in BOOLEAN
  /\ LoopTop
  /\ UNCHANGED <<queues, currentFrame, toComplete, flushInPending, interrupted, errors,
                 newFrame, history>>

(* The polling loop of getNewFrameRead() finds a frame, and its caller     *)
(* goes on: to the loop of run(), to the flush check, or storing data.     *)
PollEnds ==
  /\ pc \in Polling
  /\ mutex = "free"
  /\ running
  /\ readFramesPool # <<>>
  /\ currentFrame' = Head(readFramesPool)
  /\ readFramesPool' = Tail(readFramesPool)
  /\ Notify("NoError")
  /\ \/ pc = "PollStart" /\ pc' = "PreSelect" /\ UNCHANGED mutex
     \/ pc = "PollTimeout" /\ pc' = "Check" /\ mutex' = "reader"
     \/ pc = "PollData" /\ pc' = "Store" /\ mutex' = "reader"
  /\ UNCHANGED <<readenFrames, frameUsed, toComplete, flushInPending, running, interrupted,
                 newFrame, history>>

(* The polling loop finds the running flag unset.  At the start of run()   *)
(* the thread function returns at once, with the mutex locked.             *)
PollStopped ==
  /\ pc \in Polling
  /\ mutex = "free"
  /\ ~running
  /\ \/ pc = "PollStart" /\ pc' = "Off" /\ mutex' = "reader" /\ UNCHANGED running
     \/ pc # "PollStart" /\ Leave
  /\ toComplete' = 0
  /\ UNCHANGED <<queues, currentFrame, frameUsed, flushInPending, interrupted, errors,
                 newFrame, history>>

(* ~mdtPortThreadHelper(), after run() has unlocked the mutex: the current *)
(* frame is put back without it.  If the main thread is in the same queue, *)
(* its entry may also be lost.                                             *)
Destroy ==
  /\ pc = "Leaving"
  /\ pc' = "Off"
  /\ \/ currentFrame = NoFrame /\ UNCHANGED <<readFramesPool, raced>>
     \/ /\ currentFrame # NoFrame
        /\ raced' = (raced \/ mutex = "main")
        /\ \/ readFramesPool' = Append(readFramesPool, currentFrame)
           \/ mutex = "main" /\ UNCHANGED readFramesPool
  /\ currentFrame' = NoFrame
  /\ frameUsed' = FALSE
  /\ UNCHANGED <<mutex, readenFrames, toComplete, flushInPending, running, interrupted,
                 errors, newFrame, stopAsked>>

-----------------------------------------------------------------------------
(* The main thread.  It runs one call at a time: while it collects frames  *)
(* (mutex = "main") it does nothing else.                                  *)

(* mdtPortThread::start(): the thread's function is run later. *)
Start ==
  /\ pc = "Off"
  /\ mutex # "main"
  /\ FreshStart => Len(readFramesPool) = Len(InitialPool)
  /\ pc' = "Begin"
  /\ currentError' = "UnhandledError"
  /\ emitted' = "none"
  /\ stopAsked' = FALSE
  /\ UNCHANGED <<mutex, queues, holding, flushInPending, running, interrupted, newFrame, raced>>

(* mdtPortThread::stop(): nothing happens while the running flag is unset; *)
(* the signal interrupts select() only if the thread is inside it.         *)
Stop ==
  /\ pc # "Off"
  /\ mutex = "free"
  /\ stopAsked' = TRUE
  /\ running' = FALSE
  /\ interrupted' = (interrupted \/ (running /\ pc = "Select"))
  /\ currentError' = IF running THEN "UnhandledError" ELSE currentError
  /\ UNCHANGED <<mutex, queues, holding, flushInPending, pc, emitted, newFrame, raced>>

(* mdtAbstractPort::flushIn() *)
FlushIn ==
  /\ mutex = "free"
  /\ readFramesPool' = readFramesPool \o readenFrames
  /\ readenFrames' = <<>>
  /\ flushInPending' = TRUE
  /\ UNCHANGED <<mutex, holding, running, pc, interrupted, errors, newFrame, history>>

(* mdtPortManager::fromThreadNewFrameReaden(), run by the event loop for   *)
(* the newFrameReaden() signals; those emitted while one is queued are     *)
(* merged with it, their slots would find nothing.                         *)
TakeBegin ==
  /\ newFrame
  /\ mutex = "free"
  /\ mutex' = "main"
  /\ newFrame' = FALSE
  /\ UNCHANGED <<queues, holding, flushInPending, running, pc, interrupted, errors, history>>

TakeFrame ==
  /\ mutex = "main"
  /\ readenFrames # <<>>
  /\ readFramesPool' = Append(readFramesPool, Head(readenFrames))
  /\ readenFrames' = Tail(readenFrames)
  /\ UNCHANGED <<mutex, holding, flushInPending, running, pc, interrupted, errors, newFrame,
                 history>>

TakeEnd ==
  /\ mutex = "main"
  /\ readenFrames = <<>>
  /\ mutex' = "free"
  /\ UNCHANGED <<queues, holding, flushInPending, running, pc, interrupted, errors, newFrame,
                 history>>

(* close() then setup(): the frames are deleted and allocated again; the   *)
(* flush flag survives.  The threads are stopped.                          *)
Reopen ==
  /\ pc = "Off"
  /\ mutex # "main"
  /\ readFramesPool' = InitialPool
  /\ readenFrames' = <<>>
  /\ UNCHANGED <<mutex, holding, flushInPending, running, pc, interrupted, errors, newFrame,
                 history>>

-----------------------------------------------------------------------------
Reader == \/ Begin \/ EnterSelect \/ SelectReady \/ SelectStopped \/ FrameTimeout
          \/ SelectCanceled \/ SelectFails \/ FlushCurrent \/ ReadData \/ ReadFails
          \/ CompleteFrame \/ StoreEnd \/ PollEnds \/ PollStopped \/ Destroy

Main == \/ Start \/ Stop \/ FlushIn \/ TakeBegin \/ TakeFrame \/ TakeEnd \/ Reopen

Next == Reader \/ Main

Spec == Init /\ [][Next]_vars

(* The thread keeps running while it holds the mutex or is about to call   *)
(* select(); it gets the mutex if it finds it free again and again; an     *)
(* interrupted select() returns, and so does one with a finite timeout.    *)
(* The event loop of the main thread runs the queued slot.  Nothing makes  *)
(* the device send data, nor a read fail.                                  *)
Fairness ==
  /\ WF_vars(EnterSelect \/ FlushCurrent \/ ReadData \/ CompleteFrame \/ StoreEnd \/ Destroy)
  /\ SF_vars(Begin \/ PollEnds \/ PollStopped)
  /\ SF_vars((interrupted \/ TimeoutProtocol) /\ SelectStopped)
  /\ SF_vars(TakeBegin)
  /\ WF_vars(TakeFrame \/ TakeEnd)

FairSpec == Spec /\ Fairness

-----------------------------------------------------------------------------
(* Properties.                                                             *)

(* The frames a queue holds, and where each frame is. *)
InPool(f) == f \in Range(readFramesPool)
InQueue(f) == f \in Range(readenFrames)

(* Whatever the thread and the main thread do, no frame is lost, owned     *)
(* twice or queued twice, until the destructor of the helper and the main  *)
(* thread use a queue at once (mdtPortThreadHelper.cpp:47).                *)
FramesConserved ==
  ~raced => Partition(Frames, readFramesPool, readenFrames, {currentFrame} \ {NoFrame})

(* While the thread runs, ReadPoolEmpty is the last error it notified      *)
(* exactly when it polls for a frame: the manager is told of the end of    *)
(* every shortage, with no duplicate that pvCurrentError would swallow.    *)
BusyOnlyWhilePolling == running => (emitted = "ReadPoolEmpty" <=> pc \in Polling)

(* Once flushIn() was called, what the thread has read before does not     *)
(* reach the readen frames: the next thing it does with its current frame  *)
(* is to put it back to the pool.                                          *)
FlushDropsCurrent ==
  [][readenFrames' = Append(readenFrames, currentFrame) => ~flushInPending]_vars

(* A frame put in the readen queue is collected (or flushed): no           *)
(* newFrameReaden() is missed, though its slot runs later and takes all.   *)
FrameDelivered == \A f \in Frames : InQueue(f) ~> ~InQueue(f)

(* A shortage ends: frames are always on their way back to the pool.       *)
ShortageEnds == pc \in Polling ~> pc \notin Polling

(* A stop that the thread must notice (it has set its running flag since   *)
(* it was started) ends it, wherever it was.                               *)
AcceptedStopEnds == (~running /\ pc \notin {"Off", "Begin"}) ~> pc = "Off"

(* The read side keeps the promise of FrameCycle. *)
Cycle == INSTANCE FrameCycle WITH
  Places <- {"pool", "thread", "queue", "lost"},
  Holders <- {"thread"},
  Home <- "pool",
  Moves <- {<<"pool", "thread">>, <<"thread", "pool">>, <<"thread", "queue">>,
            <<"queue", "pool">>},
  place <- [f \in Frames |-> IF f = currentFrame THEN "thread"
                            ELSE IF InQueue(f) THEN "queue"
                            ELSE IF InPool(f) THEN "pool" ELSE "lost"],
  broken <- raced

Circulation == Cycle!Spec
=============================================================================
