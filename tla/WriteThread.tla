----------------------------- MODULE WriteThread ----------------------------
(***************************************************************************)
(* The write side of a port: the write queues of mdtAbstractPort, the      *)
(* thread mdtPortWriteThread with its mdtPortThreadHelperPort, and the     *)
(* calls the main thread makes: setup, start, stop, sendData, flushOut.    *)
(*                                                                         *)
(* The thread never holds the port mutex from one step to the next: what   *)
(* it does between a lock and the next unlock is one action.  The main     *)
(* thread does, in sendData(), and at that time it does nothing else.      *)
(***************************************************************************)
EXTENDS FrameQueues

CONSTANTS InitialPool,   (* pvWriteFramesPool as initQueues() fills it     *)
          NoFrame,       (* the null frame pointer                         *)
          Configs,       (* configurations the port may be set up with     *)
          FiniteTimeout, (* config().writeTimeout() is not infinite        *)
          MaxChunks,     (* bound: write() calls that a frame may need     *)
          MaxWriteTry    (* maxWriteTry of writeToPort()                   *)

Frames == Range(InitialPool)

ASSUME WriteAssumption ==
  /\ InitialPool \in Seq(Frames)
  /\ IsInjective(InitialPool)
  /\ NoFrame \notin Frames
  /\ Configs \subseteq [interframe : BOOLEAN, bytewise : BOOLEAN]
  /\ FiniteTimeout \in BOOLEAN
  /\ MaxChunks \in Nat \ {0}
  /\ MaxWriteTry \in Nat

VARIABLES mutex,           (* pvMutex: "main" in sendData(), or "free"     *)
          writeFramesPool, (* pvWriteFramesPool                            *)
          writeFrames,     (* pvWriteFrames                                *)
          currentFrame,    (* the helper's pvCurrentWriteFrame             *)
          left,            (* write() calls the current frame still needs  *)
          tries,           (* maxWriteTry, counted down                    *)
          written,         (* outcome of the last write()                  *)
          sending,         (* the frame sendData() has taken               *)
          flushOutPending, (* pvFlushOutRequestPending                     *)
          config,          (* writeInterframeTime() > 0, bytePerByteWrite()*)
          running,         (* pvRunning                                    *)
          pc,              (* where the thread is in run()                 *)
          woken,           (* pvWriteFrameAvailable was signalled          *)
          interrupted,     (* SIGALRM reached the thread inside select()   *)
          stopping,        (* the main thread is in stop()                 *)
          currentError,    (* pvCurrentError                               *)
          emitted,         (* last errorOccured() since start(), or "none" *)
          accepting,       (* the manager was told ready() and sends       *)
          fresh,           (* history: frames queued since flushOut()      *)
          raced            (* history: two threads were in a queue at once *)

queues == <<writeFramesPool, writeFrames>>
holding == <<currentFrame, left, tries, written>>
errors == <<currentError, emitted>>
signals == <<woken, interrupted>>
mains == <<mutex, sending, stopping, accepting, config>>
history == <<fresh, raced>>
vars == <<queues, holding, flushOutPending, running, pc, signals, errors, mains,
          history>>

(* The thread has a frame to write in these places, and none in the others *)
(* (except in Leaving, where it may).                                      *)
Writing == {"PreSelect", "Select", "ByteGap", "Retry"}
Locations == {"Off", "Begin", "Interframe", "CondWait", "Leaving"} \cup Writing
Errors == {"NoError", "WriteTimeout", "WriteCanceled", "Disconnected", "UnhandledError"}

TypeOK ==
  /\ mutex \in {"free", "main"}
  /\ writeFramesPool \in Seq(Frames)
  /\ writeFrames \in Seq(Frames)
  /\ currentFrame \in Frames \cup {NoFrame}
  /\ left \in 0 .. MaxChunks
  /\ tries \in 0 .. MaxWriteTry
  /\ written \in {"some", "none", "failed"}
  /\ sending \in Frames \cup {NoFrame}
  /\ flushOutPending \in BOOLEAN
  /\ config \in Configs
  /\ running \in BOOLEAN
  /\ pc \in Locations
  /\ woken \in BOOLEAN
  /\ interrupted \in BOOLEAN
  /\ stopping \in BOOLEAN
  /\ currentError \in Errors
  /\ emitted \in Errors \cup {"none"}
  /\ accepting \in BOOLEAN
  /\ fresh \subseteq Frames
  /\ raced \in BOOLEAN

Init ==
  /\ mutex = "free"
  /\ writeFramesPool = InitialPool
  /\ writeFrames = <<>>
  /\ currentFrame = NoFrame
  /\ left = 0
  /\ tries = 0
  /\ written = "some"
  /\ sending = NoFrame
  /\ flushOutPending = FALSE
  /\ config \in Configs
  /\ running = FALSE
  /\ pc = "Off"
  /\ woken = FALSE
  /\ interrupted = FALSE
  /\ stopping = FALSE
  /\ currentError = "UnhandledError"
  /\ emitted = "none"
  /\ accepting = FALSE
  /\ fresh = {}
  /\ raced = FALSE

-----------------------------------------------------------------------------
(* Pieces of the thread's code.                                            *)

(* mdtPortThread::notifyError() *)
Notify(e) == /\ currentError' = e
             /\ emitted' = IF e = currentError THEN emitted ELSE e

(* The end of run().  A frame the thread still has is the destructor's.    *)
Leave == /\ pc' = "Leaving"
         /\ running' = FALSE

(* restoreCurrentWriteFrameToPool() *)
Restore == /\ writeFramesPool' = Append(writeFramesPool, currentFrame)
           /\ left' = 0

(* getNewFrameWrite() with the running flag set: take the frame at the     *)
(* head of the queue, or wait.                                             *)
GetFrame ==
  \/ /\ writeFrames = <<>>
     /\ pc' = "CondWait"
     /\ woken' = FALSE
     /\ currentFrame' = NoFrame
     /\ left' = 0
     /\ UNCHANGED <<writeFrames, tries>>
  \/ /\ writeFrames # <<>>
     /\ pc' = "PreSelect"
     /\ currentFrame' = Head(writeFrames)
     /\ writeFrames' = Tail(writeFrames)
     /\ left' \in 1 .. MaxChunks
     /\ tries' = MaxWriteTry
     /\ UNCHANGED woken

(* getNewFrameWrite() without a frame: stopping ends run(). *)
GetFrameOrLeave ==
  \/ /\ ~running
     /\ Leave
     /\ currentFrame' = NoFrame
     /\ left' = 0
     /\ UNCHANGED <<writeFrames, tries, woken>>
  \/ running /\ GetFrame /\ UNCHANGED running

(* The top of the loop of run(), without a frame. *)
NextFrame ==
  \/ /\ config.interframe /\ running
     /\ pc' = "Interframe"
     /\ currentFrame' = NoFrame
     /\ left' = 0
     /\ UNCHANGED <<writeFrames, tries, woken, running>>
  \/ (~config.interframe \/ ~running) /\ GetFrameOrLeave

(* The current frame goes back to the pool and the loop goes on. *)
Done == /\ writeFramesPool' = Append(writeFramesPool, currentFrame)
        /\ NextFrame

(* handleCommonWriteErrors(): the frame goes back to the pool and run()    *)
(* ends, whatever the error is.  (Only the read errors are handled, and no *)
(* port class can reconnect.)  While stopping, the frame is kept.          *)
WriteError(e) ==
  /\ Leave
  /\ \/ /\ ~running
        /\ UNCHANGED <<writeFramesPool, currentFrame, left, errors>>
     \/ /\ running
        /\ Restore
        /\ currentFrame' = NoFrame
        /\ Notify(e)
  /\ UNCHANGED <<writeFrames, tries, woken>>

-----------------------------------------------------------------------------
(* Faulty variants of definitions below, each of which one property of the *)
(* thread refutes; they are part of no specification.                      *)

(* writeToPort() with no limit on the number of tries. *)
AfterWriteUnlimited(w, l) ==
  \/ /\ w = "some" /\ l = 0
     /\ Done
     /\ UNCHANGED errors
  \/ /\ w = "some" /\ l > 0
     /\ pc' = "PreSelect"
     /\ left' = l
     /\ UNCHANGED <<queues, currentFrame, tries, running, woken, errors>>
  \/ /\ w = "none"
     /\ pc' = "Retry"
     /\ tries' = tries - 1
     /\ UNCHANGED <<queues, currentFrame, left, running, woken, errors>>
  \/ /\ w = "failed"
     /\ WriteError("NoError")

-----------------------------------------------------------------------------
(* writeToPort() after a write() with outcome w that leaves l to write.    *)
(* When write() fails, the error handled is the last outcome of the wait:  *)
(* NoError.                                                                *)
AfterWrite(w, l) ==
  \/ /\ w = "some" /\ l = 0
     /\ Done
     /\ UNCHANGED errors
  \/ /\ w = "some" /\ l > 0
     /\ pc' = "PreSelect"
     /\ left' = l
     /\ UNCHANGED <<queues, currentFrame, tries, running, woken, errors>>
  \/ /\ w = "none" /\ tries = 0
     /\ \/ running /\ Notify("WriteTimeout")
        \/ ~running /\ UNCHANGED errors
     /\ Done
  \/ /\ w = "none" /\ tries > 0
     /\ pc' = "Retry"
     /\ tries' = tries - 1
     /\ UNCHANGED <<queues, currentFrame, left, running, woken, errors>>
  \/ /\ w = "failed"
     /\ WriteError("NoError")

-----------------------------------------------------------------------------
(* More faulty variants.                                                   *)

(* A condition wait that does not clear the flush request. *)
WakeUpFlushing ==
  /\ pc = "CondWait" /\ woken /\ mutex = "free"
  /\ \/ writeFrames # <<>> /\ GetFrame /\ UNCHANGED running
     \/ writeFrames = <<>> /\ GetFrameOrLeave
  /\ UNCHANGED <<writeFramesPool, written, flushOutPending, interrupted, errors, mains, history>>

(* A flush request that ends the write without giving the frame back. *)
FlushCurrentLost ==
  /\ pc = "Select" /\ mutex = "free" /\ flushOutPending
  /\ interrupted' = FALSE
  /\ flushOutPending' = FALSE
  /\ NextFrame
  /\ UNCHANGED <<writeFramesPool, written, errors, mains, history>>

(* A write that does not look at the flush request. *)
WriteReadyAnyway ==
  /\ pc = "Select" /\ mutex = "free"
  /\ interrupted' = FALSE
  /\ \E w \in {"some", "none", "failed"} :
       LET l == IF w = "some" THEN left - 1 ELSE left
       IN  \/ /\ config.bytewise
              /\ pc' = "ByteGap"
              /\ written' = w
              /\ left' = l
              /\ UNCHANGED <<queues, currentFrame, tries, running, woken, errors>>
           \/ /\ ~config.bytewise
              /\ AfterWrite(w, l)
              /\ UNCHANGED written
  /\ UNCHANGED <<flushOutPending, mains, history>>

(* A write thread that takes the next frame when a retry is due. *)
RetryForgets ==
  /\ pc = "Retry" /\ mutex = "free" /\ running
  /\ GetFrame
  /\ UNCHANGED <<writeFramesPool, written, flushOutPending, running, interrupted, errors, mains,
                 history>>

(* isWriter() false: stop() does not wake the thread once more. *)
StopEndQuietly ==
  /\ stopping /\ mutex = "free"
  /\ stopping' = FALSE
  /\ accepting' = FALSE
  /\ running' = FALSE
  /\ interrupted' = (interrupted \/ (running /\ pc = "Select"))
  /\ currentError' = IF running THEN "UnhandledError" ELSE currentError
  /\ UNCHANGED <<queues, holding, flushOutPending, pc, woken, emitted, mutex, sending, config,
                 fresh, raced>>

(* addFrameToWrite() without its wakeAll(). *)
SendAddQuietly ==
  /\ mutex = "main"
  /\ mutex' = "free"
  /\ writeFrames' = Append(writeFrames, sending)
  /\ fresh' = fresh \cup {sending}
  /\ sending' = NoFrame
  /\ UNCHANGED <<writeFramesPool, holding, flushOutPending, running, pc, signals, errors,
                 stopping, accepting, config, raced>>

-----------------------------------------------------------------------------
(* The thread.                                                             *)

(* run() up to the first wait; ready() is emitted. *)
Begin ==
  /\ pc = "Begin"
  /\ mutex = "free"
  /\ running' = TRUE
  /\ accepting' = TRUE
  /\ \/ /\ config.interframe
        /\ pc' = "Interframe"
        /\ UNCHANGED <<writeFrames, currentFrame, left, tries, woken>>
     \/ /\ ~config.interframe
        /\ GetFrame
  /\ UNCHANGED <<writeFramesPool, written, flushOutPending, interrupted, errors, mutex,
                 sending, stopping, config, history>>

(* The interframe time has elapsed. *)
InterframeEnds ==
  /\ pc = "Interframe"
  /\ mutex = "free"
  /\ GetFrameOrLeave
  /\ UNCHANGED <<writeFramesPool, written, flushOutPending, interrupted, errors, mains, history>>

(* pvWriteFrameAvailable.wait() returns: the flush flag is cleared. *)
WakeUp ==
  /\ pc = "CondWait"
  /\ woken
  /\ mutex = "free"
  /\ flushOutPending' = FALSE
  /\ \/ writeFrames # <<>> /\ GetFrame /\ UNCHANGED running
     \/ writeFrames = <<>> /\ GetFrameOrLeave
  /\ UNCHANGED <<writeFramesPool, written, interrupted, errors, mains, history>>

(* waitEventWriteReady() has unlocked the mutex and now calls select().    *)
EnterSelect ==
  /\ pc = "PreSelect"
  /\ pc' = "Select"
  /\ UNCHANGED <<queues, holding, flushOutPending, running, signals, errors, mains, history>>

(* select() returned and the mutex is locked again. *)
SelectReturns ==
  /\ pc = "Select"
  /\ mutex = "free"
  /\ interrupted' = FALSE

(* Whatever the outcome, a pending flush request puts the frame back. *)
FlushCurrent ==
  /\ SelectReturns
  /\ flushOutPending
  /\ flushOutPending' = FALSE
  /\ Done
  /\ UNCHANGED <<written, errors, mains, history>>

SelectFails ==
  /\ SelectReturns
  /\ ~flushOutPending
  /\ \E e \in {"WriteTimeout", "WriteCanceled", "Disconnected", "UnhandledError"} :
       /\ e = "WriteTimeout" => FiniteTimeout
       /\ WriteError(e)
  /\ UNCHANGED <<written, flushOutPending, mains, history>>

(* writeDataToPort(): in byte per byte mode, the mutex is released for the *)
(* interbyte time before the outcome is looked at.                         *)
WriteReady ==
  /\ SelectReturns
  /\ ~flushOutPending
  /\ \E w \in {"some", "none", "failed"} :
       LET l == IF w = "some" THEN left - 1 ELSE left
       IN  \/ /\ config.bytewise
              /\ pc' = "ByteGap"
              /\ written' = w
              /\ left' = l
              /\ UNCHANGED <<queues, currentFrame, tries, running, woken, errors>>
           \/ /\ ~config.bytewise
              /\ AfterWrite(w, l)
              /\ UNCHANGED written
  /\ UNCHANGED <<flushOutPending, mains, history>>

ByteGapEnds ==
  /\ pc = "ByteGap"
  /\ mutex = "free"
  /\ AfterWrite(written, left)
  /\ written' = "some"
  /\ UNCHANGED <<flushOutPending, interrupted, mains, history>>

(* 100 ms after a write() that could write nothing. *)
RetryEnds ==
  /\ pc = "Retry"
  /\ mutex = "free"
  /\ pc' = "PreSelect"
  /\ UNCHANGED <<queues, holding, flushOutPending, running, signals, errors, mains, history>>

(* ~mdtPortThreadHelper(), after run() has unlocked the mutex: the current *)
(* frame is put back without it.  If the main thread is in the same queue, *)
(* its entry may also be lost.                                             *)
Destroy ==
  /\ pc = "Leaving"
  /\ pc' = "Off"
  /\ \/ currentFrame = NoFrame /\ UNCHANGED <<writeFramesPool, raced>>
     \/ /\ currentFrame # NoFrame
        /\ raced' = (raced \/ mutex = "main")
        /\ \/ writeFramesPool' = Append(writeFramesPool, currentFrame)
           \/ mutex = "main" /\ UNCHANGED writeFramesPool
  /\ currentFrame' = NoFrame
  /\ left' = 0
  /\ UNCHANGED <<writeFrames, tries, written, flushOutPending, running, signals, errors, mains,
                 fresh>>

-----------------------------------------------------------------------------
(* The main thread, which does one thing at a time.                        *)

MainIdle == mutex = "free" /\ ~stopping

(* mdtPortThread::start(), on a port just set up (as mdtPortManager does). *)
Start ==
  /\ MainIdle
  /\ pc = "Off"
  /\ ~accepting
  /\ Len(writeFramesPool) = Len(InitialPool)
  /\ pc' = "Begin"
  /\ currentError' = "UnhandledError"
  /\ emitted' = "none"
  /\ UNCHANGED <<queues, holding, flushOutPending, running, signals, mains, fresh, raced>>

(* mdtPortWriteThread::stop() first wakes the thread, without the mutex ... *)
StopBegin ==
  /\ MainIdle
  /\ stopping' = TRUE
  /\ woken' = (woken \/ pc = "CondWait")
  /\ UNCHANGED <<queues, holding, flushOutPending, running, pc, interrupted, errors, mutex,
                 sending, accepting, config, history>>

(* ... then calls mdtPortThread::stop(): nothing happens while the running *)
(* flag is unset, and the signal interrupts select() only if the thread is *)
(* inside it.  The manager stops sending.                                  *)
StopEnd ==
  /\ stopping
  /\ mutex = "free"
  /\ stopping' = FALSE
  /\ accepting' = FALSE
  /\ running' = FALSE
  /\ \/ /\ running
        /\ woken' = (woken \/ pc = "CondWait")
        /\ interrupted' = (interrupted \/ pc = "Select")
        /\ currentError' = "UnhandledError"
     \/ ~running /\ UNCHANGED <<signals, currentError>>
  /\ UNCHANGED <<queues, holding, flushOutPending, pc, emitted, mutex, sending, config, fresh,
                 raced>>

(* mdtPortManager::sendData() takes a frame and keeps the mutex ... *)
SendTake ==
  /\ MainIdle
  /\ accepting
  /\ writeFramesPool # <<>>
  /\ mutex' = "main"
  /\ sending' = Head(writeFramesPool)
  /\ writeFramesPool' = Tail(writeFramesPool)
  /\ UNCHANGED <<writeFrames, holding, flushOutPending, running, pc, signals, errors, stopping,
                 accepting, config, history>>

(* ... fills it and calls addFrameToWrite(). *)
SendAdd ==
  /\ mutex = "main"
  /\ mutex' = "free"
  /\ writeFrames' = Append(writeFrames, sending)
  /\ fresh' = fresh \cup {sending}
  /\ sending' = NoFrame
  /\ woken' = (woken \/ pc = "CondWait")
  /\ UNCHANGED <<writeFramesPool, holding, flushOutPending, running, pc, interrupted, errors,
                 stopping, accepting, config, raced>>

(* mdtAbstractPort::flushOut() *)
FlushOut ==
  /\ MainIdle
  /\ writeFramesPool' = writeFramesPool \o writeFrames
  /\ writeFrames' = <<>>
  /\ flushOutPending' = TRUE
  /\ fresh' = {}
  /\ UNCHANGED <<holding, running, pc, signals, errors, mains, raced>>

(* close() then setup() with some configuration: the frames are deleted    *)
(* and allocated again; the flush flag survives.                           *)
Setup ==
  /\ MainIdle
  /\ pc = "Off"
  /\ ~accepting
  /\ writeFramesPool' = InitialPool
  /\ writeFrames' = <<>>
  /\ config' \in Configs
  /\ fresh' = {}
  /\ UNCHANGED <<holding, flushOutPending, running, pc, signals, errors, mutex, sending,
                 stopping, accepting, raced>>

-----------------------------------------------------------------------------
Writer == \/ Begin \/ InterframeEnds \/ WakeUp \/ EnterSelect \/ FlushCurrent
          \/ SelectFails \/ WriteReady \/ ByteGapEnds \/ RetryEnds \/ Destroy

Main == \/ Start \/ StopBegin \/ StopEnd \/ SendTake \/ SendAdd \/ FlushOut \/ Setup

Next == Writer \/ Main

Spec == Init /\ [][Next]_vars

(* Sleeps end, and the thread gets the mutex if it finds it free again and *)
(* again.  A select() that is interrupted, or has a finite timeout,        *)
(* returns; nothing makes the device accept data.  The main thread ends    *)
(* the calls it has begun.                                                 *)
SelectEnds == FlushCurrent \/ SelectFails \/ WriteReady

Fairness ==
  /\ WF_vars(EnterSelect \/ Destroy)
  /\ SF_vars(Begin \/ InterframeEnds \/ WakeUp \/ ByteGapEnds \/ RetryEnds)
  /\ SF_vars((interrupted \/ FiniteTimeout) /\ SelectEnds)
  /\ WF_vars(StopEnd \/ SendAdd)

FairSpec == Spec /\ Fairness

-----------------------------------------------------------------------------
(* Properties.                                                             *)

InPool(f) == f \in Range(writeFramesPool)
InQueue(f) == f \in Range(writeFrames)

(* No frame is lost, owned twice or queued twice, until the destructor of  *)
(* the helper and the main thread use a queue at once.                     *)
FramesConserved == ~raced =>
  /\ Partition(Frames, writeFramesPool, writeFrames, {currentFrame, sending} \ {NoFrame})
  /\ currentFrame = sending => currentFrame = NoFrame

(* After flushOut(), nothing more of a frame queued before it is written:  *)
(* the frame being written when flushOut() is called is given up at the    *)
(* next return of waitEventWriteReady().                                   *)
FlushStopsWriting ==
  [][left' # left /\ currentFrame' = currentFrame /\ pc # "Leaving"
       => currentFrame \in fresh]_vars

(* A flush request concerns the frames queued before it, never a new one   *)
(* (mdtAbstractPort.cpp:313, getFrameToWrite()).  Here, of a thread that   *)
(* never sleeps without the mutex outside of waitEventWriteReady() and     *)
(* getFrameToWrite().                                                      *)
FlushSparesNewFrames == flushOutPending /\ currentFrame # NoFrame => currentFrame \notin fresh
FlushSparesNewFramesWithoutGaps ==
  ~config.interframe /\ ~config.bytewise => FlushSparesNewFrames

(* A queued frame is taken by the running thread (or flushed), when        *)
(* select() cannot block for ever.                                         *)
QueuedFrameTaken == \A f \in Frames : InQueue(f) /\ running ~> ~InQueue(f) \/ ~running

(* A stop the thread must notice ends it, wherever it was. *)
AcceptedStopEnds == (~running /\ pc \notin {"Off", "Begin"}) ~> pc = "Off"

(* The write side keeps the promise of FrameCycle. *)
Cycle == INSTANCE FrameCycle WITH
  Places <- {"pool", "main", "queue", "thread", "lost"},
  Holders <- {"main", "thread"},
  Home <- "pool",
  Moves <- {<<"pool", "main">>, <<"main", "queue">>, <<"queue", "thread">>,
            <<"thread", "pool">>, <<"queue", "pool">>},
  place <- [f \in Frames |-> IF f = currentFrame THEN "thread"
                            ELSE IF f = sending THEN "main"
                            ELSE IF InQueue(f) THEN "queue"
                            ELSE IF InPool(f) THEN "pool" ELSE "lost"],
  broken <- raced

Circulation == Cycle!Spec
=============================================================================
