-------------------------- MODULE WriteThreadProofs -------------------------
(***************************************************************************)
(* Proofs about the write side of a port, for any number of frames, of     *)
(* write() calls per frame and of tries.                                   *)
(***************************************************************************)
EXTENDS WriteThread, QueueLemmas

Held == {currentFrame, sending} \ {NoFrame}

(* The thread has a frame, with something left to write, where it writes   *)
(* one, and none where it waits for the next; the main thread has one      *)
(* while it holds the mutex.                                               *)
Holding ==
  /\ pc \in Writing => currentFrame # NoFrame
  /\ pc \in {"Off", "Begin", "Interframe", "CondWait"} => currentFrame = NoFrame
  /\ pc \in {"PreSelect", "Select", "Retry"} => left > 0
  /\ pc = "ByteGap" /\ written # "some" => left > 0
  /\ mutex = "main" <=> sending # NoFrame

(* TypeOK in two parts: the flags, and the rest. *)
Flags ==
  /\ flushOutPending \in BOOLEAN /\ running \in BOOLEAN /\ woken \in BOOLEAN
  /\ interrupted \in BOOLEAN /\ stopping \in BOOLEAN /\ accepting \in BOOLEAN
  /\ raced \in BOOLEAN

Data ==
  /\ mutex \in {"free", "main"}
  /\ writeFramesPool \in Seq(Frames)
  /\ writeFrames \in Seq(Frames)
  /\ currentFrame \in Frames \cup {NoFrame}
  /\ left \in 0 .. MaxChunks
  /\ tries \in 0 .. MaxWriteTry
  /\ written \in {"some", "none", "failed"}
  /\ sending \in Frames \cup {NoFrame}
  /\ config \in Configs
  /\ pc \in Locations
  /\ currentError \in Errors
  /\ emitted \in Errors \cup {"none"}
  /\ fresh \subseteq Frames

(* The type invariant, split in its two parts. *)
LEMMA TypeParts == TypeOK <=> Flags /\ Data
BY DEF TypeOK, Flags, Data

-----------------------------------------------------------------------------
(* What the pieces of the thread's code do.                                *)

(* The thread goes on with no frame, or with the head of the queue. *)
GoesIdle == /\ pc' \in {"Interframe", "CondWait", "Leaving"}
            /\ currentFrame' = NoFrame
            /\ left' = 0
            /\ UNCHANGED <<writeFrames, tries>>

TakesFrame == /\ writeFrames # <<>>
              /\ pc' = "PreSelect"
              /\ currentFrame' = Head(writeFrames)
              /\ writeFrames' = Tail(writeFrames)
              /\ left' \in 1 .. MaxChunks
              /\ tries' = MaxWriteTry

(* getNewFrameWrite(), and the loop of run() up to it, take a frame or     *)
(* none.                                                                   *)
LEMMA NextFrameDoes ==
  ASSUME GetFrame \/ GetFrameOrLeave \/ NextFrame
  PROVE  GoesIdle \/ TakesFrame
<1>1. ASSUME GetFrame PROVE GoesIdle \/ TakesFrame
  BY <1>1 DEF GetFrame, GoesIdle, TakesFrame
<1>2. ASSUME GetFrameOrLeave PROVE GoesIdle \/ TakesFrame
  BY <1>1, <1>2 DEF GetFrameOrLeave, Leave, GoesIdle
<1>3. ASSUME NextFrame PROVE GoesIdle \/ TakesFrame
  BY <1>2, <1>3 DEF NextFrame, GoesIdle
<1> QED BY <1>1, <1>2, <1>3

(* They leave the flags flags. *)
LEMMA NextFrameFlags ==
  ASSUME Flags, GetFrameOrLeave \/ NextFrame \/ (GetFrame /\ UNCHANGED running)
  PROVE  running' \in BOOLEAN /\ woken' \in BOOLEAN
BY DEF Flags, GetFrame, GetFrameOrLeave, NextFrame, Leave

(* The outcomes of a piece of code that ends, or goes on with, the write   *)
(* of the current frame: it goes back to the pool and the loop goes on,    *)
(* the thread leaves with or without it, or it is still to be written.     *)
FrameDone == /\ writeFramesPool' = Append(writeFramesPool, currentFrame)
             /\ GoesIdle \/ TakesFrame

FrameGivenUp == /\ pc' = "Leaving"
                /\ writeFramesPool' = Append(writeFramesPool, currentFrame)
                /\ currentFrame' = NoFrame
                /\ left' = 0
                /\ UNCHANGED <<writeFrames, tries>>

FrameKept == /\ UNCHANGED <<writeFramesPool, writeFrames, currentFrame>>
             /\ left' \in 0 .. MaxChunks
             /\ tries' \in 0 .. MaxWriteTry
             /\ \/ pc' = "Leaving"
                \/ pc' \in {"PreSelect", "Retry"} /\ left' > 0
                \/ pc' = "ByteGap" /\ (written' # "some" => left' > 0)

FrameOutcome == FrameDone \/ FrameGivenUp \/ FrameKept

ErrorsOK == currentError' \in Errors /\ emitted' \in Errors \cup {"none"}

(* handleCommonWriteErrors() gives the frame up or keeps it. *)
LEMMA WriteErrorDoes ==
  ASSUME Data, NEW e \in Errors, WriteError(e)
  PROVE  /\ FrameGivenUp \/ FrameKept
         /\ ErrorsOK
         /\ running' = FALSE /\ woken' = woken
<1>1. CASE ~running
  BY <1>1 DEF WriteError, Leave, FrameKept, ErrorsOK, Data, errors
<1>2. CASE running
  BY <1>2 DEF WriteError, Leave, Restore, Notify, FrameGivenUp, ErrorsOK, Data
<1> QED BY <1>1, <1>2

(* writeToPort(), when its write() has returned. *)
LEMMA AfterWriteDoes ==
  ASSUME Data, Flags, NEW w, NEW l \in 0 .. MaxChunks, AfterWrite(w, l),
         w # "some" => left > 0
  PROVE  /\ FrameOutcome
         /\ ErrorsOK
         /\ running' \in BOOLEAN /\ woken' \in BOOLEAN
<1> USE WriteAssumption DEF errors, queues
<1>1. CASE Done /\ (UNCHANGED errors \/ Notify("WriteTimeout"))
  <2>1. FrameDone
    BY <1>1, NextFrameDoes DEF Done, FrameDone
  <2>2. running' \in BOOLEAN /\ woken' \in BOOLEAN
    BY <1>1, NextFrameFlags DEF Done
  <2>3. ErrorsOK
    BY <1>1 DEF Notify, ErrorsOK, Data, Errors
  <2> QED BY <2>1, <2>2, <2>3 DEF FrameOutcome
<1>2. CASE /\ w = "some" /\ l > 0
           /\ pc' = "PreSelect"
           /\ left' = l
           /\ UNCHANGED <<queues, currentFrame, tries, running, woken, errors>>
  BY <1>2 DEF FrameOutcome, FrameKept, ErrorsOK, Data, Flags
<1>3. CASE /\ w = "none" /\ tries > 0
           /\ pc' = "Retry"
           /\ tries' = tries - 1
           /\ UNCHANGED <<queues, currentFrame, left, running, woken, errors>>
  BY <1>3 DEF FrameOutcome, FrameKept, ErrorsOK, Data, Flags
<1>4. CASE WriteError("NoError")
  BY <1>4, WriteErrorDoes DEF FrameOutcome, Errors, Flags
<1> QED BY <1>1, <1>2, <1>3, <1>4 DEF AfterWrite

(* select() returned and the device accepts data. *)
LEMMA WriteReadyDoes ==
  ASSUME Data, Flags, Holding, WriteReady
  PROVE  /\ FrameOutcome
         /\ ErrorsOK
         /\ running' \in BOOLEAN /\ woken' \in BOOLEAN
         /\ written' \in {"some", "none", "failed"}
<1>1. left \in 1 .. MaxChunks
  BY WriteAssumption DEF WriteReady, SelectReturns, Holding, Data
<1>2. PICK w \in {"some", "none", "failed"} :
        LET l == IF w = "some" THEN left - 1 ELSE left
        IN  \/ /\ config.bytewise
               /\ pc' = "ByteGap"
               /\ written' = w
               /\ left' = l
               /\ UNCHANGED <<queues, currentFrame, tries, running, woken, errors>>
            \/ /\ ~config.bytewise
               /\ AfterWrite(w, l)
               /\ UNCHANGED written
  BY DEF WriteReady
<1> DEFINE l == IF w = "some" THEN left - 1 ELSE left
<1>3. l \in 0 .. MaxChunks /\ (w # "some" => l > 0)
  BY <1>1, WriteAssumption
<1>4. CASE /\ pc' = "ByteGap"
           /\ written' = w
           /\ left' = l
           /\ UNCHANGED <<queues, currentFrame, tries, running, woken, errors>>
  BY <1>3, <1>4 DEF FrameOutcome, FrameKept, ErrorsOK, Data, Flags, queues, errors
<1>5. CASE AfterWrite(w, l) /\ UNCHANGED written
  <2> HIDE DEF l
  <2> QED BY <1>1, <1>3, <1>5, AfterWriteDoes DEF Data
<1> QED BY <1>2, <1>4, <1>5

-----------------------------------------------------------------------------
(* What a step does to the queues, the current frame and the frame of the  *)
(* main thread: each of these moves one frame, two, or a whole queue.      *)

Stays == UNCHANGED <<writeFramesPool, writeFrames, currentFrame, sending>>

GivesBack == /\ currentFrame # NoFrame
             /\ writeFramesPool' = Append(writeFramesPool, currentFrame)
             /\ currentFrame' = NoFrame
             /\ UNCHANGED <<writeFrames, sending>>

Takes == /\ currentFrame = NoFrame
         /\ writeFrames # <<>>
         /\ currentFrame' = Head(writeFrames)
         /\ writeFrames' = Tail(writeFrames)
         /\ UNCHANGED <<writeFramesPool, sending>>

Exchanges == /\ currentFrame # NoFrame
             /\ writeFramesPool' = Append(writeFramesPool, currentFrame)
             /\ writeFrames # <<>>
             /\ currentFrame' = Head(writeFrames)
             /\ writeFrames' = Tail(writeFrames)
             /\ UNCHANGED sending

Loses == /\ currentFrame # NoFrame
         /\ currentFrame' = NoFrame
         /\ raced'
         /\ UNCHANGED <<writeFramesPool, writeFrames, sending>>

MainTakes == /\ sending = NoFrame
             /\ writeFramesPool # <<>>
             /\ sending' = Head(writeFramesPool)
             /\ writeFramesPool' = Tail(writeFramesPool)
             /\ UNCHANGED <<writeFrames, currentFrame>>

MainQueues == /\ sending # NoFrame
              /\ writeFrames' = Append(writeFrames, sending)
              /\ sending' = NoFrame
              /\ UNCHANGED <<writeFramesPool, currentFrame>>

MainFlushes == /\ writeFramesPool' = writeFramesPool \o writeFrames
               /\ writeFrames' = <<>>
               /\ UNCHANGED <<currentFrame, sending>>

MainRefills == /\ currentFrame = NoFrame /\ sending = NoFrame
               /\ writeFramesPool' = InitialPool
               /\ writeFrames' = <<>>
               /\ UNCHANGED <<currentFrame, sending>>

FrameStep == \/ Stays \/ GivesBack \/ Takes \/ Exchanges \/ Loses
             \/ MainTakes \/ MainQueues \/ MainFlushes \/ MainRefills

(* A piece of the thread's code with an outcome for the current frame is   *)
(* such a move, if the thread has a frame.                                 *)
LEMMA OutcomeMoves ==
  ASSUME FrameOutcome, currentFrame # NoFrame, UNCHANGED sending
  PROVE  FrameStep
BY DEF FrameOutcome, FrameDone, FrameGivenUp, FrameKept, GoesIdle, TakesFrame, FrameStep,
       Stays, GivesBack, Exchanges

(* Taking the next frame is such a move, if the thread has none. *)
LEMMA NextFrameMoves ==
  ASSUME GoesIdle \/ TakesFrame, currentFrame = NoFrame,
         UNCHANGED <<writeFramesPool, sending>>
  PROVE  FrameStep
BY DEF GoesIdle, TakesFrame, FrameStep, Stays, Takes

(* Every step is one of these moves, and a race is never undone. *)
LEMMA StepMoves ==
  ASSUME Data, Flags, Holding, [Next]_vars
  PROVE  FrameStep /\ (raced => raced')
<1> USE DEF queues, holding, errors, signals, mains, history
<1>r. raced => raced'
  BY DEF Next, Writer, Main, vars, Begin, InterframeEnds, WakeUp, EnterSelect, FlushCurrent,
     SelectFails, WriteReady, ByteGapEnds, RetryEnds, Destroy, Start, StopBegin, StopEnd,
     SendTake, SendAdd, FlushOut, Setup
<1> SUFFICES FrameStep
  BY <1>r
<1>1. CASE Begin
  <2>1. currentFrame = NoFrame /\ UNCHANGED <<writeFramesPool, sending>>
    BY <1>1 DEF Begin, Holding
  <2>2. CASE GetFrame
    BY <2>1, <2>2, NextFrameDoes, NextFrameMoves
  <2>3. CASE UNCHANGED <<writeFrames, currentFrame>>
    BY <2>1, <2>3 DEF FrameStep, Stays
  <2> QED BY <1>1, <2>2, <2>3 DEF Begin
<1>2. CASE InterframeEnds
  <2>1. currentFrame = NoFrame /\ UNCHANGED <<writeFramesPool, sending>>
    BY <1>2 DEF InterframeEnds, Holding
  <2> QED BY <1>2, <2>1, NextFrameDoes, NextFrameMoves DEF InterframeEnds
<1>3. CASE WakeUp
  <2>1. currentFrame = NoFrame /\ UNCHANGED <<writeFramesPool, sending>>
    BY <1>3 DEF WakeUp, Holding
  <2> QED BY <1>3, <2>1, NextFrameDoes, NextFrameMoves DEF WakeUp
<1>4. CASE FlushCurrent
  <2>1. currentFrame # NoFrame /\ Done /\ UNCHANGED sending
    BY <1>4 DEF FlushCurrent, SelectReturns, Holding, Writing
  <2>2. FrameOutcome
    BY <2>1, NextFrameDoes DEF Done, FrameOutcome, FrameDone
  <2> QED BY <2>1, <2>2, OutcomeMoves
<1>5. CASE SelectFails
  <2>1. currentFrame # NoFrame /\ UNCHANGED sending
    BY <1>5 DEF SelectFails, SelectReturns, Holding, Writing
  <2>2. PICK e \in Errors : WriteError(e)
    BY <1>5 DEF SelectFails, Errors
  <2>3. FrameOutcome
    BY <2>2, WriteErrorDoes DEF FrameOutcome
  <2> QED BY <2>1, <2>3, OutcomeMoves
<1>6. CASE WriteReady
  <2>1. currentFrame # NoFrame /\ UNCHANGED sending
    BY <1>6 DEF WriteReady, SelectReturns, Holding, Writing
  <2> QED BY <1>6, <2>1, WriteReadyDoes, OutcomeMoves
<1>7. CASE ByteGapEnds
  <2>1. /\ currentFrame # NoFrame /\ UNCHANGED sending
        /\ AfterWrite(written, left) /\ left \in 0 .. MaxChunks
        /\ written # "some" => left > 0
    BY <1>7 DEF ByteGapEnds, Holding, Writing, Data
  <2> QED BY <2>1, AfterWriteDoes, OutcomeMoves
<1>8. CASE Destroy
  <2>1. CASE currentFrame = NoFrame
    BY <1>8, <2>1 DEF Destroy, FrameStep, Stays
  <2>2. CASE currentFrame # NoFrame
    BY <1>8, <2>2 DEF Destroy, FrameStep, GivesBack, Loses
  <2> QED BY <2>1, <2>2
<1>9. CASE SendTake
  BY <1>9 DEF SendTake, MainIdle, Holding, Data, FrameStep, MainTakes
<1>10. CASE SendAdd
  BY <1>10 DEF SendAdd, Holding, FrameStep, MainQueues
<1>11. CASE FlushOut
  BY <1>11 DEF FlushOut, FrameStep, MainFlushes
<1>12. CASE Setup
  BY <1>12 DEF Setup, MainIdle, Holding, Data, FrameStep, MainRefills
<1>13. CASE EnterSelect \/ RetryEnds \/ Start \/ StopBegin \/ StopEnd \/ UNCHANGED vars
  BY <1>13 DEF EnterSelect, RetryEnds, Start, StopBegin, StopEnd, vars, FrameStep, Stays
<1> QED
  BY <1>1, <1>2, <1>3, <1>4, <1>5, <1>6, <1>7, <1>8, <1>9, <1>10, <1>11, <1>12, <1>13
  DEF Next, Writer, Main

(* Such a move leaves the queues queues of frames. *)
LEMMA MovesKeepTypes ==
  ASSUME Data, FrameStep
  PROVE  /\ writeFramesPool' \in Seq(Frames)
         /\ writeFrames' \in Seq(Frames)
         /\ currentFrame' \in Frames \cup {NoFrame}
         /\ sending' \in Frames \cup {NoFrame}
<1>0. /\ writeFramesPool \in Seq(Frames) /\ writeFrames \in Seq(Frames)
      /\ currentFrame \in Frames \cup {NoFrame} /\ sending \in Frames \cup {NoFrame}
      /\ NoFrame \notin Frames /\ InitialPool \in Seq(Frames) /\ <<>> \in Seq(Frames)
  BY WriteAssumption DEF Data
<1>1. CASE Stays \/ Loses
  BY <1>0, <1>1 DEF Stays, Loses
<1>2. CASE GivesBack \/ Exchanges
  <2>1. /\ currentFrame \in Frames
        /\ writeFramesPool' = Append(writeFramesPool, currentFrame)
    BY <1>0, <1>2 DEF GivesBack, Exchanges
  <2>2. writeFramesPool' \in Seq(Frames)
    BY <1>0, <2>1, Enqueue
  <2>3. writeFrames # <<>> => Head(writeFrames) \in Frames /\ Tail(writeFrames) \in Seq(Frames)
    BY <1>0, Dequeue
  <2> QED BY <1>0, <1>2, <2>2, <2>3 DEF GivesBack, Exchanges
<1>3. CASE Takes
  BY <1>0, <1>3, Dequeue DEF Takes
<1>4. CASE MainTakes
  BY <1>0, <1>4, Dequeue DEF MainTakes
<1>5. CASE MainQueues
  BY <1>0, <1>5, Enqueue DEF MainQueues
<1>6. CASE MainFlushes
  <2>1. writeFramesPool \o writeFrames \in Seq(Frames)
    BY <1>0, MoveAll
  <2> QED BY <1>0, <1>6, <2>1 DEF MainFlushes
<1>7. CASE MainRefills
  BY <1>0, <1>7 DEF MainRefills
<1> QED BY <1>1, <1>2, <1>3, <1>4, <1>5, <1>6, <1>7 DEF FrameStep

-----------------------------------------------------------------------------
(* Types.                                                                  *)

(* Every step keeps the types of the flags. *)
LEMMA FlagsKept ==
  ASSUME Data, Flags, Holding, [Next]_vars
  PROVE  Flags'
<1> USE DEF queues, holding, errors, signals, mains, history
<1>1. CASE Begin
  BY <1>1 DEF Begin, GetFrame, Flags
<1>2. CASE InterframeEnds
  BY <1>2, NextFrameFlags DEF InterframeEnds, Flags
<1>3. CASE WakeUp
  BY <1>3, NextFrameFlags DEF WakeUp, Flags
<1>4. CASE FlushCurrent
  BY <1>4, NextFrameFlags DEF FlushCurrent, SelectReturns, Done, Flags
<1>5. CASE SelectFails
  <2>1. PICK e \in Errors : WriteError(e)
    BY <1>5 DEF SelectFails, Errors
  <2> QED BY <1>5, <2>1, WriteErrorDoes DEF SelectFails, SelectReturns, Flags
<1>6. CASE WriteReady
  BY <1>6, WriteReadyDoes DEF WriteReady, SelectReturns, Flags
<1>7. CASE ByteGapEnds
  <2>1. /\ AfterWrite(written, left) /\ left \in 0 .. MaxChunks
        /\ written # "some" => left > 0
    BY <1>7 DEF ByteGapEnds, Holding, Data
  <2>2. running' \in BOOLEAN /\ woken' \in BOOLEAN
    BY <2>1, AfterWriteDoes
  <2> QED BY <1>7, <2>2 DEF ByteGapEnds, Flags
<1>8. CASE Destroy
  BY <1>8 DEF Destroy, Flags
<1>9. CASE EnterSelect \/ RetryEnds \/ Start \/ SendTake \/ FlushOut \/ Setup \/ UNCHANGED vars
  BY <1>9 DEF EnterSelect, RetryEnds, Start, SendTake, FlushOut, Setup, vars, Flags
<1>10. CASE StopBegin \/ StopEnd \/ SendAdd
  BY <1>10 DEF StopBegin, StopEnd, SendAdd, Flags
<1> QED
  BY <1>1, <1>2, <1>3, <1>4, <1>5, <1>6, <1>7, <1>8, <1>9, <1>10 DEF Next, Writer, Main

(* What is left to show of Data' and Holding' when the queues are typed. *)
Kept == /\ left' \in 0 .. MaxChunks
        /\ tries' \in 0 .. MaxWriteTry
        /\ pc' \in Locations
        /\ Holding'

(* Taking the next frame, or none, leaves the thread with a frame if and   *)
(* only if it is going to write one.                                       *)
LEMMA NextFrameKeeps ==
  ASSUME Data, Holding, GoesIdle \/ TakesFrame, UNCHANGED <<mutex, sending>>
  PROVE  Kept
<1> USE WriteAssumption DEF Kept, Holding, Data, Locations, Writing
<1>1. CASE GoesIdle
  BY <1>1 DEF GoesIdle
<1>2. CASE TakesFrame
  <2>1. Head(writeFrames) \in Frames
    BY <1>2, Dequeue DEF TakesFrame
  <2>2. currentFrame' # NoFrame
    BY <1>2, <2>1 DEF TakesFrame
  <2> QED BY <1>2, <2>2 DEF TakesFrame
<1> QED BY <1>1, <1>2

(* So does any outcome of writing the current frame. *)
LEMMA OutcomeKeeps ==
  ASSUME Data, Holding, FrameOutcome, currentFrame # NoFrame, UNCHANGED <<mutex, sending>>
  PROVE  Kept
<1>1. CASE FrameDone
  BY <1>1, NextFrameKeeps DEF FrameDone
<1>2. CASE FrameGivenUp
  BY <1>2, WriteAssumption DEF FrameGivenUp, Kept, Holding, Data, Locations, Writing
<1>3. CASE FrameKept
  BY <1>3, WriteAssumption DEF FrameKept, Kept, Holding, Data, Locations, Writing
<1> QED BY <1>1, <1>2, <1>3 DEF FrameOutcome

(* Every step keeps the types of the rest, and a frame in the thread where *)
(* it writes one and nowhere else.                                         *)
LEMMA DataKept ==
  ASSUME Data, Flags, Holding, [Next]_vars
  PROVE  Data' /\ Holding'
<1> USE DEF queues, holding, errors, signals, mains, history
<1>0. /\ writeFramesPool' \in Seq(Frames)
      /\ writeFrames' \in Seq(Frames)
      /\ currentFrame' \in Frames \cup {NoFrame}
      /\ sending' \in Frames \cup {NoFrame}
  BY StepMoves, MovesKeepTypes
<1> DEFINE Others == /\ mutex' = mutex /\ sending' = sending /\ config' = config
                     /\ fresh' = fresh
<1>a. ASSUME Others, Kept, ErrorsOK, written' \in {"some", "none", "failed"}
      PROVE  Data' /\ Holding'
  BY <1>0, <1>a DEF Data, Kept, ErrorsOK
<1>b. ErrorsOK \/ ~UNCHANGED errors
  BY DEF ErrorsOK, Data
<1>c. written' \in {"some", "none", "failed"} \/ written' # written
  BY DEF Data
<1>1. CASE Begin
  <2>1. Others /\ UNCHANGED <<written, errors>>
    BY <1>1 DEF Begin
  <2>2. CASE GetFrame
    BY <1>a, <1>b, <1>c, <2>1, <2>2, NextFrameDoes, NextFrameKeeps
  <2>3. CASE pc' = "Interframe" /\ UNCHANGED <<writeFrames, currentFrame, left, tries>>
    <3>1. Kept
      BY <1>1, <2>1, <2>3 DEF Begin, Kept, Holding, Data, Locations, Writing
    <3> QED BY <1>a, <1>b, <1>c, <2>1, <3>1
  <2> QED BY <1>1, <2>2, <2>3 DEF Begin
<1>2. CASE InterframeEnds
  <2>1. Others /\ GetFrameOrLeave /\ UNCHANGED <<written, errors>>
    BY <1>2 DEF InterframeEnds
  <2> QED BY <1>a, <1>b, <1>c, <2>1, NextFrameDoes, NextFrameKeeps
<1>3. CASE WakeUp
  <2>1. Others /\ (GetFrame \/ GetFrameOrLeave) /\ UNCHANGED <<written, errors>>
    BY <1>3 DEF WakeUp
  <2> QED BY <1>a, <1>b, <1>c, <2>1, NextFrameDoes, NextFrameKeeps
<1>4. CASE FlushCurrent
  <2>1. Others /\ NextFrame /\ UNCHANGED <<written, errors>>
    BY <1>4 DEF FlushCurrent, SelectReturns, Done
  <2> QED BY <1>a, <1>b, <1>c, <2>1, NextFrameDoes, NextFrameKeeps
<1>5. CASE SelectFails
  <2>1. Others /\ currentFrame # NoFrame /\ UNCHANGED written
    BY <1>5 DEF SelectFails, SelectReturns, Holding, Writing
  <2>2. PICK e \in Errors : WriteError(e)
    BY <1>5 DEF SelectFails, Errors
  <2>3. FrameOutcome /\ ErrorsOK
    BY <2>2, WriteErrorDoes DEF FrameOutcome
  <2> QED BY <1>a, <1>c, <2>1, <2>3, OutcomeKeeps
<1>6. CASE WriteReady
  <2>1. Others /\ currentFrame # NoFrame
    BY <1>6 DEF WriteReady, SelectReturns, Holding, Writing
  <2>2. FrameOutcome /\ ErrorsOK /\ written' \in {"some", "none", "failed"}
    BY <1>6, WriteReadyDoes
  <2> QED BY <1>a, <2>1, <2>2, OutcomeKeeps
<1>7. CASE ByteGapEnds
  <2>1. /\ Others /\ currentFrame # NoFrame /\ written' = "some"
        /\ AfterWrite(written, left) /\ left \in 0 .. MaxChunks
        /\ written # "some" => left > 0
    BY <1>7 DEF ByteGapEnds, Holding, Writing, Data
  <2>2. FrameOutcome /\ ErrorsOK
    BY <2>1, AfterWriteDoes
  <2> QED BY <1>a, <2>1, <2>2, OutcomeKeeps
<1>8. CASE EnterSelect
  <2>1. Others /\ Kept /\ UNCHANGED <<written, errors>>
    BY <1>8 DEF EnterSelect, Kept, Holding, Data, Locations, Writing
  <2> QED BY <1>a, <1>b, <1>c, <2>1
<1>9. CASE RetryEnds
  <2>1. Others /\ Kept /\ UNCHANGED <<written, errors>>
    BY <1>9 DEF RetryEnds, Kept, Holding, Data, Locations, Writing
  <2> QED BY <1>a, <1>b, <1>c, <2>1
<1>10. CASE Destroy
  <2>1. Others /\ Kept /\ UNCHANGED <<written, errors>>
    BY <1>10, WriteAssumption DEF Destroy, Kept, Holding, Data, Locations, Writing
  <2> QED BY <1>a, <1>b, <1>c, <2>1
<1>11. CASE Start
  <2>1. Others /\ Kept /\ UNCHANGED written
    BY <1>11 DEF Start, Kept, Holding, Data, Locations, Writing
  <2>2. ErrorsOK
    BY <1>11 DEF Start, ErrorsOK, Errors
  <2> QED BY <1>a, <1>c, <2>1, <2>2
<1>12. CASE StopBegin \/ StopEnd
  <2>1. Others /\ Kept /\ UNCHANGED written
    BY <1>12 DEF StopBegin, StopEnd, Kept, Holding, Data, Locations, Writing
  <2>2. ErrorsOK
    BY <1>12 DEF StopBegin, StopEnd, ErrorsOK, Errors, Data
  <2> QED BY <1>a, <1>c, <2>1, <2>2
<1>13. CASE SendTake \/ SendAdd
  <2>1. /\ UNCHANGED <<left, tries, written, config, pc, currentFrame, errors>>
        /\ mutex' \in {"free", "main"}
        /\ mutex' = "main" <=> sending' # NoFrame
    <3>1. CASE SendTake
      <4>1. Head(writeFramesPool) \in Frames
        BY <3>1, Dequeue DEF SendTake, Data
      <4> QED BY <3>1, <4>1, WriteAssumption DEF SendTake
    <3>2. CASE SendAdd
      BY <3>2 DEF SendAdd
    <3> QED BY <1>13, <3>1, <3>2
  <2>2. fresh' \subseteq Frames
    BY <1>13 DEF SendTake, SendAdd, Data, Holding
  <2> QED BY <1>0, <2>1, <2>2 DEF Data, Holding
<1>14. CASE FlushOut \/ Setup
  <2>1. /\ UNCHANGED <<left, tries, written, pc, currentFrame, errors, mutex, sending>>
        /\ config' \in Configs /\ fresh' = {}
    BY <1>14 DEF FlushOut, Setup, Data
  <2> QED BY <1>0, <2>1 DEF Data, Holding
<1>15. CASE UNCHANGED vars
  BY <1>15 DEF vars, Data, Holding
<1> QED
  BY <1>1, <1>2, <1>3, <1>4, <1>5, <1>6, <1>7, <1>8, <1>9, <1>10, <1>11, <1>12, <1>13,
     <1>14, <1>15
  DEF Next, Writer, Main

-----------------------------------------------------------------------------
(* No frame is doubled, ever, and none is lost while no two threads met in *)
(* a queue.  After a race, the frames that are still there are a set G,    *)
(* which only the allocation of new frames makes whole again.              *)

Present(G) ==
  /\ writeFramesPool \in Seq(G)
  /\ writeFrames \in Seq(G)
  /\ Held \subseteq G
  /\ Partition(G, writeFramesPool, writeFrames, Held)
  /\ currentFrame = sending => currentFrame = NoFrame
  /\ ~raced => G = Frames

NoDouble == \E G \in SUBSET Frames : Present(G)

(* A sequence is a sequence over any set that has its elements. *)
LEMMA Restricted ==
  ASSUME NEW S, NEW T, NEW q \in Seq(S), Range(q) \subseteq T
  PROVE  q \in Seq(T)
<1>1. /\ Len(q) \in Nat /\ DOMAIN q = 1 .. Len(q)
      /\ q = [i \in 1 .. Len(q) |-> q[i]]
  OBVIOUS
<1>2. \A i \in 1 .. Len(q) : q[i] \in T
  BY <1>1 DEF Range
<1> QED BY <1>1, <1>2

(* Each move keeps the frames that are there apart. *)
LEMMA MovesKeepNoDouble ==
  ASSUME NoDouble, FrameStep, raced => raced'
  PROVE  NoDouble'
<1>1. PICK G \in SUBSET Frames : Present(G)
  BY DEF NoDouble
<1>2. /\ writeFramesPool \in Seq(G) /\ writeFrames \in Seq(G) /\ <<>> \in Seq(G)
      /\ Held \subseteq G
      /\ Partition(G, writeFramesPool, writeFrames, Held)
      /\ Partition(G, writeFrames, writeFramesPool, Held)
      /\ currentFrame = sending => currentFrame = NoFrame
      /\ ~raced' => G = Frames
      /\ NoFrame \notin G
      /\ currentFrame \in G \/ currentFrame = NoFrame
      /\ sending \in G \/ sending = NoFrame
  BY <1>1, PartitionSwap, WriteAssumption DEF Present, Held
<1>3. SUFFICES ASSUME ~Loses, ~MainRefills
               PROVE  Present(G)'
  <2>1. CASE Loses
    <3>0. PICK H \in SUBSET Frames : H = G \ {currentFrame}
      OBVIOUS
    <3>1. currentFrame \in G \cap Held
      BY <1>2, <2>1 DEF Loses, Held
    <3>2. currentFrame \notin Range(writeFramesPool) /\ currentFrame \notin Range(writeFrames)
      BY <1>2, <3>1 DEF Partition
    <3>3. Range(writeFramesPool) \subseteq G /\ Range(writeFrames) \subseteq G
      BY <1>2 DEF Range
    <3>4. writeFramesPool \in Seq(H) /\ writeFrames \in Seq(H)
      BY <1>2, <3>0, <3>2, <3>3, Restricted
    <3>5. Held' = Held \ {currentFrame}
      BY <1>2, <2>1 DEF Loses, Held
    <3>6. Partition(H, writeFramesPool, writeFrames, Held \ {currentFrame})
      BY <1>2, <3>0, <3>1 DEF Partition
    <3>7. currentFrame' = sending' => currentFrame' = NoFrame
      BY <2>1 DEF Loses
    <3>8. Held' \subseteq H
      BY <1>2, <3>0, <3>5
    <3>9. Present(H)'
      BY <2>1, <3>4, <3>5, <3>6, <3>7, <3>8 DEF Loses, Present
    <3> QED BY <3>9 DEF NoDouble
  <2>2. CASE MainRefills
    <3>1. Partition(Frames, InitialPool, <<>>, {}) /\ <<>> \in Seq(Frames)
      BY WriteAssumption, PartitionInit DEF Frames
    <3>2. Held' = {}
      BY <2>2 DEF MainRefills, Held
    <3>3. Present(Frames)'
      BY <2>2, <3>1, <3>2, WriteAssumption DEF MainRefills, Present
    <3> QED BY <3>3 DEF NoDouble
  <2> QED BY <2>1, <2>2 DEF NoDouble
<1>4. CASE Stays
  BY <1>2, <1>4 DEF Stays, Present, Held
<1>5. ASSUME currentFrame # NoFrame, writeFramesPool' = Append(writeFramesPool, currentFrame)
      PROVE  /\ writeFramesPool' \in Seq(G)
             /\ Partition(G, writeFramesPool', writeFrames, Held \ {currentFrame})
  <2>1. currentFrame \in G \cap Held
    BY <1>2, <1>5 DEF Held
  <2>2. Append(writeFramesPool, currentFrame) \in Seq(G)
    BY <1>2, <2>1, Enqueue
  <2> QED BY <1>2, <1>5, <2>1, <2>2, PartitionGive
<1>6. CASE GivesBack
  <2>1. Held' = Held \ {currentFrame} /\ writeFrames' = writeFrames /\ currentFrame' = NoFrame
    BY <1>2, <1>6 DEF GivesBack, Held
  <2> QED BY <1>2, <1>5, <1>6, <2>1 DEF GivesBack, Present
<1>7. ASSUME NEW p \in Seq(G), NEW H, Partition(G, p, writeFrames, H), H \subseteq G,
             H = {sending} \ {NoFrame}, UNCHANGED sending,
             writeFramesPool' = p, writeFrames # <<>>,
             currentFrame' = Head(writeFrames), writeFrames' = Tail(writeFrames)
      PROVE  Present(G)'
  <2>0. Partition(G, writeFrames, p, H)
    BY <1>7, PartitionSwap
  <2>1. /\ Partition(G, Tail(writeFrames), p, H \cup {Head(writeFrames)})
        /\ Head(writeFrames) \in G \ H
    BY <1>2, <1>7, <2>0, PartitionTake
  <2>2. Tail(writeFrames) \in Seq(G)
    BY <1>2, <1>7, Dequeue
  <2>3. Held' = H \cup {Head(writeFrames)}
    BY <1>2, <1>7, <2>1 DEF Held
  <2>4. currentFrame' # sending' /\ Held' \subseteq G
    BY <1>2, <1>7, <2>1, <2>3
  <2> QED BY <1>2, <1>7, <2>1, <2>2, <2>3, <2>4, PartitionSwap DEF Present
<1>8. CASE Takes
  BY <1>2, <1>7, <1>8 DEF Takes, Held
<1>9. CASE Exchanges
  <2>1. Held \ {currentFrame} = {sending} \ {NoFrame}
    BY <1>2, <1>9 DEF Exchanges, Held
  <2> QED BY <1>2, <1>5, <1>7, <1>9, <2>1 DEF Exchanges
<1>10. CASE MainTakes
  <2>1. /\ Partition(G, Tail(writeFramesPool), writeFrames, Held \cup {Head(writeFramesPool)})
        /\ Head(writeFramesPool) \in G \ Held
    BY <1>2, <1>10, PartitionTake DEF MainTakes
  <2>2. Tail(writeFramesPool) \in Seq(G)
    BY <1>2, <1>10, Dequeue DEF MainTakes
  <2>3. /\ Held' = Held \cup {Head(writeFramesPool)}
        /\ currentFrame' = sending' => currentFrame' = NoFrame
    BY <1>2, <1>10, <2>1 DEF MainTakes, Held
  <2> QED BY <1>2, <1>10, <2>1, <2>2, <2>3 DEF MainTakes, Present
<1>11. CASE MainQueues
  <2>1. sending \in G \cap Held
    BY <1>2, <1>11 DEF MainQueues, Held
  <2>2. /\ Partition(G, Append(writeFrames, sending), writeFramesPool, Held \ {sending})
        /\ Append(writeFrames, sending) \in Seq(G)
    BY <1>2, <2>1, PartitionGive, Enqueue
  <2>3. /\ Held' = Held \ {sending}
        /\ currentFrame' = sending' => currentFrame' = NoFrame
    BY <1>2, <1>11 DEF MainQueues, Held
  <2> QED BY <1>2, <1>11, <2>2, <2>3, PartitionSwap DEF MainQueues, Present
<1>12. CASE MainFlushes
  <2>1. /\ Partition(G, writeFramesPool \o writeFrames, <<>>, Held)
        /\ writeFramesPool \o writeFrames \in Seq(G)
    BY <1>2, PartitionMoveAll, MoveAll
  <2> QED BY <1>2, <1>12, <2>1 DEF MainFlushes, Present, Held
<1> QED BY <1>3, <1>4, <1>6, <1>8, <1>9, <1>10, <1>11, <1>12 DEF FrameStep

-----------------------------------------------------------------------------
(* The inductive invariant and the first theorems.                         *)

IInv == Flags /\ Data /\ Holding /\ NoDouble

(* It holds once initQueues() has filled the pool. *)
LEMMA InitInvariant == Init => IInv
<1> SUFFICES ASSUME Init PROVE IInv
  OBVIOUS
<1>1. Flags
  BY DEF Init, Flags
<1>2. Data
  BY WriteAssumption DEF Init, Data, Locations, Writing, Errors
<1>3. Holding
  BY DEF Init, Holding, Writing
<1>4. NoDouble
  <2>1. Partition(Frames, InitialPool, <<>>, {}) /\ <<>> \in Seq(Frames)
    BY WriteAssumption, PartitionInit DEF Frames
  <2>2. Held = {}
    BY DEF Init, Held
  <2>3. Present(Frames)
    BY <2>1, <2>2, WriteAssumption DEF Init, Present
  <2> QED BY <2>3 DEF NoDouble
<1> QED BY <1>1, <1>2, <1>3, <1>4 DEF IInv

(* Every step of the thread and of the main thread keeps it. *)
LEMMA NextInvariant == IInv /\ [Next]_vars => IInv'
BY FlagsKept, DataKept, StepMoves, MovesKeepNoDouble DEF IInv

(* The queues, the thread and the errors keep their types. *)
THEOREM TypeCorrect == Spec => []TypeOK
<1>1. IInv => TypeOK
  BY TypeParts DEF IInv
<1> QED BY <1>1, InitInvariant, NextInvariant, PTL DEF Spec

(* No frame is lost, owned twice or queued twice on the write side, as     *)
(* long as the helper's destructor and the main thread do not meet.        *)
THEOREM Conservation == Spec => []FramesConserved
<1>1. IInv => FramesConserved
  BY DEF IInv, NoDouble, Present, FramesConserved, Held
<1> QED BY <1>1, InitInvariant, NextInvariant, PTL DEF Spec

-----------------------------------------------------------------------------
(* Flush requests.  A thread begins with an empty queue: start() follows   *)
(* setup(), which has all frames in the pool, and the manager sends only   *)
(* after ready().  That a full pool leaves nothing for the queue is a      *)
(* matter of counting.                                                     *)

Holds(f) == IF f = NoFrame THEN 0 ELSE 1

Counted == Len(writeFramesPool) + Len(writeFrames) + Holds(currentFrame) + Holds(sending)
             <= Len(InitialPool)

(* No move makes a frame more of them. *)
LEMMA MovesKeepCount ==
  ASSUME Data, Counted, FrameStep
  PROVE  Counted'
<1> USE DEF Counted, Holds
<1>0. /\ writeFramesPool \in Seq(Frames) /\ writeFrames \in Seq(Frames)
      /\ currentFrame \in Frames \cup {NoFrame} /\ sending \in Frames \cup {NoFrame}
      /\ NoFrame \notin Frames /\ InitialPool \in Seq(Frames)
      /\ Len(writeFramesPool) \in Nat /\ Len(writeFrames) \in Nat /\ Len(InitialPool) \in Nat
  BY WriteAssumption DEF Data
<1>1. CASE Stays \/ Loses
  BY <1>0, <1>1 DEF Stays, Loses
<1>2. CASE GivesBack
  <2>1. Len(Append(writeFramesPool, currentFrame)) = Len(writeFramesPool) + 1
    BY <1>0, <1>2 DEF GivesBack
  <2> QED BY <1>0, <1>2, <2>1 DEF GivesBack
<1>3. ASSUME writeFrames # <<>>
      PROVE  /\ Head(writeFrames) \in Frames
             /\ Len(Tail(writeFrames)) = Len(writeFrames) - 1
  BY <1>0, <1>3
<1>4. CASE Takes
  BY <1>0, <1>3, <1>4 DEF Takes
<1>5. CASE Exchanges
  <2>1. Len(Append(writeFramesPool, currentFrame)) = Len(writeFramesPool) + 1
    BY <1>0, <1>5 DEF Exchanges
  <2> QED BY <1>0, <1>3, <1>5, <2>1 DEF Exchanges
<1>6. CASE MainTakes
  <2>1. /\ Head(writeFramesPool) \in Frames
        /\ Len(Tail(writeFramesPool)) = Len(writeFramesPool) - 1
    BY <1>0, <1>6 DEF MainTakes
  <2> QED BY <1>0, <1>6, <2>1 DEF MainTakes
<1>7. CASE MainQueues
  <2>1. Len(Append(writeFrames, sending)) = Len(writeFrames) + 1
    BY <1>0, <1>7 DEF MainQueues
  <2> QED BY <1>0, <1>7, <2>1 DEF MainQueues
<1>8. CASE MainFlushes
  <2>1. /\ Len(writeFramesPool \o writeFrames) = Len(writeFramesPool) + Len(writeFrames)
        /\ Len(<<>>) = 0
    BY <1>0
  <2> QED BY <1>0, <1>8, <2>1 DEF MainFlushes
<1>9. CASE MainRefills
  <2>1. Len(<<>>) = 0
    OBVIOUS
  <2> QED BY <1>0, <1>9, <2>1 DEF MainRefills
<1> QED BY <1>1, <1>2, <1>4, <1>5, <1>6, <1>7, <1>8, <1>9 DEF FrameStep

(* A thread sleeps between frames, or between bytes, only when its port is *)
(* configured for it.                                                      *)
SleepsConfigured ==
  /\ pc = "Interframe" => config.interframe
  /\ pc = "ByteGap" => config.bytewise

BeginsEmpty == pc = "Begin" => mutex = "free" /\ ~accepting /\ writeFrames = <<>>

FlushInv == Counted /\ SleepsConfigured /\ BeginsEmpty /\ FlushSparesNewFramesWithoutGaps

(* Where the pieces of the thread's code lead. *)
LEMMA PieceLeads ==
  ASSUME NEW e, NEW w, NEW l,
         GetFrame \/ GetFrameOrLeave \/ NextFrame \/ Done \/ WriteError(e) \/ AfterWrite(w, l)
  PROVE  /\ pc' \notin {"Begin", "ByteGap"}
         /\ pc' = "Interframe" => config.interframe
BY DEF AfterWrite, Done, NextFrame, GetFrameOrLeave, GetFrame, WriteError, Leave

(* Every step keeps the count, and the thread where its configuration and  *)
(* start() want it.                                                        *)
LEMMA PlacesKept ==
  ASSUME IInv, Counted, SleepsConfigured, BeginsEmpty, [Next]_vars
  PROVE  Counted' /\ SleepsConfigured' /\ BeginsEmpty'
<1> USE DEF SleepsConfigured, BeginsEmpty, queues, holding, errors, signals, mains, history
<1>0. Counted' /\ Data /\ Holding
  BY StepMoves, MovesKeepCount DEF IInv
<1> SUFFICES SleepsConfigured' /\ BeginsEmpty'
  BY <1>0
<1>1. CASE Begin
  BY <1>1, PieceLeads DEF Begin
<1>2. CASE InterframeEnds
  BY <1>2, PieceLeads DEF InterframeEnds
<1>3. CASE WakeUp
  BY <1>3, PieceLeads DEF WakeUp
<1>4. CASE FlushCurrent
  BY <1>4, PieceLeads DEF FlushCurrent
<1>5. CASE SelectFails
  BY <1>5, PieceLeads DEF SelectFails
<1>6. CASE WriteReady
  BY <1>6, PieceLeads DEF WriteReady
<1>7. CASE ByteGapEnds
  BY <1>7, PieceLeads DEF ByteGapEnds
<1>8. CASE EnterSelect \/ RetryEnds \/ Destroy
  BY <1>8 DEF EnterSelect, RetryEnds, Destroy
<1>9. CASE Start
  <2>1. Len(writeFrames) = 0
    BY <1>0, <1>9 DEF Start, Counted, Holds, Data
  <2>2. writeFrames = <<>>
    BY <1>0, <2>1 DEF Data
  <2> QED BY <1>0, <1>9, <2>2 DEF Start, MainIdle
<1>10. CASE StopBegin \/ StopEnd
  BY <1>10 DEF StopBegin, StopEnd
<1>11. CASE SendTake \/ SendAdd
  BY <1>11 DEF SendTake, SendAdd
<1>12. CASE FlushOut \/ Setup
  BY <1>12 DEF FlushOut, Setup
<1>13. CASE UNCHANGED vars
  BY <1>13 DEF vars
<1> QED
  BY <1>0, <1>1, <1>2, <1>3, <1>4, <1>5, <1>6, <1>7, <1>8, <1>9, <1>10, <1>11, <1>12, <1>13
  DEF Next, Writer, Main

(* Every step of a thread that never sleeps without the mutex keeps the    *)
(* frames it takes clear of the requests made before they were queued.     *)
LEMMA SparedKept ==
  ASSUME IInv, FlushInv, [Next]_vars
  PROVE  FlushSparesNewFramesWithoutGaps'
<1> USE DEF FlushSparesNewFramesWithoutGaps, FlushSparesNewFrames, queues, holding, errors,
            signals, mains, history
<1>0. Holding /\ NoDouble
  BY DEF IInv
<1>1. CASE Begin
  <2>1. writeFrames = <<>> /\ currentFrame = NoFrame
    BY <1>0, <1>1 DEF Begin, FlushInv, BeginsEmpty, Holding
  <2> QED BY <1>1, <2>1 DEF Begin, GetFrame
<1>2. CASE InterframeEnds \/ ByteGapEnds
  BY <1>2 DEF InterframeEnds, ByteGapEnds, FlushInv, SleepsConfigured
<1>3. CASE WakeUp \/ FlushCurrent
  BY <1>3 DEF WakeUp, FlushCurrent
<1>4. CASE SelectFails \/ WriteReady
  BY <1>4 DEF SelectFails, WriteReady
<1>5. CASE EnterSelect \/ RetryEnds \/ Start \/ StopBegin \/ StopEnd \/ SendTake \/ UNCHANGED vars
  <2>1. UNCHANGED <<flushOutPending, currentFrame, fresh, config>>
    BY <1>5 DEF EnterSelect, RetryEnds, Start, StopBegin, StopEnd, SendTake, vars
  <2> QED BY <2>1 DEF FlushInv
<1>6. CASE Destroy
  BY <1>6 DEF Destroy
<1>7. CASE SendAdd
  <2>1. currentFrame = sending => currentFrame = NoFrame
    BY <1>0 DEF NoDouble, Present
  <2> QED BY <1>7, <2>1 DEF SendAdd, FlushInv
<1>8. CASE FlushOut \/ Setup
  BY <1>0, <1>8 DEF FlushOut, Setup, Holding
<1> QED BY <1>1, <1>2, <1>3, <1>4, <1>5, <1>6, <1>7, <1>8 DEF Next, Writer, Main

(* flushOut() never costs a frame that was queued after it, if the thread  *)
(* does not sleep between frames or bytes.                                 *)
THEOREM FlushSparesTheNew == Spec => []FlushSparesNewFramesWithoutGaps
<1>1. Init => FlushInv
  <2>1. Init => Counted
    BY WriteAssumption DEF Init, Counted, Holds
  <2> QED BY <2>1 DEF Init, FlushInv, SleepsConfigured, BeginsEmpty,
                      FlushSparesNewFramesWithoutGaps, FlushSparesNewFrames
<1>2. IInv /\ FlushInv /\ [Next]_vars => FlushInv'
  BY PlacesKept, SparedKept DEF FlushInv
<1>3. FlushInv => FlushSparesNewFramesWithoutGaps
  BY DEF FlushInv
<1> QED BY <1>1, <1>2, <1>3, InitInvariant, NextInvariant, PTL DEF Spec

-----------------------------------------------------------------------------
(* What a flush request stops.  The frames in the queue are those queued   *)
(* since the last flushOut(), and so is the frame being written unless a   *)
(* request is pending.                                                     *)

FreshInv ==
  /\ Range(writeFrames) \subseteq fresh
  /\ pc \in Writing /\ ~flushOutPending => currentFrame \in fresh
  /\ currentFrame = NoFrame => left = 0

(* A write that goes on with the current frame changes only by l what is   *)
(* left of it.                                                             *)
LEMMA AfterWriteLeaves ==
  ASSUME NEW w, NEW l, AfterWrite(w, l)
  PROVE  \/ GoesIdle \/ TakesFrame
         \/ pc' = "Leaving" /\ currentFrame' = NoFrame /\ left' = 0 /\ writeFrames' = writeFrames
         \/ /\ UNCHANGED <<writeFrames, currentFrame>>
            /\ left' \in {l, left}
<1> USE DEF queues, errors
<1>1. CASE Done
  BY <1>1, NextFrameDoes DEF Done
<1>2. CASE \E e \in Errors : WriteError(e)
  BY <1>2 DEF WriteError, Leave, Restore
<1>3. CASE ~Done /\ ~(\E e \in Errors : WriteError(e))
  BY <1>3 DEF AfterWrite, Errors
<1> QED BY <1>1, <1>2, <1>3

(* Every step keeps it, and writes only what it allows. *)
LEMMA FreshKept ==
  ASSUME IInv, FreshInv, [Next]_vars
  PROVE  /\ FreshInv'
         /\ left' # left /\ currentFrame' = currentFrame /\ pc # "Leaving"
              => currentFrame \in fresh
<1> USE DEF queues, holding, errors, signals, mains, history
<1> DEFINE Goal == left' # left /\ currentFrame' = currentFrame /\ pc # "Leaving"
                     => currentFrame \in fresh
<1>0. /\ Data /\ Holding /\ NoFrame \notin Frames /\ writeFrames \in Seq(Frames)
      /\ Range(<<>>) = {}
  BY WriteAssumption DEF IInv, Data, Range
<1>1. ASSUME GoesIdle \/ TakesFrame, UNCHANGED fresh
      PROVE  FreshInv' /\ Goal
  <2>1. CASE GoesIdle
    BY <1>1, <2>1 DEF GoesIdle, FreshInv, Writing
  <2>2. CASE TakesFrame
    <3>1. /\ Head(writeFrames) \in Frames
          /\ Range(writeFrames) = {Head(writeFrames)} \cup Range(Tail(writeFrames))
      BY <1>0, <2>2, Dequeue DEF TakesFrame
    <3> QED BY <1>0, <1>1, <2>2, <3>1 DEF TakesFrame, FreshInv
  <2> QED BY <1>1, <2>1, <2>2
<1>2. CASE Begin
  <2>1. CASE GetFrame
    BY <1>1, <1>2, <2>1, NextFrameDoes DEF Begin
  <2>2. CASE pc' = "Interframe" /\ UNCHANGED <<writeFrames, currentFrame, left, tries, woken>>
    BY <1>2, <2>2 DEF Begin, FreshInv, Writing
  <2> QED BY <1>2, <2>1, <2>2 DEF Begin
<1>3. CASE InterframeEnds \/ WakeUp \/ FlushCurrent
  <2>1. GetFrame \/ GetFrameOrLeave \/ NextFrame
    BY <1>3 DEF InterframeEnds, WakeUp, FlushCurrent, Done
  <2>2. UNCHANGED fresh
    BY <1>3 DEF InterframeEnds, WakeUp, FlushCurrent
  <2> QED BY <1>1, <2>1, <2>2, NextFrameDoes
<1>4. ASSUME NEW w, NEW l, AfterWrite(w, l), pc \in Writing, UNCHANGED <<fresh, flushOutPending>>,
             flushOutPending => l = left
      PROVE  FreshInv' /\ Goal
  <2>0. currentFrame # NoFrame
    BY <1>0, <1>4 DEF Holding
  <2>1. CASE GoesIdle \/ TakesFrame
    BY <1>1, <1>4, <2>1
  <2>2. CASE pc' = "Leaving" /\ currentFrame' = NoFrame /\ left' = 0 /\ writeFrames' = writeFrames
    BY <1>4, <2>0, <2>2 DEF FreshInv, Writing
  <2>3. CASE UNCHANGED <<writeFrames, currentFrame>> /\ left' \in {l, left}
    BY <1>4, <2>0, <2>3 DEF FreshInv
  <2> QED BY <1>4, <2>1, <2>2, <2>3, AfterWriteLeaves
<1>5. CASE SelectFails
  <2>1. /\ ~flushOutPending /\ pc = "Select" /\ UNCHANGED <<fresh, writeFrames>>
        /\ pc' = "Leaving"
        /\ (currentFrame' = NoFrame /\ left' = 0) \/ UNCHANGED <<currentFrame, left>>
    BY <1>5 DEF SelectFails, SelectReturns, WriteError, Leave, Restore
  <2> QED BY <1>0, <2>1 DEF FreshInv, Holding, Writing
<1>6. CASE WriteReady
  <2>1. pc = "Select" /\ ~flushOutPending /\ UNCHANGED <<fresh, flushOutPending>>
    BY <1>6 DEF WriteReady, SelectReturns
  <2>2. CASE UNCHANGED <<queues, currentFrame>>
    BY <1>0, <2>1, <2>2 DEF FreshInv, Holding, Writing
  <2>3. CASE \E w, l : AfterWrite(w, l)
    BY <1>4, <2>1, <2>3 DEF Writing
  <2> QED BY <1>6, <2>2, <2>3 DEF WriteReady
<1>7. CASE ByteGapEnds
  BY <1>4, <1>7 DEF ByteGapEnds, Writing
<1>8. CASE \/ EnterSelect \/ RetryEnds \/ Start \/ StopBegin \/ StopEnd \/ SendTake
           \/ UNCHANGED vars
  <2>1. UNCHANGED <<writeFrames, fresh, flushOutPending, currentFrame, left>>
    BY <1>8 DEF EnterSelect, RetryEnds, Start, StopBegin, StopEnd, SendTake, vars
  <2>2. pc' \in Writing => pc \in Writing
    BY <1>8 DEF EnterSelect, RetryEnds, Start, StopBegin, StopEnd, SendTake, vars, Writing
  <2> QED BY <2>1, <2>2 DEF FreshInv
<1>9. CASE Destroy
  BY <1>9 DEF Destroy, FreshInv, Writing
<1>10. CASE SendAdd
  <2>1. Range(writeFrames') = Range(writeFrames) \cup {sending}
    BY <1>0, <1>10, Enqueue DEF SendAdd, Data, Holding
  <2> QED BY <1>10, <2>1 DEF SendAdd, FreshInv
<1>11. CASE FlushOut \/ Setup
  BY <1>0, <1>11 DEF FlushOut, Setup, FreshInv, Writing
<1> QED
  BY <1>2, <1>3, <1>5, <1>6, <1>7, <1>8, <1>9, <1>10, <1>11 DEF Next, Writer, Main

(* After flushOut(), nothing more is written of a frame that was queued    *)
(* before it.                                                              *)
THEOREM FlushStops == Spec => FlushStopsWriting
<1>1. Init => FreshInv
  BY DEF Init, FreshInv, Writing, Range
<1>2. IInv /\ FreshInv /\ [Next]_vars => FreshInv'
  BY FreshKept
<1>3. IInv /\ FreshInv /\ [Next]_vars
        => [left' # left /\ currentFrame' = currentFrame /\ pc # "Leaving"
              => currentFrame \in fresh]_vars
  BY FreshKept
<1> QED BY <1>1, <1>2, <1>3, InitInvariant, NextInvariant, PTL DEF Spec, FlushStopsWriting

-----------------------------------------------------------------------------
(* The write side implements FrameCycle.                                   *)

(* Which way the frames go: into the queue from the main thread only, to   *)
(* the thread from the queue only, to the main thread from the pool only;  *)
(* and the main thread parts with its frame only to queue it.              *)
LEMMA MovesGo ==
  ASSUME Data, FrameStep
  PROVE  /\ Range(writeFrames') \subseteq Range(writeFrames) \cup {sending}
         /\ currentFrame' \in {NoFrame, currentFrame} \cup Range(writeFrames)
         /\ sending' \in {NoFrame, sending} \cup Range(writeFramesPool)
         /\ \/ sending = NoFrame \/ sending' = sending
            \/ sending \in Range(writeFrames')
<1>0. /\ writeFramesPool \in Seq(Frames) /\ writeFrames \in Seq(Frames)
      /\ sending \in Frames \cup {NoFrame}
      /\ Range(<<>>) = {}
  BY DEF Data, Range
<1>1. ASSUME writeFrames # <<>>
      PROVE  Head(writeFrames) \in Range(writeFrames) /\ Range(Tail(writeFrames)) \subseteq Range(writeFrames)
  BY <1>0, <1>1, Dequeue
<1>2. CASE Stays \/ GivesBack \/ Loses
  BY <1>2 DEF Stays, GivesBack, Loses
<1>3. CASE Takes \/ Exchanges
  BY <1>1, <1>3 DEF Takes, Exchanges
<1>4. CASE MainTakes
  BY <1>0, <1>4, Dequeue DEF MainTakes
<1>5. CASE MainQueues
  <2>1. Range(writeFrames') = Range(writeFrames) \cup {sending}
    BY <1>0, <1>5, Enqueue DEF MainQueues
  <2> QED BY <1>5, <2>1 DEF MainQueues
<1>6. CASE MainFlushes \/ MainRefills
  BY <1>0, <1>6 DEF MainFlushes, MainRefills
<1> QED BY <1>2, <1>3, <1>4, <1>5, <1>6 DEF FrameStep

Conserved == /\ Partition(Frames, writeFramesPool, writeFrames, Held)
             /\ currentFrame = sending => currentFrame = NoFrame

(* Where a frame is, when the frames are conserved. *)
LEMMA Places ==
  ASSUME Conserved, NEW f \in Frames, NoFrame \notin Frames
  PROVE  \/ f = currentFrame /\ f # sending /\ ~InQueue(f) /\ ~InPool(f)
         \/ f # currentFrame /\ f = sending /\ ~InQueue(f) /\ ~InPool(f)
         \/ f # currentFrame /\ f # sending /\ InQueue(f) /\ ~InPool(f)
         \/ f # currentFrame /\ f # sending /\ ~InQueue(f) /\ InPool(f)
BY DEF Conserved, Partition, Held, InQueue, InPool

(* Every step of the write side is a step of FrameCycle, or leaves every   *)
(* frame where it is.                                                      *)
THEOREM Refinement == Spec => Circulation
<1> DEFINE place == [f \in Frames |-> IF f = currentFrame THEN "thread"
                                      ELSE IF f = sending THEN "main"
                                      ELSE IF InQueue(f) THEN "queue"
                                      ELSE IF InPool(f) THEN "pool" ELSE "lost"]
<1>1. Init => Cycle!Init
  <2> SUFFICES ASSUME Init PROVE Cycle!Init
    OBVIOUS
  <2>1. Range(<<>>) = {} /\ NoFrame \notin Frames
    BY WriteAssumption DEF Range
  <2>2. \A f \in Frames : f # currentFrame /\ f # sending /\ ~InQueue(f) /\ InPool(f)
    BY <2>1 DEF Init, InQueue, InPool, Frames
  <2> QED BY <2>2 DEF Cycle!Init, Init
<1>2. ASSUME IInv, IInv', [Next]_vars
      PROVE  Cycle!Next
  <2>1. /\ Range(writeFrames') \subseteq Range(writeFrames) \cup {sending}
        /\ currentFrame' \in {NoFrame, currentFrame} \cup Range(writeFrames)
        /\ sending' \in {NoFrame, sending} \cup Range(writeFramesPool)
        /\ sending = NoFrame \/ sending' = sending \/ sending \in Range(writeFrames')
        /\ raced => raced'
        /\ NoFrame \notin Frames
    BY <1>2, StepMoves, MovesGo, WriteAssumption DEF IInv
  <2>2. ASSUME ~raced'
        PROVE  Cycle!Circulate
    <3>1. Conserved /\ Conserved'
      BY <1>2, <2>1, <2>2 DEF IInv, NoDouble, Present, Conserved
    <3>2. ASSUME NEW f \in Frames, place'[f] # place[f]
          PROVE  <<place[f], place'[f]>> \in
                   {<<"pool", "main">>, <<"main", "queue">>, <<"queue", "thread">>,
                    <<"thread", "pool">>, <<"queue", "pool">>}
      <4>1. \/ f = currentFrame /\ f # sending /\ ~InQueue(f) /\ ~InPool(f)
            \/ f # currentFrame /\ f = sending /\ ~InQueue(f) /\ ~InPool(f)
            \/ f # currentFrame /\ f # sending /\ InQueue(f) /\ ~InPool(f)
            \/ f # currentFrame /\ f # sending /\ ~InQueue(f) /\ InPool(f)
        BY <2>1, <3>1, Places
      <4>2. \/ f = currentFrame' /\ f # sending' /\ ~InQueue(f)' /\ ~InPool(f)'
            \/ f # currentFrame' /\ f = sending' /\ ~InQueue(f)' /\ ~InPool(f)'
            \/ f # currentFrame' /\ f # sending' /\ InQueue(f)' /\ ~InPool(f)'
            \/ f # currentFrame' /\ f # sending' /\ ~InQueue(f)' /\ InPool(f)'
        BY <2>1, <3>1 DEF Conserved, Partition, Held, InQueue, InPool
      <4>3. InQueue(f)' => InQueue(f) \/ f = sending
        BY <2>1 DEF InQueue
      <4>4. f = currentFrame' => f = currentFrame \/ InQueue(f)
        BY <2>1 DEF InQueue
      <4>5. f = sending' => f = sending \/ InPool(f)
        BY <2>1 DEF InPool
      <4>6. f = sending => f = sending' \/ InQueue(f)'
        BY <2>1 DEF InQueue
      <4> QED BY <3>2, <4>1, <4>2, <4>3, <4>4, <4>5, <4>6
    <3>3. \A f \in Frames : /\ place'[f] = "thread" => f = currentFrame'
                            /\ place'[f] = "main" => f = sending'
      OBVIOUS
    <3>4. place' \in [Frames -> {"pool", "main", "queue", "thread", "lost"}]
      OBVIOUS
    <3> QED BY <3>2, <3>3, <3>4 DEF Cycle!Circulate
  <2> QED BY <2>1, <2>2 DEF Cycle!Next
<1> QED BY <1>1, <1>2, InitInvariant, NextInvariant, PTL DEF Spec, Circulation, Cycle!Spec
=============================================================================
