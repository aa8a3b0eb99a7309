-------------------------- MODULE ReadThreadProofs --------------------------
(***************************************************************************)
(* Proofs about the read side of a port, for any number of frames.         *)
(***************************************************************************)
EXTENDS ReadThread, QueueLemmas

Held == {currentFrame} \ {NoFrame}

(* The thread has a frame where run() reads or stores data, and none where *)
(* it polls for one or is not in its loop.                                 *)
Holding ==
  /\ pc \in {"PreSelect", "Select", "Check", "Store"} => currentFrame # NoFrame
  /\ pc \in Polling \cup {"Off", "Begin"} => currentFrame = NoFrame

(* The inductive invariant. *)
IInv == TypeOK /\ Holding /\ FramesConserved

(* TypeOK in two parts: the flags, and the rest. *)
Flags ==
  /\ frameUsed \in BOOLEAN /\ flushInPending \in BOOLEAN /\ running \in BOOLEAN
  /\ interrupted \in BOOLEAN /\ newFrame \in BOOLEAN
  /\ stopAsked \in BOOLEAN /\ raced \in BOOLEAN

Data ==
  /\ mutex \in {"free", "reader", "main"}
  /\ readFramesPool \in Seq(Frames)
  /\ readenFrames \in Seq(Frames)
  /\ currentFrame \in Frames \cup {NoFrame}
  /\ toComplete \in 0 .. MaxComplete
  /\ pc \in Locations
  /\ currentError \in Errors
  /\ emitted \in Errors \cup {"none"}

(* The type invariant, split in its two parts. *)
LEMMA TypeParts == TypeOK <=> Flags /\ Data
BY DEF TypeOK, Flags, Data

(* Every step keeps the types of the flags, of the locations and of the   *)
(* errors.                                                                *)
LEMMA FlagsKept ==
  ASSUME Flags, [Next]_vars
  PROVE  Flags'
<1> USE DEF Flags, queues, holding, errors, history
<1>1. CASE Begin
  BY <1>1 DEF Begin, GetFrame, Notify
<1>2. CASE EnterSelect
  BY <1>2 DEF EnterSelect
<1>3. CASE SelectReady
  BY <1>3 DEF SelectReady, SelectReturns
<1>4. CASE SelectStopped
  BY <1>4 DEF SelectStopped, SelectReturns, Leave
<1>5. CASE FrameTimeout
  BY <1>5 DEF FrameTimeout, SelectReturns, SubmitCurrent, GetFrame, Notify
<1>6. CASE SelectCanceled
  BY <1>6 DEF SelectCanceled, SelectReturns, Notify
<1>7. CASE SelectFails
  BY <1>7 DEF SelectFails, SelectReturns, Notify, Leave
<1>8. CASE FlushCurrent
  BY <1>8 DEF FlushCurrent, LoopTop
<1>9. CASE ReadData
  BY <1>9 DEF ReadData, LoopTop
<1>10. CASE ReadFails
  BY <1>10 DEF ReadFails, Notify, LoopTop, Leave
<1>11. CASE CompleteFrame
  BY <1>11 DEF CompleteFrame, SubmitCurrent, GetFrame, Notify
<1>12. CASE StoreEnd
  BY <1>12 DEF StoreEnd, LoopTop
<1>13. CASE PollEnds
  BY <1>13 DEF PollEnds, Notify
<1>14. CASE PollStopped
  BY <1>14 DEF PollStopped, Leave
<1>15. CASE Destroy
  BY <1>15 DEF Destroy
<1>16. CASE Start
  BY <1>16 DEF Start
<1>17. CASE Stop
  BY <1>17 DEF Stop
<1>18. CASE FlushIn
  BY <1>18 DEF FlushIn
<1>19. CASE TakeBegin
  BY <1>19 DEF TakeBegin
<1>20. CASE TakeFrame
  BY <1>20 DEF TakeFrame
<1>21. CASE TakeEnd
  BY <1>21 DEF TakeEnd
<1>22. CASE Reopen
  BY <1>22 DEF Reopen
<1>23. CASE UNCHANGED vars
  BY <1>23 DEF vars
<1> QED
  BY <1>1, <1>2, <1>3, <1>4, <1>5, <1>6, <1>7, <1>8, <1>9, <1>10, <1>11, <1>12,
     <1>13, <1>14, <1>15, <1>16, <1>17, <1>18, <1>19, <1>20, <1>21, <1>22, <1>23
  DEF Next, Reader, Main

(* getNewFrameRead() takes a frame and goes on, or polls with none.        *)
LEMMA GetFrameKept ==
  ASSUME Data, NEW next, NEW owner, NEW wait,
         GetFrame(readFramesPool, next, owner, wait)
  PROVE  /\ readFramesPool' \in Seq(Frames)
         /\ \/ pc' = next /\ mutex' = owner /\ currentFrame' \in Frames
            \/ pc' = wait /\ mutex' = "free" /\ currentFrame' = NoFrame
         /\ currentError' \in Errors
         /\ emitted' \in Errors \cup {"none"}
<1>1. CASE readFramesPool # <<>>
  <2>1. Head(readFramesPool) \in Frames /\ Tail(readFramesPool) \in Seq(Frames)
    BY <1>1, Dequeue DEF Data
  <2> QED BY <1>1, <2>1 DEF GetFrame, Data, errors
<1>2. CASE readFramesPool = <<>>
  BY <1>2 DEF GetFrame, Data, Notify, Errors
<1> QED BY <1>1, <1>2

(* Every step keeps the queues queues of frames, the current frame a      *)
(* frame or none, and the count of frames to complete within its bound.   *)
LEMMA DataKept ==
  ASSUME Data, Holding, [Next]_vars
  PROVE  Data' /\ Holding'
<1> USE ReadAssumption
<1> USE DEF Data, Holding, Locations, Polling, Errors, queues, holding, errors, history
<1>1. CASE Begin
  <2>1. GetFrame(readFramesPool, "PreSelect", "free", "PollStart")
    BY <1>1 DEF Begin
  <2> QED BY <1>1, <2>1, GetFrameKept DEF Begin
<1>2. CASE EnterSelect
  BY <1>2 DEF EnterSelect
<1>3. CASE SelectReady
  BY <1>3 DEF SelectReady, SelectReturns
<1>4. CASE SelectStopped
  BY <1>4 DEF SelectStopped, SelectReturns, Leave
<1>5. CASE FrameTimeout
  <2>1. CASE frameUsed
    <3>1. /\ GetFrame(readFramesPool, "Check", "reader", "PollTimeout")
          /\ SubmitCurrent
          /\ currentFrame \in Frames
          /\ UNCHANGED toComplete
      BY <1>5, <2>1 DEF FrameTimeout, SelectReturns
    <3>2. readenFrames' \in Seq(Frames)
      BY <3>1, Enqueue DEF SubmitCurrent
    <3> QED BY <3>1, <3>2, GetFrameKept
  <2>2. CASE ~frameUsed
    BY <1>5, <2>2 DEF FrameTimeout, SelectReturns
  <2> QED BY <2>1, <2>2
<1>6. CASE SelectCanceled
  BY <1>6 DEF SelectCanceled, SelectReturns, Notify
<1>7. CASE SelectFails
  <2>1. /\ currentFrame \in Frames
        /\ mutex' = "free" /\ pc' = "Leaving"
        /\ UNCHANGED <<readenFrames, toComplete>>
    BY <1>7 DEF SelectFails, SelectReturns, Leave
  <2>2. currentError' \in Errors /\ emitted' \in Errors \cup {"none"}
    BY <1>7 DEF SelectFails, Notify
  <2>3. readFramesPool' \in Seq(Frames) /\ currentFrame' \in Frames \cup {NoFrame}
    <3>1. Append(readFramesPool, currentFrame) \in Seq(Frames)
      BY <2>1
    <3> QED BY <1>7, <3>1 DEF SelectFails
  <2> QED BY <2>1, <2>2, <2>3
<1>8. CASE FlushCurrent
  <2> DEFINE pool == Append(readFramesPool, currentFrame)
  <2>1. pool \in Seq(Frames) /\ pool # <<>>
    BY <1>8 DEF FlushCurrent
  <2>2. Head(pool) \in Frames /\ Tail(pool) \in Seq(Frames)
    BY <2>1, Dequeue
  <2>3. currentFrame' = Head(pool) /\ readFramesPool' = Tail(pool)
    BY <1>8 DEF FlushCurrent
  <2> HIDE DEF pool
  <2>4. pc' \in {"PreSelect", "Leaving"} /\ mutex' = "free"
    BY <1>8 DEF FlushCurrent, LoopTop
  <2> QED BY <1>8, <2>2, <2>3, <2>4 DEF FlushCurrent
<1>9. CASE ReadData
  <2>1. /\ currentFrame \in Frames
        /\ UNCHANGED <<readFramesPool, readenFrames, currentFrame, currentError, emitted>>
    BY <1>9 DEF ReadData
  <2>2. \/ /\ mutex' = "free" /\ toComplete' = toComplete
           /\ pc' \in {"PreSelect", "Leaving"}
        \/ /\ mutex' = mutex /\ pc' = "Store"
           /\ toComplete' \in 1 .. MaxComplete
    BY <1>9 DEF ReadData, LoopTop
  <2> QED BY <2>1, <2>2
<1>10. CASE ReadFails
  <2>1. /\ currentFrame \in Frames
        /\ UNCHANGED <<readFramesPool, readenFrames, currentFrame, toComplete>>
    BY <1>10 DEF ReadFails
  <2>2. mutex' = "free" /\ pc' \in {"PreSelect", "Leaving"}
    BY <1>10 DEF ReadFails, LoopTop, Leave
  <2>3. currentError' \in Errors /\ emitted' \in Errors \cup {"none"}
    BY <1>10 DEF ReadFails, Notify
  <2> QED BY <2>1, <2>2, <2>3
<1>11. CASE CompleteFrame
  <2>1. /\ GetFrame(readFramesPool, "Store", "reader", "PollData")
        /\ SubmitCurrent
        /\ currentFrame \in Frames
        /\ toComplete' = toComplete - 1 /\ toComplete > 0
    BY <1>11 DEF CompleteFrame
  <2>2. readenFrames' \in Seq(Frames)
    BY <2>1, Enqueue DEF SubmitCurrent
  <2>3. toComplete' \in 0 .. MaxComplete
    BY <2>1
  <2> QED BY <2>1, <2>2, <2>3, GetFrameKept
<1>12. CASE StoreEnd
  BY <1>12 DEF StoreEnd, LoopTop
<1>13. CASE PollEnds
  BY <1>13 DEF PollEnds, Notify
<1>14. CASE PollStopped
  BY <1>14 DEF PollStopped, Leave
<1>15. CASE Destroy
  BY <1>15 DEF Destroy
<1>16. CASE Start
  BY <1>16 DEF Start
<1>17. CASE Stop
  BY <1>17 DEF Stop
<1>18. CASE FlushIn
  BY <1>18 DEF FlushIn
<1>19. CASE TakeBegin
  BY <1>19 DEF TakeBegin
<1>20. CASE TakeFrame
  BY <1>20 DEF TakeFrame
<1>21. CASE TakeEnd
  BY <1>21 DEF TakeEnd
<1>22. CASE Reopen
  BY <1>22 DEF Reopen
<1>23. CASE UNCHANGED vars
  BY <1>23 DEF vars
<1> QED
  BY <1>1, <1>2, <1>3, <1>4, <1>5, <1>6, <1>7, <1>8, <1>9, <1>10, <1>11, <1>12,
     <1>13, <1>14, <1>15, <1>16, <1>17, <1>18, <1>19, <1>20, <1>21, <1>22, <1>23
  DEF Next, Reader, Main

-----------------------------------------------------------------------------
(* No frame is lost or doubled.  Each action moves frames as one or two of *)
(* the lemmas on Partition say.                                            *)

Conserved == Partition(Frames, readFramesPool, readenFrames, Held)

(* getNewFrameRead() without a current frame, on the pool. *)
LEMMA GetFrameConserves ==
  ASSUME Data, NEW q, Partition(Frames, readFramesPool, q, {}),
         NEW next, NEW owner, NEW wait,
         GetFrame(readFramesPool, next, owner, wait), NoFrame \notin Frames
  PROVE  Partition(Frames, readFramesPool', q, Held')
<1>1. CASE readFramesPool # <<>>
  <2>1. /\ Partition(Frames, Tail(readFramesPool), q, {} \cup {Head(readFramesPool)})
        /\ Head(readFramesPool) \in Frames
    BY <1>1, PartitionTake DEF Data
  <2>2. currentFrame' = Head(readFramesPool) /\ readFramesPool' = Tail(readFramesPool)
    BY <1>1 DEF GetFrame
  <2>3. Held' = {} \cup {Head(readFramesPool)}
    BY <2>1, <2>2 DEF Held
  <2> QED BY <2>1, <2>2, <2>3
<1>2. CASE readFramesPool = <<>>
  <2>1. Held' = {} /\ readFramesPool' = readFramesPool
    BY <1>2 DEF GetFrame, Held
  <2> QED BY <2>1
<1> QED BY <1>1, <1>2

(* submitCurrentReadFrame(): the current frame goes to the readen frames. *)
LEMMA SubmitConserves ==
  ASSUME Data, currentFrame \in Frames, Conserved, SubmitCurrent
  PROVE  Partition(Frames, readFramesPool, readenFrames', {})
<1>1. currentFrame \in Frames \cap Held /\ Held \ {currentFrame} = {}
  BY ReadAssumption DEF Held
<1>2. Partition(Frames, readenFrames, readFramesPool, Held)
  BY PartitionSwap DEF Conserved
<1>3. Partition(Frames, Append(readenFrames, currentFrame), readFramesPool, {})
  BY <1>1, <1>2, PartitionGive DEF Data
<1> QED BY <1>3, PartitionSwap DEF SubmitCurrent

(* restoreCurrentReadFrameToPool() *)
LEMMA RestoreConserves ==
  ASSUME Data, currentFrame \in Frames, Conserved
  PROVE  /\ Append(readFramesPool, currentFrame) \in Seq(Frames)
         /\ Partition(Frames, Append(readFramesPool, currentFrame), readenFrames, {})
<1>1. currentFrame \in Frames \cap Held /\ Held \ {currentFrame} = {}
  BY ReadAssumption DEF Held
<1> QED BY <1>1, PartitionGive DEF Data, Conserved

(* Every step conserves the frames while no queue was used by two threads *)
(* at once.                                                               *)
LEMMA StepConserves ==
  ASSUME TypeOK, Holding, Conserved, [Next]_vars
  PROVE  raced' \/ Conserved'
<1> USE DEF queues, holding, errors, history
<1>1. Data /\ (currentFrame \in Frames \/ currentFrame = NoFrame) /\ NoFrame \notin Frames
  BY TypeParts, ReadAssumption DEF Data
<1>2. CASE UNCHANGED <<queues, currentFrame>>
  BY <1>2 DEF Conserved, Held
<1>3. CASE Begin
  <2>1. Held = {}
    BY <1>3 DEF Begin, Holding, Held
  <2>2. Partition(Frames, readFramesPool', readenFrames, Held')
    BY <1>1, <1>3, <2>1, GetFrameConserves DEF Begin, Conserved
  <2> QED BY <1>3, <2>2 DEF Begin, Conserved
<1>4. CASE FrameTimeout /\ frameUsed
  <2>1. /\ currentFrame \in Frames
        /\ SubmitCurrent
        /\ GetFrame(readFramesPool, "Check", "reader", "PollTimeout")
    BY <1>1, <1>4 DEF FrameTimeout, SelectReturns, Holding
  <2>2. Partition(Frames, readFramesPool, readenFrames', {})
    BY <1>1, <2>1, SubmitConserves
  <2> QED BY <1>1, <2>1, <2>2, GetFrameConserves DEF Conserved
<1>5. CASE CompleteFrame
  <2>1. /\ currentFrame \in Frames
        /\ SubmitCurrent
        /\ GetFrame(readFramesPool, "Store", "reader", "PollData")
    BY <1>1, <1>5 DEF CompleteFrame, Holding
  <2>2. Partition(Frames, readFramesPool, readenFrames', {})
    BY <1>1, <2>1, SubmitConserves
  <2> QED BY <1>1, <2>1, <2>2, GetFrameConserves DEF Conserved
<1>6. CASE SelectFails
  <2>1. CASE UNCHANGED <<readFramesPool, currentFrame>>
    BY <1>6, <2>1 DEF SelectFails, Conserved, Held
  <2>2. CASE /\ readFramesPool' = Append(readFramesPool, currentFrame)
             /\ currentFrame' = NoFrame
    <3>1. currentFrame \in Frames /\ readenFrames' = readenFrames
      BY <1>1, <1>6 DEF SelectFails, SelectReturns, Holding
    <3>2. Held' = {}
      BY <2>2 DEF Held
    <3> QED BY <1>1, <2>2, <3>1, <3>2, RestoreConserves DEF Conserved
  <2> QED BY <1>6, <2>1, <2>2 DEF SelectFails
<1>7. CASE FlushCurrent
  <2> DEFINE pool == Append(readFramesPool, currentFrame)
  <2>1. /\ currentFrame \in Frames
        /\ readenFrames' = readenFrames
        /\ currentFrame' = Head(pool) /\ readFramesPool' = Tail(pool)
    BY <1>1, <1>7 DEF FlushCurrent, Holding
  <2>2. /\ pool \in Seq(Frames) /\ pool # <<>>
        /\ Partition(Frames, pool, readenFrames, {})
    BY <1>1, <2>1, RestoreConserves DEF Data
  <2> HIDE DEF pool
  <2>3. /\ Partition(Frames, Tail(pool), readenFrames, {} \cup {Head(pool)})
        /\ Head(pool) \in Frames
    BY <2>2, PartitionTake
  <2>4. Held' = {} \cup {Head(pool)}
    BY <1>1, <2>1, <2>3 DEF Held
  <2> QED BY <2>1, <2>3, <2>4 DEF Conserved
<1>8. CASE PollEnds
  <2>1. /\ Held = {}
        /\ readFramesPool \in Seq(Frames) /\ readFramesPool # <<>>
        /\ readenFrames' = readenFrames
        /\ currentFrame' = Head(readFramesPool)
        /\ readFramesPool' = Tail(readFramesPool)
    BY <1>1, <1>8 DEF PollEnds, Holding, Held, Data
  <2>2. /\ Partition(Frames, Tail(readFramesPool), readenFrames, {} \cup {Head(readFramesPool)})
        /\ Head(readFramesPool) \in Frames
    BY <2>1, PartitionTake DEF Conserved
  <2>3. Held' = {} \cup {Head(readFramesPool)}
    BY <1>1, <2>1, <2>2 DEF Held
  <2> QED BY <2>1, <2>2, <2>3 DEF Conserved
<1>9. CASE Destroy
  <2>1. CASE currentFrame = NoFrame
    BY <1>9, <2>1 DEF Destroy, Conserved, Held
  <2>2. CASE currentFrame # NoFrame /\ mutex = "main"
    BY <1>9, <2>2 DEF Destroy
  <2>3. CASE currentFrame # NoFrame /\ mutex # "main"
    <3>1. /\ currentFrame \in Frames
          /\ readenFrames' = readenFrames
          /\ readFramesPool' = Append(readFramesPool, currentFrame)
          /\ Held' = {}
      BY <1>1, <1>9, <2>3 DEF Destroy, Held
    <3> QED BY <1>1, <3>1, RestoreConserves DEF Conserved
  <2> QED BY <2>1, <2>2, <2>3
<1>10. CASE FlushIn
  <2>1. Partition(Frames, readFramesPool \o readenFrames, <<>>, Held)
    BY <1>1, PartitionMoveAll DEF Conserved, Data
  <2> QED BY <1>10, <2>1 DEF FlushIn, Conserved, Held
<1>11. CASE TakeFrame
  <2>1. Partition(Frames, Append(readFramesPool, Head(readenFrames)), Tail(readenFrames), Held)
    BY <1>1, <1>11, PartitionMoveOne DEF TakeFrame, Conserved, Data
  <2> QED BY <1>11, <2>1 DEF TakeFrame, Conserved, Held
<1>12. CASE Reopen
  <2>1. Held' = {}
    BY <1>12 DEF Reopen, Holding, Held
  <2>2. Partition(Frames, InitialPool, <<>>, {})
    BY ReadAssumption, PartitionInit DEF Frames
  <2> QED BY <1>12, <2>1, <2>2 DEF Reopen, Conserved
<1>13. CASE \/ EnterSelect \/ SelectReady \/ SelectStopped \/ SelectCanceled
            \/ (FrameTimeout /\ ~frameUsed) \/ ReadData \/ ReadFails \/ StoreEnd
            \/ PollStopped \/ Start \/ Stop \/ TakeBegin \/ TakeEnd \/ UNCHANGED vars
  <2>1. UNCHANGED <<queues, currentFrame>>
    BY <1>13 DEF EnterSelect, SelectReady, SelectStopped, SelectCanceled, FrameTimeout,
                 ReadData, ReadFails, StoreEnd, PollStopped, Start, Stop, TakeBegin,
                 TakeEnd, vars
  <2> QED BY <1>2, <2>1
<1> QED
  BY <1>3, <1>4, <1>5, <1>6, <1>7, <1>8, <1>9, <1>10, <1>11, <1>12, <1>13
  DEF Next, Reader, Main

(* The inductive invariant holds once initQueues() has filled the pool.   *)
LEMMA InitInvariant == Init => IInv
<1> SUFFICES ASSUME Init PROVE IInv
  OBVIOUS
<1>1. Flags
  BY DEF Init, Flags
<1>2. Data
  BY ReadAssumption DEF Init, Data, Locations, Polling, Errors
<1>3. Holding
  BY DEF Init, Holding, Polling
<1>4. FramesConserved
  <2>1. Partition(Frames, InitialPool, <<>>, {})
    BY ReadAssumption, PartitionInit DEF Frames
  <2>2. {currentFrame} \ {NoFrame} = {}
    BY DEF Init
  <2> QED BY <2>1, <2>2 DEF Init, FramesConserved
<1> QED BY <1>1, <1>2, <1>3, <1>4, TypeParts DEF IInv

(* Every step of the thread and of the main thread keeps it. *)
LEMMA NextInvariant == IInv /\ [Next]_vars => IInv'
<1> SUFFICES ASSUME IInv, [Next]_vars PROVE IInv'
  OBVIOUS
<1>1. Flags /\ Data /\ Holding
  BY TypeParts DEF IInv
<1>2. Flags'
  BY <1>1, FlagsKept
<1>3. Data' /\ Holding'
  BY <1>1, DataKept
<1>4. TypeOK'
  BY <1>2, <1>3 DEF TypeOK, Flags, Data
<1>5. ASSUME ~raced' PROVE Conserved'
  <2>1. ~raced
    BY <1>5 DEF Next, Reader, Main, vars, history, Begin, EnterSelect, SelectReady,
       SelectStopped, FrameTimeout, SelectCanceled, SelectFails, FlushCurrent, ReadData,
       ReadFails, CompleteFrame, StoreEnd, PollEnds, PollStopped, Destroy, Start, Stop,
       FlushIn, TakeBegin, TakeFrame, TakeEnd, Reopen
  <2>2. Conserved
    BY <2>1 DEF IInv, FramesConserved, Conserved, Held
  <2> QED BY <1>5, <2>2, StepConserves DEF IInv
<1>6. FramesConserved'
  BY <1>5 DEF FramesConserved, Conserved, Held
<1> QED BY <1>3, <1>4, <1>6 DEF IInv

(* The queues and the thread keep their types. *)
THEOREM TypeCorrect == Spec => []TypeOK
<1>1. IInv => TypeOK
  BY DEF IInv
<1> QED BY <1>1, InitInvariant, NextInvariant, PTL DEF Spec

(* No frame is ever lost, held twice or queued twice on the read side, as  *)
(* long as the helper's destructor and the main thread do not meet.        *)
THEOREM Conservation == Spec => []FramesConserved
<1>1. IInv => FramesConserved
  BY DEF IInv
<1> QED BY <1>1, InitInvariant, NextInvariant, PTL DEF Spec

-----------------------------------------------------------------------------
(* The notifications.  notifyError() swallows an error that is equal to    *)
(* the current one, so what was emitted follows pvCurrentError only with   *)
(* this.                                                                   *)

BusyInv ==
  /\ pc \in {"Off", "Begin", "Leaving"} => ~running
  /\ pc = "Begin" => currentError = "UnhandledError" /\ emitted = "none"
  /\ running => /\ currentError = "ReadPoolEmpty" <=> pc \in Polling
                /\ \/ emitted = currentError
                   \/ emitted = "none" /\ currentError = "UnhandledError"

(* Every step keeps what the thread has notified in line with its place.  *)
LEMMA BusyKept ==
  ASSUME BusyInv, [Next]_vars
  PROVE  BusyInv'
<1> USE DEF BusyInv, Polling, queues, holding, errors, history
<1>1. CASE Begin
  BY <1>1 DEF Begin, GetFrame, Notify
<1>2. CASE EnterSelect
  BY <1>2 DEF EnterSelect
<1>3. CASE SelectReady
  BY <1>3 DEF SelectReady, SelectReturns
<1>4. CASE SelectStopped
  BY <1>4 DEF SelectStopped, SelectReturns, Leave
<1>5. CASE FrameTimeout
  BY <1>5 DEF FrameTimeout, SelectReturns, SubmitCurrent, GetFrame, Notify
<1>6. CASE SelectCanceled
  BY <1>6 DEF SelectCanceled, SelectReturns, Notify
<1>7. CASE SelectFails
  BY <1>7 DEF SelectFails, SelectReturns, Notify, Leave
<1>8. CASE FlushCurrent
  BY <1>8 DEF FlushCurrent, LoopTop
<1>9. CASE ReadData
  <2>1. /\ UNCHANGED <<running, currentError, emitted>>
        /\ pc = "Check"
        /\ \/ pc' = IF running THEN "PreSelect" ELSE "Leaving"
           \/ pc' = "Store"
    BY <1>9 DEF ReadData, LoopTop
  <2> QED BY <2>1
<1>10. CASE ReadFails
  BY <1>10 DEF ReadFails, Notify, LoopTop, Leave
<1>11. CASE CompleteFrame
  BY <1>11 DEF CompleteFrame, SubmitCurrent, GetFrame, Notify
<1>12. CASE StoreEnd
  BY <1>12 DEF StoreEnd, LoopTop
<1>13. CASE PollEnds
  BY <1>13 DEF PollEnds, Notify
<1>14. CASE PollStopped
  BY <1>14 DEF PollStopped, Leave
<1>15. CASE Destroy
  BY <1>15 DEF Destroy
<1>16. CASE Start
  BY <1>16 DEF Start
<1>17. CASE Stop
  BY <1>17 DEF Stop
<1>18. CASE FlushIn
  BY <1>18 DEF FlushIn
<1>19. CASE TakeBegin
  BY <1>19 DEF TakeBegin
<1>20. CASE TakeFrame
  BY <1>20 DEF TakeFrame
<1>21. CASE TakeEnd
  BY <1>21 DEF TakeEnd
<1>22. CASE Reopen
  BY <1>22 DEF Reopen
<1>23. CASE UNCHANGED vars
  BY <1>23 DEF vars
<1> QED
  BY <1>1, <1>2, <1>3, <1>4, <1>5, <1>6, <1>7, <1>8, <1>9, <1>10, <1>11, <1>12,
     <1>13, <1>14, <1>15, <1>16, <1>17, <1>18, <1>19, <1>20, <1>21, <1>22, <1>23
  DEF Next, Reader, Main

(* The manager is told of the beginning and of the end of each shortage of *)
(* read frames.                                                            *)
THEOREM BusyReported == Spec => []BusyOnlyWhilePolling
<1>1. Init => BusyInv
  BY DEF Init, BusyInv
<1>2. BusyInv /\ [Next]_vars => BusyInv'
  BY BusyKept
<1>3. BusyInv => BusyOnlyWhilePolling
  BY DEF BusyInv, BusyOnlyWhilePolling, Polling
<1> QED BY <1>1, <1>2, <1>3, PTL DEF Spec

-----------------------------------------------------------------------------
(* The read side implements FrameCycle.                                    *)

(* What a step does to the places: a frame enters the readen queue from    *)
(* the thread only, and the thread from the pool only.                     *)
LEMMA StepMoves ==
  ASSUME IInv, [Next]_vars
  PROVE  /\ Range(readenFrames') \subseteq Range(readenFrames) \cup {currentFrame}
         /\ currentFrame' \in {NoFrame, currentFrame} \cup Range(readFramesPool)
         /\ raced => raced'
<1> USE DEF queues, holding, errors, history
<1> DEFINE Goal == /\ Range(readenFrames') \subseteq Range(readenFrames) \cup {currentFrame}
                   /\ currentFrame' \in {NoFrame, currentFrame} \cup Range(readFramesPool)
<1>r. raced => raced'
  BY DEF Next, Reader, Main, vars, history, Begin, EnterSelect, SelectReady,
     SelectStopped, FrameTimeout, SelectCanceled, SelectFails, FlushCurrent, ReadData,
     ReadFails, CompleteFrame, StoreEnd, PollEnds, PollStopped, Destroy, Start, Stop,
     FlushIn, TakeBegin, TakeFrame, TakeEnd, Reopen
<1> SUFFICES Goal
  BY <1>r
<1>0. /\ Data /\ Holding /\ NoFrame \notin Frames
      /\ currentFrame \in Frames \/ currentFrame = NoFrame
  BY TypeParts, ReadAssumption DEF IInv, Data
<1>1. ASSUME NEW next, NEW owner, NEW wait, GetFrame(readFramesPool, next, owner, wait)
      PROVE  currentFrame' \in {NoFrame} \cup Range(readFramesPool)
  <2>1. readFramesPool # <<>> => Head(readFramesPool) \in Range(readFramesPool)
    BY <1>0, Dequeue DEF Data
  <2> QED BY <1>1, <2>1 DEF GetFrame
<1>2. ASSUME SubmitCurrent, currentFrame \in Frames
      PROVE  Range(readenFrames') = Range(readenFrames) \cup {currentFrame}
  BY <1>0, <1>2, Enqueue DEF SubmitCurrent, Data
<1>3. CASE UNCHANGED <<readenFrames, currentFrame>> \/ UNCHANGED vars
  BY <1>3 DEF vars
<1>4. CASE Begin
  BY <1>1, <1>4 DEF Begin
<1>5. CASE FrameTimeout \/ CompleteFrame
  <2>1. CASE UNCHANGED <<readenFrames, currentFrame>>
    BY <2>1
  <2>2. CASE /\ SubmitCurrent /\ currentFrame \in Frames
             /\ currentFrame' \in {NoFrame} \cup Range(readFramesPool)
    BY <1>2, <2>2
  <2>3. currentFrame \in Frames
    BY <1>0, <1>5 DEF FrameTimeout, CompleteFrame, SelectReturns, Holding
  <2> QED BY <1>1, <1>5, <2>1, <2>2, <2>3 DEF FrameTimeout, CompleteFrame
<1>6. CASE FlushCurrent
  <2> DEFINE pool == Append(readFramesPool, currentFrame)
  <2>1. currentFrame \in Frames
    BY <1>0, <1>6 DEF FlushCurrent, Holding
  <2>2. Range(pool) = Range(readFramesPool) \cup {currentFrame} /\ pool \in Seq(Frames)
    BY <1>0, <2>1, Enqueue DEF Data
  <2>3. pool # <<>>
    BY <1>0, <2>1 DEF Data
  <2>4. currentFrame' = Head(pool) /\ readenFrames' = readenFrames
    BY <1>6 DEF FlushCurrent
  <2> HIDE DEF pool
  <2>5. Head(pool) \in Range(pool)
    BY <2>2, <2>3, Dequeue
  <2> QED BY <2>2, <2>4, <2>5
<1>7. CASE SelectFails \/ Destroy
  BY <1>7 DEF SelectFails, Destroy
<1>8. CASE PollEnds
  <2>1. Head(readFramesPool) \in Range(readFramesPool)
    BY <1>0, <1>8, Dequeue DEF PollEnds, Data
  <2> QED BY <1>8, <2>1 DEF PollEnds
<1>9. CASE FlushIn \/ Reopen
  <2>1. Range(<<>>) = {}
    BY DEF Range
  <2> QED BY <1>9, <2>1 DEF FlushIn, Reopen
<1>10. CASE TakeFrame
  <2>1. Range(Tail(readenFrames)) \subseteq Range(readenFrames)
    BY <1>0, <1>10, Dequeue DEF TakeFrame, Data
  <2> QED BY <1>10, <2>1 DEF TakeFrame
<1>11. CASE \/ EnterSelect \/ SelectReady \/ SelectStopped \/ SelectCanceled
            \/ ReadData \/ ReadFails \/ StoreEnd
            \/ PollStopped \/ Start \/ Stop \/ TakeBegin \/ TakeEnd
  <2>1. UNCHANGED <<readenFrames, currentFrame>>
    BY <1>11 DEF EnterSelect, SelectReady, SelectStopped, SelectCanceled, ReadData,
                 ReadFails, StoreEnd, PollStopped, Start, Stop, TakeBegin, TakeEnd
  <2> QED BY <1>3, <2>1
<1> QED
  BY <1>3, <1>4, <1>5, <1>6, <1>7, <1>8, <1>9, <1>10, <1>11 DEF Next, Reader, Main

(* Where a frame is, when the frames are conserved. *)
LEMMA Places ==
  ASSUME Conserved, NEW f \in Frames, NoFrame \notin Frames
  PROVE  \/ f = currentFrame /\ ~InQueue(f) /\ ~InPool(f)
         \/ f # currentFrame /\ InQueue(f) /\ ~InPool(f)
         \/ f # currentFrame /\ ~InQueue(f) /\ InPool(f)
BY DEF Conserved, Partition, Held, InQueue, InPool

(* Every step of the read side is a step of FrameCycle, or leaves every    *)
(* frame where it is.                                                      *)
THEOREM Refinement == Spec => Circulation
<1> DEFINE place == [f \in Frames |-> IF f = currentFrame THEN "thread"
                                      ELSE IF InQueue(f) THEN "queue"
                                      ELSE IF InPool(f) THEN "pool" ELSE "lost"]
<1>1. Init => Cycle!Init
  <2> SUFFICES ASSUME Init PROVE Cycle!Init
    OBVIOUS
  <2>1. Range(<<>>) = {} /\ NoFrame \notin Frames
    BY ReadAssumption DEF Range
  <2>2. \A f \in Frames : f # currentFrame /\ ~InQueue(f) /\ InPool(f)
    BY <2>1 DEF Init, InQueue, InPool, Frames
  <2> QED BY <2>2 DEF Cycle!Init, Init
<1>2. ASSUME IInv, IInv', [Next]_vars
      PROVE  Cycle!Next
  <2>1. /\ Range(readenFrames') \subseteq Range(readenFrames) \cup {currentFrame}
        /\ currentFrame' \in {NoFrame, currentFrame} \cup Range(readFramesPool)
        /\ raced => raced'
        /\ NoFrame \notin Frames
    BY <1>2, StepMoves, ReadAssumption
  <2>2. ASSUME ~raced'
        PROVE  Cycle!Circulate
    <3>1. Conserved /\ Conserved'
      BY <1>2, <2>1, <2>2 DEF IInv, FramesConserved, Conserved, Held
    <3>2. ASSUME NEW f \in Frames, place'[f] # place[f]
          PROVE  <<place[f], place'[f]>> \in {<<"pool", "thread">>, <<"thread", "pool">>,
                                             <<"thread", "queue">>, <<"queue", "pool">>}
      <4>1. \/ f = currentFrame /\ ~InQueue(f) /\ ~InPool(f)
            \/ f # currentFrame /\ InQueue(f) /\ ~InPool(f)
            \/ f # currentFrame /\ ~InQueue(f) /\ InPool(f)
        BY <2>1, <3>1, Places
      <4>2. \/ f = currentFrame' /\ ~InQueue(f)' /\ ~InPool(f)'
            \/ f # currentFrame' /\ InQueue(f)' /\ ~InPool(f)'
            \/ f # currentFrame' /\ ~InQueue(f)' /\ InPool(f)'
        BY <2>1, <3>1 DEF Conserved, Partition, Held, InQueue, InPool
      <4>3. InQueue(f)' => InQueue(f) \/ f = currentFrame
        BY <2>1 DEF InQueue
      <4>4. f = currentFrame' => f = currentFrame \/ InPool(f)
        BY <2>1 DEF InPool
      <4> QED BY <3>2, <4>1, <4>2, <4>3, <4>4
    <3>3. \A f \in Frames : place'[f] = "thread" => f = currentFrame'
      OBVIOUS
    <3>4. place' \in [Frames -> {"pool", "thread", "queue", "lost"}]
      OBVIOUS
    <3> QED BY <3>2, <3>3, <3>4 DEF Cycle!Circulate
  <2> QED BY <2>1, <2>2 DEF Cycle!Next
<1> QED BY <1>1, <1>2, InitInvariant, NextInvariant, PTL DEF Spec, Circulation, Cycle!Spec

-----------------------------------------------------------------------------
(* What flushIn() drops.  The promise holds where the thread looks at the  *)
(* request between any two frames it submits: without the timeout protocol *)
(* and with one frame per read at most.                                    *)

(* The thread is in the part of run() that reads and stores with the mutex *)
(* locked, and stores a complete frame only when it saw no request.        *)
FlushSeen ==
  /\ pc \in {"Check", "Store"} => mutex = "reader"
  /\ pc # "Store" => toComplete = 0
  /\ toComplete > 0 => ~flushInPending

(* Every step keeps it: the mutex keeps flushIn() out until the frame is   *)
(* submitted, and a thread that polls in between has nothing to complete.  *)
LEMMA FlushSeenKept ==
  ASSUME ~TimeoutProtocol, MaxComplete = 1, Data, FlushSeen, [Next]_vars
  PROVE  FlushSeen'
<1> USE DEF FlushSeen, Polling, queues, holding, errors, history
<1>0. toComplete \in 0 .. 1
  BY DEF Data
<1>1. CASE Begin
  BY <1>0, <1>1 DEF Begin, GetFrame
<1>2. CASE EnterSelect
  BY <1>2 DEF EnterSelect
<1>3. CASE SelectReady
  BY <1>3 DEF SelectReady, SelectReturns
<1>4. CASE SelectStopped
  BY <1>4 DEF SelectStopped, SelectReturns, Leave
<1>5. CASE SelectCanceled
  BY <1>5 DEF SelectCanceled, SelectReturns
<1>6. CASE SelectFails
  BY <1>6 DEF SelectFails, SelectReturns, Leave
<1>7. CASE FlushCurrent
  BY <1>7 DEF FlushCurrent, LoopTop
<1>8. CASE ReadData
  <2>1. /\ ~flushInPending' /\ mutex = "reader"
        /\ \/ pc' # "Store" /\ pc' # "Check" /\ toComplete' = toComplete
           \/ pc' = "Store" /\ mutex' = mutex
    BY <1>8 DEF ReadData, LoopTop
  <2> QED BY <1>8, <2>1 DEF ReadData
<1>9. CASE ReadFails
  <2>1. /\ UNCHANGED <<toComplete, flushInPending>>
        /\ pc = "Check" /\ pc' \in {"PreSelect", "Leaving"}
    BY <1>9 DEF ReadFails, LoopTop, Leave
  <2> QED BY <2>1
<1>10. CASE CompleteFrame
  <2>1. /\ toComplete' = 0
        /\ \/ pc' = "Store" /\ mutex' = "reader"
           \/ pc' = "PollData"
    BY <1>0, <1>10 DEF CompleteFrame, GetFrame
  <2> QED BY <2>1
<1>11. CASE StoreEnd
  BY <1>11 DEF StoreEnd, LoopTop
<1>12. CASE PollEnds
  BY <1>12 DEF PollEnds
<1>13. CASE PollStopped
  BY <1>13 DEF PollStopped, Leave
<1>14. CASE Destroy
  BY <1>14 DEF Destroy
<1>15. CASE Start
  BY <1>15 DEF Start
<1>16. CASE Stop
  BY <1>16 DEF Stop
<1>17. CASE FlushIn
  BY <1>0, <1>17 DEF FlushIn
<1>18. CASE TakeBegin
  BY <1>18 DEF TakeBegin
<1>19. CASE TakeFrame \/ TakeEnd
  BY <1>19 DEF TakeFrame, TakeEnd
<1>20. CASE Reopen
  BY <1>20 DEF Reopen
<1>21. CASE UNCHANGED vars
  BY <1>21 DEF vars
<1> QED
  BY <1>1, <1>2, <1>3, <1>4, <1>5, <1>6, <1>7, <1>8, <1>9, <1>10, <1>11, <1>12,
     <1>13, <1>14, <1>15, <1>16, <1>17, <1>18, <1>19, <1>20, <1>21
  DEF Next, Reader, Main, FrameTimeout

(* Once flushIn() was called, the thread puts its current frame back to    *)
(* the pool and not to the readen frames.                                  *)
THEOREM FlushDrops ==
  ASSUME ~TimeoutProtocol, MaxComplete = 1
  PROVE  Spec => FlushDropsCurrent
<1>1. Init => FlushSeen
  BY DEF Init, FlushSeen
<1>2. IInv /\ FlushSeen /\ [Next]_vars => FlushSeen'
  BY TypeParts, FlushSeenKept DEF IInv
<1>3. ASSUME IInv, FlushSeen, [Next]_vars
      PROVE  [readenFrames' = Append(readenFrames, currentFrame) => ~flushInPending]_vars
  <2> SUFFICES ASSUME readenFrames' = Append(readenFrames, currentFrame)
               PROVE  ~flushInPending
    OBVIOUS
  <2>1. readenFrames \in Seq(Frames)
    BY <1>3, TypeParts DEF IInv, Data
  <2>2. /\ readenFrames' # readenFrames
        /\ readenFrames' # <<>>
        /\ readenFrames # <<>> => readenFrames' # Tail(readenFrames)
    <3>1. Len(readenFrames') = Len(readenFrames) + 1 /\ Len(readenFrames) \in Nat
      BY <2>1
    <3>2. readenFrames # <<>> => Len(Tail(readenFrames)) = Len(readenFrames) - 1
      BY <2>1
    <3> QED BY <3>1, <3>2
  <2>3. CompleteFrame
    BY <1>3, <2>2
    DEF Next, Reader, Main, vars, queues, Begin, EnterSelect, SelectReady,
        SelectStopped, FrameTimeout, SelectCanceled, SelectFails, FlushCurrent, ReadData,
        ReadFails, StoreEnd, PollEnds, PollStopped, Destroy, Start, Stop,
        FlushIn, TakeBegin, TakeFrame, TakeEnd, Reopen
  <2> QED BY <1>3, <2>3 DEF CompleteFrame, FlushSeen
<1> QED
  BY <1>1, <1>2, <1>3, InitInvariant, NextInvariant, PTL DEF Spec, FlushDropsCurrent
=============================================================================
