------------------------ MODULE PortTransactionsProofs ------------------------
(***************************************************************************)
(* Proofs about the transactions of a port manager, for any size of the    *)
(* queues and any number of calls and queries.                             *)
(***************************************************************************)
EXTENDS PortTransactions, FiniteSetTheorems, SequenceTheorems, TLAPS

(* The types, and that only finitely many transactions are in use.         *)
Types == TypeOK /\ IsFiniteSet(pending) /\ IsFiniteSet(done)

-----------------------------------------------------------------------------
(* The call that runs is typed, and so is what it becomes. *)
LEMMA TopType ==
  ASSUME calls \in Seq(Call)
  PROVE  /\ Top.phase # "none" => calls # <<>>
         /\ calls # <<>> => Len(calls) \in 1 .. Len(calls) /\ Top \in Call
         /\ Top.t \in Transaction
<1>1. NoTransaction \in Transaction
  BY DEF NoTransaction, Transaction
<1>2. CASE calls = <<>>
  BY <1>1, <1>2 DEF Top
<1>3. CASE calls # <<>>
  <2>1. Len(calls) \in 1 .. Len(calls)
    BY <1>3
  <2>2. Top \in Call
    BY <1>3, <2>1 DEF Top
  <2> QED BY <1>3, <2>1, <2>2 DEF Call
<1> QED BY <1>2, <1>3

(* What is left of a sequence without its last element. *)
LEMMA Front ==
  ASSUME NEW q \in Seq(Call), NEW n, n = Len(q) - 1, n \in Nat
  PROVE  /\ SubSeq(q, 1, n) \in Seq(Call)
         /\ Len(SubSeq(q, 1, n)) = n
         /\ \A i \in 1 .. n : SubSeq(q, 1, n)[i] = q[i]
<1>1. \A i \in 1 .. n : q[i] \in Call
  OBVIOUS
<1>2. /\ SubSeq(q, 1, n) \in Seq(Call)
      /\ Len(SubSeq(q, 1, n)) = IF 1 <= n THEN n - 1 + 1 ELSE 0
      /\ \A i \in 1 .. n - 1 + 1 : SubSeq(q, 1, n)[i] = q[1 + i - 1]
  BY <1>1, SubSeqProperties, 1 \in Int, n \in Int
<1>3. (IF 1 <= n THEN n - 1 + 1 ELSE 0) = n
  OBVIOUS
<1>4. 1 .. n - 1 + 1 = 1 .. n /\ \A i \in 1 .. n : 1 + i - 1 = i
  OBVIOUS
<1> QED BY <1>2, <1>3, <1>4, Zenon

(* A call that returns leaves the calls below it. *)
LEMMA ReturnType ==
  ASSUME calls \in Seq(Call), calls # <<>>, Return
  PROVE  /\ calls' \in Seq(Call)
         /\ Len(calls') = Len(calls) - 1
         /\ DOMAIN calls' = 1 .. Len(calls) - 1
         /\ \A i \in DOMAIN calls' : calls'[i] = calls[i]
<1>1. PICK n \in Nat : n = Len(calls) - 1
  OBVIOUS
<1>2. calls' = SubSeq(calls, 1, n)
  BY <1>1 DEF Return
<1>3. calls' \in Seq(Call) /\ Len(calls') = n /\ \A i \in 1 .. n : calls'[i] = calls[i]
  BY <1>1, <1>2, Front
<1>4. DOMAIN calls' = 1 .. n
  BY <1>3
<1> QED BY <1>1, <1>3, <1>4

(* A call that goes on is the last one still. *)
LEMMA GoOnType ==
  ASSUME calls \in Seq(Call), calls # <<>>, NEW phase \in Phases, NEW t \in Transaction,
         GoOn(phase, t)
  PROVE  /\ calls' \in Seq(Call)
         /\ Len(calls') = Len(calls)
         /\ DOMAIN calls' = 1 .. Len(calls)
         /\ \A i \in 1 .. Len(calls) :
              calls'[i] = IF i = Len(calls) THEN [phase |-> phase, t |-> t] ELSE calls[i]
<1>1. [phase |-> phase, t |-> t] \in Call
  BY DEF Call
<1> QED BY <1>1 DEF GoOn

(* A new call comes last. *)
LEMMA CallType ==
  ASSUME calls \in Seq(Call), NEW c \in Call, calls' = Append(calls, c)
  PROVE  /\ calls' \in Seq(Call)
         /\ Len(calls') = Len(calls) + 1
         /\ Len(calls) \in Nat
         /\ DOMAIN calls' = 1 .. Len(calls) + 1
         /\ calls'[Len(calls) + 1] = c
         /\ \A i \in 1 .. Len(calls) : calls'[i] = calls[i]
OBVIOUS

(* An event leaves the manager in one of its states. *)
LEMMA EmitType ==
  ASSUME state \in ManagerStates, locked \in BOOLEAN, NEW event, Emit(event)
  PROVE  state' \in ManagerStates /\ locked' \in BOOLEAN
<1>1. state' \in ManagerStates
  BY DEF Emit, React, ManagerStates, RunningStates
<1>2. locked' \in BOOLEAN
  BY DEF Emit
<1> QED BY <1>1, <1>2

(* Restoring transactions. *)
LEMMA FlushType ==
  ASSUME Types
  PROVE  /\ Cardinality(pending) \in Nat /\ Cardinality(done) \in Nat
         /\ FlushTransactions \/ FlushPending =>
              /\ {current', allocated', pooled'} \subseteq Nat
              /\ pending' = {} /\ done' \subseteq done
              /\ IsFiniteSet(pending') /\ IsFiniteSet(done')
<1>1. Cardinality(pending) \in Nat /\ Cardinality(done) \in Nat
  BY FS_CardinalityType DEF Types
<1>2. IsFiniteSet({})
  BY FS_EmptySet
<1>3. /\ current \in Nat /\ allocated \in Nat /\ pooled \in Nat
      /\ IsFiniteSet(pending) /\ IsFiniteSet(done)
  BY DEF Types, TypeOK
<1>4. CASE FlushTransactions
  BY <1>1, <1>2, <1>3, <1>4 DEF FlushTransactions
<1>5. CASE FlushPending
  BY <1>1, <1>2, <1>3, <1>5 DEF FlushPending
<1> QED BY <1>1, <1>4, <1>5

(* A transaction taken from the pool was there, or is allocated. *)
LEMMA TakeType ==
  ASSUME Types, TakeFromPool
  PROVE  {allocated', pooled'} \subseteq Nat
BY DEF Types, TypeOK, TakeFromPool

(* Queues of frames. *)
LEMMA QueueType ==
  ASSUME NEW q \in Seq(Frame)
  PROVE  /\ \A f \in Frame : Append(q, f) \in Seq(Frame)
         /\ q # <<>> => Head(q) \in Frame /\ Tail(q) \in Seq(Frame)
OBVIOUS

(* Every step keeps the types, one case per action. *)
LEMMA TypeKept ==
  ASSUME Types, [Next]_vars
  PROVE  Types'
<1> USE DEF Types, TypeOK, port, timers, transactions
<1>1. /\ 0 \in Nat /\ <<>> \in Seq(Frame) /\ <<>> \in Seq(Call)
      /\ {current, allocated, pooled, frames, signals, queries} \subseteq Nat
      /\ QueueSize \in Nat
  BY TransactionAssumption
<1>2. CASE ThreadNext
  <2>1. CASE Write
    BY <2>1, QueueType DEF Write
  <2>2. CASE Answer
    BY <2>2, QueueType DEF Answer
  <2>3. CASE Ignore
    BY <2>3, QueueType DEF Ignore
  <2>4. CASE Unasked
    <3>1. [id |-> 0, query |-> 0] \in Frame
      BY DEF Frame
    <3> QED BY <2>4, <3>1, QueueType DEF Unasked
  <2>5. CASE ThreadsStopped
    <3>1. state' \in ManagerStates /\ locked' \in BOOLEAN
      BY <2>5, EmitType DEF ThreadsStopped
    <3> QED BY <2>5, <3>1 DEF ThreadsStopped
  <2> QED BY <1>2, <2>1, <2>2, <2>3, <2>4, <2>5 DEF ThreadNext
<1>3. CASE Start
  BY <1>1, <1>3 DEF Start, ManagerStates, RunningStates
<1>4. ASSUME NEW keep \in BOOLEAN, Query(keep)
      PROVE  Types'
  <2>1. {allocated', pooled'} \subseteq Nat
    BY <1>4, TakeType DEF Query
  <2>2. current' \in Nat /\ queries' \in Nat
    BY <1>1, <1>4 DEF Query
  <2> DEFINE t == [id |-> IF identified THEN 0 ELSE current', query |-> queries',
                   keep |-> keep, answer |-> 0]
  <2>3. t \in Transaction
    BY <2>2 DEF Transaction
  <2>4. [phase |-> "frame", t |-> t] \in Call
    BY <2>3 DEF Call, Phases
  <2>5. calls' = Append(calls, [phase |-> "frame", t |-> t])
    BY <1>4 DEF Query
  <2>6. calls' \in Seq(Call)
    <3> HIDE DEF t
    <3> QED BY <2>4, <2>5, CallType
  <2> QED BY <1>4, <2>1, <2>2, <2>6 DEF Query
<1>5. CASE TakeFrame
  <2>1. calls # <<>> /\ Top.t \in Transaction /\ "slot" \in Phases
    BY <1>5, TopType DEF TakeFrame, Phases
  <2>2. calls' \in Seq(Call)
    BY <1>5, <2>1, GoOnType DEF TakeFrame
  <2>3. frames' \in Nat
    BY <1>1, <1>5 DEF TakeFrame
  <2> QED BY <1>5, <2>2, <2>3 DEF TakeFrame
<1>6. CASE NoFrame
  BY <1>6 DEF NoFrame
<1>7. CASE Send
  <2> DEFINE t == [Top.t EXCEPT !.id = IF identified THEN current' ELSE @]
  <2>1. calls # <<>> /\ Top.t \in Transaction /\ "reply" \in Phases
    BY <1>7, TopType DEF Send, Phases
  <2>2. current' \in Nat
    BY <1>1, <1>7 DEF Send
  <2>3. t \in Transaction
    BY <2>1, <2>2 DEF Transaction
  <2>4. [id |-> t.id, query |-> t.query] \in Frame
    BY <2>3 DEF Frame, Transaction
  <2>5. /\ toWrite' = Append(toWrite, [id |-> t.id, query |-> t.query])
        /\ pending' = {u \in pending : u.id # t.id} \cup {t}
        /\ IF t.keep THEN GoOn("reply", t) /\ timer' = TRUE /\ timedOut' = FALSE
                     ELSE Return /\ UNCHANGED timers
    BY <1>7 DEF Send
  <2> HIDE DEF t
  <2>6. toWrite' \in Seq(Frame) /\ pending' \subseteq Transaction
    BY <2>3, <2>4, <2>5, QueueType
  <2>7. IsFiniteSet(pending')
    <3>1. IsFiniteSet({u \in pending : u.id # t.id})
      BY FS_Subset
    <3> QED BY <3>1, <2>5, FS_AddElement
  <2>8. calls' \in Seq(Call) /\ timer' \in BOOLEAN /\ timedOut' \in BOOLEAN
    BY <2>1, <2>3, <2>5, GoOnType, ReturnType
  <2> QED BY <1>7, <2>2, <2>6, <2>7, <2>8 DEF Send
<1>8. CASE SendFails
  <2>1. calls' \in Seq(Call)
    BY <1>8, TopType, ReturnType DEF SendFails
  <2>2. pooled' \in Nat
    BY <1>1, <1>8 DEF SendFails
  <2>3. locked' \in BOOLEAN
    BY <1>8 DEF SendFails
  <2> QED BY <1>8, <2>1, <2>2, <2>3 DEF SendFails
<1>9. CASE TakeReply
  <2>1. calls' \in Seq(Call)
    BY <1>9, TopType, ReturnType DEF TakeReply
  <2>2. PICK t \in done : done' = done \ {t} /\ pooled' = pooled + 1
    BY <1>9 DEF TakeReply
  <2>3. IsFiniteSet(done') /\ pooled' \in Nat /\ done' \subseteq Transaction
    BY <1>1, <2>2, FS_RemoveElement
  <2> QED BY <1>9, <2>1, <2>3 DEF TakeReply
<1>10. CASE WaitFails
  <2>1. calls' \in Seq(Call)
    BY <1>10, TopType, ReturnType DEF WaitFails
  <2> QED BY <1>10, <2>1 DEF WaitFails
<1>11. CASE WaitTimesOut
  <2>1. calls' \in Seq(Call)
    BY <1>11, TopType, ReturnType DEF WaitTimesOut
  <2> QED BY <1>11, <2>1 DEF WaitTimesOut
<1>12. CASE ReadenFrames
  <2>1. pooled' \in Nat /\ IsFiniteSet({})
    BY <1>1, <1>12, FlushType, FS_EmptySet DEF ReadenFrames
  <2> QED BY <1>12, <2>1 DEF ReadenFrames
<1>13. CASE Stop
  <2>1. state' \in ManagerStates /\ locked' \in BOOLEAN
    BY <1>13, EmitType DEF Stop
  <2>2. [phase |-> "stop", t |-> NoTransaction] \in Call
    BY DEF Call, Phases, NoTransaction, Transaction
  <2>3. calls' \in Seq(Call)
    BY <1>13, <2>2, CallType DEF Stop
  <2> QED BY <1>13, <2>1, <2>3 DEF Stop
<1>14. CASE StopReturns
  <2>1. state' \in ManagerStates /\ locked' \in BOOLEAN
    BY <1>14, EmitType DEF StopReturns
  <2>2. calls' \in Seq(Call)
    BY <1>14, TopType, ReturnType DEF StopReturns
  <2>3. /\ {current', allocated', pooled'} \subseteq Nat /\ pending' = {} /\ done' \subseteq done
        /\ IsFiniteSet(pending') /\ IsFiniteSet(done')
    BY <1>14, FlushType DEF StopReturns
  <2> QED BY <1>14, <2>1, <2>2, <2>3 DEF StopReturns
<1>15. CASE Collect
  BY <1>1, <1>15 DEF Collect
<1>16. CASE CollectAnswer
  <2>1. Head(readen) \in Frame /\ Tail(readen) \in Seq(Frame)
    BY <1>16, QueueType DEF CollectAnswer
  <2>2. PICK t \in pending :
          /\ pending' = pending \ {t}
          /\ done' = done \cup {[t EXCEPT !.answer = Head(readen).query]}
    BY <1>16 DEF CollectAnswer
  <2>3. [t EXCEPT !.answer = Head(readen).query] \in Transaction
    BY <2>1 DEF Transaction, Frame
  <2>4. IsFiniteSet(pending') /\ IsFiniteSet(done')
    BY <2>2, FS_RemoveElement, FS_AddElement
  <2> QED BY <1>16, <2>1, <2>2, <2>3, <2>4 DEF CollectAnswer
<1>17. CASE CollectOther
  <2>1. Head(readen) \in Frame /\ Tail(readen) \in Seq(Frame)
    BY <1>17, QueueType DEF CollectOther
  <2>2. CASE identified
    BY <1>17, <2>1, <2>2 DEF CollectOther
  <2>3. CASE ~identified
    <3> DEFINE t == [id |-> current', query |-> 0, keep |-> FALSE,
                     answer |-> Head(readen).query]
    <3>1. /\ current' = current + 1 /\ TakeFromPool /\ UNCHANGED pending
          /\ done' = done \cup {t}
      BY <1>17, <2>3 DEF CollectOther
    <3>2. current' \in Nat /\ {allocated', pooled'} \subseteq Nat
      BY <1>1, <3>1, TakeType
    <3>3. t \in Transaction
      BY <2>1, <3>2 DEF Transaction, Frame
    <3> HIDE DEF t
    <3>4. IsFiniteSet(done')
      BY <3>1, FS_AddElement
    <3> QED BY <1>17, <2>1, <3>1, <3>2, <3>3, <3>4 DEF CollectOther
  <2> QED BY <2>2, <2>3
<1>18. CASE CollectEnds
  <2> DEFINE kept == {t \in done : t.keep}
  <2>1. done' = kept /\ pooled' = pooled + Cardinality(done \ kept)
    BY <1>18 DEF CollectEnds
  <2>2. IsFiniteSet(kept) /\ IsFiniteSet(done \ kept)
    BY FS_Subset
  <2>3. Cardinality(done \ kept) \in Nat
    BY <2>2, FS_CardinalityType
  <2>4. pooled' \in Nat /\ done' \subseteq done /\ IsFiniteSet(done')
    <3> HIDE DEF kept
    <3>1. kept \subseteq done
      BY DEF kept
    <3> QED BY <1>1, <2>1, <2>2, <2>3, <3>1
  <2> QED BY <1>18, <2>4 DEF CollectEnds
<1>19. CASE Timeout
  <2>1. /\ {current', allocated', pooled'} \subseteq Nat /\ pending' = {} /\ done' \subseteq done
        /\ IsFiniteSet(pending') /\ IsFiniteSet(done')
    BY <1>19, FlushType DEF Timeout
  <2> QED BY <1>19, <2>1 DEF Timeout
<1>20. CASE Error
  <2>1. PICK error \in Errors : OnThreadsErrorOccured(error)
    BY <1>20 DEF Error
  <2>2. state' \in ManagerStates /\ locked' \in BOOLEAN
    BY <2>1, EmitType DEF OnThreadsErrorOccured
  <2>3. /\ timedOut' \in BOOLEAN
        /\ FlushTransactions \/ FlushPending \/ UNCHANGED transactions
    BY <2>1 DEF OnThreadsErrorOccured, Errors
  <2>4. /\ {current', allocated', pooled'} \subseteq Nat /\ pending' \subseteq pending
        /\ done' \subseteq done /\ IsFiniteSet(pending') /\ IsFiniteSet(done')
    BY <1>1, <2>3, FlushType
  <2> QED BY <1>20, <2>2, <2>3, <2>4 DEF Error
<1>21. CASE Connected
  <2>1. state' \in ManagerStates /\ locked' \in BOOLEAN
    BY <1>21, EmitType DEF Connected
  <2> QED BY <1>21, <2>1 DEF Connected
<1>22. CASE UNCHANGED vars
  BY <1>22 DEF vars
<1> QED
  BY <1>2, <1>3, <1>4, <1>5, <1>6, <1>7, <1>8, <1>9, <1>10, <1>11, <1>12, <1>13, <1>14,
     <1>15, <1>16, <1>17, <1>18, <1>19, <1>20, <1>21, <1>22
  DEF Next, CallNext, SlotNext

(* The types hold at the start. *)
LEMMA InitType ==
  ASSUME Init
  PROVE  Types
<1>1. <<>> \in Seq(Call) /\ <<>> \in Seq(Frame) /\ 0 \in Nat
  OBVIOUS
<1>2. IsFiniteSet(pending) /\ IsFiniteSet(done)
  BY FS_EmptySet DEF Init
<1>3. TypeOK
  BY <1>1 DEF Init, TypeOK, ManagerStates
<1> QED BY <1>2, <1>3 DEF Types

(* TypeOK holds: the counts of transactions and frames are never negative, *)
(* and the states are those of the code.                                   *)
THEOREM TypeCorrect == Spec => []TypeOK
<1>1. Init => Types
  BY InitType
<1>2. Types /\ [Next]_vars => Types'
  BY TypeKept
<1>3. Types => TypeOK
  BY DEF Types
<1> QED BY <1>1, <1>2, <1>3, PTL DEF Spec

-----------------------------------------------------------------------------
(* Some sendData() has a frame and waits to send it. *)
SlotHeld == \E i \in DOMAIN calls : calls[i].phase = "slot"

(* It does so still after other calls come and return above it. *)
LEMMA SlotKept ==
  ASSUME calls \in Seq(Call), SlotHeld,
         \/ calls' = calls
         \/ \E c \in Call : calls' = Append(calls, c)
         \/ calls # <<>> /\ Top.phase # "slot" /\ Return
  PROVE  SlotHeld'
<1>1. PICK i \in 1 .. Len(calls) : calls[i].phase = "slot"
  BY DEF SlotHeld
<1>2. CASE calls' = calls
  BY <1>2 DEF SlotHeld
<1>3. ASSUME NEW c \in Call, calls' = Append(calls, c)
      PROVE  SlotHeld'
  <2>1. i \in DOMAIN calls' /\ calls'[i] = calls[i]
    BY <1>3, CallType
  <2> QED BY <1>1, <2>1 DEF SlotHeld
<1>4. CASE calls # <<>> /\ Top.phase # "slot" /\ Return
  <2>1. i # Len(calls)
    BY <1>1, <1>4 DEF Top
  <2>2. i \in 1 .. Len(calls) - 1
    BY <2>1
  <2>3. i \in DOMAIN calls' /\ calls'[i] = calls[i]
    BY <1>4, <2>2, ReturnType
  <2> QED BY <1>1, <2>3 DEF SlotHeld
<1> QED BY <1>2, <1>3, <1>4

(* MutexReleased: the main thread keeps the mutex of the port only while   *)
(* it collects frames or some sendData() has one.                          *)
THEOREM MutexGivenBack == Spec => []MutexReleased
<1> DEFINE Inv == Types /\ MutexReleased
<1>1. Init => Inv
  BY InitType DEF Init, MutexReleased
<1>2. Inv /\ [Next]_vars => Inv'
  <2> SUFFICES ASSUME Inv, [Next]_vars, locked'
               PROVE  collecting' \/ SlotHeld'
    BY TypeKept DEF MutexReleased, SlotHeld
  <2> USE DEF port, timers, transactions
  <2>1. /\ calls \in Seq(Call)
        /\ locked => collecting \/ SlotHeld
    BY DEF Types, TypeOK, MutexReleased, SlotHeld
  <2>2. CASE UNCHANGED <<locked, calls, collecting>>
    BY <2>1, <2>2 DEF SlotHeld
  <2>3. CASE ThreadsStopped \/ Error \/ Connected
    <3>1. locked /\ UNCHANGED <<calls, collecting>>
      BY <2>3 DEF ThreadsStopped, Error, Connected, Emit, OnThreadsErrorOccured
    <3> QED BY <2>1, <3>1 DEF SlotHeld
  <2>4. ASSUME NEW keep \in BOOLEAN, Query(keep)
        PROVE  SlotHeld'
    <3>1. Types'
      BY TypeKept
    <3>2. locked /\ ~collecting
      BY <2>4 DEF Query, Waiting
    <3>3. \A i \in 1 .. Len(calls) : i \in DOMAIN calls' /\ calls'[i] = calls[i]
      <4>1. PICK c : calls' = Append(calls, c)
        BY <2>4 DEF Query
      <4>2. calls' \in Seq(Call)
        BY <3>1 DEF Types, TypeOK
      <4> QED BY <2>1, <4>1, <4>2
    <3> QED BY <2>1, <3>2, <3>3 DEF SlotHeld
  <2>5. CASE TakeFrame
    <3>1. calls # <<>> /\ Top.t \in Transaction
      BY <2>1, <2>5, TopType DEF TakeFrame
    <3>2. GoOn("slot", Top.t) /\ "slot" \in Phases
      BY <2>5 DEF TakeFrame, Phases
    <3>3. /\ Len(calls) \in 1 .. Len(calls) /\ DOMAIN calls' = 1 .. Len(calls)
          /\ calls'[Len(calls)] = [phase |-> "slot", t |-> Top.t]
      BY <2>1, <3>1, <3>2, GoOnType
    <3> QED BY <3>3 DEF SlotHeld
  <2>6. CASE NoFrame \/ Send \/ CollectEnds
    BY <2>6 DEF NoFrame, Send, CollectEnds
  <2>7. CASE SendFails \/ TakeReply \/ WaitFails \/ WaitTimesOut
    <3>1. /\ locked /\ ~collecting /\ Return
          /\ Top.phase \in {"frame", "reply"}
      BY <2>7 DEF SendFails, TakeReply, WaitFails, WaitTimesOut, Waiting
    <3>2. calls # <<>>
      BY <2>1, <3>1, TopType
    <3> QED BY <2>1, <3>1, <3>2, SlotKept
  <2>8. CASE Stop
    <3>1. locked /\ ~collecting /\ calls' = Append(calls, [phase |-> "stop", t |-> NoTransaction])
      BY <2>8 DEF Stop, Emit, Waiting
    <3>2. [phase |-> "stop", t |-> NoTransaction] \in Call
      BY DEF Call, Phases, NoTransaction, Transaction
    <3> QED BY <2>1, <3>1, <3>2, SlotKept
  <2>9. CASE StopReturns
    <3>1. locked /\ ~collecting /\ Return /\ Top.phase = "stop"
      BY <2>9 DEF StopReturns, Emit, Waiting
    <3>2. calls # <<>>
      BY <2>1, <3>1, TopType
    <3> QED BY <2>1, <3>1, <3>2, SlotKept
  <2>10. CASE Collect
    BY <2>10 DEF Collect
  <2>11. CASE \/ Write \/ Answer \/ Ignore \/ Unasked \/ Start \/ ReadenFrames
              \/ CollectAnswer \/ CollectOther \/ Timeout \/ UNCHANGED vars
    <3>1. UNCHANGED <<locked, calls, collecting>>
      BY <2>11 DEF Write, Answer, Ignore, Unasked, Start, ReadenFrames, CollectAnswer,
                   CollectOther, Timeout, vars
    <3> QED BY <2>2, <3>1
  <2> QED
    BY <2>3, <2>4, <2>5, <2>6, <2>7, <2>8, <2>9, <2>10, <2>11
    DEF Next, ThreadNext, CallNext, SlotNext
<1> QED BY <1>1, <1>2, PTL DEF Spec

-----------------------------------------------------------------------------
(* Once the threads are stopped no frame comes; once the port is closed no *)
(* transaction is in use.                                                  *)
Closing ==
  /\ state \in {"Stopped", "PortClosed"} => signals = 0 /\ ~collecting
  /\ state = "PortClosed" => pending = {} /\ done = {}

(* Every step keeps it: stop() puts all transactions back before it closes *)
(* the port, and no frame is announced until the next start().             *)
LEMMA ClosingKept ==
  ASSUME Closing, [Next]_vars
  PROVE  Closing'
<1> USE DEF Closing, port, timers, transactions
<1>1. CASE ThreadNext
  <2>1. CASE Write \/ Ignore
    BY <2>1 DEF Write, Ignore
  <2>2. CASE Answer \/ Unasked
    BY <2>2 DEF Answer, Unasked, ThreadsAlive, RunningStates
  <2>3. CASE ThreadsStopped
    <3>1. state' = "Stopped"
      BY <2>3 DEF ThreadsStopped, Emit, React, RunningStates
    <3> QED BY <2>3, <3>1 DEF ThreadsStopped, Waiting
  <2> QED BY <1>1, <2>1, <2>2, <2>3 DEF ThreadNext
<1>2. CASE Start \/ Send
  <2>1. state' \notin {"Stopped", "PortClosed"}
    BY <1>2 DEF Start, Send, IsReady, ReadyStates
  <2> QED BY <2>1
<1>3. CASE \/ Query(TRUE) \/ Query(FALSE) \/ TakeFrame \/ NoFrame \/ SendFails \/ TakeReply
           \/ WaitFails \/ WaitTimesOut \/ ReadenFrames
  <2>1. /\ UNCHANGED <<state, signals, collecting, pending>>
        /\ done' \subseteq done
    BY <1>3 DEF Query, TakeFrame, NoFrame, SendFails, TakeReply, WaitFails, WaitTimesOut,
                ReadenFrames
  <2> QED BY <2>1
<1>4. CASE Stop
  <2>1. state' # "PortClosed" /\ (state' = "Stopped" => state = "Stopped")
    BY <1>4 DEF Stop, IsClosed, Emit, React, RunningStates
  <2> QED BY <1>4, <2>1 DEF Stop
<1>5. CASE StopReturns
  BY <1>5 DEF StopReturns, FlushTransactions
<1>6. CASE Collect \/ CollectAnswer \/ CollectOther \/ CollectEnds
  <2>1. (signals > 0 \/ collecting) /\ UNCHANGED state
    BY <1>6 DEF Collect, CollectAnswer, CollectOther, CollectEnds
  <2>2. state' \notin {"Stopped", "PortClosed"}
    BY <2>1
  <2> QED BY <2>2
<1>7. CASE Timeout
  BY <1>7 DEF Timeout, FlushTransactions
<1>8. CASE Error
  <2>1. PICK error \in Errors : Emit(EventOfError(error))
    BY <1>8 DEF Error, OnThreadsErrorOccured
  <2>2. state' \notin {"Stopped", "PortClosed"}
    BY <1>8, <2>1 DEF Error, Errors, EventOfError, ThreadsAlive, Emit, React, RunningStates
  <2> QED BY <2>2
<1>9. CASE Connected
  <2>1. state' = "Connected_Ready"
    BY <1>9 DEF Connected, Emit, React, RunningStates
  <2> QED BY <2>1
<1>10. CASE UNCHANGED vars
  BY <1>10 DEF vars
<1> QED
  BY <1>1, <1>2, <1>3, <1>4, <1>5, <1>6, <1>7, <1>8, <1>9, <1>10 DEF Next, CallNext, SlotNext

-----------------------------------------------------------------------------
(* The frames in a queue, and those between a sendData() and its reply.    *)
Elements(q) == {q[i] : i \in DOMAIN q}
Transit == Elements(toWrite) \cup Elements(wire) \cup Elements(readen)

(* With identifiers: those in use are at most the current one, a frame     *)
(* with the identifier of a pending transaction is about its query, and    *)
(* what is done got the answer to its query.                               *)
Matching ==
  /\ \A t \in pending : 1 <= t.id /\ t.id <= current
  /\ \A f \in Transit : f.id <= current
  /\ \A f \in Transit, t \in pending : f.id = t.id => f.query = t.query
  /\ \A t \in done : t.answer = t.query

(* What the queues of frames hold when one is added or taken. *)
LEMMA ElementsOf ==
  /\ Elements(<<>>) = {}
  /\ \A q \in Seq(Frame) :
       /\ \A f \in Frame : Elements(Append(q, f)) = Elements(q) \cup {f}
       /\ q # <<>> => Head(q) \in Elements(q) /\ Elements(Tail(q)) \subseteq Elements(q)
<1>1. Elements(<<>>) = {}
  BY DEF Elements
<1>2. ASSUME NEW q \in Seq(Frame), NEW f \in Frame
      PROVE  Elements(Append(q, f)) = Elements(q) \cup {f}
  <2>1. /\ DOMAIN Append(q, f) = 1 .. Len(q) + 1 /\ DOMAIN q = 1 .. Len(q)
        /\ Len(q) \in Nat /\ Append(q, f)[Len(q) + 1] = f
        /\ \A i \in 1 .. Len(q) : Append(q, f)[i] = q[i]
    OBVIOUS
  <2>2. 1 .. Len(q) + 1 = (1 .. Len(q)) \cup {Len(q) + 1}
    BY <2>1
  <2> QED BY <2>1, <2>2, Zenon DEF Elements
<1>3. ASSUME NEW q \in Seq(Frame), q # <<>>
      PROVE  Head(q) \in Elements(q) /\ Elements(Tail(q)) \subseteq Elements(q)
  <2>1. /\ Head(q) = q[1] /\ 1 \in DOMAIN q
        /\ \A i \in DOMAIN Tail(q) : i + 1 \in DOMAIN q /\ Tail(q)[i] = q[i + 1]
    BY <1>3
  <2> QED BY <2>1 DEF Elements
<1> QED BY <1>1, <1>2, <1>3

(* A step that takes frames, pending and done transactions away, and adds  *)
(* none, keeps them matching.                                              *)
LEMMA MatchingLess ==
  ASSUME Matching, current' = current, Transit' \subseteq Transit,
         pending' \subseteq pending, done' \subseteq done
  PROVE  Matching'
BY DEF Matching

(* A new transaction has an identifier above all those in use. *)
LEMMA SendMatches ==
  ASSUME Types, Types', identified, Matching, Send
  PROVE  Matching'
<1> DEFINE t == [Top.t EXCEPT !.id = IF identified THEN current' ELSE @]
           f == [id |-> t.id, query |-> t.query]
<1>1. /\ current' = current + 1 /\ UNCHANGED <<done, wire, readen>>
      /\ toWrite' = Append(toWrite, f)
      /\ pending' = {u \in pending : u.id # t.id} \cup {t}
  BY DEF Send
<1>2. /\ calls \in Seq(Call) /\ current \in Nat /\ current' \in Nat
      /\ pending \subseteq Transaction /\ toWrite \in Seq(Frame)
      /\ wire \in Seq(Frame) /\ readen \in Seq(Frame)
  BY DEF Types, TypeOK
<1>3. Top.t \in Transaction
  BY <1>2, TopType
<1>4. t \in Transaction /\ t.id = current'
  BY <1>2, <1>3 DEF Transaction
<1>5. f \in Frame /\ f.id = current' /\ f.query = t.query
  BY <1>4 DEF Transaction, Frame
<1> HIDE DEF t, f
<1>6. Transit' = Transit \cup {f}
  <2>1. Elements(toWrite') = Elements(toWrite) \cup {f}
    BY <1>1, <1>2, <1>5, ElementsOf
  <2>2. Elements(wire)' = Elements(wire) /\ Elements(readen)' = Elements(readen)
    BY <1>1
  <2> QED BY <2>1, <2>2 DEF Transit, Elements
<1>7. /\ \A u \in pending : u.id \in Nat /\ 1 <= u.id /\ u.id <= current
      /\ \A g \in Transit : g.id \in Nat /\ g.id <= current
  <2>1. Transit \subseteq Frame
    BY <1>2 DEF Transit, Elements
  <2> QED BY <1>2, <2>1 DEF Matching, Transaction, Frame
<1>8. \A u \in pending' : 1 <= u.id /\ u.id <= current'
  BY <1>1, <1>2, <1>4, <1>7
<1>9. \A g \in Transit' : g.id <= current'
  BY <1>1, <1>2, <1>5, <1>6, <1>7
<1>10. ASSUME NEW g \in Transit', NEW u \in pending', g.id = u.id
       PROVE  g.query = u.query
  <2>1. CASE g \in Transit /\ u \in pending
    BY <1>10, <2>1 DEF Matching
  <2>2. CASE g \in Transit /\ u = t
    BY <1>1, <1>2, <1>4, <1>7, <1>10, <2>2
  <2>3. CASE g = f /\ u \in pending
    BY <1>1, <1>2, <1>5, <1>7, <1>10, <2>3
  <2>4. CASE g = f /\ u = t
    BY <1>5, <2>4
  <2> QED BY <1>1, <1>6, <2>1, <2>2, <2>3, <2>4
<1> QED BY <1>1, <1>8, <1>9, <1>10 DEF Matching

(* A frame goes to the transaction that has its identifier. *)
LEMMA AnswerMatches ==
  ASSUME Types, identified, Matching, CollectAnswer
  PROVE  Matching'
<1>1. readen \in Seq(Frame) /\ pending \subseteq Transaction
  BY DEF Types, TypeOK
<1>2. /\ readen # <<>> /\ readen' = Tail(readen)
      /\ UNCHANGED <<current, toWrite, wire>>
  BY DEF CollectAnswer
<1>3. PICK t \in pending :
        /\ t.id = Head(readen).id
        /\ pending' = pending \ {t}
        /\ done' = done \cup {[t EXCEPT !.answer = Head(readen).query]}
  BY DEF CollectAnswer, Answered
<1>4. Head(readen) \in Elements(readen) /\ Elements(Tail(readen)) \subseteq Elements(readen)
  BY <1>1, <1>2, ElementsOf
<1>5. Transit' \subseteq Transit /\ Head(readen) \in Transit
  BY <1>2, <1>4 DEF Transit, Elements
<1>6. Head(readen).query = t.query
  BY <1>3, <1>5 DEF Matching
<1>7. [t EXCEPT !.answer = Head(readen).query].answer = t.query
  BY <1>1, <1>6 DEF Transaction
<1>8. [t EXCEPT !.answer = Head(readen).query].query = t.query
  BY <1>1 DEF Transaction
<1>9. \A u \in done' : u.answer = u.query
  BY <1>3, <1>7, <1>8 DEF Matching
<1> QED BY <1>2, <1>3, <1>5, <1>9 DEF Matching

(* Every step of a manager with identifiers keeps them matching. *)
LEMMA MatchingKept ==
  ASSUME Types, Closing, identified, Matching, [Next]_vars
  PROVE  Matching'
<1> USE DEF port, timers, transactions
<1>1. /\ toWrite \in Seq(Frame) /\ wire \in Seq(Frame) /\ readen \in Seq(Frame)
      /\ current \in Nat
  BY DEF Types, TypeOK
<1>2. CASE Write
  <2>1. Head(toWrite) \in Frame
    BY <1>1, <1>2 DEF Write
  <2>2. /\ Elements(toWrite') \subseteq Elements(toWrite)
        /\ Elements(wire') = Elements(wire) \cup {Head(toWrite)}
        /\ Head(toWrite) \in Elements(toWrite) /\ readen' = readen
    BY <1>1, <1>2, <2>1, ElementsOf DEF Write
  <2>3. Transit' \subseteq Transit
    BY <2>2 DEF Transit, Elements
  <2> QED BY <1>2, <2>3, MatchingLess DEF Write
<1>3. CASE Answer
  <2>1. Head(wire) \in Frame
    BY <1>1, <1>3 DEF Answer
  <2>2. /\ Elements(wire') \subseteq Elements(wire)
        /\ Elements(readen') = Elements(readen) \cup {Head(wire)}
        /\ Head(wire) \in Elements(wire) /\ toWrite' = toWrite
    BY <1>1, <1>3, <2>1, ElementsOf DEF Answer
  <2>3. Transit' \subseteq Transit
    BY <2>2 DEF Transit, Elements
  <2> QED BY <1>3, <2>3, MatchingLess DEF Answer
<1>4. CASE Ignore
  <2>1. Elements(wire') \subseteq Elements(wire) /\ UNCHANGED <<toWrite, readen>>
    BY <1>1, <1>4, ElementsOf DEF Ignore
  <2>2. Transit' \subseteq Transit
    BY <2>1 DEF Transit, Elements
  <2> QED BY <1>4, <2>2, MatchingLess DEF Ignore
<1>5. CASE Unasked
  <2> DEFINE f == [id |-> 0, query |-> 0]
  <2>1. f \in Frame /\ f.id = 0
    BY DEF Frame
  <2>2. readen' = Append(readen, f) /\ UNCHANGED <<toWrite, wire, current, pending, done>>
    BY <1>5 DEF Unasked
  <2> HIDE DEF f
  <2>3. Elements(readen') = Elements(readen) \cup {f}
    BY <1>1, <2>1, <2>2, ElementsOf
  <2>4. Transit' = Transit \cup {f}
    BY <2>2, <2>3 DEF Transit, Elements
  <2>5. \A t \in pending : t.id # 0
    BY DEF Matching
  <2> QED BY <1>1, <2>1, <2>2, <2>4, <2>5 DEF Matching
<1>6. CASE Start
  <2>1. pending' = {} /\ done' = {}
    BY <1>6 DEF Start, IsClosed, Closing
  <2>2. Transit' = {}
    BY <1>6, ElementsOf DEF Start, Transit, Elements
  <2> QED BY <2>1, <2>2 DEF Matching
<1>7. CASE Send
  BY <1>7, SendMatches, TypeKept
<1>8. CASE CollectAnswer
  BY <1>8, AnswerMatches
<1>9. CASE CollectOther
  <2>1. /\ Elements(readen') \subseteq Elements(readen)
        /\ UNCHANGED <<toWrite, wire, current, pending, done>>
    BY <1>1, <1>9, ElementsOf DEF CollectOther
  <2>2. Transit' \subseteq Transit
    BY <2>1 DEF Transit, Elements
  <2> QED BY <2>1, <2>2, MatchingLess
<1>10. CASE \/ ThreadsStopped \/ Query(TRUE) \/ Query(FALSE) \/ TakeFrame \/ NoFrame
            \/ SendFails \/ TakeReply \/ WaitFails \/ WaitTimesOut \/ ReadenFrames \/ Stop
            \/ StopReturns \/ Collect \/ CollectEnds \/ Timeout \/ Error \/ Connected
            \/ UNCHANGED vars
  <2>1. UNCHANGED <<toWrite, wire, readen>>
    BY <1>10 DEF ThreadsStopped, Query, TakeFrame, NoFrame, SendFails, TakeReply, WaitFails,
       WaitTimesOut, ReadenFrames, Stop, StopReturns, Collect, CollectEnds, Timeout, Error,
       Connected, vars
  <2>2. current' = current /\ pending' \subseteq pending /\ done' \subseteq done
    BY <1>10 DEF ThreadsStopped, Query, TakeFrame, NoFrame, SendFails, TakeReply, WaitFails,
       WaitTimesOut, ReadenFrames, Stop, StopReturns, Collect, CollectEnds, Timeout, Error,
       OnThreadsErrorOccured, Errors, FlushTransactions, FlushPending, Connected, vars
  <2>3. Transit' = Transit
    BY <2>1 DEF Transit, Elements
  <2> QED BY <2>2, <2>3, MatchingLess
<1> QED
  BY <1>2, <1>3, <1>4, <1>5, <1>6, <1>7, <1>8, <1>9, <1>10
  DEF Next, ThreadNext, CallNext, SlotNext

(* RepliesMatch: with identifiers, every transaction done holds the answer *)
(* to its own query, however late replies come and whatever was flushed.   *)
THEOREM RepliesToQueries == Spec => []RepliesMatch
<1> DEFINE Inv == Types /\ Closing /\ (identified => Matching)
<1>1. Init => Inv
  <2> SUFFICES ASSUME Init
               PROVE  Types /\ Closing /\ Matching
    OBVIOUS
  <2>1. Types
    BY InitType
  <2>2. Transit = {}
    BY ElementsOf DEF Init, Transit
  <2> QED BY <2>1, <2>2 DEF Init, Closing, Matching
<1>2. Inv /\ [Next]_vars => Inv'
  <2> SUFFICES ASSUME Inv, [Next]_vars
               PROVE  Inv'
    OBVIOUS
  <2>1. Types' /\ Closing'
    BY TypeKept, ClosingKept
  <2>2. identified' = identified
    BY DEF Next, ThreadNext, CallNext, SlotNext, Write, Answer, Ignore, Unasked, ThreadsStopped,
       Start, Query, TakeFrame, NoFrame, Send, SendFails, TakeReply, WaitFails, WaitTimesOut,
       ReadenFrames, Stop, StopReturns, Collect, CollectAnswer, CollectOther, CollectEnds,
       Timeout, Error, Connected, vars
  <2> QED BY <2>1, <2>2, MatchingKept
<1>3. Inv => RepliesMatch
  BY DEF Matching, RepliesMatch
<1> QED BY <1>1, <1>2, <1>3, PTL DEF Spec

-----------------------------------------------------------------------------
(* Identifiers in use are at most the current one, and tell transactions   *)
(* apart (the assertions of sendData(), addTransactionPending() and        *)
(* addTransactionDone()).  The base class gives them when the query is     *)
(* made, the Modbus/TCP manager when it is sent.                           *)
HeldApart ==
  \A i \in Held :
    /\ calls[i].t.id <= current
    /\ \A t \in pending \cup done : t.id # calls[i].t.id
    /\ \A j \in Held : i # j => calls[j].t.id # calls[i].t.id

Ids ==
  /\ \A t \in pending \cup done : t.id <= current
  /\ \A t, u \in pending : t.id = u.id => t = u
  /\ \A t \in pending, u \in done : t.id # u.id
  /\ ~identified => HeldApart

(* The inductive invariant. *)
Accounts == Types /\ Closing /\ Ids /\ TransactionsConserved

(* The terms of the sum. *)
LEMMA Counts ==
  ASSUME Types
  PROVE  /\ allocated \in Nat /\ pooled \in Nat /\ current \in Nat
         /\ IsFiniteSet(Held) /\ Cardinality(Held) \in Nat
         /\ Cardinality(pending) \in Nat /\ Cardinality(done) \in Nat
         /\ Held \subseteq 1 .. Len(calls) /\ Len(calls) \in Nat
<1>1. /\ allocated \in Nat /\ pooled \in Nat /\ current \in Nat /\ calls \in Seq(Call)
  BY DEF Types, TypeOK
<1>2. Len(calls) \in Nat /\ Held \subseteq 1 .. Len(calls)
  BY <1>1 DEF Held
<1>3. IsFiniteSet(1 .. Len(calls))
  BY <1>2, FS_Interval, 1 \in Int, Len(calls) \in Int
<1>4. IsFiniteSet(Held)
  BY <1>2, <1>3, FS_Subset
<1> QED BY <1>1, <1>2, <1>4, FS_CardinalityType DEF Types

(* A transaction held by a sendData() has an identifier. *)
LEMMA HeldIds ==
  ASSUME Types
  PROVE  \A i \in Held : calls[i].t.id \in Nat
<1>1. \A i \in Held : calls[i] \in Call
  BY DEF Types, TypeOK, Held
<1> QED BY <1>1 DEF Call, Transaction

(* How the calls that hold a transaction change. *)
LEMMA HeldCalled ==
  ASSUME Types, NEW c \in Call, calls' = Append(calls, c)
  PROVE  /\ Held' = IF c.phase \in {"frame", "slot"} THEN Held \cup {Len(calls) + 1} ELSE Held
         /\ calls'[Len(calls) + 1] = c
         /\ \A i \in Held : calls'[i] = calls[i]
<1>1. calls \in Seq(Call)
  BY DEF Types, TypeOK
<1>2. /\ DOMAIN calls' = 1 .. Len(calls) + 1 /\ calls'[Len(calls) + 1] = c
      /\ \A i \in 1 .. Len(calls) : calls'[i] = calls[i]
      /\ Len(calls) \in Nat /\ DOMAIN calls = 1 .. Len(calls)
  BY <1>1, CallType
<1>3. 1 .. Len(calls) + 1 = (1 .. Len(calls)) \cup {Len(calls) + 1}
  BY <1>2
<1> QED BY <1>2, <1>3 DEF Held

(* The call on top of the stack returns: it holds nothing any more. *)
LEMMA HeldReturned ==
  ASSUME Types, calls # <<>>, Return
  PROVE  /\ Held' = Held \ {Len(calls)}
         /\ \A i \in Held' : calls'[i] = calls[i]
         /\ Len(calls) \in Held <=> Top.phase \in {"frame", "slot"}
<1>1. calls \in Seq(Call)
  BY DEF Types, TypeOK
<1>2. /\ DOMAIN calls' = 1 .. Len(calls) - 1 /\ DOMAIN calls = 1 .. Len(calls)
      /\ \A i \in 1 .. Len(calls) - 1 : calls'[i] = calls[i]
  BY <1>1, ReturnType
<1>3. Len(calls) \in 1 .. Len(calls) /\ Top = calls[Len(calls)]
  BY <1>1 DEF Top
<1>4. 1 .. Len(calls) - 1 = (1 .. Len(calls)) \ {Len(calls)}
  BY <1>3
<1> QED BY <1>2, <1>3, <1>4 DEF Held

(* The call on top of the stack goes on: it holds its transaction until it *)
(* was sent, and the calls below keep theirs.                              *)
LEMMA HeldGoesOn ==
  ASSUME Types, calls # <<>>, NEW phase \in Phases, NEW t \in Transaction, GoOn(phase, t)
  PROVE  /\ Held' = IF phase \in {"frame", "slot"} THEN Held \cup {Len(calls)}
                                                    ELSE Held \ {Len(calls)}
         /\ calls'[Len(calls)].t = t
         /\ \A i \in Held : i # Len(calls) => calls'[i] = calls[i]
         /\ Len(calls) \in Held <=> Top.phase \in {"frame", "slot"}
<1>1. calls \in Seq(Call)
  BY DEF Types, TypeOK
<1>2. /\ DOMAIN calls' = 1 .. Len(calls) /\ DOMAIN calls = 1 .. Len(calls)
      /\ \A i \in 1 .. Len(calls) :
           calls'[i] = IF i = Len(calls) THEN [phase |-> phase, t |-> t] ELSE calls[i]
  BY <1>1, GoOnType
<1>3. Len(calls) \in 1 .. Len(calls) /\ Top = calls[Len(calls)]
  BY <1>1 DEF Top
<1>4. calls'[Len(calls)] = [phase |-> phase, t |-> t]
  BY <1>2, <1>3
<1>5. \A i \in (1 .. Len(calls)) \ {Len(calls)} : calls'[i] = calls[i]
  BY <1>2
<1>6. calls'[Len(calls)].phase = phase /\ calls'[Len(calls)].t = t
  BY <1>4
<1>7. Held' = IF phase \in {"frame", "slot"} THEN Held \cup {Len(calls)}
                                              ELSE Held \ {Len(calls)}
  BY <1>2, <1>3, <1>5, <1>6 DEF Held
<1>8. Len(calls) \in Held <=> Top.phase \in {"frame", "slot"}
  BY <1>2, <1>3 DEF Held
<1> QED BY <1>2, <1>5, <1>6, <1>7, <1>8 DEF Held

(* A step that adds no transaction keeps the identifiers apart. *)
LEMMA IdsLess ==
  ASSUME Ids, identified' = identified, current' = current,
         pending' \subseteq pending, done' \subseteq done, Held' \subseteq Held,
         \A i \in Held' : calls'[i].t = calls[i].t
  PROVE  Ids'
<1>1. ~identified => HeldApart'
  BY DEF Ids, HeldApart
<1> QED BY <1>1 DEF Ids

(* Steps that leave all transactions where they are. *)
LEMMA StillAccounts ==
  ASSUME Accounts, UNCHANGED <<identified, transactions>>, Held' = Held,
         \A i \in Held' : calls'[i].t = calls[i].t
  PROVE  Ids' /\ TransactionsConserved'
<1> USE DEF transactions
<1>1. Ids'
  BY IdsLess DEF Accounts
<1>2. TransactionsConserved'
  BY DEF Accounts, TransactionsConserved
<1> QED BY <1>1, <1>2

(* Steps that restore transactions. *)
LEMMA FlushAccounts ==
  ASSUME Accounts, identified' = identified, FlushTransactions \/ FlushPending, Held' = Held,
         \A i \in Held' : calls'[i].t = calls[i].t
  PROVE  Ids' /\ TransactionsConserved'
<1> USE DEF FlushTransactions, FlushPending
<1>1. Ids'
  BY IdsLess DEF Accounts
<1>2. Cardinality({}) = 0
  BY FS_EmptySet
<1>3. /\ allocated \in Nat /\ pooled \in Nat /\ Cardinality(Held) \in Nat
      /\ Cardinality(pending) \in Nat /\ Cardinality(done) \in Nat
      /\ allocated = pooled + Cardinality(pending) + Cardinality(done) + Cardinality(Held)
      /\ Cardinality(Held') = Cardinality(Held)
  BY Counts DEF Accounts, TransactionsConserved
<1>4. CASE FlushTransactions
  <2>1. /\ pooled' = pooled + Cardinality(pending) + Cardinality(done) /\ allocated' = allocated
        /\ Cardinality(pending') = 0 /\ Cardinality(done') = 0
    BY <1>2, <1>4
  <2> QED BY <1>1, <1>3, <2>1 DEF TransactionsConserved
<1>5. CASE FlushPending
  <2>1. /\ pooled' = pooled + Cardinality(pending) /\ allocated' = allocated
        /\ Cardinality(pending') = 0 /\ Cardinality(done') = Cardinality(done)
    BY <1>2, <1>5
  <2> QED BY <1>1, <1>3, <2>1 DEF TransactionsConserved
<1> QED BY <1>4, <1>5

(* sendData() is called: its transaction has a new identifier, or none yet. *)
LEMMA QueryAccounts ==
  ASSUME Accounts, NEW keep \in BOOLEAN, Query(keep)
  PROVE  Ids' /\ TransactionsConserved'
<1> DEFINE t == [id |-> IF identified THEN 0 ELSE current', query |-> queries',
                 keep |-> keep, answer |-> 0]
           c == [phase |-> "frame", t |-> t]
           n == Len(calls) + 1
<1>1. /\ calls' = Append(calls, c) /\ TakeFromPool
      /\ UNCHANGED <<identified, pending, done>>
      /\ current' = IF identified THEN current ELSE current + 1
  BY DEF Query
<1>2. current' \in Nat /\ queries' \in Nat
  BY TypeKept DEF Accounts, Types, TypeOK, Next, CallNext, Query
<1>3. t \in Transaction /\ (~identified => t.id = current')
  BY <1>2 DEF Transaction
<1>4. c \in Call /\ c.phase = "frame" /\ c.t = t
  BY <1>3 DEF Call, Phases
<1> HIDE DEF t, c
<1>5. /\ Held' = Held \cup {n} /\ calls'[n] = c
      /\ \A i \in Held : calls'[i] = calls[i]
  BY <1>1, <1>4, HeldCalled DEF Accounts
<1>6. n \notin Held
  BY Counts DEF Accounts
<1>7. Cardinality(Held') = Cardinality(Held) + 1
  BY <1>5, <1>6, Counts, FS_AddElement DEF Accounts
<1>8. TransactionsConserved'
  BY <1>1, <1>7, Counts DEF Accounts, TransactionsConserved, TakeFromPool
<1>9. Ids'
  <2>1. \A u \in pending \cup done : u.id \in Nat /\ u.id <= current
    BY DEF Accounts, Ids, Types, TypeOK, Transaction
  <2>2. CASE identified
    BY <1>1, <2>1, <2>2 DEF Accounts, Ids
  <2>3. CASE ~identified
    <3>1. current \in Nat /\ current' = current + 1 /\ t.id = current'
      BY <1>1, <1>3, <2>3, Counts DEF Accounts
    <3>2. \A i \in Held : calls[i].t.id \in Nat /\ calls[i].t.id <= current
      BY <2>3, HeldIds DEF Accounts, Ids, HeldApart
    <3>3. HeldApart
      BY <2>3 DEF Accounts, Ids
    <3>4. HeldApart'
      <4> HIDE DEF n
      <4>1. calls'[n].t.id = current + 1
        BY <1>4, <1>5, <3>1
      <4>2. \A i \in Held : calls'[i].t.id = calls[i].t.id /\ calls'[i].t.id # current + 1
        BY <1>5, <3>1, <3>2
      <4>3. \A i \in Held' : calls'[i].t.id <= current'
        BY <1>5, <3>1, <3>2, <4>1, <4>2
      <4>4. \A i \in Held' : \A u \in pending' \cup done' : u.id # calls'[i].t.id
        <5>1. \A u \in pending' \cup done' : u \in pending \cup done /\ u.id # current + 1
          BY <1>1, <2>1, <3>1
        <5>2. \A i \in Held : \A u \in pending \cup done : u.id # calls'[i].t.id
          BY <3>3, <4>2 DEF HeldApart
        <5> QED BY <1>5, <4>1, <5>1, <5>2
      <4>5. \A i, j \in Held' : i # j => calls'[j].t.id # calls'[i].t.id
        BY <1>5, <3>3, <4>1, <4>2 DEF HeldApart
      <4> QED BY <4>3, <4>4, <4>5 DEF HeldApart
    <3> QED BY <1>1, <2>1, <3>1, <3>4 DEF Accounts, Ids
  <2> QED BY <2>2, <2>3
<1> QED BY <1>8, <1>9

(* sendData() makes its transaction pending: no other one has its          *)
(* identifier.                                                             *)
LEMMA SendAccounts ==
  ASSUME Accounts, Send
  PROVE  Ids' /\ TransactionsConserved'
<1> DEFINE t == [Top.t EXCEPT !.id = IF identified THEN current' ELSE @]
           n == Len(calls)
<1>1. /\ pending' = {u \in pending : u.id # t.id} \cup {t}
      /\ GoOn("reply", t) \/ Return
      /\ UNCHANGED <<identified, allocated, pooled, done>>
      /\ current' = IF identified THEN current + 1 ELSE current
      /\ Top.phase = "slot"
  BY DEF Send
<1>2. Types /\ calls \in Seq(Call) /\ "reply" \in Phases
  BY DEF Accounts, Types, TypeOK, Phases
<1>3. calls # <<>> /\ Top.t \in Transaction /\ Top = calls[n]
  BY <1>1, <1>2, TopType DEF Top
<1>4. current \in Nat /\ current' \in Nat
  BY <1>1, <1>2, Counts
<1>5. t \in Transaction /\ t.id = IF identified THEN current' ELSE calls[n].t.id
  BY <1>3, <1>4 DEF Transaction
<1> HIDE DEF t
<1>6. /\ Held' = Held \ {n} /\ n \in Held
      /\ \A i \in Held' : calls'[i] = calls[i]
  BY <1>1, <1>2, <1>3, <1>5, HeldReturned, HeldGoesOn
<1>7. \A u \in pending \cup done : u.id \in Nat /\ u.id <= current /\ u.id # t.id
  <2>1. \A u \in pending \cup done : u.id \in Nat /\ u.id <= current
    BY DEF Accounts, Ids, Types, TypeOK, Transaction
  <2>2. CASE identified
    BY <1>1, <1>4, <1>5, <2>1, <2>2
  <2>3. CASE ~identified
    BY <1>5, <1>6, <2>1, <2>3 DEF Accounts, Ids, HeldApart
  <2> QED BY <2>2, <2>3
<1>8. pending' = pending \cup {t} /\ t \notin pending
  BY <1>1, <1>7
<1>9. Cardinality(pending') = Cardinality(pending) + 1
  BY <1>8, FS_AddElement DEF Accounts, Types
<1>10. Cardinality(Held') = Cardinality(Held) - 1
  BY <1>2, <1>6, Counts, FS_RemoveElement
<1>11. TransactionsConserved'
  BY <1>1, <1>2, <1>9, <1>10, Counts DEF Accounts, TransactionsConserved
<1>12. t.id <= current'
  BY <1>1, <1>4, <1>5, <1>6 DEF Accounts, Ids, HeldApart
<1>13. ~identified => HeldApart'
  BY <1>1, <1>5, <1>6, <1>8 DEF Accounts, Ids, HeldApart
<1>14. \A u \in pending' \cup done' : u.id <= current'
  BY <1>1, <1>4, <1>7, <1>8, <1>12
<1>15. Ids'
  BY <1>1, <1>7, <1>8, <1>13, <1>14 DEF Accounts, Ids
<1> QED BY <1>11, <1>15

(* A frame is collected. *)
LEMMA CollectAccounts ==
  ASSUME Accounts, CollectAnswer \/ CollectOther
  PROVE  Ids' /\ TransactionsConserved'
<1>1. /\ UNCHANGED <<identified, calls>> /\ readen # <<>>
      /\ Held' = Held
  BY DEF CollectAnswer, CollectOther, Held
<1>2. /\ Types /\ readen \in Seq(Frame) /\ pending \subseteq Transaction
      /\ done \subseteq Transaction /\ calls \in Seq(Call)
  BY DEF Accounts, Types, TypeOK
<1>3. Head(readen).query \in Nat
  BY <1>1, <1>2, QueueType DEF Frame
<1>4. CASE CollectAnswer
  <2>1. PICK t \in pending :
          /\ pending' = pending \ {t}
          /\ done' = done \cup {[t EXCEPT !.answer = Head(readen).query]}
    BY <1>4 DEF CollectAnswer
  <2> DEFINE u == [t EXCEPT !.answer = Head(readen).query]
  <2>2. u.id = t.id
    BY <1>2 DEF Transaction
  <2>3. done' = done \cup {u} /\ UNCHANGED <<current, allocated, pooled>>
    BY <1>4, <2>1 DEF CollectAnswer
  <2> HIDE DEF u
  <2>4. u \notin done
    BY <2>2 DEF Accounts, Ids
  <2>5. Cardinality(pending') = Cardinality(pending) - 1
    BY <1>2, <2>1, FS_RemoveElement DEF Types
  <2>6. Cardinality(done') = Cardinality(done) + 1
    BY <1>2, <2>3, <2>4, FS_AddElement DEF Types
  <2>8. TransactionsConserved'
    BY <1>1, <1>2, <2>3, <2>5, <2>6, Counts DEF Accounts, TransactionsConserved
  <2>7. Ids'
    BY <1>1, <2>1, <2>2, <2>3 DEF Accounts, Ids, HeldApart
  <2> QED BY <2>7, <2>8
<1>5. CASE CollectOther /\ identified
  BY <1>1, <1>5, StillAccounts DEF CollectOther
<1>6. CASE CollectOther /\ ~identified
  <2> DEFINE u == [id |-> current', query |-> 0, keep |-> FALSE,
                   answer |-> Head(readen).query]
  <2>1. /\ current' = current + 1 /\ TakeFromPool /\ UNCHANGED pending
        /\ done' = done \cup {u}
    BY <1>6 DEF CollectOther
  <2>2. u.id = current' /\ current \in Nat
    BY <1>2, Counts
  <2> HIDE DEF u
  <2>3. \A t \in pending \cup done : t.id \in Nat /\ t.id <= current
    BY <1>2 DEF Accounts, Ids, Transaction
  <2>4. u \notin done
    BY <2>1, <2>2, <2>3
  <2>5. Cardinality(done') = Cardinality(done) + 1
    BY <1>2, <2>1, <2>4, FS_AddElement DEF Types
  <2>6. TransactionsConserved'
    BY <1>1, <1>2, <2>1, <2>5, Counts DEF Accounts, TransactionsConserved, TakeFromPool
  <2>7. \A i \in Held : calls[i].t.id \in Nat /\ calls[i].t.id <= current
    BY <1>2, <1>6, HeldIds DEF Accounts, Ids, HeldApart
  <2>8. HeldApart
    BY <1>6 DEF Accounts, Ids
  <2>9. HeldApart'
    BY <1>1, <2>1, <2>2, <2>3, <2>7, <2>8 DEF HeldApart
  <2>10. Ids'
    BY <1>1, <2>1, <2>2, <2>3, <2>9 DEF Accounts, Ids
  <2> QED BY <2>6, <2>10
<1> QED BY <1>4, <1>5, <1>6

(* Every step keeps the accounts. *)
LEMMA AccountsKept ==
  ASSUME Accounts, [Next]_vars
  PROVE  Accounts'
<1> USE DEF port, timers, transactions
<1>1. Types' /\ Closing'
  BY TypeKept, ClosingKept DEF Accounts
<1>2. Types /\ calls \in Seq(Call) /\ Top.t \in Transaction
  BY TopType DEF Accounts, Types, TypeOK
<1>3. Cardinality({}) = 0
  BY FS_EmptySet
<1>4. CASE ThreadNext \/ NoFrame \/ Collect \/ Connected \/ UNCHANGED vars
  <2>1. UNCHANGED <<identified, transactions, calls>>
    BY <1>4 DEF ThreadNext, Write, Answer, Ignore, Unasked, ThreadsStopped, NoFrame, Collect,
                Connected, vars
  <2>2. Held' = Held
    BY <2>1 DEF Held
  <2> QED BY <1>1, <2>1, <2>2, StillAccounts DEF Accounts
<1>5. CASE Start
  <2>1. calls = <<>> /\ calls' = <<>> /\ UNCHANGED <<identified, allocated, pooled>>
    BY <1>5 DEF Start
  <2>2. pending = {} /\ done = {} /\ pending' = {} /\ done' = {}
    BY <1>5 DEF Start, IsClosed, Accounts, Closing
  <2>3. Held = {} /\ Held' = {}
    BY <2>1 DEF Held
  <2>4. Ids'
    BY <2>2, <2>3 DEF Ids, HeldApart
  <2>5. TransactionsConserved'
    BY <2>1, <2>2, <2>3 DEF Accounts, TransactionsConserved
  <2> QED BY <1>1, <2>4, <2>5 DEF Accounts
<1>6. CASE Query(TRUE) \/ Query(FALSE)
  BY <1>1, <1>6, QueryAccounts DEF Accounts
<1>7. CASE TakeFrame
  <2>1. GoOn("slot", Top.t) /\ "slot" \in Phases /\ UNCHANGED <<identified, transactions>>
    BY <1>7 DEF TakeFrame, Phases
  <2>2. calls # <<>> /\ Top.phase = "frame" /\ Top = calls[Len(calls)]
    BY <1>2, <1>7, TopType DEF TakeFrame, Top
  <2>3. /\ Held' = Held /\ calls'[Len(calls)].t = Top.t
        /\ \A i \in Held : i # Len(calls) => calls'[i] = calls[i]
    BY <1>2, <2>1, <2>2, HeldGoesOn
  <2>4. \A i \in Held' : calls'[i].t = calls[i].t
    BY <2>2, <2>3
  <2> QED BY <1>1, <2>1, <2>3, <2>4, StillAccounts DEF Accounts
<1>8. CASE Send
  BY <1>1, <1>8, SendAccounts DEF Accounts
<1>9. CASE SendFails
  <2>1. /\ Return /\ Top.phase \in {"frame", "slot"} /\ pooled' = pooled + 1
        /\ UNCHANGED <<identified, current, allocated, pending, done>>
    BY <1>9 DEF SendFails
  <2>2. calls # <<>>
    BY <1>2, <2>1, TopType
  <2>3. /\ Held' = Held \ {Len(calls)} /\ Len(calls) \in Held
        /\ \A i \in Held' : calls'[i] = calls[i]
    BY <1>2, <2>1, <2>2, HeldReturned
  <2>4. Cardinality(Held') = Cardinality(Held) - 1
    BY <1>2, <2>3, Counts, FS_RemoveElement
  <2>5. TransactionsConserved'
    BY <1>2, <2>1, <2>4, Counts DEF Accounts, TransactionsConserved
  <2>6. Ids'
    BY <2>1, <2>3, IdsLess DEF Accounts
  <2> QED BY <1>1, <2>5, <2>6 DEF Accounts
<1>10. CASE TakeReply
  <2>1. /\ Return /\ Top.phase = "reply"
        /\ UNCHANGED <<identified, current, allocated, pending>>
    BY <1>10 DEF TakeReply
  <2>2. PICK t \in done : done' = done \ {t} /\ pooled' = pooled + 1
    BY <1>10 DEF TakeReply
  <2>3. calls # <<>>
    BY <1>2, <2>1, TopType
  <2>4. Held' = Held /\ \A i \in Held' : calls'[i] = calls[i]
    BY <1>2, <2>1, <2>3, HeldReturned
  <2>5. Cardinality(done') = Cardinality(done) - 1
    BY <1>2, <2>2, FS_RemoveElement DEF Types
  <2>6. TransactionsConserved'
    BY <1>2, <2>1, <2>2, <2>4, <2>5, Counts DEF Accounts, TransactionsConserved
  <2>7. Ids'
    BY <2>1, <2>2, <2>4, IdsLess DEF Accounts
  <2> QED BY <1>1, <2>6, <2>7 DEF Accounts
<1>11. CASE WaitFails \/ WaitTimesOut
  <2>1. Return /\ Top.phase = "reply" /\ UNCHANGED <<identified, transactions>>
    BY <1>11 DEF WaitFails, WaitTimesOut
  <2>2. calls # <<>>
    BY <1>2, <2>1, TopType
  <2>3. Held' = Held /\ \A i \in Held' : calls'[i] = calls[i]
    BY <1>2, <2>1, <2>2, HeldReturned
  <2> QED BY <1>1, <2>1, <2>3, StillAccounts DEF Accounts
<1>12. CASE ReadenFrames
  <2>1. /\ done' = {} /\ pooled' = pooled + Cardinality(done)
        /\ UNCHANGED <<identified, current, allocated, pending, calls>>
    BY <1>12 DEF ReadenFrames
  <2>2. Held' = Held
    BY <2>1 DEF Held
  <2>3. TransactionsConserved'
    BY <1>2, <1>3, <2>1, <2>2, Counts DEF Accounts, TransactionsConserved
  <2>4. Ids'
    BY <2>1, <2>2, IdsLess DEF Accounts
  <2> QED BY <1>1, <2>3, <2>4 DEF Accounts
<1>13. CASE Stop
  <2> DEFINE c == [phase |-> "stop", t |-> NoTransaction]
  <2>1. calls' = Append(calls, c) /\ UNCHANGED <<identified, transactions>>
    BY <1>13 DEF Stop
  <2>2. c \in Call /\ c.phase = "stop"
    BY DEF Call, Phases, NoTransaction, Transaction
  <2> HIDE DEF c
  <2>3. Held' = Held /\ \A i \in Held : calls'[i] = calls[i]
    BY <1>2, <2>1, <2>2, HeldCalled
  <2> QED BY <1>1, <2>1, <2>3, StillAccounts DEF Accounts
<1>14. CASE StopReturns
  <2>1. Return /\ Top.phase = "stop" /\ FlushTransactions /\ UNCHANGED identified
    BY <1>14 DEF StopReturns
  <2>2. calls # <<>>
    BY <1>2, <2>1, TopType
  <2>3. Held' = Held /\ \A i \in Held' : calls'[i] = calls[i]
    BY <1>2, <2>1, <2>2, HeldReturned
  <2> QED BY <1>1, <2>1, <2>3, FlushAccounts DEF Accounts
<1>15. CASE CollectAnswer \/ CollectOther
  BY <1>1, <1>15, CollectAccounts DEF Accounts
<1>16. CASE CollectEnds
  <2> DEFINE kept == {t \in done : t.keep}
  <2>1. /\ done' = kept /\ pooled' = pooled + Cardinality(done \ kept)
        /\ UNCHANGED <<identified, current, allocated, pending, calls>>
    BY <1>16 DEF CollectEnds
  <2>2. /\ IsFiniteSet(kept) /\ IsFiniteSet(done \ kept) /\ kept \subseteq done
    BY <1>2, FS_Subset DEF Types
  <2> HIDE DEF kept
  <2>3. Cardinality(done) = Cardinality(kept) + Cardinality(done \ kept)
    <3>1. kept \cup (done \ kept) = done /\ kept \cap (done \ kept) = {}
      BY <2>2
    <3>2. Cardinality(kept) \in Nat /\ Cardinality(done \ kept) \in Nat
      BY <2>2, FS_CardinalityType
    <3>3. Cardinality(kept \cup (done \ kept)) =
            Cardinality(kept) + Cardinality(done \ kept) - Cardinality(kept \cap (done \ kept))
      BY <2>2, FS_Union
    <3>4. Cardinality(done) = Cardinality(kept) + Cardinality(done \ kept) - 0
      BY <1>3, <3>1, <3>3, Zenon
    <3> QED BY <3>2, <3>4
  <2>4. Cardinality(kept) \in Nat /\ Cardinality(done \ kept) \in Nat
    BY <2>2, FS_CardinalityType
  <2>5. Held' = Held
    BY <2>1 DEF Held
  <2>6. TransactionsConserved'
    BY <1>2, <2>1, <2>3, <2>4, <2>5, Counts DEF Accounts, TransactionsConserved
  <2>7. Ids'
    BY <2>1, <2>2, <2>5, IdsLess DEF Accounts
  <2> QED BY <1>1, <2>6, <2>7 DEF Accounts
<1>17. CASE Timeout
  <2>1. FlushTransactions /\ UNCHANGED <<identified, calls>>
    BY <1>17 DEF Timeout
  <2>2. Held' = Held
    BY <2>1 DEF Held
  <2> QED BY <1>1, <2>1, <2>2, FlushAccounts DEF Accounts
<1>18. CASE Error
  <2>1. /\ UNCHANGED <<identified, calls>>
        /\ FlushTransactions \/ FlushPending \/ UNCHANGED transactions
    BY <1>18 DEF Error, Errors, OnThreadsErrorOccured
  <2>2. Held' = Held
    BY <2>1 DEF Held
  <2> QED BY <1>1, <2>1, <2>2, FlushAccounts, StillAccounts DEF Accounts
<1> QED
  BY <1>4, <1>5, <1>6, <1>7, <1>8, <1>9, <1>10, <1>11, <1>12, <1>13, <1>14, <1>15, <1>16,
     <1>17, <1>18
  DEF Next, CallNext, SlotNext

(* No transaction is in use before the first one is. *)
LEMMA InitAccounts ==
  ASSUME Init
  PROVE  Accounts
<1>1. Types
  BY InitType
<1>2. Held = {}
  BY DEF Init, Held
<1>3. Cardinality({}) = 0
  BY FS_EmptySet
<1>4. TransactionsConserved
  BY <1>2, <1>3 DEF Init, TransactionsConserved
<1>5. Ids /\ Closing
  BY <1>2 DEF Init, Ids, HeldApart, Closing
<1> QED BY <1>1, <1>4, <1>5 DEF Accounts

(* TransactionsConserved: no transaction is lost and none is restored      *)
(* twice, whatever calls, replies, errors and timeouts come in the middle  *)
(* of each other.                                                          *)
THEOREM Conservation == Spec => []TransactionsConserved
<1>1. Init => Accounts
  BY InitAccounts
<1>2. Accounts /\ [Next]_vars => Accounts'
  BY AccountsKept
<1>3. Accounts => TransactionsConserved
  BY DEF Accounts
<1> QED BY <1>1, <1>2, <1>3, PTL DEF Spec

-----------------------------------------------------------------------------
(* Transactions kept for a reply, and the identifiers that calls wait for. *)
Kept == {t \in pending \cup done : t.keep}
Awaited == {calls[i].t.id : i \in {j \in DOMAIN calls : calls[j].phase = "reply"}}

(* A wait gives up only when nothing is kept: after a timeout, or in a     *)
(* state that an error that flushes the transactions leads to.             *)
KeptAwaited ==
  /\ \A t, u \in done : t.id = u.id => t = u
  /\ state \notin {"Starting", "Connecting"}
  /\ identified => state # "PortReady"
  /\ state \in RunningStates => \A t \in Kept : t.id \in Awaited
  /\ timedOut \/ state = "Disconnected" => Kept = {}

(* The inductive invariant. *)
Waits == Accounts /\ KeptAwaited

(* Nobody waits for less when a call is made. *)
LEMMA AwaitedCalled ==
  ASSUME calls \in Seq(Call), NEW c \in Call, calls' = Append(calls, c)
  PROVE  Awaited \subseteq Awaited'
<1>1. /\ DOMAIN calls = 1 .. Len(calls) /\ DOMAIN calls' = 1 .. Len(calls) + 1
      /\ Len(calls) \in Nat
      /\ \A i \in 1 .. Len(calls) : calls'[i] = calls[i]
  BY CallType
<1>2. \A i \in DOMAIN calls : i \in DOMAIN calls' /\ calls'[i] = calls[i]
  BY <1>1
<1> QED BY <1>2 DEF Awaited

(* When a call returns nobody waits for the reply it waited for. *)
LEMMA AwaitedReturned ==
  ASSUME calls \in Seq(Call), calls # <<>>, Return
  PROVE  \A x \in Awaited : x \in Awaited' \/ (Top.phase = "reply" /\ x = Top.t.id)
<1>1. /\ DOMAIN calls = 1 .. Len(calls) /\ DOMAIN calls' = 1 .. Len(calls) - 1
      /\ Len(calls) \in Nat
      /\ \A i \in 1 .. Len(calls) - 1 : calls'[i] = calls[i]
  BY ReturnType
<1>2. Top = calls[Len(calls)]
  BY DEF Top
<1>3. \A i \in DOMAIN calls : i = Len(calls) \/ (i \in DOMAIN calls' /\ calls'[i] = calls[i])
  BY <1>1
<1> QED BY <1>2, <1>3 DEF Awaited

(* A sendData() that goes on, to wait for the reply in the end. *)
LEMMA AwaitedGoesOn ==
  ASSUME calls \in Seq(Call), calls # <<>>, Top.phase # "reply",
         NEW phase \in Phases, NEW t \in Transaction, GoOn(phase, t)
  PROVE  /\ Awaited \subseteq Awaited'
         /\ phase = "reply" => t.id \in Awaited'
<1>1. /\ DOMAIN calls = 1 .. Len(calls) /\ DOMAIN calls' = 1 .. Len(calls)
      /\ Len(calls) \in 1 .. Len(calls)
      /\ \A i \in 1 .. Len(calls) :
           calls'[i] = IF i = Len(calls) THEN [phase |-> phase, t |-> t] ELSE calls[i]
  BY GoOnType, TopType
<1>2. Top = calls[Len(calls)]
  BY DEF Top
<1>3. \A i \in DOMAIN calls : i = Len(calls) \/ (i \in DOMAIN calls' /\ calls'[i] = calls[i])
  BY <1>1
<1>4. /\ Len(calls) \in DOMAIN calls'
      /\ calls'[Len(calls)].phase = phase /\ calls'[Len(calls)].t = t
  <2>1. Len(calls) \in DOMAIN calls' /\ calls'[Len(calls)] = [phase |-> phase, t |-> t]
    BY <1>1
  <2> QED BY <2>1
<1>5. Awaited \subseteq Awaited'
  BY <1>2, <1>3 DEF Awaited
<1> QED BY <1>4, <1>5 DEF Awaited

(* A step that keeps no new transaction, with as many waits as before. *)
LEMMA KeepsLess ==
  ASSUME KeptAwaited, UNCHANGED <<identified, state>>, timedOut' => timedOut,
         pending' \subseteq pending, done' \subseteq done, Awaited \subseteq Awaited'
  PROVE  KeptAwaited'
<1>1. Kept' \subseteq Kept
  BY DEF Kept
<1> QED BY <1>1 DEF KeptAwaited

(* A step that restores all transactions. *)
LEMMA KeepsNothing ==
  ASSUME KeptAwaited, UNCHANGED identified, pending' = {}, done' = {},
         state' \notin {"Starting", "Connecting"},
         identified => state' # "PortReady"
  PROVE  KeptAwaited'
<1>1. Kept' = {}
  BY DEF Kept
<1> QED BY <1>1 DEF KeptAwaited

(* A step of the machine that keeps the transactions. *)
LEMMA KeepsOn ==
  ASSUME KeptAwaited, UNCHANGED identified, timedOut' => timedOut,
         pending' \subseteq pending, done' \subseteq done, Awaited \subseteq Awaited',
         state' \notin {"Starting", "Connecting"},
         identified => state' # "PortReady",
         state' \in RunningStates => state \in RunningStates,
         state' = "Disconnected" => state = "Disconnected"
  PROVE  KeptAwaited'
<1>1. Kept' \subseteq Kept
  BY DEF Kept
<1> QED BY <1>1 DEF KeptAwaited

(* sendData() makes its transaction pending, and waits for it if it is to  *)
(* be kept.                                                                *)
LEMMA SendKeeps ==
  ASSUME Waits, Send
  PROVE  KeptAwaited'
<1> DEFINE t == [Top.t EXCEPT !.id = IF identified THEN current' ELSE @]
<1>1. /\ pending' = {u \in pending : u.id # t.id} \cup {t}
      /\ IF t.keep THEN GoOn("reply", t) /\ timer' = TRUE /\ timedOut' = FALSE
                   ELSE Return /\ UNCHANGED timers
      /\ UNCHANGED <<identified, state, done>>
      /\ Top.phase = "slot" /\ IsReady
  BY DEF Send
<1>2. /\ calls \in Seq(Call) /\ "reply" \in Phases /\ current \in Nat
      /\ current' \in Nat
  BY DEF Waits, Accounts, Types, TypeOK, Phases, Send
<1>3. calls # <<>> /\ Top.t \in Transaction
  BY <1>1, <1>2, TopType
<1>4. t \in Transaction
  BY <1>2, <1>3 DEF Transaction
<1> HIDE DEF t
<1>5. Kept' \subseteq Kept \cup {t} /\ (~t.keep => Kept' \subseteq Kept)
  BY <1>1 DEF Kept
<1>6. Awaited \subseteq Awaited' /\ (t.keep => t.id \in Awaited')
  BY <1>1, <1>2, <1>3, <1>4, AwaitedGoesOn, AwaitedReturned
<1>7. state' # "Disconnected"
  BY <1>1 DEF IsReady, ReadyStates
<1>8. timedOut' => timedOut /\ ~t.keep
  BY <1>1 DEF timers
<1> QED BY <1>1, <1>5, <1>6, <1>7, <1>8 DEF Waits, KeptAwaited

(* A frame is collected: the transaction it answers keeps its identifier.  *)
LEMMA CollectKeeps ==
  ASSUME Waits, CollectAnswer \/ CollectOther
  PROVE  KeptAwaited'
<1>1. UNCHANGED <<identified, state, calls, timedOut>> /\ Awaited' = Awaited
  BY DEF CollectAnswer, CollectOther, timers, Awaited
<1>2. /\ pending \subseteq Transaction /\ done \subseteq Transaction /\ current \in Nat
  BY DEF Waits, Accounts, Types, TypeOK
<1>3. CASE CollectAnswer
  <2>1. PICK t \in pending :
          /\ pending' = pending \ {t}
          /\ done' = done \cup {[t EXCEPT !.answer = Head(readen).query]}
    BY <1>3 DEF CollectAnswer
  <2>2. PICK u : u = [t EXCEPT !.answer = Head(readen).query]
    OBVIOUS
  <2>3. u.id = t.id /\ u.keep = t.keep
    BY <1>2, <2>2 DEF Transaction
  <2>4. done' = done \cup {u}
    BY <2>1, <2>2
  <2>5. \A x \in done : x.id # u.id
    BY <2>3 DEF Waits, Accounts, Ids
  <2>6. \A x, y \in done' : x.id = y.id => x = y
    BY <2>4, <2>5 DEF Waits, KeptAwaited
  <2>7. \A x \in Kept' : \E y \in Kept : y.id = x.id
    BY <2>1, <2>3, <2>4 DEF Kept
  <2> QED BY <1>1, <2>6, <2>7 DEF Waits, KeptAwaited
<1>4. CASE CollectOther /\ identified
  <2>1. UNCHANGED <<pending, done>>
    BY <1>4 DEF CollectOther, transactions
  <2> QED BY <1>1, <2>1, KeepsLess DEF Waits
<1>5. CASE CollectOther /\ ~identified
  <2>1. PICK u : u = [id |-> current', query |-> 0, keep |-> FALSE,
                      answer |-> Head(readen).query]
    OBVIOUS
  <2>2. u.id = current + 1 /\ ~u.keep /\ done' = done \cup {u} /\ UNCHANGED pending
    BY <1>5, <2>1 DEF CollectOther
  <2>3. \A x \in done : x.id \in Nat /\ x.id <= current
    BY <1>2 DEF Waits, Accounts, Ids, Transaction
  <2>4. \A x \in done : x.id # u.id
    BY <1>2, <2>2, <2>3
  <2>5. \A x, y \in done' : x.id = y.id => x = y
    BY <2>2, <2>4 DEF Waits, KeptAwaited
  <2>6. Kept' = Kept
    BY <2>2 DEF Kept
  <2> QED BY <1>1, <2>5, <2>6 DEF Waits, KeptAwaited
<1> QED BY <1>3, <1>4, <1>5

(* The calls that wait for a reply return: with it, or when nothing is     *)
(* kept.                                                                   *)
LEMMA WaitKeeps ==
  ASSUME Waits, TakeReply \/ WaitFails \/ WaitTimesOut
  PROVE  KeptAwaited'
<1>1. /\ Return /\ Top.phase = "reply" /\ UNCHANGED <<identified, state, pending>>
      /\ timedOut' => timedOut
      /\ done' \subseteq done
  BY DEF TakeReply, WaitFails, WaitTimesOut, timers, transactions
<1>2. calls \in Seq(Call)
  BY DEF Waits, Accounts, Types, TypeOK
<1>3. calls # <<>>
  BY <1>1, <1>2, TopType
<1>4. \A x \in Awaited : x \in Awaited' \/ x = Top.t.id
  BY <1>1, <1>2, <1>3, AwaitedReturned
<1>5. Kept' \subseteq Kept
  BY <1>1 DEF Kept
<1>6. CASE TakeReply
  <2>1. PICK t \in done : t.id = Top.t.id /\ done' = done \ {t}
    BY <1>6 DEF TakeReply
  <2>2. \A u \in Kept' : u.id # t.id
    BY <1>1, <2>1 DEF Waits, Accounts, Ids, KeptAwaited, Kept
  <2> QED BY <1>1, <1>4, <1>5, <2>1, <2>2 DEF Waits, KeptAwaited
<1>7. CASE WaitFails
  <2>1. ~IsReady /\ state # "Connected_Busy"
    BY <1>7 DEF WaitFails
  <2>2. state \in RunningStates => state = "Disconnected"
    BY <2>1 DEF Waits, KeptAwaited, IsReady, ReadyStates, RunningStates
  <2> QED BY <1>1, <1>5, <2>2 DEF Waits, KeptAwaited
<1>8. CASE WaitTimesOut
  <2>1. timedOut
    BY <1>8 DEF WaitTimesOut
  <2> QED BY <1>1, <1>5, <2>1 DEF Waits, KeptAwaited
<1> QED BY <1>6, <1>7, <1>8

(* An error: one that leads to a state where no call waits restores all    *)
(* transactions.                                                           *)
LEMMA ErrorKeeps ==
  ASSUME Waits, Error
  PROVE  KeptAwaited'
<1>1. PICK error \in Errors : OnThreadsErrorOccured(error)
  BY DEF Error
<1>2. /\ UNCHANGED <<identified, calls>> /\ Awaited' = Awaited
      /\ state \in RunningStates \cup {"Stopping"}
      /\ state # "Connecting" /\ (identified => state # "PortReady")
  BY DEF Error, Awaited, ThreadsAlive, Waits, KeptAwaited
<1>3. state' = React(state, EventOfError(error))
  BY <1>1 DEF OnThreadsErrorOccured, Emit
<1>4. error \in {"NoError", "ReadPoolEmpty", "ReadTimeout", "UnhandledError",
                 "WriteCanceled", "Disconnected"}
  BY DEF Errors
<1>5. /\ state' \notin {"Starting", "Connecting"}
      /\ identified => state' # "PortReady"
      /\ state' = "Disconnected" => state = "Disconnected" \/ error = "Disconnected"
      /\ state' \in RunningStates => state \in RunningStates
  BY <1>2, <1>3, <1>4 DEF React, EventOfError, RunningStates
<1>6. CASE error \in {"Disconnected", "UnhandledError", "ReadTimeout"}
  <2>1. FlushTransactions
    BY <1>1, <1>6 DEF OnThreadsErrorOccured
  <2> QED BY <1>2, <1>5, <2>1, KeepsNothing DEF FlushTransactions, Waits
<1>7. CASE error \notin {"Disconnected", "UnhandledError", "ReadTimeout"}
  <2>1. pending' \subseteq pending /\ UNCHANGED <<done, timedOut>>
    BY <1>1, <1>4, <1>7 DEF OnThreadsErrorOccured, FlushPending, transactions
  <2>2. state' = "Disconnected" => state = "Disconnected"
    BY <1>5, <1>7
  <2> QED BY <1>2, <1>5, <2>1, <2>2, KeepsOn DEF Waits
<1> QED BY <1>6, <1>7

(* Every step keeps the invariant. *)
LEMMA WaitsKept ==
  ASSUME Waits, [Next]_vars
  PROVE  Waits'
<1> USE DEF port, timers, transactions
<1>1. Accounts'
  BY AccountsKept DEF Waits
<1>2. calls \in Seq(Call) /\ Top.t \in Transaction /\ KeptAwaited
  BY TopType DEF Waits, Accounts, Types, TypeOK
<1>3. CASE \/ Write \/ Answer \/ Ignore \/ Unasked \/ NoFrame \/ Collect \/ CollectEnds
           \/ ReadenFrames \/ UNCHANGED vars
  <2>1. /\ UNCHANGED <<identified, state, timedOut, pending, calls>>
        /\ done' \subseteq done
    BY <1>3 DEF Write, Answer, Ignore, Unasked, NoFrame, Collect, CollectEnds, ReadenFrames,
                vars
  <2>2. Awaited' = Awaited
    BY <2>1 DEF Awaited
  <2> QED BY <1>1, <1>2, <2>1, <2>2, KeepsLess DEF Waits
<1>4. CASE ThreadsStopped \/ Connected
  <2>1. UNCHANGED <<identified, timedOut, pending, done, calls>>
    BY <1>4 DEF ThreadsStopped, Connected
  <2>2. \/ state' = "Stopped"
        \/ state' = "Connected_Ready" /\ state = "Disconnected"
    BY <1>4 DEF ThreadsStopped, Connected, Emit, React, RunningStates
  <2>3. Awaited' = Awaited
    BY <2>1 DEF Awaited
  <2>4. state' \in RunningStates => state \in RunningStates
    BY <2>2 DEF RunningStates
  <2> QED BY <1>1, <1>2, <2>1, <2>2, <2>3, <2>4, KeepsOn DEF Waits
<1>5. CASE Start
  <2>1. pending' = {} /\ done' = {} /\ UNCHANGED identified
    BY <1>5 DEF Start, IsClosed, Waits, Accounts, Closing
  <2>2. state' = IF identified THEN "Connected_Ready" ELSE "PortReady"
    BY <1>5 DEF Start
  <2> QED BY <1>1, <1>2, <2>1, <2>2, KeepsNothing DEF Waits
<1>6. ASSUME NEW keep \in BOOLEAN, Query(keep) PROVE Waits'
  <2>1. UNCHANGED <<identified, state, timedOut, pending, done>>
    BY <1>6 DEF Query
  <2>2. PICK c : calls' = Append(calls, c)
    BY <1>6 DEF Query
  <2>3. calls' \in Seq(Call)
    BY <1>1 DEF Accounts, Types, TypeOK
  <2>4. c \in Call
    <3>1. calls'[Len(calls) + 1] = c /\ Len(calls) + 1 \in DOMAIN calls'
      BY <1>2, <2>2
    <3> QED BY <2>3, <3>1
  <2>5. Awaited \subseteq Awaited'
    BY <1>2, <2>2, <2>4, AwaitedCalled
  <2> QED BY <1>1, <1>2, <2>1, <2>5, KeepsLess DEF Waits
<1>7. CASE TakeFrame
  <2>1. GoOn("slot", Top.t) /\ "slot" \in Phases /\ Top.phase = "frame"
    BY <1>7 DEF TakeFrame, Phases
  <2>2. calls # <<>>
    BY <1>2, <2>1, TopType
  <2>3. Awaited \subseteq Awaited'
    BY <1>2, <2>1, <2>2, AwaitedGoesOn
  <2>4. UNCHANGED <<identified, state, timedOut, pending, done>>
    BY <1>7 DEF TakeFrame
  <2> QED BY <1>1, <1>2, <2>3, <2>4, KeepsLess DEF Waits
<1>8. CASE Send
  BY <1>1, <1>8, SendKeeps DEF Waits
<1>9. CASE SendFails
  <2>1. Return /\ Top.phase \in {"frame", "slot"}
        /\ UNCHANGED <<identified, state, timedOut, pending, done>>
    BY <1>9 DEF SendFails
  <2>2. calls # <<>>
    BY <1>2, <2>1, TopType
  <2>3. Awaited \subseteq Awaited'
    BY <1>2, <2>1, <2>2, AwaitedReturned
  <2> QED BY <1>1, <1>2, <2>1, <2>3, KeepsLess DEF Waits
<1>10. CASE TakeReply \/ WaitFails \/ WaitTimesOut
  BY <1>1, <1>10, WaitKeeps DEF Waits
<1>11. CASE Stop
  <2>1. /\ calls' = Append(calls, [phase |-> "stop", t |-> NoTransaction])
        /\ UNCHANGED <<identified, pending, done>> /\ ~timedOut'
    BY <1>11 DEF Stop
  <2>2. [phase |-> "stop", t |-> NoTransaction] \in Call
    BY DEF Call, Phases, NoTransaction, Transaction
  <2>3. Awaited \subseteq Awaited'
    BY <1>2, <2>1, <2>2, AwaitedCalled
  <2>4. state' = IF state \in RunningStates THEN "Stopping" ELSE state
    BY <1>11 DEF Stop, Emit, React, RunningStates
  <2>5. /\ state' \notin {"Starting", "Connecting"}
        /\ identified => state' # "PortReady"
        /\ state' \in RunningStates => state \in RunningStates
        /\ state' = "Disconnected" => state = "Disconnected"
    BY <1>2, <2>4 DEF KeptAwaited, RunningStates
  <2> QED BY <1>1, <1>2, <2>1, <2>3, <2>5, KeepsOn DEF Waits
<1>12. CASE StopReturns
  <2>1. FlushTransactions /\ UNCHANGED identified /\ state' = "PortClosed"
    BY <1>12 DEF StopReturns, Emit, React, RunningStates
  <2> QED BY <1>1, <1>2, <2>1, KeepsNothing DEF Waits, FlushTransactions
<1>13. CASE CollectAnswer \/ CollectOther
  BY <1>1, <1>13, CollectKeeps DEF Waits
<1>14. CASE Timeout
  <2>1. FlushTransactions /\ UNCHANGED <<identified, state>>
    BY <1>14 DEF Timeout
  <2>2. state' \notin {"Starting", "Connecting"} /\ (identified => state' # "PortReady")
    BY <1>2, <2>1 DEF KeptAwaited
  <2> QED BY <1>1, <1>2, <2>1, <2>2, KeepsNothing DEF Waits, FlushTransactions
<1>15. CASE Error
  BY <1>1, <1>15, ErrorKeeps DEF Waits
<1> QED
  BY <1>3, <1>4, <1>5, <1>6, <1>7, <1>8, <1>9, <1>10, <1>11, <1>12, <1>13, <1>14, <1>15
  DEF Next, ThreadNext, CallNext, SlotNext

(* NoOrphans: while the port runs, a transaction that is kept for a reply  *)
(* has a call that waits for it, so that each is restored in the end,      *)
(* though waits give up, time out and nest.                                *)
THEOREM KeptAreAwaited == Spec => []NoOrphans
<1>1. Init => Waits
  <2> SUFFICES ASSUME Init
               PROVE  Waits
    OBVIOUS
  <2>1. Accounts
    BY InitAccounts
  <2>2. KeptAwaited
    BY DEF Init, KeptAwaited, Kept, RunningStates
  <2> QED BY <2>1, <2>2 DEF Waits
<1>2. Waits /\ [Next]_vars => Waits'
  BY WaitsKept
<1>3. ASSUME Waits PROVE NoOrphans
  <2> SUFFICES ASSUME state \in RunningStates, NEW t \in pending \cup done, t.keep
               PROVE  \E i \in DOMAIN calls :
                        calls[i].phase = "reply" /\ calls[i].t.id = t.id
    BY DEF NoOrphans
  <2>1. t.id \in Awaited
    BY <1>3 DEF Waits, KeptAwaited, Kept
  <2> QED BY <2>1 DEF Awaited
<1> QED BY <1>1, <1>2, <1>3, PTL DEF Spec
=============================================================================
