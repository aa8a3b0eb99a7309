---------------------------- MODULE PortTransactions ----------------------------
(***************************************************************************)
(* The transactions of a port manager: sendData(), waitTransactionDone()   *)
(* and readenFrame() of mdtPortManager and of mdtModbusTcpPortManager,     *)
(* which run the event loop while they wait, so that replies, errors,      *)
(* timeouts, stop() and other queries come in the middle of them.          *)
(*                                                                         *)
(* The threads of the port are reduced to what they do to the queues, in   *)
(* one step each (ReadThread and WriteThread have the details), and the    *)
(* life of the threads to the states of the manager (PortLifecycle).       *)
(***************************************************************************)
EXTENDS PortManagerStates, Naturals, Sequences, FiniteSets

CONSTANTS QueueSize,  (* config().writeQueueSize(): frames to write, and most *)
                      (* transactions pending                                 *)
          MaxCalls,   (* bound: calls that wait at once                       *)
          MaxQueries  (* bound: queries sent and frames received unasked      *)

ASSUME TransactionAssumption ==
  /\ QueueSize \in Nat \ {0}
  /\ MaxCalls \in Nat
  /\ MaxQueries \in Nat

VARIABLES identified, (* frames carry an identifier: the Modbus/TCP manager   *)
          state,      (* the state of the state machine                       *)
          current,    (* pvCurrentTransactionId                               *)
          allocated,  (* pvTransactionsAllocatedCount                         *)
          pooled,     (* the size of pvTransactionsPool                       *)
          pending,    (* pvTransactionsPending                                *)
          done,       (* pvTransactionsDone (their order is not used)         *)
          timer,      (* pvTransactionTimer runs                              *)
          timedOut,   (* pvTransactionTimeoutOccured                          *)
          locked,     (* pvPortMutexLocked: the main thread has the mutex     *)
          calls,      (* calls in progress; the last one is the one that runs *)
          collecting, (* fromThreadNewFrameReaden() runs                      *)
          frames,     (* the size of the pool of frames to write              *)
          toWrite,    (* frames queued for the write thread                   *)
          wire,       (* frames sent, and not answered                        *)
          readen,     (* readen frames                                        *)
          signals,    (* newFrameReaden() posted to the main thread           *)
          queries     (* queries sent, and frames received unasked, so far    *)

transactions == <<current, allocated, pooled, pending, done>>
timers == <<timer, timedOut>>
port == <<frames, toWrite, wire, readen, signals>>
vars == <<identified, state, transactions, timers, locked, calls, collecting, port, queries>>

(* A query is known by its number; 0 is a frame that answers no query.      *)
(* answer is the query that the data received for a transaction answers.    *)
Transaction == [id : Nat, query : Nat, keep : BOOLEAN, answer : Nat]
Frame == [id : Nat, query : Nat]
Phases == {"frame", "slot", "reply", "stop"}
Call == [phase : Phases, t : Transaction]
NoTransaction == [id |-> 0, query |-> 0, keep |-> FALSE, answer |-> 0]

TypeOK ==
  /\ identified \in BOOLEAN
  /\ state \in ManagerStates
  /\ {current, allocated, pooled, frames, signals, queries} \subseteq Nat
  /\ pending \subseteq Transaction /\ done \subseteq Transaction
  /\ {timer, timedOut, locked, collecting} \subseteq BOOLEAN
  /\ calls \in Seq(Call)
  /\ {toWrite, wire, readen} \subseteq Seq(Frame)

Init ==
  /\ identified \in BOOLEAN
  /\ state = "PortClosed"
  /\ current = 0 /\ allocated = 0 /\ pooled = 0 /\ pending = {} /\ done = {}
  /\ timer = FALSE /\ timedOut = FALSE
  /\ locked = FALSE
  /\ calls = <<>> /\ collecting = FALSE
  /\ frames = 0 /\ toWrite = <<>> /\ wire = <<>> /\ readen = <<>> /\ signals = 0
  /\ queries = 0

-----------------------------------------------------------------------------
(* Pieces of the manager's code.                                           *)

(* isReady(), which the Modbus/TCP manager makes stricter, and isClosed(). *)
IsReady == state \in (IF identified THEN {"Connected_Ready"} ELSE ReadyStates)
IsClosed == state = "PortClosed"

(* The event loop, or a call that processes events while it waits, runs.   *)
Waiting == ~collecting
Top == IF calls = <<>> THEN [phase |-> "none", t |-> NoTransaction] ELSE calls[Len(calls)]
Return == calls' = SubSeq(calls, 1, Len(calls) - 1)
GoOn(phase, t) == calls' = [calls EXCEPT ![Len(calls)] = [phase |-> phase, t |-> t]]

(* Faulty variant: getNewTransaction() does not look whether the pool is empty. *)
TakeFromPoolUnchecked == pooled' = pooled - 1 /\ UNCHANGED allocated

(* getNewTransaction() *)
TakeFromPool ==
  IF pooled = 0 THEN allocated' = allocated + 1 /\ UNCHANGED pooled
                ELSE pooled' = pooled - 1 /\ UNCHANGED allocated

(* Faulty variant: only the transactions done are restored.                *)
FlushDone ==
  /\ pooled' = pooled + Cardinality(done)
  /\ done' = {}
  /\ UNCHANGED <<current, allocated, pending>>

(* flushTransactionsPending() and flushTransactionsDone() *)
FlushTransactions ==
  /\ pooled' = pooled + Cardinality(pending) + Cardinality(done)
  /\ pending' = {}
  /\ done' = {}
  /\ UNCHANGED <<current, allocated>>

FlushPending ==
  /\ pooled' = pooled + Cardinality(pending)
  /\ pending' = {}
  /\ UNCHANGED <<current, allocated, done>>

(* Emit a signal of the state machine.  Entering Stopping runs             *)
(* stopThreads(), which unlocks the mutex if the main thread has it.       *)
Emit(event) ==
  /\ state' = React(state, event)
  /\ locked' = IF state # "Stopping" /\ state' = "Stopping" THEN FALSE ELSE locked

-----------------------------------------------------------------------------
(* The threads and the device.  They need the mutex.                       *)

ThreadsAlive == state \in RunningStates \cup {"Stopping"}

(* The write thread sends a frame and gives it back to the pool. *)
Write ==
  /\ ThreadsAlive /\ ~locked
  /\ toWrite # <<>>
  /\ toWrite' = Tail(toWrite)
  /\ wire' = Append(wire, Head(toWrite))
  /\ frames' = frames + 1
  /\ UNCHANGED <<identified, state, transactions, timers, locked, calls, collecting,
                 readen, signals, queries>>

(* The device answers what it was sent first, at any time; the read thread *)
(* queues the frame and emits newFrameReaden().                            *)
Answer ==
  /\ ThreadsAlive /\ ~locked
  /\ wire # <<>>
  /\ wire' = Tail(wire)
  /\ readen' = Append(readen, Head(wire))
  /\ signals' = signals + 1
  /\ UNCHANGED <<identified, state, transactions, timers, locked, calls, collecting,
                 frames, toWrite, queries>>

(* The device does not answer. *)
Ignore ==
  /\ wire # <<>>
  /\ wire' = Tail(wire)
  /\ UNCHANGED <<identified, state, transactions, timers, locked, calls, collecting,
                 frames, toWrite, readen, signals, queries>>

(* The device sends something nobody asked for. *)
Unasked ==
  /\ ThreadsAlive /\ ~locked
  /\ queries < MaxQueries
  /\ readen' = Append(readen, [id |-> 0, query |-> 0])
  /\ signals' = signals + 1
  /\ queries' = queries + 1
  /\ UNCHANGED <<identified, state, transactions, timers, locked, calls, collecting,
                 frames, toWrite, wire>>

(* The threads have stopped; all they had posted was delivered before.     *)
ThreadsStopped ==
  /\ Waiting
  /\ state = "Stopping"
  /\ ~locked /\ signals = 0
  /\ Emit("AllThreadsStopped")
  /\ UNCHANGED <<identified, transactions, timers, calls, collecting, port, queries>>

-----------------------------------------------------------------------------
(* Calls of the application.                                               *)

(* start(): the port is set up with new queues, and the threads run.  The  *)
(* Modbus/TCP manager waits until it is connected.                         *)
Start ==
  /\ Waiting
  /\ calls = <<>>
  /\ IsClosed
  /\ state' = IF identified THEN "Connected_Ready" ELSE "PortReady"
  /\ current' = 0
  /\ timedOut' = FALSE
  /\ frames' = QueueSize
  /\ toWrite' = <<>> /\ wire' = <<>> /\ readen' = <<>>
  /\ UNCHANGED <<identified, allocated, pooled, pending, done, timer, locked, calls,
                 collecting, signals, queries>>

(* sendData() is called, alone or followed by waitTransactionDone() and    *)
(* readenFrame() (queryReplyMode).                                         *)
Query(keep) ==
  /\ Waiting
  /\ Len(calls) < MaxCalls
  /\ queries < MaxQueries
  /\ queries' = queries + 1
  /\ TakeFromPool
  /\ IF identified THEN UNCHANGED current ELSE current' = current + 1
  /\ calls' = Append(calls, [phase |-> "frame",
                             t |-> [id |-> IF identified THEN 0 ELSE current',
                                    query |-> queries', keep |-> keep, answer |-> 0]])
  /\ UNCHANGED <<identified, state, pending, done, timers, locked, collecting, port>>

(* sendData() takes a frame to write and keeps the mutex locked. *)
TakeFrame ==
  /\ Waiting
  /\ Top.phase = "frame"
  /\ IsReady
  /\ frames > 0
  /\ locked' = TRUE
  /\ frames' = frames - 1
  /\ GoOn("slot", Top.t)
  /\ UNCHANGED <<identified, state, transactions, timers, collecting, toWrite, wire, readen,
                 signals, queries>>

(* There is none: it unlocks the mutex and waits. *)
NoFrame ==
  /\ Waiting
  /\ Top.phase = "frame"
  /\ IsReady
  /\ frames = 0
  /\ locked
  /\ locked' = FALSE
  /\ UNCHANGED <<identified, state, transactions, timers, calls, collecting, port, queries>>

(* waitTransactionPossible() has returned true: the frame is queued and    *)
(* the transaction pending.  A query then starts waitTransactionDone().    *)
Send ==
  /\ Waiting
  /\ Top.phase = "slot"
  /\ IsReady
  /\ Cardinality(pending) < QueueSize
  /\ current' = IF identified THEN current + 1 ELSE current
  /\ LET t == [Top.t EXCEPT !.id = IF identified THEN current' ELSE @]
     IN  /\ toWrite' = Append(toWrite, [id |-> t.id, query |-> t.query])
         /\ pending' = {u \in pending : u.id # t.id} \cup {t}
         /\ IF t.keep THEN GoOn("reply", t) /\ timer' = TRUE /\ timedOut' = FALSE
                      ELSE Return /\ UNCHANGED timers
  /\ locked' = FALSE
  /\ UNCHANGED <<identified, state, allocated, pooled, done, collecting, frames, wire, readen,
                 signals, queries>>

(* Faulty variant: a sendData() that fails does not restore its transaction. *)
SendFailsLeaks ==
  /\ Waiting
  /\ Top.phase \in {"frame", "slot"}
  /\ IsClosed
  /\ locked' = IF Top.phase = "slot" THEN FALSE ELSE locked
  /\ Return
  /\ UNCHANGED <<identified, state, transactions, timers, collecting, port, queries>>

(* Faulty variant: waitTransactionPossible() does not look at isClosed().  *)
SendFailsEarly ==
  /\ Waiting
  /\ Top.phase = "frame"
  /\ IsClosed
  /\ pooled' = pooled + 1
  /\ Return
  /\ UNCHANGED <<identified, state, current, allocated, pending, done, timers, locked,
                 collecting, port, queries>>

(* sendData() finds the manager closed. *)
SendFails ==
  /\ Waiting
  /\ Top.phase \in {"frame", "slot"}
  /\ IsClosed
  /\ pooled' = pooled + 1
  /\ locked' = IF Top.phase = "slot" THEN FALSE ELSE locked
  /\ Return
  /\ UNCHANGED <<identified, state, current, allocated, pending, done, timers, collecting,
                 port, queries>>

(* waitTransactionDone() finds the transaction done; readenFrame() takes   *)
(* the reply.                                                              *)
TakeReply ==
  /\ Waiting
  /\ Top.phase = "reply"
  /\ \E t \in done :
       /\ t.id = Top.t.id
       /\ done' = done \ {t}
       /\ pooled' = pooled + 1
  /\ timer' = FALSE /\ timedOut' = FALSE
  /\ Return
  /\ UNCHANGED <<identified, state, current, allocated, pending, locked, collecting, port,
                 queries>>

NotDone == \A t \in done : t.id # Top.t.id

(* It finds the manager neither ready nor busy. *)
WaitFails ==
  /\ Waiting
  /\ Top.phase = "reply"
  /\ NotDone
  /\ ~IsReady /\ state # "Connected_Busy"
  /\ timer' = FALSE /\ timedOut' = FALSE
  /\ Return
  /\ UNCHANGED <<identified, state, transactions, locked, collecting, port, queries>>

(* It finds that a timeout has occurred. *)
WaitTimesOut ==
  /\ Waiting
  /\ Top.phase = "reply"
  /\ NotDone
  /\ IsReady \/ state = "Connected_Busy"
  /\ timedOut
  /\ Return
  /\ UNCHANGED <<identified, state, transactions, timers, locked, collecting, port, queries>>

(* readenFrames() takes all the replies there are. *)
ReadenFrames ==
  /\ Waiting
  /\ done # {}
  /\ done' = {}
  /\ pooled' = pooled + Cardinality(done)
  /\ UNCHANGED <<identified, state, current, allocated, pending, timers, locked, calls,
                 collecting, port, queries>>

(* stop() is called, when no other stop() waits. *)
Stop ==
  /\ Waiting
  /\ Len(calls) < MaxCalls
  /\ \A i \in DOMAIN calls : calls[i].phase # "stop"
  /\ ~IsClosed
  /\ timer' = FALSE /\ timedOut' = FALSE
  /\ Emit("StopThreads")
  /\ calls' = Append(calls, [phase |-> "stop", t |-> NoTransaction])
  /\ UNCHANGED <<identified, transactions, collecting, port, queries>>

(* stop() finds the threads stopped: it closes the port. *)
StopReturns ==
  /\ Waiting
  /\ Top.phase = "stop"
  /\ state = "Stopped"
  /\ FlushTransactions
  /\ Emit("PortClosed")
  /\ Return
  /\ UNCHANGED <<identified, timers, collecting, port, queries>>

-----------------------------------------------------------------------------
(* Slots run by the event loop.                                            *)

(* fromThreadNewFrameReaden() begins: it locks the mutex. *)
Collect ==
  /\ Waiting
  /\ signals > 0
  /\ signals' = signals - 1
  /\ locked' = TRUE
  /\ collecting' = TRUE
  /\ UNCHANGED <<identified, state, transactions, timers, calls, frames, toWrite, wire, readen,
                 queries>>

(* Faulty variant: the identifier of the frame is not looked at.           *)
AnsweredInTurn(t, frame) == t.id = current

(* A frame answers the pending transaction whose identifier it has, or,    *)
(* without identifiers, the current one.                                   *)
Answered(t, frame) == t.id = (IF identified THEN frame.id ELSE current)

CollectAnswer ==
  /\ collecting
  /\ readen # <<>>
  /\ \E t \in pending :
       /\ Answered(t, Head(readen))
       /\ pending' = pending \ {t}
       /\ done' = done \cup {[t EXCEPT !.answer = Head(readen).query]}
  /\ readen' = Tail(readen)
  /\ UNCHANGED <<identified, state, current, allocated, pooled, timers, locked, calls,
                 collecting, frames, toWrite, wire, signals, queries>>

(* A frame that answers no pending transaction is dropped with identifiers *)
(* and gets a transaction of its own without.                              *)
CollectOther ==
  /\ collecting
  /\ readen # <<>>
  /\ \A t \in pending : ~Answered(t, Head(readen))
  /\ IF identified
       THEN UNCHANGED transactions
       ELSE /\ current' = current + 1
            /\ TakeFromPool
            /\ done' = done \cup {[id |-> current', query |-> 0, keep |-> FALSE,
                                   answer |-> Head(readen).query]}
            /\ UNCHANGED pending
  /\ readen' = Tail(readen)
  /\ UNCHANGED <<identified, state, timers, locked, calls, collecting, frames, toWrite, wire,
                 signals, queries>>

(* Faulty variant: the mutex is not unlocked.                              *)
CollectEndsLocked ==
  /\ collecting
  /\ readen = <<>>
  /\ collecting' = FALSE
  /\ LET kept == {t \in done : t.keep}
     IN  done' = kept /\ pooled' = pooled + Cardinality(done \ kept)
  /\ UNCHANGED <<identified, state, current, allocated, pending, timers, locked, calls, port,
                 queries>>

(* The mutex is unlocked, and commitFrames() restores the transactions     *)
(* that nobody will ask for.                                               *)
CollectEnds ==
  /\ collecting
  /\ readen = <<>>
  /\ collecting' = FALSE
  /\ locked' = FALSE
  /\ LET kept == {t \in done : t.keep}
     IN  done' = kept /\ pooled' = pooled + Cardinality(done \ kept)
  /\ UNCHANGED <<identified, state, current, allocated, pending, timers, calls, port, queries>>

(* Faulty variant: the timeout flushes but does not tell the call that waits. *)
TimeoutUntold ==
  /\ Waiting
  /\ timer
  /\ timer' = FALSE
  /\ FlushTransactions
  /\ UNCHANGED <<identified, state, timedOut, locked, calls, collecting, port, queries>>

(* Faulty variant: the timeout does not flush the pending transactions.    *)
TimeoutKeepsPending ==
  /\ Waiting
  /\ timer
  /\ timer' = FALSE
  /\ timedOut' = TRUE
  /\ FlushDone
  /\ UNCHANGED <<identified, state, locked, calls, collecting, port, queries>>

(* onTransactionTimeoutOccured(), when the timer fires. *)
Timeout ==
  /\ Waiting
  /\ timer
  /\ timer' = FALSE
  /\ timedOut' = TRUE
  /\ FlushTransactions
  /\ UNCHANGED <<identified, state, locked, calls, collecting, port, queries>>

(* onThreadsErrorOccured(), and connected() of a socket thread.  A socket  *)
(* thread notifies Disconnected before it connects again.                  *)
OnThreadsErrorOccured(error) ==
  /\ Emit(EventOfError(error))
  /\ CASE error \in {"Disconnected", "ConnectionFailed", "ReadCanceled", "UnhandledError"} ->
            FlushTransactions /\ UNCHANGED timedOut
       [] error = "WriteCanceled" -> FlushPending /\ UNCHANGED timedOut
       [] error = "ReadTimeout" -> FlushTransactions /\ timedOut' = TRUE
       [] OTHER -> UNCHANGED <<transactions, timedOut>>

Errors ==
  {"NoError", "ReadPoolEmpty", "ReadTimeout", "UnhandledError", "WriteCanceled"}
    \cup IF identified THEN {"Disconnected"} ELSE {}

Error ==
  /\ Waiting
  /\ ThreadsAlive
  /\ \E error \in Errors : OnThreadsErrorOccured(error)
  /\ UNCHANGED <<identified, timer, calls, collecting, port, queries>>

Connected ==
  /\ Waiting
  /\ state = "Disconnected"
  /\ Emit("Connected")
  /\ UNCHANGED <<identified, transactions, timers, calls, collecting, port, queries>>

-----------------------------------------------------------------------------
ThreadNext == Write \/ Answer \/ Ignore \/ Unasked \/ ThreadsStopped

CallNext ==
  \/ Start \/ Query(TRUE) \/ Query(FALSE) \/ TakeFrame \/ NoFrame \/ Send \/ SendFails
  \/ TakeReply \/ WaitFails \/ WaitTimesOut \/ ReadenFrames \/ Stop \/ StopReturns

SlotNext ==
  Collect \/ CollectAnswer \/ CollectOther \/ CollectEnds \/ Timeout \/ Error \/ Connected

Next == ThreadNext \/ CallNext \/ SlotNext

Spec == Init /\ [][Next]_vars

(* The main thread goes on with what it does, timers fire and threads that *)
(* are stopped end.  The write thread need not write, the device need not  *)
(* answer, and nothing makes the application call anything.                *)
Fairness ==
  /\ WF_vars(Collect) /\ WF_vars(CollectAnswer \/ CollectOther \/ CollectEnds)
  /\ WF_vars(Send) /\ WF_vars(SendFails)
  /\ WF_vars(TakeReply \/ WaitFails \/ WaitTimesOut)
  /\ WF_vars(Timeout)
  /\ WF_vars(ThreadsStopped) /\ WF_vars(StopReturns)

FairSpec == Spec /\ Fairness

-----------------------------------------------------------------------------
(* Properties.                                                             *)

Held == {i \in DOMAIN calls : calls[i].phase \in {"frame", "slot"}}

(* A transaction is in one place: in the pool, pending, done, or with the  *)
(* sendData() that will make it pending (the code looks for such leaks at  *)
(* mdtPortManager.cpp:298).                                                *)
TransactionsConserved ==
  allocated = pooled + Cardinality(pending) + Cardinality(done) + Cardinality(Held)

(* With identifiers, a reply is given to the query it answers, though      *)
(* queries overlap, replies come after their timeout and the port is       *)
(* closed and opened again.                                                *)
RepliesMatch == identified => \A t \in done : t.answer = t.query

(* A transaction kept for a reply has a call that waits for it: when a     *)
(* wait fails, its transaction was restored (mdtPortManager.h:487), or     *)
(* will be when the port is closed.                                        *)
NoOrphans ==
  state \in RunningStates =>
    \A t \in pending \cup done :
      t.keep => \E i \in DOMAIN calls : calls[i].phase = "reply" /\ calls[i].t.id = t.id

(* The main thread has the mutex only in fromThreadNewFrameReaden() or     *)
(* while some sendData() has a frame and waits to send it.                 *)
MutexReleased == locked => collecting \/ \E i \in DOMAIN calls : calls[i].phase = "slot"

(* A wait ends while the timer runs, unless another call is made while it  *)
(* waits (see WaitEnds).                                                   *)
LastWaitEnds ==
  \A n \in 1 .. MaxCalls : Len(calls) = n /\ Top.phase = "reply" /\ timer ~> Len(calls) # n

(* A sendData() that waits for a transaction to be possible has the mutex  *)
(* (mdtPortManager.cpp:342), so that no thread can bring the answers that  *)
(* would make room.  If the transaction timer runs, of whichever query it  *)
(* is, the call does not wait for ever: it goes on, or the port is not     *)
(* ready any more, unless another call is made while it waits.             *)
TimeoutMakesRoom ==
  \A n \in 1 .. MaxCalls :
    Len(calls) = n /\ Top.phase = "slot" /\ timer
      ~> Len(calls) # n \/ Top.phase # "slot" \/ ~IsReady

(* Closing the port ends the calls that wait: queries return an error.     *)
ClosedReleases == IsClosed ~> calls = <<>>

(* waitTransactionDone() returns: an offset was added to the timeout so as *)
(* not to wait for ever while other transactions are made                  *)
(* (mdtPortManager.cpp:399-408).                                           *)
WaitEnds == \A n \in 1 .. MaxCalls : Len(calls) = n /\ Top.phase = "reply" ~> Len(calls) # n
=============================================================================
