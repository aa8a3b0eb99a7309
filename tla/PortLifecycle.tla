----------------------------- MODULE PortLifecycle -----------------------------
(***************************************************************************)
(* The life of a port manager's threads: start() and stop() of             *)
(* mdtPortManager, which run the event loop while they wait, its state     *)
(* machine, and port threads (mdtPortThread) that become ready, fail and   *)
(* end at any time.  What the threads do in between is in ReadThread and   *)
(* WriteThread.                                                            *)
(*                                                                         *)
(* The signals of the threads are posted to the one queue of the main      *)
(* thread.  Calls of the application may come while another one waits.     *)
(***************************************************************************)
EXTENDS PortManagerStates, Naturals, Sequences, FiniteSets, Functions

CONSTANTS ThreadList,    (* pvThreads: the threads, in the order they were added *)
          EarlyFailures, (* a thread may fail while another one is not yet      *)
                         (* running                                             *)
          MaxCalls,      (* bound: calls that wait at once                      *)
          MaxEvents      (* bound: posted events beyond which a thread reports  *)
                         (* nothing that it survives                            *)

Threads == Range(ThreadList)

ASSUME LifecycleAssumption ==
  /\ ThreadList \in Seq(Threads)
  /\ IsInjective(ThreadList)
  /\ IsFiniteSet(Threads)
  /\ Threads # {}
  /\ EarlyFailures \in BOOLEAN
  /\ MaxCalls \in Nat
  /\ MaxEvents \in Nat

VARIABLES state,        (* the state of the state machine                  *)
          threadsReady, (* pvThreadsReady                                  *)
          portOpen,     (* pvPort->isOpen()                                *)
          calls,        (* start() and stop() in progress, the last one is *)
                        (* the one that runs                               *)
          stopping,     (* threads stopThreads() has still to stop         *)
          events,       (* events posted to the main thread                *)
          life,         (* what each thread does: "Running" is pvRunning   *)
          currentError  (* pvCurrentError of each thread                   *)

managers == <<state, threadsReady, portOpen, calls, stopping>>
threads == <<life, currentError>>
vars == <<managers, events, threads>>

(* Errors after which a port thread ends (PortAccess stands for those that *)
(* the manager does not know), and errors it goes on after.                *)
EndingErrors == {"UnhandledError", "PortAccess", "Disconnected", "WriteTimeout"}
PassingErrors == {"ReadPoolEmpty", "NoError"}
Errors == EndingErrors \cup PassingErrors

Lives == {"Off", "Started", "Running", "Leaving"}
Ready(t) == [type |-> "ready", thread |-> t]
Finished(t) == [type |-> "finished", thread |-> t]
Error(t, e) == [type |-> "error", thread |-> t, error |-> e]
Events == {Ready(t) : t \in Threads} \cup {Finished(t) : t \in Threads}
            \cup {Error(t, e) : t \in Threads, e \in Errors}

TypeOK ==
  /\ state \in ManagerStates
  /\ threadsReady \in SUBSET Threads
  /\ portOpen \in BOOLEAN
  /\ calls \in Seq({"start", "stop"})
  /\ stopping \in Seq(Threads)
  /\ events \in Seq(Events)
  /\ life \in [Threads -> Lives]
  /\ currentError \in [Threads -> Errors]

Init ==
  /\ state = "PortClosed"
  /\ threadsReady = {}
  /\ portOpen = FALSE
  /\ calls = <<>>
  /\ stopping = <<>>
  /\ events = <<>>
  /\ life = [t \in Threads |-> "Off"]
  /\ currentError = [t \in Threads |-> "UnhandledError"]

-----------------------------------------------------------------------------
(* Pieces of the manager's code.                                           *)

(* The event loop, or a call that processes events while it waits, runs.   *)
Waiting == stopping = <<>>
Top == IF calls = <<>> THEN "none" ELSE calls[Len(calls)]
Return == calls' = SubSeq(calls, 1, Len(calls) - 1)

(* Faulty variant of Emit: the machine stays in PortError. *)
EmitStaysInError(event) ==
  /\ state' = IF state \in RunningStates /\ event = "UnhandledError" THEN "PortError"
                                                                  ELSE React(state, event)
  /\ stopping' = IF state # "Stopping" /\ state' = "Stopping" THEN ThreadList ELSE <<>>

(* Emit a signal of the state machine.  Entering Stopping runs             *)
(* stopThreads().                                                          *)
Emit(event) ==
  /\ state' = React(state, event)
  /\ stopping' = IF state # "Stopping" /\ state' = "Stopping" THEN ThreadList ELSE <<>>

-----------------------------------------------------------------------------
(* Faulty variants of definitions below, each of which one property        *)
(* refutes; they are part of no specification.                             *)

(* start() looks only for the state PortError, which the machine leaves    *)
(* before the event loop returns.                                          *)
StartFailsInError ==
  /\ Waiting
  /\ Top = "start"
  /\ state = "PortError"
  /\ calls' = [calls EXCEPT ![Len(calls)] = "stop"]
  /\ UNCHANGED <<state, threadsReady, portOpen, stopping, events, threads>>

(* The first thread that stopped is taken for the last one. *)
OnFirstThreadStopped(t) ==
  /\ threadsReady' = threadsReady \ {t}
  /\ Emit("AllThreadsStopped")

(* stop() closes the port without waiting for the threads. *)
StopReturnsEarly ==
  /\ Waiting
  /\ Top = "stop"
  /\ state \in {"Stopping", "Stopped"}
  /\ portOpen' = FALSE
  /\ Emit("PortClosed")
  /\ Return
  /\ UNCHANGED <<threadsReady, events, threads>>

(* An error without a case of its own is forgotten. *)
OnKnownErrorOccured(error) ==
  /\ Emit(IF error = "PortAccess" THEN "none" ELSE EventOfError(error))
  /\ UNCHANGED threadsReady

(* Only the first thread is stopped. *)
StopFirstThread ==
  /\ stopping # <<>>
  /\ LET t == Head(stopping)
     IN  \/ /\ life[t] = "Running"
            /\ life' = [life EXCEPT ![t] = "Leaving"]
            /\ currentError' = [currentError EXCEPT ![t] = "UnhandledError"]
         \/ life[t] # "Running" /\ UNCHANGED threads
  /\ stopping' = <<>>
  /\ UNCHANGED <<state, threadsReady, portOpen, calls, events>>

-----------------------------------------------------------------------------
(* The threads.                                                            *)

(* mdtPortThread::notifyError(): an error equal to the last one is         *)
(* swallowed.                                                              *)
Notify(t, e) ==
  /\ currentError' = [currentError EXCEPT ![t] = e]
  /\ events' = IF e = currentError[t] THEN events ELSE Append(events, Error(t, e))

(* run() sets the running flag and emits ready(). *)
Begin(t) ==
  /\ life[t] = "Started"
  /\ life' = [life EXCEPT ![t] = "Running"]
  /\ events' = Append(events, Ready(t))
  /\ UNCHANGED <<managers, currentError>>

(* An error that the thread survives: no frame left to read, frames again. *)
Report(t) ==
  /\ life[t] = "Running"
  /\ Len(events) < MaxEvents
  /\ \E e \in PassingErrors : Notify(t, e)
  /\ UNCHANGED <<managers, life>>

(* An error that ends the thread. *)
Fail(t) ==
  /\ life[t] = "Running"
  /\ EarlyFailures \/ \A u \in Threads : life[u] # "Started"
  /\ \E e \in EndingErrors : Notify(t, e)
  /\ life' = [life EXCEPT ![t] = "Leaving"]
  /\ UNCHANGED managers

(* run() returns; finished() is posted to the main thread.                 *)
End(t) ==
  /\ life[t] = "Leaving"
  /\ life' = [life EXCEPT ![t] = "Off"]
  /\ events' = Append(events, Finished(t))
  /\ UNCHANGED <<managers, currentError>>

-----------------------------------------------------------------------------
(* The main thread.                                                        *)

(* start(), when no call waits: the port is opened and the state Starting  *)
(* starts each thread (QThread::start() does nothing for one that runs).   *)
Start ==
  /\ Waiting
  /\ calls = <<>>
  /\ state = "PortClosed"
  /\ portOpen' = TRUE
  /\ Emit("StartThreads")
  /\ life' = [t \in Threads |-> IF life[t] = "Off" THEN "Started" ELSE life[t]]
  /\ currentError' = [t \in Threads |-> "UnhandledError"]
  /\ calls' = <<"start">>
  /\ UNCHANGED <<threadsReady, events>>

(* The loop of start() ends: the manager is ready, or closed again.        *)
StartReturns ==
  /\ Waiting
  /\ Top = "start"
  /\ state \in ReadyStates \cup {"PortClosed"}
  /\ Return
  /\ UNCHANGED <<state, threadsReady, portOpen, stopping, events, threads>>

(* The loop of start() finds the threads stopping: it calls stop() (whose  *)
(* pmStopThreadsEvent is ignored here) and returns false with it.          *)
StartFails ==
  /\ Waiting
  /\ Top = "start"
  /\ state \in {"Stopping", "Stopped"}
  /\ calls' = [calls EXCEPT ![Len(calls)] = "stop"]
  /\ UNCHANGED <<state, threadsReady, portOpen, stopping, events, threads>>

(* The application calls stop(). *)
Stop ==
  /\ Waiting
  /\ Len(calls) < MaxCalls
  /\ state # "PortClosed"
  /\ Emit("StopThreads")
  /\ calls' = Append(calls, "stop")
  /\ UNCHANGED <<threadsReady, portOpen, events, threads>>

(* stop() finds the state Stopped: it closes the port, the state machine   *)
(* reaches PortClosed, and it returns.                                     *)
StopReturns ==
  /\ Waiting
  /\ Top = "stop"
  /\ state = "Stopped"
  /\ portOpen' = FALSE
  /\ Emit("PortClosed")
  /\ Return
  /\ UNCHANGED <<threadsReady, events, threads>>

(* stopThreads(): mdtPortThread::stop() of the next thread, which does     *)
(* nothing to a thread that has not set its running flag.                  *)
StopThread ==
  /\ stopping # <<>>
  /\ LET t == Head(stopping)
     IN  \/ /\ life[t] = "Running"
            /\ life' = [life EXCEPT ![t] = "Leaving"]
            /\ currentError' = [currentError EXCEPT ![t] = "UnhandledError"]
         \/ life[t] # "Running" /\ UNCHANGED threads
  /\ stopping' = Tail(stopping)
  /\ UNCHANGED <<state, threadsReady, portOpen, calls, events>>

OnThreadReady(t) ==
  /\ threadsReady' = threadsReady \cup {t}
  /\ IF Cardinality(threadsReady') = Cardinality(Threads)
       THEN Emit("AllThreadsReady")
       ELSE UNCHANGED <<state, stopping>>

OnThreadStopped(t) ==
  /\ threadsReady' = threadsReady \ {t}
  /\ IF threadsReady' = {}
       THEN Emit("AllThreadsStopped")
       ELSE UNCHANGED <<state, stopping>>

OnThreadsErrorOccured(error) ==
  /\ Emit(EventOfError(error))
  /\ UNCHANGED threadsReady

(* processEvents(): the first posted event is delivered to its slot.       *)
Deliver ==
  /\ Waiting
  /\ events # <<>>
  /\ LET event == Head(events)
     IN  \/ event.type = "ready" /\ OnThreadReady(event.thread)
         \/ event.type = "finished" /\ OnThreadStopped(event.thread)
         \/ event.type = "error" /\ OnThreadsErrorOccured(event.error)
  /\ events' = Tail(events)
  /\ UNCHANGED <<portOpen, calls, threads>>

-----------------------------------------------------------------------------
ThreadNext == \E t \in Threads : Begin(t) \/ Report(t) \/ Fail(t) \/ End(t)

MainNext == Start \/ StartReturns \/ StartFails \/ Stop \/ StopReturns \/ StopThread \/ Deliver

Next == ThreadNext \/ MainNext

Spec == Init /\ [][Next]_vars

(* A thread that was started runs, and one that is stopped or has failed   *)
(* ends.  The main thread goes on with what it does.  Nothing makes the    *)
(* application call anything, or a thread fail.                            *)
Fairness ==
  /\ \A t \in Threads : WF_vars(Begin(t)) /\ WF_vars(End(t))
  /\ WF_vars(StopThread)
  /\ WF_vars(Deliver)
  /\ WF_vars(StartReturns \/ StartFails)
  /\ WF_vars(StopReturns)

FairSpec == Spec /\ Fairness

-----------------------------------------------------------------------------
(* Properties.                                                             *)

(* Stopped means that the threads are stopped and the port is closing: in  *)
(* the states Stopped and PortClosed, no thread lives (mdtPortManager.h:209).*)
StoppedMeansIdle ==
  state \in {"Stopped", "PortClosed"} => \A t \in Threads : life[t] = "Off"

(* No thread uses a closed port: stop() closes it (and frees its queues)    *)
(* only when all threads have ended, though threads fail and calls of      *)
(* stop() overlap (mdtPortManager.cpp:227).                                *)
ThreadsUseOpenPort == \A t \in Threads : life[t] # "Off" => portOpen

(* An error nobody handles, notified by a thread, stops all the threads,   *)
(* though other events and calls of the application come in between.       *)
FatalErrorStopsAll ==
  \A t \in Threads, e \in {"UnhandledError", "PortAccess"} :
    Error(t, e) \in Range(events) ~> state \in {"Stopped", "PortClosed"}

(* Stopping ends as long as the manager knows a thread that has not ended: *)
(* wherever the threads were when they were told to stop, and whichever    *)
(* failed at that moment.                                                  *)
StoppingEnds == state = "Stopping" /\ threadsReady # {} ~> state # "Stopping"

(* start() returns, or waits under a stop() that came while it waited      *)
(* (mdtPortManager.h:314).                                                 *)
StartEnds == Top = "start" ~> Top # "start"

(* stop() returns once the port manager is closed (mdtPortManager.h:324).  *)
StopEnds == Top = "stop" ~> Top # "stop"
=============================================================================
