-------------------------- MODULE PortManagerStates --------------------------
(***************************************************************************)
(* The state machine of a port manager (mdtPortManagerStateMachine) and    *)
(* the events that the errors of the threads become.                       *)
(*                                                                         *)
(* Qt runs a signal transition inside the emit of its signal.  PortError   *)
(* is left in the same run: when it is entered, it emits                   *)
(* pmStopThreadsEvent, which leads to Stopping.  The composite states      *)
(* Running and Connected are entered with one of their sub states.         *)
(***************************************************************************)

(* Sub states of Running. *)
RunningStates == {"PortReady", "Connecting", "Connected_Ready", "Connected_Busy",
                  "Disconnected"}

ManagerStates == {"PortClosed", "Starting", "Stopping", "Stopped"} \cup RunningStates

(* mdtPortManager::isReady() *)
ReadyStates == {"PortReady", "Connected_Ready"}

(* The state the machine is in once it has processed an event. *)
React(state, event) ==
  CASE state = "PortClosed" /\ event = "StartThreads" -> "Starting"
    [] state = "Starting" /\ event = "AllThreadsReady" -> "PortReady"
    [] state = "Starting" /\ event = "UnhandledError" -> "Stopping"
    [] state \in RunningStates
         /\ event \in {"StopThreads", "UnhandledError", "ConnectionFailed"} -> "Stopping"
    [] state \in RunningStates /\ event = "Connecting" -> "Connecting"
    [] state \in RunningStates /\ event = "Connected" -> "Connected_Ready"
    [] state \in {"Connecting", "Connected_Ready", "Connected_Busy"}
         /\ event = "Disconnected" -> "Disconnected"
    [] state = "Connected_Ready" /\ event = "Busy" -> "Connected_Busy"
    [] state = "Connected_Busy" /\ event = "Ready" -> "Connected_Ready"
    [] state = "Stopping" /\ event = "AllThreadsStopped" -> "Stopped"
    [] state = "Stopped" /\ event = "PortClosed" -> "PortClosed"
    [] OTHER -> state

(* mdtPortManager::onThreadsErrorOccured(): the event an error becomes.    *)
(* Timeouts and cancelled operations only flush transactions.              *)
EventOfError(error) ==
  CASE error = "NoError" -> "Ready"
    [] error \in {"Disconnected", "Connecting", "ConnectionFailed"} -> error
    [] error \in {"ReadPoolEmpty", "WritePoolEmpty", "ReadWriteBusy"} -> "Busy"
    [] error \in {"ReadTimeout", "WriteTimeout", "ReadCanceled", "WriteCanceled"} -> "none"
    [] OTHER -> "UnhandledError"
=============================================================================
