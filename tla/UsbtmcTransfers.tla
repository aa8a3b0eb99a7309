---------------------------- MODULE UsbtmcTransfers ----------------------------
(***************************************************************************)
(* USBTMC: the transfer handler (mdtUsbtmcTransferHandler) with its state  *)
(* machine, driven by two threads: the USB thread, in which libusb calls   *)
(* back when a transfer ends, and the main thread, in the calls of         *)
(* mdtUsbtmcPort, which wait in the event loop until the handler has       *)
(* signalled the end of the transaction.                                   *)
(*                                                                         *)
(* process_event() holds the recursive mutex of the state machine, so a    *)
(* callback is one action.  An event raised inside an action is processed  *)
(* when the transition is done; no action looks at anything after it       *)
(* raised one, so it is applied at once.  The flag submitCommand() reads   *)
(* first is read without the mutex of the pool it then locks.              *)
(*                                                                         *)
(* A transfer is known while it is in the pending list of its pool.        *)
(* Payloads, bTags and time are not modelled: what the device answers, and *)
(* when, is chosen freely, within the faults it has.                       *)
(***************************************************************************)
EXTENDS Naturals, Sequences, FiniteSets, SequencesExt

CONSTANTS FaultSets,        (* what a device and its libusb may do wrong     *)
          MaxPolls,         (* bound: "not yet" answers during one call      *)
          CloseDuringCall   (* close() is called by the event loop of a call *)

FaultKinds == {"error",    \* a transfer ends with an unhandled status
               "gone",     \* ... with LIBUSB_TRANSFER_NO_DEVICE
               "stall",    \* ... with LIBUSB_TRANSFER_STALL
               "tag",      \* an answer has a wrong bTag or is too short
               "partial",  \* an answer ends without EOM
               "status",   \* a control request is answered by a failure
               "fifo",     \* the device has data left in its Bulk-IN FIFO
               "submit",   \* libusb refuses a transfer a handler submits
               "command"}  \* ... the transfer of submitCommand()

ASSUME UsbtmcAssumption == /\ FaultSets \subseteq SUBSET FaultKinds
                           /\ MaxPolls \in Nat
                           /\ CloseDuringCall \in BOOLEAN

VARIABLES faults,   (* the faults of this device                            *)
          th,       (* the transfer handler, see Handler                    *)
          call,     (* the call of the main thread and where it is          *)
          closing,  (* close() waits for the thread, maybe inside the call  *)
          state,    (* pvTransactionState                                   *)
          polls     (* "not yet" answers left                               *)

vars == <<faults, th, call, closing, state, polls>>

RunningStates == {"Processing", "AbortingBulkIn", "ClearingBulkIo",
                  "ClearingBulkOutEndpointHalt", "ClearingBulkInEndpointHalt"}
EndStates == {"Stopped", "Error", "DeviceDisconnected"}
MachineStates == RunningStates \cup EndStates \cup {"Stopping", "Closed"}

Actions == {"NoAction", "INITIATE_CLEAR", "CHECK_ABORT_STATUS",
            "CHECK_CLEAR_STATUS", "CLEAR_ENDPOINT_HALT"}
Requests == {"CLEAR_FEATURE", "INITIATE_ABORT_BULK_IN",
             "CHECK_ABORT_BULK_IN_STATUS", "INITIATE_CLEAR", "CHECK_CLEAR_STATUS"}

\* Where a pending transfer is: libusb has it, maybe with a cancel request,
\* or it called back and the transfer is still in the pending list.
InFlight == {"flying", "cancelling"}
Places == InFlight \cup {"answer", "left"}

BulkOut == [msg : {"command", "query", "request"}, at : Places, split : Actions]
NoOut == [msg |-> "none", at |-> "pool", split |-> "NoAction"]
BulkIn == [at : Places, split : Actions]
Control == [request : Requests, at : Places]
Signals == {"Done", "Aborted", "Error", "DeviceDisconnected"}

Handler == [sm        : MachineStates,
            out       : BulkOut \cup {NoOut},  \* its pool holds one transfer
            in        : Seq(BulkIn),           \* the pending lists
            control   : Seq(Control),
            interrupt : BOOLEAN,               \* pending, so in flight
            signals   : Seq(Signals)]          \* transactionFinished(), queued

Ops == {"command", "query", "clear"}
NoCall == [op |-> "none", at |-> "none"]

TypeOK == /\ faults \in FaultSets
          /\ th \in Handler
          /\ call \in [op : Ops, at : {"check", "submit", "wait", "locked"}]
                        \cup {NoCall}
          /\ closing \in BOOLEAN
          /\ state \in Signals \cup {"Pending"}
          /\ polls \in 0 .. MaxPolls

Closed == [sm |-> "Closed", out |-> NoOut, in |-> <<>>, control |-> <<>>,
           interrupt |-> FALSE, signals |-> <<>>]

Init == /\ faults \in FaultSets
        /\ th = Closed
        /\ call = NoCall
        /\ closing = FALSE
        /\ state = "Pending"
        /\ polls = MaxPolls

-----------------------------------------------------------------------------
(* The pools and the events. *)

IsRunning(h) == h.sm \in RunningStates

HasPendingTransfers(h) ==
  h.out # NoOut \/ h.in # <<>> \/ h.control # <<>> \/ h.interrupt

Signal(h, s) == [h EXCEPT !.signals = Append(@, s)]

RestoreAllTransfers(h) == [h EXCEPT !.out = NoOut, !.in = <<>>, !.control = <<>>,
                                    !.interrupt = FALSE]

\* Faulty variant: nobody is told.
ErrorOccuredSilently(h, end) ==
  IF IsRunning(h) \/ h.sm = "Stopping"
  THEN [RestoreAllTransfers(h) EXCEPT !.sm = end] ELSE h

\* ErrorOccuredEvent.
ErrorOccured(h, end) ==
  IF IsRunning(h) \/ h.sm = "Stopping"
  THEN Signal([RestoreAllTransfers(h) EXCEPT !.sm = end], end)
  ELSE h

\* A transfer is submitted in an action of the state machine: h is the
\* handler once libusb has taken it.
Submitted(h) ==
  {h} \cup (IF "submit" \in faults
            THEN {ErrorOccured(h, "Error"), ErrorOccured(h, "DeviceDisconnected")}
            ELSE {})

SubmitControl(h, request) ==
  Submitted([h EXCEPT !.control = Append(@, [request |-> request,
                                             at |-> "flying"])])
SubmitBulkIn(h, split) ==
  Submitted([h EXCEPT !.in = Append(@, [at |-> "flying", split |-> split])])

\* Cancelling a transfer that libusb does not have (any more) does nothing,
\* and nothing calls back.
Cancelled(t) == [t EXCEPT !.at = IF @ = "flying" THEN "cancelling" ELSE @]

CancelOut(h, split) ==
  IF h.out = NoOut THEN h
  ELSE [h EXCEPT !.out = [Cancelled(@) EXCEPT !.split = split]]

CancelIn(h, split) ==
  [h EXCEPT !.in =
     [i \in DOMAIN @ |-> IF i = Len(h.in)
                         THEN [Cancelled(h.in[i]) EXCEPT !.split = split]
                         ELSE Cancelled(h.in[i])]]

\* Faulty variant: the call that waits for the end is not told.
SplitActionDoneSilently(h) ==
  IF h.sm \in {"AbortingBulkIn", "ClearingBulkIo"}
  THEN [h EXCEPT !.sm = "Processing"] ELSE h

\* SplitActionDoneEvent.
SplitActionDone(h) ==
  IF h.sm \in {"AbortingBulkIn", "ClearingBulkIo"}
  THEN Signal([h EXCEPT !.sm = "Processing"], "Aborted") ELSE h

\* ClearBulkOutEndpointHaltRequestedEvent.
ClearOutHaltRequested(h) ==
  IF h.sm \notin {"Processing", "ClearingBulkIo"} THEN {h}
  ELSE LET n == [h EXCEPT !.sm = "ClearingBulkOutEndpointHalt"]
       IN  IF h.out # NoOut THEN {CancelOut(n, "CLEAR_ENDPOINT_HALT")}
           ELSE SubmitControl(n, "CLEAR_FEATURE")

\* ClearBulkInEndpointHaltRequestedEvent: only Processing takes it.
ClearInHaltRequested(h) ==
  IF h.sm # "Processing" THEN {h}
  ELSE LET n == [h EXCEPT !.sm = "ClearingBulkInEndpointHalt"]
       IN  IF h.in # <<>> THEN {CancelIn(n, "CLEAR_ENDPOINT_HALT")}
           ELSE SubmitControl(n, "CLEAR_FEATURE")

\* Stopping: a transfer was restored.
StopIfDone(h) == IF HasPendingTransfers(h) THEN h ELSE [h EXCEPT !.sm = "Stopped"]

-----------------------------------------------------------------------------
(* Bulk transfers that end. *)

\* How libusb may end a transfer.  DeviceDisconnectedEvent has no transition:
\* a transfer that ends because the device is gone is left where it is.
Statuses(t) == {"completed"} \cup ({"error", "gone", "stall"} \cap faults)
                 \cup (IF t.at = "cancelling" THEN {"cancelled"} ELSE {})

\* Faulty variant: the transfer is pending in its pool, and restored.
OutRestored(h) == [h EXCEPT !.out = [NoOut EXCEPT !.at = "left"]]

OutLeft(h) == [h EXCEPT !.out.at = "left"]

HandleBulkOut(h, status) ==
  CASE status = "completed" /\ h.out.msg = "query" ->
         Submitted([h EXCEPT !.out = [msg |-> "request", at |-> "flying",
                                      split |-> "NoAction"]])
    [] status = "completed" /\ h.out.msg = "request" ->
         SubmitBulkIn([h EXCEPT !.out = NoOut], "NoAction")
    [] status = "completed" /\ h.out.msg = "command" ->
         {Signal([h EXCEPT !.out = NoOut], "Done")}
    [] status = "stall" -> {CancelOut(OutLeft(h), "CLEAR_ENDPOINT_HALT")}
    [] status = "gone" -> {OutLeft(h)}
    [] OTHER -> {ErrorOccured(h, "Error")}

\* restoreBulkOutTransferSA().
RestoreBulkOut(h, status) ==
  LET r == [h EXCEPT !.out = NoOut]
  IN  CASE status = "gone" -> {OutLeft(h)}
        [] status \in {"stall", "error"} -> {ErrorOccured(h, "Error")}
        [] OTHER ->
             (CASE h.out.split = "NoAction" -> {r}
                [] h.out.split = "INITIATE_CLEAR" -> SubmitControl(r, "INITIATE_CLEAR")
                [] OTHER -> ClearOutHaltRequested(r))

BulkOutCompleted(h, status) ==
  CASE h.sm \in {"Processing", "ClearingBulkInEndpointHalt"} ->
         HandleBulkOut(h, status)
    [] h.sm \in {"ClearingBulkIo", "ClearingBulkOutEndpointHalt"} ->
         RestoreBulkOut(h, status)
    [] h.sm = "AbortingBulkIn" ->
         IF status = "cancelled" THEN {[h EXCEPT !.out = NoOut]}
         ELSE HandleBulkOut(h, status)
    [] h.sm = "Stopping" -> {StopIfDone([h EXCEPT !.out = NoOut])}
    [] OTHER -> {OutLeft(h)}

InLeft(h, i) == [h EXCEPT !.in[i].at = "left"]

\* AbortBulkInRequestedEvent: the transfer that ended stays in the pending
\* list.
AbortBulkInRequested(h) ==
  IF h.sm # "Processing" THEN {h}
  ELSE SubmitControl(
         [h EXCEPT !.sm = "AbortingBulkIn",
                   !.out = IF @.msg = "query" THEN Cancelled(@) ELSE @],
         "INITIATE_ABORT_BULK_IN")

\* A complete answer stays in the pending list until it is read.
HandleBulkIn(h, i, status) ==
  CASE status = "completed" ->
         {Signal([h EXCEPT !.in[i].at = "answer"], "Done")}
           \cup (IF "partial" \in faults
                 THEN {[h EXCEPT !.in[i].at = "answer"]} ELSE {})
           \cup (IF "tag" \in faults THEN AbortBulkInRequested(InLeft(h, i)) ELSE {})
    [] status = "stall" -> {CancelIn(InLeft(h, i), "CLEAR_ENDPOINT_HALT")}
    [] status = "gone" -> {InLeft(h, i)}
    [] OTHER -> {ErrorOccured(h, "Error")}

InRestored(h, i) == [h EXCEPT !.in = RemoveAt(@, i)]

\* restoreBulkInTransferSA(): there is no case for the status to be checked.
RestoreBulkIn(h, i, status) ==
  LET r == InRestored(h, i)
      split == h.in[i].split
  IN  CASE status = "gone" -> {InLeft(h, i)}
        [] status \in {"stall", "error"} -> {ErrorOccured(h, "Error")}
        [] OTHER ->
             (CASE r.in # <<>> \/ split = "NoAction" -> {r}
                [] r.in = <<>> /\ split = "INITIATE_CLEAR" ->
                     SubmitControl(r, "INITIATE_CLEAR")
                [] OTHER -> ClearInHaltRequested(r))

BulkInCompleted(h, i, status) ==
  CASE h.sm \in {"Processing", "ClearingBulkOutEndpointHalt"} ->
         HandleBulkIn(h, i, status)
    [] h.sm \in {"AbortingBulkIn", "ClearingBulkIo", "ClearingBulkInEndpointHalt"} ->
         RestoreBulkIn(h, i, status)
    [] h.sm = "Stopping" -> {StopIfDone(InRestored(h, i))}
    [] OTHER -> {InLeft(h, i)}

-----------------------------------------------------------------------------
(* Control transfers that end. *)

ControlRestored(h, i) == [h EXCEPT !.control = RemoveAt(@, i)]

\* The transfer is set up for another request and submitted again.
NextRequest(h, i, request) ==
  Submitted([h EXCEPT !.control[i].request = request])

\* What the device may answer; "notYet" is STATUS_PENDING, or
\* STATUS_TRANSFER_NOT_IN_PROGRESS.
Answers(request) ==
  {"success"}
    \cup (IF polls > 0 /\ request \notin {"CLEAR_FEATURE", "INITIATE_CLEAR"}
          THEN {"notYet"} ELSE {})
    \cup (IF "fifo" \in faults
             /\ request \in {"CHECK_ABORT_BULK_IN_STATUS", "CHECK_CLEAR_STATUS"}
          THEN {"notEmpty"} ELSE {})
    \cup (IF "status" \in faults
             /\ request \in {"INITIATE_CLEAR", "INITIATE_ABORT_BULK_IN"}
          THEN {"failed"} ELSE {})

AbortInAnswered(h, i, answer) ==
  CASE answer = "success" ->
         IF h.in = <<>> THEN NextRequest(h, i, "CHECK_ABORT_BULK_IN_STATUS")
         ELSE {ControlRestored([h EXCEPT !.in[Len(h.in)].split =
                                           "CHECK_ABORT_STATUS"], i)}
    [] OTHER ->
         {SplitActionDone(ControlRestored(
            [h EXCEPT !.in = [k \in DOMAIN @ |-> Cancelled(@[k])]], i))}

\* The request is done, or it failed.
RequestDone(h, i, answer) ==
  LET request == h.control[i].request
      r == ControlRestored(h, i)
  IN  CASE request = "CLEAR_FEATURE" ->
             {IF h.sm \in {"ClearingBulkOutEndpointHalt", "ClearingBulkInEndpointHalt"}
              THEN Signal([r EXCEPT !.sm = "Processing"], "Aborted") ELSE r}
        [] request = "INITIATE_ABORT_BULK_IN" -> AbortInAnswered(h, i, answer)
        [] request = "CHECK_ABORT_BULK_IN_STATUS" -> {SplitActionDone(r)}
        [] request = "INITIATE_CLEAR" ->
             IF answer = "success" THEN NextRequest(h, i, "CHECK_CLEAR_STATUS")
             ELSE {SplitActionDone(r)}
        [] request = "CHECK_CLEAR_STATUS" -> ClearOutHaltRequested(r)

ControlAnswered(h, i, answer) ==
  LET request == h.control[i].request
      r == ControlRestored(h, i)
  IN  CASE answer = "notYet" -> Submitted(h)
        [] answer = "notEmpty" ->
             SubmitBulkIn(r, IF request = "CHECK_CLEAR_STATUS"
                             THEN "CHECK_CLEAR_STATUS" ELSE "CHECK_ABORT_STATUS")
        [] OTHER -> RequestDone(h, i, answer)

ControlLeft(h, i) == [h EXCEPT !.control[i].at = "left"]

ControlCompleted(h, i, status, answer) ==
  CASE IsRunning(h) ->
         (CASE status = "completed" -> ControlAnswered(h, i, answer)
            [] status = "gone" -> {ControlLeft(h, i)}
            [] OTHER -> {ErrorOccured(h, "Error")})
    [] h.sm = "Stopping" -> {StopIfDone(ControlRestored(h, i))}
    [] OTHER -> {ControlLeft(h, i)}

-----------------------------------------------------------------------------
(* Steps of the USB thread.  It handles events until the machine is in one *)
(* of its end states; a main thread that processes an event while it holds *)
(* a pool's mutex, and waits for that mutex, stops it too.                 *)

ThreadRuns == IsRunning(th) \/ th.sm = "Stopping"
CanProcess == ThreadRuns /\ call.at # "locked"

MainUnchanged == UNCHANGED <<faults, call, closing, state>>

OutCompletes ==
  /\ CanProcess
  /\ th.out.at \in InFlight
  /\ \E status \in Statuses(th.out) : th' \in BulkOutCompleted(th, status)
  /\ UNCHANGED polls
  /\ MainUnchanged

InCompletes ==
  /\ CanProcess
  /\ \E i \in DOMAIN th.in :
       /\ th.in[i].at \in InFlight
       /\ \E status \in Statuses(th.in[i]) : th' \in BulkInCompleted(th, i, status)
  /\ UNCHANGED polls
  /\ MainUnchanged

ControlCompletes ==
  /\ CanProcess
  /\ \E i \in DOMAIN th.control :
       LET t == th.control[i]
       IN  /\ t.at \in InFlight
           /\ \E status \in Statuses(t), answer \in Answers(t.request) :
                /\ th' \in ControlCompleted(th, i, status, answer)
                /\ polls' = IF answer = "notYet" /\ status = "completed"
                            THEN polls - 1 ELSE polls
  /\ MainUnchanged

\* While the machine runs an interrupt-IN transfer is submitted again.
InterruptCompletes ==
  /\ CanProcess
  /\ th.interrupt
  /\ th' \in IF th.sm = "Stopping"
             THEN {StopIfDone([th EXCEPT !.interrupt = FALSE])}
             ELSE Submitted(th) \cup (IF faults \cap {"error", "gone", "stall"} # {}
                                      THEN {ErrorOccured(th, "Error")} ELSE {})
  /\ UNCHANGED polls
  /\ MainUnchanged

-----------------------------------------------------------------------------
(* The main thread. *)

\* The event loop runs: setTransactionState().
Deliver ==
  /\ call.at \in {"none", "wait"}
  /\ th.signals # <<>>
  /\ state' = Head(th.signals)
  /\ th' = [th EXCEPT !.signals = Tail(@)]
  /\ UNCHANGED <<faults, call, closing, polls>>

CanCall == call = NoCall /\ ~closing

Begin(op, at) == /\ call' = [op |-> op, at |-> at]
                 /\ state' = "Pending"
                 /\ polls' = MaxPolls

\* openDevice(): start() submits the first interrupt-IN transfer, if the
\* interface has the endpoint; then clearBulkIo().  While the thread opens the
\* device the main one waits in the event loop: what was signalled before is
\* delivered by then, and maybe what start() signals.
Open ==
  LET n == [th EXCEPT !.sm = "Processing"]
      started == {n} \cup Submitted([n EXCEPT !.interrupt = TRUE])
  IN  /\ CanCall
      /\ th = Closed
      /\ th' \in started \cup {[h EXCEPT !.signals = <<>>] : h \in started}
      /\ Begin("clear", "submit")
      /\ UNCHANGED <<faults, closing>>

ClearBulkIo ==
  /\ CanCall
  /\ th.sm # "Closed"
  /\ Begin("clear", "submit")
  /\ UNCHANGED <<faults, th, closing>>

\* submitBulkIoClear(): the entry in ClearingBulkIo is beginBulkIoClear().
Cleared(h) ==
  LET n == [h EXCEPT !.sm = "ClearingBulkIo"]
  IN  IF h.sm # "Processing" THEN {h}
      ELSE IF h.out = NoOut /\ h.in = <<>> THEN SubmitControl(n, "INITIATE_CLEAR")
      ELSE {CancelIn(CancelOut(n, "INITIATE_CLEAR"), "INITIATE_CLEAR")}

\* What the main thread itself signals is not queued.
SubmitClear ==
  /\ call = [op |-> "clear", at |-> "submit"]
  /\ \E h \in Cleared(th) :
       /\ th' = [h EXCEPT !.signals = th.signals]
       /\ state' = IF h.signals = th.signals THEN state ELSE Last(h.signals)
  /\ call' = [call EXCEPT !.at = "wait"]
  /\ UNCHANGED <<faults, closing, polls>>

\* sendCommand(), sendQuery().
Send(op) ==
  /\ CanCall
  /\ th.sm # "Closed"
  /\ Begin(op, "check")
  /\ UNCHANGED <<faults, th, closing>>

Refused == call' = NoCall /\ state' = "Error" /\ UNCHANGED th

\* submitCommand(): first the flag of the state machine, then the pools.
CheckProcessing ==
  /\ call.at = "check"
  /\ IF th.sm = "Processing"
     THEN call' = [call EXCEPT !.at = "submit"] /\ UNCHANGED <<th, state>>
     ELSE Refused
  /\ UNCHANGED <<faults, closing, polls>>

\* Faulty variant: pending bulk-IN transfers are not looked at.
PoolsAllowOut(op) == th.out = NoOut

PoolsAllow(op) == th.out = NoOut /\ (op = "query" => th.in = <<>>)

\* An error event finds the mutex of the bulk-OUT pool locked by its own
\* thread, unless the machine has ended and ignores it.
SubmitCommand ==
  /\ call.op \in {"command", "query"} /\ call.at = "submit"
  /\ IF ~PoolsAllow(call.op) THEN Refused
     ELSE \/ /\ th' = [th EXCEPT !.out = [msg |-> call.op, at |-> "flying",
                                          split |-> "NoAction"]]
             /\ call' = [call EXCEPT !.at = "wait"]
             /\ UNCHANGED state
          \/ /\ "command" \in faults
             /\ IF ThreadRuns
                THEN call' = [call EXCEPT !.at = "locked"] /\ UNCHANGED <<th, state>>
                ELSE Refused
  /\ UNCHANGED <<faults, closing, polls>>

\* waitTransactionFinished() ends.  A query reads and restores what is in the
\* pending list; a long command is sent in several transfers.
Returns == call.at = "wait" /\ ~closing /\ state # "Pending"

\* Faulty variant: what was read stays in the pending list.
ReadOnly(h) == h

\* getReceivedData().
Read(h) == [h EXCEPT !.in = <<>>]

ReturnFromCall ==
  /\ Returns
  /\ call' = NoCall
  /\ th' = IF call.op = "query" /\ state = "Done" THEN Read(th) ELSE th
  /\ UNCHANGED <<faults, closing, state, polls>>

SendNextPart ==
  /\ Returns
  /\ call.op = "command" /\ state = "Done"
  /\ Begin("command", "check")
  /\ UNCHANGED <<faults, th, closing>>

\* close(): the stop request, then the thread is waited for in the event loop,
\* 1000 ms at most; it is forced to end when the device is closed.
Close ==
  /\ th.sm # "Closed" /\ ~closing
  /\ call = NoCall \/ (CloseDuringCall /\ call.at = "wait")
  /\ closing' = TRUE
  /\ th' = IF ~IsRunning(th) THEN th
           ELSE LET n == [th EXCEPT !.sm = "Stopping"]
                IN  IF HasPendingTransfers(n)
                    THEN CancelIn(CancelOut(n, "NoAction"), "NoAction")
                    ELSE [n EXCEPT !.sm = "Stopped"]
  /\ UNCHANGED <<faults, call, state, polls>>

CloseReturns ==
  /\ closing
  /\ closing' = FALSE
  /\ th' = [Closed EXCEPT !.signals = th.signals]
  /\ UNCHANGED <<faults, call, state, polls>>

CallGoesOn == SubmitClear \/ CheckProcessing \/ SubmitCommand \/ ReturnFromCall

Next == \/ OutCompletes \/ InCompletes \/ ControlCompletes \/ InterruptCompletes
        \/ Deliver \/ CallGoesOn \/ SendNextPart
        \/ Open \/ ClearBulkIo \/ Send("command") \/ Send("query")
        \/ Close \/ CloseReturns

Spec == Init /\ [][Next]_vars

\* libusb ends every transfer, at the latest by its timeout; both threads go
\* on; a command has finitely many parts.
FairSpec == /\ Spec
            /\ WF_vars(OutCompletes) /\ WF_vars(InCompletes)
            /\ WF_vars(ControlCompletes) /\ WF_vars(Deliver)
            /\ WF_vars(CallGoesOn) /\ SF_vars(ReturnFromCall)

-----------------------------------------------------------------------------
(* A query that is done reads its own, complete answer: nothing else is in   *)
(* the pending list, neither an answer nobody read nor a transfer that is    *)
(* still in flight and would be used again.  Only when the state machine     *)
(* gave up in between there is nothing left to read.                         *)
QueryAnswered ==
  [][call.op = "query" /\ state = "Done" /\ call' = NoCall
       => IF IsRunning(th) THEN Len(th.in) = 1 /\ th.in[1].at = "answer"
          ELSE th.in = <<>>]_vars

(* Whatever a transfer does wrong: a command or query that is under way when *)
(* the state machine gives up returns, also when it had only read the flag.  *)
CallersAreTold ==
  call.op \in {"command", "query"} /\ th.sm \in {"Error", "DeviceDisconnected"}
    ~> call = NoCall

Recovers == faults \subseteq {"error", "submit", "status"}

(* With a device that fails in a way the handler handles, every call that    *)
(* finds the machine running ends.                                           *)
CallEnds ==
  Recovers /\ call # NoCall /\ IsRunning(th)
    ~> call = NoCall

SomethingInFlight ==
  \/ th.out.at \in InFlight
  \/ \E i \in DOMAIN th.in : th.in[i].at \in InFlight
  \/ \E i \in DOMAIN th.control : th.control[i].at \in InFlight
  \/ th.interrupt

(* A state machine that stops has a transfer left that ends and lets it stop. *)
StopsByItself == Recovers /\ th.sm = "Stopping" => SomethingInFlight
=============================================================================
