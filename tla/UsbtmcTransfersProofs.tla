------------------------ MODULE UsbtmcTransfersProofs ------------------------
(***************************************************************************)
(* Proofs about the USBTMC transfer handler, for any set of faults and any *)
(* number of "not yet" answers.                                            *)
(***************************************************************************)
EXTENDS UsbtmcTransfers, TLAPS

-----------------------------------------------------------------------------
(* The inductive invariant.  While the machine runs one transfer at a time *)
(* is in use, and what the pools hold, what was signalled and what the     *)
(* call waits for tell the same story.                                     *)

(* No pool has more than one transfer pending. *)
OneIn(h) == h.in = <<>> \/ \E t \in BulkIn : h.in = <<t>>
OneControl(h) == h.control = <<>> \/ \E t \in Control : h.control = <<t>>

LeftIn(split) == <<[at |-> "left", split |-> split]>>
AnswerIn == <<[at |-> "answer", split |-> "NoAction"]>>
ControlOf(requests) == {<<[request |-> q, at |-> p]>> : q \in requests, p \in Places}
OutOf(messages) == [msg : messages, at : Places, split : Actions]

Quiet(h) == h.sm = "Processing" /\ h.out = NoOut /\ h.control = <<>>

(* What a call that is over leaves in the bulk-IN pool. *)
Unread(h) == h.in = <<>> \/ (h.in = LeftIn("NoAction") /\ ~Recovers)

(* The end of a transaction: nobody was told yet, or the signal is on its  *)
(* way, or delivered.                                                      *)
Untold(h, s) == h.signals = <<>> /\ s = "Pending"
Told(h, s, end) == \/ h.signals = <<end>> /\ s = "Pending"
                   \/ h.signals = <<>> /\ s = end

Resting(h) == Quiet(h) /\ Unread(h) /\ h.signals = <<>>

ClearPhase(h, s) ==
  \/ Quiet(h) /\ h.in = <<>> /\ Told(h, s, "Aborted")
  \/ /\ Untold(h, s) /\ h.out = NoOut
     /\ \/ /\ h.sm = "ClearingBulkIo" /\ h.in = <<>>
           /\ h.control \in {<<>>} \cup ControlOf({"INITIATE_CLEAR", "CHECK_CLEAR_STATUS"})
        \/ /\ h.sm = "ClearingBulkIo" /\ h.control = <<>>
           /\ \E t \in BulkIn : /\ h.in = <<t>>
                                /\ t.split \in {"INITIATE_CLEAR", "CHECK_CLEAR_STATUS"}
        \/ /\ h.sm = "ClearingBulkOutEndpointHalt" /\ h.in = <<>>
           /\ h.control \in ControlOf({"CLEAR_FEATURE"})

CommandPhase(h, s) ==
  \/ Quiet(h) /\ Unread(h) /\ Told(h, s, "Done")
  \/ /\ Untold(h, s) /\ h.sm = "Processing" /\ h.control = <<>>
     /\ Unread(h) /\ h.out \in OutOf({"command"})

QueryPhase(h, s) ==
  \/ Quiet(h) /\ h.in = AnswerIn /\ Told(h, s, "Done")
  \/ Quiet(h) /\ h.in = LeftIn("NoAction") /\ ~Recovers /\ Told(h, s, "Aborted")
  \/ /\ Untold(h, s) /\ h.sm = "Processing" /\ h.control = <<>>
     /\ h.in = <<>> /\ h.out \in OutOf({"query", "request"})
  \/ /\ Untold(h, s) /\ Quiet(h)
     /\ \/ \E p \in Places : h.in = <<[at |-> p, split |-> "NoAction"]>>
        \/ h.in = LeftIn("CLEAR_ENDPOINT_HALT")
  \/ /\ Untold(h, s) /\ h.sm = "AbortingBulkIn" /\ h.out = NoOut /\ ~Recovers
     /\ \/ h.in = LeftIn("NoAction") /\ h.control \in ControlOf({"INITIATE_ABORT_BULK_IN"})
        \/ h.in = LeftIn("CHECK_ABORT_STATUS") /\ h.control = <<>>

Phase(h, c, s) ==
  CASE c.at # "wait" -> Resting(h)
    [] c.at = "wait" /\ c.op = "clear" -> ClearPhase(h, s)
    [] c.at = "wait" /\ c.op = "command" -> CommandPhase(h, s)
    [] c.at = "wait" /\ c.op = "query" -> QueryPhase(h, s)

Emptied(h) == h.in = <<>> /\ h.control = <<>> /\ ~h.interrupt

(* The handler alone, while the call c waits in the state s. *)
HandlerFits(h, c, s) ==
  /\ h \in Handler /\ OneIn(h) /\ OneControl(h)
  /\ IsRunning(h) => Phase(h, c, s)
  /\ h.sm \in EndStates \cup {"Closed"} => Emptied(h)
  /\ h.sm = "Stopping" /\ Recovers /\ ~CloseDuringCall
       => h.out = NoOut /\ h.in = <<>> /\ h.control = <<>> /\ h.interrupt

CallFits ==
  /\ call.at \in {"check", "submit", "locked"} => state = "Pending"
  /\ closing => call.at \in {"none", "wait"} /\ (~CloseDuringCall => call = NoCall)
  /\ IsRunning(th) => ~closing
  /\ th.sm \in {"Stopping", "Stopped"} => closing

IInv == /\ TypeOK
        /\ HandlerFits(th, call, state)
        /\ CallFits

-----------------------------------------------------------------------------
(* The operators on the handler: what they leave in its fields.            *)

(* A handler that gave up has no transfer left, except in the bulk-OUT     *)
(* pool, where submitCommand() may put one after it read the flag.         *)
GaveUp(h) == /\ h \in Handler
             /\ h.sm \in {"Error", "DeviceDisconnected"}
             /\ Emptied(h)

(* It fits every phase of every call. *)
LEMMA GaveUpFits ==
  ASSUME NEW h, GaveUp(h), NEW c, NEW s
  PROVE  HandlerFits(h, c, s)
<1>1. ~IsRunning(h) /\ h.sm # "Stopping"
  BY DEF GaveUp, IsRunning, RunningStates
<1> QED BY <1>1 DEF GaveUp, HandlerFits, OneIn, OneControl, Emptied

(* The types of the fields. *)
LEMMA HandlerFields ==
  ASSUME NEW h \in Handler
  PROVE  /\ h.sm \in MachineStates
         /\ h.out \in BulkOut \cup {NoOut}
         /\ h.in \in Seq(BulkIn) /\ h.control \in Seq(Control)
         /\ h.interrupt \in BOOLEAN /\ h.signals \in Seq(Signals)
BY DEF Handler

(* ErrorOccuredEvent ends a machine that runs. *)
LEMMA ErrorFields ==
  ASSUME NEW h \in Handler, IsRunning(h), NEW end \in {"Error", "DeviceDisconnected"}
  PROVE  /\ GaveUp(ErrorOccured(h, end))
         /\ ErrorOccured(h, end).signals = Append(h.signals, end)
<1>1. PICK r : r = RestoreAllTransfers(h)
  OBVIOUS
<1>0. <<>> \in Seq(BulkIn) /\ <<>> \in Seq(Control)
  OBVIOUS
<1>2. /\ r \in Handler /\ r.signals = h.signals
      /\ r.in = <<>> /\ r.control = <<>> /\ ~r.interrupt
  <2>1. r = [sm |-> h.sm, out |-> NoOut, in |-> <<>>, control |-> <<>>,
             interrupt |-> FALSE, signals |-> h.signals]
    BY <1>1 DEF RestoreAllTransfers, Handler
  <2> QED BY <1>0, <2>1, HandlerFields DEF Handler
<1>3. PICK e : e = [r EXCEPT !.sm = end]
  OBVIOUS
<1>4. end \in MachineStates /\ end \in Signals
  BY DEF MachineStates, EndStates, Signals
<1>5. /\ e \in Handler /\ e.signals = h.signals /\ e.sm = end
      /\ e.in = <<>> /\ e.control = <<>> /\ ~e.interrupt
  BY <1>2, <1>3, <1>4 DEF Handler
<1>6. PICK o : o = [e EXCEPT !.signals = Append(@, end)]
  OBVIOUS
<1>7. Append(h.signals, end) \in Seq(Signals)
  BY <1>4, HandlerFields
<1>8. /\ o \in Handler /\ o.sm = end /\ o.signals = Append(h.signals, end)
      /\ o.in = <<>> /\ o.control = <<>> /\ ~o.interrupt
  BY <1>5, <1>6, <1>7 DEF Handler
<1>9. ErrorOccured(h, end) = o
  BY <1>1, <1>3, <1>6 DEF ErrorOccured, Signal
<1> QED BY <1>8, <1>9 DEF GaveUp, Emptied

(* A transfer that an action submits: libusb has it, or the machine ends.  *)
LEMMA SubmittedFields ==
  ASSUME NEW h \in Handler, IsRunning(h), NEW o \in Submitted(h)
  PROVE  \/ o = h
         \/ /\ GaveUp(o)
            /\ \E end \in {"Error", "DeviceDisconnected"} : o.signals = Append(h.signals, end)
<1>1. \/ o = h
      \/ \E end \in {"Error", "DeviceDisconnected"} : o = ErrorOccured(h, end)
  BY DEF Submitted
<1> QED BY <1>1, ErrorFields

(* The same for a control transfer, in a pool that had none pending. *)
LEMMA SubmitControlFields ==
  ASSUME NEW h \in Handler, IsRunning(h), h.control = <<>>, NEW request \in Requests,
         NEW o \in SubmitControl(h, request)
  PROVE  \/ /\ GaveUp(o)
            /\ \E end \in {"Error", "DeviceDisconnected"} : o.signals = Append(h.signals, end)
         \/ /\ o \in Handler /\ o.sm = h.sm /\ o.out = h.out /\ o.in = h.in
            /\ o.control = <<[request |-> request, at |-> "flying"]>>
            /\ OneControl(o) /\ o.control \in ControlOf({request})
            /\ o.interrupt = h.interrupt /\ o.signals = h.signals
<1>1. PICK t : t = [request |-> request, at |-> "flying"]
  OBVIOUS
<1>2. t \in Control
  BY <1>1 DEF Control, Places, InFlight
<1>3. PICK n : n = [h EXCEPT !.control = Append(@, t)]
  OBVIOUS
<1>4. Append(h.control, t) = <<t>> /\ <<t>> \in Seq(Control)
  BY <1>2
<1>5. /\ n \in Handler /\ n.sm = h.sm /\ n.out = h.out /\ n.in = h.in
      /\ n.control = <<t>> /\ n.interrupt = h.interrupt /\ n.signals = h.signals
  BY <1>3, <1>4 DEF Handler
<1>6. o \in Submitted(n)
  BY <1>1, <1>3 DEF SubmitControl
<1>7. IsRunning(n)
  BY <1>5 DEF IsRunning
<1>8. OneControl(n)
  BY <1>2, <1>5 DEF OneControl
<1>9. <<t>> \in ControlOf({request})
  BY <1>1 DEF ControlOf, Places, InFlight
<1>10. \/ o = n
       \/ /\ GaveUp(o)
          /\ \E end \in {"Error", "DeviceDisconnected"} : o.signals = Append(n.signals, end)
  BY <1>5, <1>6, <1>7, SubmittedFields
<1> QED BY <1>1, <1>5, <1>8, <1>9, <1>10

(* The same for a bulk-IN transfer. *)
LEMMA SubmitBulkInFields ==
  ASSUME NEW h \in Handler, IsRunning(h), h.in = <<>>, NEW split \in Actions,
         NEW o \in SubmitBulkIn(h, split)
  PROVE  \/ GaveUp(o)
         \/ /\ o \in Handler /\ o.sm = h.sm /\ o.out = h.out
            /\ o.in = <<[at |-> "flying", split |-> split]>> /\ OneIn(o)
            /\ o.control = h.control
            /\ o.interrupt = h.interrupt /\ o.signals = h.signals
<1>1. PICK t : t = [at |-> "flying", split |-> split]
  OBVIOUS
<1>2. t \in BulkIn
  BY <1>1 DEF BulkIn, Places, InFlight
<1>3. PICK n : n = [h EXCEPT !.in = Append(@, t)]
  OBVIOUS
<1>4. Append(h.in, t) = <<t>> /\ <<t>> \in Seq(BulkIn)
  BY <1>2
<1>5. /\ n \in Handler /\ n.sm = h.sm /\ n.out = h.out /\ n.control = h.control
      /\ n.in = <<t>> /\ n.interrupt = h.interrupt /\ n.signals = h.signals
  BY <1>3, <1>4 DEF Handler
<1>6. o \in Submitted(n)
  BY <1>1, <1>3 DEF SubmitBulkIn
<1>7. IsRunning(n)
  BY <1>5 DEF IsRunning
<1>8. OneIn(n)
  BY <1>2, <1>5 DEF OneIn
<1> QED BY <1>1, <1>5, <1>6, <1>7, <1>8, SubmittedFields

(* A signal is queued. *)
LEMMA SignalFields ==
  ASSUME NEW h \in Handler, NEW s \in Signals, h.signals = <<>>, NEW o, o = Signal(h, s)
  PROVE  /\ o \in Handler /\ o.sm = h.sm /\ o.out = h.out /\ o.in = h.in
         /\ o.control = h.control /\ o.interrupt = h.interrupt
         /\ o.signals = <<s>>
<1>1. Append(h.signals, s) = <<s>> /\ <<s>> \in Seq(Signals)
  OBVIOUS
<1> QED BY <1>1 DEF Signal, Handler

(* The bulk-OUT transfer is cancelled. *)
LEMMA CancelOutFields ==
  ASSUME NEW h \in Handler, NEW split \in Actions, NEW o, o = CancelOut(h, split)
  PROVE  /\ o \in Handler /\ o.sm = h.sm /\ o.in = h.in /\ o.control = h.control
         /\ o.interrupt = h.interrupt /\ o.signals = h.signals
         /\ h.out = NoOut => o.out = NoOut
         /\ h.out # NoOut => o.out \in OutOf({h.out.msg})
<1>1. CASE h.out = NoOut
  BY <1>1 DEF CancelOut
<1>2. CASE h.out # NoOut
  <2>1. h.out \in BulkOut
    BY <1>2, HandlerFields
  <2>2. PICK b : b = [Cancelled(h.out) EXCEPT !.split = split]
    OBVIOUS
  <2>3. b \in BulkOut /\ b.msg = h.out.msg
    BY <2>1, <2>2 DEF BulkOut, Cancelled, Places, InFlight
  <2>4. b \in OutOf({h.out.msg})
    BY <2>3 DEF OutOf, BulkOut
  <2>5. o = [h EXCEPT !.out = b]
    BY <1>2, <2>2 DEF CancelOut
  <2> QED BY <1>2, <2>3, <2>4, <2>5 DEF Handler
<1> QED BY <1>1, <1>2

(* All bulk-IN transfers are cancelled: there is one at most. *)
LEMMA CancelInFields ==
  ASSUME NEW h \in Handler, OneIn(h), NEW split \in Actions, NEW o, o = CancelIn(h, split)
  PROVE  /\ o \in Handler /\ o.sm = h.sm /\ o.out = h.out /\ o.control = h.control
         /\ o.interrupt = h.interrupt /\ o.signals = h.signals
         /\ OneIn(o)
         /\ h.in = <<>> => o.in = <<>>
         /\ \A t \in BulkIn : h.in = <<t>> =>
              o.in = <<[at |-> IF t.at = "flying" THEN "cancelling" ELSE t.at,
                        split |-> split]>>
<1>1. PICK q : q = [i \in DOMAIN h.in |-> IF i = Len(h.in)
                                          THEN [Cancelled(h.in[i]) EXCEPT !.split = split]
                                          ELSE Cancelled(h.in[i])]
  OBVIOUS
<1>2. o = [h EXCEPT !.in = q]
  BY <1>1 DEF CancelIn
<1>3. CASE h.in = <<>>
  <2>1. q = <<>>
    BY <1>1, <1>3
  <2> QED BY <1>2, <1>3, <2>1 DEF Handler, OneIn
<1>4. ASSUME NEW t \in BulkIn, h.in = <<t>>
      PROVE  LET n == [at |-> IF t.at = "flying" THEN "cancelling" ELSE t.at, split |-> split]
             IN  n \in BulkIn /\ q = <<n>>
  <2>1. PICK n : n = [at |-> IF t.at = "flying" THEN "cancelling" ELSE t.at, split |-> split]
    OBVIOUS
  <2>2. n \in BulkIn
    BY <2>1 DEF BulkIn, Places, InFlight
  <2>3. PICK m : m = [Cancelled(t) EXCEPT !.split = split]
    OBVIOUS
  <2>4. m = n
    <3>1. PICK x : x = Cancelled(t)
      OBVIOUS
    <3>2. x = [at |-> IF t.at = "flying" THEN "cancelling" ELSE t.at, split |-> t.split]
      BY <3>1 DEF BulkIn, Cancelled
    <3>3. m = [x EXCEPT !.split = split]
      BY <2>3, <3>1
    <3> QED BY <2>1, <3>2, <3>3
  <2>5. DOMAIN h.in = 1 .. 1 /\ Len(h.in) = 1 /\ h.in[1] = t
    BY <1>4
  <2>6. q = [i \in 1 .. 1 |-> m]
    BY <1>1, <2>3, <2>5
  <2>7. q = <<n>>
    BY <2>2, <2>4, <2>6
  <2> QED BY <2>1, <2>2, <2>7
<1>5. ASSUME NEW t \in BulkIn, h.in = <<t>>
      PROVE  /\ o \in Handler /\ o.sm = h.sm /\ o.out = h.out /\ o.control = h.control
             /\ o.interrupt = h.interrupt /\ o.signals = h.signals
             /\ OneIn(o)
             /\ o.in = <<[at |-> IF t.at = "flying" THEN "cancelling" ELSE t.at,
                          split |-> split]>>
  <2>1. PICK n : n = [at |-> IF t.at = "flying" THEN "cancelling" ELSE t.at, split |-> split]
    OBVIOUS
  <2>2. n \in BulkIn /\ q = <<n>>
    BY <1>4, <1>5, <2>1
  <2>3. <<n>> \in Seq(BulkIn)
    BY <2>2
  <2>4. /\ o \in Handler /\ o.sm = h.sm /\ o.out = h.out /\ o.control = h.control
        /\ o.interrupt = h.interrupt /\ o.signals = h.signals /\ o.in = <<n>>
    BY <1>2, <2>2, <2>3 DEF Handler
  <2> QED BY <2>1, <2>2, <2>4 DEF OneIn
<1> QED BY <1>3, <1>5 DEF OneIn

(* What becomes of the pending transfer that called back. *)
InAt(h, p) == [h EXCEPT !.in[1].at = p]

(* The bulk-IN transfer that called back stays in the pending list.        *)
LEMMA InAtFields ==
  ASSUME NEW h \in Handler, NEW t \in BulkIn, h.in = <<t>>, NEW p \in Places,
         NEW o, o = InAt(h, p)
  PROVE  /\ o \in Handler /\ o.sm = h.sm /\ o.out = h.out /\ o.control = h.control
         /\ o.interrupt = h.interrupt /\ o.signals = h.signals
         /\ o.in = <<[at |-> p, split |-> t.split]>> /\ OneIn(o)
<1>1. PICK n : n = [at |-> p, split |-> t.split]
  OBVIOUS
<1>2. n \in BulkIn /\ n = [t EXCEPT !.at = p]
  BY <1>1 DEF BulkIn
<1>3. PICK q : q = [h.in EXCEPT ![1] = n]
  OBVIOUS
<1>4. q = <<n>> /\ <<n>> \in Seq(BulkIn)
  BY <1>2, <1>3
<1>5. h.in[1] = t
  OBVIOUS
<1>6. o = [h EXCEPT !.in = q]
  BY <1>2, <1>3, <1>5 DEF InAt
<1>7. /\ o \in Handler /\ o.sm = h.sm /\ o.out = h.out /\ o.control = h.control
      /\ o.interrupt = h.interrupt /\ o.signals = h.signals /\ o.in = <<n>>
  BY <1>4, <1>6 DEF Handler
<1> QED BY <1>1, <1>2, <1>7 DEF OneIn

(* The bulk-IN transfer that called back is given back to its pool.        *)
LEMMA InRestoredFields ==
  ASSUME NEW h \in Handler, NEW t \in BulkIn, h.in = <<t>>,
         NEW o, o = InRestored(h, 1)
  PROVE  /\ o \in Handler /\ o.sm = h.sm /\ o.out = h.out /\ o.control = h.control
         /\ o.interrupt = h.interrupt /\ o.signals = h.signals
         /\ o.in = <<>> /\ OneIn(o)
<1>1. RemoveAt(h.in, 1) = <<>> /\ <<>> \in Seq(BulkIn)
  BY DEF RemoveAt
<1>2. o = [h EXCEPT !.in = <<>>]
  BY <1>1 DEF InRestored
<1> QED BY <1>1, <1>2 DEF Handler, OneIn

(* The same for a control transfer. *)
LEMMA ControlRestoredFields ==
  ASSUME NEW h \in Handler, NEW t \in Control, h.control = <<t>>,
         NEW o, o = ControlRestored(h, 1)
  PROVE  /\ o \in Handler /\ o.sm = h.sm /\ o.out = h.out /\ o.in = h.in
         /\ o.interrupt = h.interrupt /\ o.signals = h.signals
         /\ o.control = <<>> /\ OneControl(o)
<1>1. RemoveAt(h.control, 1) = <<>> /\ <<>> \in Seq(Control)
  BY DEF RemoveAt
<1>2. o = [h EXCEPT !.control = <<>>]
  BY <1>1 DEF ControlRestored
<1> QED BY <1>1, <1>2 DEF Handler, OneControl

(* A control transfer that called back because the device is gone stays in *)
(* the pending list.                                                       *)
LEMMA ControlLeftFields ==
  ASSUME NEW h \in Handler, NEW t \in Control, h.control = <<t>>,
         NEW o, o = ControlLeft(h, 1)
  PROVE  /\ o \in Handler /\ o.sm = h.sm /\ o.out = h.out /\ o.in = h.in
         /\ o.interrupt = h.interrupt /\ o.signals = h.signals
         /\ OneControl(o) /\ o.control \in ControlOf({t.request})
<1>1. PICK n : n = [request |-> t.request, at |-> "left"]
  OBVIOUS
<1>2. n \in Control /\ n = [t EXCEPT !.at = "left"]
  BY <1>1 DEF Control, Places
<1>3. PICK q : q = [h.control EXCEPT ![1] = n]
  OBVIOUS
<1>4. q = <<n>> /\ <<n>> \in Seq(Control)
  BY <1>2, <1>3
<1>5. h.control[1] = t
  OBVIOUS
<1>6. o = [h EXCEPT !.control = q]
  BY <1>2, <1>3, <1>5 DEF ControlLeft
<1>7. /\ o \in Handler /\ o.sm = h.sm /\ o.out = h.out /\ o.in = h.in
      /\ o.interrupt = h.interrupt /\ o.signals = h.signals /\ o.control = <<n>>
  BY <1>4, <1>6 DEF Handler
<1>8. <<n>> \in ControlOf({t.request})
  BY <1>1 DEF ControlOf, Places
<1> QED BY <1>2, <1>7, <1>8 DEF OneControl

(* A control transfer is used again for the next request. *)
LEMMA NextRequestFields ==
  ASSUME NEW h \in Handler, IsRunning(h), NEW t \in Control, h.control = <<t>>,
         NEW request \in Requests, NEW o \in NextRequest(h, 1, request)
  PROVE  \/ GaveUp(o)
         \/ /\ o \in Handler /\ o.sm = h.sm /\ o.out = h.out /\ o.in = h.in
            /\ o.interrupt = h.interrupt /\ o.signals = h.signals
            /\ OneControl(o) /\ o.control \in ControlOf({request})
<1>1. PICK n : n = [request |-> request, at |-> t.at]
  OBVIOUS
<1>2. n \in Control /\ n = [t EXCEPT !.request = request]
  BY <1>1 DEF Control
<1>3. PICK q : q = [h.control EXCEPT ![1] = n]
  OBVIOUS
<1>4. q = <<n>> /\ <<n>> \in Seq(Control)
  BY <1>2, <1>3
<1>5. h.control[1] = t
  OBVIOUS
<1>6. PICK m : m = [h EXCEPT !.control = q]
  OBVIOUS
<1>7. [h EXCEPT !.control[1].request = request] = m
  BY <1>2, <1>3, <1>5, <1>6
<1>8. /\ m \in Handler /\ m.sm = h.sm /\ m.out = h.out /\ m.in = h.in
      /\ m.interrupt = h.interrupt /\ m.signals = h.signals /\ m.control = <<n>>
  BY <1>4, <1>6 DEF Handler
<1>9. o \in Submitted(m)
  BY <1>7 DEF NextRequest
<1>10. IsRunning(m)
  BY <1>8 DEF IsRunning
<1>11. <<n>> \in ControlOf({request})
  BY <1>1, <1>2 DEF ControlOf, Control
<1>12. o = m \/ GaveUp(o)
  BY <1>8, <1>9, <1>10, SubmittedFields
<1> QED BY <1>2, <1>8, <1>11, <1>12 DEF OneControl

(* The bulk-OUT transfer that called back stays pending. *)
LEMMA OutLeftFields ==
  ASSUME NEW h \in Handler, h.out \in BulkOut, NEW o, o = OutLeft(h)
  PROVE  /\ o \in Handler /\ o.sm = h.sm /\ o.in = h.in /\ o.control = h.control
         /\ o.interrupt = h.interrupt /\ o.signals = h.signals
         /\ o.out \in OutOf({h.out.msg}) /\ o.out.msg = h.out.msg /\ o.out # NoOut
<1>1. PICK b : b = [h.out EXCEPT !.at = "left"]
  OBVIOUS
<1>2. b \in BulkOut /\ b.msg = h.out.msg /\ b \in OutOf({h.out.msg}) /\ b # NoOut
  BY <1>1 DEF BulkOut, OutOf, Places, NoOut
<1>3. o = [h EXCEPT !.out = b]
  BY <1>1 DEF OutLeft
<1> QED BY <1>2, <1>3 DEF Handler

(* Another state of the machine. *)
LEMMA StateFields ==
  ASSUME NEW h \in Handler, NEW sm \in MachineStates, NEW o, o = [h EXCEPT !.sm = sm]
  PROVE  /\ o \in Handler /\ o.sm = sm /\ o.out = h.out /\ o.in = h.in
         /\ o.control = h.control /\ o.interrupt = h.interrupt /\ o.signals = h.signals
BY DEF Handler

-----------------------------------------------------------------------------
(* What an action of the USB thread makes of the handler.                  *)

(* What a machine that runs may become. *)
Goes(h, c, s) == HandlerFits(h, c, s) /\ h.sm \notin {"Stopping", "Stopped"}

(* A machine that gives up fits whatever the call waits for. *)
LEMMA GaveUpGoes ==
  ASSUME NEW h, GaveUp(h), NEW c, NEW s
  PROVE  Goes(h, c, s)
BY GaveUpFits DEF Goes, GaveUp

(* A machine that goes on has to be in the phase of the call. *)
LEMMA RunningGoes ==
  ASSUME NEW h \in Handler, OneIn(h), OneControl(h), IsRunning(h),
         NEW c, NEW s, Phase(h, c, s)
  PROVE  Goes(h, c, s)
<1>1. h.sm \notin EndStates \cup {"Closed", "Stopping"}
  BY DEF IsRunning, RunningStates, EndStates
<1> QED BY <1>1 DEF Goes, HandlerFits, EndStates

(* No transfer that libusb has is pending between the calls. *)
LEMMA RestingIsIdle ==
  ASSUME NEW h \in Handler, Resting(h)
  PROVE  /\ h.out = NoOut /\ h.control = <<>>
         /\ \A i \in DOMAIN h.in : h.in[i].at = "left"
BY DEF Resting, Quiet, Unread, LeftIn

(* A transfer whose status is one the handler does not handle ends the     *)
(* machine; so does one that libusb refuses.                               *)
LEMMA ErrorGoes ==
  ASSUME NEW h \in Handler, IsRunning(h), NEW c, NEW s
  PROVE  Goes(ErrorOccured(h, "Error"), c, s)
BY ErrorFields, GaveUpGoes

(* The bulk-OUT transfer ends: only a command or a query that is under way *)
(* has one.                                                                *)
LEMMA RunningOut ==
  ASSUME NEW h \in Handler, OneIn(h), OneControl(h), IsRunning(h),
         NEW c, NEW s, Phase(h, c, s), c.at = "wait" => c.op \in Ops,
         h.out.at \in InFlight,
         NEW status \in {"completed", "error", "gone", "stall", "cancelled"},
         NEW o \in BulkOutCompleted(h, status)
  PROVE  Goes(o, c, s)
<1>1. h.out # NoOut /\ h.out \in BulkOut
  BY HandlerFields DEF NoOut, InFlight
<1>2. c.at = "wait"
  BY <1>1, RestingIsIdle DEF Phase
<1>3. ~ClearPhase(h, s)
  BY <1>1 DEF ClearPhase, Quiet
<1>4. CASE c.op = "command"
  <2>1. CommandPhase(h, s)
    BY <1>2, <1>4 DEF Phase
  <2>2. /\ Untold(h, s) /\ h.sm = "Processing" /\ h.control = <<>>
        /\ Unread(h) /\ h.out \in OutOf({"command"})
    BY <1>1, <2>1 DEF CommandPhase, Quiet
  <2>3. h.out.msg = "command"
    BY <2>2 DEF OutOf
  <2>4. o \in HandleBulkOut(h, status)
    BY <2>2 DEF BulkOutCompleted
  <2>5. ASSUME NEW n \in Handler, n.sm = h.sm, n.in = h.in, n.control = h.control,
               CommandPhase(n, s)
        PROVE  Goes(n, c, s)
    <3>1. IsRunning(n) /\ OneIn(n) /\ OneControl(n)
      BY <2>5 DEF IsRunning, OneIn, OneControl
    <3>2. Phase(n, c, s)
      BY <1>2, <1>4, <2>5 DEF Phase
    <3> QED BY <3>1, <3>2, RunningGoes
  <2>6. ASSUME NEW n \in Handler, n.sm = h.sm, n.in = h.in, n.control = h.control,
               n.signals = h.signals, n.out \in OutOf({"command"})
        PROVE  Goes(n, c, s)
    BY <2>2, <2>5, <2>6 DEF CommandPhase, Untold, Unread
  <2>7. CASE status = "completed"
    <3>1. PICK r : r = [h EXCEPT !.out = NoOut]
      OBVIOUS
    <3>2. /\ r \in Handler /\ r.sm = h.sm /\ r.out = NoOut /\ r.in = h.in
          /\ r.control = h.control /\ r.signals = h.signals
      BY <3>1 DEF Handler
    <3>3. o = Signal(r, "Done")
      BY <2>3, <2>4, <2>7, <3>1 DEF HandleBulkOut
    <3>4. r.signals = <<>> /\ "Done" \in Signals
      BY <2>2, <3>2 DEF Untold, Signals
    <3>5. /\ o \in Handler /\ o.sm = h.sm /\ o.out = NoOut /\ o.in = h.in
          /\ o.control = h.control /\ o.signals = <<"Done">>
      BY <3>2, <3>3, <3>4, SignalFields
    <3>6. CommandPhase(o, s)
      BY <2>2, <3>5 DEF CommandPhase, Quiet, Unread, Told, Untold
    <3> QED BY <2>5, <3>5, <3>6
  <2>8. PICK l : l = OutLeft(h)
    OBVIOUS
  <2>9. /\ l \in Handler /\ l.sm = h.sm /\ l.in = h.in /\ l.control = h.control
        /\ l.signals = h.signals
        /\ l.out \in OutOf({"command"}) /\ l.out.msg = "command" /\ l.out # NoOut
    BY <1>1, <2>3, <2>8, OutLeftFields
  <2>10. CASE status = "stall"
    <3>1. o = CancelOut(l, "CLEAR_ENDPOINT_HALT")
      BY <2>4, <2>8, <2>10 DEF HandleBulkOut
    <3>2. "CLEAR_ENDPOINT_HALT" \in Actions
      BY DEF Actions
    <3>3. /\ o \in Handler /\ o.sm = l.sm /\ o.in = l.in /\ o.control = l.control
          /\ o.signals = l.signals /\ o.out \in OutOf({l.out.msg})
      BY <2>9, <3>1, <3>2, CancelOutFields
    <3> QED BY <2>6, <2>9, <3>3
  <2>11. CASE status = "gone"
    BY <2>4, <2>6, <2>8, <2>9, <2>11 DEF HandleBulkOut
  <2>12. CASE status \in {"error", "cancelled"}
    BY <2>4, <2>12, ErrorGoes DEF HandleBulkOut
  <2> QED BY <2>7, <2>10, <2>11, <2>12
<1>5. CASE c.op = "query"
  <2>1. QueryPhase(h, s)
    BY <1>2, <1>5 DEF Phase
  <2>2. /\ Untold(h, s) /\ h.sm = "Processing" /\ h.control = <<>>
        /\ h.in = <<>> /\ h.out \in OutOf({"query", "request"})
    BY <1>1, <2>1 DEF QueryPhase, Quiet
  <2>3. h.out.msg \in {"query", "request"}
    BY <2>2 DEF OutOf
  <2>4. o \in HandleBulkOut(h, status)
    BY <2>2 DEF BulkOutCompleted
  <2>5. ASSUME NEW n \in Handler, n.sm = h.sm, OneIn(n), n.control = h.control,
               QueryPhase(n, s)
        PROVE  Goes(n, c, s)
    <3>1. IsRunning(n) /\ OneControl(n)
      BY <2>5 DEF IsRunning, OneControl
    <3>2. Phase(n, c, s)
      BY <1>2, <1>5, <2>5 DEF Phase
    <3> QED BY <2>5, <3>1, <3>2, RunningGoes
  <2>6. ASSUME NEW n \in Handler, n.sm = h.sm, n.in = h.in, n.control = h.control,
               n.signals = h.signals, n.out \in OutOf({"query", "request"})
        PROVE  Goes(n, c, s)
    <3>1. OneIn(n)
      BY <2>6 DEF OneIn
    <3>2. QueryPhase(n, s)
      BY <2>2, <2>6 DEF QueryPhase, Untold
    <3> QED BY <2>5, <2>6, <3>1, <3>2
  <2>7. CASE status = "completed" /\ h.out.msg = "query"
    <3>1. PICK b : b = [msg |-> "request", at |-> "flying", split |-> "NoAction"]
      OBVIOUS
    <3>2. b \in BulkOut /\ b \in OutOf({"query", "request"})
      BY <3>1 DEF BulkOut, OutOf, Places, InFlight, Actions
    <3>3. PICK r : r = [h EXCEPT !.out = b]
      OBVIOUS
    <3>4. /\ r \in Handler /\ r.sm = h.sm /\ r.out = b /\ r.in = h.in
          /\ r.control = h.control /\ r.signals = h.signals
      BY <3>2, <3>3 DEF Handler
    <3>5. o \in Submitted(r)
      BY <2>4, <2>7, <3>1, <3>3 DEF HandleBulkOut
    <3>6. IsRunning(r)
      BY <3>4 DEF IsRunning
    <3>7. o = r \/ GaveUp(o)
      BY <3>4, <3>5, <3>6, SubmittedFields
    <3> QED BY <2>6, <3>2, <3>4, <3>7, GaveUpGoes
  <2>8. CASE status = "completed" /\ h.out.msg = "request"
    <3>1. PICK r : r = [h EXCEPT !.out = NoOut]
      OBVIOUS
    <3>2. /\ r \in Handler /\ r.sm = h.sm /\ r.out = NoOut /\ r.in = h.in
          /\ r.control = h.control /\ r.signals = h.signals
      BY <3>1 DEF Handler
    <3>3. o \in SubmitBulkIn(r, "NoAction")
      BY <2>4, <2>8, <3>1 DEF HandleBulkOut
    <3>4. IsRunning(r) /\ r.in = <<>> /\ "NoAction" \in Actions
      BY <2>2, <3>2 DEF IsRunning, Actions
    <3>5. \/ GaveUp(o)
          \/ /\ o \in Handler /\ o.sm = r.sm /\ o.out = r.out
             /\ o.in = <<[at |-> "flying", split |-> "NoAction"]>> /\ OneIn(o)
             /\ o.control = r.control /\ o.signals = r.signals
      BY <3>2, <3>3, <3>4, SubmitBulkInFields
    <3>6. CASE /\ o \in Handler /\ o.sm = r.sm /\ o.out = r.out
               /\ o.in = <<[at |-> "flying", split |-> "NoAction"]>> /\ OneIn(o)
               /\ o.control = r.control /\ o.signals = r.signals
      <4>1. Untold(o, s) /\ Quiet(o)
        BY <2>2, <3>2, <3>6 DEF Untold, Quiet
      <4>2. \E p \in Places : o.in = <<[at |-> p, split |-> "NoAction"]>>
        BY <3>6 DEF Places, InFlight
      <4>3. QueryPhase(o, s)
        BY <4>1, <4>2 DEF QueryPhase
      <4> QED BY <2>5, <3>2, <3>6, <4>3
    <3> QED BY <3>5, <3>6, GaveUpGoes
  <2>9. PICK l : l = OutLeft(h)
    OBVIOUS
  <2>10. /\ l \in Handler /\ l.sm = h.sm /\ l.in = h.in /\ l.control = h.control
         /\ l.signals = h.signals
         /\ l.out \in OutOf({h.out.msg}) /\ l.out.msg = h.out.msg /\ l.out # NoOut
    BY <1>1, <2>9, OutLeftFields
  <2>11. OutOf({h.out.msg}) \subseteq OutOf({"query", "request"})
    BY <2>3 DEF OutOf
  <2>12. CASE status = "stall"
    <3>1. o = CancelOut(l, "CLEAR_ENDPOINT_HALT")
      BY <2>4, <2>9, <2>12 DEF HandleBulkOut
    <3>2. "CLEAR_ENDPOINT_HALT" \in Actions
      BY DEF Actions
    <3>3. /\ o \in Handler /\ o.sm = l.sm /\ o.in = l.in /\ o.control = l.control
          /\ o.signals = l.signals /\ o.out \in OutOf({l.out.msg})
      BY <2>10, <3>1, <3>2, CancelOutFields
    <3> QED BY <2>6, <2>10, <2>11, <3>3
  <2>13. CASE status = "gone"
    BY <2>4, <2>6, <2>9, <2>10, <2>11, <2>13 DEF HandleBulkOut
  <2>14. CASE status \in {"error", "cancelled"}
    BY <2>4, <2>14, ErrorGoes DEF HandleBulkOut
  <2> QED BY <2>3, <2>7, <2>8, <2>12, <2>13, <2>14
<1>6. c.op \in {"command", "query", "clear"}
  BY <1>2 DEF Ops
<1> QED BY <1>2, <1>3, <1>4, <1>5, <1>6 DEF Phase

(* A bulk-IN transfer ends while bulk I/O is cleared: it is restored, and  *)
(* what follows is the request its split action names.                     *)
LEMMA ClearingIn ==
  ASSUME NEW h \in Handler, OneIn(h), OneControl(h), NEW s, ClearPhase(h, s),
         NEW c, c.at = "wait", c.op = "clear",
         NEW t \in BulkIn, h.in = <<t>>,
         NEW status \in {"completed", "error", "gone", "stall", "cancelled"},
         NEW o \in BulkInCompleted(h, 1, status)
  PROVE  Goes(o, c, s)
<1>1. /\ Untold(h, s) /\ h.out = NoOut
      /\ h.sm = "ClearingBulkIo" /\ h.control = <<>>
      /\ t.split \in {"INITIATE_CLEAR", "CHECK_CLEAR_STATUS"}
  BY DEF ClearPhase
<1>2. IsRunning(h) /\ h.in[1] = t
  BY <1>1 DEF IsRunning, RunningStates
<1>3. o \in RestoreBulkIn(h, 1, status)
  BY <1>1 DEF BulkInCompleted
<1>4. ASSUME NEW n \in Handler, OneIn(n), OneControl(n), n.sm = h.sm, ClearPhase(n, s)
      PROVE  Goes(n, c, s)
  <2>1. IsRunning(n)
    BY <1>2, <1>4 DEF IsRunning
  <2>2. Phase(n, c, s)
    BY <1>4 DEF Phase
  <2> QED BY <1>4, <2>1, <2>2, RunningGoes
<1>5. CASE status = "gone"
  <2>1. o = InLeft(h, 1)
    BY <1>3, <1>5 DEF RestoreBulkIn
  <2>2. o = InAt(h, "left") /\ "left" \in Places
    BY <2>1 DEF InLeft, InAt, Places
  <2>3. /\ o \in Handler /\ o.sm = h.sm /\ o.out = h.out /\ o.control = h.control
        /\ o.signals = h.signals
        /\ o.in = <<[at |-> "left", split |-> t.split]>> /\ OneIn(o)
    BY <2>2, InAtFields
  <2>4. [at |-> "left", split |-> t.split] \in BulkIn
    BY DEF BulkIn, Places
  <2>5. ClearPhase(o, s)
    BY <1>1, <2>3, <2>4 DEF ClearPhase, Untold
  <2>6. OneControl(o)
    BY <1>1, <2>3 DEF OneControl
  <2> QED BY <1>4, <2>3, <2>5, <2>6
<1>6. CASE status \in {"stall", "error"}
  <2>1. o = ErrorOccured(h, "Error")
    BY <1>3, <1>6 DEF RestoreBulkIn
  <2> QED BY <1>2, <2>1, ErrorGoes
<1>7. CASE status \in {"completed", "cancelled"}
  <2>1. PICK r : r = InRestored(h, 1)
    OBVIOUS
  <2>2. /\ r \in Handler /\ r.sm = h.sm /\ r.out = h.out /\ r.control = h.control
        /\ r.signals = h.signals /\ r.in = <<>> /\ OneIn(r)
    BY <2>1, InRestoredFields
  <2>3. IsRunning(r) /\ r.control = <<>>
    BY <1>1, <1>2, <2>2 DEF IsRunning
  <2>4. CASE t.split = "INITIATE_CLEAR"
    <3>1. o \in SubmitControl(r, "INITIATE_CLEAR")
      BY <1>2, <1>3, <1>7, <2>1, <2>2, <2>4 DEF RestoreBulkIn
    <3>2. "INITIATE_CLEAR" \in Requests
      BY DEF Requests
    <3>3. \/ GaveUp(o)
          \/ /\ o \in Handler /\ o.sm = r.sm /\ o.out = r.out /\ o.in = r.in
             /\ OneControl(o) /\ o.control \in ControlOf({"INITIATE_CLEAR"})
             /\ o.signals = r.signals
      BY <2>2, <2>3, <3>1, <3>2, SubmitControlFields
    <3>4. CASE /\ o \in Handler /\ o.sm = r.sm /\ o.out = r.out /\ o.in = r.in
               /\ OneControl(o) /\ o.control \in ControlOf({"INITIATE_CLEAR"})
               /\ o.signals = r.signals
      <4>1. o.control \in ControlOf({"INITIATE_CLEAR", "CHECK_CLEAR_STATUS"})
        BY <3>4 DEF ControlOf
      <4>2. ClearPhase(o, s)
        BY <1>1, <2>2, <3>4, <4>1 DEF ClearPhase, Untold
      <4>3. OneIn(o)
        BY <2>2, <3>4 DEF OneIn
      <4> QED BY <1>4, <2>2, <3>4, <4>2, <4>3
    <3> QED BY <3>3, <3>4, GaveUpGoes
  <2>5. CASE t.split = "CHECK_CLEAR_STATUS"
    <3>1. o \in ClearInHaltRequested(r)
      BY <1>2, <1>3, <1>7, <2>1, <2>2, <2>5 DEF RestoreBulkIn
    <3>2. o = r
      BY <1>1, <2>2, <3>1 DEF ClearInHaltRequested
    <3>3. ClearPhase(o, s)
      BY <1>1, <2>2, <3>2 DEF ClearPhase, Untold
    <3>4. OneControl(o)
      BY <2>3, <3>2 DEF OneControl
    <3> QED BY <1>4, <2>2, <3>2, <3>3, <3>4
  <2> QED BY <1>1, <2>4, <2>5
<1> QED BY <1>5, <1>6, <1>7

(* The transfer of an answer ends. *)
LEMMA AnsweringIn ==
  ASSUME NEW h \in Handler, OneIn(h), OneControl(h), NEW s, QueryPhase(h, s),
         NEW c, c.at = "wait", c.op = "query", Untold(h, s),
         NEW t \in BulkIn, h.in = <<t>>, t.at \in InFlight,
         NEW status \in {"completed", "error", "gone", "stall", "cancelled"},
         NEW o \in BulkInCompleted(h, 1, status)
  PROVE  Goes(o, c, s)
<1>1. Quiet(h) /\ t = [at |-> t.at, split |-> "NoAction"]
  <2>1. t.at # "left" /\ t.at # "answer"
    BY DEF InFlight
  <2>2. ASSUME NEW p, NEW a, h.in = <<[at |-> p, split |-> a]>>
        PROVE  t = [at |-> p, split |-> a] /\ t.at = p
    BY <2>2
  <2>3. h.in # AnswerIn
    BY <2>1, <2>2 DEF AnswerIn
  <2>4. \A a : h.in # LeftIn(a)
    BY <2>1, <2>2 DEF LeftIn
  <2>5. h.in # <<>>
    OBVIOUS
  <2>6. /\ Quiet(h)
        /\ \E p \in Places : h.in = <<[at |-> p, split |-> "NoAction"]>>
    BY <2>3, <2>4, <2>5 DEF QueryPhase
  <2> QED BY <2>2, <2>6
<1>2. h.sm = "Processing" /\ IsRunning(h) /\ h.in[1] = t /\ t.split = "NoAction"
  BY <1>1 DEF IsRunning, RunningStates, Quiet
<1>3. o \in HandleBulkIn(h, 1, status)
  BY <1>2 DEF BulkInCompleted
<1>4. ASSUME NEW n \in Handler, OneIn(n), OneControl(n), IsRunning(n), QueryPhase(n, s)
      PROVE  Goes(n, c, s)
  <2>1. Phase(n, c, s)
    BY <1>4 DEF Phase
  <2> QED BY <1>4, <2>1, RunningGoes
<1>5. ASSUME NEW n \in Handler, OneIn(n), n.sm = h.sm, n.out = h.out,
             n.control = h.control, n.signals = h.signals,
             \/ \E p \in Places : n.in = <<[at |-> p, split |-> "NoAction"]>>
             \/ n.in = LeftIn("CLEAR_ENDPOINT_HALT")
      PROVE  Goes(n, c, s)
  <2>1. IsRunning(n) /\ OneControl(n)
    BY <1>2, <1>5 DEF IsRunning, OneControl
  <2>2. Untold(n, s) /\ Quiet(n)
    BY <1>1, <1>5 DEF Untold, Quiet
  <2>3. QueryPhase(n, s)
    BY <1>5, <2>2 DEF QueryPhase
  <2> QED BY <1>4, <1>5, <2>1, <2>3
<1>6. PICK l : l = InLeft(h, 1)
  OBVIOUS
<1>7. /\ l \in Handler /\ l.sm = h.sm /\ l.out = h.out /\ l.control = h.control
      /\ l.signals = h.signals
      /\ l.in = <<[at |-> "left", split |-> "NoAction"]>> /\ OneIn(l)
  <2>1. l = InAt(h, "left") /\ "left" \in Places
    BY <1>6 DEF InLeft, InAt, Places
  <2> QED BY <1>2, <2>1, InAtFields
<1>8. CASE status = "completed"
  <2>1. PICK a : a = InAt(h, "answer")
    OBVIOUS
  <2>2. "answer" \in Places
    BY DEF Places
  <2>3. /\ a \in Handler /\ a.sm = h.sm /\ a.out = h.out /\ a.control = h.control
        /\ a.signals = h.signals
        /\ a.in = <<[at |-> "answer", split |-> "NoAction"]>> /\ OneIn(a)
    BY <1>2, <2>1, <2>2, InAtFields
  <2>4. \/ o = Signal(a, "Done")
        \/ o = a
        \/ "tag" \in faults /\ o \in AbortBulkInRequested(l)
    BY <1>3, <1>6, <1>8, <2>1 DEF HandleBulkIn, InAt
  <2>5. CASE o = Signal(a, "Done")
    <3>1. a.signals = <<>> /\ "Done" \in Signals
      BY <2>3 DEF Untold, Signals
    <3>2. /\ o \in Handler /\ o.sm = a.sm /\ o.out = a.out /\ o.in = a.in
          /\ o.control = a.control /\ o.signals = <<"Done">>
      BY <2>3, <2>5, <3>1, SignalFields
    <3>3. Quiet(o) /\ o.in = AnswerIn /\ Told(o, s, "Done")
      BY <1>1, <2>3, <3>2 DEF Quiet, AnswerIn, Told, Untold
    <3>4. IsRunning(o) /\ OneIn(o) /\ OneControl(o)
      BY <1>2, <2>3, <3>2 DEF IsRunning, OneIn, OneControl
    <3>5. QueryPhase(o, s)
      BY <3>3 DEF QueryPhase
    <3> QED BY <1>4, <3>2, <3>4, <3>5
  <2>6. CASE o = a
    BY <1>5, <2>2, <2>3, <2>6
  <2>7. CASE "tag" \in faults /\ o \in AbortBulkInRequested(l)
    <3>1. l.out = NoOut /\ l.control = <<>> /\ l.sm = "Processing"
      BY <1>1, <1>7 DEF Quiet
    <3>2. PICK n : n = [l EXCEPT !.sm = "AbortingBulkIn",
                                 !.out = IF @.msg = "query" THEN Cancelled(@) ELSE @]
      OBVIOUS
    <3>3. "AbortingBulkIn" \in MachineStates /\ l.out.msg # "query"
      BY <3>1 DEF MachineStates, RunningStates, NoOut
    <3>4. /\ n \in Handler /\ n.sm = "AbortingBulkIn" /\ n.out = NoOut /\ n.in = l.in
          /\ n.control = <<>> /\ n.signals = h.signals
      BY <1>7, <3>1, <3>2, <3>3 DEF Handler
    <3>5. o \in SubmitControl(n, "INITIATE_ABORT_BULK_IN")
      BY <2>7, <3>1, <3>2 DEF AbortBulkInRequested
    <3>6. IsRunning(n) /\ "INITIATE_ABORT_BULK_IN" \in Requests
      BY <3>4 DEF IsRunning, RunningStates, Requests
    <3>7. \/ GaveUp(o)
          \/ /\ o \in Handler /\ o.sm = n.sm /\ o.out = n.out /\ o.in = n.in
             /\ OneControl(o) /\ o.control \in ControlOf({"INITIATE_ABORT_BULK_IN"})
             /\ o.signals = n.signals
      BY <3>4, <3>5, <3>6, SubmitControlFields
    <3>8. CASE /\ o \in Handler /\ o.sm = n.sm /\ o.out = n.out /\ o.in = n.in
               /\ OneControl(o) /\ o.control \in ControlOf({"INITIATE_ABORT_BULK_IN"})
               /\ o.signals = n.signals
      <4>1. ~Recovers
        BY <2>7 DEF Recovers
      <4>2. IsRunning(o) /\ OneIn(o)
        BY <1>7, <3>4, <3>6, <3>8 DEF IsRunning, OneIn
      <4>3. /\ Untold(o, s) /\ o.sm = "AbortingBulkIn" /\ o.out = NoOut
            /\ o.in = LeftIn("NoAction")
        BY <1>7, <3>4, <3>8 DEF Untold, LeftIn
      <4>4. QueryPhase(o, s)
        BY <3>8, <4>1, <4>3 DEF QueryPhase
      <4> QED BY <1>4, <3>8, <4>2, <4>4
    <3> QED BY <3>7, <3>8, GaveUpGoes
  <2> QED BY <2>4, <2>5, <2>6, <2>7
<1>9. CASE status = "stall"
  <2>1. o = CancelIn(l, "CLEAR_ENDPOINT_HALT")
    BY <1>3, <1>6, <1>9 DEF HandleBulkIn
  <2>2. "CLEAR_ENDPOINT_HALT" \in Actions
    BY DEF Actions
  <2>3. PICK b : b = [at |-> "left", split |-> "NoAction"]
    OBVIOUS
  <2>4. b \in BulkIn /\ l.in = <<b>> /\ b.at = "left"
    BY <1>7, <2>3 DEF BulkIn, Places, Actions
  <2>5. /\ o \in Handler /\ o.sm = l.sm /\ o.out = l.out /\ o.control = l.control
        /\ o.signals = l.signals /\ OneIn(o)
    BY <1>7, <2>1, <2>2, CancelInFields
  <2>6. o.in = <<[at |-> IF b.at = "flying" THEN "cancelling" ELSE b.at,
                  split |-> "CLEAR_ENDPOINT_HALT"]>>
    BY <1>7, <2>1, <2>2, <2>4, CancelInFields
  <2>7. o.in = LeftIn("CLEAR_ENDPOINT_HALT")
    BY <2>4, <2>6 DEF LeftIn
  <2> QED BY <1>5, <1>7, <2>5, <2>7
<1>10. CASE status = "gone"
  <2>1. o = l
    BY <1>3, <1>6, <1>10 DEF HandleBulkIn
  <2>2. "left" \in Places
    BY DEF Places
  <2> QED BY <1>5, <1>7, <2>1, <2>2
<1>11. CASE status \in {"error", "cancelled"}
  <2>1. o = ErrorOccured(h, "Error")
    BY <1>3, <1>11 DEF HandleBulkIn
  <2> QED BY <1>2, <2>1, ErrorGoes
<1> QED BY <1>8, <1>9, <1>10, <1>11

(* A split action is done: the call is told that its transaction aborted.  *)
LEMMA SplitDoneFields ==
  ASSUME NEW h \in Handler, h.sm \in {"AbortingBulkIn", "ClearingBulkIo"},
         h.signals = <<>>, NEW o, o = SplitActionDone(h)
  PROVE  /\ o \in Handler /\ o.sm = "Processing" /\ o.out = h.out /\ o.in = h.in
         /\ o.control = h.control /\ o.interrupt = h.interrupt
         /\ o.signals = <<"Aborted">>
<1>1. PICK n : n = [h EXCEPT !.sm = "Processing"]
  OBVIOUS
<1>2. "Processing" \in MachineStates /\ "Aborted" \in Signals
  BY DEF MachineStates, RunningStates, Signals
<1>3. /\ n \in Handler /\ n.sm = "Processing" /\ n.out = h.out /\ n.in = h.in
      /\ n.control = h.control /\ n.interrupt = h.interrupt /\ n.signals = h.signals
  BY <1>1, <1>2, StateFields
<1>4. o = Signal(n, "Aborted")
  BY <1>1 DEF SplitActionDone
<1> QED BY <1>2, <1>3, <1>4, SignalFields

(* A control request of the clearing of bulk I/O is answered. *)
LEMMA ClearingControl ==
  ASSUME NEW h \in Handler, OneIn(h), OneControl(h), NEW s, ClearPhase(h, s),
         NEW c, c.at = "wait", c.op = "clear",
         NEW t \in Control, h.control = <<t>>,
         NEW status \in {"completed", "error", "gone", "stall", "cancelled"},
         NEW answer \in Answers(t.request),
         NEW o \in ControlCompleted(h, 1, status, answer)
  PROVE  Goes(o, c, s)
<1>1. h.control[1] = t /\ h.control # <<>>
  OBVIOUS
<1>2. ASSUME NEW requests, h.control \in ControlOf(requests)
      PROVE  t.request \in requests
  BY <1>1, <1>2 DEF ControlOf
<1>3. /\ Untold(h, s) /\ h.out = NoOut /\ h.in = <<>>
      /\ \/ h.sm = "ClearingBulkIo" /\ t.request \in {"INITIATE_CLEAR", "CHECK_CLEAR_STATUS"}
         \/ h.sm = "ClearingBulkOutEndpointHalt" /\ t.request = "CLEAR_FEATURE"
  BY <1>1, <1>2 DEF ClearPhase, Quiet
<1>4. IsRunning(h) /\ h.sm # "Stopping"
  BY <1>3 DEF IsRunning, RunningStates
<1>5. ASSUME NEW n \in Handler, OneIn(n), OneControl(n), IsRunning(n), ClearPhase(n, s)
      PROVE  Goes(n, c, s)
  <2>1. Phase(n, c, s)
    BY <1>5 DEF Phase
  <2> QED BY <1>5, <2>1, RunningGoes
<1>6. ASSUME NEW n \in Handler, n.sm = h.sm, n.out = h.out, n.in = h.in,
             n.signals = h.signals, OneControl(n),
             NEW request, n.control \in ControlOf({request}),
             \/ h.sm = "ClearingBulkIo" /\ request \in {"INITIATE_CLEAR", "CHECK_CLEAR_STATUS"}
             \/ h.sm = "ClearingBulkOutEndpointHalt" /\ request = "CLEAR_FEATURE"
      PROVE  Goes(n, c, s)
  <2>1. IsRunning(n) /\ OneIn(n) /\ Untold(n, s)
    BY <1>3, <1>4, <1>6 DEF IsRunning, OneIn, Untold
  <2>2. \/ /\ h.sm = "ClearingBulkIo"
           /\ n.control \in ControlOf({"INITIATE_CLEAR", "CHECK_CLEAR_STATUS"})
        \/ /\ h.sm = "ClearingBulkOutEndpointHalt"
           /\ n.control \in ControlOf({"CLEAR_FEATURE"})
    BY <1>6 DEF ControlOf
  <2>3. ClearPhase(n, s)
    BY <1>3, <1>6, <2>1, <2>2 DEF ClearPhase
  <2> QED BY <1>5, <1>6, <2>1, <2>3
<1>7. t = [request |-> t.request, at |-> t.at] /\ t.at \in Places
  BY DEF Control
<1>8. Goes(h, c, s)
  <2>1. h.control \in ControlOf({t.request})
    BY <1>7 DEF ControlOf
  <2> QED BY <1>3, <1>6, <2>1
<1>9. CASE status = "gone"
  <2>1. o = ControlLeft(h, 1)
    BY <1>4, <1>9 DEF ControlCompleted
  <2>2. /\ o \in Handler /\ o.sm = h.sm /\ o.out = h.out /\ o.in = h.in
        /\ o.signals = h.signals
        /\ OneControl(o) /\ o.control \in ControlOf({t.request})
    BY <2>1, ControlLeftFields
  <2> QED BY <1>3, <1>6, <2>2
<1>10. CASE status \in {"error", "stall", "cancelled"}
  <2>1. o = ErrorOccured(h, "Error")
    BY <1>4, <1>10 DEF ControlCompleted
  <2> QED BY <1>4, <2>1, ErrorGoes
<1>11. CASE status = "completed"
  <2>1. o \in ControlAnswered(h, 1, answer)
    BY <1>4, <1>11 DEF ControlCompleted
  <2>2. PICK r : r = ControlRestored(h, 1)
    OBVIOUS
  <2>3. /\ r \in Handler /\ r.sm = h.sm /\ r.out = h.out /\ r.in = h.in
        /\ r.signals = h.signals /\ r.control = <<>> /\ OneControl(r)
    BY <2>2, ControlRestoredFields
  <2>4. IsRunning(r) /\ OneIn(r)
    BY <1>3, <1>4, <2>3 DEF IsRunning, OneIn
  <2>5. CASE answer = "notYet"
    <3>1. o \in Submitted(h)
      BY <2>1, <2>5 DEF ControlAnswered
    <3> QED BY <1>4, <1>8, <3>1, SubmittedFields, GaveUpGoes
  <2>6. CASE answer = "notEmpty"
    <3>1. t.request \in {"CHECK_ABORT_BULK_IN_STATUS", "CHECK_CLEAR_STATUS"}
      BY <2>6 DEF Answers
    <3>2. t.request = "CHECK_CLEAR_STATUS" /\ h.sm = "ClearingBulkIo"
      BY <1>3, <3>1
    <3>3. o \in SubmitBulkIn(r, "CHECK_CLEAR_STATUS")
      BY <1>1, <2>1, <2>2, <2>6, <3>2 DEF ControlAnswered
    <3>4. "CHECK_CLEAR_STATUS" \in Actions /\ r.in = <<>>
      BY <1>3, <2>3 DEF Actions
    <3>5. \/ GaveUp(o)
          \/ /\ o \in Handler /\ o.sm = r.sm /\ o.out = r.out
             /\ o.in = <<[at |-> "flying", split |-> "CHECK_CLEAR_STATUS"]>> /\ OneIn(o)
             /\ o.control = r.control /\ o.signals = r.signals
      BY <2>3, <2>4, <3>3, <3>4, SubmitBulkInFields
    <3>6. CASE /\ o \in Handler /\ o.sm = r.sm /\ o.out = r.out
               /\ o.in = <<[at |-> "flying", split |-> "CHECK_CLEAR_STATUS"]>> /\ OneIn(o)
               /\ o.control = r.control /\ o.signals = r.signals
      <4>1. [at |-> "flying", split |-> "CHECK_CLEAR_STATUS"] \in BulkIn
        BY <3>4 DEF BulkIn, Places, InFlight
      <4>2. \E b \in BulkIn : /\ o.in = <<b>>
                              /\ b.split \in {"INITIATE_CLEAR", "CHECK_CLEAR_STATUS"}
        BY <3>6, <4>1
      <4>3. /\ Untold(o, s) /\ o.out = NoOut /\ o.sm = "ClearingBulkIo"
            /\ o.control = <<>>
        BY <1>3, <2>3, <3>2, <3>6 DEF Untold
      <4>4. ClearPhase(o, s)
        BY <4>2, <4>3 DEF ClearPhase
      <4>5. IsRunning(o) /\ OneControl(o)
        BY <4>3 DEF IsRunning, RunningStates, OneControl
      <4> QED BY <1>5, <3>6, <4>4, <4>5
    <3> QED BY <3>5, <3>6, GaveUpGoes
  <2>7. CASE answer \in {"success", "failed"}
    <3>1. o \in RequestDone(h, 1, answer)
      BY <2>1, <2>7 DEF ControlAnswered
    <3>2. ASSUME NEW n \in Handler, n.sm = "Processing", n.out = h.out, n.in = h.in,
                 n.control = <<>>, n.signals = <<"Aborted">>
          PROVE  Goes(n, c, s)
      <4>1. IsRunning(n) /\ OneIn(n) /\ OneControl(n)
        BY <1>3, <3>2 DEF IsRunning, RunningStates, OneIn, OneControl
      <4>2. ClearPhase(n, s)
        BY <1>3, <3>2 DEF ClearPhase, Quiet, Told, Untold
      <4> QED BY <1>5, <4>1, <4>2
    <3>3. r.signals = <<>>
      BY <1>3, <2>3 DEF Untold
    <3>4. CASE t.request = "CLEAR_FEATURE"
      <4>1. h.sm = "ClearingBulkOutEndpointHalt"
        BY <1>3, <3>4
      <4>2. PICK n : n = [r EXCEPT !.sm = "Processing"]
        OBVIOUS
      <4>3. "Processing" \in MachineStates /\ "Aborted" \in Signals
        BY DEF MachineStates, RunningStates, Signals
      <4>4. /\ n \in Handler /\ n.sm = "Processing" /\ n.out = r.out /\ n.in = r.in
            /\ n.control = r.control /\ n.signals = r.signals
        BY <2>3, <4>2, <4>3, StateFields
      <4>5. o = Signal(n, "Aborted")
        BY <1>1, <2>2, <3>1, <3>4, <4>1, <4>2 DEF RequestDone
      <4>6. /\ o \in Handler /\ o.sm = n.sm /\ o.out = n.out /\ o.in = n.in
            /\ o.control = n.control /\ o.signals = <<"Aborted">>
        BY <3>3, <4>3, <4>4, <4>5, SignalFields
      <4> QED BY <2>3, <3>2, <4>4, <4>6
    <3>5. CASE t.request = "INITIATE_CLEAR" /\ answer = "success"
      <4>1. o \in NextRequest(h, 1, "CHECK_CLEAR_STATUS")
        BY <1>1, <3>1, <3>5 DEF RequestDone
      <4>2. "CHECK_CLEAR_STATUS" \in Requests /\ h.sm = "ClearingBulkIo"
        BY <1>3, <3>5 DEF Requests
      <4>3. \/ GaveUp(o)
            \/ /\ o \in Handler /\ o.sm = h.sm /\ o.out = h.out /\ o.in = h.in
               /\ o.signals = h.signals
               /\ OneControl(o) /\ o.control \in ControlOf({"CHECK_CLEAR_STATUS"})
        BY <1>4, <4>1, <4>2, NextRequestFields
      <4> QED BY <1>6, <4>2, <4>3, GaveUpGoes
    <3>6. CASE t.request = "INITIATE_CLEAR" /\ answer = "failed"
      <4>1. o = SplitActionDone(r)
        BY <1>1, <2>2, <3>1, <3>6 DEF RequestDone
      <4>2. r.sm \in {"AbortingBulkIn", "ClearingBulkIo"}
        BY <1>3, <2>3, <3>6
      <4>3. /\ o \in Handler /\ o.sm = "Processing" /\ o.out = r.out /\ o.in = r.in
            /\ o.control = r.control /\ o.signals = <<"Aborted">>
        BY <2>3, <3>3, <4>1, <4>2, SplitDoneFields
      <4> QED BY <2>3, <3>2, <4>3
    <3>7. CASE t.request = "CHECK_CLEAR_STATUS"
      <4>1. o \in ClearOutHaltRequested(r)
        BY <1>1, <2>2, <3>1, <3>7 DEF RequestDone
      <4>2. h.sm = "ClearingBulkIo"
        BY <1>3, <3>7
      <4>3. PICK n : n = [r EXCEPT !.sm = "ClearingBulkOutEndpointHalt"]
        OBVIOUS
      <4>4. "ClearingBulkOutEndpointHalt" \in MachineStates
        BY DEF MachineStates, RunningStates
      <4>5. /\ n \in Handler /\ n.sm = "ClearingBulkOutEndpointHalt" /\ n.out = r.out
            /\ n.in = r.in /\ n.control = r.control /\ n.signals = r.signals
        BY <2>3, <4>3, <4>4, StateFields
      <4>6. o \in SubmitControl(n, "CLEAR_FEATURE")
        BY <1>3, <2>3, <4>1, <4>2, <4>3 DEF ClearOutHaltRequested
      <4>7. IsRunning(n) /\ "CLEAR_FEATURE" \in Requests /\ n.control = <<>>
        BY <2>3, <4>5 DEF IsRunning, RunningStates, Requests
      <4>8. \/ GaveUp(o)
            \/ /\ o \in Handler /\ o.sm = n.sm /\ o.out = n.out /\ o.in = n.in
               /\ OneControl(o) /\ o.control \in ControlOf({"CLEAR_FEATURE"})
               /\ o.signals = n.signals
        BY <4>5, <4>6, <4>7, SubmitControlFields
      <4>9. CASE /\ o \in Handler /\ o.sm = n.sm /\ o.out = n.out /\ o.in = n.in
                 /\ OneControl(o) /\ o.control \in ControlOf({"CLEAR_FEATURE"})
                 /\ o.signals = n.signals
        <5>1. IsRunning(o) /\ OneIn(o) /\ Untold(o, s)
          BY <1>3, <2>3, <4>5, <4>7, <4>9 DEF IsRunning, OneIn, Untold
        <5>2. ClearPhase(o, s)
          BY <1>3, <2>3, <4>5, <4>9, <5>1 DEF ClearPhase
        <5> QED BY <1>5, <4>9, <5>1, <5>2
      <4> QED BY <4>8, <4>9, GaveUpGoes
    <3> QED BY <1>3, <2>7, <3>4, <3>5, <3>6, <3>7
  <2>8. answer \in {"notYet", "notEmpty", "success", "failed"}
    BY DEF Answers
  <2> QED BY <2>5, <2>6, <2>7, <2>8
<1> QED BY <1>9, <1>10, <1>11

(* The request to abort an answer is answered. *)
LEMMA AbortingControl ==
  ASSUME NEW h \in Handler, OneIn(h), OneControl(h), NEW s, QueryPhase(h, s),
         NEW c, c.at = "wait", c.op = "query",
         NEW t \in Control, h.control = <<t>>,
         NEW status \in {"completed", "error", "gone", "stall", "cancelled"},
         NEW answer \in Answers(t.request),
         NEW o \in ControlCompleted(h, 1, status, answer)
  PROVE  Goes(o, c, s)
<1>1. h.control[1] = t /\ h.control # <<>>
  OBVIOUS
<1>2. ASSUME NEW requests, h.control \in ControlOf(requests)
      PROVE  t.request \in requests
  BY <1>1, <1>2 DEF ControlOf
<1>3. /\ Untold(h, s) /\ h.sm = "AbortingBulkIn" /\ h.out = NoOut /\ ~Recovers
      /\ h.in = LeftIn("NoAction") /\ t.request = "INITIATE_ABORT_BULK_IN"
  BY <1>1, <1>2 DEF QueryPhase, Quiet
<1>4. IsRunning(h) /\ h.sm # "Stopping"
  BY <1>3 DEF IsRunning, RunningStates
<1>5. ASSUME NEW n \in Handler, OneIn(n), OneControl(n), IsRunning(n), QueryPhase(n, s)
      PROVE  Goes(n, c, s)
  <2>1. Phase(n, c, s)
    BY <1>5 DEF Phase
  <2> QED BY <1>5, <2>1, RunningGoes
<1>6. ASSUME NEW n \in Handler, n.sm = h.sm, n.out = h.out, n.in = h.in,
             n.signals = h.signals, OneControl(n),
             n.control \in ControlOf({"INITIATE_ABORT_BULK_IN"})
      PROVE  Goes(n, c, s)
  <2>1. IsRunning(n) /\ OneIn(n) /\ Untold(n, s)
    BY <1>3, <1>4, <1>6 DEF IsRunning, OneIn, Untold
  <2>2. QueryPhase(n, s)
    BY <1>3, <1>6, <2>1 DEF QueryPhase
  <2> QED BY <1>5, <1>6, <2>1, <2>2
<1>7. CASE status = "gone"
  <2>1. o = ControlLeft(h, 1)
    BY <1>4, <1>7 DEF ControlCompleted
  <2>2. /\ o \in Handler /\ o.sm = h.sm /\ o.out = h.out /\ o.in = h.in
        /\ o.signals = h.signals
        /\ OneControl(o) /\ o.control \in ControlOf({t.request})
    BY <2>1, ControlLeftFields
  <2> QED BY <1>3, <1>6, <2>2
<1>8. CASE status \in {"error", "stall", "cancelled"}
  <2>1. o = ErrorOccured(h, "Error")
    BY <1>4, <1>8 DEF ControlCompleted
  <2> QED BY <1>4, <2>1, ErrorGoes
<1>9. CASE status = "completed"
  <2>1. o \in ControlAnswered(h, 1, answer)
    BY <1>4, <1>9 DEF ControlCompleted
  <2>2. CASE answer = "notYet"
    <3>1. o \in Submitted(h)
      BY <2>1, <2>2 DEF ControlAnswered
    <3>2. Phase(h, c, s)
      BY DEF Phase
    <3> QED BY <1>4, <3>1, <3>2, SubmittedFields, RunningGoes, GaveUpGoes
  <2>3. answer # "notEmpty"
    BY <1>3 DEF Answers
  <2>4. CASE answer \in {"success", "failed"}
    <3>1. o \in AbortInAnswered(h, 1, answer)
      BY <1>1, <1>3, <2>1, <2>4 DEF ControlAnswered, RequestDone
    <3>2. PICK b : b = [at |-> "left", split |-> "NoAction"]
      OBVIOUS
    <3>3. b \in BulkIn /\ h.in = <<b>>
      BY <1>3, <3>2 DEF BulkIn, Places, Actions, LeftIn
    <3>4. h.in # <<>> /\ Len(h.in) = 1 /\ DOMAIN h.in = 1 .. 1 /\ h.in[1] = b
      BY <3>3
    <3>5. CASE answer = "success"
      <4>1. PICK d : d = [at |-> "left", split |-> "CHECK_ABORT_STATUS"]
        OBVIOUS
      <4>2. d \in BulkIn /\ d = [b EXCEPT !.split = "CHECK_ABORT_STATUS"]
        BY <3>2, <4>1 DEF BulkIn, Places, Actions
      <4>3. PICK q : q = [h.in EXCEPT ![1] = d]
        OBVIOUS
      <4>4. q = <<d>> /\ <<d>> \in Seq(BulkIn)
        BY <3>3, <4>2, <4>3
      <4>5. PICK n : n = [h EXCEPT !.in = q]
        OBVIOUS
      <4>6. /\ n \in Handler /\ n.sm = h.sm /\ n.out = h.out /\ n.in = <<d>>
            /\ n.control = h.control /\ n.signals = h.signals
        BY <4>4, <4>5 DEF Handler
      <4>7. [h EXCEPT !.in[Len(h.in)].split = "CHECK_ABORT_STATUS"] = n
        BY <3>4, <4>2, <4>3, <4>5
      <4>8. o = ControlRestored(n, 1)
        BY <3>1, <3>4, <3>5, <4>7 DEF AbortInAnswered
      <4>9. /\ o \in Handler /\ o.sm = n.sm /\ o.out = n.out /\ o.in = n.in
            /\ o.signals = n.signals /\ o.control = <<>> /\ OneControl(o)
        BY <4>6, <4>8, ControlRestoredFields
      <4>10. o.in = LeftIn("CHECK_ABORT_STATUS")
        BY <4>1, <4>6, <4>9 DEF LeftIn
      <4>11. IsRunning(o) /\ OneIn(o) /\ Untold(o, s)
        BY <1>3, <1>4, <4>2, <4>6, <4>9 DEF IsRunning, OneIn, Untold
      <4>12. QueryPhase(o, s)
        BY <1>3, <4>6, <4>9, <4>10, <4>11 DEF QueryPhase
      <4> QED BY <1>5, <4>9, <4>11, <4>12
    <3>6. CASE answer = "failed"
      <4>1. PICK q : q = [k \in DOMAIN h.in |-> Cancelled(h.in[k])]
        OBVIOUS
      <4>2. Cancelled(b) = b
        BY <3>2 DEF Cancelled
      <4>3. q = [k \in 1 .. 1 |-> b]
        BY <3>4, <4>1, <4>2
      <4>4. q = <<b>>
        BY <3>3, <4>3
      <4>5. PICK n : n = [h EXCEPT !.in = q]
        OBVIOUS
      <4>6. n = h
        BY <3>3, <4>4, <4>5 DEF Handler
      <4>7. PICK r : r = ControlRestored(h, 1)
        OBVIOUS
      <4>8. o = SplitActionDone(r)
        BY <3>1, <3>6, <4>1, <4>5, <4>6, <4>7 DEF AbortInAnswered
      <4>9. /\ r \in Handler /\ r.sm = h.sm /\ r.out = h.out /\ r.in = h.in
            /\ r.signals = h.signals /\ r.control = <<>>
        BY <4>7, ControlRestoredFields
      <4>10. r.signals = <<>> /\ r.sm \in {"AbortingBulkIn", "ClearingBulkIo"}
        BY <1>3, <4>9 DEF Untold
      <4>11. /\ o \in Handler /\ o.sm = "Processing" /\ o.out = r.out /\ o.in = r.in
             /\ o.control = r.control /\ o.signals = <<"Aborted">>
        BY <4>8, <4>9, <4>10, SplitDoneFields
      <4>12. IsRunning(o) /\ OneIn(o) /\ OneControl(o)
        BY <4>9, <4>11 DEF IsRunning, RunningStates, OneIn, OneControl
      <4>13. Quiet(o) /\ o.in = LeftIn("NoAction") /\ Told(o, s, "Aborted")
        BY <1>3, <4>9, <4>11 DEF Quiet, Told, Untold
      <4>14. QueryPhase(o, s)
        BY <1>3, <4>13 DEF QueryPhase
      <4> QED BY <1>5, <4>11, <4>12, <4>14
    <3> QED BY <2>4, <3>5, <3>6
  <2>5. answer \in {"notYet", "notEmpty", "success", "failed"}
    BY DEF Answers
  <2> QED BY <2>2, <2>3, <2>4, <2>5
<1> QED BY <1>7, <1>8, <1>9

-----------------------------------------------------------------------------
(* The actions of the USB thread keep the invariant.                       *)

(* The faults of a device do not change: what fits after a step is read    *)
(* with the faults before it.                                              *)
LEMMA SameFaults ==
  ASSUME faults' = faults, HandlerFits(th', call', state')
  PROVE  HandlerFits(th, call, state)'
<1>1. Recovers' = Recovers
  BY DEF Recovers
<1>2. Phase(th', call', state') => Phase(th, call, state)'
  BY <1>1 DEF Phase, Resting, ClearPhase, CommandPhase, QueryPhase, Unread
<1> QED BY <1>1, <1>2 DEF HandlerFits

(* A machine that stops restored a transfer: it stops when none is left.   *)
LEMMA StoppingGoes ==
  ASSUME NEW h \in Handler, h.sm = "Stopping", OneIn(h), OneControl(h), NEW c, NEW s,
         Recovers /\ ~CloseDuringCall
           => h.out = NoOut /\ h.in = <<>> /\ h.control = <<>>,
         NEW o, o = StopIfDone(h)
  PROVE  HandlerFits(o, c, s) /\ o.sm \in {"Stopping", "Stopped"}
<1>1. CASE HasPendingTransfers(h)
  <2>1. o = h
    BY <1>1 DEF StopIfDone
  <2>2. ~IsRunning(o) /\ o.sm \notin EndStates \cup {"Closed"}
    BY <2>1 DEF IsRunning, RunningStates, EndStates
  <2>3. Recovers /\ ~CloseDuringCall => h.interrupt
    BY <1>1 DEF HasPendingTransfers
  <2> QED BY <2>1, <2>2, <2>3 DEF HandlerFits
<1>2. CASE ~HasPendingTransfers(h)
  <2>1. o = [h EXCEPT !.sm = "Stopped"] /\ "Stopped" \in MachineStates
    BY <1>2 DEF StopIfDone, MachineStates, EndStates
  <2>2. /\ o \in Handler /\ o.sm = "Stopped" /\ o.out = h.out /\ o.in = h.in
        /\ o.control = h.control /\ o.interrupt = h.interrupt
    BY <2>1, StateFields
  <2>3. Emptied(o)
    BY <1>2, <2>2, HandlerFields DEF Emptied, HasPendingTransfers
  <2>4. ~IsRunning(o) /\ OneIn(o) /\ OneControl(o)
    BY <2>2, <2>3 DEF IsRunning, RunningStates, OneIn, OneControl, Emptied
  <2> QED BY <2>2, <2>3, <2>4 DEF HandlerFits
<1> QED BY <1>1, <1>2

(* A step of the USB thread keeps the invariant if it leaves a handler     *)
(* that fits and a machine in a state it may go to.                        *)
LEMMA UsbStepKeeps ==
  ASSUME IInv, MainUnchanged, polls' \in 0 .. MaxPolls,
         \/ IsRunning(th) /\ Goes(th', call, state)
         \/ th.sm = "Stopping" /\ HandlerFits(th', call, state)
              /\ th'.sm \in {"Stopping", "Stopped"}
  PROVE  IInv'
<1>1. HandlerFits(th', call', state') /\ faults' = faults
  BY DEF MainUnchanged, Goes
<1>2. HandlerFits(th, call, state)'
  BY <1>1, SameFaults
<1>3. th' \in Handler
  BY <1>1 DEF HandlerFits
<1>4. TypeOK'
  BY <1>3 DEF IInv, TypeOK, MainUnchanged
<1>5. IsRunning(th') => IsRunning(th)
  BY DEF IsRunning, RunningStates
<1>6. th'.sm \in {"Stopping", "Stopped"} => th.sm \in {"Stopping", "Stopped"}
  BY DEF Goes
<1>7. CallFits'
  BY <1>5, <1>6 DEF IInv, CallFits, MainUnchanged, IsRunning
<1> QED BY <1>2, <1>4, <1>7 DEF IInv

(* What the invariant says to the USB thread. *)
LEMMA Held ==
  ASSUME IInv
  PROVE  /\ th \in Handler /\ OneIn(th) /\ OneControl(th)
         /\ IsRunning(th) => Phase(th, call, state)
         /\ call.at = "wait" => call.op \in Ops
         /\ polls \in 0 .. MaxPolls
         /\ th.sm = "Stopping" /\ Recovers /\ ~CloseDuringCall
              => th.out = NoOut /\ th.in = <<>> /\ th.control = <<>> /\ th.interrupt
BY DEF IInv, HandlerFits, TypeOK, NoCall

(* libusb may end a transfer in these ways. *)
LEMMA StatusesFit ==
  ASSUME NEW t
  PROVE  Statuses(t) \subseteq {"completed", "error", "gone", "stall", "cancelled"}
BY DEF Statuses

(* The pending transfer of a bulk-IN or control pool is the only one. *)
LEMMA OnlyPending ==
  ASSUME NEW h \in Handler, OneIn(h), OneControl(h)
  PROVE  /\ \A i \in DOMAIN h.in : i = 1 /\ h.in[1] \in BulkIn /\ h.in = <<h.in[1]>>
         /\ \A i \in DOMAIN h.control :
              i = 1 /\ h.control[1] \in Control /\ h.control = <<h.control[1]>>
BY DEF OneIn, OneControl

(* A bulk-OUT transfer ends. *)
LEMMA OutCompletesKeeps ==
  ASSUME IInv, OutCompletes
  PROVE  IInv'
<1>1. PICK status \in Statuses(th.out) : th' \in BulkOutCompleted(th, status)
  BY DEF OutCompletes
<1>2. th.out.at \in InFlight /\ MainUnchanged /\ polls' \in 0 .. MaxPolls
  BY Held DEF OutCompletes
<1>3. status \in {"completed", "error", "gone", "stall", "cancelled"}
  BY <1>1, StatusesFit
<1>4. CASE IsRunning(th)
  <2>1. Goes(th', call, state)
    BY <1>1, <1>2, <1>3, <1>4, Held, RunningOut
  <2> QED BY <1>2, <1>4, <2>1, UsbStepKeeps
<1>5. CASE th.sm = "Stopping"
  <2>1. th.out # NoOut
    BY <1>2 DEF NoOut, InFlight
  <2>2. ~(Recovers /\ ~CloseDuringCall)
    BY <1>5, <2>1, Held
  <2>3. PICK n : n = [th EXCEPT !.out = NoOut]
    OBVIOUS
  <2>4. n \in Handler /\ n.sm = "Stopping" /\ n.in = th.in /\ n.control = th.control
    BY <1>5, <2>3, Held DEF Handler
  <2>5. OneIn(n) /\ OneControl(n)
    BY <2>4, Held DEF OneIn, OneControl
  <2>6. th' = StopIfDone(n)
    BY <1>1, <1>5, <2>3 DEF BulkOutCompleted
  <2>7. HandlerFits(th', call, state) /\ th'.sm \in {"Stopping", "Stopped"}
    BY <2>2, <2>4, <2>5, <2>6, StoppingGoes
  <2> QED BY <1>2, <1>5, <2>7, UsbStepKeeps
<1> QED BY <1>4, <1>5 DEF OutCompletes, CanProcess, ThreadRuns

(* A bulk-IN transfer ends. *)
LEMMA InCompletesKeeps ==
  ASSUME IInv, InCompletes
  PROVE  IInv'
<1>1. PICK i \in DOMAIN th.in :
        /\ th.in[i].at \in InFlight
        /\ \E status \in Statuses(th.in[i]) : th' \in BulkInCompleted(th, i, status)
  BY DEF InCompletes
<1>2. PICK t \in BulkIn : t = th.in[1] /\ th.in = <<t>> /\ i = 1
  BY Held, OnlyPending
<1>3. PICK status \in Statuses(t) : th' \in BulkInCompleted(th, 1, status)
  BY <1>1, <1>2
<1>4. t.at \in InFlight /\ MainUnchanged /\ polls' \in 0 .. MaxPolls
  BY <1>1, <1>2, Held DEF InCompletes
<1>5. status \in {"completed", "error", "gone", "stall", "cancelled"}
  BY <1>3, StatusesFit
<1>6. CASE IsRunning(th)
  <2>1. Phase(th, call, state) /\ th \in Handler /\ OneIn(th) /\ OneControl(th)
    BY <1>6, Held
  <2>2. ~Resting(th)
    BY <1>1, <2>1, RestingIsIdle DEF InFlight
  <2>3. call.at = "wait" /\ call.op \in Ops
    BY <2>1, <2>2, Held DEF Phase
  <2>4. ~Unread(th)
    BY <1>2, <1>4 DEF Unread, LeftIn, InFlight
  <2>5. ASSUME call.op = "clear" PROVE Goes(th', call, state)
    <3>1. ClearPhase(th, state)
      BY <2>1, <2>3, <2>5 DEF Phase
    <3>2. th.in = <<t>>
      BY <1>2
    <3> QED BY <1>3, <1>5, <2>1, <2>3, <2>5, <3>1, <3>2, ClearingIn
  <2>6. ASSUME call.op = "command" PROVE Goes(th', call, state)
    BY <2>1, <2>3, <2>4, <2>6 DEF Phase, CommandPhase
  <2>7. ASSUME call.op = "query" PROVE Goes(th', call, state)
    <3>1. QueryPhase(th, state)
      BY <2>1, <2>3, <2>7 DEF Phase
    <3>2. th.in # AnswerIn /\ \A a : th.in # LeftIn(a)
      BY <1>2, <1>4 DEF AnswerIn, LeftIn, InFlight
    <3>3. Untold(th, state)
      BY <3>1, <3>2 DEF QueryPhase
    <3>4. th.in = <<t>>
      BY <1>2
    <3> QED BY <1>3, <1>4, <1>5, <2>1, <2>3, <2>7, <3>1, <3>3, <3>4, AnsweringIn
  <2>8. Goes(th', call, state)
    BY <2>3, <2>5, <2>6, <2>7 DEF Ops
  <2> QED BY <1>4, <1>6, <2>8, UsbStepKeeps
<1>7. CASE th.sm = "Stopping"
  <2>1. ~(Recovers /\ ~CloseDuringCall)
    BY <1>2, <1>7, Held
  <2>2. PICK n : n = InRestored(th, 1)
    OBVIOUS
  <2>3. n \in Handler /\ n.sm = "Stopping" /\ OneIn(n) /\ n.control = th.control
    BY <1>2, <1>7, <2>2, Held, InRestoredFields
  <2>4. OneControl(n)
    BY <2>3, Held DEF OneControl
  <2>5. th' = StopIfDone(n)
    BY <1>3, <1>7, <2>2 DEF BulkInCompleted
  <2>6. HandlerFits(th', call, state) /\ th'.sm \in {"Stopping", "Stopped"}
    BY <2>1, <2>3, <2>4, <2>5, StoppingGoes
  <2> QED BY <1>4, <1>7, <2>6, UsbStepKeeps
<1> QED BY <1>6, <1>7 DEF InCompletes, CanProcess, ThreadRuns

(* A control transfer ends. *)
LEMMA ControlCompletesKeeps ==
  ASSUME IInv, ControlCompletes
  PROVE  IInv'
<1>1. PICK i \in DOMAIN th.control :
        /\ th.control[i].at \in InFlight
        /\ \E status \in Statuses(th.control[i]), answer \in Answers(th.control[i].request) :
             /\ th' \in ControlCompleted(th, i, status, answer)
             /\ polls' = IF answer = "notYet" /\ status = "completed"
                         THEN polls - 1 ELSE polls
  BY DEF ControlCompletes
<1>2. PICK t \in Control : t = th.control[1] /\ th.control = <<t>> /\ i = 1
  BY Held, OnlyPending
<1>3. PICK status \in Statuses(t), answer \in Answers(t.request) :
        /\ th' \in ControlCompleted(th, 1, status, answer)
        /\ polls' = IF answer = "notYet" /\ status = "completed" THEN polls - 1 ELSE polls
  BY <1>1, <1>2
<1>4. MainUnchanged
  BY DEF ControlCompletes
<1>5. polls' \in 0 .. MaxPolls
  <2>1. answer = "notYet" => polls > 0
    BY DEF Answers
  <2>2. polls \in 0 .. MaxPolls /\ MaxPolls \in Nat
    BY Held, UsbtmcAssumption
  <2> QED BY <1>3, <2>1, <2>2
<1>6. status \in {"completed", "error", "gone", "stall", "cancelled"}
  BY <1>3, StatusesFit
<1>7. CASE IsRunning(th)
  <2>1. Phase(th, call, state) /\ th \in Handler /\ OneIn(th) /\ OneControl(th)
    BY <1>7, Held
  <2>2. th.control # <<>>
    BY <1>2
  <2>3. ~Resting(th)
    BY <2>1, <2>2, RestingIsIdle
  <2>4. call.at = "wait" /\ call.op \in Ops
    BY <2>1, <2>3, Held DEF Phase
  <2>5. ASSUME call.op = "clear" PROVE Goes(th', call, state)
    <3>1. ClearPhase(th, state)
      BY <2>1, <2>4, <2>5 DEF Phase
    <3>2. th.control = <<t>>
      BY <1>2
    <3> QED BY <1>3, <1>6, <2>1, <2>4, <2>5, <3>1, <3>2, ClearingControl
  <2>6. ASSUME call.op = "command" PROVE Goes(th', call, state)
    BY <2>1, <2>2, <2>4, <2>6 DEF Phase, CommandPhase, Quiet
  <2>7. ASSUME call.op = "query" PROVE Goes(th', call, state)
    <3>1. QueryPhase(th, state)
      BY <2>1, <2>4, <2>7 DEF Phase
    <3>2. th.control = <<t>>
      BY <1>2
    <3> QED BY <1>3, <1>6, <2>1, <2>4, <2>7, <3>1, <3>2, AbortingControl
  <2>8. Goes(th', call, state)
    BY <2>4, <2>5, <2>6, <2>7 DEF Ops
  <2> QED BY <1>4, <1>5, <1>7, <2>8, UsbStepKeeps
<1>8. CASE th.sm = "Stopping"
  <2>1. ~(Recovers /\ ~CloseDuringCall) /\ ~IsRunning(th)
    BY <1>2, <1>8, Held DEF IsRunning, RunningStates
  <2>2. PICK n : n = ControlRestored(th, 1)
    OBVIOUS
  <2>3. n \in Handler /\ n.sm = "Stopping" /\ OneControl(n) /\ n.in = th.in
    BY <1>2, <1>8, <2>2, Held, ControlRestoredFields
  <2>4. OneIn(n)
    BY <2>3, Held DEF OneIn
  <2>5. th' = StopIfDone(n)
    BY <1>3, <1>8, <2>1, <2>2 DEF ControlCompleted
  <2>6. HandlerFits(th', call, state) /\ th'.sm \in {"Stopping", "Stopped"}
    BY <2>1, <2>3, <2>4, <2>5, StoppingGoes
  <2> QED BY <1>4, <1>5, <1>8, <2>6, UsbStepKeeps
<1> QED BY <1>7, <1>8 DEF ControlCompletes, CanProcess, ThreadRuns

(* The interrupt-IN transfer ends. *)
LEMMA InterruptCompletesKeeps ==
  ASSUME IInv, InterruptCompletes
  PROVE  IInv'
<1>1. MainUnchanged /\ polls' \in 0 .. MaxPolls
  BY Held DEF InterruptCompletes
<1>2. CASE IsRunning(th)
  <2>1. th.sm # "Stopping"
    BY <1>2 DEF IsRunning, RunningStates
  <2>2. th' \in Submitted(th) \/ th' = ErrorOccured(th, "Error")
    BY <2>1 DEF InterruptCompletes
  <2>3. Goes(th, call, state)
    BY <1>2, Held, RunningGoes
  <2>4. th' \in Submitted(th) => th' = th \/ GaveUp(th')
    BY <1>2, Held, SubmittedFields
  <2>5. Goes(th', call, state)
    BY <1>2, <2>2, <2>3, <2>4, Held, ErrorGoes, GaveUpGoes
  <2> QED BY <1>1, <1>2, <2>5, UsbStepKeeps
<1>3. CASE th.sm = "Stopping"
  <2>1. PICK n : n = [th EXCEPT !.interrupt = FALSE]
    OBVIOUS
  <2>2. /\ n \in Handler /\ n.sm = "Stopping" /\ n.out = th.out /\ n.in = th.in
        /\ n.control = th.control
    BY <1>3, <2>1, Held DEF Handler
  <2>3. OneIn(n) /\ OneControl(n)
    BY <2>2, Held DEF OneIn, OneControl
  <2>4. th' = StopIfDone(n)
    BY <1>3, <2>1 DEF InterruptCompletes
  <2>5. Recovers /\ ~CloseDuringCall => n.out = NoOut /\ n.in = <<>> /\ n.control = <<>>
    BY <1>3, <2>2, Held
  <2>6. HandlerFits(th', call, state) /\ th'.sm \in {"Stopping", "Stopped"}
    BY <2>2, <2>3, <2>4, <2>5, StoppingGoes
  <2> QED BY <1>1, <1>3, <2>6, UsbStepKeeps
<1> QED BY <1>2, <1>3 DEF InterruptCompletes, CanProcess, ThreadRuns

-----------------------------------------------------------------------------
(* The actions of the main thread keep the invariant.                      *)

(* A machine that does not run fits whatever the call does. *)
LEMMA EndedFits ==
  ASSUME NEW h, ~IsRunning(h), NEW c, NEW s, HandlerFits(h, c, s), NEW d, NEW r
  PROVE  HandlerFits(h, d, r)
BY DEF HandlerFits

(* The call goes on and leaves the handler alone. *)
LEMMA CallMoves ==
  ASSUME IInv, UNCHANGED <<faults, th>>, TypeOK', CallFits',
         IsRunning(th) => Phase(th, call', state')
  PROVE  IInv'
<1>1. HandlerFits(th, call', state')
  BY DEF IInv, HandlerFits
<1>2. HandlerFits(th, call, state)'
  BY <1>1, SameFaults
<1> QED BY <1>2 DEF IInv

(* Between the calls, and before a call has submitted something, a machine *)
(* that runs has nothing to do.                                            *)
LEMMA RestingOutsideWait ==
  ASSUME IInv, IsRunning(th), call.at # "wait"
  PROVE  Resting(th) /\ th.sm = "Processing"
BY DEF IInv, HandlerFits, Phase, Resting, Quiet

(* A signal is delivered by the event loop. *)
LEMMA DeliverKeeps ==
  ASSUME IInv, Deliver
  PROVE  IInv'
<1>1. /\ call.at \in {"none", "wait"} /\ th.signals # <<>>
      /\ state' = Head(th.signals) /\ UNCHANGED <<faults, call, closing, polls>>
      /\ th \in Handler /\ th.signals \in Seq(Signals)
  BY Held, HandlerFields DEF Deliver
<1>2. PICK h : h = [th EXCEPT !.signals = Tail(@)]
  OBVIOUS
<1>3. Tail(th.signals) \in Seq(Signals) /\ Head(th.signals) \in Signals
  BY <1>1
<1>4. /\ h \in Handler /\ h.sm = th.sm /\ h.out = th.out /\ h.in = th.in
      /\ h.control = th.control /\ h.interrupt = th.interrupt
      /\ h.signals = Tail(th.signals)
  BY <1>1, <1>2, <1>3 DEF Handler
<1>5. th' = h
  BY <1>2 DEF Deliver
<1>6. TypeOK'
  BY <1>1, <1>3, <1>4, <1>5 DEF IInv, TypeOK
<1>7. CallFits'
  BY <1>1, <1>4, <1>5 DEF IInv, CallFits, IsRunning, RunningStates
<1>8. ASSUME IsRunning(th) PROVE Phase(h, call, state')
  <2>1. call.at = "wait" /\ call.op \in Ops
    BY <1>1, <1>8, RestingOutsideWait, Held DEF Resting
  <2>2. Phase(th, call, state)
    BY <1>8, Held
  <2>3. ~Untold(th, state)
    BY <1>1 DEF Untold
  <2>4. ASSUME NEW end, Told(th, state, end)
        PROVE  Told(h, state', end)
    <3>1. th.signals = <<end>>
      BY <1>1, <2>4 DEF Told
    <3>2. Head(th.signals) = end /\ Tail(th.signals) = <<>>
      BY <3>1
    <3> QED BY <1>1, <1>4, <3>2 DEF Told
  <2>5. Quiet(th) => Quiet(h)
    BY <1>4 DEF Quiet
  <2>6. Unread(th) => Unread(h)
    BY <1>4 DEF Unread
  <2>7. CASE call.op = "clear"
    <3>1. Quiet(th) /\ th.in = <<>> /\ Told(th, state, "Aborted")
      BY <2>1, <2>2, <2>3, <2>7 DEF Phase, ClearPhase
    <3>2. ClearPhase(h, state')
      BY <1>4, <2>4, <2>5, <3>1 DEF ClearPhase
    <3> QED BY <2>1, <2>7, <3>2 DEF Phase
  <2>8. CASE call.op = "command"
    <3>1. Quiet(th) /\ Unread(th) /\ Told(th, state, "Done")
      BY <2>1, <2>2, <2>3, <2>8 DEF Phase, CommandPhase
    <3>2. CommandPhase(h, state')
      BY <2>4, <2>5, <2>6, <3>1 DEF CommandPhase
    <3> QED BY <2>1, <2>8, <3>2 DEF Phase
  <2>9. CASE call.op = "query"
    <3>1. \/ Quiet(th) /\ th.in = AnswerIn /\ Told(th, state, "Done")
          \/ Quiet(th) /\ th.in = LeftIn("NoAction") /\ ~Recovers /\ Told(th, state, "Aborted")
      BY <2>1, <2>2, <2>3, <2>9 DEF Phase, QueryPhase
    <3>2. QueryPhase(h, state')
      BY <1>4, <2>4, <2>5, <3>1 DEF QueryPhase
    <3> QED BY <2>1, <2>9, <3>2 DEF Phase
  <2> QED BY <2>1, <2>7, <2>8, <2>9 DEF Ops
<1>9. IsRunning(h) => IsRunning(th)
  BY <1>4 DEF IsRunning
<1>10. OneIn(h) /\ OneControl(h) /\ (Emptied(th) => Emptied(h))
  BY <1>4, Held DEF OneIn, OneControl, Emptied
<1>11. HandlerFits(h, call, state')
  BY <1>4, <1>8, <1>9, <1>10 DEF IInv, HandlerFits
<1>12. HandlerFits(th, call, state)'
  BY <1>1, <1>5, <1>11, SameFaults
<1> QED BY <1>6, <1>7, <1>12 DEF IInv

(* openDevice(): the machine starts, and maybe gives up at once. *)
LEMMA OpenKeeps ==
  ASSUME IInv, Open
  PROVE  IInv'
<1>1. /\ call = NoCall /\ ~closing /\ th = Closed /\ th \in Handler
      /\ call' = [op |-> "clear", at |-> "submit"] /\ state' = "Pending"
      /\ polls' = MaxPolls /\ UNCHANGED <<faults, closing>>
  BY Held DEF Open, CanCall, Begin
<1>2. PICK n : n = [th EXCEPT !.sm = "Processing"]
  OBVIOUS
<1>3. PICK m : m = [n EXCEPT !.interrupt = TRUE]
  OBVIOUS
<1>4. "Processing" \in MachineStates
  BY DEF MachineStates, RunningStates
<1>5. /\ n \in Handler /\ n.sm = "Processing" /\ n.out = NoOut /\ n.in = <<>>
      /\ n.control = <<>> /\ n.signals = <<>>
  BY <1>1, <1>2, <1>4, StateFields DEF Closed
<1>6. /\ m \in Handler /\ m.sm = "Processing" /\ m.out = NoOut /\ m.in = <<>>
      /\ m.control = <<>> /\ m.signals = <<>>
  BY <1>3, <1>5 DEF Handler
<1>7. PICK h : /\ h \in {n} \cup Submitted(m)
               /\ th' = h \/ th' = [h EXCEPT !.signals = <<>>]
  BY <1>2, <1>3 DEF Open
<1>8. ASSUME NEW r \in Handler, r.sm = "Processing", r.out = NoOut, r.in = <<>>,
             r.control = <<>>, r.signals = <<>>
      PROVE  Goes(r, call', state')
  <2>1. IsRunning(r) /\ OneIn(r) /\ OneControl(r)
    BY <1>8 DEF IsRunning, RunningStates, OneIn, OneControl
  <2>2. Phase(r, call', state')
    BY <1>1, <1>8 DEF Phase, Resting, Quiet, Unread
  <2> QED BY <2>1, <2>2, RunningGoes
<1>9. h = n \/ h = m \/ GaveUp(h)
  <2>1. IsRunning(m)
    BY <1>6 DEF IsRunning, RunningStates
  <2> QED BY <1>6, <1>7, <2>1, SubmittedFields
<1>10. h \in Handler
  BY <1>5, <1>6, <1>9 DEF GaveUp
<1>11. PICK e : e = [h EXCEPT !.signals = <<>>]
  OBVIOUS
<1>12. /\ e \in Handler /\ e.sm = h.sm /\ e.out = h.out /\ e.in = h.in
       /\ e.control = h.control /\ e.interrupt = h.interrupt /\ e.signals = <<>>
  <2>1. <<>> \in Seq(Signals)
    OBVIOUS
  <2> QED BY <1>10, <1>11, <2>1 DEF Handler
<1>13. GaveUp(h) => GaveUp(e)
  BY <1>12 DEF GaveUp, Emptied
<1>14. Goes(h, call', state') /\ Goes(e, call', state')
  BY <1>5, <1>6, <1>8, <1>9, <1>12, <1>13, GaveUpGoes
<1>15. Goes(th', call', state')
  BY <1>7, <1>11, <1>14
<1>16. HandlerFits(th, call, state)'
  BY <1>1, <1>15, SameFaults DEF Goes
<1>17. TypeOK'
  <2>1. th' \in Handler
    BY <1>15 DEF Goes, HandlerFits
  <2> QED BY <1>1, <2>1, UsbtmcAssumption DEF IInv, TypeOK, Ops
<1>18. CallFits'
  BY <1>1, <1>15 DEF CallFits, Goes
<1> QED BY <1>16, <1>17, <1>18 DEF IInv

(* A call begins: clearBulkIo(), sendCommand(), sendQuery(). *)
LEMMA BeginKeeps ==
  ASSUME IInv, NEW op \in Ops, NEW at \in {"check", "submit"}, Begin(op, at),
         ~closing, UNCHANGED <<faults, th, closing>>,
         IsRunning(th) => Resting(th)
  PROVE  IInv'
<1>1. /\ call' = [op |-> op, at |-> at] /\ state' = "Pending" /\ polls' = MaxPolls
  BY DEF Begin
<1>2. TypeOK'
  BY <1>1, UsbtmcAssumption DEF IInv, TypeOK
<1>3. CallFits'
  BY <1>1 DEF IInv, CallFits
<1>4. IsRunning(th) => Phase(th, call', state')
  BY <1>1 DEF Phase
<1> QED BY <1>2, <1>3, <1>4, CallMoves

(* The three ways a call begins. *)
LEMMA CallsBeginKeeps ==
  ASSUME IInv, \/ ClearBulkIo
               \/ \E op \in {"command", "query"} : Send(op)
  PROVE  IInv'
<1>1. call = NoCall /\ ~closing
  BY DEF ClearBulkIo, Send, CanCall
<1>2. IsRunning(th) => Resting(th)
  BY <1>1, RestingOutsideWait DEF NoCall
<1>3. CASE ClearBulkIo
  BY <1>1, <1>2, <1>3, BeginKeeps DEF ClearBulkIo, Ops
<1>4. CASE \E op \in {"command", "query"} : Send(op)
  BY <1>1, <1>2, <1>4, BeginKeeps DEF Send, Ops
<1> QED BY <1>3, <1>4

(* submitBulkIoClear(): bulk I/O is cleared from Processing only. *)
LEMMA SubmitClearKeeps ==
  ASSUME IInv, SubmitClear
  PROVE  IInv'
<1>1. /\ call = [op |-> "clear", at |-> "submit"] /\ state = "Pending" /\ ~closing
      /\ call' = [call EXCEPT !.at = "wait"] /\ UNCHANGED <<faults, closing, polls>>
      /\ th \in Handler
  BY Held DEF SubmitClear, IInv, CallFits
<1>2. call' = [op |-> "clear", at |-> "wait"]
  BY <1>1
<1>3. PICK h \in Cleared(th) :
        /\ th' = [h EXCEPT !.signals = th.signals]
        /\ state' = IF h.signals = th.signals THEN state ELSE Last(h.signals)
  BY DEF SubmitClear
<1>4. ASSUME NEW g \in Handler
      PROVE  LET m == [g EXCEPT !.signals = th.signals]
             IN  /\ m \in Handler /\ m.sm = g.sm /\ m.out = g.out /\ m.in = g.in
                 /\ m.control = g.control /\ m.interrupt = g.interrupt
                 /\ m.signals = th.signals
  <2>1. th.signals \in Seq(Signals)
    BY <1>1, HandlerFields
  <2> QED BY <2>1 DEF Handler
<1>5. /\ HandlerFits(th', call', state')
      /\ state' \in Signals \cup {"Pending"}
      /\ th'.sm \in {"Stopping", "Stopped"} => th.sm \in {"Stopping", "Stopped"}
  <2>1. CASE th.sm # "Processing"
    <3>1. h = th
      BY <1>3, <2>1 DEF Cleared
    <3>2. th' = th /\ state' = state
      <4>1. th' = [th EXCEPT !.signals = th.signals]
        BY <1>3, <3>1
      <4> QED BY <1>1, <1>3, <3>1, <4>1 DEF Handler
    <3>3. ~IsRunning(th)
      BY <1>1, <2>1, RestingOutsideWait
    <3>4. HandlerFits(th', call', state')
      BY <3>2, <3>3, EndedFits DEF IInv
    <3> QED BY <1>1, <3>2, <3>4
  <2>2. CASE th.sm = "Processing"
    <3>1. IsRunning(th)
      BY <2>2 DEF IsRunning, RunningStates
    <3>2. /\ Quiet(th) /\ Unread(th) /\ th.signals = <<>>
      BY <1>1, <3>1, RestingOutsideWait DEF Resting
    <3>3. PICK n : n = [th EXCEPT !.sm = "ClearingBulkIo"]
      OBVIOUS
    <3>4. "ClearingBulkIo" \in MachineStates
      BY DEF MachineStates, RunningStates
    <3>5. /\ n \in Handler /\ n.sm = "ClearingBulkIo" /\ n.out = NoOut
          /\ n.in = th.in /\ n.control = <<>> /\ n.signals = <<>>
      BY <1>1, <3>2, <3>3, <3>4, StateFields DEF Quiet
    <3>6. ASSUME NEW m \in Handler, m.sm = "ClearingBulkIo", OneIn(m), OneControl(m),
                 ClearPhase(m, "Pending")
          PROVE  Goes(m, call', "Pending")
      <4>1. IsRunning(m)
        BY <3>6 DEF IsRunning, RunningStates
      <4>2. Phase(m, call', "Pending")
        BY <1>2, <3>6 DEF Phase
      <4> QED BY <3>6, <4>1, <4>2, RunningGoes
    <3>7. CASE th.in = <<>>
      <4>1. h \in SubmitControl(n, "INITIATE_CLEAR")
        BY <1>3, <2>2, <3>2, <3>3, <3>7 DEF Cleared, Quiet
      <4>2. IsRunning(n) /\ "INITIATE_CLEAR" \in Requests
        BY <3>5 DEF IsRunning, RunningStates, Requests
      <4>3. \/ /\ GaveUp(h)
               /\ \E end \in {"Error", "DeviceDisconnected"} :
                    h.signals = Append(n.signals, end)
            \/ /\ h \in Handler /\ h.sm = n.sm /\ h.out = n.out /\ h.in = n.in
               /\ OneControl(h) /\ h.control \in ControlOf({"INITIATE_CLEAR"})
               /\ h.signals = n.signals
        BY <3>5, <4>1, <4>2, SubmitControlFields
      <4>4. CASE /\ GaveUp(h)
                 /\ \E end \in {"Error", "DeviceDisconnected"} :
                      h.signals = Append(n.signals, end)
        <5>1. PICK end \in {"Error", "DeviceDisconnected"} : h.signals = Append(n.signals, end)
          BY <4>4
        <5>2. h.signals = <<end>>
          BY <3>5, <5>1
        <5>3. h.signals # th.signals /\ Last(h.signals) = end
          BY <3>2, <5>2 DEF Last
        <5>4. state' \in Signals
          BY <1>3, <5>3 DEF Signals
        <5>5. h \in Handler
          BY <4>4 DEF GaveUp
        <5>6. GaveUp(th')
          BY <1>3, <1>4, <4>4, <5>5 DEF GaveUp, Emptied
        <5> QED BY <5>4, <5>6, GaveUpFits DEF GaveUp
      <4>5. CASE /\ h \in Handler /\ h.sm = n.sm /\ h.out = n.out /\ h.in = n.in
                 /\ OneControl(h) /\ h.control \in ControlOf({"INITIATE_CLEAR"})
                 /\ h.signals = n.signals
        <5>1. PICK m : m = [h EXCEPT !.signals = th.signals]
          OBVIOUS
        <5>2. /\ m \in Handler /\ m.sm = h.sm /\ m.out = h.out /\ m.in = h.in
              /\ m.control = h.control /\ m.signals = th.signals
          BY <1>4, <4>5, <5>1
        <5>3. state' = "Pending" /\ th' = m
          BY <1>1, <1>3, <3>2, <3>5, <4>5, <5>1
        <5>4. m.control \in ControlOf({"INITIATE_CLEAR", "CHECK_CLEAR_STATUS"})
          BY <4>5, <5>2 DEF ControlOf
        <5>5. OneIn(m) /\ OneControl(m)
          BY <3>5, <3>7, <4>5, <5>2 DEF OneIn, OneControl
        <5>6. ClearPhase(m, "Pending")
          BY <3>2, <3>5, <3>7, <4>5, <5>2, <5>4 DEF ClearPhase, Untold
        <5> QED BY <3>5, <3>6, <4>5, <5>2, <5>3, <5>5, <5>6 DEF Goes
      <4> QED BY <4>3, <4>4, <4>5
    <3>8. CASE th.in # <<>>
      <4>1. PICK b : b = [at |-> "left", split |-> "NoAction"]
        OBVIOUS
      <4>2. b \in BulkIn /\ n.in = <<b>> /\ b.at = "left"
        BY <3>2, <3>5, <3>8, <4>1 DEF Unread, LeftIn, BulkIn, Places, Actions
      <4>3. PICK k : k = CancelOut(n, "INITIATE_CLEAR")
        OBVIOUS
      <4>4. "INITIATE_CLEAR" \in Actions
        BY DEF Actions
      <4>5. /\ k \in Handler /\ k.sm = n.sm /\ k.in = n.in /\ k.control = n.control
            /\ k.signals = n.signals /\ k.out = NoOut
        BY <3>5, <4>3, <4>4, CancelOutFields
      <4>6. h = CancelIn(k, "INITIATE_CLEAR")
        BY <1>3, <2>2, <3>3, <3>8, <4>3 DEF Cleared
      <4>7. OneIn(k)
        BY <4>2, <4>5 DEF OneIn
      <4>8. /\ h \in Handler /\ h.sm = k.sm /\ h.out = k.out /\ h.control = k.control
            /\ h.signals = k.signals /\ OneIn(h)
        BY <4>4, <4>5, <4>6, <4>7, CancelInFields
      <4>9. h.in = <<[at |-> IF b.at = "flying" THEN "cancelling" ELSE b.at,
                      split |-> "INITIATE_CLEAR"]>>
        BY <4>2, <4>4, <4>5, <4>6, <4>7, CancelInFields
      <4>10. h.in = LeftIn("INITIATE_CLEAR")
        BY <4>2, <4>9 DEF LeftIn
      <4>11. PICK m : m = [h EXCEPT !.signals = th.signals]
        OBVIOUS
      <4>12. /\ m \in Handler /\ m.sm = h.sm /\ m.out = h.out /\ m.in = h.in
             /\ m.control = h.control /\ m.signals = th.signals
        BY <1>4, <4>8, <4>11
      <4>13. state' = "Pending" /\ th' = m
        BY <1>1, <1>3, <3>2, <3>5, <4>5, <4>8, <4>11
      <4>14. PICK d : d = [at |-> "left", split |-> "INITIATE_CLEAR"]
        OBVIOUS
      <4>15. d \in BulkIn /\ d.split = "INITIATE_CLEAR" /\ m.in = <<d>>
        BY <4>10, <4>12, <4>14 DEF LeftIn, BulkIn, Places, Actions
      <4>16. OneIn(m) /\ OneControl(m)
        BY <3>5, <4>5, <4>8, <4>12, <4>15 DEF OneIn, OneControl
      <4>17. /\ Untold(m, "Pending") /\ m.out = NoOut
             /\ m.sm = "ClearingBulkIo" /\ m.control = <<>>
        BY <3>2, <3>5, <4>5, <4>8, <4>12 DEF Untold
      <4>18. ClearPhase(m, "Pending")
        BY <4>15, <4>17 DEF ClearPhase
      <4> QED BY <3>6, <4>12, <4>13, <4>16, <4>17, <4>18 DEF Goes
    <3> QED BY <3>7, <3>8
  <2> QED BY <2>1, <2>2
<1>6. HandlerFits(th, call, state)'
  BY <1>1, <1>5, SameFaults
<1>7. TypeOK'
  <2>1. th' \in Handler
    BY <1>5 DEF HandlerFits
  <2> QED BY <1>1, <1>2, <1>5, <2>1 DEF IInv, TypeOK, Ops
<1>8. CallFits'
  BY <1>1, <1>2, <1>5 DEF IInv, CallFits
<1> QED BY <1>6, <1>7, <1>8 DEF IInv

(* submitCommand() read the flag, and goes on or refuses. *)
LEMMA CheckProcessingKeeps ==
  ASSUME IInv, CheckProcessing
  PROVE  IInv'
<1>1. call.at = "check" /\ UNCHANGED <<faults, th, closing, polls>>
  BY DEF CheckProcessing, Refused
<1>2. call.op \in Ops /\ state = "Pending" /\ ~closing
  BY <1>1 DEF IInv, TypeOK, NoCall, CallFits
<1>3. \/ call' = [op |-> call.op, at |-> "submit"] /\ state' = "Pending"
      \/ call' = NoCall /\ state' = "Error"
  BY <1>1, <1>2 DEF CheckProcessing, Refused, IInv, TypeOK, NoCall
<1>4. IsRunning(th) => Resting(th)
  BY <1>1, RestingOutsideWait
<1>5. TypeOK'
  BY <1>1, <1>2, <1>3 DEF IInv, TypeOK, Signals
<1>6. CallFits'
  BY <1>1, <1>2, <1>3 DEF IInv, CallFits, NoCall
<1>7. call'.at # "wait"
  BY <1>3 DEF NoCall
<1>8. IsRunning(th) => Phase(th, call', state')
  BY <1>4, <1>7 DEF Phase
<1> QED BY <1>1, <1>5, <1>6, <1>8, CallMoves

(* submitCommand() hands the message over, refuses, or stops in its own    *)
(* lock.                                                                   *)
LEMMA SubmitCommandKeeps ==
  ASSUME IInv, SubmitCommand
  PROVE  IInv'
<1>1. /\ call.op \in {"command", "query"} /\ call.at = "submit"
      /\ UNCHANGED <<faults, closing, polls>>
  BY DEF SubmitCommand
<1>2. state = "Pending" /\ ~closing /\ call = [op |-> call.op, at |-> "submit"]
  BY <1>1 DEF IInv, TypeOK, NoCall, CallFits
<1>3. IsRunning(th) => Resting(th) /\ th.sm = "Processing"
  BY <1>1, RestingOutsideWait
<1>4. \/ th' = th /\ call' = NoCall /\ state' = "Error"
      \/ th' = th /\ call' = [op |-> call.op, at |-> "locked"] /\ state' = "Pending"
      \/ /\ PoolsAllow(call.op)
         /\ th' = [th EXCEPT !.out = [msg |-> call.op, at |-> "flying",
                                      split |-> "NoAction"]]
         /\ call' = [op |-> call.op, at |-> "wait"] /\ state' = "Pending"
  BY <1>2 DEF SubmitCommand, Refused
<1>5. CASE th' = th /\ call'.at # "wait"
  <2>1. call' = NoCall \/ call' = [op |-> call.op, at |-> "locked"]
    BY <1>4, <1>5
  <2>2. TypeOK'
    BY <1>1, <1>4, <1>5, <2>1 DEF IInv, TypeOK, Ops, Signals
  <2>3. CallFits'
    BY <1>1, <1>2, <1>4, <1>5 DEF IInv, CallFits, NoCall
  <2>4. IsRunning(th) => Phase(th, call', state')
    BY <1>3, <1>5 DEF Phase
  <2> QED BY <1>1, <1>5, <2>2, <2>3, <2>4, CallMoves
<1>6. CASE /\ PoolsAllow(call.op)
           /\ th' = [th EXCEPT !.out = [msg |-> call.op, at |-> "flying",
                                        split |-> "NoAction"]]
           /\ call' = [op |-> call.op, at |-> "wait"] /\ state' = "Pending"
  <2>1. PICK b : b = [msg |-> call.op, at |-> "flying", split |-> "NoAction"]
    OBVIOUS
  <2>2. b \in BulkOut /\ b \in OutOf({call.op})
    BY <1>1, <2>1 DEF BulkOut, OutOf, Places, InFlight, Actions
  <2>3. th' = [th EXCEPT !.out = b]
    BY <1>6, <2>1
  <2>4. /\ th' \in Handler /\ th'.sm = th.sm /\ th'.out = b /\ th'.in = th.in
        /\ th'.control = th.control /\ th'.interrupt = th.interrupt
        /\ th'.signals = th.signals
    BY <2>2, <2>3, Held DEF Handler
  <2>5. OneIn(th') /\ OneControl(th') /\ (Emptied(th) => Emptied(th'))
    BY <2>4, Held DEF OneIn, OneControl, Emptied
  <2>6. ASSUME IsRunning(th) PROVE Phase(th', call', state')
    <3>1. /\ Untold(th', state') /\ th'.sm = "Processing" /\ th'.control = <<>>
          /\ Unread(th')
      BY <1>3, <1>6, <2>4, <2>6 DEF Resting, Quiet, Untold, Unread
    <3>2. CASE call.op = "command"
      <4>1. CommandPhase(th', state')
        BY <2>2, <2>4, <3>1, <3>2 DEF CommandPhase
      <4> QED BY <1>6, <3>2, <4>1 DEF Phase
    <3>3. CASE call.op = "query"
      <4>1. th'.in = <<>>
        BY <1>6, <2>4, <3>3 DEF PoolsAllow
      <4>2. th'.out \in OutOf({"query", "request"})
        BY <2>2, <2>4, <3>3 DEF OutOf
      <4>3. QueryPhase(th', state')
        BY <3>1, <4>1, <4>2 DEF QueryPhase
      <4> QED BY <1>6, <3>3, <4>3 DEF Phase
    <3> QED BY <1>1, <3>2, <3>3
  <2>7. th.sm \notin {"Stopping", "Stopped"}
    BY <1>2 DEF IInv, CallFits
  <2>8. HandlerFits(th', call', state')
    BY <2>4, <2>5, <2>6, <2>7 DEF IInv, HandlerFits, IsRunning
  <2>9. HandlerFits(th, call, state)'
    BY <1>1, <2>8, SameFaults
  <2>10. TypeOK'
    BY <1>1, <1>6, <2>4 DEF IInv, TypeOK, Ops
  <2>11. CallFits'
    BY <1>1, <1>2, <1>6, <2>4 DEF IInv, CallFits, IsRunning
  <2> QED BY <2>9, <2>10, <2>11 DEF IInv
<1> QED BY <1>4, <1>5, <1>6 DEF NoCall

(* What a call that returns was told, and what it finds. *)
LEMMA ReturnFinds ==
  ASSUME IInv, Returns
  PROVE  /\ IsRunning(th) => Quiet(th) /\ th.signals = <<>>
         /\ IsRunning(th) /\ ~(call.op = "query" /\ state = "Done") => Unread(th)
         /\ IsRunning(th) /\ call.op = "query" /\ state = "Done" => th.in = AnswerIn
         /\ ~IsRunning(th) => Emptied(th)
<1>1. call.at = "wait" /\ call.op \in Ops /\ ~closing /\ state # "Pending"
  BY Held DEF Returns
<1>2. ASSUME NEW end, Told(th, state, end)
      PROVE  th.signals = <<>> /\ state = end
  BY <1>1, <1>2 DEF Told
<1>3. ~Untold(th, state)
  BY <1>1 DEF Untold
<1>4. ASSUME ~IsRunning(th) PROVE Emptied(th)
  <2>1. th.sm \in EndStates \cup {"Closed"}
    BY <1>1, <1>4, Held, HandlerFields DEF IInv, CallFits, IsRunning, MachineStates
  <2> QED BY <2>1 DEF IInv, HandlerFits
<1>5. ASSUME IsRunning(th)
      PROVE  /\ Quiet(th) /\ th.signals = <<>>
             /\ ~(call.op = "query" /\ state = "Done") => Unread(th)
             /\ call.op = "query" /\ state = "Done" => th.in = AnswerIn
  <2>1. Phase(th, call, state)
    BY <1>5, Held
  <2>2. CASE call.op = "clear"
    <3>1. Quiet(th) /\ th.in = <<>> /\ Told(th, state, "Aborted")
      BY <1>1, <1>3, <2>1, <2>2 DEF Phase, ClearPhase
    <3> QED BY <1>2, <2>2, <3>1 DEF Unread
  <2>3. CASE call.op = "command"
    <3>1. Quiet(th) /\ Unread(th) /\ Told(th, state, "Done")
      BY <1>1, <1>3, <2>1, <2>3 DEF Phase, CommandPhase
    <3> QED BY <1>2, <2>3, <3>1
  <2>4. CASE call.op = "query"
    <3>1. \/ Quiet(th) /\ th.in = AnswerIn /\ Told(th, state, "Done")
          \/ Quiet(th) /\ th.in = LeftIn("NoAction") /\ ~Recovers /\ Told(th, state, "Aborted")
      BY <1>1, <1>3, <2>1, <2>4 DEF Phase, QueryPhase
    <3> QED BY <1>2, <2>4, <3>1 DEF Unread
  <2> QED BY <1>1, <2>2, <2>3, <2>4 DEF Ops
<1> QED BY <1>4, <1>5

(* A call returns; a query takes its answer from the pending list. *)
LEMMA ReturnKeeps ==
  ASSUME IInv, ReturnFromCall
  PROVE  IInv'
<1>1. /\ Returns /\ call' = NoCall /\ UNCHANGED <<faults, closing, state, polls>>
      /\ ~closing /\ th \in Handler
  BY Held DEF ReturnFromCall, Returns
<1>2. PICK r : r = [th EXCEPT !.in = <<>>]
  OBVIOUS
<1>3. th' = IF call.op = "query" /\ state = "Done" THEN r ELSE th
  BY <1>2 DEF ReturnFromCall, Read
<1>4. /\ r \in Handler /\ r.sm = th.sm /\ r.out = th.out /\ r.in = <<>>
      /\ r.control = th.control /\ r.interrupt = th.interrupt /\ r.signals = th.signals
  <2>1. <<>> \in Seq(BulkIn)
    OBVIOUS
  <2> QED BY <1>1, <1>2, <2>1 DEF Handler
<1>5. HandlerFits(th', call', state')
  <2>1. CASE ~(call.op = "query" /\ state = "Done")
    <3>1. th' = th
      BY <1>3, <2>1
    <3>2. IsRunning(th) => Resting(th)
      BY <1>1, <2>1, ReturnFinds DEF Resting
    <3>3. IsRunning(th) => Phase(th, call', state')
      BY <1>1, <3>2 DEF Phase, NoCall
    <3> QED BY <3>1, <3>3 DEF IInv, HandlerFits
  <2>2. CASE call.op = "query" /\ state = "Done"
    <3>1. th' = r
      BY <1>3, <2>2
    <3>2. IsRunning(th) => Resting(r)
      BY <1>1, <1>4, <2>2, ReturnFinds DEF Resting, Quiet, Unread
    <3>3. IsRunning(r) => Phase(r, call', state')
      BY <1>1, <1>4, <3>2 DEF Phase, NoCall, IsRunning
    <3>4. OneIn(r) /\ OneControl(r) /\ (Emptied(th) => Emptied(r))
      BY <1>4, Held DEF OneIn, OneControl, Emptied
    <3> QED BY <1>4, <3>1, <3>3, <3>4 DEF IInv, HandlerFits
  <2> QED BY <2>1, <2>2
<1>6. HandlerFits(th, call, state)'
  BY <1>1, <1>5, SameFaults
<1>7. TypeOK'
  <2>1. th' \in Handler
    BY <1>5 DEF HandlerFits
  <2> QED BY <1>1, <2>1 DEF IInv, TypeOK
<1>8. CallFits'
  <2>1. th'.sm = th.sm
    BY <1>3, <1>4
  <2> QED BY <1>1, <2>1 DEF IInv, CallFits, NoCall, IsRunning
<1> QED BY <1>6, <1>7, <1>8 DEF IInv

(* sendCommand() sends the next part of a long command. *)
LEMMA SendNextPartKeeps ==
  ASSUME IInv, SendNextPart
  PROVE  IInv'
<1>1. /\ Returns /\ call.op = "command" /\ Begin("command", "check")
      /\ UNCHANGED <<faults, th, closing>> /\ ~closing
  BY DEF SendNextPart, Returns
<1>2. IsRunning(th) => Resting(th)
  BY <1>1, ReturnFinds DEF Resting
<1> QED BY <1>1, <1>2, BeginKeeps DEF Ops

(* close(): the machine is asked to stop. *)
LEMMA CloseKeeps ==
  ASSUME IInv, Close
  PROVE  IInv'
<1>1. /\ closing' = TRUE /\ UNCHANGED <<faults, call, state, polls>> /\ ~closing
      /\ call = NoCall \/ (CloseDuringCall /\ call.at = "wait")
      /\ th \in Handler /\ OneIn(th) /\ OneControl(th)
  BY Held DEF Close
<1>2. CASE ~IsRunning(th)
  <2>1. th' = th
    BY <1>2 DEF Close
  <2>2. TypeOK'
    BY <1>1, <2>1 DEF IInv, TypeOK
  <2>3. CallFits'
    BY <1>1, <1>2, <2>1 DEF IInv, CallFits, NoCall, IsRunning
  <2> QED BY <1>1, <1>2, <2>1, <2>2, <2>3, CallMoves
<1>3. CASE IsRunning(th)
  <2>1. PICK n : n = [th EXCEPT !.sm = "Stopping"]
    OBVIOUS
  <2>2. "Stopping" \in MachineStates /\ "Stopped" \in MachineStates
    BY DEF MachineStates, EndStates
  <2>3. /\ n \in Handler /\ n.sm = "Stopping" /\ n.out = th.out /\ n.in = th.in
        /\ n.control = th.control /\ n.interrupt = th.interrupt
    BY <1>1, <2>1, <2>2, StateFields
  <2>4. OneIn(n) /\ OneControl(n)
    BY <1>1, <2>3 DEF OneIn, OneControl
  <2>5. Recovers /\ ~CloseDuringCall => n.out = NoOut /\ n.in = <<>> /\ n.control = <<>>
    BY <1>1, <1>3, <2>3, RestingOutsideWait DEF NoCall, Resting, Quiet, Unread
  <2>6. HandlerFits(th', call', state') /\ th'.sm \in {"Stopping", "Stopped"}
    <3>1. CASE HasPendingTransfers(n)
      <4>1. PICK k : k = CancelOut(n, "NoAction")
        OBVIOUS
      <4>2. "NoAction" \in Actions
        BY DEF Actions
      <4>3. /\ k \in Handler /\ k.sm = n.sm /\ k.in = n.in /\ k.control = n.control
            /\ k.interrupt = n.interrupt
            /\ n.out = NoOut => k.out = NoOut
        BY <2>3, <4>1, <4>2, CancelOutFields
      <4>4. OneIn(k)
        BY <2>4, <4>3 DEF OneIn
      <4>5. th' = CancelIn(k, "NoAction")
        BY <1>3, <2>1, <3>1, <4>1 DEF Close
      <4>6. /\ th' \in Handler /\ th'.sm = k.sm /\ th'.out = k.out
            /\ th'.control = k.control /\ th'.interrupt = k.interrupt /\ OneIn(th')
            /\ k.in = <<>> => th'.in = <<>>
        BY <4>2, <4>3, <4>4, <4>5, CancelInFields
      <4>7. OneControl(th')
        BY <2>4, <4>3, <4>6 DEF OneControl
      <4>8. Recovers /\ ~CloseDuringCall
              => th'.out = NoOut /\ th'.in = <<>> /\ th'.control = <<>> /\ th'.interrupt
        BY <2>5, <3>1, <4>3, <4>6 DEF HasPendingTransfers
      <4>9. th'.sm = "Stopping"
        BY <2>3, <4>3, <4>6
      <4> QED BY <4>6, <4>7, <4>8, <4>9 DEF HandlerFits, IsRunning, RunningStates, EndStates
    <3>2. CASE ~HasPendingTransfers(n)
      <4>1. th' = StopIfDone(n)
        BY <1>3, <2>1, <3>2 DEF Close, StopIfDone
      <4> QED BY <2>3, <2>4, <2>5, <4>1, StoppingGoes
    <3> QED BY <3>1, <3>2
  <2>7. HandlerFits(th, call, state)'
    BY <1>1, <2>6, SameFaults
  <2>8. TypeOK'
    <3>1. th' \in Handler
      BY <2>6 DEF HandlerFits
    <3> QED BY <1>1, <3>1 DEF IInv, TypeOK
  <2>9. CallFits'
    BY <1>1, <2>6 DEF CallFits, NoCall, IsRunning, RunningStates
  <2> QED BY <2>7, <2>8, <2>9 DEF IInv
<1> QED BY <1>2, <1>3

(* close() returns: the device is closed. *)
LEMMA CloseReturnsKeeps ==
  ASSUME IInv, CloseReturns
  PROVE  IInv'
<1>1. closing /\ closing' = FALSE /\ UNCHANGED <<faults, call, state, polls>>
  BY DEF CloseReturns
<1>2. /\ th.signals \in Seq(Signals) /\ <<>> \in Seq(BulkIn) /\ <<>> \in Seq(Control)
      /\ "Closed" \in MachineStates
  BY Held, HandlerFields DEF MachineStates
<1>3. th' = [sm |-> "Closed", out |-> NoOut, in |-> <<>>, control |-> <<>>,
             interrupt |-> FALSE, signals |-> th.signals]
  BY DEF CloseReturns, Closed
<1>4. /\ th' \in Handler /\ th'.sm = "Closed" /\ th'.in = <<>> /\ th'.control = <<>>
      /\ ~th'.interrupt
  BY <1>2, <1>3 DEF Handler
<1>5. HandlerFits(th', call', state')
  BY <1>4 DEF HandlerFits, IsRunning, RunningStates, OneIn, OneControl, Emptied
<1>6. HandlerFits(th, call, state)'
  BY <1>1, <1>5, SameFaults
<1>7. TypeOK'
  BY <1>1, <1>4 DEF IInv, TypeOK
<1>8. CallFits'
  BY <1>1, <1>4 DEF IInv, CallFits, IsRunning, RunningStates
<1> QED BY <1>6, <1>7, <1>8 DEF IInv

-----------------------------------------------------------------------------
(* The invariant, and what follows from it.                                *)

(* A closed device, before the first openDevice(), is in it. *)
LEMMA InitInvariant == Init => IInv
<1> SUFFICES ASSUME Init PROVE IInv
  OBVIOUS
<1>1. th = Closed /\ call = NoCall /\ ~closing /\ state = "Pending"
  BY DEF Init
<1>2. th \in Handler
  <2>1. <<>> \in Seq(BulkIn) /\ <<>> \in Seq(Control) /\ <<>> \in Seq(Signals)
    OBVIOUS
  <2> QED BY <1>1, <2>1 DEF Closed, Handler, MachineStates
<1>3. TypeOK
  <2>1. polls \in 0 .. MaxPolls
    BY UsbtmcAssumption DEF Init
  <2>2. faults \in FaultSets /\ closing \in BOOLEAN
    BY DEF Init
  <2> QED BY <1>1, <1>2, <2>1, <2>2 DEF TypeOK
<1>4. HandlerFits(th, call, state)
  BY <1>1, <1>2 DEF HandlerFits, Closed, IsRunning, RunningStates, OneIn, OneControl,
                    Emptied
<1>5. CallFits
  BY <1>1 DEF CallFits, NoCall, Closed
<1> QED BY <1>3, <1>4, <1>5 DEF IInv

(* Every callback of libusb and every step of the main thread keeps it. *)
LEMMA NextInvariant == IInv /\ [Next]_vars => IInv'
<1> SUFFICES ASSUME IInv, [Next]_vars PROVE IInv'
  OBVIOUS
<1>1. CASE OutCompletes \/ InCompletes \/ ControlCompletes \/ InterruptCompletes
  BY <1>1, OutCompletesKeeps, InCompletesKeeps, ControlCompletesKeeps,
     InterruptCompletesKeeps
<1>2. CASE Deliver \/ Open \/ ClearBulkIo \/ Send("command") \/ Send("query")
  BY <1>2, DeliverKeeps, OpenKeeps, CallsBeginKeeps
<1>3. CASE CallGoesOn \/ SendNextPart
  BY <1>3, SubmitClearKeeps, CheckProcessingKeeps, SubmitCommandKeeps, ReturnKeeps,
     SendNextPartKeeps DEF CallGoesOn
<1>4. CASE Close \/ CloseReturns
  BY <1>4, CloseKeeps, CloseReturnsKeeps
<1>5. CASE UNCHANGED vars
  <2>1. UNCHANGED <<faults, th, call, closing, state, polls>>
    BY <1>5 DEF vars
  <2>2. TypeOK' /\ CallFits'
    BY <2>1 DEF IInv, TypeOK, CallFits, IsRunning
  <2>3. IsRunning(th) => Phase(th, call', state')
    BY <2>1, Held
  <2> QED BY <2>1, <2>2, <2>3, CallMoves
<1> QED BY <1>1, <1>2, <1>3, <1>4, <1>5 DEF Next

(* So it holds always. *)
LEMMA Invariant == Spec => []IInv
BY InitInvariant, NextInvariant, PTL DEF Spec

(* The handler, the call and the states stay in their types: in particular *)
(* a callback never finds a transfer that its pool does not have.          *)
THEOREM TypeCorrect == Spec => []TypeOK
<1>1. IInv => TypeOK
  BY DEF IInv
<1> QED BY <1>1, Invariant, PTL

(* A query that is done takes exactly one transfer from the pending list,  *)
(* and that is a complete answer (sendQuery(), getReceivedData()), unless  *)
(* the machine gave up since and there is none.  It holds whatever the     *)
(* device does wrong, and also when close() is called during a call.       *)
THEOREM QueriesAnswered == Spec => QueryAnswered
<1>1. IInv /\ [Next]_vars
        => [call.op = "query" /\ state = "Done" /\ call' = NoCall
              => IF IsRunning(th) THEN Len(th.in) = 1 /\ th.in[1].at = "answer"
                 ELSE th.in = <<>>]_vars
  <2> SUFFICES ASSUME IInv, Next, call.op = "query", state = "Done", call' = NoCall
               PROVE  IF IsRunning(th) THEN Len(th.in) = 1 /\ th.in[1].at = "answer"
                      ELSE th.in = <<>>
    OBVIOUS
  <2>1. call # NoCall /\ call.at \notin {"check", "submit"}
    BY DEF NoCall, IInv, CallFits
  <2>2. ReturnFromCall
    BY <2>1 DEF Next, OutCompletes, InCompletes, ControlCompletes, InterruptCompletes,
                MainUnchanged, Deliver, CallGoesOn, SubmitClear, CheckProcessing,
                SubmitCommand, SendNextPart, Open, ClearBulkIo, Send, CanCall, Close,
                CloseReturns, Returns
  <2>3. Returns
    BY <2>2 DEF ReturnFromCall
  <2>4. CASE IsRunning(th)
    <3>1. th.in = AnswerIn
      BY <2>3, <2>4, ReturnFinds
    <3> QED BY <2>4, <3>1 DEF AnswerIn
  <2>5. CASE ~IsRunning(th)
    BY <2>3, <2>5, ReturnFinds DEF Emptied
  <2> QED BY <2>4, <2>5
<1> QED BY <1>1, Invariant, PTL DEF Spec, QueryAnswered

(* When calls are not interrupted by close(), and the device fails only in *)
(* ways the handler handles, a machine that stops waits for nothing but    *)
(* the interrupt-IN transfer, which libusb ends: nothing was left in the   *)
(* pools by the call before (waitTransactionFinished(), aboutToClose()).   *)
THEOREM StopsAlone ==
  ASSUME ~CloseDuringCall
  PROVE  Spec => []StopsByItself
<1>1. IInv => StopsByItself
  BY DEF IInv, HandlerFits, StopsByItself, SomethingInFlight
<1> QED BY <1>1, Invariant, PTL
=============================================================================
