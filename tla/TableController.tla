---------------------------- MODULE TableController ----------------------------
(***************************************************************************)
(* An SQL table controller (mdtAbstractSqlTableController, with the data   *)
(* widgets of mdtSqlDataWidgetController) and its one-to-one child         *)
(* controllers.  Each has a state machine, a current row, widgets that     *)
(* show it, and a QSqlTableModel with a cache of its own.  The main one    *)
(* saves, reverts, inserts and removes its children together with itself,  *)
(* and sets their filter to its current row.                               *)
(*                                                                         *)
(* All run in one thread.  A state's handler runs when the state is        *)
(* entered; it is one action unless it waits for a child in                *)
(* waitOperationComplete(), which runs the event loop: then the user and   *)
(* the application act on both, and a signal that the state the main one   *)
(* is in has no transition for is lost.                                    *)
(*                                                                         *)
(* Records are known by their row number only; what a save writes is not   *)
(* modelled, whether something is left to save is.  No sort order is set.  *)
(***************************************************************************)
EXTENDS Integers, Sequences, FiniteSets

CONSTANTS Main,           (* the parent controller                          *)
          Children,       (* pvChildControllerContainers, all OneToOne      *)
          MaxRows,        (* bound: rows of a model                         *)
          Faults,         (* what may go wrong, see FaultKinds              *)
          TypesWhileBusy  (* a record is edited while the main one waits    *)

Kids == {Children[i] : i \in DOMAIN Children}
Controllers == {Main} \cup Kids
FaultKinds == {"validate", "model", "database", "insert", "remove", "select",
               "refuse"}

ASSUME TableAssumption ==
  /\ Children \in Seq(Kids)
  /\ \A i, j \in DOMAIN Children : Children[i] = Children[j] => i = j
  /\ Main \notin Kids
  /\ MaxRows \in Nat \ {0}
  /\ Faults \subseteq FaultKinds
  /\ TypesWhileBusy \in BOOLEAN

VARIABLES ctl,     (* each controller, see Record                           *)
          filter,  (* the relation's pvCurrentRow: the row of Main whose    *)
                   (* records the child's model holds                       *)
          step,    (* Main's handler, while it runs its children: which     *)
                   (* child, and whether it is to be called, did not return *)
                   (* at once, or returned                                  *)
          waiting  (* submitAndWait() or removeAndWait() called on Main     *)

vars == <<ctl, filter, step, waiting>>

States == {"Selecting", "Visualizing", "Editing", "EditingNewRow", "Submitting",
           "SubmittingNewRow", "Removing"}
RowNumbers == -1 .. MaxRows

Record == [state    : States,
           row      : RowNumbers,    \* pvCurrentRow
           rows     : 0 .. MaxRows,  \* pvModel->rowCount()
           before   : RowNumbers,    \* pvBeforeInsertCurrentRow
           mapped   : BOOLEAN,       \* pvWidgetMapper has a valid index
           typed    : BOOLEAN,       \* pvDataEdited of its field handlers
           dirty    : BOOLEAN,       \* cached changes of existing rows
           new      : BOOLEAN,       \* a cached row that is not in the database
           doomed   : RowNumbers,    \* a row whose removal is cached, or -1
           error    : BOOLEAN,       \* pvLastError is set
           complete : BOOLEAN]       \* pvOperationComplete

Ops == {"submit", "submitNew", "remove"}
Steps == [op : Ops, child : 1 .. Len(Children) + 1,
          at : {"call", "wait", "return"}]
NoStep == [op |-> "none", child |-> 0, at |-> "none"]

TypeOK == /\ ctl \in [Controllers -> Record]
          /\ filter \in [Kids -> RowNumbers]
          /\ step \in Steps \cup {NoStep}
          /\ waiting \in BOOLEAN

Idle == step = NoStep

\* The event loop runs: Main rests, or its handler waits for a child.
Free == Idle \/ step.at = "wait"

(***************************************************************************)
(* After start(): the main model was not selected yet, the children were,  *)
(* with the filter "-1".                                                   *)
(***************************************************************************)
Started == [state |-> "Visualizing", row |-> -1, rows |-> 0, before |-> -1,
            mapped |-> FALSE, typed |-> FALSE, dirty |-> FALSE, new |-> FALSE,
            doomed |-> -1, error |-> FALSE, complete |-> TRUE]

Init == /\ ctl = [c \in Controllers |-> Started]
        /\ filter = [k \in Kids |-> -1]
        /\ step = NoStep
        /\ waiting = FALSE

-----------------------------------------------------------------------------
(* One controller by itself. *)

Fails(kind, outcomes) == IF kind \in Faults THEN outcomes ELSE {}

\* Visualizing is entered: onStateVisualizingEntered().
Succeed(r) == [r EXCEPT !.state = "Visualizing", !.complete = TRUE]
Failed(r, state) == [r EXCEPT !.state = state, !.error = TRUE]

\* A model that is selected again has an empty cache and other indexes.
Repopulated(r, n) ==
  [r EXCEPT !.rows = n, !.mapped = FALSE, !.dirty = FALSE, !.new = FALSE,
            !.doomed = -1]

RowFound(r, n) == r.rows = 0 \/ n < r.rows

\* setCurrentRowPv(): the widgets are filled again, what was typed is lost.
SetRow(r, n) ==
  IF r.rows = 0 THEN [r EXCEPT !.row = -1, !.mapped = FALSE, !.typed = FALSE]
  ELSE IF n < r.rows
       THEN [r EXCEPT !.row = n, !.mapped = @ \/ n >= 0, !.typed = FALSE]
       ELSE r

Clean(r) == ~r.dirty /\ ~r.new /\ r.doomed = -1

\* Faulty variant: the cache is not looked at.
SavedWidgets(r, checkDirty) ==
  r.row < 0 \/ r.state \in {"Visualizing", "Selecting"}

\* allDataAreSaved() for this controller alone.
Saved(r, checkDirty) ==
  \/ r.row < 0
  \/ r.state \in {"Visualizing", "Selecting"} /\ (checkDirty => Clean(r))

\* submitToModel() and submitToDatabase(): the outcomes of a failure.
FailedSaves(r) ==
  LET written == [r EXCEPT !.dirty = @ \/ ~r.new, !.error = TRUE]
  IN  Fails("validate", {r})
        \cup (IF "model" \in Faults \/ ~r.mapped
              THEN {[r EXCEPT !.error = TRUE]} ELSE {})
        \cup (IF r.mapped THEN Fails("database", {written}) ELSE {})

\* submitAll() writes the whole cache and selects again.
SavedRow(r) == Repopulated(r, r.rows - Cardinality({r.doomed} \ {-1}))

\* Faulty variant: a failure goes back to where the submit came from.
StateBefore(r) == r.state

EditState(r) == IF r.state = "EditingNewRow" THEN "EditingNewRow" ELSE "Editing"

\* submitTriggered() of a child, until its machine rests again.
Submitted(r) ==
  IF r.state \notin {"Visualizing", "Editing", "EditingNewRow"} THEN {r}
  ELSE {[f EXCEPT !.state = EditState(r)] : f \in FailedSaves(r)}
         \cup (IF r.mapped THEN {Succeed(SetRow(SavedRow(r), r.row))} ELSE {})

\* Faulty variant: a row that was not saved is only marked too.
NewRowMarked(r) == [r EXCEPT !.doomed = r.row]

\* removeRow() of the row that was inserted: a row that was saved in between
\* is only marked for the next submitAll().
NewRowRemoved(r) ==
  IF r.new THEN [r EXCEPT !.rows = @ - 1, !.new = FALSE, !.mapped = FALSE]
  ELSE [r EXCEPT !.doomed = r.row]

\* revertTriggered(), after the user confirmed or refused.
Reverted(r) ==
  CASE r.state = "Editing" ->
         Fails("refuse", {r}) \cup {Succeed([r EXCEPT !.typed = FALSE])}
    [] r.state = "EditingNewRow" ->
         Fails("refuse", {r})
           \cup (IF r.row \in 0 .. r.rows - 1
                 THEN {Succeed(SetRow([NewRowRemoved(r) EXCEPT !.row = r.before],
                                      r.before))}
                 ELSE {Failed(r, "EditingNewRow")})
    [] OTHER -> {r}

\* insertTriggered().  When the row cannot be inserted the handler goes on
\* as if it were, in the row that was current before.
Inserted(r) ==
  IF r.state # "Visualizing" THEN {r}
  ELSE {[r EXCEPT !.state = "EditingNewRow", !.before = r.row, !.row = r.rows,
                  !.rows = @ + 1, !.new = TRUE, !.mapped = TRUE, !.typed = FALSE]}
         \cup Fails("insert",
                {Succeed([r EXCEPT !.before = r.row, !.error = TRUE,
                                   !.typed = FALSE])})

\* Faulty variant: a row that was marked already is counted twice.
RowRemovedTwice(r) ==
  Repopulated(r, r.rows - (IF r.doomed # -1 THEN 2 ELSE 1))

\* doRemove(): the row, and what else the cache holds, in one submitAll().
RowRemoved(r) == Repopulated(r, r.rows - Cardinality({r.row, r.doomed} \ {-1}))
CanRemove(r) == r.row \in 0 .. r.rows - 1
LastRowUpTo(n, r) == IF n < r.rows THEN n ELSE r.rows - 1

RemoveDone(r) == LET s == RowRemoved(r) IN SetRow(s, LastRowUpTo(r.row, s))

\* removeTriggered() of a child: Removing is left by a success only.
Removed(r) ==
  IF r.state # "Visualizing" THEN {r}
  ELSE IF r.rows < 1 THEN {Succeed(r)}
  ELSE Fails("refuse", {Succeed(r)})
         \cup (IF "remove" \in Faults \/ ~CanRemove(r)
               THEN {Failed(r, "Removing")} ELSE {})
         \cup (IF CanRemove(r) THEN {Succeed(RemoveDone(r))} ELSE {})

-----------------------------------------------------------------------------
(* The main controller and its children. *)

\* Faulty variant: the children are not asked.
MainSaved(checkDirty) == Saved(ctl[Main], checkDirty)

AllSaved(checkDirty) ==
  \/ ctl[Main].row < 0
  \/ \A c \in Controllers : Saved(ctl[c], checkDirty)

Put(c, k, r) == [c EXCEPT ![k] = r]

\* How many records a child may have for row n of the main one's model.
Matches(m, n) == IF n \in 0 .. m.rows - 1 /\ ~m.new THEN {0, 1} ELSE {0}

\* updateChildControllersAfterCurrentRowChanged(): the filter moves whatever
\* the child is doing, its current row only if it has nothing to save.
ShownInChild(r, n) ==
  LET s == Repopulated(r, n) IN IF Saved(s, TRUE) THEN SetRow(s, 0) ELSE s

\* Faulty variant: a child that edits keeps its filter.
ShowInIdleChildren(c, n) ==
  /\ \E m \in [Kids -> Matches(c[Main], n)] :
       ctl' = [x \in Controllers |->
                 IF x = Main THEN c[Main] ELSE ShownInChild(c[x], m[x])]
  /\ filter' = [k \in Kids |-> IF Saved(c[k], TRUE) THEN n ELSE filter[k]]

ShowInChildren(c, n) ==
  /\ \E m \in [Kids -> Matches(c[Main], n)] :
       ctl' = [x \in Controllers |->
                 IF x = Main THEN c[Main] ELSE ShownInChild(c[x], m[x])]
  /\ filter' = [k \in Kids |-> n]

\* submitAndWait() or removeAndWait() on a child, until the call returns or
\* has to wait.
Outcomes(op, r) ==
  LET s == [r EXCEPT !.error = FALSE, !.complete = FALSE]
  IN  IF op = "remove" THEN Removed(s) ELSE Submitted(s)

-----------------------------------------------------------------------------
(* What the main controller's handlers do with the children, one after the *)
(* other: updateChildControllersAfterSubmit(), ...AfterSubmitNewRow() and  *)
(* ...BeforeRemoveRow().  Only a child that does not rest in Visualizing   *)
(* when its handler ends makes the handler of the main one wait.           *)

Called == Children[step.child]

CallChild ==
  /\ step.at = "call"
  /\ step.child <= Len(Children)
  /\ \E r \in Outcomes(step.op, ctl[Called]) :
       /\ ctl' = Put(ctl, Called, r)
       /\ step' = [step EXCEPT !.at = IF r.complete THEN "return" ELSE "wait"]
  /\ UNCHANGED <<filter, waiting>>

\* The child's waitOperationComplete() ends; a failed handler of Main ends in
\* the state the operation came from, except a removal.
ChildReturns ==
  /\ step.at \in {"wait", "return"}
  /\ ctl[Called].complete
  /\ IF ctl[Called].error
     THEN /\ ctl' = Put(ctl, Main,
                       [ctl[Main] EXCEPT !.state =
                          CASE step.op = "submit" -> "Editing"
                            [] step.op = "submitNew" -> "EditingNewRow"
                            [] step.op = "remove" -> @])
          /\ step' = NoStep
          /\ UNCHANGED filter
     ELSE /\ step' = [step EXCEPT !.child = @ + 1, !.at = "call"]
          /\ IF step.op = "submitNew"
             THEN /\ \E n \in Matches(ctl[Main], ctl[Main].row) :
                       ctl' = Put(ctl, Called, Repopulated(ctl[Called], n))
                  /\ filter' = Put(filter, Called, ctl[Main].row)
             ELSE UNCHANGED <<ctl, filter>>
  /\ UNCHANGED waiting

AllReturned(op) == step.op = op /\ step.at = "call" /\ step.child > Len(Children)

FinishSubmit ==
  /\ AllReturned("submit")
  /\ ctl' = Put(ctl, Main, Succeed(ctl[Main]))
  /\ step' = NoStep
  /\ UNCHANGED <<filter, waiting>>

FinishSubmitNewRow ==
  LET m == ctl[Main]
      s == SetRow(m, m.row)
  IN  /\ AllReturned("submitNew")
      /\ IF RowFound(m, m.row)
         THEN ShowInChildren(Put(ctl, Main, Succeed(s)), s.row)
         ELSE /\ ctl' = Put(ctl, Main, [m EXCEPT !.state = "EditingNewRow"])
              /\ UNCHANGED filter
      /\ step' = NoStep
      /\ UNCHANGED waiting

FinishRemove ==
  LET m == ctl[Main]
      s == RemoveDone(m)
  IN  /\ AllReturned("remove")
      /\ \/ /\ "remove" \in Faults \/ ~CanRemove(m)
            /\ ctl' = Put(ctl, Main, [m EXCEPT !.error = TRUE])
            /\ UNCHANGED filter
         \/ /\ CanRemove(m)
            /\ ShowInChildren(Put(ctl, Main, Succeed(s)), s.row)
      /\ step' = NoStep
      /\ UNCHANGED waiting

-----------------------------------------------------------------------------
(* Signals of the main controller. *)

Begin(op, c, m) ==
  /\ ctl' = Put(c, Main, m)
  /\ step' = [op |-> op, child |-> 1, at |-> "call"]
  /\ UNCHANGED filter

EndsAt(c, m) == ctl' = Put(c, Main, m) /\ UNCHANGED <<filter, step>>

\* submitTriggered(), when the controllers are as in c.
SubmitTriggered(c) ==
  LET m == c[Main]
      s == SavedRow(m)
  IN  CASE m.state \in {"Visualizing", "Editing"} ->
             \/ \E f \in FailedSaves(m) : EndsAt(c, [f EXCEPT !.state = "Editing"])
             \/ /\ m.mapped
                /\ IF RowFound(s, m.row)
                   THEN Begin("submit", c,
                              [SetRow(s, m.row) EXCEPT !.state = "Submitting"])
                   ELSE EndsAt(c, [s EXCEPT !.state = "Editing"])
        [] m.state = "EditingNewRow" ->
             \/ \E f \in FailedSaves(m) : EndsAt(c, f)
             \/ /\ m.mapped
                /\ Begin("submitNew", c, [s EXCEPT !.state = "SubmittingNewRow"])
        [] OTHER -> EndsAt(c, m)

Submit == /\ Free
          /\ SubmitTriggered(ctl)
          /\ UNCHANGED waiting

\* removeTriggered(), when the controllers are as in c.
RemoveTriggered(c) ==
  LET m == c[Main]
  IN  IF m.state # "Visualizing" THEN EndsAt(c, m)
      ELSE IF m.rows < 1 THEN EndsAt(c, Succeed(m))
      ELSE \/ "refuse" \in Faults /\ EndsAt(c, Succeed(m))
           \/ Begin("remove", c, [m EXCEPT !.state = "Removing"])

Remove == /\ Free
          /\ RemoveTriggered(ctl)
          /\ UNCHANGED waiting

\* submitAndWait(), removeAndWait(): the signal, then waitOperationComplete().
ToWait == Put(ctl, Main, [ctl[Main] EXCEPT !.error = FALSE, !.complete = FALSE])

SubmitAndWait == /\ Free
                 /\ ~waiting
                 /\ waiting' = TRUE
                 /\ SubmitTriggered(ToWait)

RemoveAndWait == /\ Free
                 /\ ~waiting
                 /\ waiting' = TRUE
                 /\ RemoveTriggered(ToWait)

WaitReturns == /\ Free
               /\ waiting
               /\ ctl[Main].complete
               /\ waiting' = FALSE
               /\ UNCHANGED <<ctl, filter, step>>

\* revertTriggered(): the children are told to revert, each asks for itself.
Revert ==
  LET m == ctl[Main]
  IN  /\ Free
      /\ m.state \in {"Editing", "EditingNewRow"}
      /\ \E r \in Reverted(m) :
           IF r.state # "Visualizing"
           THEN ctl' = Put(ctl, Main, r) /\ UNCHANGED filter
           ELSE \E o \in [Kids -> UNION {Reverted(ctl[k]) : k \in Kids}] :
                  LET c == [x \in Controllers |-> IF x = Main THEN r ELSE o[x]]
                  IN  /\ \A k \in Kids : o[k] \in Reverted(ctl[k])
                      /\ IF m.state = "Editing"
                         THEN ctl' = c /\ UNCHANGED filter
                         ELSE ShowInChildren(c, r.row)
      /\ UNCHANGED <<step, waiting>>

\* insert() and insertAndWait(): the children's filter is set to the new row,
\* for which they have no record yet, and each inserts one.
InsertedInChild(r) ==
  LET s == Repopulated(r, 0) IN IF Saved(s, FALSE) THEN Inserted(s) ELSE {s}

Insert ==
  /\ Free
  /\ AllSaved(FALSE)
  /\ ctl[Main].state = "Visualizing"
  /\ ctl[Main].rows < MaxRows
  /\ \E r \in Inserted(ctl[Main]) :
       \E o \in [Kids -> UNION {InsertedInChild(ctl[k]) : k \in Kids}] :
         /\ \A k \in Kids : o[k] \in InsertedInChild(ctl[k])
         /\ ctl' = [x \in Controllers |-> IF x = Main THEN r ELSE o[x]]
         /\ filter' = [k \in Kids |-> r.row]
  /\ UNCHANGED <<step, waiting>>

-----------------------------------------------------------------------------
(* Calls of the application on the main controller. *)

\* select(): a model that cannot be selected is empty, and the controller is
\* left in Selecting, from where another select() goes on.  Called in another
\* state it waits for Selecting for ever, and changes nothing.
Select ==
  /\ Free
  /\ AllSaved(FALSE)
  /\ ctl[Main].state \in {"Visualizing", "Selecting"}
  /\ \/ \E n \in 0 .. MaxRows :
          LET s == SetRow(Repopulated(ctl[Main], n), 0)
          IN  ShowInChildren(Put(ctl, Main, Succeed(s)), s.row)
     \/ /\ "select" \in Faults
        /\ LET s == SetRow(Repopulated(ctl[Main], 0), 0)
           IN  ShowInChildren(Put(ctl, Main, Failed(s, "Selecting")), s.row)
  /\ UNCHANGED <<step, waiting>>

\* setCurrentRow().
SetCurrentRow ==
  /\ Free
  /\ AllSaved(TRUE)
  /\ \E n \in 0 .. MaxRows :
       /\ RowFound(ctl[Main], n)
       /\ LET s == SetRow(ctl[Main], n)
          IN  ShowInChildren(Put(ctl, Main, s), s.row)
  /\ UNCHANGED <<step, waiting>>

\* update(): shows the current row again.
Update ==
  /\ Free
  /\ ShowInChildren(Put(ctl, Main, [ctl[Main] EXCEPT !.typed = FALSE]),
                    ctl[Main].row)
  /\ UNCHANGED <<step, waiting>>

\* dataEdited(), of the controller itself or of a child.
EditedState(r) == IF r.state = "Visualizing" THEN "Editing" ELSE r.state

\* setData() in the current row: the model's cache and, through it, the
\* widgets.
WithData(r) == [r EXCEPT !.state = EditedState(r), !.dirty = @ \/ ~r.new,
                         !.typed = FALSE]

CanSetData == /\ Free
              /\ TypesWhileBusy \/ Idle
              /\ ctl[Main].row \in 0 .. ctl[Main].rows - 1

SetData == /\ CanSetData
           /\ ctl' = Put(ctl, Main, WithData(ctl[Main]))
           /\ UNCHANGED <<filter, step, waiting>>

SetDataAndSubmit ==
  /\ CanSetData
  /\ ~waiting
  /\ waiting' = TRUE
  /\ SubmitTriggered(Put(ToWait, Main, WithData(ToWait[Main])))

-----------------------------------------------------------------------------
(* The user, in the widgets of a controller, and the child controllers.    *)

\* The first change of a field: onDataEdited().
Type(c) ==
  /\ Free
  /\ TypesWhileBusy \/ Idle
  /\ ctl[c].row >= 0
  /\ ~ctl[c].typed
  /\ ctl' = [x \in Controllers |->
               [ctl[x] EXCEPT !.typed = @ \/ x = c,
                              !.state = IF x \in {c, Main} THEN EditedState(ctl[x])
                                        ELSE @]]
  /\ UNCHANGED <<filter, step, waiting>>

SubmitChild(k) == /\ Free
                  /\ \E r \in Submitted(ctl[k]) : ctl' = Put(ctl, k, r)
                  /\ UNCHANGED <<filter, step, waiting>>

RevertChild(k) == /\ Free
                  /\ \E r \in Reverted(ctl[k]) : ctl' = Put(ctl, k, r)
                  /\ UNCHANGED <<filter, step, waiting>>

Handler == \/ CallChild \/ ChildReturns
           \/ FinishSubmit \/ FinishSubmitNewRow \/ FinishRemove

Next == \/ Handler \/ WaitReturns
        \/ Submit \/ Remove \/ SubmitAndWait \/ RemoveAndWait
        \/ Revert \/ Insert \/ Select \/ SetCurrentRow \/ Update
        \/ SetData \/ SetDataAndSubmit
        \/ \E c \in Controllers : Type(c)
        \/ \E k \in Kids : SubmitChild(k) \/ RevertChild(k)

Spec == Init /\ [][Next]_vars

-----------------------------------------------------------------------------
(* What allDataAreSaved() answers is true: when an idle controller with a   *)
(* current row finds everything saved, no widget and no cache holds a       *)
(* change that is not in the database.  Without a current row nothing is    *)
(* claimed: the row may be given up while a child still holds a change.     *)
SavedMeansSaved ==
  Idle /\ ctl[Main].row >= 0 /\ AllSaved(TRUE)
    => \A c \in Controllers : ~ctl[c].typed /\ ~ctl[c].dirty /\ ~ctl[c].new

(* The children hold the records of the row the main controller shows.      *)
ChildrenFollow ==
  Idle /\ ctl[Main].row >= 0 => \A k \in Kids : filter[k] = ctl[Main].row

(* A row that is not in the database is the current one of a controller     *)
(* that knows it edits a new row.                                           *)
NewRowIsCurrent ==
  \A c \in Controllers :
    ctl[c].new => ctl[c].state = "EditingNewRow" /\ ctl[c].row = ctl[c].rows - 1

(* A submit that waits for a child can be ended by the user: the child      *)
(* stays in a state where it is submitted again or reverted.                *)
BlockedSubmitCanEnd ==
  step.at = "wait" /\ step.op # "remove" /\ ~ctl[Called].complete
    => ctl[Called].state \in {"Editing", "EditingNewRow"}

(* While the user edits the record of a child, its filter is not moved to   *)
(* another row of the main table, unless a new row of the main table is     *)
(* given up.                                                                *)
EditsKeepTheirRow ==
  [][\A k \in Kids :
       ctl[k].typed /\ filter'[k] # filter[k]
         => ctl[Main].row < 0 \/ ctl[Main].state = "EditingNewRow"]_vars

(* "Submit and wait until success or failure" (mdtAbstractSqlTableController.h): *)
(* when the operation is over, the call that waits for it is about to return.    *)
WaitEndsWithOperation == waiting /\ Idle => ctl[Main].complete
=============================================================================
