------------------------- MODULE TableControllerProofs -------------------------
(***************************************************************************)
(* Proofs about the table controllers, for any number of children, rows    *)
(* and faults.                                                             *)
(***************************************************************************)
EXTENDS TableController, FiniteSetTheorems, TLAPS

-----------------------------------------------------------------------------
(* The inductive invariant.  What a record says of itself comes first, of  *)
(* a child and of the main controller, then what relates them.             *)

(* The rows of a model: a row marked for removal exists, and one that is   *)
(* not in the database is the last one and the current one.                *)
RowsFit(r) == /\ r.doomed < r.rows
              /\ r.new => /\ r.state = "EditingNewRow"
                          /\ r.row = r.rows - 1
                          /\ r.doomed < r.rows - 1

(* A child has one row at most; without one there is nothing to save in    *)
(* it, and a new row it could not keep is not mapped to its widgets.       *)
KidFits(r) ==
  /\ RowsFit(r)
  /\ r.state \in {"Visualizing", "Editing", "EditingNewRow", "Removing"}
  /\ r.rows <= 1 /\ r.row <= 0 /\ r.before <= 0
  /\ r.state = "Visualizing" => ~r.typed
  /\ r.row < 0 => ~r.typed /\ ~r.dirty /\ ~r.mapped
  /\ r.state = "EditingNewRow" => /\ r.row = 0
                                  /\ ~r.dirty
                                  /\ r.mapped => r.new

Rested(r) == r.state = "Visualizing" => r.complete

(* The current row of the main controller exists while it does not edit a  *)
(* new one, and saving what is marked does not take it away unless it is   *)
(* the only one.                                                           *)
Settled(rows, row, doomed) ==
  /\ row < rows
  /\ doomed \in {-1, rows - 1}
  /\ doomed # -1 => row < doomed \/ rows = 1
  /\ row = -1 /\ rows > 0 => rows = 1 /\ doomed = 0

(* A new row of the main controller that was saved, with its children not  *)
(* saved yet: its row number is not found any more, or it is the last one. *)
NewSaved(r) ==
  /\ ~r.mapped /\ ~r.new
  /\ r.rows >= 1
  /\ r.row >= r.rows - 1
  /\ r.row = r.rows - 1 => /\ r.doomed = -1
                           /\ r.before < r.row
                           /\ r.before = -1 => r.rows = 1

MainFits(r) ==
  /\ RowsFit(r)
  /\ r.state = "Selecting" => r.row = -1 /\ r.rows = 0
  /\ r.state \notin {"EditingNewRow", "SubmittingNewRow"}
       => Settled(r.rows, r.row, r.doomed)
  /\ r.state = "EditingNewRow" /\ r.new => Settled(r.rows - 1, r.before, r.doomed)
  /\ r.state = "EditingNewRow" /\ ~r.new => NewSaved(r)
  /\ r.state = "SubmittingNewRow" => NewSaved(r)

(* Nothing is typed that the state machine does not know of.               *)
MainKnows(r) == r.state \in {"Visualizing", "Submitting"} => ~r.typed

BusyState(op) == CASE op = "submit" -> "Submitting"
                   [] op = "submitNew" -> "SubmittingNewRow"
                   [] op = "remove" -> "Removing"

StepFits ==
  /\ ~Idle => ctl[Main].state = BusyState(step.op)
  /\ Idle => ctl[Main].state \notin {"Submitting", "SubmittingNewRow"}
  /\ step.at \in {"wait", "return"} => step.child \in DOMAIN Children

(* Only a removal leaves a child in Removing, and the main controller      *)
(* waits for it for ever.                                                  *)
KidsFit ==
  \A k \in Kids : /\ KidFits(ctl[k]) /\ Rested(ctl[k])
                  /\ ctl[k].state = "Removing"
                       => /\ step.op = "remove" /\ step.at = "wait"
                          /\ k = Called /\ ~ctl[k].complete

Follow == ctl[Main].row >= 0 => \A k \in Kids : filter[k] = ctl[Main].row

(* With nobody typing while the main controller waits, a child whose       *)
(* removal is over has nothing typed left.                                 *)
Untyped ==
  step.op = "remove" =>
    \A i \in DOMAIN Children :
      \/ i < step.child
      \/ i = step.child /\ step.at # "call" /\ ctl[Children[i]].complete
      => ~ctl[Children[i]].typed

IInv == /\ TypeOK
        /\ MainFits(ctl[Main])
        /\ StepFits
        /\ KidsFit
        /\ Follow
        /\ ~TypesWhileBusy => MainKnows(ctl[Main]) /\ Untyped

-----------------------------------------------------------------------------
(* The operators on one record.                                            *)

(* A set of one or two row numbers of which one may be "none": how many    *)
(* rows a submit removes.                                                  *)
LEMMA DoomedRows ==
  ASSUME NEW a \in Int, NEW b \in Int
  PROVE  /\ Cardinality({a} \ {-1}) = IF a = -1 THEN 0 ELSE 1
         /\ Cardinality({a, b} \ {-1}) =
              IF a = -1 THEN IF b = -1 THEN 0 ELSE 1
              ELSE IF b \in {-1, a} THEN 1 ELSE 2
<1>1. Cardinality({}) = 0
  BY FS_EmptySet
<1>2. \A x : Cardinality({x}) = 1
  BY FS_Singleton
<1>3. ASSUME a # b PROVE Cardinality({a, b}) = 2
  <2>1. IsFiniteSet({b}) /\ Cardinality({b}) = 1 /\ a \notin {b}
    BY <1>3, FS_Singleton
  <2>2. Cardinality({b} \cup {a}) = Cardinality({b}) + 1
    BY <2>1, FS_AddElement
  <2>3. {b} \cup {a} = {a, b}
    OBVIOUS
  <2> QED BY <2>1, <2>2, <2>3
<1>4. Cardinality({a} \ {-1}) = IF a = -1 THEN 0 ELSE 1
  <2>1. {a} \ {-1} = IF a = -1 THEN {} ELSE {a}
    OBVIOUS
  <2> QED BY <1>1, <1>2, <2>1
<1>5. {a, b} \ {-1} = IF a = -1 THEN IF b = -1 THEN {} ELSE {b}
                      ELSE IF b \in {-1, a} THEN {a} ELSE {a, b}
  OBVIOUS
<1> QED BY <1>1, <1>2, <1>3, <1>4, <1>5

(* The numbers the operators use are row numbers.                          *)
LEMMA RowBounds == /\ MaxRows \in Nat \ {0}
                   /\ -1 \in RowNumbers /\ 0 \in RowNumbers
                   /\ 0 \in 0 .. MaxRows /\ 1 \in 0 .. MaxRows
BY TableAssumption DEF RowNumbers

(* Repopulated() gives a record without anything to save.                  *)
LEMMA RepopulatedFields ==
  ASSUME NEW r \in Record, NEW n \in 0 .. MaxRows, NEW s, s = Repopulated(r, n)
  PROVE  /\ s \in Record
         /\ s.state = r.state /\ s.row = r.row /\ s.rows = n
         /\ s.before = r.before /\ s.typed = r.typed
         /\ s.error = r.error /\ s.complete = r.complete
         /\ ~s.mapped /\ ~s.dirty /\ ~s.new /\ s.doomed = -1
BY RowBounds DEF Repopulated, Record

(* setCurrentRowPv() changes the current row and what the widgets show, if *)
(* it finds the row.                                                       *)
LEMMA SetRowFields ==
  ASSUME NEW r \in Record, NEW n \in RowNumbers, NEW s, s = SetRow(r, n)
  PROVE  /\ s \in Record
         /\ s.state = r.state /\ s.rows = r.rows /\ s.before = r.before
         /\ s.dirty = r.dirty /\ s.new = r.new /\ s.doomed = r.doomed
         /\ s.error = r.error /\ s.complete = r.complete
         /\ s.typed => r.typed
         /\ s.mapped => r.mapped \/ n >= 0
         /\ r.rows = 0 => s.row = -1 /\ ~s.typed /\ ~s.mapped
         /\ r.rows > 0 /\ n < r.rows => s.row = n /\ ~s.typed
         /\ r.rows > 0 /\ n >= r.rows => s = r
<1>1. /\ s \in Record
      /\ s.state = r.state /\ s.rows = r.rows /\ s.before = r.before
      /\ s.dirty = r.dirty /\ s.new = r.new /\ s.doomed = r.doomed
      /\ s.error = r.error /\ s.complete = r.complete
  BY RowBounds DEF SetRow, Record, RowNumbers
<1>2. s.typed => r.typed
  BY RowBounds DEF SetRow, Record, RowNumbers
<1>3. s.mapped => r.mapped \/ n >= 0
  BY RowBounds DEF SetRow, Record, RowNumbers
<1>4. ASSUME r.rows = 0 PROVE s.row = -1 /\ ~s.typed /\ ~s.mapped
  BY <1>4, RowBounds DEF SetRow, Record, RowNumbers
<1>5. ASSUME r.rows > 0, n < r.rows PROVE s.row = n /\ ~s.typed
  BY <1>5, RowBounds DEF SetRow, Record, RowNumbers
<1>6. ASSUME r.rows > 0, n >= r.rows PROVE s = r
  BY <1>6, RowBounds DEF SetRow, Record, RowNumbers
<1> QED BY <1>1, <1>2, <1>3, <1>4, <1>5, <1>6

(* A submit writes the cache and removes the row that was marked.          *)
LEMMA SavedRowFields ==
  ASSUME NEW r \in Record, RowsFit(r), NEW s, s = SavedRow(r)
  PROVE  /\ s \in Record
         /\ s.state = r.state /\ s.row = r.row /\ s.before = r.before
         /\ s.rows = IF r.doomed = -1 THEN r.rows ELSE r.rows - 1
         /\ s.typed = r.typed /\ s.error = r.error /\ s.complete = r.complete
         /\ ~s.mapped /\ ~s.dirty /\ ~s.new /\ s.doomed = -1
<1>0. /\ r.rows \in 0 .. MaxRows /\ r.doomed \in RowNumbers /\ r.doomed < r.rows
      /\ r.doomed \in Int
  BY RowBounds DEF Record, RowNumbers, RowsFit
<1> DEFINE n == r.rows - Cardinality({r.doomed} \ {-1})
<1>1. n = IF r.doomed = -1 THEN r.rows ELSE r.rows - 1
  BY <1>0, DoomedRows
<1>2. n \in 0 .. MaxRows
  BY <1>0, <1>1, RowBounds DEF RowNumbers
<1>3. s = Repopulated(r, n)
  BY DEF SavedRow
<1> HIDE DEF n
<1> QED BY <1>1, <1>2, <1>3, RepopulatedFields

(* A submit that fails changes nothing but the cache of an existing row.   *)
LEMMA FailedSavesFields ==
  ASSUME NEW r \in Record, NEW f \in FailedSaves(r)
  PROVE  /\ f \in Record
         /\ f.state = r.state /\ f.row = r.row /\ f.rows = r.rows
         /\ f.before = r.before /\ f.mapped = r.mapped /\ f.typed = r.typed
         /\ f.new = r.new /\ f.doomed = r.doomed /\ f.complete = r.complete
         /\ f.dirty => r.dirty \/ (r.mapped /\ ~r.new)
<1> DEFINE failed == [r EXCEPT !.error = TRUE]
           written == [r EXCEPT !.dirty = @ \/ ~r.new, !.error = TRUE]
<1>1. f \in {r, failed} \/ (f = written /\ r.mapped)
  BY DEF FailedSaves, Fails
<1>2. CASE f \in {r, failed}
  BY <1>2 DEF Record
<1>3. CASE f = written /\ r.mapped
  BY <1>3 DEF Record
<1> QED BY <1>1, <1>2, <1>3

-----------------------------------------------------------------------------
(* The operators on the record of a child.                                 *)

(* What happens to a child's record outside a removal: nothing is typed,   *)
(* and when its operation is over nothing typed is left.                   *)
Moved(r, o) == /\ o \in Record /\ KidFits(o) /\ Rested(o)
               /\ o.state = "Removing" => r.state = "Removing" /\ (o.complete => r.complete)
               /\ o.typed => r.typed
               /\ o.complete => r.complete \/ ~o.typed

(* A record of a child is within the bounds of the model. *)
LEMMA KidBounds ==
  ASSUME NEW r \in Record, KidFits(r)
  PROVE  /\ r.rows \in {0, 1} /\ r.row \in {-1, 0} /\ r.before \in {-1, 0}
         /\ r.doomed \in {-1, 0} /\ r.doomed < r.rows
         /\ r.row \in RowNumbers /\ r.before \in RowNumbers
         /\ r.new => r.state = "EditingNewRow" /\ r.rows = 1 /\ r.doomed = -1
BY RowBounds DEF KidFits, RowsFit, Record, RowNumbers

(* submitTriggered() of a child. *)
LEMMA ChildSubmitted ==
  ASSUME NEW r \in Record, KidFits(r), NEW o \in Submitted(r)
  PROVE  Moved(r, o)
<1>1. CASE r.state \notin {"Visualizing", "Editing", "EditingNewRow"}
  BY <1>1 DEF Submitted, Moved, KidFits, Rested
<1>2. ASSUME NEW f \in FailedSaves(r), o = [f EXCEPT !.state = EditState(r)],
             r.state \in {"Visualizing", "Editing", "EditingNewRow"}
      PROVE  Moved(r, o)
  <2>1. /\ f \in Record
        /\ f.state = r.state /\ f.row = r.row /\ f.rows = r.rows
        /\ f.before = r.before /\ f.mapped = r.mapped /\ f.typed = r.typed
        /\ f.new = r.new /\ f.doomed = r.doomed /\ f.complete = r.complete
        /\ f.dirty => r.dirty \/ (r.mapped /\ ~r.new)
    BY FailedSavesFields
  <2>2. EditState(r) = IF r.state = "EditingNewRow" THEN "EditingNewRow" ELSE "Editing"
    BY DEF EditState
  <2>3. /\ o \in Record
        /\ o.state = IF r.state = "EditingNewRow" THEN "EditingNewRow" ELSE "Editing"
        /\ o.row = r.row /\ o.rows = r.rows
        /\ o.before = r.before /\ o.mapped = r.mapped /\ o.typed = r.typed
        /\ o.new = r.new /\ o.doomed = r.doomed /\ o.complete = r.complete
        /\ o.dirty => r.dirty \/ (r.mapped /\ ~r.new)
    BY <1>2, <2>1, <2>2 DEF Record, States
  <2> QED BY <1>2, <2>3 DEF Moved, Rested, KidFits, RowsFit
<1>3. CASE r.mapped /\ o = Succeed(SetRow(SavedRow(r), r.row))
  <2>1. PICK s : s = SavedRow(r)
    OBVIOUS
  <2>2. PICK t : t = SetRow(s, r.row)
    OBVIOUS
  <2>3. /\ s \in Record /\ s.rows \in {0, 1}
        /\ s.before = r.before /\ ~s.new /\ s.doomed = -1 /\ ~s.dirty
        /\ r.row = 0
    BY <1>3, <2>1, SavedRowFields, KidBounds DEF KidFits
  <2>4. /\ t \in Record /\ t.rows = s.rows /\ t.before = s.before
        /\ ~t.new /\ t.doomed = -1 /\ ~t.dirty /\ ~t.typed
        /\ t.rows = 0 => t.row = -1 /\ ~t.mapped
        /\ t.rows = 1 => t.row = 0
    BY <2>2, <2>3, RowBounds, SetRowFields
  <2>5. /\ o \in Record /\ o.state = "Visualizing" /\ o.complete
        /\ o.rows = t.rows /\ o.row = t.row /\ o.before = t.before
        /\ ~o.new /\ o.doomed = -1 /\ ~o.dirty /\ ~o.typed /\ o.mapped = t.mapped
    BY <1>3, <2>1, <2>2, <2>4 DEF Succeed, Record, States
  <2> QED BY <2>3, <2>4, <2>5, KidBounds DEF Moved, Rested, KidFits, RowsFit
<1>4. CASE r.state \in {"Visualizing", "Editing", "EditingNewRow"}
  <2>1. \/ \E f \in FailedSaves(r) : o = [f EXCEPT !.state = EditState(r)]
        \/ r.mapped /\ o = Succeed(SetRow(SavedRow(r), r.row))
    <3>1. o \in {[f EXCEPT !.state = EditState(r)] : f \in FailedSaves(r)}
                  \cup (IF r.mapped THEN {Succeed(SetRow(SavedRow(r), r.row))} ELSE {})
      BY <1>4 DEF Submitted
    <3>2. ASSUME o \notin {[f EXCEPT !.state = EditState(r)] : f \in FailedSaves(r)}
          PROVE  r.mapped /\ o = Succeed(SetRow(SavedRow(r), r.row))
      <4>1. o \in IF r.mapped THEN {Succeed(SetRow(SavedRow(r), r.row))} ELSE {}
        BY <3>1, <3>2
      <4>2. CASE r.mapped
        BY <4>1, <4>2
      <4>3. CASE ~r.mapped
        BY <4>1, <4>3
      <4> QED BY <4>2, <4>3
    <3> QED BY <3>2
  <2> QED BY <1>2, <1>3, <1>4, <2>1
<1> QED BY <1>1, <1>4

(* revertTriggered() of a child. *)
LEMMA ChildReverted ==
  ASSUME NEW r \in Record, KidFits(r), Rested(r), NEW o \in Reverted(r)
  PROVE  Moved(r, o)
<1>1. CASE o = r
  BY <1>1 DEF Moved
<1>2. CASE r.state = "Editing" /\ o = Succeed([r EXCEPT !.typed = FALSE])
  <2>1. /\ o \in Record /\ o.state = "Visualizing" /\ o.complete /\ ~o.typed
        /\ o.rows = r.rows /\ o.row = r.row /\ o.before = r.before
        /\ o.new = r.new /\ o.doomed = r.doomed /\ o.dirty = r.dirty
        /\ o.mapped = r.mapped
    BY <1>2 DEF Succeed, Record, States
  <2> QED BY <1>2, <2>1 DEF Moved, Rested, KidFits, RowsFit
<1>3. CASE r.state = "EditingNewRow" /\ o = Failed(r, "EditingNewRow")
  <2>1. /\ o \in Record /\ o.state = r.state /\ o.complete = r.complete
        /\ o.typed = r.typed
        /\ o.rows = r.rows /\ o.row = r.row /\ o.before = r.before
        /\ o.new = r.new /\ o.doomed = r.doomed /\ o.dirty = r.dirty
        /\ o.mapped = r.mapped
    BY <1>3 DEF Failed, Record
  <2> QED BY <1>3, <2>1 DEF Moved, Rested, KidFits, RowsFit
<1>4. CASE /\ r.state = "EditingNewRow" /\ r.row \in 0 .. r.rows - 1
           /\ o = Succeed(SetRow([NewRowRemoved(r) EXCEPT !.row = r.before], r.before))
  <2>1. PICK s : s = [NewRowRemoved(r) EXCEPT !.row = r.before]
    OBVIOUS
  <2>2. PICK t : t = SetRow(s, r.before)
    OBVIOUS
  <2>0. /\ r.row = 0 /\ r.rows = 1 /\ r.before \in {-1, 0}
        /\ r.doomed \in {-1, 0} /\ r.dirty = FALSE
        /\ r.new => r.doomed = -1
        /\ ~r.new => r.mapped = FALSE
        /\ r.new \in BOOLEAN
        /\ {-1, 0} \subseteq RowNumbers /\ {0, 1} \subseteq 0 .. MaxRows
    <3>1. r.row = 0 /\ r.rows = 1 /\ r.before \in {-1, 0} /\ r.doomed \in {-1, 0}
      BY <1>4, KidBounds DEF KidFits
    <3>2. r.new => r.doomed = -1
      BY KidBounds
    <3>3. r.dirty = FALSE /\ (~r.new => r.mapped = FALSE) /\ r.new \in BOOLEAN
      BY <1>4 DEF KidFits, Record
    <3> QED BY <3>1, <3>2, <3>3, RowBounds
  <2>3. /\ s \in Record /\ s.rows \in {0, 1} /\ s.row = r.before
        /\ s.before = r.before /\ ~s.new /\ ~s.dirty /\ ~s.mapped
        /\ s.doomed < s.rows
    <3>1. PICK p : p = NewRowRemoved(r)
      OBVIOUS
    <3>2. /\ p \in Record /\ p.before = r.before
          /\ p.new = FALSE /\ p.dirty = FALSE /\ p.mapped = FALSE
          /\ p.rows \in {0, 1} /\ p.doomed < p.rows
      <4>1. CASE r.new
        <5>1. p = [r EXCEPT !.rows = 0, !.new = FALSE, !.mapped = FALSE]
          BY <2>0, <3>1, <4>1 DEF NewRowRemoved
        <5>2. r.doomed = -1 /\ r.dirty = FALSE /\ 0 \in 0 .. MaxRows
          BY <2>0, <4>1
        <5>3. p \in Record
          BY <5>1, <5>2 DEF Record
        <5>4. /\ p.before = r.before /\ p.doomed = r.doomed /\ p.dirty = r.dirty
              /\ p.rows = 0 /\ p.new = FALSE /\ p.mapped = FALSE
          BY <5>1 DEF Record
        <5> QED BY <5>2, <5>3, <5>4
      <4>2. CASE ~r.new
        <5>1. p = [r EXCEPT !.doomed = 0]
          BY <2>0, <3>1, <4>2 DEF NewRowRemoved
        <5> QED BY <2>0, <4>2, <5>1 DEF Record
      <4> QED BY <4>1, <4>2
    <3>3. s = [p EXCEPT !.row = r.before]
      BY <2>1, <3>1
    <3> QED BY <2>0, <3>2, <3>3 DEF Record
  <2>4. /\ t \in Record /\ t.rows = s.rows /\ t.before = s.before
        /\ ~t.new /\ t.doomed = s.doomed /\ ~t.dirty /\ ~t.typed
        /\ t.rows = 0 => t.row = -1
        /\ t.rows = 1 => t.row = r.before
        /\ t.mapped => t.row >= 0
    BY <2>2, <2>3, KidBounds, SetRowFields
  <2>5. /\ o \in Record /\ o.state = "Visualizing" /\ o.complete
        /\ o.rows = t.rows /\ o.row = t.row /\ o.before = t.before
        /\ ~o.new /\ o.doomed = t.doomed /\ ~o.dirty /\ ~o.typed /\ o.mapped = t.mapped
    BY <1>4, <2>1, <2>2, <2>4 DEF Succeed, Record, States
  <2> QED BY <2>3, <2>4, <2>5, KidBounds DEF Moved, Rested, KidFits, RowsFit
<1> QED BY <1>1, <1>2, <1>3, <1>4 DEF Reverted, Fails

(* The filter of a child is set: a child that has something to save keeps  *)
(* its current row.                                                        *)
LEMMA ChildShown ==
  ASSUME NEW r \in Record, KidFits(r), Rested(r), NEW n \in {0, 1}
  PROVE  Moved(r, Repopulated(r, n)) /\ Moved(r, ShownInChild(r, n))
<1>1. PICK s : s = Repopulated(r, n)
  OBVIOUS
<1>2. /\ s \in Record
      /\ s.state = r.state /\ s.row = r.row /\ s.rows = n
      /\ s.before = r.before /\ s.typed = r.typed
      /\ s.complete = r.complete
      /\ ~s.mapped /\ ~s.dirty /\ ~s.new /\ s.doomed = -1
  BY <1>1, RowBounds, RepopulatedFields
<1>3. Moved(r, s)
  BY <1>2, KidBounds DEF Moved, Rested, KidFits, RowsFit
<1>4. CASE Saved(s, TRUE)
  <2>1. PICK t : t = SetRow(s, 0)
    OBVIOUS
  <2>2. s.state # "EditingNewRow"
    BY <1>2, <1>4 DEF Saved, KidFits
  <2>3. /\ t \in Record /\ t.state = r.state /\ t.rows = n
        /\ t.before = r.before /\ t.complete = r.complete
        /\ ~t.new /\ t.doomed = -1 /\ ~t.dirty /\ ~t.typed
        /\ t.rows = 0 => t.row = -1 /\ ~t.mapped
        /\ t.rows = 1 => t.row = 0
    BY <1>2, <2>1, RowBounds, SetRowFields
  <2>4. Moved(r, t)
    BY <1>2, <2>2, <2>3, KidBounds DEF Moved, Rested, KidFits, RowsFit
  <2> QED BY <1>1, <1>3, <1>4, <2>1, <2>4 DEF ShownInChild
<1> QED BY <1>1, <1>3, <1>4 DEF ShownInChild

(* insertTriggered() of a child that was just shown an empty model. *)
LEMMA ChildInserted ==
  ASSUME NEW r \in Record, KidFits(r), Rested(r), NEW o \in InsertedInChild(r)
  PROVE  Moved(r, o)
<1>1. PICK s : s = Repopulated(r, 0)
  OBVIOUS
<1>2. /\ s \in Record
      /\ s.state = r.state /\ s.row = r.row /\ s.rows = 0
      /\ s.before = r.before /\ s.typed = r.typed
      /\ s.complete = r.complete
      /\ ~s.mapped /\ ~s.dirty /\ ~s.new /\ s.doomed = -1
      /\ s.row \in {-1, 0}
  BY <1>1, RowBounds, RepopulatedFields, KidBounds
<1>3. Moved(r, s)
  BY <1>1, ChildShown
<1>4. CASE o = s
  BY <1>3, <1>4
<1>5. CASE /\ s.state = "Visualizing"
           /\ o = [s EXCEPT !.state = "EditingNewRow", !.before = s.row, !.row = s.rows,
                            !.rows = @ + 1, !.new = TRUE, !.mapped = TRUE, !.typed = FALSE]
  <2>0. o = [s EXCEPT !.state = "EditingNewRow", !.before = s.row, !.row = 0,
                      !.rows = 1, !.new = TRUE, !.mapped = TRUE, !.typed = FALSE]
    BY <1>2, <1>5 DEF Record
  <2>1. /\ o \in Record /\ o.state = "EditingNewRow" /\ o.before = s.row
        /\ o.row = 0 /\ o.rows = 1 /\ o.new = TRUE /\ o.mapped = TRUE
        /\ ~o.typed /\ ~o.dirty /\ o.doomed = -1 /\ o.complete = r.complete
    BY <1>2, <2>0, RowBounds DEF Record, States
  <2> QED BY <1>2, <2>1 DEF Moved, Rested, KidFits, RowsFit
<1>6. CASE /\ s.state = "Visualizing"
           /\ o = Succeed([s EXCEPT !.before = s.row, !.error = TRUE, !.typed = FALSE])
  <2>1. /\ o \in Record /\ o.state = "Visualizing" /\ o.before = s.row
        /\ o.row = s.row /\ o.rows = 0 /\ ~o.new /\ ~o.mapped /\ ~o.typed
        /\ ~o.dirty /\ o.doomed = -1 /\ o.complete
    BY <1>2, <1>6, RowBounds DEF Succeed, Record, States
  <2> QED BY <1>2, <2>1 DEF Moved, Rested, KidFits, RowsFit
<1> QED BY <1>1, <1>4, <1>5, <1>6 DEF InsertedInChild, Inserted, Fails

(* removeTriggered() of a child that waits for the outcome. *)
LEMMA ChildRemoved ==
  ASSUME NEW r \in Record, KidFits(r), ~r.complete, NEW o \in Removed(r)
  PROVE  /\ o \in Record /\ KidFits(o) /\ Rested(o)
         /\ o.state = "Removing" => ~o.complete
         /\ o.complete => ~o.typed
<1>1. CASE r.state # "Visualizing" /\ o = r
  BY <1>1 DEF Rested
<1>2. CASE r.state = "Visualizing" /\ o = Succeed(r)
  <2>1. /\ o \in Record /\ o.state = "Visualizing" /\ o.complete /\ o.typed = r.typed
        /\ o.rows = r.rows /\ o.row = r.row /\ o.before = r.before
        /\ o.new = r.new /\ o.doomed = r.doomed /\ o.dirty = r.dirty
        /\ o.mapped = r.mapped
    BY <1>2 DEF Succeed, Record, States
  <2> QED BY <1>2, <2>1 DEF Rested, KidFits, RowsFit
<1>3. CASE r.state = "Visualizing" /\ o = Failed(r, "Removing")
  <2>1. /\ o \in Record /\ o.state = "Removing" /\ o.typed = r.typed
        /\ o.rows = r.rows /\ o.row = r.row /\ o.before = r.before
        /\ o.new = r.new /\ o.doomed = r.doomed /\ o.dirty = r.dirty
        /\ o.mapped = r.mapped /\ o.complete = r.complete
    BY <1>3 DEF Failed, Record, States
  <2> QED BY <1>3, <2>1 DEF Rested, KidFits, RowsFit
<1>4. CASE r.state = "Visualizing" /\ CanRemove(r) /\ o = Succeed(RemoveDone(r))
  <2>1. PICK s : s = RowRemoved(r)
    OBVIOUS
  <2>2. r.row = 0 /\ r.rows = 1 /\ r.doomed \in {-1, 0}
    BY <1>4, KidBounds DEF CanRemove
  <2>3. s = Repopulated(r, 0)
    <3>1. Cardinality({r.row, r.doomed} \ {-1}) = 1
      BY <2>2, DoomedRows
    <3> QED BY <2>1, <2>2, <3>1 DEF RowRemoved
  <2>4. /\ s \in Record /\ s.rows = 0 /\ s.before = r.before
        /\ ~s.dirty /\ ~s.new /\ s.doomed = -1
    BY <2>3, RowBounds, RepopulatedFields
  <2>5. LastRowUpTo(r.row, s) = -1
    BY <2>2, <2>4 DEF LastRowUpTo
  <2>6. PICK t : t = SetRow(s, -1)
    OBVIOUS
  <2>7. /\ t \in Record /\ t.rows = 0 /\ t.before = r.before
        /\ ~t.dirty /\ ~t.new /\ t.doomed = -1
        /\ t.row = -1 /\ ~t.typed /\ ~t.mapped
    BY <2>4, <2>6, RowBounds, SetRowFields
  <2>8. o = Succeed(t)
    BY <1>4, <2>1, <2>5, <2>6 DEF RemoveDone
  <2>9. /\ o \in Record /\ o.state = "Visualizing" /\ o.complete
        /\ o.rows = 0 /\ o.before = r.before
        /\ ~o.dirty /\ ~o.new /\ o.doomed = -1
        /\ o.row = -1 /\ ~o.typed /\ ~o.mapped
    BY <2>7, <2>8 DEF Succeed, Record, States
  <2> QED BY <2>9, KidBounds DEF Rested, KidFits, RowsFit
<1> QED BY <1>1, <1>2, <1>3, <1>4 DEF Removed, Fails

-----------------------------------------------------------------------------
(* The operators on the record of the main controller.                     *)

(* A record that differs in what MainFits does not look at.                *)
SameRows(r, o) ==
  /\ o \in Record /\ o.row = r.row /\ o.rows = r.rows /\ o.before = r.before
  /\ o.mapped = r.mapped /\ o.new = r.new /\ o.doomed = r.doomed

(* Leaving a state in which the rows are settled for another such state,   *)
(* or staying, when no row moves.                                          *)
LEMMA MainStays ==
  ASSUME NEW r \in Record, MainFits(r), NEW o, SameRows(r, o),
         \/ o.state = r.state
         \/ /\ r.state \notin {"EditingNewRow", "SubmittingNewRow"}
            /\ o.state \notin {"EditingNewRow", "SubmittingNewRow", "Selecting"}
         \/ r.state = "SubmittingNewRow" /\ o.state = "EditingNewRow"
  PROVE  MainFits(o)
BY DEF MainFits, RowsFit, Settled, NewSaved, SameRows

(* A record without a new row fits when its rows are settled.              *)
LEMMA SettledFits ==
  ASSUME NEW o, o.state \notin {"EditingNewRow", "SubmittingNewRow", "Selecting"},
         ~o.new, o.rows \in Int, o.rows >= 0, Settled(o.rows, o.row, o.doomed)
  PROVE  MainFits(o)
BY DEF MainFits, RowsFit, Settled

(* What the numbers of a record are. *)
LEMMA MainBounds ==
  ASSUME NEW r \in Record, MainFits(r)
  PROVE  /\ r.rows \in 0 .. MaxRows /\ r.rows \in Int
         /\ r.row \in RowNumbers /\ r.row \in Int /\ r.row >= -1
         /\ r.before \in RowNumbers /\ r.before \in Int /\ r.before >= -1
         /\ r.doomed \in RowNumbers /\ r.doomed \in Int /\ r.doomed >= -1
         /\ r.doomed < r.rows
         /\ r.new \in BOOLEAN /\ r.mapped \in BOOLEAN
         /\ \A n \in Int : n \in RowNumbers <=> n >= -1 /\ n <= MaxRows
         /\ MaxRows \in Int /\ MaxRows >= 1
BY RowBounds DEF MainFits, RowsFit, Record, RowNumbers

(* submitTriggered() that fails: the rows stay, and the machine goes to    *)
(* Editing, or stays where it is while it edits a new row.                 *)
LEMMA MainSubmitFails ==
  ASSUME NEW r \in Record, MainFits(r), NEW f \in FailedSaves(r)
  PROVE  /\ r.state \in {"Visualizing", "Editing"} =>
              LET o == [f EXCEPT !.state = "Editing"]
              IN  o \in Record /\ MainFits(o) /\ o.state = "Editing" /\ o.row = r.row
         /\ f \in Record /\ MainFits(f) /\ f.state = r.state /\ f.row = r.row
<1>1. SameRows(r, f) /\ f.state = r.state
  BY FailedSavesFields DEF SameRows
<1>2. f \in Record /\ MainFits(f) /\ f.row = r.row
  BY <1>1, MainStays DEF SameRows
<1>3. PICK o : o = [f EXCEPT !.state = "Editing"]
  OBVIOUS
<1>4. SameRows(f, o) /\ o.state = "Editing"
  BY <1>2, <1>3 DEF SameRows, Record, States
<1>5. ASSUME r.state \in {"Visualizing", "Editing"}
      PROVE  o \in Record /\ MainFits(o) /\ o.row = r.row
  <2>1. f.state \notin {"EditingNewRow", "SubmittingNewRow"}
    BY <1>1, <1>5
  <2> QED BY <1>2, <1>4, <2>1, MainStays DEF SameRows
<1> QED BY <1>1, <1>2, <1>3, <1>4, <1>5

(* submitTriggered() that saves an existing row: the row is found again,   *)
(* or there is none.                                                       *)
LEMMA MainSubmitSaves ==
  ASSUME NEW r \in Record, MainFits(r), r.state \in {"Visualizing", "Editing"},
         NEW s, s = SavedRow(r), NEW o, o = [SetRow(s, r.row) EXCEPT !.state = "Submitting"]
  PROVE  /\ RowFound(s, r.row)
         /\ o \in Record /\ MainFits(o) /\ MainKnows(o)
         /\ o.state = "Submitting"
         /\ o.row >= 0 => o.row = r.row
<1>0. /\ r.rows \in 0 .. MaxRows /\ r.row \in RowNumbers
      /\ r.doomed \in Int /\ r.row \in Int /\ r.row >= -1
  BY MainBounds
<1>1. Settled(r.rows, r.row, r.doomed)
  BY DEF MainFits
<1>2. /\ s \in Record /\ s.state = r.state
      /\ s.rows = IF r.doomed = -1 THEN r.rows ELSE r.rows - 1
      /\ ~s.new /\ s.doomed = -1
  BY SavedRowFields DEF MainFits
<1>3. s.rows \in Nat /\ (s.rows = 0 \/ (r.row < s.rows /\ r.row >= 0))
  BY <1>0, <1>1, <1>2 DEF Settled
<1>4. PICK t : t = SetRow(s, r.row)
  OBVIOUS
<1>5. /\ t \in Record /\ t.rows = s.rows /\ ~t.new /\ t.doomed = -1 /\ ~t.typed
      /\ t.row = IF s.rows = 0 THEN -1 ELSE r.row
  BY <1>0, <1>2, <1>3, <1>4, SetRowFields
<1>6. /\ o \in Record /\ o.state = "Submitting"
      /\ o.rows = s.rows /\ o.row = (IF s.rows = 0 THEN -1 ELSE r.row)
      /\ ~o.new /\ o.doomed = -1 /\ ~o.typed
  BY <1>4, <1>5 DEF Record, States
<1>7. RowFound(s, r.row)
  BY <1>3 DEF RowFound
<1>8. Settled(o.rows, o.row, o.doomed)
  BY <1>0, <1>3, <1>6 DEF Settled
<1>9. MainFits(o)
  <2>1. o.rows \in Int /\ o.rows >= 0
    BY <1>3, <1>6
  <2>2. o.state \notin {"EditingNewRow", "SubmittingNewRow", "Selecting"} /\ ~o.new
    BY <1>6
  <2> QED BY <1>8, <2>1, <2>2, SettledFits
<1>10. MainKnows(o)
  BY <1>6 DEF MainKnows
<1>11. o.row >= 0 => o.row = r.row
  BY <1>6
<1> QED BY <1>6, <1>7, <1>9, <1>10, <1>11

(* submitTriggered() that saves a new row. *)
LEMMA MainSubmitNewSaves ==
  ASSUME NEW r \in Record, MainFits(r), r.state = "EditingNewRow", r.mapped,
         NEW o, o = [SavedRow(r) EXCEPT !.state = "SubmittingNewRow"]
  PROVE  /\ o \in Record /\ MainFits(o) /\ o.state = "SubmittingNewRow"
         /\ o.row = r.row
<1>0. /\ r.rows \in Int /\ r.row \in Int /\ r.before \in Int /\ r.doomed \in Int
      /\ r.before >= -1 /\ r.doomed >= -1
  BY MainBounds
<1>1. /\ r.new /\ r.row = r.rows - 1 /\ r.doomed < r.rows - 1
      /\ Settled(r.rows - 1, r.before, r.doomed)
  BY DEF MainFits, RowsFit, NewSaved
<1>2. PICK s : s = SavedRow(r)
  OBVIOUS
<1>3. /\ s \in Record /\ s.row = r.row /\ s.before = r.before
      /\ s.rows = IF r.doomed = -1 THEN r.rows ELSE r.rows - 1
      /\ s.mapped = FALSE /\ s.new = FALSE /\ s.doomed = -1
  BY <1>2, SavedRowFields DEF MainFits, Record
<1>4. /\ o \in Record /\ o.state = "SubmittingNewRow"
      /\ o.rows = s.rows /\ o.row = s.row /\ o.new = s.new /\ o.doomed = s.doomed
      /\ o.before = s.before /\ o.mapped = s.mapped
  BY <1>2, <1>3 DEF Record, States
<1>5. NewSaved(o)
  BY <1>0, <1>1, <1>3, <1>4 DEF NewSaved, Settled
<1>6. RowsFit(o)
  BY <1>0, <1>1, <1>3, <1>4 DEF RowsFit, Settled
<1> QED BY <1>3, <1>4, <1>5, <1>6 DEF MainFits

(* The new row is found again after its children were saved, and shown. *)
LEMMA MainNewRowShown ==
  ASSUME NEW r \in Record, MainFits(r), r.state = "SubmittingNewRow",
         NEW o, o = Succeed(SetRow(r, r.row)), RowFound(r, r.row)
  PROVE  /\ o \in Record /\ MainFits(o) /\ MainKnows(o) /\ o.state = "Visualizing"
         /\ o.row = r.row /\ SetRow(r, r.row).row = r.row
<1>0. /\ r.rows \in Int /\ r.row \in Int /\ r.row \in RowNumbers /\ r.doomed \in Int
  BY MainBounds
<1>1. /\ r.rows >= 1 /\ r.row = r.rows - 1 /\ r.doomed = -1 /\ ~r.new
  BY <1>0 DEF MainFits, NewSaved, RowFound
<1>2. PICK t : t = SetRow(r, r.row)
  OBVIOUS
<1>3. /\ t \in Record /\ t.rows = r.rows /\ ~t.new /\ t.doomed = -1 /\ ~t.typed
      /\ t.row = r.row
  BY <1>0, <1>1, <1>2, SetRowFields
<1>4. /\ o \in Record /\ o.state = "Visualizing"
      /\ o.rows = t.rows /\ o.row = t.row /\ ~o.new /\ o.doomed = -1 /\ ~o.typed
  BY <1>2, <1>3 DEF Succeed, Record, States
<1>5. MainFits(o)
  BY <1>0, <1>1, <1>3, <1>4 DEF MainFits, RowsFit, Settled
<1> QED BY <1>2, <1>3, <1>4, <1>5 DEF MainKnows

(* doRemove() that succeeds: the row that takes the place of the removed   *)
(* one is shown.                                                           *)
LEMMA MainRemoved ==
  ASSUME NEW r \in Record, MainFits(r), r.state = "Removing", CanRemove(r),
         NEW o, o = Succeed(RemoveDone(r))
  PROVE  /\ o \in Record /\ MainFits(o) /\ MainKnows(o) /\ o.state = "Visualizing"
         /\ RemoveDone(r).row = o.row
<1>0. /\ r.rows \in 0 .. MaxRows /\ r.doomed \in Int /\ r.row \in 0 .. r.rows - 1
      /\ \A n \in Int : n \in RowNumbers <=> n >= -1 /\ n <= MaxRows
      /\ MaxRows \in Int
  BY MainBounds DEF CanRemove
<1>1. r.doomed \in {-1, r.rows - 1} /\ (r.doomed # -1 => r.row < r.doomed \/ r.rows = 1)
  BY DEF MainFits, Settled
<1> DEFINE gone == Cardinality({r.row, r.doomed} \ {-1})
           n == r.rows - gone
<1>2. gone = IF r.doomed \in {-1, r.row} THEN 1 ELSE 2
  <2>1. r.row \in Int /\ r.row # -1 /\ r.doomed \in Int
    BY <1>0
  <2>2. gone = IF r.row = -1 THEN IF r.doomed = -1 THEN 0 ELSE 1
               ELSE IF r.doomed \in {-1, r.row} THEN 1 ELSE 2
    BY <2>1, DoomedRows
  <2> QED BY <2>1, <2>2
<1>3. n \in 0 .. MaxRows /\ n < r.rows
  BY <1>0, <1>1, <1>2
<1> HIDE DEF n
<1>4. PICK s : s = RowRemoved(r)
  OBVIOUS
<1>5. s = Repopulated(r, n)
  BY <1>4 DEF RowRemoved, n
<1>6. /\ s \in Record /\ s.rows = n /\ ~s.new /\ s.doomed = -1
  BY <1>3, <1>5, RepopulatedFields
<1> DEFINE last == LastRowUpTo(r.row, s)
<1>7. last \in RowNumbers /\ last < s.rows /\ (s.rows > 0 => last >= 0)
  BY <1>0, <1>3, <1>6 DEF LastRowUpTo
<1> HIDE DEF last
<1>8. PICK t : t = SetRow(s, last)
  OBVIOUS
<1>9. s.rows \in Nat /\ last \in Int
  BY <1>0, <1>3, <1>6, <1>7, RowBounds DEF RowNumbers
<1>10. /\ t \in Record /\ t.rows = s.rows /\ ~t.new /\ t.doomed = -1 /\ ~t.typed
       /\ t.rows = 0 => t.row = -1
       /\ t.rows > 0 => t.row = last
  BY <1>6, <1>7, <1>8, <1>9, SetRowFields
<1>11. RemoveDone(r) = t
  BY <1>4, <1>8 DEF RemoveDone, last
<1>12. /\ o \in Record /\ o.state = "Visualizing"
       /\ o.rows = t.rows /\ o.row = t.row /\ ~o.new /\ o.doomed = -1 /\ ~o.typed
  BY <1>10, <1>11 DEF Succeed, Record, States
<1>13. MainFits(o)
  BY <1>7, <1>9, <1>10, <1>12 DEF MainFits, RowsFit, Settled
<1> QED BY <1>11, <1>12, <1>13 DEF MainKnows

(* select() that fills the model with n records, or fails on none. *)
LEMMA MainSelected ==
  ASSUME NEW r \in Record, MainFits(r), NEW n \in 0 .. MaxRows,
         NEW s, s = SetRow(Repopulated(r, n), 0)
  PROVE  LET shown == Succeed(s)
             failed == Failed(s, "Selecting")
         IN  /\ s.row \in RowNumbers
             /\ shown \in Record /\ MainFits(shown) /\ MainKnows(shown)
             /\ shown.state = "Visualizing" /\ shown.row = s.row
             /\ n = 0 => /\ failed \in Record /\ MainFits(failed)
                         /\ failed.state = "Selecting" /\ failed.row = s.row
<1>1. PICK p : p = Repopulated(r, n)
  OBVIOUS
<1>2. p \in Record /\ p.rows = n /\ ~p.new /\ p.doomed = -1
  BY <1>1, RepopulatedFields
<1>3. n \in Int /\ n >= 0 /\ 0 \in RowNumbers /\ 0 \in Int /\ -1 \in RowNumbers
  BY RowBounds
<1>4. /\ s \in Record /\ s.rows = n /\ ~s.new /\ s.doomed = -1 /\ ~s.typed
      /\ n = 0 => s.row = -1
      /\ n > 0 => s.row = 0
  BY <1>1, <1>2, <1>3, SetRowFields
<1>5. PICK o : o = Succeed(s)
  OBVIOUS
<1>6. /\ o \in Record /\ o.state = "Visualizing"
      /\ o.rows = n /\ o.row = s.row /\ ~o.new /\ o.doomed = -1 /\ ~o.typed
  BY <1>4, <1>5 DEF Succeed, Record, States
<1>7. MainFits(o) /\ MainKnows(o)
  BY <1>3, <1>4, <1>6 DEF MainFits, MainKnows, RowsFit, Settled
<1>8. PICK f : f = Failed(s, "Selecting")
  OBVIOUS
<1>9. /\ f \in Record /\ f.state = "Selecting"
      /\ f.rows = n /\ f.row = s.row /\ ~f.new /\ f.doomed = -1
  BY <1>4, <1>8 DEF Failed, Record, States
<1>10. n = 0 => MainFits(f)
  BY <1>3, <1>4, <1>9 DEF MainFits, RowsFit, Settled
<1>11. s.row \in RowNumbers
  BY <1>3, <1>4
<1> QED BY <1>5, <1>6, <1>7, <1>8, <1>9, <1>10, <1>11

(* setCurrentRow(), when there is nothing to save. *)
LEMMA MainRowSet ==
  ASSUME NEW r \in Record, MainFits(r), NEW n \in 0 .. MaxRows, RowFound(r, n),
         r.row < 0 \/ Saved(r, TRUE),
         NEW s, s = SetRow(r, n)
  PROVE  /\ s \in Record /\ MainFits(s) /\ s.state = r.state
         /\ MainKnows(r) => MainKnows(s)
         /\ s.row \in RowNumbers
<1>0. /\ r.rows \in Int /\ r.rows >= 0 /\ r.row \in Int /\ r.row >= -1
      /\ r.doomed \in Int /\ r.doomed >= -1
      /\ n \in RowNumbers /\ n \in Int /\ n >= 0 /\ -1 \in RowNumbers
  BY MainBounds, RowBounds
<1>1. /\ r.state \notin {"EditingNewRow", "SubmittingNewRow"}
      /\ Settled(r.rows, r.row, r.doomed)
      /\ r.row < 0 \/ r.doomed = -1
      /\ ~r.new
  <2>1. CASE r.row < 0
    <3>1. r.state \notin {"EditingNewRow", "SubmittingNewRow"}
      BY <1>0, <2>1 DEF MainFits, RowsFit, NewSaved
    <3> QED BY <2>1, <3>1 DEF MainFits, RowsFit
  <2>2. CASE ~(r.row < 0)
    <3>1. r.state \in {"Visualizing", "Selecting"} /\ r.doomed = -1
      BY <2>2 DEF Saved, Clean
    <3> QED BY <3>1 DEF MainFits, RowsFit
  <2> QED BY <2>1, <2>2
<1>2. n < r.rows \/ r.rows = 0
  BY DEF RowFound
<1>3. /\ s \in Record /\ s.state = r.state /\ s.rows = r.rows /\ ~s.new
      /\ s.doomed = r.doomed /\ ~s.typed
      /\ r.rows = 0 => s.row = -1
      /\ r.rows > 0 => s.row = n
  BY <1>0, <1>1, <1>2, SetRowFields
<1>4. r.state = "Selecting" => r.row = -1 /\ r.rows = 0
  BY DEF MainFits
<1>5. Settled(s.rows, s.row, s.doomed)
  BY <1>0, <1>1, <1>2, <1>3 DEF Settled
<1>6. RowsFit(s)
  BY <1>0, <1>1, <1>3, <1>5 DEF RowsFit, Settled
<1>7. MainFits(s)
  BY <1>1, <1>3, <1>4, <1>5, <1>6 DEF MainFits
<1> QED BY <1>0, <1>3, <1>7 DEF MainKnows

(* insertTriggered() of the main controller. *)
LEMMA MainInserted ==
  ASSUME NEW r \in Record, MainFits(r), r.state = "Visualizing", r.rows < MaxRows,
         NEW o \in Inserted(r)
  PROVE  /\ o \in Record /\ MainFits(o) /\ MainKnows(o)
         /\ o.state \in {"Visualizing", "EditingNewRow"}
<1>0. /\ r.rows \in 0 .. MaxRows /\ r.rows \in Int /\ r.row \in Int /\ r.doomed \in Int
      /\ r.row \in RowNumbers /\ r.rows \in RowNumbers /\ r.rows + 1 \in 0 .. MaxRows
      /\ r.doomed < r.rows
  BY MainBounds
<1>1. Settled(r.rows, r.row, r.doomed) /\ ~r.new
  BY DEF MainFits, RowsFit
<1>2. CASE o = [r EXCEPT !.state = "EditingNewRow", !.before = r.row, !.row = r.rows,
                         !.rows = @ + 1, !.new = TRUE, !.mapped = TRUE, !.typed = FALSE]
  <2>1. PICK n : n = r.rows + 1
    OBVIOUS
  <2>2. o = [r EXCEPT !.state = "EditingNewRow", !.before = r.row, !.row = r.rows,
                      !.rows = n, !.new = TRUE, !.mapped = TRUE, !.typed = FALSE]
    BY <1>2, <2>1 DEF Record
  <2>3. /\ o \in Record /\ o.state = "EditingNewRow" /\ o.before = r.row
        /\ o.row = r.rows /\ o.rows = n /\ o.new = TRUE /\ o.doomed = r.doomed
    BY <1>0, <2>1, <2>2 DEF Record, States
  <2>4. o.rows \in Int /\ o.rows - 1 = r.rows
    BY <1>0, <2>1, <2>3
  <2>5. RowsFit(o)
    BY <1>0, <2>3, <2>4 DEF RowsFit
  <2> QED BY <1>1, <2>3, <2>4, <2>5 DEF MainFits, MainKnows
<1>3. CASE o = Succeed([r EXCEPT !.before = r.row, !.error = TRUE, !.typed = FALSE])
  <2>1. /\ o \in Record /\ o.state = "Visualizing" /\ o.row = r.row
        /\ o.rows = r.rows /\ ~o.new /\ o.doomed = r.doomed /\ ~o.typed
    BY <1>0, <1>1, <1>3 DEF Succeed, Record, States
  <2> QED BY <1>0, <1>1, <2>1 DEF MainFits, MainKnows, RowsFit
<1> QED BY <1>2, <1>3 DEF Inserted, Fails

(* revertTriggered() of the main controller: the row it had before it      *)
(* inserted one exists.                                                    *)
LEMMA MainReverted ==
  ASSUME NEW r \in Record, MainFits(r), r.state \in {"Editing", "EditingNewRow"},
         NEW o \in Reverted(r)
  PROVE  /\ o \in Record /\ MainFits(o) /\ MainKnows(o)
         /\ o.state \in {r.state, "Visualizing"}
         /\ o.state # "Visualizing" \/ r.state = "Editing" => o.row = r.row
<1>1. CASE o = r
  BY <1>1 DEF MainKnows
<1>2. CASE r.state = "Editing" /\ o = Succeed([r EXCEPT !.typed = FALSE])
  <2>1. /\ SameRows(r, o) /\ o.state = "Visualizing" /\ ~o.typed
    BY <1>2 DEF Succeed, SameRows, Record, States
  <2> QED BY <1>2, <2>1, MainStays DEF MainKnows, SameRows
<1>3. CASE r.state = "EditingNewRow" /\ o = Failed(r, "EditingNewRow")
  <2>1. SameRows(r, o) /\ o.state = r.state
    BY <1>3 DEF Failed, SameRows, Record
  <2> QED BY <1>3, <2>1, MainStays DEF MainKnows, SameRows
<1>4. CASE /\ r.state = "EditingNewRow" /\ r.row \in 0 .. r.rows - 1
           /\ o = Succeed(SetRow([NewRowRemoved(r) EXCEPT !.row = r.before], r.before))
  <2>0. /\ r.rows \in Int /\ r.row \in Int /\ r.row >= 0 /\ r.row < r.rows
        /\ r.row \in RowNumbers /\ r.rows \in 0 .. MaxRows /\ r.rows - 1 \in 0 .. MaxRows
        /\ r.before \in Int /\ r.before \in RowNumbers /\ r.before >= -1
        /\ r.doomed \in Int /\ r.new \in BOOLEAN
    BY <1>4, MainBounds
  <2>1. PICK p : p = NewRowRemoved(r)
    OBVIOUS
  <2>2. /\ p \in Record /\ p.new = FALSE /\ p.before = r.before
        /\ p.rows \in Int /\ p.rows >= 0
        /\ \/ p.rows = 0 /\ p.doomed = -1
           \/ p.rows > 0 /\ r.before < p.rows /\ Settled(p.rows, r.before, p.doomed)
    <3>1. CASE r.new
      <4>1. r.row = r.rows - 1 /\ Settled(r.rows - 1, r.before, r.doomed)
        BY <1>4, <3>1 DEF MainFits, RowsFit
      <4>2. PICK n : n = r.rows - 1
        OBVIOUS
      <4>3. p = [r EXCEPT !.rows = n, !.new = FALSE, !.mapped = FALSE]
        BY <2>1, <3>1, <4>2 DEF NewRowRemoved
      <4>4. /\ p \in Record /\ p.new = FALSE /\ p.before = r.before
            /\ p.rows = n /\ p.doomed = r.doomed
        BY <2>0, <4>2, <4>3 DEF Record
      <4> QED BY <2>0, <4>1, <4>2, <4>4 DEF Settled
    <3>2. CASE ~r.new
      <4>1. /\ r.row = r.rows - 1 /\ r.before < r.row
            /\ r.before = -1 => r.rows = 1
        BY <1>4, <2>0, <3>2 DEF MainFits, NewSaved
      <4>2. p = [r EXCEPT !.doomed = r.row]
        BY <2>1, <3>2 DEF NewRowRemoved
      <4>3. /\ p \in Record /\ p.new = r.new /\ p.before = r.before
            /\ p.rows = r.rows /\ p.doomed = r.row
        BY <2>0, <4>2 DEF Record
      <4>4. Settled(p.rows, r.before, p.doomed)
        BY <2>0, <4>1, <4>3 DEF Settled
      <4> QED BY <2>0, <3>2, <4>1, <4>3, <4>4
    <3> QED BY <2>0, <3>1, <3>2
  <2>3. PICK s : s = [p EXCEPT !.row = r.before]
    OBVIOUS
  <2>4. /\ s \in Record /\ s.new = FALSE /\ s.before = r.before
        /\ s.rows = p.rows /\ s.doomed = p.doomed
    BY <2>0, <2>2, <2>3 DEF Record
  <2>5. PICK t : t = SetRow(s, r.before)
    OBVIOUS
  <2>6. /\ t \in Record /\ t.rows = p.rows /\ ~t.new /\ t.doomed = p.doomed /\ ~t.typed
        /\ t.row = IF p.rows = 0 THEN -1 ELSE r.before
    BY <2>0, <2>2, <2>4, <2>5, SetRowFields
  <2>7. o = Succeed(t)
    BY <1>4, <2>1, <2>3, <2>5
  <2>8. /\ o \in Record /\ o.state = "Visualizing" /\ o.rows = p.rows
        /\ ~o.new /\ o.doomed = p.doomed /\ ~o.typed
        /\ o.row = IF p.rows = 0 THEN -1 ELSE r.before
    BY <2>6, <2>7 DEF Succeed, Record, States
  <2>9. Settled(o.rows, o.row, o.doomed)
    BY <2>0, <2>2, <2>8 DEF Settled
  <2>10. o.rows \in Int /\ o.rows >= 0
    BY <2>2, <2>8
  <2>11. MainFits(o)
    BY <2>8, <2>9, <2>10, SettledFits
  <2> QED BY <1>4, <2>8, <2>11 DEF MainKnows
<1> QED BY <1>1, <1>2, <1>3, <1>4 DEF Reverted, Fails

(* Editing the record, by the user or in the cache of the model: what was  *)
(* typed is known of unless a submit waits for a child.                    *)
LEMMA MainEdited ==
  ASSUME NEW r \in Record, MainFits(r), NEW b \in BOOLEAN
  PROVE  LET typed == [r EXCEPT !.typed = @ \/ b, !.state = EditedState(r)]
             clean == [r EXCEPT !.typed = FALSE]
         IN  /\ typed \in Record /\ MainFits(typed) /\ typed.row = r.row
             /\ typed.state = EditedState(r)
             /\ r.state # "Submitting" => MainKnows(typed)
             /\ WithData(r) \in Record /\ MainFits(WithData(r)) /\ WithData(r).row = r.row
             /\ WithData(r).state = EditedState(r) /\ MainKnows(WithData(r))
             /\ clean \in Record /\ MainFits(clean) /\ clean.row = r.row
             /\ clean.state = r.state /\ MainKnows(clean)
<1>1. PICK o : o = [r EXCEPT !.typed = @ \/ b, !.state = EditedState(r)]
  OBVIOUS
<1>2. EditedState(r) \in States \ {"Visualizing"}
  BY DEF EditedState, Record, States
<1>3. SameRows(r, o) /\ o.state = EditedState(r)
  BY <1>1, <1>2 DEF SameRows, Record
<1>4. ASSUME NEW s, SameRows(r, s), s.state = EditedState(r)
      PROVE  MainFits(s) /\ s \in Record /\ s.row = r.row
  BY <1>4, MainStays DEF SameRows, EditedState
<1>5. PICK w : w = WithData(r)
  OBVIOUS
<1>6. SameRows(r, w) /\ w.state = EditedState(r) /\ ~w.typed
  BY <1>2, <1>5 DEF WithData, SameRows, Record
<1>7. PICK c : c = [r EXCEPT !.typed = FALSE]
  OBVIOUS
<1>8. SameRows(r, c) /\ c.state = r.state /\ ~c.typed
  BY <1>7 DEF SameRows, Record
<1>9. MainFits(c) /\ c \in Record /\ c.row = r.row
  BY <1>8, MainStays DEF SameRows
<1>10. r.state # "Submitting" => MainKnows(o)
  BY <1>3 DEF MainKnows, EditedState
<1> QED
  BY <1>1, <1>3, <1>4, <1>5, <1>6, <1>7, <1>8, <1>9, <1>10 DEF MainKnows

(* What the handlers do besides: note an error or that an operation runs,  *)
(* or go to another state.                                                 *)
LEMMA MainNoted ==
  ASSUME NEW r \in Record, MainFits(r),
         NEW o, \/ o = [r EXCEPT !.error = TRUE]
                \/ o = [r EXCEPT !.error = FALSE, !.complete = FALSE]
  PROVE  /\ o \in Record /\ MainFits(o) /\ o.row = r.row /\ o.state = r.state
         /\ MainKnows(r) => MainKnows(o)
         /\ o.rows = r.rows /\ o.typed = r.typed
<1>1. SameRows(r, o) /\ o.state = r.state /\ o.typed = r.typed
  BY DEF SameRows, Record
<1> QED BY <1>1, MainStays DEF MainKnows, SameRows

(* A handler that ends, or gives up, goes to another state and moves no    *)
(* row.                                                                    *)
LEMMA MainGoesTo ==
  ASSUME NEW r \in Record, MainFits(r), NEW x,
         \/ r.state = "Submitting" /\ x \in {"Editing", "Visualizing"}
         \/ r.state = "SubmittingNewRow" /\ x = "EditingNewRow"
         \/ r.state = "Visualizing" /\ x \in {"Removing", "Visualizing"}
         \/ r.state = x,
         NEW o, o = [r EXCEPT !.state = x] \/ (x = "Visualizing" /\ o = Succeed(r))
  PROVE  /\ o \in Record /\ MainFits(o) /\ o.row = r.row /\ o.state = x
         /\ MainKnows(r) => MainKnows(o)
<1>1. SameRows(r, o) /\ o.state = x /\ o.typed = r.typed
  <2>1. x \in States
    BY DEF Record, States
  <2>2. CASE o = [r EXCEPT !.state = x]
    BY <2>1, <2>2 DEF SameRows, Record
  <2>3. CASE x = "Visualizing" /\ o = Succeed(r)
    BY <2>1, <2>3 DEF SameRows, Record, Succeed
  <2> QED BY <2>2, <2>3
<1>2. MainFits(o)
  BY <1>1, MainStays
<1> QED BY <1>1, <1>2 DEF MainKnows, SameRows

-----------------------------------------------------------------------------
(* What a step does to all controllers.                                    *)

(* The controllers, and where the records of each are. *)
LEMMA Everybody ==
  ASSUME IInv
  PROVE  /\ ctl \in [Controllers -> Record] /\ Main \in Controllers
         /\ ctl[Main] \in Record /\ MainFits(ctl[Main])
         /\ \A k \in Kids : /\ k \in Controllers /\ k # Main
                            /\ ctl[k] \in Record /\ KidFits(ctl[k]) /\ Rested(ctl[k])
         /\ \A x \in Controllers : x = Main \/ x \in Kids
         /\ \A i \in DOMAIN Children : Children[i] \in Kids
         /\ filter \in [Kids -> RowNumbers]
         /\ step \in Steps \cup {NoStep}
         /\ waiting \in BOOLEAN
BY TableAssumption DEF IInv, TypeOK, KidsFit, Controllers, Kids

(* A record that does not change moved. *)
LEMMA MovedNot ==
  ASSUME NEW r \in Record, KidFits(r), Rested(r)
  PROVE  Moved(r, r)
BY DEF Moved

(* Two moves of a child's record in one step. *)
LEMMA MovedTwice ==
  ASSUME NEW r, NEW o, NEW p, Moved(r, o), Moved(o, p)
  PROVE  Moved(r, p)
BY DEF Moved

(* While the main controller rests no child is in Removing, nor while its  *)
(* handler goes from one child to the next.                                *)
LEMMA NobodyRemoves ==
  ASSUME IInv, \/ Idle \/ step.at = "call" \/ ctl[Main].state # "Removing"
               \/ ctl[Called].complete
  PROVE  \A k \in Kids : ctl[k].state # "Removing"
BY DEF IInv, KidsFit, StepFits, BusyState, Idle, NoStep

(* What the machine of the main controller says of its handler.            *)
LEMMA BusyStates ==
  ASSUME IInv
  PROVE  /\ Idle \/ ctl[Main].state \in {"Submitting", "SubmittingNewRow", "Removing"}
         /\ ctl[Main].state \in {"Submitting", "SubmittingNewRow"} => ~Idle
         /\ ~Idle => /\ step \in Steps
                     /\ ctl[Main].state = "Submitting" <=> step.op = "submit"
                     /\ ctl[Main].state = "SubmittingNewRow" <=> step.op = "submitNew"
                     /\ ctl[Main].state = "Removing" <=> step.op = "remove"
<1>1. ~Idle => step \in Steps
  BY DEF IInv, TypeOK, Idle
<1>2. step \in Steps => step.op \in {"submit", "submitNew", "remove"}
  BY DEF Steps, Ops
<1>3. ~Idle => ctl[Main].state = BusyState(step.op)
  BY DEF IInv, StepFits
<1>4. /\ BusyState("submit") = "Submitting"
      /\ BusyState("submitNew") = "SubmittingNewRow"
      /\ BusyState("remove") = "Removing"
  BY DEF BusyState
<1>5. ctl[Main].state \in {"Submitting", "SubmittingNewRow"} => ~Idle
  BY DEF IInv, StepFits
<1>6. ASSUME ~Idle
      PROVE  \/ step.op = "submit" /\ ctl[Main].state = "Submitting"
             \/ step.op = "submitNew" /\ ctl[Main].state = "SubmittingNewRow"
             \/ step.op = "remove" /\ ctl[Main].state = "Removing"
  BY <1>1, <1>2, <1>3, <1>4, <1>6
<1> QED BY <1>1, <1>5, <1>6

(* A step that does not concern the handler of the main controller: the    *)
(* children's records move, and the filter follows the current row.        *)
LEMMA QuietStep ==
  ASSUME IInv, UNCHANGED step,
         ctl' \in [Controllers -> Record], filter' \in [Kids -> RowNumbers],
         waiting' \in BOOLEAN,
         MainFits(ctl'[Main]),
         \/ ctl'[Main].state = ctl[Main].state
         \/ Idle /\ ctl'[Main].state \notin {"Submitting", "SubmittingNewRow"},
         \A k \in Kids : Moved(ctl[k], ctl'[k]),
         ctl'[Main].row >= 0 => \A k \in Kids : filter'[k] = ctl'[Main].row,
         ~TypesWhileBusy => MainKnows(ctl'[Main])
  PROVE  IInv'
<1>1. TypeOK'
  BY DEF IInv, TypeOK
<1>2. StepFits'
  BY DEF IInv, StepFits, Idle
<1>3. KidsFit'
  <2> SUFFICES ASSUME NEW k \in Kids
               PROVE  /\ KidFits(ctl'[k]) /\ Rested(ctl'[k])
                      /\ ctl'[k].state = "Removing"
                           => /\ step.op = "remove" /\ step.at = "wait"
                              /\ k = Called /\ ~ctl'[k].complete
    BY DEF KidsFit, Called
  <2>1. Moved(ctl[k], ctl'[k])
    OBVIOUS
  <2>2. ctl[k].state = "Removing" => /\ step.op = "remove" /\ step.at = "wait"
                                     /\ k = Called /\ ~ctl[k].complete
    BY DEF IInv, KidsFit
  <2> QED BY <2>1, <2>2 DEF Moved
<1>4. Follow'
  BY DEF Follow
<1>5. ~TypesWhileBusy => Untyped'
  <2> SUFFICES ASSUME ~TypesWhileBusy, step.op = "remove",
                      NEW i \in DOMAIN Children,
                      \/ i < step.child
                      \/ i = step.child /\ step.at # "call" /\ ctl'[Children[i]].complete
               PROVE  ~ctl'[Children[i]].typed
    BY DEF Untyped
  <2>1. Moved(ctl[Children[i]], ctl'[Children[i]])
    BY Everybody
  <2>2. \/ i < step.child
        \/ i = step.child /\ step.at # "call" /\ ctl[Children[i]].complete
        => ~ctl[Children[i]].typed
    BY DEF IInv, Untyped
  <2> QED BY <2>1, <2>2 DEF Moved
<1> QED BY <1>1, <1>2, <1>3, <1>4, <1>5 DEF IInv

(* A handler of the main controller begins, with the first child to call.  *)
LEMMA BeginStep ==
  ASSUME IInv, NEW op \in Ops, NEW c \in [Controllers -> Record], NEW m \in Record,
         Begin(op, c, m), waiting' \in BOOLEAN,
         \A k \in Kids : c[k] = ctl[k],
         ctl[Main].state \notin {"Submitting", "SubmittingNewRow", "Removing"},
         MainFits(m), m.state = BusyState(op),
         m.row >= 0 => m.row = ctl[Main].row,
         ~TypesWhileBusy => MainKnows(m)
  PROVE  IInv'
<1>1. /\ step' = [op |-> op, child |-> 1, at |-> "call"]
      /\ UNCHANGED filter
      /\ ctl' \in [Controllers -> Record] /\ ctl'[Main] = m
      /\ \A k \in Kids : ctl'[k] = ctl[k]
  BY Everybody DEF Begin, Put
<1>2. step' \in Steps /\ step' # NoStep /\ ~Idle'
  <2>1. 1 \in 1 .. Len(Children) + 1
    BY TableAssumption
  <2> QED BY <1>1, <2>1 DEF Steps, Idle, NoStep, Ops
<1>3. TypeOK'
  BY <1>1, <1>2 DEF IInv, TypeOK
<1>4. StepFits'
  BY <1>1, <1>2 DEF StepFits
<1>5. KidsFit'
  BY <1>1, NobodyRemoves DEF IInv, KidsFit
<1>6. Follow'
  BY <1>1 DEF IInv, Follow
<1>7. Untyped'
  <2>1. \A i \in DOMAIN Children : ~(i < 1)
    BY TableAssumption
  <2> QED BY <1>1, <2>1 DEF Untyped
<1> QED BY <1>1, <1>3, <1>4, <1>5, <1>6, <1>7 DEF IInv

(* updateChildControllersAfterCurrentRowChanged(), with the controllers as *)
(* in c.                                                                   *)
LEMMA ShowStep ==
  ASSUME IInv, NEW c \in [Controllers -> Record], NEW n \in RowNumbers,
         ShowInChildren(c, n),
         \A k \in Kids : Moved(ctl[k], c[k])
  PROVE  /\ ctl' \in [Controllers -> Record]
         /\ ctl'[Main] = c[Main]
         /\ \A k \in Kids : Moved(ctl[k], ctl'[k])
         /\ filter' \in [Kids -> RowNumbers]
         /\ \A k \in Kids : filter'[k] = n
<1>1. PICK m \in [Kids -> Matches(c[Main], n)] :
        ctl' = [x \in Controllers |->
                  IF x = Main THEN c[Main] ELSE ShownInChild(c[x], m[x])]
  BY DEF ShowInChildren
<1>2. ctl'[Main] = c[Main] /\ c[Main] \in Record
  BY <1>1, Everybody
<1>3. ASSUME NEW k \in Kids
      PROVE  Moved(ctl[k], ctl'[k]) /\ ctl'[k] \in Record
  <2>1. m[k] \in {0, 1}
    BY DEF Matches
  <2>2. ctl'[k] = ShownInChild(c[k], m[k])
    BY <1>1, Everybody
  <2>3. c[k] \in Record /\ KidFits(c[k]) /\ Rested(c[k]) /\ Moved(ctl[k], c[k])
    BY Everybody DEF Moved
  <2>4. Moved(c[k], ctl'[k])
    BY <2>1, <2>2, <2>3, ChildShown
  <2>5. Moved(ctl[k], ctl'[k])
    BY <2>3, <2>4, MovedTwice
  <2> QED BY <2>5 DEF Moved
<1>4. ctl' \in [Controllers -> Record]
  BY <1>1, <1>2, <1>3, Everybody
<1>5. filter' = [k \in Kids |-> n]
  BY DEF ShowInChildren
<1> QED BY <1>2, <1>3, <1>4, <1>5

-----------------------------------------------------------------------------
(* The signals of the main controller.                                     *)

(* A signal that is handled at once. *)
LEMMA EndsStep ==
  ASSUME IInv, NEW c \in [Controllers -> Record], NEW m \in Record,
         EndsAt(c, m), waiting' \in BOOLEAN,
         \A k \in Kids : c[k] = ctl[k],
         MainFits(m),
         \/ m.state = ctl[Main].state
         \/ Idle /\ m.state \notin {"Submitting", "SubmittingNewRow"},
         m.row >= 0 => m.row = ctl[Main].row,
         ~TypesWhileBusy => MainKnows(m)
  PROVE  IInv'
<1>1. /\ UNCHANGED <<filter, step>>
      /\ ctl' \in [Controllers -> Record] /\ ctl'[Main] = m
      /\ \A k \in Kids : ctl'[k] = ctl[k]
  BY Everybody DEF EndsAt, Put
<1>2. \A k \in Kids : Moved(ctl[k], ctl'[k])
  BY <1>1, Everybody, MovedNot
<1>3. ctl'[Main].row >= 0 => \A k \in Kids : filter'[k] = ctl'[Main].row
  BY <1>1 DEF IInv, Follow
<1>4. filter' \in [Kids -> RowNumbers]
  BY <1>1, Everybody
<1> QED BY <1>1, <1>2, <1>3, <1>4, QuietStep

(* What submitTriggered() and removeTriggered() find: the controllers as   *)
(* they are, except that a waiting call or setData() changed the main one. *)
Asked(c) ==
  /\ c \in [Controllers -> Record]
  /\ \A k \in Kids : c[k] = ctl[k]
  /\ MainFits(c[Main])
  /\ c[Main].row = ctl[Main].row
  /\ \/ c[Main].state = ctl[Main].state
     \/ ctl[Main].state = "Visualizing" /\ c[Main].state = "Editing"
  /\ ~TypesWhileBusy => MainKnows(c[Main])

(* submitTriggered() of the main controller. *)
LEMMA SubmitStep ==
  ASSUME IInv, NEW c, Asked(c), SubmitTriggered(c), waiting' \in BOOLEAN
  PROVE  IInv'
<1> DEFINE m == c[Main]
<1>0. m \in Record /\ MainFits(m) /\ m.row = ctl[Main].row
  BY Everybody DEF Asked
<1>1. m.state \in {"Visualizing", "Editing", "EditingNewRow"}
        => Idle /\ ctl[Main].state \notin {"Submitting", "SubmittingNewRow", "Removing"}
  BY BusyStates DEF Asked
<1>2. ASSUME NEW o \in Record, EndsAt(c, o), MainFits(o), o.row = ctl[Main].row,
             \/ o.state = ctl[Main].state
             \/ Idle /\ o.state \notin {"Submitting", "SubmittingNewRow"},
             ~TypesWhileBusy => MainKnows(o)
      PROVE  IInv'
  BY <1>2, EndsStep DEF Asked
<1>3. CASE m.state \in {"Visualizing", "Editing"}
  <2>1. PICK s : s = SavedRow(m)
    OBVIOUS
  <2>2. \/ \E f \in FailedSaves(m) : EndsAt(c, [f EXCEPT !.state = "Editing"])
        \/ /\ m.mapped
           /\ IF RowFound(s, m.row)
              THEN Begin("submit", c, [SetRow(s, m.row) EXCEPT !.state = "Submitting"])
              ELSE EndsAt(c, [s EXCEPT !.state = "Editing"])
    BY <1>3, <2>1 DEF SubmitTriggered
  <2>3. ASSUME NEW f \in FailedSaves(m), EndsAt(c, [f EXCEPT !.state = "Editing"])
        PROVE  IInv'
    <3>1. PICK o : o = [f EXCEPT !.state = "Editing"]
      OBVIOUS
    <3>2. o \in Record /\ MainFits(o) /\ o.state = "Editing" /\ o.row = m.row
      BY <1>0, <1>3, <3>1, MainSubmitFails
    <3>3. MainKnows(o)
      BY <3>2 DEF MainKnows
    <3> QED BY <1>0, <1>1, <1>2, <1>3, <2>3, <3>1, <3>2, <3>3
  <2>4. PICK o : o = [SetRow(s, m.row) EXCEPT !.state = "Submitting"]
    OBVIOUS
  <2>5. /\ RowFound(s, m.row)
        /\ o \in Record /\ MainFits(o) /\ MainKnows(o)
        /\ o.state = "Submitting"
        /\ o.row >= 0 => o.row = m.row
    <3> HIDE DEF m
    <3> QED BY <1>0, <1>3, <2>1, <2>4, MainSubmitSaves
  <2>6. ASSUME Begin("submit", c, o) PROVE IInv'
    <3>1. "submit" \in Ops /\ o.state = BusyState("submit")
      BY <2>5 DEF Ops, BusyState
    <3>2. o.row >= 0 => o.row = ctl[Main].row
      BY <1>0, <2>5
    <3> QED BY <1>1, <1>3, <2>5, <2>6, <3>1, <3>2, BeginStep DEF Asked
  <2> QED BY <2>2, <2>3, <2>4, <2>5, <2>6
<1>4. CASE m.state = "EditingNewRow"
  <2>1. PICK o : o = [SavedRow(m) EXCEPT !.state = "SubmittingNewRow"]
    OBVIOUS
  <2>2. \/ \E f \in FailedSaves(m) : EndsAt(c, f)
        \/ m.mapped /\ Begin("submitNew", c, o)
    BY <1>4, <2>1 DEF SubmitTriggered
  <2>3. ASSUME NEW f \in FailedSaves(m), EndsAt(c, f) PROVE IInv'
    <3>1. f \in Record /\ MainFits(f) /\ f.state = "EditingNewRow" /\ f.row = m.row
      BY <1>0, <1>4, MainSubmitFails
    <3>2. MainKnows(f)
      BY <3>1 DEF MainKnows
    <3> QED BY <1>0, <1>1, <1>2, <1>4, <2>3, <3>1, <3>2
  <2>4. ASSUME m.mapped, Begin("submitNew", c, o) PROVE IInv'
    <3>1. o \in Record /\ MainFits(o) /\ o.state = "SubmittingNewRow" /\ o.row = m.row
      BY <1>0, <1>4, <2>1, <2>4, MainSubmitNewSaves
    <3>2. "submitNew" \in Ops /\ o.state = BusyState("submitNew")
      BY <3>1 DEF Ops, BusyState
    <3>3. MainKnows(o)
      BY <3>1 DEF MainKnows
    <3> QED BY <1>0, <1>1, <1>4, <2>4, <3>1, <3>2, <3>3, BeginStep DEF Asked
  <2> QED BY <2>2, <2>3, <2>4
<1>5. CASE m.state \notin {"Visualizing", "Editing", "EditingNewRow"}
  <2>1. EndsAt(c, m)
    BY <1>5 DEF SubmitTriggered
  <2>2. m.state = ctl[Main].state
    BY <1>5 DEF Asked
  <2>3. ~TypesWhileBusy => MainKnows(m)
    BY DEF Asked
  <2> HIDE DEF m
  <2> QED BY <1>0, <1>2, <2>1, <2>2, <2>3
<1> QED BY <1>3, <1>4, <1>5

(* removeTriggered() of the main controller. *)
LEMMA RemoveStep ==
  ASSUME IInv, NEW c, Asked(c), RemoveTriggered(c), waiting' \in BOOLEAN
  PROVE  IInv'
<1> DEFINE m == c[Main]
<1>0. m \in Record /\ MainFits(m) /\ m.row = ctl[Main].row
  BY Everybody DEF Asked
<1>1. ~TypesWhileBusy => MainKnows(m)
  BY DEF Asked
<1>2. ASSUME NEW o \in Record, EndsAt(c, o), MainFits(o), o.row = ctl[Main].row,
             o.state = m.state, ~TypesWhileBusy => MainKnows(o)
      PROVE  IInv'
  <2>1. \/ o.state = ctl[Main].state
        \/ Idle /\ o.state \notin {"Submitting", "SubmittingNewRow"}
    BY <1>2, BusyStates DEF Asked
  <2> QED BY <1>2, <2>1, EndsStep DEF Asked
<1>3. CASE m.state # "Visualizing"
  <2>1. EndsAt(c, m)
    BY <1>3 DEF RemoveTriggered
  <2> HIDE DEF m
  <2> QED BY <1>0, <1>1, <1>2, <2>1
<1>4. CASE m.state = "Visualizing"
  <2>1. PICK o : o = Succeed(m)
    OBVIOUS
  <2>2. PICK b : b = [m EXCEPT !.state = "Removing"]
    OBVIOUS
  <2>3. EndsAt(c, o) \/ Begin("remove", c, b)
    BY <1>4, <2>1, <2>2 DEF RemoveTriggered
  <2>4. /\ o \in Record /\ MainFits(o) /\ o.row = m.row /\ o.state = "Visualizing"
        /\ MainKnows(m) => MainKnows(o)
    BY <1>0, <1>4, <2>1, MainGoesTo
  <2>5. /\ b \in Record /\ MainFits(b) /\ b.row = m.row /\ b.state = "Removing"
        /\ MainKnows(m) => MainKnows(b)
    BY <1>0, <1>4, <2>2, MainGoesTo
  <2>6. ASSUME EndsAt(c, o) PROVE IInv'
    BY <1>0, <1>1, <1>2, <1>4, <2>4, <2>6
  <2>7. ASSUME Begin("remove", c, b) PROVE IInv'
    <3>1. "remove" \in Ops /\ b.state = BusyState("remove")
      BY <2>5 DEF Ops, BusyState
    <3>2. ctl[Main].state \notin {"Submitting", "SubmittingNewRow", "Removing"}
      BY <1>4, BusyStates DEF Asked
    <3> QED BY <1>0, <1>1, <2>5, <2>7, <3>1, <3>2, BeginStep DEF Asked
  <2> QED BY <2>3, <2>6, <2>7
<1> QED BY <1>3, <1>4

(* The controllers as submit(), a call that waits, or setData() finds them. *)
LEMMA AskedBy ==
  ASSUME IInv
  PROVE  /\ Asked(ctl)
         /\ Asked(ToWait)
         /\ Asked(Put(ToWait, Main, WithData(ToWait[Main])))
<1>0. ~TypesWhileBusy => MainKnows(ctl[Main])
  BY DEF IInv
<1>1. Asked(ctl)
  BY <1>0, Everybody DEF Asked
<1> DEFINE m == ctl[Main]
<1>r. m \in Record /\ MainFits(m)
  BY Everybody
<1>2. PICK n : n = [m EXCEPT !.error = FALSE, !.complete = FALSE]
  OBVIOUS
<1>3. /\ n \in Record /\ MainFits(n) /\ n.row = m.row /\ n.state = m.state
      /\ MainKnows(m) => MainKnows(n)
  <2> HIDE DEF m
  <2> QED BY <1>r, <1>2, MainNoted
<1>4. ToWait \in [Controllers -> Record] /\ ToWait[Main] = n
      /\ \A k \in Kids : ToWait[k] = ctl[k]
  BY <1>2, <1>3, Everybody DEF ToWait, Put
<1>5. Asked(ToWait)
  BY <1>0, <1>3, <1>4 DEF Asked
<1>6. PICK w : w = WithData(n)
  OBVIOUS
<1>7. /\ w \in Record /\ MainFits(w) /\ w.row = n.row
      /\ w.state = EditedState(n) /\ MainKnows(w)
  BY <1>3, <1>6, MainEdited
<1>8. PICK d : d = Put(ToWait, Main, WithData(ToWait[Main]))
  OBVIOUS
<1>9. d \in [Controllers -> Record] /\ d[Main] = w /\ \A k \in Kids : d[k] = ctl[k]
  BY <1>4, <1>6, <1>7, <1>8, Everybody DEF Put
<1>10. w.state = m.state \/ (m.state = "Visualizing" /\ w.state = "Editing")
  BY <1>3, <1>7 DEF EditedState
<1>11. Asked(d)
  BY <1>3, <1>7, <1>9, <1>10 DEF Asked
<1> QED BY <1>1, <1>5, <1>8, <1>11

-----------------------------------------------------------------------------
(* The handlers of the main controller, while they run the children.       *)

(* A step in which the main controller waits for, or has, the outcome of a *)
(* child is a step of the handler that called it.                          *)
LEMMA StepBounds ==
  ASSUME IInv, ~Idle
  PROVE  /\ step \in Steps /\ step.op \in Ops
         /\ step.child \in Nat /\ step.child >= 1
         /\ step.child <= Len(Children) => step.child \in DOMAIN Children
         /\ step.at # "call" => step.child \in DOMAIN Children
         /\ Len(Children) \in Nat /\ DOMAIN Children = 1 .. Len(Children)
<1>1. step \in Steps /\ step.at \in {"call", "wait", "return"}
  BY DEF IInv, TypeOK, Idle, Steps
<1>2. Len(Children) \in Nat /\ DOMAIN Children = 1 .. Len(Children)
  BY TableAssumption
<1>3. step.op \in Ops /\ step.child \in 1 .. Len(Children) + 1
  BY <1>1 DEF Steps
<1>4. step.at \in {"wait", "return"} => step.child \in DOMAIN Children
  BY DEF IInv, StepFits
<1> QED BY <1>1, <1>2, <1>3, <1>4

(* A handler of the main controller ends: no child is left in Removing.    *)
LEMMA EndStep ==
  ASSUME IInv, step' = NoStep,
         \A k \in Kids : ctl[k].state # "Removing",
         ctl' \in [Controllers -> Record], filter' \in [Kids -> RowNumbers],
         waiting' \in BOOLEAN,
         MainFits(ctl'[Main]),
         ctl'[Main].state \notin {"Submitting", "SubmittingNewRow"},
         \A k \in Kids : Moved(ctl[k], ctl'[k]),
         ctl'[Main].row >= 0 => \A k \in Kids : filter'[k] = ctl'[Main].row,
         ~TypesWhileBusy => MainKnows(ctl'[Main])
  PROVE  IInv'
<1>1. TypeOK'
  BY DEF TypeOK
<1>2. StepFits'
  BY DEF StepFits, Idle, NoStep
<1>3. KidsFit'
  BY DEF KidsFit, Moved
<1>4. Follow'
  BY DEF Follow
<1>5. Untyped'
  BY DEF Untyped, NoStep
<1> QED BY <1>1, <1>2, <1>3, <1>4, <1>5 DEF IInv

(* submitAndWait() or removeAndWait() on a child. *)
LEMMA CallChildStep ==
  ASSUME IInv, CallChild
  PROVE  IInv'
<1>1. ~Idle /\ step.at = "call"
  BY DEF CallChild, Idle, NoStep
<1>2. step.child \in DOMAIN Children /\ Called \in Kids /\ step \in Steps
  BY <1>1, StepBounds DEF CallChild, Called, Kids
<1>3. ctl[Called] \in Record /\ KidFits(ctl[Called]) /\ ctl[Called].state # "Removing"
  BY <1>1, <1>2, Everybody, NobodyRemoves
<1>4. PICK s : s = [ctl[Called] EXCEPT !.error = FALSE, !.complete = FALSE]
  OBVIOUS
<1>5. s \in Record /\ KidFits(s) /\ ~s.complete /\ s.state = ctl[Called].state
  <2>1. PICK r : r = ctl[Called]
    OBVIOUS
  <2>2. /\ s \in Record /\ s.state = r.state /\ ~s.complete /\ s.typed = r.typed
        /\ s.rows = r.rows /\ s.row = r.row /\ s.before = r.before
        /\ s.new = r.new /\ s.doomed = r.doomed /\ s.dirty = r.dirty
        /\ s.mapped = r.mapped
    BY <1>3, <1>4, <2>1 DEF Record
  <2> QED BY <1>3, <2>1, <2>2 DEF KidFits, RowsFit
<1>6. PICK r \in Outcomes(step.op, ctl[Called]) :
        /\ ctl' = Put(ctl, Called, r)
        /\ step' = [step EXCEPT !.at = IF r.complete THEN "return" ELSE "wait"]
  BY DEF CallChild
<1>7. /\ r \in Record /\ KidFits(r) /\ Rested(r)
      /\ r.state = "Removing" => step.op = "remove" /\ ~r.complete
      /\ r.complete => ~r.typed
  <2>1. r \in IF step.op = "remove" THEN Removed(s) ELSE Submitted(s)
    BY <1>4, <1>6 DEF Outcomes
  <2>2. CASE step.op = "remove"
    BY <1>5, <2>1, <2>2, ChildRemoved
  <2>3. CASE step.op # "remove"
    <3>1. Moved(s, r)
      BY <1>5, <2>1, <2>3, ChildSubmitted
    <3> QED BY <1>3, <1>5, <3>1 DEF Moved
  <2> QED BY <2>2, <2>3
<1>8. /\ ctl' \in [Controllers -> Record] /\ ctl'[Main] = ctl[Main]
      /\ ctl'[Called] = r
      /\ \A k \in Kids : k # Called => ctl'[k] = ctl[k]
  BY <1>2, <1>6, <1>7, Everybody DEF Put
<1>9. /\ step' \in Steps /\ step'.op = step.op /\ step'.child = step.child
      /\ step'.at = IF r.complete THEN "return" ELSE "wait"
  BY <1>2, <1>6 DEF Steps
<1>10. UNCHANGED <<filter, waiting>> /\ Called' = Called
  BY <1>9 DEF CallChild, Called
<1>11. TypeOK'
  BY <1>8, <1>9, <1>10 DEF IInv, TypeOK
<1>12. StepFits'
  <2>1. ~Idle'
    BY <1>9 DEF Idle, NoStep
  <2> QED BY <1>1, <1>2, <1>8, <1>9, <2>1 DEF IInv, StepFits
<1>13. KidsFit'
  <2> SUFFICES ASSUME NEW k \in Kids
               PROVE  /\ KidFits(ctl'[k]) /\ Rested(ctl'[k])
                      /\ ctl'[k].state = "Removing"
                           => /\ step'.op = "remove" /\ step'.at = "wait"
                              /\ k = Called /\ ~ctl'[k].complete
    BY <1>10 DEF KidsFit
  <2>1. CASE k = Called
    BY <1>7, <1>8, <1>9, <2>1
  <2>2. CASE k # Called
    BY <1>1, <1>8, <2>2, Everybody, NobodyRemoves
  <2> QED BY <2>1, <2>2
<1>14. Follow'
  BY <1>8, <1>10 DEF IInv, Follow
<1>15. ~TypesWhileBusy => Untyped'
  <2> SUFFICES ASSUME ~TypesWhileBusy, step'.op = "remove", NEW i \in DOMAIN Children,
                      \/ i < step'.child
                      \/ i = step'.child /\ step'.at # "call" /\ ctl'[Children[i]].complete
               PROVE  ~ctl'[Children[i]].typed
    BY DEF Untyped
  <2>1. CASE i = step.child
    <3>1. ctl'[Children[i]] = r
      BY <1>8, <2>1 DEF Called
    <3> QED BY <1>1, <1>7, <1>9, <2>1, <3>1, StepBounds
  <2>2. CASE i # step.child
    <3>1. Children[i] # Called /\ Children[i] \in Kids
      BY <1>2, <2>2, TableAssumption DEF Called, Kids
    <3>2. i < step.child /\ step.op = "remove"
      BY <1>9, <2>2
    <3>3. ~ctl[Children[i]].typed
      BY <3>2 DEF IInv, Untyped
    <3> QED BY <1>8, <3>1, <3>3
  <2> QED BY <2>1, <2>2
<1> QED BY <1>8, <1>11, <1>12, <1>13, <1>14, <1>15 DEF IInv

(* The call on a child returns. *)
LEMMA ChildReturnsStep ==
  ASSUME IInv, ChildReturns
  PROVE  IInv'
<1>1. ~Idle /\ step.at # "call" /\ ctl[Called].complete
  BY DEF ChildReturns, Idle, NoStep
<1>2. /\ step.child \in DOMAIN Children /\ Called \in Kids /\ step \in Steps
      /\ step.child \in Nat /\ step.child + 1 \in 1 .. Len(Children) + 1
  BY <1>1, StepBounds DEF Called, Kids
<1>3. \A k \in Kids : ctl[k].state # "Removing"
  BY <1>1, NobodyRemoves
<1>4. ~TypesWhileBusy => MainKnows(ctl[Main])
  BY DEF IInv
<1>5. waiting' \in BOOLEAN
  BY Everybody DEF ChildReturns
<1>6. CASE ctl[Called].error
  <2>1. PICK x : x = CASE step.op = "submit" -> "Editing"
                       [] step.op = "submitNew" -> "EditingNewRow"
                       [] step.op = "remove" -> ctl[Main].state
    OBVIOUS
  <2>2. PICK o : o = [ctl[Main] EXCEPT !.state = x]
    OBVIOUS
  <2>3. ctl' = Put(ctl, Main, o) /\ step' = NoStep /\ UNCHANGED filter
    BY <1>6, <2>1, <2>2 DEF ChildReturns
  <2>4. /\ \/ ctl[Main].state = "Submitting" /\ x = "Editing"
           \/ ctl[Main].state = "SubmittingNewRow" /\ x = "EditingNewRow"
           \/ ctl[Main].state = "Removing" /\ x = "Removing"
    BY <1>1, <2>1, BusyStates DEF Steps, Ops
  <2>5. /\ o \in Record /\ MainFits(o) /\ o.row = ctl[Main].row /\ o.state = x
        /\ MainKnows(ctl[Main]) => MainKnows(o)
    BY <2>2, <2>4, Everybody, MainGoesTo
  <2>6. /\ ctl' \in [Controllers -> Record] /\ ctl'[Main] = o
        /\ \A k \in Kids : ctl'[k] = ctl[k]
    BY <2>3, <2>5, Everybody DEF Put
  <2>7. \A k \in Kids : Moved(ctl[k], ctl'[k])
    BY <2>6, Everybody, MovedNot
  <2>8. o.row >= 0 => \A k \in Kids : filter'[k] = o.row
    BY <2>3, <2>5 DEF IInv, Follow
  <2>9. filter' \in [Kids -> RowNumbers]
    BY <2>3, Everybody
  <2>10. o.state \notin {"Submitting", "SubmittingNewRow"}
    BY <2>4, <2>5
  <2> QED BY <1>3, <1>4, <1>5, <2>3, <2>5, <2>6, <2>7, <2>8, <2>9, <2>10, EndStep
<1>7. CASE ~ctl[Called].error
  <2>1. step' = [step EXCEPT !.child = @ + 1, !.at = "call"]
    BY <1>7 DEF ChildReturns
  <2>2. /\ step' \in Steps /\ step'.op = step.op /\ step'.child = step.child + 1
        /\ step'.at = "call"
    BY <1>2, <2>1 DEF Steps
  <2>3. /\ ctl' \in [Controllers -> Record] /\ ctl'[Main] = ctl[Main]
        /\ \A k \in Kids : Moved(ctl[k], ctl'[k])
        /\ filter' \in [Kids -> RowNumbers]
        /\ \A k \in Kids : filter'[k] \in {filter[k], ctl[Main].row}
    <3>1. CASE step.op = "submitNew"
      <4>1. PICK n \in Matches(ctl[Main], ctl[Main].row) :
              ctl' = Put(ctl, Called, Repopulated(ctl[Called], n))
        BY <1>7, <3>1 DEF ChildReturns
      <4>2. filter' = Put(filter, Called, ctl[Main].row)
        BY <1>7, <3>1 DEF ChildReturns
      <4>3. n \in {0, 1}
        BY DEF Matches
      <4>4. Moved(ctl[Called], Repopulated(ctl[Called], n))
        BY <1>2, <4>3, Everybody, ChildShown
      <4>5. Repopulated(ctl[Called], n) \in Record
        BY <4>4 DEF Moved
      <4>6. /\ ctl' \in [Controllers -> Record] /\ ctl'[Main] = ctl[Main]
            /\ ctl'[Called] = Repopulated(ctl[Called], n)
            /\ \A k \in Kids : k # Called => ctl'[k] = ctl[k]
        BY <1>2, <4>1, <4>5, Everybody DEF Put
      <4>7. ctl[Main].row \in RowNumbers
        BY Everybody DEF Record
      <4>8. /\ filter' \in [Kids -> RowNumbers]
            /\ \A k \in Kids : filter'[k] \in {filter[k], ctl[Main].row}
        BY <1>2, <4>2, <4>7, Everybody DEF Put
      <4>9. ASSUME NEW k \in Kids PROVE Moved(ctl[k], ctl'[k])
        BY <4>4, <4>6, Everybody, MovedNot
      <4> QED BY <4>6, <4>8, <4>9
    <3>2. CASE step.op # "submitNew"
      <4>1. UNCHANGED <<ctl, filter>>
        BY <1>7, <3>2 DEF ChildReturns
      <4> QED BY <4>1, Everybody, MovedNot
    <3> QED BY <3>1, <3>2
  <2>4. TypeOK'
    BY <1>5, <2>2, <2>3 DEF TypeOK
  <2>5. StepFits'
    <3>1. ~Idle'
      BY <2>2 DEF Idle, NoStep
    <3> QED BY <1>1, <2>2, <2>3, <3>1 DEF IInv, StepFits
  <2>6. KidsFit'
    BY <1>3, <2>3 DEF KidsFit, Moved
  <2>7. Follow'
    BY <2>3 DEF IInv, Follow
  <2>8. ~TypesWhileBusy => Untyped'
    <3> SUFFICES ASSUME ~TypesWhileBusy, step.op = "remove", NEW i \in DOMAIN Children,
                        i < step.child + 1
                 PROVE  ~ctl'[Children[i]].typed
      BY <2>2 DEF Untyped
    <3>1. Moved(ctl[Children[i]], ctl'[Children[i]])
      BY <2>3, Everybody
    <3>2. i \in Int
      BY TableAssumption
    <3>3. i < step.child \/ i = step.child
      BY <1>2, <3>2
    <3>4. ~ctl[Children[i]].typed
      BY <1>1, <3>3 DEF IInv, Untyped, Called
    <3> QED BY <3>1, <3>4 DEF Moved
  <2> QED BY <2>3, <2>4, <2>5, <2>6, <2>7, <2>8 DEF IInv
<1> QED BY <1>6, <1>7

(* What the end of a handler needs to know of the children. *)
LEMMA AllHaveReturned ==
  ASSUME IInv, NEW op \in Ops, AllReturned(op)
  PROVE  /\ ctl[Main].state = BusyState(op)
         /\ \A k \in Kids : ctl[k].state # "Removing"
         /\ ~TypesWhileBusy => MainKnows(ctl[Main])
         /\ waiting \in BOOLEAN
<1>1. ~Idle /\ step.op = op /\ step.at = "call"
  BY DEF AllReturned, Idle, NoStep
<1>2. ctl[Main].state = BusyState(op)
  BY <1>1 DEF IInv, StepFits
<1>3. \A k \in Kids : ctl[k].state # "Removing"
  BY <1>1, NobodyRemoves
<1> QED BY <1>2, <1>3, Everybody DEF IInv

(* The end of a submit. *)
LEMMA FinishSubmitStep ==
  ASSUME IInv, FinishSubmit
  PROVE  IInv'
<1>1. /\ ctl[Main].state = "Submitting"
      /\ \A k \in Kids : ctl[k].state # "Removing"
      /\ ~TypesWhileBusy => MainKnows(ctl[Main])
      /\ waiting' \in BOOLEAN
  BY AllHaveReturned DEF FinishSubmit, Ops, BusyState
<1>2. PICK o : o = Succeed(ctl[Main])
  OBVIOUS
<1>3. ctl' = Put(ctl, Main, o) /\ step' = NoStep /\ UNCHANGED filter
  BY <1>2 DEF FinishSubmit
<1>4. /\ o \in Record /\ MainFits(o) /\ o.row = ctl[Main].row /\ o.state = "Visualizing"
      /\ MainKnows(ctl[Main]) => MainKnows(o)
  BY <1>1, <1>2, Everybody, MainGoesTo
<1>5. /\ ctl' \in [Controllers -> Record] /\ ctl'[Main] = o
      /\ \A k \in Kids : ctl'[k] = ctl[k]
  BY <1>3, <1>4, Everybody DEF Put
<1>6. \A k \in Kids : Moved(ctl[k], ctl'[k])
  BY <1>5, Everybody, MovedNot
<1>7. o.row >= 0 => \A k \in Kids : filter'[k] = o.row
  BY <1>3, <1>4 DEF IInv, Follow
<1>8. filter' \in [Kids -> RowNumbers]
  BY <1>3, Everybody
<1> QED BY <1>1, <1>3, <1>4, <1>5, <1>6, <1>7, <1>8, EndStep

(* The end of the submit of a new row. *)
LEMMA FinishSubmitNewRowStep ==
  ASSUME IInv, FinishSubmitNewRow
  PROVE  IInv'
<1>1. /\ ctl[Main].state = "SubmittingNewRow"
      /\ \A k \in Kids : ctl[k].state # "Removing"
      /\ ~TypesWhileBusy => MainKnows(ctl[Main])
      /\ waiting' \in BOOLEAN
  BY AllHaveReturned DEF FinishSubmitNewRow, Ops, BusyState
<1>2. PICK m : m = ctl[Main]
  OBVIOUS
<1>3. m \in Record /\ MainFits(m) /\ m.state = "SubmittingNewRow"
  BY <1>1, <1>2, Everybody
<1>4. step' = NoStep
  BY DEF FinishSubmitNewRow
<1>5. CASE RowFound(m, m.row)
  <2>1. PICK s : s = SetRow(m, m.row)
    OBVIOUS
  <2>2. PICK o : o = Succeed(s)
    OBVIOUS
  <2>3. PICK c : c = Put(ctl, Main, o)
    OBVIOUS
  <2>4. ShowInChildren(c, s.row)
    BY <1>2, <1>5, <2>1, <2>2, <2>3 DEF FinishSubmitNewRow
  <2>5. /\ o \in Record /\ MainFits(o) /\ MainKnows(o) /\ o.state = "Visualizing"
        /\ o.row = m.row /\ s.row = m.row
    BY <1>3, <1>5, <2>1, <2>2, MainNewRowShown
  <2>6. /\ c \in [Controllers -> Record] /\ c[Main] = o
        /\ \A k \in Kids : c[k] = ctl[k]
    BY <2>3, <2>5, Everybody DEF Put
  <2>7. s.row \in RowNumbers
    BY <1>3, <2>5 DEF Record
  <2>8. \A k \in Kids : Moved(ctl[k], c[k])
    BY <2>6, Everybody, MovedNot
  <2>9. /\ ctl' \in [Controllers -> Record]
        /\ ctl'[Main] = o
        /\ \A k \in Kids : Moved(ctl[k], ctl'[k])
        /\ filter' \in [Kids -> RowNumbers]
        /\ \A k \in Kids : filter'[k] = s.row
    BY <2>4, <2>6, <2>7, <2>8, ShowStep
  <2>10. ctl'[Main].row >= 0 => \A k \in Kids : filter'[k] = ctl'[Main].row
    BY <2>5, <2>9
  <2> QED BY <1>1, <1>4, <2>5, <2>9, <2>10, EndStep
<1>6. CASE ~RowFound(m, m.row)
  <2>1. PICK o : o = [m EXCEPT !.state = "EditingNewRow"]
    OBVIOUS
  <2>2. ctl' = Put(ctl, Main, o) /\ UNCHANGED filter
    BY <1>2, <1>6, <2>1 DEF FinishSubmitNewRow
  <2>3. /\ o \in Record /\ MainFits(o) /\ o.row = m.row /\ o.state = "EditingNewRow"
        /\ MainKnows(m) => MainKnows(o)
    BY <1>3, <2>1, MainGoesTo
  <2>4. /\ ctl' \in [Controllers -> Record] /\ ctl'[Main] = o
        /\ \A k \in Kids : ctl'[k] = ctl[k]
    BY <2>2, <2>3, Everybody DEF Put
  <2>5. \A k \in Kids : Moved(ctl[k], ctl'[k])
    BY <2>4, Everybody, MovedNot
  <2>6. o.row >= 0 => \A k \in Kids : filter'[k] = o.row
    BY <1>2, <2>2, <2>3 DEF IInv, Follow
  <2>7. filter' \in [Kids -> RowNumbers]
    BY <2>2, Everybody
  <2> QED BY <1>1, <1>2, <1>4, <2>3, <2>4, <2>5, <2>6, <2>7, EndStep
<1> QED BY <1>5, <1>6

(* The end of a removal. *)
LEMMA FinishRemoveStep ==
  ASSUME IInv, FinishRemove
  PROVE  IInv'
<1>1. /\ ctl[Main].state = "Removing"
      /\ \A k \in Kids : ctl[k].state # "Removing"
      /\ ~TypesWhileBusy => MainKnows(ctl[Main])
      /\ waiting' \in BOOLEAN
  BY AllHaveReturned DEF FinishRemove, Ops, BusyState
<1>2. PICK m : m = ctl[Main]
  OBVIOUS
<1>3. m \in Record /\ MainFits(m) /\ m.state = "Removing"
  BY <1>1, <1>2, Everybody
<1>4. step' = NoStep
  BY DEF FinishRemove
<1>5. PICK s : s = RemoveDone(m)
  OBVIOUS
<1>6. PICK o : o = Succeed(s)
  OBVIOUS
<1>7. PICK c : c = Put(ctl, Main, o)
  OBVIOUS
<1>8. PICK f : f = [m EXCEPT !.error = TRUE]
  OBVIOUS
<1>9. \/ ctl' = Put(ctl, Main, f) /\ UNCHANGED filter
      \/ CanRemove(m) /\ ShowInChildren(c, s.row)
  BY <1>2, <1>5, <1>6, <1>7, <1>8 DEF FinishRemove
<1>10. ASSUME CanRemove(m), ShowInChildren(c, s.row) PROVE IInv'
  <2>1. /\ o \in Record /\ MainFits(o) /\ MainKnows(o) /\ o.state = "Visualizing"
        /\ s.row = o.row
    BY <1>3, <1>5, <1>6, <1>10, MainRemoved
  <2>2. /\ c \in [Controllers -> Record] /\ c[Main] = o
        /\ \A k \in Kids : c[k] = ctl[k]
    BY <1>7, <2>1, Everybody DEF Put
  <2>3. s.row \in RowNumbers
    BY <2>1 DEF Record
  <2>4. \A k \in Kids : Moved(ctl[k], c[k])
    BY <2>2, Everybody, MovedNot
  <2>5. /\ ctl' \in [Controllers -> Record]
        /\ ctl'[Main] = o
        /\ \A k \in Kids : Moved(ctl[k], ctl'[k])
        /\ filter' \in [Kids -> RowNumbers]
        /\ \A k \in Kids : filter'[k] = s.row
    BY <1>10, <2>2, <2>3, <2>4, ShowStep
  <2>6. ctl'[Main].row >= 0 => \A k \in Kids : filter'[k] = ctl'[Main].row
    BY <2>1, <2>5
  <2> QED BY <1>1, <1>4, <2>1, <2>5, <2>6, EndStep
<1>11. ASSUME ctl' = Put(ctl, Main, f), UNCHANGED filter PROVE IInv'
  <2>1. /\ f \in Record /\ MainFits(f) /\ f.row = m.row /\ f.state = "Removing"
        /\ MainKnows(m) => MainKnows(f)
    BY <1>3, <1>8, MainNoted
  <2>2. /\ ctl' \in [Controllers -> Record] /\ ctl'[Main] = f
        /\ \A k \in Kids : ctl'[k] = ctl[k]
    BY <1>11, <2>1, Everybody DEF Put
  <2>3. \A k \in Kids : Moved(ctl[k], ctl'[k])
    BY <2>2, Everybody, MovedNot
  <2>4. f.row >= 0 => \A k \in Kids : filter'[k] = f.row
    BY <1>2, <1>11, <2>1 DEF IInv, Follow
  <2>5. filter' \in [Kids -> RowNumbers]
    BY <1>11, Everybody
  <2> QED BY <1>1, <1>2, <1>4, <2>1, <2>2, <2>3, <2>4, <2>5, EndStep
<1> QED BY <1>9, <1>10, <1>11

-----------------------------------------------------------------------------
(* Calls of the application, and the user.                                 *)

(* submit() and remove(), by themselves and with a wait for the outcome.   *)
LEMMA CallsStep ==
  ASSUME IInv, \/ Submit \/ Remove \/ SubmitAndWait \/ RemoveAndWait
               \/ SetDataAndSubmit
  PROVE  IInv'
<1>1. waiting' \in BOOLEAN
  BY Everybody DEF Submit, Remove, SubmitAndWait, RemoveAndWait, SetDataAndSubmit
<1>2. CASE Submit
  BY <1>1, <1>2, AskedBy, SubmitStep DEF Submit
<1>3. CASE Remove
  BY <1>1, <1>3, AskedBy, RemoveStep DEF Remove
<1>4. CASE SubmitAndWait
  BY <1>1, <1>4, AskedBy, SubmitStep DEF SubmitAndWait
<1>5. CASE RemoveAndWait
  BY <1>1, <1>5, AskedBy, RemoveStep DEF RemoveAndWait
<1>6. CASE SetDataAndSubmit
  BY <1>1, <1>6, AskedBy, SubmitStep DEF SetDataAndSubmit
<1> QED BY <1>2, <1>3, <1>4, <1>5, <1>6

(* A call that waited for the outcome returns. *)
LEMMA WaitReturnsStep ==
  ASSUME IInv, WaitReturns
  PROVE  IInv'
<1>1. UNCHANGED <<ctl, filter, step>> /\ waiting' \in BOOLEAN
  BY DEF WaitReturns
<1>2. TypeOK' /\ StepFits' /\ KidsFit' /\ Follow' /\ MainFits(ctl'[Main])
  BY <1>1 DEF IInv, TypeOK, StepFits, Idle, KidsFit, Called, Follow
<1>3. ~TypesWhileBusy => MainKnows(ctl'[Main]) /\ Untyped'
  BY <1>1 DEF IInv, Untyped
<1> QED BY <1>2, <1>3 DEF IInv

(* setCurrentRow(), select() and update(): the main controller shows       *)
(* another row, or the same one again, and its children follow.            *)
LEMMA ShownStep ==
  ASSUME IInv, NEW o \in Record, MainFits(o), NEW n, n = o.row,
         ShowInChildren(Put(ctl, Main, o), n),
         UNCHANGED <<step, waiting>>,
         \/ o.state = ctl[Main].state
         \/ Idle /\ o.state \notin {"Submitting", "SubmittingNewRow"},
         ~TypesWhileBusy => MainKnows(o)
  PROVE  IInv'
<1>1. PICK c : c = Put(ctl, Main, o)
  OBVIOUS
<1>2. /\ c \in [Controllers -> Record] /\ c[Main] = o
      /\ \A k \in Kids : c[k] = ctl[k]
  BY <1>1, Everybody DEF Put
<1>3. n \in RowNumbers
  BY DEF Record
<1>4. \A k \in Kids : Moved(ctl[k], c[k])
  BY <1>2, Everybody, MovedNot
<1>5. /\ ctl' \in [Controllers -> Record]
      /\ ctl'[Main] = o
      /\ \A k \in Kids : Moved(ctl[k], ctl'[k])
      /\ filter' \in [Kids -> RowNumbers]
      /\ \A k \in Kids : filter'[k] = n
  BY <1>1, <1>2, <1>3, <1>4, ShowStep
<1>6. waiting' \in BOOLEAN
  BY Everybody
<1> QED BY <1>5, <1>6, QuietStep

(* select(). *)
LEMMA SelectStep ==
  ASSUME IInv, Select
  PROVE  IInv'
<1>1. Idle
  BY BusyStates DEF Select
<1>2. PICK m : m = ctl[Main]
  OBVIOUS
<1>3. m \in Record /\ MainFits(m)
  BY <1>2, Everybody
<1>4. UNCHANGED <<step, waiting>>
  BY DEF Select
<1>5. ASSUME NEW n \in 0 .. MaxRows, NEW s, s = SetRow(Repopulated(m, n), 0),
             ShowInChildren(Put(ctl, Main, Succeed(s)), s.row)
      PROVE  IInv'
  <2>1. PICK o : o = Succeed(s)
    OBVIOUS
  <2>2. /\ o \in Record /\ MainFits(o) /\ MainKnows(o)
        /\ o.state = "Visualizing" /\ o.row = s.row
    BY <1>3, <1>5, <2>1, MainSelected
  <2> QED BY <1>1, <1>4, <1>5, <2>1, <2>2, ShownStep
<1>6. ASSUME NEW s, s = SetRow(Repopulated(m, 0), 0),
             ShowInChildren(Put(ctl, Main, Failed(s, "Selecting")), s.row)
      PROVE  IInv'
  <2>1. PICK o : o = Failed(s, "Selecting")
    OBVIOUS
  <2>2. o \in Record /\ MainFits(o) /\ o.state = "Selecting" /\ o.row = s.row
    BY <1>3, <1>6, <2>1, RowBounds, MainSelected
  <2>3. MainKnows(o)
    BY <2>2 DEF MainKnows
  <2> QED BY <1>1, <1>4, <1>6, <2>1, <2>2, <2>3, ShownStep
<1> QED BY <1>2, <1>5, <1>6 DEF Select

(* setCurrentRow(). *)
LEMMA SetCurrentRowStep ==
  ASSUME IInv, SetCurrentRow
  PROVE  IInv'
<1>1. PICK m : m = ctl[Main]
  OBVIOUS
<1>2. m \in Record /\ MainFits(m) /\ (~TypesWhileBusy => MainKnows(m))
  BY <1>1, Everybody DEF IInv
<1>3. UNCHANGED <<step, waiting>>
  BY DEF SetCurrentRow
<1>4. m.row < 0 \/ Saved(m, TRUE)
  BY <1>1, Everybody DEF SetCurrentRow, AllSaved
<1>5. PICK n \in 0 .. MaxRows :
        /\ RowFound(m, n)
        /\ ShowInChildren(Put(ctl, Main, SetRow(m, n)), SetRow(m, n).row)
  BY <1>1 DEF SetCurrentRow
<1>6. PICK o : o = SetRow(m, n)
  OBVIOUS
<1>7. /\ o \in Record /\ MainFits(o) /\ o.state = m.state
      /\ MainKnows(m) => MainKnows(o)
  BY <1>2, <1>4, <1>5, <1>6, MainRowSet
<1> QED BY <1>1, <1>2, <1>3, <1>5, <1>6, <1>7, ShownStep

(* update(). *)
LEMMA UpdateStep ==
  ASSUME IInv, Update
  PROVE  IInv'
<1>1. PICK m : m = ctl[Main]
  OBVIOUS
<1>2. m \in Record /\ MainFits(m)
  BY <1>1, Everybody
<1>3. PICK o : o = [m EXCEPT !.typed = FALSE]
  OBVIOUS
<1>4. o \in Record /\ MainFits(o) /\ o.row = m.row /\ o.state = m.state /\ MainKnows(o)
  BY <1>2, <1>3, MainEdited
<1>5. ShowInChildren(Put(ctl, Main, o), m.row) /\ UNCHANGED <<step, waiting>>
  BY <1>1, <1>3 DEF Update
<1> QED BY <1>1, <1>4, <1>5, ShownStep

(* revertTriggered() of the main controller. *)
LEMMA RevertStep ==
  ASSUME IInv, Revert
  PROVE  IInv'
<1>1. PICK m : m = ctl[Main]
  OBVIOUS
<1>2. /\ m \in Record /\ MainFits(m) /\ m.state \in {"Editing", "EditingNewRow"}
      /\ UNCHANGED <<step, waiting>> /\ waiting' \in BOOLEAN
  BY <1>1, Everybody DEF Revert
<1>3. Idle
  BY <1>1, <1>2, BusyStates
<1>4. PICK r \in Reverted(m) :
        IF r.state # "Visualizing"
        THEN ctl' = Put(ctl, Main, r) /\ UNCHANGED filter
        ELSE \E o \in [Kids -> UNION {Reverted(ctl[k]) : k \in Kids}] :
               LET c == [x \in Controllers |-> IF x = Main THEN r ELSE o[x]]
               IN  /\ \A k \in Kids : o[k] \in Reverted(ctl[k])
                   /\ IF m.state = "Editing"
                      THEN ctl' = c /\ UNCHANGED filter
                      ELSE ShowInChildren(c, r.row)
  BY <1>1 DEF Revert
<1>5. /\ r \in Record /\ MainFits(r) /\ MainKnows(r)
      /\ r.state \in {"Editing", "EditingNewRow", "Visualizing"}
      /\ r.state # "Visualizing" \/ m.state = "Editing" => r.row = m.row
  BY <1>2, MainReverted
<1>6. CASE r.state # "Visualizing"
  <2>1. ctl' = Put(ctl, Main, r) /\ UNCHANGED filter
    BY <1>4, <1>6
  <2>2. /\ ctl' \in [Controllers -> Record] /\ ctl'[Main] = r
        /\ \A k \in Kids : ctl'[k] = ctl[k]
    BY <1>5, <2>1, Everybody DEF Put
  <2>3. \A k \in Kids : Moved(ctl[k], ctl'[k])
    BY <2>2, Everybody, MovedNot
  <2>4. r.row >= 0 => \A k \in Kids : filter'[k] = r.row
    BY <1>1, <1>5, <1>6, <2>1 DEF IInv, Follow
  <2>5. filter' \in [Kids -> RowNumbers]
    BY <2>1, Everybody
  <2> QED BY <1>2, <1>3, <1>5, <2>2, <2>3, <2>4, <2>5, QuietStep
<1>7. CASE r.state = "Visualizing"
  <2>1. PICK o \in [Kids -> UNION {Reverted(ctl[k]) : k \in Kids}] :
          /\ \A k \in Kids : o[k] \in Reverted(ctl[k])
          /\ IF m.state = "Editing"
             THEN /\ ctl' = [x \in Controllers |-> IF x = Main THEN r ELSE o[x]]
                  /\ UNCHANGED filter
             ELSE ShowInChildren([x \in Controllers |-> IF x = Main THEN r ELSE o[x]],
                                 r.row)
    BY <1>4, <1>7
  <2>2. PICK c : c = [x \in Controllers |-> IF x = Main THEN r ELSE o[x]]
    OBVIOUS
  <2>3. ASSUME NEW k \in Kids PROVE Moved(ctl[k], c[k])
    <3>1. c[k] = o[k] /\ o[k] \in Reverted(ctl[k])
      BY <2>1, <2>2, Everybody
    <3> QED BY <3>1, Everybody, ChildReverted
  <2>4. c \in [Controllers -> Record] /\ c[Main] = r
    <3>1. \A k \in Kids : c[k] \in Record
      BY <2>3 DEF Moved
    <3> QED BY <1>5, <2>2, <3>1, Everybody
  <2>5. /\ ctl' \in [Controllers -> Record] /\ ctl'[Main] = r
        /\ \A k \in Kids : Moved(ctl[k], ctl'[k])
        /\ filter' \in [Kids -> RowNumbers]
        /\ r.row >= 0 => \A k \in Kids : filter'[k] = r.row
    <3>1. CASE m.state = "Editing"
      <4>1. ctl' = c /\ UNCHANGED filter
        BY <2>1, <2>2, <3>1
      <4>2. r.row >= 0 => \A k \in Kids : filter[k] = r.row
        BY <1>1, <1>5, <3>1 DEF IInv, Follow
      <4> QED BY <2>3, <2>4, <4>1, <4>2, Everybody
    <3>2. CASE m.state # "Editing"
      <4>1. ShowInChildren(c, r.row)
        BY <2>1, <2>2, <3>2
      <4>2. r.row \in RowNumbers
        BY <1>5 DEF Record
      <4> QED BY <2>3, <2>4, <4>1, <4>2, ShowStep
    <3> QED BY <3>1, <3>2
  <2> QED BY <1>2, <1>3, <1>5, <2>5, QuietStep
<1> QED BY <1>6, <1>7

(* insert(). *)
LEMMA InsertStep ==
  ASSUME IInv, Insert
  PROVE  IInv'
<1>1. Idle /\ UNCHANGED <<step, waiting>> /\ waiting' \in BOOLEAN
  BY Everybody, BusyStates DEF Insert
<1>2. PICK r \in Inserted(ctl[Main]) :
        \E o \in [Kids -> UNION {InsertedInChild(ctl[k]) : k \in Kids}] :
          /\ \A k \in Kids : o[k] \in InsertedInChild(ctl[k])
          /\ ctl' = [x \in Controllers |-> IF x = Main THEN r ELSE o[x]]
          /\ filter' = [k \in Kids |-> r.row]
  BY DEF Insert
<1>3. PICK o \in [Kids -> UNION {InsertedInChild(ctl[k]) : k \in Kids}] :
        /\ \A k \in Kids : o[k] \in InsertedInChild(ctl[k])
        /\ ctl' = [x \in Controllers |-> IF x = Main THEN r ELSE o[x]]
        /\ filter' = [k \in Kids |-> r.row]
  BY <1>2
<1>4. ctl[Main].state = "Visualizing" /\ ctl[Main].rows < MaxRows
  BY DEF Insert
<1>5. /\ r \in Record /\ MainFits(r) /\ MainKnows(r)
      /\ r.state \in {"Visualizing", "EditingNewRow"}
  BY <1>2, <1>4, Everybody, MainInserted
<1>6. ASSUME NEW k \in Kids PROVE Moved(ctl[k], ctl'[k])
  <2>1. ctl'[k] = o[k] /\ o[k] \in InsertedInChild(ctl[k])
    BY <1>3, Everybody
  <2> QED BY <2>1, Everybody, ChildInserted
<1>7. ctl' \in [Controllers -> Record] /\ ctl'[Main] = r
  <2>1. \A k \in Kids : ctl'[k] \in Record
    BY <1>6 DEF Moved
  <2> QED BY <1>3, <1>5, <2>1, Everybody
<1>8. filter' \in [Kids -> RowNumbers] /\ \A k \in Kids : filter'[k] = r.row
  BY <1>3, <1>5 DEF Record
<1> QED BY <1>1, <1>5, <1>6, <1>7, <1>8, QuietStep

(* setData(). *)
LEMMA SetDataStep ==
  ASSUME IInv, SetData
  PROVE  IInv'
<1>1. PICK m : m = ctl[Main]
  OBVIOUS
<1>2. m \in Record /\ MainFits(m)
  BY <1>1, Everybody
<1>3. PICK o : o = WithData(m)
  OBVIOUS
<1>4. /\ o \in Record /\ MainFits(o) /\ o.row = m.row
      /\ o.state = EditedState(m) /\ MainKnows(o)
  BY <1>2, <1>3, MainEdited
<1>5. /\ ctl' = Put(ctl, Main, o)
      /\ UNCHANGED <<filter, step, waiting>> /\ waiting' \in BOOLEAN
  BY <1>1, <1>3, Everybody DEF SetData
<1>6. /\ ctl' \in [Controllers -> Record] /\ ctl'[Main] = o
      /\ \A k \in Kids : ctl'[k] = ctl[k]
  BY <1>4, <1>5, Everybody DEF Put
<1>7. \A k \in Kids : Moved(ctl[k], ctl'[k])
  BY <1>6, Everybody, MovedNot
<1>8. o.state = m.state \/ (Idle /\ o.state \notin {"Submitting", "SubmittingNewRow"})
  BY <1>1, <1>4, BusyStates DEF EditedState
<1>9. o.row >= 0 => \A k \in Kids : filter'[k] = o.row
  BY <1>1, <1>4, <1>5 DEF IInv, Follow
<1>10. filter' \in [Kids -> RowNumbers]
  BY <1>5, Everybody
<1> QED BY <1>1, <1>4, <1>5, <1>6, <1>7, <1>8, <1>9, <1>10, QuietStep

(* submitTriggered() and revertTriggered() of a child. *)
LEMMA ChildSignalStep ==
  ASSUME IInv, NEW k \in Kids, SubmitChild(k) \/ RevertChild(k)
  PROVE  IInv'
<1>1. PICK r : /\ r \in Submitted(ctl[k]) \cup Reverted(ctl[k])
               /\ ctl' = Put(ctl, k, r)
  BY DEF SubmitChild, RevertChild
<1>2. UNCHANGED <<filter, step, waiting>> /\ waiting' \in BOOLEAN
  BY Everybody DEF SubmitChild, RevertChild
<1>3. Moved(ctl[k], r)
  BY <1>1, Everybody, ChildSubmitted, ChildReverted
<1>4. r \in Record
  BY <1>3 DEF Moved
<1>5. /\ ctl' \in [Controllers -> Record] /\ ctl'[Main] = ctl[Main]
      /\ ctl'[k] = r
      /\ \A x \in Kids : x # k => ctl'[x] = ctl[x]
  BY <1>1, <1>4, Everybody DEF Put
<1>6. ASSUME NEW x \in Kids PROVE Moved(ctl[x], ctl'[x])
  BY <1>3, <1>5, Everybody, MovedNot
<1>7. /\ MainFits(ctl'[Main]) /\ (~TypesWhileBusy => MainKnows(ctl'[Main]))
      /\ filter' \in [Kids -> RowNumbers]
  BY <1>2, <1>5, Everybody DEF IInv
<1>8. ctl'[Main].row >= 0 => \A x \in Kids : filter'[x] = ctl'[Main].row
  BY <1>2, <1>5 DEF IInv, Follow
<1> QED BY <1>2, <1>5, <1>6, <1>7, <1>8, QuietStep

(* The first change of a field, of the main controller or of a child. *)
LEMMA TypeStep ==
  ASSUME IInv, NEW c \in Controllers, Type(c)
  PROVE  IInv'
<1>1. PICK m : m = ctl[Main]
  OBVIOUS
<1>2. m \in Record /\ MainFits(m)
  BY <1>1, Everybody
<1>3. PICK b \in BOOLEAN : b = (Main = c)
  OBVIOUS
<1>4. PICK o : o = [m EXCEPT !.typed = @ \/ b, !.state = EditedState(m)]
  OBVIOUS
<1>5. /\ o \in Record /\ MainFits(o) /\ o.row = m.row
      /\ o.state = EditedState(m)
      /\ m.state # "Submitting" => MainKnows(o)
  BY <1>2, <1>3, <1>4, MainEdited
<1>6. ctl'[Main] = o
  BY <1>1, <1>3, <1>4, Everybody DEF Type
<1>7. UNCHANGED <<filter, step, waiting>> /\ (TypesWhileBusy \/ Idle) /\ ctl[c].row >= 0
  BY DEF Type
<1>8. ASSUME NEW k \in Kids
      PROVE  /\ ctl'[k] \in Record /\ KidFits(ctl'[k]) /\ Rested(ctl'[k])
             /\ ctl'[k].state = "Removing" => ctl[k].state = "Removing"
             /\ ctl'[k].complete = ctl[k].complete
  <2>1. PICK r : r = ctl[k]
    OBVIOUS
  <2>2. r \in Record /\ KidFits(r) /\ Rested(r)
    BY <2>1, Everybody
  <2>3. CASE k = c
    <3>1. PICK p : p = [r EXCEPT !.typed = TRUE, !.state = EditedState(r)]
      OBVIOUS
    <3>2. ctl'[k] = [r EXCEPT !.typed = @ \/ k = c, !.state = EditedState(r)]
      BY <2>1, <2>3, Everybody DEF Type
    <3>3. ctl'[k] = p
      BY <2>3, <3>1, <3>2
    <3>4. /\ p \in Record /\ p.state = EditedState(r) /\ p.complete = r.complete
          /\ p.rows = r.rows /\ p.row = r.row /\ p.before = r.before
          /\ p.new = r.new /\ p.doomed = r.doomed /\ p.dirty = r.dirty
          /\ p.mapped = r.mapped
      BY <2>2, <3>1 DEF Record, States, EditedState
    <3>5. p.row >= 0
      BY <1>7, <2>1, <2>3, <3>4
    <3>6. KidFits(p) /\ Rested(p) /\ (p.state = "Removing" => r.state = "Removing")
      BY <2>2, <3>4, <3>5, KidBounds DEF KidFits, RowsFit, Rested, EditedState
    <3> QED BY <2>1, <3>3, <3>4, <3>6
  <2>4. CASE k # c
    <3>1. ctl'[k] = [r EXCEPT !.typed = @ \/ k = c, !.state = @]
      BY <2>1, <2>4, Everybody DEF Type
    <3>2. ctl'[k] = r
      BY <2>2, <2>4, <3>1 DEF Record
    <3> QED BY <2>1, <2>2, <3>2
  <2> QED BY <2>3, <2>4
<1>9. ctl' \in [Controllers -> Record]
  <2>1. \A x \in Controllers : ctl'[x] \in Record
    BY <1>5, <1>6, <1>8, Everybody
  <2> QED BY <2>1 DEF Type
<1>10. TypeOK'
  BY <1>7, <1>9, Everybody DEF TypeOK
<1>11. StepFits'
  BY <1>1, <1>5, <1>6, <1>7, BusyStates DEF IInv, StepFits, Idle, EditedState
<1>12. KidsFit'
  BY <1>7, <1>8 DEF IInv, KidsFit, Called
<1>13. Follow'
  BY <1>1, <1>5, <1>6, <1>7 DEF IInv, Follow
<1>14. ~TypesWhileBusy => MainKnows(ctl'[Main]) /\ Untyped'
  <2>1. Idle => step.op # "remove" /\ m.state # "Submitting"
    BY <1>1, BusyStates DEF Idle, NoStep
  <2> QED BY <1>5, <1>6, <1>7, <2>1 DEF Untyped
<1> QED BY <1>5, <1>6, <1>10, <1>11, <1>12, <1>13, <1>14 DEF IInv

-----------------------------------------------------------------------------
(* The invariant holds after start(), and every step keeps it. *)
LEMMA InitInvariant ==
  ASSUME Init
  PROVE  IInv
<1>1. Started \in Record
  BY RowBounds DEF Started, Record, States
<1>2. TypeOK
  BY <1>1, RowBounds DEF Init, TypeOK
<1>3. \A c \in Controllers : ctl[c] = Started
  BY DEF Init
<1>4. Idle
  BY DEF Init, Idle
<1>5. /\ Started.state = "Visualizing" /\ Started.row = -1 /\ Started.rows = 0
      /\ Started.before = -1 /\ ~Started.mapped /\ ~Started.typed /\ ~Started.dirty
      /\ ~Started.new /\ Started.doomed = -1 /\ Started.complete
  BY DEF Started
<1>6. ctl[Main] = Started /\ \A k \in Kids : ctl[k] = Started
  BY <1>3 DEF Controllers
<1>7. MainFits(Started) /\ MainKnows(Started)
  BY <1>5 DEF MainFits, RowsFit, Settled, MainKnows
<1>8. KidFits(Started) /\ Rested(Started)
  BY <1>5 DEF KidFits, RowsFit, Rested
<1>9. StepFits
  BY <1>4, <1>5, <1>6 DEF StepFits, Idle, NoStep
<1>10. KidsFit
  BY <1>5, <1>6, <1>8 DEF KidsFit
<1>11. Follow
  BY <1>5, <1>6 DEF Follow
<1>12. Untyped
  BY <1>5, <1>6, TableAssumption DEF Untyped, Kids
<1> QED BY <1>2, <1>6, <1>7, <1>9, <1>10, <1>11, <1>12 DEF IInv

(* Every step of the controllers keeps the invariant. *)
LEMMA NextInvariant ==
  ASSUME IInv, [Next]_vars
  PROVE  IInv'
<1>1. CASE UNCHANGED vars
  <2>1. UNCHANGED <<ctl, filter, step, waiting>>
    BY <1>1 DEF vars
  <2> QED BY <2>1 DEF IInv, TypeOK, StepFits, Idle, KidsFit, Called, Follow, Untyped
<1>2. CASE Handler
  BY <1>2, CallChildStep, ChildReturnsStep, FinishSubmitStep,
     FinishSubmitNewRowStep, FinishRemoveStep DEF Handler
<1>3. CASE WaitReturns
  BY <1>3, WaitReturnsStep
<1>4. CASE Submit \/ Remove \/ SubmitAndWait \/ RemoveAndWait \/ SetDataAndSubmit
  BY <1>4, CallsStep
<1>5. CASE Revert
  BY <1>5, RevertStep
<1>6. CASE Insert
  BY <1>6, InsertStep
<1>7. CASE Select
  BY <1>7, SelectStep
<1>8. CASE SetCurrentRow
  BY <1>8, SetCurrentRowStep
<1>9. CASE Update
  BY <1>9, UpdateStep
<1>10. CASE SetData
  BY <1>10, SetDataStep
<1>11. CASE \E c \in Controllers : Type(c)
  BY <1>11, TypeStep
<1>12. CASE \E k \in Kids : SubmitChild(k) \/ RevertChild(k)
  BY <1>12, ChildSignalStep
<1> QED BY <1>1, <1>2, <1>3, <1>4, <1>5, <1>6, <1>7, <1>8, <1>9, <1>10, <1>11, <1>12
        DEF Next

(* The invariant holds in every state. *)
LEMMA Invariant == Spec => []IInv
<1>1. Init => IInv
  BY InitInvariant
<1>2. IInv /\ [Next]_vars => IInv'
  BY NextInvariant
<1> QED BY <1>1, <1>2, PTL DEF Spec

-----------------------------------------------------------------------------
(* What the runs check, for any number of children and rows.               *)

(* Row numbers stay within the model, whatever is inserted, removed or     *)
(* selected: a current row is never beyond what setCurrentRowPv() and the  *)
(* cached removals leave.                                                  *)
THEOREM TypeCorrect == Spec => []TypeOK
<1>1. IInv => TypeOK
  BY DEF IInv
<1> QED BY <1>1, Invariant, PTL

(* The children hold the records of the row the main controller shows:     *)
(* every path that changes the current row sets the filter, and those that *)
(* fail leave both.                                                        *)
THEOREM ChildrenHoldCurrentRow == Spec => []ChildrenFollow
<1>1. IInv => ChildrenFollow
  BY DEF IInv, Follow, ChildrenFollow
<1> QED BY <1>1, Invariant, PTL

(* A row that is not in the database is the current one of a controller    *)
(* that edits a new row: revert and submit find it where they look.        *)
THEOREM NewRowsAreCurrent == Spec => []NewRowIsCurrent
<1>1. ASSUME IInv PROVE NewRowIsCurrent
  <2> SUFFICES ASSUME NEW c \in Controllers, ctl[c].new
               PROVE  ctl[c].state = "EditingNewRow" /\ ctl[c].row = ctl[c].rows - 1
    BY DEF NewRowIsCurrent
  <2>1. RowsFit(ctl[c])
    BY <1>1, Everybody DEF MainFits, KidFits
  <2> QED BY <2>1 DEF RowsFit
<1> QED BY <1>1, Invariant, PTL

(* While a submit of the main controller waits for a child, the child is   *)
(* in a state where the user can submit it again or revert it.             *)
THEOREM BlockedSubmitsCanEnd == Spec => []BlockedSubmitCanEnd
<1>1. ASSUME IInv PROVE BlockedSubmitCanEnd
  <2> SUFFICES ASSUME step.at = "wait", step.op # "remove", ~ctl[Called].complete
               PROVE  ctl[Called].state \in {"Editing", "EditingNewRow"}
    BY DEF BlockedSubmitCanEnd
  <2>1. Called \in Kids
    BY <1>1 DEF IInv, StepFits, Called, Kids
  <2>2. ctl[Called].state \in {"Visualizing", "Editing", "EditingNewRow", "Removing"}
    BY <1>1, <2>1, Everybody DEF KidFits
  <2>3. ctl[Called].state # "Visualizing"
    BY <1>1, <2>1, Everybody DEF Rested
  <2>4. ctl[Called].state # "Removing"
    BY <1>1, <2>1 DEF IInv, KidsFit
  <2> QED BY <2>2, <2>3, <2>4
<1> QED BY <1>1, Invariant, PTL

(* When allDataAreSaved(), asked of an idle main controller with a current *)
(* row, finds everything saved, no widget and no cache holds a change,     *)
(* provided nobody edits a record while that controller waits for a child. *)
THEOREM SavedIsSaved ==
  ASSUME ~TypesWhileBusy
  PROVE  Spec => []SavedMeansSaved
<1>1. ASSUME IInv PROVE SavedMeansSaved
  <2> SUFFICES ASSUME Idle, ctl[Main].row >= 0, AllSaved(TRUE), NEW c \in Controllers
               PROVE  ~ctl[c].typed /\ ~ctl[c].dirty /\ ~ctl[c].new
    BY DEF SavedMeansSaved
  <2>1. PICK r : r = ctl[c]
    OBVIOUS
  <2>2. r.row < 0 \/ (r.state \in {"Visualizing", "Selecting"} /\ Clean(r))
    <3>1. ctl[Main] \in Record
      BY <1>1, Everybody
    <3>2. ~(ctl[Main].row < 0)
      BY <3>1 DEF Record, RowNumbers
    <3> QED BY <2>1, <3>2 DEF AllSaved, Saved
  <2>3. CASE c \in Kids
    <3>1. r \in Record /\ KidFits(r)
      BY <1>1, <2>1, <2>3, Everybody
    <3> QED BY <2>1, <2>2, <3>1 DEF KidFits, RowsFit, Clean
  <2>4. CASE c = Main
    <3>1. r \in Record /\ MainFits(r) /\ MainKnows(r) /\ r.row >= 0
      BY <1>1, <2>1, <2>4, Everybody DEF IInv
    <3>2. r.state = "Visualizing" /\ Clean(r)
      BY <2>2, <3>1 DEF MainFits, Record, RowNumbers
    <3> QED BY <2>1, <3>1, <3>2 DEF MainKnows, Clean
  <2> QED BY <1>1, <2>3, <2>4, Everybody
<1> QED BY <1>1, Invariant, PTL

-----------------------------------------------------------------------------
(* EditsKeepTheirRow: what each step does to the filter of a child in      *)
(* which the user has typed.                                               *)

(* A step of the handlers, or of an application that waits, that leaves    *)
(* the current row of the main controller alone leaves the filters alone.  *)
KeepsFilter == \/ ctl[Main].row < 0
               \/ ctl[Main].state = "EditingNewRow"
               \/ \A k \in Kids : ctl[k].typed => filter'[k] = filter[k]

(* When allDataAreSaved() finds everything saved nothing is typed in the   *)
(* children: even without a look at the caches.                            *)
LEMMA SavedChildren ==
  ASSUME IInv, NEW checkDirty \in BOOLEAN, AllSaved(checkDirty), ctl[Main].row >= 0
  PROVE  \A k \in Kids : ~ctl[k].typed
<1> SUFFICES ASSUME NEW k \in Kids PROVE ~ctl[k].typed
  OBVIOUS
<1>1. ctl[k].row < 0 \/ ctl[k].state \in {"Visualizing", "Selecting"}
  <2>1. ~(ctl[Main].row < 0)
    BY Everybody DEF Record, RowNumbers
  <2> QED BY <2>1, Everybody DEF AllSaved, Saved
<1>2. KidFits(ctl[k])
  BY Everybody
<1> QED BY <1>1, <1>2 DEF KidFits

(* The filter of each child is set to the row the main controller shows    *)
(* already.                                                                *)
LEMMA SameFilter ==
  ASSUME IInv, NEW c, NEW n, ShowInChildren(c, n), n = ctl[Main].row
  PROVE  KeepsFilter
<1>1. \A k \in Kids : filter'[k] = n
  BY DEF ShowInChildren
<1>2. ctl[Main].row >= 0 \/ ctl[Main].row < 0
  BY Everybody DEF Record, RowNumbers
<1>3. ctl[Main].row >= 0 => \A k \in Kids : filter[k] = ctl[Main].row
  BY DEF IInv, Follow
<1> QED BY <1>1, <1>2, <1>3 DEF KeepsFilter

(* The steps of the handlers. *)
LEMMA HandlerKeepsFilter ==
  ASSUME IInv, ~TypesWhileBusy, Handler
  PROVE  KeepsFilter
<1>0. ctl[Main] \in Record /\ MainFits(ctl[Main])
  BY Everybody
<1>1. CASE CallChild \/ FinishSubmit
  BY <1>1 DEF CallChild, FinishSubmit, KeepsFilter
<1>2. CASE ChildReturns
  <2>1. \/ UNCHANGED filter
        \/ filter' = Put(filter, Called, ctl[Main].row)
    BY <1>2 DEF ChildReturns
  <2>2. ctl[Main].row >= 0 \/ ctl[Main].row < 0
    BY <1>0 DEF Record, RowNumbers
  <2>3. ctl[Main].row >= 0 => \A k \in Kids : filter[k] = ctl[Main].row
    BY DEF IInv, Follow
  <2>4. ASSUME filter' = Put(filter, Called, ctl[Main].row), NEW k \in Kids
        PROVE  filter'[k] = filter[k] \/ filter'[k] = ctl[Main].row
    BY <2>4, Everybody DEF Put
  <2> QED BY <2>1, <2>2, <2>3, <2>4 DEF KeepsFilter
<1>3. CASE FinishSubmitNewRow
  <2>1. ctl[Main].state = "SubmittingNewRow"
    BY <1>3, AllHaveReturned DEF FinishSubmitNewRow, Ops, BusyState
  <2>2. PICK m : m = ctl[Main]
    OBVIOUS
  <2>3. PICK c : c = Put(ctl, Main, Succeed(SetRow(m, m.row)))
    OBVIOUS
  <2>4. \/ UNCHANGED filter
        \/ RowFound(m, m.row) /\ ShowInChildren(c, SetRow(m, m.row).row)
    BY <1>3, <2>2, <2>3 DEF FinishSubmitNewRow
  <2>5. RowFound(m, m.row) => SetRow(m, m.row).row = m.row
    BY <1>0, <2>1, <2>2, MainNewRowShown
  <2>6. CASE UNCHANGED filter
    BY <2>6 DEF KeepsFilter
  <2>7. CASE RowFound(m, m.row) /\ ShowInChildren(c, SetRow(m, m.row).row)
    BY <2>2, <2>5, <2>7, SameFilter
  <2> QED BY <2>4, <2>6, <2>7
<1>4. CASE FinishRemove
  <2>1. /\ ~Idle /\ step.op = "remove" /\ step.child > Len(Children)
    BY <1>4 DEF FinishRemove, AllReturned, Idle, NoStep
  <2>2. \A i \in DOMAIN Children : ~ctl[Children[i]].typed
    <3> SUFFICES ASSUME NEW i \in DOMAIN Children PROVE ~ctl[Children[i]].typed
      OBVIOUS
    <3>1. i < step.child
      BY <2>1, StepBounds
    <3> QED BY <2>1, <3>1 DEF IInv, Untyped
  <2>3. \A k \in Kids : ~ctl[k].typed
    BY <2>2 DEF Kids
  <2> QED BY <2>3 DEF KeepsFilter
<1> QED BY <1>1, <1>2, <1>3, <1>4 DEF Handler

(* The calls of the application. *)
LEMMA CallsKeepFilter ==
  ASSUME IInv, \/ Submit \/ Remove \/ SubmitAndWait \/ RemoveAndWait
               \/ SetDataAndSubmit \/ WaitReturns \/ SetData
  PROVE  KeepsFilter
<1>1. ASSUME NEW c, SubmitTriggered(c) PROVE UNCHANGED filter
  BY <1>1 DEF SubmitTriggered, EndsAt, Begin
<1>2. ASSUME NEW c, RemoveTriggered(c) PROVE UNCHANGED filter
  BY <1>2 DEF RemoveTriggered, EndsAt, Begin
<1>3. UNCHANGED filter
  BY <1>1, <1>2 DEF Submit, Remove, SubmitAndWait, RemoveAndWait, SetDataAndSubmit,
                    WaitReturns, SetData
<1> QED BY <1>3 DEF KeepsFilter

(* The calls that change the current row, or show it again. *)
LEMMA RowChangesKeepFilter ==
  ASSUME IInv, Revert \/ Insert \/ Select \/ SetCurrentRow \/ Update
  PROVE  KeepsFilter
<1>0. ctl[Main].row >= 0 \/ ctl[Main].row < 0
  BY Everybody DEF Record, RowNumbers
<1>1. CASE Insert \/ Select \/ SetCurrentRow
  <2>1. \E checkDirty \in BOOLEAN : AllSaved(checkDirty)
    BY <1>1 DEF Insert, Select, SetCurrentRow
  <2> QED BY <1>0, <2>1, SavedChildren DEF KeepsFilter
<1>2. CASE Update
  <2>1. PICK c : ShowInChildren(c, ctl[Main].row)
    BY <1>2 DEF Update
  <2> QED BY <2>1, SameFilter
<1>3. CASE Revert
  BY <1>3 DEF Revert, KeepsFilter
<1> QED BY <1>1, <1>2, <1>3

(* Every step. *)
LEMMA StepsKeepFilter ==
  ASSUME IInv, ~TypesWhileBusy, [Next]_vars
  PROVE  KeepsFilter
<1>1. CASE UNCHANGED vars
  BY <1>1 DEF vars, KeepsFilter
<1>2. CASE \/ \E c \in Controllers : Type(c)
           \/ \E k \in Kids : SubmitChild(k) \/ RevertChild(k)
  BY <1>2 DEF Type, SubmitChild, RevertChild, KeepsFilter
<1> QED BY <1>1, <1>2, HandlerKeepsFilter, CallsKeepFilter, RowChangesKeepFilter DEF Next

(* While the user edits the record of a child, its filter is not moved to  *)
(* another row, unless a new row of the main table is given up: the main   *)
(* controller changes its row only where allDataAreSaved() said that the   *)
(* children have nothing to lose, or after it has removed their records.   *)
(* That nobody edits a record while the main controller waits for a child  *)
(* is needed: what is typed while another child is removed is lost.        *)
THEOREM EditsKept ==
  ASSUME ~TypesWhileBusy
  PROVE  Spec => EditsKeepTheirRow
<1>1. ASSUME IInv, [Next]_vars
      PROVE  [\A k \in Kids :
                ctl[k].typed /\ filter'[k] # filter[k]
                  => ctl[Main].row < 0 \/ ctl[Main].state = "EditingNewRow"]_vars
  BY <1>1, StepsKeepFilter DEF KeepsFilter
<1> QED BY <1>1, Invariant, PTL DEF Spec, EditsKeepTheirRow
=============================================================================
