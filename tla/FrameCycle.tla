----------------------------- MODULE FrameCycle -----------------------------
(***************************************************************************)
(* What an I/O port promises about its frames: a frame allocated by        *)
(* mdtAbstractPort::initQueues() is, at any time, in exactly one place,    *)
(* and only moves along the links of its circuit (pool, thread, queue,     *)
(* pool ...).  The read and the write side of a port are two instances,    *)
(* with different circuits.                                                *)
(*                                                                         *)
(* The promise ends when two threads touch a queue at the same time        *)
(* (broken): QQueue is not thread safe, so nothing can be said after that. *)
(***************************************************************************)
CONSTANTS Frames,  (* the frames of one side of the port                   *)
          Places,  (* where a frame can be                                 *)
          Holders, (* the places that hold at most one frame               *)
          Moves,   (* pairs of places: the links of the circuit            *)
          Home     (* the place frames are allocated in: the pool, which   *)
                   (* is no holder                                         *)

VARIABLES place, broken

vars == <<place, broken>>

Init == /\ place = [f \in Frames |-> Home]
        /\ broken = FALSE

(* Frames that are not in the same place before and after the step follow  *)
(* a link, and no holder gets a second frame.                              *)
Circulate ==
  /\ place' \in [Frames -> Places]
  /\ \A f \in Frames : place'[f] # place[f] => <<place[f], place'[f]>> \in Moves
  /\ \A f, g \in Frames : place'[f] = place'[g] /\ place'[f] \in Holders => f = g

Next == /\ broken => broken'
        /\ broken' \/ Circulate

Spec == Init /\ [][Next]_vars
=============================================================================
