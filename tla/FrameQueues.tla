----------------------------- MODULE FrameQueues ----------------------------
(***************************************************************************)
(* The queues of frames of mdtAbstractPort: pointers to frames allocated   *)
(* by initQueues(), that only their owners free.                           *)
(***************************************************************************)
EXTENDS Integers, Sequences, Functions

(* Every frame of F is in exactly one of the two queues, once, or held by  *)
(* a thread.                                                               *)
Partition(F, pool, queue, held) ==
  /\ IsInjective(pool)
  /\ IsInjective(queue)
  /\ \A f \in F : /\ ~(f \in Range(pool) /\ f \in Range(queue))
                  /\ f \in held <=> f \notin Range(pool) /\ f \notin Range(queue)
=============================================================================
