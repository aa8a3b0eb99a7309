----------------------------- MODULE QueueLemmas ----------------------------
(***************************************************************************)
(* What the operations of QQueue<mdtFrame*> do to the set of frames in a   *)
(* queue, and that they never put a frame twice in it.                     *)
(***************************************************************************)
EXTENDS FrameQueues, TLAPS

(* enqueue() adds one frame; a frame that was not in the queue is in it    *)
(* once.                                                                   *)
LEMMA Enqueue ==
  ASSUME NEW S, NEW q \in Seq(S), NEW e \in S
  PROVE  /\ Append(q, e) \in Seq(S)
         /\ Range(Append(q, e)) = Range(q) \cup {e}
         /\ IsInjective(q) /\ e \notin Range(q) => IsInjective(Append(q, e))
<1> DEFINE r == Append(q, e)
<1>1. /\ r \in Seq(S) /\ Len(r) = Len(q) + 1
      /\ \A i \in 1 .. Len(q) : r[i] = q[i]
      /\ r[Len(q) + 1] = e
  OBVIOUS
<1>2. /\ DOMAIN r = 1 .. Len(q) + 1
      /\ DOMAIN q = 1 .. Len(q)
      /\ Len(q) \in Nat
  BY <1>1
<1> HIDE DEF r
<1>3. Range(r) = Range(q) \cup {e}
  <2>1. Range(r) \subseteq Range(q) \cup {e}
    BY <1>1, <1>2 DEF Range
  <2>2. Range(q) \cup {e} \subseteq Range(r)
    BY <1>1, <1>2 DEF Range
  <2> QED BY <2>1, <2>2
<1>4. ASSUME IsInjective(q), e \notin Range(q)
      PROVE  IsInjective(r)
  <2> SUFFICES ASSUME NEW a \in DOMAIN r, NEW b \in DOMAIN r, r[a] = r[b]
               PROVE  a = b
    BY DEF IsInjective
  <2>1. CASE a \in 1 .. Len(q) /\ b \in 1 .. Len(q)
    BY <1>1, <1>2, <1>4, <2>1 DEF IsInjective
  <2>2. CASE a = Len(q) + 1 /\ b \in 1 .. Len(q)
    BY <1>1, <1>2, <1>4, <2>2 DEF Range
  <2>3. CASE a \in 1 .. Len(q) /\ b = Len(q) + 1
    BY <1>1, <1>2, <1>4, <2>3 DEF Range
  <2> QED BY <1>2, <2>1, <2>2, <2>3
<1> QED BY <1>1, <1>3, <1>4 DEF r

(* dequeue() on a queue that is not empty removes its head, and with no    *)
(* frame twice in the queue, that frame is no longer in it.                *)
LEMMA Dequeue ==
  ASSUME NEW S, NEW q \in Seq(S), q # <<>>
  PROVE  /\ Head(q) \in S
         /\ Tail(q) \in Seq(S)
         /\ Range(q) = {Head(q)} \cup Range(Tail(q))
         /\ IsInjective(q) => /\ IsInjective(Tail(q))
                              /\ Head(q) \notin Range(Tail(q))
<1> DEFINE h == Head(q)
           t == Tail(q)
<1>1. /\ h \in S /\ h = q[1]
      /\ t \in Seq(S) /\ Len(t) = Len(q) - 1
      /\ \A i \in 1 .. Len(t) : t[i] = q[i + 1]
      /\ Len(q) \in Nat \ {0}
  OBVIOUS
<1>2. DOMAIN t = 1 .. Len(q) - 1 /\ DOMAIN q = 1 .. Len(q)
  BY <1>1
<1> HIDE DEF h, t
<1>3. Range(q) = {h} \cup Range(t)
  <2>1. Range(q) \subseteq {h} \cup Range(t)
    <3> SUFFICES ASSUME NEW i \in 1 .. Len(q), i # 1
                 PROVE  q[i] \in Range(t)
      BY <1>1, <1>2 DEF Range
    <3>1. i - 1 \in 1 .. Len(q) - 1 /\ t[i - 1] = q[(i - 1) + 1] /\ (i - 1) + 1 = i
      BY <1>1
    <3> QED BY <3>1, <1>2 DEF Range
  <2>2. h \in Range(q)
    BY <1>1, <1>2 DEF Range
  <2>3. ASSUME NEW i \in 1 .. Len(q) - 1
        PROVE  t[i] \in Range(q)
    <3>1. i + 1 \in 1 .. Len(q) /\ t[i] = q[i + 1]
      BY <1>1, <2>3
    <3> QED BY <3>1, <1>2 DEF Range
  <2>4. Range(t) \subseteq Range(q)
    BY <2>3, <1>2 DEF Range
  <2> QED BY <2>1, <2>2, <2>4
<1>4. ASSUME IsInjective(q)
      PROVE  IsInjective(t) /\ h \notin Range(t)
  <2>1. ASSUME NEW a \in DOMAIN t, NEW b \in DOMAIN t, t[a] = t[b]
        PROVE  a = b
    <3>1. /\ a \in Int /\ b \in Int
          /\ a + 1 \in DOMAIN q /\ b + 1 \in DOMAIN q
          /\ q[a + 1] = q[b + 1]
      BY <1>1, <1>2, <2>1
    <3>2. a + 1 = b + 1
      BY <3>1, <1>4 DEF IsInjective
    <3> QED BY <3>1, <3>2
  <2>2. ASSUME NEW a \in DOMAIN t, t[a] = h
        PROVE  FALSE
    <3>1. /\ a \in Int /\ a >= 1
          /\ a + 1 \in DOMAIN q /\ 1 \in DOMAIN q
          /\ q[a + 1] = q[1]
      BY <1>1, <1>2, <2>2
    <3>2. a + 1 = 1
      BY <3>1, <1>4 DEF IsInjective
    <3> QED BY <3>1, <3>2
  <2>3. IsInjective(t)
    BY <2>1 DEF IsInjective
  <2>4. h \notin Range(t)
    BY <2>2 DEF Range
  <2> QED BY <2>3, <2>4
<1> QED BY <1>1, <1>3, <1>4 DEF h, t

(* Moving a whole queue behind another one, as the flush functions do.     *)
LEMMA MoveAll ==
  ASSUME NEW S, NEW p \in Seq(S), NEW q \in Seq(S)
  PROVE  /\ p \o q \in Seq(S)
         /\ Range(p \o q) = Range(p) \cup Range(q)
         /\ /\ IsInjective(p) /\ IsInjective(q)
            /\ Range(p) \cap Range(q) = {}
            => IsInjective(p \o q)
<1> DEFINE r == p \o q
<1>1. /\ r \in Seq(S) /\ Len(r) = Len(p) + Len(q)
      /\ \A i \in 1 .. Len(p) : r[i] = p[i]
      /\ \A i \in Len(p) + 1 .. Len(p) + Len(q) : r[i] = q[i - Len(p)]
      /\ Len(p) \in Nat /\ Len(q) \in Nat
  OBVIOUS
<1>2. /\ DOMAIN r = 1 .. Len(p) + Len(q)
      /\ DOMAIN p = 1 .. Len(p)
      /\ DOMAIN q = 1 .. Len(q)
  BY <1>1
<1> HIDE DEF r
<1>3. ASSUME NEW i \in 1 .. Len(q)
      PROVE  Len(p) + i \in DOMAIN r /\ r[Len(p) + i] = q[i]
  <2>1. Len(p) + i \in Len(p) + 1 .. Len(p) + Len(q) /\ (Len(p) + i) - Len(p) = i
    BY <1>1
  <2>2. r[Len(p) + i] = q[(Len(p) + i) - Len(p)]
    BY <1>1, <2>1
  <2> QED BY <1>1, <1>2, <2>1, <2>2
<1>4. ASSUME NEW i \in DOMAIN r, i \notin 1 .. Len(p)
      PROVE  i - Len(p) \in DOMAIN q /\ r[i] = q[i - Len(p)]
  <2>1. i \in Len(p) + 1 .. Len(p) + Len(q)
    BY <1>1, <1>2, <1>4
  <2> QED BY <1>1, <1>2, <2>1
<1>5. Range(r) = Range(p) \cup Range(q)
  <2>1. Range(p) \subseteq Range(r)
    BY <1>1, <1>2 DEF Range
  <2>2. Range(q) \subseteq Range(r)
    BY <1>2, <1>3 DEF Range
  <2>3. Range(r) \subseteq Range(p) \cup Range(q)
    BY <1>1, <1>2, <1>4 DEF Range
  <2> QED BY <2>1, <2>2, <2>3
<1>6. ASSUME IsInjective(p), IsInjective(q), Range(p) \cap Range(q) = {},
             NEW a \in DOMAIN r, NEW b \in DOMAIN r, r[a] = r[b]
      PROVE  a = b
  <2>1. CASE a \in 1 .. Len(p) /\ b \in 1 .. Len(p)
    BY <1>1, <1>2, <1>6, <2>1 DEF IsInjective
  <2>2. CASE a \in 1 .. Len(p) /\ b \notin 1 .. Len(p)
    BY <1>1, <1>2, <1>4, <1>6, <2>2 DEF Range
  <2>3. CASE a \notin 1 .. Len(p) /\ b \in 1 .. Len(p)
    BY <1>1, <1>2, <1>4, <1>6, <2>3 DEF Range
  <2>4. CASE a \notin 1 .. Len(p) /\ b \notin 1 .. Len(p)
    <3>1. a - Len(p) = b - Len(p)
      BY <1>4, <1>6, <2>4 DEF IsInjective
    <3> QED BY <3>1, <1>1, <1>2
  <2> QED BY <2>1, <2>2, <2>3, <2>4
<1>7. /\ IsInjective(p) /\ IsInjective(q) /\ Range(p) \cap Range(q) = {}
      => IsInjective(r)
  BY <1>6 DEF IsInjective
<1> QED BY <1>1, <1>5, <1>7 DEF r

-----------------------------------------------------------------------------
(* The moves of one frame, or of a whole queue, keep the partition.        *)

(* As allocated by initQueues(): all frames in the pool, once. *)
LEMMA PartitionInit ==
  ASSUME NEW F, NEW p \in Seq(F), IsInjective(p), F = Range(p)
  PROVE  Partition(F, p, <<>>, {})
<1>1. IsInjective(<<>>) /\ Range(<<>>) = {}
  BY DEF IsInjective, Range
<1> QED BY <1>1 DEF Partition

(* Taking a frame from the head of a queue to hold it. *)
LEMMA PartitionTake ==
  ASSUME NEW F, NEW p \in Seq(F), NEW q, NEW H, Partition(F, p, q, H), p # <<>>
  PROVE  /\ Partition(F, Tail(p), q, H \cup {Head(p)})
         /\ Head(p) \in F \ H
  BY Dequeue DEF Partition

(* Partition does not tell its queues apart. *)
LEMMA PartitionSwap ==
  ASSUME NEW F, NEW p, NEW q, NEW H, Partition(F, p, q, H)
  PROVE  Partition(F, q, p, H)
  BY DEF Partition

(* Putting a held frame at the end of a queue. *)
LEMMA PartitionGive ==
  ASSUME NEW F, NEW p \in Seq(F), NEW q, NEW H, Partition(F, p, q, H),
         NEW c \in F \cap H
  PROVE  Partition(F, Append(p, c), q, H \ {c})
  BY Enqueue DEF Partition

(* Moving all frames of a queue behind the other queue. *)
LEMMA PartitionMoveAll ==
  ASSUME NEW F, NEW p \in Seq(F), NEW q \in Seq(F), NEW H, Partition(F, p, q, H)
  PROVE  Partition(F, p \o q, <<>>, H)
<1>1. Range(p) \subseteq F /\ Range(q) \subseteq F
  BY DEF Range
<1>2. Range(p) \cap Range(q) = {}
  BY <1>1 DEF Partition
<1>3. IsInjective(<<>>) /\ Range(<<>>) = {}
  BY DEF IsInjective, Range
<1> QED BY <1>2, <1>3, MoveAll DEF Partition

(* Moving the head of a queue to the end of the other one. *)
LEMMA PartitionMoveOne ==
  ASSUME NEW F, NEW p \in Seq(F), NEW q \in Seq(F), NEW H, Partition(F, p, q, H),
         q # <<>>
  PROVE  Partition(F, Append(p, Head(q)), Tail(q), H)
<1>1. Partition(F, q, p, H)
  BY PartitionSwap
<1>2. /\ Partition(F, Tail(q), p, H \cup {Head(q)})
      /\ Head(q) \in F \ H
  BY <1>1, PartitionTake
<1>3. Partition(F, p, Tail(q), H \cup {Head(q)})
  BY <1>2, PartitionSwap
<1>4. Partition(F, Append(p, Head(q)), Tail(q), (H \cup {Head(q)}) \ {Head(q)})
  BY <1>2, <1>3, PartitionGive
<1>5. (H \cup {Head(q)}) \ {Head(q)} = H
  BY <1>2
<1> QED BY <1>4, <1>5
=============================================================================
