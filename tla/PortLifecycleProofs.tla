------------------------- MODULE PortLifecycleProofs -------------------------
(***************************************************************************)
(* Proofs about the life of a port's threads, for any number of threads.   *)
(***************************************************************************)
EXTENDS PortLifecycle, FiniteSetTheorems, TLAPS

(* Events a thread posts only once all threads have begun.                 *)
Late(event) == \/ event.type = "finished"
               \/ event.type = "error" /\ event.error \in EndingErrors

PendingReady(t) == \E i \in DOMAIN events : events[i] = Ready(t)
PendingFinished(t) == \E i \in DOMAIN events : events[i] = Finished(t)

(* The order of the posted events: no thread becomes ready after a late    *)
(* event, ready() and finished() are posted once, and an error comes from  *)
(* a thread that lives, or before its finished().                          *)
ReadyFirst ==
  /\ \A i, j \in DOMAIN events : i < j /\ Late(events[i]) => events[j].type # "ready"
  /\ \A i \in DOMAIN events : Late(events[i]) => \A t \in Threads : life[t] # "Started"
  /\ \A t, u \in Threads : life[t] = "Leaving" => life[u] # "Started"

PostedOnce ==
  \A i, j \in DOMAIN events : i < j /\ events[i].type # "error" => events[i] # events[j]

ErrorsOfLiving ==
  \A i \in DOMAIN events :
    events[i].type = "error" =>
      \/ life[events[i].thread] \in {"Running", "Leaving"}
      \/ \E j \in DOMAIN events : i < j /\ events[j] = Finished(events[i].thread)

(* What the manager knows or will be told of a thread agrees with its life. *)
LedgerOf(t) ==
  /\ t \in threadsReady => ~PendingReady(t)
  /\ life[t] = "Started" => t \notin threadsReady /\ ~PendingReady(t) /\ ~PendingFinished(t)
  /\ life[t] \in {"Running", "Leaving"} =>
       (t \in threadsReady \/ PendingReady(t)) /\ ~PendingFinished(t)
  /\ life[t] = "Off" => PendingFinished(t) \/ (t \notin threadsReady /\ ~PendingReady(t))
  /\ PendingFinished(t) => t \in threadsReady \/ PendingReady(t)

Ledger == \A t \in Threads : LedgerOf(t)

(* What each state of the manager says of the threads.                     *)
Phase ==
  /\ state \in {"Stopped", "PortClosed"} =>
       threadsReady = {} /\ events = <<>> /\ \A t \in Threads : life[t] = "Off"
  /\ state = "Starting" =>
       /\ threadsReady # Threads
       /\ \A t \in Threads : t \in threadsReady \/ PendingReady(t) \/ life[t] = "Started"
  /\ state \in RunningStates \cup {"Stopping"} =>
       \A t \in Threads : life[t] # "Started" /\ ~PendingReady(t)
  /\ stopping # <<>> => state = "Stopping"

(* The inductive invariant. *)
IInv == TypeOK /\ ReadyFirst /\ PostedOnce /\ ErrorsOfLiving /\ Ledger /\ Phase

-----------------------------------------------------------------------------
(* Posting an event at the end of a queue. *)
LEMMA Post ==
  ASSUME NEW S, NEW q \in Seq(S), NEW e \in S
  PROVE  /\ Append(q, e) \in Seq(S)
         /\ Len(Append(q, e)) = Len(q) + 1
         /\ DOMAIN Append(q, e) = 1 .. Len(q) + 1
         /\ DOMAIN q = 1 .. Len(q)
         /\ Len(q) \in Nat
         /\ Append(q, e)[Len(q) + 1] = e
         /\ \A i \in DOMAIN q : Append(q, e)[i] = q[i]
OBVIOUS

(* Taking the event at the head of a queue. *)
LEMMA Take ==
  ASSUME NEW S, NEW q \in Seq(S), q # <<>>
  PROVE  /\ Tail(q) \in Seq(S)
         /\ Head(q) \in S
         /\ Head(q) = q[1]
         /\ 1 \in DOMAIN q
         /\ DOMAIN q = 1 .. Len(q)
         /\ DOMAIN Tail(q) = 1 .. Len(q) - 1
         /\ Len(q) \in Nat
         /\ \A i \in DOMAIN Tail(q) : i + 1 \in DOMAIN q /\ Tail(q)[i] = q[i + 1]
OBVIOUS

(* The state machine stays within its states, and the threads are told to  *)
(* stop in the order they were added.                                      *)
LEMMA EmitType ==
  ASSUME TypeOK, NEW event, Emit(event)
  PROVE  state' \in ManagerStates /\ stopping' \in Seq(Threads)
BY LifecycleAssumption DEF TypeOK, Emit, React, ManagerStates, RunningStates

(* A call that returns leaves the calls below it. *)
LEMMA ReturnType ==
  ASSUME calls \in Seq({"start", "stop"}), Top # "none", Return
  PROVE  calls' \in Seq({"start", "stop"})
<1>1. Len(calls) - 1 \in Nat
  BY DEF Top
<1> QED BY <1>1 DEF Return

(* Every step keeps the types. *)
LEMMA TypeKept ==
  ASSUME TypeOK, [Next]_vars
  PROVE  TypeOK'
<1> USE DEF TypeOK
<1>1. ASSUME NEW t \in Threads, Begin(t)
      PROVE  TypeOK'
  <2>1. Ready(t) \in Events
    BY DEF Events
  <2>2. events' \in Seq(Events)
    BY <1>1, <2>1, Post DEF Begin
  <2> QED BY <1>1, <2>2 DEF Begin, managers, Lives
<1>2. ASSUME NEW t \in Threads, Report(t)
      PROVE  TypeOK'
  <2>1. PICK e \in PassingErrors : Notify(t, e)
    BY <1>2 DEF Report
  <2>2. Error(t, e) \in Events /\ e \in Errors
    BY DEF Events, Errors
  <2>3. events' \in Seq(Events)
    BY <2>1, <2>2, Post DEF Notify
  <2> QED BY <1>2, <2>1, <2>2, <2>3 DEF Report, Notify, managers
<1>3. ASSUME NEW t \in Threads, Fail(t)
      PROVE  TypeOK'
  <2>1. PICK e \in EndingErrors : Notify(t, e)
    BY <1>3 DEF Fail
  <2>2. Error(t, e) \in Events /\ e \in Errors
    BY DEF Events, Errors
  <2>3. events' \in Seq(Events)
    BY <2>1, <2>2, Post DEF Notify
  <2> QED BY <1>3, <2>1, <2>2, <2>3 DEF Fail, Notify, managers, Lives
<1>4. ASSUME NEW t \in Threads, End(t)
      PROVE  TypeOK'
  <2>1. Finished(t) \in Events
    BY DEF Events
  <2>2. events' \in Seq(Events)
    BY <1>4, <2>1, Post DEF End
  <2> QED BY <1>4, <2>2 DEF End, managers, Lives
<1>5. CASE Start
  <2>1. state' \in ManagerStates /\ stopping' \in Seq(Threads)
    BY <1>5, EmitType DEF Start
  <2>2. calls' \in Seq({"start", "stop"})
    BY <1>5 DEF Start
  <2> QED BY <1>5, <2>1, <2>2 DEF Start, Lives, Errors, EndingErrors
<1>6. CASE StartReturns
  <2>1. calls' \in Seq({"start", "stop"})
    BY <1>6, ReturnType DEF StartReturns
  <2> QED BY <1>6, <2>1 DEF StartReturns, threads
<1>7. CASE StartFails
  BY <1>7 DEF StartFails, Top, threads
<1>8. CASE Stop
  <2>1. state' \in ManagerStates /\ stopping' \in Seq(Threads)
    BY <1>8, EmitType DEF Stop
  <2> QED BY <1>8, <2>1 DEF Stop, threads
<1>9. CASE StopReturns
  <2>1. state' \in ManagerStates /\ stopping' \in Seq(Threads)
    BY <1>9, EmitType DEF StopReturns
  <2>2. calls' \in Seq({"start", "stop"})
    BY <1>9, ReturnType DEF StopReturns
  <2> QED BY <1>9, <2>1, <2>2 DEF StopReturns, threads
<1>10. CASE StopThread
  <2>1. Head(stopping) \in Threads /\ stopping' \in Seq(Threads)
    BY <1>10, Take DEF StopThread
  <2>2. life' \in [Threads -> Lives] /\ currentError' \in [Threads -> Errors]
    BY <1>10, <2>1 DEF StopThread, threads, Lives, Errors, EndingErrors
  <2> QED BY <1>10, <2>1, <2>2 DEF StopThread
<1>11. CASE Deliver
  <2>1. Head(events) \in Events /\ events' \in Seq(Events)
    BY <1>11, Take DEF Deliver
  <2>2. Head(events).thread \in Threads
    BY <2>1 DEF Events, Ready, Finished, Error
  <2>3. /\ state' \in ManagerStates /\ stopping' \in Seq(Threads)
        /\ threadsReady' \in SUBSET Threads
    BY <1>11, <2>2, EmitType
    DEF Deliver, OnThreadReady, OnThreadStopped, OnThreadsErrorOccured
  <2> QED BY <1>11, <2>1, <2>3 DEF Deliver, threads
<1>12. CASE UNCHANGED vars
  BY <1>12 DEF vars, managers, threads
<1> QED
  BY <1>1, <1>2, <1>3, <1>4, <1>5, <1>6, <1>7, <1>8, <1>9, <1>10, <1>11, <1>12
  DEF Next, ThreadNext, MainNext

(* The initial state is well typed. *)
LEMMA InitType ==
  ASSUME Init
  PROVE  TypeOK
<1>1. life \in [Threads -> Lives] /\ currentError \in [Threads -> Errors]
  BY DEF Init, Lives, Errors, EndingErrors
<1>2. /\ calls \in Seq({"start", "stop"}) /\ stopping \in Seq(Threads)
      /\ events \in Seq(Events)
  BY DEF Init
<1> QED BY <1>1, <1>2 DEF Init, TypeOK, ManagerStates

(* TypeOK holds: the manager and its threads stay in the states named in   *)
(* the code.                                                               *)
THEOREM TypeCorrect == Spec => []TypeOK
<1>1. Init => TypeOK
  BY InitType
<1>2. TypeOK /\ [Next]_vars => TypeOK'
  BY TypeKept
<1> QED BY <1>1, <1>2, PTL DEF Spec

-----------------------------------------------------------------------------
(* What is pending once an event was posted. *)
LEMMA PendingPost ==
  ASSUME TypeOK, NEW e \in Events, events' = Append(events, e), NEW t \in Threads
  PROVE  /\ PendingReady(t)' <=> PendingReady(t) \/ e = Ready(t)
         /\ PendingFinished(t)' <=> PendingFinished(t) \/ e = Finished(t)
<1>1. events \in Seq(Events)
  BY DEF TypeOK
<1> QED BY <1>1, Post DEF PendingReady, PendingFinished

(* What is pending once an event was delivered. *)
LEMMA PendingTake ==
  ASSUME TypeOK, events # <<>>, events' = Tail(events), NEW t \in Threads
  PROVE  /\ PendingReady(t) <=> PendingReady(t)' \/ Head(events) = Ready(t)
         /\ PendingFinished(t) <=> PendingFinished(t)' \/ Head(events) = Finished(t)
<1>1. events \in Seq(Events)
  BY DEF TypeOK
<1>2. \A i \in DOMAIN events : i # 1 => i - 1 \in DOMAIN events' /\ events'[i - 1] = events[i]
  BY <1>1, Take
<1>3. \A i \in DOMAIN events' : i + 1 \in DOMAIN events /\ events'[i] = events[i + 1]
  BY <1>1, Take
<1>4. 1 \in DOMAIN events /\ Head(events) = events[1]
  BY <1>1, Take
<1>5. ASSUME NEW x
      PROVE  (\E i \in DOMAIN events : events[i] = x)
               <=> (\E i \in DOMAIN events' : events'[i] = x) \/ Head(events) = x
  BY <1>2, <1>3, <1>4
<1> QED BY <1>5 DEF PendingReady, PendingFinished

(* The events differ from each other as their types and threads do. *)
LEMMA Kinds ==
  /\ \A t : Ready(t).type = "ready" /\ Finished(t).type = "finished"
  /\ \A t, e : Error(t, e).type = "error" /\ Error(t, e).thread = t /\ Error(t, e).error = e
  /\ \A t, u : (Ready(t) = Ready(u) <=> t = u) /\ (Finished(t) = Finished(u) <=> t = u)
  /\ \A t, u : Ready(t) # Finished(u)
  /\ \A t, u, e : Ready(t) # Error(u, e) /\ Finished(t) # Error(u, e)
BY DEF Ready, Finished, Error

(* The order of the events is kept by a thread that posts an event: it     *)
(* must be new, no ready() may come after a late event, and no thread is   *)
(* starting when it is late.                                               *)
LEMMA OrderPost ==
  ASSUME TypeOK, ReadyFirst, PostedOnce, NEW e \in Events, events' = Append(events, e),
         \A i \in DOMAIN events : Late(events[i]) => e.type # "ready",
         \A i \in DOMAIN events : e.type = "error" \/ events[i] # e
  PROVE  /\ \A i, j \in DOMAIN events' : i < j /\ Late(events'[i]) => events'[j].type # "ready"
         /\ PostedOnce'
<1>1. events \in Seq(Events)
  BY DEF TypeOK
<1>2. /\ DOMAIN events' = 1 .. Len(events) + 1 /\ DOMAIN events = 1 .. Len(events)
      /\ Len(events) \in Nat
      /\ events'[Len(events) + 1] = e
      /\ \A i \in DOMAIN events : events'[i] = events[i]
  BY <1>1, Post
<1>3. ASSUME NEW i \in DOMAIN events', NEW j \in DOMAIN events', i < j
      PROVE  i \in DOMAIN events /\ (j \in DOMAIN events \/ j = Len(events) + 1)
  BY <1>2, <1>3
<1>4. \A i, j \in DOMAIN events' : i < j /\ Late(events'[i]) => events'[j].type # "ready"
  BY <1>2, <1>3 DEF ReadyFirst
<1>5. PostedOnce'
  <2> SUFFICES ASSUME NEW i \in DOMAIN events', NEW j \in DOMAIN events', i < j,
                      events'[i].type # "error"
               PROVE  events'[i] # events'[j]
    BY DEF PostedOnce
  <2>1. CASE j \in DOMAIN events
    BY <2>1, <1>2, <1>3 DEF PostedOnce
  <2>2. CASE j = Len(events) + 1
    BY <2>2, <1>2, <1>3
  <2> QED BY <2>1, <2>2, <1>3
<1> QED BY <1>4, <1>5

(* The order of the events is kept by delivering one. *)
LEMMA OrderTake ==
  ASSUME TypeOK, ReadyFirst, PostedOnce, ErrorsOfLiving, events # <<>>,
         events' = Tail(events), life' = life
  PROVE  ReadyFirst' /\ PostedOnce' /\ ErrorsOfLiving'
<1>1. events \in Seq(Events)
  BY DEF TypeOK
<1>2. \A i \in DOMAIN events' : i + 1 \in DOMAIN events /\ events'[i] = events[i + 1]
  BY <1>1, Take
<1>3. \A i \in DOMAIN events : i # 1 => i - 1 \in DOMAIN events' /\ events'[i - 1] = events[i]
  BY <1>1, Take
<1>4. DOMAIN events \subseteq Int /\ DOMAIN events' \subseteq Nat \ {0}
  BY <1>1, Take
<1>5. \A i, j \in DOMAIN events' : i < j => i + 1 < j + 1
  BY <1>4
<1>6. ReadyFirst'
  BY <1>2, <1>5 DEF ReadyFirst, Late
<1>7. PostedOnce'
  BY <1>2, <1>5 DEF PostedOnce
<1>8. ErrorsOfLiving'
  <2> SUFFICES ASSUME NEW i \in DOMAIN events', events'[i].type = "error",
                      life[events'[i].thread] \notin {"Running", "Leaving"}
               PROVE  \E j \in DOMAIN events' : i < j /\ events'[j] = Finished(events'[i].thread)
    BY DEF ErrorsOfLiving
  <2>1. PICK j \in DOMAIN events : i + 1 < j /\ events[j] = Finished(events[i + 1].thread)
    BY <1>2 DEF ErrorsOfLiving
  <2>2. j # 1 /\ i < j - 1
    BY <2>1, <1>4
  <2> QED BY <2>1, <2>2, <1>2, <1>3
<1> QED BY <1>6, <1>7, <1>8

(* Errors still come from living threads when an event is posted, provided *)
(* that only the thread that posts finished() ends.                        *)
LEMMA ErrorsPost ==
  ASSUME TypeOK, ErrorsOfLiving, NEW e \in Events, events' = Append(events, e),
         e.type = "error" => life'[e.thread] \in {"Running", "Leaving"},
         \A t \in Threads : life[t] \in {"Running", "Leaving"} =>
                              life'[t] \in {"Running", "Leaving"} \/ e = Finished(t)
  PROVE  ErrorsOfLiving'
<1>1. events \in Seq(Events)
  BY DEF TypeOK
<1>2. /\ DOMAIN events' = 1 .. Len(events) + 1 /\ DOMAIN events = 1 .. Len(events)
      /\ Len(events) \in Nat
      /\ events'[Len(events) + 1] = e
      /\ \A i \in DOMAIN events : events'[i] = events[i]
  BY <1>1, Post
<1> SUFFICES ASSUME NEW i \in DOMAIN events', events'[i].type = "error",
                    life'[events'[i].thread] \notin {"Running", "Leaving"}
             PROVE  \E j \in DOMAIN events' : i < j /\ events'[j] = Finished(events'[i].thread)
  BY DEF ErrorsOfLiving
<1>3. i \in DOMAIN events /\ events'[i] = events[i]
  BY <1>2
<1>4. events[i].thread \in Threads
  BY <1>1, <1>3 DEF Events, Ready, Finished, Error
<1>5. CASE e = Finished(events[i].thread)
  <2>1. Len(events) + 1 \in DOMAIN events' /\ i < Len(events) + 1
    BY <1>2, <1>3
  <2> QED BY <1>2, <1>3, <1>5, <2>1
<1>6. CASE e # Finished(events[i].thread)
  <2>1. PICK j \in DOMAIN events : i < j /\ events[j] = Finished(events[i].thread)
    BY <1>3, <1>4, <1>6 DEF ErrorsOfLiving
  <2> QED BY <2>1, <1>2, <1>3
<1> QED BY <1>5, <1>6

-----------------------------------------------------------------------------
(* With a late event at the head, the manager has left Starting: every     *)
(* thread has become ready and was told so.                                *)
LEMMA LateHead ==
  ASSUME TypeOK, ReadyFirst, Ledger, Phase, events # <<>>, Late(Head(events))
  PROVE  /\ \A t \in Threads : ~PendingReady(t) /\ life[t] # "Started"
         /\ state \in RunningStates \cup {"Stopping"}
<1>1. events \in Seq(Events)
  BY DEF TypeOK
<1>2. 1 \in DOMAIN events /\ Head(events) = events[1]
      /\ \A i \in DOMAIN events : i = 1 \/ 1 < i
  BY <1>1, Take
<1>3. \A i \in DOMAIN events : events[i].type # "ready"
  BY <1>2 DEF ReadyFirst, Late
<1>4. \A t \in Threads : ~PendingReady(t)
  BY <1>3, Kinds DEF PendingReady
<1>5. \A t \in Threads : life[t] # "Started"
  BY <1>2 DEF ReadyFirst
<1>6. state # "Starting"
  BY <1>4, <1>5 DEF Phase, TypeOK
<1> QED BY <1>4, <1>5, <1>6 DEF Phase, TypeOK, ManagerStates

(* The manager learns that a thread is ready. *)
LEMMA DeliverReady ==
  ASSUME TypeOK, ReadyFirst, PostedOnce, ErrorsOfLiving, Ledger, Phase, Deliver,
         Head(events).type = "ready"
  PROVE  Ledger' /\ Phase'
<1>1. events # <<>> /\ events' = Tail(events) /\ life' = life /\ events \in Seq(Events)
  BY DEF Deliver, threads, TypeOK
<1>2. PICK t \in Threads : Head(events) = Ready(t)
  <2>1. Head(events) \in Events
    BY <1>1, Take
  <2> QED BY <2>1, Kinds DEF Events
<1>3. OnThreadReady(t)
  BY <1>2, Kinds DEF Deliver, Ready, Finished
<1>4. threadsReady' = threadsReady \cup {t}
  BY <1>3 DEF OnThreadReady
<1>5. \A u \in Threads : /\ PendingReady(u) <=> PendingReady(u)' \/ u = t
                         /\ PendingFinished(u) <=> PendingFinished(u)'
  BY <1>1, <1>2, PendingTake, Kinds
<1>6. ~PendingReady(t)'
  <2>1. \A i \in DOMAIN events' : i + 1 \in DOMAIN events /\ events'[i] = events[i + 1] /\ 1 < i + 1
    BY <1>1, Take
  <2>2. 1 \in DOMAIN events /\ events[1] = Ready(t)
    BY <1>1, <1>2, Take
  <2> QED BY <2>1, <2>2, Kinds DEF PendingReady, PostedOnce
<1>7. Ledger'
  <2> SUFFICES ASSUME NEW u \in Threads PROVE LedgerOf(u)'
    BY DEF Ledger
  <2>1. LedgerOf(u)
    BY DEF Ledger
  <2> QED BY <2>1, <1>1, <1>2, <1>4, <1>5, <1>6 DEF LedgerOf
<1>8. state = "Starting" /\ stopping = <<>>
  BY <1>1, <1>2, <1>5 DEF Phase, TypeOK, ManagerStates, Deliver, Waiting
<1>9. CASE Cardinality(threadsReady') = Cardinality(Threads)
  <2>1. threadsReady' = Threads
    BY <1>9, <1>4, <1>2, LifecycleAssumption, FS_Subset DEF TypeOK
  <2>2. state' = "PortReady" /\ stopping' = <<>>
    BY <1>3, <1>8, <1>9 DEF OnThreadReady, Emit, React, RunningStates
  <2>3. \A u \in Threads : life'[u] # "Started" /\ ~PendingReady(u)'
    BY <2>1, <1>7 DEF Ledger, LedgerOf
  <2> QED BY <1>7, <2>2, <2>3 DEF Phase, RunningStates
<1>10. CASE Cardinality(threadsReady') # Cardinality(Threads)
  <2>1. state' = "Starting" /\ stopping' = <<>> /\ threadsReady' # Threads
    BY <1>3, <1>8, <1>10 DEF OnThreadReady
  <2>2. \A u \in Threads : u \in threadsReady' \/ PendingReady(u)' \/ life'[u] = "Started"
    BY <1>1, <1>4, <1>5, <1>8 DEF Phase
  <2> QED BY <1>7, <2>1, <2>2 DEF Phase, RunningStates
<1> QED BY <1>7, <1>9, <1>10

(* The manager learns that a thread has finished. *)
LEMMA DeliverFinished ==
  ASSUME TypeOK, ReadyFirst, PostedOnce, ErrorsOfLiving, Ledger, Phase, Deliver,
         Head(events).type = "finished"
  PROVE  Ledger' /\ Phase'
<1>1. events # <<>> /\ events' = Tail(events) /\ life' = life /\ events \in Seq(Events)
  BY DEF Deliver, threads, TypeOK
<1>2. PICK t \in Threads : Head(events) = Finished(t)
  <2>1. Head(events) \in Events
    BY <1>1, Take
  <2> QED BY <2>1, Kinds DEF Events
<1>3. OnThreadStopped(t)
  BY <1>2, Kinds DEF Deliver, Ready, Finished
<1>4. threadsReady' = threadsReady \ {t}
  BY <1>3 DEF OnThreadStopped
<1>5. \A u \in Threads : /\ PendingReady(u) <=> PendingReady(u)'
                         /\ PendingFinished(u) <=> PendingFinished(u)' \/ u = t
  BY <1>1, <1>2, PendingTake, Kinds
<1>6. ~PendingFinished(t)'
  <2>1. \A i \in DOMAIN events' : i + 1 \in DOMAIN events /\ events'[i] = events[i + 1] /\ 1 < i + 1
    BY <1>1, Take
  <2>2. 1 \in DOMAIN events /\ events[1] = Finished(t)
    BY <1>1, <1>2, Take
  <2> QED BY <2>1, <2>2, Kinds DEF PendingFinished, PostedOnce
<1>7. /\ \A u \in Threads : ~PendingReady(u) /\ life[u] # "Started"
      /\ state \in RunningStates \cup {"Stopping"}
  BY <1>1, LateHead DEF Late
<1>8. Ledger'
  <2> SUFFICES ASSUME NEW u \in Threads PROVE LedgerOf(u)'
    BY DEF Ledger
  <2>1. LedgerOf(u) /\ LedgerOf(t) /\ life[t] \in Lives
    BY <1>2 DEF Ledger, TypeOK
  <2>2. life[t] = "Off"
    BY <1>2, <1>5, <1>7, <2>1 DEF LedgerOf, Lives
  <2> QED BY <2>1, <2>2, <1>1, <1>4, <1>5, <1>6, <1>7 DEF LedgerOf
<1>9. stopping = <<>>
  BY DEF Deliver, Waiting
<1>10. CASE state' \in RunningStates \cup {"Stopping"}
  <2>1. stopping' # <<>> => state' = "Stopping"
    BY <1>3, <1>9 DEF OnThreadStopped, Emit
  <2> QED BY <1>1, <1>5, <1>7, <1>8, <1>10, <2>1 DEF Phase, RunningStates
<1>11. CASE state' \notin RunningStates \cup {"Stopping"}
  <2>1. threadsReady' = {} /\ state' = "Stopped" /\ stopping' = <<>>
    BY <1>3, <1>7, <1>9, <1>11 DEF OnThreadStopped, Emit, React, RunningStates
  <2>2. \A u \in Threads : life'[u] = "Off" /\ ~PendingFinished(u)' /\ ~PendingReady(u)'
    <3> SUFFICES ASSUME NEW u \in Threads
                 PROVE  life'[u] = "Off" /\ ~PendingFinished(u)' /\ ~PendingReady(u)'
      OBVIOUS
    <3>1. LedgerOf(u)' /\ life'[u] \in Lives /\ life'[u] # "Started" /\ ~PendingReady(u)'
      BY <1>1, <1>5, <1>7, <1>8 DEF Ledger, TypeOK
    <3> QED BY <2>1, <3>1 DEF LedgerOf, Lives
  <2>3. ErrorsOfLiving'
    BY <1>1, OrderTake
  <2>4. events' = <<>>
    <3> SUFFICES ASSUME events' # <<>> PROVE FALSE
      OBVIOUS
    <3>1. events' \in Seq(Events) /\ 1 \in DOMAIN events' /\ events'[1] \in Events
      BY <1>1, Take
    <3>2. CASE events'[1].type # "error"
      <4>1. PICK u \in Threads : events'[1] = Ready(u) \/ events'[1] = Finished(u)
        BY <3>1, <3>2, Kinds DEF Events
      <4> QED BY <3>1, <4>1, <2>2 DEF PendingReady, PendingFinished
    <3>3. CASE events'[1].type = "error"
      <4>1. events'[1].thread \in Threads
        BY <3>1 DEF Events, Ready, Finished, Error
      <4>2. life'[events'[1].thread] \notin {"Running", "Leaving"}
        BY <2>2, <4>1
      <4>3. PICK j \in DOMAIN events' : events'[j] = Finished(events'[1].thread)
        BY <2>3, <3>1, <3>3, <4>2 DEF ErrorsOfLiving
      <4> QED BY <4>1, <4>3, <2>2 DEF PendingFinished
    <3> QED BY <3>2, <3>3
  <2> QED BY <1>8, <2>1, <2>2, <2>4 DEF Phase, RunningStates
<1> QED BY <1>8, <1>10, <1>11

(* The manager learns of an error. *)
LEMMA DeliverError ==
  ASSUME TypeOK, ReadyFirst, PostedOnce, ErrorsOfLiving, Ledger, Phase, Deliver,
         Head(events).type = "error"
  PROVE  Ledger' /\ Phase'
<1>1. events # <<>> /\ events' = Tail(events) /\ life' = life /\ stopping = <<>>
  BY DEF Deliver, threads, Waiting
<1>2. PICK v \in Threads, e \in Errors : Head(events) = Error(v, e)
  <2>1. Head(events) \in Events
    BY <1>1, Take DEF TypeOK
  <2> QED BY <2>1, Kinds DEF Events
<1>3. Emit(EventOfError(e)) /\ threadsReady' = threadsReady
  BY <1>2, Kinds DEF Deliver, OnThreadsErrorOccured
<1>4. \A u \in Threads : /\ PendingReady(u) <=> PendingReady(u)'
                         /\ PendingFinished(u) <=> PendingFinished(u)'
  BY <1>1, <1>2, PendingTake, Kinds
<1>5. Ledger'
  <2> SUFFICES ASSUME NEW u \in Threads PROVE LedgerOf(u)'
    BY DEF Ledger
  <2>1. LedgerOf(u)
    BY DEF Ledger
  <2> QED BY <2>1, <1>1, <1>3, <1>4 DEF LedgerOf
<1>6. state \in {"Starting", "Stopping"} \cup RunningStates
  BY <1>1 DEF Phase, TypeOK, ManagerStates
<1>7. CASE state = "Starting"
  <2>1. ~Late(Head(events))
    BY <1>1, <1>7, LateHead DEF RunningStates
  <2>2. EventOfError(e) \in {"Ready", "Busy"}
    BY <1>2, <2>1, Kinds DEF Late, Errors, PassingErrors, EventOfError
  <2>3. state' = "Starting" /\ stopping' = <<>>
    BY <1>3, <1>7, <2>2 DEF Emit, React, RunningStates
  <2> QED BY <1>1, <1>3, <1>4, <1>5, <1>7, <2>3 DEF Phase, RunningStates
<1>8. CASE state \in {"Stopping"} \cup RunningStates
  <2>1. EventOfError(e) \notin {"AllThreadsStopped", "StartThreads", "AllThreadsReady", "PortClosed"}
    BY DEF EventOfError, Errors, PassingErrors, EndingErrors
  <2>2. state' \in {"Stopping"} \cup RunningStates
    BY <1>3, <1>8, <2>1 DEF Emit, React, RunningStates
  <2>3. stopping' # <<>> => state' = "Stopping"
    BY <1>3 DEF Emit
  <2> QED BY <1>1, <1>3, <1>4, <1>5, <1>8, <2>2, <2>3 DEF Phase, RunningStates
<1> QED BY <1>6, <1>7, <1>8

-----------------------------------------------------------------------------
(* The steps of the threads keep the invariant, when no thread fails while *)
(* another one is starting.                                                *)
LEMMA BeginKept ==
  ASSUME IInv, NEW t \in Threads, Begin(t)
  PROVE  ReadyFirst' /\ PostedOnce' /\ ErrorsOfLiving' /\ Ledger' /\ Phase'
<1> USE DEF IInv
<1>1. /\ life[t] = "Started" /\ life' = [life EXCEPT ![t] = "Running"]
      /\ events' = Append(events, Ready(t)) /\ Ready(t) \in Events
      /\ state' = state /\ threadsReady' = threadsReady /\ stopping' = stopping
  BY DEF Begin, managers, Events
<1>2. life'[t] = "Running" /\ \A u \in Threads : u # t => life'[u] = life[u]
  BY <1>1 DEF TypeOK
<1>3. \A u \in Threads : /\ PendingReady(u)' <=> PendingReady(u) \/ u = t
                         /\ PendingFinished(u)' <=> PendingFinished(u)
  BY <1>1, PendingPost, Kinds
<1>4. \A i \in DOMAIN events : ~Late(events[i]) /\ events[i] # Ready(t)
  BY <1>1 DEF ReadyFirst, Ledger, LedgerOf, PendingReady
<1>5. ReadyFirst' /\ PostedOnce'
  <2>1. /\ \A i, j \in DOMAIN events' : i < j /\ Late(events'[i]) => events'[j].type # "ready"
        /\ PostedOnce'
    BY <1>1, <1>4, OrderPost
  <2>2. \A i \in DOMAIN events' : ~Late(events'[i])
    BY <1>1, <1>4, Post, Kinds DEF TypeOK, Late
  <2>3. \A u, v \in Threads : life'[u] = "Leaving" => life'[v] # "Started"
    BY <1>2 DEF ReadyFirst
  <2> QED BY <2>1, <2>2, <2>3 DEF ReadyFirst
<1>6. ErrorsOfLiving'
  BY <1>1, <1>2, ErrorsPost, Kinds
<1>7. Ledger'
  BY <1>1, <1>2, <1>3 DEF Ledger, LedgerOf
<1>8. Phase'
  BY <1>1, <1>2, <1>3 DEF Phase, TypeOK, ManagerStates, RunningStates
<1> QED BY <1>5, <1>6, <1>7, <1>8

(* An error that the thread survives is not a late event. *)
LEMMA ReportKept ==
  ASSUME IInv, NEW t \in Threads, Report(t)
  PROVE  ReadyFirst' /\ PostedOnce' /\ ErrorsOfLiving' /\ Ledger' /\ Phase'
<1> USE DEF IInv
<1>1. PICK e \in PassingErrors : Notify(t, e)
  BY DEF Report
<1>2. /\ life[t] = "Running" /\ life' = life
      /\ state' = state /\ threadsReady' = threadsReady /\ stopping' = stopping
  BY DEF Report, managers
<1>3. CASE events' = events
  BY <1>2, <1>3 DEF ReadyFirst, PostedOnce, ErrorsOfLiving, Ledger, LedgerOf, Phase,
                    PendingReady, PendingFinished
<1>4. CASE events' = Append(events, Error(t, e))
  <2>1. Error(t, e) \in Events /\ ~Late(Error(t, e))
    BY Kinds DEF Events, Errors, Late, PassingErrors, EndingErrors
  <2>2. \A u \in Threads : /\ PendingReady(u)' <=> PendingReady(u)
                           /\ PendingFinished(u)' <=> PendingFinished(u)
    BY <1>4, <2>1, PendingPost, Kinds
  <2>3. ReadyFirst' /\ PostedOnce'
    <3>1. /\ \A i, j \in DOMAIN events' : i < j /\ Late(events'[i]) => events'[j].type # "ready"
          /\ PostedOnce'
      BY <1>4, <2>1, OrderPost, Kinds
    <3>2. \A i \in DOMAIN events' : Late(events'[i]) => i \in DOMAIN events /\ Late(events[i])
      BY <1>4, <2>1, Post DEF TypeOK
    <3> QED BY <3>1, <3>2, <1>2 DEF ReadyFirst
  <2>4. ErrorsOfLiving'
    BY <1>2, <1>4, <2>1, ErrorsPost, Kinds
  <2> QED BY <1>2, <2>2, <2>3, <2>4 DEF Ledger, LedgerOf, Phase
<1> QED BY <1>1, <1>3, <1>4 DEF Notify

(* A thread fails only once no thread is starting. *)
LEMMA FailKept ==
  ASSUME IInv, NEW t \in Threads, Fail(t), ~EarlyFailures
  PROVE  ReadyFirst' /\ PostedOnce' /\ ErrorsOfLiving' /\ Ledger' /\ Phase'
<1> USE DEF IInv
<1>1. PICK e \in EndingErrors : Notify(t, e)
  BY DEF Fail
<1>2. /\ life[t] = "Running" /\ life' = [life EXCEPT ![t] = "Leaving"]
      /\ state' = state /\ threadsReady' = threadsReady /\ stopping' = stopping
      /\ \A u \in Threads : life[u] # "Started"
  BY DEF Fail, managers
<1>3. life'[t] = "Leaving" /\ \A u \in Threads : u # t => life'[u] = life[u]
  BY <1>2 DEF TypeOK
<1>4. \A u \in Threads : life'[u] # "Started"
  BY <1>2, <1>3
<1>5. CASE events' = events
  <2>1. ReadyFirst' /\ PostedOnce'
    BY <1>4, <1>5 DEF ReadyFirst, PostedOnce
  <2>2. ErrorsOfLiving'
    BY <1>2, <1>3, <1>5 DEF ErrorsOfLiving
  <2>3. Ledger' /\ Phase'
    BY <1>2, <1>3, <1>5 DEF Ledger, LedgerOf, Phase, PendingReady, PendingFinished
  <2> QED BY <2>1, <2>2, <2>3
<1>6. CASE events' = Append(events, Error(t, e))
  <2>1. Error(t, e) \in Events
    BY DEF Events, Errors
  <2>2. \A u \in Threads : /\ PendingReady(u)' <=> PendingReady(u)
                           /\ PendingFinished(u)' <=> PendingFinished(u)
    BY <1>6, <2>1, PendingPost, Kinds
  <2>3. ReadyFirst' /\ PostedOnce'
    BY <1>4, <1>6, <2>1, OrderPost, Kinds DEF ReadyFirst
  <2>4. ErrorsOfLiving'
    BY <1>3, <1>6, <2>1, ErrorsPost, Kinds
  <2>5. Ledger'
    BY <1>2, <1>3, <2>2 DEF Ledger, LedgerOf
  <2>6. Phase'
    <3>1. events # <<>> \/ state \notin {"Stopped", "PortClosed"}
      BY <1>2 DEF Phase
    <3>2. state \notin {"Stopped", "PortClosed"}
      BY <1>2 DEF Phase
    <3> QED BY <1>2, <1>3, <2>2, <3>2 DEF Phase, RunningStates
  <2> QED BY <2>3, <2>4, <2>5, <2>6
<1> QED BY <1>1, <1>5, <1>6 DEF Notify

(* finished() is posted once, after all that the thread had to say. *)
LEMMA EndKept ==
  ASSUME IInv, NEW t \in Threads, End(t)
  PROVE  ReadyFirst' /\ PostedOnce' /\ ErrorsOfLiving' /\ Ledger' /\ Phase'
<1> USE DEF IInv
<1>1. /\ life[t] = "Leaving" /\ life' = [life EXCEPT ![t] = "Off"]
      /\ events' = Append(events, Finished(t)) /\ Finished(t) \in Events
      /\ state' = state /\ threadsReady' = threadsReady /\ stopping' = stopping
  BY DEF End, managers, Events
<1>2. life'[t] = "Off" /\ \A u \in Threads : u # t => life'[u] = life[u]
  BY <1>1 DEF TypeOK
<1>3. \A u \in Threads : life'[u] # "Started"
  BY <1>1, <1>2 DEF ReadyFirst
<1>4. \A u \in Threads : /\ PendingReady(u)' <=> PendingReady(u)
                         /\ PendingFinished(u)' <=> PendingFinished(u) \/ u = t
  BY <1>1, PendingPost, Kinds
<1>5. \A i \in DOMAIN events : events[i] # Finished(t)
  BY <1>1 DEF Ledger, LedgerOf, PendingFinished
<1>6. ReadyFirst' /\ PostedOnce'
  BY <1>1, <1>3, <1>5, OrderPost, Kinds DEF ReadyFirst
<1>7. ErrorsOfLiving'
  BY <1>1, <1>2, ErrorsPost, Kinds
<1>8. Ledger'
  BY <1>1, <1>2, <1>4 DEF Ledger, LedgerOf
<1>9. Phase'
  <2>1. state \notin {"Stopped", "PortClosed"}
    BY <1>1 DEF Phase
  <2> QED BY <1>1, <1>2, <1>4, <2>1, <1>3 DEF Phase, RunningStates, ReadyFirst
<1> QED BY <1>6, <1>7, <1>8, <1>9

-----------------------------------------------------------------------------
(* A step that changes neither the events nor what the manager and the     *)
(* threads are.                                                            *)
LEMMA StillKept ==
  ASSUME IInv, UNCHANGED <<state, threadsReady, stopping, events, threads>>
  PROVE  ReadyFirst' /\ PostedOnce' /\ ErrorsOfLiving' /\ Ledger' /\ Phase'
BY DEF IInv, ReadyFirst, PostedOnce, ErrorsOfLiving, Ledger, LedgerOf, Phase,
       PendingReady, PendingFinished, threads

(* Every thread is off, and no event is pending, when start() starts them. *)
LEMMA StartKept ==
  ASSUME IInv, Start
  PROVE  ReadyFirst' /\ PostedOnce' /\ ErrorsOfLiving' /\ Ledger' /\ Phase'
<1> USE DEF IInv
<1>1. /\ events = <<>> /\ events' = <<>> /\ threadsReady = {} /\ threadsReady' = {}
      /\ \A t \in Threads : life'[t] = "Started"
  BY DEF Start, Phase
<1>2. state' = "Starting" /\ stopping' = <<>>
  BY DEF Start, Emit, React
<1>3. DOMAIN events' = {}
  BY <1>1
<1>4. ReadyFirst' /\ PostedOnce' /\ ErrorsOfLiving'
  BY <1>1, <1>3 DEF ReadyFirst, PostedOnce, ErrorsOfLiving
<1>5. Ledger'
  BY <1>1, <1>3 DEF Ledger, LedgerOf, PendingReady, PendingFinished
<1>6. Phase'
  BY <1>1, <1>2, LifecycleAssumption DEF Phase, RunningStates
<1> QED BY <1>4, <1>5, <1>6

(* stop() moves the manager to Stopping, or nowhere. *)
LEMMA StopKept ==
  ASSUME IInv, Stop
  PROVE  ReadyFirst' /\ PostedOnce' /\ ErrorsOfLiving' /\ Ledger' /\ Phase'
<1> USE DEF IInv
<1>1. UNCHANGED <<threadsReady, events, life>> /\ stopping = <<>>
  BY DEF Stop, threads, Waiting
<1>2. /\ state \in RunningStates => state' = "Stopping"
      /\ state \notin RunningStates => state' = state /\ stopping' = <<>>
  BY DEF Stop, Emit, React, RunningStates, TypeOK, ManagerStates
<1>3. Ledger' /\ ReadyFirst' /\ PostedOnce' /\ ErrorsOfLiving'
  BY <1>1 DEF Ledger, LedgerOf, PendingReady, PendingFinished, ReadyFirst, PostedOnce,
              ErrorsOfLiving
<1>4. Phase'
  BY <1>1, <1>2 DEF Phase, PendingReady, RunningStates
<1> QED BY <1>3, <1>4

(* stop() closes the port once the threads are off. *)
LEMMA StopReturnsKept ==
  ASSUME IInv, StopReturns
  PROVE  ReadyFirst' /\ PostedOnce' /\ ErrorsOfLiving' /\ Ledger' /\ Phase'
<1> USE DEF IInv
<1>1. UNCHANGED <<threadsReady, events, life>>
  BY DEF StopReturns, threads
<1>2. state = "Stopped" /\ state' = "PortClosed" /\ stopping' = <<>>
  BY DEF StopReturns, Emit, React, RunningStates
<1>3. Ledger' /\ ReadyFirst' /\ PostedOnce' /\ ErrorsOfLiving'
  BY <1>1 DEF Ledger, LedgerOf, PendingReady, PendingFinished, ReadyFirst, PostedOnce,
              ErrorsOfLiving
<1>4. Phase'
  BY <1>1, <1>2 DEF Phase, RunningStates
<1> QED BY <1>3, <1>4

(* A thread is told to stop in the state Stopping, when all have begun. *)
LEMMA StopThreadKept ==
  ASSUME IInv, StopThread
  PROVE  ReadyFirst' /\ PostedOnce' /\ ErrorsOfLiving' /\ Ledger' /\ Phase'
<1> USE DEF IInv
<1>1. /\ UNCHANGED <<state, threadsReady, events>> /\ state = "Stopping"
      /\ \A u \in Threads : life[u] # "Started" /\ ~PendingReady(u)
  BY DEF StopThread, Phase
<1>2. PICK t \in Threads :
        \/ life[t] = "Running" /\ life' = [life EXCEPT ![t] = "Leaving"]
        \/ life' = life
  <2>1. Head(stopping) \in Threads
    BY Take DEF StopThread, TypeOK
  <2> QED BY <2>1 DEF StopThread, threads
<1>3. \A u \in Threads : life'[u] = life[u] \/ (life[u] = "Running" /\ life'[u] = "Leaving")
  BY <1>2 DEF TypeOK
<1>4. ReadyFirst' /\ PostedOnce'
  BY <1>1, <1>3 DEF ReadyFirst, PostedOnce
<1>5. ErrorsOfLiving'
  <2>1. \A i \in DOMAIN events : events[i].thread \in Threads
    BY DEF TypeOK, Events, Ready, Finished, Error
  <2> QED BY <1>1, <1>3, <2>1 DEF ErrorsOfLiving
<1>6. Ledger'
  BY <1>1, <1>3 DEF Ledger, LedgerOf, PendingReady, PendingFinished
<1>7. Phase'
  BY <1>1, <1>3 DEF Phase, PendingReady, RunningStates
<1> QED BY <1>4, <1>5, <1>6, <1>7

(* Whatever event the manager processes. *)
LEMMA DeliverKept ==
  ASSUME IInv, Deliver
  PROVE  ReadyFirst' /\ PostedOnce' /\ ErrorsOfLiving' /\ Ledger' /\ Phase'
<1> USE DEF IInv
<1>1. events # <<>> /\ events' = Tail(events) /\ life' = life
  BY DEF Deliver, threads
<1>2. Ledger' /\ Phase'
  <2>1. Head(events).type \in {"ready", "finished", "error"}
    BY DEF Deliver
  <2> QED BY <2>1, DeliverReady, DeliverFinished, DeliverError
<1> QED BY <1>1, <1>2, OrderTake

(* Every step keeps the invariant when no thread fails while another one   *)
(* is starting.                                                            *)
LEMMA InvariantKept ==
  ASSUME IInv, ~EarlyFailures, [Next]_vars
  PROVE  IInv'
<1>1. TypeOK'
  BY TypeKept DEF IInv
<1>2. ReadyFirst' /\ PostedOnce' /\ ErrorsOfLiving' /\ Ledger' /\ Phase'
  <2>1. CASE ThreadNext
    BY <2>1, BeginKept, ReportKept, FailKept, EndKept DEF ThreadNext
  <2>2. CASE StartReturns \/ StartFails
    BY <2>2, StillKept DEF StartReturns, StartFails
  <2>3. CASE UNCHANGED vars
    BY <2>3, StillKept DEF vars, managers
  <2> QED
    BY <2>1, <2>2, <2>3, StartKept, StopKept, StopReturnsKept, StopThreadKept, DeliverKept
    DEF Next, MainNext
<1> QED BY <1>1, <1>2 DEF IInv

(* The invariant holds at first. *)
LEMMA InvariantInit ==
  ASSUME Init
  PROVE  IInv
<1>1. TypeOK
  BY InitType
<1>2. events = <<>> /\ DOMAIN events = {} /\ \A t \in Threads : life[t] = "Off"
  BY DEF Init
<1>3. ReadyFirst /\ PostedOnce /\ ErrorsOfLiving
  BY <1>2 DEF ReadyFirst, PostedOnce, ErrorsOfLiving
<1>4. Ledger /\ Phase
  BY <1>2 DEF Init, Ledger, LedgerOf, PendingReady, PendingFinished, Phase, RunningStates
<1> QED BY <1>1, <1>3, <1>4 DEF IInv

(* StoppedMeansIdle holds for any threads, in any order of their steps,    *)
(* provided that none fails while another one is starting: in Stopped and  *)
(* PortClosed, no thread lives.                                            *)
THEOREM StoppedIdle == ASSUME ~EarlyFailures PROVE Spec => []StoppedMeansIdle
<1>1. Init => IInv
  BY InvariantInit
<1>2. IInv /\ [Next]_vars => IInv'
  BY InvariantKept
<1>3. IInv => StoppedMeansIdle
  BY DEF IInv, Phase, StoppedMeansIdle
<1> QED BY <1>1, <1>2, <1>3, PTL DEF Spec

(* The port is open in every state but PortClosed. *)
OpenUnlessClosed == state # "PortClosed" => portOpen

(* The port is closed by the step that enters PortClosed, and opened by    *)
(* the one that leaves it.                                                 *)
LEMMA OpenKept ==
  ASSUME IInv, OpenUnlessClosed, [Next]_vars
  PROVE  OpenUnlessClosed'
<1> USE DEF OpenUnlessClosed
<1>1. CASE ThreadNext
  BY <1>1 DEF ThreadNext, Begin, Report, Fail, End, managers
<1>2. CASE Start
  BY <1>2 DEF Start
<1>3. CASE StartReturns \/ StartFails
  BY <1>3 DEF StartReturns, StartFails
<1>4. CASE Stop
  BY <1>4 DEF Stop
<1>5. CASE StopReturns
  BY <1>5 DEF StopReturns, Emit, React, RunningStates
<1>6. CASE StopThread
  BY <1>6 DEF StopThread
<1>7. CASE Deliver
  BY <1>7 DEF Deliver, IInv, Phase
<1>8. CASE UNCHANGED vars
  BY <1>8 DEF vars, managers
<1> QED BY <1>1, <1>2, <1>3, <1>4, <1>5, <1>6, <1>7, <1>8 DEF Next, MainNext

(* ThreadsUseOpenPort: with the same proviso, stop() never closes the port *)
(* under a thread that lives.                                              *)
THEOREM PortOpen == ASSUME ~EarlyFailures PROVE Spec => []ThreadsUseOpenPort
<1>1. Init => IInv /\ OpenUnlessClosed
  BY InvariantInit DEF Init, OpenUnlessClosed
<1>2. IInv /\ OpenUnlessClosed /\ [Next]_vars => IInv' /\ OpenUnlessClosed'
  BY InvariantKept, OpenKept
<1>3. IInv /\ OpenUnlessClosed => ThreadsUseOpenPort
  BY DEF IInv, Phase, OpenUnlessClosed, ThreadsUseOpenPort
<1> QED BY <1>1, <1>2, <1>3, PTL DEF Spec
=============================================================================
