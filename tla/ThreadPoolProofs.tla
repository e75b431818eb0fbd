-------------------------- MODULE ThreadPoolProofs --------------------------
(***************************************************************************)
(* Proofs about ThreadPool, for any number of workers, clients and tasks.  *)
(***************************************************************************)
EXTENDS ThreadPool, FiniteSetTheorems, TLAPS

(* The type invariant without the bound on active.                         *)
Shape ==
    /\ queue \in Seq(Tasks)
    /\ active \in Int
    /\ stop \in BOOLEAN
    /\ pool \in {"creating", "live", "freed"}
    /\ pc \in [Threads -> WorkerAt \cup ClientAt]
    /\ \A w \in Workers : pc[w] \in WorkerAt
    /\ \A c \in Clients : pc[c] \in ClientAt
    /\ cur \in [Threads -> Tasks \cup {NoTask}]
    /\ \A w \in Workers : pc[w] \in BusyAt => cur[w] \in Tasks
    /\ \A c \in Clients : pc[c] = "add" => cur[c] \in Tasks
    /\ st \in [Tasks -> TaskSt]

Others == Clients \ {Owner}

(* The owner's progress through tp_init, use and tp_dispose decides the    *)
(* life of the pool object, stop, and what the other clients may do.       *)
OwnerPhase ==
    /\ \A c \in Others : pc[c] \in {"idle", "add", "wait", "wait_blocked", "gone"}
    /\ pool = "creating" <=> pc[Owner] \in {"init", "init_join"}
    /\ pool = "freed" <=> pc[Owner] \in {"init_failed", "gone"}
    /\ stop <=> pc[Owner] \in {"join", "drain", "gone"}
    /\ pool # "live" => /\ queue = <<>>
                        /\ \A c \in Others : pc[c] \in {"idle", "gone"}
    /\ pc[Owner] \in {"stop", "join", "drain"} => \A c \in Others : pc[c] = "gone"

(* Where the workers can be in each phase.  The last part says why nothing *)
(* accepted is left behind: while stop is set and a task is queued, some   *)
(* worker is still there to take it.                                       *)
WorkerPhase ==
    /\ pool = "creating" => \A w \in Workers : pc[w] \in {"uncreated", "lock", "blocked"}
    /\ pool = "live" => \A w \in Workers : pc[w] # "uncreated"
    /\ pool = "freed" => \A w \in Workers : pc[w] \in {"uncreated", "exited"}
    /\ pc[Owner] = "drain" => \A w \in Workers : pc[w] = "exited"
    /\ stop => \A w \in Workers : pc[w] # "blocked"
    /\ ~stop => \A w \in Workers : pc[w] # "exited"
    /\ (stop /\ queue # <<>>) => \E w \in Workers : pc[w] \in {"lock"} \cup BusyAt

Phase == OwnerPhase /\ WorkerPhase

(* The workers that hold a task are counted in active_tasks.               *)
Counted == active = Cardinality(Busy)

(* After a signal self is at next, a blocked thread, if there is one, at   *)
(* resume, and the others are where they were.                             *)
SignalEffect(self, next, blocked, resume) ==
    /\ pc' \in [Threads -> WorkerAt \cup ClientAt]
    /\ pc'[self] = next
    /\ \/ blocked = {} /\ \A t \in Threads \ {self} : pc'[t] = pc[t]
       \/ \E b \in blocked : /\ pc'[b] = resume
                             /\ \A t \in Threads \ {self, b} : pc'[t] = pc[t]

(* pthread_cond_signal on task_added moves one sleeping worker back to the *)
(* mutex.                                                                  *)
LEMMA TaskAddedSignal ==
    ASSUME NEW self \in Threads, NEW next \in WorkerAt \cup ClientAt,
           pc \in [Threads -> WorkerAt \cup ClientAt],
           pc[self] # "blocked",
           Signal(self, next, Sleeping, "lock")
    PROVE  SignalEffect(self, next, Sleeping, "lock")
BY DEF Signal, SignalEffect, Sleeping, Threads, WorkerAt

(* pthread_cond_signal on task_finished moves one thread in tp_wait back   *)
(* to the mutex.                                                           *)
LEMMA TaskFinishedSignal ==
    ASSUME NEW self \in Threads, NEW next \in WorkerAt \cup ClientAt,
           pc \in [Threads -> WorkerAt \cup ClientAt],
           pc[self] # "wait_blocked",
           Signal(self, next, Waiting, "wait")
    PROVE  SignalEffect(self, next, Waiting, "wait")
BY DEF Signal, SignalEffect, Waiting, Threads, ClientAt

(* What the three actions that signal do.                                  *)
LEMMA SpawnEffect ==
    ASSUME Shape, NEW w \in Workers, WorkerSpawn(w)
    PROVE  /\ pc[w] = "run"
           /\ Child[cur[w]] \in Tasks
           /\ st[Child[cur[w]]] = "new"
           /\ UNCHANGED <<active, stop, pool, cur>>
           /\ \/ /\ queue' = Append(queue, Child[cur[w]])
                 /\ st' = [st EXCEPT ![Child[cur[w]]] = "queued"]
                 /\ SignalEffect(w, "run", Sleeping, "lock")
              \/ /\ st' = [st EXCEPT ![Child[cur[w]]] = "refused"]
                 /\ UNCHANGED <<queue, pc>>
<1>1. pc[w] = "run" /\ Child[cur[w]] # NoTask /\ st[Child[cur[w]]] = "new"
  BY DEF WorkerSpawn
<1>2. Child[cur[w]] \in Tasks
  BY <1>1, PoolAssumption DEF Shape, BusyAt
<1>3. pc \in [Threads -> WorkerAt \cup ClientAt] /\ w \in Threads
  BY DEF Shape, Threads
<1>4. ASSUME Signal(w, "run", Sleeping, "lock")
      PROVE  SignalEffect(w, "run", Sleeping, "lock")
  <2>1. "run" \in WorkerAt \cup ClientAt /\ pc[w] # "blocked"
    BY <1>1 DEF WorkerAt, BusyAt
  <2> QED
    BY <1>3, <1>4, <2>1, TaskAddedSignal
<1> QED
  BY <1>1, <1>2, <1>4, Zenon DEF WorkerSpawn, Enqueue

(* The end of a task: active_tasks goes down and one waiting client is     *)
(* signalled.                                                              *)
LEMMA FinishEffect ==
    ASSUME Shape, NEW w \in Workers, WorkerFinish(w)
    PROVE  /\ pc[w] = "finish"
           /\ active' = active - 1
           /\ cur' = [cur EXCEPT ![w] = NoTask]
           /\ UNCHANGED <<queue, stop, pool, st>>
           /\ SignalEffect(w, "lock", Waiting, "wait")
<1>1. pc[w] = "finish" /\ Signal(w, "lock", Waiting, "wait")
  BY DEF WorkerFinish
<1>2. pc \in [Threads -> WorkerAt \cup ClientAt] /\ w \in Threads
  BY DEF Shape, Threads
<1>3. "lock" \in WorkerAt \cup ClientAt /\ pc[w] # "wait_blocked"
  BY <1>1 DEF WorkerAt
<1>4. SignalEffect(w, "lock", Waiting, "wait")
  BY <1>1, <1>2, <1>3, TaskFinishedSignal
<1> QED
  BY <1>1, <1>4, Zenon DEF WorkerFinish

(* tp_task_add: the task goes to the tail and one sleeping worker is       *)
(* signalled.                                                              *)
LEMMA AddEffect ==
    ASSUME Shape, NEW c \in Clients, AddCommit(c)
    PROVE  /\ pc[c] = "add"
           /\ cur[c] \in Tasks
           /\ queue' = Append(queue, cur[c])
           /\ st' = [st EXCEPT ![cur[c]] = "queued"]
           /\ cur' = [cur EXCEPT ![c] = NoTask]
           /\ UNCHANGED <<active, stop, pool>>
           /\ SignalEffect(c, "idle", Sleeping, "lock")
<1>1. pc[c] = "add" /\ Signal(c, "idle", Sleeping, "lock")
  BY DEF AddCommit
<1>2. /\ pc \in [Threads -> WorkerAt \cup ClientAt] /\ c \in Threads
      /\ cur[c] \in Tasks
  BY <1>1 DEF Shape, Threads
<1>3. "idle" \in WorkerAt \cup ClientAt /\ pc[c] # "blocked"
  BY <1>1 DEF ClientAt
<1>4. SignalEffect(c, "idle", Sleeping, "lock")
  BY <1>1, <1>2, <1>3, TaskAddedSignal
<1> QED
  BY <1>1, <1>2, <1>4, Zenon DEF AddCommit, Enqueue

(* The variables have their types in the pool that tp_init has just        *)
(* allocated.                                                              *)
LEMMA ShapeInit == Init => Shape
<1> SUFFICES ASSUME Init PROVE Shape
    OBVIOUS
<1> USE PoolAssumption DEF Init, Threads, WorkerAt, ClientAt, BusyAt, TaskSt
<1>1. queue \in Seq(Tasks) /\ active \in Int
  OBVIOUS
<1>2. stop \in BOOLEAN /\ pool \in {"creating", "live", "freed"}
  OBVIOUS
<1>3. pc \in [Threads -> WorkerAt \cup ClientAt]
  OBVIOUS
<1>4. /\ \A w \in Workers : pc[w] = "uncreated"
      /\ \A c \in Clients : pc[c] \in {"init", "idle"}
  OBVIOUS
<1>5. cur \in [Threads -> Tasks \cup {NoTask}] /\ st \in [Tasks -> TaskSt]
  OBVIOUS
<1> QED
  BY <1>1, <1>2, <1>3, <1>4, <1>5 DEF Shape

(* A task function that submits a task keeps the types.                    *)
LEMMA ShapeSpawn ==
    ASSUME Shape, NEW w \in Workers, WorkerSpawn(w) PROVE Shape'
<1> DEFINE child == Child[cur[w]]
<1>1. /\ pc[w] = "run"
      /\ child \in Tasks
      /\ UNCHANGED <<active, stop, pool, cur>>
      /\ \/ /\ queue' = Append(queue, child)
            /\ st' = [st EXCEPT ![child] = "queued"]
            /\ SignalEffect(w, "run", Sleeping, "lock")
         \/ /\ st' = [st EXCEPT ![child] = "refused"]
            /\ UNCHANGED <<queue, pc>>
  BY SpawnEffect, Zenon
<1> HIDE DEF child
<1>2. /\ queue' \in Seq(Tasks)
      /\ st' \in [Tasks -> TaskSt]
      /\ pc' \in [Threads -> WorkerAt \cup ClientAt]
      /\ \A t \in Threads : pc'[t] = pc[t] \/ (t \in Workers /\ pc'[t] = "lock")
  <2>1. CASE SignalEffect(w, "run", Sleeping, "lock")
    BY <1>1, <2>1 DEF Shape, TaskSt, SignalEffect, Sleeping, Threads
  <2>2. CASE UNCHANGED <<queue, pc>>
    BY <1>1, <2>2 DEF Shape, TaskSt
  <2> QED
    BY <1>1, <2>1, <2>2
<1>3. UNCHANGED <<active, stop, pool, cur>>
  BY <1>1
<1> QED
  BY <1>2, <1>3, PoolAssumption DEF Shape, Threads, WorkerAt, ClientAt, BusyAt

(* The end of a task keeps the types.                                      *)
LEMMA ShapeFinish ==
    ASSUME Shape, NEW w \in Workers, WorkerFinish(w) PROVE Shape'
<1>1. /\ active' = active - 1
      /\ cur' = [cur EXCEPT ![w] = NoTask]
      /\ UNCHANGED <<queue, stop, pool, st>>
      /\ SignalEffect(w, "lock", Waiting, "wait")
  BY FinishEffect
<1>2. /\ pc' \in [Threads -> WorkerAt \cup ClientAt]
      /\ pc'[w] = "lock"
      /\ \A t \in Threads \ {w} : pc'[t] = pc[t] \/ (t \in Clients /\ pc'[t] = "wait")
  BY <1>1 DEF SignalEffect, Waiting, Threads
<1> QED
  BY <1>1, <1>2, PoolAssumption DEF Shape, Threads, WorkerAt, ClientAt, BusyAt

(* A client's tp_task_add keeps the types.                                 *)
LEMMA ShapeAdd ==
    ASSUME Shape, NEW c \in Clients, AddCommit(c) PROVE Shape'
<1>1. /\ cur[c] \in Tasks
      /\ queue' = Append(queue, cur[c])
      /\ st' = [st EXCEPT ![cur[c]] = "queued"]
      /\ cur' = [cur EXCEPT ![c] = NoTask]
      /\ UNCHANGED <<active, stop, pool>>
      /\ SignalEffect(c, "idle", Sleeping, "lock")
  BY AddEffect
<1>2. queue' \in Seq(Tasks) /\ st' \in [Tasks -> TaskSt]
  BY <1>1 DEF Shape, TaskSt
<1>3. /\ pc' \in [Threads -> WorkerAt \cup ClientAt]
      /\ pc'[c] = "idle"
      /\ \A t \in Threads \ {c} : pc'[t] = pc[t] \/ (t \in Workers /\ pc'[t] = "lock")
  BY <1>1 DEF SignalEffect, Sleeping, Threads
<1> QED
  BY <1>1, <1>2, <1>3, PoolAssumption DEF Shape, Threads, WorkerAt, ClientAt, BusyAt

(* Every step of every thread keeps the types, and no worker runs and no   *)
(* client adds without a task in hand.                                     *)
LEMMA ShapeStep == Shape /\ [Next]_vars => Shape'
<1> SUFFICES ASSUME Shape, [Next]_vars PROVE Shape'
    OBVIOUS
<1> USE PoolAssumption DEF Shape, Threads, WorkerAt, ClientAt, BusyAt, TaskSt
<1>1. CASE tp_init
  <2>1. ASSUME NEW w \in Workers, InitCreate(w) PROVE Shape'
    BY <2>1 DEF InitCreate
  <2>2. CASE InitDone
    <3>1. stop' \in BOOLEAN
      BY <2>2 DEF InitDone
    <3>2. active' \in Int /\ pool' \in {"creating", "live", "freed"}
      BY <2>2 DEF InitDone
    <3>3. UNCHANGED <<queue, cur, st>> /\ pc' = [pc EXCEPT ![Owner] = "idle"]
      BY <2>2 DEF InitDone
    <3> QED
      BY <3>1, <3>2, <3>3
  <2>3. CASE InitFail
    BY <2>3 DEF InitFail
  <2>4. CASE InitJoin
    BY <2>4 DEF InitJoin
  <2> QED
    BY <1>1, <2>1, <2>2, <2>3, <2>4 DEF tp_init
<1>2. CASE tp_dispose
  <2>1. CASE DisposeCall
    BY <2>1 DEF DisposeCall
  <2>2. CASE DisposeStop
    BY <2>2 DEF DisposeStop, Broadcast, Sleeping
  <2>3. CASE DisposeJoin
    BY <2>3 DEF DisposeJoin
  <2>4. CASE DisposeFree
    BY <2>4 DEF DisposeFree
  <2> QED
    BY <1>2, <2>1, <2>2, <2>3, <2>4 DEF tp_dispose
<1>3. ASSUME NEW w \in Workers, tp_worker(w) PROVE Shape'
  <2>1. CASE WorkerWait(w) \/ WorkerExit(w)
    BY <2>1 DEF WorkerWait, WorkerExit
  <2>2. CASE WorkerTake(w)
    BY <2>2 DEF WorkerTake, MustWait, MustStop
  <2>3. CASE WorkerSpawn(w)
    BY <1>3, <2>3, ShapeSpawn
  <2>4. CASE WorkerRun(w) \/ WorkerCallback(w)
    BY <2>4 DEF WorkerRun, WorkerCallback
  <2>5. CASE WorkerFinish(w)
    BY <1>3, <2>5, ShapeFinish
  <2> QED
    BY <1>3, <2>1, <2>2, <2>3, <2>4, <2>5 DEF tp_worker
<1>4. ASSUME NEW c \in Clients, InCall(c) PROVE Shape'
  <2>1. CASE AddCommit(c)
    BY <1>4, <2>1, ShapeAdd
  <2>2. CASE AddRefuse(c)
    BY <2>2 DEF AddRefuse
  <2>3. CASE WaitBlock(c) \/ WaitReturn(c)
    BY <2>3 DEF WaitBlock, WaitReturn
  <2> QED
    BY <1>4, <2>1, <2>2, <2>3 DEF InCall
<1>5. ASSUME NEW c \in Clients, NewCall(c) PROVE Shape'
  <2>1. CASE WaitCall(c)
    BY <2>1 DEF WaitCall
  <2>2. CASE Leave(c)
    BY <2>2 DEF Leave
  <2>3. ASSUME NEW t \in Tasks, AddCall(c, t) PROVE Shape'
    BY <2>3 DEF AddCall
  <2> QED
    BY <1>5, <2>1, <2>2, <2>3 DEF NewCall
<1>6. ASSUME NEW t \in Threads, SpuriousWakeup(t) PROVE Shape'
  BY <1>6 DEF SpuriousWakeup
<1>7. CASE UNCHANGED vars
  BY <1>7 DEF vars
<1> QED
  BY <1>1, <1>2, <1>3, <1>4, <1>5, <1>6, <1>7 DEF Next
-----------------------------------------------------------------------------
(* tp_init begins in the phase "creating".                                 *)
LEMMA PhaseInit == Init => Phase
<1> SUFFICES ASSUME Init PROVE Phase
    OBVIOUS
<1>1. /\ \A w \in Workers : pc[w] = "uncreated"
      /\ \A c \in Others : pc[c] = "idle"
      /\ pc[Owner] = "init"
  BY PoolAssumption DEF Init, Threads, Others
<1>2. queue = <<>> /\ stop = FALSE /\ pool = "creating"
  BY DEF Init
<1> QED
  BY <1>1, <1>2 DEF Phase, OwnerPhase, WorkerPhase

(* A task submitted from a task keeps the phases; after stop it is the     *)
(* submitting worker itself that is still there to take it.                *)
LEMMA PhaseSpawn ==
    ASSUME Shape, Phase, NEW w \in Workers, WorkerSpawn(w) PROVE Phase'
<1>1. pc[w] = "run" /\ UNCHANGED <<stop, pool>>
  BY SpawnEffect
<1>2. pool = "live"
  BY <1>1 DEF Shape, Phase, WorkerPhase
<1>3. /\ pc' \in [Threads -> WorkerAt \cup ClientAt]
      /\ \A t \in Threads : pc'[t] = pc[t] \/ (t \in Sleeping /\ pc'[t] = "lock")
  <2>1. CASE SignalEffect(w, "run", Sleeping, "lock")
    BY <1>1, <2>1 DEF Shape, SignalEffect, Sleeping, Threads
  <2>2. CASE UNCHANGED <<queue, pc>>
    BY <2>2 DEF Shape
  <2> QED
    BY <2>1, <2>2, SpawnEffect
<1>4. \A c \in Clients : pc'[c] = pc[c]
  BY <1>3, PoolAssumption DEF Sleeping, Threads
<1>5. pc'[w] = "run"
  BY <1>1, <1>3 DEF Threads, Sleeping
<1>6. \A v \in Workers : pc'[v] = pc[v] \/ (pc[v] = "blocked" /\ pc'[v] = "lock")
  BY <1>3 DEF Sleeping, Threads
<1>7. OwnerPhase'
  BY <1>1, <1>2, <1>4, PoolAssumption DEF Phase, OwnerPhase, Others
<1>8. WorkerPhase'
  BY <1>1, <1>2, <1>4, <1>5, <1>6, PoolAssumption DEF Phase, WorkerPhase, BusyAt
<1> QED
  BY <1>7, <1>8 DEF Phase

(* The end of a task keeps the phases.                                     *)
LEMMA PhaseFinish ==
    ASSUME Shape, Phase, NEW w \in Workers, WorkerFinish(w) PROVE Phase'
<1>1. pc[w] = "finish" /\ UNCHANGED <<queue, stop, pool>>
  BY FinishEffect
<1>2. pool = "live"
  BY <1>1 DEF Shape, Phase, WorkerPhase
<1>3. SignalEffect(w, "lock", Waiting, "wait")
  BY FinishEffect
<1>4. \A v \in Workers : pc'[v] = IF v = w THEN "lock" ELSE pc[v]
  BY <1>3, PoolAssumption DEF SignalEffect, Waiting, Threads
<1>5. \A c \in Clients : pc'[c] = pc[c] \/ (pc[c] = "wait_blocked" /\ pc'[c] = "wait")
  BY <1>3, PoolAssumption DEF SignalEffect, Waiting, Threads
<1>6. OwnerPhase'
  BY <1>1, <1>2, <1>5, PoolAssumption DEF Phase, OwnerPhase, Others
<1>7. WorkerPhase'
  BY <1>1, <1>2, <1>4, <1>5, PoolAssumption DEF Phase, WorkerPhase, BusyAt
<1> QED
  BY <1>6, <1>7 DEF Phase

(* A client's tp_task_add keeps the phases: the pool is live and stop is   *)
(* not set.                                                                *)
LEMMA PhaseAdd ==
    ASSUME Shape, Phase, NEW c \in Clients, AddCommit(c) PROVE Phase'
<1>1. pc[c] = "add" /\ UNCHANGED <<stop, pool>>
  BY AddEffect
<1>2. pool = "live" /\ ~stop /\ pc[Owner] \notin {"stop", "join", "drain"}
  BY <1>1, PoolAssumption DEF Shape, Phase, OwnerPhase, Others
<1>3. SignalEffect(c, "idle", Sleeping, "lock")
  BY AddEffect
<1>4. \A v \in Workers : pc'[v] = pc[v] \/ (pc[v] = "blocked" /\ pc'[v] = "lock")
  BY <1>3, PoolAssumption DEF SignalEffect, Sleeping, Threads
<1>5. \A d \in Clients : pc'[d] = IF d = c THEN "idle" ELSE pc[d]
  BY <1>3, PoolAssumption DEF SignalEffect, Sleeping, Threads
<1>6. OwnerPhase'
  BY <1>1, <1>2, <1>5, PoolAssumption DEF Phase, OwnerPhase, Others
<1>7. WorkerPhase'
  BY <1>1, <1>2, <1>4, <1>5, PoolAssumption DEF Phase, WorkerPhase, BusyAt
<1> QED
  BY <1>6, <1>7 DEF Phase

(* Every step of every thread keeps the phases.                            *)
LEMMA PhaseStep == Shape /\ Phase /\ [Next]_vars => Phase'
<1> SUFFICES ASSUME Shape, Phase, [Next]_vars PROVE Phase'
    OBVIOUS
<1>0. pc \in [Threads -> WorkerAt \cup ClientAt] /\ queue \in Seq(Tasks)
  BY DEF Shape
<1> USE PoolAssumption, <1>0 DEF Phase, OwnerPhase, WorkerPhase, Others, Threads, BusyAt
<1>1. CASE tp_init
  <2>1. ASSUME NEW w \in Workers, InitCreate(w) PROVE Phase'
    BY <2>1 DEF InitCreate
  <2>2. CASE InitDone
    BY <2>2 DEF InitDone
  <2>3. CASE InitFail
    BY <2>3 DEF InitFail
  <2>4. CASE InitJoin
    BY <2>4 DEF InitJoin
  <2> QED
    BY <1>1, <2>1, <2>2, <2>3, <2>4 DEF tp_init
<1>2. CASE tp_dispose
  <2>1. CASE DisposeCall
    BY <2>1 DEF DisposeCall
  <2>2. CASE DisposeStop
    BY <2>2 DEF DisposeStop, Broadcast, Sleeping, Shape, WorkerAt
  <2>3. CASE DisposeJoin
    BY <2>3 DEF DisposeJoin
  <2>4. CASE DisposeFree
    BY <2>4 DEF DisposeFree
  <2> QED
    BY <1>2, <2>1, <2>2, <2>3, <2>4 DEF tp_dispose
<1>3. ASSUME NEW w \in Workers, tp_worker(w) PROVE Phase'
  <2>1. CASE WorkerWait(w)
    BY <2>1 DEF WorkerWait, MustWait
  <2>2. CASE WorkerExit(w)
    BY <2>2 DEF WorkerExit, MustStop
  <2>3. CASE WorkerTake(w)
    BY <2>3 DEF WorkerTake, MustWait, MustStop
  <2>4. CASE WorkerSpawn(w)
    BY <2>4, PhaseSpawn
  <2>5. CASE WorkerRun(w)
    BY <2>5 DEF WorkerRun
  <2>6. CASE WorkerCallback(w)
    BY <2>6 DEF WorkerCallback
  <2>7. CASE WorkerFinish(w)
    BY <2>7, PhaseFinish
  <2> QED
    BY <1>3, <2>1, <2>2, <2>3, <2>4, <2>5, <2>6, <2>7 DEF tp_worker
<1>4. ASSUME NEW c \in Clients, InCall(c) PROVE Phase'
  <2>1. CASE AddCommit(c)
    BY <2>1, PhaseAdd
  <2>2. CASE AddRefuse(c)
    BY <2>2 DEF AddRefuse
  <2>3. CASE WaitBlock(c) \/ WaitReturn(c)
    BY <2>3 DEF WaitBlock, WaitReturn
  <2> QED
    BY <1>4, <2>1, <2>2, <2>3 DEF InCall
<1>5. ASSUME NEW c \in Clients, NewCall(c) PROVE Phase'
  <2>1. CASE WaitCall(c)
    BY <2>1 DEF WaitCall
  <2>2. CASE Leave(c)
    BY <2>2 DEF Leave
  <2>3. ASSUME NEW t \in Tasks, AddCall(c, t) PROVE Phase'
    BY <2>3 DEF AddCall
  <2> QED
    BY <1>5, <2>1, <2>2, <2>3 DEF NewCall
<1>6. ASSUME NEW t \in Threads, SpuriousWakeup(t) PROVE Phase'
  BY <1>6 DEF SpuriousWakeup
<1>7. CASE UNCHANGED vars
  BY <1>7 DEF vars
<1> QED
  BY <1>1, <1>2, <1>3, <1>4, <1>5, <1>6, <1>7 DEF Next
-----------------------------------------------------------------------------
(* Sets of workers are finite and no larger than the pool.                 *)
LEMMA WorkersFinite ==
    ASSUME NEW S \in SUBSET Workers
    PROVE  /\ IsFiniteSet(S)
           /\ Cardinality(S) \in Nat
           /\ Cardinality(S) <= Cardinality(Workers)
BY PoolAssumption, FS_Subset, FS_CardinalityType

(* A set of workers that gains one.                                        *)
LEMMA OneMore ==
    ASSUME NEW S \in SUBSET Workers, NEW w \in Workers, w \notin S
    PROVE  Cardinality(S \cup {w}) = Cardinality(S) + 1
BY WorkersFinite, FS_AddElement

(* A set of workers that loses one.                                        *)
LEMMA OneLess ==
    ASSUME NEW S \in SUBSET Workers, NEW w \in S
    PROVE  Cardinality(S \ {w}) = Cardinality(S) - 1
BY WorkersFinite, FS_RemoveElement

(* Which steps change the set of workers that hold a task: only taking and *)
(* finishing one.                                                          *)
LEMMA BusyStep ==
    ASSUME Shape, Phase, [Next]_vars
    PROVE  \/ active' = active /\ Busy' = Busy
           \/ \E w \in Workers \ Busy : active' = active + 1 /\ Busy' = Busy \cup {w}
           \/ \E w \in Busy : active' = active - 1 /\ Busy' = Busy \ {w}
           \/ active' = 0 /\ Busy' = {}
<1> DEFINE Goal ==
           \/ active' = active /\ Busy' = Busy
           \/ \E w \in Workers \ Busy : active' = active + 1 /\ Busy' = Busy \cup {w}
           \/ \E w \in Busy : active' = active - 1 /\ Busy' = Busy \ {w}
           \/ active' = 0 /\ Busy' = {}
<1>0. pc \in [Threads -> WorkerAt \cup ClientAt]
  BY DEF Shape
<1>1. CASE tp_init
  <2>1. ASSUME NEW w \in Workers, InitCreate(w) PROVE active' = active /\ Busy' = Busy
    BY <1>0, <2>1, PoolAssumption DEF InitCreate, Busy, BusyAt, Threads
  <2>2. CASE InitDone
    BY <1>0, <2>2, PoolAssumption
       DEF InitDone, Busy, BusyAt, Threads, Phase, OwnerPhase, WorkerPhase
  <2>3. CASE InitFail \/ InitJoin
    BY <1>0, <2>3, PoolAssumption DEF InitFail, InitJoin, Busy, BusyAt, Threads
  <2> QED
    BY <1>1, <2>1, <2>2, <2>3 DEF tp_init
<1>2. CASE tp_dispose
  BY <1>0, <1>2, PoolAssumption
     DEF tp_dispose, DisposeCall, DisposeStop, DisposeJoin, DisposeFree,
         Broadcast, Sleeping, Busy, BusyAt, Threads
<1>3. ASSUME NEW w \in Workers, tp_worker(w) PROVE Goal
  <2>1. CASE WorkerWait(w) \/ WorkerExit(w) \/ WorkerRun(w) \/ WorkerCallback(w)
    BY <1>0, <2>1 DEF WorkerWait, WorkerExit, WorkerRun, WorkerCallback, Busy, BusyAt, Threads
  <2>2. CASE WorkerTake(w)
    <3>1. w \in Workers \ Busy /\ active' = active + 1
      BY <2>2 DEF WorkerTake, Busy, BusyAt
    <3>2. Busy' = Busy \cup {w}
      BY <1>0, <2>2 DEF WorkerTake, Busy, BusyAt, Threads
    <3> QED
      BY <3>1, <3>2
  <2>3. CASE WorkerSpawn(w)
    <3>1. pc[w] = "run" /\ active' = active
      BY <2>3, SpawnEffect
    <3>2. CASE SignalEffect(w, "run", Sleeping, "lock")
      BY <1>0, <3>1, <3>2 DEF SignalEffect, Sleeping, Busy, BusyAt, Threads
    <3>3. CASE UNCHANGED <<queue, pc>>
      BY <3>1, <3>3 DEF Busy
    <3> QED
      BY <2>3, <3>2, <3>3, SpawnEffect
  <2>4. CASE WorkerFinish(w)
    <3>1. w \in Busy /\ active' = active - 1 /\ SignalEffect(w, "lock", Waiting, "wait")
      BY <2>4, FinishEffect DEF Busy, BusyAt
    <3>2. Busy' = Busy \ {w}
      BY <1>0, <3>1, PoolAssumption DEF SignalEffect, Waiting, Busy, BusyAt, Threads
    <3> QED
      BY <3>1, <3>2
  <2> QED
    BY <1>3, <2>1, <2>2, <2>3, <2>4 DEF tp_worker
<1>4. ASSUME NEW c \in Clients, InCall(c) PROVE active' = active /\ Busy' = Busy
  <2>1. CASE AddCommit(c)
    <3>1. active' = active /\ SignalEffect(c, "idle", Sleeping, "lock")
      BY <2>1, AddEffect
    <3> QED
      BY <1>0, <3>1, PoolAssumption DEF SignalEffect, Sleeping, Busy, BusyAt, Threads
  <2>2. CASE AddRefuse(c) \/ WaitBlock(c) \/ WaitReturn(c)
    BY <1>0, <2>2, PoolAssumption DEF AddRefuse, WaitBlock, WaitReturn, Busy, BusyAt, Threads
  <2> QED
    BY <1>4, <2>1, <2>2 DEF InCall
<1>5. ASSUME NEW c \in Clients, NewCall(c) PROVE active' = active /\ Busy' = Busy
  BY <1>0, <1>5, PoolAssumption DEF NewCall, WaitCall, Leave, AddCall, Busy, BusyAt, Threads
<1>6. ASSUME NEW t \in Threads, SpuriousWakeup(t) PROVE active' = active /\ Busy' = Busy
  BY <1>0, <1>6, PoolAssumption DEF SpuriousWakeup, Busy, BusyAt, Threads
<1>7. CASE UNCHANGED vars
  BY <1>7 DEF vars, Busy
<1> QED
  BY <1>1, <1>2, <1>3, <1>4, <1>5, <1>6, <1>7 DEF Next

(* No worker holds a task when tp_init begins.                             *)
LEMMA CountedInit == Init => Counted
<1> SUFFICES ASSUME Init PROVE Counted
    OBVIOUS
<1>1. Busy = {} /\ active = 0
  BY PoolAssumption DEF Init, Busy, BusyAt, Threads
<1> QED
  BY <1>1, FS_EmptySet DEF Counted

(* active_tasks keeps counting the workers that hold a task; the reset at  *)
(* the end of tp_init finds none.                                          *)
LEMMA CountedStep == Shape /\ Phase /\ Counted /\ [Next]_vars => Counted'
<1> SUFFICES ASSUME Shape, Phase, Counted, [Next]_vars PROVE Counted'
    OBVIOUS
<1>1. Busy \subseteq Workers
  BY DEF Busy
<1>2. CASE active' = active /\ Busy' = Busy
  BY <1>2 DEF Counted
<1>3. ASSUME NEW w \in Workers \ Busy, active' = active + 1, Busy' = Busy \cup {w}
      PROVE  Counted'
  BY <1>1, <1>3, OneMore DEF Counted
<1>4. ASSUME NEW w \in Busy, active' = active - 1, Busy' = Busy \ {w}
      PROVE  Counted'
  BY <1>1, <1>4, OneLess DEF Counted
<1>5. CASE active' = 0 /\ Busy' = {}
  BY <1>5, FS_EmptySet DEF Counted
<1> QED
  BY <1>2, <1>3, <1>4, <1>5, BusyStep

(* The inductive invariant.                                                *)
Inv == Shape /\ Phase /\ Counted

(* The inductive invariant holds in every state of the pool, whatever the  *)
(* number of workers, clients and tasks.                                   *)
THEOREM Invariance == Spec => []Inv
<1>1. Init => Inv
  BY ShapeInit, PhaseInit, CountedInit DEF Inv
<1>2. Inv /\ [Next]_vars => Inv'
  BY ShapeStep, PhaseStep, CountedStep DEF Inv
<1> QED
  BY <1>1, <1>2, PTL DEF Spec

(* The types of ThreadPool, and with them the bounds of active_tasks: the  *)
(* counter that thread_pool.c increments and decrements in two critical    *)
(* sections never goes below zero or above the number of workers.          *)
THEOREM TypeCorrect == Spec => []TypeOK
<1>1. Inv => TypeOK
  <2> SUFFICES ASSUME Inv PROVE TypeOK
      OBVIOUS
  <2>1. Busy \in SUBSET Workers
    BY DEF Busy
  <2>2. active \in 0..Cardinality(Workers)
    BY <2>1, WorkersFinite, PoolAssumption, FS_CardinalityType DEF Inv, Counted
  <2> QED
    BY <2>2 DEF Inv, Shape, TypeOK
<1> QED
  BY <1>1, Invariance, PTL

(* No thread touches the pool after tp_dispose (or a failed tp_init) has   *)
(* freed it: every worker that was created has exited and no client is     *)
(* inside a call.                                                          *)
THEOREM PoolFreedLast == Spec => []NoUseAfterFree
<1>1. Inv => NoUseAfterFree
  BY PoolAssumption
     DEF Inv, Shape, Phase, OwnerPhase, WorkerPhase, Others, NoUseAfterFree
<1> QED
  BY <1>1, Invariance, PTL
-----------------------------------------------------------------------------
(* tp_dispose finds nothing left to free.                                  *)
LEMMA DrainedEmpty == Inv /\ pc[Owner] = "drain" => queue = <<>>
BY DEF Inv, Phase, OwnerPhase, WorkerPhase, BusyAt

(* No step frees an accepted task unrun.                                   *)
LEMMA DroppedStep == Inv /\ NoTaskDropped /\ [Next]_vars => NoTaskDropped'
<1> SUFFICES ASSUME Inv, NoTaskDropped, [Next]_vars PROVE NoTaskDropped'
    OBVIOUS
<1>0. st \in [Tasks -> TaskSt] /\ Shape
  BY DEF Inv, Shape
<1> USE DEF NoTaskDropped
<1>1. CASE tp_init
  BY <1>1 DEF tp_init, InitCreate, InitDone, InitFail, InitJoin
<1>2. CASE tp_dispose
  <2>1. CASE DisposeFree
    <3>1. queue = <<>>
      BY <2>1, DrainedEmpty DEF DisposeFree
    <3> QED
      BY <2>1, <3>1 DEF DisposeFree
  <2> QED
    BY <1>2, <2>1 DEF tp_dispose, DisposeCall, DisposeStop, DisposeJoin
<1>3. ASSUME NEW w \in Workers, tp_worker(w) PROVE NoTaskDropped'
  <2>1. CASE WorkerTake(w)
    BY <1>0, <2>1 DEF WorkerTake
  <2>2. CASE WorkerSpawn(w)
    BY <1>0, <2>2, SpawnEffect
  <2>3. CASE WorkerRun(w) \/ WorkerCallback(w)
    BY <1>0, <2>3 DEF WorkerRun, WorkerCallback
  <2> QED
    BY <1>3, <2>1, <2>2, <2>3 DEF tp_worker, WorkerWait, WorkerExit, WorkerFinish
<1>4. ASSUME NEW c \in Clients, InCall(c) \/ NewCall(c) PROVE NoTaskDropped'
  <2>1. CASE AddCommit(c)
    BY <1>0, <2>1, AddEffect
  <2>2. CASE AddRefuse(c)
    BY <1>0, <2>2 DEF AddRefuse
  <2>3. ASSUME NEW t \in Tasks, AddCall(c, t) PROVE NoTaskDropped'
    BY <1>0, <2>3 DEF AddCall
  <2> QED
    BY <1>4, <2>1, <2>2, <2>3
       DEF InCall, NewCall, WaitBlock, WaitReturn, WaitCall, Leave
<1>5. ASSUME NEW t \in Threads, SpuriousWakeup(t) PROVE NoTaskDropped'
  BY <1>5 DEF SpuriousWakeup
<1>6. CASE UNCHANGED vars
  BY <1>6 DEF vars
<1> QED
  BY <1>1, <1>2, <1>3, <1>4, <1>5, <1>6 DEF Next

(* The loop in tp_dispose that frees what is left in the queue never finds *)
(* a task that tp_task_add accepted, tasks submitted by running tasks      *)
(* after stop included.                                                    *)
THEOREM NothingDropped == Spec => []NoTaskDropped
<1>1. Init => NoTaskDropped
  BY DEF Init, NoTaskDropped
<1> QED
  BY <1>1, DroppedStep, Invariance, PTL DEF Spec

-----------------------------------------------------------------------------
(* How a step changes the sleeping workers, the awake workers and the      *)
(* length of the queue.                                                    *)
LEMMA WakeStep ==
    ASSUME Inv, [Next]_vars
    PROVE  \/ Len(queue') = 0
           \/ Sleeping' = {}
           \/ Sleeping' \subseteq Sleeping /\ Awake \subseteq Awake' /\ queue' = queue
           \/ \E w \in Awake : /\ Sleeping' = Sleeping
                               /\ Awake' = Awake \ {w}
                               /\ Len(queue') = Len(queue) - 1
           \/ \E w \in Sleeping : /\ Awake' = Awake \cup {w}
                                  /\ Len(queue') = Len(queue) + 1
<1> DEFINE Quiet == Sleeping' \subseteq Sleeping /\ Awake \subseteq Awake' /\ queue' = queue
           More  == \/ Sleeping' = {}
                    \/ \E w \in Sleeping : /\ Awake' = Awake \cup {w}
                                           /\ Len(queue') = Len(queue) + 1
           Goal  == \/ Len(queue') = 0
                    \/ Quiet
                    \/ \E w \in Awake : /\ Sleeping' = Sleeping
                                        /\ Awake' = Awake \ {w}
                                        /\ Len(queue') = Len(queue) - 1
                    \/ More
<1>0. Shape /\ pc \in [Threads -> WorkerAt \cup ClientAt] /\ queue \in Seq(Tasks)
  BY DEF Inv, Shape
<1>1. CASE tp_init
  <2>1. ASSUME NEW w \in Workers, InitCreate(w) PROVE Quiet
    BY <1>0, <2>1 DEF InitCreate, Sleeping, Awake, Threads
  <2>2. CASE InitDone \/ InitFail \/ InitJoin
    BY <1>0, <2>2, PoolAssumption DEF InitDone, InitFail, InitJoin, Sleeping, Awake, Threads
  <2> QED
    BY <1>1, <2>1, <2>2 DEF tp_init
<1>2. CASE tp_dispose
  <2>1. CASE DisposeStop
    <3>1. Sleeping' = {}
      BY <1>0, <2>1, PoolAssumption DEF DisposeStop, Broadcast, Sleeping, Threads
    <3> QED
      BY <3>1
  <2>2. CASE DisposeFree
    BY <2>2 DEF DisposeFree
  <2>3. CASE DisposeCall \/ DisposeJoin
    BY <1>0, <2>3, PoolAssumption DEF DisposeCall, DisposeJoin, Sleeping, Awake, Threads
  <2> QED
    BY <1>2, <2>1, <2>2, <2>3 DEF tp_dispose
<1>3. ASSUME NEW w \in Workers, tp_worker(w) PROVE Goal
  <2>1. CASE WorkerWait(w) \/ WorkerExit(w)
    BY <2>1 DEF WorkerWait, WorkerExit, MustWait, MustStop
  <2>2. CASE WorkerTake(w)
    <3>1. Len(queue') = Len(queue) - 1
      BY <1>0, <2>2 DEF WorkerTake, MustWait, MustStop
    <3>2. w \in Awake /\ Sleeping' = Sleeping /\ Awake' = Awake \ {w}
      BY <1>0, <2>2 DEF WorkerTake, Sleeping, Awake, Threads
    <3> QED
      BY <3>1, <3>2
  <2>3. CASE WorkerSpawn(w)
    <3>1. CASE /\ queue' = Append(queue, Child[cur[w]])
               /\ SignalEffect(w, "run", Sleeping, "lock")
      <4>1. pc[w] = "run" /\ Child[cur[w]] \in Tasks
        BY <1>0, <2>3, SpawnEffect
      <4>2. Len(queue') = Len(queue) + 1
        BY <1>0, <3>1, <4>1
      <4>3. CASE Sleeping = {}
        BY <1>0, <3>1, <4>1, <4>3 DEF SignalEffect, Sleeping, Threads
      <4>4. ASSUME NEW b \in Sleeping, pc'[b] = "lock",
                   \A t \in Threads \ {w, b} : pc'[t] = pc[t]
            PROVE  Awake' = Awake \cup {b}
        BY <1>0, <3>1, <4>1, <4>4 DEF SignalEffect, Sleeping, Awake, Threads
      <4> QED
        BY <3>1, <4>2, <4>3, <4>4 DEF SignalEffect
    <3>2. CASE UNCHANGED <<queue, pc>>
      BY <3>2 DEF Sleeping, Awake
    <3> QED
      BY <1>0, <2>3, <3>1, <3>2, SpawnEffect
  <2>4. CASE WorkerRun(w) \/ WorkerCallback(w)
    BY <1>0, <2>4 DEF WorkerRun, WorkerCallback, Sleeping, Awake, Threads
  <2>5. CASE WorkerFinish(w)
    <3>1. SignalEffect(w, "lock", Waiting, "wait") /\ queue' = queue
      BY <1>0, <2>5, FinishEffect
    <3> QED
      BY <1>0, <3>1, PoolAssumption DEF SignalEffect, Waiting, Sleeping, Awake, Threads
  <2> QED
    BY <1>3, <2>1, <2>2, <2>3, <2>4, <2>5 DEF tp_worker
<1>4. ASSUME NEW c \in Clients, InCall(c) PROVE Goal
  <2>1. CASE AddCommit(c)
    <3>1. /\ queue' = Append(queue, cur[c]) /\ cur[c] \in Tasks
          /\ SignalEffect(c, "idle", Sleeping, "lock")
      BY <1>0, <2>1, AddEffect
    <3>2. Len(queue') = Len(queue) + 1
      BY <1>0, <3>1
    <3>3. CASE Sleeping = {}
      BY <1>0, <3>1, <3>3, PoolAssumption DEF SignalEffect, Sleeping, Threads
    <3>4. ASSUME NEW b \in Sleeping, pc'[b] = "lock",
                 \A t \in Threads \ {c, b} : pc'[t] = pc[t]
          PROVE  Awake' = Awake \cup {b}
      BY <1>0, <3>1, <3>4, PoolAssumption DEF SignalEffect, Sleeping, Awake, Threads
    <3> QED
      BY <3>1, <3>2, <3>3, <3>4 DEF SignalEffect
  <2>2. CASE AddRefuse(c) \/ WaitBlock(c) \/ WaitReturn(c)
    BY <1>0, <2>2, PoolAssumption DEF AddRefuse, WaitBlock, WaitReturn, Sleeping, Awake, Threads
  <2> QED
    BY <1>4, <2>1, <2>2 DEF InCall
<1>5. ASSUME NEW c \in Clients, NewCall(c) PROVE Quiet
  BY <1>0, <1>5, PoolAssumption DEF NewCall, WaitCall, Leave, AddCall, Sleeping, Awake, Threads
<1>6. ASSUME NEW t \in Threads, SpuriousWakeup(t) PROVE Quiet
  BY <1>0, <1>6, PoolAssumption DEF SpuriousWakeup, Sleeping, Awake, Threads
<1>7. CASE UNCHANGED vars
  BY <1>7 DEF vars, Sleeping, Awake
<1> QED
  BY <1>1, <1>2, <1>3, <1>4, <1>5, <1>6, <1>7 DEF Next

(* No step leaves a worker asleep with more tasks queued than workers      *)
(* awake.                                                                  *)
LEMMA ConservingStep == Inv /\ WorkConserving /\ [Next]_vars => WorkConserving'
<1> SUFFICES ASSUME Inv, WorkConserving, [Next]_vars, Sleeping' # {}
             PROVE  Len(queue') <= Cardinality(Awake')
    BY DEF WorkConserving
<1>0. /\ Awake \in SUBSET Workers /\ Awake' \in SUBSET Workers
      /\ Sleeping \in SUBSET Workers /\ Len(queue) \in Nat
  BY DEF Awake, Sleeping, Inv, Shape
<1>1. Cardinality(Awake) \in Nat /\ Cardinality(Awake') \in Nat
  BY <1>0, WorkersFinite
<1>2. Sleeping # {} => Len(queue) <= Cardinality(Awake)
  BY DEF WorkConserving
<1>3. CASE Len(queue') = 0
  BY <1>1, <1>3
<1>4. CASE Sleeping' \subseteq Sleeping /\ Awake \subseteq Awake' /\ queue' = queue
  <2>1. Cardinality(Awake) <= Cardinality(Awake')
    BY <1>0, <1>4, WorkersFinite, FS_Subset
  <2> QED
    BY <1>0, <1>1, <1>2, <1>4, <2>1
<1>5. ASSUME NEW w \in Awake, Sleeping' = Sleeping, Awake' = Awake \ {w},
             Len(queue') = Len(queue) - 1
      PROVE  Len(queue') <= Cardinality(Awake')
  <2>1. Cardinality(Awake') = Cardinality(Awake) - 1
    BY <1>0, <1>5, OneLess
  <2> QED
    BY <1>0, <1>1, <1>2, <1>5, <2>1
<1>6. ASSUME NEW w \in Sleeping, Awake' = Awake \cup {w},
             Len(queue') = Len(queue) + 1
      PROVE  Len(queue') <= Cardinality(Awake')
  <2>1. w \notin Awake
    BY <1>6 DEF Sleeping, Awake
  <2>2. Cardinality(Awake') = Cardinality(Awake) + 1
    BY <1>0, <1>6, <2>1, OneMore
  <2> QED
    BY <1>0, <1>1, <1>2, <1>6, <2>2
<1> QED
  BY <1>3, <1>4, <1>5, <1>6, WakeStep

(* One pthread_cond_signal per task is enough: while a worker sleeps, the  *)
(* queue never holds more tasks than there are workers on their way to the *)
(* mutex.                                                                  *)
THEOREM NoLostWakeup == Spec => []WorkConserving
<1>1. Init => WorkConserving
  BY PoolAssumption DEF Init, WorkConserving, Sleeping, Threads
<1> QED
  BY <1>1, ConservingStep, Invariance, PTL DEF Spec
=============================================================================
