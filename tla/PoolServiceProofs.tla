-------------------------- MODULE PoolServiceProofs -------------------------
(***************************************************************************)
(* ThreadPool implements TaskService, and tp_wait returns only when every  *)
(* accepted task has run, for any number of workers, clients and tasks.    *)
(***************************************************************************)
EXTENDS ThreadPoolProofs

(* A thread with a task in hand: a client in tp_task_add, a worker between *)
(* taking the task and freeing it.                                         *)
Hands == {"add", "run", "callback"}

(* The queue holds the accepted tasks that nobody has taken, each once.    *)
Queued ==
    /\ \A i, j \in 1..Len(queue) : queue[i] = queue[j] => i = j
    /\ \A i \in 1..Len(queue) : st[queue[i]] = "queued"
    /\ \A t \in Tasks : st[t] = "queued" => \E i \in 1..Len(queue) : queue[i] = t

(* What a thread has in hand is in the state that goes with where the      *)
(* thread is, no two threads have the same task in hand, and a task that   *)
(* runs is in the hands of a worker.                                       *)
Held ==
    /\ \A h \in Threads : /\ pc[h] = "add" => st[cur[h]] = "adding"
                          /\ pc[h] = "run" => st[cur[h]] = "running"
                          /\ pc[h] = "callback" => st[cur[h]] = "ran"
    /\ \A g, h \in Threads :
          g # h /\ pc[g] \in Hands /\ pc[h] \in Hands => cur[g] # cur[h]
    /\ \A t \in Tasks : st[t] \in {"running", "ran"} =>
          \E w \in Workers : pc[w] \in {"run", "callback"} /\ cur[w] = t

Book == Queued /\ Held

-----------------------------------------------------------------------------
(* Nothing changes for the threads outside S as far as tasks in hand go.   *)
HandsKept(S) ==
    \A h \in Threads \ S : \/ pc'[h] = pc[h] /\ cur'[h] = cur[h]
                           \/ pc[h] \notin Hands /\ pc'[h] \notin Hands

(* A step that moves no task keeps the books: creating, waking, waiting,   *)
(* joining and leaving, and the decrement at the end of a task.            *)
LEMMA BookQuiet ==
    ASSUME Shape, Book, HandsKept({}), UNCHANGED <<queue, st>>
    PROVE  Book'
<1>1. Queued'
  BY DEF Book, Queued
<1>2. /\ \A h \in Threads : /\ pc'[h] = "add" => st[cur'[h]] = "adding"
                            /\ pc'[h] = "run" => st[cur'[h]] = "running"
                            /\ pc'[h] = "callback" => st[cur'[h]] = "ran"
      /\ \A g, h \in Threads :
            g # h /\ pc'[g] \in Hands /\ pc'[h] \in Hands => cur'[g] # cur'[h]
  BY DEF Book, Held, HandsKept, Hands
<1>3. \A t \in Tasks : st[t] \in {"running", "ran"} =>
          \E w \in Workers : pc'[w] \in {"run", "callback"} /\ cur'[w] = t
  BY DEF Book, Held, HandsKept, Hands, Threads
<1> QED
  BY <1>1, <1>2, <1>3 DEF Book, Held

(* linked_list_item_add at the tail of the queue: t becomes queued.        *)
LEMMA QueuedAppend ==
    ASSUME Shape, Queued, NEW t \in Tasks, st[t] # "queued",
           queue' = Append(queue, t), st' = [st EXCEPT ![t] = "queued"]
    PROVE  Queued'
<1>1. queue \in Seq(Tasks) /\ st \in [Tasks -> TaskSt]
  BY DEF Shape
<1>2. /\ Len(queue') = Len(queue) + 1 /\ Len(queue) \in Nat
      /\ queue'[Len(queue) + 1] = t
      /\ \A i \in 1..Len(queue) : queue'[i] = queue[i] /\ queue[i] \in Tasks
  BY <1>1
<1>3. \A i \in 1..Len(queue) : queue[i] # t
  BY DEF Queued
<1>4. \A i \in 1..Len(queue') : i \in 1..Len(queue) \/ i = Len(queue) + 1
  BY <1>2
<1>5. \A i, j \in 1..Len(queue') : queue'[i] = queue'[j] => i = j
  BY <1>2, <1>3, <1>4 DEF Queued
<1>6. \A i \in 1..Len(queue') : st'[queue'[i]] = "queued"
  BY <1>1, <1>2, <1>4 DEF Queued
<1>7. ASSUME NEW u \in Tasks, st'[u] = "queued"
      PROVE  \E i \in 1..Len(queue') : queue'[i] = u
  <2>1. CASE u = t
    BY <1>2, <2>1
  <2>2. CASE u # t
    <3>1. PICK i \in 1..Len(queue) : queue[i] = u
      BY <1>1, <1>7, <2>2 DEF Queued
    <3>2. i \in 1..Len(queue') /\ queue'[i] = u
      BY <1>2, <3>1
    <3> QED
      BY <3>2
  <2> QED
    BY <2>1, <2>2
<1> QED
  BY <1>5, <1>6, <1>7 DEF Queued

(* Taking the head out of the queue: it is no longer queued.               *)
LEMMA QueuedTail ==
    ASSUME Shape, Queued, queue # <<>>,
           queue' = Tail(queue), st' = [st EXCEPT ![Head(queue)] = "running"]
    PROVE  Queued'
<1>1. queue \in Seq(Tasks) /\ st \in [Tasks -> TaskSt]
  BY DEF Shape
<1>2. /\ Len(queue) \in Nat /\ Len(queue) >= 1
      /\ Len(queue') = Len(queue) - 1
      /\ Head(queue) = queue[1]
      /\ \A i \in 1..Len(queue') : i + 1 \in 1..Len(queue) /\ queue'[i] = queue[i + 1]
      /\ \A i \in 1..Len(queue) : queue[i] \in Tasks
  BY <1>1
<1>3. \A i, j \in 1..Len(queue') : queue'[i] = queue'[j] => i = j
  <2> TAKE i, j \in 1..Len(queue')
  <2> HAVE queue'[i] = queue'[j]
  <2>1. queue[i + 1] = queue[j + 1] /\ i + 1 \in 1..Len(queue) /\ j + 1 \in 1..Len(queue)
    BY <1>2
  <2>2. i + 1 = j + 1
    BY <2>1 DEF Queued
  <2> QED
    BY <1>2, <2>2
<1>4. \A i \in 1..Len(queue') : st'[queue'[i]] = "queued"
  <2> TAKE i \in 1..Len(queue')
  <2>1. i + 1 \in 1..Len(queue) /\ queue'[i] = queue[i + 1] /\ 1 \in 1..Len(queue) /\ i + 1 # 1
    BY <1>2
  <2>2. queue[i + 1] # queue[1] /\ st[queue[i + 1]] = "queued"
    BY <2>1 DEF Queued
  <2> QED
    BY <1>1, <1>2, <2>1, <2>2
<1>5. ASSUME NEW u \in Tasks, st'[u] = "queued"
      PROVE  \E i \in 1..Len(queue') : queue'[i] = u
  <2>1. st[u] = "queued" /\ u # queue[1]
    BY <1>1, <1>2, <1>5
  <2>2. PICK i \in 1..Len(queue) : queue[i] = u
    BY <2>1 DEF Queued
  <2>3. i - 1 \in 1..Len(queue')
    BY <1>2, <2>1, <2>2
  <2>4. queue'[i - 1] = queue[(i - 1) + 1] /\ (i - 1) + 1 = i
    BY <1>2, <2>3
  <2> QED
    BY <2>2, <2>3, <2>4
<1> QED
  BY <1>3, <1>4, <1>5 DEF Queued
(* A task that is not in the queue changes state and stays out of it.      *)
LEMMA QueuedOther ==
    ASSUME Shape, Queued, NEW t \in Tasks, NEW x \in TaskSt \ {"queued"},
           st[t] # "queued", queue' = queue, st' = [st EXCEPT ![t] = x]
    PROVE  Queued'
BY DEF Shape, Queued

(* A step that changes the state of one task, which is not in the hands of *)
(* a thread other than self.  After it self has t in hand where that state *)
(* says, or t does not run.                                                *)
LEMMA HeldChange ==
    ASSUME Shape, Held, NEW self \in Threads, NEW t \in Tasks, NEW x \in TaskSt,
           HandsKept({self}), st' = [st EXCEPT ![t] = x],
           \A h \in Threads \ {self} : pc[h] \in Hands => cur[h] # t,
           pc[self] \in {"run", "callback"} => cur[self] = t,
           \/ pc'[self] \notin Hands /\ x \notin {"running", "ran"}
           \/ /\ self \in Workers /\ cur'[self] = t
              /\ <<pc'[self], x>> \in {<<"run", "running">>, <<"callback", "ran">>}
           \/ self \notin Workers /\ cur'[self] = t /\ pc'[self] = "add" /\ x = "adding"
    PROVE  Held'
<1>0. /\ st \in [Tasks -> TaskSt]
      /\ \A h \in Threads : pc[h] \in Hands => cur[h] \in Tasks
  BY DEF Shape, Hands, BusyAt, Threads, WorkerAt, ClientAt
<1>1. ASSUME NEW h \in Threads
      PROVE  /\ pc'[h] = "add" => st'[cur'[h]] = "adding"
             /\ pc'[h] = "run" => st'[cur'[h]] = "running"
             /\ pc'[h] = "callback" => st'[cur'[h]] = "ran"
  <2>1. CASE h = self
    BY <1>0, <2>1 DEF Hands
  <2>2. CASE h # self
    BY <1>0, <1>1, <2>2 DEF Held, HandsKept, Hands
  <2> QED
    BY <2>1, <2>2
<1>2. ASSUME NEW g \in Threads, NEW h \in Threads,
             g # h, pc'[g] \in Hands, pc'[h] \in Hands
      PROVE  cur'[g] # cur'[h]
  BY <1>2 DEF Held, HandsKept, Hands
<1>3. ASSUME NEW u \in Tasks, st'[u] \in {"running", "ran"}
      PROVE  \E w \in Workers : pc'[w] \in {"run", "callback"} /\ cur'[w] = u
  <2>1. CASE u = t
    BY <1>0, <1>3, <2>1
  <2>2. CASE u # t
    <3>1. PICK w \in Workers : pc[w] \in {"run", "callback"} /\ cur[w] = u
      BY <1>0, <1>3, <2>2 DEF Held
    <3>2. w # self /\ w \in Threads
      BY <2>2, <3>1 DEF Threads
    <3> QED
      BY <3>1, <3>2 DEF HandsKept, Hands
  <2> QED
    BY <2>1, <2>2
<1> QED
  BY <1>1, <1>2, <1>3 DEF Held

(* A task that nobody has in hand is queued or refused: the submission     *)
(* made by a running task.                                                 *)
LEMMA HeldElsewhere ==
    ASSUME Shape, Held, NEW t \in Tasks, NEW x \in TaskSt \ {"running", "ran"},
           HandsKept({}), st' = [st EXCEPT ![t] = x], st[t] = "new"
    PROVE  Held'
<1>0. /\ st \in [Tasks -> TaskSt]
      /\ \A h \in Threads : pc[h] \in Hands => cur[h] \in Tasks /\ cur[h] # t
  BY DEF Shape, Held, Hands, BusyAt, Threads, WorkerAt, ClientAt
<1>1. /\ \A h \in Threads : /\ pc'[h] = "add" => st'[cur'[h]] = "adding"
                            /\ pc'[h] = "run" => st'[cur'[h]] = "running"
                            /\ pc'[h] = "callback" => st'[cur'[h]] = "ran"
      /\ \A g, h \in Threads :
            g # h /\ pc'[g] \in Hands /\ pc'[h] \in Hands => cur'[g] # cur'[h]
  BY <1>0 DEF Held, HandsKept, Hands
<1>2. ASSUME NEW u \in Tasks, st'[u] \in {"running", "ran"}
      PROVE  \E w \in Workers : pc'[w] \in {"run", "callback"} /\ cur'[w] = u
  <2>1. PICK w \in Workers : pc[w] \in {"run", "callback"} /\ cur[w] = u
    BY <1>0, <1>2 DEF Held
  <2> QED
    BY <2>1 DEF HandsKept, Hands, Threads
<1> QED
  BY <1>1, <1>2 DEF Held

(* No task has been submitted when tp_init begins.                         *)
LEMMA BookInit == Init => Book
<1> SUFFICES ASSUME Init PROVE Book
    OBVIOUS
<1>1. Len(queue) = 0 /\ \A t \in Tasks : st[t] = "new"
  BY DEF Init
<1>2. \A h \in Threads : pc[h] \notin Hands
  BY DEF Init, Hands
<1> QED
  BY <1>1, <1>2 DEF Book, Queued, Held, Hands

(* What a signal does to the tasks in hand: nothing, but for the thread    *)
(* that sends it.                                                          *)
LEMMA SignalKeepsHands ==
    ASSUME NEW self \in Threads, NEW next, NEW blocked, NEW resume \in {"lock", "wait"},
           SignalEffect(self, next, blocked, resume),
           blocked \subseteq {h \in Threads : pc[h] \in {"blocked", "wait_blocked"}},
           \A h \in Threads \ {self} : cur'[h] = cur[h]
    PROVE  HandsKept({self})
BY DEF SignalEffect, HandsKept, Hands

(* Every step of every thread keeps the books.                             *)
LEMMA BookStep == Inv /\ Book /\ [Next]_vars => Book'
<1> SUFFICES ASSUME Inv, Book, [Next]_vars PROVE Book'
    OBVIOUS
<1>0. /\ Shape /\ Queued /\ Held
      /\ pc \in [Threads -> WorkerAt \cup ClientAt]
      /\ cur \in [Threads -> Tasks \cup {NoTask}]
      /\ st \in [Tasks -> TaskSt]
      /\ Owner \in Threads
  BY PoolAssumption DEF Inv, Shape, Book, Threads
<1>1. CASE tp_init
  <2>1. UNCHANGED <<queue, st>>
    BY <1>1 DEF tp_init, InitCreate, InitDone, InitFail, InitJoin
  <2>2. HandsKept({})
    BY <1>0, <1>1 DEF tp_init, InitCreate, InitDone, InitFail, InitJoin, HandsKept, Hands
  <2> QED
    BY <1>0, <2>1, <2>2, BookQuiet
<1>2. CASE tp_dispose
  <2>1. queue' = queue
    BY <1>2, DrainedEmpty DEF tp_dispose, DisposeCall, DisposeStop, DisposeJoin, DisposeFree
  <2>2. st' = st
    <3>1. CASE DisposeFree
      BY <1>0, <3>1, DrainedEmpty DEF DisposeFree
    <3> QED
      BY <1>2, <3>1 DEF tp_dispose, DisposeCall, DisposeStop, DisposeJoin
  <2>3. HandsKept({})
    BY <1>0, <1>2
       DEF tp_dispose, DisposeCall, DisposeStop, DisposeJoin, DisposeFree, Broadcast,
           Sleeping, HandsKept, Hands
  <2> QED
    BY <1>0, <2>1, <2>2, <2>3, BookQuiet
<1>3. ASSUME NEW w \in Workers, tp_worker(w) PROVE Book'
  <2>0. w \in Threads
    BY DEF Threads
  <2>1. CASE WorkerWait(w) \/ WorkerExit(w)
    <3>1. HandsKept({}) /\ UNCHANGED <<queue, st>>
      BY <1>0, <2>0, <2>1 DEF WorkerWait, WorkerExit, HandsKept, Hands
    <3> QED
      BY <1>0, <3>1, BookQuiet
  <2>2. CASE WorkerTake(w)
    <3> DEFINE t == Head(queue)
    <3>1. /\ queue # <<>> /\ pc[w] = "lock" /\ pc'[w] = "run" /\ cur'[w] = t
          /\ queue' = Tail(queue) /\ st' = [st EXCEPT ![t] = "running"]
      BY <1>0, <2>0, <2>2 DEF WorkerTake, MustWait, MustStop
    <3>2. t \in Tasks /\ st[t] = "queued" /\ "running" \in TaskSt
      BY <1>0, <3>1 DEF Shape, Queued, TaskSt
    <3>3. HandsKept({w})
      BY <1>0, <2>0, <2>2 DEF WorkerTake, HandsKept
    <3>4. \A h \in Threads : pc[h] \in Hands => cur[h] # t
      BY <1>0, <3>2 DEF Held, Hands
    <3> HIDE DEF t
    <3>5. Held'
      BY <1>0, <2>0, <3>1, <3>2, <3>3, <3>4, HeldChange DEF Hands
    <3>6. Queued'
      BY <1>0, <3>1, QueuedTail DEF t
    <3> QED
      BY <3>5, <3>6 DEF Book
  <2>3. CASE WorkerSpawn(w)
    <3> DEFINE child == Child[cur[w]]
    <3>1. child \in Tasks /\ st[child] = "new" /\ cur' = cur /\ pc[w] = "run"
      BY <1>0, <2>3, SpawnEffect
    <3>2. CASE /\ queue' = Append(queue, child) /\ st' = [st EXCEPT ![child] = "queued"]
               /\ SignalEffect(w, "run", Sleeping, "lock")
      <4>1. HandsKept({w})
        BY <1>0, <2>0, <3>1, <3>2, SignalKeepsHands DEF Sleeping, Threads
      <4>2. HandsKept({})
        BY <2>0, <3>1, <3>2, <4>1 DEF SignalEffect, HandsKept
      <4> HIDE DEF child
      <4>3. "queued" \in TaskSt \ {"running", "ran"}
        BY DEF TaskSt
      <4>4. Held'
        BY <1>0, <3>1, <3>2, <4>2, <4>3, HeldElsewhere
      <4>5. Queued'
        BY <1>0, <3>1, <3>2, QueuedAppend
      <4> QED
        BY <4>4, <4>5 DEF Book
    <3>3. CASE st' = [st EXCEPT ![child] = "refused"] /\ UNCHANGED <<queue, pc>>
      <4>1. HandsKept({}) /\ "refused" \in TaskSt \ {"queued", "running", "ran"}
        BY <3>1, <3>3 DEF HandsKept, TaskSt
      <4> HIDE DEF child
      <4>2. Held'
        BY <1>0, <3>1, <3>3, <4>1, HeldElsewhere
      <4>3. Queued'
        BY <1>0, <3>1, <3>3, <4>1, QueuedOther
      <4> QED
        BY <4>2, <4>3 DEF Book
    <3> QED
      BY <1>0, <2>3, <3>2, <3>3, SpawnEffect
  <2>4. CASE WorkerRun(w) \/ WorkerCallback(w)
    <3> DEFINE t == cur[w]
    <3>1. PICK x \in {"ran", "done"} :
             /\ queue' = queue /\ cur' = cur /\ st' = [st EXCEPT ![t] = x]
             /\ pc[w] \in {"run", "callback"}
             /\ \/ x = "ran" /\ pc' = [pc EXCEPT ![w] = "callback"]
                \/ x = "done" /\ pc' = [pc EXCEPT ![w] = "finish"]
      BY <2>4 DEF WorkerRun, WorkerCallback
    <3>2. t \in Tasks /\ x \in TaskSt \ {"queued"} /\ st[t] # "queued"
      BY <1>0, <2>0, <3>1 DEF Shape, Held, BusyAt, TaskSt
    <3>3. HandsKept({w}) /\ \A h \in Threads \ {w} : pc[h] \in Hands => cur[h] # t
      BY <1>0, <2>0, <3>1 DEF HandsKept, Held, Hands
    <3>4. cur'[w] = t /\ pc'[w] = IF x = "ran" THEN "callback" ELSE "finish"
      BY <1>0, <2>0, <3>1
    <3> HIDE DEF t
    <3>5. Held'
      BY <1>0, <2>0, <3>1, <3>2, <3>3, <3>4, HeldChange DEF Hands, t
    <3>6. Queued'
      BY <1>0, <3>1, <3>2, QueuedOther
    <3> QED
      BY <3>5, <3>6 DEF Book
  <2>5. CASE WorkerFinish(w)
    <3>1. /\ pc[w] = "finish" /\ cur' = [cur EXCEPT ![w] = NoTask]
          /\ UNCHANGED <<queue, st>> /\ SignalEffect(w, "lock", Waiting, "wait")
      BY <1>0, <2>5, FinishEffect
    <3>2. HandsKept({w})
      BY <1>0, <2>0, <3>1, SignalKeepsHands DEF Waiting, Threads
    <3>3. HandsKept({})
      BY <2>0, <3>1, <3>2 DEF SignalEffect, HandsKept, Hands
    <3> QED
      BY <1>0, <3>1, <3>3, BookQuiet
  <2> QED
    BY <1>3, <2>1, <2>2, <2>3, <2>4, <2>5 DEF tp_worker
<1>4. ASSUME NEW c \in Clients, InCall(c) PROVE Book'
  <2>0. c \in Threads /\ c \notin Workers
    BY PoolAssumption DEF Threads
  <2> DEFINE t == cur[c]
  <2>1. CASE AddCommit(c) \/ AddRefuse(c)
    <3>1. PICK x \in {"queued", "refused"} :
             /\ pc[c] = "add" /\ t \in Tasks /\ pc'[c] = "idle"
             /\ st' = [st EXCEPT ![t] = x]
             /\ HandsKept({c})
             /\ queue' = IF x = "queued" THEN Append(queue, t) ELSE queue
      <4>1. CASE AddCommit(c)
        <5>1. /\ pc[c] = "add" /\ t \in Tasks /\ st' = [st EXCEPT ![t] = "queued"]
              /\ queue' = Append(queue, t) /\ cur' = [cur EXCEPT ![c] = NoTask]
              /\ SignalEffect(c, "idle", Sleeping, "lock")
          BY <1>0, <4>1, AddEffect
        <5>2. HandsKept({c})
          BY <1>0, <2>0, <5>1, SignalKeepsHands DEF Sleeping, Threads
        <5> QED
          BY <5>1, <5>2 DEF SignalEffect
      <4>2. CASE AddRefuse(c)
        BY <1>0, <2>0, <4>2 DEF AddRefuse, HandsKept, Shape
      <4> QED
        BY <2>1, <4>1, <4>2
    <3>2. x \in TaskSt \ {"running", "ran"} /\ st[t] = "adding"
      BY <1>0, <2>0, <3>1 DEF Held, TaskSt
    <3>3. \A h \in Threads \ {c} : pc[h] \in Hands => cur[h] # t
      BY <1>0, <2>0, <3>1 DEF Held, Hands
    <3> HIDE DEF t
    <3>4. Held'
      BY <1>0, <2>0, <3>1, <3>2, <3>3, HeldChange DEF Hands
    <3>5. Queued'
      BY <1>0, <3>1, <3>2, QueuedAppend, QueuedOther
    <3> QED
      BY <3>4, <3>5 DEF Book
  <2>2. CASE WaitBlock(c) \/ WaitReturn(c)
    <3>1. HandsKept({}) /\ UNCHANGED <<queue, st>>
      BY <1>0, <2>0, <2>2 DEF WaitBlock, WaitReturn, HandsKept, Hands
    <3> QED
      BY <1>0, <3>1, BookQuiet
  <2> QED
    BY <1>4, <2>1, <2>2 DEF InCall
<1>5. ASSUME NEW c \in Clients, NewCall(c) PROVE Book'
  <2>0. c \in Threads /\ c \notin Workers
    BY PoolAssumption DEF Threads
  <2>1. CASE WaitCall(c) \/ Leave(c)
    <3>1. HandsKept({}) /\ UNCHANGED <<queue, st>>
      BY <1>0, <2>0, <2>1 DEF WaitCall, Leave, HandsKept, Hands
    <3> QED
      BY <1>0, <3>1, BookQuiet
  <2>2. ASSUME NEW t \in Tasks, AddCall(c, t) PROVE Book'
    <3>1. /\ st[t] = "new" /\ st' = [st EXCEPT ![t] = "adding"] /\ queue' = queue
          /\ pc[c] = "idle" /\ pc'[c] = "add" /\ cur'[c] = t /\ HandsKept({c})
      BY <1>0, <2>0, <2>2 DEF AddCall, HandsKept
    <3>2. "adding" \in TaskSt \ {"queued"}
      BY DEF TaskSt
    <3>3. \A h \in Threads : pc[h] \in Hands => cur[h] # t
      BY <1>0, <3>1 DEF Held, Hands
    <3>4. Held'
      BY <1>0, <2>0, <3>1, <3>2, <3>3, HeldChange DEF Hands
    <3>5. Queued'
      BY <1>0, <3>1, <3>2, QueuedOther
    <3> QED
      BY <3>4, <3>5 DEF Book
  <2> QED
    BY <1>5, <2>1, <2>2 DEF NewCall
<1>6. ASSUME NEW t \in Threads, SpuriousWakeup(t) PROVE Book'
  <2>1. HandsKept({}) /\ UNCHANGED <<queue, st>>
    BY <1>0, <1>6 DEF SpuriousWakeup, HandsKept, Hands
  <2> QED
    BY <1>0, <2>1, BookQuiet
<1>7. CASE UNCHANGED vars
  BY <1>0, <1>7, BookQuiet DEF vars, HandsKept
<1> QED
  BY <1>1, <1>2, <1>3, <1>4, <1>5, <1>6, <1>7 DEF Next

(* The queue and the states of the tasks agree with what the threads have  *)
(* in hand, whatever the number of workers, clients and tasks: no task is  *)
(* in the queue twice, run twice, or lost between two critical sections.   *)
THEOREM Bookkeeping == Spec => []Book
<1> QED
  BY BookInit, BookStep, Invariance, PTL DEF Spec

-----------------------------------------------------------------------------
(* Where tp_wait finds nothing unfinished, nothing is: the two tests in    *)
(* its loop see every accepted task.                                       *)
LEMMA IdleWhenFinished ==
    ASSUME Inv, Book, ~Unfinished
    PROVE  /\ Busy = {}
           /\ \A t \in Tasks : st[t] \notin {"queued", "running", "ran"}
<1>1. Busy \in SUBSET Workers
  BY DEF Busy
<1>2. Cardinality(Busy) = 0
  BY <1>1, WorkersFinite DEF Unfinished, Inv, Counted
<1>3. Busy = {}
  BY <1>1, <1>2, WorkersFinite, FS_EmptySet
<1>4. \A t \in Tasks : st[t] # "queued"
  BY DEF Unfinished, Book, Queued
<1>5. \A t \in Tasks : st[t] \notin {"running", "ran"}
  BY <1>3 DEF Book, Held, Busy, BusyAt
<1> QED
  BY <1>3, <1>4, <1>5

(* No other step takes a client out of tp_wait.                            *)
LEMMA OnlyReturnLeaves ==
    ASSUME Inv, [Next]_vars, NEW c \in Clients, pc[c] = "wait", pc'[c] = "idle"
    PROVE  ~Unfinished
<1>0. pc \in [Threads -> WorkerAt \cup ClientAt] /\ c \in Threads /\ c \notin Workers
  BY PoolAssumption DEF Inv, Shape, Threads
<1>1. CASE tp_init
  BY <1>0, <1>1 DEF tp_init, InitCreate, InitDone, InitFail, InitJoin
<1>2. CASE tp_dispose
  BY <1>0, <1>2
     DEF tp_dispose, DisposeCall, DisposeStop, DisposeJoin, DisposeFree, Broadcast, Sleeping
<1>3. ASSUME NEW w \in Workers, tp_worker(w) PROVE FALSE
  BY <1>0, <1>3
     DEF tp_worker, WorkerWait, WorkerExit, WorkerTake, WorkerSpawn, WorkerRun,
         WorkerCallback, WorkerFinish, Signal, Sleeping, Waiting
<1>4. ASSUME NEW d \in Clients, InCall(d) PROVE ~Unfinished
  BY <1>0, <1>4
     DEF InCall, AddCommit, AddRefuse, WaitBlock, WaitReturn, Signal, Sleeping, Threads
<1>5. ASSUME NEW d \in Clients, NewCall(d) PROVE FALSE
  BY <1>0, <1>5 DEF NewCall, WaitCall, Leave, AddCall, Threads
<1>6. ASSUME NEW t \in Threads, SpuriousWakeup(t) PROVE FALSE
  BY <1>0, <1>6 DEF SpuriousWakeup
<1>7. CASE UNCHANGED vars
  BY <1>7 DEF vars
<1> QED
  BY <1>1, <1>2, <1>3, <1>4, <1>5, <1>6, <1>7 DEF Next

(* tp_wait returns only when every task accepted until then has run to the *)
(* end of its callback and no worker holds a task any more, although it    *)
(* is woken by a single signal that may be stolen or spurious.             *)
THEOREM WaitReturnsIdle == Spec => WaitMeansIdle
<1>1. ASSUME Inv, Book, [Next]_vars, NEW c \in Clients, pc[c] = "wait", pc'[c] = "idle"
      PROVE  /\ Busy = {}
             /\ \A t \in Tasks : st[t] \notin {"queued", "running", "ran"}
  BY <1>1, OnlyReturnLeaves, IdleWhenFinished
<1>2. Inv /\ Book /\ [Next]_vars =>
        [\A c \in Clients :
           pc[c] = "wait" /\ pc'[c] = "idle" =>
               /\ Busy = {}
               /\ \A t \in Tasks : st[t] \notin {"queued", "running", "ran"}]_vars
  BY <1>1
<1> QED
  BY <1>2, Invariance, Bookkeeping, PTL DEF Spec, WaitMeansIdle

-----------------------------------------------------------------------------
(* What the callers of the pool see of the state, next to the queue.       *)
Running == {t \in Tasks : st[t] \in {"running", "ran"}}
Done    == {t \in Tasks : st[t] = "done"}

(* A worker about to take a task has none in hand, so fewer tasks run than *)
(* there are workers.                                                      *)
LEMMA RoomToStart ==
    ASSUME Inv, Book, NEW w \in Workers, pc[w] = "lock"
    PROVE  Cardinality(Running) < Cardinality(Workers)
<1> DEFINE Runs(v, t) == pc[v] \in {"run", "callback"} /\ cur[v] = t
           f == [t \in Running |-> CHOOSE v \in Workers : Runs(v, t)]
<1>1. \A t \in Running : f[t] \in Workers /\ Runs(f[t], t)
  BY DEF Book, Held, Running
<1>2. \A t \in Running : f[t] \in Workers \ {w}
  BY <1>1
<1>3. \A t, u \in Running : f[t] = f[u] => t = u
  BY <1>1
<1>4. f \in Injection(Running, Workers \ {w})
  <2> HIDE DEF Runs
  <2>1. f \in [Running -> Workers \ {w}]
    BY <1>2
  <2>2. IsInjective(f)
    BY <1>3 DEF IsInjective
  <2> QED
    BY <2>1, <2>2 DEF Injection
<1>5. IsFiniteSet(Workers \ {w}) /\ Cardinality(Workers \ {w}) = Cardinality(Workers) - 1
  BY WorkersFinite, OneLess
<1> HIDE DEF f
<1>6. IsFiniteSet(Running) /\ Cardinality(Running) <= Cardinality(Workers \ {w})
  BY <1>4, <1>5, FS_Injection
<1>7. Cardinality(Running) \in Nat /\ Cardinality(Workers) \in Nat
  BY <1>6, PoolAssumption, FS_CardinalityType
<1> QED
  BY <1>5, <1>6, <1>7

(* tp_task_add, from a client or from a task, is the service's Accept.     *)
LEMMA AcceptStep ==
    ASSUME Inv, Book, NEW t \in Tasks, st[t] \in {"new", "adding"}, pool = "live",
           queue' = Append(queue, t), st' = [st EXCEPT ![t] = "queued"], pool' = pool
    PROVE  Service!Accept(t)
<1>1. Running' = Running /\ Done' = Done
  BY DEF Running, Done, Inv, Shape
<1>2. t \notin Running /\ t \notin Done
  BY DEF Running, Done
<1>3. t \notin {queue[i] : i \in DOMAIN queue}
  BY DEF Book, Queued, Inv, Shape
<1> QED
  BY <1>1, <1>2, <1>3 DEF Service!Accept, Service!InService, Running, Done

(* A worker that takes the head of the queue is the service's Start.       *)
LEMMA StartStep ==
    ASSUME Inv, Book, NEW w \in Workers, WorkerTake(w)
    PROVE  Service!Start
<1>1. /\ queue # <<>> /\ queue' = Tail(queue) /\ pool' = pool /\ pc[w] = "lock"
      /\ st' = [st EXCEPT ![Head(queue)] = "running"]
  BY DEF WorkerTake, MustWait, MustStop
<1>2. Head(queue) \in Tasks /\ st[Head(queue)] = "queued"
  BY <1>1 DEF Inv, Shape, Book, Queued
<1>3. Cardinality(Running) < Cardinality(Workers)
  BY <1>1, RoomToStart
<1>4. Running' = Running \cup {Head(queue)} /\ Done' = Done
  BY <1>1, <1>2 DEF Running, Done, Inv, Shape
<1>5. UNCHANGED <<{t \in Tasks : st[t] = "done"}, pool = "freed">>
  BY <1>1, <1>4 DEF Done
<1>6. Service!Cardinality(Running) = Cardinality(Running)
  BY DEF Service!Cardinality, Cardinality
<1> QED
  BY <1>1, <1>3, <1>4, <1>5, <1>6, Zenon DEF Service!Start, Running

(* The end of a callback is the service's Finish.                          *)
LEMMA FinishStep ==
    ASSUME Inv, Book, NEW w \in Workers, WorkerCallback(w)
    PROVE  \E t \in Tasks : Service!Finish(t)
<1>1. /\ pc[w] = "callback" /\ UNCHANGED <<queue, pool>>
      /\ st' = [st EXCEPT ![cur[w]] = "done"]
  BY DEF WorkerCallback
<1>2. cur[w] \in Tasks /\ st[cur[w]] = "ran"
  BY <1>1 DEF Inv, Shape, BusyAt, Book, Held, Threads
<1>3. cur[w] \in Running /\ Running' = Running \ {cur[w]} /\ Done' = Done \cup {cur[w]}
  BY <1>1, <1>2 DEF Running, Done, Inv, Shape
<1> QED
  BY <1>1, <1>2, <1>3 DEF Service!Finish, Running, Done

(* Freeing the pool, in tp_dispose or in a tp_init that fails, is the      *)
(* service's Close: nothing is queued or running then.                     *)
LEMMA CloseStep ==
    ASSUME Inv, Book, InitJoin \/ DisposeFree
    PROVE  Service!Close
<1>1. queue = <<>> /\ queue' = <<>> /\ pool' = "freed"
  BY DrainedEmpty DEF InitJoin, DisposeFree, Inv, Phase, OwnerPhase
<1>2. st' = st
  BY <1>1 DEF InitJoin, DisposeFree, Inv, Shape
<1>3. \A w \in Workers : pc[w] \notin {"run", "callback"}
  BY DEF InitJoin, DisposeFree, Inv, Phase, WorkerPhase
<1>4. Running = {} /\ Running' = Running /\ Done' = Done
  BY <1>2, <1>3 DEF Running, Done, Book, Held
<1> QED
  BY <1>1, <1>4 DEF Service!Close, Running, Done

(* Every other step of the pool is invisible to its callers.               *)
LEMMA HiddenStep ==
    ASSUME queue' = queue, Running' = Running, Done' = Done,
           (pool = "freed") = (pool' = "freed")
    PROVE  UNCHANGED Service!svars
BY DEF Service!svars, Running, Done

(* Every step of the pool is a step of the service or invisible in it.     *)
LEMMA ServiceStep ==
    ASSUME Inv, Book, [Next]_vars
    PROVE  [Service!SNext]_(Service!svars)
<1>0. Shape /\ st \in [Tasks -> TaskSt]
  BY DEF Inv, Shape
<1> DEFINE Visible == Service!SNext
           Hidden  == UNCHANGED Service!svars
<1>1. CASE tp_init
  <2>1. CASE InitJoin
    BY <2>1, CloseStep DEF Service!SNext
  <2>2. CASE (\E w \in Workers : InitCreate(w)) \/ InitDone \/ InitFail
    <3>1. UNCHANGED <<queue, st>> /\ pool # "freed" /\ pool' # "freed"
      BY <2>2, PoolAssumption DEF InitCreate, InitDone, InitFail, Inv, Phase, OwnerPhase
    <3>2. Running' = Running /\ Done' = Done
      BY <3>1 DEF Running, Done
    <3> QED
      BY <3>1, <3>2, HiddenStep
  <2> QED
    BY <1>1, <2>1, <2>2 DEF tp_init
<1>2. CASE tp_dispose
  <2>1. CASE DisposeFree
    BY <2>1, CloseStep DEF Service!SNext
  <2>2. CASE DisposeCall \/ DisposeStop \/ DisposeJoin
    <3>1. UNCHANGED <<queue, st, pool>>
      BY <2>2 DEF DisposeCall, DisposeStop, DisposeJoin
    <3> QED
      BY <3>1, HiddenStep DEF Running, Done
  <2> QED
    BY <1>2, <2>1, <2>2 DEF tp_dispose
<1>3. ASSUME NEW w \in Workers, tp_worker(w) PROVE Visible \/ Hidden
  <2>1. CASE WorkerTake(w)
    BY <2>1, StartStep DEF Service!SNext
  <2>2. CASE WorkerCallback(w)
    BY <2>2, FinishStep DEF Service!SNext
  <2>3. CASE WorkerSpawn(w)
    <3> DEFINE t == Child[cur[w]]
    <3>1. t \in Tasks /\ st[t] = "new" /\ UNCHANGED pool /\ pc[w] = "run"
      BY <1>0, <2>3, SpawnEffect
    <3>2. pool = "live"
      BY <1>0, <3>1 DEF Shape, Inv, Phase, WorkerPhase
    <3>3. \/ queue' = Append(queue, t) /\ st' = [st EXCEPT ![t] = "queued"]
          \/ st' = [st EXCEPT ![t] = "refused"] /\ queue' = queue
      BY <1>0, <2>3, SpawnEffect
    <3> HIDE DEF t
    <3>4. CASE queue' = Append(queue, t) /\ st' = [st EXCEPT ![t] = "queued"]
      BY <3>1, <3>2, <3>4, AcceptStep DEF Service!SNext
    <3>5. CASE st' = [st EXCEPT ![t] = "refused"] /\ queue' = queue
      <4>1. Running' = Running /\ Done' = Done
        BY <1>0, <3>1, <3>5 DEF Running, Done
      <4> QED
        BY <3>1, <3>5, <4>1, HiddenStep
    <3> QED
      BY <3>3, <3>4, <3>5
  <2>4. CASE WorkerRun(w)
    <3>1. /\ UNCHANGED <<queue, pool>> /\ pc[w] = "run"
          /\ st' = [st EXCEPT ![cur[w]] = "ran"]
      BY <2>4 DEF WorkerRun
    <3>2. st[cur[w]] = "running"
      BY <3>1 DEF Book, Held, Threads
    <3>3. Running' = Running /\ Done' = Done
      BY <1>0, <3>1, <3>2 DEF Running, Done
    <3> QED
      BY <3>1, <3>3, HiddenStep
  <2>5. CASE WorkerWait(w) \/ WorkerExit(w) \/ WorkerFinish(w)
    <3>1. UNCHANGED <<queue, st, pool>>
      BY <2>5 DEF WorkerWait, WorkerExit, WorkerFinish
    <3> QED
      BY <3>1, HiddenStep DEF Running, Done
  <2> QED
    BY <1>3, <2>1, <2>2, <2>3, <2>4, <2>5 DEF tp_worker
<1>4. ASSUME NEW c \in Clients, InCall(c) \/ NewCall(c) PROVE Visible \/ Hidden
  <2>1. CASE AddCommit(c)
    <3>1. /\ cur[c] \in Tasks /\ pc[c] = "add" /\ queue' = Append(queue, cur[c])
          /\ st' = [st EXCEPT ![cur[c]] = "queued"] /\ pool' = pool
      BY <1>0, <2>1, AddEffect
    <3>2. st[cur[c]] = "adding" /\ pool = "live"
      BY <1>0, <3>1, PoolAssumption
         DEF Book, Held, Threads, Shape, Inv, Phase, OwnerPhase, Others
    <3> QED
      BY <3>1, <3>2, AcceptStep DEF Service!SNext
  <2>2. CASE AddRefuse(c)
    <3>1. /\ UNCHANGED <<queue, pool>> /\ pc[c] = "add"
          /\ st' = [st EXCEPT ![cur[c]] = "refused"]
      BY <2>2 DEF AddRefuse
    <3>2. st[cur[c]] = "adding"
      BY <3>1 DEF Book, Held, Threads
    <3>3. Running' = Running /\ Done' = Done
      BY <1>0, <3>1, <3>2 DEF Running, Done
    <3> QED
      BY <3>1, <3>3, HiddenStep
  <2>3. ASSUME NEW t \in Tasks, AddCall(c, t) PROVE Hidden
    <3>1. /\ UNCHANGED <<queue, pool>> /\ st[t] = "new"
          /\ st' = [st EXCEPT ![t] = "adding"]
      BY <2>3 DEF AddCall
    <3>2. Running' = Running /\ Done' = Done
      BY <1>0, <3>1 DEF Running, Done
    <3> QED
      BY <3>1, <3>2, HiddenStep
  <2>4. CASE WaitBlock(c) \/ WaitReturn(c) \/ WaitCall(c) \/ Leave(c)
    <3>1. UNCHANGED <<queue, st, pool>>
      BY <2>4 DEF WaitBlock, WaitReturn, WaitCall, Leave
    <3> QED
      BY <3>1, HiddenStep DEF Running, Done
  <2> QED
    BY <1>4, <2>1, <2>2, <2>3, <2>4 DEF InCall, NewCall
<1>5. ASSUME (\E t \in Threads : SpuriousWakeup(t)) \/ UNCHANGED vars PROVE Hidden
  <2>1. UNCHANGED <<queue, st, pool>>
    BY <1>5 DEF SpuriousWakeup, vars
  <2> QED
    BY <2>1, HiddenStep DEF Running, Done
<1> QED
  BY <1>1, <1>2, <1>3, <1>4, <1>5 DEF Next

(* The pool of thread_pool.c implements the service its callers rely on:   *)
(* tasks start in the order in which they were accepted, at most           *)
(* max_threads at a time, each runs exactly once, and the pool is freed    *)
(* only when nothing is queued or running.                                 *)
THEOREM PoolImplementsService == Spec => ImplementsService
<1>1. Init => Service!SInit
  BY DEF Init, Service!SInit
<1>2. Inv /\ Book /\ [Next]_vars => [Service!SNext]_(Service!svars)
  BY ServiceStep
<1> QED
  BY <1>1, <1>2, Invariance, Bookkeeping, PTL DEF Spec, ImplementsService, Service!SSpec
=============================================================================
