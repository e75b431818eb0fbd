----------------------------- MODULE ThreadPool -----------------------------
(***************************************************************************)
(* The thread pool of modules/src/thread_pool.c.                           *)
(*                                                                         *)
(* Every critical section of the pool's mutex is one action, because all   *)
(* it touches (queue, active_tasks, stop) is only touched by other threads *)
(* under the same mutex; what a thread does between two critical sections  *)
(* is an action of its own.  pthread_cond_wait ends an action: the thread  *)
(* is then "blocked" until a signal, a broadcast or a spurious wake-up     *)
(* sends it back to re-evaluate the loop condition under the mutex.        *)
(***************************************************************************)
EXTENDS Integers, Sequences, FiniteSets

CONSTANTS
  Workers,        \* the max_threads threads tp_init creates
  Clients,        \* the threads that call the interface
  Owner,          \* the client that calls tp_init and tp_dispose
  Waiters,        \* the clients that call tp_wait
  Tasks,          \* submissions: one element per call of tp_task_add
  Child,          \* Child[t]: the task t's thread_func submits, or NoTask
  NoTask,
  CreateMayFail   \* TRUE: pthread_create may fail in tp_init

ASSUME PoolAssumption ==
    /\ IsFiniteSet(Workers)
    /\ Workers # {}
    /\ Workers \cap Clients = {}
    /\ Owner \in Clients
    /\ Waiters \subseteq Clients
    /\ NoTask \notin Tasks
    /\ Child \in [Tasks -> Tasks \cup {NoTask}]
    /\ CreateMayFail \in BOOLEAN

VARIABLES
  queue,     \* Pool->queue, the items of the linked list from head to tail
  active,    \* Pool->active_tasks
  stop,      \* Pool->stop
  pool,      \* the Thread_Pool object: "creating", "live" or "freed"
  pc,        \* where every thread is
  cur,       \* the task a worker has taken, or a client is adding
  st         \* what has become of every submission

vars == <<queue, active, stop, pool, pc, cur, st>>

Threads == Workers \cup Clients

(* A worker holds a task from the critical section that takes it to the    *)
(* one that decrements active_tasks.                                       *)
BusyAt   == {"run", "callback", "finish"}
WorkerAt == {"uncreated", "lock", "blocked", "exited"} \cup BusyAt
ClientAt == {"init", "init_join", "init_failed", "idle", "add", "wait",
             "wait_blocked", "stop", "join", "drain", "gone"}
TaskSt   == {"new", "adding", "queued", "running", "ran", "done", "refused", "dropped"}

Busy      == {w \in Workers : pc[w] \in BusyAt}
Awake     == {w \in Workers : pc[w] = "lock"}
Sleeping  == {w \in Workers : pc[w] = "blocked"}
Waiting   == {c \in Clients : pc[c] = "wait_blocked"}
Submitted == {Child[t] : t \in Tasks}      \* by tasks, not by clients

TypeOK ==
    /\ queue \in Seq(Tasks)
    /\ active \in 0..Cardinality(Workers)
    /\ stop \in BOOLEAN
    /\ pool \in {"creating", "live", "freed"}
    /\ pc \in [Threads -> WorkerAt \cup ClientAt]
    /\ \A w \in Workers : pc[w] \in WorkerAt
    /\ \A c \in Clients : pc[c] \in ClientAt
    /\ cur \in [Threads -> Tasks \cup {NoTask}]
    /\ st \in [Tasks -> TaskSt]

Init ==
    /\ queue = <<>>
    /\ active = 0
    /\ stop = FALSE
    /\ pool = "creating"
    /\ pc = [t \in Threads |-> IF t \in Workers THEN "uncreated"
                               ELSE IF t = Owner THEN "init" ELSE "idle"]
    /\ cur = [t \in Threads |-> NoTask]
    /\ st = [t \in Tasks |-> "new"]

-----------------------------------------------------------------------------
(* tp_init: the threads run tp_worker as soon as they are created.         *)

InitCreate(w) ==
    /\ pc[Owner] = "init"
    /\ pc[w] = "uncreated"
    /\ pc' = [pc EXCEPT ![w] = "lock"]
    /\ UNCHANGED <<queue, active, stop, pool, cur, st>>

InitDone ==
    /\ pc[Owner] = "init"
    /\ \A w \in Workers : pc[w] # "uncreated"
    /\ active' = 0
    /\ stop' = FALSE
    /\ pool' = "live"
    /\ pc' = [pc EXCEPT ![Owner] = "idle"]
    /\ UNCHANGED <<queue, cur, st>>

(* pthread_create fails: the threads created so far are joined, and stop   *)
(* is not set.                                                             *)
InitFail ==
    /\ CreateMayFail
    /\ pc[Owner] = "init"
    /\ \E w \in Workers : pc[w] = "uncreated"
    /\ pc' = [pc EXCEPT ![Owner] = "init_join"]
    /\ UNCHANGED <<queue, active, stop, pool, cur, st>>

InitJoin ==
    /\ pc[Owner] = "init_join"
    /\ \A w \in Workers : pc[w] \in {"uncreated", "exited"}
    /\ pool' = "freed"
    /\ pc' = [pc EXCEPT ![Owner] = "init_failed"]
    /\ UNCHANGED <<queue, active, stop, cur, st>>

-----------------------------------------------------------------------------
(* Condition variables.  self goes on at next; a signal releases one       *)
(* thread of the set if there is one, which then competes for the mutex.   *)

Signal(self, next, blocked, resume) ==
    \/ /\ blocked = {}
       /\ pc' = [pc EXCEPT ![self] = next]
    \/ \E b \in blocked : pc' = [pc EXCEPT ![self] = next, ![b] = resume]

Broadcast(self, next, blocked, resume) ==
    pc' = [t \in Threads |-> IF t = self THEN next
                             ELSE IF t \in blocked THEN resume ELSE pc[t]]

(* POSIX lets pthread_cond_wait return without a signal.                   *)
SpuriousWakeup(t) ==
    /\ pc[t] \in {"blocked", "wait_blocked"}
    /\ pc' = [pc EXCEPT ![t] = IF t \in Workers THEN "lock" ELSE "wait"]
    /\ UNCHANGED <<queue, active, stop, pool, cur, st>>

-----------------------------------------------------------------------------
(* tp_worker                                                               *)

MustWait == queue = <<>> /\ ~stop

(* Mutant: the newest task goes first.                                     *)
EnqueueFirst(t) == <<t>> \o queue

(* linked_list_item_add with no position puts the item at the tail.        *)
Enqueue(t) == Append(queue, t)

(* Mutant: a worker leaves as soon as stop is set.                         *)
StopAtOnce == stop

MustStop == queue = <<>> /\ stop

WorkerWait(w) ==
    /\ pc[w] = "lock"
    /\ MustWait
    /\ pc' = [pc EXCEPT ![w] = "blocked"]
    /\ UNCHANGED <<queue, active, stop, pool, cur, st>>

WorkerExit(w) ==
    /\ pc[w] = "lock"
    /\ MustStop
    /\ pc' = [pc EXCEPT ![w] = "exited"]
    /\ UNCHANGED <<queue, active, stop, pool, cur, st>>

WorkerTake(w) ==
    /\ pc[w] = "lock"
    /\ ~MustWait
    /\ ~MustStop
    /\ cur' = [cur EXCEPT ![w] = Head(queue)]
    /\ queue' = Tail(queue)
    /\ active' = active + 1
    /\ st' = [st EXCEPT ![Head(queue)] = "running"]
    /\ pc' = [pc EXCEPT ![w] = "run"]
    /\ UNCHANGED <<stop, pool>>

(* thread_func may itself call tp_task_add, which succeeds or is refused   *)
(* for lack of memory.                                                     *)
WorkerSpawn(w) ==
    LET child == Child[cur[w]] IN
    /\ pc[w] = "run"
    /\ child # NoTask
    /\ st[child] = "new"
    /\ \/ /\ queue' = Enqueue(child)
          /\ st' = [st EXCEPT ![child] = "queued"]
          /\ Signal(w, "run", Sleeping, "lock")
       \/ /\ st' = [st EXCEPT ![child] = "refused"]
          /\ UNCHANGED <<queue, pc>>
    /\ UNCHANGED <<active, stop, pool, cur>>

WorkerRun(w) ==
    LET child == Child[cur[w]] IN
    /\ pc[w] = "run"
    /\ child # NoTask => st[child] # "new"
    /\ st' = [st EXCEPT ![cur[w]] = "ran"]
    /\ pc' = [pc EXCEPT ![w] = "callback"]
    /\ UNCHANGED <<queue, active, stop, pool, cur>>

(* The callback, if there is one, and free(Task).                          *)
WorkerCallback(w) ==
    /\ pc[w] = "callback"
    /\ st' = [st EXCEPT ![cur[w]] = "done"]
    /\ pc' = [pc EXCEPT ![w] = "finish"]
    /\ UNCHANGED <<queue, active, stop, pool, cur>>

(* Mutant: active_tasks is not decremented.                                *)
FinishUncounted(w) ==
    /\ pc[w] = "finish"
    /\ cur' = [cur EXCEPT ![w] = NoTask]
    /\ Signal(w, "lock", Waiting, "wait")
    /\ UNCHANGED <<queue, active, stop, pool, st>>

(* Mutant: the end of a task is not signalled.                             *)
FinishSilently(w) ==
    /\ pc[w] = "finish"
    /\ active' = active - 1
    /\ cur' = [cur EXCEPT ![w] = NoTask]
    /\ pc' = [pc EXCEPT ![w] = "lock"]
    /\ UNCHANGED <<queue, stop, pool, st>>

WorkerFinish(w) ==
    /\ pc[w] = "finish"
    /\ active' = active - 1
    /\ cur' = [cur EXCEPT ![w] = NoTask]
    /\ Signal(w, "lock", Waiting, "wait")
    /\ UNCHANGED <<queue, stop, pool, st>>

tp_worker(w) ==
    \/ WorkerWait(w) \/ WorkerExit(w) \/ WorkerTake(w)
    \/ WorkerSpawn(w) \/ WorkerRun(w) \/ WorkerCallback(w) \/ WorkerFinish(w)

-----------------------------------------------------------------------------
(* tp_task_add, called by a client.                                        *)

AddCall(c, t) ==
    /\ pool = "live"
    /\ pc[c] = "idle"
    /\ st[t] = "new"
    /\ t \notin Submitted
    /\ st' = [st EXCEPT ![t] = "adding"]
    /\ cur' = [cur EXCEPT ![c] = t]
    /\ pc' = [pc EXCEPT ![c] = "add"]
    /\ UNCHANGED <<queue, active, stop, pool>>

(* Mutant: the task is queued and nobody is told.                          *)
AddUnsignalled(c) ==
    /\ pc[c] = "add"
    /\ queue' = Enqueue(cur[c])
    /\ st' = [st EXCEPT ![cur[c]] = "queued"]
    /\ cur' = [cur EXCEPT ![c] = NoTask]
    /\ pc' = [pc EXCEPT ![c] = "idle"]
    /\ UNCHANGED <<active, stop, pool>>

AddCommit(c) ==
    /\ pc[c] = "add"
    /\ queue' = Enqueue(cur[c])
    /\ st' = [st EXCEPT ![cur[c]] = "queued"]
    /\ cur' = [cur EXCEPT ![c] = NoTask]
    /\ Signal(c, "idle", Sleeping, "lock")
    /\ UNCHANGED <<active, stop, pool>>

(* malloc of the copy or of the list item fails: -10 or -101.              *)
AddRefuse(c) ==
    /\ pc[c] = "add"
    /\ st' = [st EXCEPT ![cur[c]] = "refused"]
    /\ cur' = [cur EXCEPT ![c] = NoTask]
    /\ pc' = [pc EXCEPT ![c] = "idle"]
    /\ UNCHANGED <<queue, active, stop, pool>>

-----------------------------------------------------------------------------
(* tp_wait                                                                 *)

WaitCall(c) ==
    /\ c \in Waiters
    /\ pool = "live"
    /\ pc[c] = "idle"
    /\ pc' = [pc EXCEPT ![c] = "wait"]
    /\ UNCHANGED <<queue, active, stop, pool, cur, st>>

(* Mutant: only the queue is looked at, not the tasks being run.           *)
QueueNotEmpty == queue # <<>>

Unfinished == active > 0 \/ queue # <<>>

WaitBlock(c) ==
    /\ pc[c] = "wait"
    /\ Unfinished
    /\ pc' = [pc EXCEPT ![c] = "wait_blocked"]
    /\ UNCHANGED <<queue, active, stop, pool, cur, st>>

WaitReturn(c) ==
    /\ pc[c] = "wait"
    /\ ~Unfinished
    /\ pc' = [pc EXCEPT ![c] = "idle"]
    /\ UNCHANGED <<queue, active, stop, pool, cur, st>>

-----------------------------------------------------------------------------
(* tp_dispose frees the pool, so its caller must know that no other client *)
(* will use it any more.  DisposeCall is the unlocked test of stop;        *)
(* DisposeJoin returns from the last pthread_join; DisposeFree frees what  *)
(* is left in the queue, the queue and the pool.                           *)

DisposeCall ==
    /\ pool = "live"
    /\ pc[Owner] = "idle"
    /\ \A c \in Clients \ {Owner} : pc[c] = "gone"
    /\ ~stop
    /\ pc' = [pc EXCEPT ![Owner] = "stop"]
    /\ UNCHANGED <<queue, active, stop, pool, cur, st>>

(* Mutant: one sleeping worker is woken instead of all.                    *)
StopOne ==
    /\ pc[Owner] = "stop"
    /\ stop' = TRUE
    /\ Signal(Owner, "join", Sleeping, "lock")
    /\ UNCHANGED <<queue, active, pool, cur, st>>

DisposeStop ==
    /\ pc[Owner] = "stop"
    /\ stop' = TRUE
    /\ Broadcast(Owner, "join", Sleeping, "lock")
    /\ UNCHANGED <<queue, active, pool, cur, st>>

(* Mutant: the pool is torn down before the workers have exited.           *)
JoinNobody ==
    /\ pc[Owner] = "join"
    /\ pc' = [pc EXCEPT ![Owner] = "drain"]
    /\ UNCHANGED <<queue, active, stop, pool, cur, st>>

DisposeJoin ==
    /\ pc[Owner] = "join"
    /\ \A w \in Workers : pc[w] = "exited"
    /\ pc' = [pc EXCEPT ![Owner] = "drain"]
    /\ UNCHANGED <<queue, active, stop, pool, cur, st>>

DisposeFree ==
    /\ pc[Owner] = "drain"
    /\ st' = [t \in Tasks |-> IF \E i \in DOMAIN queue : queue[i] = t
                              THEN "dropped" ELSE st[t]]
    /\ queue' = <<>>
    /\ pool' = "freed"
    /\ pc' = [pc EXCEPT ![Owner] = "gone"]
    /\ UNCHANGED <<active, stop, cur>>

(* A client other than the owner stops using the pool.                     *)
Leave(c) ==
    /\ c # Owner
    /\ pc[c] = "idle"
    /\ pc' = [pc EXCEPT ![c] = "gone"]
    /\ UNCHANGED <<queue, active, stop, pool, cur, st>>

-----------------------------------------------------------------------------
tp_init    == (\E w \in Workers : InitCreate(w)) \/ InitDone \/ InitFail \/ InitJoin
tp_dispose == DisposeCall \/ DisposeStop \/ DisposeJoin \/ DisposeFree
InCall(c)  == AddCommit(c) \/ AddRefuse(c) \/ WaitBlock(c) \/ WaitReturn(c)
NewCall(c) == WaitCall(c) \/ Leave(c) \/ \E t \in Tasks : AddCall(c, t)

Next ==
    \/ tp_init
    \/ tp_dispose
    \/ \E w \in Workers : tp_worker(w)
    \/ \E c \in Clients : InCall(c) \/ NewCall(c)
    \/ \E t \in Threads : SpuriousWakeup(t)

Spec == Init /\ [][Next]_vars

(* Every thread that can run does run, and gets the mutex in the end;      *)
(* task functions return.  Nobody is obliged to make a call, but a client  *)
(* that has begun one goes on with it.                                     *)
Fairness ==
    /\ WF_vars(tp_init)
    /\ WF_vars(DisposeStop \/ DisposeJoin \/ DisposeFree)
    /\ \A w \in Workers : WF_vars(tp_worker(w))
    /\ \A c \in Clients : WF_vars(InCall(c))

FairSpec == Spec /\ Fairness

-----------------------------------------------------------------------------
(* tp_task_add signals one worker per task.  A signal goes to whichever    *)
(* worker sleeps, or to nobody, and a worker on its way to the mutex may   *)
(* overtake the one that was woken; still, no worker sleeps while the      *)
(* queue holds more tasks than there are workers about to take one.        *)
WorkConserving ==
    Sleeping # {} => Len(queue) <= Cardinality(Awake)

(* A task that tp_task_add accepted is never freed unrun by tp_dispose,    *)
(* not even a task submitted by a running task after stop was set, when    *)
(* other workers may have exited already.                                  *)
NoTaskDropped ==
    \A t \in Tasks : st[t] # "dropped"

(* When tp_dispose frees the pool, no thread will touch it again: no       *)
(* worker is left in tp_worker, and no client is inside a call.  That no   *)
(* client is is the rule DisposeCall states, which callers have to keep.   *)
NoUseAfterFree ==
    pool = "freed" =>
        /\ \A w \in Workers : pc[w] \in {"uncreated", "exited"}
        /\ \A c \in Clients : pc[c] \in {"idle", "init_failed", "gone"}

(* Where tp_wait returns, every task accepted until then has run to the    *)
(* end of its callback, and no worker is between a task and the decrement  *)
(* of active_tasks.                                                        *)
WaitMeansIdle ==
    [][\A c \in Clients :
         pc[c] = "wait" /\ pc'[c] = "idle" =>
             /\ Busy = {}
             /\ \A t \in Tasks : st[t] \notin {"queued", "running", "ran"}]_vars

(* The pool as its callers see it.                                         *)
Service == INSTANCE TaskService
    WITH pending    <- queue,
         running    <- {t \in Tasks : st[t] \in {"running", "ran"}},
         done       <- {t \in Tasks : st[t] = "done"},
         closed     <- pool = "freed",
         MaxRunning <- Cardinality(Workers)

(* FIFO start, bounded parallelism, every task once, no shutdown with work *)
(* left over.                                                              *)
ImplementsService == Service!SSpec

(* Every task tp_task_add accepts runs to the end, shutdown or not.        *)
AcceptedRuns == \A t \in Tasks : st[t] = "queued" ~> st[t] = "done"

(* tp_wait returns, though task_finished is only signalled, and not        *)
(* necessarily by the worker that finishes last.                           *)
WaitReturns == \A c \in Waiters : pc[c] = "wait" ~> pc[c] = "idle"

(* tp_dispose, once past its first test, joins every worker and returns.   *)
DisposeReturns == pc[Owner] = "stop" ~> pool = "freed"

(* tp_init returns, with a pool or with NULL.                              *)
InitReturns == pc[Owner] = "init" ~> pc[Owner] \in {"idle", "init_failed"}
=============================================================================
