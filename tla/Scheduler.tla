----------------------------- MODULE Scheduler ------------------------------
(***************************************************************************)
(* The scheduler of modules/src/scheduler.c and the part of the life of    *)
(* HTTP clients that it sees.  Everything runs in one thread, but not in   *)
(* sequence: scheduler_work calls http_client_taskwork for the client in a *)
(* slot, that may call the application's on_success, and that may start or *)
(* dispose of other clients while scheduler_work is in mid-loop.           *)
(***************************************************************************)
EXTENDS Naturals, FiniteSets

CONSTANTS
  Clients,    \* the HTTP_Client objects of the application
  NoClient,   \* NULL in a slot
  MaxTasks,   \* SCHEDULER_MAX_TASKS
  MaxStarts   \* bound: how many requests are started

ASSUME SchedulerAssumption ==
    /\ NoClient \notin Clients
    /\ MaxTasks \in Nat \ {0}
    /\ MaxStarts \in Nat

VARIABLES
  tasks,    \* Global_Scheduler.tasks: the context of every slot
  handle,   \* Client->task: a slot, or 0 for NULL
  state,    \* Client->state, the states between CONNECTING and RETURNING as one
  i,        \* the loop variable of scheduler_work; 0 outside the call
  calling,  \* the client whose on_success runs, or NoClient
  starts,   \* requests started
  open,     \* history: clients whose request has no outcome yet
  lost,     \* history: slots whose client was started again while it had them
  stale,    \* history: clients whose slot was cleared behind their back
  thrown,   \* history: clients whose last request was started in their own
            \* on_success, or has lost its slot to somebody else
  unserved  \* history: registered when this pass began, and not called since

vars == <<tasks, handle, state, i, calling, starts, open, lost, stale, thrown, unserved>>

Slots  == 1..MaxTasks
States == {"unused", "working", "returning", "error", "disposing"}

TypeOK ==
    /\ tasks \in [Slots -> Clients \cup {NoClient}]
    /\ handle \in [Clients -> 0..MaxTasks]
    /\ state \in [Clients -> States]
    /\ i \in 0..(MaxTasks + 1)
    /\ calling \in Clients \cup {NoClient}
    /\ starts \in 0..MaxStarts
    /\ open \subseteq Clients
    /\ lost \subseteq Slots
    /\ stale \subseteq Clients
    /\ thrown \subseteq Clients
    /\ unserved \subseteq Clients

(* scheduler_init, with clients that have not been used.                   *)
Init ==
    /\ tasks = [s \in Slots |-> NoClient]
    /\ handle = [c \in Clients |-> 0]
    /\ state = [c \in Clients |-> "unused"]
    /\ i = 0
    /\ calling = NoClient
    /\ starts = 0
    /\ open = {}
    /\ lost = {} /\ stale = {} /\ thrown = {}
    /\ unserved = {}

-----------------------------------------------------------------------------
(* Mutant: the first slot is taken, free or not.                           *)
AnySlot == Slots

FreeSlots == {s \in Slots : tasks[s] = NoClient}

(* scheduler_create_task takes the first free slot, and returns NULL if    *)
(* there is none.                                                          *)
scheduler_create_task(c, s) ==
    /\ s \in FreeSlots
    /\ \A r \in FreeSlots : s <= r
    /\ tasks' = [tasks EXCEPT ![s] = c]

(* Mutant: the last task is moved into the slot that has become free.      *)
CompactTasks(s) ==
    IF s = 0 \/ \A r \in Slots : tasks[r] = NoClient THEN UNCHANGED tasks
    ELSE LET last == CHOOSE r \in Slots \ FreeSlots : \A q \in Slots \ FreeSlots : q <= r
         IN  tasks' = [tasks EXCEPT ![s] = tasks[last], ![last] = NoClient]

(* scheduler_destroy_task: NULL is ignored; the slot a handle points to is *)
(* cleared, whoever holds it.                                              *)
scheduler_destroy_task(s) ==
    tasks' = [r \in Slots |-> IF r = s THEN NoClient ELSE tasks[r]]

(* Application code runs between two calls of scheduler_work, and inside   *)
(* on_success.                                                             *)
AppRuns == i = 0 \/ calling # NoClient

(* The slot whose only handle is about to be overwritten.                  *)
Overwritten(c) == IF handle[c] = 0 \/ c \in stale THEN {} ELSE {handle[c]}

(* http_client_initiate, by the application.  Nothing tests whether the    *)
(* client is in use: if it is, its handle is overwritten, its old slot     *)
(* keeps calling it, and its request starts again in the new one.          *)
Initiate(c) ==
    /\ AppRuns
    /\ starts < MaxStarts
    /\ starts' = starts + 1
    /\ \E s \in Slots :
          /\ scheduler_create_task(c, s)
          /\ handle' = [handle EXCEPT ![c] = s]
    /\ state' = [state EXCEPT ![c] = "working"]
    /\ open' = open \cup {c}
    /\ thrown' = thrown \ {c}
    /\ lost' = lost \cup Overwritten(c)
    /\ stale' = stale \ {c}
    /\ UNCHANGED <<i, calling, unserved>>

(* ... when no slot is free, or there is no memory for the copy of the URL *)
(* and the new slot is given back at once: the handle is NULL afterwards,  *)
(* that of a client in use too.  (Without memory for the request and the   *)
(* response it returns before it has changed anything.)                    *)
InitiateFails(c) ==
    /\ AppRuns
    /\ handle' = [handle EXCEPT ![c] = 0]
    /\ lost' = lost \cup Overwritten(c)
    /\ stale' = stale \ {c}
    /\ UNCHANGED <<tasks, state, i, calling, starts, open, thrown, unserved>>

(* Whoever is in the slot that http_client_dispose(c) clears: c itself,    *)
(* unless its handle is stale.                                             *)
Evicted(c) == {tasks[s] : s \in {handle[c]} \ {0}} \ {NoClient}

(* http_client_dispose: the slot the handle points to is cleared, whoever  *)
(* is in it; state is left alone.                                          *)
Dispose(c) ==
    /\ scheduler_destroy_task(handle[c])
    /\ handle' = [handle EXCEPT ![c] = 0]
    /\ lost' = lost \ {handle[c]}
    /\ stale' = (stale \cup {d \in Clients : handle[d] = handle[c] /\ handle[d] # 0}) \ {c}
    /\ thrown' = thrown \cup (Evicted(c) \ {c})

(* ... called by the application, on the client whose on_success runs too. *)
AppDispose(c) ==
    /\ AppRuns
    /\ Dispose(c)
    /\ open' = open \ {c}
    /\ unserved' = unserved \ Evicted(c)
    /\ UNCHANGED <<state, i, calling, starts>>

(* scheduler_dispose clears the slots and knows nothing of the handles in  *)
(* the clients.  It does not know either that it may be called inside      *)
(* scheduler_work, by an on_success.                                       *)
scheduler_dispose ==
    /\ AppRuns
    /\ tasks' = [s \in Slots |-> NoClient]
    /\ lost' = {}
    /\ stale' = {c \in Clients : handle[c] # 0}
    /\ thrown' = thrown \cup open
    /\ unserved' = {}
    /\ UNCHANGED <<handle, state, i, calling, starts, open>>

-----------------------------------------------------------------------------
(* scheduler_work                                                          *)

scheduler_get_task_count == Cardinality(Slots \ FreeSlots)

WorkBegin ==
    /\ i = 0
    /\ i' = 1
    /\ unserved' = {tasks[s] : s \in Slots} \ {NoClient}
    /\ UNCHANGED <<tasks, handle, state, calling, starts, open, lost, stale, thrown>>

WorkSkip ==
    /\ i \in Slots
    /\ calling = NoClient
    /\ tasks[i] = NoClient
    /\ i' = i + 1
    /\ UNCHANGED <<tasks, handle, state, calling, starts, open, lost, stale, thrown, unserved>>

(* Mutant: the loop goes one slot too far.                                 *)
OneSlotTooMany ==
    /\ i = MaxTasks + 1
    /\ i' = i + 1
    /\ UNCHANGED <<tasks, handle, state, calling, starts, open, lost, stale, thrown, unserved>>

WorkEnd ==
    /\ i = MaxTasks + 1
    /\ i' = 0
    /\ UNCHANGED <<tasks, handle, state, calling, starts, open, lost, stale, thrown, unserved>>

(* The callback of slot i is called.                                       *)
Called(c) ==
    /\ i \in Slots
    /\ calling = NoClient
    /\ c = tasks[i]

Goes(c, from, to) ==
    /\ Called(c)
    /\ state[c] = from
    /\ state' = [state EXCEPT ![c] = to]
    /\ i' = i + 1
    /\ unserved' = unserved \ {c}
    /\ open' = IF to = "disposing" THEN open \ {c} ELSE open
    /\ UNCHANGED <<tasks, handle, calling, starts, lost, stale, thrown>>

(* http_client_taskwork, by the state of the client.                       *)
Progress(c)   == Goes(c, "working", "working")
HasBody(c)    == Goes(c, "working", "returning")
Fails(c)      == Goes(c, "working", "error") \/ Goes(c, "returning", "error")
StuckInError(c) == Goes(c, "error", "error")      \* mutant
ErrorStep(c)  == Goes(c, "error", "disposing")

(* Mutant: the slot is given back before on_success is called.             *)
ReleaseFirst(c) ==
    /\ Called(c)
    /\ state[c] = "returning"
    /\ calling' = c
    /\ Dispose(c)
    /\ unserved' = unserved \ ({c} \cup Evicted(c))
    /\ UNCHANGED <<state, i, starts, open>>

(* http_client_worktask_returning: on_success begins and ends.             *)
SuccessBegin(c) ==
    /\ Called(c)
    /\ state[c] = "returning"
    /\ calling' = c
    /\ unserved' = unserved \ {c}
    /\ UNCHANGED <<tasks, handle, state, i, starts, open, lost, stale, thrown>>

(* ... and DISPOSING is the next state, also of a client that on_success   *)
(* has started again: its new request will have no outcome.                *)
SuccessEnd(c) ==
    /\ c = calling
    /\ calling' = NoClient
    /\ state' = [state EXCEPT ![c] = "disposing"]
    /\ i' = i + 1
    /\ IF state[c] = "working"
       THEN thrown' = thrown \cup {c} /\ UNCHANGED open
       ELSE open' = open \ {c} /\ UNCHANGED thrown
    /\ UNCHANGED <<tasks, handle, starts, lost, stale, unserved>>

DisposeStep(c) ==
    /\ Called(c)
    /\ state[c] = "disposing"
    /\ Dispose(c)
    /\ i' = i + 1
    /\ unserved' = unserved \ ({c} \cup Evicted(c))
    /\ UNCHANGED <<state, calling, starts, open>>

http_client_taskwork(c) ==
    \/ Progress(c) \/ HasBody(c) \/ Fails(c) \/ ErrorStep(c)
    \/ SuccessBegin(c) \/ SuccessEnd(c) \/ DisposeStep(c)

scheduler_work ==
    \/ WorkBegin \/ WorkSkip \/ WorkEnd
    \/ \E c \in Clients : http_client_taskwork(c)

Next ==
    \/ scheduler_work
    \/ scheduler_dispose
    \/ \E c \in Clients : Initiate(c) \/ InitiateFails(c) \/ AppDispose(c)

Spec == Init /\ [][Next]_vars

(* The application keeps calling scheduler_work, and callbacks return.     *)
FairSpec == Spec /\ WF_vars(scheduler_work)

-----------------------------------------------------------------------------
(* A slot and the client in it point to each other, through every order of *)
(* starting and disposing of clients inside and outside of callbacks: no   *)
(* client has two slots, no slot is leaked, and http_client_dispose never  *)
(* clears the slot of another client.  There are exactly two exceptions: a *)
(* slot is lost when its client is started again while it has it, and a    *)
(* handle is stale when scheduler_dispose, or a client with a stale handle *)
(* to the same slot, has cleared its slot.                                 *)
SlotsMatch ==
    /\ \A s \in Slots : tasks[s] # NoClient => (handle[tasks[s]] = s <=> s \notin lost)
    /\ \A c \in Clients : handle[c] # 0 => (tasks[handle[c]] = c <=> c \notin stale)

(* An application that polls scheduler_get_task_count may take 0 to mean   *)
(* that every request has had its outcome, but for those that were started *)
(* in the on_success of their own client, and those whose slot was cleared *)
(* by scheduler_dispose or through another client's stale handle.          *)
EmptyMeansDone == scheduler_get_task_count = 0 => open \subseteq thrown

(* One pass of scheduler_work calls every client that was registered when  *)
(* it began and has not lost a slot since, whatever callbacks add or       *)
(* remove meanwhile.                                                       *)
PassIsComplete == i \in {0, MaxTasks + 1} => unserved = {}

(* A slot goes back to the scheduler, unless its client is started again   *)
(* while it has it, or works for ever: on a peer that neither answers nor  *)
(* closes, or in a handshake that is dead (http_client.c:284).  No outcome *)
(* leaves a slot behind.                                                   *)
SlotComesBack ==
    \A c \in Clients, s \in Slots :
        tasks[s] = c ~> tasks[s] # c \/ s \in lost \/ [](state[c] = "working")
=============================================================================
