--------------------------- MODULE SchedulerProofs --------------------------
(***************************************************************************)
(* Proofs about Scheduler, for any number of slots, of clients and of      *)
(* requests.                                                               *)
(***************************************************************************)
EXTENDS Scheduler, FiniteSetTheorems, TLAPS

(* on_success runs only inside scheduler_work, and a lost slot is one that *)
(* is not free.                                                            *)
Control ==
    /\ calling # NoClient => i \in Slots
    /\ \A s \in lost : tasks[s] # NoClient

(* A client that the pass has still to call is in a slot the loop has not  *)
(* reached.                                                                *)
Ahead ==
    /\ i = 0 => unserved = {}
    /\ \A c \in unserved : \E s \in Slots :
          tasks[s] = c /\ s >= i /\ (calling # NoClient => s > i)

(* A request without an outcome belongs to a client that sits in a slot    *)
(* and is not in DISPOSING.  The exceptions are requests started in the    *)
(* on_success of their own client, and those that were robbed of a slot.   *)
Outstanding == open \ thrown
OutcomeDue ==
    /\ \A c \in Outstanding : state[c] # "disposing"
    /\ \A c \in Outstanding : \E s \in Slots : tasks[s] = c

Inv == TypeOK /\ Control /\ SlotsMatch /\ Ahead /\ OutcomeDue

-----------------------------------------------------------------------------
(* The scheduler begins empty.                                             *)
LEMMA InvInit == Init => Inv
<1> SUFFICES ASSUME Init PROVE Inv
    OBVIOUS
<1> USE SchedulerAssumption DEF Init, Slots, States
<1>1. TypeOK
  <2>1. /\ tasks \in [Slots -> Clients \cup {NoClient}]
        /\ handle \in [Clients -> 0..MaxTasks]
        /\ state \in [Clients -> States]
    OBVIOUS
  <2>2. i \in 0..(MaxTasks + 1) /\ starts \in 0..MaxStarts
    OBVIOUS
  <2>3. calling \in Clients \cup {NoClient}
    OBVIOUS
  <2>4. open \subseteq Clients /\ lost \subseteq Slots /\ stale \subseteq Clients
        /\ thrown \subseteq Clients
    OBVIOUS
  <2> QED
    BY <2>1, <2>2, <2>3, <2>4 DEF TypeOK
<1>2. Control /\ Ahead /\ OutcomeDue
  BY DEF Control, Ahead, OutcomeDue, Outstanding
<1>3. SlotsMatch
  BY DEF SlotsMatch
<1> QED
  BY <1>1, <1>2, <1>3 DEF Inv

(* The steps of scheduler_work in which http_client_taskwork moves a       *)
(* client from one state to another and returns.                           *)
LEMMA GoesEffect ==
    ASSUME NEW c \in Clients, Progress(c) \/ HasBody(c) \/ Fails(c) \/ ErrorStep(c)
    PROVE  \E from, to \in States : Goes(c, from, to) /\ from # "disposing"
BY DEF Progress, HasBody, Fails, ErrorStep, States

(* Every step keeps the types; in particular the loop variable stays       *)
(* inside the table, callbacks or not.                                     *)
LEMMA TypeStep == Inv /\ [Next]_vars => TypeOK'
<1> SUFFICES ASSUME Inv, [Next]_vars PROVE TypeOK'
    OBVIOUS
<1>0. TypeOK /\ MaxTasks \in Nat /\ MaxStarts \in Nat
  BY SchedulerAssumption DEF Inv
<1> USE DEF TypeOK
<1>s. \A n : n \in Slots <=> n \in 0..MaxTasks /\ n # 0
  BY <1>0 DEF Slots
<1>d. \A c \in Clients : Evicted(c) \subseteq Clients /\ Overwritten(c) \subseteq Slots
  BY <1>0, <1>s DEF Evicted, Overwritten
<1>n. i \in Slots => i + 1 \in 0..(MaxTasks + 1)
  BY <1>0 DEF Slots
<1>t. ASSUME NEW c \in Clients, Dispose(c)
      PROVE  /\ tasks' \in [Slots -> Clients \cup {NoClient}]
             /\ handle' \in [Clients -> 0..MaxTasks]
             /\ lost' \subseteq Slots /\ stale' \subseteq Clients /\ thrown' \subseteq Clients
  BY <1>0, <1>d, <1>t DEF Dispose, scheduler_destroy_task
<1>1. CASE WorkBegin
  BY <1>0, <1>1 DEF WorkBegin
<1>2. CASE WorkSkip \/ WorkEnd
  BY <1>0, <1>n, <1>2 DEF WorkSkip, WorkEnd
<1>3. ASSUME NEW c \in Clients, http_client_taskwork(c) PROVE TypeOK'
  <2>1. CASE Progress(c) \/ HasBody(c) \/ Fails(c) \/ ErrorStep(c)
    <3>1. PICK from, to \in States : Goes(c, from, to)
      BY <2>1, GoesEffect
    <3> QED
      BY <1>0, <1>n, <3>1 DEF Goes, Called
  <2>2. CASE SuccessBegin(c)
    BY <1>0, <2>2 DEF SuccessBegin, Called
  <2>3. CASE SuccessEnd(c)
    BY <1>0, <1>n, <2>3, SchedulerAssumption DEF SuccessEnd, States, Inv, Control
  <2>4. CASE DisposeStep(c)
    BY <1>0, <1>n, <1>t, <2>4 DEF DisposeStep, Called
  <2> QED
    BY <1>3, <2>1, <2>2, <2>3, <2>4 DEF http_client_taskwork
<1>4. CASE scheduler_dispose
  BY <1>0, <1>4 DEF scheduler_dispose
<1>5. ASSUME NEW c \in Clients, Initiate(c) PROVE TypeOK'
  <2>1. PICK s \in Slots : scheduler_create_task(c, s) /\ handle' = [handle EXCEPT ![c] = s]
    BY <1>5 DEF Initiate
  <2>2. /\ tasks' \in [Slots -> Clients \cup {NoClient}]
        /\ handle' \in [Clients -> 0..MaxTasks]
    BY <1>0, <1>s, <2>1 DEF scheduler_create_task
  <2>3. state' \in [Clients -> States] /\ starts' \in 0..MaxStarts
    BY <1>0, <1>5 DEF Initiate, States
  <2>4. /\ open' \subseteq Clients /\ thrown' \subseteq Clients /\ unserved' \subseteq Clients
        /\ stale' \subseteq Clients /\ lost' \subseteq Slots
    BY <1>0, <1>d, <1>5 DEF Initiate
  <2> QED
    BY <1>0, <1>5, <2>2, <2>3, <2>4 DEF Initiate
<1>6. ASSUME NEW c \in Clients, InitiateFails(c) PROVE TypeOK'
  <2>1. handle' \in [Clients -> 0..MaxTasks]
    BY <1>0, <1>6 DEF InitiateFails
  <2> QED
    BY <1>0, <1>d, <1>6, <2>1 DEF InitiateFails
<1>7. ASSUME NEW c \in Clients, AppDispose(c) PROVE TypeOK'
  BY <1>0, <1>t, <1>7 DEF AppDispose
<1>8. CASE UNCHANGED vars
  BY <1>0, <1>8 DEF vars
<1> QED
  BY <1>1, <1>2, <1>3, <1>4, <1>5, <1>6, <1>7, <1>8 DEF Next, scheduler_work

(* Callbacks stay inside scheduler_work.                                   *)
LEMMA ControlStep == Inv /\ [Next]_vars => Control'
<1> SUFFICES ASSUME Inv, [Next]_vars PROVE Control'
    OBVIOUS
<1>0. TypeOK /\ Control /\ SlotsMatch
  BY DEF Inv
<1> USE SchedulerAssumption DEF Control, Slots
<1>d. ASSUME NEW c \in Clients, Dispose(c) PROVE \A s \in lost' : tasks'[s] # NoClient
  <2>1. \A s \in lost' : s \in lost /\ s # handle[c] /\ s \in Slots
    BY <1>0, <1>d DEF Dispose, TypeOK
  <2> QED
    BY <1>0, <1>d, <2>1 DEF Dispose, scheduler_destroy_task
<1>o. ASSUME NEW c \in Clients PROVE \A s \in Overwritten(c) : s \in Slots /\ tasks[s] = c
  BY <1>0 DEF Overwritten, SlotsMatch, TypeOK
<1>1. CASE WorkBegin \/ WorkSkip \/ WorkEnd
  BY <1>0, <1>1 DEF WorkBegin, WorkSkip, WorkEnd
<1>2. ASSUME NEW c \in Clients, http_client_taskwork(c) PROVE Control'
  <2>1. CASE Progress(c) \/ HasBody(c) \/ Fails(c) \/ ErrorStep(c)
    <3>1. PICK from, to \in States : Goes(c, from, to)
      BY <2>1, GoesEffect
    <3> QED
      BY <1>0, <3>1 DEF Goes, Called
  <2>2. CASE SuccessBegin(c)
    BY <1>0, <2>2 DEF SuccessBegin, Called
  <2>3. CASE SuccessEnd(c)
    BY <1>0, <2>3 DEF SuccessEnd
  <2>4. CASE DisposeStep(c)
    BY <1>0, <1>d, <2>4 DEF DisposeStep, Called
  <2> QED
    BY <1>2, <2>1, <2>2, <2>3, <2>4 DEF http_client_taskwork
<1>3. CASE scheduler_dispose
  BY <1>0, <1>3 DEF scheduler_dispose
<1>4. ASSUME NEW c \in Clients, Initiate(c) PROVE Control'
  <2>1. PICK s \in Slots : scheduler_create_task(c, s)
    BY <1>4 DEF Initiate
  <2>2. tasks' = [tasks EXCEPT ![s] = c]
    BY <2>1 DEF scheduler_create_task
  <2>3. \A r \in lost \cup Overwritten(c) : tasks'[r] # NoClient
    BY <1>0, <1>o, <2>2 DEF TypeOK
  <2> QED
    BY <1>0, <1>4, <2>3 DEF Initiate
<1>5. ASSUME NEW c \in Clients, InitiateFails(c) PROVE Control'
  BY <1>0, <1>o, <1>5 DEF InitiateFails
<1>6. ASSUME NEW c \in Clients, AppDispose(c) PROVE Control'
  BY <1>0, <1>d, <1>6 DEF AppDispose
<1>7. CASE UNCHANGED vars
  BY <1>0, <1>7 DEF vars
<1> QED
  BY <1>1, <1>2, <1>3, <1>4, <1>5, <1>6, <1>7 DEF Next, scheduler_work

(* http_client_dispose takes a slot from nobody but Evicted(c): its own    *)
(* client, or whoever a stale handle points to.                            *)
LEMMA DisposeEffect ==
    ASSUME Inv, NEW c \in Clients, Dispose(c)
    PROVE  /\ \A s \in Slots : tasks'[s] = IF s = handle[c] THEN NoClient ELSE tasks[s]
           /\ \A d \in Clients \ Evicted(c) : \A s \in Slots : tasks[s] = d => tasks'[s] = d
<1>1. \A s \in Slots : tasks'[s] = IF s = handle[c] THEN NoClient ELSE tasks[s]
  BY DEF Dispose, scheduler_destroy_task
<1>2. \A s \in Slots : s = handle[c] /\ tasks[s] # NoClient => tasks[s] \in Evicted(c)
  BY SchedulerAssumption DEF Evicted, Slots
<1> QED
  BY <1>1, <1>2, SchedulerAssumption

(* Starting a client, in use or not, keeps slots and handles matched: the  *)
(* slot whose handle is overwritten is the one that is lost.               *)
LEMMA InitiateMatch ==
    ASSUME Inv, NEW c \in Clients, Initiate(c)
    PROVE  SlotsMatch'
<1>0. /\ TypeOK /\ Control /\ SlotsMatch /\ NoClient \notin Clients
      /\ \A s \in Slots : s # 0
  BY SchedulerAssumption DEF Inv, Slots
<1>1. PICK s \in Slots : scheduler_create_task(c, s) /\ handle' = [handle EXCEPT ![c] = s]
  BY DEF Initiate
<1>2. /\ tasks[s] = NoClient /\ tasks' = [tasks EXCEPT ![s] = c]
      /\ lost' = lost \cup Overwritten(c) /\ stale' = stale \ {c}
  BY <1>1 DEF Initiate, scheduler_create_task, FreeSlots
<1>3. \A r \in Overwritten(c) : tasks[r] = c /\ r = handle[c] /\ r \in Slots
  BY <1>0 DEF Overwritten, SlotsMatch, TypeOK, Slots
<1>4. \A r \in Slots : tasks[r] = c /\ handle[c] = r => r \in Overwritten(c)
  BY <1>0 DEF Overwritten, SlotsMatch
<1>5. ASSUME NEW r \in Slots, tasks'[r] # NoClient
      PROVE  handle'[tasks'[r]] = r <=> r \notin lost'
  <2>1. CASE r = s
    <3>1. tasks'[r] = c /\ handle'[c] = r
      BY <1>0, <1>1, <1>2, <2>1 DEF TypeOK
    <3>2. s \notin lost'
      BY <1>0, <1>2, <1>3 DEF Control
    <3> QED
      BY <2>1, <3>1, <3>2
  <2>2. CASE r # s /\ tasks[r] = c
    <3>1. tasks'[r] = c /\ handle'[c] # r
      BY <1>0, <1>1, <1>2, <2>2 DEF TypeOK
    <3>2. r \in lost'
      BY <1>0, <1>2, <1>4, <2>2 DEF SlotsMatch
    <3> QED
      BY <3>1, <3>2
  <2>3. CASE r # s /\ tasks[r] # c
    <3>1. tasks'[r] = tasks[r] /\ tasks[r] \in Clients /\ handle'[tasks[r]] = handle[tasks[r]]
      BY <1>0, <1>1, <1>2, <1>5, <2>3 DEF TypeOK
    <3>2. r \in lost' <=> r \in lost
      BY <1>2, <1>3, <2>3
    <3> QED
      BY <1>0, <1>5, <3>1, <3>2 DEF SlotsMatch
  <2> QED
    BY <2>1, <2>2, <2>3
<1>6. ASSUME NEW d \in Clients, handle'[d] # 0
      PROVE  tasks'[handle'[d]] = d <=> d \notin stale'
  <2>1. CASE d = c
    BY <1>0, <1>1, <1>2, <2>1 DEF TypeOK
  <2>2. CASE d # c
    <3>1. handle'[d] = handle[d] /\ handle[d] \in Slots /\ handle[d] # 0
      BY <1>0, <1>1, <1>6, <2>2, SchedulerAssumption DEF TypeOK, Slots
    <3>2. tasks[handle[d]] = d <=> d \notin stale
      BY <1>0, <3>1 DEF SlotsMatch
    <3>3. tasks'[handle[d]] = d <=> tasks[handle[d]] = d
      BY <1>0, <1>2, <2>2, <3>1 DEF TypeOK
    <3> QED
      BY <1>2, <2>2, <3>1, <3>2, <3>3
  <2> QED
    BY <2>1, <2>2
<1> QED
  BY <1>5, <1>6 DEF SlotsMatch

(* So does a start that fails.                                             *)
LEMMA FailedInitiateMatch ==
    ASSUME Inv, NEW c \in Clients, InitiateFails(c)
    PROVE  SlotsMatch'
<1>0. /\ TypeOK /\ Control /\ SlotsMatch /\ NoClient \notin Clients
      /\ \A s \in Slots : s # 0
  BY SchedulerAssumption DEF Inv, Slots
<1>1. /\ handle' = [handle EXCEPT ![c] = 0] /\ tasks' = tasks
      /\ lost' = lost \cup Overwritten(c) /\ stale' = stale \ {c}
  BY DEF InitiateFails
<1>2. \A r \in Overwritten(c) : tasks[r] = c
  BY <1>0 DEF Overwritten, SlotsMatch
<1>3. \A r \in Slots : tasks[r] = c /\ handle[c] = r => r \in Overwritten(c)
  BY <1>0 DEF Overwritten, SlotsMatch
<1>4. ASSUME NEW r \in Slots, tasks[r] # NoClient
      PROVE  handle'[tasks[r]] = r <=> r \notin lost'
  <2>1. CASE tasks[r] = c
    <3>1. handle'[c] # r
      BY <1>0, <1>1 DEF TypeOK
    <3>2. r \in lost'
      BY <1>0, <1>1, <1>3, <2>1 DEF SlotsMatch
    <3> QED
      BY <2>1, <3>1, <3>2
  <2>2. CASE tasks[r] # c
    <3>1. tasks[r] \in Clients /\ handle'[tasks[r]] = handle[tasks[r]]
      BY <1>0, <1>1, <1>4, <2>2 DEF TypeOK
    <3>2. r \in lost' <=> r \in lost
      BY <1>1, <1>2, <2>2
    <3> QED
      BY <1>0, <1>4, <3>1, <3>2 DEF SlotsMatch
  <2> QED
    BY <2>1, <2>2
<1>5. \A d \in Clients : handle'[d] # 0 => (tasks[handle'[d]] = d <=> d \notin stale')
  BY <1>0, <1>1 DEF SlotsMatch, TypeOK
<1> QED
  BY <1>1, <1>4, <1>5 DEF SlotsMatch

(* And so does http_client_dispose: those who have a handle to the slot    *)
(* that it clears are the ones with a stale handle afterwards.             *)
LEMMA DisposeMatch ==
    ASSUME Inv, NEW c \in Clients, Dispose(c)
    PROVE  SlotsMatch'
<1>0. /\ TypeOK /\ Control /\ SlotsMatch /\ NoClient \notin Clients
      /\ \A s \in Slots : s # 0
  BY SchedulerAssumption DEF Inv, Slots
<1>1. /\ handle' = [handle EXCEPT ![c] = 0]
      /\ lost' = lost \ {handle[c]}
      /\ stale' = (stale \cup {d \in Clients : handle[d] = handle[c] /\ handle[d] # 0}) \ {c}
  BY DEF Dispose
<1>2. \A s \in Slots : tasks'[s] = IF s = handle[c] THEN NoClient ELSE tasks[s]
  BY DisposeEffect
<1>3. ASSUME NEW r \in Slots, tasks'[r] # NoClient
      PROVE  handle'[tasks'[r]] = r <=> r \notin lost'
  <2>1. r # handle[c] /\ tasks'[r] = tasks[r] /\ tasks[r] \in Clients
    BY <1>0, <1>2, <1>3 DEF TypeOK
  <2>2. handle[tasks[r]] = r <=> r \notin lost
    BY <1>0, <1>3, <2>1 DEF SlotsMatch
  <2>3. handle'[tasks[r]] = r <=> handle[tasks[r]] = r
    BY <1>0, <1>1, <2>1 DEF TypeOK
  <2> QED
    BY <1>1, <2>1, <2>2, <2>3
<1>4. ASSUME NEW d \in Clients, handle'[d] # 0
      PROVE  tasks'[handle'[d]] = d <=> d \notin stale'
  <2>1. d # c /\ handle'[d] = handle[d] /\ handle[d] \in Slots /\ handle[d] # 0
    BY <1>0, <1>1, <1>4, SchedulerAssumption DEF TypeOK, Slots
  <2>2. tasks[handle[d]] = d <=> d \notin stale
    BY <1>0, <2>1 DEF SlotsMatch
  <2>3. CASE handle[d] = handle[c]
    BY <1>0, <1>1, <1>2, <2>1, <2>3
  <2>4. CASE handle[d] # handle[c]
    BY <1>1, <1>2, <2>1, <2>2, <2>4
  <2> QED
    BY <2>3, <2>4
<1> QED
  BY <1>3, <1>4 DEF SlotsMatch

(* A slot and its client keep pointing to each other.                      *)
LEMMA MatchStep == Inv /\ [Next]_vars => SlotsMatch'
<1> SUFFICES ASSUME Inv, [Next]_vars PROVE SlotsMatch'
    OBVIOUS
<1>0. SlotsMatch
  BY DEF Inv
<1>1. CASE UNCHANGED <<tasks, handle, lost, stale>>
  BY <1>0, <1>1 DEF SlotsMatch
<1>2. CASE scheduler_work
  <2>1. ASSUME NEW c \in Clients, http_client_taskwork(c) PROVE SlotsMatch'
    <3>1. CASE Progress(c) \/ HasBody(c) \/ Fails(c) \/ ErrorStep(c)
      BY <1>1, <3>1 DEF Progress, HasBody, Fails, ErrorStep, Goes
    <3>2. CASE SuccessBegin(c) \/ SuccessEnd(c)
      BY <1>1, <3>2 DEF SuccessBegin, SuccessEnd
    <3>3. CASE DisposeStep(c)
      BY <3>3, DisposeMatch DEF DisposeStep
    <3> QED
      BY <2>1, <3>1, <3>2, <3>3 DEF http_client_taskwork
  <2>2. CASE WorkBegin \/ WorkSkip \/ WorkEnd
    BY <1>1, <2>2 DEF WorkBegin, WorkSkip, WorkEnd
  <2> QED
    BY <1>2, <2>1, <2>2 DEF scheduler_work
<1>3. CASE scheduler_dispose
  <2>1. /\ tasks' = [s \in Slots |-> NoClient] /\ handle' = handle
        /\ stale' = {c \in Clients : handle[c] # 0}
    BY <1>3 DEF scheduler_dispose
  <2>2. \A c \in Clients : handle[c] # 0 => handle[c] \in Slots
    BY SchedulerAssumption DEF Inv, TypeOK, Slots
  <2>3. \A c \in Clients : handle'[c] # 0 => (tasks'[handle'[c]] = c <=> c \notin stale')
    BY <2>1, <2>2, SchedulerAssumption
  <2> QED
    BY <2>1, <2>3 DEF SlotsMatch
<1>4. ASSUME NEW c \in Clients, Initiate(c) \/ InitiateFails(c) \/ AppDispose(c)
      PROVE  SlotsMatch'
  BY <1>4, InitiateMatch, FailedInitiateMatch, DisposeMatch DEF AppDispose
<1>5. CASE UNCHANGED vars
  BY <1>1, <1>5 DEF vars
<1> QED
  BY <1>2, <1>3, <1>4, <1>5 DEF Next

(* What the pass has still to call stays in front of the loop, whatever    *)
(* the callbacks start and dispose of.                                     *)
LEMMA AheadStep == Inv /\ [Next]_vars => Ahead'
<1> SUFFICES ASSUME Inv, [Next]_vars PROVE Ahead'
    OBVIOUS
<1>0. /\ TypeOK /\ Control /\ Ahead
      /\ i \in 0..(MaxTasks + 1) /\ MaxTasks \in Nat \ {0}
      /\ unserved \subseteq Clients /\ NoClient \notin Clients
  BY SchedulerAssumption DEF Inv, TypeOK
<1>1. ASSUME NEW c \in Clients, Called(c), unserved' = unserved \ {c}, tasks' = tasks,
             \/ i' = i + 1 /\ calling' = calling
             \/ i' = i
      PROVE  Ahead'
  <2>1. i' # 0
    BY <1>0, <1>1 DEF Called, Slots
  <2>2. ASSUME NEW d \in unserved'
        PROVE  \E s \in Slots : tasks'[s] = d /\ s >= i' /\ (calling' # NoClient => s > i')
    <3>1. PICK s \in Slots : tasks[s] = d /\ s >= i
      BY <1>0, <1>1, <2>2 DEF Ahead
    <3>2. s # i /\ calling = NoClient
      BY <1>1, <2>2, <3>1 DEF Called
    <3> QED
      BY <1>0, <1>1, <3>1, <3>2 DEF Slots
  <2> QED
    BY <2>1, <2>2 DEF Ahead
<1>2. ASSUME \A c \in unserved' : \A s \in Slots : tasks[s] = c => tasks'[s] = c,
             unserved' \subseteq unserved, i' = i, calling' = calling
      PROVE  Ahead'
  BY <1>0, <1>2 DEF Ahead
<1>3. ASSUME NEW c \in Clients, Dispose(c), unserved' \subseteq unserved \ Evicted(c)
      PROVE  \A d \in unserved' : \A s \in Slots : tasks[s] = d => tasks'[s] = d
  BY <1>0, <1>3, DisposeEffect
<1>4. CASE scheduler_work
  <2>1. CASE WorkBegin
    BY <1>0, <2>1 DEF WorkBegin, Ahead, Slots, Control
  <2>2. CASE WorkSkip
    <3>1. i \in Slots /\ tasks[i] = NoClient /\ i' = i + 1 /\ calling = NoClient
      BY <2>2 DEF WorkSkip
    <3>2. UNCHANGED <<tasks, unserved, calling>>
      BY <2>2 DEF WorkSkip
    <3>3. ASSUME NEW d \in unserved PROVE \E s \in Slots : tasks[s] = d /\ s >= i + 1
      <4>1. PICK s \in Slots : tasks[s] = d /\ s >= i
        BY <1>0 DEF Ahead
      <4>2. s # i
        BY <1>0, <3>1, <4>1
      <4> QED
        BY <1>0, <4>1, <4>2 DEF Slots
    <3> QED
      BY <1>0, <3>1, <3>2, <3>3 DEF Ahead, Slots
  <2>3. CASE WorkEnd
    <3>1. unserved = {}
      BY <1>0, <2>3 DEF WorkEnd, Ahead, Slots
    <3> QED
      BY <2>3, <3>1 DEF WorkEnd, Ahead
  <2>4. ASSUME NEW c \in Clients, http_client_taskwork(c) PROVE Ahead'
    <3>1. CASE Progress(c) \/ HasBody(c) \/ Fails(c) \/ ErrorStep(c)
      BY <1>1, <3>1 DEF Progress, HasBody, Fails, ErrorStep, Goes
    <3>2. CASE SuccessBegin(c)
      BY <1>1, <3>2 DEF SuccessBegin
    <3>3. CASE SuccessEnd(c)
      <4>1. calling = c /\ i \in Slots /\ i' = i + 1 /\ calling' = NoClient
        BY <1>0, <3>3 DEF SuccessEnd, Control
      <4>2. UNCHANGED <<tasks, unserved>>
        BY <3>3 DEF SuccessEnd
      <4>3. \A d \in unserved : \E s \in Slots : tasks[s] = d /\ s > i
        BY <1>0, <4>1 DEF Ahead
      <4> QED
        BY <1>0, <4>1, <4>2, <4>3 DEF Ahead, Slots
    <3>4. CASE DisposeStep(c)
      <4>1. /\ Called(c) /\ i' = i + 1 /\ calling' = calling /\ Dispose(c)
            /\ unserved' = unserved \ ({c} \cup Evicted(c))
        BY <3>4 DEF DisposeStep
      <4>2. \A d \in unserved' : /\ d \in unserved /\ d # c
                                 /\ \A s \in Slots : tasks[s] = d => tasks'[s] = d
        BY <1>3, <4>1
      <4>3. ASSUME NEW d \in unserved' PROVE \E s \in Slots : tasks'[s] = d /\ s >= i + 1
        <5>1. PICK s \in Slots : tasks[s] = d /\ s >= i
          BY <1>0, <4>2 DEF Ahead
        <5>2. s # i
          BY <4>1, <4>2, <5>1 DEF Called
        <5> QED
          BY <1>0, <4>2, <5>1, <5>2 DEF Slots
      <4> QED
        BY <1>0, <4>1, <4>3 DEF Ahead, Called, Slots
    <3> QED
      BY <2>4, <3>1, <3>2, <3>3, <3>4 DEF http_client_taskwork
  <2> QED
    BY <1>4, <2>1, <2>2, <2>3, <2>4 DEF scheduler_work
<1>5. CASE scheduler_dispose
  BY <1>0, <1>5 DEF scheduler_dispose, Ahead
<1>6. ASSUME NEW c \in Clients, Initiate(c) \/ InitiateFails(c) PROVE Ahead'
  <2>1. UNCHANGED <<i, calling, unserved>>
    BY <1>6 DEF Initiate, InitiateFails
  <2>2. tasks' = tasks \/ \E s \in Slots : scheduler_create_task(c, s)
    BY <1>6 DEF Initiate, InitiateFails
  <2>3. \A s \in Slots : tasks[s] # NoClient => tasks'[s] = tasks[s]
    BY <1>0, <2>2 DEF scheduler_create_task, FreeSlots, TypeOK
  <2> QED
    BY <1>0, <1>2, <2>1, <2>3
<1>7. ASSUME NEW c \in Clients, AppDispose(c) PROVE Ahead'
  BY <1>2, <1>3, <1>7 DEF AppDispose
<1>8. CASE UNCHANGED vars
  BY <1>0, <1>8 DEF vars, Ahead
<1> QED
  BY <1>4, <1>5, <1>6, <1>7, <1>8 DEF Next

(* A request loses its last slot only with an outcome, or when it is one   *)
(* of those thrown away.                                                   *)
LEMMA OutcomeStep == Inv /\ [Next]_vars => OutcomeDue'
<1> SUFFICES ASSUME Inv, [Next]_vars PROVE OutcomeDue'
    OBVIOUS
<1>0. /\ TypeOK /\ OutcomeDue /\ state \in [Clients -> States]
      /\ open \subseteq Clients /\ NoClient \notin Clients
  BY SchedulerAssumption DEF Inv, TypeOK
<1> USE DEF OutcomeDue, Outstanding
<1>1. ASSUME NEW c \in Clients, Dispose(c), c \notin open' \ thrown,
             open' \subseteq open, state' = state
      PROVE  OutcomeDue'
  <2>1. \A d \in open' \ thrown' : d \in open \ thrown /\ d \in Clients \ Evicted(c)
    BY <1>0, <1>1 DEF Dispose
  <2>2. \A d \in open' \ thrown' : \A s \in Slots : tasks[s] = d => tasks'[s] = d
    BY <1>1, <2>1, DisposeEffect
  <2> QED
    BY <1>0, <1>1, <2>1, <2>2
<1>2. CASE scheduler_work
  <2>1. CASE WorkBegin \/ WorkSkip \/ WorkEnd
    BY <1>0, <2>1 DEF WorkBegin, WorkSkip, WorkEnd
  <2>2. ASSUME NEW c \in Clients, http_client_taskwork(c) PROVE OutcomeDue'
    <3>1. CASE Progress(c) \/ HasBody(c) \/ Fails(c) \/ ErrorStep(c)
      <4>1. PICK from, to \in States : Goes(c, from, to)
        BY <3>1, GoesEffect
      <4> QED
        BY <1>0, <4>1 DEF Goes
    <3>2. CASE SuccessBegin(c)
      BY <1>0, <3>2 DEF SuccessBegin
    <3>3. CASE SuccessEnd(c)
      BY <1>0, <3>3 DEF SuccessEnd
    <3>4. CASE DisposeStep(c)
      BY <1>0, <1>1, <3>4 DEF DisposeStep
    <3> QED
      BY <2>2, <3>1, <3>2, <3>3, <3>4 DEF http_client_taskwork
  <2> QED
    BY <1>2, <2>1, <2>2 DEF scheduler_work
<1>3. CASE scheduler_dispose
  BY <1>3 DEF scheduler_dispose
<1>4. ASSUME NEW c \in Clients, Initiate(c) PROVE OutcomeDue'
  <2>1. PICK s \in Slots : scheduler_create_task(c, s)
    BY <1>4 DEF Initiate
  <2>2. tasks'[s] = c /\ \A r \in Slots : tasks[r] # NoClient => tasks'[r] = tasks[r]
    BY <1>0, <2>1 DEF scheduler_create_task, FreeSlots, TypeOK
  <2>3. /\ state' = [state EXCEPT ![c] = "working"]
        /\ open' = open \cup {c} /\ thrown' = thrown \ {c}
    BY <1>4 DEF Initiate
  <2>4. \A d \in Outstanding' : d = c \/ d \in Outstanding
    BY <2>3
  <2>5. \A d \in Outstanding' : state'[d] # "disposing"
    BY <1>0, <2>3, <2>4
  <2>6. \A d \in Outstanding' : \E r \in Slots : tasks'[r] = d
    BY <1>0, <2>2, <2>4
  <2> QED
    BY <2>5, <2>6
<1>5. ASSUME NEW c \in Clients, InitiateFails(c) PROVE OutcomeDue'
  BY <1>0, <1>5 DEF InitiateFails
<1>6. ASSUME NEW c \in Clients, AppDispose(c) PROVE OutcomeDue'
  BY <1>1, <1>6 DEF AppDispose
<1>7. CASE UNCHANGED vars
  BY <1>0, <1>7 DEF vars
<1> QED
  BY <1>2, <1>3, <1>4, <1>5, <1>6, <1>7 DEF Next

-----------------------------------------------------------------------------
(* The inductive invariant holds in every state of the scheduler and its   *)
(* clients.                                                                *)
THEOREM Invariance == Spec => []Inv
<1>1. Inv /\ [Next]_vars => Inv'
  BY TypeStep, ControlStep, MatchStep, AheadStep, OutcomeStep DEF Inv
<1> QED
  BY <1>1, InvInit, PTL DEF Spec

(* The types of Scheduler: the loop of scheduler_work never leaves the     *)
(* table, even when callbacks start and dispose of clients under it.       *)
THEOREM TypeCorrect == Spec => []TypeOK
BY Invariance, PTL DEF Inv

(* Slots and handles match for any size of the table, whatever order       *)
(* clients are started, started again and disposed of in: a slot is leaked *)
(* exactly when its client is started again while it has it, and           *)
(* http_client_dispose clears the slot of another client only through a    *)
(* handle that scheduler_dispose has left behind.                          *)
THEOREM SlotsAndHandles == Spec => []SlotsMatch
BY Invariance, PTL DEF Inv

(* When a pass of scheduler_work ends, every client that was registered    *)
(* when it began and has not lost a slot since was called.                 *)
THEOREM NobodySkipped == Spec => []PassIsComplete
<1>1. Inv => PassIsComplete
  BY SchedulerAssumption DEF Inv, TypeOK, Ahead, PassIsComplete, Slots
<1> QED
  BY <1>1, Invariance, PTL

(* A task count of zero means that every request has had its outcome, but  *)
(* for those started in the on_success of their own client and those whose *)
(* slot was cleared by scheduler_dispose or through a stale handle.        *)
THEOREM ZeroMeansDone == Spec => []EmptyMeansDone
<1>1. Inv => EmptyMeansDone
  <2> SUFFICES ASSUME Inv, scheduler_get_task_count = 0 PROVE open \subseteq thrown
      BY DEF EmptyMeansDone
  <2>0. IsFiniteSet(Slots)
    BY SchedulerAssumption, FS_Interval DEF Slots
  <2>1. IsFiniteSet(Slots \ FreeSlots)
    BY <2>0, FS_Difference
  <2>2. Slots \ FreeSlots = {}
    BY <2>1, FS_EmptySet DEF scheduler_get_task_count
  <2>3. \A s \in Slots : tasks[s] = NoClient
    BY <2>2 DEF FreeSlots
  <2> QED
    BY <2>3, SchedulerAssumption DEF Inv, OutcomeDue, Outstanding, TypeOK
<1> QED
  BY <1>1, Invariance, PTL
=============================================================================
