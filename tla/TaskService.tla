---------------------------- MODULE TaskService ----------------------------
(***************************************************************************)
(* What a thread pool promises its callers, without threads, mutexes or    *)
(* condition variables.  Accepted tasks wait in the order in which they    *)
(* were accepted, start in that order, at most MaxRunning at a time, each  *)
(* runs exactly once, and the service closes only when nothing is waiting  *)
(* or running.  ThreadPool is shown to implement this specification.       *)
(***************************************************************************)
EXTENDS Naturals, Sequences, FiniteSets

CONSTANTS Tasks,       \* the submissions the callers make
          MaxRunning   \* the number of threads of the pool

VARIABLES pending,     \* accepted tasks that have not started, oldest first
          running,     \* tasks whose function is running
          done,        \* tasks that have run to the end, callback included
          closed       \* the service has shut down

svars == <<pending, running, done, closed>>

InService == {pending[i] : i \in DOMAIN pending} \cup running \cup done

SInit ==
    /\ pending = <<>>
    /\ running = {}
    /\ done = {}
    /\ closed = FALSE

Accept(t) ==
    /\ ~closed
    /\ t \notin InService
    /\ pending' = Append(pending, t)
    /\ UNCHANGED <<running, done, closed>>

Start ==
    /\ pending # <<>>
    /\ Cardinality(running) < MaxRunning
    /\ running' = running \cup {Head(pending)}
    /\ pending' = Tail(pending)
    /\ UNCHANGED <<done, closed>>

Finish(t) ==
    /\ t \in running
    /\ running' = running \ {t}
    /\ done' = done \cup {t}
    /\ UNCHANGED <<pending, closed>>

Close ==
    /\ pending = <<>>
    /\ running = {}
    /\ closed' = TRUE
    /\ UNCHANGED <<pending, running, done>>

SNext ==
    \/ \E t \in Tasks : Accept(t) \/ Finish(t)
    \/ Start
    \/ Close

SSpec == SInit /\ [][SNext]_svars
=============================================================================
