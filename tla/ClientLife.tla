----------------------------- MODULE ClientLife -----------------------------
(***************************************************************************)
(* A scheduled HTTP client as the scheduler and the application see it:    *)
(* the states between CONNECTING and READING_BODY are one, and a request   *)
(* holds a slot from http_client_initiate to http_client_dispose.          *)
(* HttpClient implements these steps, and Scheduler has them for a client  *)
(* that is started only when it holds no slot; what becomes of one that is *)
(* started while in use is in Scheduler alone.                             *)
(***************************************************************************)
VARIABLES
  state,   \* "unused", "working", "returning", "error" or "disposing"
  held     \* whether the client holds a slot

Init == state = "unused" /\ ~held

Start ==
    /\ ~held
    /\ state' = "working"
    /\ held' = TRUE

(* A call of http_client_taskwork before the last.                         *)
Steps == {<<"working", "returning">>, <<"working", "error">>, <<"returning", "error">>,
          <<"returning", "disposing">>, <<"error", "disposing">>}

Work ==
    /\ held
    /\ <<state, state'>> \in Steps
    /\ UNCHANGED held

(* The last one.                                                           *)
Dispose ==
    /\ held
    /\ state = "disposing"
    /\ held' = FALSE
    /\ UNCHANGED state

Next == Start \/ Work \/ Dispose

Spec == Init /\ [][Next]_<<state, held>>
=============================================================================
