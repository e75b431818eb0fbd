----------------------------- MODULE LinkedList -----------------------------
(***************************************************************************)
(* The doubly linked list of modules/src/linked_list.c, pointer by         *)
(* pointer.  The thread pool's queue and the headers of an HTTP message    *)
(* are such lists.  A node that has been freed keeps its old fields until  *)
(* it is allocated again, as memory does.                                  *)
(***************************************************************************)
EXTENDS Naturals, Sequences

CONSTANTS
  Nodes,   \* addresses malloc may return for a Linked_Item
  Items,   \* what callers put into a list
  Null

ASSUME ListAssumption ==
    /\ Null \notin Nodes
    /\ Items # {}

VARIABLES
  exists,  \* the Linked_List has been created and not destroyed
  head, tail, count,
  next, prev, item,   \* the fields of every node
  live,    \* the nodes that are allocated
  clear    \* "no", or the loop of linked_list_items_dispose is running, called
           \* on its own ("dispose") or from linked_list_destroy ("destroy")

vars == <<exists, head, tail, count, next, prev, item, live, clear>>

Ptr == Nodes \cup {Null}

TypeOK ==
    /\ exists \in BOOLEAN
    /\ {head, tail} \subseteq Ptr
    /\ count \in Nat
    /\ next \in [Nodes -> Ptr]
    /\ prev \in [Nodes -> Ptr]
    /\ item \in [Nodes -> Items]
    /\ live \subseteq Nodes
    /\ clear \in {"no", "dispose", "destroy"}

Init ==
    /\ exists = FALSE
    /\ head = Null /\ tail = Null /\ count = 0
    /\ next = [n \in Nodes |-> Null]
    /\ prev = [n \in Nodes |-> Null]
    /\ item = [n \in Nodes |-> CHOOSE x \in Items : TRUE]
    /\ live = {}
    /\ clear = "no"

linked_list_create ==
    /\ ~exists
    /\ exists' = TRUE
    /\ head' = Null /\ tail' = Null /\ count' = 0
    /\ UNCHANGED <<next, prev, item, live, clear>>

(* Mutant: the new node does not point back to the old tail.               *)
NoBackLink(n) == [prev EXCEPT ![n] = Null]

BackLink(n) == [prev EXCEPT ![n] = tail]     \* Null if the list is empty

(* Mutant: the new node goes to the front.                                 *)
AddInFront(n, x) ==
    /\ exists /\ clear = "no"
    /\ n \in Nodes \ live
    /\ live' = live \cup {n}
    /\ item' = [item EXCEPT ![n] = x]
    /\ next' = [next EXCEPT ![n] = head]
    /\ prev' = [m \in Nodes |-> IF m = n THEN Null ELSE IF m = head THEN n ELSE prev[m]]
    /\ head' = n
    /\ tail' = IF tail = Null THEN n ELSE tail
    /\ count' = count + 1
    /\ UNCHANGED <<exists, clear>>

(* malloc returns a node that is not allocated; when it returns NULL the   *)
(* call returns -1 and changes nothing.                                    *)
linked_list_item_add(n, x) ==
    /\ exists /\ clear = "no"
    /\ n \in Nodes \ live
    /\ live' = live \cup {n}
    /\ item' = [item EXCEPT ![n] = x]
    /\ prev' = BackLink(n)
    /\ tail' = n
    /\ count' = count + 1
    /\ IF tail = Null
       THEN /\ head' = n
            /\ next' = [next EXCEPT ![n] = Null]
       ELSE /\ next' = [next EXCEPT ![n] = Null, ![tail] = n]
            /\ UNCHANGED head
    /\ UNCHANGED <<exists, clear>>

(* The only node, the first, the last, and one in the middle.              *)
Unlink(n) ==
    \/ /\ next[n] = Null /\ prev[n] = Null
       /\ head' = Null /\ tail' = Null
       /\ UNCHANGED <<next, prev>>
    \/ /\ next[n] # Null /\ prev[n] = Null
       /\ head' = next[n]
       /\ prev' = [prev EXCEPT ![next[n]] = Null]
       /\ UNCHANGED <<tail, next>>
    \/ /\ next[n] = Null /\ prev[n] # Null
       /\ tail' = prev[n]
       /\ next' = [next EXCEPT ![prev[n]] = Null]
       /\ UNCHANGED <<head, prev>>
    \/ /\ next[n] # Null /\ prev[n] # Null
       /\ next' = [next EXCEPT ![prev[n]] = next[n]]
       /\ prev' = [prev EXCEPT ![next[n]] = prev[n]]
       /\ UNCHANGED <<head, tail>>

(* Mutant: the count is taken down twice.                                  *)
CountTwice(n) ==
    /\ Unlink(n)
    /\ live' = live \ {n}
    /\ count' = count - 2
    /\ UNCHANGED <<exists, item>>

Remove(n) ==
    /\ Unlink(n)
    /\ live' = live \ {n}
    /\ count' = count - 1
    /\ UNCHANGED <<exists, item>>

(* The caller passes a node of the list.                                   *)
linked_list_item_remove(n) ==
    /\ exists /\ clear = "no"
    /\ n \in live
    /\ Remove(n)
    /\ UNCHANGED clear

(* The loop of linked_list_items_dispose removes the head until there is   *)
(* none; linked_list_destroy then frees the list.                          *)
ClearBegin(how) ==
    /\ exists /\ clear = "no"
    /\ clear' = how
    /\ UNCHANGED <<exists, head, tail, count, next, prev, item, live>>

(* Mutant: the loop does not remove the head.                              *)
ClearStuck ==
    /\ clear # "no"
    /\ head # Null
    /\ UNCHANGED vars

ClearStep ==
    /\ clear # "no"
    /\ head # Null
    /\ Remove(head)
    /\ UNCHANGED clear

ClearEnd ==
    /\ clear # "no"
    /\ head = Null
    /\ exists' = (clear = "dispose")
    /\ clear' = "no"
    /\ UNCHANGED <<head, tail, count, next, prev, item, live>>

Next ==
    \/ linked_list_create
    \/ \E n \in Nodes, x \in Items : linked_list_item_add(n, x)
    \/ \E n \in Nodes : linked_list_item_remove(n)
    \/ \E how \in {"dispose", "destroy"} : ClearBegin(how)
    \/ ClearStep \/ ClearEnd

Spec == Init /\ [][Next]_vars

(* linked_list_items_dispose goes on until it is done.                     *)
FairSpec == Spec /\ WF_vars(ClearStep \/ ClearEnd)

-----------------------------------------------------------------------------
(* linked_list_foreach: the first n nodes along next, and along prev.      *)
Forward ==
    LET at[k \in 1..count] == IF k = 1 THEN head ELSE next[at[k - 1]] IN at
Backward ==
    LET at[k \in 1..count] == IF k = 1 THEN tail ELSE prev[at[k - 1]] IN at

(* From either end, count steps visit every allocated node exactly once,   *)
(* in opposite orders, and then there is Null: no node is lost, freed      *)
(* memory is never reached, and a loop over the list ends.                 *)
BothWays ==
    IF count = 0 THEN head = Null /\ tail = Null /\ live = {}
    ELSE /\ \A k \in 1..count : Forward[k] = Backward[count + 1 - k]
         /\ {Forward[k] : k \in 1..count} = live
         /\ next[tail] = Null /\ prev[head] = Null

Queue == INSTANCE ItemSequence
    WITH entries <- [k \in 1..count |-> [node |-> Forward[k], item |-> item[Forward[k]]]]

(* The pointers implement a sequence.                                      *)
ImplementsSequence == Queue!QSpec

(* linked_list_items_dispose and linked_list_destroy return.               *)
ClearEnds == clear # "no" ~> clear = "no"
=============================================================================
