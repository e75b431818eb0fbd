-------------------------- MODULE LinkedListProofs --------------------------
(***************************************************************************)
(* The pointers of LinkedList implement a sequence, for every set of nodes *)
(* and so for lists of every length.                                       *)
(*                                                                         *)
(* BothWays follows the pointers with recursive functions, which is not    *)
(* how a step can be reasoned about.  The inductive invariant says instead *)
(* that there is an enumeration of the list that every pointer agrees      *)
(* with; each operation gives the enumeration of the list after it.  That  *)
(* following the pointers yields this enumeration is proved once, by       *)
(* looking at the first place where it would not.                          *)
(***************************************************************************)
EXTENDS LinkedList, SequenceTheorems, TLAPS

Least == INSTANCE TextProofs

(* at enumerates the list: every allocated node once, from head to tail,   *)
(* with the pointers of each leading to its neighbours.                    *)
Chain(at) ==
    /\ at \in [1..count -> Nodes]
    /\ \A j, k \in 1..count : at[j] = at[k] => j = k
    /\ live = {at[k] : k \in 1..count}
    /\ head = IF count = 0 THEN Null ELSE at[1]
    /\ tail = IF count = 0 THEN Null ELSE at[count]
    /\ \A k \in 1..count : next[at[k]] = IF k = count THEN Null ELSE at[k + 1]
    /\ \A k \in 1..count : prev[at[k]] = IF k = 1 THEN Null ELSE at[k - 1]

(* A list that does not exist is empty, and only one that exists is being  *)
(* cleared.                                                                *)
Lifetime ==
    /\ ~exists => count = 0
    /\ clear # "no" => exists

Inv ==
    /\ TypeOK
    /\ Lifetime
    /\ \E at : Chain(at)

-----------------------------------------------------------------------------
(* The enumeration after an operation.                                     *)

Extended(at, n)   == [k \in 1..(count + 1) |-> IF k = count + 1 THEN n ELSE at[k]]
Shortened(at, j)  == [k \in 1..(count - 1) |-> IF k < j THEN at[k] ELSE at[k + 1]]

(* linked_list_item_add puts the new node behind the last.                 *)
LEMMA AddStep ==
    ASSUME Inv, NEW n \in Nodes, NEW x \in Items, linked_list_item_add(n, x),
           NEW at, Chain(at), NEW after, after = Extended(at, n)
    PROVE  Chain(after)'
<1> USE ListAssumption DEF linked_list_item_add, BackLink
<1>0. /\ count \in Nat /\ count' = count + 1 /\ n \notin live /\ live' = live \cup {n}
      /\ next \in [Nodes -> Ptr] /\ prev \in [Nodes -> Ptr]
  BY DEF Inv, TypeOK
<1>1. /\ at \in [1..count -> Nodes]
      /\ \A j, k \in 1..count : at[j] = at[k] => j = k
      /\ live = {at[k] : k \in 1..count}
      /\ head = IF count = 0 THEN Null ELSE at[1]
      /\ tail = IF count = 0 THEN Null ELSE at[count]
      /\ \A k \in 1..count : next[at[k]] = IF k = count THEN Null ELSE at[k + 1]
      /\ \A k \in 1..count : prev[at[k]] = IF k = 1 THEN Null ELSE at[k - 1]
  BY DEF Chain
<1>2. /\ after \in [1..(count + 1) -> Nodes]
      /\ after[count + 1] = n
      /\ \A k \in 1..count : after[k] = at[k] /\ after[k] # n
  BY <1>0, <1>1 DEF Extended
<1>3. \A j, k \in 1..(count + 1) : after[j] = after[k] => j = k
  BY <1>0, <1>1, <1>2
<1>4. live' = {after[k] : k \in 1..(count + 1)}
  BY <1>0, <1>1, <1>2
<1>5. head' = after[1] /\ tail' = after[count + 1]
  BY <1>0, <1>1, <1>2
<1>6. \A k \in 1..(count + 1) :
         next'[after[k]] = IF k = count + 1 THEN Null ELSE after[k + 1]
  <2>1. CASE tail = Null
    BY <2>1, <1>0, <1>1, <1>2
  <2>2. CASE tail # Null
    <3>1. next' = [next EXCEPT ![n] = Null, ![tail] = n] /\ count > 0 /\ tail = at[count]
      BY <2>2, <1>0, <1>1
    <3> QED
      BY <3>1, <1>0, <1>1, <1>2
  <2> QED
    BY <2>1, <2>2
<1>7. \A k \in 1..(count + 1) :
         prev'[after[k]] = IF k = 1 THEN Null ELSE after[k - 1]
  <2>1. prev' = [prev EXCEPT ![n] = tail]
    OBVIOUS
  <2> QED
    BY <2>1, <1>0, <1>1, <1>2
<1> QED
  BY <1>0, <1>2, <1>3, <1>4, <1>5, <1>6, <1>7 DEF Chain

(* Taking out the node at place j closes the gap, whichever of the four    *)
(* cases of Unlink it is.                                                  *)
LEMMA RemoveStep ==
    ASSUME TypeOK, NEW at, Chain(at), NEW j \in 1..count, Remove(at[j]),
           NEW after, after = Shortened(at, j)
    PROVE  Chain(after)' /\ count' \in Nat
<1> USE ListAssumption
<1>0. /\ count \in Nat /\ count' = count - 1 /\ live' = live \ {at[j]} /\ Unlink(at[j])
      /\ next \in [Nodes -> Ptr] /\ prev \in [Nodes -> Ptr]
  BY DEF TypeOK, Remove
<1>1. /\ at \in [1..count -> Nodes]
      /\ \A i, k \in 1..count : at[i] = at[k] => i = k
      /\ live = {at[k] : k \in 1..count}
      /\ head = IF count = 0 THEN Null ELSE at[1]
      /\ tail = IF count = 0 THEN Null ELSE at[count]
      /\ \A k \in 1..count : next[at[k]] = IF k = count THEN Null ELSE at[k + 1]
      /\ \A k \in 1..count : prev[at[k]] = IF k = 1 THEN Null ELSE at[k - 1]
  BY DEF Chain
<1>2. /\ after \in [1..(count - 1) -> Nodes]
      /\ \A k \in 1..(count - 1) : after[k] = IF k < j THEN at[k] ELSE at[k + 1]
  BY <1>0, <1>1 DEF Shortened
<1>3. \A i, k \in 1..(count - 1) : after[i] = after[k] => i = k
  BY <1>0, <1>1, <1>2
<1>4. live' = {after[k] : k \in 1..(count - 1)}
  <2>1. \A k \in 1..(count - 1) : after[k] \in live'
    BY <1>0, <1>1, <1>2
  <2>2. ASSUME NEW m \in live' PROVE \E k \in 1..(count - 1) : after[k] = m
    <3>1. PICK i \in 1..count : at[i] = m /\ i # j
      BY <2>2, <1>0, <1>1
    <3>2. CASE i < j
      <4>1. i \in 1..(count - 1) /\ after[i] = m
        BY <3>1, <3>2, <1>0, <1>2
      <4> QED
        BY <4>1
    <3>3. CASE i > j
      <4>1. i - 1 \in 1..(count - 1) /\ after[i - 1] = m
        BY <3>1, <3>3, <1>0, <1>2
      <4> QED
        BY <4>1
    <3> QED
      BY <3>1, <3>2, <3>3, <1>0
  <2> QED
    BY <2>1, <2>2
<1>5. /\ next[at[j]] = Null <=> j = count
      /\ prev[at[j]] = Null <=> j = 1
      /\ j # count => next[at[j]] = at[j + 1]
      /\ j # 1 => prev[at[j]] = at[j - 1]
  BY <1>0, <1>1
<1>6. /\ head' = IF count' = 0 THEN Null ELSE after[1]
      /\ tail' = IF count' = 0 THEN Null ELSE after[count']
      /\ \A k \in 1..count' : next'[after[k]] = IF k = count' THEN Null ELSE after[k + 1]
      /\ \A k \in 1..count' : prev'[after[k]] = IF k = 1 THEN Null ELSE after[k - 1]
  <2>1. CASE j = 1 /\ j = count
    BY <2>1, <1>0, <1>1, <1>2, <1>5 DEF Unlink
  <2>2. CASE j = 1 /\ j # count
    <3>1. /\ head' = at[2] /\ tail' = tail /\ next' = next
          /\ prev' = [prev EXCEPT ![at[2]] = Null]
      BY <2>2, <1>0, <1>5 DEF Unlink
    <3>2. \A k \in 1..(count - 1) : after[k] = at[k + 1]
      BY <2>2, <1>0, <1>2
    <3>3. head' = after[1] /\ tail' = after[count'] /\ count' # 0
      <4>1. 1 \in 1..(count - 1) /\ count - 1 \in 1..(count - 1) /\ (count - 1) + 1 = count
        BY <2>2, <1>0
      <4>2. after[1] = at[1 + 1] /\ after[count - 1] = at[(count - 1) + 1]
        BY <4>1, <3>2
      <4> QED
        BY <4>1, <4>2, <3>1, <1>0, <1>1
    <3>4. ASSUME NEW k \in 1..count'
          PROVE  next'[after[k]] = IF k = count' THEN Null ELSE after[k + 1]
      <4>1. k + 1 \in 1..count /\ after[k] = at[k + 1]
        BY <3>2, <1>0
      <4>2. k # count' => after[k + 1] = at[(k + 1) + 1]
        BY <3>2, <1>0
      <4>3. k = count' <=> k + 1 = count
        BY <1>0
      <4> QED
        BY <4>1, <4>2, <4>3, <3>1, <1>1
    <3>5. ASSUME NEW k \in 1..count'
          PROVE  prev'[after[k]] = IF k = 1 THEN Null ELSE after[k - 1]
      <4>1. k + 1 \in 1..count /\ after[k] = at[k + 1] /\ at[k + 1] \in Nodes
        BY <3>2, <1>0, <1>1
      <4>2. CASE k = 1
        BY <4>1, <4>2, <3>1, <1>0
      <4>3. CASE k # 1
        <5>0. k - 1 \in 1..(count - 1) /\ (k - 1) + 1 = k /\ 2 \in 1..count
          BY <4>1, <4>3, <2>2, <1>0
        <5>1. at[k + 1] # at[2] /\ prev[at[k + 1]] = at[k] /\ after[k - 1] = at[k]
          <6>1. after[k - 1] = at[(k - 1) + 1]
            BY <5>0, <3>2
          <6>2. k + 1 # 2 /\ k + 1 # 1 /\ (k + 1) - 1 = k
            BY <4>3, <1>0
          <6> QED
            BY <6>1, <6>2, <5>0, <4>1, <1>1
        <5> QED
          BY <5>1, <4>1, <4>3, <3>1, <1>0
      <4> QED
        BY <4>2, <4>3
    <3> QED
      BY <2>2, <3>3, <3>4, <3>5, <1>0
  <2>3. CASE j # 1 /\ j = count
    <3>1. /\ tail' = at[j - 1] /\ head' = head /\ prev' = prev
          /\ next' = [next EXCEPT ![at[j - 1]] = Null]
      BY <2>3, <1>0, <1>5 DEF Unlink
    <3> QED
      BY <2>3, <3>1, <1>0, <1>1, <1>2
  <2>4. CASE j # 1 /\ j # count
    <3>1. /\ head' = head /\ tail' = tail
          /\ next' = [next EXCEPT ![at[j - 1]] = at[j + 1]]
          /\ prev' = [prev EXCEPT ![at[j + 1]] = at[j - 1]]
      BY <2>4, <1>0, <1>5 DEF Unlink
    <3>2. head' = after[1] /\ tail' = after[count']
      BY <2>4, <3>1, <1>0, <1>1, <1>2
    <3>3. \A k \in 1..count' : next'[after[k]] = IF k = count' THEN Null ELSE after[k + 1]
      BY <2>4, <3>1, <1>0, <1>1, <1>2
    <3>4. ASSUME NEW k \in 1..count'
          PROVE  prev'[after[k]] = IF k = 1 THEN Null ELSE after[k - 1]
      <4>0. k \in 1..count /\ k + 1 \in 1..count /\ j + 1 \in 1..count /\ at[j + 1] \in Nodes
        BY <2>4, <1>0, <1>1
      <4>1. CASE k < j
        <5>1. after[k] = at[k] /\ at[k] # at[j + 1] /\ at[k] \in Nodes
          BY <4>0, <4>1, <1>0, <1>1, <1>2
        <5>2. k # 1 => after[k - 1] = at[k - 1]
          BY <4>0, <4>1, <1>0, <1>2
        <5> QED
          BY <4>0, <5>1, <5>2, <3>1, <1>0, <1>1
      <4>2. CASE k = j
        <5>1. after[k] = at[j + 1] /\ after[k - 1] = at[j - 1] /\ k # 1
          BY <4>0, <4>2, <2>4, <1>0, <1>2
        <5> QED
          BY <4>0, <5>1, <3>1, <1>0
      <4>3. CASE k > j
        <5>1. after[k] = at[k + 1] /\ at[k + 1] # at[j + 1] /\ at[k + 1] \in Nodes
          BY <4>0, <4>3, <1>0, <1>1, <1>2
        <5>2. k # 1 /\ after[k - 1] = at[k]
          BY <4>0, <4>3, <1>0, <1>2
        <5> QED
          BY <4>0, <5>1, <5>2, <3>1, <1>0, <1>1
      <4> QED
        BY <4>0, <4>1, <4>2, <4>3, <1>0
    <3> QED
      BY <2>4, <3>2, <3>3, <3>4, <1>0
  <2> QED
    BY <2>1, <2>2, <2>3, <2>4
<1>7. count' \in Nat
  BY <1>0
<1> QED
  BY <1>0, <1>2, <1>3, <1>4, <1>6, <1>7 DEF Chain

(* A removal keeps the types: the neighbours of a node of the list are     *)
(* nodes or Null.                                                          *)
LEMMA RemoveTypes ==
    ASSUME TypeOK, NEW at, Chain(at), NEW j \in 1..count, Remove(at[j])
    PROVE  /\ {head', tail'} \subseteq Ptr
           /\ next' \in [Nodes -> Ptr] /\ prev' \in [Nodes -> Ptr]
           /\ live' \subseteq Nodes
           /\ UNCHANGED <<exists, item>>
<1>1. at[j] \in Nodes /\ Null \in Ptr /\ next[at[j]] \in Ptr /\ prev[at[j]] \in Ptr
  BY DEF TypeOK, Chain, Ptr
<1> QED
  BY <1>1 DEF TypeOK, Remove, Unlink

-----------------------------------------------------------------------------
LEMMA InvInit == Init => Inv
<1> SUFFICES ASSUME Init PROVE Inv
  OBVIOUS
<1>1. TypeOK
  BY ListAssumption DEF Init, TypeOK, Ptr
<1>2. Chain(<<>>)
  BY <1>1 DEF Init, Chain
<1> QED
  BY <1>1, <1>2 DEF Inv, Lifetime, Init

LEMMA InvStep ==
    ASSUME Inv, [Next]_vars
    PROVE  Inv'
<1>0. PICK at : Chain(at)
  BY DEF Inv
<1>1. TypeOK /\ Lifetime
  BY DEF Inv
<1>2. CASE linked_list_create
  <2>1. count = 0 /\ Chain(at)'
    BY <1>0, <1>1, <1>2 DEF linked_list_create, Lifetime, Chain
  <2> QED
    BY <2>1, <1>1, <1>2 DEF linked_list_create, Inv, TypeOK, Lifetime, Ptr
<1>3. ASSUME NEW n \in Nodes, NEW x \in Items, linked_list_item_add(n, x)
      PROVE  Inv'
  <2>1. PICK after : after = Extended(at, n)
    OBVIOUS
  <2>2. Chain(after)'
    BY <1>0, <1>3, <2>1, AddStep
  <2>3. TypeOK' /\ Lifetime'
    BY <1>1, <1>3 DEF linked_list_item_add, BackLink, TypeOK, Lifetime, Ptr
  <2> QED
    BY <2>2, <2>3 DEF Inv
<1>4. ASSUME NEW j \in 1..count, Remove(at[j]), UNCHANGED clear, exists
      PROVE  Inv'
  <2>1. PICK after : after = Shortened(at, j)
    OBVIOUS
  <2>2. Chain(after)' /\ count' \in Nat
    BY <1>0, <1>1, <1>4, <2>1, RemoveStep
  <2>3. TypeOK' /\ Lifetime'
    BY <1>0, <1>1, <1>4, <2>2, RemoveTypes DEF TypeOK, Lifetime
  <2> QED
    BY <2>2, <2>3 DEF Inv
<1>5. ASSUME NEW n \in Nodes, linked_list_item_remove(n)
      PROVE  Inv'
  <2>1. PICK j \in 1..count : at[j] = n
    BY <1>0, <1>5 DEF linked_list_item_remove, Chain
  <2> QED
    BY <1>4, <1>5, <2>1 DEF linked_list_item_remove
<1>6. CASE ClearStep
  <2>1. 1 \in 1..count /\ at[1] = head
    BY <1>0, <1>1, <1>6 DEF ClearStep, Chain, TypeOK
  <2>2. exists
    BY <1>1, <1>6 DEF ClearStep, Lifetime
  <2> QED
    BY <1>4, <1>6, <2>1, <2>2 DEF ClearStep
<1>7. ASSUME NEW how \in {"dispose", "destroy"}, ClearBegin(how)
      PROVE  Inv'
  <2>1. Chain(at)'
    BY <1>0, <1>7 DEF ClearBegin, Chain
  <2> QED
    BY <2>1, <1>1, <1>7 DEF ClearBegin, Inv, TypeOK, Lifetime
<1>8. CASE ClearEnd
  <2>1. count = 0
    BY <1>0, <1>1, <1>8, ListAssumption DEF ClearEnd, Chain, TypeOK
  <2>2. Chain(at)'
    BY <1>0, <1>8 DEF ClearEnd, Chain
  <2> QED
    BY <2>1, <2>2, <1>1, <1>8 DEF ClearEnd, Inv, TypeOK, Lifetime
<1>9. CASE UNCHANGED vars
  <2>1. Chain(at)'
    BY <1>0, <1>9 DEF vars, Chain
  <2> QED
    BY <2>1, <1>1, <1>9 DEF vars, Inv, TypeOK, Lifetime
<1> QED
  BY <1>2, <1>3, <1>5, <1>6, <1>7, <1>8, <1>9 DEF Next

(* The inductive invariant holds in every state of a list.                 *)
THEOREM Invariance == Spec => []Inv
BY InvInit, InvStep, PTL DEF Spec

(* The types of LinkedList: count never goes below zero, and every pointer *)
(* is a node or Null.                                                      *)
THEOREM TypeCorrect == Spec => []TypeOK
BY Invariance, PTL DEF Inv

-----------------------------------------------------------------------------
(* Following the pointers.                                                 *)

(* f follows the pointers step for n nodes, from start.                    *)
Walk(f, n, start, step) ==
    f = [k \in 1..n |-> IF k = 1 THEN start ELSE step[f[k - 1]]]

(* Two walks along the same pointers from the same start are the same.     *)
LEMMA SameWalk ==
    ASSUME NEW n \in Nat, NEW start, NEW step, NEW f, NEW g,
           Walk(f, n, start, step), Walk(g, n, start, step)
    PROVE  f = g
<1>0. f = [k \in 1..n |-> f[k]] /\ g = [k \in 1..n |-> g[k]]
  BY DEF Walk
<1>1. \A k \in 1..n : /\ f[k] = IF k = 1 THEN start ELSE step[f[k - 1]]
                      /\ g[k] = IF k = 1 THEN start ELSE step[g[k - 1]]
  BY DEF Walk
<1>2. ASSUME NEW m \in 1..n, f[m] # g[m] PROVE FALSE
  <2> DEFINE Wrong == {k \in 1..n : f[k] # g[k]}
  <2>1. Wrong \subseteq Nat /\ Wrong # {}
    BY <1>2
  <2>2. PICK x \in Wrong : \A y \in Wrong : x <= y
    <3> HIDE DEF Wrong
    <3> QED
      BY <2>1, Least!LeastPlace
  <2>3. x \in 1..n /\ f[x] # g[x]
    BY <2>2
  <2>4. x # 1
    BY <1>1, <2>3
  <2>5. x - 1 \in 1..n /\ x - 1 \notin Wrong
    BY <2>2, <2>3, <2>4
  <2>6. f[x - 1] = g[x - 1]
    BY <2>5
  <2> QED
    BY <1>1, <2>3, <2>4, <2>6
<1> QED
  BY <1>0, <1>2

(* linked_list_foreach, along next, meets the nodes in the order of at.    *)
LEMMA ForwardIsChain ==
    ASSUME TypeOK, NEW at, Chain(at)
    PROVE  Forward = at
<1>1. Walk(at, count, head, next)
  BY DEF TypeOK, Chain, Walk
<1>2. Forward = CHOOSE f : Walk(f, count, head, next)
  BY DEF Forward, Walk
<1>3. Walk(Forward, count, head, next)
  BY <1>1, <1>2
<1> QED
  BY <1>1, <1>3, SameWalk DEF TypeOK

(* The way back, along prev, meets them in the opposite order.             *)
LEMMA BackwardIsChain ==
    ASSUME TypeOK, NEW at, Chain(at)
    PROVE  Backward = [k \in 1..count |-> at[count + 1 - k]]
<1> DEFINE Back == [k \in 1..count |-> at[count + 1 - k]]
<1>1. Walk(Back, count, tail, prev)
  <2>1. ASSUME NEW k \in 1..count
        PROVE  at[count + 1 - k] = IF k = 1 THEN tail ELSE prev[Back[k - 1]]
    <3>0. count \in Nat
      BY DEF TypeOK
    <3>1. CASE k = 1
      BY <3>0, <3>1 DEF Chain
    <3>2. CASE k # 1
      <4>1. /\ k - 1 \in 1..count /\ count + 2 - k \in 1..count /\ count + 2 - k # 1
            /\ count + 1 - (k - 1) = count + 2 - k /\ (count + 2 - k) - 1 = count + 1 - k
        BY <3>0, <3>2
      <4>2. Back[k - 1] = at[count + 2 - k]
        BY <4>1
      <4>3. prev[at[count + 2 - k]] = at[(count + 2 - k) - 1]
        BY <4>1 DEF Chain
      <4> QED
        BY <3>2, <4>1, <4>2, <4>3
    <3> QED
      BY <3>1, <3>2
  <2> QED
    BY <2>1 DEF Walk
<1>2. Backward = CHOOSE f : Walk(f, count, tail, prev)
  BY DEF Backward, Walk
<1> HIDE DEF Back
<1>3. Walk(Backward, count, tail, prev)
  BY <1>1, <1>2
<1>4. Backward = Back
  BY <1>1, <1>3, SameWalk DEF TypeOK
<1> QED
  BY <1>4 DEF Back

(* From either end, count steps visit every allocated node exactly once,   *)
(* in opposite orders, and end at Null, after any sequence of              *)
(* linked_list_item_add, linked_list_item_remove and disposals.            *)
THEOREM ListIsSound == Spec => []BothWays
<1>1. ASSUME Inv PROVE BothWays
  <2>1. PICK at : Chain(at)
    BY <1>1 DEF Inv
  <2>2. TypeOK /\ count \in Nat
    BY <1>1 DEF Inv, TypeOK
  <2>3. Forward = at /\ Backward = [k \in 1..count |-> at[count + 1 - k]]
    BY <2>1, <2>2, ForwardIsChain, BackwardIsChain
  <2>4. CASE count = 0
    BY <2>1, <2>2, <2>4 DEF Chain, BothWays
  <2>5. CASE count # 0
    <3>1. \A k \in 1..count : Forward[k] = Backward[count + 1 - k]
      <4>1. \A k \in 1..count : count + 1 - k \in 1..count /\ count + 1 - (count + 1 - k) = k
        BY <2>2
      <4> QED
        BY <2>2, <2>3, <4>1
    <3>2. {Forward[k] : k \in 1..count} = live
      BY <2>1, <2>3 DEF Chain
    <3>3. next[tail] = Null /\ prev[head] = Null
      BY <2>1, <2>2, <2>5 DEF Chain
    <3> QED
      BY <2>5, <3>1, <3>2, <3>3 DEF BothWays
  <2> QED
    BY <2>4, <2>5
<1> QED
  BY <1>1, Invariance, PTL

-----------------------------------------------------------------------------
(* The refinement of ItemSequence.                                         *)

Entry == [node : Nodes, item : Items]

(* The sequence that Queue sees, and the same read off an enumeration.     *)
Entries    == [k \in 1..count |-> [node |-> Forward[k], item |-> item[Forward[k]]]]
Listed(at) == [k \in 1..count |-> [node |-> at[k], item |-> item[at[k]]]]

SameEntries == \A at : TypeOK /\ Chain(at) => Entries = Listed(at)

LEMMA EntriesListed == SameEntries
BY ForwardIsChain DEF SameEntries, Entries, Listed

LEMMA ListedType ==
    ASSUME TypeOK, NEW at, Chain(at)
    PROVE  Listed(at) \in Seq(Entry) /\ Len(Listed(at)) = count
<1>1. count \in Nat /\ \A k \in 1..count : [node |-> at[k], item |-> item[at[k]]] \in Entry
  BY DEF TypeOK, Chain, Entry
<1> QED
  BY <1>1 DEF Listed

(* What RemoveAt leaves at each place.                                     *)
LEMMA GapClosed ==
    ASSUME NEW S, NEW e \in Seq(S), NEW j \in 1..Len(e)
    PROVE  SubSeq(e, 1, j - 1) \o SubSeq(e, j + 1, Len(e))
             = [k \in 1..(Len(e) - 1) |-> IF k < j THEN e[k] ELSE e[k + 1]]
<1> DEFINE front == SubSeq(e, 1, j - 1)
           back  == SubSeq(e, j + 1, Len(e))
<1>1. Len(e) \in Nat /\ \A i \in 1..Len(e) : e[i] \in S
  OBVIOUS
<1>2. /\ front \in Seq(S) /\ Len(front) = j - 1
      /\ \A i \in 1..(j - 1) : front[i] = e[i]
  BY <1>1
<1>3. /\ back \in Seq(S) /\ Len(back) = Len(e) - j
      /\ \A i \in 1..(Len(e) - j) : back[i] = e[j + i]
  BY <1>1
<1> HIDE DEF front, back
<1>4. front \o back = [k \in 1..(Len(e) - 1) |->
                         IF k <= j - 1 THEN front[k] ELSE back[k - (j - 1)]]
  <2>1. PICK both : both = front \o back
    OBVIOUS
  <2>2. /\ both \in Seq(S)
        /\ Len(both) = Len(front) + Len(back)
        /\ \A k \in 1..(Len(front) + Len(back)) :
              both[k] = IF k <= Len(front) THEN front[k] ELSE back[k - Len(front)]
    BY <1>2, <1>3, <2>1, ConcatProperties, Zenon
  <2>3. Len(front) + Len(back) = Len(e) - 1
    BY <1>1, <1>2, <1>3
  <2>4. \A k \in 1..(Len(e) - 1) :
           both[k] = IF k <= j - 1 THEN front[k] ELSE back[k - (j - 1)]
    BY <2>2, <2>3, <1>2
  <2>5. both = [k \in 1..(Len(e) - 1) |-> both[k]]
    BY <2>2, <2>3
  <2> QED
    BY <2>1, <2>4, <2>5
<1>5. ASSUME NEW k \in 1..(Len(e) - 1)
      PROVE  (IF k <= j - 1 THEN front[k] ELSE back[k - (j - 1)])
               = IF k < j THEN e[k] ELSE e[k + 1]
  <2>1. CASE k < j
    BY <2>1, <1>1, <1>2
  <2>2. CASE ~(k < j)
    <3>1. k - (j - 1) \in 1..(Len(e) - j) /\ j + (k - (j - 1)) = k + 1 /\ ~(k <= j - 1)
      BY <2>2, <1>1
    <3> QED
      BY <2>2, <3>1, <1>3
  <2> QED
    BY <2>1, <2>2
<1> QED
  BY <1>4, <1>5 DEF front, back

(* linked_list_item_add is AddLast.                                        *)
LEMMA AddRefines ==
    ASSUME TypeOK, NEW n \in Nodes, NEW x \in Items, linked_list_item_add(n, x),
           NEW at, Chain(at), NEW after, after = Extended(at, n)
    PROVE  /\ \A k \in DOMAIN Listed(at) : Listed(at)[k].node # n
           /\ Listed(after)' = Append(Listed(at), [node |-> n, item |-> x])
<1>0. /\ count \in Nat /\ count' = count + 1 /\ item' = [item EXCEPT ![n] = x]
      /\ item \in [Nodes -> Items] /\ n \notin live
  BY DEF linked_list_item_add, TypeOK
<1>1. at \in [1..count -> Nodes] /\ \A k \in 1..count : at[k] # n
  BY <1>0 DEF Chain
<1>2. \A k \in DOMAIN Listed(at) : Listed(at)[k].node # n
  BY <1>1 DEF Listed
<1>3. Listed(at) \in Seq(Entry) /\ Len(Listed(at)) = count /\ [node |-> n, item |-> x] \in Entry
  BY ListedType DEF Entry
<1>4. Listed(after)' = [k \in 1..(count + 1) |-> [node |-> after[k], item |-> item'[after[k]]]]
  BY <1>0 DEF Listed
<1>5. ASSUME NEW k \in 1..(count + 1)
      PROVE  [node |-> after[k], item |-> item'[after[k]]]
               = Append(Listed(at), [node |-> n, item |-> x])[k]
  <2>1. CASE k = count + 1
    <3>1. after[k] = n /\ item'[n] = x
      BY <2>1, <1>0 DEF Extended
    <3>2. Append(Listed(at), [node |-> n, item |-> x])[count + 1] = [node |-> n, item |-> x]
      BY <1>3, AppendProperties
    <3> QED
      BY <2>1, <3>1, <3>2
  <2>2. CASE k # count + 1
    <3>1. k \in 1..count /\ after[k] = at[k] /\ item'[at[k]] = item[at[k]]
      BY <2>2, <1>0, <1>1 DEF Extended
    <3>2. Append(Listed(at), [node |-> n, item |-> x])[k] = Listed(at)[k]
      BY <3>1, <1>3, AppendProperties
    <3> QED
      BY <3>1, <3>2 DEF Listed
  <2> QED
    BY <2>1, <2>2
<1>6. Append(Listed(at), [node |-> n, item |-> x])
        = [k \in 1..(count + 1) |-> Append(Listed(at), [node |-> n, item |-> x])[k]]
  <2>1. /\ Append(Listed(at), [node |-> n, item |-> x]) \in Seq(Entry)
        /\ Len(Append(Listed(at), [node |-> n, item |-> x])) = count + 1
    BY <1>3, AppendProperties
  <2> QED
    BY <2>1
<1> QED
  BY <1>2, <1>4, <1>5, <1>6

(* Taking out the node at place j is TakeOut(j).                           *)
LEMMA RemoveRefines ==
    ASSUME TypeOK, NEW at, Chain(at), NEW j \in 1..count, Remove(at[j]),
           NEW after, after = Shortened(at, j)
    PROVE  /\ j \in DOMAIN Listed(at)
           /\ Listed(after)' = Queue!RemoveAt(Listed(at), j)
<1>0. count \in Nat /\ count' = count - 1 /\ item' = item
  BY DEF Remove, TypeOK
<1>1. Listed(at) \in Seq(Entry) /\ Len(Listed(at)) = count
  BY ListedType
<1>2. Queue!RemoveAt(Listed(at), j)
        = [k \in 1..(count - 1) |-> IF k < j THEN Listed(at)[k] ELSE Listed(at)[k + 1]]
  BY <1>1, GapClosed DEF Queue!RemoveAt
<1>3. Listed(after)' = [k \in 1..(count - 1) |-> [node |-> after[k], item |-> item[after[k]]]]
  BY <1>0 DEF Listed
<1>4. ASSUME NEW k \in 1..(count - 1)
      PROVE  [node |-> after[k], item |-> item[after[k]]]
               = IF k < j THEN Listed(at)[k] ELSE Listed(at)[k + 1]
  <2>1. after[k] = IF k < j THEN at[k] ELSE at[k + 1]
    BY DEF Shortened
  <2>2. k \in 1..count /\ k + 1 \in 1..count
    BY <1>0
  <2> QED
    BY <2>1, <2>2 DEF Listed
<1>5. j \in DOMAIN Listed(at)
  BY DEF Listed
<1> QED
  BY <1>2, <1>3, <1>4, <1>5

LEMMA SequenceInit == Init => Queue!QInit
BY DEF Init, Queue!QInit

LEMMA SequenceStep ==
    ASSUME Inv, [Next]_vars, Inv'
    PROVE  [Queue!QNext]_Entries
<1>0. PICK at : Chain(at)
  BY DEF Inv
<1>1. TypeOK /\ Lifetime /\ TypeOK'
  BY DEF Inv
<1>2. Entries = Listed(at)
  BY <1>0, <1>1, EntriesListed DEF SameEntries
<1>3. \A after : Chain(after)' => Entries' = Listed(after)'
  <2>1. SameEntries'
    BY EntriesListed, PTL
  <2> QED
    BY <1>1, <2>1 DEF SameEntries
<1>4. ASSUME UNCHANGED <<head, tail, count, next, prev, item, live>> PROVE UNCHANGED Entries
  <2>1. Chain(at)' /\ Listed(at)' = Listed(at)
    BY <1>0, <1>4 DEF Chain, Listed
  <2> QED
    BY <2>1, <1>2, <1>3
<1>5. CASE linked_list_create
  <2>1. count = 0 /\ count' = 0
    BY <1>1, <1>5 DEF linked_list_create, Lifetime
  <2> QED
    BY <2>1 DEF Entries
<1>6. ASSUME NEW n \in Nodes, NEW x \in Items, linked_list_item_add(n, x)
      PROVE  Queue!QNext
  <2>1. PICK after : after = Extended(at, n)
    OBVIOUS
  <2>2. Entries' = Listed(after)'
    BY <1>0, <1>3, <1>6, <2>1, AddStep
  <2>3. /\ \A k \in DOMAIN Entries : Entries[k].node # n
        /\ Entries' = Append(Entries, [node |-> n, item |-> x])
    BY <1>0, <1>1, <1>2, <1>6, <2>1, <2>2, AddRefines
  <2> QED
    BY <2>3 DEF Queue!QNext, Queue!AddLast, Entries
<1>7. ASSUME NEW j \in 1..count, Remove(at[j])
      PROVE  Queue!QNext
  <2>1. PICK after : after = Shortened(at, j)
    OBVIOUS
  <2>2. Entries' = Listed(after)'
    BY <1>0, <1>1, <1>3, <1>7, <2>1, RemoveStep
  <2>3. j \in DOMAIN Entries /\ Entries' = Queue!RemoveAt(Entries, j)
    BY <1>0, <1>1, <1>2, <1>7, <2>1, <2>2, RemoveRefines
  <2> QED
    BY <2>3 DEF Queue!QNext, Queue!TakeOut, Entries
<1>8. ASSUME NEW n \in Nodes, linked_list_item_remove(n)
      PROVE  Queue!QNext
  <2>1. PICK j \in 1..count : at[j] = n
    BY <1>0, <1>8 DEF linked_list_item_remove, Chain
  <2> QED
    BY <1>7, <1>8, <2>1 DEF linked_list_item_remove
<1>9. CASE ClearStep
  <2>1. 1 \in 1..count /\ at[1] = head
    BY <1>0, <1>1, <1>9 DEF ClearStep, Chain, TypeOK
  <2> QED
    BY <1>7, <1>9, <2>1 DEF ClearStep
<1>10. CASE ClearEnd \/ (\E how \in {"dispose", "destroy"} : ClearBegin(how)) \/ UNCHANGED vars
  BY <1>4, <1>10 DEF ClearEnd, ClearBegin, vars
<1> QED
  BY <1>5, <1>6, <1>8, <1>9, <1>10 DEF Next

(* The pointers implement a sequence: linked_list_item_add appends, and    *)
(* linked_list_item_remove, of any node and in every one of its four       *)
(* cases, takes out that entry and leaves the others in their order.       *)
THEOREM PointersImplementSequence == Spec => ImplementsSequence
<1>1. Inv /\ [Next]_vars /\ Inv' => [Queue!QNext]_Entries
  BY SequenceStep
<1> QED
  BY <1>1, Invariance, SequenceInit, PTL DEF Spec, ImplementsSequence, Queue!QSpec, Entries
=============================================================================
