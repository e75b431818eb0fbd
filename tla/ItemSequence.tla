---------------------------- MODULE ItemSequence ----------------------------
(***************************************************************************)
(* What a list promises: it is a sequence of entries; a new one goes to    *)
(* the end, and an entry taken out leaves the others and their order as    *)
(* they were.  An entry is the node that identifies it and its item.       *)
(***************************************************************************)
EXTENDS Naturals, Sequences, SequencesExt

CONSTANTS Nodes, Items

VARIABLE entries

QInit == entries = <<>>

AddLast(n, x) ==
    /\ \A k \in DOMAIN entries : entries[k].node # n
    /\ entries' = Append(entries, [node |-> n, item |-> x])

TakeOut(k) ==
    entries' = RemoveAt(entries, k)

QNext ==
    \/ \E n \in Nodes, x \in Items : AddLast(n, x)
    \/ \E k \in DOMAIN entries : TakeOut(k)

QSpec == QInit /\ [][QNext]_entries
=============================================================================
