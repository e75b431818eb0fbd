----------------------------- MODULE FileUtils ------------------------------
(***************************************************************************)
(* Looking for files by their extension: utils/src/file_utils.c.  A        *)
(* directory is the sequence of entries readdir returns: a name, and the   *)
(* kind of file, which not every file system tells; opens says whether     *)
(* opendir succeeds.                                                       *)
(***************************************************************************)
EXTENDS Text

CONSTANT FirstCapacity   \* 8, the first size of the array of names

ASSUME CapacityAssumption == FirstCapacity \in Nat \ {0}

DotNames == {<<".">>, <<".", ".">>}

has_extension(name, ext) ==
    /\ Len(name) >= Len(ext) + 1
    /\ name[Len(name) - Len(ext)] = "."
    /\ IsSuffix(ext, name)

(* count_files_with_extension looks at the kind and not for the dot.       *)
count_files_with_extension(opens, dir, ext) ==
    IF ~opens THEN -1
    ELSE Cardinality({i \in DOMAIN dir : /\ dir[i].name \notin DotNames
                                         /\ dir[i].kind \in {"regular", "unknown"}
                                         /\ IsSuffix(ext, dir[i].name)})

-----------------------------------------------------------------------------
(* list_filenames_with_ext looks for the dot and not at the kind.          *)

(* Mutant: the array grows when it has overflowed.                         *)
Overfull(list) == Len(list.names) > list.capacity

Full(list) == Len(list.names) = list.capacity

(* One entry: the array grows if it is full, and the name is copied.  bad  *)
(* is the set of allocations, counted from the first, that fail; a failure *)
(* frees every name and the array, and ends the call.                      *)
AddName(list, name, bad) ==
    LET capacity == IF ~Full(list) THEN list.capacity
                    ELSE IF list.capacity = 0 THEN FirstCapacity ELSE 2 * list.capacity
        allocs   == list.allocs + (IF Full(list) THEN 2 ELSE 1)
    IN  IF (list.allocs + 1)..allocs \cap bad # {}
        THEN [list EXCEPT !.failed = TRUE]
        ELSE [list EXCEPT !.names = Append(@, name), !.capacity = capacity, !.allocs = allocs,
                          !.inside = @ /\ Len(list.names) < capacity]

(* null: the call returns NULL, with a count of 0; inside: no name was     *)
(* stored outside the array.  The last allocation is for the terminator;   *)
(* without it the array is returned as it is, or NULL if there is none.    *)
list_filenames_with_ext(opens, dir, ext, bad) ==
    LET empty == [names |-> <<>>, capacity |-> 0, allocs |-> 0, failed |-> FALSE, inside |-> TRUE]
        Add(list, entry) ==
            IF list.failed \/ entry.name \in DotNames \/ ~has_extension(entry.name, ext)
            THEN list ELSE AddName(list, entry.name, bad)
        list  == FoldLeft(Add, empty, dir)
        ended == list.allocs + 1 \notin bad
    IN  IF ~opens \/ list.failed \/ (list.capacity = 0 /\ ~ended)
        THEN [null |-> TRUE, names |-> <<>>, terminated |-> FALSE, inside |-> list.inside]
        ELSE [null |-> FALSE, names |-> list.names, terminated |-> ended,
              inside |-> list.inside]
=============================================================================
