--------------------------- MODULE ConfigHandler ----------------------------
(***************************************************************************)
(* Reading key=value files: utils/src/config_handler.c.  A file is a       *)
(* string with newlines; each function is an operator from the file, and   *)
(* what it is asked for, to what it leaves with its caller.                *)
(***************************************************************************)
EXTENDS Text, FiniteSets

CONSTANT LineSize   \* char line[512]

ASSUME LineSizeAssumption == LineSize \in Nat \ {0, 1}

Space == {" ", "NL"}      \* isspace

trim(text) == TrimRight(TrimLeft(text, Space), Space)

(* Mutant: every "#" begins a comment.                                     *)
AnyHash(text, i) == text[i] = "#"

(* A "#" begins a comment at the start, or after a blank.                  *)
CommentAt(text, i) == text[i] = "#" /\ (i = 1 \/ text[i - 1] \in Space)

strip_inline_comment(text) ==
    LET at == {i \in DOMAIN text : CommentAt(text, i)}
    IN  IF at = {} THEN text ELSE Upto(text, Min(at) - 1)

(* What one fgets returns of what is left of a file: up to and including   *)
(* the next newline, but never more than the buffer holds.  The rest of a  *)
(* longer line comes with the next call, as if it were a line.             *)
fgets(rest) ==
    LET nl == Before(rest, <<"NL">>)
    IN  Upto(rest, Min({LineSize - 1, IF nl < 0 THEN Len(rest) ELSE nl + 1}))

Lines(file) ==
    LET lines[n \in 0..Len(file)] ==
            IF n = Len(file) THEN <<>>
            ELSE LET line == fgets(From(file, n)) IN <<line>> \o lines[n + Len(line)]
    IN  lines[0]

(* A line that is not empty, not a comment, and has a "=".                 *)
IsEntry(line) ==
    LET text == trim(line) IN text # <<>> /\ text[1] # "#" /\ Contains(text, "=")
EntryOf(line) ==
    LET text == trim(line)
        eq   == Before(text, <<"=">>)
    IN  [key   |-> trim(Upto(text, eq)),
         value |-> trim(strip_inline_comment(trim(From(text, eq + 1))))]
Entries(file) ==
    LET lines == SelectSeq(Lines(file), IsEntry) IN [i \in DOMAIN lines |-> EntryOf(lines[i])]

Matches(entries, key) == {i \in DOMAIN entries : entries[i].key = key}

-----------------------------------------------------------------------------
(* found[i] is set by the first entry of a key.                            *)
FirstMatch(found) == Min(found)

(* config_get_value: values are copied into arrays of max_value_len; one   *)
(* key that is missing makes the whole call fail, and the values of the    *)
(* others stay written.  A value that was not found is left alone.         *)
config_get_value(file, keys, max_value_len) ==
    LET entries  == Entries(file)
        found(k) == Matches(entries, k)
    IN  [rc     |-> IF \A k \in keys : found(k) # {} THEN 0 ELSE -2,
         values |-> [k \in {k \in keys : found(k) # {}} |->
                       LET value == entries[FirstMatch(found(k))].value
                       IN  Upto(value, Min({Len(value), max_value_len - 1}))]]

(* config_values_get: every entry of a key is strdup'ed over the one       *)
(* before; bad is the set of entries whose strdup fails.  kept is what is  *)
(* left of the entries' strings in _values, lost what nobody points to.    *)
config_values_get(file, keys, bad) ==
    LET entries   == Entries(file)
        copied(k) == Matches(entries, k) \ bad
        kept      == {k \in keys : Matches(entries, k) # {} /\ Max(Matches(entries, k)) \notin bad}
        count     == MapThenSumSet(LAMBDA k : Cardinality(copied(k)), keys)
    IN  [rc     |-> count,
         values |-> [k \in kept |-> entries[Max(Matches(entries, k))].value],
         lost   |-> count - Cardinality(kept)]
=============================================================================
