---------------------------- MODULE MCUtilities -----------------------------
(***************************************************************************)
(* The arguments the functions of Utilities are called with.               *)
(***************************************************************************)
EXTENDS Utilities

(* Every short string, and every short string after the scheme.            *)
MCUrls ==
    SeqOf({"http", "x", ":", "/"}, 4)
      \cup {s \o <<":", "/", "/">> \o r :
              s \in {<<>>, <<"http">>, <<"HTTP">>, <<"https">>, <<"x">>, <<"http", "x">>,
                     <<"x", "x", "x">>, <<":">>},
              r \in SeqOf({"x", "8", ":", "/"}, 5)}

MCRequestLines ==
    SeqOf({"GET", " ", "?", "="}, 4)
      \cup {<<m, " ">> \o t \o v : m \in {"GET", "POST", "k"}, t \in SeqOf({"k", "?", "=", "&"}, 5),
              v \in {<<>>, <<" ">>, <<" ", "HTTP/1.1">>, <<" ", "k", " ", "k">>}}

MCStatusLines ==
    SeqOf({"HTTP/1.1", " ", "200"}, 4)
      \cup {<<"HTTP/1.1", " ">> \o s \o r :
              s \in {<<ToString(n)>> : n \in {0, 99, 200, 204, 306, 404, 511, 599}}
                      \cup {<<>>, <<"2", "x">>},
              r \in {<<>>, <<" ">>, <<" ", "phrase", "200">>, <<" ", "phrase", "404">>,
                     <<" ", "x">>}}

(* Header lines with blanks in all the places, a colon in a value, a key   *)
(* that begins with a blank, and one line without a colon.                 *)
Line(key, before, between, value, after) ==
    [text |-> key \o before \o <<":">> \o between \o value \o after,
     key |-> key, value |-> value, colon |-> TRUE]
NoColon == [text |-> <<"k">>, key |-> <<"k">>, value |-> <<>>, colon |-> FALSE]
HeaderTexts ==
    {Line(k, a, b, v, c) : k \in {<<"k">>, <<"K">>, <<" ", "k">>, <<>>},
                           a \in {<<>>, <<" ">>}, b \in {<<>>, <<" ", "TAB">>},
                           v \in {<<"v">>, <<>>, <<"v", " ", ":">>, <<"w">>},
                           c \in {<<>>, <<"TAB", "CR">>}} \cup {NoColon}
Rendered(lines) == FlattenSeq([i \in DOMAIN lines |-> lines[i].text \o CRLF])

(* The lines come to an end with the empty line, with one that is not      *)
(* complete, or with the buffer.                                           *)
MCHeaderBlocks ==
    {[lines |-> ls, buf |-> Rendered(ls) \o tail, names |-> {<<"k">>, <<"K">>, <<"j">>}] :
        ls \in SeqOf(HeaderTexts, 1)
          \cup {<<l, m>> : l \in HeaderTexts,
                           m \in {Line(<<"k">>, <<>>, <<>>, <<"w">>, <<>>),
                                  Line(<<"K">>, <<>>, <<" ">>, <<"v">>, <<>>), NoColon}},
        tail \in {<<>>, CRLF \o <<"k">> \o CRLF, <<"k", "CR">>}}

(* Lines of a configuration file, with what they mean; a key of <<>> marks *)
(* a line that is not an entry.  The last one is longer than the buffer.   *)
Entry(text, key, value) == [text |-> text, key |-> key, value |-> value]
MCConfigLines ==
    {Entry(<<"k", "=", "v", "NL">>, <<"k">>, <<"v">>),
     Entry(<<" ", "k", " ", "=", " ", "w", " ", "#", "x", "NL">>, <<"k">>, <<"w">>),
     Entry(<<"k", "=", "v", "#", "w", "NL">>, <<"k">>, <<"v", "#", "w">>),
     Entry(<<"j", "=", "v", "=", "v", "NL">>, <<"j">>, <<"v", "=", "v">>),
     Entry(<<"j", "=", "#", "v", "NL">>, <<"j">>, <<>>),
     Entry(<<"j", "=", "w">>, <<"j">>, <<"w">>),
     Entry(<<"#", "k", "=", "x", "NL">>, <<>>, <<>>),
     Entry(<<"k", "NL">>, <<>>, <<>>),
     Entry(<<" ", "NL">>, <<>>, <<>>),
     Entry(<<"#", " ", "x", " ", "x", " ", "x", " ", "x", " ", "k", "=", "x", "NL">>, <<>>, <<>>)}
(* Only the last line of a file may lack its newline.                      *)
MCConfigFiles ==
    {f \in SeqOf(MCConfigLines, 3) :
        \A i \in 1..(Len(f) - 1) : Contains(f[i].text, "NL")}
MCConfigKeys == {<<"k">>, <<"j">>}

MCTimes ==
    {[year |-> y, mon |-> m - 1, mday |-> d, hour |-> h[1], min |-> h[2], sec |-> h[3]] :
        y \in {1901, 1902, 1904, 1961, 1964, 1965, 1966, 1967, 1968, 1969, 1970, 1971, 1972, 1999, 2000, 2001, 2004, 2037, 2038,
               2100, 2101, 2400},
        m \in 1..12, d \in {1, 19, 28},
        h \in {<<0, 0, 0>>, <<3, 14, 7>>, <<3, 14, 8>>, <<23, 59, 59>>}}
      \cup {[year |-> y, mon |-> 1, mday |-> 29, hour |-> 12, min |-> 0, sec |-> 1] :
              y \in {1904, 1964, 1968, 1972, 2000, 2004}}
MCOffsets == {-13, -12, -9, -1, 0, 1, 12, 13}

MCNames == {<<"a", ".", "t">>, <<".", "t">>, <<"a", "t">>, <<"t">>, <<".">>, <<"b", ".", "t">>}
MCKinds ==
    {[i \in 1..3 |-> k] : k \in {"regular", "unknown", "directory"}}
      \cup {<<"regular", "unknown", "directory">>, <<"unknown", "directory", "regular">>}
MCDirectories ==
    {[i \in DOMAIN s |-> [name |-> s[i], kind |-> k[i]]] : s \in SeqOf(MCNames, 3), k \in MCKinds}
      \cup {[i \in 1..n |-> [name |-> <<"a", ".", "t">>, kind |-> "regular"]] : n \in 4..9}
MCExtension == <<"t">>
MCFailures == {{}} \cup {{n} : n \in 1..6}

MCClock == 0..24

MCMessages == {<<>>, <<"a">>, <<"a", "b", "c">>}
MCAnswers == SeqOf({EINTR, EAGAIN, EFATAL, 0, 1, 2}, 4)
=============================================================================
