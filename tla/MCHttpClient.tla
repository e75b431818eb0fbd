---------------------------- MODULE MCHttpClient ----------------------------
(***************************************************************************)
(* Responses for HttpClient.  The bodies hold separators and digits, so    *)
(* that data can be mistaken for framing.                                  *)
(***************************************************************************)
EXTENDS HttpClient

Head1(header) == <<"status">> \o CRLF \o <<header>> \o CRLF \o CRLF
Chunk(size, data) == <<size>> \o CRLF \o data \o CRLF

(* The places where chunks begin, and what is left of the body there.      *)
Laid(r) ==
    LET more(p) == Size(r, p) > 0 /\ Closed(r, DataEnd(r, p))
        at[n \in 0..Len(r.bytes)] ==
            IF n = 0 THEN {BodyAt(r)}
            ELSE LET before == at[n - 1]
                 IN  before \cup {DataEnd(r, p) + 2 : p \in {q \in before : more(q)}}
        left[p \in at[Len(r.bytes)]] ==
            IF more(p) THEN SubSeq(r.bytes, Data(r, p) + 1, DataEnd(r, p)) \o left[DataEnd(r, p) + 2]
            ELSE <<>>
    IN  [r EXCEPT !.left = left]

Whole(valid, bytes, body) ==
    [bytes |-> bytes, body |-> body, after |-> <<>>, valid |-> valid, last |-> Len(bytes),
     left |-> <<>>]
Chunked(front, tail, body) ==
    LET upto == Head1("te:chunked") \o front \o <<"0">> \o CRLF
    IN  Laid([bytes |-> upto \o tail, body |-> body, after |-> <<>>, valid |-> TRUE,
              last |-> Len(upto), left |-> <<>>])

(* A response and something that follows it.                               *)
With(r, more) == [r EXCEPT !.bytes = r.bytes \o more, !.after = more]

Plain     == Whole(TRUE, Head1("cl:2") \o <<"x", "CR">>, <<"x", "CR">>)
Empty     == Whole(TRUE, Head1("cl:0"), <<>>)
OneChunk  == Chunked(Chunk("2", <<"LF", "0">>), CRLF, <<"LF", "0">>)
TwoChunks == Chunked(Chunk("2", <<"LF", "0">>) \o <<"1", "ext">> \o CRLF \o <<"CR">> \o CRLF,
                     CRLF, <<"LF", "0", "CR">>)
NoChunk   == Chunked(<<>>, CRLF, <<>>)
(* Three trailers, of which the first and the last begin with a digit.     *)
HexNames  == Chunked(Chunk("1", <<"y">>),
                     Chunk("1", <<"header">>) \o <<"0">> \o CRLF \o CRLF, <<"y">>)
(* More comes than the response says.                                      *)
MoreThanLength == [With(Whole(TRUE, Head1("cl:1") \o <<"x">>, <<"x">>), <<"y">>)
                     EXCEPT !.last = Len(Head1("cl:1")) + 2]
MoreThanChunks == With(Chunked(Chunk("1", <<"y">>), <<"header">> \o CRLF \o CRLF, <<"y">>),
                       <<"1">>)
MoreThanNone   == With(NoChunk, <<"y">>)

(* Not well formed, or of no declared length.                              *)
NoStatus  == Whole(FALSE, CRLF, <<>>)
BadStatus == Whole(FALSE, <<"x">> \o CRLF, <<>>)
LongLine  == Whole(FALSE, <<"x", "x", "x", "x", "x", "x">>, <<>>)
NoHeaders == Whole(FALSE, <<"status">> \o CRLF \o CRLF, <<>>)
NoLength  == Whole(FALSE, Head1("header") \o <<"x", "y">>, <<"x", "y">>)
(* A chunk of 4 bytes is more than MaxInt, and 17 are taken for one.       *)
Huge      == Laid(Whole(FALSE, Head1("te:chunked") \o Chunk("4", <<"x">>), <<>>))
Wraps     == Laid(Whole(FALSE, Head1("te:chunked") \o <<"1">> \o Chunk("1", <<"x">>)
                               \o Chunk("0", <<>>), <<>>))
BadSize   == Laid(Whole(FALSE, Head1("te:chunked") \o Chunk("x", <<"x">>), <<>>))
BadChunk  == Laid(Whole(FALSE, Head1("te:chunked") \o <<"1">> \o CRLF \o <<"x", "y", "y">>, <<>>))

MCValid   == {Plain, Empty, TwoChunks, NoChunk, HexNames,
              MoreThanLength, MoreThanChunks, MoreThanNone}
MCInvalid == {NoStatus, BadStatus, LongLine, NoHeaders, NoLength, Huge, Wraps,
              BadSize, BadChunk}
MCAll     == MCValid \cup MCInvalid
MCChunked == {OneChunk}
(* Small reads cut a response too, so the gentle network has large ones.   *)
MCFaulty  == [faulty |-> TRUE, split |-> TRUE, read |-> 5]
MCGentle  == [faulty |-> FALSE, split |-> FALSE, read |-> 40]
MCCutting == [faulty |-> FALSE, split |-> TRUE, read |-> 40]
MCNetworks     == {MCFaulty, MCGentle}
MCAnyCut       == {MCCutting}
MCRequest == <<"head", "body">>
=============================================================================
