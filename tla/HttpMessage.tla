----------------------------- MODULE HttpMessage -----------------------------
(***************************************************************************)
(* What the text of a response says, as http_client.c takes it, and how a  *)
(* response is laid out.  A text is a sequence of tokens: see HttpClient.  *)
(***************************************************************************)
EXTENDS Text

(* What the headers of a response say: header tokens are "te:chunked",     *)
(* "cl:n" and "header".  Chunked wins over Content-Length, and the first   *)
(* Content-Length over the next.                                           *)
Lengths        == [cl \in {"cl:0", "cl:1", "cl:2", "cl:3"} |->
                     CASE cl = "cl:0" -> 0 [] cl = "cl:1" -> 1
                       [] cl = "cl:2" -> 2 [] cl = "cl:3" -> 3]
IsChunked(hd)  == \E i \in DOMAIN hd : hd[i] = "te:chunked"
LengthOf(hd)   ==
    LET at == {i \in DOMAIN hd : hd[i] \in DOMAIN Lengths}
    IN  IF at = {} THEN 0 ELSE Lengths[hd[Min(at)]]

(* strtoull(line, &endptr, 16) of the part before ";", " " or a tab, which *)
(* the token "ext" stands for; -1 if it has no leading digit.  Left out:   *)
(* the buffer line[48], which longer lines overrun (the copy is not        *)
(* limited), the sign and the "0x" that strtoull takes, and that it stops  *)
(* at 2^64 - 1.                                                            *)
Digits == [d \in {"0", "1", "2", "3", "4"} |->
             CASE d = "0" -> 0 [] d = "1" -> 1 [] d = "2" -> 2 [] d = "3" -> 3 [] d = "4" -> 4]
ChunkSize(line) ==
    LET n == Min({i \in 0..Len(line) : i = Len(line) \/ line[i + 1] \notin DOMAIN Digits})
        value[k \in 0..n] == IF k = 0 THEN 0 ELSE (16 * value[k - 1]) + Digits[line[k]]
    IN  IF n = 0 THEN -1 ELSE value[n]

-----------------------------------------------------------------------------
(* The layout of a response r, whose text is r.bytes:                      *)
(*   body   what the head and the chunks say the body is, without the      *)
(*          framing; of a response that does not say, all that follows;    *)
(*   after  what follows the end of the response;                          *)
(*   left   of a chunked response: what is left of the body at each place  *)
(*          where the line of a chunk size begins;                         *)
(*   last   the length of the text up to and including the line of the     *)
(*          last chunk, or all of it;                                      *)
(*   valid  the response is well formed, and its head says how long the    *)
(*          body is.                                                       *)

StatusLine  == <<"status">> \o CRLF
HeadEnd(r)  == HeadersEnd(From(r.bytes, 3))
Header(r)   == Upto(From(r.bytes, 3), HeadEnd(r))
HasHead(r)  == IsPrefix(StatusLine, r.bytes) /\ HeadEnd(r) >= 0
BodyAt(r)   == 3 + HeadEnd(r) + 4

(* The chunk whose size line begins after p tokens.                        *)
SizeLine(r, p) == LineEnd(From(r.bytes, p))
Size(r, p)     == IF SizeLine(r, p) < 0 THEN -1
                  ELSE ChunkSize(Upto(From(r.bytes, p), SizeLine(r, p)))
Data(r, p)     == p + SizeLine(r, p) + 2
DataEnd(r, p)  == Data(r, p) + Size(r, p)

(* CRLF after q tokens.                                                    *)
Closed(r, q) == q + 2 <= Len(r.bytes) /\ SubSeq(r.bytes, q + 1, q + 2) = CRLF

DataChunk(r, p) ==
    /\ Size(r, p) > 0
    /\ Closed(r, DataEnd(r, p))
    /\ DataEnd(r, p) + 2 \in DOMAIN r.left
    /\ r.left[p] = SubSeq(r.bytes, Data(r, p) + 1, DataEnd(r, p)) \o r.left[DataEnd(r, p) + 2]

(* What follows the line of the last chunk: CRLF, or trailers and an empty *)
(* line.                                                                   *)
Tail0(r)     == From(r.bytes, r.last)
Trailers(r)  == ~IsPrefix(CRLF, Tail0(r)) /\ HeadersEnd(Tail0(r)) >= 0
LastLine(r, p) == Size(r, p) = 0 /\ r.last = Data(r, p)

LastChunk(r, p) ==
    /\ LastLine(r, p)
    /\ r.left[p] = <<>>
    /\ \/ IsPrefix(CRLF, Tail0(r)) /\ r.after = From(Tail0(r), 2)
       \/ Trailers(r) /\ r.after = From(Tail0(r), HeadersEnd(Tail0(r)) + 4)

BrokenChunk(r, p) ==
    \/ Size(r, p) < 0
    \/ Size(r, p) > 0 /\ ~Closed(r, DataEnd(r, p))
    \/ LastLine(r, p) /\ ~IsPrefix(CRLF, Tail0(r)) /\ ~Trailers(r)

ChunksOK(r) ==
    /\ BodyAt(r) \in DOMAIN r.left
    /\ r.body = r.left[BodyAt(r)]
    /\ DOMAIN r.left \subseteq 0..Len(r.bytes)
    /\ \A p \in DOMAIN r.left :
          /\ r.left[p] \in Seq(STRING)
          /\ DataChunk(r, p) \/ LastChunk(r, p) \/ (BrokenChunk(r, p) /\ ~r.valid)

ResponseOK(r) ==
    /\ r.bytes \in Seq(STRING) \ {<<>>}
    /\ r.body \in Seq(STRING) /\ r.after \in Seq(STRING)
    /\ r.valid \in BOOLEAN
    /\ r.last \in 1..Len(r.bytes)
    /\ r.valid => HasHead(r)
    /\ HasHead(r) =>
          IF IsChunked(Header(r)) THEN ChunksOK(r)
          ELSE /\ From(r.bytes, BodyAt(r)) = r.body \o r.after
               /\ r.valid => LengthOf(Header(r)) = Len(r.body)

(* Decoded chunks, and not what else is in the buffer, are the body.       *)
Framed(r) == IsChunked(Header(r)) /\ r.body # <<>>

(* The trailers begin as the line of a chunk size does: with a hexadecimal *)
(* digit, as "Date" and "Digest" do.                                       *)
Misleading(r) == r.last < Len(r.bytes) /\ r.bytes[r.last + 1] \in DOMAIN Digits
=============================================================================
