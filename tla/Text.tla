-------------------------------- MODULE Text --------------------------------
(***************************************************************************)
(* Strings as sequences of characters, and the searching and trimming the  *)
(* parsers of the library are made of.  A character is a one-element       *)
(* string; where only the place of the separators matters, a longer string *)
(* stands for a word.                                                      *)
(***************************************************************************)
EXTENDS Integers, Sequences, FiniteSetsExt, SequencesExt

(* strstr and strchr: the number of characters before the first sep, or    *)
(* -1 if there is none.                                                    *)
Before(text, sep) ==
    LET at == {i \in 0..(Len(text) - Len(sep)) : SubSeq(text, i + 1, i + Len(sep)) = sep}
    IN  IF at = {} THEN -1 ELSE Min(at)

(* What is left of text after its first n characters.                      *)
From(text, n) == SubSeq(text, n + 1, Len(text))

Upto(text, n) == SubSeq(text, 1, n)

CRLF == <<"CR", "LF">>

(* http_parser_find_line_end and http_parser_find_headers_end.             *)
LineEnd(buf)    == Before(buf, CRLF)
HeadersEnd(buf) == Before(buf, CRLF \o CRLF)

(* Text without the characters of blanks at its left or right end.         *)
TrimLeft(text, blanks) ==
    From(text, Min({i \in 0..Len(text) : i = Len(text) \/ text[i + 1] \notin blanks}))
TrimRight(text, blanks) ==
    Upto(text, Max({i \in 0..Len(text) : i = 0 \/ text[i] \notin blanks}))
=============================================================================
