---------------------------- MODULE CurlWrapper -----------------------------
(***************************************************************************)
(* The wrapper of libcurl, modules/src/curl.c.  A Curl_Data is its text,   *)
(* addr up to size, whether a NUL follows it, and whether addr is NULL.    *)
(***************************************************************************)
EXTENDS Text

(* curl_init allocates one byte, if there is memory for it, and does not   *)
(* write it.  Its result is -1 without.                                    *)
curl_init(memory) == [text |-> <<>>, terminated |-> FALSE, null |-> ~memory]

(* The write function of libcurl: a return value other than the length of  *)
(* the piece makes curl_easy_perform give up.                              *)
curl_callback(data, piece) ==
    [text |-> data.text \o piece, terminated |-> TRUE, null |-> FALSE]

(* _Data->size = 0                                                         *)
Emptied(data) == [data EXCEPT !.text = <<>>, !.terminated = FALSE]

(* easy: curl_easy_init succeeds; pieces: what libcurl hands to the        *)
(* callback before the transfer ends; bad: those for which realloc fails;  *)
(* ok: the transfer itself succeeds.  The handle is not cleaned up when    *)
(* the transfer fails.                                                     *)
curl_get_response(data, easy, pieces, bad, ok) ==
    LET stop == Min({n \in 0..Len(pieces) : n = Len(pieces) \/ n + 1 \in bad})
        done == stop = Len(pieces) /\ ok
    IN  IF ~easy THEN [rc |-> -1, data |-> Emptied(data), handle |-> "none"]
        ELSE [rc     |-> IF done THEN 0 ELSE -1,
              data   |-> FoldLeft(curl_callback, Emptied(data), Upto(pieces, stop)),
              handle |-> IF done THEN "cleaned up" ELSE "lost"]
=============================================================================
