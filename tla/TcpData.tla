------------------------------ MODULE TcpData -------------------------------
(***************************************************************************)
(* The buffers of a TCP_Client: tcp_client_write and                       *)
(* tcp_client_realloc_data of modules/src/tcp_client.c.  What the calls of *)
(* send return is given as a sequence: a number of bytes, or one of the    *)
(* errors below.                                                           *)
(***************************************************************************)
EXTENDS Text

EINTR  == -1     \* interrupted: tried again
EAGAIN == -2     \* EAGAIN, EWOULDBLOCK, ENOTCONN: not now
EFATAL == -3     \* any other error
ERR_IO == -20

(* Mutant: message is not moved on after a partial write.                  *)
FromTheStart(message, sent) == message

(* message += bytesSent                                                    *)
Unsent(message, sent) == From(message, sent)

(* The loop, after k calls of send with sent bytes gone: the return value, *)
(* and what goes out from here.  When the answers are used up the socket   *)
(* is full, as for EAGAIN.                                                 *)
tcp_client_write(message, answers) ==
    LET Loop[k \in 0..Len(answers), sent \in 0..Len(message)] ==
            LET answer == Min({answers[k + 1], Len(message) - sent})
                chunk  == Upto(Unsent(message, sent), answer)
                later  == Loop[k + 1, sent + answer]
            IN  IF sent = Len(message) \/ k = Len(answers)
                THEN [rc |-> sent, wire |-> <<>>]
                ELSE IF answer = EINTR THEN Loop[k + 1, sent]
                ELSE IF answer \in {EAGAIN, 0} THEN [rc |-> sent, wire |-> <<>>]
                ELSE IF answer = EFATAL THEN [rc |-> ERR_IO, wire |-> <<>>]
                ELSE [rc |-> later.rc, wire |-> chunk \o later.wire]
    IN  Loop[0, 0]

(* tcp_client_realloc_data appends, and leaves the buffer alone when it    *)
(* cannot.  tcp_client_init sets addr and not size: what size is in the    *)
(* memory the client is made in decides where the first piece goes.        *)
tcp_client_realloc_data(data, input, fails) ==
    IF input = <<>> \/ fails THEN data
    ELSE [addr |-> IF data.size = Len(data.addr) THEN data.addr \o input ELSE <<"undefined">>,
          size |-> data.size + Len(input)]
=============================================================================
