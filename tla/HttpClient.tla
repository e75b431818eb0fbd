----------------------------- MODULE HttpClient -----------------------------
(***************************************************************************)
(* One HTTP client of modules/src/http_client.c, from the call that starts *)
(* a request to http_client_dispose, against a peer and a network that cut *)
(* the response into pieces as they like.                                  *)
(*                                                                         *)
(* A response is a sequence of tokens: CR and LF are tokens of their own,  *)
(* so that a piece can end between them; the text of a status line or of a *)
(* header line is one token; the digits of a chunk size and the bytes of a *)
(* body are one token each.                                                *)
(*                                                                         *)
(* One action is one call of a worktask function: by scheduler_work        *)
(* through http_client_taskwork for a client started with                  *)
(* http_client_initiate, by the loop of http_blocking_work for a blocking  *)
(* one.                                                                    *)
(***************************************************************************)
EXTENDS HttpMessage

CONSTANTS
  Responses,      \* [bytes, body, after, valid, last, left]: see HttpMessage
  Request,        \* the tokens of the request buffer
  Drivers,        \* values of blocking_mode: TRUE for http_blocking_get/post
  Networks,       \* [faulty, split, read]: see Faulty, SplitLastChunk, MaxRead
  MaxLine,        \* 1024, the longest status line
  MaxCalls,       \* bound: how often the client is used
  MaxIdle,        \* bound: writes of 0 bytes that are followed
  MaxInt          \* INT_MAX

ASSUME HttpAssumption ==
    /\ \A r \in Responses : ResponseOK(r)
    /\ Request \in Seq(STRING) \ {<<>>}
    /\ Drivers \subseteq BOOLEAN
    /\ Networks \subseteq [faulty : BOOLEAN, split : BOOLEAN, read : Nat \ {0}]
    /\ {MaxLine, MaxCalls, MaxIdle, MaxInt} \subseteq Nat

VARIABLES
  state,            \* Client->state; "UNUSED" before the first call
  task,             \* Client->task is not NULL: a scheduler slot is held
  recv,             \* Client->recv_buf
  decoded,          \* Client->decoded_body
  chunk_remaining,
  content_length,
  bytes_sent,
  retries,
  due,              \* now >= Client->next_retry_at
  out,              \* bodies given to on_success, or stored in *_out
  result,           \* what the call of http_blocking_work returned
  calls,            \* requests started
  resp, arrived, pos, \* the peer's response, how much has arrived, and been read
  conn,             \* "none", "open", "closed" by the peer, or "reset"
  wire,             \* what the peer has received
  blocking,         \* Client->blocking_mode
  network           \* what the surroundings may do to this client

client  == <<recv, decoded, chunk_remaining, content_length, bytes_sent, retries, due>>
net     == <<resp, arrived, pos, conn, wire>>
session == <<calls, blocking, network>>
vars    == <<state, task, client, out, result, session, net>>

Faulty         == network.faulty  \* connections break, peers close early, malloc fails
SplitLastChunk == network.split   \* what follows the last chunk size may come later
MaxRead        == network.read    \* the most one transport_read returns

Working == {"CONNECTING", "WAITING_CONNECT", "BUILDING_REQUEST", "SENDING_REQUEST",
            "READING_FIRSTLINE", "READING_HEADERS", "DECIPHER_CHONKINESS",
            "READING_BODY_CHUNKED", "READING_BODY", "RETURNING"}
Reading == {"READING_FIRSTLINE", "READING_HEADERS", "DECIPHER_CHONKINESS",
            "READING_BODY_CHUNKED", "READING_BODY"}
States  == Working \cup {"UNUSED", "DISPOSING", "ERROR"}
Codes   == {"none", "SUCCESS", "ERR_IO", "ERR_TIMEOUT"}

TypeOK ==
    /\ state \in States
    /\ task \in BOOLEAN
    /\ {recv, decoded, wire} \subseteq Seq(STRING)
    /\ chunk_remaining \in -(MaxInt + 1)..MaxInt
    /\ {content_length, retries, calls} \subseteq Nat
    /\ bytes_sent \in 0..Len(Request)
    /\ due \in BOOLEAN
    /\ out \in Seq(Seq(STRING))
    /\ result \in Codes
    /\ resp \in Responses
    /\ arrived \in 0..Len(resp.bytes)
    /\ pos \in 0..arrived
    /\ conn \in {"none", "open", "closed", "reset"}
    /\ blocking \in Drivers
    /\ network \in Networks

Init ==
    /\ state = "UNUSED"
    /\ task = FALSE
    /\ recv = <<>> /\ decoded = <<>>
    /\ chunk_remaining = 0 /\ content_length = 0
    /\ bytes_sent = 0 /\ retries = 0 /\ due = TRUE
    /\ out = <<>> /\ result = "none" /\ calls = 0
    /\ resp \in Responses /\ arrived = 0 /\ pos = 0
    /\ conn = "none" /\ wire = <<>>
    /\ blocking \in Drivers
    /\ network \in Networks

-----------------------------------------------------------------------------
(* http_client_initiate, and http_blocking_work up to its loop: a fresh or *)
(* a disposed client.  A call that finds no memory or no scheduler slot    *)
(* leaves the client as it was.                                            *)
Initiate ==
    /\ state = "UNUSED" \/ (state = "DISPOSING" /\ ~task) \/ result # "none"
    /\ calls < MaxCalls
    /\ calls' = calls + 1
    /\ UNCHANGED <<blocking, network>>
    /\ state' = "CONNECTING"
    /\ task' = ~blocking
    /\ recv' = <<>> /\ decoded' = <<>>
    /\ chunk_remaining' = 0 /\ content_length' = 0
    /\ bytes_sent' = 0 /\ retries' = 0 /\ due' = TRUE
    /\ out' = <<>> /\ result' = "none"
    /\ resp' \in Responses /\ arrived' = 0 /\ pos' = 0
    /\ conn' = "none" /\ wire' = <<>>

(* The client is being worked on, by the scheduler or by the loop.         *)
Runs(s) == state = s /\ (task \/ (blocking /\ result = "none"))

(* http_parser_url and transport_init.                                     *)
Connecting ==
    /\ Runs("CONNECTING")
    /\ due
    /\ \/ /\ state' = "BUILDING_REQUEST"
          /\ conn' = "open"
       \/ /\ ~blocking
          /\ state' = "WAITING_CONNECT"
          /\ UNCHANGED conn
       \/ /\ Faulty
          /\ state' = "ERROR"
          /\ UNCHANGED conn
    /\ UNCHANGED <<task, client, out, result, session, resp, arrived, pos, wire>>

(* transport_finish_connect: connected, still in progress, or failed.      *)
Connected ==
    /\ state' = "BUILDING_REQUEST"
    /\ conn' = "open"
    /\ retries' = 0
    /\ UNCHANGED due

StillConnecting ==
    /\ due' = FALSE
    /\ UNCHANGED <<state, conn, retries>>

ConnectFailed ==
    /\ Faulty
    /\ state' = "ERROR"
    /\ UNCHANGED <<conn, retries, due>>

WaitingConnect(Outcome) ==
    /\ Runs("WAITING_CONNECT")
    /\ Outcome
    /\ UNCHANGED <<task, recv, decoded, chunk_remaining, content_length, bytes_sent,
                   out, result, session, resp, arrived, pos, wire>>

BuildRequest ==
    /\ Runs("BUILDING_REQUEST")
    /\ \/ /\ state' = "SENDING_REQUEST"
          /\ bytes_sent' = 0
       \/ /\ Faulty
          /\ state' = "ERROR"
          /\ UNCHANGED bytes_sent
    /\ UNCHANGED <<task, recv, decoded, chunk_remaining, content_length, retries, due,
                   out, result, session, net>>

(* http_client_taskwork looks at the clock before it sends or reads;       *)
(* http_blocking_work does not.                                            *)
OnTime == due \/ blocking

(* Mutant: a partial write is not remembered.                              *)
ForgetPartial(n) ==
    /\ conn # "reset"
    /\ wire' = wire \o SubSeq(Request, bytes_sent + 1, bytes_sent + n)
    /\ IF bytes_sent + n >= Len(Request)
       THEN /\ bytes_sent' = bytes_sent + n
            /\ state' = "READING_FIRSTLINE"
            /\ retries' = 0
            /\ UNCHANGED due
       ELSE /\ due' = FALSE
            /\ UNCHANGED <<state, retries, bytes_sent>>

Wrote(n) ==
    /\ conn # "reset"
    /\ wire' = wire \o SubSeq(Request, bytes_sent + 1, bytes_sent + n)
    /\ bytes_sent' = bytes_sent + n
    /\ IF bytes_sent' >= Len(Request)
       THEN /\ state' = "READING_FIRSTLINE"
            /\ retries' = 0
            /\ UNCHANGED due
       ELSE /\ due' = FALSE
            /\ UNCHANGED <<state, retries>>

WroteNothing ==
    /\ Faulty
    /\ conn # "reset"
    /\ retries < MaxIdle
    /\ retries' = retries + 1
    /\ due' = FALSE
    /\ UNCHANGED <<state, wire, bytes_sent>>

WriteWouldBlock ==
    /\ conn # "reset"
    /\ due' = FALSE
    /\ UNCHANGED <<state, wire, bytes_sent, retries>>

WriteFailed ==
    /\ Faulty
    /\ IF retries < 3
       THEN /\ retries' = retries + 1
            /\ due' = FALSE
            /\ UNCHANGED state
       ELSE /\ state' = "ERROR"
            /\ UNCHANGED <<retries, due>>
    /\ UNCHANGED <<wire, bytes_sent>>

Sending(Outcome) ==
    /\ Runs("SENDING_REQUEST")
    /\ OnTime
    /\ Outcome
    /\ UNCHANGED <<task, recv, decoded, chunk_remaining, content_length,
                   out, result, session, resp, arrived, pos, conn>>

SendSome    == \E n \in 1..(Len(Request) - bytes_sent) : Sending(Wrote(n))
SendRequest == SendSome \/ Sending(WroteNothing) \/ Sending(WriteWouldBlock)
                        \/ Sending(WriteFailed)

-----------------------------------------------------------------------------
(* transport_read                                                          *)

WouldBlock == conn = "open" /\ pos = arrived /\ ~blocking
ReadFails  == conn = "reset" \/ (conn = "closed" /\ pos = arrived)
Readable   == conn # "reset" /\ pos < arrived

(* Mutant: the length asked for is taken for the length read.              *)
PieceAsked == SubSeq(resp.bytes, pos + 1, Min({Len(resp.bytes), pos + MaxRead}))

Piece      == SubSeq(resp.bytes, pos + 1, Min({arrived, pos + MaxRead}))

(* Read once; buf is what recv_buf holds before.  Nothing to read: the     *)
(* same state next time; data: appended, the same state next time; end of  *)
(* file, an error or no memory: ERROR.                                     *)
Fill(buf) ==
    \/ /\ WouldBlock
       /\ recv' = buf
       /\ UNCHANGED <<state, pos>>
    \/ /\ ReadFails \/ (Faulty /\ Readable)
       /\ recv' = buf
       /\ state' = "ERROR"
       /\ UNCHANGED pos
    \/ /\ Readable
       /\ recv' = buf \o Piece
       /\ pos' = pos + Len(Piece)
       /\ UNCHANGED state

unread == <<task, bytes_sent, retries, due, out, result, session, resp, arrived, conn, wire>>

(* http_parser_response_firstline accepts "status" and nothing else.       *)
ReadFirstline ==
    /\ Runs("READING_FIRSTLINE")
    /\ OnTime
    /\ \/ /\ WouldBlock
          /\ UNCHANGED <<state, recv, pos>>
       \/ /\ ReadFails \/ (Faulty /\ Readable)
          /\ state' = "ERROR"
          /\ UNCHANGED <<recv, pos>>
       \/ LET buf == recv \o Piece
              end == LineEnd(buf) IN
          /\ Readable
          /\ pos' = pos + Len(Piece)
          /\ IF end < 0
             THEN /\ recv' = buf
                  /\ state' = IF Len(buf) >= MaxLine THEN "ERROR" ELSE state
             ELSE IF end = 0 \/ end >= MaxLine \/ SubSeq(buf, 1, end) # <<"status">>
             THEN /\ recv' = buf
                  /\ state' = "ERROR"
             ELSE /\ recv' = From(buf, end + 2)
                  /\ state' = "READING_HEADERS"
    /\ UNCHANGED <<unread, decoded, chunk_remaining, content_length>>

ReadHeaders ==
    LET end  == HeadersEnd(recv)
        head == SubSeq(recv, 1, end)
        rest == From(recv, end + 4)
    IN
    /\ Runs("READING_HEADERS")
    /\ OnTime
    /\ IF end < 0
       THEN /\ Fill(recv)
            /\ UNCHANGED <<content_length, retries>>
       ELSE \/ /\ recv' = rest
               /\ retries' = 0
               /\ state' = IF IsChunked(head) THEN "DECIPHER_CHONKINESS"
                           ELSE IF LengthOf(head) > Len(rest) THEN "READING_BODY"
                           ELSE "RETURNING"
               /\ content_length' = IF IsChunked(head) \/ LengthOf(head) = 0
                                    THEN content_length ELSE LengthOf(head)
               /\ UNCHANGED pos
            \/ /\ Faulty
               /\ state' = "ERROR"
               /\ UNCHANGED <<recv, pos, content_length, retries>>
    /\ UNCHANGED <<task, bytes_sent, due, out, result, session, resp, arrived, conn, wire,
                   decoded, chunk_remaining>>

(* (int)chunk_size                                                         *)
AsInt(n) == ((n + MaxInt + 1) % (2 * (MaxInt + 1))) - (MaxInt + 1)

(* The line of a chunk size.  After the last one, the end of the trailers  *)
(* is looked for; if it is not there yet, more is read and the state stays *)
(* the same, though the line has been consumed.                            *)
DecipherChonkiness ==
    LET end  == LineEnd(recv)
        size == ChunkSize(SubSeq(recv, 1, end))
        rest == From(recv, end + 2)
        stop == HeadersEnd(rest)
    IN
    /\ Runs("DECIPHER_CHONKINESS")
    /\ IF end < 0
       THEN /\ Fill(recv)
            /\ UNCHANGED chunk_remaining
       ELSE IF size < 0
       THEN /\ state' = "ERROR"
            /\ UNCHANGED <<recv, pos, chunk_remaining>>
       ELSE IF size > 0
       THEN /\ recv' = rest
            /\ chunk_remaining' = AsInt(size)
            /\ state' = "READING_BODY_CHUNKED"
            /\ UNCHANGED pos
       ELSE IF IsPrefix(CRLF, rest)
       THEN /\ recv' = From(rest, 2)
            /\ state' = "RETURNING"
            /\ UNCHANGED <<pos, chunk_remaining>>
       ELSE IF stop >= 0
       THEN /\ recv' = From(rest, stop + 4)
            /\ state' = "RETURNING"
            /\ UNCHANGED <<pos, chunk_remaining>>
       ELSE /\ Fill(rest)
            /\ UNCHANGED chunk_remaining
    /\ UNCHANGED <<unread, decoded, content_length>>

(* Mutant: chunk_remaining is left as it was when the chunk is copied.     *)
KeepRemaining(n) == n

(* Client->chunk_remaining = 0 once the chunk is in decoded_body.          *)
AfterCopy(n) == 0

(* The data of a chunk and the CRLF after it.  When the CRLF is not there  *)
(* yet the state stays the same, with nothing left to copy.  A negative    *)
(* chunk_remaining is, as a size_t, more than realloc has; but added to a  *)
(* decoded_body that is long enough it wraps to a small one, memcpy runs   *)
(* off the buffers, and no further step is taken.                          *)
ReadBodyChunked ==
    LET rest == From(recv, chunk_remaining) IN
    /\ Runs("READING_BODY_CHUNKED")
    /\ IF chunk_remaining < 0
       THEN /\ Len(decoded) + 1 < -chunk_remaining
            /\ state' = "ERROR"
            /\ UNCHANGED <<recv, pos, decoded, chunk_remaining>>
       ELSE IF Len(recv) < chunk_remaining
       THEN /\ Fill(recv)
            /\ UNCHANGED <<decoded, chunk_remaining>>
       ELSE \/ /\ decoded' = decoded \o SubSeq(recv, 1, chunk_remaining)
               /\ chunk_remaining' = AfterCopy(chunk_remaining)
               /\ IF Len(rest) < 2
                  THEN Fill(rest)
                  ELSE /\ IF IsPrefix(CRLF, rest)
                          THEN recv' = From(rest, 2) /\ state' = "DECIPHER_CHONKINESS"
                          ELSE recv' = rest /\ state' = "ERROR"
                       /\ UNCHANGED pos
            \/ /\ Faulty
               /\ state' = "ERROR"
               /\ UNCHANGED <<recv, pos, decoded, chunk_remaining>>
    /\ UNCHANGED <<unread, content_length>>

(* Mutant: a closed connection is no error.                                *)
EofIsNothing == FALSE

(* A connection closed before content_length bytes is an error.            *)
EofIsError == Len(recv) < content_length

(* Mutant: the body is taken for complete one byte early.                  *)
AlmostComplete(buf) == Len(buf) + 1 >= content_length

BodyComplete(buf) == Len(buf) >= content_length

ReadBody ==
    /\ Runs("READING_BODY")
    /\ OnTime
    /\ \/ /\ WouldBlock
          /\ UNCHANGED <<state, recv, pos, retries>>
       \/ /\ \/ conn = "reset"
             \/ Faulty /\ Readable
             \/ conn = "closed" /\ pos = arrived /\ EofIsError
          /\ state' = "ERROR"
          /\ UNCHANGED <<recv, pos, retries>>
       \/ /\ conn # "reset"
          /\ Readable \/ (conn = "closed" /\ ~EofIsError)
          /\ recv' = recv \o Piece
          /\ pos' = pos + Len(Piece)
          /\ IF BodyComplete(recv')
             THEN /\ state' = "RETURNING"
                  /\ retries' = 0
             ELSE UNCHANGED <<state, retries>>
    /\ UNCHANGED <<task, bytes_sent, due, out, result, session, resp, arrived, conn, wire,
                   decoded, chunk_remaining, content_length>>

(* on_success gets a copy of the body, or *_out does.  Without a callback  *)
(* or an _out, or without memory, ERROR.                                   *)
Returning ==
    /\ Runs("RETURNING")
    /\ \/ /\ out' = Append(out, IF decoded # <<>> THEN decoded ELSE recv)
          /\ state' = "DISPOSING"
       \/ /\ Faulty
          /\ state' = "ERROR"
          /\ UNCHANGED out
    /\ UNCHANGED <<task, client, result, session, net>>

(* http_client_dispose frees everything and gives the slot back; the       *)
(* client, which belongs to the caller, stays in DISPOSING.                *)
Disposed ==
    /\ task' = FALSE
    /\ recv' = <<>> /\ decoded' = <<>>
    /\ conn' = "none"
    /\ UNCHANGED <<chunk_remaining, content_length, bytes_sent, retries, due,
                   out, session, resp, arrived, pos, wire>>

Disposing ==
    /\ Runs("DISPOSING")
    /\ Disposed
    /\ result' = IF blocking THEN "SUCCESS" ELSE result
    /\ UNCHANGED state

(* Mutants: an error is reported as success, never left, or left without   *)
(* going through DISPOSING.                                                *)
FailQuietly ==
    /\ Runs("ERROR")
    /\ Disposed
    /\ result' = "SUCCESS"
    /\ UNCHANGED state

StayInError == Runs("ERROR") /\ UNCHANGED vars

FailAtOnce ==
    /\ Runs("ERROR")
    /\ Disposed
    /\ result' = IF blocking THEN "ERR_IO" ELSE result
    /\ UNCHANGED state

(* http_client_taskwork goes on to DISPOSING, http_blocking_work destroys  *)
(* the client at once.                                                     *)
Failing ==
    /\ Runs("ERROR")
    /\ IF blocking
       THEN /\ Disposed
            /\ result' = "ERR_IO"
            /\ UNCHANGED state
       ELSE /\ state' = "DISPOSING"
            /\ UNCHANGED <<task, client, out, result, session, net>>

(* The test at the head of the loop of http_blocking_work; that time runs  *)
(* out counts as a fault.                                                  *)
TimedOut ==
    /\ blocking
    /\ Faulty
    /\ \E s \in States \ {"UNUSED"} : Runs(s)
    /\ Disposed
    /\ result' = "ERR_TIMEOUT"
    /\ UNCHANGED state

-----------------------------------------------------------------------------
(* The clock, the network and the peer.                                    *)

Tick ==
    /\ ~due
    /\ due' = TRUE
    /\ UNCHANGED <<state, task, recv, decoded, chunk_remaining, content_length,
                   bytes_sent, retries, out, result, session, net>>

(* The peer answers when it has the request.                               *)
Arrive ==
    /\ conn = "open"
    /\ wire = Request
    /\ arrived' \in (arrived + 1)..Len(resp.bytes)
    /\ SplitLastChunk \/ arrived' < resp.last \/ arrived' = Len(resp.bytes)
    /\ UNCHANGED <<state, task, client, out, result, session, resp, pos, conn, wire>>

PeerCloses ==
    /\ conn = "open"
    /\ arrived = Len(resp.bytes) \/ Faulty
    /\ conn' = "closed"
    /\ UNCHANGED <<state, task, client, out, result, session, resp, arrived, pos, wire>>

ConnectionReset ==
    /\ Faulty
    /\ conn \in {"open", "closed"}
    /\ conn' = "reset"
    /\ UNCHANGED <<state, task, client, out, result, session, resp, arrived, pos, wire>>

-----------------------------------------------------------------------------
Work ==
    \/ Connecting
    \/ WaitingConnect(Connected) \/ WaitingConnect(StillConnecting)
    \/ WaitingConnect(ConnectFailed)
    \/ BuildRequest \/ SendRequest
    \/ ReadFirstline \/ ReadHeaders \/ DecipherChonkiness \/ ReadBodyChunked
    \/ ReadBody \/ Returning \/ Disposing \/ Failing

Next ==
    \/ Initiate \/ Work \/ TimedOut
    \/ Tick \/ Arrive \/ PeerCloses \/ ConnectionReset

Spec == Init /\ [][Next]_vars

(* scheduler_work, or the loop, goes on; time passes; sends that stay      *)
(* possible succeed in the end; the network delivers; and the peer closes  *)
(* the connection when it is through, as "Connection: close" in the        *)
(* request asks it to.  Nothing is assumed of a connect.                   *)
Fairness ==
    /\ WF_vars(Work)
    /\ SF_vars(SendSome)
    /\ WF_vars(Tick)
    /\ WF_vars(Arrive)
    /\ WF_vars(PeerCloses)

FairSpec == Spec /\ Fairness

-----------------------------------------------------------------------------
(* A chunk is announced with more bytes than an int can count.             *)
Oversized(r) == \E p \in DOMAIN r.left : Size(r, p) > MaxInt

(* Whatever the cuts between the pieces, the early closes and the retries, *)
(* a body is handed over once at most, and nothing comes in front of it or *)
(* between its parts.  A response that says how long it is is handed over  *)
(* whole or not at all; one that does not is cut short where the piece     *)
(* with the end of its headers was.  Behind the body comes what came with  *)
(* it and does not belong to the response, unless the body was decoded     *)
(* from chunks.  There are two exceptions.  Trailers that begin with a     *)
(* hexadecimal digit, cut off from the line of the last chunk, are taken   *)
(* for chunks and end up in the body; and a chunk size that does not fit   *)
(* an int is taken for another one.                                        *)
BodyExact ==
    /\ Len(out) <= 1
    /\ ~Misleading(resp) /\ ~Oversized(resp) =>
          \A n \in DOMAIN out :
              /\ IsPrefix(out[n], resp.body \o resp.after)
              /\ resp.valid => IsPrefix(resp.body, out[n])
              /\ Framed(resp) => out[n] = resp.body

(* Partial writes and retries never repeat or skip a part of the request,  *)
(* and the client reads no answer before the request is out.               *)
RequestIntact ==
    /\ IsPrefix(wire, Request)
    /\ state \in Reading /\ conn # "none" => wire = Request

(* http_blocking_get says SUCCESS exactly if it has stored a body, except  *)
(* that time may run out between the storing and the return.               *)
ResultTellsBody ==
    /\ result = "SUCCESS" => Len(out) = 1
    /\ result = "ERR_IO" => out = <<>>

(* The one wait that nothing ends: transport_finish_connect never          *)
(* succeeds, and errno never says that it has failed (http_client.c:284).  *)
NeverConnects == [](state = "WAITING_CONNECT")

(* On a network that does not fail, a well-formed response reaches the     *)
(* caller, however the network cuts it, once the client is connected.      *)
Delivered == Len(out) = 1 /\ IsPrefix(resp.body, out[1])
DeliversAnyCut ==
    state = "CONNECTING" /\ resp.valid /\ ~Oversized(resp) /\ ~Faulty
        ~> Delivered \/ NeverConnects

(* ... which holds of every cut but the one after the size line of the     *)
(* last chunk.                                                             *)
Delivers ==
    state = "CONNECTING" /\ resp.valid /\ ~Oversized(resp) /\ ~Faulty /\ ~SplitLastChunk
        ~> Delivered \/ NeverConnects

(* Once started, a request gives its scheduler slot back, on every path    *)
(* but two: it never gets beyond WAITING_CONNECT, or the response          *)
(* announces a chunk that an int cannot count, and the process may end.    *)
Released == task ~> ~task \/ NeverConnects \/ Oversized(resp)

(* A blocking call returns, whatever the peer sends and wherever it closes *)
(* the connection, without a timeout too, with the same exception for the  *)
(* size of a chunk.                                                        *)
Returns == blocking /\ state = "CONNECTING" ~> result # "none" \/ Oversized(resp)

(* What is left of the states when they are seen from outside.             *)
Life ==
    IF state = "UNUSED" \/ blocking THEN "unused"
    ELSE CASE state = "RETURNING" -> "returning"
           [] state = "ERROR"     -> "error"
           [] state = "DISPOSING" -> "disposing"
           [] OTHER               -> "working"

L == INSTANCE ClientLife WITH state <- Life, held <- task

(* A scheduled client lives as Scheduler assumes: no call of the scheduler *)
(* skips a state, and the slot is held until the last one.                 *)
ImplementsClient == L!Spec
=============================================================================
