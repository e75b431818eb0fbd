-------------------------- MODULE HttpClientProofs --------------------------
(***************************************************************************)
(* What HttpClient promises of the request it sends, of the code a         *)
(* blocking call returns, of the slot a scheduled client holds and of the  *)
(* body it hands over, for every request, every set of responses, every    *)
(* network and every number of calls.                                      *)
(*                                                                         *)
(* The inductive invariant Inv is about the states of the client and does  *)
(* not depend on what the response says: the steps that read a response    *)
(* share one lemma, ReadStep.  The types of the buffers do depend on it;   *)
(* they come next, with what the parsers return for every text.  Last      *)
(* comes the body: Told says where in the response the client is.          *)
(***************************************************************************)
EXTENDS HttpClient, TextProofs

(* The states before the first byte of the request is written.             *)
Unsent == {"UNUSED", "CONNECTING", "WAITING_CONNECT", "BUILDING_REQUEST"}

(* Who works on the client: a scheduled one holds a slot, a blocking one   *)
(* has a result.                                                           *)
Driver ==
    /\ state \in States
    /\ {task, blocking} \subseteq BOOLEAN
    /\ task => ~blocking /\ state # "UNUSED"
    /\ result # "none" => blocking
    /\ result = "SUCCESS" => state = "DISPOSING"
    /\ result = "ERR_IO" => state = "ERROR"

(* The peer has as much of the request as bytes_sent says, and the client  *)
(* leaves SENDING_REQUEST for an answer with all of it.                    *)
Sent ==
    /\ bytes_sent \in 0..Len(Request)
    /\ state \in Unsent => bytes_sent = 0
    /\ state \in Reading => bytes_sent = Len(Request)
    /\ wire = SubSeq(Request, 1, bytes_sent)

(* A body is given away on the step to DISPOSING and nowhere else; only a  *)
(* scheduled client also comes there from ERROR.                           *)
Handed ==
    /\ state # "DISPOSING" => out = <<>>
    /\ state = "DISPOSING" => \/ Len(out) = 1
                              \/ out = <<>> /\ ~blocking

Inv == Driver /\ Sent /\ Handed

-----------------------------------------------------------------------------
(* The steps, seen by the invariant.                                       *)

kept == <<task, out, result, blocking>>

(* A step of one of the five reading states stays among them, or goes on   *)
(* to RETURNING or ERROR, and touches nothing else that Inv is about.      *)
LEMMA ReadStep ==
    ASSUME ReadFirstline \/ ReadHeaders \/ DecipherChonkiness \/ ReadBodyChunked \/ ReadBody
    PROVE  /\ state \in Reading
           /\ state' \in Reading \cup {"RETURNING", "ERROR"}
           /\ Runs(state)
           /\ UNCHANGED <<kept, bytes_sent, wire>>
<1> USE DEF Reading, Runs, kept, session
<1>1. ASSUME NEW buf, Fill(buf)
      PROVE  state' = state \/ state' = "ERROR"
  BY <1>1 DEF Fill
<1>2. CASE ReadFirstline
  <2>1. state' \in {state, "ERROR", "READING_HEADERS"}
    BY <1>2 DEF ReadFirstline
  <2> QED
    BY <1>2, <2>1 DEF ReadFirstline, unread
<1>3. CASE ReadHeaders
  <2>1. state' \in {state, "ERROR", "DECIPHER_CHONKINESS", "READING_BODY", "RETURNING"}
    BY <1>3, <1>1 DEF ReadHeaders
  <2> QED
    BY <1>3, <2>1 DEF ReadHeaders
<1>4. CASE DecipherChonkiness
  <2>1. state' \in {state, "ERROR", "READING_BODY_CHUNKED", "RETURNING"}
    BY <1>4, <1>1 DEF DecipherChonkiness
  <2> QED
    BY <1>4, <2>1 DEF DecipherChonkiness, unread
<1>5. CASE ReadBodyChunked
  <2>1. state' \in {state, "ERROR", "DECIPHER_CHONKINESS"}
    BY <1>5, <1>1 DEF ReadBodyChunked
  <2> QED
    BY <1>5, <2>1 DEF ReadBodyChunked, unread
<1>6. CASE ReadBody
  <2>1. state' \in {state, "ERROR", "RETURNING"}
    BY <1>6 DEF ReadBody
  <2> QED
    BY <1>6, <2>1 DEF ReadBody
<1> QED
  BY <1>2, <1>3, <1>4, <1>5, <1>6

(* Before the request is sent, a step goes on or fails.                    *)
LEMMA ConnectStep ==
    ASSUME \/ Connecting \/ BuildRequest
           \/ WaitingConnect(Connected) \/ WaitingConnect(StillConnecting)
           \/ WaitingConnect(ConnectFailed),
           Sent
    PROVE  /\ state \in Unsent \ {"UNUSED"}
           /\ state' \in (Unsent \ {"UNUSED"}) \cup {"SENDING_REQUEST", "ERROR"}
           /\ Runs(state)
           /\ UNCHANGED <<kept, bytes_sent, wire>>
<1> USE DEF Unsent, Runs, kept, session
<1>1. CASE Connecting
  BY <1>1 DEF Connecting, client
<1>2. CASE BuildRequest
  BY <1>2 DEF BuildRequest, net, Sent
<1>3. CASE WaitingConnect(Connected)
  BY <1>3 DEF WaitingConnect, Connected
<1>4. CASE WaitingConnect(StillConnecting)
  BY <1>4 DEF WaitingConnect, StillConnecting
<1>5. CASE WaitingConnect(ConnectFailed)
  BY <1>5 DEF WaitingConnect, ConnectFailed
<1> QED
  BY <1>1, <1>2, <1>3, <1>4, <1>5

(* A write moves bytes_sent and the wire together, by what was written.    *)
LEMMA SendStep ==
    ASSUME SendRequest, Sent
    PROVE  /\ state = "SENDING_REQUEST"
           /\ Runs(state)
           /\ state' \in {"SENDING_REQUEST", "READING_FIRSTLINE", "ERROR"}
           /\ UNCHANGED kept
           /\ bytes_sent' \in 0..Len(Request)
           /\ state' = "READING_FIRSTLINE" => bytes_sent' = Len(Request)
           /\ wire' = SubSeq(Request, 1, bytes_sent')
<1> USE DEF kept, session, Runs
<1>0. Request \in Seq(STRING) /\ Len(Request) \in Nat
  BY HttpAssumption
<1>1. CASE SendSome
  <2>1. PICK n \in 1..(Len(Request) - bytes_sent) : Sending(Wrote(n))
    BY <1>1 DEF SendSome
  <2>2. /\ bytes_sent' = bytes_sent + n
        /\ wire' = wire \o SubSeq(Request, bytes_sent + 1, bytes_sent + n)
        /\ state' = IF bytes_sent' >= Len(Request) THEN "READING_FIRSTLINE" ELSE state
    BY <2>1 DEF Sending, Wrote
  <2>3. bytes_sent \in 0..Len(Request) /\ bytes_sent' \in bytes_sent..Len(Request)
    BY <1>0, <2>2 DEF Sent
  <2>4. wire' = SubSeq(Request, 1, bytes_sent')
    BY <1>0, <2>2, <2>3, ConcatAdjacentSubSeq DEF Sent
  <2>5. state = "SENDING_REQUEST" /\ Runs(state) /\ UNCHANGED kept
    BY <2>1 DEF Sending
  <2> QED
    BY <1>0, <2>2, <2>3, <2>4, <2>5
<1>2. CASE Sending(WroteNothing)
  BY <1>2 DEF Sending, WroteNothing, Sent
<1>3. CASE Sending(WriteWouldBlock)
  BY <1>3 DEF Sending, WriteWouldBlock, Sent
<1>4. CASE Sending(WriteFailed)
  BY <1>4 DEF Sending, WriteFailed, Sent
<1> QED
  BY <1>1, <1>2, <1>3, <1>4 DEF SendRequest

(* The clock, the network and the peer leave the client's side alone.      *)
LEMMA EnvironmentStep ==
    ASSUME Tick \/ Arrive \/ PeerCloses \/ ConnectionReset \/ UNCHANGED vars
    PROVE  UNCHANGED <<state, kept, bytes_sent, wire>>
BY DEF Tick, Arrive, PeerCloses, ConnectionReset, vars, kept, session, client, net

-----------------------------------------------------------------------------
LEMMA InvInit == Init => Inv
<1> SUFFICES ASSUME Init PROVE Inv
  OBVIOUS
<1>1. Driver
  BY HttpAssumption DEF Init, Driver, States, Working
<1>2. Sent
  <2>1. SubSeq(Request, 1, 0) = <<>>
    BY SubSeqEmpty
  <2> QED
    BY <2>1, HttpAssumption DEF Init, Sent, Reading
<1>3. Handed
  BY DEF Init, Handed
<1> QED
  BY <1>1, <1>2, <1>3 DEF Inv

LEMMA InvStep ==
    ASSUME Inv, [Next]_vars
    PROVE  Inv'
<1> USE DEF Inv
<1>1. CASE Initiate
  <2>1. SubSeq(Request, 1, 0) = <<>>
    BY SubSeqEmpty
  <2>2. Sent'
    BY <1>1, <2>1, HttpAssumption DEF Initiate, Sent, Reading, Unsent
  <2>3. Driver'
    BY <1>1 DEF Initiate, Driver, States, Working
  <2>4. Handed'
    BY <1>1 DEF Initiate, Handed
  <2> QED
    BY <2>2, <2>3, <2>4
<1>2. CASE \/ Connecting \/ BuildRequest
           \/ WaitingConnect(Connected) \/ WaitingConnect(StillConnecting)
           \/ WaitingConnect(ConnectFailed)
  <2>1. /\ state \in Unsent \ {"UNUSED"}
        /\ state' \in (Unsent \ {"UNUSED"}) \cup {"SENDING_REQUEST", "ERROR"}
        /\ Runs(state)
        /\ UNCHANGED <<task, out, result, blocking, bytes_sent, wire>>
    BY <1>2, ConnectStep DEF kept
  <2> QED
    BY <2>1 DEF Driver, Sent, Handed, Unsent, Reading, States, Working, Runs
<1>3. CASE SendRequest
  <2>1. /\ state = "SENDING_REQUEST"
        /\ Runs(state)
        /\ state' \in {"SENDING_REQUEST", "READING_FIRSTLINE", "ERROR"}
        /\ UNCHANGED <<task, out, result, blocking>>
    BY <1>3, SendStep DEF kept
  <2>2. Sent'
    BY <1>3, <2>1, SendStep DEF Sent, Unsent, Reading
  <2> QED
    BY <2>1, <2>2 DEF Driver, Handed, States, Working, Runs
<1>4. CASE ReadFirstline \/ ReadHeaders \/ DecipherChonkiness \/ ReadBodyChunked \/ ReadBody
  <2>1. /\ state \in Reading
        /\ state' \in Reading \cup {"RETURNING", "ERROR"}
        /\ Runs(state)
        /\ UNCHANGED <<task, out, result, blocking, bytes_sent, wire>>
    BY <1>4, ReadStep DEF kept
  <2> QED
    BY <2>1 DEF Driver, Sent, Handed, Unsent, Reading, States, Working, Runs
<1>5. CASE Returning
  <2>1. /\ state = "RETURNING" /\ (task \/ blocking) /\ result \in {result, "none"}
        /\ UNCHANGED <<task, result, blocking, bytes_sent, wire>>
        /\ task \/ result = "none"
    BY <1>5 DEF Returning, Runs, client, session, net
  <2>2. \/ state' = "DISPOSING" /\ Len(out') = 1
        \/ state' = "ERROR" /\ out' = out
    <3>1. out = <<>>
      BY <2>1 DEF Handed
    <3>2. ASSUME NEW body PROVE Len(Append(<<>>, body)) = 1
      <4>1. <<>> \in Seq({body}) /\ body \in {body}
        OBVIOUS
      <4> QED
        BY <4>1
    <3> QED
      BY <1>5, <3>1, <3>2 DEF Returning
  <2> QED
    BY <2>1, <2>2 DEF Driver, Sent, Handed, Unsent, Reading, States, Working
<1>6. CASE Disposing
  BY <1>6 DEF Disposing, Disposed, Runs, Driver, Sent, Handed, session
<1>7. CASE Failing
  BY <1>7 DEF Failing, Disposed, Runs, Driver, Sent, Handed, session, client, net, Unsent,
              Reading, States
<1>8. CASE TimedOut
  BY <1>8 DEF TimedOut, Disposed, Runs, Driver, Sent, Handed, session
<1>9. CASE Tick \/ Arrive \/ PeerCloses \/ ConnectionReset \/ UNCHANGED vars
  BY <1>9, EnvironmentStep DEF kept, Driver, Sent, Handed
<1> QED
  BY <1>1, <1>2, <1>3, <1>4, <1>5, <1>6, <1>7, <1>8, <1>9 DEF Next, Work

(* The inductive invariant holds in every state of a client.               *)
THEOREM Invariance == Spec => []Inv
BY InvInit, InvStep, PTL DEF Spec

(* However writes are cut and retried, what the peer has is a front part   *)
(* of the request, and all of it before an answer is read.                 *)
THEOREM RequestSentIntact == Spec => []RequestIntact
<1>1. ASSUME Inv PROVE RequestIntact
  <2>1. Request \in Seq(STRING) /\ Len(Request) \in Nat /\ bytes_sent \in 0..Len(Request)
    BY <1>1, HttpAssumption DEF Inv, Sent
  <2>2. wire = SubSeq(Request, 1, bytes_sent)
    BY <1>1 DEF Inv, Sent
  <2>3. wire \in Seq(STRING) /\ Len(wire) = bytes_sent
    BY <2>1, <2>2
  <2>4. SubSeq(wire, 1, Len(wire)) = wire
    BY <2>3, SubSeqFull
  <2>5. IsPrefix(wire, Request)
    BY <2>1, <2>2, <2>3, <2>4 DEF IsPrefix
  <2>6. state \in Reading => wire = Request
    BY <1>1, <2>1, <2>2, SubSeqFull DEF Inv, Sent
  <2> QED
    BY <2>5, <2>6 DEF RequestIntact
<1> QED
  BY <1>1, Invariance, PTL

(* A call of http_blocking_get or post says SUCCESS only with one body     *)
(* stored, and ERR_IO only with none.                                      *)
THEOREM ResultIsTrue == Spec => []ResultTellsBody
<1>1. Inv => ResultTellsBody
  BY DEF Inv, Driver, Handed, ResultTellsBody
<1> QED
  BY <1>1, Invariance, PTL

(* One request hands over one body at most: no retry, no late piece of a   *)
(* response and no second call by the scheduler repeats on_success.        *)
THEOREM HandedOverOnce == Spec => [](Len(out) <= 1)
<1>1. Inv => Len(out) <= 1
  BY DEF Inv, Handed
<1> QED
  BY <1>1, Invariance, PTL

-----------------------------------------------------------------------------
(* The refinement: a step of a scheduled client is a step of ClientLife or *)
(* changes nothing there; a blocking client is never seen.                 *)
LifeTable ==
    /\ blocking => Life = "unused"
    /\ state = "UNUSED" => Life = "unused"
    /\ ~blocking /\ state = "RETURNING" => Life = "returning"
    /\ ~blocking /\ state = "ERROR" => Life = "error"
    /\ ~blocking /\ state = "DISPOSING" => Life = "disposing"
    /\ ~blocking /\ state \notin {"UNUSED", "RETURNING", "ERROR", "DISPOSING"}
          => Life = "working"

LEMMA LifeRead == LifeTable
<1>1. state = "UNUSED" \/ blocking => Life = "unused"
  BY Zenon DEF Life
<1>2. ~blocking /\ state = "RETURNING" => Life = "returning"
  <2>1. state = "RETURNING" => state # "UNUSED" /\ state # "ERROR" /\ state # "DISPOSING"
    BY SMT
  <2> QED
    BY <2>1, Zenon DEF Life
<1>3. ~blocking /\ state = "ERROR" => Life = "error"
  <2>1. state = "ERROR" => state # "UNUSED" /\ state # "RETURNING" /\ state # "DISPOSING"
    BY SMT
  <2> QED
    BY <2>1, Zenon DEF Life
<1>4. ~blocking /\ state = "DISPOSING" => Life = "disposing"
  <2>1. state = "DISPOSING" => state # "UNUSED" /\ state # "RETURNING" /\ state # "ERROR"
    BY SMT
  <2> QED
    BY <2>1, Zenon DEF Life
<1>5. ~blocking /\ state \notin {"UNUSED", "RETURNING", "ERROR", "DISPOSING"}
        => Life = "working"
  BY Zenon DEF Life
<1> QED
  BY <1>1, <1>2, <1>3, <1>4, <1>5 DEF LifeTable

LEMMA LifeInit == Init => L!Init
BY LifeRead DEF LifeTable, Init, L!Init

LEMMA LifeStep ==
    ASSUME Inv, [Next]_vars
    PROVE  [L!Next]_<<Life, task>>
<1> USE DEF L!Next, LifeTable
<1>0. Driver /\ LifeTable /\ LifeTable'
  BY LifeRead, PTL DEF Inv
<1>1. CASE Initiate
  BY <1>0, <1>1 DEF Initiate, Driver, L!Start
<1>2. CASE \/ Connecting \/ BuildRequest
           \/ WaitingConnect(Connected) \/ WaitingConnect(StillConnecting)
           \/ WaitingConnect(ConnectFailed)
  <2>1. /\ state \in Unsent \ {"UNUSED"}
        /\ state' \in (Unsent \ {"UNUSED"}) \cup {"SENDING_REQUEST", "ERROR"}
        /\ Runs(state)
        /\ UNCHANGED <<task, blocking>>
    BY <1>2, ConnectStep DEF kept, Inv
  <2> QED
    BY <1>0, <2>1 DEF Unsent, Runs, Driver, L!Work, L!Steps
<1>3. CASE SendRequest
  <2>1. /\ state = "SENDING_REQUEST"
        /\ Runs(state)
        /\ state' \in {"SENDING_REQUEST", "READING_FIRSTLINE", "ERROR"}
        /\ UNCHANGED <<task, blocking>>
    BY <1>3, SendStep DEF kept, Inv
  <2> QED
    BY <1>0, <2>1 DEF Runs, Driver, L!Work, L!Steps
<1>4. CASE ReadFirstline \/ ReadHeaders \/ DecipherChonkiness \/ ReadBodyChunked \/ ReadBody
  <2>1. /\ state \in Reading
        /\ state' \in Reading \cup {"RETURNING", "ERROR"}
        /\ Runs(state)
        /\ UNCHANGED <<task, blocking>>
    BY <1>4, ReadStep DEF kept
  <2> QED
    BY <1>0, <2>1 DEF Reading, Runs, Driver, L!Work, L!Steps
<1>5. CASE Returning
  BY <1>0, <1>5 DEF Returning, Runs, Driver, session, L!Work, L!Steps
<1>6. CASE Disposing
  BY <1>0, <1>6 DEF Disposing, Disposed, Runs, Driver, session, L!Dispose
<1>7. CASE Failing
  BY <1>0, <1>7 DEF Failing, Disposed, Runs, Driver, session, L!Work, L!Steps
<1>8. CASE TimedOut
  BY <1>0, <1>8 DEF TimedOut, Disposed, Driver, session
<1>9. CASE Tick \/ Arrive \/ PeerCloses \/ ConnectionReset \/ UNCHANGED vars
  <2>1. UNCHANGED <<state, task, blocking>>
    BY <1>9, EnvironmentStep DEF kept
  <2>2. UNCHANGED Life
    BY <2>1, Zenon DEF Life
  <2> QED
    BY <2>1, <2>2
<1> QED
  BY <1>1, <1>2, <1>3, <1>4, <1>5, <1>6, <1>7, <1>8, <1>9 DEF Next, Work

(* A scheduled client holds its slot from http_client_initiate to          *)
(* http_client_dispose, and passes through the states between in the order *)
(* ClientLife has them: the order Scheduler is built on.                   *)
THEOREM ClientImplementsLife == Spec => ImplementsClient
BY Invariance, LifeInit, LifeStep, PTL DEF Spec, ImplementsClient, L!Spec

-----------------------------------------------------------------------------
(* What the parsers return, for every text.                                *)

LEMMA LengthOfType ==
    ASSUME NEW hd \in Seq(STRING)
    PROVE  LengthOf(hd) \in Nat
<1> DEFINE at == {i \in DOMAIN hd : hd[i] \in DOMAIN Lengths}
<1>1. at \subseteq Nat
  OBVIOUS
<1>2. LengthOf(hd) = IF at = {} THEN 0 ELSE Lengths[hd[Min(at)]]
  BY DEF LengthOf
<1>3. at # {} => Min(at) \in at
  <2> HIDE DEF at
  <2> QED
    BY <1>1, MinOf
<1>4. Lengths \in [{"cl:0", "cl:1", "cl:2", "cl:3"} -> Nat]
  BY DEF Lengths
<1>5. at # {} => hd[Min(at)] \in DOMAIN Lengths
  BY <1>3
<1> HIDE DEF at
<1> QED
  BY <1>2, <1>4, <1>5

(* The digits of a chunk size make a number: f holds the values of the     *)
(* first digits of line.                                                   *)
Running(f, n, line) ==
    f = [k \in 0..n |-> IF k = 0 THEN 0 ELSE (16 * f[k - 1]) + Digits[line[k]]]

LEMMA RunningExists ==
    ASSUME NEW n \in Nat, NEW line, \A k \in 1..n : Digits[line[k]] \in Nat
    PROVE  \E f : Running(f, n, line)
<1> DEFINE Bad == {m \in 0..n : ~ \E f \in [0..m -> Nat] : Running(f, m, line)}
<1>1. ASSUME Bad # {} PROVE FALSE
  <2>1. Bad \subseteq Nat
    OBVIOUS
  <2>2. PICK x \in Bad : \A y \in Bad : x <= y
    <3> HIDE DEF Bad
    <3> QED
      BY <1>1, <2>1, LeastPlace
  <2>3. x \in 0..n
    OBVIOUS
  <2>4. CASE x = 0
    <3>1. [k \in 0..0 |-> 0] \in [0..0 -> Nat] /\ Running([k \in 0..0 |-> 0], 0, line)
      BY DEF Running
    <3> QED
      BY <2>4, <3>1
  <2>5. CASE x # 0
    <3>1. x - 1 \in 0..n /\ x - 1 \notin Bad
      <4> HIDE DEF Bad
      <4> QED
        BY <2>2, <2>3, <2>5
    <3>2. PICK f \in [0..(x - 1) -> Nat] : Running(f, x - 1, line)
      BY <3>1
    <3>3. \A k \in 0..(x - 1) :
             f[k] = IF k = 0 THEN 0 ELSE (16 * f[k - 1]) + Digits[line[k]]
      BY <3>2 DEF Running
    <3>4. PICK g : g = [k \in 0..x |-> IF k = x THEN (16 * f[x - 1]) + Digits[line[x]] ELSE f[k]]
      OBVIOUS
    <3>5. g \in [0..x -> Nat]
      <4>1. f[x - 1] \in Nat /\ Digits[line[x]] \in Nat
        BY <2>3, <2>5, <3>2
      <4> QED
        BY <2>3, <2>5, <3>2, <3>4, <4>1
    <3>6. ASSUME NEW k \in 0..x
          PROVE  g[k] = IF k = 0 THEN 0 ELSE (16 * g[k - 1]) + Digits[line[k]]
      <4>1. CASE k = x
        <5>1. g[x] = (16 * f[x - 1]) + Digits[line[x]] /\ g[x - 1] = f[x - 1]
          BY <2>3, <2>5, <3>4
        <5> QED
          BY <2>5, <4>1, <5>1
      <4>2. CASE k # x
        <5>1. k \in 0..(x - 1) /\ g[k] = f[k] /\ (k # 0 => g[k - 1] = f[k - 1])
          BY <2>3, <3>4, <4>2
        <5> QED
          BY <3>3, <5>1
      <4> QED
        BY <4>1, <4>2
    <3>7. Running(g, x, line)
      <4>1. g = [k \in 0..x |-> g[k]]
        BY <3>5
      <4>2. [k \in 0..x |-> g[k]]
              = [k \in 0..x |-> IF k = 0 THEN 0 ELSE (16 * g[k - 1]) + Digits[line[k]]]
        BY <3>6
      <4> QED
        BY <4>1, <4>2, Zenon DEF Running
    <3> QED
      BY <3>5, <3>7
  <2> QED
    BY <2>4, <2>5
<1>2. n \notin Bad
  BY <1>1
<1> QED
  BY <1>2

LEMMA RunningType ==
    ASSUME NEW n \in Nat, NEW line, \A k \in 1..n : Digits[line[k]] \in Nat,
           NEW f, Running(f, n, line)
    PROVE  \A k \in 0..n : f[k] \in Nat
<1>1. \A k \in 0..n : f[k] = IF k = 0 THEN 0 ELSE (16 * f[k - 1]) + Digits[line[k]]
  BY DEF Running
<1> DEFINE Bad == {k \in 0..n : f[k] \notin Nat}
<1>2. ASSUME Bad # {} PROVE FALSE
  <2>1. Bad \subseteq Nat
    OBVIOUS
  <2>2. PICK x \in Bad : \A y \in Bad : x <= y
    <3> HIDE DEF Bad
    <3> QED
      BY <1>2, <2>1, LeastPlace
  <2>3. x \in 0..n /\ x # 0
    BY <1>1
  <2>4. x - 1 \in 0..n /\ x - 1 \notin Bad
    BY <2>2, <2>3
  <2>5. f[x - 1] \in Nat /\ Digits[line[x]] \in Nat
    BY <2>3, <2>4
  <2> QED
    BY <1>1, <2>2, <2>3, <2>5
<1> QED
  BY <1>2

LEMMA ChunkSizeType ==
    ASSUME NEW line \in Seq(STRING)
    PROVE  ChunkSize(line) \in Nat \cup {-1}
<1> DEFINE Ends == {i \in 0..Len(line) : i = Len(line) \/ line[i + 1] \notin DOMAIN Digits}
           n == Min(Ends)
<1>1. n \in Ends /\ \A y \in Ends : n <= y
  <2>1. Ends \subseteq Nat /\ Len(line) \in Ends
    OBVIOUS
  <2> HIDE DEF Ends
  <2> QED
    BY <2>1, MinOf
<1>2. n \in 0..Len(line)
  BY <1>1
<1>3. Digits \in [{"0", "1", "2", "3", "4"} -> Nat]
  BY DEF Digits
<1>4. \A k \in 1..n : line[k] \in DOMAIN Digits
  <2>1. ASSUME NEW k \in 1..n, line[k] \notin DOMAIN Digits PROVE FALSE
    <3>1. k - 1 \in 0..Len(line) /\ (k - 1) + 1 = k
      BY <1>2
    <3>2. k - 1 \in Ends
      BY <2>1, <3>1
    <3> HIDE DEF n, Ends
    <3> QED
      BY <1>1, <1>2, <3>2
  <2> QED
    BY <2>1
<1> HIDE DEF n, Ends
<1>5. \A k \in 1..n : Digits[line[k]] \in Nat
  BY <1>3, <1>4
<1>6. ChunkSize(line) = IF n = 0 THEN -1 ELSE (CHOOSE f : Running(f, n, line))[n]
  BY DEF ChunkSize, Running, n, Ends
<1>7. Running(CHOOSE f : Running(f, n, line), n, line)
  BY <1>2, <1>5, RunningExists
<1>8. (CHOOSE f : Running(f, n, line))[n] \in Nat
  BY <1>2, <1>5, <1>7, RunningType
<1> QED
  BY <1>6, <1>8

(* A line that does not begin with a digit is no chunk size.               *)
LEMMA NoDigitNoSize ==
    ASSUME NEW line \in Seq(STRING), Len(line) = 0 \/ line[1] \notin DOMAIN Digits
    PROVE  ChunkSize(line) = -1
<1> DEFINE at == {i \in 0..Len(line) : i = Len(line) \/ line[i + 1] \notin DOMAIN Digits}
<1>1. Len(line) \in Nat
  OBVIOUS
<1>2. at \subseteq Nat /\ 0 \in at
  BY <1>1
<1>3. Min(at) = 0
  <2> HIDE DEF at
  <2>1. at # {}
    BY <1>2
  <2>2. Min(at) \in at /\ \A y \in at : Min(at) <= y
    BY <1>2, <2>1, MinOf
  <2>3. Min(at) \in Nat /\ Min(at) <= 0
    BY <1>2, <2>2
  <2> QED
    BY <2>3
<1> HIDE DEF at
<1> QED
  BY <1>3 DEF ChunkSize, at

(* The cast to int of a chunk size, and of one that fits.                  *)
LEMMA AsIntIs ==
    ASSUME NEW n \in Nat
    PROVE  AsInt(n) \in -(MaxInt + 1)..MaxInt /\ (n <= MaxInt => AsInt(n) = n)
<1> DEFINE x == n + MaxInt + 1
           m == 2 * (MaxInt + 1)
<1>0. MaxInt \in Nat
  BY HttpAssumption
<1>1. x \in Nat /\ m \in Nat \ {0} /\ (n <= MaxInt => x \in 0..(m - 1))
  BY <1>0
<1>2. AsInt(n) = (x % m) - (MaxInt + 1)
  BY DEF AsInt
<1>3. x % m \in 0..(m - 1) /\ (x \in 0..(m - 1) => x % m = x)
  <2> HIDE DEF x, m
  <2> QED
    BY <1>1
<1> QED
  BY <1>0, <1>1, <1>2, <1>3

-----------------------------------------------------------------------------
(* The types.  What Inv does not say of them is said of the buffers, which *)
(* only the reading steps change in earnest, and of the rest.              *)

Buffers ==
    /\ recv \in Seq(STRING) /\ decoded \in Seq(STRING)
    /\ chunk_remaining \in -(MaxInt + 1)..MaxInt /\ content_length \in Nat
    /\ resp \in Responses
    /\ arrived \in 0..Len(resp.bytes)
    /\ pos \in 0..arrived
    /\ network \in Networks

Others ==
    /\ retries \in Nat /\ calls \in Nat
    /\ due \in BOOLEAN
    /\ out \in Seq(Seq(STRING))
    /\ result \in Codes
    /\ conn \in {"none", "open", "closed", "reset"}
    /\ blocking \in Drivers

LEMMA TypeParts == Inv => (TypeOK <=> Buffers /\ Others)
<1> SUFFICES ASSUME Inv PROVE TypeOK <=> Buffers /\ Others
  OBVIOUS
<1>1. wire \in Seq(STRING)
  <2>1. Request \in Seq(STRING) /\ bytes_sent \in 0..Len(Request)
    BY HttpAssumption DEF Inv, Sent
  <2> QED
    BY <2>1 DEF Inv, Sent
<1> QED
  BY <1>1 DEF Inv, Driver, Sent, TypeOK, Buffers, Others

(* One read takes from what has arrived and has not been read.             *)
LEMMA PieceType ==
    ASSUME Buffers
    PROVE  Piece \in Seq(STRING) /\ Len(Piece) \in 0..(arrived - pos)
<1>1. /\ resp.bytes \in Seq(STRING) /\ arrived \in 0..Len(resp.bytes) /\ pos \in 0..arrived
      /\ MaxRead \in Nat \ {0}
  BY HttpAssumption DEF Buffers, ResponseOK, MaxRead
<1> DEFINE stop == Min({arrived, pos + MaxRead})
<1>2. stop \in pos..arrived
  <2>1. {arrived, pos + MaxRead} \subseteq Nat /\ {arrived, pos + MaxRead} # {}
    BY <1>1
  <2>2. stop \in {arrived, pos + MaxRead} /\ stop <= arrived
    BY <2>1, MinOf
  <2> QED
    BY <1>1, <2>2
<1>3. Piece = SubSeq(resp.bytes, pos + 1, stop)
  BY DEF Piece
<1> HIDE DEF stop
<1>4. /\ SubSeq(resp.bytes, pos + 1, stop) \in Seq(STRING)
      /\ Len(SubSeq(resp.bytes, pos + 1, stop)) = IF pos + 1 <= stop THEN stop - (pos + 1) + 1 ELSE 0
  <2>1. \A i \in (pos + 1)..stop : resp.bytes[i] \in STRING
    BY <1>1, <1>2
  <2> QED
    BY <1>1, <1>2, <2>1, SubSeqProperties
<1> QED
  BY <1>1, <1>2, <1>3, <1>4

LEMMA AppendPiece ==
    ASSUME Buffers, NEW buf \in Seq(STRING)
    PROVE  buf \o Piece \in Seq(STRING) /\ pos + Len(Piece) \in 0..arrived
<1>1. buf \o Piece \in Seq(STRING)
  BY PieceType, ConcatProperties
<1> QED
  BY <1>1, PieceType DEF Buffers

LEMMA FillType ==
    ASSUME Buffers, NEW buf \in Seq(STRING), Fill(buf)
    PROVE  recv' \in Seq(STRING) /\ pos' \in 0..arrived
BY AppendPiece DEF Fill, Buffers

LEMMA ReadTypes ==
    ASSUME Buffers, Others,
           ReadFirstline \/ ReadHeaders \/ DecipherChonkiness \/ ReadBodyChunked \/ ReadBody
    PROVE  Buffers' /\ Others'
<1>0. recv \in Seq(STRING) /\ Len(recv) \in Nat
  BY DEF Buffers
<1>1. ASSUME UNCHANGED <<resp, arrived, session>>,
             recv' \in Seq(STRING), decoded' \in Seq(STRING), pos' \in 0..arrived,
             chunk_remaining' \in -(MaxInt + 1)..MaxInt, content_length' \in Nat
      PROVE  Buffers'
  BY <1>1 DEF Buffers, session
<1>2. ASSUME UNCHANGED <<due, out, result, session, conn>>, retries' = retries \/ retries' = 0
      PROVE  Others'
  BY <1>2 DEF Others, session
<1>3. CASE ReadFirstline
  <2> DEFINE buf == recv \o Piece
             end == LineEnd(buf)
  <2>1. buf \in Seq(STRING) /\ pos + Len(Piece) \in 0..arrived
    BY <1>0, AppendPiece
  <2> HIDE DEF buf
  <2>2. end = -1 \/ end \in Nat
    BY <2>1, EndsType
  <2>3. end \in Nat => From(buf, end + 2) \in Seq(STRING)
    BY <2>1, FromType
  <2>4. \/ UNCHANGED <<recv, pos>>
        \/ pos' = pos + Len(Piece) /\ (recv' = buf \/ (end >= 0 /\ recv' = From(buf, end + 2)))
    <3> HIDE DEF end
    <3>1. \/ UNCHANGED <<recv, pos>>
          \/ pos' = pos + Len(Piece) /\ (recv' = buf \/ (~(end < 0) /\ recv' = From(buf, end + 2)))
      BY <1>3 DEF ReadFirstline, buf, end
    <3> QED
      BY <2>2, <3>1 DEF end
  <2>5. recv' \in Seq(STRING) /\ pos' \in 0..arrived
    <3> HIDE DEF end
    <3> QED
      BY <2>1, <2>2, <2>3, <2>4, <1>0 DEF Buffers
  <2> QED
    BY <1>1, <1>2, <1>3, <2>5 DEF ReadFirstline, unread, Buffers
<1>4. CASE ReadHeaders
  <2> DEFINE end == HeadersEnd(recv)
             head == SubSeq(recv, 1, end)
  <2>1. end = -1 \/ end \in 0..(Len(recv) - 4)
    BY <1>0, EndsType
  <2> HIDE DEF end
  <2>2. CASE end < 0
    <3>1. Fill(recv) /\ UNCHANGED <<content_length, retries>>
      BY <1>4, <2>2 DEF ReadHeaders, end
    <3> QED
      BY <1>0, <1>1, <1>2, <1>4, <3>1, FillType DEF ReadHeaders, Buffers
  <2>3. CASE end \in 0..(Len(recv) - 4)
    <3>1. head \in Seq(STRING)
      <4>1. \A i \in 1..end : recv[i] \in STRING
        BY <1>0, <2>3
      <4> QED
        BY <2>3, <4>1, SubSeqProperties
    <3>2. LengthOf(head) \in Nat
      BY <3>1, LengthOfType
    <3>3. From(recv, end + 4) \in Seq(STRING)
      BY <1>0, <2>3, FromType
    <3>4. /\ recv' = recv \/ recv' = From(recv, end + 4)
          /\ content_length' = content_length \/ content_length' = LengthOf(head)
          /\ retries' = retries \/ retries' = 0
          /\ pos' = pos
      <4>1. ~(end < 0)
        BY <2>3
      <4> QED
        BY <1>4, <4>1 DEF ReadHeaders, end
    <3> HIDE DEF head
    <3> QED
      BY <1>1, <1>2, <1>4, <3>2, <3>3, <3>4 DEF ReadHeaders, Buffers
  <2> QED
    BY <2>1, <2>2, <2>3
<1>5. CASE DecipherChonkiness
  <2> DEFINE end  == LineEnd(recv)
             size == ChunkSize(SubSeq(recv, 1, end))
             rest == From(recv, end + 2)
             stop == HeadersEnd(rest)
  <2>1. end = -1 \/ end \in 0..(Len(recv) - 2)
    BY <1>0, EndsType
  <2> HIDE DEF end
  <2>2. CASE end < 0
    <3>1. Fill(recv) /\ UNCHANGED chunk_remaining
      BY <1>5, <2>2 DEF DecipherChonkiness, end
    <3> QED
      BY <1>0, <1>1, <1>2, <1>5, <3>1, FillType DEF DecipherChonkiness, unread, Buffers
  <2>3. CASE end \in 0..(Len(recv) - 2)
    <3>1. size \in Nat \cup {-1}
      <4>1. \A i \in 1..end : recv[i] \in STRING
        BY <1>0, <2>3
      <4>2. SubSeq(recv, 1, end) \in Seq(STRING)
        BY <2>3, <4>1, SubSeqProperties
      <4> QED
        BY <4>2, ChunkSizeType
    <3>2. rest \in Seq(STRING)
      BY <1>0, <2>3, FromType
    <3>3. stop = -1 \/ stop \in Nat
      <4> HIDE DEF rest
      <4> QED
        BY <3>2, EndsType
    <3>4. From(rest, 2) \in Seq(STRING) /\ (stop \in Nat => From(rest, stop + 4) \in Seq(STRING))
      <4> HIDE DEF rest, stop
      <4>1. From(rest, 2) \in Seq(STRING)
        BY <3>2, FromType
      <4>2. ASSUME stop \in Nat PROVE From(rest, stop + 4) \in Seq(STRING)
        <5>1. stop + 4 \in Nat
          BY <4>2
        <5> QED
          BY <3>2, <5>1, FromType
      <4> QED
        BY <4>1, <4>2
    <3>5. \/ UNCHANGED <<recv, pos, chunk_remaining>>
          \/ size > 0 /\ recv' = rest /\ chunk_remaining' = AsInt(size) /\ UNCHANGED pos
          \/ recv' = From(rest, 2) /\ UNCHANGED <<pos, chunk_remaining>>
          \/ stop >= 0 /\ recv' = From(rest, stop + 4) /\ UNCHANGED <<pos, chunk_remaining>>
          \/ Fill(rest) /\ UNCHANGED chunk_remaining
      <4>1. ~(end < 0)
        BY <2>3
      <4> QED
        BY <1>5, <4>1 DEF DecipherChonkiness, end
    <3> HIDE DEF size, rest, stop
    <3>6. recv' \in Seq(STRING) /\ pos' \in 0..arrived
      BY <1>0, <3>1, <3>2, <3>3, <3>4, <3>5, FillType DEF Buffers
    <3>7. chunk_remaining' \in -(MaxInt + 1)..MaxInt
      <4>1. chunk_remaining' = chunk_remaining \/ (size > 0 /\ chunk_remaining' = AsInt(size))
        BY <3>5
      <4>2. size > 0 => size \in Nat
        BY <3>1
      <4> QED
        BY <4>1, <4>2, AsIntIs DEF Buffers
    <3> QED
      BY <1>1, <1>2, <1>5, <3>6, <3>7 DEF DecipherChonkiness, unread, Buffers
  <2> QED
    BY <2>1, <2>2, <2>3
<1>6. CASE ReadBodyChunked
  <2> DEFINE rest == From(recv, chunk_remaining)
  <2>0. /\ chunk_remaining \in Int /\ 0 \in -(MaxInt + 1)..MaxInt
        /\ ~(chunk_remaining < 0) => chunk_remaining \in Nat
    BY HttpAssumption DEF Buffers
  <2>1. ~(chunk_remaining < 0) => rest \in Seq(STRING) /\ From(rest, 2) \in Seq(STRING)
    <3>1. ~(chunk_remaining < 0) => rest \in Seq(STRING)
      BY <1>0, <2>0, FromType
    <3> HIDE DEF rest
    <3> QED
      BY <3>1, FromType
  <2> HIDE DEF rest
  <2>2. CASE chunk_remaining < 0 \/ Len(recv) < chunk_remaining
    <3>1. \/ Fill(recv) /\ UNCHANGED <<decoded, chunk_remaining>>
          \/ UNCHANGED <<recv, pos, decoded, chunk_remaining>>
      BY <1>6, <2>2 DEF ReadBodyChunked
    <3>2. recv' \in Seq(STRING) /\ pos' \in 0..arrived
      BY <1>0, <3>1, FillType DEF Buffers
    <3> QED
      BY <1>1, <1>2, <1>6, <3>1, <3>2 DEF ReadBodyChunked, unread, Buffers
  <2>3. CASE ~(chunk_remaining < 0) /\ ~(Len(recv) < chunk_remaining)
    <3>1. decoded \o SubSeq(recv, 1, chunk_remaining) \in Seq(STRING)
      <4>1. chunk_remaining \in 0..Len(recv) /\ decoded \in Seq(STRING)
        BY <1>0, <2>0, <2>3 DEF Buffers
      <4>2. \A i \in 1..chunk_remaining : recv[i] \in STRING
        BY <1>0, <4>1
      <4>3. SubSeq(recv, 1, chunk_remaining) \in Seq(STRING)
        BY <4>1, <4>2, SubSeqProperties
      <4> QED
        BY <4>1, <4>3, ConcatProperties
    <3>2. \/ /\ decoded' = decoded \o SubSeq(recv, 1, chunk_remaining)
             /\ chunk_remaining' = 0
             /\ \/ Fill(rest)
                \/ (recv' = From(rest, 2) \/ recv' = rest) /\ UNCHANGED pos
          \/ UNCHANGED <<recv, pos, decoded, chunk_remaining>>
      BY <1>6, <2>3 DEF ReadBodyChunked, AfterCopy, rest
    <3>3. /\ recv' \in Seq(STRING) /\ pos' \in 0..arrived
          /\ decoded' \in Seq(STRING) /\ chunk_remaining' \in -(MaxInt + 1)..MaxInt
      <4>1. CASE Fill(rest) /\ chunk_remaining' = 0
                   /\ decoded' = decoded \o SubSeq(recv, 1, chunk_remaining)
        BY <2>0, <2>1, <2>3, <3>1, <4>1, FillType
      <4>2. CASE (recv' = From(rest, 2) \/ recv' = rest) /\ chunk_remaining' = 0 /\ pos' = pos
                   /\ decoded' = decoded \o SubSeq(recv, 1, chunk_remaining)
        BY <2>0, <2>1, <2>3, <3>1, <4>2 DEF Buffers
      <4>3. CASE UNCHANGED <<recv, pos, decoded, chunk_remaining>>
        BY <4>3 DEF Buffers
      <4> QED
        BY <3>2, <4>1, <4>2, <4>3
    <3> QED
      BY <1>1, <1>2, <1>6, <3>3 DEF ReadBodyChunked, unread, Buffers
  <2> QED
    BY <2>2, <2>3
<1>7. CASE ReadBody
  <2>1. \/ UNCHANGED <<recv, pos>>
        \/ recv' = recv \o Piece /\ pos' = pos + Len(Piece)
    BY <1>7 DEF ReadBody
  <2>2. recv' \in Seq(STRING) /\ pos' \in 0..arrived
    BY <1>0, <2>1, AppendPiece DEF Buffers
  <2>3. retries' = retries \/ retries' = 0
    BY <1>7 DEF ReadBody
  <2> QED
    BY <1>1, <1>2, <1>7, <2>2, <2>3 DEF ReadBody, Buffers
<1> QED
  BY <1>3, <1>4, <1>5, <1>6, <1>7

LEMMA TypeStep ==
    ASSUME Inv, Buffers, Others, [Next]_vars
    PROVE  Buffers' /\ Others'
<1>1. CASE Initiate
  <2>1. <<>> \in Seq(STRING) /\ <<>> \in Seq(Seq(STRING))
    OBVIOUS
  <2>2. Buffers'
    <3>1. resp' \in Responses /\ Len(resp'.bytes) \in Nat
      BY <1>1, HttpAssumption DEF Initiate, ResponseOK
    <3>2. 0 \in -(MaxInt + 1)..MaxInt
      BY HttpAssumption
    <3> QED
      BY <1>1, <2>1, <3>1, <3>2 DEF Initiate, Buffers
  <2>3. Others'
    BY <1>1, <2>1 DEF Initiate, Others, Codes
  <2> QED
    BY <2>2, <2>3
<1>2. CASE \/ Connecting \/ BuildRequest
           \/ WaitingConnect(Connected) \/ WaitingConnect(StillConnecting)
           \/ WaitingConnect(ConnectFailed)
  <2> USE DEF session, client, net, Buffers, Others
  <2>1. CASE Connecting
    BY <2>1 DEF Connecting
  <2>2. CASE BuildRequest
    BY <2>2 DEF BuildRequest
  <2>3. CASE WaitingConnect(Connected)
    BY <2>3 DEF WaitingConnect, Connected
  <2>4. CASE WaitingConnect(StillConnecting)
    BY <2>4 DEF WaitingConnect, StillConnecting
  <2>5. CASE WaitingConnect(ConnectFailed)
    BY <2>5 DEF WaitingConnect, ConnectFailed
  <2> QED
    BY <1>2, <2>1, <2>2, <2>3, <2>4, <2>5
<1>3. CASE SendRequest
  <2>1. /\ UNCHANGED <<recv, decoded, chunk_remaining, content_length, out, result, session,
                       resp, arrived, pos, conn>>
        /\ retries' \in {retries, retries + 1, 0}
        /\ due' \in {due, FALSE}
    <3>1. CASE SendSome
      BY <3>1 DEF SendSome, Sending, Wrote
    <3>2. CASE Sending(WroteNothing)
      BY <3>2 DEF Sending, WroteNothing
    <3>3. CASE Sending(WriteWouldBlock)
      BY <3>3 DEF Sending, WriteWouldBlock
    <3>4. CASE Sending(WriteFailed)
      BY <3>4 DEF Sending, WriteFailed
    <3> QED
      BY <1>3, <3>1, <3>2, <3>3, <3>4 DEF SendRequest
  <2>2. retries' \in Nat /\ due' \in BOOLEAN
    <3>1. retries' \in Nat
      BY <2>1 DEF Others
    <3>2. due' \in BOOLEAN
      BY <2>1, Zenon DEF Others
    <3> QED
      BY <3>1, <3>2
  <2>3. Buffers'
    BY <2>1 DEF session, Buffers
  <2>4. Others'
    BY <2>1, <2>2 DEF session, Others
  <2> QED
    BY <2>3, <2>4
<1>4. CASE ReadFirstline \/ ReadHeaders \/ DecipherChonkiness \/ ReadBodyChunked \/ ReadBody
  BY <1>4, ReadTypes
<1>5. CASE Returning
  <2>1. out' \in Seq(Seq(STRING))
    <3>1. \A body \in Seq(STRING) : Append(out, body) \in Seq(Seq(STRING))
      BY AppendProperties DEF Others
    <3>2. out' = out \/ out' = Append(out, decoded) \/ out' = Append(out, recv)
      BY <1>5 DEF Returning
    <3> QED
      BY <3>1, <3>2 DEF Buffers, Others
  <2> QED
    BY <1>5, <2>1 DEF Returning, client, session, net, Buffers, Others
<1>6. CASE Disposing \/ Failing \/ TimedOut
  <2>1. <<>> \in Seq(STRING)
    OBVIOUS
  <2>2. /\ recv' \in {recv, <<>>} /\ decoded' \in {decoded, <<>>} /\ conn' \in {conn, "none"}
        /\ result' \in {result, "SUCCESS", "ERR_IO", "ERR_TIMEOUT"}
        /\ UNCHANGED <<chunk_remaining, content_length, retries, due, out, session, resp,
                       arrived, pos>>
    BY <1>6 DEF Disposing, Failing, TimedOut, Disposed, client, net
  <2> QED
    BY <2>1, <2>2 DEF session, Buffers, Others, Codes
<1>7. CASE Tick \/ PeerCloses \/ ConnectionReset \/ UNCHANGED vars
  BY <1>7 DEF Tick, PeerCloses, ConnectionReset, vars, client, session, net, Buffers, Others
<1>8. CASE Arrive
  <2>1. resp' = resp /\ pos' = pos /\ arrived' \in (arrived + 1)..Len(resp.bytes)
    BY <1>8 DEF Arrive
  <2>2. resp.bytes \in Seq(STRING)
    BY HttpAssumption DEF Buffers, ResponseOK
  <2>3. arrived' \in 0..Len(resp.bytes) /\ pos' \in 0..arrived'
    BY <2>1, <2>2 DEF Buffers
  <2> QED
    BY <1>8, <2>1, <2>3 DEF Arrive, client, session, Buffers, Others
<1> QED
  BY <1>1, <1>2, <1>3, <1>4, <1>5, <1>6, <1>7, <1>8 DEF Next, Work

(* The types of HttpClient: what is left of a chunk is an int, also of a   *)
(* chunk whose size is not, and no read goes past what has arrived,        *)
(* whatever the peer sends.                                                *)
THEOREM TypeCorrect == Spec => []TypeOK
<1>1. Init => Buffers /\ Others
  <2>1. <<>> \in Seq(STRING) /\ <<>> \in Seq(Seq(STRING))
    OBVIOUS
  <2>2. ASSUME NEW r \in Responses PROVE Len(r.bytes) \in Nat
    BY HttpAssumption DEF ResponseOK
  <2>3. 0 \in -(MaxInt + 1)..MaxInt
    BY HttpAssumption
  <2> QED
    BY <2>1, <2>2, <2>3 DEF Init, Buffers, Others, Codes
<1>2. Inv /\ Buffers /\ Others /\ [Next]_vars => Buffers' /\ Others'
  BY TypeStep
<1>3. Inv /\ Buffers /\ Others => TypeOK
  BY TypeParts
<1> QED
  BY <1>1, <1>2, <1>3, Invariance, PTL DEF Spec

-----------------------------------------------------------------------------
(* What a read does to the buffer.                                         *)

LEMMA PieceIs ==
    ASSUME Buffers
    PROVE  /\ pos + Len(Piece) \in pos..arrived
           /\ Piece = SubSeq(resp.bytes, pos + 1, pos + Len(Piece))
<1>1. /\ resp.bytes \in Seq(STRING) /\ arrived \in 0..Len(resp.bytes) /\ pos \in 0..arrived
      /\ MaxRead \in Nat \ {0}
  BY HttpAssumption DEF Buffers, ResponseOK, MaxRead
<1> DEFINE stop == Min({arrived, pos + MaxRead})
<1>2. stop \in pos..arrived
  <2>1. {arrived, pos + MaxRead} \subseteq Nat /\ {arrived, pos + MaxRead} # {}
    BY <1>1
  <2>2. stop \in {arrived, pos + MaxRead} /\ stop <= arrived
    BY <2>1, MinOf
  <2> QED
    BY <1>1, <2>2
<1>3. Piece = SubSeq(resp.bytes, pos + 1, stop)
  BY DEF Piece
<1> HIDE DEF stop
<1>4. Len(Piece) = stop - pos
  <2>1. stop \in 0..Len(resp.bytes) /\ pos \in 0..stop
    BY <1>1, <1>2
  <2> QED
    BY <1>1, <1>3, <2>1, PartIs
<1>5. pos + Len(Piece) = stop
  BY <1>1, <1>2, <1>4
<1> QED
  BY <1>2, <1>3, <1>5

LEMMA Joined ==
    ASSUME Buffers, NEW f \in 0..pos
    PROVE  /\ f \in 0..(pos + Len(Piece))
           /\ SubSeq(resp.bytes, f + 1, pos) \o Piece
                = SubSeq(resp.bytes, f + 1, pos + Len(Piece))
<1>1. /\ resp.bytes \in Seq(STRING) /\ Len(resp.bytes) \in Nat
      /\ arrived \in 0..Len(resp.bytes) /\ pos \in 0..arrived
  <2>1. resp.bytes \in Seq(STRING)
    BY HttpAssumption DEF Buffers, ResponseOK
  <2> QED
    BY <2>1 DEF Buffers
<1> DEFINE stop == pos + Len(Piece)
<1>2. stop \in pos..arrived /\ Piece = SubSeq(resp.bytes, pos + 1, stop)
  BY PieceIs
<1> HIDE DEF stop
<1>3. /\ f + 1 \in 1..(Len(resp.bytes) + 1) /\ pos \in ((f + 1) - 1)..Len(resp.bytes)
      /\ stop \in pos..Len(resp.bytes) /\ f \in 0..stop
  BY <1>1, <1>2
<1>4. SubSeq(resp.bytes, f + 1, pos) \o SubSeq(resp.bytes, pos + 1, stop)
        = SubSeq(resp.bytes, f + 1, stop)
  BY <1>1, <1>3, ConcatAdjacentSubSeq
<1> QED
  BY <1>2, <1>3, <1>4 DEF stop

LEMMA FillKeeps ==
    ASSUME Buffers, NEW f \in 0..pos, Fill(SubSeq(resp.bytes, f + 1, pos)), state' # "ERROR"
    PROVE  /\ state' = state
           /\ f \in 0..pos'
           /\ recv' = SubSeq(resp.bytes, f + 1, pos')
<1>1. CASE UNCHANGED <<state, pos>> /\ recv' = SubSeq(resp.bytes, f + 1, pos)
  BY <1>1
<1>2. CASE /\ recv' = SubSeq(resp.bytes, f + 1, pos) \o Piece
           /\ pos' = pos + Len(Piece)
           /\ UNCHANGED state
  BY <1>2, Joined
<1> QED
  BY <1>1, <1>2 DEF Fill

-----------------------------------------------------------------------------
(* What is handed over is the body of the response.  The buffer of the     *)
(* client is at any time the piece of the response between a place f and   *)
(* what has been read; f is where the state of the client says it is.      *)

Early == Unsent \cup {"SENDING_REQUEST", "READING_FIRSTLINE"}
Body  == {"READING_BODY", "DECIPHER_CHONKINESS", "READING_BODY_CHUNKED"}

Right(body) ==
    /\ IsPrefix(body, resp.body \o resp.after)
    /\ resp.valid => IsPrefix(resp.body, body)
    /\ Framed(resp) => body = resp.body

(* A response that the client is not led astray by.                        *)
Clear == ~Misleading(resp) /\ ~Oversized(resp)

(* In the middle of chunks the body is what has been decoded, then what    *)
(* the chunk at hand holds, then what is left at the next one.  A client   *)
(* that has consumed the line of the last chunk and not the trailers is at *)
(* resp.last.                                                              *)
ChunkLine(f) ==
    \/ f = resp.last
    \/ f \in DOMAIN resp.left /\ resp.body = decoded \o resp.left[f]

InChunk(f) ==
    LET q == f + chunk_remaining IN
    Closed(resp, q) =>
        /\ q + 2 \in DOMAIN resp.left
        /\ resp.body = (decoded \o SubSeq(resp.bytes, f + 1, q)) \o resp.left[q + 2]

At(f) ==
    /\ state \in Early => f = 0
    /\ state = "READING_HEADERS" => f = 3 /\ IsPrefix(StatusLine, resp.bytes)
    /\ state \in Early \cup {"READING_HEADERS"} => content_length = 0
    /\ state \in Early \cup {"READING_HEADERS", "READING_BODY"} => decoded = <<>>
    /\ state \in Body => HasHead(resp) /\ (IsChunked(Header(resp)) <=> state # "READING_BODY")
    /\ state = "READING_BODY" => f = BodyAt(resp) /\ content_length = LengthOf(Header(resp))
    /\ state = "DECIPHER_CHONKINESS" => ChunkLine(f)
    /\ state = "READING_BODY_CHUNKED" => InChunk(f)

Got ==
    /\ state \in Early \cup {"READING_HEADERS"} \cup Body =>
          \E f \in 0..pos : recv = SubSeq(resp.bytes, f + 1, pos) /\ At(f)
    /\ state = "RETURNING" => Right(IF decoded # <<>> THEN decoded ELSE recv)

Told ==
    Clear =>
        /\ result = "none" => Got
        /\ \A n \in DOMAIN out : Right(out[n])

(* What the assumption says of the response at hand.                       *)
LEMMA RespOK ==
    ASSUME Buffers
    PROVE  /\ resp.bytes \in Seq(STRING) /\ Len(resp.bytes) \in Nat
           /\ resp.body \in Seq(STRING) /\ resp.after \in Seq(STRING)
           /\ resp.last \in 1..Len(resp.bytes)
           /\ pos \in 0..Len(resp.bytes)
           /\ HasHead(resp) /\ IsChunked(Header(resp)) => ChunksOK(resp)
           /\ HasHead(resp) /\ ~IsChunked(Header(resp)) =>
                 /\ From(resp.bytes, BodyAt(resp)) = resp.body \o resp.after
                 /\ resp.valid => LengthOf(Header(resp)) = Len(resp.body)
<1>1. ResponseOK(resp)
  BY HttpAssumption DEF Buffers
<1>2. resp.bytes \in Seq(STRING) /\ Len(resp.bytes) \in Nat
  BY <1>1 DEF ResponseOK
<1>3. pos \in 0..Len(resp.bytes)
  BY <1>2 DEF Buffers
<1> QED
  BY <1>1, <1>2, <1>3 DEF ResponseOK

(* The status line, found in the buffer, is the first line of the text.    *)
LEMMA StatusFound ==
    ASSUME NEW t \in Seq(STRING), NEW g \in 0..Len(t),
           LineEnd(SubSeq(t, 1, g)) # -1,
           SubSeq(SubSeq(t, 1, g), 1, LineEnd(SubSeq(t, 1, g))) = <<"status">>
    PROVE  /\ LineEnd(SubSeq(t, 1, g)) = 1
           /\ 3 <= g
           /\ IsPrefix(StatusLine, t)
<1> DEFINE u == SubSeq(t, 1, g)
           e == LineEnd(u)
<1>0. 0 \in 0..g /\ g \in Nat /\ Len(t) \in Nat
  OBVIOUS
<1>1. u \in Seq(STRING) /\ Len(u) = g
  <2>1. SubSeq(t, 0 + 1, g) \in Seq(STRING) /\ Len(SubSeq(t, 0 + 1, g)) = g - 0
    BY <1>0, PartIs
  <2> QED
    BY <2>1
<1>2. e \in 0..(g - 2)
  <2> HIDE DEF u
  <2> QED
    BY <1>1, EndsType DEF u
<1>3. SubSeq(u, e + 1, e + 2) = CRLF
  BY <1>1, LineEndIs
<1>4. e = 1
  <2>1. Len(SubSeq(u, 1, e)) = e
    <3> HIDE DEF e, u
    <3>1. e \in 0..Len(u) /\ 0 \in 0..e
      BY <1>0, <1>1, <1>2
    <3>2. Len(SubSeq(u, 0 + 1, e)) = e - 0
      BY <1>1, <3>1, PartIs
    <3> QED
      BY <1>2, <3>2
  <2>2. Len(<<"status">>) = 1
    OBVIOUS
  <2> QED
    BY <2>1, <2>2
<1>5. 3 <= g
  BY <1>0, <1>2, <1>4
<1> DEFINE word == <<"status">>
<1>6. SubSeq(u, 1, e) = word /\ StatusLine = word \o CRLF
  BY DEF StatusLine
<1> HIDE DEF u, e, word
<1>7. SubSeq(u, 1, 1) = word /\ SubSeq(u, 2, 3) = CRLF
  BY <1>3, <1>4, <1>6
<1>8. SubSeq(t, 1, 1) = SubSeq(u, 1, 1) /\ SubSeq(t, 2, 3) = SubSeq(u, 2, 3)
  <2>1. 1 \in 0..(g - 0) /\ 3 \in 0..(g - 0) /\ 0 \in 0..1 /\ 1 \in 0..3
    BY <1>0, <1>5
  <2>2. SubSeq(SubSeq(t, 0 + 1, g), 0 + 1, 1) = SubSeq(t, 0 + 0 + 1, 0 + 1)
    BY <1>0, <2>1, PartOfPart
  <2>3. SubSeq(SubSeq(t, 0 + 1, g), 1 + 1, 3) = SubSeq(t, 0 + 1 + 1, 0 + 3)
    BY <1>0, <2>1, PartOfPart
  <2>4. 0 + 1 = 1 /\ 0 + 0 + 1 = 1 /\ 1 + 1 = 2 /\ 0 + 1 + 1 = 2 /\ 0 + 3 = 3
    OBVIOUS
  <2> QED
    BY <2>2, <2>3, <2>4, Zenon DEF u
<1>9. SubSeq(t, 1, 3) = StatusLine
  <2>1. /\ 1 \in 1..(Len(t) + 1) /\ 1 \in (1 - 1)..Len(t) /\ 3 \in 1..Len(t)
    BY <1>0, <1>5
  <2>2. SubSeq(t, 1, 1) \o SubSeq(t, 1 + 1, 3) = SubSeq(t, 1, 3)
    BY <2>1, ConcatAdjacentSubSeq
  <2>3. 1 + 1 = 2
    OBVIOUS
  <2> QED
    BY <1>6, <1>7, <1>8, <2>2, <2>3, Zenon
<1>10. StatusLine \in Seq(STRING) /\ Len(StatusLine) = 3
  <2>1. 3 \in 0..Len(t) /\ 0 \in 0..3
    BY <1>0, <1>5
  <2>2. SubSeq(t, 0 + 1, 3) \in Seq(STRING) /\ Len(SubSeq(t, 0 + 1, 3)) = 3 - 0
    BY <2>1, PartIs
  <2>3. 0 + 1 = 1 /\ 3 - 0 = 3
    OBVIOUS
  <2> QED
    BY <1>9, <2>2, <2>3, Zenon
<1>11. SubSeq(StatusLine, 1, 3) = StatusLine
  BY <1>10, SubSeqFull
<1>12. IsPrefix(StatusLine, t)
  BY <1>0, <1>5, <1>9, <1>10, <1>11 DEF IsPrefix
<1> QED
  BY <1>4, <1>5, <1>12 DEF u, e

LEMMA FirstlineGot ==
    ASSUME Buffers, NEW f \in 0..pos, recv = SubSeq(resp.bytes, f + 1, pos), At(f),
           ReadFirstline
    PROVE  Got'
<1> DEFINE t == resp.bytes
           buf == recv \o Piece
           end == LineEnd(buf)
<1>0. /\ state = "READING_FIRSTLINE" /\ f = 0 /\ decoded = <<>> /\ content_length = 0
      /\ UNCHANGED <<resp, decoded, content_length>>
  BY DEF ReadFirstline, Runs, At, Early, Unsent, unread
<1>1. t \in Seq(STRING) /\ Len(t) \in Nat /\ arrived \in 0..Len(t) /\ pos \in 0..arrived
  BY RespOK DEF Buffers
<1>2. ASSUME state' = state, 0 \in 0..pos', recv' = SubSeq(t, 0 + 1, pos')
      PROVE  Got'
  BY <1>0, <1>2 DEF Got, At, Early, Body, Unsent
<1>3. CASE UNCHANGED <<state, recv, pos>>
  BY <1>0, <1>2, <1>3
<1>4. CASE state' = "ERROR"
  BY <1>4 DEF Got, Early, Body, Unsent
<1>5. CASE pos' = pos + Len(Piece) /\ state' # "ERROR" /\ Readable
             /\ ReadFirstline /\ ~UNCHANGED <<state, recv, pos>>
  <2>1. /\ pos' \in 0..Len(t) /\ 0 \in 0..pos'
        /\ buf = SubSeq(t, 0 + 1, pos')
    <3>1. pos + Len(Piece) \in pos..arrived
      BY PieceIs
    <3>2. buf = SubSeq(t, f + 1, pos + Len(Piece))
      BY Joined
    <3> QED
      BY <1>0, <1>1, <1>5, <3>1, <3>2
  <2>2. \/ end < 0 /\ recv' = buf /\ state' = state
        \/ /\ ~(end < 0) /\ SubSeq(buf, 1, end) = <<"status">>
           /\ recv' = From(buf, end + 2) /\ state' = "READING_HEADERS"
    BY <1>0, <1>5 DEF ReadFirstline, WouldBlock, Readable
  <2>3. CASE end < 0 /\ recv' = buf /\ state' = state
    BY <1>2, <2>1, <2>3
  <2>4. CASE /\ ~(end < 0) /\ SubSeq(buf, 1, end) = <<"status">>
             /\ recv' = From(buf, end + 2) /\ state' = "READING_HEADERS"
    <3>1. buf = SubSeq(t, 1, pos')
      <4>1. 0 + 1 = 1
        OBVIOUS
      <4> QED
        BY <2>1, <4>1, Zenon
    <3>2. end # -1
      <4> HIDE DEF end
      <4> QED
        BY <2>4
    <3>3. end = 1 /\ 3 <= pos' /\ IsPrefix(StatusLine, t)
      <4> HIDE DEF t, buf
      <4> QED
        BY <1>1, <2>1, <2>4, <3>1, <3>2, StatusFound
    <3>4. 3 \in 0..pos' /\ pos' \in 0..Len(t) /\ 3 \in 0..(pos' - 0)
      <4> HIDE DEF t, buf, end
      <4>1. ASSUME NEW len \in Nat, NEW g \in 0..len, 3 <= g
            PROVE  3 \in 0..g /\ 3 \in 0..(g - 0)
        BY <4>1
      <4> QED
        BY <1>1, <2>1, <3>3, <4>1, Zenon
    <3>5. From(SubSeq(t, 0 + 1, pos'), 3) = SubSeq(t, 0 + 3 + 1, pos')
      <4> HIDE DEF t
      <4> QED
        BY <1>1, <2>1, <3>4, PartFrom
    <3>6. recv' = SubSeq(t, 3 + 1, pos')
      <4> HIDE DEF t, buf, end
      <4> QED
        BY <2>1, <2>4, <3>3, <3>5
    <3> QED
      BY <1>0, <2>4, <3>3, <3>4, <3>6 DEF Got, At, Early, Body, Unsent
  <2> QED
    BY <2>2, <2>3, <2>4
<1> QED
  BY <1>3, <1>4, <1>5 DEF ReadFirstline

(* The head, found in the buffer, is the head of the response.             *)
LEMMA HeadFound ==
    ASSUME Buffers, 3 \in 0..pos, recv = SubSeq(resp.bytes, 3 + 1, pos),
           IsPrefix(StatusLine, resp.bytes), HeadersEnd(recv) # -1
    PROVE  /\ HasHead(resp)
           /\ SubSeq(recv, 1, HeadersEnd(recv)) = Header(resp)
           /\ BodyAt(resp) \in 0..pos
           /\ From(recv, HeadersEnd(recv) + 4) = SubSeq(resp.bytes, BodyAt(resp) + 1, pos)
<1> DEFINE t == resp.bytes
           e == HeadersEnd(recv)
<1>1. t \in Seq(STRING) /\ Len(t) \in Nat /\ pos \in 0..Len(t)
  BY RespOK
<1>2. e = HeadEnd(resp) /\ e \in 0..(pos - 3 - 4)
  <2>1. e = HeadersEnd(From(t, 3)) /\ e \in 0..(pos - 3 - 4)
    <3> HIDE DEF t
    <3> QED
      BY <1>1, EndsInPart DEF t
  <2> QED
    BY <2>1 DEF HeadEnd
<1>3. HasHead(resp) /\ BodyAt(resp) = 3 + e + 4
  <2> HIDE DEF e
  <2>1. HeadEnd(resp) >= 0
    BY <1>2
  <2> QED
    BY <1>2, <2>1 DEF HasHead, BodyAt
<1> HIDE DEF t, e
<1>4. /\ e \in 0..(pos - 3) /\ e + 4 \in 0..(pos - 3) /\ 3 + e + 4 \in 0..pos
      /\ 3 \in 0..Len(t) /\ e \in 0..(Len(t) - 3) /\ Len(t) \in 0..Len(t)
      /\ 3 + (e + 4) = 3 + e + 4
  BY <1>1, <1>2
<1>5. SubSeq(recv, 1, e) = SubSeq(t, 3 + 1, 3 + e)
  BY <1>1, <1>4, PartUpto DEF t
<1>6. Header(resp) = SubSeq(t, 3 + 1, 3 + e)
  <2>1. From(t, 3) = SubSeq(t, 3 + 1, Len(t))
    BY <1>1, <1>4, FromIsPart
  <2>2. SubSeq(SubSeq(t, 3 + 1, Len(t)), 1, e) = SubSeq(t, 3 + 1, 3 + e)
    BY <1>1, <1>4, PartUpto
  <2>3. Header(resp) = SubSeq(From(t, 3), 1, e)
    BY <1>2 DEF Header, Upto, t
  <2> QED
    BY <2>1, <2>2, <2>3
<1>7. From(recv, e + 4) = SubSeq(t, 3 + (e + 4) + 1, pos)
  BY <1>1, <1>4, PartFrom DEF t
<1> QED
  BY <1>3, <1>4, <1>5, <1>6, <1>7 DEF e, t

LEMMA PrefixIs ==
    ASSUME NEW s \in Seq(STRING), NEW t \in Seq(STRING)
    PROVE  IsPrefix(s, t) <=> Len(s) <= Len(t) /\ \A i \in 1..Len(s) : s[i] = t[i]
<1> DEFINE n == Len(s)
           u == SubSeq(t, 1, n)
<1>1. n \in Nat /\ Len(t) \in Nat /\ SubSeq(s, 1, n) = s
  BY SubSeqFull
<1>2. IsPrefix(s, t) <=> n <= Len(t) /\ s = u
  BY <1>1 DEF IsPrefix
<1>3. ASSUME n <= Len(t)
      PROVE  s = u <=> \A i \in 1..n : s[i] = t[i]
  <2>1. n \in 0..Len(t) /\ 0 \in 0..n /\ n - 0 = n
    BY <1>1, <1>3
  <2>2. u \in Seq(STRING) /\ Len(u) = n /\ \A i \in 1..n : u[i] = t[i]
    BY <1>1, <2>1
  <2> HIDE DEF u
  <2>3. s = u <=> \A i \in 1..n : s[i] = u[i]
    BY <1>1, <2>2, SeqEqual
  <2> QED
    BY <2>2, <2>3
<1> QED
  BY <1>2, <1>3

(* A text begins with its front part, and of two front parts the longer    *)
(* one begins with the shorter.                                            *)
LEMMA FrontParts ==
    ASSUME NEW b \in Seq(STRING), NEW c \in Seq(STRING)
    PROVE  /\ IsPrefix(b, b \o c)
           /\ \A u \in Seq(STRING) : IsPrefix(u, b \o c) /\ Len(b) <= Len(u) => IsPrefix(b, u)
<1> DEFINE t == b \o c
<1>1. /\ t \in Seq(STRING) /\ Len(b) \in Nat /\ Len(b) <= Len(t)
      /\ \A i \in 1..Len(b) : t[i] = b[i]
  BY ConcatProperties
<1> HIDE DEF t
<1>2. IsPrefix(b, t)
  BY <1>1, PrefixIs
<1>3. ASSUME NEW u \in Seq(STRING), IsPrefix(u, t), Len(b) <= Len(u)
      PROVE  IsPrefix(b, u)
  <2>1. Len(u) \in Nat /\ \A i \in 1..Len(u) : u[i] = t[i]
    BY <1>1, <1>3, PrefixIs
  <2>2. \A i \in 1..Len(b) : b[i] = u[i]
    BY <1>1, <1>3, <2>1
  <2> QED
    BY <1>3, <2>2, PrefixIs
<1> QED
  BY <1>2, <1>3 DEF t

(* What is as long as the head says holds the whole body.                  *)
LEMMA LengthRight ==
    ASSUME Buffers, HasHead(resp), ~IsChunked(Header(resp)),
           NEW g \in 0..Len(resp.bytes), BodyAt(resp) \in 0..g,
           LengthOf(Header(resp)) <= Len(SubSeq(resp.bytes, BodyAt(resp) + 1, g))
    PROVE  Right(SubSeq(resp.bytes, BodyAt(resp) + 1, g))
<1> DEFINE t == resp.bytes
           a == BodyAt(resp)
           u == SubSeq(t, a + 1, g)
<1>1. /\ t \in Seq(STRING) /\ Len(t) \in Nat
      /\ From(t, a) = resp.body \o resp.after
      /\ resp.body \in Seq(STRING) /\ resp.after \in Seq(STRING)
      /\ resp.valid => LengthOf(Header(resp)) = Len(resp.body)
  BY RespOK
<1>2. g \in 0..Len(t) /\ a \in 0..g /\ a \in 0..Len(t) /\ g \in Nat /\ a \in Nat
  <2> HIDE DEF a
  <2> QED
    BY <1>1 DEF a
<1>3. LengthOf(Header(resp)) <= Len(u)
  OBVIOUS
<1>4. IsPrefix(u, From(t, a))
  <2> HIDE DEF a, t
  <2> QED
    BY <1>1, <1>2, PartIsPrefix
<1>5. u \in Seq(STRING)
  <2> HIDE DEF a, t
  <2> QED
    BY <1>1, <1>2, PartIs
<1> HIDE DEF t, a, u
<1>6. ASSUME resp.valid PROVE IsPrefix(resp.body, u)
  BY <1>1, <1>3, <1>4, <1>5, <1>6, FrontParts
<1>7. Right(u)
  BY <1>1, <1>4, <1>6 DEF Right, Framed
<1> QED
  BY <1>7 DEF t, a, u

LEMMA HeadersGot ==
    ASSUME Buffers, NEW f \in 0..pos, recv = SubSeq(resp.bytes, f + 1, pos), At(f),
           ReadHeaders
    PROVE  Got'
<1> DEFINE t    == resp.bytes
           end  == HeadersEnd(recv)
           head == SubSeq(recv, 1, end)
           rest == From(recv, end + 4)
<1>0. /\ state = "READING_HEADERS" /\ f = 3 /\ IsPrefix(StatusLine, t)
      /\ decoded = <<>> /\ content_length = 0
      /\ UNCHANGED <<resp, decoded>>
  BY DEF ReadHeaders, Runs, At, Early, Unsent
<1>1. recv \in Seq(STRING) /\ (end = -1 \/ end \in 0..Len(recv))
  <2>1. recv \in Seq(STRING) /\ Len(recv) \in Nat
    BY DEF Buffers
  <2>2. end = -1 \/ end \in 0..(Len(recv) - 4)
    BY <2>1, EndsType
  <2> HIDE DEF end
  <2> QED
    BY <2>1, <2>2
<1>2. \/ end < 0 /\ Fill(recv) /\ UNCHANGED content_length
      \/ state' = "ERROR"
      \/ /\ ~(end < 0)
         /\ recv' = rest
         /\ state' = IF IsChunked(head) THEN "DECIPHER_CHONKINESS"
                     ELSE IF LengthOf(head) > Len(rest) THEN "READING_BODY"
                     ELSE "RETURNING"
         /\ content_length' = IF IsChunked(head) \/ LengthOf(head) = 0
                              THEN content_length ELSE LengthOf(head)
         /\ UNCHANGED pos
  BY DEF ReadHeaders
<1>3. CASE state' = "ERROR"
  BY <1>3 DEF Got, Early, Body, Unsent
<1>4. CASE Fill(recv) /\ UNCHANGED content_length /\ state' # "ERROR"
  <2>1. state' = state /\ f \in 0..pos' /\ recv' = SubSeq(t, f + 1, pos')
    BY <1>4, FillKeeps
  <2> QED
    BY <1>0, <1>4, <2>1 DEF Got, At, Early, Body, Unsent
<1>5. CASE /\ ~(end < 0)
           /\ recv' = rest
           /\ state' = IF IsChunked(head) THEN "DECIPHER_CHONKINESS"
                       ELSE IF LengthOf(head) > Len(rest) THEN "READING_BODY"
                       ELSE "RETURNING"
           /\ content_length' = IF IsChunked(head) \/ LengthOf(head) = 0
                                THEN content_length ELSE LengthOf(head)
           /\ UNCHANGED pos
  <2>1. end # -1
    <3> HIDE DEF end
    <3> QED
      BY <1>5
  <2>2. PICK a \in 0..pos : /\ HasHead(resp) /\ head = Header(resp) /\ a = BodyAt(resp)
                           /\ rest = SubSeq(t, a + 1, pos)
    BY <1>0, <2>1, HeadFound
  <2>3. pos \in 0..Len(t) /\ Len(rest) \in Nat /\ LengthOf(head) \in Nat
    <3>1. end \in 0..Len(recv) /\ end + 4 \in Nat
      <4> HIDE DEF end
      <4> QED
        BY <1>1, <2>1
    <3> HIDE DEF end
    <3>2. rest \in Seq(STRING)
      BY <1>1, <3>1, FromType
    <3>3. head \in Seq(STRING)
      BY <1>1, <3>1
    <3>4. LengthOf(head) \in Nat
      <4> HIDE DEF head
      <4> QED
        BY <3>3, LengthOfType
    <3>5. Len(rest) \in Nat
      <4> HIDE DEF rest
      <4> QED
        BY <3>2
    <3> QED
      BY <3>4, <3>5, RespOK
  <2> HIDE DEF head, rest, end
  <2>4. CASE IsChunked(head)
    <3>1. state' = "DECIPHER_CHONKINESS"
      BY <1>5, <2>4
    <3>2. /\ a \in DOMAIN resp.left /\ resp.left[a] \in Seq(STRING)
          /\ resp.body = resp.left[a]
      BY <2>2, <2>4, RespOK DEF ChunksOK
    <3>3. resp.body = decoded \o resp.left[a]
      BY <1>0, <3>2, ConcatEmptySeq
    <3>4. ChunkLine(a)'
      BY <1>0, <3>2, <3>3 DEF ChunkLine
    <3>5. At(a)'
      BY <1>0, <2>2, <2>4, <3>1, <3>4 DEF At, Early, Unsent, Body
    <3>6. a \in 0..pos' /\ recv' = SubSeq(resp'.bytes, a + 1, pos')
      BY <1>0, <1>5, <2>2
    <3>7. state' \notin {"RETURNING"}
      BY <3>1
    <3> QED
      BY <3>5, <3>6, <3>7 DEF Got
  <2>5. CASE ~IsChunked(head) /\ LengthOf(head) > Len(rest)
    <3>1. state' = "READING_BODY"
      BY <1>5, <2>5
    <3>2. content_length' = LengthOf(head)
      BY <1>5, <2>3, <2>5
    <3>3. At(a)'
      BY <1>0, <2>2, <2>5, <3>1, <3>2 DEF At, Early, Unsent, Body
    <3>4. a \in 0..pos' /\ recv' = SubSeq(resp'.bytes, a + 1, pos')
      BY <1>0, <1>5, <2>2
    <3> QED
      BY <3>1, <3>3, <3>4 DEF Got
  <2>6. CASE ~IsChunked(head) /\ ~(LengthOf(head) > Len(rest))
    <3>1. state' = "RETURNING"
      BY <1>5, <2>6
    <3>2. Right(rest)
      <4>1. LengthOf(Header(resp)) <= Len(SubSeq(t, a + 1, pos))
        BY <2>2, <2>3, <2>6
      <4>2. Right(SubSeq(t, a + 1, pos))
        BY <2>2, <2>3, <2>6, <4>1, LengthRight
      <4> QED
        BY <2>2, <4>2
    <3> QED
      BY <1>0, <1>5, <3>1, <3>2 DEF Got, Right, Early, Unsent, Body
  <2> QED
    BY <2>4, <2>5, <2>6
<1> QED
  BY <1>2, <1>3, <1>4, <1>5

LEMMA ReadBodyGot ==
    ASSUME Buffers, NEW f \in 0..pos, recv = SubSeq(resp.bytes, f + 1, pos), At(f),
           ReadBody
    PROVE  Got'
<1> DEFINE t == resp.bytes
           g == pos + Len(Piece)
<1>0. /\ state = "READING_BODY" /\ f = BodyAt(resp) /\ decoded = <<>>
      /\ HasHead(resp) /\ ~IsChunked(Header(resp))
      /\ content_length = LengthOf(Header(resp)) /\ content_length \in Nat
      /\ UNCHANGED <<resp, decoded, content_length>>
  BY DEF ReadBody, Runs, At, Early, Unsent, Body, Buffers
<1>1. CASE state' = "ERROR"
  BY <1>1 DEF Got, Early, Body, Unsent
<1>2. ASSUME state' = state, f \in 0..pos', recv' = SubSeq(t, f + 1, pos')
      PROVE  Got'
  BY <1>0, <1>2 DEF Got, At, Early, Body, Unsent
<1>3. CASE UNCHANGED <<state, recv, pos>>
  BY <1>2, <1>3
<1>4. CASE recv' = recv \o Piece /\ pos' = g
  <2>1. f \in 0..g /\ recv' = SubSeq(t, f + 1, g)
    BY <1>4, Joined
  <2>2. CASE state' = state
    BY <1>2, <1>4, <2>1, <2>2
  <2>3. CASE BodyComplete(recv') /\ state' = "RETURNING"
    <3>1. g \in 0..Len(t)
      <4>1. g \in pos..arrived
        BY PieceIs
      <4> HIDE DEF g
      <4> QED
        BY <4>1, RespOK DEF Buffers
    <3>2. LengthOf(Header(resp)) <= Len(SubSeq(t, f + 1, g))
      <4>1. Len(SubSeq(t, f + 1, g)) >= content_length
        BY <2>1, <2>3 DEF BodyComplete
      <4>2. Len(SubSeq(t, f + 1, g)) \in Nat
        <5> HIDE DEF g
        <5> QED
          BY <2>1, <3>1, RespOK, PartIs
      <4> QED
        BY <1>0, <4>1, <4>2
    <3>3. Right(SubSeq(t, f + 1, g))
      <4> HIDE DEF g
      <4> QED
        BY <1>0, <2>1, <3>1, <3>2, LengthRight
    <3> QED
      BY <1>0, <2>1, <2>3, <3>3 DEF Got, Right, Early, Unsent, Body
  <2>4. state' = state \/ (BodyComplete(recv') /\ state' = "RETURNING") \/ state' = "ERROR"
    BY DEF ReadBody
  <2> QED
    BY <1>1, <2>2, <2>3, <2>4
<1> QED
  BY <1>1, <1>3, <1>4 DEF ReadBody

(* The data of a chunk goes to decoded_body, at once or with the next      *)
(* pieces; what follows is CRLF, and the next line of a chunk size.        *)
LEMMA ChunkedGot ==
    ASSUME Buffers, NEW f \in 0..pos, recv = SubSeq(resp.bytes, f + 1, pos), At(f),
           ReadBodyChunked
    PROVE  Got'
<1> DEFINE t    == resp.bytes
           n    == chunk_remaining
           rest == From(recv, n)
<1>0. /\ state = "READING_BODY_CHUNKED" /\ InChunk(f)
      /\ HasHead(resp) /\ IsChunked(Header(resp))
      /\ n \in Int /\ decoded \in Seq(STRING)
      /\ UNCHANGED resp
  BY HttpAssumption DEF ReadBodyChunked, Runs, At, Body, Buffers, unread
<1>1. t \in Seq(STRING) /\ Len(t) \in Nat /\ pos \in 0..Len(t) /\ Len(recv) = pos - f
  <2>1. t \in Seq(STRING) /\ Len(t) \in Nat /\ pos \in 0..Len(t)
    BY RespOK
  <2> HIDE DEF t
  <2> QED
    BY <2>1, PartIs DEF t
<1>2. \/ state' = "ERROR"
      \/ Fill(recv) /\ UNCHANGED <<decoded, chunk_remaining>>
      \/ /\ ~(n < 0) /\ ~(Len(recv) < n)
         /\ decoded' = decoded \o SubSeq(recv, 1, n)
         /\ chunk_remaining' = 0
         /\ \/ Fill(rest)
            \/ /\ IsPrefix(CRLF, rest) /\ recv' = From(rest, 2)
               /\ state' = "DECIPHER_CHONKINESS"
               /\ UNCHANGED pos
  BY DEF ReadBodyChunked, AfterCopy
<1>3. CASE state' = "ERROR"
  BY <1>3 DEF Got, Early, Body, Unsent
<1>4. CASE Fill(recv) /\ UNCHANGED <<decoded, chunk_remaining>> /\ state' # "ERROR"
  <2>1. state' = state /\ f \in 0..pos' /\ recv' = SubSeq(t, f + 1, pos')
    BY <1>4, FillKeeps
  <2>2. InChunk(f)'
    BY <1>0, <1>4 DEF InChunk
  <2>3. At(f)'
    BY <1>0, <2>1, <2>2 DEF At, Early, Body, Unsent
  <2> QED
    BY <1>0, <2>1, <2>3 DEF Got
<1>5. CASE /\ ~(n < 0) /\ ~(Len(recv) < n) /\ state' # "ERROR"
           /\ decoded' = decoded \o SubSeq(recv, 1, n)
           /\ chunk_remaining' = 0
           /\ \/ Fill(rest)
              \/ /\ IsPrefix(CRLF, rest) /\ recv' = From(rest, 2)
                 /\ state' = "DECIPHER_CHONKINESS"
                 /\ UNCHANGED pos
  <2>1. PICK q \in 0..pos : q = f + n
    <3> HIDE DEF t, n
    <3> QED
      BY <1>0, <1>1, <1>5
  <2>2. n \in 0..(pos - f) /\ q \in Nat /\ q \in 0..Len(t)
    <3> HIDE DEF t, n
    <3> QED
      BY <1>0, <1>1, <1>5, <2>1
  <2>3. rest = SubSeq(t, q + 1, pos) /\ SubSeq(recv, 1, n) = SubSeq(t, f + 1, q)
    <3> HIDE DEF t, n
    <3>1. From(SubSeq(t, f + 1, pos), n) = SubSeq(t, f + n + 1, pos)
      BY <1>1, <2>2, PartFrom
    <3>2. SubSeq(SubSeq(t, f + 1, pos), 1, n) = SubSeq(t, f + 1, f + n)
      BY <1>1, <2>2, PartUpto
    <3> QED
      BY <2>1, <3>1, <3>2 DEF t
  <2>4. decoded' = decoded \o SubSeq(t, f + 1, q) /\ decoded' \in Seq(STRING)
    <3>1. SubSeq(t, f + 1, q) \in Seq(STRING)
      <4>1. f \in 0..q
        <5> HIDE DEF n
        <5> QED
          BY <1>0, <1>5, <2>1
      <4> HIDE DEF t
      <4> QED
        BY <1>1, <2>2, <4>1, PartIs
    <3>2. decoded \o SubSeq(t, f + 1, q) \in Seq(STRING)
      BY <1>0, <3>1, ConcatProperties
    <3> QED
      BY <1>5, <2>3, <3>2
  <2>5. Closed(resp, q) => /\ q + 2 \in DOMAIN resp.left
                           /\ resp.body = decoded' \o resp.left[q + 2]
    BY <1>0, <2>1, <2>4 DEF InChunk
  <2> HIDE DEF rest, n
  <2>6. CASE Fill(rest)
    <3>1. state' = state /\ q \in 0..pos' /\ recv' = SubSeq(t, q + 1, pos')
      BY <1>5, <2>3, <2>6, FillKeeps
    <3>2. decoded' \o SubSeq(t, q + 1, q) = decoded'
      <4>1. SubSeq(t, q + 1, q) = <<>>
        BY <1>1, <2>2
      <4> QED
        BY <2>4, <4>1, ConcatEmptySeq
    <3>3. InChunk(q)'
      <4>1. q + 0 = q
        BY <2>2
      <4> QED
        BY <1>0, <1>5, <2>5, <3>2, <4>1 DEF InChunk, Closed
    <3>4. At(q)'
      BY <1>0, <3>1, <3>3 DEF At, Early, Body, Unsent
    <3> QED
      BY <1>0, <3>1, <3>4 DEF Got
  <2>7. CASE /\ IsPrefix(CRLF, rest) /\ recv' = From(rest, 2)
             /\ state' = "DECIPHER_CHONKINESS"
             /\ UNCHANGED pos
    <3>1. q + 2 <= pos /\ SubSeq(t, q + 1, q + 2) = CRLF
      <4> HIDE DEF t
      <4> QED
        BY <1>1, <2>3, <2>7, CRLFInPart
    <3>2. Closed(resp, q) /\ q + 2 \in 0..pos /\ 2 \in 0..(pos - q)
      BY <1>1, <2>2, <3>1 DEF Closed
    <3>3. recv' = SubSeq(t, (q + 2) + 1, pos)
      <4> HIDE DEF t
      <4>1. From(SubSeq(t, q + 1, pos), 2) = SubSeq(t, q + 2 + 1, pos)
        BY <1>1, <3>2, PartFrom
      <4> QED
        BY <2>3, <2>7, <4>1
    <3>4. ChunkLine(q + 2)'
      BY <1>0, <2>5, <3>2 DEF ChunkLine
    <3>5. At(q + 2)'
      BY <1>0, <2>7, <3>4 DEF At, Early, Body, Unsent
    <3> QED
      BY <1>0, <2>7, <3>2, <3>3, <3>5 DEF Got
  <2> QED
    BY <1>5, <2>6, <2>7
<1> QED
  BY <1>2, <1>3, <1>4, <1>5

(* The line of a chunk size, found in the buffer, is the line in the text. *)
LEMMA LineFound ==
    ASSUME Buffers, NEW f \in 0..pos, recv = SubSeq(resp.bytes, f + 1, pos),
           LineEnd(recv) # -1
    PROVE  /\ LineEnd(recv) \in 0..(pos - f - 2)
           /\ Size(resp, f) = ChunkSize(SubSeq(recv, 1, LineEnd(recv)))
           /\ Data(resp, f) \in 0..pos
           /\ From(recv, LineEnd(recv) + 2) = SubSeq(resp.bytes, Data(resp, f) + 1, pos)
<1> DEFINE t == resp.bytes
           e == LineEnd(recv)
<1>1. t \in Seq(STRING) /\ Len(t) \in Nat /\ pos \in 0..Len(t)
  BY RespOK
<1>2. e = SizeLine(resp, f) /\ e \in 0..(pos - f - 2)
  <2>1. e = LineEnd(From(t, f)) /\ e \in 0..(pos - f - 2)
    <3> HIDE DEF t
    <3> QED
      BY <1>1, EndsInPart DEF t
  <2> QED
    BY <2>1 DEF SizeLine
<1>3. Size(resp, f) = ChunkSize(SubSeq(From(t, f), 1, e)) /\ Data(resp, f) = f + e + 2
  <2> HIDE DEF e
  <2>1. ~(SizeLine(resp, f) < 0)
    BY <1>2
  <2> QED
    BY <1>2, <2>1 DEF Size, Data, Upto
<1> HIDE DEF t, e
<1>4. /\ e \in 0..(pos - f) /\ e + 2 \in 0..(pos - f) /\ f + e + 2 \in 0..pos
      /\ f \in 0..Len(t) /\ e \in 0..(Len(t) - f) /\ Len(t) \in 0..Len(t)
      /\ f + (e + 2) = f + e + 2
  BY <1>1, <1>2
<1>5. SubSeq(recv, 1, e) = SubSeq(t, f + 1, f + e)
  BY <1>1, <1>4, PartUpto DEF t
<1>6. SubSeq(From(t, f), 1, e) = SubSeq(t, f + 1, f + e)
  <2>1. From(t, f) = SubSeq(t, f + 1, Len(t))
    BY <1>1, <1>4, FromIsPart
  <2>2. SubSeq(SubSeq(t, f + 1, Len(t)), 1, e) = SubSeq(t, f + 1, f + e)
    BY <1>1, <1>4, PartUpto
  <2> QED
    BY <2>1, <2>2
<1>7. From(recv, e + 2) = SubSeq(t, f + (e + 2) + 1, pos)
  BY <1>1, <1>4, PartFrom DEF t
<1> QED
  BY <1>2, <1>3, <1>4, <1>5, <1>6, <1>7 DEF e, t

(* What does not begin with a digit is not taken for a chunk.              *)
LEMMA NoChunk ==
    ASSUME Buffers, NEW f \in 0..pos, recv = SubSeq(resp.bytes, f + 1, pos),
           LineEnd(recv) # -1,
           f < Len(resp.bytes) => resp.bytes[f + 1] \notin DOMAIN Digits
    PROVE  ChunkSize(SubSeq(recv, 1, LineEnd(recv))) = -1
<1> DEFINE t == resp.bytes
           e == LineEnd(recv)
           line == SubSeq(recv, 1, e)
<1>1. t \in Seq(STRING) /\ Len(t) \in Nat /\ pos \in 0..Len(t)
  BY RespOK
<1>2. e \in 0..(pos - f - 2)
  BY LineFound
<1>3. f < Len(t) => t[f + 1] \notin DOMAIN Digits
  OBVIOUS
<1> HIDE DEF t, e
<1>4. e \in 0..(pos - f) /\ f + e \in 0..Len(t) /\ f \in 0..(f + e) /\ (f + e) - f = e
  BY <1>1, <1>2
<1>5. line = SubSeq(t, f + 1, f + e)
  BY <1>1, <1>4, PartUpto DEF t
<1>6. /\ line \in Seq(STRING) /\ Len(line) = e
      /\ \A i \in 1..e : line[i] = t[f + i]
  <2> DEFINE g == f + e
  <2>1. g \in 0..Len(t) /\ f \in 0..g /\ g - f = e /\ line = SubSeq(t, f + 1, g)
    BY <1>4, <1>5
  <2> HIDE DEF g, line
  <2> QED
    BY <1>1, <2>1, PartIs
<1>7. Len(line) = 0 \/ line[1] \notin DOMAIN Digits
  <2> HIDE DEF line
  <2>1. CASE e = 0
    BY <1>6, <2>1
  <2>2. CASE e # 0
    <3>1. 1 \in 1..e /\ f < Len(t)
      BY <1>1, <1>2, <2>2
    <3> QED
      BY <1>3, <1>6, <3>1
  <2> QED
    BY <2>1, <2>2
<1> HIDE DEF line
<1>8. ChunkSize(line) = -1
  BY <1>6, <1>7, NoDigitNoSize
<1> QED
  BY <1>8 DEF line, e

(* The end of the chunks, found in the buffer, is the end of the response. *)
Ends(p, d, n) ==
    /\ resp.left[p] = <<>>
    /\ n \in 0..(pos - d)
    /\ resp.after = From(resp.bytes, d + n)

LEMMA EndFound ==
    ASSUME Buffers, ChunksOK(resp), NEW p \in DOMAIN resp.left, Size(resp, p) = 0,
           NEW d \in 0..pos, d = Data(resp, p)
    PROVE  LET rest == SubSeq(resp.bytes, d + 1, pos)
               stop == HeadersEnd(rest)
           IN  /\ d = resp.last
               /\ IsPrefix(CRLF, rest) => Ends(p, d, 2)
               /\ ~IsPrefix(CRLF, rest) /\ stop # -1 => Ends(p, d, stop + 4)
<1> DEFINE t    == resp.bytes
           rest == SubSeq(t, d + 1, pos)
           stop == HeadersEnd(rest)
           tail == From(t, d)
<1>1. t \in Seq(STRING) /\ Len(t) \in Nat /\ pos \in 0..Len(t) /\ d \in 0..Len(t)
  <2>1. t \in Seq(STRING) /\ Len(t) \in Nat /\ pos \in 0..Len(t)
    BY RespOK
  <2> HIDE DEF t
  <2> QED
    BY <2>1
<1>2. LastLine(resp, p) /\ d = resp.last /\ Tail0(resp) = tail
  <2>1. DataChunk(resp, p) \/ LastChunk(resp, p) \/ BrokenChunk(resp, p)
    BY DEF ChunksOK
  <2>2. LastLine(resp, p)
    BY <2>1 DEF DataChunk, LastChunk, BrokenChunk
  <2> QED
    BY <2>2 DEF LastLine, Tail0
<1>3. \/ /\ resp.left[p] = <<>>
         /\ \/ IsPrefix(CRLF, tail) /\ resp.after = From(tail, 2)
            \/ /\ ~IsPrefix(CRLF, tail) /\ HeadersEnd(tail) >= 0
               /\ resp.after = From(tail, HeadersEnd(tail) + 4)
      \/ ~IsPrefix(CRLF, tail) /\ ~(HeadersEnd(tail) >= 0)
  <2>1. LastChunk(resp, p) \/ BrokenChunk(resp, p)
    BY DEF ChunksOK, DataChunk
  <2>2. CASE LastChunk(resp, p)
    BY <1>2, <2>2 DEF LastChunk, Trailers
  <2>3. CASE BrokenChunk(resp, p)
    BY <1>2, <2>3 DEF BrokenChunk, Trailers
  <2> QED
    BY <2>1, <2>2, <2>3
<1>4. tail \in Seq(STRING) /\ tail = SubSeq(t, d + 1, Len(t)) /\ Len(tail) = Len(t) - d
  <2> HIDE DEF t
  <2> QED
    BY <1>1, FromIsPart
<1>5. IsPrefix(CRLF, rest) <=> d + 2 <= pos /\ SubSeq(t, d + 1, d + 2) = CRLF
  <2> HIDE DEF t
  <2> QED
    BY <1>1, CRLFInPart
<1>6. IsPrefix(CRLF, tail) <=> d + 2 <= Len(t) /\ SubSeq(t, d + 1, d + 2) = CRLF
  <2> HIDE DEF t, tail
  <2>1. Len(t) \in 0..Len(t) /\ d \in 0..Len(t)
    BY <1>1
  <2> QED
    BY <1>1, <1>4, <2>1, CRLFInPart
<1>7. stop = -1 \/ (stop = HeadersEnd(tail) /\ stop \in 0..(pos - d - 4))
  <2> HIDE DEF t
  <2> QED
    BY <1>1, EndsInPart
<1> HIDE DEF t, rest, stop, tail
<1>8. ASSUME NEW n \in 0..(pos - d)
      PROVE  From(tail, n) = From(t, d + n)
  <2>1. /\ Len(t) \in 0..Len(t) /\ d \in 0..Len(t) /\ n \in 0..(Len(t) - d)
        /\ d + n \in 0..Len(t)
    BY <1>1
  <2>2. From(SubSeq(t, d + 1, Len(t)), n) = SubSeq(t, d + n + 1, Len(t))
    BY <1>1, <2>1, PartFrom
  <2>3. From(t, d + n) = SubSeq(t, d + n + 1, Len(t))
    BY <1>1, <2>1, FromIsPart
  <2> QED
    BY <1>4, <2>2, <2>3
<1>9. ASSUME IsPrefix(CRLF, rest)
      PROVE  Ends(p, d, 2)
  <2>1. 2 \in 0..(pos - d) /\ IsPrefix(CRLF, tail)
    BY <1>1, <1>5, <1>6, <1>9
  <2>2. resp.left[p] = <<>> /\ resp.after = From(tail, 2)
    BY <1>3, <2>1
  <2> QED
    BY <1>8, <2>1, <2>2 DEF Ends, t
<1>10. ASSUME ~IsPrefix(CRLF, rest), stop # -1
       PROVE  Ends(p, d, stop + 4)
  <2>1. stop = HeadersEnd(tail) /\ stop \in 0..(pos - d - 4) /\ stop + 4 \in 0..(pos - d)
    BY <1>1, <1>7, <1>10
  <2>2. ~IsPrefix(CRLF, tail)
    <3>1. d + 2 <= pos
      BY <1>1, <2>1
    <3> QED
      BY <1>5, <1>6, <1>10, <3>1, Zenon
  <2>3. HeadersEnd(tail) >= 0
    BY <2>1
  <2>4. resp.left[p] = <<>> /\ resp.after = From(tail, stop + 4)
    BY <1>3, <2>1, <2>2, <2>3
  <2> QED
    BY <1>8, <2>1, <2>4 DEF Ends, t
<1> QED
  BY <1>2, <1>9, <1>10 DEF rest, stop, t

(* The line of a chunk size: the data of the chunk is next; or the end of  *)
(* the body, all of which is decoded by then.                              *)
LEMMA DecipherGot ==
    ASSUME Buffers, Clear,
           NEW f \in 0..pos, recv = SubSeq(resp.bytes, f + 1, pos), At(f),
           DecipherChonkiness
    PROVE  Got'
<1> DEFINE t    == resp.bytes
           end  == LineEnd(recv)
           size == ChunkSize(SubSeq(recv, 1, end))
           rest == From(recv, end + 2)
           stop == HeadersEnd(rest)
<1>0. /\ state = "DECIPHER_CHONKINESS" /\ ChunkLine(f)
      /\ HasHead(resp) /\ IsChunked(Header(resp))
      /\ decoded \in Seq(STRING)
      /\ UNCHANGED <<resp, decoded>>
  BY DEF DecipherChonkiness, Runs, At, Body, Buffers, unread
<1>1. /\ t \in Seq(STRING) /\ Len(t) \in Nat /\ pos \in 0..Len(t)
      /\ resp.body \in Seq(STRING) /\ resp.after \in Seq(STRING) /\ ChunksOK(resp)
  BY <1>0, RespOK
<1>2. \/ state' = "ERROR"
      \/ Fill(recv) /\ UNCHANGED chunk_remaining
      \/ /\ ~(end < 0) /\ ~(size < 0)
         /\ \/ /\ size > 0
               /\ recv' = rest /\ chunk_remaining' = AsInt(size)
               /\ state' = "READING_BODY_CHUNKED"
               /\ UNCHANGED pos
            \/ /\ ~(size > 0)
               /\ IsPrefix(CRLF, rest)
               /\ recv' = From(rest, 2) /\ state' = "RETURNING"
            \/ /\ ~(size > 0)
               /\ ~IsPrefix(CRLF, rest) /\ stop >= 0
               /\ recv' = From(rest, stop + 4) /\ state' = "RETURNING"
            \/ /\ ~(size > 0)
               /\ Fill(rest)
  BY DEF DecipherChonkiness
<1>3. CASE state' = "ERROR"
  BY <1>3 DEF Got, Early, Body, Unsent
<1>4. ASSUME NEW d \in 0..pos', state' = state, recv' = SubSeq(t, d + 1, pos'), ChunkLine(d)
      PROVE  Got'
  <2>1. ChunkLine(d)'
    BY <1>0, <1>4 DEF ChunkLine
  <2>2. At(d)'
    BY <1>0, <1>4, <2>1 DEF At, Early, Body, Unsent
  <2> QED
    BY <1>0, <1>4, <2>2 DEF Got
<1>5. CASE Fill(recv) /\ state' # "ERROR"
  <2>1. state' = state /\ f \in 0..pos' /\ recv' = SubSeq(t, f + 1, pos')
    BY <1>5, FillKeeps
  <2> QED
    BY <1>0, <1>4, <2>1
<1>6. CASE ~(end < 0) /\ ~(size < 0) /\ state' # "ERROR"
  <2>1. end # -1 /\ size # -1
    <3> HIDE DEF end, size
    <3> QED
      BY <1>6
  <2>2. PICK d \in 0..pos : /\ d = Data(resp, f)
                           /\ Size(resp, f) = size
                           /\ rest = SubSeq(t, d + 1, pos)
    BY <2>1, LineFound
  <2>3. size \in Nat
    <3>1. end \in 0..(pos - f - 2) /\ recv \in Seq(STRING) /\ Len(recv) \in Nat
      BY <2>1, LineFound DEF Buffers
    <3>2. SubSeq(recv, 1, end) \in Seq(STRING)
      <4>1. Len(recv) = pos - f
        <5> HIDE DEF t
        <5> QED
          BY <1>1, PartIs DEF t
      <4> HIDE DEF end
      <4>2. end \in 0..Len(recv)
        BY <1>1, <3>1, <4>1
      <4> QED
        BY <3>1, <4>2
    <3> QED
      BY <2>1, <3>2, ChunkSizeType
  <2>4. f # resp.last
    <3>1. ASSUME f = resp.last
          PROVE  f < Len(resp.bytes) => resp.bytes[f + 1] \notin DOMAIN Digits
      BY <3>1 DEF Clear, Misleading
    <3>2. ASSUME f < Len(resp.bytes) => resp.bytes[f + 1] \notin DOMAIN Digits
          PROVE  size = -1
      BY <2>1, <3>2, NoChunk
    <3> QED
      BY <2>1, <3>1, <3>2, Zenon
  <2>5. /\ f \in DOMAIN resp.left /\ resp.left[f] \in Seq(STRING)
        /\ resp.body = decoded \o resp.left[f]
    BY <1>0, <1>1, <2>4 DEF ChunkLine, ChunksOK
  <2> HIDE DEF end, size, rest, stop
  <2>6. CASE /\ size > 0
             /\ recv' = rest /\ chunk_remaining' = AsInt(size)
             /\ state' = "READING_BODY_CHUNKED"
             /\ UNCHANGED pos
    <3> DEFINE q == d + size
    <3>0. AsInt(size) = size
      <4>1. ~(Size(resp, f) > MaxInt)
        BY <2>5 DEF Clear, Oversized
      <4>2. size <= MaxInt
        BY <2>2, <2>3, <4>1, HttpAssumption
      <4> QED
        BY <2>3, <4>2, AsIntIs
    <3>1. ASSUME Closed(resp, q)
          PROVE  /\ q + 2 \in DOMAIN resp.left
                 /\ resp.body = (decoded \o SubSeq(t, d + 1, q)) \o resp.left[q + 2]
      <4>1. DataEnd(resp, f) = q
        BY <2>2 DEF DataEnd
      <4>2. Size(resp, f) # 0 /\ ~(Size(resp, f) < 0)
        BY <2>2, <2>3, <2>6
      <4>3. DataChunk(resp, f)
        <5>1. DataChunk(resp, f) \/ LastChunk(resp, f) \/ BrokenChunk(resp, f)
          BY <1>1, <2>5 DEF ChunksOK
        <5> QED
          BY <3>1, <4>1, <4>2, <5>1 DEF LastChunk, BrokenChunk, LastLine
      <4>4. /\ q + 2 \in DOMAIN resp.left
            /\ resp.left[f] = SubSeq(t, d + 1, q) \o resp.left[q + 2]
        BY <2>2, <4>1, <4>3 DEF DataChunk
      <4>5. resp.left[q + 2] \in Seq(STRING)
        BY <1>1, <4>4 DEF ChunksOK
      <4>6. SubSeq(t, d + 1, q) \in Seq(STRING)
        <5>1. q + 2 <= Len(t)
          BY <3>1 DEF Closed
        <5> HIDE DEF t
        <5>2. q \in 0..Len(t) /\ d \in 0..q
          BY <1>1, <2>3, <5>1
        <5> HIDE DEF q
        <5> QED
          BY <1>1, <5>2, PartIs
      <4>7. decoded \o (SubSeq(t, d + 1, q) \o resp.left[q + 2])
              = (decoded \o SubSeq(t, d + 1, q)) \o resp.left[q + 2]
        <5> DEFINE b == SubSeq(t, d + 1, q)
                   c == resp.left[q + 2]
        <5>1. decoded \in Seq(STRING) /\ b \in Seq(STRING) /\ c \in Seq(STRING)
          BY <1>0, <4>5, <4>6
        <5> HIDE DEF b, c
        <5>2. decoded \o (b \o c) = (decoded \o b) \o c
          BY <5>1, Regrouped, Zenon
        <5> QED
          BY <5>2 DEF b, c
      <4> QED
        BY <2>5, <4>4, <4>7
    <3>2. InChunk(d)'
      <4>1. d + chunk_remaining' = q
        BY <2>6, <3>0
      <4> HIDE DEF q
      <4> QED
        BY <1>0, <3>1, <4>1 DEF InChunk, Closed
    <3>3. At(d)'
      BY <1>0, <2>6, <3>2 DEF At, Early, Body, Unsent
    <3> QED
      BY <1>0, <2>2, <2>6, <3>3 DEF Got
  <2>7. ASSUME ~(size > 0)
        PROVE  /\ d = resp.last
               /\ IsPrefix(CRLF, rest) => Ends(f, d, 2)
               /\ ~IsPrefix(CRLF, rest) /\ stop # -1 => Ends(f, d, stop + 4)
    <3>1. Size(resp, f) = 0
      BY <2>2, <2>3, <2>7
    <3> QED
      BY <1>1, <2>2, <2>5, <3>1, EndFound DEF stop
  <2>8. ASSUME NEW n \in 0..(pos - d), Ends(f, d, n),
               recv' = From(rest, n), state' = "RETURNING"
        PROVE  Got'
    <3>1. recv' = SubSeq(t, d + n + 1, pos) /\ d + n \in 0..pos
      <4> HIDE DEF t
      <4>1. d + n \in 0..pos
        BY <1>1
      <4>2. From(SubSeq(t, d + 1, pos), n) = SubSeq(t, d + n + 1, pos)
        BY <1>1, PartFrom
      <4> QED
        BY <2>2, <2>8, <4>1, <4>2
    <3>2. IsPrefix(recv', resp.after)
      <4> HIDE DEF t
      <4>1. IsPrefix(SubSeq(t, d + n + 1, pos), From(t, d + n))
        BY <1>1, <3>1, PartIsPrefix
      <4> QED
        BY <2>8, <3>1, <4>1 DEF Ends, t
    <3>3. resp.body = decoded
      BY <1>0, <2>5, <2>8, ConcatEmptySeq DEF Ends
    <3>4. CASE decoded # <<>>
      <4>1. IsPrefix(resp.body, resp.body)
        BY <1>1 DEF IsPrefix
      <4>2. IsPrefix(resp.body, resp.body \o resp.after)
        BY <1>1, FrontParts
      <4>3. Right(resp.body)'
        BY <1>0, <4>1, <4>2 DEF Right
      <4> QED
        BY <1>0, <2>8, <3>3, <3>4, <4>3 DEF Got, Early, Body, Unsent
    <3>5. CASE decoded = <<>>
      <4>1. IsPrefix(resp.body, recv')
        <5>1. recv' \in Seq(STRING)
          <6> HIDE DEF t
          <6> QED
            BY <1>1, <3>1, PartIs
        <5> QED
          BY <3>3, <3>5, <5>1 DEF IsPrefix
      <4>2. IsPrefix(recv', resp.body \o resp.after)
        <5>1. resp.body \o resp.after = resp.after
          BY <1>1, <3>3, <3>5, ConcatEmptySeq
        <5> QED
          BY <3>2, <5>1
      <4>3. ~Framed(resp)
        BY <3>3, <3>5 DEF Framed
      <4>4. Right(recv)'
        BY <1>0, <4>1, <4>2, <4>3 DEF Right
      <4> QED
        BY <1>0, <2>8, <3>5, <4>4 DEF Got, Early, Body, Unsent
    <3> QED
      BY <3>4, <3>5
  <2>9. CASE /\ ~(size > 0)
             /\ IsPrefix(CRLF, rest)
             /\ recv' = From(rest, 2) /\ state' = "RETURNING"
    BY <2>7, <2>8, <2>9 DEF Ends
  <2>10. CASE /\ ~(size > 0)
              /\ ~IsPrefix(CRLF, rest) /\ stop >= 0
              /\ recv' = From(rest, stop + 4) /\ state' = "RETURNING"
    <3>1. stop # -1
      BY <2>10
    <3> QED
      BY <2>7, <2>8, <2>10, <3>1 DEF Ends
  <2>11. CASE ~(size > 0) /\ Fill(rest)
    <3>1. state' = state /\ d \in 0..pos' /\ recv' = SubSeq(t, d + 1, pos')
      BY <1>6, <2>2, <2>11, FillKeeps
    <3>2. ChunkLine(d)
      BY <2>7, <2>11 DEF ChunkLine
    <3> QED
      BY <1>4, <3>1, <3>2
  <2> QED
    BY <1>2, <1>5, <1>6, <2>6, <2>9, <2>10, <2>11
<1> QED
  BY <1>2, <1>3, <1>5, <1>6

-----------------------------------------------------------------------------
(* The steps that do not read.                                             *)

(* A client is worked on until it has a result.                            *)
LEMMA RunsUnfinished ==
    ASSUME Driver, NEW s, Runs(s)
    PROVE  result = "none" /\ state = s
BY DEF Driver, Runs

(* Where the client is in the response does not depend on the clock, on    *)
(* what has arrived or on the request.                                     *)
LEMMA GotKept ==
    ASSUME Got, UNCHANGED <<recv, decoded, chunk_remaining, content_length, pos, resp>>,
           \/ UNCHANGED state
           \/ state \in Early /\ state' \in Early \cup {"ERROR"}
           \/ state' \in {"ERROR", "DISPOSING"}
    PROVE  Got'
<1>1. CASE UNCHANGED state
  BY <1>1 DEF Got, At, ChunkLine, InChunk, Right, Early, Body, Unsent
<1>2. CASE state \in Early /\ state' \in Early
  <2>1. PICK f \in 0..pos : recv = SubSeq(resp.bytes, f + 1, pos) /\ At(f)
    BY <1>2 DEF Got
  <2>2. f = 0 /\ content_length = 0 /\ decoded = <<>>
    BY <1>2, <2>1 DEF At
  <2>3. At(f)'
    BY <1>2, <2>2 DEF At, Early, Body, Unsent
  <2> QED
    BY <1>2, <2>1, <2>3 DEF Got, Early, Unsent
<1>3. CASE state' \in {"ERROR", "DISPOSING"}
  BY <1>3 DEF Got, Early, Body, Unsent
<1> QED
  BY <1>1, <1>2, <1>3

LEMMA UnreadKept ==
    ASSUME \/ Connecting \/ BuildRequest \/ SendRequest
           \/ WaitingConnect(Connected) \/ WaitingConnect(StillConnecting)
           \/ WaitingConnect(ConnectFailed)
           \/ Tick \/ Arrive \/ PeerCloses \/ ConnectionReset \/ UNCHANGED vars
    PROVE  UNCHANGED <<recv, decoded, chunk_remaining, content_length, pos, resp, out, result>>
<1>1. CASE SendRequest
  BY <1>1 DEF SendRequest, SendSome, Sending
<1>2. CASE \/ WaitingConnect(Connected) \/ WaitingConnect(StillConnecting)
           \/ WaitingConnect(ConnectFailed)
  BY <1>2 DEF WaitingConnect
<1> QED
  BY <1>1, <1>2 DEF Connecting, BuildRequest, Tick, Arrive, PeerCloses, ConnectionReset,
                    vars, client, net

LEMMA ToldInit == Init => Told
<1> SUFFICES ASSUME Init PROVE Told
  OBVIOUS
<1>1. /\ state = "UNUSED" /\ recv = <<>> /\ decoded = <<>> /\ content_length = 0
      /\ pos = 0 /\ out = <<>> /\ resp \in Responses
  BY DEF Init
<1>2. resp.bytes \in Seq(STRING)
  BY <1>1, HttpAssumption DEF ResponseOK
<1>3. SubSeq(resp.bytes, 0 + 1, 0) = <<>>
  BY <1>2
<1>4. At(0)
  BY <1>1 DEF At, Early, Body, Unsent
<1>5. Got
  <2>1. 0 \in 0..pos
    BY <1>1
  <2> QED
    BY <1>1, <1>3, <1>4, <2>1 DEF Got
<1> QED
  BY <1>1, <1>5 DEF Told

LEMMA ToldStep ==
    ASSUME Inv, Buffers, Told, [Next]_vars
    PROVE  Told'
<1> SUFFICES ASSUME Clear'
             PROVE  (result' = "none" => Got') /\ \A n \in DOMAIN out' : Right(out[n])'
  BY DEF Told
<1>0. Driver /\ Sent /\ Handed
  BY DEF Inv
<1>1. ASSUME UNCHANGED resp
      PROVE  Clear /\ (result = "none" => Got) /\ \A n \in DOMAIN out : Right(out[n])
  BY <1>1 DEF Told, Clear
<1>2. ASSUME UNCHANGED <<resp, out>>
      PROVE  \A n \in DOMAIN out' : Right(out[n])'
  BY <1>1, <1>2 DEF Right
<1>3. CASE Initiate
  <2>1. /\ state' = "CONNECTING" /\ recv' = <<>> /\ decoded' = <<>> /\ content_length' = 0
        /\ pos' = 0 /\ out' = <<>> /\ resp' \in Responses
    BY <1>3 DEF Initiate
  <2>2. resp'.bytes \in Seq(STRING)
    BY <2>1, HttpAssumption DEF ResponseOK
  <2>3. SubSeq(resp'.bytes, 0 + 1, 0) = <<>>
    BY <2>2
  <2>4. At(0)'
    BY <2>1 DEF At, Early, Body, Unsent
  <2>5. 0 \in 0..pos'
    BY <2>1
  <2>6. Got'
    BY <2>1, <2>3, <2>4, <2>5 DEF Got
  <2> QED
    BY <2>1, <2>6
<1>4. CASE \/ Connecting \/ BuildRequest
           \/ WaitingConnect(Connected) \/ WaitingConnect(StillConnecting)
           \/ WaitingConnect(ConnectFailed)
           \/ SendRequest
  <2>1. UNCHANGED <<recv, decoded, chunk_remaining, content_length, pos, resp, out, result>>
    BY <1>4, UnreadKept
  <2>2. state \in Early /\ state' \in Early \cup {"ERROR"} /\ result = "none"
    <3>1. CASE SendRequest
      BY <1>0, <3>1, SendStep, RunsUnfinished DEF Early
    <3>2. CASE ~SendRequest
      BY <1>0, <1>4, <3>2, ConnectStep, RunsUnfinished DEF Early
    <3> QED
      BY <3>1, <3>2
  <2> QED
    BY <1>1, <1>2, <2>1, <2>2, GotKept
<1>5. CASE ReadFirstline \/ ReadHeaders \/ DecipherChonkiness \/ ReadBodyChunked \/ ReadBody
  <2>1. /\ state \in {"READING_FIRSTLINE", "READING_HEADERS"} \cup Body
        /\ result = "none" /\ UNCHANGED out
    BY <1>0, <1>5, ReadStep, RunsUnfinished DEF Reading, Body, kept
  <2>2. UNCHANGED resp
    BY <1>5 DEF ReadFirstline, ReadHeaders, DecipherChonkiness, ReadBodyChunked, ReadBody, unread
  <2>3. PICK f \in 0..pos : recv = SubSeq(resp.bytes, f + 1, pos) /\ At(f)
    BY <1>1, <2>1, <2>2 DEF Got, Early
  <2>4. Got'
    BY <1>1, <1>5, <2>2, <2>3, FirstlineGot, HeadersGot, DecipherGot, ChunkedGot, ReadBodyGot
  <2> QED
    BY <1>2, <2>1, <2>2, <2>4
<1>6. CASE Returning
  <2> DEFINE b == IF decoded # <<>> THEN decoded ELSE recv
  <2>1. /\ state = "RETURNING" /\ result = "none" /\ out = <<>>
        /\ UNCHANGED resp
    <3>1. state = "RETURNING" /\ result = "none"
      BY <1>0, <1>6, RunsUnfinished DEF Returning
    <3> QED
      BY <1>0, <1>6, <3>1 DEF Handed, Returning, net
  <2>2. Right(b)
    BY <1>1, <2>1 DEF Got
  <2>3. CASE out' = Append(out, b) /\ state' = "DISPOSING"
    <3>1. out' = <<b>>
      BY <2>1, <2>3
    <3>2. Right(b)'
      BY <1>6, <2>1, <2>2 DEF Right, Returning, client
    <3> HIDE DEF b
    <3>3. \A n \in DOMAIN out' : out'[n] = b
      BY <3>1
    <3> QED
      BY <1>6, <2>1, <2>2, <2>3, <3>3 DEF Got, Right, Early, Body, Unsent
  <2>4. CASE state' = "ERROR" /\ UNCHANGED out
    BY <1>2, <2>1, <2>4 DEF Got, Early, Body, Unsent
  <2> QED
    BY <1>6, <2>3, <2>4 DEF Returning
<1>7. CASE Disposing
  BY <1>2, <1>7 DEF Disposing, Disposed, Runs, Got, Early, Body, Unsent
<1>8. CASE Failing
  BY <1>2, <1>8 DEF Failing, Disposed, Runs, net, Got, Early, Body, Unsent
<1>9. CASE TimedOut
  BY <1>2, <1>9 DEF TimedOut, Disposed
<1>10. CASE Tick \/ Arrive \/ PeerCloses \/ ConnectionReset \/ UNCHANGED vars
  <2>1. UNCHANGED <<recv, decoded, chunk_remaining, content_length, pos, resp, out, result>>
    BY <1>10, UnreadKept
  <2>2. UNCHANGED state
    BY <1>10, EnvironmentStep
  <2> QED
    BY <1>1, <1>2, <2>1, <2>2, GotKept
<1> QED
  BY <1>3, <1>4, <1>5, <1>6, <1>7, <1>8, <1>9, <1>10 DEF Next, Work

(* However the network cuts the response, however early the peer closes    *)
(* the connection and however often the client is used, a request hands    *)
(* over one body at most, and it is what BodyExact says: the whole body if *)
(* the response says how long it is, with nothing in front of it or in     *)
(* between, and nothing behind it if it was decoded from chunks.  The two  *)
(* exceptions of BodyExact, misleading trailers and a size that is no int, *)
(* are in the formula.                                                     *)
THEOREM BodyIsExact == Spec => []BodyExact
<1>1. Inv /\ TypeOK => Buffers
  BY TypeParts
<1>2. Inv /\ TypeOK /\ Told /\ [Next]_vars => Told'
  BY <1>1, ToldStep
<1>3. Len(out) <= 1 /\ Told => BodyExact
  BY DEF Told, Clear, Right, BodyExact
<1> QED
  BY <1>2, <1>3, ToldInit, Invariance, HandedOverOnce, TypeCorrect, PTL DEF Spec
=============================================================================
