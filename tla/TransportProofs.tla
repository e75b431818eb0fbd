--------------------------- MODULE TransportProofs --------------------------
(***************************************************************************)
(* Proofs about Transport, for any number of addresses and any set of      *)
(* connection modes.                                                       *)
(***************************************************************************)
EXTENDS Transport, TLAPS

(* The socket and what the client knows of it, by the state of the client: *)
(* a socket is open exactly while fd names it, or while the blocking       *)
(* connect polls it before it is stored in fd.                             *)
Descriptor ==
    /\ state = "CONNECTING" => fd = "zero" /\ sockets = 0
    /\ state = "TRYING" => fd = "minus1" /\ sockets = 0
    /\ state = "POLLING" => fd = "minus1" /\ sockets = 1
    /\ state \in {"HANDSHAKE", "WAITING_CONNECT", "BUILDING_REQUEST"} =>
           fd = "socket" /\ sockets = 1
    /\ state = "DISCONNECTED" => fd = "minus1" /\ sockets = 0
    /\ state = "ERROR" => sockets = IF fd = "socket" THEN 1 ELSE 0
    /\ state = "DISPOSED" /\ sockets # 0 => mode.by = "ptr" /\ errno = "EINPROGRESS"

(* Which connections get into which state, and what is known there of the  *)
(* peer.                                                                   *)
Reached ==
    /\ state = "POLLING" => Blocking
    /\ state = "HANDSHAKE" => Blocking /\ UseTls /\ sock \in {"up", "eof"}
    /\ state = "WAITING_CONNECT" => ~Blocking
    /\ state = "BUILDING_REQUEST" =>
           \/ sock \in {"up", "eof"}
           \/ ~Blocking /\ mode.by = "http_client"

(* A session exists only over the certificates, and a request is built     *)
(* only over a finished one, unless connect has succeeded at once and left *)
(* TLS for later.                                                          *)
Session ==
    /\ tls # "none" => ca
    /\ state \in {"CONNECTING", "TRYING", "POLLING"} => tls = "none"
    /\ state = "BUILDING_REQUEST" /\ UseTls => tls = "done" \/ (LateTls /\ tls = "none")

Inv == TypeOK /\ Descriptor /\ Reached /\ Session

-----------------------------------------------------------------------------
(* A zeroed client has no socket and no session.                           *)
LEMMA InvInit == Init => Inv
<1> SUFFICES ASSUME Init PROVE Inv
    OBVIOUS
<1> USE DEF Init
<1>1. TypeOK
  <2>1. ca \in BOOLEAN /\ stdin \in BOOLEAN
    OBVIOUS
  <2> QED
    BY <2>1, TransportAssumption DEF TypeOK
<1>2. Descriptor /\ Reached /\ Session
  BY DEF Descriptor, Reached, Session
<1> QED
  BY <1>1, <1>2 DEF Inv

(* What one call of mbedtls_ssl_handshake leaves behind.                   *)
LEMMA HandshakeEffect ==
    ASSUME TypeOK, tls_client_handshake_step
    PROVE  /\ tls' \in {"handshaking", "done", "broken"}
           /\ errno' \in {"none", "EINPROGRESS", "EAGAIN", "fatal"}
<1>1. PICK r \in HandshakeResults : tls' = r[1] /\ errno' = r[2]
  BY DEF tls_client_handshake_step
<1>2. r \in {<<"broken", errno>>, <<"handshaking", "EAGAIN">>, <<"done", errno>>,
             <<"broken", "fatal">>}
  BY DEF HandshakeResults
<1> QED
  BY <1>1, <1>2 DEF TypeOK

(* Every step keeps the types: no more than one socket is open, and no     *)
(* address beyond the last is tried.                                       *)
LEMMA TypeStep == Inv /\ [Next]_vars => TypeOK'
<1> SUFFICES ASSUME Inv, [Next]_vars PROVE TypeOK'
    OBVIOUS
<1>0. TypeOK /\ Descriptor /\ Addresses \in Nat
  BY TransportAssumption DEF Inv
<1> USE <1>0 DEF TypeOK, Descriptor
<1>1. CASE BadUrl \/ NoAddress \/ Resolved \/ AddressFails \/ NoneLeft
  BY <1>1 DEF BadUrl, NoAddress, Resolved, AddressFails, NoneLeft
<1>2. CASE ConnectNow \/ ConnectPending \/ PendingIsFreed
  BY <1>2 DEF ConnectNow, ConnectPending, PendingIsFreed, AfterConnect
<1>3. CASE PollFails \/ PollSucceeds \/ TlsInitFails
  BY <1>3 DEF PollFails, PollSucceeds, TlsInitFails, AfterConnect, CloseSocket
<1>4. CASE HandshakeLoop \/ WaitHandshake
  <2>1. tls_client_handshake_step
    BY <1>4 DEF HandshakeLoop, WaitHandshake
  <2>2. /\ tls' \in {"handshaking", "done", "broken"}
        /\ errno' \in {"none", "EINPROGRESS", "EAGAIN", "fatal"}
    BY <2>1, HandshakeEffect
  <2>3. CASE HandshakeLoop
    BY <2>2, <2>3 DEF HandshakeLoop
  <2>4. CASE WaitHandshake
    BY <2>2, <2>4 DEF WaitHandshake, Judge
  <2> QED
    BY <1>4, <2>3, <2>4
<1>5. CASE WaitRefused \/ WaitPlain \/ WaitTlsInitFails \/ tcp_client_connect_step
  BY <1>5 DEF WaitRefused, WaitPlain, WaitTlsInitFails, tcp_client_connect_step, Judge
<1>6. CASE tcp_client_disconnect \/ ConnectEnds \/ PeerCloses
  BY <1>6 DEF tcp_client_disconnect, CloseSocket, ConnectEnds, PeerCloses
<1>7. CASE Dispose
  <2>1. stdin' \in BOOLEAN
    BY <1>7 DEF Dispose
  <2> QED
    BY <1>7, <2>1 DEF Dispose, CloseSocket
<1>8. CASE global_tls_ca_init \/ global_tls_ca_dispose
  <2>1. ca' \in BOOLEAN
    BY <1>8 DEF global_tls_ca_init, global_tls_ca_dispose
  <2> QED
    BY <1>8, <2>1 DEF global_tls_ca_init, global_tls_ca_dispose
<1>9. CASE UNCHANGED vars
  BY <1>9 DEF vars
<1> QED
  BY <1>1, <1>2, <1>3, <1>4, <1>5, <1>6, <1>7, <1>8, <1>9 DEF Next, Connect

(* Every step keeps the account of the descriptor.                         *)
LEMMA DescriptorStep == Inv /\ [Next]_vars => Descriptor'
<1> SUFFICES ASSUME Inv, [Next]_vars PROVE Descriptor'
    OBVIOUS
<1> USE DEF Inv, TypeOK, Descriptor
<1>1. CASE BadUrl \/ NoAddress \/ Resolved \/ AddressFails \/ NoneLeft
  BY <1>1 DEF BadUrl, NoAddress, Resolved, AddressFails, NoneLeft
<1>2. CASE ConnectNow \/ ConnectPending \/ PendingIsFreed
  BY <1>2 DEF ConnectNow, ConnectPending, PendingIsFreed, AfterConnect
<1>3. CASE PollFails \/ PollSucceeds \/ TlsInitFails
  BY <1>3 DEF PollFails, PollSucceeds, TlsInitFails, AfterConnect, CloseSocket
<1>4. CASE HandshakeLoop \/ WaitHandshake
  <2>1. /\ state \in {"HANDSHAKE", "WAITING_CONNECT"} /\ UNCHANGED <<mode, fd, sockets>>
        /\ tls_client_handshake_step
    BY <1>4 DEF HandshakeLoop, WaitHandshake
  <2>2. tls' \in {"handshaking", "done", "broken"}
    BY <2>1, HandshakeEffect
  <2>3. state' \in {"HANDSHAKE", "WAITING_CONNECT", "BUILDING_REQUEST", "ERROR"}
    <3>1. CASE HandshakeLoop
      BY <2>2, <3>1 DEF HandshakeLoop
    <3>2. CASE WaitHandshake
      BY <3>2 DEF WaitHandshake, Judge
    <3> QED
      BY <1>4, <3>1, <3>2
  <2> QED
    BY <2>1, <2>3
<1>5. CASE WaitRefused \/ WaitPlain \/ WaitTlsInitFails \/ tcp_client_connect_step
  BY <1>5 DEF WaitRefused, WaitPlain, WaitTlsInitFails, tcp_client_connect_step, Judge
<1>6. CASE tcp_client_disconnect \/ Dispose
  BY <1>6 DEF tcp_client_disconnect, Dispose, CloseSocket
<1>7. CASE ConnectEnds \/ PeerCloses
  BY <1>7 DEF ConnectEnds, PeerCloses
<1>8. CASE global_tls_ca_init \/ global_tls_ca_dispose \/ UNCHANGED vars
  BY <1>8 DEF global_tls_ca_init, global_tls_ca_dispose, vars
<1> QED
  BY <1>1, <1>2, <1>3, <1>4, <1>5, <1>6, <1>7, <1>8 DEF Next, Connect

(* A connection keeps its mode, and only the HTTP client asks for TLS.     *)
LEMMA ModeFixed ==
    ASSUME Inv, [Next]_vars
    PROVE  /\ UNCHANGED <<UseTls, Blocking, Immediate, mode.by>>
           /\ UseTls => mode.by = "http_client"
<1>1. UNCHANGED mode
  BY DEF Next, Connect, BadUrl, NoAddress, Resolved, AddressFails, ConnectNow,
         ConnectPending, PendingIsFreed, NoneLeft, PollFails, PollSucceeds, TlsInitFails,
         HandshakeLoop, WaitRefused, WaitPlain, WaitTlsInitFails, WaitHandshake,
         tcp_client_connect_step, tcp_client_disconnect, Dispose, ConnectEnds, PeerCloses,
         global_tls_ca_init, global_tls_ca_dispose, vars
<1>2. UseTls => mode.by = "http_client"
  BY TransportAssumption DEF Inv, TypeOK, UseTls
<1> QED
  BY <1>1, <1>2 DEF UseTls, Blocking, Immediate

(* Every step keeps what is known of the peer.                             *)
LEMMA ReachedStep == Inv /\ [Next]_vars => Reached'
<1> SUFFICES ASSUME Inv, [Next]_vars PROVE Reached'
    OBVIOUS
<1>1. UNCHANGED <<UseTls, Blocking, mode.by>> /\ (UseTls => mode.by = "http_client")
  BY ModeFixed
<1> USE <1>1 DEF Inv, Reached
<1>2. CASE BadUrl \/ NoAddress \/ Resolved \/ AddressFails \/ NoneLeft
  BY <1>2 DEF BadUrl, NoAddress, Resolved, AddressFails, NoneLeft
<1>3. CASE ConnectNow \/ ConnectPending \/ PendingIsFreed
  BY <1>3 DEF ConnectNow, ConnectPending, PendingIsFreed, AfterConnect
<1>4. CASE PollFails \/ PollSucceeds \/ TlsInitFails
  BY <1>4 DEF PollFails, PollSucceeds, TlsInitFails, AfterConnect
<1>5. CASE HandshakeLoop
  <2>1. tls' \in {"handshaking", "done", "broken"}
    BY <1>5, HandshakeEffect DEF HandshakeLoop
  <2> QED
    BY <1>5, <2>1 DEF HandshakeLoop
<1>6. CASE WaitHandshake
  BY <1>6 DEF WaitHandshake, Judge
<1>7. CASE WaitRefused \/ WaitPlain \/ WaitTlsInitFails \/ tcp_client_connect_step
  BY <1>7 DEF WaitRefused, WaitPlain, WaitTlsInitFails, tcp_client_connect_step, Judge
<1>8. CASE tcp_client_disconnect \/ Dispose
  BY <1>8 DEF tcp_client_disconnect, Dispose
<1>9. CASE ConnectEnds \/ PeerCloses
  BY <1>9 DEF ConnectEnds, PeerCloses
<1>10. CASE global_tls_ca_init \/ global_tls_ca_dispose \/ UNCHANGED vars
  BY <1>10 DEF global_tls_ca_init, global_tls_ca_dispose, vars
<1> QED
  BY <1>2, <1>3, <1>4, <1>5, <1>6, <1>7, <1>8, <1>9, <1>10 DEF Next, Connect

(* Every step keeps the certificates under the session, and no request is  *)
(* built before the handshake is done.                                     *)
LEMMA SessionStep == Inv /\ [Next]_vars => Session'
<1> SUFFICES ASSUME Inv, [Next]_vars PROVE Session'
    OBVIOUS
<1>1. UNCHANGED <<UseTls, Blocking, Immediate>> /\ (UseTls => mode.by = "http_client")
  BY ModeFixed
<1> USE <1>1 DEF Inv, Reached, Session, LateTls
<1>2. CASE BadUrl \/ NoAddress \/ Resolved \/ AddressFails \/ NoneLeft
  BY <1>2 DEF BadUrl, NoAddress, Resolved, AddressFails, NoneLeft
<1>3. CASE ConnectNow \/ ConnectPending \/ PendingIsFreed
  BY <1>3 DEF ConnectNow, ConnectPending, PendingIsFreed, AfterConnect
<1>4. CASE PollFails \/ PollSucceeds \/ TlsInitFails
  BY <1>4 DEF PollFails, PollSucceeds, TlsInitFails, AfterConnect
<1>5. CASE HandshakeLoop
  <2>1. tls' \in {"handshaking", "done", "broken"}
    BY <1>5, HandshakeEffect DEF HandshakeLoop
  <2>2. ca' /\ (state' = "BUILDING_REQUEST" => tls' = "done")
    BY <1>5, <2>1 DEF HandshakeLoop, CanInit
  <2> QED
    BY <1>5, <2>1, <2>2 DEF HandshakeLoop
<1>6. CASE WaitHandshake
  BY <1>6 DEF WaitHandshake, CanInit, Judge
<1>7. CASE WaitRefused \/ WaitPlain \/ WaitTlsInitFails \/ tcp_client_connect_step
  BY <1>7 DEF WaitRefused, WaitPlain, WaitTlsInitFails, tcp_client_connect_step, Judge
<1>8. CASE tcp_client_disconnect \/ Dispose
  BY <1>8 DEF tcp_client_disconnect, Dispose
<1>9. CASE ConnectEnds \/ PeerCloses
  BY <1>9 DEF ConnectEnds, PeerCloses
<1>10. CASE global_tls_ca_init \/ global_tls_ca_dispose \/ UNCHANGED vars
  BY <1>10 DEF global_tls_ca_init, global_tls_ca_dispose, vars
<1> QED
  BY <1>2, <1>3, <1>4, <1>5, <1>6, <1>7, <1>8, <1>9, <1>10 DEF Next, Connect

-----------------------------------------------------------------------------
(* The inductive invariant holds in every state of a connection, however   *)
(* many addresses its host has.                                            *)
THEOREM Invariance == Spec => []Inv
<1>1. Inv /\ [Next]_vars => Inv'
  BY TypeStep, DescriptorStep, ReachedStep, SessionStep DEF Inv
<1> QED
  BY <1>1, InvInit, PTL DEF Spec

(* The types of Transport: a client never has two sockets open, and never  *)
(* goes past the end of the list of addresses.                             *)
THEOREM TypeCorrect == Spec => []TypeOK
BY Invariance, PTL DEF Inv

(* Every path through failed addresses, timeouts and failed handshakes     *)
(* closes the socket it has opened; the exception is tcp_client_init_ptr   *)
(* with a connection still being made.                                     *)
THEOREM SocketsClosed == Spec => []NoSocketLeak
<1>1. Inv => NoSocketLeak
  BY DEF Inv, Descriptor, NoSocketLeak
<1> QED
  BY <1>1, Invariance, PTL

(* Blocking connections and tcp_client_connect_step report SUCCESS only    *)
(* when the connection is made.                                            *)
THEOREM ReadyMeansConnected == Spec => []ReadyIsConnected
<1>1. Inv => ReadyIsConnected
  BY DEF Inv, Reached, ReadyIsConnected
<1> QED
  BY <1>1, Invariance, PTL

(* No request is built on an https connection before its handshake is done *)
(* and no session is ever without the certificates; the exception is in    *)
(* ReadyIsSecured: a scheduled https client whose connect succeeds at      *)
(* once, for which transport_init reports SUCCESS without a session.       *)
THEOREM ReadyMeansSecured == Spec => []ReadyIsSecured
<1>1. Inv => ReadyIsSecured
  BY DEF Inv, Session, ReadyIsSecured
<1> QED
  BY <1>1, Invariance, PTL
=============================================================================
