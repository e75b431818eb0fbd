------------------------------ MODULE Transport -----------------------------
(***************************************************************************)
(* Making a connection: http_client_worktask_connecting and                *)
(* http_client_worktask_waiting_connect of modules/src/http_client.c, and  *)
(* what they call in transport.c, tcp_client.c, tls_client.c and           *)
(* tls_global_ca.c; and the other ways of tcp_client.h to make a           *)
(* connection and to end it, tcp_client_init_ptr, tcp_client_connect_step  *)
(* and tcp_client_disconnect.                                              *)
(*                                                                         *)
(* The layers report through their return values and through errno, which  *)
(* keeps its value until some call sets it; the http client decides by     *)
(* errno whether a connection is still in progress.                        *)
(***************************************************************************)
EXTENDS Naturals

CONSTANTS
  Modes,       \* the kinds of connection made: [tls, blocking, immediate, by]
  Addresses,   \* how many addresses getaddrinfo returns
  BadUrls      \* URLs that do not parse, or of another scheme, occur

ASSUME TransportAssumption ==
    /\ Modes \subseteq [tls : BOOLEAN, blocking : BOOLEAN, immediate : BOOLEAN,
                       by : {"http_client", "step", "ptr"}]
    /\ \A m \in Modes : m.by # "http_client" => ~m.tls /\ ~m.blocking
    /\ BadUrls \in BOOLEAN
    /\ Addresses \in Nat

VARIABLES
  mode,     \* https or http; for http_blocking_get/post or for the scheduler;
            \* whether the system lets a non-blocking connect succeed at once;
            \* and who connects: the HTTP client, or an application with
            \* tcp_client_connect_step or with tcp_client_init_ptr
  state,    \* Client->state, with the loops inside CONNECTING as states of
            \* their own: TRYING addresses, POLLING one, blocking HANDSHAKE
  fd,       \* tcp.fd: "zero" from calloc or memset, "minus1", or "socket"
  sock,     \* the socket being worked on: "none", "connecting", "up", "refused",
            \* or "eof" when the peer has closed it
  sockets,  \* sockets this client has opened and not closed
  stdin,    \* descriptor 0, which belongs to the application, is still open
  tls,      \* "none", "handshaking", "done" or "broken"
  errno,    \* "none", "EINPROGRESS", "EAGAIN" or "fatal" for any other value
  left,     \* addresses not tried yet
  ca        \* g_initialized: the global CA chain has been parsed

vars == <<mode, state, fd, sock, sockets, stdin, tls, errno, left, ca>>

UseTls    == mode.tls
Blocking  == mode.blocking
Immediate == mode.immediate

TypeOK ==
    /\ mode \in Modes
    /\ state \in {"CONNECTING", "TRYING", "POLLING", "HANDSHAKE", "WAITING_CONNECT",
                  "BUILDING_REQUEST", "DISCONNECTED", "ERROR", "DISPOSED"}
    /\ fd \in {"zero", "minus1", "socket"}
    /\ sock \in {"none", "connecting", "up", "refused", "eof"}
    /\ sockets \in 0..1
    /\ stdin \in BOOLEAN
    /\ tls \in {"none", "handshaking", "done", "broken"}
    /\ errno \in {"none", "EINPROGRESS", "EAGAIN", "fatal"}
    /\ left \in 0..Addresses
    /\ ca \in BOOLEAN

(* A zeroed client, as calloc or memset leaves it.                         *)
Init ==
    /\ mode \in Modes
    /\ state = "CONNECTING"
    /\ fd = "zero" /\ sock = "none" /\ sockets = 0 /\ stdin = TRUE
    /\ tls = "none" /\ errno = "none" /\ left = 0
    /\ ca = FALSE

-----------------------------------------------------------------------------
(* http_client_worktask_connecting: the URL is parsed and the transport    *)
(* zeroed; the tcp layer sets fd to -1 and resolves the host.              *)
BadUrl ==
    /\ state = "CONNECTING"
    /\ BadUrls /\ mode.by = "http_client"
    /\ state' = "ERROR"
    /\ UNCHANGED <<mode, fd, sock, sockets, stdin, tls, errno, left, ca>>

NoAddress ==
    /\ state = "CONNECTING"
    /\ fd' = "minus1"
    /\ state' = "ERROR"
    /\ UNCHANGED <<mode, sock, sockets, stdin, tls, errno, left, ca>>

Resolved ==
    /\ state = "CONNECTING"
    /\ fd' = "minus1"
    /\ left' = Addresses
    /\ state' = "TRYING"
    /\ UNCHANGED <<mode, sock, sockets, stdin, tls, errno, ca>>

(* Mutant: the end of the list is not looked for.                          *)
PastTheEnd ==
    /\ state = "TRYING"
    /\ left' = IF left > 0 THEN left - 1 ELSE Addresses + 1
    /\ errno' = "fatal"
    /\ UNCHANGED <<mode, state, fd, sock, sockets, stdin, tls, ca>>

(* socket, fcntl or connect fails for one address: what was opened is      *)
(* closed again.                                                           *)
AddressFails ==
    /\ state = "TRYING"
    /\ left > 0
    /\ left' = left - 1
    /\ errno' = "fatal"
    /\ UNCHANGED <<mode, state, fd, sock, sockets, stdin, tls, ca>>

(* connect returns 0, and in blocking mode the socket is made blocking     *)
(* again.  A non-blocking transport leaves TLS for later, and returns the  *)
(* status of the tcp layer.                                                *)
AfterConnect ==
    IF Blocking /\ UseTls THEN "HANDSHAKE" ELSE "BUILDING_REQUEST"

ConnectNow ==
    /\ state = "TRYING"
    /\ left > 0
    /\ Blocking \/ Immediate
    /\ left' = left - 1
    /\ sockets' = sockets + 1
    /\ sock' = "up"
    /\ fd' = "socket"
    /\ state' = AfterConnect
    /\ UNCHANGED <<mode, stdin, tls, errno, ca>>

(* connect returns -1 with EINPROGRESS.                                    *)
ConnectPending ==
    /\ state = "TRYING"
    /\ left > 0
    /\ mode.by # "ptr"
    /\ left' = left - 1
    /\ sockets' = sockets + 1
    /\ sock' = "connecting"
    /\ errno' = "EINPROGRESS"
    /\ IF Blocking
       THEN /\ state' = "POLLING"
            /\ UNCHANGED fd
       ELSE /\ state' = "WAITING_CONNECT"
            /\ fd' = "socket"
    /\ UNCHANGED <<mode, stdin, tls, ca>>

(* ... which is an error to tcp_client_init_ptr: it frees the client, and  *)
(* fd with it.                                                             *)
PendingIsFreed ==
    /\ state = "TRYING"
    /\ left > 0
    /\ mode.by = "ptr"
    /\ left' = left - 1
    /\ sockets' = sockets + 1
    /\ sock' = "connecting"
    /\ errno' = "EINPROGRESS"
    /\ fd' = "minus1"
    /\ state' = "DISPOSED"
    /\ UNCHANGED <<mode, stdin, tls, ca>>

(* Mutant: an empty list of addresses is waited on.                        *)
WaitForMore == state = "TRYING" /\ left = 0 /\ UNCHANGED vars

NoneLeft ==
    /\ state = "TRYING"
    /\ left = 0
    /\ state' = "ERROR"
    /\ UNCHANGED <<mode, fd, sock, sockets, stdin, tls, errno, left, ca>>

(* Mutant: the socket is forgotten, not closed.                            *)
ForgetSocket == sockets

CloseSocket == sockets - 1

(* tcp_client_blocking_init: poll times out, or SO_ERROR is set, or the    *)
(* socket cannot be made blocking: the socket is closed, the next address  *)
(* is tried.                                                               *)
PollFails ==
    /\ state = "POLLING"
    /\ sockets' = CloseSocket
    /\ sock' = "none"
    /\ state' = "TRYING"
    /\ errno' \in {errno, "fatal"}
    /\ UNCHANGED <<mode, fd, stdin, tls, left, ca>>

(* Mutant: writable is taken for connected, SO_ERROR is not asked for.     *)
PollTrusted ==
    /\ state = "POLLING"
    /\ fd' = "socket"
    /\ state' = AfterConnect
    /\ UNCHANGED <<mode, sock, sockets, stdin, tls, errno, left, ca>>

PollSucceeds ==
    /\ state = "POLLING"
    /\ sock \in {"up", "eof"}
    /\ fd' = "socket"
    /\ state' = AfterConnect
    /\ UNCHANGED <<mode, sock, sockets, stdin, tls, errno, left, ca>>

-----------------------------------------------------------------------------
(* One call of mbedtls_ssl_handshake on a session that is set up: what     *)
(* becomes of the session, and errno after the call.  WANT_READ and        *)
(* WANT_WRITE become EAGAIN.  When the peer or its certificate is not      *)
(* accepted, or the peer has closed the connection, no call sets errno;    *)
(* when a socket call fails, errno says why.  A broken session stays so.   *)
HandshakeResults ==
    CASE tls = "broken" \/ sock = "eof"        -> {<<"broken", errno>>}
      [] tls # "broken" /\ sock = "connecting" -> {<<"handshaking", "EAGAIN">>}
      [] OTHER -> {<<"handshaking", "EAGAIN">>, <<"done", errno>>,
                   <<"broken", errno>>, <<"broken", "fatal">>}

tls_client_handshake_step ==
    \E r \in HandshakeResults : tls' = r[1] /\ errno' = r[2]

(* Mutant: a session is set up with whatever global_tls_ca_get returns.    *)
NullCa == TRUE

(* tls_client_init gives up when global_tls_ca_get returns NULL, and for   *)
(* other reasons.                                                          *)
CanInit == ca

(* transport_init when blocking: the session is set up, and then one turn  *)
(* after the other of the handshake loop.                                  *)
TlsInitFails ==
    /\ state = "HANDSHAKE"
    /\ tls = "none"
    /\ sockets' = CloseSocket
    /\ fd' = "minus1"
    /\ sock' = "none"
    /\ state' = "ERROR"
    /\ UNCHANGED <<mode, stdin, tls, errno, left, ca>>

HandshakeLoop ==
    /\ state = "HANDSHAKE"
    /\ tls # "none" \/ CanInit
    /\ tls_client_handshake_step
    /\ state' = CASE tls' = "done"        -> "BUILDING_REQUEST"
                  [] tls' = "handshaking" -> "HANDSHAKE"
                  [] tls' = "broken"      -> "ERROR"
    /\ UNCHANGED <<mode, fd, sock, sockets, stdin, left, ca>>

(* http_client_worktask_waiting_connect goes by errno when it is not told  *)
(* SUCCESS.                                                                *)
Judge(err) ==
    IF err \in {"EINPROGRESS", "EAGAIN"} THEN "WAITING_CONNECT" ELSE "ERROR"

(* tcp_client_finish_connect asks for SO_ERROR, which is 0 while the       *)
(* connection is still being made.                                         *)
WaitRefused ==
    /\ state = "WAITING_CONNECT"
    /\ mode.by = "http_client"
    /\ sock = "refused"
    /\ errno' = "fatal"
    /\ state' = Judge("fatal")
    /\ UNCHANGED <<mode, fd, sock, sockets, stdin, tls, left, ca>>

WaitPlain ==
    /\ state = "WAITING_CONNECT"
    /\ mode.by = "http_client"
    /\ sock # "refused"
    /\ ~UseTls
    /\ state' = "BUILDING_REQUEST"
    /\ UNCHANGED <<mode, fd, sock, sockets, stdin, tls, errno, left, ca>>

WaitTlsInitFails ==
    /\ state = "WAITING_CONNECT"
    /\ sock # "refused"
    /\ UseTls /\ tls = "none"
    /\ state' = Judge(errno)
    /\ UNCHANGED <<mode, fd, sock, sockets, stdin, tls, errno, left, ca>>

WaitHandshake ==
    /\ state = "WAITING_CONNECT"
    /\ sock # "refused"
    /\ UseTls /\ (tls # "none" \/ CanInit)
    /\ tls_client_handshake_step
    /\ state' = IF tls' = "done" THEN "BUILDING_REQUEST" ELSE Judge(errno')
    /\ UNCHANGED <<mode, fd, sock, sockets, stdin, left, ca>>

(* tcp_client_connect_step calls connect again: ERR_BUSY while it is in    *)
(* progress, SUCCESS with 0 or EISCONN, ERR_IO when it was refused.        *)
tcp_client_connect_step ==
    /\ state = "WAITING_CONNECT"
    /\ mode.by = "step"
    /\ \/ sock = "connecting" /\ errno' = "EINPROGRESS" /\ UNCHANGED state
       \/ sock \in {"up", "eof"} /\ errno' \in {errno, "fatal"} /\ state' = "BUILDING_REQUEST"
       \/ sock = "refused" /\ errno' = "fatal" /\ state' = "ERROR"
    /\ UNCHANGED <<mode, fd, sock, sockets, stdin, tls, left, ca>>

(* tcp_client_disconnect closes the socket and keeps the client.           *)
tcp_client_disconnect ==
    /\ state = "BUILDING_REQUEST"
    /\ mode.by # "http_client"
    /\ sockets' = CloseSocket
    /\ fd' = "minus1"
    /\ sock' = "none"
    /\ state' = "DISCONNECTED"
    /\ UNCHANGED <<mode, stdin, tls, errno, left, ca>>

(* http_client_dispose, or tcp_client_dispose_ptr, when the connection is  *)
(* used no more: tcp_client_dispose closes fd unless it is negative.       *)
Dispose ==
    /\ state \in {"BUILDING_REQUEST", "DISCONNECTED", "ERROR"}
    /\ sockets' = IF fd = "socket" THEN CloseSocket ELSE sockets
    /\ stdin' = (stdin /\ fd # "zero")
    /\ fd' = "minus1"
    /\ sock' = "none"
    /\ tls' = "none"
    /\ state' = "DISPOSED"
    /\ UNCHANGED <<mode, errno, left, ca>>

(* The application loads and unloads the certificates; it must not unload  *)
(* them under a session, which has a pointer to the chain.  A second       *)
(* global_tls_ca_init returns at once, one that cannot parse the bundle    *)
(* leaves things as they were.                                             *)
global_tls_ca_init ==
    /\ ~ca
    /\ ca' = TRUE
    /\ UNCHANGED <<mode, state, fd, sock, sockets, stdin, tls, errno, left>>

global_tls_ca_dispose ==
    /\ ca
    /\ tls = "none"
    /\ ca' = FALSE
    /\ UNCHANGED <<mode, state, fd, sock, sockets, stdin, tls, errno, left>>

-----------------------------------------------------------------------------
(* The network and the peer.                                               *)
ConnectEnds ==
    /\ sock = "connecting"
    /\ sock' \in {"up", "refused"}
    /\ UNCHANGED <<mode, state, fd, sockets, stdin, tls, errno, left, ca>>

PeerCloses ==
    /\ sock = "up"
    /\ sock' = "eof"
    /\ UNCHANGED <<mode, state, fd, sockets, stdin, tls, errno, left, ca>>

-----------------------------------------------------------------------------
Connect ==
    \/ BadUrl \/ NoAddress \/ Resolved
    \/ AddressFails \/ ConnectNow \/ ConnectPending \/ PendingIsFreed \/ NoneLeft
    \/ PollFails \/ PollSucceeds \/ TlsInitFails \/ HandshakeLoop
    \/ WaitRefused \/ WaitPlain \/ WaitTlsInitFails \/ WaitHandshake
    \/ tcp_client_connect_step

Next ==
    \/ Connect \/ tcp_client_disconnect \/ Dispose \/ ConnectEnds \/ PeerCloses
    \/ global_tls_ca_init \/ global_tls_ca_dispose

Spec == Init /\ [][Next]_vars

(* The client is worked on; a connection attempt is answered or given up;  *)
(* a peer that is slow in the handshake finishes it or goes away.          *)
Fairness ==
    /\ WF_vars(Connect)
    /\ WF_vars(ConnectEnds)
    /\ SF_vars(HandshakeLoop /\ tls' # "handshaking")
    /\ SF_vars(WaitHandshake /\ tls' # "handshaking")

FairSpec == Spec /\ Fairness

-----------------------------------------------------------------------------
(* Every socket opened is closed when the client is disposed of: after     *)
(* failed addresses, timeouts, failed handshakes.  tcp_client_init_ptr     *)
(* loses one, and only when a connection was still being made.             *)
NoSocketLeak ==
    /\ state = "TRYING" => sockets = 0
    /\ state = "DISPOSED" /\ sockets # 0 => mode.by = "ptr" /\ errno = "EINPROGRESS"

(* No request is built on an https connection before the handshake is      *)
(* done, and no session, at any time, lacks the certificates to check its  *)
(* peer against: what was loaded may be unloaded between two requests, and *)
(* a session set up late.  The first does not hold of a scheduled https    *)
(* client whose connect succeeds at once: transport_init reports SUCCESS   *)
(* with no session set up, and none ever is.  That the certificates are    *)
(* not unloaded under a session is the rule global_tls_ca_dispose states.  *)
LateTls == UseTls /\ ~Blocking /\ Immediate

ReadyIsSecured ==
    /\ state = "BUILDING_REQUEST" /\ UseTls => tls = "done" \/ (LateTls /\ tls = "none")
    /\ tls # "none" => ca

(* SUCCESS from the functions that make a connection means that there is   *)
(* one, whatever became of the addresses before, for blocking connections  *)
(* and with tcp_client_connect_step.  With transport_finish_connect it     *)
(* need not: SO_ERROR is 0 while a connection is still being made.         *)
ReadyIsConnected ==
    state = "BUILDING_REQUEST" /\ (Blocking \/ mode.by # "http_client") => sock \in {"up", "eof"}

(* transport_dispose closes what the transport has opened, and no other    *)
(* descriptor of the process.                                              *)
OnlyOwnDescriptors == stdin

(* An attempt to connect comes to an end, good or bad.                     *)
Settled == state \in {"BUILDING_REQUEST", "ERROR", "DISPOSED"}
Settles == state = "CONNECTING" ~> Settled

(* ... which holds unless TLS is negotiated from the scheduler.            *)
OthersSettle == state = "CONNECTING" /\ ~(UseTls /\ ~Blocking) ~> Settled
=============================================================================
