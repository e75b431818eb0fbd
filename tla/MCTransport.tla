---------------------------- MODULE MCTransport -----------------------------
(***************************************************************************)
(* Sets of connection modes for Transport.                                 *)
(***************************************************************************)
EXTENDS Transport

Mode(tlsOn, block, now, who) ==
    [tls |-> tlsOn, blocking |-> block, immediate |-> now, by |-> who]

TlsNonBlocking == {Mode(TRUE, FALSE, FALSE, "http_client")}

AllModes ==
    {Mode(t, b, n, "http_client") : t, b, n \in BOOLEAN}
      \cup {Mode(FALSE, FALSE, n, who) : n \in BOOLEAN, who \in {"step", "ptr"}}
=============================================================================
