----------------------------- MODULE MCSessions -----------------------------
(* Peer p, who roams, has a handshake of its own and one that our          *)
(* WireGuard starts; q has one. Three indices for two slots: a and c share *)
(* their home and the slot of their server index.                          *)
EXTENDS Sessions, TLC

CONSTANTS p, q, p1, p2, q1, a, c, d

MCPeerOf == (a :> p) @@ (c :> q) @@ (d :> p)
MCAddrOf == (p :> {p1, p2}) @@ (q :> {q1})
MCHome == (a :> 0) @@ (c :> 0) @@ (d :> 1)
MCServerHome == (a :> 0) @@ (c :> 0) @@ (d :> 1)
=============================================================================
