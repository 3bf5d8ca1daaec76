-------------------------- MODULE MCConnectionPool --------------------------
(* Two tabs that open pages, one that moves or archives tickets, one that replies. *)
EXTENDS ConnectionPool, TLC
CONSTANTS p1, p2, f1, r1

MCPages == {p1, p2}
MCPosts == {f1, r1}
MCPanels == {f1}
=============================================================================
