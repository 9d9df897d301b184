------------------------------ MODULE MCHttpEdge ------------------------------
(* Instance of HttpEdge for TLC: two requests at a time, of two principals, that *)
(* compete for one slot each and for one place in the session table.            *)
EXTENDS HttpEdge
===============================================================================
