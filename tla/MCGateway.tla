------------------------------- MODULE MCGateway -------------------------------
(* Two streams and another request, and two slots. *)
EXTENDS Gateway

CONSTANTS s1, s2, p1
================================================================================
