---------------------------- MODULE MCWebServer ----------------------------
(* Instances of WebServer for TLC: one base thread, one dynamic slot, and more
   clients than threads. *)
EXTENDS WebServer, TLC

CONSTANTS b1, d1, p1, p2, p3

OneBase     == {b1}
OneDynamic  == {d1}
MoreClients == {p1, p2, p3}
=============================================================================
