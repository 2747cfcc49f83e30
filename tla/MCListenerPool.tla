---------------------------- MODULE MCListenerPool ----------------------------
(* ListenerPool with two hosts and three listeners. *)
EXTENDS ListenerPool
=============================================================================
