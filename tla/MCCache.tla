---- MODULE MCCache ----
(* Cache on a small instance. *)
EXTENDS Cache
====
