---- MODULE MCReusePool ----
(* ReusePool with symmetric queries. *)
EXTENDS ReusePool, TLC

Interchangeable == Permutations(Tasks)
====
