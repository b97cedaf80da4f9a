---- MODULE MCRequestMap ----
(* RequestMap on small tables: symmetric queries. *)
EXTENDS RequestMap, TLC

Interchangeable == Permutations(Queries)
====
