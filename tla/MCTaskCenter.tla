---- MODULE MCTaskCenter ----
(* TaskCenter with one fixed and one cron task: symmetric requests. *)
EXTENDS TaskCenter, TLC

Interchangeable == Permutations(Requests)
====
