---- MODULE MCPipelinePool ----
(* PipelinePool with symmetric queries. *)
EXTENDS PipelinePool, TLC

Interchangeable == Permutations(Tasks)
====
