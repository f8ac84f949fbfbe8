-------------------------- MODULE MCParallelUpload --------------------------
(* Three workers and two blocks: fewer blocks than workers, every worker can *)
(* meet the end of the blob before and after the others, and both the first  *)
(* and a later error occur.                                                  *)
EXTENDS ParallelUpload

MCParallelism == 3
MCNumBlocks == 2
=============================================================================
