------------------------ MODULE MCParallelDownload ------------------------
(* Two workers and four bytes in blocks of two: a block that a version of    *)
(* the blob reaches wholly, in part, or not at all.  Version v2 ends inside  *)
(* the first block, v3 inside the second.                                    *)
EXTENDS ParallelDownload

MCVersions == {"v1", "v2", "v3"}
MCLengthOf == [v \in MCVersions |-> CASE v = "v1" -> 5 [] v = "v2" -> 1 [] v = "v3" -> 3]
=============================================================================
