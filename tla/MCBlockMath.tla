---------------------------- MODULE MCBlockMath ----------------------------
(* Four bytes to the MiB, so that lengths fall between two of them, five      *)
(* blocks at most, and an unsigned int that holds any block but not the       *)
(* largest lengths.  The lengths are every one up to 70 (below, at and above  *)
(* the parallelism and a block), and beyond that those around the multiples   *)
(* of the grain of 4 MiB and of the grain times the number of blocks, up to   *)
(* past the largest length accepted.                                          *)
EXTENDS BlockMath

MCLengths ==
    0..70 \cup {n \in 71..2010 : n % 80 \in {0, 1, 2, 78, 79} \/ n % 16 \in {0, 1, 15}}
=============================================================================
