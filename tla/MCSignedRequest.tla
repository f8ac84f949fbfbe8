-------------------------- MODULE MCSignedRequest --------------------------
(* Two threads are enough for one to overwrite the buffer another reads; two *)
(* ticks for the two halves of a date to differ; two attempts and two tokens *)
(* for the second to repeat what is left of the first.  Two pairs of         *)
(* metadata, in one or two spellings of a name, with values that are blank,  *)
(* equal or different, show each way in which one can hide the other.        *)
EXTENDS SignedRequest

MCClients == {"c1", "c2"}

MCMetaNames == {"x-ms-meta-n", "x-ms-meta-N"}
MCLowerCase == [m \in MCMetaNames |-> "x-ms-meta-n"]
MCNameOrder == [m \in MCMetaNames |-> IF m = "x-ms-meta-N" THEN 1 ELSE 2]
MCMetadata == UNION {[1..k -> MCMetaNames \X {<<>>, <<1>>, <<2>>}] : k \in 0..2}
=============================================================================
