--------------------------- MODULE MCFileDownload ---------------------------
(* Chunks of two bytes and two downloaders.  The longest version has five     *)
(* bytes beyond the first chunk: an odd number, so that the last range is      *)
(* shorter, and more than downloaders * DOWNLOAD_CHUNK_SIZE, so that the       *)
(* ranges grow.  The others are shorter than a chunk, just over one, and       *)
(* empty.                                                                      *)
EXTENDS FileDownload

MCVersions == {"v1", "v2", "v3", "v4"}
MCLengthOf == [v \in MCVersions |->
    CASE v = "v1" -> 7 [] v = "v2" -> 3 [] v = "v3" -> 1 [] v = "v4" -> 0]
=============================================================================
