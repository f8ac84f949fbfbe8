---------------------------- MODULE MCFileUpload ----------------------------
(* Five blocks through a window of three threads (m_concurrency + 1): the    *)
(* loop has to collect threads before it starts the last two.  One or two    *)
(* permits make threads sleep and be notified; three make none sleep, and    *)
(* leave a thread waiting for one of the two handles.                        *)
EXTENDS FileUpload

MCNumBlocks == 5
MCConcurrency == 2
MCParallels == {1, 2, 3}
=============================================================================
