--------------------------- MODULE MCErrnoClients ---------------------------
(* Three entries and pages of one: delete_directory needs three requests, and *)
(* each may be retried.  One refusal is final and one is retried.             *)
EXTENDS ErrnoClients

MCRefusals == {403, 500}
=============================================================================
