--------------------------- MODULE MCRetryExecutor ---------------------------
(* Two tokens are enough to cut a transfer before, inside and after its data, *)
(* and for the replacement to be shorter than the original; the codes are one *)
(* success, two answers that are final and two that are retried.              *)
EXTENDS RetryExecutor

MCTokens == {"s1", "s2", "o1", "o2", "r1"}
MCSource == <<"s1", "s2">>
MCDeclared == {1, 2, 3}
MCOriginal == <<"o1", "o2">>
MCOther == <<"r1">>
MCCodes == {200, 404, 408, 500, 501, 503}
=============================================================================
