---------------------------- MODULE AtomicUpload ----------------------------
(***************************************************************************)
(* What an upload in blocks, of a buffer or of a file, promises its        *)
(* caller, without any block, thread or counter: the destination blob      *)
(* changes at most once, and the caller learns at most once how the upload *)
(* ended.                                                                  *)
(*                                                                         *)
(*   "ok"         the new content is in place;                             *)
(*   "refused"    the upload stopped before the commit: the old content is *)
(*                in place and this upload will never replace it;          *)
(*   "unknown"    the commit (or the only request) was answered with an    *)
(*                error: one whose answer was lost may be applied later;   *)
(*   "abandoned"  the call threw: as "refused".                            *)
(***************************************************************************)

VARIABLES blob,     \* "old" or "new": the content readers of the blob see
          outcome   \* what the caller has been told

vars == <<blob, outcome>>

Init == blob = "old" /\ outcome = "pending"

Apply == /\ outcome \in {"pending", "unknown"}
         /\ blob = "old"
         /\ blob' = "new"
         /\ UNCHANGED outcome

Succeed == /\ outcome = "pending"
           /\ blob = "new"
           /\ outcome' = "ok"
           /\ UNCHANGED blob

Refuse == /\ outcome = "pending"
          /\ blob = "old"
          /\ outcome' \in {"refused", "abandoned"}
          /\ UNCHANGED blob

GiveUp == /\ outcome = "pending"
          /\ outcome' = "unknown"
          /\ UNCHANGED blob

Next == Apply \/ Succeed \/ Refuse \/ GiveUp

\* A running upload is always told something in the end.
Fairness == WF_vars(Succeed \/ Refuse \/ GiveUp)

Safety == Init /\ [][Next]_vars
Spec == Safety /\ Fairness
=============================================================================
