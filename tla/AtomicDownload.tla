--------------------------- MODULE AtomicDownload ---------------------------
(***************************************************************************)
(* What a download promises its caller, without any chunk, thread, retry   *)
(* or stream: each piece of the data is what the blob held at one moment   *)
(* of the call, and the caller learns at most once how the download ended. *)
(* To a file the blob is one piece, to a buffer each range is a piece.     *)
(*                                                                         *)
(*   "ok"      the caller has what was read, piece by piece;               *)
(*   "again"   the blob was replaced after something was read of it;       *)
(*   "failed"  anything else, an exception included.                       *)
(***************************************************************************)
CONSTANTS Versions,  \* versions of the blob
          Pieces,    \* what is read at one moment
          Content    \* Content[v][p]: the piece p of version v

VARIABLES blob,      \* the current version
          copy,      \* what has been read: pairs of a piece and its content
          moved,     \* the blob was replaced after a piece was read
          delivered, \* what a caller that was told "ok" has
          outcome    \* what the caller has been told

vars == <<blob, copy, moved, delivered, outcome>>

Init ==
    /\ blob \in Versions
    /\ copy = {}
    /\ moved = FALSE
    /\ delivered = {}
    /\ outcome = "pending"

\* Another client.  That the version read is no longer the current one may go
\* unnoticed (the answer about an empty blob tells no version).
Replace ==
    /\ blob' \in Versions \ {blob}
    /\ moved' \in BOOLEAN
    /\ moved => moved'
    /\ moved' => moved \/ copy # {}
    /\ UNCHANGED <<copy, delivered, outcome>>

Read(p) ==
    /\ outcome = "pending"
    /\ \A piece \in copy : piece[1] # p
    /\ copy' = copy \cup {<<p, Content[blob][p]>>}
    /\ UNCHANGED <<blob, moved, delivered, outcome>>

End(told, given) ==
    /\ outcome = "pending"
    /\ outcome' = told
    /\ delivered' = given
    /\ copy' = {}
    /\ moved' = FALSE
    /\ UNCHANGED blob

Succeed ==
    /\ \A p \in Pieces : \E piece \in copy : piece[1] = p
    /\ End("ok", copy)

Again == moved /\ End("again", {})

Fail == End("failed", {})

Next == Replace \/ (\E p \in Pieces : Read(p)) \/ Succeed \/ Again \/ Fail

Safety == Init /\ [][Next]_vars
=============================================================================
