----------------------------- MODULE MCDocuments -----------------------------
(***************************************************************************)
(* Small instances of Documents.  Two requests ask for the same host and   *)
(* port, the second for longer, so the second extends the document of the  *)
(* first or, where that is gone, makes its own; a request alone has its    *)
(* own name.                                                               *)
(***************************************************************************)
EXTENDS Documents, TLC

CONSTANTS first, second, db

MCNames == {db}
MCNameOf == [r \in RequestIDs |-> db]
MCExpiryOf == [r \in RequestIDs |-> IF r = first THEN 1 ELSE 2]
=============================================================================
