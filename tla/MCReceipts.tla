------------------------------ MODULE MCReceipts ------------------------------
(* Two pushes of one transaction, a mail and a scan; ingests are only         *)
(* compared for equality.                                                     *)
EXTENDS Receipts

Sent == {"push", "push again", "mail", "scan"}
SentSource == [m \in Sent |-> CASE m = "mail" -> "email" [] m = "scan" -> "scan" [] OTHER -> "pos"]
SentTxn == [m \in Sent |-> IF m \in {"push", "push again"} THEN "txn 1" ELSE "no txn"]

Alike == Permutations(Callers)
=============================================================================
