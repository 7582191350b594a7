----------------------------- MODULE MCGoodsReceipt -----------------------------
(* Instances of GoodsReceipt for TLC. *)
EXTENDS GoodsReceipt, TLC

Alike == Permutations(Creators) \cup Permutations(Signers) \cup Permutations(Lines)

Line(invoiced, received, rejected) ==
    [t \in {"invoiced", "received", "rejected"} |->
         CASE t = "invoiced" -> invoiced [] t = "received" -> received [] t = "rejected" -> rejected]

NoTotals == {{}}

(* A line received in full, in excess, not at all or rejected, and one     *)
(* that takes back what another line says.                                 *)
SomeLines == {Line(1, 1, 0), Line(0, 1, 0), Line(1, 0, 0), Line(1, 0, 1), Line(-1, -1, 0)}

AllLines == [{"invoiced", "received", "rejected"} -> -MaxQty..MaxQty]

InvoiceMayCome == {{}, {"invoiced"}}

AllTotals == SUBSET {"invoiced", "received", "rejected"}

=============================================================================
