------------------------------- MODULE MCSale -------------------------------
(* Small instances of Sale for TLC. *)
EXTENDS SaleInv

(* A note of two overpays a meal of the first kind and pays one of the second; *)
(* two meals of the first kind need a second coin.                             *)
MCPrice == <<1, 2, 1, 1>>
MCStock == <<2, 1, 0, 0>>

(* One meal that a coin does not pay and a note and a coin overpay: enough for *)
(* what must happen in the end.                                                *)
MCOnePrice == <<2, 1, 1, 1>>
MCOneMeal  == <<1, 0, 0, 0>>
=============================================================================
