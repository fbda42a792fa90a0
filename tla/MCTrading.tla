------------------------------ MODULE MCTrading ------------------------------
(* Small instances of Trading for TLC. *)
EXTENDS Trading, TLC

(* Requests on a product: a sale of 2 at the low price and of 1 at the     *)
(* high one, a buy of 2 at the high price and of 1 at the low one.  One    *)
(* pair does not cross; the others do, with equal and unequal volumes and  *)
(* prices.                                                                 *)
Ask(p, dir, v, pr) == [p_no |-> p, direction |-> dir, volume |-> v, price |-> pr]

AllRequests ==
  UNION {{Ask(p, "S", 2, 1), Ask(p, "S", 1, 2), Ask(p, "B", 2, 2), Ask(p, "B", 1, 1)} :
           p \in Product}

(* A sale and a buy that cross and leave the buy partly dealt. *)
FewRequests == {Ask(p, "S", 1, 1) : p \in Product} \cup {Ask(p, "B", 2, 2) : p \in Product}

(* The web processes are interchangeable, and so are the products. *)
Symmetry == Permutations(Web) \cup Permutations(Product)
=============================================================================
