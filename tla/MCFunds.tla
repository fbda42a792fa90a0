------------------------------- MODULE MCFunds -------------------------------
(* Small instances of Funds for TLC. *)
EXTENDS Funds

Ask(dir, v, pr) == [p_no |-> "p", direction |-> dir, volume |-> v, price |-> pr]

(* A buy that can be dealt in parts and below its limit. *)
Buys == {Ask("B", 2, 2)}

(* With it, a sale that can be dealt in parts and above its limit. *)
BuysAndSales == Buys \cup {Ask("S", 2, 1)}

(* A withdrawal, and one of a negative amount as large as a buy.           *)
Amounts == {3, -4}
=============================================================================
