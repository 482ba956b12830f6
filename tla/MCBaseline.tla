------------------------------ MODULE MCBaseline ------------------------------
(* Orders of one unit, two, and some near the point where one unit less is    *)
(* within a quantity tolerance; cheap and dear lines; three of the vendors'   *)
(* tolerances; the ends of both bands of price draws.                         *)
EXTENDS Baseline

MCTolerances == {[price |-> 1, quantity |-> 1], [price |-> 5, quantity |-> 2],
                 [price |-> 10, quantity |-> 5]}
MCReceiptDraws(n) == {1, n \div 2, n - 1} \cap 1..(n - 1)

=============================================================================
