------------------------------- MODULE Rounding --------------------------------
(***************************************************************************)
(* Rounding as the repository's Python does it.                            *)
(***************************************************************************)
EXTENDS Integers

(* Decimal.quantize and round: to the nearest integer, a half to the even    *)
(* one.                                                                      *)
Rounded(n, d) == LET q == n \div d
                     twice == 2 * (n % d) IN
                 IF twice < d \/ (twice = d /\ q % 2 = 0) THEN q ELSE q + 1

=============================================================================
