----------------------------- MODULE MCRounding -----------------------------
(***************************************************************************)
(* Numbers for TLC, in base ten with one decimal and two significant       *)
(* digits where the engine has six of each: 10 grains are a decimal.       *)
(***************************************************************************)
EXTENDS RoundingProperties

\* Grants of less than a decimal, of digits that no statement of six decimals can
\* take away, and of more digits than are printed.
Grants   == {6, 34, 123}
\* Orders of half a decimal more than an odd number of them, which meet rows of even
\* and of odd numbers; of fractions that round up and down; an exact one; and of 0.
Amounts  == {6, 15, 20} \cup {-6, -15, -34, 0}
Deposits == {15, 100}
Limits   == {1, 2}
=============================================================================
