------------------------------- MODULE Binary -------------------------------
(***************************************************************************)
(* Numbers and their binary digits.  Powers of two are a function and not  *)
(* 2^n, so that facts about them can be proved.                            *)
(***************************************************************************)
EXTENDS Integers

TwoTo[n \in Nat] == IF n = 0 THEN 1 ELSE 2 * TwoTo[n - 1]

Digit(number, i) == (number \div TwoTo[i]) % 2

\* The places of the ones of a number, and the number with these ones.
Ones(number, width) == {i \in 0 .. width - 1 : Digit(number, i) = 1}

Number(ones, width) == CHOOSE n \in 0 .. TwoTo[width] - 1 : Ones(n, width) = ones
=============================================================================
