-------------------------------- MODULE Gf2 --------------------------------
(***************************************************************************)
(* Machine words as the sets of their one-bits, which are at the same time *)
(* the polynomials over GF(2) that cyclic redundancy checks compute with:  *)
(* bit i is the term x^i, exclusive or is addition, and a shift by n is a  *)
(* multiplication by x^n.                                                  *)
(***************************************************************************)
EXTENDS Integers, FiniteSets

\* Exclusive or.
Xor(a, b) == (a \ b) \cup (b \ a)

\* The word a, n bits to the left, in a type that is wide enough.
Shifted(a, n) == {i + n : i \in a}

\* A word of the given width, read from its other end.
Mirrored(a, width) == {width - 1 - i : i \in a}

\* The one-bits of a number, and the number they make.
Bits(value, width) == {i \in 0 .. width - 1 : (value \div 2^i) % 2 = 1}

Value(a, width) == CHOOSE n \in 0 .. 2^width - 1 : Bits(n, width) = a

-----------------------------------------------------------------------------
(* What a cyclic redundancy check is by definition: a remainder.           *)

\* x^n modulo the generator x^width + poly, for n up to last.
PowersOfX(poly, width, last) ==
    LET power[n \in 0 .. last] ==
            IF n < width THEN {n}
            ELSE LET next == Shifted(power[n - 1], 1)
                 IN  IF width \in next THEN Xor(next \ {width}, poly) ELSE next
    IN  power

\* The remainder of a polynomial: the sum of those of its terms.
Remainder(terms, power, width) ==
    {i \in 0 .. width - 1 : Cardinality({n \in terms : i \in power[n]}) % 2 = 1}
=============================================================================
