---------------------------- MODULE StoredTimes ----------------------------
(***************************************************************************)
(* Instants as the tables keep and compare them.  formatTime and           *)
(* formatStoredTime store the RFC3339Nano text of an instant, and SQLite   *)
(* compares texts.  Texts of different seconds compare as their instants   *)
(* do.  Within one second they need not: RFC3339Nano drops the trailing    *)
(* zeros of a fraction, a fraction of zero with its point, and "Z" sorts   *)
(* after "." and after every digit.  So "00:00:01.5Z" < "00:00:01Z", and   *)
(* with two digits "00:00:01.52Z" < "00:00:01.5Z".                         *)
(***************************************************************************)
EXTENDS Integers

CONSTANTS
  SecondLength,  \* instants in a second; nanoseconds in the code
  FractionRank   \* place of a fraction among the texts of one second

Fractions == 0..(SecondLength - 1)

\* The texts of one second are told apart, and that of the whole second sorts last.
ASSUME TextsAssumption ==
  /\ SecondLength \in Nat \ {0}
  /\ FractionRank \in [Fractions -> Fractions]
  /\ \A f, g \in Fractions : FractionRank[f] = FractionRank[g] => f = g
  /\ \A f \in Fractions : FractionRank[f] <= FractionRank[0]

Second(t)   == t \div SecondLength
Fraction(t) == t % SecondLength

\* The text of t sorts before the text of u.
IsTextBefore(t, u) ==
  \/ Second(t) < Second(u)
  \/ Second(t) = Second(u) /\ FractionRank[Fraction(t)] < FractionRank[Fraction(u)]

\* The order of fractions of one digit, the shortest that are not zero.
OneDigit == [f \in Fractions |-> IF f = 0 THEN SecondLength - 1 ELSE f - 1]
=============================================================================
