------------------------ MODULE CategoricalAttribute ------------------------
(***************************************************************************)
(* CategoricalAttributeLite<T> (basic/CategoricalAttributeLite.hpp): a      *)
(* finite distribution (point of sale, channel, trip type, stay duration,   *)
(* frequent flyer) given as a map from value to probability mass.  It is    *)
(* modelled by the sequence of the masses in the map's order; a value is     *)
(* its position.  Masses are integers out of a unit chosen by the caller.   *)
(***************************************************************************)
EXTENDS Integers, Sequences, FiniteSetsExt

(* IndexOutOfRangeException: no cumulative probability reaches the key.  No
   value has position 0. *)
IndexOutOfRange == 0

(* The constructor keeps the positive masses only. *)
Row(masses) == {i \in 1 .. Len(masses) : masses[i] > 0}

(* Cumulative probability stored with the value at position i. *)
Cumulative(masses, i) == MapThenSumSet(LAMBDA j : masses[j], {j \in Row(masses) : j <= i})

MutDraw(masses, key) ==
  LET reached == {i \in Row(masses) : Cumulative(masses, i) > key}
  IN  IF reached = {} THEN IndexOutOfRange ELSE Min(reached)

(* getValue: the first value whose cumulative probability reaches the key. *)
Draw(masses, key) ==
  LET reached == {i \in Row(masses) : Cumulative(masses, i) >= key}
  IN  IF reached = {} THEN IndexOutOfRange ELSE Min(reached)

(* The sum of the masses: one when the distribution is one. *)
Total(masses) == MapThenSumSet(LAMBDA j : masses[j], DOMAIN masses)
=============================================================================
