------------------------- MODULE ContinuousAttribute -------------------------
(***************************************************************************)
(* ContinuousAttributeLite<T> (basic/ContinuousAttributeLite.hpp): a        *)
(* piecewise linear cumulative distribution, kept as two parallel arrays    *)
(* built from a std::map.  A distribution is a sequence of points           *)
(* [value, cum], strictly increasing in "value" (the map's key order).      *)
(* Nothing in the code checks that "cum" is increasing, so the operators     *)
(* are defined for any sequence of cumulative probabilities.                 *)
(*                                                                         *)
(* Probabilities are integers out of a unit chosen by the user of the       *)
(* module, and values are integers in a unit fine enough for the rounding   *)
(* that follows (see DemandStream); the interpolated value is rounded down  *)
(* to that unit.  DictionaryManager's coding of a probability loses         *)
(* nothing (DictionaryKey_T is the probability itself), so the arrays hold  *)
(* the probabilities.                                                       *)
(***************************************************************************)
EXTENDS Integers, Sequences, FiniteSetsExt

(* The loops of the code look for the first index whose cumulative
   probability (or value) is strictly above the key. *)
CumAbove(dist, key) == {i \in 1 .. Len(dist) : dist[i].cum > key}
ValueAbove(dist, key) == {i \in 1 .. Len(dist) : dist[i].value > key}

(* Linear interpolation between two consecutive points, rounded down. *)
Interpolate(lo, hi, key) ==
  lo.value + ((hi.value - lo.value) * (key - lo.cum)) \div (hi.cum - lo.cum)

MutGetValueFirst(dist, key) ==
  LET i == Min({j \in 1 .. Len(dist) : dist[j].cum >= key} \cup {Len(dist)})
  IN  IF i = 1 THEN dist[1].value ELSE Interpolate(dist[i - 1], dist[i], key)

(* Inverse cumulative distribution: the value at a cumulative probability. *)
GetValue(dist, key) ==
  IF CumAbove(dist, key) = {} THEN dist[Len(dist)].value
  ELSE LET i == Min(CumAbove(dist, key))
       IN  IF i = 1 THEN dist[1].value ELSE Interpolate(dist[i - 1], dist[i], key)

(* The two assertions of getDerivativeValue and getUpperBound: the key lies
   inside the support, so that its interval has two ends. *)
InSupport(dist, key) ==
  /\ ValueAbove(dist, key) # {}
  /\ 1 \notin ValueAbove(dist, key)

(* Upper end of the interval of the distribution that holds a value. *)
GetUpperBound(dist, key) == dist[Min(ValueAbove(dist, key))].value

(* getDerivativeValue is only ever multiplied and used as a rate: what matters
   is whether the density in the interval of the key is positive. *)
HasDensity(dist, key) ==
  LET i == Min(ValueAbove(dist, key)) IN dist[i].cum > dist[i - 1].cum

-----------------------------------------------------------------------------
(* Reference definition of an inverse cumulative distribution. *)

IsCumulative(dist) == \A i \in 1 .. Len(dist) - 1 : dist[i].cum <= dist[i + 1].cum

(* v lies at or left of the point where the cumulative curve passes key: the
   forward curve, evaluated at v by cross multiplication, is at most key. *)
CurveAtMost(dist, v, key) ==
  \E i \in 1 .. Len(dist) - 1 :
    /\ dist[i].value <= v /\ v <= dist[i + 1].value
    /\ (dist[i + 1].cum - dist[i].cum) * (v - dist[i].value)
         <= (key - dist[i].cum) * (dist[i + 1].value - dist[i].value)

(* v is the largest value of the support that the curve reaches no later than
   key, whatever the plateaus and the jumps of the curve, or the first value when
   the curve starts above key. *)
InvertsAt(dist, key, v) ==
  /\ CurveAtMost(dist, v, key) \/ v = dist[1].value
  /\ v < dist[Len(dist)].value => ~CurveAtMost(dist, v + 1, key)
=============================================================================
