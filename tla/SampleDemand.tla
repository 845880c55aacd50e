---------------------------- MODULE SampleDemand ----------------------------
(***************************************************************************)
(* The demand built into the program (buildSampleBom and buildSampleBomStd   *)
(* of command/DemandManager.cpp): one stream for the programs run without    *)
(* an inventory, three for the simulator.  Probabilities are in hundredths,  *)
(* days in days, times of the day in minutes.  A std::map keeps its entries   *)
(* in the order of their keys, whatever the order of the insertions.        *)
(***************************************************************************)
EXTENDS Integers, Sequences, FiniteSets

(* The place of a pair <<key, probability>> in the map: how many keys are not
   larger than its own. *)
Place(pairs, i) == Cardinality({j \in 1 .. Len(pairs) : pairs[j][1] <= pairs[i][1]})

(* A continuous distribution, from the pairs in the order of their insertion. *)
Curve(pairs) ==
  [n \in 1 .. Len(pairs) |->
     LET i == CHOOSE i \in 1 .. Len(pairs) : Place(pairs, i) = n
     IN  [value |-> pairs[i][1], cum |-> pairs[i][2]]]

(* The same, for hours of the day. *)
DayCurve(pairs) == Curve([i \in 1 .. Len(pairs) |-> <<pairs[i][1] * 60, pairs[i][2]>>])

MutSampleStay == <<10, 10, 15, 15, 15, 30>>

(* What all the sample streams share: stay 0 to 5 days.  The masses of the
   others are those of their sorted codes (DF DN IF IN; OW RI RO; G M N P S). *)
SampleStay == <<10, 10, 15, 15, 15, 35>>
SampleTimeValue == Curve(<< <<15, 0>>, <<60, 100>> >>)

(* buildSampleBomStd: SIN-BKK. *)
SampleStd ==
  [mean |-> 10, stdDev |-> 1, minWTP |-> 1000, changeFeeProb |-> 50, nonRefundableProb |-> 50,
   arrival |-> Curve(<< <<-330, 0>>, <<-40, 20>>, <<-20, 60>>, <<-1, 100>> >>),
   pos |-> <<30, 70>>, channel |-> <<10, 30, 40, 20>>, trip |-> <<20, 20, 60>>,
   stay |-> SampleStay, ff |-> <<5, 30, 49, 1, 15>>,
   prefDepTime |-> DayCurve(<< <<6, 0>>, <<7, 10>>, <<9, 30>>, <<17, 40>>, <<19, 80>>,
                               <<20, 95>>, <<22, 100>> >>),
   timeValue |-> SampleTimeValue]

(* buildSampleBom: what its three streams share. *)
SampleArrival ==
  Curve(<< <<-330, 0>>, <<-150, 10>>, <<-92, 20>>, <<-55, 30>>, <<-34, 40>>, <<-21, 50>>,
           <<-12, 60>>, <<-6, 70>>, <<-3, 80>>, <<-1, 90>>, <<0, 100>> >>)

SampleStream(pos, prefDepTime, minWTP) ==
  [mean |-> 60, stdDev |-> 4, minWTP |-> minWTP, changeFeeProb |-> 50, nonRefundableProb |-> 50,
   arrival |-> SampleArrival, pos |-> pos, channel |-> <<0, 0, 0, 100>>, trip |-> <<100, 0, 0>>,
   stay |-> SampleStay, ff |-> <<1, 40, 40, 10, 9>>,
   prefDepTime |-> prefDepTime, timeValue |-> SampleTimeValue]

SINPrefDepTime == DayCurve(<< <<6, 0>>, <<8, 70>>, <<10, 80>>, <<12, 90>>, <<14, 100>> >>)

(* The third entry is one o'clock, between ten and fourteen. *)
BKKPrefDepTime == DayCurve(<< <<8, 0>>, <<10, 20>>, <<1, 60>>, <<14, 80>>, <<16, 100>> >>)

SINBKK == SampleStream(<<0, 100>>, SINPrefDepTime, 400)
BKKHKG == SampleStream(<<100, 0>>, BKKPrefDepTime, 400)
SINHKG == SampleStream(<<0, 100>>, SINPrefDepTime, 750)

SampleStreams == {SampleStd, SINBKK, BKKHKG, SINHKG}
=============================================================================
