------------------------ MODULE DemandSources_proofs ------------------------
(***************************************************************************)
(* Proofs about where the demand comes from.                                 *)
(* The loading of a demand file, for any set of files, any calendar and any  *)
(* week: the rows are isolated from one another, what is loaded is exactly   *)
(* what the rows before the end of the load say, the expectation follows the *)
(* streams, and a load ends.                                                 *)
(* The demand built into the program, and the look-ups in distributions: a   *)
(* random number swept through any curve and any list of masses is turned    *)
(* into values as the distribution says, and no look-up of a request of the  *)
(* built-in demand fails.                                                    *)
(***************************************************************************)
EXTENDS DemandLoading, MCDistributions, Operators_proofs

-----------------------------------------------------------------------------
(* The pairs of a list. *)

(* No code is given twice among the first n pairs. *)
NoRepeat(seq, n) == \A i, j \in 1 .. n : i # j => seq[i].code # seq[j].code

(* The values kept of the first n pairs are the values of these pairs: each value
   has a first occurrence. *)
LEMMA KeptValues ==
  ASSUME NEW f, NEW seq, NEW n \in Nat
  PROVE  {p.code : p \in FirstPairs(f, seq, n)} = {ValueOf(f, seq[k].code) : k \in 1 .. n}
<1> DEFINE V(k) == ValueOf(f, seq[k].code)
<1>1. ASSUME NEW k \in 1 .. n
      PROVE  \E p \in FirstPairs(f, seq, n) : p.code = V(k)
  <2> DEFINE T == {j \in 1 .. n : V(j) = V(k)}
  <2>1. T \subseteq Nat /\ T # {}
    OBVIOUS
  <2> HIDE DEF V
  <2>2. PICK j \in T : \A i \in T : j <= i
    BY <2>1, LeastElement
  <2>3. j \in 1 .. n /\ V(j) = V(k) /\ \A i \in 1 .. j - 1 : V(i) # V(j)
    BY <2>2
  <2>4. [code |-> V(j), mass |-> seq[j].mass] \in FirstPairs(f, seq, n)
    BY <2>3 DEF FirstPairs, V
  <2>5. QED BY <2>3, <2>4
<1>2. ASSUME NEW p \in FirstPairs(f, seq, n)
      PROVE  \E k \in 1 .. n : V(k) = p.code
  BY DEF FirstPairs
<1> HIDE DEF V
<1>3. {p.code : p \in FirstPairs(f, seq, n)} = {V(k) : k \in 1 .. n}
  BY <1>1, <1>2
<1>4. QED BY <1>3 DEF V

(* The next pair is kept unless its value is there already. *)
LEMMA NextKept ==
  ASSUME NEW f, NEW seq, NEW n \in Nat \ {0}
  PROVE  FirstPairs(f, seq, n)
           = Kept(FirstPairs(f, seq, n - 1), ValueOf(f, seq[n].code), seq[n].mass)
<1> DEFINE V(k) == ValueOf(f, seq[k].code)
           First(m) == {j \in 1 .. m : \A k \in 1 .. j - 1 : V(k) # V(j)}
           P(j) == [code |-> V(j), mass |-> seq[j].mass]
<1>1. /\ FirstPairs(f, seq, n) = {P(j) : j \in First(n)}
      /\ FirstPairs(f, seq, n - 1) = {P(j) : j \in First(n - 1)}
  BY DEF FirstPairs
<1>0. n - 1 \in Nat
  OBVIOUS
<1>2. (\E p \in FirstPairs(f, seq, n - 1) : p.code = V(n)) <=> \E k \in 1 .. n - 1 : V(k) = V(n)
  <2>1. {p.code : p \in FirstPairs(f, seq, n - 1)} = {V(k) : k \in 1 .. n - 1}
    BY <1>0, KeptValues
  <2> HIDE DEF V
  <2>2. QED BY <2>1
<1> HIDE DEF V
<1>3. First(n) = IF \E k \in 1 .. n - 1 : V(k) = V(n) THEN First(n - 1) ELSE First(n - 1) \cup {n}
  <2>1. \A j \in 1 .. n : j \in 1 .. n - 1 \/ j = n
    OBVIOUS
  <2>2. QED BY <2>1
<1> HIDE DEF First, P
<1>4. Kept(FirstPairs(f, seq, n - 1), V(n), seq[n].mass)
        = IF \E k \in 1 .. n - 1 : V(k) = V(n) THEN {P(j) : j \in First(n - 1)}
          ELSE {P(j) : j \in First(n - 1)} \cup {P(n)}
  BY <1>1, <1>2 DEF Kept, P
<1>5. {P(j) : j \in First(n - 1) \cup {n}} = {P(j) : j \in First(n - 1)} \cup {P(n)}
  OBVIOUS
<1>6. QED BY <1>1, <1>3, <1>4, <1>5 DEF V

(* None of the first zero pairs is kept. *)
LEMMA NoneKept ==
  ASSUME NEW f, NEW seq
  PROVE  FirstPairs(f, seq, 0) = {} /\ NoRepeat(seq, 0)
BY DEF FirstPairs, NoRepeat

-----------------------------------------------------------------------------
(* The invariant. *)

FieldNames == Lists \cup Dates \cup Scalars

(* The pairs read of the i-th field. *)
PairsRead(i) ==
  IF i < field THEN Len(Current[Fields[i]]) ELSE IF i = field THEN item - 1 ELSE 0

(* What the structure holds of the i-th field: a list, the pairs read of it so far
   and nothing else, no mass given twice; another field, its value once it is read. *)
FieldStaged(i) ==
  LET f == Fields[i] IN
  /\ f \in Lists => demand[f] = FirstPairs(f, Current[f], PairsRead(i))
  /\ f \in Categorical => NoRepeat(Current[f], PairsRead(i))
  /\ f \in Scalars /\ i < field => demand[f] = Current[f]
  /\ f \in Dates /\ i < field => Current[f] # NoDate /\ demand[f] = StoredDate(f, Current[f])

Staged ==
  /\ \A i \in 1 .. 15 : FieldStaged(i)
  /\ field \in 1 .. 15 =>
       IF Name \in Lists THEN item \in 1 .. Len(Current[Name]) ELSE item = 1

(* Before anything is read of a row, the lists are empty. *)
Fresh == field = 1 /\ item = 1 /\ \A f \in Lists : demand[f] = {}

Created == [from : Nat, date : Int, content : {OwnContent(file[r]) : r \in Demands}]

(* No minutes are left from one time to the next. *)
DemandShape ==
  /\ demand = [f \in FieldNames \cup {"itMinutes"} |-> demand[f]]
  /\ demand["itMinutes"] = 0

Shape ==
  /\ file \in Files
  /\ pc \in {"open", "row", "days", "done", "failed"}
  /\ row \in Nat \ {0} /\ field \in 1 .. 16 /\ item \in Nat
  /\ DemandShape
  /\ file = NoFile => pc \in {"open", "failed"} /\ streams = << >>

(* The stage the row being read is in. *)
Stage ==
  /\ pc = "open" => Fresh
  /\ pc = "row" => IF row \in Demands THEN Staged ELSE Fresh
  /\ pc = "days" =>
       /\ row \in Demands /\ Staged /\ field = 16
       /\ day \in Current["start"] .. LastDate + 1
       /\ ~IsReversed(Current) => day <= Current["end"] + 1
       /\ DatesOfRow(row) = {d \in Current["start"] .. day - 1 : IsDoWActive(d, Current["dow"])}
  /\ pc \in {"open", "row", "done"} => DatesOfRow(row) = {}
  /\ pc = "failed" =>
       /\ row \in Demands
       /\ \/ (HasNoDate(Current) \/ RepeatsACode(Current)) /\ DatesOfRow(row) = {}
          \/ /\ ~HasNoDate(Current) /\ ~RepeatsACode(Current) /\ IsReversed(Current)
             /\ DatesOfRow(row) = OwnDays(Current)

(* A row that was left without an exception is loaded, and nothing is wrong with it. *)
RowLoaded(r) ==
  /\ DatesOfRow(r) = OwnDays(file[r])
  /\ ~HasNoDate(file[r]) /\ ~RepeatsACode(file[r]) /\ ~IsReversed(file[r])

Ordered ==
  \A i, j \in DOMAIN streams : i < j =>
    \/ streams[i].from < streams[j].from
    \/ streams[i].from = streams[j].from /\ streams[i].date < streams[j].date

RowsInv ==
  /\ \A r \in Demands : r < row => RowLoaded(r)
  /\ \A i \in DOMAIN streams : streams[i].from <= row
  /\ Ordered

LoadInv ==
  /\ Shape
  /\ file # NoFile => Stage /\ RowsInv /\ streams \in Seq(Created)
  /\ RowIsolated
  /\ ExpectationFollowsStreams

-----------------------------------------------------------------------------
(* The fields of a row are distinct, and each is a list, a date or a scalar. *)
LEMMA FieldsDistinct ==
  /\ Len(Fields) = 15
  /\ \A i \in 1 .. 15 : Fields[i] \in FieldNames
  /\ \A i, j \in 1 .. 15 : Fields[i] = Fields[j] => i = j
  /\ \A f \in FieldNames : \E i \in 1 .. 15 : f = Fields[i]
<1>1. Len(Fields) = 15 /\ \A i \in 1 .. 15 : Fields[i] \in FieldNames
  BY DEF Fields, FieldNames, Lists, Categorical, Continuous, Dates, Scalars
<1>2. \A i, j \in 1 .. 15 : Fields[i] = Fields[j] => i = j
  BY DEF Fields
<1>3. /\ Fields[1] = "start" /\ Fields[2] = "end" /\ Fields[3] = "dow" /\ Fields[4] = "key"
      /\ Fields[5] = "pos" /\ Fields[6] = "channel" /\ Fields[7] = "trip" /\ Fields[8] = "stay"
      /\ Fields[9] = "ff" /\ Fields[10] = "fees" /\ Fields[11] = "prefDepTime"
      /\ Fields[12] = "minWTP" /\ Fields[13] = "timeValue" /\ Fields[14] = "dtd"
      /\ Fields[15] = "params"
  BY DEF Fields
<1>4. \A f \in FieldNames : \E i \in 1 .. 15 : f = Fields[i]
  BY <1>3 DEF FieldNames, Lists, Categorical, Continuous, Dates, Scalars
<1>5. QED BY <1>1, <1>2, <1>4

LEMMA FieldKinds ==
  /\ Lists \cap Dates = {} /\ Lists \cap Scalars = {} /\ Dates \cap Scalars = {}
  /\ Lists = Categorical \cup Continuous /\ Categorical \cap Continuous = {}
  /\ FieldNames = Lists \cup Dates \cup Scalars /\ "itMinutes" \notin FieldNames
BY DEF FieldNames, Lists, Categorical, Continuous, Dates, Scalars

(* What the grammar makes of a demand row. *)
LEMMA RowFacts ==
  ASSUME file \in Files \ {NoFile}, NEW r \in Demands
  PROVE  /\ r \in 1 .. Len(file) /\ file[r].kind = "demand"
         /\ \A d \in Dates : file[r][d] \in (0 .. LastDate - 1) \cup {NoDate}
         /\ \A l \in Lists : /\ file[r][l] \in Seq(Range(file[r][l])) /\ Len(file[r][l]) >= 1
                             /\ \A i \in 1 .. Len(file[r][l]) :
                                  file[r][l][i] = [code |-> file[r][l][i].code,
                                                   mass |-> file[r][l][i].mass]
         /\ file[r].params.mean \in Nat
<1>1. r \in 1 .. Len(file) /\ file[r].kind = "demand"
  BY FileAssumption DEF Demands
<1>2. /\ \A d \in Dates : file[r][d] \in (0 .. LastDate - 1) \cup {NoDate}
      /\ \A l \in Lists : file[r][l] # << >>
  BY <1>1, LoadingAssumption DEF Demands
<1>3. /\ file[r].params.mean \in Nat
      /\ \A l \in Lists : /\ file[r][l] \in Seq(Range(file[r][l]))
                          /\ \A p \in Range(file[r][l]) : p = [code |-> p.code, mass |-> p.mass]
  BY <1>1, FileAssumption DEF Demands
<1>4. ASSUME NEW l \in Lists
      PROVE  /\ Len(file[r][l]) >= 1
             /\ \A i \in 1 .. Len(file[r][l]) : file[r][l][i] \in Range(file[r][l])
  <2> DEFINE q == file[r][l]
  <2>1. q \in Seq(Range(q)) /\ q # << >>
    BY <1>2, <1>3
  <2> HIDE DEF q
  <2>2. Len(q) >= 1 /\ \A i \in 1 .. Len(q) : q[i] \in Range(q)
    BY <2>1
  <2>3. QED BY <2>2 DEF q
<1>5. QED BY <1>1, <1>2, <1>3, <1>4

(* In a categorical list, a code stands for itself. *)
LEMMA CodeStands ==
  ASSUME NEW f \in Categorical, NEW code
  PROVE  ValueOf(f, code) = code
BY DEF Categorical, ValueOf

(* A row with nothing read of it. *)
LEMMA FreshStaged ==
  Fresh /\ file \in Files \ {NoFile} /\ row \in Demands => Staged
<1> SUFFICES ASSUME Fresh, file \in Files \ {NoFile}, row \in Demands
             PROVE  Staged
  OBVIOUS
<1>1. \A i \in 1 .. 15 : PairsRead(i) = 0 /\ ~(i < field)
  BY DEF Fresh, PairsRead
<1>2. ASSUME NEW i \in 1 .. 15
      PROVE  FieldStaged(i)
  <2>1. PairsRead(i) = 0 /\ ~(i < field)
    BY <1>1
  <2>2. \A f \in Lists : demand[f] = {}
    BY DEF Fresh
  <2>3. /\ FirstPairs(Fields[i], Current[Fields[i]], 0) = {}
        /\ NoRepeat(Current[Fields[i]], 0)
    BY NoneKept
  <2>4. QED BY <2>1, <2>2, <2>3 DEF FieldStaged
<1>3. Name = "start" /\ field \in 1 .. 15
  BY DEF Fresh, Name, Fields
<1>4. Name \notin Lists
  BY <1>3 DEF Lists, Categorical, Continuous
<1>5. QED BY <1>2, <1>4 DEF Staged, Fresh

-----------------------------------------------------------------------------
(* Storing one item of a row. *)

(* The step to the next pair, or to the next field. *)
Forward ==
  \/ field' = field + 1 /\ item' = 1
  \/ field' = field /\ item' = item + 1

(* The fields that are not being matched are left alone. *)
LEMMA OthersStaged ==
  ASSUME Staged, field \in 1 .. 15, item \in Nat, file' = file, row' = row, Forward,
         \A f \in FieldNames \ {Name} : demand'[f] = demand[f],
         NEW i \in 1 .. 15, i # field
  PROVE  FieldStaged(i)'
<1>1. Fields[i] \in FieldNames \ {Name}
  BY FieldsDistinct DEF Name
<1>2. demand'[Fields[i]] = demand[Fields[i]]
  BY <1>1
<1>3. (i < field') <=> (i < field)
  BY DEF Forward
<1>4. Current' = Current
  BY DEF Current
<1>5. PairsRead(i)' = PairsRead(i)
  BY <1>3, <1>4 DEF PairsRead, Forward
<1>6. FieldStaged(i)
  BY DEF Staged
<1>7. QED BY <1>2, <1>3, <1>4, <1>5, <1>6 DEF FieldStaged

(* The first item of the next field. *)
LEMMA NextField ==
  ASSUME file \in Files \ {NoFile}, row \in Demands, file' = file, row' = row,
         field \in 1 .. 15, field' = field + 1, item' = 1
  PROVE  field' \in 1 .. 15 =>
           IF Name' \in Lists THEN item' \in 1 .. Len(Current'[Name']) ELSE item' = 1
<1>1. Current' = file[row]
  BY DEF Current
<1>2. \A l \in Lists : Len(file[row][l]) >= 1 /\ Len(file[row][l]) \in Nat
  BY RowFacts
<1>3. QED BY <1>1, <1>2

LEMMA ListStaged ==
  ASSUME file \in Files \ {NoFile}, row \in Demands, file' = file, row' = row,
         field \in 1 .. 15, item \in Nat, Staged, Name \in Lists, NextPair,
         \A f \in FieldNames \ {Name} : demand'[f] = demand[f],
         demand'[Name] = Kept(demand[Name], ValueOf(Name, Pair.code), Pair.mass),
         Name \in Categorical => \A k \in 1 .. item - 1 : Current[Name][k].code # Pair.code
  PROVE  Staged' /\ field' \in 1 .. 16 /\ item' \in Nat
<1> DEFINE q == Current[Name]
<1>1. item \in 1 .. Len(q) /\ q \in Seq(Range(q)) /\ Len(q) \in Nat
  BY RowFacts DEF Staged, Current
<1>2. Forward
  BY DEF NextPair, Advance, Forward
<1>3. PICK p \in 1 .. 15 : p = field
  OBVIOUS
<1>4. Current' = Current /\ Fields[p] = Name
  BY <1>3 DEF Current, Name
<1>5. PairsRead(p) = item - 1
  BY <1>3 DEF PairsRead
<1>6. PairsRead(p)' = item
  <2>1. CASE item = Len(q)
    <3>1. field' = field + 1
      BY <2>1 DEF NextPair, Advance
    <3>2. QED BY <3>1, <2>1, <1>3, <1>4 DEF PairsRead
  <2>2. CASE item # Len(q)
    <3>1. field' = field /\ item' = item + 1
      BY <2>2 DEF NextPair
    <3>2. QED BY <3>1, <1>3 DEF PairsRead
  <2>3. QED BY <2>1, <2>2
<1>7. FieldStaged(p)
  BY DEF Staged
<1>8. FieldStaged(p)'
  <2>1. demand'[Name] = FirstPairs(Name, q, item)
    <3>1. demand[Name] = FirstPairs(Name, q, item - 1)
      BY <1>4, <1>5, <1>7 DEF FieldStaged
    <3>2. item \in Nat \ {0}
      BY <1>1
    <3>3. FirstPairs(Name, q, item) = Kept(FirstPairs(Name, q, item - 1), ValueOf(Name, q[item].code), q[item].mass)
      BY <3>2, NextKept
    <3>4. QED BY <3>1, <3>3 DEF Pair
  <2>2. Name \in Categorical => NoRepeat(q, item)
    <3> HAVE Name \in Categorical
    <3>1. NoRepeat(q, item - 1)
      BY <1>4, <1>5, <1>7 DEF FieldStaged
    <3>2. \A k \in 1 .. item - 1 : q[k].code # q[item].code
      BY DEF Pair
    <3>3. \A k \in 1 .. item : k = item \/ k \in 1 .. item - 1
      BY <1>1
    <3>4. QED BY <3>1, <3>2, <3>3 DEF NoRepeat
  <2>3. Name \notin Scalars /\ Name \notin Dates
    BY FieldKinds
  <2>4. QED BY <1>4, <1>6, <2>1, <2>2, <2>3 DEF FieldStaged
<1>9. \A i \in 1 .. 15 : FieldStaged(i)'
  BY <1>2, <1>3, <1>8, OthersStaged
<1>10. field' \in 1 .. 15 =>
         IF Name' \in Lists THEN item' \in 1 .. Len(Current'[Name']) ELSE item' = 1
  <2>1. CASE item = Len(q)
    BY <2>1, NextField DEF NextPair, Advance
  <2>2. CASE item # Len(q)
    <3>1. field' = field /\ item' = item + 1
      BY <2>2 DEF NextPair
    <3>2. Name' = Name
      BY <3>1 DEF Name
    <3>3. item' \in 1 .. Len(Current'[Name'])
      BY <3>1, <3>2, <2>2, <1>1, <1>4
    <3>4. QED BY <3>2, <3>3
  <2>3. QED BY <2>1, <2>2
<1>11. field' \in 1 .. 16 /\ item' \in Nat
  BY <1>2 DEF Forward, NextPair, Advance
<1>12. QED BY <1>9, <1>10, <1>11 DEF Staged

(* A date or a scalar. *)
LEMMA ValueStaged ==
  ASSUME file \in Files \ {NoFile}, row \in Demands, file' = file, row' = row,
         field \in 1 .. 15, item \in Nat, Staged, Name \notin Lists, Advance,
         \A f \in FieldNames \ {Name} : demand'[f] = demand[f],
         Name \in Scalars => demand'[Name] = Current[Name],
         Name \in Dates => Current[Name] # NoDate
                           /\ demand'[Name] = StoredDate(Name, Current[Name])
  PROVE  Staged' /\ field' \in 1 .. 16 /\ item' \in Nat
<1>1. Forward
  BY DEF Advance, Forward
<1>2. PICK p \in 1 .. 15 : p = field
  OBVIOUS
<1>3. Current' = Current /\ Fields[p] = Name
  BY <1>2 DEF Current, Name
<1>4. FieldStaged(p)'
  BY <1>3, FieldKinds DEF FieldStaged
<1>5. \A i \in 1 .. 15 : FieldStaged(i)'
  BY <1>1, <1>2, <1>4, OthersStaged
<1>6. field' \in 1 .. 16 /\ item' \in Nat
  BY DEF Advance
<1>7. QED BY <1>5, <1>6, NextField DEF Staged, Advance

(* Writing one field of the structure. *)
LEMMA OneFieldWritten ==
  ASSUME DemandShape, Name \in FieldNames, NEW v, demand' = [demand EXCEPT ![Name] = v]
  PROVE  /\ DemandShape'
         /\ demand'[Name] = v
         /\ \A f \in FieldNames \ {Name} : demand'[f] = demand[f]
BY FieldKinds DEF DemandShape

LEMMA StoreDateStep ==
  ASSUME file \in Files \ {NoFile}, row \in Demands, file' = file, row' = row,
         field \in 1 .. 15, item \in Nat, DemandShape, Staged, StoreDate
  PROVE  \/ /\ pc' = pc /\ Staged' /\ DemandShape' /\ field' \in 1 .. 16 /\ item' \in Nat
         \/ /\ pc' = "failed" /\ HasNoDate(Current) /\ UNCHANGED <<demand, field, item>>
<1>1. Name \in Dates /\ Name \in FieldNames /\ Name \notin Scalars /\ Name \notin Lists
  BY FieldKinds DEF StoreDate
<1>2. CASE Current[Name] = NoDate
  <2>1. HasNoDate(Current)
    BY <1>1, <1>2 DEF HasNoDate, Dates
  <2>2. QED BY <1>2, <2>1 DEF StoreDate, Fail
<1>3. CASE Current[Name] # NoDate
  <2>1. /\ demand' = [demand EXCEPT ![Name] = StoredDate(Name, Current[Name])]
        /\ Advance /\ pc' = pc
    BY <1>3 DEF StoreDate
  <2>2. /\ DemandShape' /\ demand'[Name] = StoredDate(Name, Current[Name])
        /\ \A f \in FieldNames \ {Name} : demand'[f] = demand[f]
    BY <1>1, <2>1, OneFieldWritten
  <2>3. QED BY <1>1, <1>3, <2>1, <2>2, ValueStaged
<1>4. QED BY <1>2, <1>3

LEMMA StoreScalarStep ==
  ASSUME file \in Files \ {NoFile}, row \in Demands, file' = file, row' = row,
         field \in 1 .. 15, item \in Nat, DemandShape, Staged, StoreScalar
  PROVE  pc' = pc /\ Staged' /\ DemandShape' /\ field' \in 1 .. 16 /\ item' \in Nat
<1>1. Name \in Scalars /\ Name \in FieldNames /\ Name \notin Dates /\ Name \notin Lists
  BY FieldKinds DEF StoreScalar
<1>2. demand' = [demand EXCEPT ![Name] = Current[Name]] /\ Advance /\ pc' = pc
  BY DEF StoreScalar
<1>3. /\ DemandShape' /\ demand'[Name] = Current[Name]
      /\ \A f \in FieldNames \ {Name} : demand'[f] = demand[f]
  BY <1>1, <1>2, OneFieldWritten
<1>4. QED BY <1>1, <1>2, <1>3, ValueStaged

(* A mass is refused exactly when its code is among the pairs read before it. *)
LEMMA StoreMassStep ==
  ASSUME file \in Files \ {NoFile}, row \in Demands, file' = file, row' = row,
         field \in 1 .. 15, item \in Nat, DemandShape, Staged, StoreMass
  PROVE  \/ /\ pc' = pc /\ Staged' /\ DemandShape' /\ field' \in 1 .. 16 /\ item' \in Nat
         \/ /\ pc' = "failed" /\ RepeatsACode(Current) /\ UNCHANGED <<demand, field, item>>
<1> DEFINE q == Current[Name]
<1>1. Name \in Categorical /\ Name \in Lists /\ Name \in FieldNames
  BY FieldKinds DEF StoreMass
<1>2. /\ q \in Seq(Range(q)) /\ Len(q) \in Nat /\ item \in 1 .. Len(q)
      /\ Pair = [code |-> Pair.code, mass |-> Pair.mass]
  <2>1. item \in 1 .. Len(q)
    BY <1>1 DEF Staged
  <2>2. /\ q \in Seq(Range(q)) /\ Len(q) >= 1
        /\ \A i \in 1 .. Len(q) : q[i] = [code |-> q[i].code, mass |-> q[i].mass]
    BY <1>1, RowFacts DEF Current
  <2>3. Pair = q[item]
    BY DEF Pair
  <2> HIDE DEF q
  <2>4. QED BY <2>1, <2>2, <2>3
<1>3. demand[Name] = FirstPairs(Name, q, item - 1)
  <2>1. PICK p \in 1 .. 15 : p = field
    OBVIOUS
  <2>2. FieldStaged(p) /\ PairsRead(p) = item - 1 /\ Fields[p] = Name
    BY <2>1 DEF Staged, PairsRead, Name
  <2>3. QED BY <1>1, <2>2 DEF FieldStaged
<1>4. (\E p \in demand[Name] : p.code = Pair.code) <=> \E k \in 1 .. item - 1 : q[k].code = Pair.code
  <2>1. item - 1 \in Nat
    BY <1>2
  <2>2. \A k \in 1 .. item - 1 : ValueOf(Name, q[k].code) = q[k].code
    BY <1>1, CodeStands
  <2> HIDE DEF q
  <2>3. (\E p \in FirstPairs(Name, q, item - 1) : p.code = Pair.code)
          <=> \E k \in 1 .. item - 1 : ValueOf(Name, q[k].code) = Pair.code
    <3>1. {p.code : p \in FirstPairs(Name, q, item - 1)}
            = {ValueOf(Name, q[k].code) : k \in 1 .. item - 1}
      BY <2>1, KeptValues
    <3>2. QED BY <3>1
  <2>4. QED BY <1>3, <2>2, <2>3
<1>5. CASE \E p \in demand[Name] : p.code = Pair.code
  <2>1. pc' = "failed" /\ UNCHANGED <<demand, field, item>>
    BY <1>5 DEF StoreMass, Fail
  <2>2. PICK k \in 1 .. item - 1 : q[k].code = Pair.code
    BY <1>4, <1>5
  <2>3. k \in DOMAIN q /\ item \in DOMAIN q /\ k # item
    BY <1>2
  <2>4. RepeatsACode(Current)
    BY <1>1, <2>2, <2>3 DEF RepeatsACode, Pair
  <2>5. QED BY <2>1, <2>4
<1>6. CASE ~\E p \in demand[Name] : p.code = Pair.code
  <2>1. demand' = [demand EXCEPT ![Name] = demand[Name] \cup {Pair}] /\ NextPair /\ pc' = pc
    BY <1>6 DEF StoreMass
  <2>2. /\ DemandShape' /\ demand'[Name] = demand[Name] \cup {Pair}
        /\ \A f \in FieldNames \ {Name} : demand'[f] = demand[f]
    BY <1>1, <2>1, OneFieldWritten
  <2>3. ValueOf(Name, Pair.code) = Pair.code
    BY <1>1, CodeStands
  <2>4. demand'[Name] = Kept(demand[Name], ValueOf(Name, Pair.code), Pair.mass)
    BY <1>2, <1>6, <2>2, <2>3 DEF Kept
  <2>5. \A k \in 1 .. item - 1 : Current[Name][k].code # Pair.code
    BY <1>4, <1>6
  <2>6. QED BY <1>1, <2>1, <2>2, <2>4, <2>5, ListStaged
<1>7. QED BY <1>5, <1>6

(* A point; the minutes staged are always those of the time being read. *)
LEMMA StorePointStep ==
  ASSUME file \in Files \ {NoFile}, row \in Demands, file' = file, row' = row,
         field \in 1 .. 15, item \in Nat, DemandShape, Staged,
         StoreTime \/ StoreTimeValue \/ StoreDTD
  PROVE  pc' = pc /\ Staged' /\ DemandShape' /\ field' \in 1 .. 16 /\ item' \in Nat
<1>1. Name \in Continuous /\ Name \in Lists /\ Name \in FieldNames /\ Name \notin Categorical
  BY FieldKinds DEF StoreTime, StoreTimeValue, StoreDTD, Continuous
<1>2. /\ pc' = pc /\ NextPair /\ DemandShape'
      /\ demand'[Name] = Kept(demand[Name], ValueOf(Name, Pair.code), Pair.mass)
      /\ \A f \in FieldNames \ {Name} : demand'[f] = demand[f]
  <2>1. CASE StoreTime
    <3>1. /\ Name = "prefDepTime" /\ pc' = pc /\ NextPair
          /\ demand' = [demand EXCEPT
               !.prefDepTime = Kept(demand.prefDepTime, ValueOf("prefDepTime", Pair.code), Pair.mass),
               !.itMinutes = 0]
      BY <2>1 DEF StoreTime, DemandShape, ValueOf
    <3>2. QED BY <1>1, <3>1, FieldKinds DEF DemandShape
  <2>2. CASE StoreTimeValue
    <3>1. /\ Name = "timeValue" /\ pc' = pc /\ NextPair
          /\ demand' = [demand EXCEPT ![Name] = Kept(demand[Name], ValueOf(Name, Pair.code), Pair.mass)]
      BY <2>2 DEF StoreTimeValue, ValueOf
    <3>2. QED BY <1>1, <3>1, OneFieldWritten
  <2>3. CASE StoreDTD
    <3>1. /\ Name = "dtd" /\ pc' = pc /\ NextPair
          /\ demand' = [demand EXCEPT ![Name] = Kept(demand[Name], ValueOf(Name, Pair.code), Pair.mass)]
      BY <2>3 DEF StoreDTD, ValueOf
    <3>2. QED BY <1>1, <3>1, OneFieldWritten
  <2>4. QED BY <2>1, <2>2, <2>3
<1>3. QED BY <1>1, <1>2, ListStaged

-----------------------------------------------------------------------------
(* The steps that create no stream. *)

LEMMA StreamsKept ==
  ASSUME UNCHANGED <<file, streams, expected>>
  PROVE  /\ Demands' = Demands /\ Created' = Created
         /\ \A r : DatesOfRow(r)' = DatesOfRow(r)
         /\ \A r : RowLoaded(r)' <=> RowLoaded(r)
         /\ (streams \in Seq(Created))' <=> streams \in Seq(Created)
         /\ Ordered' <=> Ordered
         /\ RowIsolated' <=> RowIsolated
         /\ ExpectationFollowsStreams' <=> ExpectationFollowsStreams
<1>1. Demands' = Demands
  BY DEF Demands
<1>2. Created' = Created
  BY <1>1 DEF Created
<1>3. \A r : DatesOfRow(r)' = DatesOfRow(r)
  BY DEF DatesOfRow
<1>4. \A r : RowLoaded(r)' <=> RowLoaded(r)
  BY <1>3 DEF RowLoaded
<1>5. Ordered' <=> Ordered
  BY DEF Ordered
<1>6. RowIsolated' <=> RowIsolated
  BY DEF RowIsolated
<1>7. ExpectationFollowsStreams' <=> ExpectationFollowsStreams
  BY DEF ExpectationFollowsStreams
<1>8. QED BY <1>1, <1>2, <1>3, <1>4, <1>5, <1>6, <1>7

(* What remains to be shown of a step that creates no stream and stays on the row. *)
LEMMA SameRow ==
  ASSUME LoadInv, UNCHANGED <<file, streams, expected>>, row' = row,
         Shape', file # NoFile => Stage'
  PROVE  LoadInv'
<1>1. RowsInv => RowsInv'
  BY StreamsKept DEF RowsInv
<1>2. QED BY <1>1, StreamsKept DEF LoadInv

(* What remains to be shown of a step that creates no stream and leaves the row. *)
LEMMA NextRow ==
  ASSUME LoadInv, UNCHANGED <<file, streams, expected>>, row' = row + 1,
         file # NoFile, row \in Demands => RowLoaded(row),
         Fresh', DemandShape', pc' = "row"
  PROVE  LoadInv'
<1>1. /\ row \in Nat /\ file \in Files /\ RowsInv /\ streams \in Seq(Created)
      /\ RowIsolated /\ ExpectationFollowsStreams
  BY DEF LoadInv, Shape
<1>2. /\ Demands' = Demands /\ \A r : RowLoaded(r)' <=> RowLoaded(r)
      /\ \A r : DatesOfRow(r)' = DatesOfRow(r)
  BY StreamsKept
<1>3. Demands \subseteq Nat
  <2>1. file \in Seq(Range(file))
    BY <1>1, FileAssumption
  <2>2. QED BY <2>1 DEF Demands
<1>4. \A r \in Demands : r < row + 1 => RowLoaded(r)
  BY <1>1, <1>3 DEF RowsInv
<1>5. \A i \in DOMAIN streams : streams[i].from \in Nat /\ streams[i].from <= row
  <2>1. \A i \in DOMAIN streams : streams[i] \in Created
    BY <1>1
  <2>2. \A c \in Created : c.from \in Nat
    BY DEF Created
  <2>3. QED BY <1>1, <2>1, <2>2 DEF RowsInv
<1>6. RowsInv'
  <2>1. (\A r \in Demands : r < row => RowLoaded(r))'
    BY <1>2, <1>4
  <2>2. (\A i \in DOMAIN streams : streams[i].from <= row)'
    BY <1>1, <1>5
  <2>3. Ordered'
    BY <1>1, StreamsKept DEF RowsInv
  <2>4. QED BY <2>1, <2>2, <2>3 DEF RowsInv
<1>7. DatesOfRow(row)' = {}
  BY <1>1, <1>5 DEF DatesOfRow
<1>8. row' \in Demands' => Staged'
  <2>1. file' \in Files \ {NoFile}
    BY <1>1
  <2>2. (Fresh /\ file \in Files \ {NoFile} /\ row \in Demands => Staged)'
    BY FreshStaged, PTL
  <2>3. QED BY <2>1, <2>2
<1>9. Stage'
  BY <1>7, <1>8 DEF Stage
<1>10. Shape'
  BY <1>1 DEF Shape, Fresh
<1>11. QED BY <1>1, <1>6, <1>9, <1>10, StreamsKept DEF LoadInv

LEMMA InitLoad ==
  ASSUME Init
  PROVE  LoadInv
<1>1. /\ Shape /\ Fresh
      /\ pc = "open" /\ row = 1 /\ streams = << >> /\ DOMAIN streams = {}
  BY FieldKinds DEF Init, Shape, DemandShape, Fresh, NoDemand
<1>2. \A r : DatesOfRow(r) = {}
  BY <1>1 DEF DatesOfRow
<1>3. Stage
  BY <1>1, <1>2 DEF Stage
<1>4. ASSUME file # NoFile
      PROVE  RowsInv /\ streams \in Seq(Created)
  <2>1. file \in Seq(Range(file))
    BY <1>1, <1>4, FileAssumption DEF Shape
  <2>2. \A r \in Demands : r \in Nat /\ ~(r < 1)
    BY <2>1 DEF Demands
  <2>3. QED BY <1>1, <2>2 DEF RowsInv, Ordered
<1>5. RowIsolated
  BY <1>1 DEF RowIsolated
<1>6. ExpectationFollowsStreams
  <2> DEFINE means == [i \in DOMAIN streams |-> streams[i].content["params"].mean]
  <2>1. SumFunction(means) = 0
    <3>1. DOMAIN means = {}
      BY <1>1
    <3> HIDE DEF means
    <3>2. QED BY <3>1, SumEmpty DEF SumFunction
  <2>2. QED BY <2>1 DEF ExpectationFollowsStreams, Init
<1>7. QED BY <1>1, <1>3, <1>4, <1>5, <1>6 DEF LoadInv

LEMMA OpenStep ==
  ASSUME LoadInv, Open
  PROVE  LoadInv'
<1>1. /\ UNCHANGED <<file, streams, expected, row, field, item, demand>> /\ pc = "open"
      /\ pc' = IF file = NoFile THEN "failed" ELSE "row"
  BY DEF Open
<1>2. Shape'
  BY <1>1 DEF LoadInv, Shape, DemandShape
<1>3. ASSUME file # NoFile
      PROVE  Stage'
  <2>1. Fresh /\ DatesOfRow(row) = {} /\ file \in Files \ {NoFile} /\ pc' = "row"
    BY <1>1, <1>3 DEF LoadInv, Stage, Shape
  <2>2. Fresh' /\ DatesOfRow(row)' = {}
    BY <1>1, <2>1 DEF Fresh, DatesOfRow
  <2>3. Fresh /\ file \in Files \ {NoFile} /\ row \in Demands => Staged
    BY FreshStaged
  <2>4. (row \in Demands)' <=> row \in Demands
    BY <1>1 DEF Demands
  <2>5. Staged => Staged'
    BY <1>1 DEF Staged, FieldStaged, PairsRead, Current, Name
  <2>6. QED BY <2>1, <2>2, <2>3, <2>4, <2>5 DEF Stage
<1>4. QED BY <1>1, <1>2, <1>3, SameRow

LEMMA SkipStep ==
  ASSUME LoadInv, SkipNotToBeParsed
  PROVE  LoadInv'
<1>1. /\ UNCHANGED <<file, streams, expected, field, item, demand, pc>> /\ pc = "row"
      /\ row' = row + 1 /\ Current.kind = "comment"
  BY DEF SkipNotToBeParsed
<1>2. file # NoFile /\ DemandShape /\ Stage
  BY <1>1 DEF LoadInv, Shape
<1>3. row \notin Demands
  BY <1>1 DEF Demands, Current
<1>4. Fresh
  BY <1>1, <1>2, <1>3 DEF Stage
<1>5. Fresh' /\ DemandShape'
  BY <1>1, <1>2, <1>4 DEF Fresh, DemandShape
<1>6. QED BY <1>1, <1>2, <1>3, <1>5, NextRow

(* The row being matched. *)
LEMMA Matched ==
  ASSUME LoadInv, pc = "row", row <= Len(file), Current.kind = "demand"
  PROVE  /\ file \in Files \ {NoFile} /\ row \in Demands /\ Staged /\ DemandShape
         /\ DatesOfRow(row) = {} /\ field \in 1 .. 16 /\ item \in Nat
<1>1. /\ file \in Files \ {NoFile} /\ Stage /\ DemandShape /\ row \in Nat \ {0}
      /\ field \in 1 .. 16 /\ item \in Nat
  BY DEF LoadInv, Shape
<1>2. file \in Seq(Range(file))
  BY <1>1, FileAssumption
<1>3. row \in Demands
  BY <1>1, <1>2 DEF Demands, Current
<1>4. QED BY <1>1, <1>3 DEF Stage

LEMMA MatchFieldStep ==
  ASSUME LoadInv, MatchField
  PROVE  LoadInv'
<1>1. /\ UNCHANGED <<file, streams, expected>> /\ pc = "row" /\ field <= 15
      /\ row <= Len(file) /\ Current.kind = "demand"
      /\ StoreDate \/ StoreScalar \/ StoreMass \/ StoreTime \/ StoreTimeValue \/ StoreDTD
  BY FieldsDistinct DEF MatchField
<1>2. /\ file \in Files \ {NoFile} /\ row \in Demands /\ Staged /\ DemandShape
      /\ DatesOfRow(row) = {} /\ field \in 1 .. 15 /\ item \in Nat
  BY <1>1, Matched
<1>3. row' = row
  BY <1>1 DEF StoreDate, StoreScalar, StoreMass, StoreTime, StoreTimeValue, StoreDTD, Fail
<1>4. \/ /\ pc' = pc /\ Staged' /\ DemandShape' /\ field' \in 1 .. 16 /\ item' \in Nat
      \/ /\ pc' = "failed" /\ UNCHANGED <<demand, field, item>>
         /\ HasNoDate(Current) \/ RepeatsACode(Current)
  <2>1. CASE StoreDate
    BY <1>1, <1>2, <1>3, <2>1, StoreDateStep
  <2>2. CASE StoreScalar
    BY <1>1, <1>2, <1>3, <2>2, StoreScalarStep
  <2>3. CASE StoreMass
    BY <1>1, <1>2, <1>3, <2>3, StoreMassStep
  <2>4. CASE StoreTime \/ StoreTimeValue \/ StoreDTD
    BY <1>1, <1>2, <1>3, <2>4, StorePointStep
  <2>5. QED BY <1>1, <2>1, <2>2, <2>3, <2>4
<1>5. Shape'
  BY <1>1, <1>2, <1>3, <1>4 DEF LoadInv, Shape, DemandShape
<1>6. DatesOfRow(row)' = {} /\ row' \in Demands' /\ Current' = Current
  BY <1>1, <1>2, <1>3 DEF DatesOfRow, Demands, Current
<1>7. Stage'
  BY <1>1, <1>4, <1>6 DEF Stage
<1>8. QED BY <1>1, <1>3, <1>5, <1>7, SameRow

(* What a row that is read to its end leaves in the structure. *)
LEMMA AllStaged ==
  ASSUME Staged, field = 16
  PROVE  /\ \A f \in Lists : demand[f] = FirstPairs(f, Current[f], Len(Current[f]))
         /\ \A f \in Categorical : NoRepeat(Current[f], Len(Current[f]))
         /\ \A f \in Scalars : demand[f] = Current[f]
         /\ \A f \in Dates : Current[f] # NoDate /\ demand[f] = StoredDate(f, Current[f])
<1>1. ASSUME NEW f \in FieldNames
      PROVE  /\ f \in Lists => demand[f] = FirstPairs(f, Current[f], Len(Current[f]))
             /\ f \in Categorical => NoRepeat(Current[f], Len(Current[f]))
             /\ f \in Scalars => demand[f] = Current[f]
             /\ f \in Dates => Current[f] # NoDate /\ demand[f] = StoredDate(f, Current[f])
  <2>1. PICK i \in 1 .. 15 : f = Fields[i]
    BY FieldsDistinct
  <2>2. FieldStaged(i) /\ i < field /\ PairsRead(i) = Len(Current[f])
    BY <2>1 DEF Staged, PairsRead
  <2>3. QED BY <2>1, <2>2 DEF FieldStaged
<1>2. QED BY <1>1, FieldKinds

LEMMA MatchEndStep ==
  ASSUME LoadInv, MatchEnd
  PROVE  LoadInv'
<1>1. /\ UNCHANGED <<file, streams, expected, row, field, item, demand>> /\ pc = "row"
      /\ row <= Len(file) /\ Current.kind = "demand" /\ field = 16
      /\ pc' = "days" /\ day' = demand["start"]
  BY FieldsDistinct DEF MatchEnd
<1>2. /\ file \in Files \ {NoFile} /\ row \in Demands /\ Staged /\ DemandShape
      /\ DatesOfRow(row) = {}
  BY <1>1, Matched
<1>3. Shape'
  BY <1>1, <1>2 DEF LoadInv, Shape, DemandShape
<1>4. /\ DatesOfRow(row)' = {} /\ row' \in Demands' /\ Current' = Current /\ Staged'
      /\ field' = 16
  <2>1. DatesOfRow(row)' = {} /\ row' \in Demands' /\ Current' = Current /\ field' = 16
    BY <1>1, <1>2 DEF DatesOfRow, Demands, Current
  <2>2. \A i \in 1 .. 15 : FieldStaged(i)'
    BY <1>1, <1>2 DEF Staged, FieldStaged, PairsRead, Current
  <2>3. QED BY <2>1, <2>2 DEF Staged
<1>5. /\ Current["start"] # NoDate /\ Current["end"] # NoDate
      /\ demand["start"] = Current["start"]
  BY <1>1, <1>2, AllStaged DEF Dates, StoredDate
<1>6. Current["start"] \in 0 .. LastDate - 1 /\ Current["end"] \in 0 .. LastDate - 1 /\ LastDate \in Nat
  BY <1>2, <1>5, RowFacts, LoadingAssumption DEF Dates, Current
<1>7. day' \in Current["start"] .. LastDate + 1 /\ Current["start"] .. day' - 1 = {}
  BY <1>1, <1>5, <1>6
<1>8. ~IsReversed(Current) => day' <= Current["end"] + 1
  BY <1>1, <1>5, <1>6 DEF IsReversed
<1>9. Stage'
  BY <1>1, <1>4, <1>7, <1>8 DEF Stage
<1>10. QED BY <1>1, <1>3, <1>9, SameRow

LEMMA StopStep ==
  ASSUME LoadInv, StopParsing
  PROVE  LoadInv'
<1>1. UNCHANGED <<file, streams, expected, row, field, item, demand>> /\ pc = "row" /\ pc' = "done"
  BY DEF StopParsing
<1>2. Shape'
  BY <1>1 DEF LoadInv, Shape, DemandShape
<1>3. ASSUME file # NoFile
      PROVE  Stage'
  <2>1. DatesOfRow(row) = {}
    BY <1>1, <1>3 DEF LoadInv, Stage
  <2>2. DatesOfRow(row)' = {}
    BY <1>1, <2>1 DEF DatesOfRow
  <2>3. QED BY <1>1, <2>2 DEF Stage
<1>4. QED BY <1>1, <1>2, <1>3, SameRow

-----------------------------------------------------------------------------
(* The days of a row. *)

(* A row whose days are being created. *)
LEMMA InDays ==
  ASSUME LoadInv, pc = "days"
  PROVE  /\ file \in Files \ {NoFile} /\ row \in Demands /\ row \in Nat /\ Current = file[row]
         /\ Current["start"] \in 0 .. LastDate - 1 /\ Current["end"] \in 0 .. LastDate - 1
         /\ LastDate \in Nat /\ day \in Current["start"] .. LastDate + 1
         /\ demand["end"] = Current["end"] + 1
         /\ ~IsReversed(Current) => day <= Current["end"] + 1
         /\ DatesOfRow(row) = {d \in Current["start"] .. day - 1 : IsDoWActive(d, Current["dow"])}
         /\ ~HasNoDate(Current) /\ ~RepeatsACode(Current)
         /\ Content(demand) = OwnContent(Current) /\ demand["dow"] = Current["dow"]
         /\ demand["params"] = Current["params"] /\ Current["params"].mean \in Nat
<1>1. /\ file \in Files \ {NoFile} /\ row \in Demands /\ Staged /\ field = 16 /\ row \in Nat
      /\ day \in Current["start"] .. LastDate + 1
      /\ ~IsReversed(Current) => day <= Current["end"] + 1
      /\ DatesOfRow(row) = {d \in Current["start"] .. day - 1 : IsDoWActive(d, Current["dow"])}
  BY DEF LoadInv, Stage, Shape
<1>2. /\ \A f \in Lists : demand[f] = FirstPairs(f, Current[f], Len(Current[f]))
      /\ \A f \in Categorical : NoRepeat(Current[f], Len(Current[f]))
      /\ \A f \in Scalars : demand[f] = Current[f]
      /\ \A f \in Dates : Current[f] # NoDate /\ demand[f] = StoredDate(f, Current[f])
  BY <1>1, AllStaged
<1>3. Current = file[row]
  BY DEF Current
<1>4. /\ Current["start"] \in 0 .. LastDate - 1 /\ Current["end"] \in 0 .. LastDate - 1
      /\ LastDate \in Nat /\ Current["params"].mean \in Nat
  BY <1>1, <1>2, <1>3, RowFacts, LoadingAssumption DEF Dates
<1>5. ~HasNoDate(Current) /\ demand["end"] = Current["end"] + 1
  BY <1>2 DEF HasNoDate, Dates, StoredDate
<1>6. ~RepeatsACode(Current)
  <2>1. ASSUME NEW f \in Categorical
        PROVE  DOMAIN Current[f] = 1 .. Len(Current[f])
    <3>1. Current[f] \in Seq(Range(Current[f]))
      BY <1>1, <1>3, RowFacts, FieldKinds
    <3> DEFINE q == Current[f]
    <3> HIDE DEF q
    <3>2. q \in Seq(Range(q)) => DOMAIN q = 1 .. Len(q)
      OBVIOUS
    <3>3. QED BY <3>1, <3>2 DEF q
  <2>2. QED BY <1>2, <2>1 DEF RepeatsACode, NoRepeat
<1>7. demand["dow"] = Current["dow"] /\ demand["params"] = Current["params"]
  BY <1>2 DEF Scalars
<1>8. Content(demand) = OwnContent(Current)
  <2>1. \A f \in ContentFields : f \in Lists \/ f \in Scalars
    BY DEF ContentFields
  <2>2. QED BY <1>2, <2>1 DEF Content, OwnContent
<1>9. QED BY <1>1, <1>3, <1>4, <1>5, <1>6, <1>7, <1>8

(* A new stream is the last of its row. *)
LEMMA StreamAdded ==
  ASSUME file \in Files \ {NoFile}, row \in Demands, row \in Nat, day \in Int,
         streams \in Seq(Created), RowsInv, RowIsolated, ExpectationFollowsStreams,
         \A d \in DatesOfRow(row) : d < day,
         NEW c, c = [from |-> row, date |-> day, content |-> OwnContent(file[row])],
         file' = file, row' = row, streams' = Append(streams, c),
         expected' = expected + file[row]["params"].mean
  PROVE  /\ RowsInv' /\ (streams \in Seq(Created))'
         /\ RowIsolated' /\ ExpectationFollowsStreams'
         /\ DatesOfRow(row)' = DatesOfRow(row) \cup {day}
<1> DEFINE n == Len(streams)
<1>1. Demands' = Demands /\ Created' = Created /\ c \in Created
  BY DEF Demands, Created
<1>2. /\ n \in Nat /\ DOMAIN streams = 1 .. n /\ DOMAIN streams' = (1 .. n) \cup {n + 1}
      /\ \A i \in 1 .. n : streams'[i] = streams[i] /\ streams[i] \in Created
      /\ streams'[n + 1] = c /\ streams' \in Seq(Created)
  BY <1>1
<1>3. \A i \in 1 .. n : streams[i].from \in Nat /\ streams[i].date \in Int
                        /\ streams[i].from <= row
  <2>1. \A b \in Created : b.from \in Nat /\ b.date \in Int
    BY DEF Created
  <2>2. \A i \in 1 .. n : streams[i].from <= row
    BY <1>2 DEF RowsInv
  <2>3. QED BY <1>2, <2>1, <2>2
<1> HIDE DEF n
<1>4. \A r : r # row => DatesOfRow(r)' = DatesOfRow(r)
  BY <1>2 DEF DatesOfRow
<1>5. DatesOfRow(row)' = DatesOfRow(row) \cup {day}
  BY <1>2 DEF DatesOfRow
<1>6. RowsInv'
  <2>1. (\A r \in Demands : r < row => RowLoaded(r))'
    <3>1. \A r \in Demands : r < row => RowLoaded(r) /\ r # row
      BY DEF RowsInv
    <3>2. \A r \in Demands : r < row => RowLoaded(r)'
      BY <1>4, <3>1 DEF RowLoaded
    <3>3. QED BY <1>1, <3>2
  <2>2. (\A i \in DOMAIN streams : streams[i].from <= row)'
    BY <1>2, <1>3
  <2>3. Ordered'
    <3>1. Ordered
      BY DEF RowsInv
    <3>2. ASSUME NEW i \in 1 .. n
          PROVE  streams[i].from < row \/ (streams[i].from = row /\ streams[i].date < day)
      <4>1. streams[i].from = row => streams[i].date \in DatesOfRow(row)
        BY <1>2 DEF DatesOfRow
      <4>2. QED BY <1>3, <4>1
    <3>3. QED BY <1>2, <3>1, <3>2 DEF Ordered
  <2>4. QED BY <2>1, <2>2, <2>3 DEF RowsInv
<1>7. RowIsolated'
  BY <1>2 DEF RowIsolated
<1>8. ExpectationFollowsStreams'
  <2> DEFINE mean(i) == streams[i].content["params"].mean
             means == [i \in DOMAIN streams |-> mean(i)]
             v == file[row]["params"].mean
  <2>1. v \in Nat
    BY RowFacts
  <2>2. \A i \in 1 .. n : mean(i) \in Nat
    <3>1. \A r \in Demands : OwnContent(file[r])["params"].mean \in Nat
      <4>1. "params" \in ContentFields /\ "params" \notin Lists
        BY DEF ContentFields, Scalars, Lists, Categorical, Continuous
      <4>2. \A r \in Demands : OwnContent(file[r])["params"] = file[r]["params"]
        BY <4>1 DEF OwnContent
      <4>3. QED BY <4>2, RowFacts
    <3>2. \A b \in Created : b.content["params"].mean \in Nat
      BY <3>1 DEF Created
    <3>3. QED BY <1>2, <3>2
  <2>3. c.content["params"].mean = v
    BY DEF OwnContent, ContentFields, Scalars, Lists, Categorical, Continuous
  <2>4. means \in Seq(Int)
    BY <1>2, <2>2
  <2>5. [i \in DOMAIN streams' |-> streams'[i].content["params"].mean] = Append(means, v)
    BY <1>2, <2>3
  <2>6. SumFunction(Append(means, v)) = SumFunction(means) + v
    BY <2>1, <2>4, SumAppend
  <2>7. expected = SumFunction(means)
    BY DEF ExpectationFollowsStreams
  <2>8. QED BY <2>5, <2>6, <2>7 DEF ExpectationFollowsStreams
<1>9. QED BY <1>1, <1>2, <1>5, <1>6, <1>7, <1>8

LEMMA CreateDayStep ==
  ASSUME LoadInv, CreateDay
  PROVE  LoadInv'
<1>1. /\ pc = "days" /\ day # demand["end"] /\ day <= LastDate /\ day' = day + 1
      /\ UNCHANGED <<file, pc, row, field, item, demand>>
  BY DEF CreateDay
<1>2. /\ file \in Files \ {NoFile} /\ row \in Demands /\ row \in Nat /\ Current = file[row]
      /\ Current["start"] \in 0 .. LastDate - 1 /\ Current["end"] \in 0 .. LastDate - 1
      /\ LastDate \in Nat /\ day \in Current["start"] .. LastDate + 1
      /\ demand["end"] = Current["end"] + 1
      /\ ~IsReversed(Current) => day <= Current["end"] + 1
      /\ DatesOfRow(row) = {d \in Current["start"] .. day - 1 : IsDoWActive(d, Current["dow"])}
      /\ Content(demand) = OwnContent(Current) /\ demand["dow"] = Current["dow"]
      /\ demand["params"] = Current["params"]
  BY <1>1, InDays
<1>3. /\ RowsInv /\ streams \in Seq(Created) /\ RowIsolated /\ ExpectationFollowsStreams
      /\ Shape /\ Stage
  BY <1>2 DEF LoadInv
<1>4. /\ RowsInv' /\ (streams \in Seq(Created))' /\ RowIsolated' /\ ExpectationFollowsStreams'
      /\ DatesOfRow(row)' = {d \in Current["start"] .. day : IsDoWActive(d, Current["dow"])}
  <2>1. Current["start"] .. day = (Current["start"] .. day - 1) \cup {day}
    BY <1>2
  <2>2. CASE IsDoWActive(day, demand["dow"])
    <3>1. /\ streams' = Append(streams, [from |-> row, date |-> day,
                                         content |-> OwnContent(file[row])])
          /\ expected' = expected + file[row]["params"].mean
      BY <1>2, <2>2 DEF CreateDay
    <3>2. \A d \in DatesOfRow(row) : d < day
      BY <1>2
    <3>3. day \in Int
      BY <1>2
    <3>4. /\ RowsInv' /\ (streams \in Seq(Created))'
          /\ RowIsolated' /\ ExpectationFollowsStreams'
          /\ DatesOfRow(row)' = DatesOfRow(row) \cup {day}
      BY <1>1, <1>2, <1>3, <3>1, <3>2, <3>3, StreamAdded
    <3>5. QED BY <1>2, <2>1, <2>2, <3>4
  <2>3. CASE ~IsDoWActive(day, demand["dow"])
    <3>1. UNCHANGED <<streams, expected>>
      BY <2>3 DEF CreateDay
    <3>2. DatesOfRow(row)' = DatesOfRow(row)
      BY <1>1, <3>1 DEF DatesOfRow
    <3>3. RowsInv'
      BY <1>1, <1>3, <3>1, StreamsKept DEF RowsInv
    <3>4. QED BY <1>1, <1>2, <1>3, <2>1, <2>3, <3>1, <3>2, <3>3, StreamsKept
  <2>4. QED BY <2>2, <2>3
<1>5. Shape'
  BY <1>1, <1>2, <1>3 DEF Shape, DemandShape
<1>6. Stage'
  <2>1. Staged /\ field = 16
    BY <1>1, <1>3 DEF Stage
  <2>2. row' \in Demands' /\ Current' = Current
    BY <1>1, <1>2 DEF Demands, Current
  <2>3. \A i \in 1 .. 15 : FieldStaged(i)'
    BY <1>1, <2>1, <2>2 DEF Staged, FieldStaged, PairsRead
  <2>4. Staged' /\ field' = 16
    BY <1>1, <2>1, <2>3 DEF Staged
  <2>5. /\ day' \in Current["start"] .. LastDate + 1 /\ day' - 1 = day
        /\ ~IsReversed(Current) => day' <= Current["end"] + 1
    BY <1>1, <1>2
  <2>6. QED BY <1>1, <1>4, <2>2, <2>4, <2>5 DEF Stage
<1>7. QED BY <1>1, <1>2, <1>4, <1>5, <1>6 DEF LoadInv

LEMMA CalendarEndsStep ==
  ASSUME LoadInv, CalendarEnds
  PROVE  LoadInv'
<1>1. /\ UNCHANGED <<file, streams, expected, row, field, item, demand>> /\ pc = "days"
      /\ day # demand["end"] /\ day > LastDate /\ pc' = "failed"
  BY DEF CalendarEnds, Fail
<1>2. /\ file \in Files \ {NoFile} /\ row \in Demands
      /\ Current["end"] \in 0 .. LastDate - 1
      /\ LastDate \in Nat /\ day \in Current["start"] .. LastDate + 1
      /\ Current["start"] \in Int
      /\ ~IsReversed(Current) => day <= Current["end"] + 1
      /\ DatesOfRow(row) = {d \in Current["start"] .. day - 1 : IsDoWActive(d, Current["dow"])}
      /\ ~HasNoDate(Current) /\ ~RepeatsACode(Current)
  BY <1>1, InDays
<1>3. day - 1 = LastDate /\ IsReversed(Current)
  BY <1>1, <1>2
<1>4. DatesOfRow(row) = OwnDays(Current)
  BY <1>2, <1>3 DEF OwnDays
<1>5. Shape'
  BY <1>1, <1>2 DEF LoadInv, Shape, DemandShape
<1>6. DatesOfRow(row)' = DatesOfRow(row) /\ row' \in Demands' /\ Current' = Current
  BY <1>1, <1>2 DEF DatesOfRow, Demands, Current
<1>7. Stage'
  BY <1>1, <1>2, <1>3, <1>4, <1>6 DEF Stage
<1>8. QED BY <1>1, <1>5, <1>7, SameRow

LEMMA ClearListsStep ==
  ASSUME LoadInv, ClearLists
  PROVE  LoadInv'
<1>1. /\ UNCHANGED <<file, streams, expected>> /\ pc = "days" /\ day = demand["end"]
      /\ demand' = [f \in DOMAIN demand |-> IF f \in Lists THEN {} ELSE demand[f]]
      /\ pc' = "row" /\ row' = row + 1 /\ field' = 1 /\ item' = 1
  BY DEF ClearLists
<1>2. /\ file \in Files \ {NoFile} /\ row \in Demands /\ Current = file[row]
      /\ Current["end"] \in 0 .. LastDate - 1
      /\ LastDate \in Nat /\ day \in Current["start"] .. LastDate + 1
      /\ Current["start"] \in Int
      /\ demand["end"] = Current["end"] + 1
      /\ ~IsReversed(Current) => day <= Current["end"] + 1
      /\ DatesOfRow(row) = {d \in Current["start"] .. day - 1 : IsDoWActive(d, Current["dow"])}
      /\ ~HasNoDate(Current) /\ ~RepeatsACode(Current)
  BY <1>1, InDays
<1>3. day - 1 = Current["end"] /\ ~IsReversed(Current)
  BY <1>1, <1>2 DEF IsReversed
<1>4. RowLoaded(row)
  BY <1>2, <1>3 DEF RowLoaded, OwnDays
<1>5. DemandShape
  BY DEF LoadInv, Shape
<1>6. Fresh' /\ DemandShape'
  BY <1>1, <1>5, FieldKinds DEF Fresh, DemandShape
<1>7. QED BY <1>1, <1>2, <1>4, <1>6, NextRow

LEMMA LoadStep ==
  ASSUME LoadInv, [Next]_vars
  PROVE  LoadInv'
<1>1. CASE Open
  BY <1>1, OpenStep
<1>2. CASE SkipNotToBeParsed
  BY <1>2, SkipStep
<1>3. CASE MatchField
  BY <1>3, MatchFieldStep
<1>4. CASE MatchEnd
  BY <1>4, MatchEndStep
<1>5. CASE StopParsing
  BY <1>5, StopStep
<1>6. CASE CreateDay
  BY <1>6, CreateDayStep
<1>7. CASE CalendarEnds
  BY <1>7, CalendarEndsStep
<1>8. CASE ClearLists
  BY <1>8, ClearListsStep
<1>9. CASE UNCHANGED vars
  <2>1. UNCHANGED <<file, pc, row, field, item, demand, day, streams, expected>>
    BY <1>9 DEF vars
  <2>2. Shape'
    BY <2>1 DEF LoadInv, Shape, DemandShape
  <2>3. Current' = Current /\ Demands' = Demands /\ DatesOfRow(row)' = DatesOfRow(row)
    BY <2>1 DEF Current, Demands, DatesOfRow
  <2>4. Staged => Staged'
    <3>1. Staged => \A i \in 1 .. 15 : FieldStaged(i)'
      BY <2>1, <2>3 DEF Staged, FieldStaged, PairsRead
    <3>2. QED BY <2>1, <2>3, <3>1 DEF Staged, Name
  <2>5. Fresh => Fresh'
    BY <2>1 DEF Fresh
  <2>6. Stage => Stage'
    BY <2>1, <2>3, <2>4, <2>5 DEF Stage
  <2>7. QED BY <2>1, <2>2, <2>6, SameRow DEF LoadInv
<1>10. QED BY <1>1, <1>2, <1>3, <1>4, <1>5, <1>6, <1>7, <1>8, <1>9 DEF Next, Step, Terminating

LEMMA LoadAlways ==
  Spec => []LoadInv
<1>1. Init => LoadInv
  BY InitLoad
<1>2. LoadInv /\ [Next]_vars => LoadInv'
  BY LoadStep
<1>3. QED BY <1>1, <1>2, PTL DEF Spec

-----------------------------------------------------------------------------
(* The theorems. *)

(* Each stream carries the content of its own row: no mass, point or minutes of
   another row remains in the shared structure when its days are created. *)
THEOREM RowIsolatedHolds ==
  Spec => []RowIsolated
<1>1. LoadInv => RowIsolated
  BY DEF LoadInv
<1>2. QED BY <1>1, LoadAlways, PTL

(* What a load leaves, whether it returns or throws, is what the rows before the
   end say, a stream per active day, in order. *)
THEOREM PrefixLoadedHolds ==
  Spec => []PrefixLoaded
<1>1. ASSUME LoadInv, pc \in {"done", "failed"}, file # NoFile
      PROVE  /\ \A r \in Demands :
                  DatesOfRow(r) =
                    IF r < row \/ (r = row /\ pc = "failed" /\ ~HasNoDate(file[r])
                                     /\ ~RepeatsACode(file[r]) /\ IsReversed(file[r]))
                    THEN OwnDays(file[r]) ELSE {}
             /\ Ordered
  <2>1. Stage /\ RowsInv /\ row \in Nat /\ file \in Files \ {NoFile}
    BY <1>1 DEF LoadInv, Shape
  <2>2. file \in Seq(Range(file))
    BY <2>1, FileAssumption
  <2>3. ASSUME NEW r \in Demands
        PROVE  DatesOfRow(r) =
                 IF r < row \/ (r = row /\ pc = "failed" /\ ~HasNoDate(file[r])
                                  /\ ~RepeatsACode(file[r]) /\ IsReversed(file[r]))
                 THEN OwnDays(file[r]) ELSE {}
    <3>1. r \in Nat
      BY <2>2 DEF Demands
    <3>2. CASE r < row
      BY <2>1, <3>2 DEF RowsInv, RowLoaded
    <3>3. CASE r = row
      BY <1>1, <2>1, <3>3 DEF Stage, Current
    <3>4. CASE r > row
      <4>1. DatesOfRow(r) = {}
        <5>1. \A i \in DOMAIN streams : streams[i].from <= row
          BY <2>1 DEF RowsInv
        <5>2. QED BY <2>1, <3>1, <3>4, <5>1 DEF DatesOfRow
      <4>2. QED BY <2>1, <3>1, <3>4, <4>1
    <3>5. QED BY <2>1, <3>1, <3>2, <3>3, <3>4
  <2>4. QED BY <2>1, <2>3 DEF RowsInv
<1>2. LoadInv => PrefixLoaded
  BY <1>1 DEF PrefixLoaded, Ordered
<1>3. QED BY <1>2, LoadAlways, PTL

(* A load that returns met no impossible date, repeated code or reversed range. *)
THEOREM NoErrorIsSwallowedHolds ==
  Spec => []NoErrorIsSwallowed
<1>1. LoadInv => NoErrorIsSwallowed
  <2>1. LoadInv /\ pc = "done" => RowsInv
    BY DEF LoadInv, Shape
  <2>2. QED BY <2>1 DEF NoErrorIsSwallowed, RowsInv, RowLoaded
<1>2. QED BY <1>1, LoadAlways, PTL

(* At every point of the load, failed or not, the expectation of the service is
   the sum of the means of the streams it has. *)
THEOREM ExpectationFollowsStreamsHolds ==
  Spec => []ExpectationFollowsStreams
<1>1. LoadInv => ExpectationFollowsStreams
  BY DEF LoadInv
<1>2. QED BY <1>1, LoadAlways, PTL

-----------------------------------------------------------------------------
(* Why a load ends: each of its steps lowers a rank. *)

(* The rows still to be read never become negative: the load stops after the last. *)
RowBound == file # NoFile => row <= Len(file) + 1

(* What is left of the load (2 before the file is open, 1 while it is read, 0 when
   it ended), of the rows, of the fields of the row, of the pairs of the field and of
   the days, the last of which is at most a day after the end of the calendar. *)
LoadRank ==
  <<IF pc = "open" THEN 2 ELSE IF pc \in {"row", "days"} THEN 1 ELSE 0,
    IF file = NoFile THEN 0 ELSE Len(file) + 1 - row,
    16 - field,
    IF pc = "row" /\ row \in Demands /\ field <= 15 /\ Name \in Lists
    THEN Len(Current[Name]) - item ELSE 0,
    IF pc = "days" THEN LastDate + 1 - day ELSE LastDate + 2>>

LoadDescends ==
  /\ \A i \in 1 .. 5 : LoadRank[i] \in Nat /\ LoadRank'[i] \in Nat
  /\ Below(5, LoadRank', LoadRank)

LEMMA RowBoundAlways ==
  Spec => []RowBound
<1>1. Init => RowBound
  BY FileAssumption DEF Init, RowBound
<1>2. LoadInv /\ RowBound /\ [Next]_vars => RowBound'
  <2> SUFFICES ASSUME LoadInv, RowBound, [Next]_vars, file' # NoFile
               PROVE  row' <= Len(file') + 1
    BY DEF RowBound
  <2>1. file' = file /\ (row' = row \/ (row' = row + 1 /\ row <= Len(file)))
    <3>1. CASE SkipNotToBeParsed
      BY <3>1 DEF SkipNotToBeParsed
    <3>2. CASE ClearLists
      BY <3>2, InDays, RowFacts DEF ClearLists
    <3>3. CASE MatchField
      BY <3>3 DEF MatchField, StoreDate, StoreScalar, StoreMass, StoreTime, StoreTimeValue,
                  StoreDTD, Fail
    <3>4. CASE Open \/ MatchEnd \/ StopParsing \/ CreateDay \/ CalendarEnds
      BY <3>4 DEF Open, MatchEnd, StopParsing, CreateDay, CalendarEnds, Fail
    <3>5. CASE UNCHANGED vars
      BY <3>5 DEF vars
    <3>6. QED BY <3>1, <3>2, <3>3, <3>4, <3>5 DEF Next, Step, Terminating
  <2>2. row \in Nat /\ Len(file) \in Nat /\ row <= Len(file) + 1
    BY <2>1, FileAssumption DEF LoadInv, Shape, RowBound
  <2>3. QED BY <2>1, <2>2
<1>3. QED BY <1>1, <1>2, LoadAlways, PTL DEF Spec

(* What is left is never negative. *)
LEMMA LoadRankNatural ==
  ASSUME LoadInv, RowBound
  PROVE  \A i \in 1 .. 5 : LoadRank[i] \in Nat
<1>1. /\ file \in Files /\ row \in Nat \ {0} /\ field \in 1 .. 16 /\ item \in Nat
      /\ LastDate \in Nat
  BY LoadingAssumption DEF LoadInv, Shape
<1>2. LoadRank[1] \in Nat /\ LoadRank[3] \in Nat
  BY <1>1 DEF LoadRank
<1>3. LoadRank[2] \in Nat
  <2>1. file # NoFile => Len(file) \in Nat /\ row <= Len(file) + 1
    BY <1>1, FileAssumption DEF RowBound
  <2>2. QED BY <1>1, <2>1 DEF LoadRank
<1>4. LoadRank[4] \in Nat
  <2>1. ASSUME pc = "row", row \in Demands, field <= 15, Name \in Lists
        PROVE  Len(Current[Name]) - item \in Nat
    <3>1. file # NoFile
      BY <2>1 DEF LoadInv, Shape
    <3>2. Staged
      BY <2>1, <3>1 DEF LoadInv, Stage
    <3>3. item \in 1 .. Len(Current[Name])
      BY <1>1, <2>1, <3>2 DEF Staged
    <3>4. Len(Current[Name]) \in Nat
      BY <1>1, <2>1, <3>1, RowFacts DEF Current
    <3>5. QED BY <3>3, <3>4
  <2>2. LoadRank[4] = IF pc = "row" /\ row \in Demands /\ field <= 15 /\ Name \in Lists
                      THEN Len(Current[Name]) - item ELSE 0
    BY DEF LoadRank
  <2>3. QED BY <2>1, <2>2
<1>5. LoadRank[5] \in Nat
  <2>1. pc = "days" => LastDate + 1 - day \in Nat
    BY InDays
  <2>2. QED BY <1>1, <2>1 DEF LoadRank
<1>6. QED BY <1>2, <1>3, <1>4, <1>5

(* A step of the load leads to a phase, a row, a field, a pair or a day further on. *)
LEMMA FieldLowers ==
  ASSUME LoadInv, RowBound, MatchField
  PROVE  Below(5, LoadRank', LoadRank)
<1>1. /\ pc = "row" /\ row <= Len(file) /\ Current.kind = "demand" /\ field <= 15
      /\ file' = file
  BY FieldsDistinct DEF MatchField
<1>2. /\ file \in Files \ {NoFile} /\ row \in Demands /\ field \in 1 .. 15 /\ item \in Nat
      /\ LoadRank[1] = 1
  <2>1. file # NoFile /\ file \in Files /\ row \in Nat \ {0} /\ field \in 1 .. 16 /\ item \in Nat
    BY <1>1 DEF LoadInv, Shape
  <2>2. DOMAIN file = 1 .. Len(file) /\ Len(file) \in Nat
    BY <2>1, FileAssumption
  <2>3. QED BY <1>1, <2>1, <2>2 DEF Demands, Current, LoadRank
<1>3. CASE Fail
  <2>1. LoadRank'[1] = 0
    BY <1>3 DEF Fail, LoadRank
  <2>2. QED BY <1>2, <2>1 DEF Below
<1>4. CASE Advance /\ UNCHANGED <<pc, row, day>>
  <2>1. /\ LoadRank'[1] = LoadRank[1] /\ LoadRank'[2] = LoadRank[2]
        /\ LoadRank'[3] < LoadRank[3]
    BY <1>1, <1>2, <1>4 DEF Advance, LoadRank
  <2>2. QED BY <2>1 DEF Below
<1>5. CASE Name \in Lists /\ field' = field /\ item' = item + 1 /\ UNCHANGED <<pc, row, day>>
  <2>1. Name' = Name /\ Current' = Current /\ Demands' = Demands
    BY <1>1, <1>5 DEF Name, Current, Demands
  <2>2. Len(Current[Name]) \in Nat
    BY <1>2, <1>5, RowFacts DEF Current
  <2>3. LoadRank[4] = Len(Current[Name]) - item
    BY <1>1, <1>2, <1>5 DEF LoadRank
  <2>4. LoadRank'[4] = Len(Current[Name]) - (item + 1)
    BY <1>1, <1>2, <1>5, <2>1 DEF LoadRank
  <2>5. \A i \in 1 .. 3 : LoadRank'[i] = LoadRank[i]
    BY <1>1, <1>5 DEF LoadRank
  <2>6. LoadRank'[4] < LoadRank[4]
    BY <1>2, <2>2, <2>3, <2>4
  <2>7. QED BY <2>5, <2>6 DEF Below
<1>6. \/ Fail
      \/ /\ Advance \/ (Name \in Lists /\ field' = field /\ item' = item + 1)
         /\ UNCHANGED <<pc, row, day>>
  <2>1. NextPair => Advance \/ (field' = field /\ item' = item + 1)
    BY DEF NextPair
  <2>2. CASE StoreDate \/ StoreScalar
    BY <2>2 DEF StoreDate, StoreScalar
  <2>3. CASE StoreMass
    BY <2>1, <2>3, FieldKinds DEF StoreMass
  <2>4. CASE StoreTime \/ StoreTimeValue \/ StoreDTD
    BY <2>1, <2>4 DEF StoreTime, StoreTimeValue, StoreDTD, Lists, Continuous
  <2>5. QED BY <2>2, <2>3, <2>4 DEF MatchField
<1>7. QED BY <1>3, <1>4, <1>5, <1>6

DaysInCalendar == day \in Nat /\ day <= LastDate + 1

LEMMA DayInCalendar ==
  LoadInv /\ pc = "days" => DaysInCalendar
BY InDays DEF DaysInCalendar

LEMMA StepLowers ==
  ASSUME LoadInv, RowBound, Step
  PROVE  Below(5, LoadRank', LoadRank)
<1>1. /\ file \in Files /\ row \in Nat \ {0} /\ field \in 1 .. 16 /\ LastDate \in Nat
      /\ file = NoFile => pc \in {"open", "failed"}
  BY LoadingAssumption DEF LoadInv, Shape
<1>2. file # NoFile => Len(file) \in Nat
  BY <1>1, FileAssumption
<1>3. CASE Open
  <2>1. LoadRank[1] = 2 /\ LoadRank'[1] < 2
    BY <1>3 DEF Open, LoadRank
  <2>2. QED BY <2>1 DEF Below
<1>4. CASE SkipNotToBeParsed \/ ClearLists
  <2>1. /\ pc \in {"row", "days"} /\ pc' = "row" /\ row' = row + 1 /\ file' = file
        /\ file # NoFile
    BY <1>1, <1>4 DEF SkipNotToBeParsed, ClearLists
  <2>2. LoadRank'[1] = LoadRank[1] /\ LoadRank'[2] < LoadRank[2]
    BY <1>1, <1>2, <2>1 DEF LoadRank
  <2>3. QED BY <2>2 DEF Below
<1>5. CASE MatchEnd
  <2>1. /\ pc = "row" /\ pc' = "days" /\ field = 16 /\ day' = demand.start /\ row \in Nat
        /\ file # NoFile
        /\ UNCHANGED <<file, row, field, item>>
    BY <1>1, <1>5, FieldsDistinct DEF MatchEnd
  <2>2. LoadInv'
    BY <1>5, LoadStep DEF Next, Step
  <2>3. DaysInCalendar'
    <3>1. (LoadInv /\ pc = "days")'
      BY <2>1, <2>2
    <3>2. QED BY <3>1, DayInCalendar, PTL
  <2>4. \A i \in 1 .. 4 : LoadRank'[i] = LoadRank[i]
    BY <2>1 DEF LoadRank
  <2>5. LoadRank[5] = LastDate + 2 /\ LoadRank'[5] = LastDate + 1 - day'
    BY <2>1 DEF LoadRank
  <2>6. LoadRank'[5] < LoadRank[5]
    <3>1. PICK d \in Nat : day' = d
      BY <2>3 DEF DaysInCalendar
    <3>2. LastDate + 1 - d < LastDate + 2
      BY <1>1
    <3>3. QED BY <2>5, <3>1, <3>2
  <2>7. QED BY <2>4, <2>6 DEF Below
<1>6. CASE StopParsing \/ CalendarEnds
  <2>1. pc \in {"row", "days"} /\ pc' \in {"done", "failed"}
    BY <1>6 DEF StopParsing, CalendarEnds, Fail
  <2>2. LoadRank[1] = 1 /\ LoadRank'[1] = 0
    BY <2>1 DEF LoadRank
  <2>3. QED BY <2>2 DEF Below
<1>7. CASE CreateDay
  <2>1. pc = "days" /\ day' = day + 1 /\ UNCHANGED <<file, pc, row, field, item>>
    BY <1>7 DEF CreateDay
  <2>2. \A i \in 1 .. 4 : LoadRank'[i] = LoadRank[i]
    BY <2>1 DEF LoadRank
  <2>3. LoadRank'[5] < LoadRank[5]
    <3>1. day \in Int
      BY <2>1, InDays
    <3>2. LoadRank[5] = LastDate + 1 - day /\ LoadRank'[5] = LastDate + 1 - (day + 1)
      BY <2>1 DEF LoadRank
    <3>3. QED BY <1>1, <3>1, <3>2
  <2>4. QED BY <2>2, <2>3 DEF Below
<1>8. CASE MatchField
  BY <1>8, FieldLowers
<1>9. QED BY <1>3, <1>4, <1>5, <1>6, <1>7, <1>8 DEF Step

(* Each step of the load, until it ends, lowers its rank, which is never negative:
   no file makes the parser read for ever, neither a reversed range of dates, which
   lasts to the end of the calendar, nor one that is empty. *)
THEOREM LoadingDescends ==
  Spec => [][LoadDescends]_vars
<1>1. LoadInv /\ RowBound /\ LoadInv' /\ RowBound' /\ [Next]_vars => [LoadDescends]_vars
  <2> SUFFICES ASSUME LoadInv, RowBound, LoadInv', RowBound', Step
               PROVE  LoadDescends
    BY DEF Next, Terminating
  <2>1. \A i \in 1 .. 5 : LoadRank[i] \in Nat
    BY LoadRankNatural
  <2>2. (\A i \in 1 .. 5 : LoadRank[i] \in Nat)'
    BY LoadRankNatural, PTL
  <2>3. Below(5, LoadRank', LoadRank)
    BY StepLowers
  <2>4. QED BY <2>1, <2>2, <2>3 DEF LoadDescends
<1>2. QED BY <1>1, LoadAlways, RowBoundAlways, PTL DEF Spec

(* What a step needs to be taken, action by action: a field to match has a semantic
   action, and a list a pair that was not read yet. *)
LoadReady ==
  \/ pc = "open"
  \/ pc = "row" /\ row <= Len(file) /\ Current.kind = "comment"
  \/ /\ pc = "row" /\ row <= Len(file) /\ Current.kind = "demand" /\ Matches
     /\ \/ field = Len(Fields) + 1
        \/ /\ field \in 1 .. Len(Fields)
           /\ \/ Name \in Dates \cup Scalars
              \/ Name \in Lists /\ item \in 1 .. Len(Current[Name])
  \/ pc = "row" /\ (row <= Len(file) => Current.kind = "demand" /\ ~Matches)
  \/ pc = "days" /\ day \in Int

(* The load never stops half way: until it ends, the inputs of its next step are
   there, whatever the file.  With the rank above, this is what LoadingEnds says, but
   for the fairness. *)
THEOREM LoadingNeverStuck ==
  Spec => [](pc \in {"done", "failed"} \/ LoadReady)
<1>1. LoadInv /\ RowBound => pc \in {"done", "failed"} \/ LoadReady
  <2> SUFFICES ASSUME LoadInv, RowBound, pc \in {"row", "days"} PROVE LoadReady
    BY DEF LoadInv, Shape, LoadReady
  <2>1. file \in Files \ {NoFile} /\ row \in Nat \ {0} /\ field \in 1 .. 16
    BY DEF LoadInv, Shape
  <2>2. CASE pc = "days"
    <3>1. day \in Int /\ LastDate \in Nat
      BY <2>2, InDays, LoadingAssumption
    <3>2. QED BY <2>2, <3>1 DEF LoadReady
  <2>3. CASE pc = "row" /\ row <= Len(file)
    <3>1. row \in DOMAIN file /\ Current.kind \in {"comment", "demand"}
      BY <2>1, <2>3, FileAssumption DEF Current
    <3>2. CASE Current.kind = "demand" /\ Matches /\ field \in 1 .. 15
      <4>1. Staged
        BY <2>1, <2>3, <3>1, <3>2 DEF LoadInv, Stage, Demands, Current
      <4>2. Name \in Dates \cup Scalars \/ (Name \in Lists /\ item \in 1 .. Len(Current[Name]))
        BY <3>2, <4>1, FieldsDistinct, FieldKinds DEF Staged, Name
      <4>3. QED BY <2>3, <3>2, <4>2, FieldsDistinct DEF LoadReady
    <3>3. CASE Current.kind = "demand" /\ Matches /\ field = 16
      BY <2>3, <3>3, FieldsDistinct DEF LoadReady
    <3>4. CASE Current.kind = "comment" \/ ~Matches
      BY <2>3, <3>1, <3>4 DEF LoadReady
    <3>5. QED BY <2>1, <3>1, <3>2, <3>3, <3>4
  <2>4. CASE pc = "row" /\ ~(row <= Len(file))
    BY <2>4 DEF LoadReady
  <2>5. QED BY <2>2, <2>3, <2>4
<1>2. QED BY <1>1, LoadAlways, RowBoundAlways, PTL

-----------------------------------------------------------------------------
(* Curves entered pair by pair into a map. *)
(* Numbers each smaller than the next are in order. *)
LEMMA IncreasingPoints ==
  ASSUME NEW n \in Nat, NEW d, \A i \in 1 .. n : d[i].value \in Int,
         \A i \in 1 .. n - 1 : d[i].value < d[i + 1].value
  PROVE  \A i, j \in 1 .. n : i < j => d[i].value < d[j].value
<1> SUFFICES ASSUME NEW i \in 1 .. n, \E j \in 1 .. n : i < j /\ ~(d[i].value < d[j].value)
             PROVE  FALSE
  OBVIOUS
<1> DEFINE T == {j \in Nat : j \in 1 .. n /\ i < j /\ ~(d[i].value < d[j].value)}
<1>1. PICK j \in T : \A k \in T : j <= k
  <2>1. T # {}
    OBVIOUS
  <2>2. QED BY <2>1, LeastElement
<1>2. j - 1 \notin T
  BY <1>1
<1>3. d[j - 1].value < d[j].value /\ j - 1 \in 1 .. n - 1 /\ j - 1 \in 1 .. n
  <2>1. j - 1 \in 1 .. n - 1 /\ (j - 1) + 1 = j
    BY <1>1
  <2>2. QED BY <2>1
<1>4. j - 1 = i \/ d[i].value < d[j - 1].value
  BY <1>1, <1>2, <1>3
<1>5. d[i].value \in Int /\ d[j].value \in Int /\ d[j - 1].value \in Int
  BY <1>1, <1>3
<1>6. QED BY <1>1, <1>3, <1>4, <1>5

(* The pairs inserted into a map: whole numbers, and no key twice. *)
IsInsertion(pairs) ==
  /\ pairs \in Seq(Int \X Int) /\ Len(pairs) > 0
  /\ \A i, j \in 1 .. Len(pairs) : i # j => pairs[i][1] # pairs[j][1]

(* The places of the pairs are the numbers 1 .. n, in the order of the keys. *)
LEMMA PlacesAreAll ==
  ASSUME NEW pairs, IsInsertion(pairs)
  PROVE  /\ \A i \in 1 .. Len(pairs) : Place(pairs, i) \in 1 .. Len(pairs)
         /\ \A i, j \in 1 .. Len(pairs) :
              Place(pairs, i) < Place(pairs, j) <=> pairs[i][1] < pairs[j][1]
         /\ \A n \in 1 .. Len(pairs) : \E i \in 1 .. Len(pairs) : Place(pairs, i) = n
<1> DEFINE D == 1 .. Len(pairs)
           upTo(i) == {j \in D : pairs[j][1] <= pairs[i][1]}
<1>1. Len(pairs) \in Nat /\ \A i \in D : pairs[i][1] \in Int
  BY DEF IsInsertion
<1>2. IsFiniteSet(D) /\ Cardinality(D) = Len(pairs)
  BY <1>1, FS_Interval
<1>3. \A i \in D : upTo(i) \in SUBSET D /\ IsFiniteSet(upTo(i)) /\ Cardinality(upTo(i)) = Place(pairs, i)
  BY <1>2, FS_Subset DEF Place
<1>4. \A i \in D : Place(pairs, i) \in D
  <2> SUFFICES ASSUME NEW i \in D PROVE Place(pairs, i) \in D
    OBVIOUS
  <2>1. i \in upTo(i)
    BY <1>1
  <2>2. Cardinality(upTo(i)) <= Cardinality(D) /\ Cardinality(upTo(i)) \in Nat
    BY <1>2, <1>3, FS_Subset, FS_CardinalityType
  <2>3. Cardinality(upTo(i)) # 0
    BY <1>3, <2>1, FS_EmptySet
  <2> HIDE DEF upTo
  <2>4. QED BY <1>1, <1>2, <1>3, <2>2, <2>3
<1>5. ASSUME NEW i \in D, NEW j \in D, pairs[i][1] < pairs[j][1]
      PROVE  Place(pairs, i) < Place(pairs, j)
  <2>1. upTo(i) \in SUBSET upTo(j) /\ upTo(i) # upTo(j)
    <3>1. j \in upTo(j) /\ j \notin upTo(i)
      BY <1>1, <1>5
    <3>2. \A k \in D : pairs[k][1] <= pairs[i][1] => pairs[k][1] <= pairs[j][1]
      BY <1>1, <1>5
    <3>3. QED BY <3>1, <3>2
  <2>2. Cardinality(upTo(i)) <= Cardinality(upTo(j)) /\ Cardinality(upTo(i)) # Cardinality(upTo(j))
    <3>1. IsFiniteSet(upTo(j))
      BY <1>3
    <3> HIDE DEF upTo
    <3>2. QED BY <2>1, <3>1, FS_Subset
  <2> HIDE DEF upTo
  <2>3. Place(pairs, i) \in Nat /\ Place(pairs, j) \in Nat
    BY <1>1, <1>4
  <2>4. QED BY <1>3, <2>2, <2>3
<1> HIDE DEF upTo
<1>6. \A i, j \in D : Place(pairs, i) < Place(pairs, j) <=> pairs[i][1] < pairs[j][1]
  <2> SUFFICES ASSUME NEW i \in D, NEW j \in D
               PROVE  Place(pairs, i) < Place(pairs, j) <=> pairs[i][1] < pairs[j][1]
    OBVIOUS
  <2>1. Place(pairs, i) \in Nat /\ Place(pairs, j) \in Nat /\ pairs[i][1] \in Int /\ pairs[j][1] \in Int
    BY <1>1, <1>4
  <2>2. CASE pairs[i][1] < pairs[j][1]
    BY <1>5, <2>2
  <2>3. CASE pairs[j][1] < pairs[i][1]
    BY <1>5, <2>1, <2>3
  <2>4. CASE pairs[i][1] = pairs[j][1]
    <3>1. i = j
      BY <2>4 DEF IsInsertion
    <3>2. QED BY <2>1, <2>4, <3>1
  <2>5. QED BY <2>1, <2>2, <2>3, <2>4
<1>7. \A n \in D : \E i \in D : Place(pairs, i) = n
  <2> DEFINE f == [i \in D |-> Place(pairs, i)]
  <2>1. f \in [D -> D]
    BY <1>4
  <2>2. \A i, j \in D : f[i] = f[j] => i = j
    <3> SUFFICES ASSUME NEW i \in D, NEW j \in D, i # j PROVE Place(pairs, i) # Place(pairs, j)
      OBVIOUS
    <3>1. pairs[i][1] # pairs[j][1] /\ pairs[i][1] \in Int /\ pairs[j][1] \in Int
      BY <1>1 DEF IsInsertion
    <3>2. Place(pairs, i) < Place(pairs, j) \/ Place(pairs, j) < Place(pairs, i)
      BY <1>6, <3>1
    <3>3. QED BY <1>1, <1>4, <3>2
  <2>3. f \in Injection(D, D)
    BY <2>1, <2>2 DEF Injection, IsInjective
  <2>4. f \in Surjection(D, D)
    BY <1>2, <2>3, FS_Injection
  <2>5. QED BY <2>4 DEF Surjection
<1>8. QED BY <1>4, <1>6, <1>7

(* Whatever the order of the insertions, the curve is a list of points, the pairs in
   the order of their keys. *)
LEMMA CurveIsPointList ==
  ASSUME NEW pairs, IsInsertion(pairs)
  PROVE  /\ IsPointList(Curve(pairs)) /\ Len(Curve(pairs)) = Len(pairs)
         /\ \A n \in 1 .. Len(pairs) : \E i \in 1 .. Len(pairs) :
              Curve(pairs)[n] = [value |-> pairs[i][1], cum |-> pairs[i][2]]
<1> DEFINE D == 1 .. Len(pairs)
           at(n) == CHOOSE i \in D : Place(pairs, i) = n
<1>1. Len(pairs) \in Nat /\ Len(pairs) > 0 /\ \A i \in D : pairs[i][1] \in Int /\ pairs[i][2] \in Int
  BY DEF IsInsertion
<1>2. \A n \in D : at(n) \in D /\ Place(pairs, at(n)) = n
  BY PlacesAreAll
<1>3. \A n \in D : Curve(pairs)[n] = [value |-> pairs[at(n)][1], cum |-> pairs[at(n)][2]]
  BY DEF Curve
<1>4. Curve(pairs) = [n \in D |-> [value |-> pairs[at(n)][1], cum |-> pairs[at(n)][2]]]
  BY DEF Curve
<1> HIDE DEF at
<1>5. Curve(pairs) \in [D -> Point]
  BY <1>1, <1>2, <1>4 DEF Point
<1>6. Curve(pairs) \in Seq(Point) /\ Len(Curve(pairs)) = Len(pairs)
  BY <1>1, <1>5
<1>7. \A m, n \in D : m < n => Curve(pairs)[m].value < Curve(pairs)[n].value
  <2> SUFFICES ASSUME NEW m \in D, NEW n \in D, m < n
               PROVE  Curve(pairs)[m].value < Curve(pairs)[n].value
    OBVIOUS
  <2>1. /\ Curve(pairs)[m] = [value |-> pairs[at(m)][1], cum |-> pairs[at(m)][2]]
        /\ Curve(pairs)[n] = [value |-> pairs[at(n)][1], cum |-> pairs[at(n)][2]]
    BY <1>3
  <2>2. Place(pairs, at(m)) < Place(pairs, at(n)) /\ at(m) \in D /\ at(n) \in D
    BY <1>2
  <2>3. pairs[at(m)][1] < pairs[at(n)][1]
    BY <2>2, PlacesAreAll
  <2>4. QED BY <2>1, <2>3
<1>8. IsPointList(Curve(pairs))
  BY <1>1, <1>6, <1>7 DEF IsPointList
<1>9. QED BY <1>2, <1>3, <1>6, <1>8

-----------------------------------------------------------------------------
(* The built-in demand. *)
(* The sum of a short list. *)
LEMMA ShortTotals ==
  ASSUME NEW m \in Seq(Nat)
  PROVE  /\ Len(m) = 2 => Total(m) = m[1] + m[2]
         /\ Len(m) = 3 => Total(m) = m[1] + m[2] + m[3]
         /\ Len(m) = 4 => Total(m) = m[1] + m[2] + m[3] + m[4]
         /\ Len(m) = 5 => Total(m) = m[1] + m[2] + m[3] + m[4] + m[5]
         /\ Len(m) = 6 => Total(m) = m[1] + m[2] + m[3] + m[4] + m[5] + m[6]
<1> DEFINE n == Len(m)
           P(i) == PartialSum(m, i)
<1>1. /\ n \in Nat /\ P(0) = 0 /\ P(n) = Total(m) /\ \A i \in 0 .. n : P(i) \in Int
      /\ \A i \in 1 .. n : P(i) = P(i - 1) + m[i] /\ m[i] \in Nat
  BY PartialSums
<1> HIDE DEF P
<1>2. n >= 1 => P(1) = m[1] /\ m[1] \in Nat
  BY <1>1
<1>3. n >= 2 => P(2) = m[1] + m[2] /\ m[2] \in Nat
  BY <1>1, <1>2
<1>4. n >= 3 => P(3) = m[1] + m[2] + m[3] /\ m[3] \in Nat
  BY <1>1, <1>2, <1>3
<1>5. n >= 4 => P(4) = m[1] + m[2] + m[3] + m[4] /\ m[4] \in Nat
  BY <1>1, <1>2, <1>3, <1>4
<1>6. n >= 5 => P(5) = m[1] + m[2] + m[3] + m[4] + m[5] /\ m[5] \in Nat
  BY <1>1, <1>2, <1>3, <1>4, <1>5
<1>7. n >= 6 => P(6) = m[1] + m[2] + m[3] + m[4] + m[5] + m[6]
  BY <1>1, <1>2, <1>3, <1>4, <1>5, <1>6
<1>8. n = 2 => Total(m) = m[1] + m[2]
  BY <1>1, <1>3
<1>9. n = 3 => Total(m) = m[1] + m[2] + m[3]
  BY <1>1, <1>4
<1>10. n = 4 => Total(m) = m[1] + m[2] + m[3] + m[4]
  BY <1>1, <1>5
<1>11. n = 5 => Total(m) = m[1] + m[2] + m[3] + m[4] + m[5]
  BY <1>1, <1>6
<1>12. n = 6 => Total(m) = m[1] + m[2] + m[3] + m[4] + m[5] + m[6]
  BY <1>1, <1>7
<1>13. QED BY <1>8, <1>9, <1>10, <1>11, <1>12

(* A list of masses that add up to one. *)
IsFull(m) == m \in Seq(Nat) /\ Total(m) = 100

(* All the lists of the built-in demand do: nobody checks it in the code. *)
LEMMA SampleMassesAreFull ==
  /\ IsFull(<<30, 70>>) /\ IsFull(<<10, 30, 40, 20>>) /\ IsFull(<<20, 20, 60>>)
  /\ IsFull(SampleStay) /\ IsFull(<<5, 30, 49, 1, 15>>) /\ IsFull(<<0, 0, 0, 100>>)
  /\ IsFull(<<100, 0, 0>>) /\ IsFull(<<1, 40, 40, 10, 9>>) /\ IsFull(<<0, 100>>)
  /\ IsFull(<<100, 0>>)
<1>1. ASSUME NEW a \in Nat, NEW b \in Nat, a + b = 100 PROVE IsFull(<<a, b>>)
  <2> DEFINE m == <<a, b>>
  <2>1. m \in Seq(Nat) /\ Len(m) = 2 /\ m[1] = a /\ m[2] = b
    OBVIOUS
  <2> HIDE DEF m
  <2>2. Total(m) = 100
    BY <1>1, <2>1, ShortTotals
  <2>3. QED BY <2>1, <2>2 DEF IsFull, m
<1>2. ASSUME NEW a \in Nat, NEW b \in Nat, NEW c \in Nat, a + b + c = 100
      PROVE  IsFull(<<a, b, c>>)
  <2> DEFINE m == <<a, b, c>>
  <2>1. m \in Seq(Nat) /\ Len(m) = 3 /\ m[1] = a /\ m[2] = b /\ m[3] = c
    OBVIOUS
  <2> HIDE DEF m
  <2>2. Total(m) = 100
    BY <1>2, <2>1, ShortTotals
  <2>3. QED BY <2>1, <2>2 DEF IsFull, m
<1>3. ASSUME NEW a \in Nat, NEW b \in Nat, NEW c \in Nat, NEW d \in Nat, a + b + c + d = 100
      PROVE  IsFull(<<a, b, c, d>>)
  <2> DEFINE m == <<a, b, c, d>>
  <2>1. m \in Seq(Nat) /\ Len(m) = 4 /\ m[1] = a /\ m[2] = b /\ m[3] = c /\ m[4] = d
    OBVIOUS
  <2> HIDE DEF m
  <2>2. Total(m) = 100
    BY <1>3, <2>1, ShortTotals
  <2>3. QED BY <2>1, <2>2 DEF IsFull, m
<1>4. ASSUME NEW a \in Nat, NEW b \in Nat, NEW c \in Nat, NEW d \in Nat, NEW e \in Nat,
             a + b + c + d + e = 100
      PROVE  IsFull(<<a, b, c, d, e>>)
  <2> DEFINE m == <<a, b, c, d, e>>
  <2>1. m \in Seq(Nat) /\ Len(m) = 5 /\ m[1] = a /\ m[2] = b /\ m[3] = c /\ m[4] = d /\ m[5] = e
    OBVIOUS
  <2> HIDE DEF m
  <2>2. Total(m) = 100
    BY <1>4, <2>1, ShortTotals
  <2>3. QED BY <2>1, <2>2 DEF IsFull, m
<1>5. ASSUME NEW a \in Nat, NEW b \in Nat, NEW c \in Nat, NEW d \in Nat, NEW e \in Nat,
             NEW f \in Nat, a + b + c + d + e + f = 100
      PROVE  IsFull(<<a, b, c, d, e, f>>)
  <2> DEFINE m == <<a, b, c, d, e, f>>
  <2>1. m \in Seq(Nat) /\ Len(m) = 6 /\ m[1] = a /\ m[2] = b /\ m[3] = c /\ m[4] = d /\ m[5] = e /\ m[6] = f
    OBVIOUS
  <2> HIDE DEF m
  <2>2. Total(m) = 100
    BY <1>5, <2>1, ShortTotals
  <2>3. QED BY <2>1, <2>2 DEF IsFull, m
<1>6. /\ IsFull(<<30, 70>>) /\ IsFull(<<0, 100>>) /\ IsFull(<<100, 0>>)
      /\ IsFull(<<20, 20, 60>>) /\ IsFull(<<100, 0, 0>>)
  BY <1>1, <1>2
<1>7. IsFull(<<10, 30, 40, 20>>) /\ IsFull(<<0, 0, 0, 100>>)
  BY <1>3
<1>8. IsFull(<<5, 30, 49, 1, 15>>) /\ IsFull(<<1, 40, 40, 10, 9>>)
  BY <1>4
<1>9. IsFull(SampleStay)
  BY <1>5 DEF SampleStay
<1>10. QED BY <1>6, <1>7, <1>8, <1>9

(* Hours of the day give times of the day. *)
IsDayCurve(d) == IsPointList(d) /\ \A n \in 1 .. Len(d) : d[n].value \in 0 .. 24 * 60 - 1

(* The curve of the hours of a day is a curve of times of the day. *)
LEMMA DayCurveIsDayCurve ==
  ASSUME NEW pairs, IsInsertion(pairs), \A i \in 1 .. Len(pairs) : pairs[i][1] \in 0 .. 23
  PROVE  IsDayCurve(DayCurve(pairs))
<1> DEFINE mins == [i \in 1 .. Len(pairs) |-> <<pairs[i][1] * 60, pairs[i][2]>>]
<1>1. Len(pairs) \in Nat /\ Len(pairs) > 0
      /\ \A i \in 1 .. Len(pairs) : pairs[i][1] \in Int /\ pairs[i][2] \in Int
  BY DEF IsInsertion
<1>2. mins \in Seq(Int \X Int) /\ Len(mins) = Len(pairs)
  BY <1>1
<1>3. \A i \in 1 .. Len(pairs) : mins[i] = <<pairs[i][1] * 60, pairs[i][2]>>
  OBVIOUS
<1>4. DayCurve(pairs) = Curve(mins)
  BY DEF DayCurve
<1> HIDE DEF mins
<1>5. \A i, j \in 1 .. Len(pairs) : i # j => mins[i][1] # mins[j][1]
  <2> SUFFICES ASSUME NEW i \in 1 .. Len(pairs), NEW j \in 1 .. Len(pairs), i # j
               PROVE  mins[i][1] # mins[j][1]
    OBVIOUS
  <2>1. mins[i][1] = pairs[i][1] * 60 /\ mins[j][1] = pairs[j][1] * 60
    BY <1>3
  <2>2. pairs[i][1] # pairs[j][1]
    BY DEF IsInsertion
  <2>3. QED BY <1>1, <2>1, <2>2
<1>6. IsInsertion(mins)
  BY <1>1, <1>2, <1>5 DEF IsInsertion
<1>7. \A n \in 1 .. Len(pairs) : Curve(mins)[n].value \in 0 .. 24 * 60 - 1
  <2> SUFFICES ASSUME NEW n \in 1 .. Len(pairs)
               PROVE  Curve(mins)[n].value \in 0 .. 24 * 60 - 1
    OBVIOUS
  <2>1. PICK i \in 1 .. Len(pairs) :
          Curve(mins)[n] = [value |-> mins[i][1], cum |-> mins[i][2]]
    <3>1. \A k \in 1 .. Len(mins) : \E i \in 1 .. Len(mins) :
            Curve(mins)[k] = [value |-> mins[i][1], cum |-> mins[i][2]]
      BY <1>6, CurveIsPointList
    <3>2. QED BY <1>2, <3>1
  <2>2. mins[i][1] = pairs[i][1] * 60 /\ pairs[i][1] \in 0 .. 23
    BY <1>3
  <2>3. Curve(mins)[n].value = mins[i][1]
    BY <2>1
  <2>4. \A h \in 0 .. 23 : h * 60 \in 0 .. 24 * 60 - 1
    OBVIOUS
  <2>5. QED BY <2>2, <2>3, <2>4, Zenon
<1>8. QED BY <1>2, <1>4, <1>6, <1>7, CurveIsPointList DEF IsDayCurve

(* The curves of the built-in demand name no key twice. *)
LEMMA SampleInsertions ==
  /\ IsInsertion(<< <<15, 0>>, <<60, 100>> >>)
  /\ IsInsertion(<< <<-330, 0>>, <<-40, 20>>, <<-20, 60>>, <<-1, 100>> >>)
  /\ IsInsertion(<< <<-330, 0>>, <<-150, 10>>, <<-92, 20>>, <<-55, 30>>, <<-34, 40>>,
                    <<-21, 50>>, <<-12, 60>>, <<-6, 70>>, <<-3, 80>>, <<-1, 90>>, <<0, 100>> >>)
<1>1. IsInsertion(<< <<15, 0>>, <<60, 100>> >>)
  BY DEF IsInsertion
<1>2. IsInsertion(<< <<-330, 0>>, <<-40, 20>>, <<-20, 60>>, <<-1, 100>> >>)
  BY DEF IsInsertion
<1>3. IsInsertion(<< <<-330, 0>>, <<-150, 10>>, <<-92, 20>>, <<-55, 30>>, <<-34, 40>>,
                    <<-21, 50>>, <<-12, 60>>, <<-6, 70>>, <<-3, 80>>, <<-1, 90>>, <<0, 100>> >>)
  BY SMTT(60) DEF IsInsertion
<1>4. QED BY <1>1, <1>2, <1>3

(* Its preferred departure times are times of the day, in whatever order they are
   entered. *)
LEMMA SamplePrefDepTimes ==
  /\ IsDayCurve(SampleStd.prefDepTime)
  /\ IsDayCurve(SINPrefDepTime)
  /\ IsDayCurve(BKKPrefDepTime)
<1>1. IsDayCurve(SampleStd.prefDepTime)
  <2> DEFINE p == << <<6, 0>>, <<7, 10>>, <<9, 30>>, <<17, 40>>, <<19, 80>>, <<20, 95>>, <<22, 100>> >>
  <2>1. IsInsertion(p) /\ \A i \in 1 .. Len(p) : p[i][1] \in 0 .. 23
    BY SMTT(60) DEF IsInsertion
  <2>2. SampleStd.prefDepTime = DayCurve(p)
    BY DEF SampleStd
  <2> HIDE DEF p
  <2>3. QED BY <2>1, <2>2, DayCurveIsDayCurve
<1>2. IsDayCurve(SINPrefDepTime)
  <2> DEFINE p == << <<6, 0>>, <<8, 70>>, <<10, 80>>, <<12, 90>>, <<14, 100>> >>
  <2>1. IsInsertion(p) /\ \A i \in 1 .. Len(p) : p[i][1] \in 0 .. 23
    BY SMTT(60) DEF IsInsertion
  <2>2. SINPrefDepTime = DayCurve(p)
    BY DEF SINPrefDepTime
  <2> HIDE DEF p
  <2>3. QED BY <2>1, <2>2, DayCurveIsDayCurve
<1>3. IsDayCurve(BKKPrefDepTime)
  <2> DEFINE p == << <<8, 0>>, <<10, 20>>, <<1, 60>>, <<14, 80>>, <<16, 100>> >>
  <2>1. IsInsertion(p) /\ \A i \in 1 .. Len(p) : p[i][1] \in 0 .. 23
    BY SMTT(60) DEF IsInsertion
  <2>2. BKKPrefDepTime = DayCurve(p)
    BY DEF BKKPrefDepTime
  <2> HIDE DEF p
  <2>3. QED BY <2>1, <2>2, DayCurveIsDayCurve
<1>4. QED BY <1>1, <1>2, <1>3

(* What the look-ups need of a stream of the built-in demand. *)
LEMMA SampleFacts ==
  ASSUME NEW c \in SampleStreams
  PROVE  /\ IsFull(c.pos) /\ IsFull(c.channel) /\ IsFull(c.trip) /\ IsFull(c.stay) /\ IsFull(c.ff)
         /\ IsPointList(c.arrival) /\ IsPointList(c.timeValue) /\ IsDayCurve(c.prefDepTime)
         /\ c.minWTP \in Nat /\ c.changeFeeProb = 50 /\ c.nonRefundableProb = 50
<1>1. IsPointList(SampleTimeValue) /\ IsPointList(SampleArrival) /\ IsPointList(SampleStd.arrival)
  BY SampleInsertions, CurveIsPointList DEF SampleTimeValue, SampleArrival, SampleStd
<1>2. CASE c = SampleStd
  <2>1. /\ c.pos = <<30, 70>> /\ c.channel = <<10, 30, 40, 20>> /\ c.trip = <<20, 20, 60>>
        /\ c.stay = SampleStay /\ c.ff = <<5, 30, 49, 1, 15>> /\ c.timeValue = SampleTimeValue
        /\ c.minWTP = 1000 /\ c.changeFeeProb = 50 /\ c.nonRefundableProb = 50
    BY <1>2 DEF SampleStd
  <2>2. QED BY <1>1, <1>2, <2>1, SampleMassesAreFull, SamplePrefDepTimes
<1>3. CASE \E pos \in {<<0, 100>>, <<100, 0>>}, hours \in {SINPrefDepTime, BKKPrefDepTime}, w \in {400, 750} :
             c = SampleStream(pos, hours, w)
  <2>1. PICK pos \in {<<0, 100>>, <<100, 0>>}, hours \in {SINPrefDepTime, BKKPrefDepTime}, w \in {400, 750} :
          c = SampleStream(pos, hours, w)
    BY <1>3
  <2>2. /\ c.pos = pos /\ c.channel = <<0, 0, 0, 100>> /\ c.trip = <<100, 0, 0>>
        /\ c.stay = SampleStay /\ c.ff = <<1, 40, 40, 10, 9>> /\ c.timeValue = SampleTimeValue
        /\ c.arrival = SampleArrival /\ c.prefDepTime = hours
        /\ c.minWTP = w /\ c.changeFeeProb = 50 /\ c.nonRefundableProb = 50
    BY <2>1 DEF SampleStream
  <2>3. QED BY <1>1, <2>1, <2>2, SampleMassesAreFull, SamplePrefDepTimes
<1>4. QED BY <1>2, <1>3 DEF SampleStreams, SINBKK, BKKHKG, SINHKG

(* A look-up in a full list finds a value, whatever the draw, zero included. *)
LEMMA FullListDraws ==
  ASSUME NEW m, IsFull(m), NEW k \in 0 .. 100
  PROVE  Draw(m, k) # IndexOutOfRange
<1> DEFINE reached(n) == {i \in Row(m) : Cumulative(m, i) >= n}
<1>1. m \in Seq(Nat) /\ Total(m) = 100 /\ Row(m) \subseteq 1 .. Len(m)
  BY DEF IsFull, Row
<1>2. \A i \in 1 .. Len(m) : Cumulative(m, i) \in Int
  BY <1>1, CumulativeIsPartialSum, PartialSums
<1>3. Draw(m, 100) # IndexOutOfRange
  <2>1. 100 \in Nat \ {0} /\ ~(100 > 100)
    OBVIOUS
  <2>2. QED BY <1>1, <2>1, DrawFailsAboveTotal
<1>4. reached(100) # {}
  BY <1>3 DEF Draw
<1>5. reached(100) \subseteq reached(k)
  BY <1>1, <1>2
<1>6. reached(k) \in SUBSET Nat /\ reached(k) # {} /\ reached(k) \subseteq 1 .. Len(m)
  BY <1>1, <1>4, <1>5
<1>7. Draw(m, k) = Min(reached(k))
  BY <1>6 DEF Draw
<1> HIDE DEF reached
<1>8. Min(reached(k)) \in 1 .. Len(m)
  BY <1>6, MinProperties
<1>9. QED BY <1>7, <1>8 DEF IndexOutOfRange

(* The same number for all the draws of a request. *)
OneNumber(k) ==
  [d \in {"pos", "channel", "trip", "stay", "ff", "changeFees", "nonRefundable",
          "prefDepTime", "timeValue"} |-> k]

(* No look-up of a request of the built-in demand fails. *)
LEMMA SampleRequests ==
  ASSUME NEW c \in SampleStreams, NEW k \in 0 .. 100
  PROVE  LET r == GenerateCharacteristics(c, OneNumber(k), 0, 0)
         IN  /\ FirstFailure(r) = 0
             /\ r.prefDepTime \in 0 .. 24 * 60 - 1
             /\ r.changeFees = (k < 50) /\ r.nonRefundable = (k < 50)
<1> DEFINE r == GenerateCharacteristics(c, OneNumber(k), 0, 0)
<1>1. /\ r.pos = Draw(c.pos, k) /\ r.channel = Draw(c.channel, k) /\ r.trip = Draw(c.trip, k)
      /\ r.stay = Draw(c.stay, k) /\ r.ff = Draw(c.ff, k)
      /\ r.changeFees = (k < c.changeFeeProb) /\ r.nonRefundable = (k < c.nonRefundableProb)
      /\ r.prefDepTime = GetValue(c.prefDepTime, k)
  BY DEF GenerateCharacteristics, OneNumber, GeneratePOS, GenerateChannel, GenerateTripType,
         GenerateStayDuration, GenerateFrequentFlyer, GenerateChangeFees,
         GenerateNonRefundable, GeneratePreferredDepartureTime
<1> HIDE DEF r
<1>2. FirstFailure(r) = 0
  <2>1. /\ r["pos"] # IndexOutOfRange /\ r["channel"] # IndexOutOfRange
        /\ r["trip"] # IndexOutOfRange /\ r["stay"] # IndexOutOfRange
        /\ r["ff"] # IndexOutOfRange
    BY <1>1, SampleFacts, FullListDraws
  <2>2. \A i \in 1 .. Len(Lookups) : r[Lookups[i]] # IndexOutOfRange
    BY <2>1 DEF Lookups
  <2>3. QED BY <2>2 DEF FirstFailure
<1>3. r.prefDepTime \in 0 .. 24 * 60 - 1
  <2> DEFINE d == c.prefDepTime
  <2>1. IsPointList(d) /\ \A n \in 1 .. Len(d) : d[n].value \in 0 .. 24 * 60 - 1
    BY SampleFacts DEF IsDayCurve
  <2>2. 1 \in 1 .. Len(d) /\ Len(d) \in 1 .. Len(d) /\ k \in Int
    BY <2>1, PointListFacts
  <2>3. GetValue(d, k) \in d[1].value .. d[Len(d)].value
    BY <2>1, <2>2, GetValueInRange
  <2>4. d[1].value \in 0 .. 24 * 60 - 1 /\ d[Len(d)].value \in 0 .. 24 * 60 - 1
    BY <2>1, <2>2
  <2>5. r.prefDepTime = GetValue(d, k)
    BY <1>1
  <2> HIDE DEF d
  <2>6. \A lo, hi \in 0 .. 24 * 60 - 1 : lo .. hi \subseteq 0 .. 24 * 60 - 1
    OBVIOUS
  <2>7. QED BY <2>3, <2>4, <2>5, <2>6, Zenon
<1>4. r.changeFees = (k < 50) /\ r.nonRefundable = (k < 50)
  BY <1>1, SampleFacts
<1>5. QED BY <1>2, <1>3, <1>4 DEF r

-----------------------------------------------------------------------------
(* Counting the look-ups of a list of masses. *)
(* A look-up finds a position of the list or fails. *)
LEMMA DrawType ==
  ASSUME NEW m \in Seq(Nat), NEW k
  PROVE  Draw(m, k) = IndexOutOfRange \/ Draw(m, k) \in 1 .. Len(m)
<1> DEFINE reached == {j \in Row(m) : Cumulative(m, j) >= k}
<1>1. reached \in SUBSET Nat /\ reached \subseteq 1 .. Len(m)
  BY DEF Row
<1>2. QED BY <1>1, MinProperties DEF Draw

(* How many of the keys 1 .. n draw each value. *)
Hits(m, n) ==
  [i \in 1 .. Len(m) |-> Cardinality({k \in 1 .. n : Draw(m, k) = i})]

(* One more key is one more hit of the value it draws, if it draws one. *)
LEMMA HitsStep ==
  ASSUME NEW m \in Seq(Nat), NEW n \in Nat
  PROVE  /\ Hits(m, 0) = [i \in DOMAIN m |-> 0]
         /\ Hits(m, n + 1) =
              IF Draw(m, n + 1) = IndexOutOfRange THEN Hits(m, n)
              ELSE [Hits(m, n) EXCEPT ![Draw(m, n + 1)] = @ + 1]
<1> DEFINE at(i, j) == {k \in 1 .. j : Draw(m, k) = i}
           d == Draw(m, n + 1)
<1>1. DOMAIN m = 1 .. Len(m) /\ Len(m) \in Nat
  OBVIOUS
<1>2. \A i : at(i, 0) = {} /\ Cardinality(at(i, 0)) = 0
  BY FS_EmptySet
<1>3. \A i : Hits(m, 0) = [j \in DOMAIN m |-> 0]
  BY <1>1, <1>2 DEF Hits
<1>4. \A i : IsFiniteSet(at(i, n)) /\ n + 1 \notin at(i, n)
  <2>1. IsFiniteSet(1 .. n)
    BY FS_Interval
  <2>2. \A i : at(i, n) \in SUBSET (1 .. n)
    OBVIOUS
  <2>3. QED BY <2>1, <2>2, FS_Subset
<1>5. \A i : at(i, n + 1) = IF d = i THEN at(i, n) \cup {n + 1} ELSE at(i, n)
  <2>1. 1 .. n + 1 = (1 .. n) \cup {n + 1}
    OBVIOUS
  <2>2. QED BY <2>1
<1>6. \A i : Cardinality(at(i, n + 1)) = IF d = i THEN Cardinality(at(i, n)) + 1 ELSE Cardinality(at(i, n))
  <2> SUFFICES ASSUME NEW i
               PROVE  Cardinality(at(i, n + 1)) = IF d = i THEN Cardinality(at(i, n)) + 1 ELSE Cardinality(at(i, n))
    OBVIOUS
  <2>1. Cardinality(at(i, n) \cup {n + 1}) = Cardinality(at(i, n)) + 1
    <3>1. IsFiniteSet(at(i, n)) /\ n + 1 \notin at(i, n)
      BY <1>4
    <3> HIDE DEF at
    <3>2. QED BY <3>1, FS_AddElement
  <2>2. at(i, n + 1) = IF d = i THEN at(i, n) \cup {n + 1} ELSE at(i, n)
    BY <1>5
  <2> HIDE DEF at, d
  <2>3. QED BY <2>1, <2>2
<1>7. d = IndexOutOfRange \/ d \in 1 .. Len(m)
  BY DrawType
<1>8. \A j \in {n, n + 1} : Hits(m, j) = [i \in 1 .. Len(m) |-> Cardinality(at(i, j))]
  BY DEF Hits
<1> HIDE DEF at, d
<1>9. Hits(m, n) = [i \in 1 .. Len(m) |-> Cardinality(at(i, n))]
      /\ Hits(m, n + 1) = [i \in 1 .. Len(m) |-> Cardinality(at(i, n + 1))]
  BY <1>8
<1>10. CASE d = IndexOutOfRange
  <2>1. \A i \in 1 .. Len(m) : d # i
    BY <1>1, <1>10 DEF IndexOutOfRange
  <2>2. Hits(m, n + 1) = Hits(m, n)
    BY <1>6, <1>9, <2>1
  <2>3. QED BY <1>3, <1>10, <2>2 DEF d
<1>11. CASE d # IndexOutOfRange
  <2>1. Hits(m, n + 1) = [Hits(m, n) EXCEPT ![d] = @ + 1]
    BY <1>6, <1>7, <1>9, <1>11
  <2>2. QED BY <1>3, <1>11, <2>1 DEF d
<1>12. QED BY <1>10, <1>11

-----------------------------------------------------------------------------
(* Sweeping a random number through the distributions. *)

(* What a sweep keeps: its lists are lists of points and of masses, and the hits are
   those of the keys so far. *)
SweepInv ==
  /\ unit \in Nat /\ key \in 0 .. unit
  /\ IsPointList(dist)
  /\ masses \in Seq(Nat)
  /\ hits = Hits(masses, key)

(* A sweep begins with such lists, and no hit. *)
LEMMA SweepInvInit == SweepInit => SweepInv
<1> SUFFICES ASSUME SweepInit PROVE SweepInv
  OBVIOUS
<1>1. MaxPoints \in Nat /\ MaxValue \in Nat /\ MaxMasses \in Nat /\ One \in Nat
  BY SweepAssumption
<1>2. key = 0 /\ hits = [i \in DOMAIN masses |-> 0]
  BY DEF SweepInit
<1>3. SUFFICES unit \in Nat /\ IsPointList(dist) /\ masses \in Seq(Nat)
  <2>1. ASSUME masses \in Seq(Nat) PROVE Hits(masses, 0) = [i \in DOMAIN masses |-> 0]
    <3>1. 0 \in Nat
      OBVIOUS
    <3>2. QED BY <2>1, <3>1, HitsStep
  <2>2. QED BY <1>2, <2>1 DEF SweepInv
<1>4. CASE dist \in Curves /\ masses = <<One>> /\ unit = One
  <2>1. PICK n \in 1 .. MaxPoints :
          /\ dist \in [1 .. n -> [value : 0 .. MaxValue, cum : 0 .. One]]
          /\ \A i \in 1 .. n - 1 : dist[i].value < dist[i + 1].value
    BY <1>1, <1>4 DEF Curves
  <2>2. n \in Nat /\ n > 0
    BY <1>1
  <2>3. \A i \in 1 .. n : dist[i] \in Point /\ dist[i].value \in Int
    BY <1>1, <2>1 DEF Point
  <2>4. dist \in [1 .. n -> Point] /\ DOMAIN dist = 1 .. n
    BY <2>1, <2>3
  <2>5. dist \in Seq(Point) /\ Len(dist) = n
    BY <2>2, <2>4
  <2>6. \A i, j \in 1 .. n : i < j => dist[i].value < dist[j].value
    BY <2>1, <2>2, <2>3, IncreasingPoints
  <2>7. IsPointList(dist)
    BY <2>2, <2>5, <2>6 DEF IsPointList
  <2>8. masses \in Seq(Nat)
    BY <1>1, <1>4
  <2>9. QED BY <1>1, <1>4, <2>7, <2>8
<1>5. CASE dist = << [value |-> 0, cum |-> 0] >> /\ masses \in MassLists /\ unit = One
  <2>1. IsPointList(dist)
    BY <1>5 DEF IsPointList, Point
  <2>2. masses \in Seq(Nat)
    <3>1. PICK n \in 1 .. MaxMasses : masses \in [1 .. n -> 0 .. One]
      BY <1>1, <1>5 DEF MassLists
    <3>2. n \in Nat /\ masses \in [1 .. n -> Nat]
      BY <1>1, <3>1
    <3>3. QED BY <3>2
  <2>3. QED BY <1>1, <1>5, <2>1, <2>2
<1>6. CASE dist \in SampleCurves /\ masses \in SampleMasses /\ unit = 100
  <2>1. PICK c \in SampleStreams : dist \in {c.arrival, c.prefDepTime, c.timeValue}
    BY <1>6 DEF SampleCurves
  <2>2. IsPointList(dist)
    BY <2>1, SampleFacts DEF IsDayCurve
  <2>3. PICK c2 \in SampleStreams : masses \in {c2.pos, c2.channel, c2.trip, c2.stay, c2.ff}
    BY <1>6 DEF SampleMasses, Lookups
  <2>4. masses \in Seq(Nat)
    BY <2>3, SampleFacts DEF IsFull
  <2>5. QED BY <1>6, <2>2, <2>4
<1>7. QED BY <1>4, <1>5, <1>6 DEF SweepInit

(* A step of the sweep keeps them: it draws with the next number, and adds the value
   drawn to the hits. *)
LEMMA SweepInvNext == SweepInv /\ [SweepNext]_sweepVars => SweepInv'
<1> SUFFICES ASSUME SweepInv, [SweepNext]_sweepVars PROVE SweepInv'
  OBVIOUS
<1>1. /\ unit \in Nat /\ key \in 0 .. unit /\ IsPointList(dist) /\ masses \in Seq(Nat)
      /\ hits = Hits(masses, key)
  BY DEF SweepInv
<1>2. CASE SweepNext
  <2>1. /\ key < unit /\ key' = key + 1 /\ dist' = dist /\ masses' = masses /\ unit' = unit
        /\ hits' = IF Draw(masses, key + 1) = IndexOutOfRange THEN hits
                   ELSE [hits EXCEPT ![Draw(masses, key + 1)] = @ + 1]
    BY <1>2 DEF SweepNext
  <2>2. key \in Nat /\ key + 1 \in 0 .. unit
    BY <1>1, <2>1
  <2>3. Hits(masses, key + 1) = hits'
    BY <1>1, <2>1, <2>2, HitsStep
  <2>4. QED BY <1>1, <2>1, <2>2, <2>3 DEF SweepInv
<1>3. CASE UNCHANGED sweepVars
  BY <1>1, <1>3 DEF SweepInv, sweepVars
<1>4. QED BY <1>2, <1>3

(* The hits are the look-ups of the random numbers so far, for any lists. *)
THEOREM SweepKeepsCount == SweepSpec => []SweepInv
<1>1. QED BY SweepInvInit, SweepInvNext, PTL DEF SweepSpec

(* getValue inverts every cumulative curve of a sweep, at every random number. *)
THEOREM SweepInvertsCurve == SweepSpec => []InvertsCurve
<1>1. SweepInv => InvertsCurve
  <2> SUFFICES ASSUME SweepInv, IsCumulative(dist), Len(dist) > 1
               PROVE  InvertsAt(dist, key, GetValue(dist, key))
    BY DEF InvertsCurve
  <2>1. IsPointList(dist) /\ key \in Int
    BY DEF SweepInv
  <2>2. QED BY <2>1, GetValueInverts
<1>2. QED BY <1>1, SweepKeepsCount, PTL

(* At the end of a sweep every value has been drawn in proportion to its mass. *)
THEOREM SweepSharesFollowMasses == SweepSpec => []SharesFollowMasses
<1>1. SweepInv => SharesFollowMasses
  <2> SUFFICES ASSUME SweepInv, key = unit, Total(masses) <= unit, NEW i \in DOMAIN masses
               PROVE  hits[i] = masses[i]
    BY DEF SharesFollowMasses
  <2>1. unit \in Nat /\ masses \in Seq(Nat) /\ hits = Hits(masses, unit)
    BY DEF SweepInv
  <2>2. i \in 1 .. Len(masses)
    BY <2>1
  <2>3. Cardinality({k \in 1 .. unit : Draw(masses, k) = i}) = masses[i]
    BY <2>1, <2>2, DrawsFollowMasses
  <2>4. QED BY <2>1, <2>2, <2>3 DEF Hits
<1>2. QED BY <1>1, SweepKeepsCount, PTL

(* In the built-in demand a later request is never willing to pay less. *)
THEOREM SweepLaterPaysMore == SweepSpec => []LaterPaysMore
<1>1. SweepInv => LaterPaysMore
  <2> SUFFICES ASSUME SweepInv, NEW c \in SampleStreams, NEW x \in {0, 7, 10, 40},
                      NEW advance \in {4 * key - 1, 4 * key, 4 * key + 1}
               PROVE  /\ GenerateWTP(c, advance, x) >= GenerateWTP(c, advance + 1, x)
                      /\ GenerateWTP(c, advance, x) >= c.minWTP
    BY DEF LaterPaysMore
  <2>1. key \in Int
    BY DEF SweepInv
  <2>2. c.minWTP \in Nat /\ advance \in Int /\ x \in Nat
    BY <2>1, SampleFacts
  <2>3. QED BY <2>2, LaterRequestsPayMore
<1>2. QED BY <1>1, SweepKeepsCount, PTL

(* The built-in demand gives every request all its characteristics, whatever the
   draw: no look-up throws, and the preferred departure time is a time of the day. *)
THEOREM SweepSampleRequestsComplete == SweepSpec => []SampleRequestsComplete
<1>1. SweepInv => SampleRequestsComplete
  <2> SUFFICES ASSUME SweepInv, unit = 100, NEW c \in SampleStreams
               PROVE  LET r == GenerateCharacteristics(c, SameDraws, 0, 0)
                      IN  /\ FirstFailure(r) = 0
                          /\ r.prefDepTime \in 0 .. 24 * 60 - 1
                          /\ r.changeFees = (key < 50) /\ r.nonRefundable = (key < 50)
    BY DEF SampleRequestsComplete
  <2>1. key \in 0 .. 100
    BY DEF SweepInv
  <2>2. SameDraws = OneNumber(key)
    BY DEF SameDraws, OneNumber
  <2>3. QED BY <2>1, <2>2, SampleRequests
<1>2. QED BY <1>1, SweepKeepsCount, PTL
=============================================================================
