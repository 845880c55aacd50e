--------------------------- MODULE Programs_proofs ---------------------------
(***************************************************************************)
(* Proofs about the objects behind the services and about the programs, for  *)
(* any number of services, loads, streams, pointers and calls.                   *)
(***************************************************************************)
EXTENDS Programs, TLAPS

-----------------------------------------------------------------------------
(* The objects. *)

Stream == [load : Nat, number : Nat]
Trees == [persistent : SUBSET Stream, working : SUBSET Stream]
Context == [own : BOOLEAN, stdair : Nat, sevmgr : Nat]

ObjectsTyped ==
  /\ pool \in Seq(Context)
  /\ stdair \in Seq(Trees)
  /\ sevmgr \in Seq(Nat)
  /\ loads \in Seq([by : Nat, size : Nat, completed : BOOLEAN])

(* What the client and the SEvMgr services point at exists.  The context of a
   service that exists points at a StdAir service or at none, and at a SEvMgr
   service or at none, and if it owns them, at both and at one over the other;
   the context of a destroyed one points at neither. *)
PointersSet ==
  /\ heldStdAir \subseteq DOMAIN stdair /\ heldSEvMgr \subseteq DOMAIN sevmgr
  /\ \A m \in DOMAIN sevmgr : sevmgr[m] \in DOMAIN stdair
  /\ service \subseteq DOMAIN pool
  /\ \A c \in service :
       /\ pool[c].stdair \in DOMAIN stdair \cup {Null}
       /\ pool[c].sevmgr \in DOMAIN sevmgr \cup {Null}
       /\ pool[c].own => pool[c].sevmgr # Null /\ pool[c].stdair = RootOf(c)
  /\ \A c \in DOMAIN pool \ service : pool[c].stdair = Null /\ pool[c].sevmgr = Null

(* A stream belongs to a load that was made, and hangs on one tree; a load was
   made by a service, which finds its streams. *)
StreamsHang ==
  /\ \A l \in DOMAIN loads : loads[l].by \in DOMAIN pool
  /\ \A x \in DOMAIN stdair : \A e \in stdair[x].persistent : e.load \in DOMAIN loads
  /\ \A x, y \in DOMAIN stdair : x # y => stdair[x].persistent \cap stdair[y].persistent = {}
  /\ \A c \in service : HasSEvMgr(c) => LoadedBy(c) \subseteq EventGenerators(c)

ObjectsInv == ObjectsTyped /\ PointersSet /\ CopyInStep /\ StreamsHang

(* The numbers of the objects are positive. *)
LEMMA NullIsNone ==
  ASSUME ObjectsInv
  PROVE  Null \notin DOMAIN stdair /\ Null \notin DOMAIN sevmgr
BY DEF ObjectsInv, ObjectsTyped, Null

(* The two trees make the record. *)
LEMMA TreesFacts ==
  ASSUME NEW r \in Trees
  PROVE  \E p, w : r = [persistent |-> p, working |-> w]
<1> DEFINE S == SUBSET Stream
<1>1. r \in [persistent : S, working : S]
  BY DEF Trees
<1> HIDE DEF S
<1>2. r = [persistent |-> r.persistent, working |-> r.working]
  BY <1>1
<1>3. QED BY <1>2

(* Appending to a list keeps its elements. *)
LEMMA AppendFacts ==
  ASSUME NEW S, NEW q \in Seq(S), NEW x \in S
  PROVE  /\ Append(q, x) \in Seq(S)
         /\ DOMAIN Append(q, x) = DOMAIN q \cup {Len(q) + 1}
         /\ Len(q) + 1 \notin DOMAIN q /\ Len(q) + 1 \in Nat \ {0}
         /\ Append(q, x)[Len(q) + 1] = x
         /\ \A i \in DOMAIN q : Append(q, x)[i] = q[i]
BY SMTT(30)

(* Updating an element of a list keeps its domain and the others. *)
LEMMA UpdateFacts ==
  ASSUME NEW S, NEW q \in Seq(S), NEW i \in DOMAIN q, NEW x \in S
  PROVE  /\ [q EXCEPT ![i] = x] \in Seq(S)
         /\ DOMAIN [q EXCEPT ![i] = x] = DOMAIN q
         /\ [q EXCEPT ![i] = x][i] = x
         /\ \A j \in DOMAIN q : j # i => [q EXCEPT ![i] = x][j] = q[j]
<1>1. q \in [1 .. Len(q) -> S] /\ Len(q) \in Nat
  OBVIOUS
<1> DEFINE p == [q EXCEPT ![i] = x]
<1>2. p \in [1 .. Len(q) -> S]
  BY <1>1
<1>3. p \in Seq(S)
  <2> HIDE DEF p
  <2> QED BY <1>1, <1>2, SMTT(30)
<1>4. QED BY <1>1, <1>3

(* The streams of a service after a step without a load, which may add contexts,
   trees without streams and SEvMgr services, and let services go. *)
LEMMA HangWithoutLoad ==
  ASSUME ObjectsInv, PointersSet', UNCHANGED loads,
         DOMAIN pool \subseteq DOMAIN pool', DOMAIN stdair \subseteq DOMAIN stdair',
         \A y \in DOMAIN stdair : stdair'[y].persistent = stdair[y].persistent,
         \A y \in DOMAIN stdair' \ DOMAIN stdair : stdair'[y].persistent = {},
         \A m \in DOMAIN sevmgr : sevmgr'[m] = sevmgr[m],
         \A d \in service' : d \notin DOMAIN pool \/ (d \in service /\ pool'[d].sevmgr = pool[d].sevmgr)
  PROVE  StreamsHang'
<1>1. \A l \in DOMAIN loads' : loads'[l].by \in DOMAIN pool'
  BY DEF ObjectsInv, StreamsHang
<1>2. /\ \A x \in DOMAIN stdair' : \A e \in stdair'[x].persistent : e.load \in DOMAIN loads'
      /\ \A x, y \in DOMAIN stdair' :
           x # y => stdair'[x].persistent \cap stdair'[y].persistent = {}
  BY DEF ObjectsInv, StreamsHang
<1>3. ASSUME NEW c \in service', HasSEvMgr(c)'
      PROVE  LoadedBy(c)' \subseteq EventGenerators(c)'
  <2>1. CASE c \notin DOMAIN pool
    <3>1. LoadedBy(c)' = {}
      BY <2>1 DEF LoadedBy, ObjectsInv, StreamsHang
    <3>2. QED BY <3>1
  <2>2. CASE c \in service /\ pool'[c].sevmgr = pool[c].sevmgr
    <3>1. HasSEvMgr(c) /\ pool[c].sevmgr \in DOMAIN sevmgr
      BY <1>3, <2>2 DEF HasSEvMgr, ObjectsInv, PointersSet
    <3>2. RootOf(c)' = RootOf(c) /\ RootOf(c) \in DOMAIN stdair
      BY <2>2, <3>1 DEF RootOf, ObjectsInv, PointersSet
    <3>3. EventGenerators(c)' = EventGenerators(c)
      BY <3>2 DEF EventGenerators
    <3>4. LoadedBy(c)' = LoadedBy(c)
      BY DEF LoadedBy
    <3>5. QED BY <2>2, <3>1, <3>3, <3>4 DEF ObjectsInv, StreamsHang
  <2>3. QED BY <2>1, <2>2
<1>4. QED BY <1>1, <1>2, <1>3 DEF StreamsHang

(* The only change to the persistent trees is that the streams of the next load
   are added to the tree x. *)
StreamsAdded(x, n) ==
  /\ \A y \in DOMAIN stdair :
       stdair'[y].persistent =
         stdair[y].persistent \cup (IF y = x THEN StreamsOf(Len(loads) + 1, n) ELSE {})
  /\ \A y \in DOMAIN stdair' \ DOMAIN stdair :
       stdair'[y].persistent = IF y = x THEN StreamsOf(Len(loads) + 1, n) ELSE {}

(* The same after a load, whose streams hang on the tree of the service that
   loads, if there are any. *)
LEMMA HangWithLoad ==
  ASSUME ObjectsInv, PointersSet',
         NEW c \in Nat, c \in service', NEW n \in Nat, NEW completed \in BOOLEAN, NEW x,
         RecordLoad(c, n, completed), StreamsAdded(x, n),
         DOMAIN pool \subseteq DOMAIN pool', DOMAIN stdair \subseteq DOMAIN stdair',
         pool'[c].sevmgr # Null => x = sevmgr'[pool'[c].sevmgr],
         \A m \in DOMAIN sevmgr : sevmgr'[m] = sevmgr[m],
         \A d \in service' : d \notin DOMAIN pool \/ (d \in service /\ pool'[d].sevmgr = pool[d].sevmgr)
  PROVE  StreamsHang'
<1> DEFINE L == [by : Nat, size : Nat, completed : BOOLEAN]
           r == [by |-> c, size |-> n, completed |-> completed]
           new == StreamsOf(Len(loads) + 1, n)
<1>1. loads \in Seq(L)
  BY DEF ObjectsInv, ObjectsTyped
<1>2. r \in L /\ r.by = c /\ r.size = n
  OBVIOUS
<1> HIDE DEF L, r
<1>3. /\ DOMAIN loads' = DOMAIN loads \cup {Len(loads) + 1}
      /\ Len(loads) + 1 \notin DOMAIN loads
      /\ loads'[Len(loads) + 1] = r
      /\ \A l \in DOMAIN loads : loads'[l] = loads[l]
  BY <1>1, <1>2, AppendFacts DEF r, RecordLoad
<1>4. \A e \in new : e.load = Len(loads) + 1
  BY DEF StreamsOf
<1> HIDE DEF new
<1>5. \A l \in DOMAIN loads' : loads'[l].by \in DOMAIN pool'
  BY <1>2, <1>3 DEF ObjectsInv, StreamsHang, PointersSet
<1>6. \A y \in DOMAIN stdair' :
        stdair'[y].persistent =
          (IF y \in DOMAIN stdair THEN stdair[y].persistent ELSE {}) \cup (IF y = x THEN new ELSE {})
  BY DEF new, StreamsAdded
<1>7. \A y \in DOMAIN stdair' : \A e \in stdair'[y].persistent : e.load \in DOMAIN loads'
  BY <1>3, <1>4, <1>6 DEF ObjectsInv, StreamsHang
<1>8. ASSUME NEW y \in DOMAIN stdair', NEW z \in DOMAIN stdair', y # z
      PROVE  stdair'[y].persistent \cap stdair'[z].persistent = {}
  <2> SUFFICES ASSUME NEW e, e \in stdair'[y].persistent, e \in stdair'[z].persistent PROVE FALSE
    OBVIOUS
  <2>1. CASE e \in new
    <3>1. \A w \in DOMAIN stdair : e \notin stdair[w].persistent
      BY <1>3, <1>4, <2>1 DEF ObjectsInv, StreamsHang
    <3>2. y = x /\ z = x
      BY <1>6, <3>1
    <3>3. QED BY <1>8, <3>2
  <2>2. CASE e \notin new
    <3>1. y \in DOMAIN stdair /\ z \in DOMAIN stdair /\ e \in stdair[y].persistent /\ e \in stdair[z].persistent
      BY <1>6, <2>2
    <3>2. QED BY <1>8, <3>1 DEF ObjectsInv, StreamsHang
  <2>3. QED BY <2>1, <2>2
<1>9. ASSUME NEW d \in service', HasSEvMgr(d)'
       PROVE  LoadedBy(d)' \subseteq EventGenerators(d)'
  <2> SUFFICES ASSUME NEW e \in LoadedBy(d)' PROVE e \in EventGenerators(d)'
    OBVIOUS
  <2>1. PICK l \in DOMAIN loads' : loads'[l].by = d /\ e \in StreamsOf(l, loads'[l].size)
    BY DEF LoadedBy
  <2>2. RootOf(d)' \in DOMAIN stdair'
    BY <1>9 DEF HasSEvMgr, RootOf, PointersSet
  <2>3. CASE l \in DOMAIN loads
    <3>1. loads[l].by = d /\ e \in LoadedBy(d) /\ d \in DOMAIN pool
      BY <1>3, <2>1, <2>3 DEF LoadedBy, ObjectsInv, StreamsHang
    <3>2. d \in service /\ HasSEvMgr(d) /\ pool[d].sevmgr \in DOMAIN sevmgr
      BY <1>9, <3>1 DEF HasSEvMgr, ObjectsInv, PointersSet
    <3>3. RootOf(d)' = RootOf(d) /\ RootOf(d) \in DOMAIN stdair
      BY <3>1, <3>2 DEF RootOf, ObjectsInv, PointersSet
    <3>4. e \in EventGenerators(d)
      BY <3>1, <3>2 DEF ObjectsInv, StreamsHang
    <3>5. QED BY <1>6, <2>2, <3>3, <3>4 DEF EventGenerators
  <2>4. CASE l = Len(loads) + 1
    <3>1. d = c /\ e \in new
      BY <1>2, <1>3, <2>1, <2>4 DEF new
    <3>2. x = RootOf(d)'
      BY <1>9, <3>1 DEF HasSEvMgr, RootOf
    <3>3. QED BY <1>6, <2>2, <3>1, <3>2 DEF EventGenerators
  <2>5. QED BY <1>3, <2>1, <2>3, <2>4
<1>10. QED BY <1>5, <1>7, <1>8, <1>9 DEF StreamsHang

(* What holds in a state of which the objects are unchanged. *)
LEMMA SameObjects ==
  ASSUME ObjectsInv, UNCHANGED objects
  PROVE  ObjectsInv'
BY DEF ObjectsInv, ObjectsTyped, PointersSet, CopyInStep, StreamsHang, RootOf, HasSEvMgr, LoadedBy,
       EventGenerators, objects, clientVars

(* A StdAir service is constructed with its two trees, in step unless it is
   marked. *)
LEMMA NewTrees ==
  ASSUME ObjectsInv, NEW t \in Trees, stdair' = Append(stdair, t),
         t.working \subseteq t.persistent,
         outOfStep \subseteq outOfStep',
         outOfStep' \subseteq outOfStep \cup {Len(stdair) + 1},
         Len(stdair) + 1 \notin outOfStep' => t.working = t.persistent
  PROVE  /\ stdair' \in Seq(Trees) /\ DOMAIN stdair' = DOMAIN stdair \cup {Len(stdair) + 1}
         /\ Len(stdair) + 1 \notin DOMAIN stdair
         /\ stdair'[Len(stdair) + 1] = t
         /\ \A y \in DOMAIN stdair : stdair'[y] = stdair[y]
         /\ CopyInStep'
<1>1. /\ stdair' \in Seq(Trees)
      /\ DOMAIN stdair' = DOMAIN stdair \cup {Len(stdair) + 1}
      /\ Len(stdair) + 1 \notin DOMAIN stdair
      /\ stdair'[Len(stdair) + 1] = t
      /\ \A i \in DOMAIN stdair : stdair'[i] = stdair[i]
  BY AppendFacts DEF ObjectsInv, ObjectsTyped
<1>2. CopyInStep'
  BY <1>1 DEF ObjectsInv, CopyInStep
<1>3. QED BY <1>1, <1>2

(* A context is added for a new service, with any two pointers, or with those of
   a SEvMgr service over its StdAir service if it owns them. *)
LEMMA AddContextKeeps ==
  ASSUME ObjectsInv, NEW own \in BOOLEAN,
         NEW x \in DOMAIN stdair' \cup {Null}, NEW m \in DOMAIN sevmgr' \cup {Null},
         own => m \in DOMAIN sevmgr' /\ x = sevmgr'[m],
         stdair' \in Seq(Trees), DOMAIN stdair \subseteq DOMAIN stdair',
         sevmgr' \in Seq(Nat),
         \A i \in DOMAIN sevmgr : i \in DOMAIN sevmgr' /\ sevmgr'[i] = sevmgr[i],
         \A i \in DOMAIN sevmgr' : sevmgr'[i] \in DOMAIN stdair',
         UNCHANGED clientVars, AddContext(own, x, m)
  PROVE  /\ PointersSet' /\ pool' \in Seq(Context)
         /\ DOMAIN pool' = DOMAIN pool \cup {Len(pool) + 1} /\ Len(pool') = Len(pool) + 1
         /\ Len(pool) + 1 \notin DOMAIN pool
         /\ service' = service \cup {Len(pool) + 1}
         /\ pool'[Len(pool) + 1].sevmgr = m
         /\ \A c \in DOMAIN pool : pool'[c] = pool[c]
<1> DEFINE ctx == [own |-> own, stdair |-> x, sevmgr |-> m]
           new == Len(pool) + 1
<1>1. x \in Nat /\ m \in Nat
  <2>1. DOMAIN stdair' = 1 .. Len(stdair') /\ DOMAIN sevmgr' = 1 .. Len(sevmgr')
        /\ Len(stdair') \in Nat /\ Len(sevmgr') \in Nat
    OBVIOUS
  <2>2. QED BY <2>1 DEF Null
<1>2. ctx \in Context
  BY <1>1 DEF Context
<1>3. pool' = Append(pool, ctx) /\ service' = service \cup {new}
  BY DEF AddContext
<1>4. pool \in Seq(Context)
  BY DEF ObjectsInv, ObjectsTyped
<1>5. ctx.own = own /\ ctx.stdair = x /\ ctx.sevmgr = m
  OBVIOUS
<1> HIDE DEF ctx
<1>6. /\ pool' \in Seq(Context) /\ DOMAIN pool' = DOMAIN pool \cup {new} /\ new \notin DOMAIN pool
      /\ pool'[new] = ctx
      /\ \A i \in DOMAIN pool : pool'[i] = pool[i]
  BY <1>2, <1>3, <1>4, AppendFacts
<1>7. Len(pool') = new
  BY <1>2, <1>3, <1>4
<1> HIDE DEF new
<1>8. service' \subseteq DOMAIN pool'
  BY <1>3, <1>6 DEF ObjectsInv, PointersSet
<1>9. ASSUME NEW c \in service'
      PROVE  /\ pool'[c].stdair \in DOMAIN stdair' \cup {Null}
             /\ pool'[c].sevmgr \in DOMAIN sevmgr' \cup {Null}
             /\ pool'[c].own => pool'[c].sevmgr # Null /\ pool'[c].stdair = sevmgr'[pool'[c].sevmgr]
  <2>1. CASE c = new
    <3>1. Null \notin DOMAIN sevmgr'
      BY DEF Null
    <3>2. QED BY <1>5, <1>6, <2>1, <3>1
  <2>2. CASE c \in service
    <3>1. pool'[c] = pool[c]
      BY <1>6, <2>2 DEF ObjectsInv, PointersSet
    <3>2. QED BY <2>2, <3>1 DEF ObjectsInv, PointersSet, RootOf
  <2>3. QED BY <1>3, <2>1, <2>2
<1>10. \A c \in DOMAIN pool' \ service' : pool'[c].stdair = Null /\ pool'[c].sevmgr = Null
  BY <1>3, <1>6 DEF ObjectsInv, PointersSet
<1>11. heldStdAir' \subseteq DOMAIN stdair' /\ heldSEvMgr' \subseteq DOMAIN sevmgr'
  BY DEF clientVars, ObjectsInv, PointersSet
<1>12. PointersSet'
  BY <1>8, <1>9, <1>10, <1>11 DEF PointersSet, RootOf
<1>13. QED BY <1>3, <1>5, <1>6, <1>7, <1>12 DEF new

(* A service is constructed over a StdAir service and a SEvMgr service of its
   own, with some trees: the common part of a constructor and of the Python
   init, which also loads. *)
LEMMA OwnServiceKeeps ==
  ASSUME ObjectsInv, NEW t \in Trees, stdair' = Append(stdair, t),
         t.working \subseteq t.persistent,
         outOfStep \subseteq outOfStep', outOfStep' \subseteq outOfStep \cup {Len(stdair) + 1},
         Len(stdair) + 1 \notin outOfStep' => t.working = t.persistent,
         sevmgr' = Append(sevmgr, Len(stdair) + 1), UNCHANGED clientVars,
         AddContext(TRUE, Len(stdair) + 1, Len(sevmgr) + 1),
         \/ UNCHANGED loads /\ t.persistent = {}
         \/ \E n \in Nat, completed \in BOOLEAN :
              /\ RecordLoad(Len(pool) + 1, n, completed)
              /\ t.persistent = StreamsOf(Len(loads) + 1, n)
  PROVE  /\ ObjectsInv'
         /\ Len(pool) + 1 \in service' /\ Len(pool') = Len(pool) + 1
         /\ stdair'[sevmgr'[pool'[Len(pool) + 1].sevmgr]] = t
<1> DEFINE x == Len(stdair) + 1
           m == Len(sevmgr) + 1
           c == Len(pool) + 1
<1>1. /\ stdair' \in Seq(Trees) /\ DOMAIN stdair' = DOMAIN stdair \cup {x}
      /\ x \notin DOMAIN stdair /\ stdair'[x] = t
      /\ \A y \in DOMAIN stdair : stdair'[y] = stdair[y]
      /\ CopyInStep'
  BY NewTrees
<1>2. x \in Nat /\ c \in Nat
  BY DEF ObjectsInv, ObjectsTyped
<1>3. /\ sevmgr' \in Seq(Nat) /\ DOMAIN sevmgr' = DOMAIN sevmgr \cup {m}
      /\ sevmgr'[m] = x
      /\ \A i \in DOMAIN sevmgr : sevmgr'[i] = sevmgr[i]
  BY <1>2, AppendFacts DEF ObjectsInv, ObjectsTyped
<1>4. AddContext(TRUE, x, m)
  OBVIOUS
<1> HIDE DEF x, m, c
<1>5. \A i \in DOMAIN sevmgr' : sevmgr'[i] \in DOMAIN stdair'
  BY <1>1, <1>3 DEF ObjectsInv, PointersSet
<1>6. /\ PointersSet' /\ pool' \in Seq(Context)
      /\ DOMAIN pool' = DOMAIN pool \cup {c} /\ Len(pool') = c /\ c \notin DOMAIN pool
      /\ service' = service \cup {c} /\ pool'[c].sevmgr = m
      /\ \A d \in DOMAIN pool : pool'[d] = pool[d]
  BY <1>1, <1>3, <1>4, <1>5, AddContextKeeps DEF c
<1>7. \A d \in service' : d \notin DOMAIN pool \/ (d \in service /\ pool'[d].sevmgr = pool[d].sevmgr)
  BY <1>6
<1>8. CASE UNCHANGED loads /\ t.persistent = {}
  <2>1. StreamsHang'
    BY <1>1, <1>3, <1>6, <1>7, <1>8, HangWithoutLoad
  <2>2. loads' \in Seq([by : Nat, size : Nat, completed : BOOLEAN])
    BY <1>8 DEF ObjectsInv, ObjectsTyped
  <2>3. QED BY <1>1, <1>3, <1>6, <2>1, <2>2 DEF ObjectsInv, ObjectsTyped, c
<1>9. CASE \E n \in Nat, completed \in BOOLEAN :
             /\ RecordLoad(c, n, completed)
             /\ t.persistent = StreamsOf(Len(loads) + 1, n)
  <2>1. PICK n \in Nat, completed \in BOOLEAN :
             /\ RecordLoad(c, n, completed)
             /\ t.persistent = StreamsOf(Len(loads) + 1, n)
    BY <1>9
  <2>2. pool'[c].sevmgr # Null => x = sevmgr'[pool'[c].sevmgr]
    BY <1>3, <1>6
  <2>3. StreamsAdded(x, n)
    BY <1>1, <2>1 DEF StreamsAdded, ObjectsInv, StreamsHang
  <2>4. c \in service' /\ DOMAIN pool \subseteq DOMAIN pool' /\ DOMAIN stdair \subseteq DOMAIN stdair'
    BY <1>1, <1>6
  <2>5. StreamsHang'
    BY <1>2, <1>3, <1>6, <1>7, <2>1, <2>2, <2>3, <2>4, HangWithLoad
  <2>6. loads' \in Seq([by : Nat, size : Nat, completed : BOOLEAN])
    BY <1>2, <2>1 DEF RecordLoad, ObjectsInv, ObjectsTyped
  <2>7. QED BY <1>1, <1>3, <1>6, <2>5, <2>6 DEF ObjectsInv, ObjectsTyped, c
<1>10. QED BY <1>8, <1>9 DEF c

(* The constructor of a service with its own StdAir service. *)
LEMMA NewServiceKeeps ==
  ASSUME ObjectsInv, NewService
  PROVE  ObjectsInv'
<1>1. EmptyTrees \in Trees /\ EmptyTrees.working = EmptyTrees.persistent /\ EmptyTrees.persistent = {}
  BY DEF EmptyTrees, Trees
<1>2. QED BY <1>1, OwnServiceKeeps DEF NewService

(* The constructor of a service with two pointers of the client. *)
LEMMA NewSharedServiceKeeps ==
  ASSUME ObjectsInv, NEW x, NEW m, NewSharedService(x, m)
  PROVE  ObjectsInv'
<1>1. /\ UNCHANGED <<stdair, sevmgr, clientVars, loads, outOfStep>> /\ AddContext(FALSE, x, m)
      /\ x \in DOMAIN stdair \cup {Null} /\ m \in DOMAIN sevmgr \cup {Null}
  BY DEF NewSharedService, ObjectsInv, PointersSet
<1>2. stdair' \in Seq(Trees) /\ sevmgr' \in Seq(Nat) /\ \A i \in DOMAIN sevmgr' : sevmgr'[i] \in DOMAIN stdair'
  BY <1>1 DEF ObjectsInv, ObjectsTyped, PointersSet
<1>3. /\ PointersSet' /\ pool' \in Seq(Context)
      /\ DOMAIN pool' = DOMAIN pool \cup {Len(pool) + 1}
      /\ Len(pool) + 1 \notin DOMAIN pool
      /\ service' = service \cup {Len(pool) + 1}
      /\ \A c \in DOMAIN pool : pool'[c] = pool[c]
  BY <1>1, <1>2, AddContextKeeps
<1>4. StreamsHang'
  <2>1. \A d \in service' : d \notin DOMAIN pool \/ (d \in service /\ pool'[d].sevmgr = pool[d].sevmgr)
    BY <1>3
  <2>2. QED BY <1>1, <1>3, <2>1, HangWithoutLoad
<1>5. CopyInStep'
  BY <1>1 DEF ObjectsInv, CopyInStep
<1>6. QED BY <1>1, <1>2, <1>3, <1>4, <1>5 DEF ObjectsInv, ObjectsTyped

(* The client constructs a StdAir service. *)
LEMMA ClientStdAirKeeps ==
  ASSUME ObjectsInv, ClientStdAir
  PROVE  ObjectsInv'
<1>1. /\ stdair' = Append(stdair, EmptyTrees) /\ heldStdAir' = heldStdAir \cup {Len(stdair) + 1}
      /\ UNCHANGED <<pool, sevmgr, service, heldSEvMgr, loads, outOfStep>>
  BY DEF ClientStdAir
<1>2. EmptyTrees \in Trees /\ EmptyTrees.working = EmptyTrees.persistent /\ EmptyTrees.persistent = {}
  BY DEF EmptyTrees, Trees
<1>3. /\ stdair' \in Seq(Trees) /\ DOMAIN stdair' = DOMAIN stdair \cup {Len(stdair) + 1}
      /\ Len(stdair) + 1 \notin DOMAIN stdair
      /\ stdair'[Len(stdair) + 1] = EmptyTrees
      /\ \A y \in DOMAIN stdair : stdair'[y] = stdair[y]
      /\ CopyInStep'
  BY <1>1, <1>2, NewTrees
<1>4. PointersSet'
  BY <1>1, <1>3 DEF ObjectsInv, PointersSet, RootOf
<1>5. StreamsHang'
  <2>1. \A d \in service' : d \in service /\ pool'[d].sevmgr = pool[d].sevmgr
    BY <1>1
  <2>2. QED BY <1>1, <1>2, <1>3, <1>4, <2>1, HangWithoutLoad
<1>6. QED BY <1>1, <1>3, <1>4, <1>5 DEF ObjectsInv, ObjectsTyped

(* The client constructs a SEvMgr service over one of its StdAir services. *)
LEMMA ClientSEvMgrKeeps ==
  ASSUME ObjectsInv, ClientSEvMgr
  PROVE  ObjectsInv'
<1>1. PICK x \in heldStdAir : sevmgr' = Append(sevmgr, x)
  BY DEF ClientSEvMgr
<1>2. /\ heldSEvMgr' = heldSEvMgr \cup {Len(sevmgr) + 1}
      /\ UNCHANGED <<pool, stdair, service, heldStdAir, loads, outOfStep>>
  BY DEF ClientSEvMgr
<1>3. x \in DOMAIN stdair /\ x \in Nat
  BY DEF ObjectsInv, ObjectsTyped, PointersSet
<1>4. /\ sevmgr' \in Seq(Nat) /\ DOMAIN sevmgr' = DOMAIN sevmgr \cup {Len(sevmgr) + 1}
      /\ sevmgr'[Len(sevmgr) + 1] = x
      /\ \A i \in DOMAIN sevmgr : sevmgr'[i] = sevmgr[i]
  BY <1>1, <1>3, AppendFacts DEF ObjectsInv, ObjectsTyped
<1>5. Null \notin DOMAIN sevmgr
  BY NullIsNone
<1>6. PointersSet'
  BY <1>2, <1>3, <1>4, <1>5 DEF ObjectsInv, PointersSet, RootOf
<1>7. StreamsHang'
  <2>1. \A d \in service' : d \in service /\ pool'[d].sevmgr = pool[d].sevmgr
    BY <1>2
  <2>2. QED BY <1>2, <1>4, <1>6, <2>1, HangWithoutLoad
<1>8. CopyInStep'
  BY <1>2 DEF ObjectsInv, CopyInStep
<1>9. QED BY <1>2, <1>4, <1>6, <1>7, <1>8 DEF ObjectsInv, ObjectsTyped

(* The client lets go of one of its pointers. *)
LEMMA LetGoKeeps ==
  ASSUME ObjectsInv, LetGo
  PROVE  ObjectsInv'
<1>1. /\ heldStdAir' \subseteq heldStdAir /\ heldSEvMgr' \subseteq heldSEvMgr
      /\ UNCHANGED <<pool, stdair, sevmgr, service, loads, outOfStep>>
  BY DEF LetGo
<1>2. PointersSet'
  BY <1>1 DEF ObjectsInv, PointersSet, RootOf
<1>3. StreamsHang'
  BY <1>1 DEF ObjectsInv, StreamsHang, HasSEvMgr, LoadedBy, EventGenerators, RootOf
<1>4. QED BY <1>1, <1>2, <1>3 DEF ObjectsInv, ObjectsTyped, CopyInStep

(* A destroyed service leaves a context that points at nothing. *)
LEMMA DestroyKeeps ==
  ASSUME ObjectsInv, NEW c, Destroy(c)
  PROVE  ObjectsInv'
<1> DEFINE ctx == [[pool[c] EXCEPT !.stdair = Null] EXCEPT !.sevmgr = Null]
<1>1. /\ c \in service /\ ContextReset(c) /\ service' = service \ {c}
      /\ UNCHANGED <<stdair, sevmgr, clientVars, loads, outOfStep>>
  BY DEF Destroy
<1>2. pool \in Seq(Context) /\ c \in DOMAIN pool
  BY <1>1 DEF ObjectsInv, ObjectsTyped, PointersSet
<1>3. pool[c] \in Context
  BY <1>2
<1>4. ctx \in Context /\ ctx.stdair = Null /\ ctx.sevmgr = Null
  <2> DEFINE a == [pool[c] EXCEPT !.stdair = Null]
  <2>1. a \in Context /\ a.stdair = Null
    BY <1>3 DEF Null, Context
  <2> HIDE DEF a
  <2>2. [a EXCEPT !.sevmgr = Null] \in Context /\ [a EXCEPT !.sevmgr = Null].stdair = Null
          /\ [a EXCEPT !.sevmgr = Null].sevmgr = Null
    BY <2>1 DEF Null, Context
  <2>3. QED BY <2>2 DEF a
<1>5. pool' = [pool EXCEPT ![c] = ctx]
  BY <1>1, <1>2 DEF ContextReset
<1> HIDE DEF ctx
<1>6. /\ pool' \in Seq(Context) /\ DOMAIN pool' = DOMAIN pool /\ pool'[c] = ctx
      /\ \A j \in DOMAIN pool : j # c => pool'[j] = pool[j]
  BY <1>2, <1>4, <1>5, UpdateFacts
<1>7. PointersSet'
  BY <1>1, <1>4, <1>6 DEF ObjectsInv, PointersSet, RootOf, clientVars
<1>8. StreamsHang'
  <2>1. \A d \in service' : d \in service /\ pool'[d].sevmgr = pool[d].sevmgr
    BY <1>1, <1>6 DEF ObjectsInv, PointersSet
  <2>2. QED BY <1>1, <1>6, <1>7, <2>1, HangWithoutLoad
<1>9. CopyInStep'
  BY <1>1 DEF ObjectsInv, CopyInStep
<1>10. QED BY <1>1, <1>6, <1>7, <1>8, <1>9 DEF ObjectsInv, ObjectsTyped

(* The record of a load. *)
LEMMA RecordKeeps ==
  ASSUME ObjectsInv, NEW c \in DOMAIN pool, NEW n \in Nat, NEW completed \in BOOLEAN,
         RecordLoad(c, n, completed)
  PROVE  loads' \in Seq([by : Nat, size : Nat, completed : BOOLEAN])
BY DEF RecordLoad, ObjectsInv, ObjectsTyped

(* A load adds streams to the persistent tree, and copies it when it ends well
   in a service that owns it. *)
LEMMA LoadKeeps ==
  ASSUME ObjectsInv, NEW c, NEW n \in Nat, NEW completed \in BOOLEAN, Load(c, n, completed)
  PROVE  ObjectsInv'
<1> DEFINE x == RootOf(c)
           new == StreamsOf(Len(loads) + 1, n)
           added == [stdair EXCEPT ![x].persistent = @ \cup new]
           full == stdair[x].persistent \cup new
           t == [persistent |-> full,
                 working |-> IF completed /\ pool[c].own THEN full ELSE stdair[x].working]
<1>1. /\ c \in service /\ IsUsable(c) /\ RecordLoad(c, n, completed)
      /\ stdair' = IF completed /\ pool[c].own
                   THEN ClonePersistentBom(added, pool[c].stdair) ELSE added
      /\ outOfStep' = IF completed /\ pool[c].own THEN outOfStep \ {pool[c].stdair}
                      ELSE outOfStep \cup {x}
      /\ UNCHANGED <<pool, sevmgr, service, clientVars>>
  BY DEF Load
<1>2. x \in DOMAIN stdair /\ (pool[c].own => pool[c].stdair = x)
  BY <1>1 DEF ObjectsInv, PointersSet, RootOf, IsUsable
<1>3. stdair \in Seq(Trees) /\ stdair[x] \in Trees
  BY <1>2 DEF ObjectsInv, ObjectsTyped
<1>4. new \subseteq Stream
  <2>1. Len(loads) + 1 \in Nat
    BY DEF ObjectsInv, ObjectsTyped
  <2>2. QED BY <2>1 DEF StreamsOf, Stream
<1>5. /\ stdair[x].persistent \subseteq Stream /\ stdair[x].working \subseteq Stream
      /\ stdair[x].working \subseteq stdair[x].persistent
  BY <1>2, <1>3 DEF Trees, ObjectsInv, CopyInStep
<1>6. t \in Trees /\ t.persistent = full /\ t.working \subseteq full
  BY <1>4, <1>5 DEF Trees
<1>7. stdair' = [stdair EXCEPT ![x] = t]
  <2> HIDE DEF new, x
  <2> DEFINE half == [persistent |-> full, working |-> stdair[x].working]
  <2>1. [stdair[x] EXCEPT !.persistent = @ \cup new] = half
    <3>1. PICK p, w : stdair[x] = [persistent |-> p, working |-> w]
      BY <1>3, TreesFacts
    <3>2. QED BY <3>1
  <2>2. added = [stdair EXCEPT ![x] = half]
    BY <2>1
  <2>3. CASE ~(completed /\ pool[c].own)
    BY <1>1, <2>2, <2>3
  <2>4. CASE completed /\ pool[c].own
    <3>1. stdair' = [added EXCEPT ![x].working = added[x].persistent]
      BY <1>1, <1>2, <2>4 DEF ClonePersistentBom
    <3>2. DOMAIN added = DOMAIN stdair /\ added[x] = half
      BY <1>2, <2>2
    <3>3. [half EXCEPT !.working = half.persistent] = [persistent |-> full, working |-> full]
      OBVIOUS
    <3>4. stdair' = [added EXCEPT ![x] = [half EXCEPT !.working = half.persistent]]
      <4> HIDE DEF half, added
      <4> QED BY <3>1, <3>2
    <3>5. stdair' = [added EXCEPT ![x] = t]
      BY <2>4, <3>3, <3>4
    <3>6. [added EXCEPT ![x] = t] = [stdair EXCEPT ![x] = t]
      <4> HIDE DEF half, t, added
      <4> QED BY <1>2, <2>2
    <3>7. QED BY <3>5, <3>6
  <2>5. QED BY <2>3, <2>4
<1>8. completed /\ pool[c].own => t.working = t.persistent
  OBVIOUS
<1> HIDE DEF t, added, x
<1>9. /\ stdair' \in Seq(Trees) /\ DOMAIN stdair' = DOMAIN stdair /\ stdair'[x] = t
      /\ \A j \in DOMAIN stdair : j # x => stdair'[j] = stdair[j]
  BY <1>2, <1>3, <1>6, <1>7, UpdateFacts
<1>10. CopyInStep'
  BY <1>1, <1>2, <1>6, <1>8, <1>9 DEF ObjectsInv, CopyInStep
<1>11. PointersSet'
  BY <1>1, <1>9 DEF ObjectsInv, PointersSet, RootOf, clientVars
<1>12. StreamsHang'
  <2>1. StreamsAdded(x, n)
    <3> HIDE DEF new
    <3>1. /\ \A y \in DOMAIN stdair :
               stdair'[y].persistent = stdair[y].persistent \cup (IF y = x THEN new ELSE {})
          /\ DOMAIN stdair' = DOMAIN stdair
      BY <1>6, <1>9
    <3>2. QED BY <3>1 DEF StreamsAdded, new
  <2>2. /\ c \in service' /\ c \in Nat /\ x = sevmgr'[pool'[c].sevmgr]
        /\ DOMAIN pool \subseteq DOMAIN pool' /\ DOMAIN stdair \subseteq DOMAIN stdair'
        /\ \A m \in DOMAIN sevmgr : sevmgr'[m] = sevmgr[m]
    BY <1>1, <1>9 DEF x, RootOf, ObjectsInv, ObjectsTyped, PointersSet
  <2>3. \A d \in service' : d \in service /\ pool'[d].sevmgr = pool[d].sevmgr
    BY <1>1
  <2>4. QED BY <1>1, <1>11, <2>1, <2>2, <2>3, HangWithLoad
<1>13. loads' \in Seq([by : Nat, size : Nat, completed : BOOLEAN])
  BY <1>1, RecordKeeps DEF ObjectsInv, PointersSet
<1>14. QED BY <1>1, <1>9, <1>10, <1>11, <1>12, <1>13 DEF ObjectsInv, ObjectsTyped

(* A load without a row changes the record of the loads only. *)
LEMMA LoadOfNothingKeeps ==
  ASSUME ObjectsInv, NEW c, NEW completed \in BOOLEAN, LoadOfNothing(c, completed)
  PROVE  ObjectsInv'
<1>1. /\ c \in service /\ pool[c].sevmgr = Null /\ RecordLoad(c, 0, completed)
      /\ UNCHANGED <<pool, stdair, sevmgr, service, clientVars, outOfStep>>
  BY DEF LoadOfNothing
<1>2. loads' \in Seq([by : Nat, size : Nat, completed : BOOLEAN])
  BY <1>1, RecordKeeps DEF ObjectsInv, PointersSet
<1>3. PointersSet' /\ CopyInStep'
  BY <1>1 DEF ObjectsInv, PointersSet, CopyInStep, RootOf, clientVars
<1>4. StreamsHang'
  <2>1. StreamsAdded(Null, 0)
    BY <1>1 DEF StreamsAdded, StreamsOf
  <2>2. c \in service' /\ c \in Nat /\ pool'[c].sevmgr = Null
    BY <1>1 DEF ObjectsInv, ObjectsTyped, PointersSet
  <2>3. \A d \in service' : d \in service /\ pool'[d].sevmgr = pool[d].sevmgr
    BY <1>1
  <2>4. QED BY <1>1, <1>3, <2>1, <2>2, <2>3, HangWithLoad
<1>5. QED BY <1>1, <1>2, <1>3, <1>4 DEF ObjectsInv, ObjectsTyped

-----------------------------------------------------------------------------
(* The programs. *)

(* What the Python init puts together: a service over its own StdAir service,
   which it loads. *)
LEMMA NewLoadedServiceKeeps ==
  ASSUME ObjectsInv, NEW n \in Nat, NEW completed \in BOOLEAN, NewLoadedService(n, completed)
  PROVE  /\ ObjectsInv' /\ handle' \in service' /\ handle' = Len(pool')
         /\ loads' # << >> /\ loads'[Len(loads')].by = handle'
         /\ EventGenerators(handle)' = StreamsOf(Len(loads'), loads'[Len(loads')].size)
<1> DEFINE new == StreamsOf(Len(loads) + 1, n)
           t == [persistent |-> new, working |-> IF completed THEN new ELSE {}]
           r == [by |-> Len(pool) + 1, size |-> n, completed |-> completed]
<1>1. Len(loads) + 1 \in Nat /\ Len(pool) + 1 \in Nat
  BY DEF ObjectsInv, ObjectsTyped
<1>2. /\ t \in Trees /\ t.working \subseteq t.persistent /\ t.persistent = new
      /\ completed => t.working = t.persistent
  BY <1>1 DEF Trees, StreamsOf, Stream
<1>3. /\ RecordLoad(Len(pool) + 1, n, completed)
      /\ handle' = Len(pool) + 1 /\ stdair' = Append(stdair, t)
      /\ sevmgr' = Append(sevmgr, Len(stdair) + 1) /\ UNCHANGED clientVars
      /\ AddContext(TRUE, Len(stdair) + 1, Len(sevmgr) + 1)
      /\ loads' = Append(loads, r)
      /\ outOfStep' = IF completed THEN outOfStep ELSE outOfStep \cup {Len(stdair) + 1}
  BY DEF NewLoadedService, RecordLoad
<1>4. \E k \in Nat, b \in BOOLEAN :
        /\ RecordLoad(Len(pool) + 1, k, b)
        /\ t.persistent = StreamsOf(Len(loads) + 1, k)
  BY <1>2, <1>3
<1> HIDE DEF t
<1>5. /\ outOfStep \subseteq outOfStep' /\ outOfStep' \subseteq outOfStep \cup {Len(stdair) + 1}
      /\ Len(stdair) + 1 \notin outOfStep' => t.working = t.persistent
  BY <1>2, <1>3
<1>6. /\ ObjectsInv' /\ Len(pool) + 1 \in service' /\ Len(pool') = Len(pool) + 1
      /\ stdair'[sevmgr'[pool'[Len(pool) + 1].sevmgr]] = t
  BY <1>2, <1>3, <1>4, <1>5, OwnServiceKeeps
<1>7. EventGenerators(handle)' = new
  BY <1>2, <1>3, <1>6 DEF EventGenerators, RootOf
<1>8. Len(loads') = Len(loads) + 1 /\ loads'[Len(loads) + 1] = r
  <2>1. loads \in Seq([by : Nat, size : Nat, completed : BOOLEAN])
        /\ r \in [by : Nat, size : Nat, completed : BOOLEAN]
    BY <1>1 DEF ObjectsInv, ObjectsTyped
  <2> HIDE DEF r
  <2>2. QED BY <1>3, <2>1
<1>9. loads' # << >>
  BY <1>1, <1>8
<1>10. r.by = Len(pool) + 1 /\ r.size = n
  OBVIOUS
<1> HIDE DEF r
<1>11. QED BY <1>3, <1>6, <1>7, <1>8, <1>9, <1>10

(* The objects keep their invariant in each step of each program. *)
LEMMA ObjectsStep == ObjectsInv /\ [Next]_vars => ObjectsInv'
<1> SUFFICES ASSUME ObjectsInv, [Next]_vars PROVE ObjectsInv'
  OBVIOUS
<1>1. CASE UNCHANGED objects
  BY <1>1, SameObjects
<1>2. CASE MainStep
  <2>1. CASE ReadConfiguration \/ OpenLog \/ MainLoop \/ DisplayAirline
    BY <1>1, <2>1 DEF ReadConfiguration, OpenLog, MainLoop, DisplayAirline
  <2>2. CASE Construct
    BY <1>1, <2>2, NewServiceKeeps DEF Construct
  <2>3. CASE LoadInput
    BY <2>3, LoadKeeps, LifeCycleAssumption DEF LoadInput
  <2>4. CASE Exit
    BY <2>4, DestroyKeeps DEF Exit
  <2>5. QED BY <1>2, <2>1, <2>2, <2>3, <2>4 DEF MainStep
<1>3. CASE PythonInit
  BY <1>3, NewLoadedServiceKeeps, LifeCycleAssumption DEF PythonInit
<1>4. CASE SimulatorStep
  <2>1. CASE ClientStdAir \/ ClientSEvMgr \/ LetGo \/ NewService
    BY <2>1, ClientStdAirKeeps, ClientSEvMgrKeeps, LetGoKeeps, NewServiceKeeps
  <2>2. CASE \E x \in heldStdAir \cup {Null}, m \in heldSEvMgr \cup {Null} : NewSharedService(x, m)
    BY <2>2, NewSharedServiceKeeps
  <2>3. CASE \E c \in service, n \in LoadSizes, completed \in BOOLEAN : Load(c, n, completed)
    BY <2>3, LoadKeeps, LifeCycleAssumption
  <2>4. CASE \E c \in service, completed \in BOOLEAN : LoadOfNothing(c, completed)
    BY <2>4, LoadOfNothingKeeps
  <2>5. CASE \E c \in service : Destroy(c)
    BY <2>5, DestroyKeeps
  <2>6. QED BY <1>4, <2>1, <2>2, <2>3, <2>4, <2>5 DEF SimulatorStep
<1>5. CASE \/ PythonInitRefused \/ PythonInitThrows \/ PythonEnd \/ SimulatorAborts \/ Terminating
           \/ UNCHANGED vars
  BY <1>1, <1>5 DEF PythonInitRefused, PythonInitThrows, PythonEnd, SimulatorAborts, CallFails,
                    Terminating, vars
<1>6. QED BY <1>2, <1>3, <1>4, <1>5 DEF Next

(* No object exists when a program starts. *)
LEMMA InitObjects == Init => ObjectsInv
BY DEF Init, ObjectsInit, ObjectsInv, ObjectsTyped, PointersSet, CopyInStep, StreamsHang

(* The objects keep their invariant. *)
LEMMA ObjectsInvHolds == Spec => []ObjectsInv
BY InitObjects, ObjectsStep, PTL DEF Spec

-----------------------------------------------------------------------------
(* The theorems about the objects. *)

(* Whichever pointers its client gave a service, null ones and ones that do not
   belong together included, it generates requests for all the streams it loaded,
   and for those of another service exactly if they share the StdAir service of
   their SEvMgr services. *)
THEOREM LoadsFoundHolds == Spec => []LoadsFound
<1>1. ObjectsInv => LoadsFound
  <2> SUFFICES ASSUME ObjectsInv, NEW c \in service, NEW d \in service, HasSEvMgr(c), HasSEvMgr(d)
               PROVE  IF RootOf(c) = RootOf(d)
                      THEN LoadedBy(d) \subseteq EventGenerators(c)
                      ELSE LoadedBy(d) \cap EventGenerators(c) = {}
    BY DEF LoadsFound
  <2>1. RootOf(c) \in DOMAIN stdair /\ RootOf(d) \in DOMAIN stdair
    BY DEF ObjectsInv, PointersSet, HasSEvMgr, RootOf
  <2>2. LoadedBy(d) \subseteq EventGenerators(d)
    BY DEF ObjectsInv, StreamsHang
  <2>3. CASE RootOf(c) = RootOf(d)
    BY <2>2, <2>3 DEF EventGenerators
  <2>4. CASE RootOf(c) # RootOf(d)
    <3>1. EventGenerators(c) \cap EventGenerators(d) = {}
      BY <2>1, <2>4 DEF EventGenerators, ObjectsInv, StreamsHang
    <3>2. QED BY <2>2, <2>4, <3>1
  <2>5. QED BY <2>3, <2>4
<1>2. QED BY <1>1, ObjectsInvHolds, PTL

(* A StdAir service that nothing of the client and no existing service points at,
   directly or through a SEvMgr service, is freed: the contexts that stay in the
   pool hold nothing. *)
THEOREM NothingOutlivesItsUsersHolds == Spec => []NothingOutlivesItsUsers
<1>1. ObjectsInv => NothingOutlivesItsUsers
  <2> SUFFICES ASSUME ObjectsInv, NEW x \in DOMAIN stdair, StdAirAlive(x), x \notin heldStdAir
               PROVE  \/ \E m \in heldSEvMgr : sevmgr[m] = x
                      \/ \E c \in service : pool[c].stdair = x \/ (HasSEvMgr(c) /\ RootOf(c) = x)
    BY DEF NothingOutlivesItsUsers
  <2>1. Null \notin DOMAIN stdair /\ Null \notin DOMAIN sevmgr
    BY NullIsNone
  <2>2. CASE \E c \in DOMAIN pool : pool[c].stdair = x
    BY <2>1, <2>2 DEF ObjectsInv, PointersSet
  <2>3. CASE \E m \in DOMAIN sevmgr : SEvMgrAlive(m) /\ sevmgr[m] = x
    <3>1. PICK m \in DOMAIN sevmgr : SEvMgrAlive(m) /\ sevmgr[m] = x
      BY <2>3
    <3>2. CASE \E c \in DOMAIN pool : pool[c].sevmgr = m
      <4>1. PICK c \in DOMAIN pool : pool[c].sevmgr = m
        BY <3>2
      <4>2. c \in service /\ HasSEvMgr(c) /\ RootOf(c) = x
        BY <2>1, <3>1, <4>1 DEF ObjectsInv, PointersSet, HasSEvMgr, RootOf
      <4>3. QED BY <4>2
    <3>3. QED BY <3>1, <3>2 DEF SEvMgrAlive
  <2>4. QED BY <2>2, <2>3 DEF StdAirAlive
<1>2. QED BY <1>1, ObjectsInvHolds, PTL

(* The working copy of a tree never holds a stream of its own, and is complete
   but after a load that failed or was not the owner's. *)
THEOREM CopyInStepHolds == Spec => []CopyInStep
<1>1. ObjectsInv => CopyInStep
  BY DEF ObjectsInv
<1>2. QED BY <1>1, ObjectsInvHolds, PTL

-----------------------------------------------------------------------------
(* The Python wrapper. *)

(* Its handle is the service of the last init that constructed one, loaded by
   that init alone. *)
HandleIsLast ==
  kind = "python" =>
    /\ log \in Nat /\ pc \in {"running", "exited"}
    /\ handle # Null =>
         /\ handle \in service /\ handle = Len(pool)
         /\ loads # << >> /\ loads[Len(loads)].by = handle
         /\ EventGenerators(handle) = StreamsOf(Len(loads), loads[Len(loads)].size)
    /\ logStream => log > 0

(* The inits, in any order of success and failure, keep it. *)
LEMMA HandleIsLastStep == ObjectsInv /\ HandleIsLast /\ [Next]_vars => HandleIsLast'
<1> SUFFICES ASSUME ObjectsInv, HandleIsLast, [Next]_vars, kind' = "python" PROVE HandleIsLast'
  BY DEF HandleIsLast
<1>1. CASE UNCHANGED vars
  BY <1>1 DEF HandleIsLast, EventGenerators, RootOf, vars, objects, processVars, pythonVars
<1>2. CASE MainStep
  <2>1. kind = "python" /\ pc \in {"running", "exited"}
    BY <1>2 DEF MainStep, ReadConfiguration, OpenLog, Construct, LoadInput, MainLoop, DisplayAirline,
                Exit, Uncaught, HandleIsLast
  <2>2. QED BY <1>2, <2>1 DEF MainStep, ReadConfiguration, OpenLog, Construct, LoadInput, MainLoop,
                              DisplayAirline, Exit
<1>3. CASE PythonInitRefused
  BY <1>3 DEF PythonInitRefused, HandleIsLast, EventGenerators, RootOf, objects, processVars
<1>4. CASE PythonInitThrows
  BY <1>4 DEF PythonInitThrows, HandleIsLast, EventGenerators, RootOf, objects
<1>5. CASE PythonInit
  <2>1. PICK n \in LoadSizes, completed \in BOOLEAN : NewLoadedService(n, completed)
    BY <1>5 DEF PythonInit
  <2>2. n \in Nat
    BY LifeCycleAssumption
  <2>3. /\ handle' \in service' /\ handle' = Len(pool')
        /\ loads' # << >> /\ loads'[Len(loads')].by = handle'
        /\ EventGenerators(handle)' = StreamsOf(Len(loads'), loads'[Len(loads')].size)
    BY <2>1, <2>2, NewLoadedServiceKeeps
  <2>4. log' = log + 1 /\ logStream' = TRUE /\ pc' = pc /\ kind' = kind
    BY <1>5 DEF PythonInit
  <2>5. QED BY <2>3, <2>4 DEF HandleIsLast
<1>6. CASE PythonEnd
  BY <1>6 DEF PythonEnd, HandleIsLast, Null, objects
<1>7. CASE SimulatorStep \/ SimulatorAborts
  BY <1>7 DEF SimulatorStep, SimulatorAborts, Uncaught, processVars
<1>8. CASE Terminating
  BY <1>1, <1>8 DEF Terminating
<1>9. QED BY <1>1, <1>2, <1>3, <1>4, <1>5, <1>6, <1>7, <1>8 DEF Next

(* However many times init is called, and whichever calls fail, a run of the
   Python wrapper has a log file and exactly the streams of one load, complete or
   not: that of the last init that constructed a service. *)
THEOREM PythonRunsOneInitHolds == Spec => []PythonRunsOneInit
<1>1. Init => HandleIsLast
  BY DEF Init, ObjectsInit, HandleIsLast, Null
<1>2. HandleIsLast => PythonRunsOneInit
  BY DEF HandleIsLast, PythonRunsOneInit, PythonAnswer
<1>3. QED BY <1>1, <1>2, HandleIsLastStep, ObjectsInvHolds, PTL DEF Spec
=============================================================================
