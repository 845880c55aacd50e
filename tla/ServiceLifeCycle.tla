-------------------------- MODULE ServiceLifeCycle --------------------------
(***************************************************************************)
(* The objects behind the services of TraDemGen (the constructors, load and   *)
(* finalise operations of service/TRADEMGEN_Service.cpp, the service context  *)
(* and its factory).  A service has a context, taken from a pool that never    *)
(* gives one back; the context points at a StdAir service and at a SEvMgr      *)
(* service, which itself points at a StdAir service.  These pointers are      *)
(* counted: an object lives as long as one of them reaches it.               *)
(*                                                                         *)
(* A StdAir service has a persistent tree, on which the demand streams hang,  *)
(* and a working copy of it.  A stream is the load that created it and its    *)
(* number in that load; what a load creates, and that an exception may end    *)
(* it after any number of streams, is the subject of DemandLoading.          *)
(***************************************************************************)
EXTENDS Integers, Sequences, FiniteSets

CONSTANTS
  MaxServices,   \* bound on the services constructed
  MaxLoads,      \* bound on the loads
  LoadSizes      \* the numbers of streams a load may create

ASSUME LifeCycleAssumption ==
  MaxServices \in Nat /\ MaxLoads \in Nat /\ LoadSizes \subseteq Nat

VARIABLES
  pool,        \* contexts, in the order of their creation
  stdair,      \* StdAir services ever constructed: their two trees
  sevmgr,      \* SEvMgr services ever constructed: the StdAir service of each
  service,     \* the service objects that exist, by the index of their context
  heldStdAir,  \* StdAir services the client itself points at
  heldSEvMgr,  \* SEvMgr services the client itself points at
  loads,       \* history: the loads so far, by which service, of how many streams,
               \* and whether each ended without an exception
  outOfStep    \* history: trees changed after the last copy, other than by a
               \* completed load of the owner

clientVars == <<heldStdAir, heldSEvMgr>>
objects == <<pool, stdair, sevmgr, service, clientVars, loads, outOfStep>>

Null == 0

EmptyTrees == [persistent |-> {}, working |-> {}]

ObjectsInit ==
  /\ pool = << >> /\ stdair = << >> /\ sevmgr = << >>
  /\ service = {} /\ heldStdAir = {} /\ heldSEvMgr = {}
  /\ loads = << >> /\ outOfStep = {}

-----------------------------------------------------------------------------
(* What is reachable. *)

SEvMgrAlive(m) == m \in heldSEvMgr \/ \E c \in DOMAIN pool : pool[c].sevmgr = m

StdAirAlive(x) ==
  \/ x \in heldStdAir
  \/ \E c \in DOMAIN pool : pool[c].stdair = x
  \/ \E m \in DOMAIN sevmgr : SEvMgrAlive(m) /\ sevmgr[m] = x

(* Whether the calls that go through the context find what they look for.  The
   constructor with the pointers of a client does not see to it. *)
IsUsable(c) == pool[c].stdair # Null /\ pool[c].sevmgr # Null

-----------------------------------------------------------------------------
(* Constructors. *)

AddContext(own, x, m) ==
  /\ pool' = Append(pool, [own |-> own, stdair |-> x, sevmgr |-> m])
  /\ service' = service \cup {Len(pool) + 1}

(* With log parameters, and with those of a database or without: the service
   creates its StdAir service, owns it, and creates a SEvMgr service over it. *)
NewService ==
  /\ Len(pool) < MaxServices
  /\ stdair' = Append(stdair, EmptyTrees)
  /\ sevmgr' = Append(sevmgr, Len(stdair) + 1)
  /\ AddContext(TRUE, Len(stdair) + 1, Len(sevmgr) + 1)
  /\ UNCHANGED <<clientVars, loads, outOfStep>>

(* With two pointers of the client, which are stored as they are: either may be
   null, and the SEvMgr service need not be over the StdAir service. *)
NewSharedService(x, m) ==
  /\ Len(pool) < MaxServices
  /\ x \in heldStdAir \cup {Null} /\ m \in heldSEvMgr \cup {Null}
  /\ AddContext(FALSE, x, m)
  /\ UNCHANGED <<stdair, sevmgr, clientVars, loads, outOfStep>>

MutContextReset(c) == pool' = [pool EXCEPT ![c].stdair = Null]

(* TRADEMGEN_ServiceContext::reset. *)
ContextReset(c) == pool' = [pool EXCEPT ![c].stdair = Null, ![c].sevmgr = Null]

(* The destructor finalises the service; its context stays in the pool. *)
Destroy(c) ==
  /\ c \in service
  /\ ContextReset(c)
  /\ service' = service \ {c}
  /\ UNCHANGED <<stdair, sevmgr, clientVars, loads, outOfStep>>

-----------------------------------------------------------------------------
(* Loads. *)

(* The root the demand streams hang on: the persistent one of the StdAir
   service of the SEvMgr service (addEventGenerator). *)
RootOf(c) == sevmgr[pool[c].sevmgr]

(* The streams that are, or would be, those of the load of some number. *)
StreamsOf(load, n) == {[load |-> load, number |-> i] : i \in 1 .. n}

ClonePersistentBom(trees, x) == [trees EXCEPT ![x].working = trees[x].persistent]

RecordLoad(c, n, completed) ==
  /\ Len(loads) < MaxLoads
  /\ loads' = Append(loads, [by |-> c, size |-> n, completed |-> completed])

(* The tree is copied before the streams are added. *)
MutLoad(c, n, completed) ==
  /\ c \in service /\ IsUsable(c) /\ RecordLoad(c, n, completed)
  /\ LET copied == IF pool[c].own THEN ClonePersistentBom(stdair, pool[c].stdair) ELSE stdair
     IN  stdair' = [copied EXCEPT ![RootOf(c)].persistent = @ \cup StreamsOf(Len(loads) + 1, n)]
  /\ outOfStep' = IF completed /\ pool[c].own THEN outOfStep \ {pool[c].stdair}
                  ELSE outOfStep \cup {RootOf(c)}
  /\ UNCHANGED <<pool, sevmgr, service, clientVars>>

(* The streams are added to the StdAir service of the context. *)
MutLoadByContext(c, n, completed) ==
  /\ c \in service /\ IsUsable(c) /\ RecordLoad(c, n, completed)
  /\ LET added == [stdair EXCEPT ![pool[c].stdair].persistent = @ \cup StreamsOf(Len(loads) + 1, n)]
     IN  stdair' = IF completed /\ pool[c].own
                   THEN ClonePersistentBom(added, pool[c].stdair) ELSE added
  /\ outOfStep' = IF completed /\ pool[c].own THEN outOfStep \ {pool[c].stdair}
                  ELSE outOfStep \cup {pool[c].stdair}
  /\ UNCHANGED <<pool, sevmgr, service, clientVars>>

(* parseAndLoad and buildSampleBom: n streams are added, and if no exception
   left the load, and the service owns its StdAir service, the tree is copied. *)
Load(c, n, completed) ==
  /\ c \in service /\ IsUsable(c) /\ RecordLoad(c, n, completed)
  /\ LET added == [stdair EXCEPT ![RootOf(c)].persistent = @ \cup StreamsOf(Len(loads) + 1, n)]
     IN  stdair' = IF completed /\ pool[c].own
                   THEN ClonePersistentBom(added, pool[c].stdair) ELSE added
  /\ outOfStep' = IF completed /\ pool[c].own THEN outOfStep \ {pool[c].stdair}
                  ELSE outOfStep \cup {RootOf(c)}
  /\ UNCHANGED <<pool, sevmgr, service, clientVars>>

(* parseAndLoad of a file without a row, or that cannot be read: the SEvMgr
   service is not asked for, and may be missing. *)
LoadOfNothing(c, completed) ==
  /\ c \in service /\ pool[c].stdair # Null /\ pool[c].sevmgr = Null
  /\ RecordLoad(c, 0, completed)
  /\ UNCHANGED <<pool, stdair, sevmgr, service, clientVars, outOfStep>>

(* A call that goes through a null pointer fails an assertion. *)
CallFails(c) == c \in service /\ ~IsUsable(c) /\ UNCHANGED objects

(* The streams a service generates requests for, lists and resets. *)
EventGenerators(c) == stdair[RootOf(c)].persistent

-----------------------------------------------------------------------------
(* Properties. *)

LoadedBy(c) == UNION {StreamsOf(l, loads[l].size) : l \in {k \in DOMAIN loads : loads[k].by = c}}

HasSEvMgr(c) == pool[c].sevmgr # Null

(* Whichever two pointers a client gave it, a service generates requests for all
   the streams it loaded itself, those of a load that failed included, and for
   those of another service exactly if their SEvMgr services are over the same
   StdAir service: what was loaded through one pointer is not looked for
   through the other, and does not turn up in a tree that is not shared. *)
LoadsFound ==
  \A c, d \in {k \in service : HasSEvMgr(k)} :
    IF RootOf(c) = RootOf(d)
    THEN LoadedBy(d) \subseteq EventGenerators(c)
    ELSE LoadedBy(d) \cap EventGenerators(c) = {}

(* Nothing outlives its users: once no service points at a StdAir service, or at
   a SEvMgr service over it, and the client does not either, it is freed, however
   many services shared it and in whatever order they went. *)
NothingOutlivesItsUsers ==
  \A x \in DOMAIN stdair :
    StdAirAlive(x) =>
      \/ x \in heldStdAir \/ \E m \in heldSEvMgr : sevmgr[m] = x
      \/ \E c \in service : pool[c].stdair = x \/ (HasSEvMgr(c) /\ RootOf(c) = x)

(* The working copy holds no stream that the persistent tree has not, and lacks
   none unless a load failed, or a service that does not own the tree loaded,
   after the copy.  The streams requests are generated for are those of the
   persistent tree: also those the copy lacks. *)
CopyInStep ==
  \A x \in DOMAIN stdair :
    /\ stdair[x].working \subseteq stdair[x].persistent
    /\ x \notin outOfStep => stdair[x].working = stdair[x].persistent
=============================================================================
