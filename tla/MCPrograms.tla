----------------------------- MODULE MCPrograms -----------------------------
(***************************************************************************)
(* Two services, three loads of at most two streams, two rows, three calls    *)
(* of the Python init, two StdAir and two SEvMgr services of the simulator;     *)
(* command lines of at most two options and configuration files of at most    *)
(* one, over options of each program, with the values that matter of each.     *)
(***************************************************************************)
EXTENDS Programs, TLC

SomeOptions == {"builtin", "draws", "seed", "demandgeneration", "user"}

ValuesOf(o) ==
  CASE o \in {"draws", "seed"} -> {"good", "bad"}
    [] o = "demandgeneration" -> {"good", "bad", "noMethod"}
    [] OTHER -> {"good"}

Sources(options, size) ==
  UNION {{f \in [s -> {"good", "bad", "noMethod"}] : \A o \in s : f[o] \in ValuesOf(o)} :
           s \in {t \in SUBSET options : Cardinality(t) <= size}}

MCCommandLines == Sources(SomeOptions \cup {"help"}, 2)
MCConfigFiles == Sources(SomeOptions, 1)
=============================================================================
