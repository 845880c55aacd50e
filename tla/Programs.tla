------------------------------ MODULE Programs ------------------------------
(***************************************************************************)
(* The programs, each from its start to its end: the batch program            *)
(* (batches/trademgen_generateDemand.cpp), the interactive one                *)
(* (ui/cmdline/trademgen.cpp), the one with a database                       *)
(* (batches/trademgen_with_db.cpp) and the Python wrapper                     *)
(* (python/pytrademgen.cpp); and the simulator that shares its StdAir and     *)
(* SEvMgr services, which is not part of the repository.  The main loops are  *)
(* the subject of BatchDriver, InteractiveSession and PythonSession; here     *)
(* they end, or stop the program.                                           *)
(***************************************************************************)
EXTENDS ServiceLifeCycle

CONSTANTS
  CommandLines,   \* what the command line may give: functions from options to values
  ConfigFiles,    \* the same of the configuration file
  NbRows,         \* bound on the rows of the airline table
  NbInits,        \* bound on the calls of the Python init
  NbClientObjects \* bound on the StdAir services, and on the SEvMgr services, that exist
                  \* when the simulator has constructed one

ASSUME ProgramsAssumption == NbRows \in Nat /\ NbInits \in Nat /\ NbClientObjects \in Nat

Kinds == {"batch", "interactive", "db", "python", "simulator"}

VARIABLES
  kind,       \* the program
  commandLine, configFile,
  pc,         \* "start", "configured", "logged", "constructed", "loaded" and "ran" for
              \* the three programs, "running" for the others; "early": printed
              \* the help and returned; "exited"; "refused": by readConfiguration;
              \* "terminated": by an exception or an assertion
  log,        \* log files opened and not closed
  handle,     \* Python: _trademgenService, by its context
  logStream,  \* Python: _logOutputStream is set
  inits,      \* Python: calls of init so far
  returned,   \* Python: what the last init returned
  table,      \* database: the number of rows of the airline table
  airline,    \* database: the row that was fetched last, 0 if none was
  displayed   \* database: the rows displayed

processVars == <<kind, commandLine, configFile, pc, log>>
pythonVars == <<handle, logStream, inits, returned>>
dbVars == <<table, airline, displayed>>
vars == <<objects, processVars, pythonVars, dbVars>>

-----------------------------------------------------------------------------
(* readConfiguration. *)

Generic == {"prefix", "version", "help"}
Common == {"builtin", "seed", "input", "log", "copyright"}

(* The options a program understands. *)
Config(k) ==
  CASE k = "batch" -> Common \cup {"draws", "demandgeneration", "output"}
    [] k = "interactive" -> Common \cup {"demandgeneration"}
    [] k = "db" -> Common \cup {"user", "passwd", "host", "port", "dbname", "query"}

Given == DOMAIN commandLine \cup DOMAIN configFile

(* The command line is stored first, and an option it gives is skipped in the
   configuration file, value and all.  A value is "good", "bad" if it does not
   convert to the number or the character wanted, or, for the method of
   generation, "noMethod": a character that stands for none. *)
Value(o) == IF o \in DOMAIN commandLine THEN commandLine[o] ELSE configFile[o]

(* Both sources are read before anything is done with an option. *)
IsRefused(k) ==
  \/ ~(DOMAIN commandLine \subseteq Generic \cup Config(k))
  \/ ~(DOMAIN configFile \subseteq Config(k))
  \/ \E o \in Given : Value(o) = "bad"

HasBadMethod == "demandgeneration" \in Given /\ Value("demandgeneration") = "noMethod"

(* A method that is none throws only after the help was asked for. *)
ReadConfiguration ==
  /\ pc = "start" /\ kind \in {"batch", "interactive", "db"}
  /\ pc' = IF IsRefused(kind) THEN "refused"
           ELSE IF DOMAIN commandLine \cap Generic # {} THEN "early"
           ELSE IF HasBadMethod THEN "refused" ELSE "configured"
  /\ UNCHANGED <<objects, kind, commandLine, configFile, log, pythonVars, dbVars>>

-----------------------------------------------------------------------------
(* main. *)

OpenLog ==
  /\ pc = "configured"
  /\ pc' = "logged" /\ log' = log + 1
  /\ UNCHANGED <<objects, kind, commandLine, configFile, pythonVars, dbVars>>

(* The exceptions of the main programs are not caught: the program is
   terminated and no destructor runs. *)
Uncaught ==
  /\ pc' = "terminated"
  /\ UNCHANGED <<kind, commandLine, configFile, log, pythonVars, dbVars>>

(* The StdAir service may throw on its parameters, for instance on those of a
   database that does not answer. *)
Construct ==
  /\ pc = "logged"
  /\ \/ /\ NewService /\ pc' = "constructed"
        /\ UNCHANGED <<kind, commandLine, configFile, log, pythonVars, dbVars>>
     \/ Uncaught /\ UNCHANGED objects

IsBuiltin == "builtin" \in Given

(* The built-in sample loads without an exception. *)
LoadInput ==
  /\ pc = "constructed"
  /\ \E n \in LoadSizes, completed \in BOOLEAN :
       /\ IsBuiltin => completed
       /\ Load(1, n, completed)
       /\ IF completed
          THEN /\ pc' = "loaded"
               /\ UNCHANGED <<kind, commandLine, configFile, log, pythonVars, dbVars>>
          ELSE Uncaught

(* The main loop of the batch and of the interactive program. *)
MainLoop ==
  /\ pc = "loaded" /\ kind \in {"batch", "interactive"}
  /\ \/ /\ pc' = "ran"
        /\ UNCHANGED <<kind, commandLine, configFile, log, pythonVars, dbVars>>
     \/ Uncaught
  /\ UNCHANGED objects

(* displayAirlineListFromDB: what was fetched last is displayed whether or not
   there was one more to fetch. *)
DisplayAirline ==
  /\ pc = "loaded" /\ kind = "db"
  /\ LET hasStillData == airline < table
     IN  /\ airline' = IF hasStillData THEN airline + 1 ELSE airline
         /\ pc' = IF hasStillData THEN "loaded" ELSE "ran"
  /\ displayed' = Append(displayed, airline')
  /\ UNCHANGED <<objects, kind, commandLine, configFile, log, pythonVars, table>>

(* The log is closed, then main returns and the service is destroyed. *)
Exit ==
  /\ pc = "ran"
  /\ Destroy(1)
  /\ pc' = "exited" /\ log' = log - 1
  /\ UNCHANGED <<kind, commandLine, configFile, pythonVars, dbVars>>

-----------------------------------------------------------------------------
(* The Python wrapper. *)

(* init with an empty log path. *)
PythonInitRefused ==
  /\ kind = "python" /\ pc = "running" /\ inits < NbInits
  /\ inits' = inits + 1 /\ returned' = FALSE
  /\ UNCHANGED <<objects, processVars, handle, logStream, dbVars>>

(* The constructor throws: the log is open, and the service of an earlier init
   remains. *)
PythonInitThrows ==
  /\ kind = "python" /\ pc = "running" /\ inits < NbInits
  /\ logStream' = TRUE /\ log' = log + 1
  /\ inits' = inits + 1 /\ returned' = TRUE
  /\ UNCHANGED <<objects, kind, commandLine, configFile, pc, handle, dbVars>>

(* A service is constructed, which takes the place of an earlier one without
   destroying it, and loaded. *)
NewLoadedService(n, completed) ==
  /\ Len(pool) < MaxServices
  /\ handle' = Len(pool) + 1
  /\ AddContext(TRUE, Len(stdair) + 1, Len(sevmgr) + 1)
  /\ sevmgr' = Append(sevmgr, Len(stdair) + 1)
  /\ RecordLoad(Len(pool) + 1, n, completed)
  /\ LET new == StreamsOf(Len(loads) + 1, n)
     IN  stdair' = Append(stdair, [persistent |-> new, working |-> IF completed THEN new ELSE {}])
  /\ outOfStep' = IF completed THEN outOfStep ELSE outOfStep \cup {Len(stdair) + 1}
  /\ UNCHANGED clientVars

(* A service of an earlier init is loaded again. *)
MutPythonInit ==
  /\ kind = "python" /\ pc = "running" /\ inits < NbInits
  /\ \E n \in LoadSizes, completed \in BOOLEAN :
       IF handle = Null THEN NewLoadedService(n, completed)
       ELSE Load(handle, n, completed) /\ UNCHANGED handle
  /\ logStream' = TRUE /\ log' = log + 1
  /\ inits' = inits + 1 /\ returned' = TRUE
  /\ UNCHANGED <<kind, commandLine, configFile, pc, dbVars>>

(* The constructor does not throw: init returns true even if the load does. *)
PythonInit ==
  /\ kind = "python" /\ pc = "running" /\ inits < NbInits
  /\ \E n \in LoadSizes, completed \in BOOLEAN : NewLoadedService(n, completed)
  /\ logStream' = TRUE /\ log' = log + 1
  /\ inits' = inits + 1 /\ returned' = TRUE
  /\ UNCHANGED <<kind, commandLine, configFile, pc, dbVars>>

(* The answer to a call of trademgen. *)
PythonAnswer ==
  IF ~logStream THEN "invalid log" ELSE IF handle = Null THEN "not initialised" ELSE "runs"

(* The wrapper is destroyed: the pointers are cleared, the service and the log
   file stay. *)
PythonEnd ==
  /\ kind = "python" /\ pc = "running"
  /\ handle' = Null /\ logStream' = FALSE
  /\ pc' = "exited"
  /\ UNCHANGED <<objects, kind, commandLine, configFile, log, inits, returned, dbVars>>

-----------------------------------------------------------------------------
(* The simulator: it constructs StdAir services, and SEvMgr services over them,
   gives any two of its pointers, or none, to the services it constructs, and lets
   go of them in any order; and it constructs services of their own. *)

ClientStdAir ==
  /\ Len(stdair) < NbClientObjects
  /\ stdair' = Append(stdair, EmptyTrees)
  /\ heldStdAir' = heldStdAir \cup {Len(stdair) + 1}
  /\ UNCHANGED <<pool, sevmgr, service, heldSEvMgr, loads, outOfStep>>

ClientSEvMgr ==
  /\ Len(sevmgr) < NbClientObjects
  /\ \E x \in heldStdAir : sevmgr' = Append(sevmgr, x)
  /\ heldSEvMgr' = heldSEvMgr \cup {Len(sevmgr) + 1}
  /\ UNCHANGED <<pool, stdair, service, heldStdAir, loads, outOfStep>>

LetGo ==
  /\ \/ \E x \in heldStdAir : heldStdAir' = heldStdAir \ {x} /\ UNCHANGED heldSEvMgr
     \/ \E m \in heldSEvMgr : heldSEvMgr' = heldSEvMgr \ {m} /\ UNCHANGED heldStdAir
  /\ UNCHANGED <<pool, stdair, sevmgr, service, loads, outOfStep>>

SimulatorStep ==
  /\ kind = "simulator" /\ pc = "running"
  /\ \/ ClientStdAir
     \/ ClientSEvMgr
     \/ LetGo
     \/ NewService
     \/ \E x \in heldStdAir \cup {Null}, m \in heldSEvMgr \cup {Null} : NewSharedService(x, m)
     \/ \E c \in service, n \in LoadSizes, completed \in BOOLEAN : Load(c, n, completed)
     \/ \E c \in service, completed \in BOOLEAN : LoadOfNothing(c, completed)
     \/ \E c \in service : Destroy(c)
  /\ UNCHANGED <<processVars, pythonVars, dbVars>>

SimulatorAborts ==
  /\ kind = "simulator" /\ pc = "running"
  /\ \E c \in service : CallFails(c)
  /\ Uncaught

-----------------------------------------------------------------------------
Init ==
  /\ ObjectsInit
  /\ kind \in Kinds
  /\ commandLine \in (IF kind \in {"python", "simulator"} THEN {<< >>} ELSE CommandLines)
  /\ configFile \in (IF kind \in {"python", "simulator"} THEN {<< >>} ELSE ConfigFiles)
  /\ pc = (IF kind \in {"python", "simulator"} THEN "running" ELSE "start") /\ log = 0
  /\ handle = Null /\ logStream = FALSE /\ inits = 0 /\ returned = TRUE
  /\ table \in (IF kind = "db" THEN 0 .. NbRows ELSE {0}) /\ airline = 0 /\ displayed = << >>

MainStep ==
  \/ ReadConfiguration \/ OpenLog \/ Construct \/ LoadInput \/ MainLoop \/ DisplayAirline \/ Exit

Ended == {"early", "exited", "refused", "terminated"}

Terminating == (pc \in Ended \/ kind = "simulator") /\ UNCHANGED vars

Next ==
  \/ MainStep
  \/ PythonInitRefused \/ PythonInitThrows \/ PythonInit \/ PythonEnd
  \/ SimulatorStep \/ SimulatorAborts
  \/ Terminating

Spec == Init /\ [][Next]_vars
-----------------------------------------------------------------------------
(* Properties. *)

TypeOK ==
  /\ pool \in Seq([own : BOOLEAN, stdair : 0 .. Len(stdair), sevmgr : 0 .. Len(sevmgr)])
  /\ sevmgr \in Seq(DOMAIN stdair)
  /\ heldStdAir \subseteq DOMAIN stdair /\ heldSEvMgr \subseteq DOMAIN sevmgr
  /\ service \subseteq DOMAIN pool
  /\ loads \in Seq([by : DOMAIN pool, size : LoadSizes \cup {0}, completed : BOOLEAN])
  /\ outOfStep \subseteq DOMAIN stdair
  /\ kind \in Kinds /\ log \in Nat
  /\ pc \in {"start", "configured", "logged", "constructed", "loaded", "ran", "running"} \cup Ended
  /\ handle \in {Null} \cup DOMAIN pool /\ logStream \in BOOLEAN
  /\ inits \in 0 .. NbInits /\ returned \in BOOLEAN
  /\ table \in 0 .. NbRows /\ airline \in 0 .. table /\ displayed \in Seq(0 .. table)

(* A call of trademgen that runs has the log file of some init and exactly the
   streams of one load, that of the last init that constructed a service: those of
   a file that failed half way included, and none of any other init, whatever
   init came before, and whichever failed after it. *)
PythonRunsOneInit ==
  kind = "python" /\ PythonAnswer = "runs" =>
    /\ log > 0 /\ handle \in service /\ handle = Len(pool)
    /\ loads # << >> /\ loads[Len(loads)].by = handle
    /\ EventGenerators(handle) = StreamsOf(Len(loads), loads[Len(loads)].size)
=============================================================================
