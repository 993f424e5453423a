------------------------------- MODULE M5Create -------------------------------
(***************************************************************************)
(* M5ResultStore.create of evalsim/results/m5.py: several processes ask    *)
(* for the same run name at once.  Each makes the run directory and its    *)
(* empty layout, or rolls back what it made.  The file system is reached   *)
(* by path only, so a step acts on whatever directory has the path now.    *)
(***************************************************************************)
EXTENDS Naturals

CONSTANT Processes

\* The parents of the run, and the paths below outputs/m5 with their directory.
Roots  == {"outputs", "m5"}
Parent == [pending |-> "run", pendingMetrics |-> "pending", metrics |-> "run",
           part |-> "metrics", FAILURE |-> "run", stranger |-> "run"]
Paths  == {"run"} \union DOMAIN Parent

VARIABLES
  roots,    \* the parents of the run that exist
  tree,     \* the paths of the run that exist
  maker,    \* the process that made the present run directory
  where,    \* where each process is inside create
  result,   \* how create ended, per process
  osFault,  \* a system call failed for a reason of its own, or a process died
  strange   \* something outside the program planted a member

createVars == <<roots, tree, maker, where, result, osFault, strange>>

Goto(p, step) == where' = [where EXCEPT ![p] = step]

End(p, how) == Goto(p, "done") /\ result' = [result EXCEPT ![p] = how]

Calm == UNCHANGED <<osFault, strange>>
Fault == osFault' = TRUE /\ UNCHANGED strange

Children(path) == {q \in tree \ {"run"} : Parent[q] = path}

-----------------------------------------------------------------------------
(* _ensure_directory: look, then make *)

Look(p, name, at, make, next) ==
  /\ where[p] = at
  /\ Goto(p, IF name \in roots THEN next ELSE make)
  /\ Calm
  /\ UNCHANGED <<roots, tree, maker, result>>

\* Another process may have made the directory since; mkdir then fails, and so
\* does the whole create.
Make(p, name, at, next) ==
  /\ where[p] = at
  /\ \/ /\ name \notin roots
        /\ roots' = roots \union {name}
        /\ Goto(p, next) /\ Calm /\ UNCHANGED result
     \/ /\ name \in roots
        /\ End(p, "failed") /\ Calm /\ UNCHANGED roots
     \/ /\ roots' \in {roots, roots \union {name}}
        /\ End(p, "failed") /\ Fault
  /\ UNCHANGED <<tree, maker>>

EnsureDirectories(p) ==
  \/ Look(p, "outputs", "look_outputs", "make_outputs", "look_m5")
  \/ Make(p, "outputs", "make_outputs", "look_m5")
  \/ Look(p, "m5", "look_m5", "make_m5", "probe")
  \/ Make(p, "m5", "make_m5", "probe")

-----------------------------------------------------------------------------
(* The run directory and its layout *)

Probe(p) ==
  /\ where[p] = "probe"
  /\ IF "run" \in tree THEN End(p, "exists")
                       ELSE Goto(p, "make_run") /\ UNCHANGED result
  /\ Calm
  /\ UNCHANGED <<roots, tree, maker>>

\* Faulty: mkdir accepts a directory that exists.
LostRaceIgnored(p) == Goto(p, "check_run") /\ UNCHANGED result

\* Another process made the run directory between the probe and mkdir.
LostRace(p) == End(p, "exists")

MakeRun(p) ==
  /\ where[p] = "make_run"
  /\ \/ /\ "run" \notin tree
        /\ tree' = {"run"} /\ maker' = p
        /\ Goto(p, "check_run") /\ Calm /\ UNCHANGED result
     \/ "run" \in tree /\ LostRace(p) /\ Calm /\ UNCHANGED <<tree, maker>>
     \/ End(p, "failed") /\ Fault /\ UNCHANGED <<tree, maker>>
  /\ UNCHANGED roots

\* The fsync of outputs/m5 and the containment checks of the new directory.
CheckRun(p) ==
  /\ where[p] = "check_run"
  /\ \/ "run" \in tree /\ Goto(p, "make_pending") /\ Calm
     \/ "run" \notin tree /\ Goto(p, "undo_pendingMetrics") /\ Calm
     \/ Goto(p, "undo_pendingMetrics") /\ Fault
  /\ UNCHANGED <<roots, tree, maker, result>>

\* _create_child_directory: the fsync that follows mkdir may fail too.
CreateChild(p, name, at, next) ==
  /\ where[p] = at
  /\ \/ /\ name \notin tree /\ Parent[name] \in tree
        /\ tree' = tree \union {name}
        /\ Goto(p, next) /\ Calm
     \/ /\ name \in tree \/ Parent[name] \notin tree
        /\ Goto(p, "undo_pendingMetrics") /\ Calm /\ UNCHANGED tree
     \/ /\ tree' \in {tree, IF Parent[name] \in tree THEN tree \union {name}
                                                     ELSE tree}
        /\ Goto(p, "undo_pendingMetrics") /\ Fault
  /\ UNCHANGED <<roots, maker, result>>

CreateLayout(p) ==
  \/ CreateChild(p, "pending", "make_pending", "make_pendingMetrics")
  \/ CreateChild(p, "pendingMetrics", "make_pendingMetrics", "make_metrics")
  \/ CreateChild(p, "metrics", "make_metrics", "return")

ReturnStore(p) ==
  /\ where[p] = "return"
  /\ End(p, "created")
  /\ Calm
  /\ UNCHANGED <<roots, tree, maker>>

-----------------------------------------------------------------------------
(* _rollback_fresh_result_store *)

\* rmdir removes an empty directory and nothing else.
Removable(name) == name \in tree /\ Children(name) = {}

\* An error of rmdir is swallowed.
Undo(p, name, at, next) ==
  /\ where[p] = at
  /\ Goto(p, next)
  /\ \/ Removable(name) /\ tree' = tree \ {name} /\ Calm
     \/ ~Removable(name) /\ UNCHANGED tree /\ Calm
     \/ UNCHANGED tree /\ Fault
  /\ UNCHANGED <<roots, maker, result>>

UndoLayout(p) ==
  \/ Undo(p, "pendingMetrics", "undo_pendingMetrics", "undo_pending")
  \/ Undo(p, "pending", "undo_pending", "undo_metrics")
  \/ Undo(p, "metrics", "undo_metrics", "undo_run")
  \/ Undo(p, "run", "undo_run", "look_again")

\* A run directory that is still there, or there again, gets a failure record.
LookAgain(p) ==
  /\ where[p] = "look_again"
  /\ IF "run" \in tree /\ "FAILURE" \notin tree
     THEN Goto(p, "record") /\ UNCHANGED result
     ELSE End(p, "failed")
  /\ Calm
  /\ UNCHANGED <<roots, tree, maker>>

\* Faulty: only an empty run directory gets a failure record.
UnmarkedFaulty == "run" \in tree /\ Children("run") = {}

Unmarked == "run" \in tree /\ "FAILURE" \notin tree

\* An error of this write is swallowed; create fails in either case.
RecordFailure(p) ==
  /\ where[p] = "record"
  /\ \/ /\ Unmarked
        /\ End(p, "failed")
        /\ tree' = tree \union {"FAILURE"}
        /\ Calm
     \/ ~Unmarked /\ End(p, "failed") /\ Calm /\ UNCHANGED tree
     \/ End(p, "unrecorded") /\ Fault /\ UNCHANGED tree
  /\ UNCHANGED <<roots, maker>>

-----------------------------------------------------------------------------
(* Afterwards, and from outside *)

\* The store that create returned publishes an artifact.
UseStore(p) ==
  /\ result[p] = "created"
  /\ {"metrics", "pendingMetrics"} \subseteq tree
  /\ {"part", "FAILURE"} \intersect tree = {}
  /\ tree' = tree \union {"part"}
  /\ Calm
  /\ UNCHANGED <<roots, maker, where, result>>

\* Something outside the program puts a member into the run directory.
Intrude ==
  /\ "run" \in tree /\ "stranger" \notin tree
  /\ tree' = tree \union {"stranger"}
  /\ strange' = TRUE
  /\ UNCHANGED <<roots, maker, where, result, osFault>>

\* The process dies, or an interrupt ends create where nothing catches it.
Die(p) ==
  /\ where[p] # "done"
  /\ End(p, "died")
  /\ Fault
  /\ UNCHANGED <<roots, tree, maker>>

CreateInit ==
  /\ roots \in {{}, {"outputs"}, Roots}
  /\ tree = {} /\ maker \in Processes
  /\ where = [p \in Processes |-> "look_outputs"]
  /\ result = [p \in Processes |-> "none"]
  /\ osFault = FALSE /\ strange = FALSE

Create(p) ==
  \/ EnsureDirectories(p) \/ Probe(p) \/ MakeRun(p) \/ CheckRun(p)
  \/ CreateLayout(p) \/ ReturnStore(p)
  \/ UndoLayout(p) \/ LookAgain(p) \/ RecordFailure(p)

CreateNext ==
  \/ \E p \in Processes : Create(p) \/ UseStore(p) \/ Die(p)
  \/ Intrude

CreateSpec == CreateInit /\ [][CreateNext]_createVars
-----------------------------------------------------------------------------
(* Properties *)

\* Two processes never both hold a store of one run: whatever create calls race
\* or roll back, at most one returns, and the run directory is the one it made.
OneStore ==
  \A p \in Processes : result[p] = "created" => "run" \in tree /\ maker = p

\* A create that failed after it had made the run directory leaves either no
\* directory or one with a failure record, whatever else failed in it or in the
\* rollback, unless the write of that record failed.
LeftoverIsMarked ==
  (\E p \in Processes : maker = p /\ result[p] = "failed")
  => "run" \notin tree \/ "FAILURE" \in tree
=============================================================================
