----------------------------- MODULE M6Reservation -----------------------------
(***************************************************************************)
(* The first half of an M6 run command: prepare_m6_official_run of         *)
(* evalsim/cli/m6_official.py under the bootstrap of                       *)
(* evalsim/cli/m6_bootstrap.py.  Several commands may ask for one run      *)
(* name.  A command reserves the run with the standard library alone,      *)
(* consumes its reservation once, and only then has a store; whatever      *)
(* handle it has when something goes wrong has to record the failure.      *)
(*                                                                         *)
(* What the store does after that is the subject of M6Review.              *)
(***************************************************************************)
EXTENDS Naturals

CONSTANT Processes

\* The name of the run may have been used by a run whose reviewers rejected it.
Earlier == "earlier"
Nobody  == "nobody"

ASSUME ReservationAssumption == {Earlier, Nobody} \intersect Processes = {}

Parents == {"outputs", "m6"}
Markers == {"PENDING", "TERMINAL_FAILURE"}
Members == Markers \union {"artifact", "failure-diagnostic", "stranger"}

Reasons == {"creation_failed", "cause", "terminal_capture_failed",
            "review_rejected"}

VARIABLES
  parents,    \* the directories above the run that exist
  maker,      \* who made the run directory
  disk,       \* the members of the run
  pc,         \* the next step of each command
  record,     \* the reservation in the registry of the process
  holder,     \* what holder.store is
  registered, \* the bootstrap has the invalidator
  told,       \* the status that main gave the bootstrap
  orphaned,   \* an interrupt took the handle of a new run
  refused,    \* the last attempt at a failure record left no file
  soiled      \* the stranger was there before the run was adopted

control == <<pc, record, holder, registered, told>>
ghosts  == <<orphaned, refused, soiled>>
vars    == <<parents, maker, disk, control, ghosts>>

-----------------------------------------------------------------------------
(* Files *)

Absent == [by |-> Nobody, is |-> "absent"]

Content == {"absent", "torn", "whole"} \union Reasons

Present(f) == disk[f] # Absent
RunMembers == {f \in Members : Present(f)}

\* _reservation_write_exclusive: it returns, or raises after part of its effects.
Writes(p, f, what) ==
  /\ ~Present(f)
  /\ disk' = [disk EXCEPT ![f] = [by |-> p, is |-> what]]

RaisesIn(p, f, what) ==
  \/ UNCHANGED disk
  \/ ~Present(f) /\ \E b \in {"torn", what} :
                       disk' = [disk EXCEPT ![f] = [by |-> p, is |-> b]]

\* Faulty: members that nobody expects are not looked for.
TreeIsExactFaulty(p) == disk["PENDING"] = [by |-> p, is |-> "whole"]

\* _reservation_validate_tree, and the checks of adopt_pending.
TreeIsExact(p) ==
  /\ RunMembers = {"PENDING"}
  /\ disk["PENDING"] = [by |-> p, is |-> "whole"]

-----------------------------------------------------------------------------
(* Control *)

Goto(p, next) == pc' = [pc EXCEPT ![p] = next]

Fails(p) == Goto(p, "fail_store")

Keep == UNCHANGED <<record, holder, registered, told>>
Calm == UNCHANGED ghosts
Tree == <<parents, maker, disk>>

\* A step that only looks, and may raise.
Check(p, at, holds, next, otherwise) ==
  /\ pc[p] = at
  /\ \/ holds /\ Goto(p, next)
     \/ Goto(p, otherwise)
  /\ Keep /\ Calm /\ UNCHANGED Tree

\* The bootstrap refuses, or main begins: the invalidator is registered before
\* anything else.
Start(p) ==
  /\ pc[p] = "start"
  /\ \/ Goto(p, "deliver") /\ UNCHANGED registered
     \/ Goto(p, "git") /\ registered' = [registered EXCEPT ![p] = TRUE]
     \/ Fails(p) /\ registered' = [registered EXCEPT ![p] = TRUE]
  /\ UNCHANGED <<record, holder, told>> /\ Calm /\ UNCHANGED Tree

-----------------------------------------------------------------------------
(* _create_m6_pending_reservation *)

CheckGitInvisible(p) == Check(p, "git", TRUE, "look_outputs", "creation_error")

\* _reservation_ensure_directory: look, then make. A lost race is an error.
EnsureDirectory(p, name, look, make, next) ==
  \/ /\ pc[p] = look
     /\ Goto(p, IF name \in parents THEN next ELSE make)
     /\ Keep /\ Calm /\ UNCHANGED Tree
  \/ /\ pc[p] = make
     /\ \/ name \notin parents /\ parents' = parents \union {name} /\ Goto(p, next)
        \/ parents' \in {parents, parents \union {name}} /\ Goto(p, "creation_error")
     /\ Keep /\ Calm /\ UNCHANGED <<maker, disk>>

EnsureParents(p) ==
  \/ EnsureDirectory(p, "outputs", "look_outputs", "make_outputs", "look_m6")
  \/ EnsureDirectory(p, "m6", "look_m6", "make_m6", "probe")

\* A run that exists is refused, and main gets no handle of it.
ProbeRun(p) ==
  /\ pc[p] = "probe"
  /\ IF maker # Nobody THEN Fails(p) ELSE Goto(p, "make_run")
  /\ Keep /\ Calm /\ UNCHANGED Tree

\* Faulty: mkdir accepts a directory that exists.
LostRaceIgnored(p) == Goto(p, "write_pending") /\ UNCHANGED maker

\* Faulty: the run of another process is marked as failed.
LostRaceMarked(p) == Goto(p, "mark_creation") /\ UNCHANGED maker

\* Another process made the run since the probe.
LostRace(p) == Fails(p) /\ UNCHANGED maker

\* An interrupt may hit between mkdir and the assignment that remembers it.
MakeRun(p) ==
  /\ pc[p] = "make_run"
  /\ \/ /\ maker = Nobody /\ maker' = p
        /\ Goto(p, "write_pending") /\ UNCHANGED orphaned
     \/ maker # Nobody /\ LostRace(p) /\ UNCHANGED orphaned
     \/ Goto(p, "creation_error") /\ UNCHANGED <<maker, orphaned>>
     \/ /\ maker = Nobody /\ maker' = p
        /\ Goto(p, "creation_error") /\ orphaned' = orphaned \union {p}
  /\ Keep /\ UNCHANGED <<parents, disk, refused, soiled>>

WritePending(p) ==
  /\ pc[p] = "write_pending"
  /\ \/ Writes(p, "PENDING", "whole") /\ Goto(p, "register")
     \/ RaisesIn(p, "PENDING", "whole") /\ Goto(p, "mark_creation")
  /\ Keep /\ Calm /\ UNCHANGED <<parents, maker>>

\* The tree is validated and the reservation entered in the registry. Until
\* holder.store is set, an interrupt loses it.
Register(p) ==
  /\ pc[p] = "register"
  /\ \/ /\ TreeIsExact(p)
        /\ record' = [record EXCEPT ![p] = "pending"]
        /\ \/ /\ holder' = [holder EXCEPT ![p] = "reservation"]
              /\ Goto(p, "catalog") /\ UNCHANGED orphaned
           \/ /\ orphaned' = orphaned \union {p}
              /\ Fails(p) /\ UNCHANGED holder
     \/ Goto(p, "mark_creation") /\ UNCHANGED <<record, holder, orphaned>>
  /\ UNCHANGED <<registered, told, refused, soiled>> /\ UNCHANGED Tree

\* An attempt at the failure record either leaves one or was refused.
Noted(p) ==
  refused' = IF disk'["TERMINAL_FAILURE"] = Absent THEN refused \union {p}
                                                   ELSE refused \ {p}

\* The handler of _create_m6_pending_reservation: best effort, and only when
\* there is no record yet.
MarkCreation(p) ==
  /\ pc[p] = "mark_creation"
  /\ \/ Writes(p, "TERMINAL_FAILURE", "creation_failed")
     \/ RaisesIn(p, "TERMINAL_FAILURE", "creation_failed")
  /\ Noted(p)
  /\ Goto(p, "creation_error")
  /\ Keep /\ UNCHANGED <<parents, maker, orphaned, soiled>>

\* prepare_m6_official_run: whatever has gone wrong, if the path of the run has a
\* failure record then main gets a _FailedCreationView of it.
ViewFailedCreation(p) ==
  /\ pc[p] = "creation_error"
  /\ holder' = [holder EXCEPT ![p] = IF Present("TERMINAL_FAILURE") THEN "view"
                                                                    ELSE "none"]
  /\ Fails(p)
  /\ UNCHANGED <<record, registered, told>> /\ Calm /\ UNCHANGED Tree

Reserve(p) ==
  \/ CheckGitInvisible(p) \/ EnsureParents(p) \/ ProbeRun(p) \/ MakeRun(p)
  \/ WritePending(p) \/ Register(p) \/ MarkCreation(p) \/ ViewFailedCreation(p)

-----------------------------------------------------------------------------
(* From the reservation to the store *)

\* The catalog of the environment, site-packages and the import of the store.
AuthenticateEnvironment(p) == Check(p, "catalog", TRUE, "consume", "fail_store")

\* _consume_m6_pending_reservation.
Consume(p) ==
  /\ pc[p] = "consume"
  /\ \/ /\ record[p] = "pending" /\ TreeIsExact(p)
        /\ record' = [record EXCEPT ![p] = "consumed"]
        /\ Goto(p, "adopt")
     \/ Fails(p) /\ UNCHANGED record
  /\ UNCHANGED <<holder, registered, told>> /\ Calm /\ UNCHANGED Tree

\* The rest of adopt_pending; the store replaces the reservation in the holder.
AdoptPending(p) ==
  /\ pc[p] = "adopt"
  /\ \/ /\ TreeIsExact(p)
        /\ holder' = [holder EXCEPT ![p] = "store"]
        /\ Goto(p, "fill")
     \/ Fails(p) /\ UNCHANGED holder
  /\ UNCHANGED <<record, registered, told>> /\ Calm /\ UNCHANGED Tree

\* Everything the store writes before the status is given to the bootstrap.
FillStore(p) ==
  /\ pc[p] = "fill"
  /\ \/ /\ Writes(p, "artifact", "whole")
        /\ told' = [told EXCEPT ![p] = "success"]
        /\ Goto(p, "deliver")
     \/ RaisesIn(p, "artifact", "whole") /\ Fails(p) /\ UNCHANGED told
  /\ UNCHANGED <<record, holder, registered>>
  /\ Calm /\ UNCHANGED <<parents, maker>>

Run(p) == AuthenticateEnvironment(p) \/ Consume(p) \/ AdoptPending(p) \/ FillStore(p)

-----------------------------------------------------------------------------
(* Failure *)

\* An existing record is accepted only if it says the same.
Contradicts(reason) ==
  Present("TERMINAL_FAILURE") /\ disk["TERMINAL_FAILURE"].is # reason

\* Faulty: only a reservation that was not consumed can fail.
FailReservationFaulty(p, reason) ==
  LET taken == record' = [record EXCEPT ![p] = "failed"]
  IN IF record[p] # "pending" \/ Contradicts(reason)
     THEN UNCHANGED <<disk, record, refused>>
     ELSE /\ \/ Writes(p, "TERMINAL_FAILURE", reason) /\ taken
             \/ Present("TERMINAL_FAILURE") /\ UNCHANGED disk /\ taken
             \/ RaisesIn(p, "TERMINAL_FAILURE", reason) /\ UNCHANGED record
          /\ Noted(p)

\* _fail_pending_reservation; its exceptions are swallowed by _fail_store.
FailReservation(p, reason) ==
  LET taken == record' = [record EXCEPT ![p] = "failed"]
  IN IF record[p] \notin {"pending", "consumed"} \/ Contradicts(reason)
     THEN UNCHANGED <<disk, record, refused>>
     ELSE /\ \/ Writes(p, "TERMINAL_FAILURE", reason) /\ taken
             \/ Present("TERMINAL_FAILURE") /\ UNCHANGED disk /\ taken
             \/ RaisesIn(p, "TERMINAL_FAILURE", reason) /\ UNCHANGED record
          /\ Noted(p)

\* _poison; a record that exists is kept, whether or not it says the same.
Poison(p, reason) ==
  /\ UNCHANGED record
  /\ \/ Writes(p, "TERMINAL_FAILURE", reason)
     \/ RaisesIn(p, "TERMINAL_FAILURE", reason)
  /\ Noted(p)

\* _fail_store for whatever handle main has. A view writes nothing.
FailHolder(p, reason) ==
  CASE holder[p] = "reservation" -> FailReservation(p, reason)
    [] holder[p] = "store"       -> Poison(p, reason)
    [] OTHER                     -> UNCHANGED <<disk, record, refused>>

\* main: the record, and a status that names it if it is there.
FailStore(p) ==
  /\ pc[p] = "fail_store"
  /\ \E reason \in {"cause", "terminal_capture_failed"} : FailHolder(p, reason)
  /\ told' = [told EXCEPT ![p] =
                IF holder[p] = "none" THEN "rejected"
                ELSE IF disk'["TERMINAL_FAILURE"] = Absent THEN "failure"
                ELSE "failure with marker"]
  /\ Goto(p, "diagnose")
  /\ UNCHANGED <<parents, maker, holder, registered, orphaned, soiled>>

\* _persist_failure_diagnostic, best effort, beside whatever record main found.
Diagnose(p) ==
  /\ pc[p] = "diagnose"
  /\ \/ holder[p] # "none" /\ Writes(p, "failure-diagnostic", "whole")
     \/ UNCHANGED disk
  /\ Goto(p, "deliver")
  /\ Keep /\ Calm /\ UNCHANGED <<parents, maker>>

\* _bootstrap: a success is delivered, or the invalidator runs; it also runs for
\* every failure.
Deliver(p) ==
  /\ pc[p] = "deliver"
  /\ \/ told[p] = "success" /\ Goto(p, "done")
     \/ Goto(p, IF registered[p] THEN "invalidate" ELSE "failed")
  /\ Keep /\ Calm /\ UNCHANGED Tree

\* _invalidate_holder_store_after_status_failure.
Invalidate(p) ==
  /\ pc[p] = "invalidate"
  /\ FailHolder(p, "terminal_capture_failed")
  /\ Goto(p, "failed")
  /\ UNCHANGED <<parents, maker, holder, registered, told, orphaned, soiled>>

FailurePath(p) == FailStore(p) \/ Diagnose(p) \/ Deliver(p) \/ Invalidate(p)

-----------------------------------------------------------------------------
(* The environment *)

Ended == {"done", "failed", "dead"}

\* The process dies between two steps.
Crash(p) ==
  /\ pc[p] \notin Ended
  /\ Goto(p, "dead")
  /\ Keep /\ Calm /\ UNCHANGED Tree

\* Something outside the program puts a file into a new run.
PlantStranger ==
  /\ maker \in Processes /\ ~Present("stranger")
  /\ disk' = [disk EXCEPT !["stranger"] = [by |-> Nobody, is |-> "whole"]]
  /\ soiled' = (holder[maker] # "store")
  /\ UNCHANGED <<parents, maker, control, orphaned, refused>>

-----------------------------------------------------------------------------

RejectedRun ==
  [f \in Members |->
     IF f \in {"PENDING", "artifact"} THEN [by |-> Earlier, is |-> "whole"]
     ELSE IF f = "TERMINAL_FAILURE" THEN [by |-> Earlier, is |-> "review_rejected"]
     ELSE Absent]

Init ==
  /\ \/ parents = {} /\ maker = Nobody /\ disk = [f \in Members |-> Absent]
     \/ parents = Parents /\ maker = Earlier /\ disk = RejectedRun
  /\ pc = [p \in Processes |-> "start"]
  /\ record = [p \in Processes |-> "none"]
  /\ holder = [p \in Processes |-> "none"]
  /\ registered = [p \in Processes |-> FALSE]
  /\ told = [p \in Processes |-> "rejected"]
  /\ orphaned = {} /\ refused = {} /\ soiled = FALSE

Step(p) == Start(p) \/ Reserve(p) \/ Run(p) \/ FailurePath(p)

Next == (\E p \in Processes : Step(p) \/ Crash(p)) \/ PlantStranger

Spec == Init /\ [][Next]_vars
-----------------------------------------------------------------------------
(* Properties *)

Steps == {"start", "git", "look_outputs", "make_outputs", "look_m6", "make_m6",
          "probe", "make_run", "write_pending", "register", "mark_creation",
          "creation_error", "catalog", "consume", "adopt", "fill", "fail_store",
          "diagnose", "deliver", "invalidate"} \union Ended

\* Every variable keeps its type, and every command is at a step it knows.
TypeOK ==
  /\ parents \subseteq Parents
  /\ maker \in Processes \union {Earlier, Nobody}
  /\ disk \in [Members -> [by : Processes \union {Earlier, Nobody}, is : Content]]
  /\ pc \in [Processes -> Steps]
  /\ record \in [Processes -> {"none", "pending", "consumed", "failed"}]
  /\ holder \in [Processes -> {"none", "view", "reservation", "store"}]
  /\ told \in [Processes -> {"success", "rejected", "failure", "failure with marker"}]
  /\ registered \in [Processes -> BOOLEAN]
  /\ orphaned \subseteq Processes
  /\ refused \subseteq Processes
  /\ soiled \in BOOLEAN

\* However many commands ask for a run, at most one ever gets a handle that can
\* write into it, and that is the one that made its directory.
OneHolder ==
  \A p \in Processes : holder[p] \in {"reservation", "store"} => maker = p

\* The markers of a run are all the work of the command that made it: a command
\* that loses a race, or fails before it has a run, marks nobody else's.
OnlyMakerMarks ==
  \A f \in Markers : Present(f) => disk[f].by = maker

\* A command that made a run and exits with 1 leaves a failure record in it,
\* wherever it failed: before the reservation was registered, with the
\* reservation pending, consumed but not yet adopted, or with a store. The
\* exceptions are a record whose write was tried and failed, and an interrupt in one of
\* the two gaps where the program has the run but not yet a handle of it.
FailureLeavesRecord ==
  \A p \in Processes :
    pc[p] = "failed" /\ maker = p /\ p \notin refused \union orphaned =>
      Present("TERMINAL_FAILURE")

\* Exit code 0 of a run command means a run of its own, with no failure record
\* for good, that held nothing but its own PENDING when the store was opened.
ExitZeroOwnsRun ==
  \A p \in Processes :
    pc[p] = "done" => /\ maker = p /\ record[p] = "consumed"
                      /\ ~Present("TERMINAL_FAILURE")
                      /\ ~soiled
=============================================================================
