-------------------------- MODULE M6ReservationProofs --------------------------
(***************************************************************************)
(* Proofs about M6Reservation, for any number of commands: who may hold a  *)
(* run, who may mark it, and what exit code 0 means.                       *)
(***************************************************************************)
EXTENDS M6Reservation, TLAPS

-----------------------------------------------------------------------------
(* Files *)

\* A write of p, whether it raises or not, changes one file at most, and what it
\* leaves there is the work of p.
LEMMA OneWrite ==
  ASSUME TypeOK, NEW p \in Processes, NEW f \in Members, NEW what \in Content,
         Writes(p, f, what) \/ RaisesIn(p, f, what)
  PROVE  /\ disk' \in [Members -> [by : Processes \union {Earlier, Nobody},
                                   is : Content]]
         /\ \A g \in Members \ {f} : disk'[g] = disk[g]
         /\ \/ disk' = disk
            \/ disk[f] = Absent /\ disk'[f] # Absent /\ disk'[f].by = p
<1>1. CASE Writes(p, f, what)
  <2> DEFINE new == [by |-> p, is |-> what]
  <2>1. new \in [by : Processes \union {Earlier, Nobody}, is : Content]
    OBVIOUS
  <2>2. new # Absent
    BY ReservationAssumption DEF Absent
  <2> QED
    BY <1>1, <2>1, <2>2 DEF TypeOK, Writes, Present
<1>2. CASE UNCHANGED disk
  BY <1>2 DEF TypeOK
<1>3. CASE ~Present(f) /\ \E b \in {"torn", what} :
                             disk' = [disk EXCEPT ![f] = [by |-> p, is |-> b]]
  <2>1. PICK b \in {"torn", what} :
               disk' = [disk EXCEPT ![f] = [by |-> p, is |-> b]]
    BY <1>3
  <2> DEFINE new == [by |-> p, is |-> b]
  <2>2. new \in [by : Processes \union {Earlier, Nobody}, is : Content]
    BY DEF Content
  <2>3. new # Absent
    BY ReservationAssumption DEF Absent
  <2> QED
    BY <1>3, <2>1, <2>2, <2>3 DEF TypeOK, Present
<1> QED
  BY <1>1, <1>2, <1>3 DEF RaisesIn

\* The note of an attempt.
LEMMA NotedEffect ==
  ASSUME NEW p \in Processes, Noted(p), refused \subseteq Processes
  PROVE  /\ refused' \subseteq Processes
         /\ \A q \in Processes \ {p} : q \in refused => q \in refused'
         /\ disk'["TERMINAL_FAILURE"] = Absent => p \in refused'
<1>1. CASE disk'["TERMINAL_FAILURE"] = Absent
  <2>1. refused' = refused \union {p}
    BY <1>1 DEF Noted
  <2> QED
    BY <2>1
<1>2. CASE disk'["TERMINAL_FAILURE"] # Absent
  <2>1. refused' = refused \ {p}
    BY <1>2 DEF Noted
  <2> QED
    BY <1>2, <2>1
<1> QED
  BY <1>1, <1>2

\* An attempt to record a failure, through whatever handle p has: only a handle
\* of the run itself can change anything, and that the failure record alone.
LEMMA OneFailure ==
  ASSUME TypeOK, NEW p \in Processes, NEW reason \in Reasons, FailHolder(p, reason)
  PROVE  /\ disk' \in [Members -> [by : Processes \union {Earlier, Nobody},
                                   is : Content]]
         /\ \A g \in Members \ {"TERMINAL_FAILURE"} : disk'[g] = disk[g]
         /\ \/ disk' = disk
            \/ /\ holder[p] \in {"reservation", "store"}
               /\ disk["TERMINAL_FAILURE"] = Absent
               /\ disk'["TERMINAL_FAILURE"] # Absent
               /\ disk'["TERMINAL_FAILURE"].by = p
         /\ record' \in [Processes -> {"none", "pending", "consumed", "failed"}]
         /\ \A q \in Processes \ {p} : record'[q] = record[q]
         /\ refused' = refused \/ Noted(p)
         /\ refused' \subseteq Processes
<1> DEFINE written == \/ Writes(p, "TERMINAL_FAILURE", reason)
                      \/ RaisesIn(p, "TERMINAL_FAILURE", reason)
           taken == record' = [record EXCEPT ![p] = "failed"]
<1>1. reason \in Content /\ "TERMINAL_FAILURE" \in Members
  BY DEF Content, Members, Markers
<1>2. /\ taken => record' \in [Processes -> {"none", "pending", "consumed", "failed"}]
      /\ taken => \A q \in Processes \ {p} : record'[q] = record[q]
      /\ record' = record =>
           record' \in [Processes -> {"none", "pending", "consumed", "failed"}]
  BY DEF TypeOK
<1> DEFINE noted == Noted(p)
<1>6. refused' = refused \/ noted => refused' \subseteq Processes
  BY NotedEffect DEF TypeOK
<1>3. CASE holder[p] = "reservation"
  <2>1. FailReservation(p, reason)
    BY <1>3 DEF FailHolder
  <2>2. /\ disk' = disk \/ written
        /\ taken \/ record' = record
        /\ refused' = refused \/ noted
    BY <2>1 DEF FailReservation
  <2> HIDE DEF noted
  <2>3. refused' \subseteq Processes
    BY <1>6, <2>2
  <2> QED
    BY <1>1, <1>2, <1>3, <2>2, <2>3, OneWrite DEF TypeOK, noted
<1>4. CASE holder[p] = "store"
  <2>1. written /\ record' = record /\ noted
    BY <1>4 DEF FailHolder, Poison
  <2> HIDE DEF noted
  <2>2. refused' \subseteq Processes
    BY <1>6, <2>1
  <2> QED
    BY <1>1, <1>2, <1>4, <2>1, <2>2, OneWrite DEF TypeOK, noted
<1>5. CASE holder[p] \notin {"reservation", "store"}
  BY <1>2, <1>5 DEF FailHolder, TypeOK
<1> QED
  BY <1>3, <1>4, <1>5

-----------------------------------------------------------------------------
(* The type invariant *)

LEMMA TypeInit == Init => TypeOK
<1> SUFFICES ASSUME Init PROVE TypeOK
  OBVIOUS
<1>1. Absent \in [by : Processes \union {Earlier, Nobody}, is : Content]
  BY DEF Absent, Content
<1>2. RejectedRun \in [Members -> [by : Processes \union {Earlier, Nobody},
                                   is : Content]]
  BY <1>1 DEF RejectedRun, Content, Reasons
<1>3. disk \in [Members -> [by : Processes \union {Earlier, Nobody}, is : Content]]
  BY <1>1, <1>2 DEF Init
<1> QED
  BY <1>3 DEF Init, TypeOK, Steps, Parents

LEMMA GotoType ==
  ASSUME TypeOK, NEW p \in Processes, NEW s \in Steps, Goto(p, s)
  PROVE  pc' \in [Processes -> Steps] /\ pc'[p] = s
         /\ \A q \in Processes \ {p} : pc'[q] = pc[q]
  BY DEF TypeOK, Goto

LEMMA TypeStep == TypeOK /\ [Next]_vars => TypeOK'
<1> SUFFICES ASSUME TypeOK, [Next]_vars PROVE TypeOK'
  OBVIOUS
<1> USE DEF Steps, Ended
<1>1. CASE UNCHANGED vars
  BY <1>1 DEF vars, control, ghosts, TypeOK
<1>2. ASSUME NEW p \in Processes, Start(p)
      PROVE  TypeOK'
  BY <1>2 DEF Start, Goto, Fails, Calm, ghosts, Tree, TypeOK
<1>3. ASSUME NEW p \in Processes, NEW at \in Steps, NEW next \in Steps,
             NEW otherwise \in Steps, NEW holds \in BOOLEAN,
             Check(p, at, holds, next, otherwise)
      PROVE  TypeOK'
  BY <1>3 DEF Check, Goto, Keep, Calm, ghosts, Tree, TypeOK
<1>4. ASSUME NEW p \in Processes, NEW name \in Parents, NEW look \in Steps,
             NEW make \in Steps, NEW next \in Steps,
             EnsureDirectory(p, name, look, make, next)
      PROVE  TypeOK'
  BY <1>4 DEF EnsureDirectory, Goto, Keep, Calm, ghosts, Tree, TypeOK
<1>5. ASSUME NEW p \in Processes, ProbeRun(p) \/ MakeRun(p)
      PROVE  TypeOK'
  BY <1>5 DEF ProbeRun, MakeRun, LostRace, Goto, Fails, Keep, Calm, ghosts, Tree,
              TypeOK
<1>6. ASSUME NEW p \in Processes, WritePending(p)
      PROVE  TypeOK'
  <2>1. "PENDING" \in Members /\ "whole" \in Content
    BY DEF Members, Markers, Content
  <2>2. disk' \in [Members -> [by : Processes \union {Earlier, Nobody},
                                 is : Content]]
    BY <1>6, <2>1, OneWrite DEF WritePending
  <2> QED
    BY <1>6, <2>2 DEF WritePending, Goto, Keep, Calm, ghosts, TypeOK
<1>7. ASSUME NEW p \in Processes, Register(p)
      PROVE  TypeOK'
  BY <1>7 DEF Register, Goto, Fails, Tree, TypeOK
<1>8. ASSUME NEW p \in Processes, MarkCreation(p)
      PROVE  TypeOK'
  <2>1. "TERMINAL_FAILURE" \in Members /\ "creation_failed" \in Content
    BY DEF Members, Markers, Content, Reasons
  <2>2. disk' \in [Members -> [by : Processes \union {Earlier, Nobody},
                                 is : Content]]
    BY <1>8, <2>1, OneWrite DEF MarkCreation
  <2> QED
    BY <1>8, <2>2 DEF MarkCreation, Noted, Goto, Keep, TypeOK
<1>9. ASSUME NEW p \in Processes,
             ViewFailedCreation(p) \/ Consume(p) \/ AdoptPending(p)
      PROVE  TypeOK'
  BY <1>9 DEF ViewFailedCreation, Consume, AdoptPending, Goto, Fails, Calm, ghosts,
              Tree, TypeOK
<1>10. ASSUME NEW p \in Processes, FillStore(p)
       PROVE  TypeOK'
  <2>1. "artifact" \in Members /\ "whole" \in Content
    BY DEF Members, Content
  <2>2. disk' \in [Members -> [by : Processes \union {Earlier, Nobody},
                                 is : Content]]
    BY <1>10, <2>1, OneWrite DEF FillStore
  <2> QED
    BY <1>10, <2>2 DEF FillStore, Goto, Fails, Calm, ghosts, TypeOK
<1>11. ASSUME NEW p \in Processes, FailStore(p)
       PROVE  TypeOK'
  <2>1. PICK reason \in {"cause", "terminal_capture_failed"} : FailHolder(p, reason)
    BY <1>11 DEF FailStore
  <2>2. /\ disk' \in [Members -> [by : Processes \union {Earlier, Nobody},
                                   is : Content]]
        /\ record' \in [Processes -> {"none", "pending", "consumed", "failed"}]
    BY <2>1, OneFailure DEF Reasons
  <2>3. refused' \subseteq Processes
    BY <2>1, OneFailure DEF Reasons
  <2> QED
    BY <1>11, <2>2, <2>3 DEF FailStore, Goto, TypeOK
<1>12. ASSUME NEW p \in Processes, Diagnose(p)
       PROVE  TypeOK'
  <2>1. "failure-diagnostic" \in Members /\ "whole" \in Content
    BY DEF Members, Content
  <2>2. disk' \in [Members -> [by : Processes \union {Earlier, Nobody},
                                 is : Content]]
    BY <1>12, <2>1, OneWrite DEF Diagnose, TypeOK
  <2> QED
    BY <1>12, <2>2 DEF Diagnose, Goto, Keep, Calm, ghosts, TypeOK
<1>13. ASSUME NEW p \in Processes, Deliver(p) \/ Crash(p)
       PROVE  TypeOK'
  BY <1>13 DEF Deliver, Crash, Goto, Keep, Calm, ghosts, Tree, TypeOK
<1>14. ASSUME NEW p \in Processes, Invalidate(p)
       PROVE  TypeOK'
  <2>1. /\ disk' \in [Members -> [by : Processes \union {Earlier, Nobody},
                                   is : Content]]
        /\ record' \in [Processes -> {"none", "pending", "consumed", "failed"}]
    BY <1>14, OneFailure DEF Invalidate, Reasons
  <2>2. refused' \subseteq Processes
    BY <1>14, OneFailure DEF Invalidate, Reasons
  <2> QED
    BY <1>14, <2>1, <2>2 DEF Invalidate, Goto, TypeOK
<1>15. ASSUME PlantStranger
       PROVE  TypeOK'
  <2>1. [by |-> Nobody, is |-> "whole"] \in
          [by : Processes \union {Earlier, Nobody}, is : Content]
    BY DEF Content
  <2> QED
    BY <1>15, <2>1 DEF PlantStranger, control, TypeOK
<1>16. ASSUME NEW p \in Processes, Step(p)
       PROVE  TypeOK'
  <2>1. ASSUME CheckGitInvisible(p) PROVE TypeOK'
    BY <2>1, <1>3 DEF CheckGitInvisible
  <2>2. ASSUME EnsureParents(p) PROVE TypeOK'
    BY <2>2, <1>4 DEF EnsureParents, Parents
  <2>3. ASSUME AuthenticateEnvironment(p) PROVE TypeOK'
    BY <2>3, <1>3 DEF AuthenticateEnvironment
  <2> QED
    BY <1>16, <1>2, <1>5, <1>6, <1>7, <1>8, <1>9, <1>10, <1>11, <1>12, <1>13, <1>14,
       <2>1, <2>2, <2>3 DEF Step, Reserve, Run, FailurePath
<1> QED
  BY <1>1, <1>13, <1>15, <1>16 DEF Next

\* Every variable of M6Reservation keeps its type, for any commands.
THEOREM TypeSafety == Spec => []TypeOK
  BY TypeInit, TypeStep, PTL DEF Spec

-----------------------------------------------------------------------------
(* Who holds a run, and who marks it *)

Making == {"write_pending", "register", "mark_creation"}
Using  == {"catalog", "consume", "adopt", "fill"}

\* OneHolder and OnlyMakerMarks with what keeps them: a command is past mkdir only
\* in a run of its own, and beyond that only with a handle of it.
Ownership ==
  /\ OneHolder
  /\ OnlyMakerMarks
  /\ \A p \in Processes : pc[p] \in Making => maker = p
  /\ \A p \in Processes : pc[p] \in Using => holder[p] \in {"reservation", "store"}
  /\ maker = Nobody => \A f \in Markers : ~Present(f)

LEMMA OwnershipInit == Init => Ownership
<1> SUFFICES ASSUME Init PROVE Ownership
  OBVIOUS
<1> USE DEF Init, Ownership, OneHolder, OnlyMakerMarks, Making, Using, Markers,
            Members, Present
<1>1. CASE maker = Nobody /\ disk = [f \in Members |-> Absent]
  BY <1>1
<1>2. CASE maker = Earlier /\ disk = RejectedRun
  BY <1>2, ReservationAssumption DEF RejectedRun, Earlier, Nobody
<1> QED
  BY <1>1, <1>2

\* A step that leaves maker and the markers alone.
LEMMA OwnershipKept ==
  ASSUME TypeOK, Ownership, NEW p \in Processes,
         UNCHANGED maker, \A f \in Markers : disk'[f] = disk[f],
         \A q \in Processes \ {p} : pc'[q] = pc[q] /\ holder'[q] = holder[q],
         pc'[p] \in Making => maker = p,
         pc'[p] \in Using => holder'[p] \in {"reservation", "store"},
         holder'[p] \in {"reservation", "store"} => maker = p
  PROVE  Ownership'
  BY DEF Ownership, OneHolder, OnlyMakerMarks, Present

\* A step in which the maker of the run writes a marker into it.
LEMMA OwnershipMarked ==
  ASSUME TypeOK, Ownership, NEW p \in Processes, NEW m \in Markers,
         UNCHANGED <<maker, holder>>, maker = p,
         \A f \in Markers \ {m} : disk'[f] = disk[f],
         disk'[m] = disk[m] \/ disk'[m].by = p,
         \A q \in Processes \ {p} : pc'[q] = pc[q],
         pc'[p] \in Using => holder[p] \in {"reservation", "store"}
  PROVE  Ownership'
  BY ReservationAssumption DEF Ownership, OneHolder, OnlyMakerMarks, Present

\* An attempt to record a failure keeps the ownership of the run.
LEMMA OwnershipFailed ==
  ASSUME TypeOK, Ownership, NEW p \in Processes, NEW reason \in Reasons,
         FailHolder(p, reason), UNCHANGED <<maker, holder>>,
         NEW s \in Steps \ (Making \union Using), Goto(p, s)
  PROVE  Ownership'
<1>1. pc'[p] = s /\ \A q \in Processes \ {p} : pc'[q] = pc[q]
  BY GotoType
<1>2. \A f \in Markers \ {"TERMINAL_FAILURE"} : disk'[f] = disk[f]
  BY OneFailure DEF Members
<1>3. CASE disk' = disk
  BY <1>1, <1>3, OwnershipKept DEF Ownership, OneHolder
<1>4. CASE /\ holder[p] \in {"reservation", "store"}
           /\ disk'["TERMINAL_FAILURE"].by = p
  <2>1. maker = p
    BY <1>4 DEF Ownership, OneHolder
  <2> QED
    BY <1>1, <1>2, <1>4, <2>1, OwnershipMarked DEF Markers
<1> QED
  BY <1>3, <1>4, OneFailure

LEMMA OwnershipStep ==
  TypeOK /\ Ownership /\ [Next]_vars => Ownership'
<1> SUFFICES ASSUME TypeOK, Ownership, [Next]_vars PROVE Ownership'
  OBVIOUS
<1> USE DEF Steps, Ended, Making, Using
<1>1. CASE UNCHANGED vars
  BY <1>1 DEF vars, control, Ownership, OneHolder, OnlyMakerMarks, Present
<1>2. ASSUME NEW p \in Processes, Start(p)
      PROVE  Ownership'
  <2>1. UNCHANGED <<maker, disk, holder>>
    BY <1>2 DEF Start, Tree
  <2>2. PICK s \in {"deliver", "git", "fail_store"} : Goto(p, s)
    BY <1>2 DEF Start, Fails
  <2> QED
    BY <2>1, <2>2, GotoType, OwnershipKept DEF Ownership, OneHolder
<1>3. ASSUME NEW p \in Processes, CheckGitInvisible(p) \/ AuthenticateEnvironment(p)
      PROVE  Ownership'
  <2>1. UNCHANGED <<maker, disk, holder>>
    BY <1>3 DEF CheckGitInvisible, AuthenticateEnvironment, Check, Tree, Keep
  <2>2. PICK s \in {"look_outputs", "creation_error", "consume", "fail_store"} :
          Goto(p, s) /\ (s = "consume" => pc[p] = "catalog")
    BY <1>3 DEF CheckGitInvisible, AuthenticateEnvironment, Check
  <2> QED
    BY <2>1, <2>2, GotoType, OwnershipKept DEF Ownership, OneHolder
<1>4. ASSUME NEW p \in Processes, EnsureParents(p) \/ ProbeRun(p)
      PROVE  Ownership'
  <2>1. UNCHANGED <<maker, disk, holder>>
    BY <1>4 DEF EnsureParents, EnsureDirectory, ProbeRun, Tree, Keep
  <2>2. PICK s \in Steps \ (Making \union Using) : Goto(p, s)
    BY <1>4 DEF EnsureParents, EnsureDirectory, ProbeRun, Fails
  <2> QED
    BY <2>1, <2>2, GotoType, OwnershipKept DEF Ownership, OneHolder
<1>5. ASSUME NEW p \in Processes, MakeRun(p)
      PROVE  Ownership'
  <2>1. UNCHANGED <<disk, holder>>
    BY <1>5 DEF MakeRun, Keep
  <2>2. PICK s \in {"write_pending", "fail_store", "creation_error"} :
          /\ Goto(p, s)
          /\ \/ UNCHANGED maker /\ s # "write_pending"
             \/ maker = Nobody /\ maker' = p
    BY <1>5 DEF MakeRun, LostRace, Fails
  <2>3. pc'[p] = s /\ \A q \in Processes \ {p} : pc'[q] = pc[q]
    BY <2>2, GotoType
  <2>4. CASE UNCHANGED maker /\ s # "write_pending"
    BY <2>1, <2>3, <2>4, OwnershipKept DEF Ownership, OneHolder
  <2>5. CASE maker = Nobody /\ maker' = p
    <3>1. \A q \in Processes : /\ pc[q] \notin Making \union Using
                               /\ holder[q] \notin {"reservation", "store"}
      BY <2>5, ReservationAssumption DEF Ownership, OneHolder
    <3> QED
      BY <2>1, <2>2, <2>3, <2>5, <3>1, ReservationAssumption
         DEF Ownership, OneHolder, OnlyMakerMarks, Present
  <2> QED
    BY <2>2, <2>4, <2>5
<1>6. ASSUME NEW p \in Processes, WritePending(p)
      PROVE  Ownership'
  <2>1. "PENDING" \in Members /\ "whole" \in Content /\ Markers \subseteq Members
        /\ "PENDING" \in Markers
    BY DEF Members, Markers, Content
  <2>2. /\ \A g \in Members \ {"PENDING"} : disk'[g] = disk[g]
        /\ disk' = disk \/ disk'["PENDING"].by = p
    BY <1>6, <2>1, OneWrite DEF WritePending
  <2>3. UNCHANGED <<maker, holder>> /\ maker = p
    BY <1>6 DEF WritePending, Keep, Ownership
  <2>4. PICK s \in {"register", "mark_creation"} : Goto(p, s)
    BY <1>6 DEF WritePending
  <2> QED
    BY <2>1, <2>2, <2>3, <2>4, GotoType, OwnershipMarked
<1>7. ASSUME NEW p \in Processes, Register(p)
      PROVE  Ownership'
  <2>1. UNCHANGED <<maker, disk>> /\ maker = p
    BY <1>7 DEF Register, Tree, Ownership
  <2>2. /\ pc'[p] \in Using => holder'[p] \in {"reservation", "store"}
        /\ \A q \in Processes \ {p} : pc'[q] = pc[q] /\ holder'[q] = holder[q]
    BY <1>7 DEF Register, Goto, Fails, TypeOK
  <2> QED
    BY <2>1, <2>2, OwnershipKept
<1>8. ASSUME NEW p \in Processes, MarkCreation(p)
      PROVE  Ownership'
  <2>1. "TERMINAL_FAILURE" \in Members /\ "creation_failed" \in Content
        /\ Markers \subseteq Members /\ "TERMINAL_FAILURE" \in Markers
    BY DEF Members, Markers, Content, Reasons
  <2>2. /\ \A g \in Members \ {"TERMINAL_FAILURE"} : disk'[g] = disk[g]
        /\ disk' = disk \/ disk'["TERMINAL_FAILURE"].by = p
    BY <1>8, <2>1, OneWrite DEF MarkCreation
  <2>3. UNCHANGED <<maker, holder>> /\ maker = p /\ Goto(p, "creation_error")
    BY <1>8 DEF MarkCreation, Keep, Ownership
  <2> QED
    BY <2>1, <2>2, <2>3, GotoType, OwnershipMarked
<1>9. ASSUME NEW p \in Processes, ViewFailedCreation(p)
      PROVE  Ownership'
  <2>1. UNCHANGED <<maker, disk>> /\ Goto(p, "fail_store")
    BY <1>9 DEF ViewFailedCreation, Tree, Fails
  <2>2. /\ holder'[p] \in {"view", "none"}
        /\ \A q \in Processes \ {p} : holder'[q] = holder[q]
    BY <1>9 DEF ViewFailedCreation, TypeOK
  <2> QED
    BY <2>1, <2>2, GotoType, OwnershipKept
<1>10. ASSUME NEW p \in Processes, Consume(p) \/ AdoptPending(p)
       PROVE  Ownership'
  <2>1. UNCHANGED <<maker, disk>> /\ maker = p
    BY <1>10 DEF Consume, AdoptPending, Tree, Ownership, OneHolder
  <2>2. /\ pc'[p] \notin Making
        /\ holder'[p] \in {"reservation", "store"}
        /\ \A q \in Processes \ {p} : pc'[q] = pc[q] /\ holder'[q] = holder[q]
    BY <1>10 DEF Consume, AdoptPending, Goto, Fails, TypeOK, Ownership
  <2> QED
    BY <2>1, <2>2, OwnershipKept
<1>11. ASSUME NEW p \in Processes, FillStore(p) \/ Diagnose(p)
       PROVE  Ownership'
  <2>1. {"artifact", "failure-diagnostic"} \subseteq Members /\ "whole" \in Content
        /\ Markers \subseteq Members
        /\ {"artifact", "failure-diagnostic"} \intersect Markers = {}
    BY DEF Members, Markers, Content
  <2>2. \A f \in Markers : disk'[f] = disk[f]
    <3>1. CASE FillStore(p)
      BY <3>1, <2>1, OneWrite DEF FillStore
    <3>2. CASE Diagnose(p)
      BY <3>2, <2>1, OneWrite DEF Diagnose
    <3> QED
      BY <1>11, <3>1, <3>2
  <2>3. UNCHANGED <<maker, holder>>
    BY <1>11 DEF FillStore, Diagnose, Keep
  <2>4. PICK s \in {"deliver", "fail_store"} : Goto(p, s)
    BY <1>11 DEF FillStore, Diagnose, Fails
  <2> QED
    BY <2>2, <2>3, <2>4, GotoType, OwnershipKept DEF Ownership, OneHolder
<1>12. ASSUME NEW p \in Processes, FailStore(p) \/ Invalidate(p)
       PROVE  Ownership'
  <2>1. PICK reason \in Reasons : FailHolder(p, reason)
    BY <1>12 DEF FailStore, Invalidate, Reasons
  <2>2. PICK s \in {"diagnose", "failed"} : Goto(p, s)
    BY <1>12 DEF FailStore, Invalidate
  <2>3. UNCHANGED <<maker, holder>>
    BY <1>12 DEF FailStore, Invalidate
  <2> QED
    BY <2>1, <2>2, <2>3, OwnershipFailed
<1>13. ASSUME NEW p \in Processes, Deliver(p) \/ Crash(p)
       PROVE  Ownership'
  <2>1. UNCHANGED <<maker, disk, holder>>
    BY <1>13 DEF Deliver, Crash, Tree, Keep
  <2>2. PICK s \in {"done", "invalidate", "failed", "dead"} : Goto(p, s)
    BY <1>13 DEF Deliver, Crash
  <2> QED
    BY <2>1, <2>2, GotoType, OwnershipKept DEF Ownership, OneHolder
<1>14. ASSUME PlantStranger
       PROVE  Ownership'
  <2>1. \A f \in Markers : disk'[f] = disk[f]
    BY <1>14 DEF PlantStranger, TypeOK, Markers, Members
  <2>2. UNCHANGED <<maker, pc, holder>>
    BY <1>14 DEF PlantStranger, control
  <2> QED
    BY <2>1, <2>2 DEF Ownership, OneHolder, OnlyMakerMarks, Present
<1>15. ASSUME NEW p \in Processes, Step(p)
       PROVE  Ownership'
  BY <1>15, <1>2, <1>3, <1>4, <1>5, <1>6, <1>7, <1>8, <1>9, <1>10, <1>11, <1>12,
     <1>13 DEF Step, Reserve, Run, FailurePath
<1> QED
  BY <1>1, <1>13, <1>14, <1>15 DEF Next

\* Whatever number of commands ask for a run: only the one that made its directory
\* ever gets a handle that can write into it.
THEOREM HolderSafety == Spec => []OneHolder
<1>1. Ownership => OneHolder
  BY DEF Ownership
<1> QED
  BY <1>1, TypeInit, TypeStep, OwnershipInit, OwnershipStep, PTL DEF Spec

\* The same for the markers of a run: all are the work of its maker.
THEOREM MarkerSafety == Spec => []OnlyMakerMarks
<1>1. Ownership => OnlyMakerMarks
  BY DEF Ownership
<1> QED
  BY <1>1, TypeInit, TypeStep, OwnershipInit, OwnershipStep, PTL DEF Spec

-----------------------------------------------------------------------------
(* What exit code 0 means *)

Delivering(p) == pc[p] = "deliver" /\ told[p] = "success"

\* The command p has made a run, and nothing has gone wrong with it.
Clean(p) ==
  \/ pc[p] \in {"write_pending", "register", "catalog", "consume", "adopt", "fill",
                "done"}
  \/ Delivering(p)

Adopted(p) == pc[p] \in {"fill", "done"} \/ Delivering(p)

\* ExitZeroOwnsRun with what leads to it.
Success ==
  /\ \A p \in Processes : Clean(p) => maker = p /\ ~Present("TERMINAL_FAILURE")
  /\ \A p \in Processes : Adopted(p) \/ pc[p] = "adopt" => record[p] = "consumed"
  /\ \A p \in Processes : Adopted(p) => holder[p] = "store"
  /\ \A p \in Processes :
       told[p] = "success" =>
         pc[p] \in {"deliver", "invalidate", "done", "failed", "dead"}
  /\ \A p \in Processes : holder[p] = "store" => ~soiled
  /\ soiled => Present("stranger")

LEMMA SuccessInit == Init => Success
  BY DEF Init, Success, Clean, Adopted, Delivering

\* A step of p that leaves maker and the stranger alone, and the failure record
\* unless the run is that of p.
LEMMA SuccessKept ==
  ASSUME TypeOK, Success, NEW p \in Processes,
         UNCHANGED <<maker, soiled>>, disk'["stranger"] = disk["stranger"],
         disk'["TERMINAL_FAILURE"] = disk["TERMINAL_FAILURE"] \/ maker = p,
         \A q \in Processes \ {p} : /\ pc'[q] = pc[q] /\ told'[q] = told[q]
                                    /\ record'[q] = record[q]
                                    /\ holder'[q] = holder[q],
         Clean(p)' => maker = p /\ ~Present("TERMINAL_FAILURE")',
         Adopted(p)' \/ pc'[p] = "adopt" => record'[p] = "consumed",
         Adopted(p)' => holder'[p] = "store",
         told'[p] = "success" =>
           pc'[p] \in {"deliver", "invalidate", "done", "failed", "dead"},
         holder'[p] = "store" => ~soiled
  PROVE  Success'
<1>1. ASSUME NEW q \in Processes \ {p}
      PROVE  /\ Clean(q)' <=> Clean(q)
             /\ Adopted(q)' <=> Adopted(q)
             /\ Clean(q) => Present("TERMINAL_FAILURE")' = Present("TERMINAL_FAILURE")
  BY DEF Success, Clean, Adopted, Delivering, Present
<1> QED
  BY <1>1 DEF Success, Present

\* A step of p that ends where nothing is promised.
LEMMA SuccessLeft ==
  ASSUME TypeOK, Success, NEW p \in Processes,
         UNCHANGED <<maker, soiled>>, disk'["stranger"] = disk["stranger"],
         disk'["TERMINAL_FAILURE"] = disk["TERMINAL_FAILURE"] \/ maker = p,
         \A q \in Processes \ {p} : /\ told'[q] = told[q]
                                    /\ record'[q] = record[q]
                                    /\ holder'[q] = holder[q],
         holder'[p] = "store" => holder[p] = "store",
         NEW s \in {"git", "look_outputs", "make_outputs", "look_m6", "make_m6",
                    "probe", "make_run", "mark_creation", "creation_error",
                    "fail_store", "diagnose", "invalidate", "failed", "dead",
                    "deliver"},
         Goto(p, s),
         told'[p] # "success" \/ s \in {"invalidate", "failed", "dead"}
  PROVE  Success'
<1>1. pc'[p] = s /\ \A q \in Processes \ {p} : pc'[q] = pc[q]
  BY GotoType DEF Steps, Ended
<1>2. ~Clean(p)' /\ ~Adopted(p)' /\ pc'[p] # "adopt"
  BY <1>1 DEF Clean, Adopted, Delivering
<1> QED
  BY <1>1, <1>2, SuccessKept DEF Success

LEMMA SuccessStep ==
  TypeOK /\ Ownership /\ Success /\ [Next]_vars => Success'
<1> SUFFICES ASSUME TypeOK, Ownership, Success, [Next]_vars PROVE Success'
  OBVIOUS
<1>1. CASE UNCHANGED vars
  BY <1>1 DEF vars, control, ghosts, Success, Clean, Adopted, Delivering, Present
<1>2. ASSUME NEW p \in Processes,
             Start(p) \/ CheckGitInvisible(p) \/ EnsureParents(p) \/ ProbeRun(p)
               \/ ViewFailedCreation(p) \/ Crash(p) \/ Diagnose(p)
               \/ (Deliver(p) /\ ~Goto(p, "done"))
      PROVE  Success'
  <2>1. UNCHANGED <<maker, soiled>>
    BY <1>2 DEF Start, CheckGitInvisible, Check, EnsureParents, EnsureDirectory,
                ProbeRun, ViewFailedCreation, Deliver, Crash, Diagnose, Tree, Calm,
                ghosts
  <2>2. \A f \in Members \ {"failure-diagnostic"} : disk'[f] = disk[f]
    BY <1>2, OneWrite DEF Start, CheckGitInvisible, Check, EnsureParents,
                EnsureDirectory, ProbeRun, ViewFailedCreation, Deliver, Crash,
                Diagnose, Tree, Members, Content
  <2>3. UNCHANGED <<told, record>>
    BY <1>2 DEF Start, CheckGitInvisible, Check, EnsureParents, EnsureDirectory,
                ProbeRun, ViewFailedCreation, Deliver, Crash, Diagnose, Keep
  <2>4. /\ \A q \in Processes \ {p} : holder'[q] = holder[q]
        /\ holder'[p] = "store" => holder[p] = "store"
    BY <1>2 DEF Start, CheckGitInvisible, Check, EnsureParents, EnsureDirectory,
                ProbeRun, ViewFailedCreation, Deliver, Crash, Diagnose, Keep, TypeOK
  <2>5. PICK s \in {"git", "look_outputs", "make_outputs", "look_m6", "make_m6",
                    "probe", "make_run", "creation_error", "fail_store",
                    "deliver", "invalidate", "failed", "dead"} :
          /\ Goto(p, s)
          /\ s \notin {"invalidate", "failed", "dead"} =>
               pc[p] \notin {"deliver", "invalidate", "done", "failed", "dead"}
    <3>1. pc[p] \in Steps /\ (\A s \in Steps : Goto(p, s) => pc'[p] = s)
      BY GotoType DEF TypeOK
    <3> QED
      BY <1>2, <3>1 DEF Start, CheckGitInvisible, Check, EnsureParents,
                EnsureDirectory, ProbeRun, ViewFailedCreation, Deliver, Crash,
                Diagnose, Fails, Steps, Ended
  <2>6. told'[p] # "success" \/ s \in {"invalidate", "failed", "dead"}
    BY <2>3, <2>5 DEF Success
  <2> QED
    BY <2>1, <2>2, <2>3, <2>4, <2>5, <2>6, SuccessLeft DEF Members, Markers
<1>3. ASSUME NEW p \in Processes, Deliver(p), Goto(p, "done")
      PROVE  Success'
  <2>1. /\ Delivering(p) /\ pc'[p] = "done"
        /\ \A q \in Processes \ {p} : pc'[q] = pc[q]
    BY <1>3 DEF Deliver, Delivering, Goto, TypeOK
  <2>2. UNCHANGED <<maker, disk, soiled, told, record, holder>>
    BY <1>3 DEF Deliver, Tree, Keep, Calm, ghosts
  <2>3. /\ maker = p /\ ~Present("TERMINAL_FAILURE")
        /\ record[p] = "consumed" /\ holder[p] = "store" /\ ~soiled
    BY <2>1 DEF Success, Clean, Adopted
  <2>4. ~Present("TERMINAL_FAILURE")'
    BY <2>2, <2>3 DEF Present
  <2> QED
    BY <2>1, <2>2, <2>3, <2>4, SuccessKept
<1>4. ASSUME NEW p \in Processes, MakeRun(p)
      PROVE  Success'
  <2>1. UNCHANGED <<disk, record, holder, told, soiled>>
    BY <1>4 DEF MakeRun, Keep
  <2>2. PICK s \in {"write_pending", "fail_store", "creation_error"} :
          /\ Goto(p, s)
          /\ \/ UNCHANGED maker /\ s # "write_pending"
             \/ maker = Nobody /\ maker' = p
    BY <1>4 DEF MakeRun, LostRace, Fails
  <2>3. pc'[p] = s /\ \A q \in Processes \ {p} : pc'[q] = pc[q]
    BY <2>2, GotoType DEF Steps
  <2>4. told[p] # "success"
    BY <1>4 DEF MakeRun, Success
  <2>5. CASE UNCHANGED maker /\ s # "write_pending"
    BY <2>1, <2>2, <2>4, <2>5, SuccessLeft
  <2>6. CASE maker = Nobody /\ maker' = p
    <3>1. ~Present("TERMINAL_FAILURE") /\ ~Present("TERMINAL_FAILURE")'
      BY <2>1, <2>6 DEF Ownership, Markers, Present
    <3>2. ASSUME NEW q \in Processes
          PROVE  /\ Clean(q)' => q = p
                 /\ ~Adopted(q)' /\ pc'[q] # "adopt"
      <4>1. ~Clean(q) /\ pc[q] # "adopt"
        BY <2>6, ReservationAssumption DEF Success, Clean
      <4>2. ~Adopted(q)
        BY <4>1 DEF Adopted, Clean
      <4> QED
        BY <2>1, <2>3, <2>4, <4>1, <4>2 DEF Clean, Adopted, Delivering
    <3>3. \A q \in Processes :
            told'[q] = "success" =>
              pc'[q] \in {"deliver", "invalidate", "done", "failed", "dead"}
      BY <2>1, <2>3, <2>4 DEF Success
    <3> QED
      BY <2>1, <2>6, <3>1, <3>2, <3>3 DEF Success, Present
  <2> QED
    BY <2>2, <2>5, <2>6
<1>5. ASSUME NEW p \in Processes, WritePending(p)
      PROVE  Success'
  <2>1. \A f \in Members \ {"PENDING"} : disk'[f] = disk[f]
    BY <1>5, OneWrite DEF WritePending, Members, Markers, Content
  <2>2. /\ disk'["stranger"] = disk["stranger"]
        /\ disk'["TERMINAL_FAILURE"] = disk["TERMINAL_FAILURE"]
    BY <2>1 DEF Members, Markers
  <2>3. UNCHANGED <<maker, soiled, record, holder, told>>
    BY <1>5 DEF WritePending, Keep, Calm, ghosts
  <2>4. PICK s \in {"register", "mark_creation"} : Goto(p, s)
    BY <1>5 DEF WritePending
  <2>5. pc'[p] = s /\ \A q \in Processes \ {p} : pc'[q] = pc[q]
    BY <2>4, GotoType DEF Steps
  <2>6. /\ maker = p /\ ~Present("TERMINAL_FAILURE") /\ told[p] # "success"
        /\ holder[p] = "store" => ~soiled
    BY <1>5 DEF WritePending, Success, Clean
  <2>7. ~Present("TERMINAL_FAILURE")' /\ ~Adopted(p)'
    BY <2>2, <2>5, <2>6 DEF Present, Adopted, Delivering
  <2> QED
    BY <2>2, <2>3, <2>5, <2>6, <2>7, SuccessKept
<1>6. ASSUME NEW p \in Processes,
             Register(p) \/ AuthenticateEnvironment(p) \/ Consume(p) \/ AdoptPending(p)
      PROVE  Success'
  <2>1. UNCHANGED <<maker, disk, soiled, told>>
    BY <1>6 DEF Register, AuthenticateEnvironment, Check, Consume, AdoptPending, Tree,
                Keep, Calm, ghosts
  <2>2. PICK s \in {"catalog", "consume", "adopt", "fill", "mark_creation",
                    "fail_store"} :
          /\ Goto(p, s)
          /\ s = "adopt" => record' = [record EXCEPT ![p] = "consumed"]
          /\ s = "fill" => /\ pc[p] = "adopt" /\ record' = record
                          /\ holder' = [holder EXCEPT ![p] = "store"]
                          /\ TreeIsExact(p)
          /\ s # "fill" => holder'[p] # "store" \/ holder'[p] = holder[p]
    BY <1>6 DEF Register, AuthenticateEnvironment, Check, Consume, AdoptPending, Keep,
                Fails, TypeOK
  <2>3. pc'[p] = s /\ \A q \in Processes \ {p} : pc'[q] = pc[q]
    BY <2>2, GotoType DEF Steps
  <2>4. \A q \in Processes \ {p} : record'[q] = record[q] /\ holder'[q] = holder[q]
    BY <1>6 DEF Register, AuthenticateEnvironment, Check, Consume, AdoptPending, Keep,
                TypeOK
  <2>5. /\ maker = p /\ ~Present("TERMINAL_FAILURE") /\ told[p] # "success"
        /\ pc[p] = "adopt" => record[p] = "consumed"
    BY <1>6 DEF Register, AuthenticateEnvironment, Check, Consume, AdoptPending,
                Success, Clean
  <2>6. ~Present("TERMINAL_FAILURE")'
    BY <2>1, <2>5 DEF Present
  <2>7. s = "fill" => ~soiled
    BY <2>2 DEF TreeIsExact, RunMembers, Members, Success
  <2>8. Adopted(p)' => s = "fill"
    BY <2>1, <2>3, <2>5 DEF Adopted, Delivering
  <2>9. /\ Adopted(p)' \/ pc'[p] = "adopt" => record'[p] = "consumed"
        /\ Adopted(p)' => holder'[p] = "store"
        /\ holder'[p] = "store" => ~soiled
    BY <2>2, <2>3, <2>5, <2>7, <2>8 DEF TypeOK, Success
  <2> QED
    BY <2>1, <2>3, <2>4, <2>5, <2>6, <2>9, SuccessKept
<1>7. ASSUME NEW p \in Processes, FillStore(p)
      PROVE  Success'
  <2>1. \A f \in Members \ {"artifact"} : disk'[f] = disk[f]
    BY <1>7, OneWrite DEF FillStore, Members, Content
  <2>2. /\ disk'["stranger"] = disk["stranger"]
        /\ disk'["TERMINAL_FAILURE"] = disk["TERMINAL_FAILURE"]
    BY <2>1 DEF Members, Markers
  <2>3. UNCHANGED <<maker, soiled, record, holder>>
    BY <1>7 DEF FillStore, Calm, ghosts
  <2>4. /\ maker = p /\ ~Present("TERMINAL_FAILURE") /\ told[p] # "success"
        /\ record[p] = "consumed" /\ holder[p] = "store" /\ ~soiled
    BY <1>7 DEF FillStore, Success, Clean, Adopted
  <2>5. ~Present("TERMINAL_FAILURE")'
    BY <2>2, <2>4 DEF Present
  <2>6. CASE Goto(p, "deliver") /\ told' = [told EXCEPT ![p] = "success"]
    <3>1. pc'[p] = "deliver" /\ \A q \in Processes \ {p} : pc'[q] = pc[q]
                                                     /\ told'[q] = told[q]
      BY <2>6, GotoType DEF Steps, TypeOK
    <3> QED
      BY <2>2, <2>3, <2>4, <2>5, <3>1, SuccessKept
  <2>7. CASE Goto(p, "fail_store") /\ UNCHANGED told
    BY <2>2, <2>3, <2>4, <2>7, SuccessLeft
  <2> QED
    BY <1>7, <2>6, <2>7 DEF FillStore, Fails
<1>8. ASSUME NEW p \in Processes, MarkCreation(p)
      PROVE  Success'
  <2>1. \A f \in Members \ {"TERMINAL_FAILURE"} : disk'[f] = disk[f]
    BY <1>8, OneWrite DEF MarkCreation, Members, Markers, Content, Reasons
  <2>2. UNCHANGED <<maker, soiled, record, holder, told>> /\ maker = p
        /\ Goto(p, "creation_error")
    BY <1>8 DEF MarkCreation, Keep, Ownership, Making
  <2>3. told[p] # "success"
    BY <1>8 DEF MarkCreation, Success
  <2> QED
    BY <2>1, <2>2, <2>3, SuccessLeft DEF Members
<1>9. ASSUME NEW p \in Processes, FailStore(p) \/ Invalidate(p)
      PROVE  Success'
  <2>1. PICK reason \in Reasons : FailHolder(p, reason)
    BY <1>9 DEF FailStore, Invalidate, Reasons
  <2>2. /\ \A g \in Members \ {"TERMINAL_FAILURE"} : disk'[g] = disk[g]
        /\ \A q \in Processes \ {p} : record'[q] = record[q]
        /\ disk' = disk \/ maker = p
    BY <2>1, OneFailure DEF Ownership, OneHolder
  <2>3. UNCHANGED <<maker, soiled, holder>>
        /\ \A q \in Processes \ {p} : told'[q] = told[q]
    BY <1>9 DEF FailStore, Invalidate, TypeOK
  <2>4. PICK s \in {"diagnose", "failed"} :
          Goto(p, s) /\ (s = "diagnose" => told'[p] # "success")
    BY <1>9 DEF FailStore, Invalidate, TypeOK
  <2> QED
    BY <2>2, <2>3, <2>4, SuccessLeft DEF Members
<1>10. ASSUME PlantStranger
       PROVE  Success'
  <2>1. /\ \A f \in Members \ {"stranger"} : disk'[f] = disk[f]
        /\ disk'["stranger"] = [by |-> Nobody, is |-> "whole"]
    BY <1>10 DEF PlantStranger, TypeOK, Members
  <2>2. UNCHANGED <<maker, pc, record, holder, told>>
        /\ soiled' = (holder[maker] # "store")
    BY <1>10 DEF PlantStranger, control
  <2>3. /\ Present("TERMINAL_FAILURE")' = Present("TERMINAL_FAILURE")
        /\ Present("stranger")'
    BY <2>1 DEF Present, Absent, Members, Markers
  <2>4. \A p \in Processes : holder[p] = "store" => ~soiled'
    BY <2>2 DEF Ownership, OneHolder
  <2> QED
    BY <2>2, <2>3, <2>4 DEF Success, Clean, Adopted, Delivering
<1>11. ASSUME NEW p \in Processes, Step(p)
       PROVE  Success'
  <2>1. ASSUME Deliver(p) PROVE Success'
    BY <2>1, <1>2, <1>3
  <2>2. ASSUME FailurePath(p) PROVE Success'
    BY <2>1, <2>2, <1>2, <1>9 DEF FailurePath
  <2>3. ASSUME Run(p) PROVE Success'
    BY <2>3, <1>6, <1>7 DEF Run
  <2>4. ASSUME Reserve(p) PROVE Success'
    BY <2>4, <1>2, <1>4, <1>5, <1>6, <1>8 DEF Reserve
  <2> QED
    BY <1>11, <1>2, <2>2, <2>3, <2>4 DEF Step
<1> QED
  BY <1>1, <1>2, <1>10, <1>11 DEF Next

\* Exit code 0 means a run of the command's own, with its reservation consumed and no
\* failure record, that nothing foreign was in when its store was opened.
THEOREM ExitZeroSafety == Spec => []ExitZeroOwnsRun
<1>1. Success => ExitZeroOwnsRun
  BY DEF Success, Clean, Adopted, ExitZeroOwnsRun
<1> QED
  BY <1>1, TypeInit, TypeStep, OwnershipInit, OwnershipStep, SuccessInit, SuccessStep,
     PTL DEF Spec

-----------------------------------------------------------------------------
(* Failures are recorded *)

Before == {"start", "git", "look_outputs", "make_outputs", "look_m6", "make_m6",
           "probe", "make_run"}

\* The run of p has its failure record, or one of the two excuses holds.
Recorded(p) == Present("TERMINAL_FAILURE") \/ p \in refused \union orphaned

\* p has a handle that can still write a failure record.
Writable(p) ==
  \/ holder[p] = "store"
  \/ holder[p] = "reservation" /\ record[p] \in {"pending", "consumed"}

\* FailureLeavesRecord with what leads to it: a command that has made a run and has
\* not recorded its failure has a handle to do so and an invalidator to ask for it.
Closing ==
  \A p \in Processes :
    /\ pc[p] \in Before \ {"start"} => registered[p]
    /\ maker = p =>
         /\ pc[p] \notin Before
         /\ registered[p]
         /\ pc[p] \in {"creation_error", "diagnose", "failed"} => Recorded(p)
         /\ pc[p] \in {"fail_store", "deliver", "invalidate"} =>
              Recorded(p) \/ Writable(p)
    /\ pc[p] \in Using => Writable(p)

LEMMA ClosingInit == Init => Closing
  BY ReservationAssumption DEF Init, Closing, Before, Using

\* A step of p that takes no record away.
LEMMA ClosingKept ==
  ASSUME TypeOK, Closing, NEW p \in Processes, UNCHANGED maker,
         \A q \in Processes \ {p} : /\ pc'[q] = pc[q] /\ holder'[q] = holder[q]
                                    /\ registered'[q] = registered[q]
                                    /\ record'[q] = record[q]
                                    /\ Recorded(q) => Recorded(q)',
         pc'[p] \in Before \ {"start"} => registered'[p],
         maker = p =>
           /\ pc'[p] \notin Before
           /\ registered'[p]
           /\ pc'[p] \in {"creation_error", "diagnose", "failed"} => Recorded(p)'
           /\ pc'[p] \in {"fail_store", "deliver", "invalidate"} =>
                Recorded(p)' \/ Writable(p)',
         pc'[p] \in Using => Writable(p)'
  PROVE  Closing'
<1> DEFINE Promise(q) ==
      /\ pc[q] \in Before \ {"start"} => registered[q]
      /\ maker = q =>
           /\ pc[q] \notin Before
           /\ registered[q]
           /\ pc[q] \in {"creation_error", "diagnose", "failed"} => Recorded(q)
           /\ pc[q] \in {"fail_store", "deliver", "invalidate"} =>
                Recorded(q) \/ Writable(q)
      /\ pc[q] \in Using => Writable(q)
<1>1. Promise(p)'
  OBVIOUS
<1>2. ASSUME NEW q \in Processes \ {p} PROVE Promise(q)'
  <2>1. Promise(q)
    BY DEF Closing
  <2>2. Writable(q)' <=> Writable(q)
    BY DEF Writable
  <2> QED
    BY <2>1, <2>2
<1> QED
  BY <1>1, <1>2 DEF Closing

\* What is written stays, and a step of p forgets the excuses of nobody else.
LEMMA RecordsStay ==
  ASSUME NEW p \in Processes,
         Present("TERMINAL_FAILURE") => Present("TERMINAL_FAILURE")',
         \A q \in Processes \ {p} : /\ q \in refused => q \in refused'
                                    /\ q \in orphaned => q \in orphaned'
  PROVE  \A q \in Processes \ {p} : Recorded(q) => Recorded(q)'
<1> TAKE q \in Processes \ {p}
<1>1. Recorded(q) <=> (\/ Present("TERMINAL_FAILURE")
                       \/ q \in refused \/ q \in orphaned)
  BY DEF Recorded
<1>2. Recorded(q)' <=> (\/ Present("TERMINAL_FAILURE")'
                        \/ q \in refused' \/ q \in orphaned')
  BY DEF Recorded
<1> QED
  BY <1>1, <1>2

LEMMA ClosingStep ==
  TypeOK /\ Ownership /\ Closing /\ [Next]_vars => Closing'
<1> SUFFICES ASSUME TypeOK, Ownership, Closing, [Next]_vars PROVE Closing'
  OBVIOUS
<1>1. CASE UNCHANGED vars
  BY <1>1 DEF vars, control, ghosts, Closing, Recorded, Writable, Present
<1>2. ASSUME NEW p \in Processes,
             Start(p) \/ CheckGitInvisible(p) \/ EnsureParents(p) \/ ProbeRun(p)
               \/ ViewFailedCreation(p) \/ AuthenticateEnvironment(p) \/ Consume(p)
               \/ AdoptPending(p) \/ Deliver(p) \/ Crash(p)
      PROVE  Closing'
  <2>1. UNCHANGED <<maker, disk, refused, orphaned>>
    BY <1>2 DEF Start, CheckGitInvisible, Check, EnsureParents, EnsureDirectory,
                ProbeRun, ViewFailedCreation, AuthenticateEnvironment, Consume,
                AdoptPending, Deliver, Crash, Tree, Calm, ghosts
  <2>2. /\ \A q \in Processes \ {p} : /\ holder'[q] = holder[q] /\ pc'[q] = pc[q]
                                      /\ registered'[q] = registered[q]
                                      /\ record'[q] = record[q]
        /\ registered[p] => registered'[p]
    BY <1>2 DEF Start, CheckGitInvisible, Check, EnsureParents, EnsureDirectory,
                ProbeRun, ViewFailedCreation, AuthenticateEnvironment, Consume,
                AdoptPending, Deliver, Crash, Keep, Goto, Fails, TypeOK
  <2>3. \A q \in Processes : Recorded(q)' <=> Recorded(q)
    BY <2>1 DEF Recorded, Present
  <2>4. ASSUME maker = p
        PROVE  /\ pc'[p] \notin Before
               /\ registered'[p]
               /\ pc'[p] \in {"creation_error", "diagnose", "failed"} => Recorded(p)
               /\ pc'[p] \in {"fail_store", "deliver", "invalidate"} =>
                    Recorded(p) \/ Writable(p)'
    <3>1. pc[p] \notin Before /\ registered[p] /\ registered'[p]
      BY <2>2, <2>4 DEF Closing
    <3>2. CASE ViewFailedCreation(p) \/ Crash(p)
      BY <2>4, <3>1, <3>2 DEF ViewFailedCreation, Crash, Closing, Goto, Fails, Before,
                              TypeOK
    <3>3. CASE AuthenticateEnvironment(p) \/ Consume(p) \/ AdoptPending(p)
      <4>1. Writable(p)
        BY <3>3 DEF AuthenticateEnvironment, Check, Consume, AdoptPending, Closing, Using
      <4> QED
        BY <3>1, <3>3, <4>1 DEF AuthenticateEnvironment, Check, Consume, AdoptPending,
                                Keep, Writable, Goto, Fails, Before, TypeOK
    <3>4. CASE Deliver(p)
      BY <2>4, <3>1, <3>4 DEF Deliver, Keep, Closing, Writable, Goto, Before, TypeOK
    <3>5. ~(Start(p) \/ CheckGitInvisible(p) \/ EnsureParents(p) \/ ProbeRun(p))
      BY <3>1 DEF Start, CheckGitInvisible, Check, EnsureParents, EnsureDirectory,
                  ProbeRun, Before
    <3> QED
      BY <1>2, <3>2, <3>3, <3>4, <3>5
  <2>5. pc'[p] \in Before \ {"start"} => registered'[p]
    <3>1. CASE Start(p)
      BY <3>1 DEF Start, Goto, Fails, TypeOK, Before
    <3>2. CASE CheckGitInvisible(p) \/ EnsureParents(p) \/ ProbeRun(p)
      <4>1. registered[p]
        BY <3>2 DEF CheckGitInvisible, Check, EnsureParents, EnsureDirectory, ProbeRun,
                    Closing, Before
      <4> QED
        BY <4>1, <2>2
    <3>3. CASE \/ ViewFailedCreation(p) \/ AuthenticateEnvironment(p) \/ Consume(p)
               \/ AdoptPending(p) \/ Deliver(p) \/ Crash(p)
      BY <3>3 DEF ViewFailedCreation, AuthenticateEnvironment, Check, Consume,
                  AdoptPending, Deliver, Crash, Goto, Fails, TypeOK, Before
    <3> QED
      BY <1>2, <3>1, <3>2, <3>3
  <2>6. pc'[p] \in Using => Writable(p)'
    <3>1. CASE AuthenticateEnvironment(p) \/ Consume(p) \/ AdoptPending(p)
      <4>1. Writable(p)
        BY <3>1 DEF AuthenticateEnvironment, Check, Consume, AdoptPending, Closing, Using
      <4> QED
        BY <3>1, <4>1 DEF AuthenticateEnvironment, Check, Consume, AdoptPending, Keep,
                          Writable, Goto, Fails, TypeOK
    <3>2. CASE \/ Start(p) \/ CheckGitInvisible(p) \/ EnsureParents(p) \/ ProbeRun(p)
               \/ ViewFailedCreation(p) \/ Deliver(p) \/ Crash(p)
      BY <3>2 DEF Start, CheckGitInvisible, Check, EnsureParents, EnsureDirectory,
                  ProbeRun, ViewFailedCreation, Deliver, Crash, Goto, Fails, Using,
                  TypeOK
    <3> QED
      BY <1>2, <3>1, <3>2
  <2> QED
    BY <2>1, <2>2, <2>3, <2>4, <2>5, <2>6, ClosingKept
<1>3. ASSUME NEW p \in Processes, MakeRun(p)
      PROVE  Closing'
  <2>1. UNCHANGED <<disk, record, holder, registered, refused>> /\ pc[p] = "make_run"
    BY <1>3 DEF MakeRun, Keep
  <2>2. maker # p /\ registered[p]
    BY <2>1 DEF Closing, Before
  <2>3. /\ \A q \in Processes \ {p} : pc'[q] = pc[q] /\ (Recorded(q) => Recorded(q)')
        /\ pc'[p] \notin Before \union Using
    BY <1>3, <2>1 DEF MakeRun, LostRace, Goto, Fails, TypeOK, Recorded, Present, Before,
                      Using
  <2>4. CASE UNCHANGED maker
    BY <2>1, <2>2, <2>3, <2>4, ClosingKept
  <2>5. CASE maker' = p
    <3>1. pc'[p] = "write_pending" \/ (pc'[p] = "creation_error" /\ p \in orphaned')
      BY <1>3, <2>2, <2>5 DEF MakeRun, LostRace, Goto, TypeOK
    <3> QED
      BY <2>1, <2>2, <2>3, <2>5, <3>1 DEF Closing, Recorded, Writable
  <2> QED
    BY <1>3, <2>4, <2>5 DEF MakeRun, LostRace
<1>4. ASSUME NEW p \in Processes,
             WritePending(p) \/ Register(p) \/ MarkCreation(p) \/ FillStore(p)
      PROVE  Closing'
  <2>1. Present("TERMINAL_FAILURE") => Present("TERMINAL_FAILURE")'
    BY <1>4, OneWrite DEF WritePending, Register, MarkCreation, FillStore, Tree, Members,
                          Markers, Content, Reasons, Present
  <2>2. /\ UNCHANGED <<maker, registered>>
        /\ \A q \in Processes \ {p} : /\ holder'[q] = holder[q] /\ pc'[q] = pc[q]
                                      /\ record'[q] = record[q]
                                      /\ q \in refused => q \in refused'
                                      /\ q \in orphaned => q \in orphaned'
    BY <1>4 DEF WritePending, Register, MarkCreation, FillStore, Noted, Keep, Tree, Goto,
                Fails, Calm, ghosts, TypeOK
  <2>3. pc'[p] \notin Before
    BY <1>4 DEF WritePending, Register, MarkCreation, FillStore, Goto, Fails, TypeOK,
                Before
  <2>4. ASSUME maker = p
        PROVE  /\ registered[p]
               /\ pc'[p] \in {"creation_error", "diagnose", "failed"} => Recorded(p)'
               /\ pc'[p] \in {"fail_store", "deliver", "invalidate"} =>
                    Recorded(p)' \/ Writable(p)'
    <3>1. registered[p]
      BY <2>4 DEF Closing
    <3>2. CASE WritePending(p)
      BY <3>1, <3>2 DEF WritePending, Goto, TypeOK
    <3>3. CASE Register(p)
      BY <3>1, <3>3 DEF Register, Goto, Fails, TypeOK, Recorded
    <3>4. CASE MarkCreation(p)
      BY <3>1, <3>4 DEF MarkCreation, Noted, Goto, TypeOK, Recorded, Present
    <3>5. CASE FillStore(p)
      <4>1. Writable(p)'
        BY <3>5 DEF FillStore, Closing, Using, Writable
      <4> QED
        BY <3>1, <3>5, <4>1 DEF FillStore, Goto, Fails, TypeOK
    <3> QED
      BY <1>4, <3>2, <3>3, <3>4, <3>5
  <2>5. \A q \in Processes \ {p} : Recorded(q) => Recorded(q)'
    BY <2>1, <2>2, RecordsStay
  <2>6. pc'[p] \in Using => Writable(p)'
    BY <1>4 DEF WritePending, Register, MarkCreation, FillStore, Goto, Fails, Using,
                Writable, TypeOK
  <2> QED
    BY <2>2, <2>3, <2>4, <2>5, <2>6, ClosingKept
<1>5. ASSUME NEW p \in Processes, FailStore(p) \/ Invalidate(p)
      PROVE  Closing'
  <2>1. PICK reason \in Reasons : FailHolder(p, reason)
    BY <1>5 DEF FailStore, Invalidate, Reasons
  <2>2. Present("TERMINAL_FAILURE") => Present("TERMINAL_FAILURE")'
    BY <2>1, OneFailure DEF Present
  <2>3. /\ UNCHANGED <<maker, registered, holder, orphaned>>
        /\ \A q \in Processes \ {p} : /\ q \in refused => q \in refused'
                                      /\ record'[q] = record[q]
    BY <1>5, <2>1, OneFailure, NotedEffect DEF FailStore, Invalidate, TypeOK
  <2>4. /\ pc'[p] \in {"diagnose", "failed"}
        /\ pc[p] \in {"fail_store", "invalidate"}
        /\ \A q \in Processes \ {p} : pc'[q] = pc[q]
    BY <1>5 DEF FailStore, Invalidate, Goto, TypeOK
  <2>5. ASSUME maker = p PROVE registered[p] /\ Recorded(p)'
    <3>1. registered[p] /\ (Recorded(p) \/ Writable(p))
      BY <2>4, <2>5 DEF Closing
    <3> DEFINE noted == Noted(p)
               present == Present("TERMINAL_FAILURE")
    <3>2. ASSUME noted PROVE Recorded(p)'
      BY <3>2, NotedEffect DEF Recorded, Present, TypeOK
    <3>3. ASSUME Writable(p) PROVE Recorded(p)'
      <4>1. CASE holder[p] = "store"
        <5>1. noted
          BY <2>1, <4>1 DEF FailHolder, Poison
        <5> QED
          BY <3>2, <5>1
      <4>2. CASE holder[p] = "reservation" /\ record[p] \in {"pending", "consumed"}
        <5>1. FailReservation(p, reason)
          BY <2>1, <4>2 DEF FailHolder
        <5>2. noted \/ present
          BY <5>1, <4>2 DEF FailReservation, Contradicts
        <5> QED
          BY <2>2, <3>2, <5>2 DEF Recorded
      <4> QED
        BY <3>3, <4>1, <4>2 DEF Writable
    <3>4. ASSUME Recorded(p) PROVE Recorded(p)'
      <4>1. noted \/ refused' = refused
        BY <2>1, OneFailure
      <4> HIDE DEF noted
      <4>2. CASE present \/ p \in orphaned
        BY <2>2, <2>3, <4>2 DEF Recorded
      <4>3. CASE p \in refused /\ refused' = refused
        BY <4>3 DEF Recorded
      <4> QED
        BY <3>2, <3>4, <4>1, <4>2, <4>3 DEF Recorded
    <3> QED
      BY <3>1, <3>3, <3>4
  <2>6. \A q \in Processes \ {p} : Recorded(q) => Recorded(q)'
    BY <2>2, <2>3, RecordsStay
  <2> QED
    BY <2>3, <2>4, <2>5, <2>6, ClosingKept DEF Before, Using
<1>6. ASSUME NEW p \in Processes, Diagnose(p)
      PROVE  Closing'
  <2>1. Present("TERMINAL_FAILURE") => Present("TERMINAL_FAILURE")'
    BY <1>6, OneWrite DEF Diagnose, Members, Markers, Content, Present
  <2>2. UNCHANGED <<maker, record, holder, registered, refused, orphaned>>
    BY <1>6 DEF Diagnose, Keep, Calm, ghosts
  <2>3. /\ pc[p] = "diagnose" /\ pc'[p] = "deliver"
        /\ \A q \in Processes \ {p} : pc'[q] = pc[q]
    BY <1>6 DEF Diagnose, Goto, TypeOK
  <2>4. \A q \in Processes : Recorded(q) => Recorded(q)'
    BY <2>1, <2>2 DEF Recorded
  <2>5. maker = p => registered[p] /\ Recorded(p)'
    BY <2>3, <2>4 DEF Closing
  <2> QED
    BY <2>2, <2>3, <2>4, <2>5, ClosingKept DEF Before, Using
<1>7. ASSUME PlantStranger
      PROVE  Closing'
  <2>1. disk'["TERMINAL_FAILURE"] = disk["TERMINAL_FAILURE"]
    BY <1>7 DEF PlantStranger, TypeOK, Members, Markers
  <2> QED
    BY <1>7, <2>1 DEF PlantStranger, control, Closing, Recorded, Writable, Present
<1>8. ASSUME NEW p \in Processes, Step(p)
      PROVE  Closing'
  BY <1>8, <1>2, <1>3, <1>4, <1>5, <1>6 DEF Step, Reserve, Run, FailurePath
<1> QED
  BY <1>1, <1>2, <1>7, <1>8 DEF Next

\* A command that made a run and exits with 1 leaves a failure record, however far it
\* came, unless the write was refused or an interrupt took its handle.
THEOREM FailureSafety == Spec => []FailureLeavesRecord
<1>1. Closing => FailureLeavesRecord
  BY DEF Closing, Recorded, FailureLeavesRecord
<1> QED
  BY <1>1, TypeInit, TypeStep, OwnershipInit, OwnershipStep, ClosingInit, ClosingStep,
     PTL DEF Spec
=============================================================================
