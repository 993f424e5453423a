---------------------------- MODULE M6WaymaxProofs ----------------------------
(***************************************************************************)
(* Proofs about M6Waymax: the one-shot authority, for any number of runs   *)
(* that hold it and whatever they execute, and the execution that it       *)
(* authorizes, for any cohort, logs and pulses and any number of           *)
(* transitions and scenes.  The kernels and the order of the calls are     *)
(* recursive functions, so there is a part about each before the           *)
(* invariant of an execution.                                              *)
(***************************************************************************)
EXTENDS M6Waymax, FiniteSetTheorems, TLAPS

-----------------------------------------------------------------------------
(* The invariant of the authority *)

\* The steps of a run before it has claimed the authority ...
Asking == {"start", "validating", "validated", "claiming", "claimable"}

\* ... and when the authority knows that it has.
Holding == {"claimed", "opening", "running", "raised", "issued"}

Runs == DOMAIN at

TypeOK ==
  /\ Runs # {}
  /\ at \in [Runs -> Asking \union Holding \union {"flagging", "refused"}]
  /\ seen \in [Runs -> BOOLEAN]
  /\ {locked, consumed, flag} \subseteq BOOLEAN

\* The lock is held between the two marks of a claim, by the run that makes it.
MarksAgree ==
  /\ locked <=> consumed /\ ~flag
  /\ flag => consumed
  /\ \A r \in Runs : /\ at[r] = "flagging" => locked
                     /\ at[r] \in Holding => flag

\* The capability is consumed by one run, which has got past the claim.
OneClaims ==
  /\ \A r, q \in Started : r = q
  /\ consumed <=> Started # {}

\* What a revalidation has seen is never ahead of the marks, and when the holder looks
\* again, both are there.
SeenIsPast ==
  /\ \A r \in Runs : seen[r] => consumed
  /\ \A r \in Runs : at[r] = "opening" => seen[r]

\* Nobody is refused an authority that nobody has claimed.
RefusedAfter == \A r \in Runs : at[r] = "refused" => consumed

AuthorityInv == TypeOK /\ MarksAgree /\ OneClaims /\ SeenIsPast /\ RefusedAfter

\* All runs start before the claim of an authority that nobody has used.
LEMMA InitAuthority == Init => AuthorityInv
<1> SUFFICES ASSUME Init PROVE AuthorityInv
  OBVIOUS
<1>1. PICK c \in Cohorts, q \in Quirks : \E runs \in Holders[c] : InitOf(c, q, runs)
  BY DEF Init
<1>2. PICK runs \in Holders[c] : InitOf(c, q, runs)
  BY <1>1
<1>3. runs # {}
  BY WaymaxAssumption
<1> QED
  BY <1>2, <1>3 DEF InitOf, AuthorityInv, TypeOK, MarksAgree, OneClaims, SeenIsPast,
     RefusedAfter, Runs, Started, Asking, Holding

-----------------------------------------------------------------------------
(* The steps of the authority *)

\* A run moves on, and nothing is marked.
LEMMA MovesOn ==
  ASSUME AuthorityInv, NEW r \in Runs, NEW step \in Asking \union Holding \union {"refused"},
         at' = [at EXCEPT ![r] = step], UNCHANGED <<locked, consumed, flag>>,
         \/ UNCHANGED seen /\ step # "opening"
         \/ seen' = [seen EXCEPT ![r] = consumed] /\ ~locked,
         at[r] # "flagging",
         at[r] \in Holding <=> step \in Holding,
         step = "refused" => consumed
  PROVE  AuthorityInv'
<1>1. TypeOK' /\ Runs' = Runs
  BY DEF AuthorityInv, TypeOK, Runs
<1>2. Started' = Started
  BY <1>1 DEF AuthorityInv, TypeOK, Runs, Started, Asking, Holding
<1>3. MarksAgree'
  BY <1>1 DEF AuthorityInv, TypeOK, MarksAgree, Asking, Holding
<1>4. OneClaims'
  BY <1>2 DEF AuthorityInv, OneClaims
<1>5. SeenIsPast'
  BY <1>1 DEF AuthorityInv, TypeOK, MarksAgree, SeenIsPast, Asking, Holding
<1>6. RefusedAfter'
  BY <1>1 DEF AuthorityInv, TypeOK, RefusedAfter
<1> QED
  BY <1>1, <1>3, <1>4, <1>5, <1>6 DEF AuthorityInv

\* A revalidation that finds the capability and the flag apart has overlapped with a
\* claim, and not with its own.
LEMMA ComparesKeep ==
  ASSUME AuthorityInv, NEW r \in Runs, NEW from, NEW to, Compare(r, from, to),
         \/ from \in Asking /\ to \in Asking
         \/ from = "opening" /\ to = "running"
  PROVE  AuthorityInv'
<1>1. /\ at[r] = from
      /\ at' = [at EXCEPT ![r] = IF seen[r] = flag THEN to ELSE "refused"]
      /\ UNCHANGED <<locked, consumed, flag, seen>>
  BY DEF Compare
<1>2. CASE seen[r] = flag
  BY <1>1, <1>2, MovesOn DEF Asking, Holding
<1>3. CASE seen[r] # flag
  <2>1. seen[r] \in BOOLEAN /\ flag \in BOOLEAN
    BY DEF AuthorityInv, TypeOK
  <2>2. consumed
    BY <1>3, <2>1 DEF AuthorityInv, SeenIsPast, MarksAgree
  <2>3. from # "opening"
    BY <1>1, <1>3, <2>1 DEF AuthorityInv, SeenIsPast, MarksAgree, Holding
  <2> QED
    BY <1>1, <1>3, <2>2, <2>3, MovesOn DEF Asking, Holding
<1> QED
  BY <1>2, <1>3

\* The claim and its flag, which nothing can come between.
LEMMA ClaimsKeep ==
  ASSUME AuthorityInv, NEW r \in Runs, Claim(r) \/ SetFlag(r)
  PROVE  AuthorityInv'
<1>1. CASE Claim(r) /\ consumed
  BY <1>1, MovesOn DEF Claim, IsConsumed, Asking, Holding
<1>2. CASE Claim(r) /\ ~consumed
  <2>1. /\ at[r] = "claimable" /\ at' = [at EXCEPT ![r] = "flagging"]
        /\ locked' = TRUE /\ consumed' = TRUE /\ UNCHANGED <<seen, flag>>
    BY <1>2 DEF Claim, IsConsumed
  <2>2. TypeOK' /\ Runs' = Runs /\ flag = FALSE /\ Started = {}
    BY <1>2, <2>1 DEF AuthorityInv, TypeOK, Runs, MarksAgree, OneClaims
  <2>3. Started' = {r}
    BY <2>1, <2>2 DEF AuthorityInv, TypeOK, Runs, Started
  <2>4. MarksAgree'
    BY <2>1, <2>2 DEF AuthorityInv, TypeOK, MarksAgree, Asking, Holding
  <2>5. OneClaims' /\ RefusedAfter'
    BY <2>1, <2>3 DEF OneClaims, RefusedAfter
  <2>6. SeenIsPast'
    BY <2>1, <2>2 DEF AuthorityInv, TypeOK, SeenIsPast
  <2> QED
    BY <2>2, <2>4, <2>5, <2>6 DEF AuthorityInv
<1>3. CASE SetFlag(r)
  <2>1. /\ at[r] = "flagging" /\ at' = [at EXCEPT ![r] = "claimed"]
        /\ locked' = FALSE /\ flag' = TRUE /\ UNCHANGED <<seen, consumed>>
    BY <1>3 DEF SetFlag
  <2>2. TypeOK' /\ Runs' = Runs /\ consumed = TRUE
    BY <2>1 DEF AuthorityInv, TypeOK, Runs, MarksAgree, Holding
  <2>3. Started' = Started
    BY <2>1, <2>2 DEF AuthorityInv, TypeOK, Runs, Started
  <2>4. \A q \in Runs : at[q] = "flagging" => q = r
    BY <2>1 DEF AuthorityInv, OneClaims, Started, Runs
  <2>5. MarksAgree'
    BY <2>1, <2>2, <2>4 DEF AuthorityInv, TypeOK, MarksAgree, Holding
  <2>6. OneClaims' /\ RefusedAfter'
    BY <2>1, <2>2, <2>3 DEF AuthorityInv, TypeOK, OneClaims, RefusedAfter
  <2>7. SeenIsPast'
    BY <2>1, <2>2 DEF AuthorityInv, TypeOK, SeenIsPast
  <2> QED
    BY <2>2, <2>5, <2>6, <2>7 DEF AuthorityInv
<1> QED
  BY <1>1, <1>2, <1>3

\* A run that executes holds the authority until it has raised or issued.
LEMMA RunsKeep ==
  ASSUME AuthorityInv, NEW r \in Runs, Run(r)
  PROVE  AuthorityInv'
<1>1. /\ at[r] = "running" /\ UNCHANGED <<seen, locked, consumed, flag>>
      /\ UNCHANGED at \/ \E step \in {"raised", "issued"} : at' = [at EXCEPT ![r] = step]
  <2>1. CASE Execute(r)
    BY <2>1 DEF Execute, Running, Raise, authority
  <2>2. CASE Check(r)
    BY <2>2 DEF Check, Running, Raise, authority
  <2>3. CASE Freeze(r)
    BY <2>3 DEF Freeze, Running, Raise, authority
  <2>4. CASE Issue(r)
    BY <2>4 DEF Issue, Raise
  <2> QED
    BY <2>1, <2>2, <2>3, <2>4 DEF Run
<1>2. CASE UNCHANGED at
  BY <1>1, <1>2 DEF AuthorityInv, TypeOK, MarksAgree, OneClaims, SeenIsPast, RefusedAfter,
     Runs, Started
<1>3. CASE ~UNCHANGED at
  BY <1>1, <1>3, MovesOn DEF Holding
<1> QED
  BY <1>2, <1>3

\* Every step of any run keeps what is said of the authority.
LEMMA AuthorityStep == AuthorityInv /\ [Next]_vars => AuthorityInv'
<1> SUFFICES ASSUME AuthorityInv, [Next]_vars PROVE AuthorityInv'
  OBVIOUS
<1>1. ASSUME NEW r \in Runs, Authorize(r)
      PROVE  AuthorityInv'
  <2>1. ASSUME NEW from, NEW to, Read(r, from, to),
               \/ from \in Asking /\ to \in Asking
               \/ from = "claimed" /\ to = "opening"
        PROVE  AuthorityInv'
    <3>1. /\ at[r] = from /\ ~locked /\ at' = [at EXCEPT ![r] = to]
          /\ seen' = [seen EXCEPT ![r] = consumed] /\ UNCHANGED <<locked, consumed, flag>>
      BY <2>1 DEF Read
    <3> QED
      BY <2>1, <3>1, MovesOn DEF Asking, Holding
  <2>2. CASE ValidateInputs(r) \/ RevalidateClaim(r) \/ RevalidateExecutors(r)
    BY <2>1, <2>2 DEF ValidateInputs, RevalidateClaim, RevalidateExecutors, Asking
  <2>3. CASE ValidatedInputs(r) \/ RevalidatedClaim(r) \/ RevalidatedExecutors(r)
    BY <2>3, ComparesKeep
       DEF ValidatedInputs, RevalidatedClaim, RevalidatedExecutors, Asking
  <2> QED
    BY <1>1, <2>2, <2>3, ClaimsKeep DEF Authorize
<1>2. CASE WriteLate \/ UNCHANGED vars
  <2>1. UNCHANGED authority
    BY <1>2 DEF WriteLate, vars
  <2> QED
    BY <2>1 DEF authority, AuthorityInv, TypeOK, MarksAgree, OneClaims, SeenIsPast,
       RefusedAfter, Runs, Started
<1> QED
  BY <1>1, <1>2, RunsKeep DEF Next, Runs

LEMMA AuthorityInvariant == Spec => []AuthorityInv
BY InitAuthority, AuthorityStep, PTL DEF Spec

-----------------------------------------------------------------------------
(* What follows for the authority *)

\* However many runs hold one authority (m6_waymax_official.py) and however their checks
\* and claims interleave, at most one gets to execute, and not all of them are refused.
THEOREM OneRunSafety == Spec => []OneRun
<1>1. AuthorityInv => OneRun
  <2>1. SUFFICES ASSUME AuthorityInv PROVE OneRun
    OBVIOUS
  <2>2. Cardinality(Started) <= 1
    <3>1. CASE Started = {}
      BY <3>1, FS_EmptySet
    <3>2. CASE Started # {}
      <4>1. PICK r \in Started : TRUE
        BY <3>2
      <4>2. Started = {r}
        BY <2>1, <4>1 DEF AuthorityInv, OneClaims
      <4>3. Cardinality({r}) = 1
        BY FS_Singleton
      <4> QED
        BY <4>2, <4>3
    <3> QED
      BY <3>1, <3>2
  <2>3. \E r \in DOMAIN at : at[r] # "refused"
    <3>1. CASE consumed
      BY <2>1, <3>1 DEF AuthorityInv, OneClaims, Started
    <3>2. CASE ~consumed
      BY <2>1, <3>2 DEF AuthorityInv, TypeOK, RefusedAfter, Runs
    <3> QED
      BY <3>1, <3>2
  <2> QED
    BY <2>2, <2>3 DEF OneRun
<1> QED
  BY <1>1, AuthorityInvariant, PTL

-----------------------------------------------------------------------------
(* Recursion over a number *)

\* What holds of zero and goes from a number to the next holds of all.
LEMMA UpFromZero ==
  ASSUME NEW Good, 0 \in Good, \A n \in Nat : n \in Good => n + 1 \in Good
  PROVE  Nat \subseteq Good
<1> DEFINE Bad == {n \in Nat : n \notin Good}
           R == OpToRel(<, Nat)
<1>1. SUFFICES ASSUME Bad # {} PROVE FALSE
  OBVIOUS
<1>2. PICK n \in Bad : \A k \in Bad : <<k, n>> \notin R
  <2>1. IsWellFoundedOn(R, Nat)
    BY NatLessThanWellFounded
  <2>2. Bad \subseteq Nat
    OBVIOUS
  <2> HIDE DEF Bad, R
  <2> QED
    BY <1>1, <2>1, <2>2, WFMin
<1>3. n \in Nat /\ n # 0
  OBVIOUS
<1>4. \A k \in Bad : ~(k < n)
  BY <1>2, Zenon DEF OpToRel
<1>5. n - 1 \in Good
  BY <1>3, <1>4
<1> QED
  BY <1>3, <1>5

\* How a recursion gets from a first value to the last.
Taken(f, m, S, first, next) ==
  f \in [0 .. m -> S] /\ f[0] = first /\ \A k \in 1 .. m : f[k] = next[k][f[k - 1]]

\* One step after the other can be taken.
LEMMA StepByStep ==
  ASSUME NEW S, NEW first \in S, NEW n \in Nat, NEW next \in [1 .. n -> [S -> S]]
  PROVE  \E f : Taken(f, n, S, first, next)
<1> DEFINE Good == {m \in Nat : m <= n => \E f : Taken(f, m, S, first, next)}
<1>1. 0 \in Good
  <2>1. Taken([k \in 0 .. 0 |-> first], 0, S, first, next)
    BY DEF Taken
  <2> QED
    BY <2>1
<1>2. ASSUME NEW m \in Nat, m \in Good PROVE m + 1 \in Good
  <2>1. SUFFICES ASSUME m + 1 <= n PROVE \E f : Taken(f, m + 1, S, first, next)
    OBVIOUS
  <2>2. PICK f : Taken(f, m, S, first, next)
    BY <1>2, <2>1
  <2> DEFINE last == next[m + 1][f[m]]
             g == [k \in 0 .. m + 1 |-> IF k <= m THEN f[k] ELSE last]
  <2>3. last \in S
    BY <2>1, <2>2 DEF Taken
  <2> HIDE DEF last
  <2>4. g \in [0 .. m + 1 -> S] /\ g[0] = first
    BY <2>2, <2>3 DEF Taken
  <2>5. ASSUME NEW k \in 1 .. m + 1 PROVE g[k] = next[k][g[k - 1]]
    <3>1. g[k - 1] = f[k - 1]
      OBVIOUS
    <3>2. CASE k <= m
      BY <2>2, <3>1, <3>2 DEF Taken
    <3>3. CASE k = m + 1
      BY <3>1, <3>3 DEF last
    <3> QED
      BY <3>2, <3>3
  <2> HIDE DEF g
  <2>6. Taken(g, m + 1, S, first, next)
    BY <2>4, <2>5 DEF Taken
  <2> QED
    BY <2>6
<1>3. n \in Good
  <2> HIDE DEF Good
  <2> QED
    BY <1>1, <1>2, UpFromZero
<1> QED
  BY <1>3

-----------------------------------------------------------------------------
(* Frames *)

Frame == [Agents -> States]

\* What the assumption says of a scene.
LEMMA SourceIs ==
  ASSUME NEW s \in DOMAIN Source
  PROVE  /\ Source[s].log \in [Frames -> Frame] /\ Source[s].brake \in [Frames -> States]
         /\ Source[s].brake[0] = Source[s].log[0][Ego]
         /\ \A k \in Frames : Source[s].brake[k].valid /\ Source[s].log[k][Ego].valid
BY WaymaxAssumption DEF Frame

\* The greater of two numbers.
LEMMA MaxIs ==
  ASSUME NEW a \in Int, NEW b \in Int
  PROVE  Max({a, b}) = IF a > b THEN a ELSE b
<1> DEFINE m == IF a > b THEN a ELSE b
<1>1. m \in {a, b} /\ \A x \in {a, b} : m >= x
  OBVIOUS
<1>2. \A y \in {a, b} : (\A x \in {a, b} : y >= x) => y = m
  OBVIOUS
<1> HIDE DEF m
<1>3. (CHOOSE y \in {a, b} : \A x \in {a, b} : y >= x) = m
  BY <1>1, <1>2
<1> QED
  BY <1>3 DEF Max, m

\* Those that IDM moves are there, and the ego is not among them.
LEMMA MovedAre ==
  ASSUME NEW s \in DOMAIN Source, NEW bundle, NEW k \in Steps
  PROVE  LET moved == Masks(s, bundle, k - 1).effective
         IN  /\ moved \subseteq Agents \ {Ego}
             /\ \A a \in moved : Valid(s, k, a)
             /\ bundle # "privileged_idm" => moved = {}
BY DEF Masks, Requested, IsVehicle, Steps

\* IDM makes a state of an agent that is there.
LEMMA IdmIs ==
  ASSUME NEW world \in Frame, NEW a \in Agents, NEW strength \in Int
  PROVE  Idm(world, a, strength) \in States /\ Idm(world, a, strength).valid
<1>1. world[a].x \in Int /\ world[a].v \in Int
  BY DEF Frame, States
<1>2. Max({0, world[a].v - strength}) \in Int
  <2>1. world[a].v - strength \in Int
    BY <1>1
  <2> QED
    BY <2>1, MaxIs
<1> QED
  BY <1>1, <1>2 DEF Idm, States

\* The next frame: the ego has its plan, and whom IDM does not move, the log.
LEMMA NextFrameIs ==
  ASSUME NEW s \in DOMAIN Source, NEW bundle, NEW condition, NEW how, NEW before \in Frame,
         NEW k \in Steps
  PROVE  LET next == NextFrame(s, bundle, condition, how, before, k)
             moved == Masks(s, bundle, k - 1).effective
         IN  /\ next \in Frame
             /\ next[Ego] = Plan(s, condition)[k]
             /\ how # "loose" =>
                  /\ \A a \in Agents \ (moved \union {Ego}) : next[a] = Source[s].log[k][a]
                  /\ \A a \in Agents : next[a].valid = Valid(s, k, a)
<1> DEFINE ego == Plan(s, condition)[k]
           driver == IF how = "loose" THEN "privileged_idm" ELSE bundle
           moved == Masks(s, driver, k - 1).effective
           world == IF how = "early" THEN [before EXCEPT ![Ego] = ego] ELSE before
           strength == IF how = "harder" THEN 2 ELSE 1
           next == [a \in Agents |-> CASE a \in moved -> Idm(world, a, strength)
                                       [] a = Ego -> ego
                                       [] OTHER -> Source[s].log[k][a]]
<1>1. k \in Frames
  BY WaymaxAssumption DEF Steps, Frames
<1>2. ego \in States /\ ego.valid = TRUE /\ Source[s].log[k] \in Frame
      /\ Valid(s, k, Ego) = TRUE
  <2>1. /\ Source[s].log[k] \in Frame /\ Source[s].log[k][Ego] \in States
        /\ Source[s].brake[k] \in States
        /\ Source[s].log[k][Ego].valid /\ Source[s].brake[k].valid
    BY <1>1, SourceIs, WaymaxAssumption DEF Frame
  <2>2. ego = Source[s].log[k][Ego] \/ ego = Source[s].brake[k]
    BY <1>1 DEF Plan
  <2> HIDE DEF ego
  <2> QED
    BY <2>1, <2>2 DEF States, Valid
<1>3. Ego \in Agents /\ world \in Frame /\ strength \in Int
  BY <1>2, WaymaxAssumption DEF Frame
<1>4. /\ moved \subseteq Agents \ {Ego} /\ \A a \in moved : Valid(s, k, a)
  BY MovedAre
<1>5. NextFrame(s, bundle, condition, how, before, k) = next
  BY Zenon DEF NextFrame
<1> HIDE DEF ego, moved, world, strength, driver
<1>6. ASSUME NEW a \in Agents
      PROVE  /\ next[a] \in States
             /\ a \notin moved => next[a] = IF a = Ego THEN ego ELSE Source[s].log[k][a]
             /\ next[a].valid = Valid(s, k, a)
  <2>1. CASE a \in moved
    <3>1. Idm(world, a, strength) \in States /\ Idm(world, a, strength).valid
      BY <1>3, IdmIs
    <3>2. Valid(s, k, a) \in BOOLEAN
      BY <1>2 DEF Valid, Frame, States
    <3> QED
      BY <1>4, <2>1, <3>1, <3>2 DEF States
  <2>2. CASE a \notin moved /\ a = Ego
    BY <1>2, <2>2
  <2>3. CASE a \notin moved /\ a # Ego
    BY <1>2, <2>3 DEF Frame, Valid
  <2> QED
    BY <2>1, <2>2, <2>3
<1>7. next \in Frame
  BY <1>6 DEF Frame
<1>8. how # "loose" => moved = Masks(s, bundle, k - 1).effective
  BY DEF moved, driver
<1>9. next[Ego] = ego
  BY <1>3, <1>4, <1>6
<1> HIDE DEF next
<1> QED
  BY <1>5, <1>6, <1>7, <1>8, <1>9 DEF ego

\* How a kernel goes from frame to frame.
Scans(frames, s, bundle, condition, how) ==
  frames = [k \in Frames |-> IF k = 0 THEN Source[s].log[0]
                             ELSE NextFrame(s, bundle, condition, how, frames[k - 1], k)]

\* What a kernel returns are the frames of a scan, each of which is a frame.
LEMMA KernelIs ==
  ASSUME NEW s \in DOMAIN Source, NEW bundle, NEW condition, NEW how
  PROVE  \E frames \in [Frames -> Frame] :
           /\ frames[0] = Source[s].log[0]
           /\ \A k \in Steps :
                frames[k] = NextFrame(s, bundle, condition, how, frames[k - 1], k)
           /\ Kernel(s, bundle, condition, how) =
                [frames |-> [k \in Steps |-> frames[k]],
                 masks |-> [k \in Steps |-> Masks(s, bundle, k - 1)]]
<1> DEFINE Following(f, k) == NextFrame(s, bundle, condition, how, f, k)
           next == [k \in 1 .. Transitions |-> [f \in Frame |-> Following(f, k)]]
           scan == CHOOSE f : Scans(f, s, bundle, condition, how)
<1>1. Source[s].log[0] \in Frame /\ Transitions \in Nat
  BY SourceIs, WaymaxAssumption DEF Frames
<1>2. next \in [1 .. Transitions -> [Frame -> Frame]]
  <2>1. ASSUME NEW k \in 1 .. Transitions, NEW f \in Frame PROVE Following(f, k) \in Frame
    BY NextFrameIs DEF Steps
  <2> HIDE DEF Following
  <2> QED
    BY <2>1
<1>3. PICK f : Taken(f, Transitions, Frame, Source[s].log[0], next)
  <2> HIDE DEF next
  <2> QED
    BY <1>1, <1>2, StepByStep
<1>4. Scans(f, s, bundle, condition, how)
  <2>1. ASSUME NEW k \in Frames
        PROVE  f[k] = IF k = 0 THEN Source[s].log[0] ELSE Following(f[k - 1], k)
    <3>1. CASE k = 0
      BY <1>3, <3>1 DEF Taken
    <3>2. CASE k # 0
      <4>1. k \in 1 .. Transitions /\ f[k - 1] \in Frame
        BY <1>1, <1>3, <3>2 DEF Taken, Frames
      <4> HIDE DEF Following
      <4> QED
        BY <1>3, <3>2, <4>1 DEF Taken
    <3> QED
      BY <3>1, <3>2
  <2> QED
    BY <1>3, <2>1 DEF Taken, Scans, Frames
<1>5. Scans(scan, s, bundle, condition, how)
  BY <1>4
<1>6. DOMAIN scan = Frames
  <2> HIDE DEF scan
  <2> QED
    BY <1>5 DEF Scans
<1>7. \A k \in Frames : scan[k] = IF k = 0 THEN Source[s].log[0] ELSE Following(scan[k - 1], k)
  <2> HIDE DEF scan
  <2> QED
    BY <1>5, Zenon DEF Scans
<1> DEFINE Good == {k \in Nat : k \in Frames => scan[k] \in Frame}
<1>8. 0 \in Good
  <2> HIDE DEF scan, Following
  <2> QED
    BY <1>1, <1>7
<1>9. ASSUME NEW k \in Nat, k \in Good PROVE k + 1 \in Good
  <2>1. SUFFICES ASSUME k + 1 \in Frames PROVE scan[k + 1] \in Frame
    OBVIOUS
  <2>2. k \in Frames /\ k + 1 \in Steps /\ k + 1 # 0 /\ k + 1 - 1 = k
    BY <1>1, <2>1 DEF Frames, Steps
  <2>3. scan[k] \in Frame
    BY <1>9, <2>2
  <2>4. scan[k + 1] = Following(scan[k], k + 1)
    <3> HIDE DEF scan, Following
    <3> QED
      BY <1>7, <2>1, <2>2
  <2> HIDE DEF scan
  <2> QED
    <3>1. NextFrame(s, bundle, condition, how, scan[k], k + 1) \in Frame
      BY <2>2, <2>3, NextFrameIs
    <3> QED
      BY <2>4, <3>1
<1>10. \A k \in Frames : scan[k] \in Frame
  <2>1. Nat \subseteq Good
    <3> HIDE DEF Good
    <3> QED
      BY <1>8, <1>9, UpFromZero
  <2> HIDE DEF scan
  <2> QED
    BY <2>1 DEF Frames
<1>11. Kernel(s, bundle, condition, how) =
         [frames |-> [k \in Steps |-> scan[k]], masks |-> [k \in Steps |-> Masks(s, bundle, k - 1)]]
  BY Zenon DEF Kernel, Scans
<1>12. scan \in [Frames -> Frame]
  <2>1. scan = [k \in Frames |-> scan[k]]
    <3> HIDE DEF scan
    <3> QED
      BY <1>5 DEF Scans
  <2> HIDE DEF scan
  <2> QED
    BY <1>10, <2>1
<1>13. scan[0] = Source[s].log[0] /\ \A k \in Steps : scan[k] = Following(scan[k - 1], k)
  <2>1. 0 \in Frames /\ \A k \in Steps : k \in Frames /\ k # 0
    BY <1>1 DEF Frames, Steps
  <2> HIDE DEF scan, Following
  <2> QED
    BY <1>7, <2>1
<1> HIDE DEF scan
<1> QED
  BY <1>11, <1>12, <1>13

-----------------------------------------------------------------------------
(* What honest executions give *)

Honestly == {"none", "harder"}

\* The check of one output refuses no honest one: the same vehicles are asked, the
\* lifecycle is the log's, and who is not moved is where the log or the plan has him.
LEMMA HonestIsCompact ==
  ASSUME NEW s \in DOMAIN Source, Qualifies(s), NEW bundle, NEW condition,
         NEW how \in Honestly
  PROVE  CompactHolds(Kernel(s, bundle, condition, how), s, bundle, condition)
<1> DEFINE out == Kernel(s, bundle, condition, how)
<1>1. PICK frames \in [Frames -> Frame] :
        /\ \A k \in Steps : frames[k] = NextFrame(s, bundle, condition, how, frames[k - 1], k)
        /\ out = [frames |-> [k \in Steps |-> frames[k]],
                  masks |-> [k \in Steps |-> Masks(s, bundle, k - 1)]]
  BY KernelIs
<1> HIDE DEF out
<1>2. \A k \in Steps : out.frames[k] = frames[k] /\ out.masks[k] = Masks(s, bundle, k - 1)
  BY <1>1
<1>3. ASSUME NEW k \in Steps
      PROVE  /\ out.frames[k][Ego] = Plan(s, condition)[k]
             /\ \A a \in Agents \ ({Ego} \union Masks(s, bundle, k - 1).effective) :
                  out.frames[k][a] = Source[s].log[k][a]
             /\ \A a \in Agents : out.frames[k][a].valid = Valid(s, k, a)
  <2>1. k - 1 \in Frames
    BY WaymaxAssumption DEF Steps, Frames
  <2>2. frames[k - 1] \in Frame
    BY <2>1
  <2>3. how # "loose"
    BY DEF Honestly
  <2>4. ASSUME NEW before \in Frame
        PROVE  LET next == NextFrame(s, bundle, condition, how, before, k)
               IN  /\ next[Ego] = Plan(s, condition)[k]
                   /\ \A a \in Agents \ ({Ego} \union Masks(s, bundle, k - 1).effective) :
                        next[a] = Source[s].log[k][a]
                   /\ \A a \in Agents : next[a].valid = Valid(s, k, a)
    <3>1. ASSUME NEW a \in Agents \ ({Ego} \union Masks(s, bundle, k - 1).effective)
          PROVE  NextFrame(s, bundle, condition, how, before, k)[a] = Source[s].log[k][a]
      BY <2>3, NextFrameIs
    <3>2. ASSUME NEW a \in Agents
          PROVE  NextFrame(s, bundle, condition, how, before, k)[a].valid = Valid(s, k, a)
      BY <2>3, NextFrameIs DEF Valid
    <3>3. NextFrame(s, bundle, condition, how, before, k)[Ego] = Plan(s, condition)[k]
      BY NextFrameIs
    <3> QED
      BY <3>1, <3>2, <3>3
  <2>5. out.frames[k] = NextFrame(s, bundle, condition, how, frames[k - 1], k)
    BY <1>1, <1>2
  <2> QED
    BY <2>2, <2>4, <2>5
<1>4. EgoFollows(out, s, condition) /\ RestIsLogged(out, s, bundle)
  BY <1>3 DEF EgoFollows, RestIsLogged
<1>5. bundle = "privileged_idm" => \A k \in Steps : Target \in out.masks[k].effective
  <2>1. SUFFICES ASSUME bundle = "privileged_idm", NEW k \in Steps
                 PROVE  Target \in Masks(s, bundle, k - 1).effective
    BY <1>2
  <2>2. k - 1 \in 0 .. Transitions - 1
    BY WaymaxAssumption DEF Steps
  <2>3. Target \in Requested(s, "privileged_idm", k - 1) /\ Target \notin Source[s].overlapping
    BY <2>2 DEF Qualifies
  <2> QED
    BY <2>1, <2>3 DEF Masks
<1>6. CompactHolds(out, s, bundle, condition)
  BY <1>2, <1>3, <1>4, <1>5 DEF CompactHolds
<1> QED
  BY <1>6 DEF out

\* The check of a pair refuses no honest one: in the logged world nobody is moved, and
\* under IDM everybody has seen the same frame before the first.
LEMMA HonestIsPaired ==
  ASSUME NEW s \in DOMAIN Source, NEW bundle \in Range(Bundles), NEW how \in Honestly
  PROVE  PairHolds(Kernel(s, bundle, "identity", how),
                   Kernel(s, bundle, "primary_brake", how), bundle)
<1> DEFINE base == Kernel(s, bundle, "identity", how)
           treated == Kernel(s, bundle, "primary_brake", how)
<1>1. PICK f \in [Frames -> Frame] :
        /\ f[0] = Source[s].log[0]
        /\ \A k \in Steps : f[k] = NextFrame(s, bundle, "identity", how, f[k - 1], k)
        /\ base = [frames |-> [k \in Steps |-> f[k]],
                   masks |-> [k \in Steps |-> Masks(s, bundle, k - 1)]]
  BY KernelIs
<1>2. PICK g \in [Frames -> Frame] :
        /\ g[0] = Source[s].log[0]
        /\ \A k \in Steps : g[k] = NextFrame(s, bundle, "primary_brake", how, g[k - 1], k)
        /\ treated = [frames |-> [k \in Steps |-> g[k]],
                      masks |-> [k \in Steps |-> Masks(s, bundle, k - 1)]]
  BY KernelIs
<1> HIDE DEF base, treated
<1>3. base.masks = treated.masks
  BY <1>1, <1>2
<1>4. ASSUME NEW k \in Steps, NEW a \in Agents \ {Ego},
             \/ bundle = "logged_world"
             \/ k = 1
      PROVE  f[k][a] = g[k][a]
  <2>1. k - 1 \in Frames
    BY WaymaxAssumption DEF Steps, Frames
  <2>2. f[k - 1] \in Frame /\ g[k - 1] \in Frame /\ how # "loose" /\ how # "early"
    BY <2>1 DEF Honestly
  <2> DEFINE moved == Masks(s, bundle, k - 1).effective
  <2>3. CASE a \notin moved
    <3>1. ASSUME NEW condition, NEW before \in Frame
          PROVE  NextFrame(s, bundle, condition, how, before, k)[a] = Source[s].log[k][a]
      BY <2>2, <2>3, NextFrameIs
    <3> QED
      BY <1>1, <1>2, <2>2, <3>1
  <2>4. CASE a \in moved
    <3>1. bundle # "logged_world"
      BY <2>4, MovedAre
    <3>2. f[k - 1] = g[k - 1]
      BY <1>1, <1>2, <1>4, <3>1
    <3> DEFINE strength == IF how = "harder" THEN 2 ELSE 1
    <3>3. ASSUME NEW condition, NEW before
          PROVE  NextFrame(s, bundle, condition, how, before, k)[a] = Idm(before, a, strength)
      BY <2>2, <2>4 DEF NextFrame
    <3> HIDE DEF strength
    <3> QED
      BY <1>1, <1>2, <3>2, <3>3
  <2> QED
    BY <2>3, <2>4
<1>5. PairHolds(base, treated, bundle)
  <2>1. \A k \in GateFrames(bundle) :
          k \in Steps /\ (bundle = "logged_world" \/ k = 1)
    BY WaymaxAssumption DEF GateFrames, Steps
  <2>2. \A k \in Steps : base.frames[k] = f[k] /\ treated.frames[k] = g[k]
    BY <1>1, <1>2
  <2> QED
    BY <1>3, <1>4, <2>1, <2>2 DEF PairHolds
<1> QED
  BY <1>5 DEF base, treated

\* What an output stands for.
LEMMA OutputIs ==
  ASSUME NEW d \in Outputs
  PROVE  /\ OutputOf[d] = Kernel(d.scene, d.bundle, d.condition, d.how)
         /\ \A k \in Steps : OutputOf[d].frames[k] \in Frame
<1>1. OutputOf = [e \in Outputs |-> Kernel(e.scene, e.bundle, e.condition, e.how)]
  BY DEF OutputOf, Tabulated
<1>2. OutputOf[d] = Kernel(d.scene, d.bundle, d.condition, d.how)
  BY <1>1
<1>3. d.scene \in DOMAIN Source
  BY DEF Outputs
<1>4. \A b, c, h : \A s \in DOMAIN Source : \E frames \in [Frames -> Frame] :
        Kernel(s, b, c, h) = [frames |-> [k \in Steps |-> frames[k]],
                              masks |-> [k \in Steps |-> Masks(s, b, k - 1)]]
  BY KernelIs
<1>5. \A k \in Steps : k \in Frames
  BY DEF Steps, Frames
<1>6. \E frames \in [Frames -> Frame] :
        OutputOf[d] = [frames |-> [k \in Steps |-> frames[k]],
                       masks |-> [k \in Steps |-> Masks(d.scene, d.bundle, k - 1)]]
  <2>1. \E frames \in [Frames -> Frame] :
          Kernel(d.scene, d.bundle, d.condition, d.how) =
            [frames |-> [k \in Steps |-> frames[k]],
             masks |-> [k \in Steps |-> Masks(d.scene, d.bundle, k - 1)]]
    BY <1>3, <1>4
  <2> QED
    BY <1>2, <2>1
<1> QED
  BY <1>2, <1>5, <1>6

-----------------------------------------------------------------------------
(* The selected scenes *)

\* What a recursion starts in and does not leave, it stays in.
LEMMA StaysIn ==
  ASSUME NEW S, NEW n \in Nat, NEW f, f[0] \in S,
         \A k \in 1 .. n : f[k - 1] \in S => f[k] \in S
  PROVE  \A k \in 0 .. n : f[k] \in S
<1> DEFINE Good == {k \in Nat : k <= n => f[k] \in S}
<1>1. 0 \in Good
  OBVIOUS
<1>2. ASSUME NEW k \in Nat, k \in Good PROVE k + 1 \in Good
  <2>1. k + 1 <= n => k + 1 \in 1 .. n /\ k + 1 - 1 = k /\ k <= n
    OBVIOUS
  <2> QED
    BY <1>2, <2>1
<1>3. Nat \subseteq Good
  <2> HIDE DEF Good
  <2> QED
    BY <1>1, <1>2, UpFromZero
<1> QED
  BY <1>3

\* Only scenes that qualify are selected.
LEMMA SelectedIs ==
  ASSUME NEW c \in Cohorts
  PROVE  /\ Selected(c) \in Seq(DOMAIN Source) /\ Len(Selected(c)) <= MaxScenes
         /\ \A k \in 1 .. Len(Selected(c)) : Qualifies(Selected(c)[k])
<1> DEFINE Fit == {q \in Seq(DOMAIN Source) : \A k \in 1 .. Len(q) : Qualifies(q[k])}
           Step(q, k) == IF Qualifies(c[k]) THEN Append(q, c[k]) ELSE q
           Chosen(f) == f = [k \in 0 .. Len(c) |-> IF k = 0 THEN <<>> ELSE Step(f[k - 1], k)]
           steps == [k \in 1 .. Len(c) |-> [q \in Fit |-> Step(q, k)]]
           among == CHOOSE f : Chosen(f)
<1>1. c \in Seq(DOMAIN Source) /\ Len(c) \in Nat
  BY WaymaxAssumption
<1>2. ASSUME NEW k \in 1 .. Len(c), NEW q \in Fit PROVE Step(q, k) \in Fit
  <2>1. CASE ~Qualifies(c[k])
    BY <2>1
  <2>2. CASE Qualifies(c[k])
    <3>1. c[k] \in DOMAIN Source
      BY <1>1
    <3>2. Append(q, c[k]) \in Seq(DOMAIN Source) /\ Len(Append(q, c[k])) = Len(q) + 1
      BY <3>1
    <3>3. \A l \in 1 .. Len(q) + 1 : Append(q, c[k])[l] = IF l <= Len(q) THEN q[l] ELSE c[k]
      BY <3>1
    <3> DEFINE r == Append(q, c[k])
    <3>4. \A l \in 1 .. Len(q) : Qualifies(q[l])
      OBVIOUS
    <3>5. r \in Seq(DOMAIN Source) /\ Len(r) = Len(q) + 1 /\ Len(q) \in Nat
      BY <3>2
    <3> HIDE DEF r
    <3>6. \A l \in 1 .. Len(r) : Qualifies(r[l])
      BY <2>2, <3>3, <3>4, <3>5 DEF r
    <3>7. r \in Fit
      BY <3>5, <3>6
    <3> QED
      BY <2>2, <3>7 DEF r
  <2> QED
    BY <2>1, <2>2
<1>3. <<>> \in Fit
  OBVIOUS
<1> HIDE DEF Fit
<1>4. steps \in [1 .. Len(c) -> [Fit -> Fit]]
  <2> HIDE DEF Step
  <2> QED
    BY <1>2
<1>5. PICK f : Taken(f, Len(c), Fit, <<>>, steps)
  <2> HIDE DEF steps
  <2> QED
    BY <1>1, <1>3, <1>4, StepByStep
<1>6. Chosen(f)
  <2>1. ASSUME NEW k \in 0 .. Len(c)
        PROVE  f[k] = IF k = 0 THEN <<>> ELSE Step(f[k - 1], k)
    <3>1. CASE k = 0
      BY <1>5, <3>1 DEF Taken
    <3>2. CASE k # 0
      <4>1. k \in 1 .. Len(c) /\ f[k - 1] \in Fit
        BY <1>1, <1>5, <3>2 DEF Taken
      <4> HIDE DEF Step
      <4> QED
        BY <1>5, <3>2, <4>1 DEF Taken
    <3> QED
      BY <3>1, <3>2
  <2> HIDE DEF Step
  <2> QED
    BY <1>5, <2>1 DEF Taken
<1>7. Chosen(among)
  <2> HIDE DEF Chosen
  <2> QED
    BY <1>6
<1>8. \A k \in 0 .. Len(c) : among[k] = IF k = 0 THEN <<>> ELSE Step(among[k - 1], k)
  <2> HIDE DEF among, Step
  <2> QED
    BY <1>7, Zenon
<1>9. among[Len(c)] \in Fit
  <2>1. among[0] \in Fit
    <3> HIDE DEF among, Step
    <3> QED
      BY <1>1, <1>3, <1>8
  <2>2. ASSUME NEW k \in 1 .. Len(c), among[k - 1] \in Fit PROVE among[k] \in Fit
    <3>1. k \in 0 .. Len(c) /\ k # 0
      BY <1>1
    <3> HIDE DEF among, Step
    <3> QED
      BY <1>2, <1>8, <2>2, <3>1
  <2> HIDE DEF among
  <2>3. \A k \in 0 .. Len(c) : among[k] \in Fit
    BY <1>1, <2>1, <2>2, StaysIn
  <2> QED
    BY <1>1, <2>3
<1> DEFINE qualified == among[Len(c)]
<1>10. Selected(c) = CASE Len(qualified) < MinScenes -> <<>>
                       [] Len(qualified) > MaxScenes -> SubSeq(qualified, 1, MaxScenes)
                       [] OTHER -> qualified
  BY Zenon DEF Selected
<1> HIDE DEF among
<1>11. qualified \in Seq(DOMAIN Source) /\ \A k \in 1 .. Len(qualified) : Qualifies(qualified[k])
  BY <1>9 DEF Fit
<1> HIDE DEF qualified
<1>12. MaxScenes \in Nat /\ MinScenes \in Nat /\ MinScenes <= MaxScenes
  BY WaymaxAssumption
<1>13. CASE Len(qualified) < MinScenes
  <2>1. Len(qualified) \in Nat /\ ~(Len(qualified) > MaxScenes)
    BY <1>11, <1>12, <1>13
  <2>2. Selected(c) = <<>>
    BY <1>10, <1>13, <2>1
  <2> QED
    BY <1>12, <2>2
<1>14. CASE ~(Len(qualified) < MinScenes) /\ Len(qualified) > MaxScenes
  BY <1>10, <1>11, <1>12, <1>14
<1>15. CASE ~(Len(qualified) < MinScenes) /\ ~(Len(qualified) > MaxScenes)
  <2>1. Len(qualified) <= MaxScenes
    BY <1>11, <1>12, <1>15
  <2> QED
    BY <1>10, <1>11, <1>15, <2>1
<1> QED
  BY <1>13, <1>14, <1>15

\* The scenes of a run, of which there are at most MaxScenes.
LEMMA SelectionIs ==
  ASSUME cohort \in Cohorts
  PROVE  /\ Selection \in Seq(DOMAIN Source) /\ Len(Selection) <= MaxScenes
         /\ \A k \in 1 .. Len(Selection) : Qualifies(Selection[k])
<1>1. SelectionOf = [c \in Cohorts |-> Selected(c)]
  BY DEF SelectionOf, Tabulated
<1>2. Selection = Selected(cohort)
  BY <1>1 DEF Selection
<1> QED
  BY <1>2, SelectedIs

-----------------------------------------------------------------------------
(* The order of the calls *)

PassNames == {"eager_pass_1", "eager_pass_2", "jit_eager", "jit_compiled"}
CallSpace == [position : Nat \ {0}, bundle : Range(Bundles), condition : Range(Conditions),
              pass : PassNames]

\* The calls of the scenes at some positions.
CallsAt(positions) ==
  {call \in CallSpace : call.position \in positions /\ call.pass \in Range(Passes(call.position))}

\* What comes just before a call that needs an earlier one.
Before(call) ==
  CASE call.pass = "eager_pass_1" ->
         Is(call, "identity", IF call.position = 1 THEN "jit_compiled" ELSE "eager_pass_2")
    [] call.pass = "eager_pass_2" -> Is(call, call.condition, "eager_pass_1")
    [] call.pass = "jit_eager"    -> Is(call, call.condition, "eager_pass_2")
    [] OTHER                      -> Is(call, call.condition, "jit_eager")

Opens(call) == call.pass = "eager_pass_1" /\ call.condition = "identity"

\* Every call of these positions once, and each behind the one that it needs.
InOrder(q, positions) ==
  /\ q \in Seq(CallSpace)
  /\ \A k \in 1 .. Len(q) : q[k] \in CallsAt(positions)
  /\ \A call \in CallsAt(positions) : \E k \in 1 .. Len(q) : q[k] = call
  /\ \A k, l \in 1 .. Len(q) : q[k] = q[l] => k = l
  /\ \A k \in 1 .. Len(q) : ~Opens(q[k]) => k > 1 /\ q[k - 1] = Before(q[k])

\* The calls of some scenes and then those of others.
LEMMA Joined ==
  ASSUME NEW P, NEW R, P \intersect R = {}, NEW q, NEW r, InOrder(q, P), InOrder(r, R)
  PROVE  InOrder(q \o r, P \union R)
<1> DEFINE s == q \o r
<1>1. q \in Seq(CallSpace) /\ r \in Seq(CallSpace) /\ Len(q) \in Nat /\ Len(r) \in Nat
  BY DEF InOrder
<1>2. s \in Seq(CallSpace) /\ Len(s) = Len(q) + Len(r)
  BY <1>1
<1>3. /\ \A k \in 1 .. Len(q) : s[k] = q[k]
      /\ \A k \in 1 .. Len(r) : s[Len(q) + k] = r[k]
  BY <1>1
<1>4. \A k \in 1 .. Len(s) : \/ k \in 1 .. Len(q)
                             \/ k - Len(q) \in 1 .. Len(r) /\ k = Len(q) + (k - Len(q))
  BY <1>1, <1>2
<1>5. /\ \A k \in 1 .. Len(q) : k \in 1 .. Len(s)
      /\ \A k \in 1 .. Len(r) : Len(q) + k \in 1 .. Len(s)
  BY <1>1, <1>2
<1> HIDE DEF s
<1>6. ASSUME NEW k \in 1 .. Len(s) PROVE s[k] \in CallsAt(P \union R)
  <2>1. CASE k \in 1 .. Len(q)
    BY <1>3, <2>1 DEF InOrder, CallsAt
  <2>2. CASE k - Len(q) \in 1 .. Len(r) /\ k = Len(q) + (k - Len(q))
    <3>1. s[k] = r[k - Len(q)]
      BY <1>3, <2>2
    <3> QED
      BY <2>2, <3>1 DEF InOrder, CallsAt
  <2> QED
    BY <1>4, <2>1, <2>2
<1>7. ASSUME NEW call \in CallsAt(P \union R) PROVE \E k \in 1 .. Len(s) : s[k] = call
  <2>1. CASE call \in CallsAt(P)
    <3>1. PICK k \in 1 .. Len(q) : q[k] = call
      BY <2>1 DEF InOrder
    <3> QED
      BY <1>3, <1>5, <3>1
  <2>2. CASE call \in CallsAt(R)
    <3>1. PICK k \in 1 .. Len(r) : r[k] = call
      BY <2>2 DEF InOrder
    <3> QED
      BY <1>3, <1>5, <3>1
  <2> QED
    BY <2>1, <2>2 DEF CallsAt
<1>8. \A k \in 1 .. Len(q), l \in 1 .. Len(r) : q[k] # r[l]
  BY DEF InOrder, CallsAt
<1>9. ASSUME NEW k \in 1 .. Len(s), NEW l \in 1 .. Len(s), s[k] = s[l] PROVE k = l
  <2>1. CASE k \in 1 .. Len(q) /\ l \in 1 .. Len(q)
    BY <1>3, <1>9, <2>1 DEF InOrder
  <2>2. CASE k - Len(q) \in 1 .. Len(r) /\ l - Len(q) \in 1 .. Len(r)
    <3>1. s[k] = r[k - Len(q)] /\ s[l] = r[l - Len(q)]
      BY <1>1, <1>3, <2>2
    <3>2. k - Len(q) = l - Len(q)
      BY <1>9, <2>2, <3>1 DEF InOrder
    <3> QED
      BY <1>1, <3>2
  <2>3. CASE k \in 1 .. Len(q) /\ l - Len(q) \in 1 .. Len(r)
    <3>1. s[k] = q[k] /\ s[l] = r[l - Len(q)]
      BY <1>1, <1>3, <2>3
    <3> QED
      BY <1>8, <1>9, <2>3, <3>1
  <2>4. CASE k - Len(q) \in 1 .. Len(r) /\ l \in 1 .. Len(q)
    <3>1. s[k] = r[k - Len(q)] /\ s[l] = q[l]
      BY <1>1, <1>3, <2>4
    <3> QED
      BY <1>8, <1>9, <2>4, <3>1
  <2> QED
    BY <1>4, <2>1, <2>2, <2>3, <2>4
<1>10. ASSUME NEW k \in 1 .. Len(s), ~Opens(s[k]) PROVE k > 1 /\ s[k - 1] = Before(s[k])
  <2>1. CASE k \in 1 .. Len(q)
    <3>1. s[k] = q[k]
      BY <1>3, <2>1
    <3>2. k > 1 /\ q[k - 1] = Before(q[k])
      BY <1>10, <2>1, <3>1 DEF InOrder
    <3>3. k - 1 \in 1 .. Len(q)
      BY <1>1, <2>1, <3>2
    <3> QED
      BY <1>3, <3>1, <3>2, <3>3
  <2>2. CASE k - Len(q) \in 1 .. Len(r) /\ k = Len(q) + (k - Len(q))
    <3> DEFINE l == k - Len(q)
    <3>1. s[k] = r[l] /\ l \in 1 .. Len(r) /\ l \in Int
      BY <1>1, <1>3, <2>2
    <3>2. l > 1 /\ r[l - 1] = Before(r[l])
      BY <1>10, <3>1 DEF InOrder
    <3>3. l - 1 \in 1 .. Len(r) /\ Len(q) + (l - 1) = k - 1 /\ k > 1
      BY <1>1, <3>1, <3>2
    <3>4. s[k - 1] = r[l - 1]
      BY <1>3, <3>3
    <3> QED
      BY <3>1, <3>2, <3>3, <3>4
  <2> QED
    BY <1>4, <2>1, <2>2
<1>11. InOrder(s, P \union R)
  BY <1>2, <1>6, <1>7, <1>9, <1>10 DEF InOrder
<1> QED
  BY <1>11 DEF s

\* How many passes a scene has, and which.
LEMMA PassesAre ==
  ASSUME NEW n \in Nat \ {0}
  PROVE  LET N == Len(Passes(n)) IN
         /\ N = IF n = 1 THEN 4 ELSE 2
         /\ DOMAIN Passes(n) = 1 .. N
         /\ \A p \in 1 .. N :
              Passes(n)[p] = CASE p = 1 -> "eager_pass_1" [] p = 2 -> "eager_pass_2"
                               [] p = 3 -> "jit_eager"    [] OTHER -> "jit_compiled"
<1>1. CASE n = 1
  BY <1>1 DEF Passes
<1>2. CASE n # 1
  BY <1>2 DEF Passes
<1> QED
  BY <1>1, <1>2

\* The calls of one cell and then those of the next ...
LEMMA OneAfterAnother ==
  ASSUME NEW S, NEW q \in Seq(S), NEW r \in Seq(S)
  PROVE  /\ q \o r \in Seq(S) /\ Len(q \o r) = Len(q) + Len(r)
         /\ \A p \in 1 .. Len(q) : (q \o r)[p] = q[p]
         /\ \A p \in 1 .. Len(r) : (q \o r)[Len(q) + p] = r[p]
OBVIOUS

AreFour(all, q, r, s, t, N) ==
  /\ all \in Seq(CallSpace) /\ Len(all) = 4 * N
  /\ \A p \in 1 .. N : /\ all[p] = q[p] /\ all[N + p] = r[p]
                       /\ all[2 * N + p] = s[p] /\ all[3 * N + p] = t[p]

\* ... and of all four cells.
LEMMA FourAfterEachOther ==
  ASSUME NEW q \in Seq(CallSpace), NEW r \in Seq(CallSpace), NEW s \in Seq(CallSpace),
         NEW t \in Seq(CallSpace),
         NEW N \in Nat, Len(q) = N, Len(r) = N, Len(s) = N, Len(t) = N
  PROVE  AreFour(q \o r \o s \o t, q, r, s, t, N)
<1>1. /\ q \o r \in Seq(CallSpace) /\ Len(q \o r) = 2 * N
      /\ \A p \in 1 .. N : (q \o r)[p] = q[p] /\ (q \o r)[N + p] = r[p]
  OBVIOUS
<1>2. PICK u : u = q \o r
  OBVIOUS
<1>3. u \in Seq(CallSpace) /\ Len(u) = 2 * N
  BY <1>1, <1>2
<1>4. /\ u \o s \in Seq(CallSpace) /\ Len(u \o s) = 3 * N
      /\ \A p \in 1 .. 2 * N : (u \o s)[p] = u[p]
      /\ \A p \in 1 .. N : (u \o s)[2 * N + p] = s[p]
  <2>1. u \o s \in Seq(CallSpace) /\ Len(u \o s) = Len(u) + Len(s)
    BY <1>3, OneAfterAnother
  <2>2. \A p \in 1 .. Len(u) : (u \o s)[p] = u[p]
    BY <1>3, OneAfterAnother
  <2>3. \A p \in 1 .. Len(s) : (u \o s)[Len(u) + p] = s[p]
    BY <1>3, OneAfterAnother
  <2> QED
    BY <1>3, <2>1, <2>2, <2>3
<1>5. PICK v : v = u \o s
  OBVIOUS
<1>6. v \in Seq(CallSpace) /\ Len(v) = 3 * N
  BY <1>4, <1>5
<1>7. /\ v \o t \in Seq(CallSpace) /\ Len(v \o t) = 4 * N
      /\ \A p \in 1 .. 3 * N : (v \o t)[p] = v[p]
      /\ \A p \in 1 .. N : (v \o t)[3 * N + p] = t[p]
  <2>1. v \o t \in Seq(CallSpace) /\ Len(v \o t) = Len(v) + Len(t)
    BY <1>6, OneAfterAnother
  <2>2. \A p \in 1 .. Len(v) : (v \o t)[p] = v[p]
    BY <1>6, OneAfterAnother
  <2>3. \A p \in 1 .. Len(t) : (v \o t)[Len(v) + p] = t[p]
    BY <1>6, OneAfterAnother
  <2> QED
    BY <1>6, <2>1, <2>2, <2>3
<1>8. \A p \in 1 .. N : p \in 1 .. 2 * N /\ N + p \in 1 .. 2 * N /\ p \in 1 .. 3 * N
                        /\ N + p \in 1 .. 3 * N /\ 2 * N + p \in 1 .. 3 * N
  OBVIOUS
<1> QED
  BY <1>1, <1>2, <1>4, <1>5, <1>7, <1>8 DEF AreFour

\* Which call is where in a scene.
CallAt(n, N, k) ==
  CASE k <= N     -> Call(n, 1, 1, k)
    [] k > N /\ k <= 2 * N -> Call(n, 1, 2, k - N)
    [] k > 2 * N /\ k <= 3 * N -> Call(n, 2, 1, k - 2 * N)
    [] OTHER      -> Call(n, 2, 2, k - 3 * N)

\* Where in a scene a call is.
LEMMA SceneCallsAt ==
  ASSUME NEW n \in Nat \ {0}, NEW N, N = Len(Passes(n))
  PROVE  /\ SceneCalls(n) \in Seq(CallSpace) /\ Len(SceneCalls(n)) = 4 * N
         /\ \A k \in 1 .. 4 * N : SceneCalls(n)[k] = CallAt(n, N, k)
<1> DEFINE Cell(b, c) == [p \in DOMAIN Passes(n) |-> Call(n, b, c, p)]
           calls == Cell(1, 1) \o Cell(1, 2) \o Cell(2, 1) \o Cell(2, 2)
<1>1. SceneCalls(n) = calls
  BY DEF SceneCalls
<1>2. N \in Nat /\ DOMAIN Passes(n) = 1 .. N /\ \A p \in 1 .. N : Passes(n)[p] \in PassNames
  BY PassesAre DEF PassNames
<1>3. ASSUME NEW b \in 1 .. 2, NEW c \in 1 .. 2
      PROVE  Cell(b, c) \in Seq(CallSpace) /\ Len(Cell(b, c)) = N
             /\ \A p \in 1 .. N : Cell(b, c)[p] = Call(n, b, c, p)
  <2>1. Bundles[b] \in Range(Bundles) /\ Conditions[c] \in Range(Conditions)
    BY DEF Range, Bundles, Conditions
  <2>2. \A p \in 1 .. N : Call(n, b, c, p) \in CallSpace
    BY <1>2, <2>1 DEF Call, CallSpace
  <2> QED
    BY <1>2, <2>2
<1> HIDE DEF Cell
<1>4. /\ calls \in Seq(CallSpace) /\ Len(calls) = 4 * N
      /\ \A p \in 1 .. N :
           /\ calls[p] = Call(n, 1, 1, p) /\ calls[N + p] = Call(n, 1, 2, p)
           /\ calls[2 * N + p] = Call(n, 2, 1, p) /\ calls[3 * N + p] = Call(n, 2, 2, p)
  <2> DEFINE one == Cell(1, 1)
             two == Cell(1, 2)
             three == Cell(2, 1)
             four == Cell(2, 2)
  <2>1. /\ {one, two, three, four} \subseteq Seq(CallSpace)
        /\ Len(one) = N /\ Len(two) = N /\ Len(three) = N /\ Len(four) = N
        /\ \A p \in 1 .. N : /\ one[p] = Call(n, 1, 1, p) /\ two[p] = Call(n, 1, 2, p)
                             /\ three[p] = Call(n, 2, 1, p) /\ four[p] = Call(n, 2, 2, p)
    BY <1>3
  <2> DEFINE seq == one \o two \o three \o four
  <2>2. AreFour(seq, one, two, three, four, N)
    <3>1. /\ one \in Seq(CallSpace) /\ two \in Seq(CallSpace)
          /\ three \in Seq(CallSpace) /\ four \in Seq(CallSpace)
      BY <2>1
    <3> HIDE DEF one, two, three, four
    <3> QED
      BY <1>2, <2>1, <3>1, FourAfterEachOther
  <2> HIDE DEF one, two, three, four
  <2> QED
    BY <2>1, <2>2 DEF AreFour, one, two, three, four
<1> HIDE DEF calls
<1>5. ASSUME NEW k \in 1 .. 4 * N PROVE calls[k] = CallAt(n, N, k)
  <2>1. CASE k <= N
    BY <1>2, <1>4, <2>1 DEF CallAt
  <2>2. CASE k > N /\ k <= 2 * N
    <3>1. k - N \in 1 .. N /\ N + (k - N) = k
      BY <1>2, <2>2
    <3> QED
      BY <1>2, <1>4, <2>2, <3>1 DEF CallAt
  <2>3. CASE k > 2 * N /\ k <= 3 * N
    <3>1. k - 2 * N \in 1 .. N /\ 2 * N + (k - 2 * N) = k
      BY <1>2, <2>3
    <3> QED
      BY <1>2, <1>4, <2>3, <3>1 DEF CallAt
  <2>4. CASE k > 3 * N
    <3>1. k - 3 * N \in 1 .. N /\ 3 * N + (k - 3 * N) = k
      BY <1>2, <2>4
    <3> QED
      BY <1>2, <1>4, <2>4, <3>1 DEF CallAt
  <2> QED
    BY <1>2, <2>1, <2>2, <2>3, <2>4
<1> QED
  BY <1>1, <1>4, <1>5

\* The same call under another condition or in another pass.
LEMMA IsSameBut ==
  ASSUME NEW n, NEW b, NEW c, NEW p, NEW condition, NEW pass
  PROVE  Is([position |-> n, bundle |-> b, condition |-> c, pass |-> p], condition, pass)
           = [position |-> n, bundle |-> b, condition |-> condition, pass |-> pass]
<1> DEFINE call == [position |-> n, bundle |-> b, condition |-> c, pass |-> p]
           other == [call EXCEPT !.condition = condition]
<1>1. other = [position |-> n, bundle |-> b, condition |-> condition, pass |-> p]
  OBVIOUS
<1>2. Is(call, condition, pass) = [other EXCEPT !.pass = pass]
  BY DEF Is
<1> HIDE DEF call, other
<1>3. [other EXCEPT !.pass = pass] =
        [position |-> n, bundle |-> b, condition |-> condition, pass |-> pass]
  BY <1>1
<1> QED
  BY <1>2, <1>3 DEF call

\* The calls of one scene.
LEMMA SceneCallsAre ==
  ASSUME NEW n \in Nat \ {0}
  PROVE  InOrder(SceneCalls(n), {n})
<1> DEFINE q == SceneCalls(n)
           N == Len(Passes(n))
<1>1. /\ q \in Seq(CallSpace) /\ Len(q) = 4 * N
      /\ \A k \in 1 .. 4 * N : q[k] = CallAt(n, N, k)
  BY SceneCallsAt
<1>2. /\ N = IF n = 1 THEN 4 ELSE 2
      /\ DOMAIN Passes(n) = 1 .. N
      /\ \A p \in 1 .. N :
           Passes(n)[p] = CASE p = 1 -> "eager_pass_1" [] p = 2 -> "eager_pass_2"
                            [] p = 3 -> "jit_eager"    [] OTHER -> "jit_compiled"
  BY PassesAre
<1> HIDE DEF q, N
<1>3. N \in {2, 4} /\ (N = 4 <=> n = 1)
  BY <1>2
\* Where a call is.
<1>4. \A k \in 1 .. 4 * N : \E b, c \in 1 .. 2, p \in 1 .. N :
        /\ q[k] = Call(n, b, c, p)
        /\ k = (IF b = 1 THEN 0 ELSE 2 * N) + (IF c = 1 THEN 0 ELSE N) + p
  <2>1. SUFFICES ASSUME NEW k \in 1 .. 4 * N
                 PROVE  \E b, c \in 1 .. 2, p \in 1 .. N :
                          /\ CallAt(n, N, k) = Call(n, b, c, p)
                          /\ k = (IF b = 1 THEN 0 ELSE 2 * N) + (IF c = 1 THEN 0 ELSE N) + p
    BY <1>1
  <2>2. CASE k <= N
    <3>1. CallAt(n, N, k) = Call(n, 1, 1, k) /\ k \in 1 .. N /\ k = 0 + 0 + k
      BY <1>3, <2>2 DEF CallAt
    <3> QED
      BY <3>1
  <2>3. CASE k > N /\ k <= 2 * N
    <3>1. CallAt(n, N, k) = Call(n, 1, 2, k - N) /\ k - N \in 1 .. N /\ k = 0 + N + (k - N)
      BY <1>3, <2>3 DEF CallAt
    <3> QED
      BY <3>1
  <2>4. CASE k > 2 * N /\ k <= 3 * N
    <3>1. CallAt(n, N, k) = Call(n, 2, 1, k - 2 * N) /\ k - 2 * N \in 1 .. N
          /\ k = 2 * N + 0 + (k - 2 * N)
      BY <1>3, <2>4 DEF CallAt
    <3> QED
      BY <3>1
  <2>5. CASE k > 3 * N
    <3>1. CallAt(n, N, k) = Call(n, 2, 2, k - 3 * N) /\ k - 3 * N \in 1 .. N
          /\ k = 2 * N + N + (k - 3 * N)
      BY <1>3, <2>5 DEF CallAt
    <3> QED
      BY <3>1
  <2> QED
    BY <1>3, <2>2, <2>3, <2>4, <2>5
\* And the other way round.
<1>5. ASSUME NEW b \in 1 .. 2, NEW c \in 1 .. 2, NEW p \in 1 .. N
      PROVE  LET k == (IF b = 1 THEN 0 ELSE 2 * N) + (IF c = 1 THEN 0 ELSE N) + p
             IN  k \in 1 .. 4 * N /\ q[k] = Call(n, b, c, p)
  <2> DEFINE k == (IF b = 1 THEN 0 ELSE 2 * N) + (IF c = 1 THEN 0 ELSE N) + p
  <2>1. k \in 1 .. 4 * N
    BY <1>3
  <2>2. CallAt(n, N, k) = Call(n, b, c, p)
    <3>1. CASE b = 1 /\ c = 1
      BY <1>3, <3>1 DEF CallAt
    <3>2. CASE b = 1 /\ c = 2
      <4>1. k = N + p /\ k > N /\ k <= 2 * N /\ k - N = p
        BY <1>3, <3>2
      <4> QED
        BY <1>3, <3>2, <4>1 DEF CallAt
    <3>3. CASE b = 2 /\ c = 1
      <4>1. k = 2 * N + p /\ k > 2 * N /\ k <= 3 * N /\ k - 2 * N = p
        BY <1>3, <3>3
      <4> QED
        BY <1>3, <3>3, <4>1 DEF CallAt
    <3>4. CASE b = 2 /\ c = 2
      <4>1. k = 3 * N + p /\ k > 3 * N /\ k - 3 * N = p
        BY <1>3, <3>4
      <4> QED
        BY <1>3, <3>4, <4>1 DEF CallAt
    <3> QED
      BY <3>1, <3>2, <3>3, <3>4
  <2> HIDE DEF k
  <2>3. q[k] = Call(n, b, c, p)
    BY <1>1, <2>1, <2>2
  <2> QED
    BY <2>1, <2>3 DEF k
\* What a call says of its place.
<1>6. /\ Bundles[1] = "logged_world" /\ Bundles[2] = "privileged_idm"
      /\ Conditions[1] = "identity" /\ Conditions[2] = "primary_brake"
      /\ Range(Bundles) = {"logged_world", "privileged_idm"}
      /\ Range(Conditions) = {"identity", "primary_brake"}
  BY DEF Bundles, Conditions, Range
<1>7. Range(Passes(n)) = {Passes(n)[p] : p \in 1 .. N}
  BY <1>2 DEF Range
<1>8. \A k \in 1 .. Len(q) : q[k] \in CallsAt({n})
  <2>1. SUFFICES ASSUME NEW k \in 1 .. 4 * N PROVE q[k] \in CallsAt({n})
    BY <1>1
  <2>2. PICK b \in 1 .. 2, c \in 1 .. 2, p \in 1 .. N : q[k] = Call(n, b, c, p)
    BY <1>4
  <2>3. q[k] \in CallSpace
    BY <1>1
  <2>4. q[k].position = n /\ q[k].pass = Passes(n)[p]
    BY <2>2 DEF Call
  <2> QED
    BY <1>7, <2>3, <2>4 DEF CallsAt
<1>9. ASSUME NEW call \in CallsAt({n}) PROVE \E k \in 1 .. Len(q) : q[k] = call
  <2>1. PICK p \in 1 .. N : call.pass = Passes(n)[p]
    BY <1>7 DEF CallsAt
  <2>2. PICK b \in 1 .. 2 : call.bundle = Bundles[b]
    BY <1>6 DEF CallsAt, CallSpace
  <2>3. PICK c \in 1 .. 2 : call.condition = Conditions[c]
    BY <1>6 DEF CallsAt, CallSpace
  <2>4. call = Call(n, b, c, p)
    BY <2>1, <2>2, <2>3 DEF CallsAt, CallSpace, Call
  <2> QED
    BY <1>1, <1>5, <2>4
<1>10. \A b, d, c, e \in 1 .. 2, p, o \in 1 .. N :
         Call(n, b, c, p) = Call(n, d, e, o) => b = d /\ c = e /\ p = o
  <2>1. \A p, o \in 1 .. N : Passes(n)[p] = Passes(n)[o] => p = o
    BY <1>2, <1>3
  <2>2. \A b, d \in 1 .. 2 : Bundles[b] = Bundles[d] => b = d
    BY <1>6
  <2>3. \A b, d \in 1 .. 2 : Conditions[b] = Conditions[d] => b = d
    BY <1>6
  <2> QED
    BY <2>1, <2>2, <2>3 DEF Call
<1>11. ASSUME NEW k \in 1 .. Len(q), NEW l \in 1 .. Len(q), q[k] = q[l] PROVE k = l
  <2>1. PICK b \in 1 .. 2, c \in 1 .. 2, p \in 1 .. N :
          /\ q[k] = Call(n, b, c, p)
          /\ k = (IF b = 1 THEN 0 ELSE 2 * N) + (IF c = 1 THEN 0 ELSE N) + p
    BY <1>1, <1>4
  <2>2. PICK d \in 1 .. 2, e \in 1 .. 2, o \in 1 .. N :
          /\ q[l] = Call(n, d, e, o)
          /\ l = (IF d = 1 THEN 0 ELSE 2 * N) + (IF e = 1 THEN 0 ELSE N) + o
    BY <1>1, <1>4
  <2>3. b = d /\ c = e /\ p = o
    <3>1. Call(n, b, c, p) = Call(n, d, e, o)
      BY <1>11, <2>1, <2>2
    <3> QED
      BY <1>10, <3>1
  <2> QED
    BY <2>1, <2>2, <2>3
<1>12. ASSUME NEW k \in 1 .. Len(q), ~Opens(q[k]) PROVE k > 1 /\ q[k - 1] = Before(q[k])
  <2>1. PICK b \in 1 .. 2, c \in 1 .. 2, p \in 1 .. N :
          /\ q[k] = Call(n, b, c, p)
          /\ k = (IF b = 1 THEN 0 ELSE 2 * N) + (IF c = 1 THEN 0 ELSE N) + p
    BY <1>1, <1>4
  <2>2. q[k] = [position |-> n, bundle |-> Bundles[b], condition |-> Conditions[c],
                pass |-> Passes(n)[p]]
    BY <2>1 DEF Call
  <2>3. CASE p = 1
    <3>1. c = 2
      BY <1>2, <1>3, <1>6, <1>12, <2>2, <2>3 DEF Opens
    <3>2. k - 1 = (IF b = 1 THEN 0 ELSE 2 * N) + 0 + N /\ k > 1
      BY <1>3, <2>1, <2>3, <3>1
    <3>3. q[k - 1] = Call(n, b, 1, N)
      BY <1>3, <1>5, <3>2
    <3>4. Passes(n)[N] = IF n = 1 THEN "jit_compiled" ELSE "eager_pass_2"
      BY <1>2, <1>3
    <3>5. Before(q[k]) = Call(n, b, 1, N)
      <4>1. q[k] = [position |-> n, bundle |-> Bundles[b], condition |-> "primary_brake",
                    pass |-> "eager_pass_1"]
        BY <1>2, <1>3, <1>6, <2>2, <2>3, <3>1
      <4>2. Before(q[k]) = Is(q[k], "identity", IF n = 1 THEN "jit_compiled" ELSE "eager_pass_2")
        BY <4>1 DEF Before
      <4>3. Call(n, b, 1, N) = [position |-> n, bundle |-> Bundles[b], condition |-> "identity",
                                pass |-> IF n = 1 THEN "jit_compiled" ELSE "eager_pass_2"]
        BY <1>6, <3>4 DEF Call
      <4> QED
        BY <4>1, <4>2, <4>3, IsSameBut
    <3> QED
      BY <3>2, <3>3, <3>5
  <2>4. CASE p # 1
    <3>1. p - 1 \in 1 .. N /\ k > 1
          /\ k - 1 = (IF b = 1 THEN 0 ELSE 2 * N) + (IF c = 1 THEN 0 ELSE N) + (p - 1)
      BY <1>3, <2>1, <2>4
    <3>2. q[k - 1] = Call(n, b, c, p - 1)
      BY <1>5, <3>1
    <3>3. Before(q[k]) = Call(n, b, c, p - 1)
      <4>1. p \in {2, 3, 4} /\ p - 1 \in 1 .. N
        BY <1>3, <2>4
      <4> QED
        <5>1. CASE p = 2
          <6>1. Passes(n)[2] = "eager_pass_2" /\ Passes(n)[1] = "eager_pass_1"
            BY <1>2, <4>1, <5>1
          <6> QED
            <7>1. Before(q[k]) = Is(q[k], Conditions[c], "eager_pass_1")
              BY <2>2, <5>1, <6>1 DEF Before
            <7>2. Is(q[k], Conditions[c], "eager_pass_1") = Call(n, b, c, p - 1)
              BY <2>2, <5>1, <6>1, IsSameBut DEF Call
            <7> QED
              BY <7>1, <7>2
        <5>2. CASE p = 3
          <6>1. Passes(n)[3] = "jit_eager" /\ Passes(n)[2] = "eager_pass_2"
            BY <1>2, <4>1, <5>2
          <6> QED
            <7>1. Before(q[k]) = Is(q[k], Conditions[c], "eager_pass_2")
              BY <2>2, <5>2, <6>1 DEF Before
            <7>2. Is(q[k], Conditions[c], "eager_pass_2") = Call(n, b, c, p - 1)
              BY <2>2, <5>2, <6>1, IsSameBut DEF Call
            <7> QED
              BY <7>1, <7>2
        <5>3. CASE p = 4
          <6>1. Passes(n)[4] = "jit_compiled" /\ Passes(n)[3] = "jit_eager"
            BY <1>2, <4>1, <5>3
          <6> QED
            <7>1. Before(q[k]) = Is(q[k], Conditions[c], "jit_eager")
              BY <2>2, <5>3, <6>1 DEF Before
            <7>2. Is(q[k], Conditions[c], "jit_eager") = Call(n, b, c, p - 1)
              BY <2>2, <5>3, <6>1, IsSameBut DEF Call
            <7> QED
              BY <7>1, <7>2
        <5> QED
          BY <4>1, <5>1, <5>2, <5>3
    <3> QED
      BY <3>1, <3>2, <3>3
  <2> QED
    BY <2>3, <2>4
<1>13. InOrder(q, {n})
  BY <1>1, <1>8, <1>9, <1>11, <1>12 DEF InOrder
<1> QED
  BY <1>13 DEF q

\* The calls of the first scenes.
LEMMA CallsAre ==
  ASSUME NEW n \in 0 .. MaxScenes
  PROVE  InOrder(CallsOf[n], 1 .. n)
<1> DEFINE S == Seq(CallSpace)
           Step(q, k) == q \o SceneCalls(k)
           Are(f) == f = [k \in 0 .. MaxScenes |-> IF k = 0 THEN <<>> ELSE Step(f[k - 1], k)]
           steps == [k \in 1 .. MaxScenes |-> [q \in S |-> Step(q, k)]]
           calls == CHOOSE f : Are(f)
<1>1. MaxScenes \in Nat
  BY WaymaxAssumption
<1>2. ASSUME NEW k \in 1 .. MaxScenes PROVE InOrder(SceneCalls(k), {k})
  BY SceneCallsAre
<1>3. ASSUME NEW k \in 1 .. MaxScenes, NEW q \in S PROVE Step(q, k) \in S
  <2>1. SceneCalls(k) \in S
    BY <1>2 DEF InOrder
  <2> QED
    BY <2>1
<1>4. <<>> \in S
  OBVIOUS
<1> HIDE DEF S
<1>5. steps \in [1 .. MaxScenes -> [S -> S]]
  <2> HIDE DEF Step
  <2> QED
    BY <1>3
<1>6. PICK f : Taken(f, MaxScenes, S, <<>>, steps)
  <2> HIDE DEF steps
  <2> QED
    BY <1>1, <1>4, <1>5, StepByStep
<1>7. Are(f)
  <2>1. ASSUME NEW k \in 0 .. MaxScenes
        PROVE  f[k] = IF k = 0 THEN <<>> ELSE Step(f[k - 1], k)
    <3>1. CASE k = 0
      BY <1>6, <3>1 DEF Taken
    <3>2. CASE k # 0
      <4>1. k \in 1 .. MaxScenes /\ f[k - 1] \in S
        BY <1>1, <1>6, <3>2 DEF Taken
      <4> HIDE DEF Step
      <4> QED
        BY <1>6, <3>2, <4>1 DEF Taken
    <3> QED
      BY <3>1, <3>2
  <2> HIDE DEF Step
  <2> QED
    BY <1>6, <2>1 DEF Taken
<1>8. Are(calls)
  <2> HIDE DEF Are
  <2> QED
    BY <1>7
<1>9. \A k \in 0 .. MaxScenes : calls[k] = IF k = 0 THEN <<>> ELSE Step(calls[k - 1], k)
  <2> HIDE DEF calls, Step
  <2> QED
    BY <1>8, Zenon
<1>10. CallsOf = calls
  BY Zenon DEF CallsOf, Tabulated
<1> HIDE DEF calls
<1> DEFINE Good == {k \in Nat : k <= MaxScenes => InOrder(calls[k], 1 .. k)}
<1>11. 0 \in Good
  <2>1. calls[0] = <<>> /\ 1 .. 0 = {}
    BY <1>1, <1>9
  <2>2. InOrder(<<>>, {})
    BY DEF InOrder, CallsAt
  <2> QED
    BY <2>1, <2>2
<1>12. ASSUME NEW k \in Nat, k \in Good PROVE k + 1 \in Good
  <2>1. SUFFICES ASSUME k + 1 <= MaxScenes PROVE InOrder(calls[k + 1], 1 .. k + 1)
    OBVIOUS
  <2>2. k + 1 \in 1 .. MaxScenes /\ k + 1 \in 0 .. MaxScenes /\ k + 1 # 0 /\ k + 1 - 1 = k
    BY <1>1, <2>1
  <2>3. InOrder(calls[k], 1 .. k)
    BY <1>1, <1>12, <2>1
  <2>4. calls[k + 1] = calls[k] \o SceneCalls(k + 1)
    <3>1. PICK m \in 1 .. MaxScenes : m = k + 1
      BY <2>2
    <3>2. calls[m] = IF m = 0 THEN <<>> ELSE Step(calls[m - 1], m)
      <4> HIDE DEF Step
      <4>1. m \in 0 .. MaxScenes
        BY <2>2, <3>1
      <4> QED
        BY <1>9, <4>1
    <3>3. m # 0 /\ m - 1 = k
      BY <2>2, <3>1
    <3> QED
      BY <3>1, <3>2, <3>3
  <2>5. InOrder(SceneCalls(k + 1), {k + 1})
    BY <1>2, <2>2
  <2>6. (1 .. k) \intersect {k + 1} = {} /\ (1 .. k) \union {k + 1} = 1 .. k + 1
    OBVIOUS
  <2>7. InOrder(calls[k] \o SceneCalls(k + 1), (1 .. k) \union {k + 1})
    BY <2>3, <2>5, <2>6, Joined
  <2> QED
    BY <2>4, <2>6, <2>7
<1>13. n \in Good
  <2> HIDE DEF Good
  <2> QED
    BY <1>1, <1>11, <1>12, UpFromZero
<1> QED
  BY <1>1, <1>10, <1>13

\* What the calls of a run are: those of the scenes that it takes.
LEMMA CallsOfRun ==
  ASSUME cohort \in Cohorts, NEW r
  PROVE  /\ Positions(r) \in 0 .. Len(Selection)
         /\ InOrder(Calls(r), 1 .. Positions(r))
<1>1. Len(Selection) \in Nat /\ Len(Selection) <= MaxScenes /\ MaxScenes \in Nat
      /\ MinScenes \in Nat
  BY SelectionIs, WaymaxAssumption
<1>2. Min({MinScenes, Len(Selection)}) \in 0 .. Len(Selection)
  <2> DEFINE m == IF MinScenes < Len(Selection) THEN MinScenes ELSE Len(Selection)
  <2>1. m \in {MinScenes, Len(Selection)} /\ \A x \in {MinScenes, Len(Selection)} : m <= x
    BY <1>1
  <2>2. PICK y \in {MinScenes, Len(Selection)} :
          /\ y = Min({MinScenes, Len(Selection)})
          /\ \A x \in {MinScenes, Len(Selection)} : y <= x
    BY <2>1 DEF Min
  <2> QED
    BY <1>1, <2>2
<1>3. Positions(r) \in 0 .. Len(Selection)
  BY <1>1, <1>2 DEF Positions
<1> QED
  BY <1>1, <1>3, CallsAre DEF Calls

\* A call and its fields.
LEMMA CallIs ==
  ASSUME NEW call \in CallSpace, NEW condition, NEW pass
  PROVE  /\ call = [position |-> call.position, bundle |-> call.bundle,
                    condition |-> call.condition, pass |-> call.pass]
         /\ Is(call, condition, pass) = [position |-> call.position, bundle |-> call.bundle,
                                         condition |-> condition, pass |-> pass]
<1>1. call = [position |-> call.position, bundle |-> call.bundle,
              condition |-> call.condition, pass |-> call.pass]
  BY DEF CallSpace
<1>2. \A n, b, c, p :
        Is([position |-> n, bundle |-> b, condition |-> c, pass |-> p], condition, pass)
          = [position |-> n, bundle |-> b, condition |-> condition, pass |-> pass]
  BY IsSameBut
<1>3. Is([position |-> call.position, bundle |-> call.bundle,
          condition |-> call.condition, pass |-> call.pass], condition, pass)
        = [position |-> call.position, bundle |-> call.bundle, condition |-> condition,
           pass |-> pass]
  BY <1>2, Zenon
<1> QED
  BY <1>1, <1>3, Zenon

\* The passes of a cell by name, and what comes last.
LEMMA LastPass ==
  ASSUME NEW n \in Nat \ {0}
  PROVE  /\ Last(Passes(n)) = IF n = 1 THEN "jit_compiled" ELSE "eager_pass_2"
         /\ Range(Passes(n)) = IF n = 1 THEN PassNames ELSE {"eager_pass_1", "eager_pass_2"}
         /\ Last(Conditions) = "primary_brake"
<1>1. Last(Conditions) = "primary_brake"
  BY DEF Last, Conditions
<1>2. CASE n = 1
  BY <1>1, <1>2 DEF Last, Passes, Range, PassNames
<1>3. CASE n # 1
  BY <1>1, <1>3 DEF Last, Passes, Range, PassNames
<1> QED
  BY <1>2, <1>3

CallOf(n, b, c, p) == [position |-> n, bundle |-> b, condition |-> c, pass |-> p]

\* What a call needs has come just before it.
LEMMA JustBefore ==
  ASSUME NEW P, NEW q, InOrder(q, P), NEW k \in 1 .. Len(q), NEW n, NEW b, NEW c, NEW p,
         q[k] = CallOf(n, b, c, p),
         p # "eager_pass_1" \/ c # "identity"
  PROVE  /\ k - 1 \in 1 .. Len(q)
         /\ p = "eager_pass_2" =>
              q[k - 1] = CallOf(n, b, c, "eager_pass_1")
         /\ p = "jit_eager" =>
              q[k - 1] = CallOf(n, b, c, "eager_pass_2")
         /\ p = "jit_compiled" =>
              q[k - 1] = CallOf(n, b, c, "jit_eager")
         /\ p = "eager_pass_1" =>
              q[k - 1] = CallOf(n, b, "identity", IF n = 1 THEN "jit_compiled" ELSE "eager_pass_2")
<1>1. Len(q) \in Nat
  BY DEF InOrder
<1>2. ~Opens(q[k])
  BY DEF Opens, CallOf
<1>3. k > 1 /\ q[k - 1] = Before(q[k])
  BY <1>2 DEF InOrder
<1>4. k - 1 \in 1 .. Len(q)
  BY <1>1, <1>3
<1>5. \A condition, pass : Is(q[k], condition, pass) =
        CallOf(n, b, condition, pass)
  BY IsSameBut DEF CallOf
<1>6. /\ q[k].condition = c /\ q[k].pass = p /\ q[k].position = n
  BY DEF CallOf
<1>7. /\ p = "eager_pass_2" => Before(q[k]) = Is(q[k], c, "eager_pass_1")
      /\ p = "jit_eager" => Before(q[k]) = Is(q[k], c, "eager_pass_2")
      /\ p = "jit_compiled" => Before(q[k]) = Is(q[k], c, "jit_eager")
      /\ p = "eager_pass_1" =>
           Before(q[k]) = Is(q[k], "identity", IF n = 1 THEN "jit_compiled" ELSE "eager_pass_2")
  BY <1>6 DEF Before
<1> QED
  BY <1>3, <1>4, <1>5, <1>7

\* The last call of a cell comes behind its other passes.
LEMMA CellsInOrder ==
  ASSUME NEW P, NEW q, InOrder(q, P), NEW k \in 1 .. Len(q), NEW n, NEW b, NEW c,
         q[k] = CallOf(n, b, c, IF n = 1 THEN "jit_compiled" ELSE "eager_pass_2")
  PROVE  \A p \in {"eager_pass_1", "eager_pass_2"} \union (IF n = 1 THEN PassNames ELSE {}) :
           \E j \in 1 .. k :
             q[j] = CallOf(n, b, c, p)
<1>1. Len(q) \in Nat
  BY DEF InOrder
<1>2. \A j \in 1 .. Len(q), p \in PassNames \ {"eager_pass_1"} :
        q[j] = CallOf(n, b, c, p) =>
          /\ j - 1 \in 1 .. Len(q)
          /\ q[j - 1] = CallOf(n, b, c, CASE p = "eager_pass_2" -> "eager_pass_1"
                                         [] p = "jit_eager" -> "eager_pass_2"
                                         [] OTHER -> "jit_eager")
  <2>1. SUFFICES ASSUME NEW j \in 1 .. Len(q), NEW p \in PassNames \ {"eager_pass_1"},
                        q[j] = CallOf(n, b, c, p)
                 PROVE  /\ j - 1 \in 1 .. Len(q)
                        /\ q[j - 1] = CallOf(n, b, c, CASE p = "eager_pass_2" -> "eager_pass_1"
                                                       [] p = "jit_eager" -> "eager_pass_2"
                                                       [] OTHER -> "jit_eager")
    OBVIOUS
  <2>2. /\ j - 1 \in 1 .. Len(q)
        /\ p = "eager_pass_2" => q[j - 1] = CallOf(n, b, c, "eager_pass_1")
        /\ p = "jit_eager" => q[j - 1] = CallOf(n, b, c, "eager_pass_2")
        /\ p = "jit_compiled" => q[j - 1] = CallOf(n, b, c, "jit_eager")
    BY <2>1, JustBefore
  <2> QED
    BY <2>2 DEF PassNames
<1>3. q[k] = CallOf(n, b, c, IF n = 1 THEN "jit_compiled" ELSE "eager_pass_2")
  OBVIOUS
<1>4. CASE n # 1
  <2>1. /\ q[k] = CallOf(n, b, c, "eager_pass_2")
        /\ k - 1 \in 1 .. k /\ q[k - 1] = CallOf(n, b, c, "eager_pass_1")
    BY <1>1, <1>2, <1>3, <1>4 DEF PassNames
  <2>2. \A p \in {"eager_pass_1", "eager_pass_2"} : \E j \in 1 .. k : q[j] = CallOf(n, b, c, p)
    BY <2>1
  <2> QED
    BY <1>4, <2>2
<1>5. CASE n = 1
  <2>1. /\ q[k] = CallOf(n, b, c, "jit_compiled")
        /\ k - 1 \in 1 .. Len(q) /\ q[k - 1] = CallOf(n, b, c, "jit_eager")
    BY <1>2, <1>3, <1>5 DEF PassNames
  <2>2. (k - 1) - 1 \in 1 .. Len(q) /\ q[(k - 1) - 1] = CallOf(n, b, c, "eager_pass_2")
    BY <1>2, <2>1 DEF PassNames
  <2>3. ((k - 1) - 1) - 1 \in 1 .. Len(q) /\ q[((k - 1) - 1) - 1] = CallOf(n, b, c, "eager_pass_1")
    BY <1>2, <2>2 DEF PassNames
  <2>4. {k, k - 1, (k - 1) - 1, ((k - 1) - 1) - 1} \subseteq 1 .. k
    BY <1>1, <2>1, <2>2, <2>3
  <2>5. \A p \in PassNames : \E j \in 1 .. k : q[j] = CallOf(n, b, c, p)
    BY <2>1, <2>2, <2>3, <2>4 DEF PassNames
  <2> QED
    BY <1>5, <2>5 DEF PassNames
<1> QED
  BY <1>4, <1>5

\* A call in the same place as q[k] has been made by then.
CalledBy(q, k, c, p) == \E j \in 1 .. k : q[j] = Is(q[k], c, p)

\* When a cell is done, every pass of it has been called.
LEMMA PassesCalled ==
  ASSUME NEW P \in SUBSET (Nat \ {0}), NEW q, InOrder(q, P), NEW k \in 1 .. Len(q),
         CellIsDone(q[k])
  PROVE  \A p \in Range(Passes(q[k].position)) :
           CalledBy(q, k, q[k].condition, p)
<1>1. q[k] \in CallSpace /\ q[k].position \in Nat \ {0}
  <2>1. q \in Seq(CallSpace)
    BY DEF InOrder
  <2>2. q[k] \in CallSpace
    BY <2>1
  <2> QED
    BY <2>2 DEF CallSpace
<1>2. q[k].pass = IF q[k].position = 1 THEN "jit_compiled" ELSE "eager_pass_2"
  BY <1>1, LastPass DEF CellIsDone
<1>3. Range(Passes(q[k].position)) = IF q[k].position = 1 THEN PassNames
                                     ELSE {"eager_pass_1", "eager_pass_2"}
  BY <1>1, LastPass
<1>4. PICK n, b, c : n = q[k].position /\ b = q[k].bundle /\ c = q[k].condition
  OBVIOUS
<1>5. q[k] = CallOf(n, b, c, IF n = 1 THEN "jit_compiled" ELSE "eager_pass_2")
  BY <1>1, <1>2, <1>4, CallIs DEF CallOf
<1>6. \A p \in {"eager_pass_1", "eager_pass_2"} \union (IF n = 1 THEN PassNames ELSE {}) :
        \E j \in 1 .. k : q[j] = CallOf(n, b, c, p)
  BY <1>5, CellsInOrder
<1>7. \A p : Is(q[k], q[k].condition, p)
               = CallOf(n, b, c, p)
  BY <1>1, <1>4, CallIs DEF CallOf
<1> QED
  BY <1>3, <1>4, <1>6, <1>7 DEF CalledBy

\* When a pair is done, the first pass of both conditions has been called.
LEMMA PairsCalled ==
  ASSUME NEW P \in SUBSET (Nat \ {0}), NEW q, InOrder(q, P), NEW k \in 1 .. Len(q),
         PairIsDone(q[k])
  PROVE  \A c \in {"identity", "primary_brake"} :
           CalledBy(q, k, c, "eager_pass_1")
<1>1. q[k] \in CallSpace /\ q[k].position \in Nat \ {0} /\ Len(q) \in Nat
  <2>1. q \in Seq(CallSpace)
    BY DEF InOrder
  <2>2. q[k] \in CallSpace /\ Len(q) \in Nat
    BY <2>1
  <2> QED
    BY <2>2 DEF CallSpace
<1>2. /\ q[k].pass = IF q[k].position = 1 THEN "jit_compiled" ELSE "eager_pass_2"
      /\ q[k].condition = "primary_brake"
  BY <1>1, LastPass DEF CellIsDone, PairIsDone
<1>3. PICK n, b : n = q[k].position /\ b = q[k].bundle
  OBVIOUS
<1>4. q[k] = CallOf(n, b, "primary_brake", IF n = 1 THEN "jit_compiled" ELSE "eager_pass_2")
  BY <1>1, <1>2, <1>3, CallIs DEF CallOf
<1>5. ASSUME NEW j \in 1 .. Len(q), NEW c,
             q[j] = CallOf(n, b, c, IF n = 1 THEN "jit_compiled" ELSE "eager_pass_2")
      PROVE  \E l \in 1 .. j : q[l] = CallOf(n, b, c, "eager_pass_1")
  BY <1>5, CellsInOrder
<1>6. PICK l \in 1 .. k : q[l] = CallOf(n, b, "primary_brake", "eager_pass_1")
  <2> QED
    BY <1>4, <1>5
<1>7. l \in 1 .. Len(q)
  BY <1>1
<1>8. /\ l - 1 \in 1 .. Len(q)
      /\ q[l - 1] = CallOf(n, b, "identity", IF n = 1 THEN "jit_compiled" ELSE "eager_pass_2")
  BY <1>6, <1>7, JustBefore
<1>9. PICK m \in 1 .. l - 1 : q[m] = CallOf(n, b, "identity", "eager_pass_1")
  <2> QED
    BY <1>5, <1>8
<1>10. m \in 1 .. k
  BY <1>1
<1>11. \A c : Is(q[k], c, "eager_pass_1") = CallOf(n, b, c, "eager_pass_1")
  BY <1>1, <1>3, CallIs DEF CallOf
<1> QED
  BY <1>6, <1>9, <1>10, <1>11 DEF CalledBy

\* Every pass of a cell is among the calls.
LEMMA PassesAmong ==
  ASSUME NEW P, NEW q, InOrder(q, P), NEW k \in 1 .. Len(q),
         NEW p \in Range(Passes(q[k].position)), p \in PassNames
  PROVE  \E j \in 1 .. Len(q) : q[j] = Is(q[k], q[k].condition, p)
<1>1. q[k] \in CallSpace /\ q[k].position \in P
  BY DEF InOrder, CallsAt
<1>2. Is(q[k], q[k].condition, p) = [position |-> q[k].position, bundle |-> q[k].bundle,
                                     condition |-> q[k].condition, pass |-> p]
  BY <1>1, CallIs
<1>3. Is(q[k], q[k].condition, p) \in CallsAt(P)
  BY <1>1, <1>2 DEF CallSpace, CallsAt
<1> QED
  BY <1>3 DEF InOrder

-----------------------------------------------------------------------------
(* The invariant of an execution *)

\* Before a run opens the executors there is nothing.
Untouched ==
  /\ done = 0 /\ frozen = NoFunction /\ evidence = NoEvidence
  /\ heap = <<>> /\ buffer = 0 /\ checked = FALSE /\ priors = <<>>
  /\ computed = NoFunction /\ kernels = {} /\ touched = {} /\ faults = 0

\* What has been kept of the calls q, and the buffer that is being looked at: none, a new
\* one, or an old one again.
Shape(q) ==
  /\ evidence = NoEvidence /\ done \in 0 .. Len(q)
  /\ heap \in Seq(Outputs) /\ buffer \in Nat /\ checked \in BOOLEAN
  /\ \/ buffer = 0 /\ Len(heap) = done /\ ~checked
     \/ buffer = done + 1 /\ Len(heap) = done + 1 /\ done < Len(q)
     \/ buffer \in 1 .. done /\ Len(heap) = done /\ ~checked /\ faults > 0
  /\ priors \in Seq(Nat) /\ Range(priors) = 1 .. IF checked THEN done + 1 ELSE done
  /\ DOMAIN frozen = {q[k] : k \in 1 .. done}
  /\ DOMAIN computed = {q[k] : k \in 1 .. Len(heap)}
  /\ \A k \in 1 .. done : frozen[q[k]] \in Outputs

\* A call of which everything is honest ...
Right(call, k) ==
  /\ heap[k] = Honest(call) /\ computed[call] = Honest(call)
  /\ k <= done => frozen[call] = Honest(call)

\* ... and one of which either what was computed is, or the buffer and its copy tell what
\* was computed.
Told(call, k) ==
  \/ computed[call] = Honest(call)
  \/ /\ computed[call] = heap[k]
     /\ k <= done => frozen[call] = heap[k]

\* Of one misdeed at most one call shows anything.
Truth(q) ==
  /\ faults = 0 =>
       /\ touched = {}
       /\ \A k \in 1 .. Len(heap) : q[k].pass = "jit_eager" => JitKey(q[k]) \in kernels
       /\ \A key \in kernels : \E k \in 1 .. Len(heap) :
            q[k].pass = "jit_eager" /\ key = JitKey(q[k])
  /\ faults <= 1 =>
       \E odd \in 0 .. Len(heap) : \A k \in 1 .. Len(heap) :
         Told(q[k], k) /\ (faults = 0 \/ k # odd => Right(q[k], k))

\* What has been compared of the calls that are done.
Compared(r, q) ==
  \A k \in 1 .. done :
    /\ r = "pilot" /\ CellIsDone(q[k]) => PassesAgree(frozen, q[k])
    /\ PairIsDone(q[k]) =>
         PairHolds(PairOf(frozen, q[k]).base, PairOf(frozen, q[k]).treated, q[k].bundle)

Executes(r) == \E q \in {Calls(r)} : Shape(q) /\ Truth(q) /\ Compared(r, q)

\* A run that executes has what it should, nothing happens before one does, and what has
\* been issued stays with its run.
ExecutionInv ==
  /\ cohort \in Cohorts /\ quirk \in Quirks /\ faults \in Nat
  /\ Runs \subseteq {"official", "pilot"}
  /\ \A r \in Runs : at[r] = "running" => Executes(r)
  /\ (\A r \in Runs : at[r] \notin {"running", "raised", "issued"}) => Untouched
  /\ evidence # NoEvidence => \E r \in Runs : at[r] = "issued"
  /\ HonestRunIsIssued
  /\ EvidenceIsWitnessed

\* What q is, if it is the calls of a run.
AreCalls(q, P) ==
  /\ InOrder(q, P) /\ P \in SUBSET (Nat \ {0}) /\ Len(q) \in Nat
  /\ \A k \in 1 .. Len(q) :
       /\ q[k] \in CallSpace
       /\ Scene(q[k]) \in DOMAIN Source /\ Qualifies(Scene(q[k]))
       /\ Scene(q[k]) \in Range(Selection)
  /\ \A k, l \in 1 .. Len(q) : q[k] = q[l] => k = l

\* The calls of a run are in order, and of scenes that qualify.
LEMMA CallsOfRunAre ==
  ASSUME cohort \in Cohorts, NEW r, NEW q, q = Calls(r)
  PROVE  AreCalls(q, 1 .. Positions(r))
<1> DEFINE P == 1 .. Positions(r)
<1>1. InOrder(q, P) /\ Positions(r) \in 0 .. Len(Selection)
  BY CallsOfRun
<1>2. /\ Selection \in Seq(DOMAIN Source)
      /\ \A k \in 1 .. Len(Selection) : Qualifies(Selection[k])
  BY SelectionIs
<1>3. Len(Selection) \in Nat /\ P \subseteq 1 .. Len(Selection)
  BY <1>1, <1>2
<1>4. /\ q \in Seq(CallSpace) /\ Len(q) \in Nat
      /\ \A k \in 1 .. Len(q) : q[k] \in CallsAt(P)
      /\ \A k, l \in 1 .. Len(q) : q[k] = q[l] => k = l
  BY <1>1 DEF InOrder
<1>5. ASSUME NEW k \in 1 .. Len(q)
      PROVE  /\ q[k] \in CallSpace
             /\ Scene(q[k]) \in DOMAIN Source /\ Qualifies(Scene(q[k]))
             /\ Scene(q[k]) \in Range(Selection)
  <2>1. q[k] \in CallSpace /\ q[k].position \in P
    BY <1>4 DEF CallsAt
  <2>2. q[k].position \in 1 .. Len(Selection)
    BY <1>3, <2>1
  <2> QED
    BY <1>2, <2>1, <2>2 DEF Scene, Range
<1>6. P \in SUBSET (Nat \ {0})
  BY <1>3
<1> HIDE DEF P
<1>7. AreCalls(q, P)
  BY <1>1, <1>4, <1>5, <1>6 DEF AreCalls
<1> QED
  BY <1>7 DEF P

\* Nothing but the fields of a call tells what is honest.
LEMMA HonestIs ==
  ASSUME NEW call \in CallSpace, NEW c, NEW p
  PROVE  /\ Honest(Is(call, c, p)) = [scene |-> Scene(call), bundle |-> call.bundle,
                                      condition |-> c, how |-> quirk]
         /\ Honest(call) = [scene |-> Scene(call), bundle |-> call.bundle,
                            condition |-> call.condition, how |-> quirk]
         /\ Scene(Is(call, c, p)) = Scene(call)
<1>1. Is(call, c, p) = [position |-> call.position, bundle |-> call.bundle,
                        condition |-> c, pass |-> p]
  BY CallIs
<1>2. /\ Is(call, c, p).position = call.position /\ Is(call, c, p).bundle = call.bundle
      /\ Is(call, c, p).condition = c
  BY <1>1
<1> QED
  BY <1>2 DEF Honest, Scene

\* An honest output is an output, and stands for its kernel.
LEMMA HonestOutput ==
  ASSUME NEW q, NEW P, AreCalls(q, P), quirk \in Quirks, NEW k \in 1 .. Len(q)
  PROVE  /\ Honest(q[k]) \in Outputs
         /\ OutputOf[Honest(q[k])] =
              Kernel(Scene(q[k]), q[k].bundle, q[k].condition, quirk)
<1>1. q[k] \in CallSpace /\ Scene(q[k]) \in DOMAIN Source
  BY DEF AreCalls
<1>2. Honest(q[k]) = [scene |-> Scene(q[k]), bundle |-> q[k].bundle,
                      condition |-> q[k].condition, how |-> quirk]
  BY DEF Honest
<1>3. Honest(q[k]) \in Outputs
  BY <1>1, <1>2 DEF CallSpace, Outputs
<1>4. OutputOf[Honest(q[k])] = Kernel(Honest(q[k]).scene, Honest(q[k]).bundle,
                                      Honest(q[k]).condition, Honest(q[k]).how)
  BY <1>3, OutputIs
<1> QED
  BY <1>2, <1>3, <1>4

\* A copy more.
LEMMA WithIs ==
  ASSUME NEW kept, NEW call, NEW output
  PROVE  /\ DOMAIN With(kept, call, output) = DOMAIN kept \union {call}
         /\ \A c \in DOMAIN kept : With(kept, call, output)[c] = kept[c]
         /\ call \notin DOMAIN kept => With(kept, call, output)[call] = output
BY DEF With

\* With the same cohort and the same quirk, the calls and what is honest stay the same.
LEMMA SameCalls ==
  ASSUME UNCHANGED <<cohort, quirk>>
  PROVE  /\ Selection' = Selection
         /\ \A r : Calls(r)' = Calls(r)
         /\ \A call : Scene(call)' = Scene(call) /\ Honest(call)' = Honest(call)
<1>1. Selection' = Selection
  BY DEF Selection
<1>2. ASSUME NEW r PROVE Calls(r)' = Calls(r)
  BY <1>1 DEF Calls, Positions
<1> QED
  BY <1>1, <1>2 DEF Scene, Honest

\* The comparison of copies looks at no other copies.
LEMMA SameComparison ==
  ASSUME NEW q, NEW P, AreCalls(q, P), NEW n \in 0 .. Len(q), NEW copies, NEW other,
         \A k \in 1 .. n : copies[q[k]] = other[q[k]], NEW k \in 1 .. n
  PROVE  /\ CellIsDone(q[k]) /\ PassesAgree(copies, q[k]) => PassesAgree(other, q[k])
         /\ PairIsDone(q[k]) => PairOf(copies, q[k]) = PairOf(other, q[k])
<1>1. k \in 1 .. Len(q) /\ InOrder(q, P) /\ P \in SUBSET (Nat \ {0}) /\ q[k] \in CallSpace
      /\ \A j \in 1 .. k : j \in 1 .. n
  BY DEF AreCalls
<1>2. ASSUME CellIsDone(q[k]), PassesAgree(copies, q[k])
      PROVE  PassesAgree(other, q[k])
  <2>1. \A p \in Range(Passes(q[k].position)) :
          CalledBy(q, k, q[k].condition, p)
    <3>1. CellIsDone(q[k]) /\ k \in 1 .. Len(q) /\ InOrder(q, P) /\ P \in SUBSET (Nat \ {0})
      BY <1>1, <1>2
    <3> QED
      BY <3>1, PassesCalled
  <2>2. \A p \in Range(Passes(q[k].position)) :
          copies[Is(q[k], q[k].condition, p)] = other[Is(q[k], q[k].condition, p)]
    BY <1>1, <2>1 DEF CalledBy
  <2>3. "eager_pass_1" \in Range(Passes(q[k].position))
    <3>1. q[k].position \in Nat \ {0}
      BY <1>1 DEF CallSpace
    <3> QED
      BY <3>1, LastPass DEF PassNames
  <2> QED
    BY <1>2, <2>2, <2>3 DEF PassesAgree
<1>3. ASSUME PairIsDone(q[k]) PROVE PairOf(copies, q[k]) = PairOf(other, q[k])
  <2>1. \A c \in {"identity", "primary_brake"} :
          CalledBy(q, k, c, "eager_pass_1")
    BY <1>1, <1>3, PairsCalled
  <2>2. \A c \in {"identity", "primary_brake"} :
          copies[Is(q[k], c, "eager_pass_1")] = other[Is(q[k], c, "eager_pass_1")]
    BY <1>1, <2>1 DEF CalledBy
  <2> QED
    BY <2>2 DEF PairOf
<1> QED
  BY <1>2, <1>3

-----------------------------------------------------------------------------
(* One execution *)

Context(q, P) ==
  /\ cohort \in Cohorts /\ quirk \in Quirks /\ faults \in Nat
  /\ AreCalls(q, P) /\ Shape(q) /\ Truth(q)

\* Before the executor is called, every buffer is of a call that is done.
LEMMA AllDone ==
  ASSUME NEW q, Shape(q), buffer = 0
  PROVE  Len(heap) = done /\ ~checked /\ heap \in Seq(Outputs) /\ done \in 0 .. Len(q)
BY DEF Shape

\* Honest executors meet no key that they should not know, and miss none.
LEMMA NoJitRaises ==
  ASSUME NEW q, NEW P, Context(q, P), buffer = 0, done < Len(q), faults = 0
  PROVE  ~JitRaises(q[done + 1])
<1>1. /\ done \in 0 .. Len(q) /\ Len(q) \in Nat /\ Len(heap) = done
      /\ InOrder(q, P) /\ P \in SUBSET (Nat \ {0})
  BY AllDone DEF Context, AreCalls
<1>2. PICK k : k = done + 1
  OBVIOUS
<1>3. k \in 1 .. Len(q) /\ k - 1 = done
  BY <1>1, <1>2
<1>4. /\ \A j \in 1 .. done : q[j].pass = "jit_eager" => JitKey(q[j]) \in kernels
      /\ \A key \in kernels : \E j \in 1 .. done : q[j].pass = "jit_eager" /\ key = JitKey(q[j])
  BY <1>1 DEF Context, Truth
<1>5. \A j \in 1 .. Len(q) : q[j] \in CallSpace /\ q[j].pass \in Range(Passes(q[j].position))
  BY <1>1 DEF InOrder, CallsAt
<1>6. \A j \in 1 .. Len(q) : q[j].pass = "jit_eager" => q[j].position = 1
  <2>1. SUFFICES ASSUME NEW j \in 1 .. Len(q), q[j].pass = "jit_eager" PROVE q[j].position = 1
    OBVIOUS
  <2>2. q[j].position \in Nat \ {0} /\ q[j].pass \in Range(Passes(q[j].position))
    BY <1>5 DEF CallSpace
  <2> QED
    BY <2>1, <2>2, LastPass
<1>7. ~(q[k].pass = "jit_eager" /\ JitKey(q[k]) \in kernels)
  <2>1. SUFFICES ASSUME q[k].pass = "jit_eager", JitKey(q[k]) \in kernels PROVE FALSE
    OBVIOUS
  <2>2. PICK j \in 1 .. done : q[j].pass = "jit_eager" /\ JitKey(q[k]) = JitKey(q[j])
    BY <1>4, <2>1
  <2>3. j \in 1 .. Len(q) /\ j # k
    BY <1>1, <1>3
  <2>4. q[j] = [position |-> 1, bundle |-> q[j].bundle, condition |-> q[j].condition,
                pass |-> "jit_eager"]
    BY <1>5, <1>6, <2>2, <2>3, CallIs
  <2>5. q[k] = [position |-> 1, bundle |-> q[k].bundle, condition |-> q[k].condition,
                pass |-> "jit_eager"]
    BY <1>3, <1>5, <1>6, <2>1, CallIs
  <2>6. q[j].bundle = q[k].bundle /\ q[j].condition = q[k].condition
    BY <2>2 DEF JitKey
  <2>7. q[j] = q[k]
    BY <2>4, <2>5, <2>6
  <2> QED
    BY <1>3, <2>3, <2>7 DEF Context, AreCalls
<1>8. ~(q[k].pass = "jit_compiled" /\ JitKey(q[k]) \notin kernels)
  <2>1. SUFFICES ASSUME q[k].pass = "jit_compiled" PROVE JitKey(q[k]) \in kernels
    OBVIOUS
  <2>2. PICK n, b, c : n = q[k].position /\ b = q[k].bundle /\ c = q[k].condition
    OBVIOUS
  <2>3. q[k] = CallOf(n, b, c, "jit_compiled")
    BY <1>3, <1>5, <2>1, <2>2, CallIs DEF CallOf
  <2>4. k - 1 \in 1 .. Len(q) /\ q[k - 1] = CallOf(n, b, c, "jit_eager")
    BY <1>1, <1>3, <2>3, JustBefore
  <2>5. k - 1 \in 1 .. done /\ q[k - 1].pass = "jit_eager" /\ JitKey(q[k - 1]) = <<b, c>>
    BY <1>3, <2>4 DEF CallOf, JitKey
  <2>6. JitKey(q[k]) = <<b, c>>
    BY <2>2 DEF JitKey
  <2> QED
    BY <1>4, <2>5, <2>6
<1> QED
  BY <1>2, <1>7, <1>8 DEF JitRaises

\* What a buffer may hold instead is an output, too.
LEMMA AlteredAre ==
  ASSUME NEW output \in Outputs
  PROVE  Altered(output) \subseteq Outputs
<1>1. \A c \in Range(Conditions) : [output EXCEPT !.condition = c] \in Outputs
  BY DEF Outputs
<1>2. \A how \in Quirks : [output EXCEPT !.how = how] \in Outputs
  BY DEF Outputs
<1> QED
  BY <1>1, <1>2 DEF Altered

\* Something is computed into a new buffer.
LEMMA ComputesShape ==
  ASSUME NEW q, NEW P, Context(q, P), buffer = 0, done < Len(q), NEW output \in Outputs,
         Computes(q[done + 1], output),
         UNCHANGED <<checked, priors, done, frozen, evidence>>
  PROVE  /\ Shape(q)'
         /\ Len(heap)' = done + 1 /\ heap'[done + 1] = output /\ computed'[q[done + 1]] = output
         /\ \A k \in 1 .. done : heap'[k] = heap[k] /\ computed'[q[k]] = computed[q[k]]
<1>1. /\ done \in 0 .. Len(q) /\ Len(q) \in Nat /\ Len(heap) = done /\ ~checked
      /\ heap \in Seq(Outputs)
      /\ \A k, l \in 1 .. Len(q) : q[k] = q[l] => k = l
  BY AllDone DEF Context, AreCalls
<1>2. /\ heap' = Append(heap, output) /\ buffer' = done + 1
      /\ computed' = With(computed, q[done + 1], output)
  BY <1>1 DEF Computes
<1>3. /\ heap' \in Seq(Outputs) /\ Len(heap)' = done + 1 /\ heap'[done + 1] = output
      /\ \A k \in 1 .. done : heap'[k] = heap[k]
  BY <1>1, <1>2
<1>4. DOMAIN computed = {q[k] : k \in 1 .. done}
  BY <1>1 DEF Context, Shape
<1>5. q[done + 1] \notin DOMAIN computed
  BY <1>1, <1>4
<1>6. /\ DOMAIN computed' = DOMAIN computed \union {q[done + 1]}
      /\ \A c \in DOMAIN computed : computed'[c] = computed[c]
      /\ computed'[q[done + 1]] = output
  <2>1. PICK c : c = q[done + 1]
    OBVIOUS
  <2>2. computed' = With(computed, c, output) /\ c \notin DOMAIN computed
    BY <1>2, <1>5, <2>1
  <2>3. /\ DOMAIN With(computed, c, output) = DOMAIN computed \union {c}
        /\ \A d \in DOMAIN computed : With(computed, c, output)[d] = computed[d]
        /\ c \notin DOMAIN computed => With(computed, c, output)[c] = output
    BY WithIs, Zenon
  <2> QED
    BY <2>1, <2>2, <2>3
<1>7. DOMAIN computed' = {q[k] : k \in 1 .. done + 1}
  BY <1>1, <1>4, <1>6
<1>8. \A k \in 1 .. done : computed'[q[k]] = computed[q[k]]
  BY <1>4, <1>6
<1>9. Shape(q)'
  <2>1. /\ evidence' = NoEvidence /\ done' \in 0 .. Len(q)
        /\ buffer' \in Nat /\ checked' \in BOOLEAN
    BY <1>1, <1>2 DEF Context, Shape
  <2>2. buffer' = done' + 1 /\ Len(heap)' = done' + 1 /\ done' < Len(q)
    BY <1>2, <1>3
  <2>3. /\ priors' \in Seq(Nat) /\ Range(priors)' = 1 .. IF checked' THEN done' + 1 ELSE done'
        /\ DOMAIN frozen' = {q[k] : k \in 1 .. done'}
        /\ \A k \in 1 .. done' : frozen'[q[k]] \in Outputs
    BY DEF Context, Shape, Range
  <2>4. DOMAIN computed' = {q[k] : k \in 1 .. Len(heap)'}
    BY <1>3, <1>7
  <2> QED
    BY <1>3, <2>1, <2>2, <2>3, <2>4 DEF Shape
<1> QED
  BY <1>3, <1>6, <1>8, <1>9

\* What is right or told of a call that is done stays so when another one is computed.
LEMMA ComputesTold ==
  ASSUME NEW q, NEW P, Context(q, P), buffer = 0, done < Len(q), NEW output \in Outputs,
         NEW n, n = done + 1,
         Computes(q[done + 1], output), UNCHANGED <<cohort, quirk>>,
         UNCHANGED <<checked, priors, done, frozen, evidence>>
  PROVE  /\ \A k \in 1 .. done : /\ Right(q[k], k) => Right(q[k], k)'
                                 /\ Told(q[k], k) => Told(q[k], k)'
         /\ Told(q[n], n)'
         /\ output = Honest(q[n]) => Right(q[n], n)'
<1>1. /\ heap'[n] = output /\ computed'[q[n]] = output
      /\ \A k \in 1 .. done : heap'[k] = heap[k] /\ computed'[q[k]] = computed[q[k]]
  BY ComputesShape
<1>2. \A call : Honest(call)' = Honest(call)
  BY SameCalls
<1>3. done \in Nat /\ ~(n <= done)
  BY AllDone DEF Context, AreCalls
<1>4. frozen' = frozen /\ done' = done
  OBVIOUS
<1>5. ASSUME NEW k \in 1 .. done
      PROVE  /\ Right(q[k], k) => Right(q[k], k)'
             /\ Told(q[k], k) => Told(q[k], k)'
  BY <1>1, <1>2, <1>4 DEF Right, Told
<1>6. Told(q[n], n)' /\ (output = Honest(q[n]) => Right(q[n], n)')
  BY <1>1, <1>2, <1>3, <1>4 DEF Right, Told
<1> QED
  BY <1>5, <1>6

\* A call of an executor that does not raise.
LEMMA ExecuteKeeps ==
  ASSUME NEW r, NEW q, NEW P, q = Calls(r), Context(q, P), Compared(r, q), Execute(r),
         ~JitRaises(q[done + 1])
  PROVE  Shape(q)' /\ Truth(q)' /\ Compared(r, q)' /\ faults' \in Nat /\ UNCHANGED at
<1> DEFINE call == q[done + 1]
<1>0. PICK n : n = done + 1
  OBVIOUS
<1>1. /\ buffer = 0 /\ done < Len(q) /\ UNCHANGED <<cohort, quirk>>
      /\ UNCHANGED <<checked, priors, at, done, frozen, evidence>>
      /\ kernels' = kernels \union (IF call.pass = "jit_eager" THEN {JitKey(call)} ELSE {})
  BY DEF Execute, Running, NextCall, authority, results
<1>2. \/ Computes(call, Honest(call)) /\ UNCHANGED <<touched, faults>>
      \/ /\ faults' = faults + 1
         /\ \/ \E output \in Altered(Honest(call)) : Computes(call, output)
            \/ Replays(call)
            \/ Computes(call, Honest(call))
  BY DEF Execute, Running, NextCall
<1>3. /\ done \in 0 .. Len(q) /\ Len(q) \in Nat /\ Len(heap) = done /\ ~checked
      /\ faults \in Nat /\ heap \in Seq(Outputs) /\ done + 1 \in 1 .. Len(q)
  BY <1>1, AllDone DEF Context, AreCalls
<1>4. Honest(call) \in Outputs
  BY <1>3, HonestOutput DEF Context
<1>5. /\ faults = 0 => \A k \in 1 .. done : Right(q[k], k)
      /\ faults <= 1 => \E odd \in 0 .. done : \A k \in 1 .. done :
           Told(q[k], k) /\ (k # odd => Right(q[k], k))
  <2>1. faults <= 1 => \E odd \in 0 .. done : \A k \in 1 .. done :
          Told(q[k], k) /\ (faults = 0 \/ k # odd => Right(q[k], k))
    BY <1>3 DEF Context, Truth
  <2>2. faults = 0 => faults <= 1
    OBVIOUS
  <2> QED
    BY <2>1, <2>2
<1>6. Compared(r, q)'
  BY <1>1 DEF Compared, PassesAgree, PairOf
<1> HIDE DEF call
\* Something is computed.
<1>7. ASSUME NEW output \in Outputs, Computes(call, output),
             \/ faults' = faults + 1
             \/ UNCHANGED <<touched, faults>> /\ output = Honest(call)
      PROVE  Shape(q)' /\ Truth(q)'
  <2>1. Shape(q)' /\ Len(heap)' = done + 1
    BY <1>1, <1>7, ComputesShape DEF call
  <2>2. /\ \A k \in 1 .. done : /\ Right(q[k], k) => Right(q[k], k)'
                                /\ Told(q[k], k) => Told(q[k], k)'
        /\ Told(q[n], n)'
        /\ output = Honest(call) => Right(q[n], n)'
    BY <1>0, <1>1, <1>7, ComputesTold DEF call
  <2>3. \A k \in 1 .. done + 1 : k \in 1 .. done \/ k = n
    BY <1>0, <1>3
  <2>4. ASSUME faults' = 0
        PROVE  /\ touched' = {}
               /\ \A k \in 1 .. done + 1 : q[k].pass = "jit_eager" => JitKey(q[k]) \in kernels'
               /\ \A key \in kernels' : \E k \in 1 .. done + 1 :
                    q[k].pass = "jit_eager" /\ key = JitKey(q[k])
    <3>1. faults = 0 /\ touched' = touched
      BY <1>3, <1>7, <2>4
    <3>2. /\ touched = {}
          /\ \A k \in 1 .. done : q[k].pass = "jit_eager" => JitKey(q[k]) \in kernels
          /\ \A key \in kernels : \E k \in 1 .. done :
               q[k].pass = "jit_eager" /\ key = JitKey(q[k])
      BY <1>3, <3>1 DEF Context, Truth
    <3>3. \A k \in 1 .. done + 1 : q[k].pass = "jit_eager" => JitKey(q[k]) \in kernels'
      BY <1>0, <1>1, <2>3, <3>2 DEF call
    <3>4. ASSUME NEW key \in kernels'
          PROVE  \E k \in 1 .. done + 1 : q[k].pass = "jit_eager" /\ key = JitKey(q[k])
      <4>1. CASE key \in kernels
        <5>1. PICK k \in 1 .. done : q[k].pass = "jit_eager" /\ key = JitKey(q[k])
          BY <3>2, <4>1
        <5>2. k \in 1 .. done + 1
          BY <1>3
        <5> QED
          BY <5>1, <5>2
      <4>2. CASE key \notin kernels
        <5>1. call.pass = "jit_eager" /\ key = JitKey(call) /\ done + 1 \in 1 .. done + 1
          BY <1>1, <1>3, <3>4, <4>2
        <5> QED
          BY <5>1 DEF call
      <4> QED
        BY <4>1, <4>2
    <3> QED
      BY <3>1, <3>2, <3>3, <3>4
  <2>5. ASSUME faults' <= 1
        PROVE  \E odd \in 0 .. done + 1 : \A k \in 1 .. done + 1 :
                 Told(q[k], k)' /\ (faults' = 0 \/ k # odd => Right(q[k], k)')
    <3>1. CASE UNCHANGED faults /\ output = Honest(call)
      <4>1. PICK odd \in 0 .. done : \A k \in 1 .. done :
              Told(q[k], k) /\ (k # odd => Right(q[k], k))
        BY <1>5, <2>5, <3>1
      <4>2. \A k \in 1 .. done + 1 : Told(q[k], k)' /\ (faults' = 0 \/ k # odd => Right(q[k], k)')
        BY <1>5, <2>2, <2>3, <3>1, <4>1
      <4>3. odd \in 0 .. done + 1
        BY <1>3
      <4> QED
        BY <4>2, <4>3
    <3>2. CASE faults' = faults + 1
      <4>1. faults = 0 /\ faults' # 0 /\ done + 1 \in 0 .. done + 1
        BY <1>3, <2>5, <3>2
      <4>2. \A k \in 1 .. done : Right(q[k], k) /\ Told(q[k], k)
        BY <1>5, <4>1 DEF Right, Told
      <4>3. \A k \in 1 .. done + 1 : Told(q[k], k)' /\ (k # n => Right(q[k], k)')
        BY <2>2, <2>3, <4>2
      <4> QED
        BY <1>0, <4>1, <4>3
    <3> QED
      BY <1>7, <3>1, <3>2
  <2> QED
    BY <2>1, <2>4, <2>5 DEF Truth
\* An old buffer comes again.
<1>8. ASSUME Replays(call), faults' = faults + 1
      PROVE  Shape(q)' /\ Truth(q)'
  <2>1. buffer' \in 1 .. done /\ UNCHANGED <<heap, computed>> /\ faults' > 0 /\ faults' # 0
    <3>1. \E b \in DOMAIN heap : buffer' = b
      BY <1>8 DEF Replays
    <3>2. DOMAIN heap = 1 .. done
      BY <1>3
    <3> QED
      BY <1>3, <1>8, <3>1, <3>2 DEF Replays
  <2>2. Shape(q)'
    <3>1. buffer' \in Nat /\ (buffer' \in 1 .. done /\ Len(heap)' = done /\ ~checked')
      BY <1>1, <1>3, <2>1
    <3>2. /\ evidence = NoEvidence
          /\ heap \in Seq(Outputs) /\ checked \in BOOLEAN
          /\ priors \in Seq(Nat) /\ Range(priors) = 1 .. IF checked THEN done + 1 ELSE done
          /\ DOMAIN frozen = {q[k] : k \in 1 .. done}
          /\ DOMAIN computed = {q[k] : k \in 1 .. Len(heap)}
          /\ \A k \in 1 .. done : frozen[q[k]] \in Outputs
      BY DEF Context, Shape
    <3> QED
      BY <1>1, <1>3, <2>1, <3>1, <3>2 DEF Shape, Range
  <2>3. ASSUME faults' <= 1
        PROVE  \E odd \in 0 .. done : \A k \in 1 .. done : Told(q[k], k)' /\ Right(q[k], k)'
    <3>1. faults = 0 /\ 0 \in 0 .. done
      BY <1>3, <1>8, <2>3
    <3>2. \A c : Honest(c)' = Honest(c)
      BY <1>1, SameCalls
    <3>3. \A k \in 1 .. done : Told(q[k], k)' /\ Right(q[k], k)'
      BY <1>1, <1>5, <2>1, <3>1, <3>2 DEF Right, Told
    <3> QED
      BY <3>1, <3>3
  <2> QED
    BY <1>3, <2>1, <2>2, <2>3 DEF Truth
<1>9. Shape(q)' /\ Truth(q)'
  BY <1>2, <1>4, <1>7, <1>8, AlteredAre DEF call
<1> QED
  BY <1>1, <1>2, <1>3, <1>6, <1>9

\* Once nothing but honest executions have been, every output is honest.
LEMMA AllRight ==
  ASSUME NEW q, Truth(q), faults = 0
  PROVE  touched = {} /\ \A k \in 1 .. Len(heap) : Right(q[k], k)
BY DEF Truth

\* The check of an honest output holds.
LEMMA HonestHolds ==
  ASSUME NEW q, NEW P, AreCalls(q, P), quirk \in Honestly, touched = {}, NEW k \in 1 .. Len(q)
  PROVE  Holds(Honest(q[k]), q[k])
<1>1. quirk \in Quirks
  BY DEF Honestly, Quirks
<1>2. OutputOf[Honest(q[k])] = Kernel(Scene(q[k]), q[k].bundle, q[k].condition, quirk)
  BY <1>1, HonestOutput
<1>3. Scene(q[k]) \in DOMAIN Source /\ Qualifies(Scene(q[k]))
  BY DEF AreCalls
<1>4. CompactHolds(Kernel(Scene(q[k]), q[k].bundle, q[k].condition, quirk),
                   Scene(q[k]), q[k].bundle, q[k].condition)
  BY <1>3, HonestIsCompact
<1> QED
  BY <1>2, <1>4 DEF Holds

\* A buffer that is being looked at is the next one, or was accepted before.
LEMMA BufferIs ==
  ASSUME NEW q, NEW P, Context(q, P), buffer # 0
  PROVE  /\ done \in 0 .. Len(q) /\ Len(q) \in Nat
         /\ \/ buffer = done + 1 /\ Len(heap) = done + 1 /\ done < Len(q)
            \/ buffer \in 1 .. done /\ ~checked /\ faults > 0
         /\ checked \in BOOLEAN /\ priors \in Seq(Nat)
         /\ Range(priors) = 1 .. IF checked THEN done + 1 ELSE done
BY DEF Context, AreCalls, Shape

\* _execute_once refuses no honest output.
LEMMA NoCheckRaises ==
  ASSUME NEW q, NEW P, Context(q, P), buffer # 0, ~checked, faults = 0, quirk \in Honestly
  PROVE  IsFresh(buffer) /\ Holds(heap[buffer], q[done + 1])
<1>1. PICK k : k = done + 1
  OBVIOUS
<1>2. /\ buffer = k /\ k \in 1 .. Len(q) /\ k \in 1 .. Len(heap) /\ k \notin Range(priors)
  BY <1>1, BufferIs
<1>3. touched = {} /\ heap[k] = Honest(q[k])
  BY <1>2, AllRight DEF Context, Right
<1>4. Holds(Honest(q[k]), q[k])
  BY <1>2, <1>3, HonestHolds DEF Context
<1> QED
  BY <1>1, <1>2, <1>3, <1>4 DEF IsFresh

\* An output that is accepted is the next one.
LEMMA CheckKeeps ==
  ASSUME NEW r, NEW q, NEW P, q = Calls(r), Context(q, P), Compared(r, q), Check(r),
         IsFresh(buffer), Holds(heap[buffer], q[done + 1])
  PROVE  Shape(q)' /\ Truth(q)' /\ Compared(r, q)' /\ faults' \in Nat /\ UNCHANGED at
<1>1. /\ buffer # 0 /\ ~checked /\ checked' = TRUE /\ priors' = Append(priors, buffer)
      /\ UNCHANGED <<cohort, quirk, heap, buffer, computed, kernels, touched, faults, at,
                     done, frozen, evidence>>
  BY DEF Check, Running, NextCall, authority, results
<1>2. /\ buffer = done + 1 /\ Len(heap) = done + 1 /\ done < Len(q) /\ done \in 0 .. Len(q)
      /\ priors \in Seq(Nat) /\ Range(priors) = 1 .. done /\ Len(q) \in Nat
  BY <1>1, BufferIs DEF IsFresh
<1>3. priors' \in Seq(Nat) /\ Range(priors') = 1 .. done + 1
  <2>1. /\ priors' \in Seq(Nat) /\ DOMAIN priors' = 1 .. Len(priors) + 1
        /\ DOMAIN priors = 1 .. Len(priors) /\ Len(priors) \in Nat
        /\ \A k \in 1 .. Len(priors) : priors'[k] = priors[k]
        /\ priors'[Len(priors) + 1] = done + 1
    BY <1>1, <1>2
  <2>2. Range(priors') = Range(priors) \union {done + 1}
    BY <2>1 DEF Range
  <2> QED
    BY <1>2, <2>1, <2>2
<1>4. Shape(q)'
  <2>1. /\ evidence = NoEvidence /\ heap \in Seq(Outputs)
        /\ DOMAIN frozen = {q[k] : k \in 1 .. done}
        /\ DOMAIN computed = {q[k] : k \in 1 .. Len(heap)}
        /\ \A k \in 1 .. done : frozen[q[k]] \in Outputs
    BY DEF Context, Shape
  <2>2. Range(priors)' = 1 .. IF checked' THEN done' + 1 ELSE done'
    BY <1>1, <1>3 DEF Range
  <2> QED
    BY <1>1, <1>2, <1>3, <2>1, <2>2 DEF Shape
<1>5. Truth(q)'
  <2>1. \A call : Honest(call)' = Honest(call)
    BY <1>1, SameCalls
  <2>2. \A k : Right(q[k], k)' <=> Right(q[k], k)
    BY <1>1, <2>1 DEF Right
  <2>3. \A k : Told(q[k], k)' <=> Told(q[k], k)
    BY <1>1, <2>1 DEF Told
  <2> QED
    BY <1>1, <2>2, <2>3 DEF Context, Truth
<1>6. Compared(r, q)'
  BY <1>1 DEF Compared, PassesAgree, PairOf
<1> QED
  BY <1>1, <1>4, <1>5, <1>6 DEF Context

-----------------------------------------------------------------------------
(* The copies *)

\* With honest copies of a cell the passes agree.
LEMMA HonestPassesAgree ==
  ASSUME NEW call \in CallSpace, NEW copies,
         \A p \in Range(Passes(call.position)) :
           copies[Is(call, call.condition, p)] = Honest(Is(call, call.condition, p))
  PROVE  PassesAgree(copies, call)
<1>1. "eager_pass_1" \in Range(Passes(call.position))
  <2>1. call.position \in Nat \ {0}
    BY DEF CallSpace
  <2> QED
    BY <2>1, LastPass DEF PassNames
<1>2. \A p, o : Honest(Is(call, call.condition, p)) = Honest(Is(call, call.condition, o))
  BY HonestIs
<1> QED
  BY <1>1, <1>2 DEF PassesAgree

\* With honest copies of both conditions the pair holds.
LEMMA HonestPairHolds ==
  ASSUME NEW q, NEW P, AreCalls(q, P), quirk \in Honestly, NEW k \in 1 .. Len(q), NEW copies,
         \A c \in {"identity", "primary_brake"} :
           copies[Is(q[k], c, "eager_pass_1")] = Honest(Is(q[k], c, "eager_pass_1"))
  PROVE  PairHolds(PairOf(copies, q[k]).base, PairOf(copies, q[k]).treated, q[k].bundle)
<1>1. q[k] \in CallSpace /\ Scene(q[k]) \in DOMAIN Source /\ q[k].bundle \in Range(Bundles)
  BY DEF AreCalls, CallSpace
<1>2. quirk \in Quirks
  BY DEF Honestly, Quirks
<1>3. ASSUME NEW c \in {"identity", "primary_brake"}
      PROVE  OutputOf[copies[Is(q[k], c, "eager_pass_1")]] =
               Kernel(Scene(q[k]), q[k].bundle, c, quirk)
  <2>1. PICK d : d = [scene |-> Scene(q[k]), bundle |-> q[k].bundle, condition |-> c,
                      how |-> quirk]
    OBVIOUS
  <2>2. copies[Is(q[k], c, "eager_pass_1")] = d
    BY <1>1, <2>1, HonestIs
  <2>3. d \in Outputs
    <3>1. c \in Range(Conditions)
      BY DEF Range, Conditions
    <3> QED
      BY <1>1, <1>2, <2>1, <3>1 DEF Outputs
  <2>4. OutputOf[d] = Kernel(d.scene, d.bundle, d.condition, d.how)
    BY <2>3, OutputIs
  <2> QED
    BY <2>1, <2>2, <2>4
<1>4. PairHolds(Kernel(Scene(q[k]), q[k].bundle, "identity", quirk),
                Kernel(Scene(q[k]), q[k].bundle, "primary_brake", quirk), q[k].bundle)
  BY <1>1, HonestIsPaired
<1>5. /\ PairOf(copies, q[k]).base = OutputOf[copies[Is(q[k], "identity", "eager_pass_1")]]
      /\ PairOf(copies, q[k]).treated =
           OutputOf[copies[Is(q[k], "primary_brake", "eager_pass_1")]]
  BY DEF PairOf
<1> QED
  BY <1>3, <1>4, <1>5

\* What the copies are with one more, if the buffer is as it should be.
AreCopies(copies, q, n) ==
  /\ n \in 1 .. Len(q) /\ buffer = n /\ Len(heap) = n /\ done \in Nat /\ heap[n] \in Outputs
  /\ DOMAIN copies = {q[k] : k \in 1 .. n}
  /\ \A k \in 1 .. done : copies[q[k]] = frozen[q[k]]
  /\ copies[q[n]] = heap[n]
  /\ Range(priors) = 1 .. n

\* When an output is accepted, its copy is the one of the next call.
LEMMA CopiesAre ==
  ASSUME NEW q, NEW P, Context(q, P), checked, NEW n, n = done + 1, NEW copies,
         copies = With(frozen, q[n], heap[buffer])
  PROVE  AreCopies(copies, q, n)
<1>1. /\ buffer = n /\ Len(heap) = n /\ n \in 1 .. Len(q) /\ done \in 0 .. Len(q) /\ done \in Nat
      /\ heap \in Seq(Outputs) /\ Range(priors) = 1 .. n
      /\ DOMAIN frozen = {q[k] : k \in 1 .. done}
      /\ \A k, l \in 1 .. Len(q) : q[k] = q[l] => k = l
  BY DEF Context, AreCalls, Shape
<1>2. q[n] \notin DOMAIN frozen
  BY <1>1
<1>3. PICK c, output : c = q[n] /\ output = heap[n]
  OBVIOUS
<1>4. /\ DOMAIN With(frozen, c, output) = DOMAIN frozen \union {c}
      /\ \A d \in DOMAIN frozen : With(frozen, c, output)[d] = frozen[d]
      /\ c \notin DOMAIN frozen => With(frozen, c, output)[c] = output
  BY WithIs, Zenon
<1>5. copies = With(frozen, c, output)
  BY <1>1, <1>3
<1>6. /\ DOMAIN copies = DOMAIN frozen \union {c}
      /\ \A d \in DOMAIN frozen : copies[d] = frozen[d]
      /\ copies[c] = output
  BY <1>2, <1>3, <1>4, <1>5
<1>7. DOMAIN copies = {q[k] : k \in 1 .. n}
  <2>1. 1 .. n = (1 .. done) \union {n}
    BY <1>1
  <2>2. DOMAIN copies = {q[k] : k \in 1 .. done} \union {q[n]}
    BY <1>1, <1>3, <1>6
  <2> QED
    BY <2>1, <2>2
<1> QED
  BY <1>1, <1>3, <1>6, <1>7 DEF AreCopies

\* Nothing that is compared after a copy refuses honest ones.
LEMMA NoFreezeRaises ==
  ASSUME NEW r, NEW q, NEW P, Context(q, P), checked, faults = 0, quirk \in Honestly
  PROVE  CopyHolds(r, With(frozen, q[done + 1], heap[buffer]), q[done + 1])
<1>1. PICK n, copies : n = done + 1 /\ copies = With(frozen, q[n], heap[buffer])
  OBVIOUS
<1>2. /\ n \in 1 .. Len(q) /\ Len(heap) = n /\ done \in Nat
      /\ \A k \in 1 .. done : copies[q[k]] = frozen[q[k]]
      /\ copies[q[n]] = heap[n]
  <2>1. n = done + 1 /\ copies = With(frozen, q[n], heap[buffer])
    BY <1>1
  <2>2. AreCopies(copies, q, n)
    BY <2>1, CopiesAre
  <2> QED
    BY <2>2 DEF AreCopies
<1>3. touched = {} /\ \A k \in 1 .. n : Right(q[k], k)
  BY <1>2, AllRight DEF Context
<1>4. \A k \in 1 .. n : copies[q[k]] = Honest(q[k])
  <2>1. SUFFICES ASSUME NEW k \in 1 .. n PROVE copies[q[k]] = Honest(q[k])
    OBVIOUS
  <2>2. k = n \/ (k \in 1 .. done /\ k <= done)
    BY <1>1, <1>2
  <2> QED
    BY <1>2, <1>3, <2>2 DEF Right
<1>5. AreCalls(q, P) /\ InOrder(q, P) /\ P \in SUBSET (Nat \ {0}) /\ q[n] \in CallSpace
  BY <1>2 DEF Context, AreCalls
<1>6. Holds(copies[q[n]], q[n])
  <2>1. n \in 1 .. n
    BY <1>2
  <2>2. copies[q[n]] = Honest(q[n])
    BY <1>4, <2>1
  <2>3. Holds(Honest(q[n]), q[n])
    BY <1>2, <1>3, <1>5, HonestHolds
  <2> QED
    BY <2>2, <2>3
<1>7. ASSUME CellIsDone(q[n]) PROVE PassesAgree(copies, q[n])
  <2>1. \A p \in Range(Passes(q[n].position)) : CalledBy(q, n, q[n].condition, p)
    BY <1>2, <1>5, <1>7, PassesCalled
  <2>2. \A p \in Range(Passes(q[n].position)) :
          copies[Is(q[n], q[n].condition, p)] = Honest(Is(q[n], q[n].condition, p))
    BY <1>4, <2>1 DEF CalledBy
  <2> QED
    BY <1>5, <2>2, HonestPassesAgree
<1>8. ASSUME PairIsDone(q[n])
      PROVE  PairHolds(PairOf(copies, q[n]).base, PairOf(copies, q[n]).treated, q[n].bundle)
  <2>1. \A c \in {"identity", "primary_brake"} : CalledBy(q, n, c, "eager_pass_1")
    BY <1>2, <1>5, <1>8, PairsCalled
  <2>2. \A c \in {"identity", "primary_brake"} :
          copies[Is(q[n], c, "eager_pass_1")] = Honest(Is(q[n], c, "eager_pass_1"))
    BY <1>4, <2>1 DEF CalledBy
  <2> QED
    BY <1>2, <1>5, <2>2, HonestPairHolds
<1>9. CopyHolds(r, copies, q[n])
  BY <1>6, <1>7, <1>8 DEF CopyHolds
<1> QED
  BY <1>1, <1>9

\* A copy that holds is kept, and what was compared of the others stays so.
LEMMA FreezeKeeps ==
  ASSUME NEW r, NEW q, NEW P, q = Calls(r), Context(q, P), Compared(r, q), Freeze(r),
         CopyHolds(r, With(frozen, q[done + 1], heap[buffer]), q[done + 1])
  PROVE  Shape(q)' /\ Truth(q)' /\ Compared(r, q)' /\ faults' \in Nat /\ UNCHANGED at
<1>1. PICK n, copies : n = done + 1 /\ copies = With(frozen, q[n], heap[buffer])
  OBVIOUS
<1>2. /\ checked /\ frozen' = copies /\ done' = n /\ buffer' = 0 /\ checked' = FALSE
      /\ UNCHANGED <<cohort, quirk, heap, priors, computed, kernels, touched, faults, at, evidence>>
      /\ CopyHolds(r, copies, q[n])
  BY <1>1 DEF Freeze, Running, NextCall, authority
<1>3. /\ n \in 1 .. Len(q) /\ buffer = n /\ Len(heap) = n /\ done \in Nat /\ heap[n] \in Outputs
      /\ DOMAIN copies = {q[k] : k \in 1 .. n}
      /\ \A k \in 1 .. done : copies[q[k]] = frozen[q[k]]
      /\ copies[q[n]] = heap[n]
      /\ Range(priors) = 1 .. n
  <2>1. checked /\ n = done + 1 /\ copies = With(frozen, q[n], heap[buffer])
    BY <1>1, <1>2
  <2>2. AreCopies(copies, q, n)
    BY <2>1, CopiesAre
  <2> QED
    BY <2>2 DEF AreCopies
<1>4. \A k \in 1 .. n : k = n \/ (k \in 1 .. done /\ k <= done)
  BY <1>1, <1>3
<1>5. AreCalls(q, P) /\ Len(q) \in Nat
  BY DEF Context, AreCalls
<1>6. Shape(q)'
  <2>1. /\ evidence = NoEvidence /\ heap \in Seq(Outputs) /\ priors \in Seq(Nat)
        /\ DOMAIN computed = {q[k] : k \in 1 .. Len(heap)}
        /\ \A k \in 1 .. done : frozen[q[k]] \in Outputs
    BY DEF Context, Shape
  <2>2. \A k \in 1 .. n : copies[q[k]] \in Outputs
    BY <1>3, <1>4, <2>1
  <2>3. Range(priors)' = 1 .. n
    BY <1>2, <1>3 DEF Range
  <2>4. n \in 0 .. Len(q)
    BY <1>3, <1>5
  <2> QED
    BY <1>2, <1>3, <2>1, <2>2, <2>3, <2>4 DEF Shape
<1>7. Truth(q)'
  <2>1. \A call : Honest(call)' = Honest(call)
    BY <1>2, SameCalls
  <2>2. ASSUME NEW k \in 1 .. n PROVE Right(q[k], k) => Right(q[k], k)'
    BY <1>2, <1>3, <1>4, <2>1 DEF Right
  <2>3. ASSUME NEW k \in 1 .. n PROVE Told(q[k], k) => Told(q[k], k)'
    BY <1>2, <1>3, <1>4, <2>1 DEF Told
  <2>4. /\ faults = 0 =>
             /\ touched = {}
             /\ \A k \in 1 .. n : q[k].pass = "jit_eager" => JitKey(q[k]) \in kernels
             /\ \A key \in kernels : \E k \in 1 .. n : q[k].pass = "jit_eager" /\ key = JitKey(q[k])
        /\ faults <= 1 =>
             \E odd \in 0 .. n : \A k \in 1 .. n :
               Told(q[k], k) /\ (faults = 0 \/ k # odd => Right(q[k], k))
    BY <1>3 DEF Context, Truth
  <2>5. Len(heap)' = n /\ UNCHANGED <<faults, touched, kernels>>
    BY <1>2, <1>3
  <2>6. faults <= 1 =>
          \E odd \in 0 .. n : \A k \in 1 .. n :
            Told(q[k], k)' /\ (faults = 0 \/ k # odd => Right(q[k], k)')
    BY <2>2, <2>3, <2>4
  <2> QED
    BY <2>4, <2>5, <2>6 DEF Truth
<1>8. Compared(r, q)'
  <2>1. SUFFICES ASSUME NEW k \in 1 .. n
                 PROVE  /\ r = "pilot" /\ CellIsDone(q[k]) => PassesAgree(copies, q[k])
                        /\ PairIsDone(q[k]) =>
                             PairHolds(PairOf(copies, q[k]).base, PairOf(copies, q[k]).treated,
                                       q[k].bundle)
    BY <1>2 DEF Compared, PassesAgree, PairOf
  <2>2. CASE k = n
    BY <1>2, <2>2 DEF CopyHolds
  <2>3. CASE k \in 1 .. done
    <3>1. PICK m, old : m = done /\ old = frozen
      OBVIOUS
    <3>2. m \in 0 .. Len(q) /\ (\A j \in 1 .. m : old[q[j]] = copies[q[j]]) /\ k \in 1 .. m
      BY <1>1, <1>3, <1>5, <2>3, <3>1
    <3>3. CellIsDone(q[k]) /\ PassesAgree(old, q[k]) => PassesAgree(copies, q[k])
      BY <1>5, <3>2, SameComparison
    <3>4. PairIsDone(q[k]) => PairOf(old, q[k]) = PairOf(copies, q[k])
      BY <1>5, <3>2, SameComparison
    <3> QED
      BY <2>3, <3>1, <3>3, <3>4 DEF Compared
  <2> QED
    BY <1>4, <2>2, <2>3
<1> QED
  BY <1>2, <1>6, <1>7, <1>8 DEF Context

\* What holds of a finite set if it does of the set without any one of its members.
LEMMA UpFromEmpty ==
  ASSUME NEW S, IsFiniteSet(S), NEW Good,
         \A T \in SUBSET S : (\A x \in T : T \ {x} \in Good) => T \in Good
  PROVE  SUBSET S \subseteq Good
<1> DEFINE Bad == {T \in SUBSET S : T \notin Good}
           R == StrictSubsetOrdering(S)
<1>1. SUFFICES ASSUME Bad # {} PROVE FALSE
  OBVIOUS
<1>2. PICK T \in Bad : \A U \in Bad : <<U, T>> \notin R
  <2>1. IsWellFoundedOn(R, SUBSET S)
    BY FS_StrictSubsetOrderingWellFounded, FS_FiniteSubsetsOfFinite
  <2>2. Bad \subseteq SUBSET S
    OBVIOUS
  <2> HIDE DEF Bad, R
  <2> QED
    BY <1>1, <2>1, <2>2, WFMin
<1>3. ASSUME NEW x \in T PROVE T \ {x} \in Good
  <2>1. <<T \ {x}, T>> \in R
    BY <1>2 DEF StrictSubsetOrdering
  <2> QED
    BY <1>2, <2>1
<1> QED
  BY <1>2, <1>3

\* A sum of zeros is zero.
LEMMA NothingAddsUp ==
  ASSUME NEW S, IsFiniteSet(S)
  PROVE  SumFunction([x \in S |-> 0]) = 0
<1> DEFINE f == [x \in S |-> 0]
           Of(T) == CHOOSE x \in T : TRUE
           Sums(s) == s = [T \in SUBSET S |-> IF T = {} THEN 0 ELSE f[Of(T)] + s[T \ {Of(T)}]]
           sum == CHOOSE s : Sums(s)
           zero == [T \in SUBSET S |-> 0]
<1>1. SumFunction(f) = sum[S]
  <2>1. DOMAIN f = S
    OBVIOUS
  <2> QED
    BY <2>1 DEF SumFunction, SumFunctionOnSet, FoldFunctionOnSet, MapThenFoldSet
<1>2. Sums(zero)
  <2>1. ASSUME NEW T \in SUBSET S
        PROVE  zero[T] = IF T = {} THEN 0 ELSE f[Of(T)] + zero[T \ {Of(T)}]
    <3>1. T # {} => Of(T) \in S
      OBVIOUS
    <3> HIDE DEF Of
    <3> QED
      BY <3>1
  <2> HIDE DEF Of, f
  <2> QED
    BY <2>1
<1>3. Sums(sum)
  <2> HIDE DEF Sums, zero
  <2> QED
    BY <1>2
<1> DEFINE Good == {T \in SUBSET S : sum[T] = 0}
<1>4. ASSUME NEW T \in SUBSET S, \A x \in T : T \ {x} \in Good PROVE T \in Good
  <2>1. CASE T = {}
    <3>1. sum[T] = IF T = {} THEN 0 ELSE f[Of(T)] + sum[T \ {Of(T)}]
      <4> HIDE DEF sum, f, Of
      <4> QED
        BY <1>3
    <3> QED
      BY <2>1, <3>1
  <2>2. CASE T # {}
    <3>1. sum[T] = f[Of(T)] + sum[T \ {Of(T)}]
      <4> HIDE DEF sum, f, Of
      <4> QED
        BY <1>3, <2>2
    <3>2. Of(T) \in T
      BY <2>2
    <3>3. f[Of(T)] = 0
      BY <3>2
    <3>4. sum[T \ {Of(T)}] = 0
      <4> HIDE DEF sum, Of
      <4> QED
        BY <1>4, <3>2
    <3> HIDE DEF sum, f, Of
    <3>5. sum[T] = 0
      BY <3>1, <3>3, <3>4
    <3> QED
      BY <3>5
  <2> QED
    BY <2>1, <2>2
<1>5. SUBSET S \subseteq Good
  <2> HIDE DEF Good
  <2> QED
    BY <1>4, UpFromEmpty
<1>6. sum[S] = 0
  <2> HIDE DEF sum
  <2> QED
    BY <1>5
<1> QED
  BY <1>1, <1>6

-----------------------------------------------------------------------------
(* The measures *)

\* Where the gate holds nobody has responded: in the transition from the first frame, and
\* in the logged world in all.
LEMMA NoResponse ==
  ASSUME NEW s \in DOMAIN Source, NEW bundle, NEW base, NEW treated,
         \A k \in Steps : base.frames[k] \in Frame /\ treated.frames[k] \in Frame,
         PairHolds(base, treated, bundle)
  PROVE  /\ Delta(base, treated, s, 0) = 0
         /\ bundle = "logged_world" =>
              LET measures == Measures(base, treated, s)
              IN  measures.impulse = 0 /\ ~measures.responded /\ measures.loss = 0
<1>1. /\ Transitions \in Nat \ {0} /\ Persistence \in Nat \ {0}
      /\ Target \in Agents \ {Ego} /\ Source[s].log[0] \in Frame
  BY WaymaxAssumption, SourceIs DEF Frames
<1>2. /\ Source[s].log[0][Target].v \in Int
      /\ \A k \in Steps : /\ base.frames[k][Target].v \in Int /\ base.frames[k][Target].x \in Int
                          /\ treated.frames[k][Target].v \in Int
  BY <1>1 DEF Frame, States
<1>3. \A k \in GateFrames(bundle) : base.frames[k][Target] = treated.frames[k][Target]
  BY <1>1 DEF PairHolds
<1>4. \A k \in Frames : Speed(base, s, k) \in Int /\ Speed(treated, s, k) \in Int
  <2>1. \A k \in Frames : k = 0 \/ k \in Steps
    BY <1>1 DEF Frames, Steps
  <2> QED
    BY <1>2, <2>1 DEF Speed
<1>5. \A k \in Frames :
        k = 0 \/ k \in GateFrames(bundle) => Speed(base, s, k) = Speed(treated, s, k)
  BY <1>3 DEF Speed
<1>6. ASSUME NEW t \in 0 .. Transitions - 1, t = 0 \/ t \in GateFrames(bundle),
             t + 1 \in GateFrames(bundle)
      PROVE  Delta(base, treated, s, t) = 0
  <2>1. t \in Frames /\ t + 1 \in Frames
    BY <1>1 DEF Frames
  <2>2. PICK u : u = t + 1
    OBVIOUS
  <2>3. /\ Speed(base, s, t) \in Int /\ Speed(base, s, u) \in Int
        /\ Speed(base, s, t) = Speed(treated, s, t) /\ Speed(base, s, u) = Speed(treated, s, u)
    BY <1>4, <1>5, <1>6, <2>1, <2>2
  <2>4. Acceleration(base, s, t) \in Int /\ Acceleration(base, s, t) = Acceleration(treated, s, t)
    BY <2>2, <2>3 DEF Acceleration
  <2> QED
    BY <2>4 DEF Delta
<1>7. Delta(base, treated, s, 0) = 0
  <2>1. 0 \in 0 .. Transitions - 1 /\ 0 + 1 \in GateFrames(bundle)
    BY <1>1 DEF GateFrames, Steps
  <2> QED
    BY <1>6, <2>1
<1>8. ASSUME bundle = "logged_world"
      PROVE  LET measures == Measures(base, treated, s)
             IN  measures.impulse = 0 /\ ~measures.responded /\ measures.loss = 0
  <2>1. \A t \in 0 .. Transitions - 1 : Delta(base, treated, s, t) = 0
    <3>1. SUFFICES ASSUME NEW t \in 0 .. Transitions - 1 PROVE Delta(base, treated, s, t) = 0
      OBVIOUS
    <3>2. (t = 0 \/ t \in Steps) /\ t + 1 \in Steps /\ GateFrames(bundle) = Steps
      BY <1>1, <1>8 DEF GateFrames, Steps
    <3> QED
      BY <1>6, <3>2
  <2>2. ResponseEnds(base, treated, s) = {}
    <3>1. SUFFICES ASSUME NEW t \in ResponseEnds(base, treated, s) PROVE FALSE
      OBVIOUS
    <3>2. /\ t \in Persistence .. Transitions - 1
          /\ \A u \in t - Persistence + 1 .. t : Delta(base, treated, s, u) <= -1
      BY DEF ResponseEnds
    <3>3. t \in t - Persistence + 1 .. t /\ t \in 0 .. Transitions - 1
      BY <1>1, <3>2
    <3> QED
      BY <2>1, <3>2, <3>3
  <2>3. [t \in Steps |-> Max({0, -Delta(base, treated, s, t - 1)})] = [t \in Steps |-> 0]
    <3>1. ASSUME NEW t \in Steps PROVE Max({0, -Delta(base, treated, s, t - 1)}) = 0
      <4>1. t - 1 \in 0 .. Transitions - 1
        BY <1>1 DEF Steps
      <4>2. -Delta(base, treated, s, t - 1) = 0
        BY <2>1, <4>1
      <4>3. Max({0, 0}) = 0
        BY MaxIs
      <4> QED
        BY <4>2, <4>3
    <3> QED
      BY <3>1
  <2>4. IsFiniteSet(Steps)
    BY <1>1, FS_Interval DEF Steps
  <2>5. SumFunction([t \in Steps |-> Max({0, -Delta(base, treated, s, t - 1)})]) = 0
    BY <2>3, <2>4, NothingAddsUp
  <2>6. base.frames[Transitions][Target].x - treated.frames[Transitions][Target].x = 0
    <3>1. Transitions \in Steps /\ Transitions \in GateFrames(bundle)
      BY <1>1, <1>8 DEF GateFrames, Steps
    <3> QED
      BY <1>2, <1>3, <3>1
  <2>7. /\ Measures(base, treated, s).impulse
             = SumFunction([t \in Steps |-> Max({0, -Delta(base, treated, s, t - 1)})])
        /\ Measures(base, treated, s).responded = (ResponseEnds(base, treated, s) # {})
        /\ Measures(base, treated, s).loss
             = base.frames[Transitions][Target].x - treated.frames[Transitions][Target].x
    BY DEF Measures
  <2> QED
    BY <2>2, <2>5, <2>6, <2>7
<1> QED
  BY <1>7, <1>8

-----------------------------------------------------------------------------
(* The evidence *)

\* Honest executions leave nothing that keeps a run from issuing.
LEMMA NoIssueRaises ==
  ASSUME NEW r, NEW q, NEW P, q = Calls(r), Context(q, P), done = Len(q), faults = 0
  PROVE  TableHolds(r) /\ Range(Selection) \intersect touched = {}
<1>1. AreCalls(q, P) /\ InOrder(q, P) /\ P \in SUBSET (Nat \ {0}) /\ Len(q) \in Nat
      /\ q \in Seq(CallSpace)
  BY DEF Context, AreCalls, InOrder
<1>2. Len(heap) = Len(q)
  BY <1>1 DEF Context, Shape
<1>3. touched = {} /\ \A k \in 1 .. Len(q) : Right(q[k], k)
  BY <1>2, AllRight DEF Context
<1>4. \A k \in 1 .. Len(q) : frozen[q[k]] = Honest(q[k])
  BY <1>1, <1>3 DEF Right
<1>5. ASSUME NEW k \in 1 .. Len(q) PROVE PassesAgree(frozen, q[k])
  <2>1. q[k] \in CallSpace /\ q[k].position \in Nat \ {0}
    <3>1. q[k] \in CallSpace
      BY <1>1
    <3> QED
      BY <3>1 DEF CallSpace
  <2>2. ASSUME NEW p \in Range(Passes(q[k].position))
        PROVE  frozen[Is(q[k], q[k].condition, p)] = Honest(Is(q[k], q[k].condition, p))
    <3>1. p \in PassNames
      BY <2>1, LastPass DEF PassNames
    <3>2. PICK j \in 1 .. Len(q) : q[j] = Is(q[k], q[k].condition, p)
      BY <1>1, <3>1, PassesAmong
    <3> QED
      BY <1>4, <3>2
  <2>3. PICK old : old = frozen
    OBVIOUS
  <2>4. \A p \in Range(Passes(q[k].position)) :
          old[Is(q[k], q[k].condition, p)] = Honest(Is(q[k], q[k].condition, p))
    BY <2>2, <2>3
  <2> QED
    BY <2>1, <2>3, <2>4, HonestPassesAgree
<1>6. \A call \in Range(q) : PassesAgree(frozen, call)
  BY <1>1, <1>5 DEF Range
<1> QED
  BY <1>3, <1>6 DEF TableHolds

\* Whichever way a run compares its passes, in the end they agree in every cell.
LEMMA AllAgree ==
  ASSUME NEW r \in {"official", "pilot"}, NEW q, NEW P, q = Calls(r), Context(q, P),
         Compared(r, q), done = Len(q), TableHolds(r), NEW k \in 1 .. Len(q)
  PROVE  \A p \in Range(Passes(q[k].position)) :
           OutputOf[frozen[Is(q[k], q[k].condition, p)]]
             = OutputOf[frozen[Is(q[k], q[k].condition, "eager_pass_1")]]
<1>1. AreCalls(q, P) /\ InOrder(q, P) /\ P \in SUBSET (Nat \ {0}) /\ Len(q) \in Nat
      /\ q \in Seq(CallSpace)
  BY DEF Context, AreCalls, InOrder
<1>2. q[k] \in CallSpace /\ q[k].position \in Nat \ {0}
  <2>1. q[k] \in CallSpace
    BY <1>1
  <2> QED
    BY <2>1 DEF CallSpace
<1>3. CASE r = "official"
  <2>1. q[k] \in Range(Calls(r))
    BY <1>1 DEF Range
  <2> QED
    BY <1>3, <2>1 DEF TableHolds, PassesAgree
<1>4. CASE r = "pilot"
  <2> DEFINE last == Last(Passes(q[k].position))
  <2>1. last \in PassNames /\ last \in Range(Passes(q[k].position))
    BY <1>2, LastPass DEF PassNames
  <2> HIDE DEF last
  <2>2. PICK j \in 1 .. Len(q) : q[j] = Is(q[k], q[k].condition, last)
    BY <1>1, <2>1, PassesAmong
  <2>3. Is(q[k], q[k].condition, last) = CallOf(q[k].position, q[k].bundle, q[k].condition, last)
    BY <1>2, CallIs DEF CallOf
  <2>4. /\ q[j].position = q[k].position /\ q[j].bundle = q[k].bundle
        /\ q[j].condition = q[k].condition /\ q[j].pass = last
    BY <2>2, <2>3 DEF CallOf
  <2>5. CellIsDone(q[j])
    BY <2>4 DEF CellIsDone, last
  <2>6. PassesAgree(frozen, q[j])
    BY <1>4, <2>5 DEF Compared
  <2>7. q[j] \in CallSpace
    BY <1>1
  <2>8. ASSUME NEW p PROVE Is(q[j], q[j].condition, p) = Is(q[k], q[k].condition, p)
    BY <1>2, <2>4, <2>7, CallIs
  <2> QED
    BY <2>4, <2>6, <2>8 DEF PassesAgree
<1> QED
  BY <1>3, <1>4

\* One misdeed cannot be in two passes of a cell: when they agree, each has what was
\* computed in it.
LEMMA ComputedIs ==
  ASSUME NEW r \in {"official", "pilot"}, NEW q, NEW P, q = Calls(r), Context(q, P),
         Compared(r, q), done = Len(q), TableHolds(r), faults <= 1, NEW k \in 1 .. Len(q)
  PROVE  OutputOf[computed[q[k]]] = OutputOf[frozen[Is(q[k], q[k].condition, "eager_pass_1")]]
<1>1. AreCalls(q, P) /\ InOrder(q, P) /\ P \in SUBSET (Nat \ {0}) /\ Len(q) \in Nat
      /\ q \in Seq(CallSpace)
  BY DEF Context, AreCalls, InOrder
<1>2. Len(heap) = Len(q)
  BY <1>1 DEF Context, Shape
<1>3. PICK odd : \A j \in 1 .. Len(q) : Told(q[j], j) /\ (j # odd => Right(q[j], j))
  <2>1. Truth(q)
    BY DEF Context
  <2>2. \E odd \in 0 .. Len(heap) : \A j \in 1 .. Len(heap) :
          Told(q[j], j) /\ (faults = 0 \/ j # odd => Right(q[j], j))
    BY <2>1 DEF Truth
  <2> QED
    BY <1>2, <2>2
<1>4. q[k] \in CallSpace /\ q[k].position \in Nat \ {0}
  <2>1. q[k] \in CallSpace
    BY <1>1
  <2> QED
    BY <2>1 DEF CallSpace
<1> DEFINE Pass(p) == Is(q[k], q[k].condition, p)
<1>5. \A p \in Range(Passes(q[k].position)) :
        OutputOf[frozen[Pass(p)]] = OutputOf[frozen[Pass("eager_pass_1")]]
  BY AllAgree
<1>6. /\ {"eager_pass_1", "eager_pass_2"} \subseteq Range(Passes(q[k].position))
      /\ {"eager_pass_1", "eager_pass_2"} \subseteq PassNames
  BY <1>4, LastPass DEF PassNames
<1>7. PICK i \in 1 .. Len(q) : q[i] = Pass("eager_pass_1")
  BY <1>1, <1>6, PassesAmong
<1>8. PICK j \in 1 .. Len(q) : q[j] = Pass("eager_pass_2")
  BY <1>1, <1>6, PassesAmong
<1>9. \A p : /\ Pass(p).pass = p
             /\ Honest(Pass(p)) = Honest(q[k])
  <2>1. ASSUME NEW p PROVE Pass(p).pass = p /\ Honest(Pass(p)) = Honest(q[k])
    <3>1. Pass(p) = CallOf(q[k].position, q[k].bundle, q[k].condition, p)
      BY <1>4, CallIs DEF CallOf
    <3>2. Pass(p).pass = p
      BY <3>1 DEF CallOf
    <3>3. Honest(Pass(p)) = Honest(q[k])
      BY <1>4, HonestIs
    <3> QED
      BY <3>2, <3>3
  <2> QED
    BY <2>1
<1>10. OutputOf[Honest(q[k])] = OutputOf[frozen[Pass("eager_pass_1")]]
  <2> HIDE DEF Pass
  <2>1. i # j
    BY <1>7, <1>8, <1>9
  <2>2. CASE i # odd
    <3>1. i <= done /\ Right(q[i], i)
      BY <1>3, <2>2
    <3>2. frozen[Pass("eager_pass_1")] = Honest(q[k])
      BY <1>7, <1>9, <3>1 DEF Right
    <3> QED
      BY <3>2
  <2>3. CASE j # odd
    <3>1. j <= done /\ Right(q[j], j)
      BY <1>3, <2>3
    <3>2. frozen[Pass("eager_pass_2")] = Honest(q[k])
      BY <1>8, <1>9, <3>1 DEF Right
    <3> QED
      BY <1>5, <1>6, <3>2
  <2> QED
    BY <2>1, <2>2, <2>3
<1>11. q[k] = Pass(q[k].pass) /\ q[k].pass \in Range(Passes(q[k].position))
  <2>1. q[k] \in CallsAt(P)
    BY <1>1 DEF InOrder
  <2>2. q[k] = Pass(q[k].pass)
    BY <1>4, CallIs
  <2> QED
    BY <2>1, <2>2 DEF CallsAt
<1> HIDE DEF Pass
<1>12. CASE computed[q[k]] = Honest(q[k])
  BY <1>10, <1>12 DEF Pass
<1>13. CASE computed[q[k]] # Honest(q[k])
  <2>1. computed[q[k]] = heap[k] /\ frozen[q[k]] = heap[k]
    <3>1. k <= done /\ Told(q[k], k)
      BY <1>3
    <3> QED
      BY <1>13, <3>1 DEF Told
  <2>2. OutputOf[frozen[Pass(q[k].pass)]] = OutputOf[frozen[Pass("eager_pass_1")]]
    BY <1>5, <1>11
  <2> QED
    BY <1>11, <2>1, <2>2 DEF Pass
<1> QED
  BY <1>12, <1>13

\* What the evidence of a run is witnessed by.
Witnesses(issued) ==
  LET calls == Range(Calls(issued.run))
  IN /\ DOMAIN computed = calls
     /\ \A call \in calls :
          /\ OutputOf[computed[call]] = OutputOf[frozen[Is(call, call.condition, "eager_pass_1")]]
          /\ Scene(call) \notin touched
     /\ \A call \in PairCalls(issued.run) :
          LET pair == PairOf(frozen, call)
          IN /\ Delta(pair.base, pair.treated, Scene(call), 0) = 0
             /\ call.bundle = "logged_world" /\ call \in DOMAIN issued.scalars =>
                  LET scalar == issued.scalars[call]
                  IN scalar.impulse = 0 /\ ~scalar.responded /\ scalar.loss = 0

\* What a run issues is of outputs that were computed, and shows no impossible response.
LEMMA IssueWitnesses ==
  ASSUME NEW r \in {"official", "pilot"}, NEW q, NEW P, q = Calls(r), Context(q, P),
         Compared(r, q), done = Len(q), TableHolds(r), faults <= 1,
         Range(Selection) \intersect touched = {},
         NEW issued, issued = [run |-> r, scalars |-> Scalars(r)]
  PROVE  Witnesses(issued)
<1>1. AreCalls(q, P) /\ InOrder(q, P) /\ P \in SUBSET (Nat \ {0}) /\ Len(q) \in Nat
      /\ q \in Seq(CallSpace)
  BY DEF Context, AreCalls, InOrder
<1>2. /\ DOMAIN computed = {q[k] : k \in 1 .. Len(q)}
      /\ \A k \in 1 .. Len(q) : frozen[q[k]] \in Outputs
  BY <1>1 DEF Context, Shape
<1>3. Range(q) = {q[k] : k \in 1 .. Len(q)}
  BY <1>1 DEF Range
<1>4. issued.run = r /\ issued.scalars = Scalars(r) /\ Range(Calls(r)) = Range(q)
  OBVIOUS
<1>5. ASSUME NEW call \in Range(q)
      PROVE  /\ OutputOf[computed[call]]
                  = OutputOf[frozen[Is(call, call.condition, "eager_pass_1")]]
             /\ Scene(call) \notin touched
  <2>1. PICK k \in 1 .. Len(q) : call = q[k]
    BY <1>3
  <2>2. Scene(q[k]) \in Range(Selection)
    BY <1>1 DEF AreCalls
  <2>3. OutputOf[computed[q[k]]] = OutputOf[frozen[Is(q[k], q[k].condition, "eager_pass_1")]]
    BY ComputedIs
  <2> QED
    BY <2>1, <2>2, <2>3
<1>6. ASSUME NEW call \in PairCalls(r)
      PROVE  LET pair == PairOf(frozen, call)
             IN /\ Delta(pair.base, pair.treated, Scene(call), 0) = 0
                /\ call.bundle = "logged_world" /\ call \in DOMAIN Scalars(r) =>
                     LET scalar == Scalars(r)[call]
                     IN scalar.impulse = 0 /\ ~scalar.responded /\ scalar.loss = 0
  <2>1. PICK k \in 1 .. Len(q) : call = q[k] /\ PairIsDone(q[k])
    BY <1>3, <1>4 DEF PairCalls
  <2>2. PICK base, treated :
          base = PairOf(frozen, call).base /\ treated = PairOf(frozen, call).treated
    OBVIOUS
  <2>3. PairHolds(base, treated, call.bundle)
    BY <2>1, <2>2 DEF Compared
  <2>4. \A c \in {"identity", "primary_brake"} : CalledBy(q, k, c, "eager_pass_1")
    BY <1>1, <2>1, PairsCalled
  <2>5. \A c \in {"identity", "primary_brake"} : frozen[Is(call, c, "eager_pass_1")] \in Outputs
    BY <1>1, <1>2, <2>1, <2>4 DEF CalledBy
  <2>6. /\ base = OutputOf[frozen[Is(call, "identity", "eager_pass_1")]]
        /\ treated = OutputOf[frozen[Is(call, "primary_brake", "eager_pass_1")]]
    BY <2>2 DEF PairOf
  <2>7. \A t \in Steps : base.frames[t] \in Frame /\ treated.frames[t] \in Frame
    BY <2>5, <2>6, OutputIs
  <2>8. Scene(call) \in DOMAIN Source
    BY <1>1, <2>1 DEF AreCalls
  <2>9. /\ Delta(base, treated, Scene(call), 0) = 0
        /\ call.bundle = "logged_world" =>
             LET measures == Measures(base, treated, Scene(call))
             IN  measures.impulse = 0 /\ ~measures.responded /\ measures.loss = 0
    BY <2>3, <2>7, <2>8, NoResponse
  <2>10. call \in DOMAIN Scalars(r) => Scalars(r)[call] = Measures(base, treated, Scene(call))
    BY <2>2 DEF Scalars
  <2> QED
    BY <2>2, <2>9, <2>10
<1> QED
  BY <1>2, <1>3, <1>4, <1>5, <1>6 DEF Witnesses

-----------------------------------------------------------------------------
(* The steps of a run and of the runtime *)

\* A run that is executing: it holds the authority, and no other run has got as far.
LEMMA Alone ==
  ASSUME AuthorityInv, ExecutionInv, NEW r \in Runs, at[r] = "running"
  PROVE  /\ \A s \in Runs : s # r => at[s] \notin {"opening", "running", "raised", "issued"}
         /\ evidence = NoEvidence
<1>1. \A s \in Runs : s # r => at[s] \notin {"opening", "running", "raised", "issued"}
  BY DEF AuthorityInv, OneClaims, Started, Runs
<1> QED
  BY <1>1 DEF ExecutionInv

\* What is known of a run that is executing.
LEMMA InContext ==
  ASSUME ExecutionInv, NEW r \in Runs, at[r] = "running", NEW q, q = Calls(r)
  PROVE  Context(q, 1 .. Positions(r)) /\ Compared(r, q) /\ r \in {"official", "pilot"}
<1>1. cohort \in Cohorts /\ quirk \in Quirks /\ faults \in Nat /\ r \in {"official", "pilot"}
  BY DEF ExecutionInv
<1>2. Shape(q) /\ Truth(q) /\ Compared(r, q)
  BY DEF ExecutionInv, Executes
<1>3. AreCalls(q, 1 .. Positions(r))
  BY <1>1, CallsOfRunAre
<1> QED
  BY <1>1, <1>2, <1>3 DEF Context

\* A step of an execution that goes on.
LEMMA GoesOn ==
  ASSUME AuthorityInv, ExecutionInv, NEW r \in Runs, at[r] = "running",
         UNCHANGED <<cohort, quirk, at>>,
         NEW q, q = Calls(r), Shape(q)', Truth(q)', Compared(r, q)', faults' \in Nat
  PROVE  ExecutionInv'
<1>1. /\ Runs' = Runs /\ at' = at
      /\ at \in [Runs -> Asking \union Holding \union {"flagging", "refused"}]
  BY DEF Runs, AuthorityInv, TypeOK
<1>2. /\ \A s \in Runs : s # r => at[s] \notin {"opening", "running", "raised", "issued"}
  BY Alone
<1>3. evidence' = NoEvidence
  BY DEF Shape
<1>4. Calls(r)' = q
  BY SameCalls
<1>5. Executes(r)'
  BY <1>4 DEF Executes
<1>6. \A s \in Runs' : at'[s] = "running" => Executes(s)'
  BY <1>1, <1>2, <1>5
<1>7. HonestRunIsIssued'
  BY <1>1, <1>2 DEF HonestRunIsIssued, Runs
<1>8. EvidenceIsWitnessed'
  BY <1>3 DEF EvidenceIsWitnessed
<1>9. cohort' \in Cohorts /\ quirk' \in Quirks /\ Runs' \subseteq {"official", "pilot"}
  BY <1>1 DEF ExecutionInv
<1>10. ~(\A s \in Runs' : at'[s] \notin {"running", "raised", "issued"})
  BY <1>1
<1> QED
  BY <1>3, <1>6, <1>7, <1>8, <1>9, <1>10 DEF ExecutionInv

\* A step of an execution that raises, which no honest one does.
LEMMA GoesWrong ==
  ASSUME AuthorityInv, ExecutionInv, NEW r \in Runs, at[r] = "running",
         UNCHANGED <<cohort, quirk, memory>>,
         Raise(r), faults > 0 \/ quirk \notin Honestly
  PROVE  ExecutionInv'
<1>1. /\ at \in [Runs -> Asking \union Holding \union {"flagging", "refused"}]
      /\ at' = [at EXCEPT ![r] = "raised"] /\ UNCHANGED <<results, faults>>
  BY DEF AuthorityInv, TypeOK, Raise, memory
<1>2. /\ Runs' = Runs /\ at'[r] = "raised" /\ \A s \in Runs : s # r => at'[s] = at[s]
  BY <1>1 DEF Runs
<1>3. /\ \A s \in Runs : s # r => at[s] \notin {"opening", "running", "raised", "issued"}
      /\ evidence = NoEvidence
  BY Alone
<1>4. evidence' = NoEvidence
  BY <1>1, <1>3 DEF results
<1>5. \A s \in Runs' : at'[s] # "running"
  BY <1>2, <1>3
<1>6. faults' > 0 \/ quirk' \in {"early", "loose"}
  <2>1. quirk \in Quirks
    BY DEF ExecutionInv
  <2> QED
    BY <1>1, <2>1 DEF Quirks, Honestly
<1>7. HonestRunIsIssued'
  BY <1>6 DEF HonestRunIsIssued
<1>8. EvidenceIsWitnessed'
  BY <1>4 DEF EvidenceIsWitnessed
<1>9. /\ cohort' \in Cohorts /\ quirk' \in Quirks /\ faults' \in Nat
      /\ Runs' \subseteq {"official", "pilot"}
  BY <1>1, <1>2 DEF ExecutionInv
<1>10. ~(\A s \in Runs' : at'[s] \notin {"running", "raised", "issued"})
  BY <1>2
<1> QED
  BY <1>4, <1>5, <1>7, <1>8, <1>9, <1>10 DEF ExecutionInv

\* Evidence is issued of what was computed, and by a run that nothing is wrong with.
LEMMA IssueKeeps ==
  ASSUME AuthorityInv, ExecutionInv, NEW r \in Runs, Issue(r)
  PROVE  ExecutionInv'
<1>1. PICK q : q = Calls(r)
  OBVIOUS
<1>2. at[r] = "running" /\ done = Len(q) /\ UNCHANGED <<cohort, quirk, memory>>
  BY <1>1 DEF Issue
<1>3. Context(q, 1 .. Positions(r)) /\ Compared(r, q) /\ r \in {"official", "pilot"}
  BY <1>1, <1>2, InContext
<1>4. CASE ~(TableHolds(r) /\ Range(Selection) \intersect touched = {})
  <2>1. Raise(r)
    BY <1>4 DEF Issue
  <2>2. faults > 0
    <3>1. faults # 0
      BY <1>1, <1>2, <1>3, <1>4, NoIssueRaises
    <3> QED
      BY <1>3, <3>1 DEF Context
  <2> QED
    BY <1>2, <2>1, <2>2, GoesWrong
<1>5. CASE TableHolds(r) /\ Range(Selection) \intersect touched = {}
  <2>1. PICK issued : issued = [run |-> r, scalars |-> Scalars(r)]
    OBVIOUS
  <2>2. /\ at' = [at EXCEPT ![r] = "issued"] /\ evidence' = issued
        /\ UNCHANGED <<done, frozen, computed, touched, faults>>
    BY <1>2, <1>5, <2>1 DEF Issue, memory
  <2>3. /\ at \in [Runs -> Asking \union Holding \union {"flagging", "refused"}]
    BY DEF AuthorityInv, TypeOK
  <2>4. /\ Runs' = Runs /\ at'[r] = "issued" /\ \A s \in Runs : s # r => at'[s] = at[s]
    BY <2>2, <2>3 DEF Runs
  <2>5. /\ \A s \in Runs : s # r => at[s] \notin {"opening", "running", "raised", "issued"}
    BY <1>2, Alone
  <2>6. EvidenceIsWitnessed'
    <3>1. SUFFICES ASSUME faults <= 1 PROVE Witnesses(issued)'
      BY <2>2 DEF EvidenceIsWitnessed, Witnesses
    <3>2. Witnesses(issued)
      BY <1>1, <1>2, <1>3, <1>5, <2>1, <3>1, IssueWitnesses
    <3>3. /\ \A s : Calls(s)' = Calls(s)
          /\ \A call : Scene(call)' = Scene(call)
      BY <1>2, SameCalls
    <3>4. \A s : PairCalls(s)' = PairCalls(s)
      BY <3>3 DEF PairCalls
    <3>5. \A call : PairOf(frozen, call)' = PairOf(frozen, call)
      BY <2>2 DEF PairOf
    <3> QED
      BY <2>2, <3>2, <3>3, <3>4, <3>5 DEF Witnesses
  <2>7. HonestRunIsIssued'
    BY <2>4, <2>5 DEF HonestRunIsIssued, Runs
  <2>8. \A s \in Runs' : at'[s] # "running"
    BY <2>4, <2>5
  <2>9. /\ cohort' \in Cohorts /\ quirk' \in Quirks /\ faults' \in Nat
        /\ Runs' \subseteq {"official", "pilot"}
    BY <1>2, <2>2, <2>4 DEF ExecutionInv
  <2>10. (\E s \in Runs' : at'[s] = "issued")
         /\ ~(\A s \in Runs' : at'[s] \notin {"running", "raised", "issued"})
    BY <2>4
  <2> QED
    BY <2>6, <2>7, <2>8, <2>9, <2>10 DEF ExecutionInv
<1> QED
  BY <1>4, <1>5

\* Every step of a run that executes.
LEMMA RunKeeps ==
  ASSUME AuthorityInv, ExecutionInv, NEW r \in Runs, Run(r)
  PROVE  ExecutionInv'
<1>1. PICK q : q = Calls(r)
  OBVIOUS
<1>2. PICK P : P = 1 .. Positions(r)
  OBVIOUS
<1>3. ASSUME at[r] = "running"
      PROVE  Context(q, P) /\ Compared(r, q) /\ done \in Nat /\ Len(q) \in Nat
  <2>1. Context(q, P) /\ Compared(r, q)
    BY <1>1, <1>2, <1>3, InContext
  <2> QED
    BY <2>1 DEF Context, AreCalls, Shape
<1>4. CASE Execute(r)
  <2>1. /\ at[r] = "running" /\ done < Len(q) /\ buffer = 0 /\ UNCHANGED <<cohort, quirk>>
        /\ NextCall(r) = q[done + 1]
    BY <1>1, <1>4 DEF Execute, Running, NextCall
  <2>2. CASE JitRaises(q[done + 1])
    <3>1. Raise(r) /\ UNCHANGED memory
      BY <1>4, <2>1, <2>2 DEF Execute
    <3>2. faults # 0 /\ faults \in Nat
      BY <1>3, <2>1, <2>2, NoJitRaises DEF Context
    <3> QED
      BY <2>1, <3>1, <3>2, GoesWrong
  <2>3. CASE ~JitRaises(q[done + 1])
    <3>1. Shape(q)' /\ Truth(q)' /\ Compared(r, q)' /\ faults' \in Nat /\ UNCHANGED at
      BY <1>1, <1>3, <1>4, <2>1, <2>3, ExecuteKeeps
    <3> QED
      BY <1>1, <2>1, <3>1, GoesOn
  <2> QED
    BY <2>2, <2>3
<1>5. CASE Check(r)
  <2>1. /\ at[r] = "running" /\ buffer # 0 /\ ~checked /\ UNCHANGED <<cohort, quirk>>
        /\ NextCall(r) = q[done + 1]
    BY <1>1, <1>5 DEF Check, Running, NextCall
  <2>2. CASE ~(IsFresh(buffer) /\ Holds(heap[buffer], q[done + 1]))
    <3>1. Raise(r) /\ UNCHANGED memory
      BY <1>5, <2>1, <2>2 DEF Check
    <3>2. (faults # 0 \/ quirk \notin Honestly) /\ faults \in Nat
      BY <1>3, <2>1, <2>2, NoCheckRaises DEF Context
    <3> QED
      BY <2>1, <3>1, <3>2, GoesWrong
  <2>3. CASE IsFresh(buffer) /\ Holds(heap[buffer], q[done + 1])
    <3>1. Shape(q)' /\ Truth(q)' /\ Compared(r, q)' /\ faults' \in Nat /\ UNCHANGED at
      BY <1>1, <1>3, <1>5, <2>1, <2>3, CheckKeeps
    <3> QED
      BY <1>1, <2>1, <3>1, GoesOn
  <2> QED
    BY <2>2, <2>3
<1>6. CASE Freeze(r)
  <2>1. /\ at[r] = "running" /\ checked /\ UNCHANGED <<cohort, quirk>>
        /\ NextCall(r) = q[done + 1]
    BY <1>1, <1>6 DEF Freeze, Running, NextCall
  <2>2. CASE ~CopyHolds(r, With(frozen, q[done + 1], heap[buffer]), q[done + 1])
    <3>1. Raise(r) /\ UNCHANGED memory
      BY <1>6, <2>1, <2>2 DEF Freeze
    <3>2. (faults # 0 \/ quirk \notin Honestly) /\ faults \in Nat
      BY <1>3, <2>1, <2>2, NoFreezeRaises DEF Context
    <3> QED
      BY <2>1, <3>1, <3>2, GoesWrong
  <2>3. CASE CopyHolds(r, With(frozen, q[done + 1], heap[buffer]), q[done + 1])
    <3>1. Shape(q)' /\ Truth(q)' /\ Compared(r, q)' /\ faults' \in Nat /\ UNCHANGED at
      BY <1>1, <1>3, <1>6, <2>1, <2>3, FreezeKeeps
    <3> QED
      BY <1>1, <2>1, <3>1, GoesOn
  <2> QED
    BY <2>2, <2>3
<1> QED
  BY <1>4, <1>5, <1>6, IssueKeeps DEF Run

\* A buffer that changes after it was given away: the copies and what was computed stay.
LEMMA LateKeeps ==
  ASSUME AuthorityInv, ExecutionInv, WriteLate
  PROVE  ExecutionInv'
<1>1. /\ evidence = NoEvidence /\ faults' = faults + 1
      /\ UNCHANGED <<cohort, quirk, at, buffer, checked, priors, computed, kernels, touched,
                     done, frozen, evidence>>
      /\ \E b \in DOMAIN heap : \E output \in Altered(heap[b]) : heap' = [heap EXCEPT ![b] = output]
  BY DEF WriteLate, authority, results
<1>2. faults \in Nat /\ Runs' = Runs /\ faults' # 0 /\ faults' \in Nat /\ faults' > 0
  BY <1>1 DEF ExecutionInv, Runs
<1>3. CASE \E r \in Runs : at[r] = "running"
  <2>1. PICK r \in Runs : at[r] = "running"
    BY <1>3
  <2>2. PICK q : q = Calls(r)
    OBVIOUS
  <2>3. PICK P : P = 1 .. Positions(r)
    OBVIOUS
  <2>4. Context(q, P) /\ Compared(r, q)
    BY <2>1, <2>2, <2>3, InContext
  <2>5. heap \in Seq(Outputs) /\ Len(heap) \in Nat /\ DOMAIN heap = 1 .. Len(heap)
    BY <2>4 DEF Context, Shape
  <2>6. PICK b \in 1 .. Len(heap) :
          \E output \in Altered(heap[b]) : heap' = [heap EXCEPT ![b] = output]
    BY <1>1, <2>5
  <2>7. PICK output \in Altered(heap[b]) : heap' = [heap EXCEPT ![b] = output]
    BY <2>6
  <2>8. heap[b] \in Outputs /\ output \in Outputs
    BY <2>5, <2>7, AlteredAre
  <2>9. /\ heap' \in Seq(Outputs) /\ Len(heap)' = Len(heap)
        /\ \A k \in 1 .. Len(heap) : k # b => heap'[k] = heap[k]
    BY <2>5, <2>7, <2>8
  <2>10. Shape(q)'
    <3>1. /\ evidence = NoEvidence /\ done \in 0 .. Len(q)
          /\ buffer \in Nat /\ checked \in BOOLEAN
          /\ \/ buffer = 0 /\ Len(heap) = done /\ ~checked
             \/ buffer = done + 1 /\ Len(heap) = done + 1 /\ done < Len(q)
             \/ buffer \in 1 .. done /\ Len(heap) = done /\ ~checked /\ faults > 0
          /\ priors \in Seq(Nat) /\ Range(priors) = 1 .. IF checked THEN done + 1 ELSE done
          /\ DOMAIN frozen = {q[k] : k \in 1 .. done}
          /\ DOMAIN computed = {q[k] : k \in 1 .. Len(heap)}
          /\ \A k \in 1 .. done : frozen[q[k]] \in Outputs
      BY <2>4 DEF Context, Shape
    <3>2. Range(priors)' = Range(priors)
      BY <1>1 DEF Range
    <3> QED
      BY <1>1, <1>2, <2>9, <3>1, <3>2 DEF Shape
  <2>11. Truth(q)'
    <3>1. SUFFICES ASSUME faults' <= 1
                   PROVE  \A k \in 1 .. Len(heap) : Told(q[k], k)' /\ (k # b => Right(q[k], k)')
      <4>1. b \in 0 .. Len(heap) /\ Len(heap)' = Len(heap)
        BY <2>5, <2>9
      <4> QED
        BY <1>2, <2>9, <4>1 DEF Truth
    <3>2. faults = 0
      BY <1>1, <1>2, <3>1
    <3>3. \A k \in 1 .. Len(heap) : Right(q[k], k)
      BY <2>4, <3>2, AllRight DEF Context
    <3>4. \A call : Honest(call)' = Honest(call)
      BY <1>1, SameCalls
    <3> QED
      BY <1>1, <2>9, <3>3, <3>4 DEF Told, Right
  <2>12. Compared(r, q)'
    BY <1>1, <2>4 DEF Compared, PassesAgree, PairOf
  <2> QED
    BY <1>1, <1>2, <2>1, <2>2, <2>10, <2>11, <2>12, GoesOn
<1>4. CASE \A r \in Runs : at[r] \notin {"running", "raised", "issued"}
  <2>1. heap = <<>>
    BY <1>4 DEF ExecutionInv, Untouched
  <2> QED
    BY <1>1, <2>1
<1>5. CASE \A r \in Runs : at[r] # "running"
  <2>1. HonestRunIsIssued' /\ EvidenceIsWitnessed'
    BY <1>1, <1>2 DEF HonestRunIsIssued, EvidenceIsWitnessed
  <2>2. CASE \E r \in Runs : at[r] \in {"raised", "issued"}
    <3>1. /\ cohort' \in Cohorts /\ quirk' \in Quirks /\ Runs' \subseteq {"official", "pilot"}
      BY <1>1, <1>2 DEF ExecutionInv
    <3> QED
      BY <1>1, <1>2, <1>5, <2>1, <2>2, <3>1 DEF ExecutionInv
  <2> QED
    BY <1>4, <1>5, <2>2
<1> QED
  BY <1>3, <1>5

\* What the runs of an authority do before they execute: one opens the executors, where
\* nothing has happened.
LEMMA AuthorizeKeeps ==
  ASSUME AuthorityInv, ExecutionInv, NEW r \in Runs, Authorize(r)
  PROVE  ExecutionInv'
<1> DEFINE Far == {"running", "raised", "issued"}
<1>1. UNCHANGED <<cohort, quirk, memory, results>>
  BY DEF Authorize, ValidateInputs, ValidatedInputs, RevalidateClaim, RevalidatedClaim, Claim,
     SetFlag, RevalidateExecutors, RevalidatedExecutors, Read, Compare
<1>2. \E step : /\ at' = [at EXCEPT ![r] = step] /\ at[r] \notin Far
                /\ step \in Far => step = "running" /\ at[r] = "opening"
  <2>1. CASE ValidateInputs(r) \/ RevalidateClaim(r) \/ RevalidateExecutors(r)
    BY <2>1 DEF ValidateInputs, RevalidateClaim, RevalidateExecutors, Read
  <2>2. CASE ValidatedInputs(r) \/ RevalidatedClaim(r)
    BY <2>2 DEF ValidatedInputs, RevalidatedClaim, Compare
  <2>3. CASE RevalidatedExecutors(r)
    <3>1. at[r] = "opening" /\ \E step \in {"running", "refused"} : at' = [at EXCEPT ![r] = step]
      BY <2>3 DEF RevalidatedExecutors, Compare
    <3> QED
      BY <3>1
  <2>4. CASE Claim(r)
    <3>1. at[r] = "claimable" /\ \E step \in {"refused", "flagging"} : at' = [at EXCEPT ![r] = step]
      BY <2>4 DEF Claim
    <3> QED
      BY <3>1
  <2>5. CASE SetFlag(r)
    <3>1. at[r] = "flagging" /\ \E step \in {"claimed"} : at' = [at EXCEPT ![r] = step]
      BY <2>5 DEF SetFlag
    <3> QED
      BY <3>1
  <2> QED
    BY <2>1, <2>2, <2>3, <2>4, <2>5 DEF Authorize
<1>3. PICK step : /\ at' = [at EXCEPT ![r] = step] /\ at[r] \notin Far
                  /\ step \in Far => step = "running" /\ at[r] = "opening"
  BY <1>2
<1>4. /\ Runs' = Runs /\ at'[r] = step /\ \A s \in Runs : s # r => at'[s] = at[s]
  BY <1>3 DEF AuthorityInv, TypeOK, Runs
<1>5. UNCHANGED <<done, frozen, evidence, heap, buffer, checked, priors, computed, kernels,
                  touched, faults>>
  BY <1>1 DEF memory, results
<1>6. Untouched => Untouched'
  BY <1>5 DEF Untouched
<1>7. /\ \A s : Calls(s)' = Calls(s)
      /\ \A call : Scene(call)' = Scene(call) /\ Honest(call)' = Honest(call)
  BY <1>1, SameCalls
<1>8. \A s : Executes(s) => Executes(s)'
  <2>1. \A q : Shape(q) => Shape(q)'
    BY <1>5 DEF Shape, Range
  <2>2. \A call, k : (Right(call, k) => Right(call, k)') /\ (Told(call, k) => Told(call, k)')
    BY <1>5, <1>7 DEF Right, Told
  <2>3. \A q : Truth(q) => Truth(q)'
    BY <1>5, <2>2 DEF Truth
  <2>4. \A s, q : Compared(s, q) => Compared(s, q)'
    BY <1>5 DEF Compared, PassesAgree, PairOf
  <2> QED
    BY <1>7, <2>1, <2>3, <2>4 DEF Executes
<1>9. ASSUME step = "running" PROVE Executes(r)'
  <2>1. \A s \in Runs : at[s] \notin Far
    <3>1. at[r] = "opening"
      BY <1>3, <1>9
    <3> QED
      BY <3>1 DEF AuthorityInv, OneClaims, Started, Runs
  <2>2. Untouched'
    BY <1>6, <2>1 DEF ExecutionInv
  <2>3. PICK q : q = Calls(r)'
    OBVIOUS
  <2>4. Len(q) \in Nat
    <3>1. AreCalls(q, 1 .. Positions(r))
      BY <1>7, <2>3, CallsOfRunAre DEF ExecutionInv
    <3> QED
      BY <3>1 DEF AreCalls
  <2>5. Shape(q)'
    <3>1. /\ done' = 0 /\ frozen' = NoFunction /\ evidence' = NoEvidence
          /\ heap' = <<>> /\ buffer' = 0 /\ checked' = FALSE /\ priors' = <<>>
          /\ computed' = NoFunction
      BY <2>2 DEF Untouched
    <3>2. DOMAIN NoFunction = {} /\ 1 .. 0 = {} /\ 0 \in 0 .. Len(q)
      BY <2>4 DEF NoFunction
    <3>3. /\ heap' \in Seq(Outputs) /\ Len(heap)' = 0
          /\ priors' \in Seq(Nat) /\ Range(priors)' = {}
      BY <3>1 DEF Range
    <3>4. Range(priors)' = 1 .. IF checked' THEN done' + 1 ELSE done'
      BY <3>1, <3>2, <3>3
    <3>5. /\ DOMAIN frozen' = {q[k] : k \in 1 .. done'}
          /\ DOMAIN computed' = {q[k] : k \in 1 .. Len(heap)'}
      BY <3>1, <3>2, <3>3
    <3>6. /\ buffer' \in Nat /\ checked' \in BOOLEAN /\ done' \in 0 .. Len(q)
          /\ buffer' = 0 /\ Len(heap)' = done' /\ ~checked'
          /\ \A k \in 1 .. done' : frozen'[q[k]] \in Outputs
      BY <3>1, <3>2, <3>3
    <3> QED
      BY <3>1, <3>3, <3>4, <3>5, <3>6 DEF Shape
  <2>6. Truth(q)'
    BY <2>2 DEF Untouched, Truth
  <2>7. Compared(r, q)'
    BY <2>2 DEF Untouched, Compared
  <2> QED
    BY <2>3, <2>5, <2>6, <2>7 DEF Executes
<1>10. \A s \in Runs' : at'[s] = "running" => Executes(s)'
  BY <1>4, <1>8, <1>9 DEF ExecutionInv
<1>11. (\A s \in Runs' : at'[s] \notin Far) => Untouched'
  BY <1>3, <1>4, <1>6 DEF ExecutionInv
<1>12. evidence' # NoEvidence => \E s \in Runs' : at'[s] = "issued"
  BY <1>3, <1>4, <1>5 DEF ExecutionInv
<1>13. HonestRunIsIssued'
  BY <1>1, <1>3, <1>4, <1>5 DEF ExecutionInv, HonestRunIsIssued, Runs
<1>14. EvidenceIsWitnessed'
  <2>1. \A s : PairCalls(s)' = PairCalls(s)
    BY <1>7 DEF PairCalls
  <2>2. \A call : PairOf(frozen, call)' = PairOf(frozen, call)
    BY <1>5 DEF PairOf
  <2> QED
    BY <1>5, <1>7, <2>1, <2>2 DEF ExecutionInv, EvidenceIsWitnessed
<1>15. /\ cohort' \in Cohorts /\ quirk' \in Quirks /\ faults' \in Nat
       /\ Runs' \subseteq {"official", "pilot"}
  BY <1>1, <1>4, <1>5 DEF ExecutionInv
<1> QED
  BY <1>10, <1>11, <1>12, <1>13, <1>14, <1>15 DEF ExecutionInv

\* Nothing changes.
LEMMA StutterKeeps ==
  ASSUME ExecutionInv, UNCHANGED vars
  PROVE  ExecutionInv'
<1>1. UNCHANGED <<cohort, quirk, at, done, frozen, evidence, heap, buffer, checked, priors,
                  computed, kernels, touched, faults>>
  BY DEF vars, authority, memory, results
<1>2. /\ \A s : Calls(s)' = Calls(s)
      /\ \A call : Scene(call)' = Scene(call) /\ Honest(call)' = Honest(call)
  BY <1>1, SameCalls
<1>3. \A s : Executes(s) => Executes(s)'
  <2>1. \A q : Shape(q) => Shape(q)'
    BY <1>1 DEF Shape, Range
  <2>2. \A call, k : (Right(call, k) => Right(call, k)') /\ (Told(call, k) => Told(call, k)')
    BY <1>1, <1>2 DEF Right, Told
  <2>3. \A q : Truth(q) => Truth(q)'
    BY <1>1, <2>2 DEF Truth
  <2>4. \A s, q : Compared(s, q) => Compared(s, q)'
    BY <1>1 DEF Compared, PassesAgree, PairOf
  <2> QED
    BY <1>2, <2>1, <2>3, <2>4 DEF Executes
<1>4. EvidenceIsWitnessed'
  <2>1. \A s : PairCalls(s)' = PairCalls(s)
    BY <1>2 DEF PairCalls
  <2>2. \A call : PairOf(frozen, call)' = PairOf(frozen, call)
    BY <1>1 DEF PairOf
  <2> QED
    BY <1>1, <1>2, <2>1, <2>2 DEF ExecutionInv, EvidenceIsWitnessed
<1> QED
  BY <1>1, <1>3, <1>4 DEF ExecutionInv, Runs, Untouched, HonestRunIsIssued

\* Nothing has happened before the first step.
LEMMA InitExecution == Init => ExecutionInv
<1> SUFFICES ASSUME Init PROVE ExecutionInv
  OBVIOUS
<1>1. PICK c \in Cohorts, q \in Quirks : \E runs \in Holders[c] : InitOf(c, q, runs)
  BY DEF Init
<1>2. PICK runs \in Holders[c] : InitOf(c, q, runs)
  BY <1>1
<1>3. runs \subseteq {"official", "pilot"}
  BY KindsAssumption
<1>4. /\ Runs = runs /\ \A r \in Runs : at[r] = "start"
  BY <1>2 DEF InitOf, Runs
<1>5. Untouched
  BY <1>2 DEF InitOf, Untouched
<1>6. cohort \in Cohorts /\ quirk \in Quirks
  BY <1>1, <1>2 DEF InitOf
<1> QED
  BY <1>3, <1>4, <1>5, <1>6
     DEF ExecutionInv, Untouched, HonestRunIsIssued, EvidenceIsWitnessed, Runs

\* Every step keeps what is said of an execution.
LEMMA ExecutionStep == AuthorityInv /\ ExecutionInv /\ [Next]_vars => ExecutionInv'
<1> SUFFICES ASSUME AuthorityInv, ExecutionInv, [Next]_vars PROVE ExecutionInv'
  OBVIOUS
<1>1. CASE \E r \in Runs : Authorize(r) \/ Run(r)
  BY <1>1, AuthorizeKeeps, RunKeeps
<1>2. CASE WriteLate
  BY <1>2, LateKeeps
<1>3. CASE UNCHANGED vars
  BY <1>3, StutterKeeps
<1> QED
  BY <1>1, <1>2, <1>3 DEF Next, Runs

\* So it always holds.
LEMMA ExecutionInvariant == Spec => []ExecutionInv
<1>1. AuthorityInv /\ ExecutionInv /\ [Next]_vars => ExecutionInv'
  BY ExecutionStep
<1> QED
  BY <1>1, InitExecution, AuthorityInvariant, PTL DEF Spec

-----------------------------------------------------------------------------
(* What follows for an execution *)

\* For every cohort, log and pulse and any number of transitions and scenes: the checks of
\* m6_waymax_official.py and m6_waymax_metrics.py refuse no run of honest executors.
THEOREM HonestRunSafety == Spec => []HonestRunIsIssued
<1>1. ExecutionInv => HonestRunIsIssued
  BY DEF ExecutionInv
<1> QED
  BY <1>1, ExecutionInvariant, PTL

\* And what an official run issues, if the executors did worse than their quirk at most
\* once, was computed by them in every pass, for sources that nobody touched, and shows no
\* response where there can be none.
THEOREM EvidenceSafety == Spec => []EvidenceIsWitnessed
<1>1. ExecutionInv => EvidenceIsWitnessed
  BY DEF ExecutionInv
<1> QED
  BY <1>1, ExecutionInvariant, PTL
=============================================================================
