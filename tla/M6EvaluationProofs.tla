--------------------------- MODULE M6EvaluationProofs ---------------------------
(***************************************************************************)
(* Proofs about the paired evaluation of M6Evaluation, and about the       *)
(* tables that M6Official derives from its result, for any number of cases *)
(* and agents, any horizon and whatever the caller changes meanwhile.      *)
(*                                                                         *)
(* The inductive invariant is EvaluationInv: a run that is under way is    *)
(* what the engine makes of the source so far, a run that is kept is what  *)
(* it made of it, and the scenes follow the order of the cases and         *)
(* policies. ComparedHold adds what a comparison has established of the    *)
(* cases it has passed, and IssuedHold that the tables are derived from a  *)
(* result that does not change any more.                                   *)
(***************************************************************************)
EXTENDS M6Official, FiniteSetTheorems, TLAPS

-----------------------------------------------------------------------------
(* Induction, over what is in a set *)

\* What holds of nought and of the successor of whatever it holds of.
LEMMA UpFromZero ==
  ASSUME NEW Good, 0 \in Good, \A n \in Nat : n \in Good => n + 1 \in Good
  PROVE  Nat \subseteq Good
<1> DEFINE Bad == {n \in Nat : n \notin Good}
           R == OpToRel(<, Nat)
<1>1. SUFFICES ASSUME Bad # {} PROVE FALSE
  OBVIOUS
<1>2. PICK n \in Bad : \A k \in Bad : <<k, n>> \notin R
  <2>1. IsWellFoundedOn(R, Nat)
    BY NatLessThanWellFounded
  <2>2. Bad \subseteq Nat
    OBVIOUS
  <2> HIDE DEF Bad, R
  <2> QED
    BY <1>1, <2>1, <2>2, WFMin
<1>3. n \in Nat /\ n # 0
  OBVIOUS
<1>4. \A k \in Bad : ~(k < n)
  BY <1>2, Zenon DEF OpToRel
<1>5. n - 1 \in Good
  BY <1>3, <1>4
<1> QED
  BY <1>3, <1>5

\* The same between two numbers.
LEMMA UpThrough ==
  ASSUME NEW low \in Int, NEW high \in Int, NEW Good, low \in Good,
         \A n \in low..(high - 1) : n \in Good => n + 1 \in Good
  PROVE  low..high \subseteq Good
<1> DEFINE Reached == {n \in Nat : low + n <= high => low + n \in Good}
<1>1. 0 \in Reached
  OBVIOUS
<1>2. ASSUME NEW n \in Nat, n \in Reached PROVE n + 1 \in Reached
  BY <1>2
<1>3. Nat \subseteq Reached
  <2> HIDE DEF Reached
  <2> QED
    BY <1>1, <1>2, UpFromZero
<1>4. ASSUME NEW n \in low..high PROVE n \in Good
  <2>1. n - low \in Nat /\ low + (n - low) = n
    OBVIOUS
  <2>2. n - low \in Reached
    BY <1>3, <2>1
  <2> QED
    BY <2>1, <2>2
<1> QED
  BY <1>4

\* What holds of a finite set if it does of the set without any one of its members.
LEMMA UpFromEmpty ==
  ASSUME NEW S, IsFiniteSet(S), NEW Good,
         \A T \in SUBSET S : (\A x \in T : T \ {x} \in Good) => T \in Good
  PROVE  SUBSET S \subseteq Good
<1> DEFINE Bad == {T \in SUBSET S : T \notin Good}
           R == StrictSubsetOrdering(S)
<1>1. SUFFICES ASSUME Bad # {} PROVE FALSE
  OBVIOUS
<1>2. PICK T \in Bad : \A U \in Bad : <<U, T>> \notin R
  <2>1. IsWellFoundedOn(R, SUBSET S)
    BY FS_StrictSubsetOrderingWellFounded, FS_FiniteSubsetsOfFinite
  <2>2. Bad \subseteq SUBSET S
    OBVIOUS
  <2> HIDE DEF Bad, R
  <2> QED
    BY <1>1, <2>1, <2>2, WFMin
<1>3. ASSUME NEW x \in T PROVE T \ {x} \in Good
  <2>1. <<T \ {x}, T>> \in R
    BY <1>2 DEF StrictSubsetOrdering
  <2> QED
    BY <1>2, <2>1
<1> QED
  BY <1>2, <1>3

-----------------------------------------------------------------------------
(* The least and the greatest *)

\* The least of a finite set of integers is in it and below the rest.
LEMMA MinIsLeast ==
  ASSUME NEW S \in SUBSET Int, IsFiniteSet(S), S # {}
  PROVE  Min(S) \in S /\ \A x \in S : Min(S) <= x
<1> DEFINE Good == {T \in SUBSET S : T = {} \/ \E x \in T : \A y \in T : x <= y}
<1>1. ASSUME NEW T \in SUBSET S, \A x \in T : T \ {x} \in Good PROVE T \in Good
  <2>1. CASE T = {}
    BY <2>1
  <2>2. CASE T # {}
    <3>1. PICK a \in T : TRUE
      BY <2>2
    <3>2. CASE T \ {a} = {}
      BY <3>1, <3>2
    <3>3. CASE T \ {a} # {}
      <4>1. PICK b \in T \ {a} : \A y \in T \ {a} : b <= y
        BY <1>1, <3>1, <3>3
      <4>2. CASE a <= b
        <5>1. \A y \in T : a <= y
          BY <4>1, <4>2
        <5> QED
          BY <5>1
      <4>3. CASE b <= a
        <5>1. \A y \in T : b <= y
          BY <4>1, <4>3
        <5> QED
          BY <4>1, <5>1
      <4> QED
        BY <4>2, <4>3
    <3> QED
      BY <3>2, <3>3
  <2> QED
    BY <2>1, <2>2
<1>2. S \in Good
  <2>1. SUBSET S \subseteq Good
    <3> HIDE DEF Good
    <3> QED
      BY <1>1, UpFromEmpty
  <2> QED
    BY <2>1
<1> QED
  BY <1>2 DEF Min

\* The greatest of a finite set of integers is in it and above the rest.
LEMMA MaxIsGreatest ==
  ASSUME NEW S \in SUBSET Int, IsFiniteSet(S), S # {}
  PROVE  Max(S) \in S /\ \A x \in S : x <= Max(S)
<1> DEFINE Good == {T \in SUBSET S : T = {} \/ \E x \in T : \A y \in T : y <= x}
<1>1. ASSUME NEW T \in SUBSET S, \A x \in T : T \ {x} \in Good PROVE T \in Good
  <2>1. CASE T = {}
    BY <2>1
  <2>2. CASE T # {}
    <3>1. PICK a \in T : TRUE
      BY <2>2
    <3>2. CASE T \ {a} = {}
      BY <3>1, <3>2
    <3>3. CASE T \ {a} # {}
      <4>1. PICK b \in T \ {a} : \A y \in T \ {a} : y <= b
        BY <1>1, <3>1, <3>3
      <4>2. CASE b <= a
        <5>1. \A y \in T : y <= a
          BY <4>1, <4>2
        <5> QED
          BY <5>1
      <4>3. CASE a <= b
        <5>1. \A y \in T : y <= b
          BY <4>1, <4>3
        <5> QED
          BY <4>1, <5>1
      <4> QED
        BY <4>2, <4>3
    <3> QED
      BY <3>2, <3>3
  <2> QED
    BY <2>1, <2>2
<1>2. S \in Good
  <2>1. SUBSET S \subseteq Good
    <3> HIDE DEF Good
    <3> QED
      BY <1>1, UpFromEmpty
  <2> QED
    BY <2>1
<1>3. \E x \in S : \A y \in S : x >= y
  BY <1>2
<1> QED
  BY <1>3 DEF Max

\* min(m, n), as the code writes it.
LEMMA MinOfTwo ==
  ASSUME NEW m \in Int, NEW n \in Int
  PROVE  Min({m, n}) = IF m <= n THEN m ELSE n
<1>1. \E x \in {m, n} : \A y \in {m, n} : x <= y
  OBVIOUS
<1> QED
  BY <1>1 DEF Min

\* max(m, n), as the code writes it.
LEMMA MaxOfTwo ==
  ASSUME NEW m \in Int, NEW n \in Int
  PROVE  Max({m, n}) = IF m >= n THEN m ELSE n
<1>1. \E x \in {m, n} : \A y \in {m, n} : x >= y
  OBVIOUS
<1> QED
  BY <1>1 DEF Max

\* The greatest of an interval is its end.
LEMMA MaxOfInterval ==
  ASSUME NEW m \in Int, NEW n \in Int, m <= n
  PROVE  Max(m..n) = n
<1>1. \A x \in m..n : (\A y \in m..n : x >= y) <=> x = n
  OBVIOUS
<1>2. n \in m..n
  OBVIOUS
<1> QED
  BY <1>1, <1>2 DEF Max

-----------------------------------------------------------------------------
(* Sums over finite sets *)

ChosenOf(T) == CHOOSE x \in T : TRUE

\* How SumFunction adds up f over S ...
AddsUp(sum, f, S) ==
  sum = [T \in SUBSET S |->
           IF T = {} THEN 0 ELSE f[ChosenOf(T)] + sum[T \ {ChosenOf(T)}]]

\* ... and in whatever order it could have.
Additive(sum, f, S) ==
  /\ sum \in [SUBSET S -> Int] /\ sum[{}] = 0
  /\ \A T \in SUBSET S : \A x \in T : sum[T] = f[x] + sum[T \ {x}]

\* Every finite family of integers has a sum that is built one member at a time.
LEMMA SumExists ==
  ASSUME NEW S, IsFiniteSet(S), NEW f \in [S -> Int]
  PROVE  \E sum : Additive(sum, f, S)
<1> DEFINE Good == {T \in SUBSET S : \E sum : Additive(sum, f, T)}
<1>1. ASSUME NEW T \in SUBSET S, \A x \in T : T \ {x} \in Good PROVE T \in Good
  <2>1. CASE T = {}
    <3>1. Additive([U \in SUBSET T |-> 0], f, T)
      BY <2>1 DEF Additive
    <3> QED
      BY <3>1
  <2>2. CASE T # {}
    <3>1. PICK e \in T : TRUE
      BY <2>2
    <3>2. PICK sum : Additive(sum, f, T \ {e})
      BY <1>1
    <3> DEFINE more == [U \in SUBSET T |-> IF e \in U THEN f[e] + sum[U \ {e}] ELSE sum[U]]
    <3>3. \A U \in SUBSET T : U \ {e} \in SUBSET (T \ {e}) /\ (e \notin U => U \in SUBSET (T \ {e}))
      OBVIOUS
    <3>4. \A U \in SUBSET (T \ {e}) : sum[U] \in Int
      BY <3>2 DEF Additive
    <3>5. f[e] \in Int
      BY <3>1
    <3>6. more \in [SUBSET T -> Int] /\ more[{}] = 0
      BY <3>2, <3>3, <3>4, <3>5 DEF Additive
    <3>7. ASSUME NEW U \in SUBSET T, NEW x \in U PROVE more[U] = f[x] + more[U \ {x}]
      <4>1. CASE x = e
        <5>1. more[U] = f[e] + sum[U \ {e}]
          BY <4>1
        <5>2. more[U \ {e}] = sum[U \ {e}]
          OBVIOUS
        <5> QED
          BY <4>1, <5>1, <5>2
      <4>2. CASE x # e /\ e \in U
        <5>1. (U \ {x}) \ {e} = (U \ {e}) \ {x}
          OBVIOUS
        <5>2. sum[U \ {e}] = f[x] + sum[(U \ {e}) \ {x}]
          BY <3>2, <3>3, <4>2 DEF Additive
        <5>3. more[U] = f[e] + sum[U \ {e}] /\ more[U \ {x}] = f[e] + sum[(U \ {e}) \ {x}]
          BY <4>2, <5>1
        <5>4. f[x] \in Int /\ sum[(U \ {e}) \ {x}] \in Int
          BY <3>4
        <5> QED
          BY <3>5, <5>2, <5>3, <5>4
      <4>3. CASE x # e /\ e \notin U
        <5>1. sum[U] = f[x] + sum[U \ {x}]
          BY <3>2, <3>3, <4>3 DEF Additive
        <5> QED
          BY <4>3, <5>1
      <4> QED
        BY <4>1, <4>2, <4>3
    <3>8. Additive(more, f, T)
      <4> HIDE DEF more
      <4> QED
        BY <3>6, <3>7 DEF Additive
    <3> QED
      BY <3>8
  <2> QED
    BY <2>1, <2>2
<1>2. SUBSET S \subseteq Good
  <2> HIDE DEF Good
  <2> QED
    BY <1>1, UpFromEmpty
<1> QED
  BY <1>2

\* An additive function adds up ...
LEMMA AdditiveAddsUp ==
  ASSUME NEW S, NEW f, NEW sum, Additive(sum, f, S)
  PROVE  AddsUp(sum, f, S)
<1> DEFINE Step(T) == IF T = {} THEN 0 ELSE f[ChosenOf(T)] + sum[T \ {ChosenOf(T)}]
<1>1. ASSUME NEW T \in SUBSET S PROVE sum[T] = Step(T)
  <2>1. T # {} => ChosenOf(T) \in T
    BY DEF ChosenOf
  <2> QED
    BY <2>1 DEF Additive
<1>2. sum = [T \in SUBSET S |-> sum[T]]
  BY DEF Additive
<1> QED
  BY <1>1, <1>2 DEF AddsUp

\* ... and is the only one that does.
LEMMA AddsUpIsAdditive ==
  ASSUME NEW S, IsFiniteSet(S), NEW f \in [S -> Int], NEW sum, AddsUp(sum, f, S)
  PROVE  Additive(sum, f, S)
<1>1. PICK add : Additive(add, f, S)
  BY SumExists
<1>2. AddsUp(add, f, S)
  BY <1>1, AdditiveAddsUp
<1> DEFINE Good == {T \in SUBSET S : sum[T] = add[T]}
<1>3. ASSUME NEW T \in SUBSET S, \A x \in T : T \ {x} \in Good PROVE T \in Good
  <2>1. CASE T = {}
    BY <1>2, <2>1 DEF AddsUp
  <2>2. CASE T # {}
    <3>1. ChosenOf(T) \in T
      BY <2>2 DEF ChosenOf
    <3>2. sum[T \ {ChosenOf(T)}] = add[T \ {ChosenOf(T)}]
      BY <1>3, <3>1
    <3>3. sum[T] = f[ChosenOf(T)] + sum[T \ {ChosenOf(T)}]
      BY <2>2 DEF AddsUp
    <3>4. add[T] = f[ChosenOf(T)] + add[T \ {ChosenOf(T)}]
      BY <1>2, <2>2 DEF AddsUp
    <3> QED
      BY <3>2, <3>3, <3>4
  <2> QED
    BY <2>1, <2>2
<1>4. SUBSET S \subseteq Good
  <2> HIDE DEF Good
  <2> QED
    BY <1>3, UpFromEmpty
<1>5. sum = [T \in SUBSET S |-> sum[T]] /\ add = [T \in SUBSET S |-> add[T]]
  BY <1>1 DEF AddsUp, Additive
<1>6. sum = add
  BY <1>4, <1>5
<1> QED
  BY <1>1, <1>6

\* SumFunction is the additive function, on its whole domain.
LEMMA SumIs ==
  ASSUME NEW S, IsFiniteSet(S), NEW f \in [S -> Int]
  PROVE  \E sum : Additive(sum, f, S) /\ SumFunction(f) = sum[S]
<1> DEFINE sum == CHOOSE s : AddsUp(s, f, S)
<1>1. SumFunction(f) = sum[S]
  <2>1. DOMAIN f = S
    OBVIOUS
  <2> QED
    BY <2>1 DEF SumFunction, SumFunctionOnSet, FoldFunctionOnSet, MapThenFoldSet, AddsUp, ChosenOf
<1>2. PICK add : AddsUp(add, f, S)
  BY SumExists, AdditiveAddsUp
<1>3. AddsUp(sum, f, S)
  <2> HIDE DEF AddsUp
  <2> QED
    BY <1>2
<1>4. Additive(sum, f, S)
  <2> HIDE DEF sum
  <2> QED
    BY <1>3, AddsUpIsAdditive
<1> QED
  BY <1>1, <1>4

-----------------------------------------------------------------------------
(* The dynamics *)

\* KinematicModel keeps a speed and the change of it within its limits.
LEMMA SpeedBounds ==
  ASSUME NEW state \in AgentStates, NEW raw \in Int
  PROVE  /\ CurrentSpeed(state) \in 0..MaxSpeed
         /\ BoundedAcceleration(raw) \in -MaxDeceleration..MaxAcceleration
         /\ NextSpeed(state, raw) \in 0..MaxSpeed
         /\ NextSpeed(state, raw) - CurrentSpeed(state) \in -MaxDeceleration..MaxAcceleration
<1>1. CurrentSpeed(state) \in 0..MaxSpeed
  BY LimitsAssumption DEF CurrentSpeed, Clip, AgentStates
<1>2. BoundedAcceleration(raw) \in -MaxDeceleration..MaxAcceleration
  BY LimitsAssumption DEF BoundedAcceleration, Clip
<1> QED
  BY <1>1, <1>2, LimitsAssumption DEF NextSpeed, ProposedSpeed, Clip

\* An agent never goes back and never passes the limit.
LEMMA TravelBounds ==
  ASSUME NEW state \in AgentStates, NEW raw \in Int
  PROVE  Travel(state, raw) \in 0..(4 * MaxSpeed)
<1> DEFINE v == CurrentSpeed(state)
           a == BoundedAcceleration(raw)
           w == MaxSpeed - v
<1>1. v \in 0..MaxSpeed /\ a \in -2..2 /\ MaxSpeed \in Nat \ {0}
  <2>1. v \in 0..MaxSpeed /\ a \in -MaxDeceleration..MaxAcceleration
    BY SpeedBounds
  <2> HIDE DEF v, a
  <2> QED
    BY <2>1, LimitsAssumption
<1>2. ProposedSpeed(state, raw) = v + a
  BY DEF ProposedSpeed
<1>3. CASE v + a < 0
  <2>1. Travel(state, raw) = (2 * v * v) \div (-a)
    <3>1. ProposedSpeed(state, raw) < 0 /\ ~(ProposedSpeed(state, raw) > MaxSpeed)
      BY <1>1, <1>2, <1>3
    <3> QED
      BY <3>1, Zenon DEF Travel
  <2>2. (v = 0 /\ -a \in {1, 2}) \/ (v = 1 /\ -a = 2)
    <3> HIDE DEF v, a
    <3> QED
      BY <1>1, <1>3
  <2>3. CASE v = 0 /\ -a \in {1, 2}
    <3> HIDE DEF v, a
    <3>1. 2 * v * v = 0 /\ 0 \div 1 = 0 /\ 0 \div 2 = 0
      BY <2>3
    <3> QED
      BY <1>1, <2>1, <2>3, <3>1
  <2>4. CASE v = 1 /\ -a = 2
    <3> HIDE DEF v, a
    <3>1. -a = 2
      BY <1>1, <2>4
    <3>2. 2 * v * v = 2
      BY <2>4
    <3>3. 2 \div 2 = 1
      OBVIOUS
    <3> QED
      BY <1>1, <2>1, <3>1, <3>2, <3>3
  <2> QED
    BY <2>2, <2>3, <2>4
<1>4. CASE v + a > MaxSpeed
  <2>1. Travel(state, raw) = 4 * MaxSpeed - (2 * w * w) \div a
    <3>1. ~(ProposedSpeed(state, raw) < 0) /\ ProposedSpeed(state, raw) > MaxSpeed
      BY <1>1, <1>2, <1>4
    <3> QED
      BY <3>1, Zenon DEF Travel
  <2>2. (w = 0 /\ a \in {1, 2}) \/ (w = 1 /\ a = 2)
    <3> HIDE DEF v, a
    <3> QED
      BY <1>1, <1>4
  <2>3. CASE w = 0 /\ a \in {1, 2}
    <3> HIDE DEF v, a, w
    <3>1. 2 * w * w = 0 /\ 0 \div 1 = 0 /\ 0 \div 2 = 0
      BY <2>3
    <3> QED
      BY <1>1, <2>1, <2>3, <3>1
  <2>4. CASE w = 1 /\ a = 2
    <3> HIDE DEF v, a, w
    <3>1. 2 * w * w = 2 /\ 2 \div 2 = 1
      BY <2>4
    <3> QED
      BY <1>1, <2>1, <2>4, <3>1
  <2> QED
    BY <2>2, <2>3, <2>4
<1>5. CASE ~(v + a < 0) /\ ~(v + a > MaxSpeed)
  <2>1. Travel(state, raw) = 2 * (v + NextSpeed(state, raw))
    BY <1>2, <1>5 DEF Travel
  <2> QED
    BY <1>1, <2>1, SpeedBounds
<1> QED
  BY <1>3, <1>4, <1>5

-----------------------------------------------------------------------------
(* A step of a policy, and the frame that comes of it *)

FrameStates == [Agents -> AgentStates]

\* What the follower model asks of an agent is a number.
LEMMA FollowIsNumber ==
  ASSUME NEW frame \in FrameStates, NEW a \in Agents
  PROVE  IdmAcceleration(frame, a) \in Int
<1>1. frame[a].spd \in Int
  BY DEF FrameStates, AgentStates
<1>2. FreeRoadAcceleration(frame[a].spd) \in Int
  BY <1>1, LimitsAssumption DEF FreeRoadAcceleration
<1>3. -HardBraking \in Int
  BY LimitsAssumption
<1> DEFINE v == frame[a].spd
           leader == NearestLeader(frame, a)
           gap == Gap(frame, a, leader)
           wanted == DesiredGap(v, frame[leader].spd)
<1>4. \A p, q, x, free, hard : 
        (CASE p -> free [] ~p /\ q -> hard [] ~p /\ x -> -1 [] OTHER -> free) \in {free, hard, -1}
  OBVIOUS
<1>5. IdmAcceleration(frame, a) =
         CASE Ahead(frame, a) = {} -> FreeRoadAcceleration(v)
        [] ~(Ahead(frame, a) = {}) /\ 2 * gap < wanted -> -HardBraking
        [] ~(Ahead(frame, a) = {}) /\ (gap < wanted /\ wanted <= 2 * gap) -> -1
        [] OTHER -> FreeRoadAcceleration(v)
  BY DEF IdmAcceleration
<1> QED
  BY <1>2, <1>3, <1>4, <1>5

\* A policy moves agents by an acceleration, or is log replay and puts them on the log.
LEMMA StepOf ==
  ASSUME NEW policy \in Policies, NEW log, NEW frame \in FrameStates, NEW n
  PROVE  LET step == PolicyStep(policy, log, frame, n)
         IN  /\ step.acceleration \in [Agents -> Int]
             /\ policy \in Privileged => step.mask = World /\ step.override = log[n]
             /\ policy \notin Privileged => step.mask = {}
<1>1. CASE policy = "log_replay"
  BY <1>1 DEF PolicyStep, Privileged
<1>2. CASE policy = "constant_velocity"
  BY <1>2 DEF PolicyStep, Privileged, Unforced
<1>3. CASE policy = "idm"
  BY <1>3, FollowIsNumber DEF PolicyStep, Privileged, Unforced
<1> QED
  BY <1>1, <1>2, <1>3 DEF Policies

\* Steps that a policy can take towards a frame of the log.
FitsStep(step, reference) ==
  /\ step.acceleration \in [Agents -> Int]
  /\ step.mask = {} \/ (step.mask = World /\ step.override = reference)

\* What a policy plans has the shape the engine asks for.
LEMMA PolicyFits ==
  ASSUME NEW policy \in Policies, NEW log, NEW frame \in FrameStates, NEW n
  PROVE  FitsStep(PolicyStep(policy, log, frame, n), log[n])
BY StepOf DEF FitsStep

\* The engine refuses no step of the three policies.
LEMMA StepIsAccepted ==
  ASSUME NEW policy \in Policies, NEW log, NEW frame \in FrameStates, NEW n
  PROVE  StepAccepted(policy, PolicyStep(policy, log, frame, n), log[n])
BY StepOf DEF StepAccepted

\* Where an agent of the world that is moved gets to.
Moved(state, raw) ==
  [valid |-> TRUE, pos |-> state.pos + Travel(state, raw), spd |-> NextSpeed(state, raw)]

\* The kinematic step of an agent's state is a state.
LEMMA MovedIsState ==
  ASSUME NEW state \in AgentStates, NEW raw \in Int
  PROVE  Moved(state, raw) \in AgentStates
BY TravelBounds, SpeedBounds, LimitsAssumption DEF Moved, AgentStates

\* Everyone is there who is in the log.
SameLife(next, reference) == \A a \in Agents : next[a].valid = reference[a].valid

\* An agent of the world is moved, or starts from the log, or is put there by log
\* replay, or leaves.
WorldMoves(next, frame, reference, step) ==
  \A a \in World :
    /\ step.mask = World => next[a] = reference[a]
    /\ ~frame[a].valid /\ reference[a].valid => next[a] = reference[a]
    /\ step.mask = {} /\ frame[a].valid /\ reference[a].valid =>
         next[a] = Moved(frame[a], step.acceleration[a])

\* So do they all, and the ego is put where it is told.
LEMMA NextFrameOf ==
  ASSUME NEW frame \in FrameStates, NEW reference \in FrameStates, NEW step,
         FitsStep(step, reference), NEW egoNext \in AgentStates
  PROVE  /\ NextFrame(frame, reference, step, egoNext) \in FrameStates
         /\ SameLife(NextFrame(frame, reference, step, egoNext), reference)
         /\ egoNext.valid = reference[Ego].valid =>
              NextFrame(frame, reference, step, egoNext)[Ego] = egoNext
         /\ WorldMoves(NextFrame(frame, reference, step, egoNext), frame, reference, step)
<1> DEFINE next == NextFrame(frame, reference, step, egoNext)
           moved == Integrated(frame, step.acceleration, Kinematic(frame, reference, step))
           born == Births(frame, reference)
           State(a) == CASE a = Ego -> egoNext
                         [] a \in born -> reference[a]
                         [] a \in (step.mask \ {Ego}) \ born -> step.override[a]
                         [] OTHER -> moved[a]
<1>1. next = [a \in Agents |-> [State(a) EXCEPT !.valid = reference[a].valid]]
  BY DEF NextFrame
<1>2. Ego \notin World /\ World \subseteq Agents /\ Ego \in Agents
  BY LimitsAssumption DEF Agents
<1>3. \A a \in Agents : [reference[a] EXCEPT !.valid = reference[a].valid] = reference[a]
  BY DEF FrameStates, AgentStates
<1>4. State(Ego) = egoNext
  <2>1. Ego \notin born /\ Ego \notin step.mask \ {Ego}
    BY <1>2 DEF Births
  <2> QED
    BY <2>1, Zenon
<1>5. ASSUME NEW a \in World
      PROVE  /\ step.mask = World => next[a] = reference[a]
             /\ ~frame[a].valid /\ reference[a].valid => next[a] = reference[a]
             /\ step.mask = {} /\ frame[a].valid /\ reference[a].valid =>
                  next[a] = Moved(frame[a], step.acceleration[a])
             /\ State(a) \in AgentStates
  <2>1. a # Ego /\ a \in Agents
    BY <1>2
  <2>2. a \in born <=> ~frame[a].valid /\ reference[a].valid
    BY DEF Births
  <2>3. CASE a \in born
    <3>1. State(a) = reference[a]
      BY <2>1, <2>3
    <3>2. next[a] = reference[a] /\ State(a) \in AgentStates
      BY <1>1, <1>3, <2>1, <3>1 DEF FrameStates
    <3> QED
      BY <2>2, <2>3, <3>2
  <2>4. CASE a \notin born /\ step.mask = World
    <3>1. State(a) = reference[a]
      BY <2>1, <2>4, <1>2 DEF FitsStep
    <3>2. next[a] = reference[a] /\ State(a) \in AgentStates
      BY <1>1, <1>3, <2>1, <3>1 DEF FrameStates
    <3> QED
      BY <2>2, <2>4, <3>2
  <2>5. CASE a \notin born /\ step.mask # World
    <3>1. step.mask = {} /\ step.acceleration[a] \in Int
      BY <2>5, <2>1 DEF FitsStep
    <3>2. State(a) = moved[a]
      BY <2>1, <2>5, <3>1
    <3>3. frame[a] \in AgentStates /\ reference[a].valid \in BOOLEAN
      BY <2>1 DEF FrameStates, AgentStates
    <3>4. moved[a] = IF frame[a].valid /\ reference[a].valid
                     THEN [frame[a] EXCEPT !.pos = @ + Travel(frame[a], step.acceleration[a]),
                                           !.spd = NextSpeed(frame[a], step.acceleration[a])]
                     ELSE frame[a]
      BY <2>1, <3>1 DEF Integrated, Kinematic, Continuing
    <3>5. /\ Travel(frame[a], step.acceleration[a]) \in Int
          /\ NextSpeed(frame[a], step.acceleration[a]) \in Nat
      <4>1. /\ Travel(frame[a], step.acceleration[a]) \in 0..(4 * MaxSpeed)
            /\ NextSpeed(frame[a], step.acceleration[a]) \in 0..MaxSpeed
        BY <3>1, <3>3, TravelBounds, SpeedBounds
      <4> QED
        BY <4>1, LimitsAssumption
    <3>6. State(a) \in AgentStates
      <4>1. moved[a] \in AgentStates
        <5>1. \A p \in Int, s \in Nat :
                 [frame[a] EXCEPT !.pos = p, !.spd = s] \in AgentStates
          BY <3>3 DEF AgentStates
        <5>2. frame[a].pos + Travel(frame[a], step.acceleration[a]) \in Int
          BY <3>3, <3>5 DEF AgentStates
        <5> HIDE DEF moved
        <5> QED
          BY <3>3, <3>4, <3>5, <5>1, <5>2
      <4> HIDE DEF moved, State
      <4> QED
        BY <3>2, <4>1
    <3>7. ASSUME frame[a].valid, reference[a].valid
          PROVE  next[a] = Moved(frame[a], step.acceleration[a])
      <4>1. next[a] = [moved[a] EXCEPT !.valid = TRUE]
        BY <1>1, <2>1, <3>2, <3>3, <3>7
      <4> QED
        BY <4>1, <3>3, <3>4, <3>5, <3>7 DEF Moved, AgentStates
    <3> QED
      BY <2>2, <2>5, <3>1, <3>6, <3>7
  <2> QED
    BY <2>3, <2>4, <2>5
<1>6. \A a \in Agents : State(a) \in AgentStates
  BY <1>4, <1>5 DEF Agents
<1>7. \A a \in Agents : /\ next[a] = [State(a) EXCEPT !.valid = reference[a].valid]
                        /\ reference[a].valid \in BOOLEAN
  BY <1>1 DEF FrameStates, AgentStates
<1> HIDE DEF State
<1>8. \A a \in Agents : next[a] \in AgentStates /\ next[a].valid = reference[a].valid
  BY <1>6, <1>7 DEF AgentStates
<1>9. next \in FrameStates
  BY <1>1, <1>8 DEF FrameStates
<1>10. egoNext.valid = reference[Ego].valid => next[Ego] = egoNext
  <2>1. next[Ego] = [egoNext EXCEPT !.valid = reference[Ego].valid]
    BY <1>2, <1>4, <1>7
  <2> QED
    BY <2>1 DEF AgentStates
<1> QED
  <2>1. WorldMoves(next, frame, reference, step)
    <3> HIDE DEF next
    <3> QED
      BY <1>5 DEF WorldMoves
  <2> QED
    BY <1>8, <1>9, <1>10, <2>1 DEF SameLife

\* A transition of the engine makes a frame, with the agents the log has at that frame.
LEMMA NextFrameStates ==
  ASSUME NEW frame \in FrameStates, NEW reference \in FrameStates, NEW step,
         FitsStep(step, reference), NEW egoNext \in AgentStates
  PROVE  /\ NextFrame(frame, reference, step, egoNext) \in FrameStates
         /\ SameLife(NextFrame(frame, reference, step, egoNext), reference)
BY NextFrameOf

\* The ego of the next frame is the planned one.
LEMMA NextFrameEgo ==
  ASSUME NEW frame \in FrameStates, NEW reference \in FrameStates, NEW step,
         FitsStep(step, reference), NEW egoNext \in AgentStates,
         egoNext.valid = reference[Ego].valid
  PROVE  NextFrame(frame, reference, step, egoNext)[Ego] = egoNext
BY NextFrameOf

\* How a transition moves the agents of the world: logged, kinematic or born.
LEMMA NextFrameWorld ==
  ASSUME NEW frame \in FrameStates, NEW reference \in FrameStates, NEW step,
         FitsStep(step, reference), NEW egoNext \in AgentStates
  PROVE  WorldMoves(NextFrame(frame, reference, step, egoNext), frame, reference, step)
BY NextFrameOf

-----------------------------------------------------------------------------
(* What the sums of the model are *)

\* Sums over one set agree when their members do.
LEMMA SumsAgree ==
  ASSUME NEW S, IsFiniteSet(S), NEW f, NEW sum, Additive(sum, f, S),
         NEW T, NEW g, NEW add, Additive(add, g, T),
         S \subseteq T, \A x \in S : f[x] = g[x]
  PROVE  sum[S] = add[S]
<1> DEFINE Good == {U \in SUBSET S : sum[U] = add[U]}
<1>1. ASSUME NEW U \in SUBSET S, \A x \in U : U \ {x} \in Good PROVE U \in Good
  <2>1. CASE U = {}
    BY <2>1 DEF Additive
  <2>2. CASE U # {}
    <3>1. PICK x \in U : TRUE
      BY <2>2
    <3>2. sum[U \ {x}] = add[U \ {x}]
      BY <1>1
    <3>3. sum[U] = f[x] + sum[U \ {x}]
      BY DEF Additive
    <3>4. add[U] = g[x] + add[U \ {x}]
      BY DEF Additive
    <3> QED
      BY <3>2, <3>3, <3>4
  <2> QED
    BY <2>1, <2>2
<1>2. SUBSET S \subseteq Good
  <2> HIDE DEF Good
  <2> QED
    BY <1>1, UpFromEmpty
<1> QED
  BY <1>2

\* A sum of noughts is nought.
LEMMA ZeroSum ==
  ASSUME NEW S, IsFiniteSet(S), NEW f, \A x \in S : f[x] = 0,
         NEW sum, Additive(sum, f, S)
  PROVE  sum[S] = 0
<1>1. Additive([T \in SUBSET S |-> 0], f, S)
  BY DEF Additive
<1> QED
  BY <1>1, SumsAgree

\* How far the pulse lets the ego get.
Step(log, dose, s) == Segment(log, s) - Lost(log, dose, s)

Steps(log, dose, S) == [s \in S |-> Step(log, dose, s)]

Distance(log, dose, S) == SumFunction(Steps(log, dose, S))

\* The distance a brake plan has taken is the sum of its steps.
LEMMA BrakeSum ==
  ASSUME NEW log, NEW dose, NEW S, IsFiniteSet(S), \A s \in S : Step(log, dose, s) \in Int
  PROVE  \E sum : /\ Additive(sum, Steps(log, dose, S), S)
                  /\ Distance(log, dose, S) = sum[S]
<1>1. Steps(log, dose, S) \in [S -> Int]
  BY DEF Steps
<1> QED
  BY <1>1, SumIs DEF Distance

\* What the rows of a trace replay of one guard.
Column(trace, frames, S, k) == [t \in S |-> RowClamps(trace[t], frames[t])[k]]

\* What a replay counts of a clamp is the sum of what its transitions count.
LEMMA ReplayedOf ==
  ASSUME NEW trace, NEW frames, NEW start \in Int, NEW stop \in Int, NEW k \in ClampKinds,
         \A t \in start..(stop - 1) : RowClamps(trace[t], frames[t])[k] \in Int
  PROVE  \E sum : /\ Additive(sum, Column(trace, frames, start..(stop - 1), k), start..(stop - 1))
                  /\ ReplayedClamps(trace, frames, start, stop)[k] = sum[start..(stop - 1)]
<1> DEFINE S == start..(stop - 1)
           f == Column(trace, frames, S, k)
<1>1. ReplayedClamps(trace, frames, start, stop)[k] = SumFunction(f)
  BY DEF ReplayedClamps, Column
<1>2. f \in [S -> Int] /\ IsFiniteSet(S)
  BY FS_Interval DEF Column
<1>3. \E sum : Additive(sum, f, S) /\ SumFunction(f) = sum[S]
  <2> HIDE DEF f, S
  <2> QED
    BY <1>2, SumIs
<1> QED
  BY <1>1, <1>3

-----------------------------------------------------------------------------
(* The clamps that a trace replays *)

\* Rows whose clamps can be added up.
Countable(trace, frames, start, stop) ==
  \A t \in start..(stop - 1) : RowClamps(trace[t], frames[t]) \in [ClampKinds -> Int]

\* Replays of the same rows from the same frames count the same.
LEMMA ReplayedAlike ==
  ASSUME NEW start \in Int, NEW stop \in Int, NEW trace, NEW frames, NEW other, NEW others,
         Countable(trace, frames, start, stop),
         \A t \in start..(stop - 1) : trace[t] = other[t] /\ frames[t] = others[t]
  PROVE  ReplayedClamps(trace, frames, start, stop) = ReplayedClamps(other, others, start, stop)
<1> DEFINE S == start..(stop - 1)
<1>1. ASSUME NEW k \in ClampKinds
      PROVE  ReplayedClamps(trace, frames, start, stop)[k]
               = ReplayedClamps(other, others, start, stop)[k]
  <2> DEFINE f == Column(trace, frames, S, k)
             g == Column(other, others, S, k)
  <2>1. \A t \in S : RowClamps(trace[t], frames[t])[k] \in Int
    BY DEF Countable
  <2>2. f = g
    BY DEF Column
  <2>3. PICK sum : Additive(sum, f, S) /\ ReplayedClamps(trace, frames, start, stop)[k] = sum[S]
    BY <2>1, ReplayedOf
  <2>4. PICK add : Additive(add, g, S) /\ ReplayedClamps(other, others, start, stop)[k] = add[S]
    <3>1. \A t \in S : RowClamps(other[t], others[t])[k] \in Int
      BY <2>1
    <3> QED
      BY <3>1, ReplayedOf
  <2>5. sum[S] = add[S]
    <3>1. IsFiniteSet(S) /\ \A t \in S : f[t] = g[t]
      BY <2>2, FS_Interval
    <3> HIDE DEF f, g, S
    <3> QED
      BY <2>3, <2>4, <3>1, SumsAgree
  <2> QED
    BY <2>3, <2>4, <2>5
<1> QED
  BY <1>1 DEF ReplayedClamps

\* One row more.
LEMMA ReplayedNext ==
  ASSUME NEW start \in Int, NEW stop \in Int, start <= stop,
         NEW trace, NEW frames, NEW other, NEW others,
         Countable(trace, frames, start, stop),
         \A t \in start..(stop - 1) : trace[t] = other[t] /\ frames[t] = others[t],
         RowClamps(other[stop], others[stop]) \in [ClampKinds -> Int]
  PROVE  ReplayedClamps(other, others, start, stop + 1)
           = AddClamps(ReplayedClamps(trace, frames, start, stop),
                       RowClamps(other[stop], others[stop]))
<1> DEFINE S == start..(stop - 1)
           T == start..((stop + 1) - 1)
<1>1. ASSUME NEW k \in ClampKinds
      PROVE  ReplayedClamps(other, others, start, stop + 1)[k]
               = ReplayedClamps(trace, frames, start, stop)[k]
                   + RowClamps(other[stop], others[stop])[k]
  <2> DEFINE f == Column(trace, frames, S, k)
             g == Column(other, others, T, k)
  <2>1. \A t \in S : RowClamps(trace[t], frames[t])[k] \in Int
    BY DEF Countable
  <2>2. T = S \union {stop} /\ stop \notin S
    OBVIOUS
  <2>3. \A t \in T : RowClamps(other[t], others[t])[k] \in Int
    <3>1. \A t \in S : RowClamps(other[t], others[t])[k] \in Int
      BY <2>1
    <3> QED
      BY <2>2, <3>1
  <2>4. PICK sum : Additive(sum, f, S) /\ ReplayedClamps(trace, frames, start, stop)[k] = sum[S]
    BY <2>1, ReplayedOf
  <2>5. PICK add : Additive(add, g, T) /\ ReplayedClamps(other, others, start, stop + 1)[k] = add[T]
    <3>1. stop + 1 \in Int
      OBVIOUS
    <3> QED
      BY <2>3, <3>1, ReplayedOf
  <2>6. sum[S] = add[S]
    <3>1. \A t \in S : f[t] = g[t]
      BY <2>2 DEF Column
    <3>2. IsFiniteSet(S)
      BY FS_Interval
    <3> HIDE DEF f, g, S, T
    <3> QED
      BY <2>2, <2>4, <2>5, <3>1, <3>2, SumsAgree
  <2>7. add[T] = g[stop] + add[S]
    <3>1. T \ {stop} = S /\ stop \in T
      BY <2>2
    <3> HIDE DEF g, S, T
    <3> QED
      BY <2>5, <3>1 DEF Additive
  <2>8. add[S] \in Int /\ g[stop] = RowClamps(other[stop], others[stop])[k]
    <3>1. S \in SUBSET T
      BY <2>2
    <3> QED
      BY <2>2, <2>5, <3>1 DEF Additive, Column
  <2>9. g[stop] \in Int
    BY <2>8
  <2> HIDE DEF f, g, S, T
  <2> QED
    BY <2>4, <2>5, <2>6, <2>7, <2>8, <2>9
<1> QED
  BY <1>1 DEF ReplayedClamps, AddClamps

\* A replay of no transition counts nothing.
LEMMA ReplayedNone ==
  ASSUME NEW start \in Int, NEW trace, NEW frames
  PROVE  ReplayedClamps(trace, frames, start, start) = NoClamps
<1>1. ASSUME NEW k \in ClampKinds
      PROVE  ReplayedClamps(trace, frames, start, start)[k] = 0
  <2>1. start..(start - 1) = {}
    OBVIOUS
  <2>2. PICK sum : /\ Additive(sum, Column(trace, frames, start..(start - 1), k), start..(start - 1))
                   /\ ReplayedClamps(trace, frames, start, start)[k] = sum[start..(start - 1)]
    BY <2>1, ReplayedOf
  <2> QED
    BY <2>1, <2>2 DEF Additive
<1> QED
  BY <1>1 DEF ReplayedClamps, NoClamps

\* The guards of the dynamics are counted.
LEMMA ClampsAreCounts ==
  ASSUME NEW frame, NEW acceleration, NEW S \in SUBSET World
  PROVE  Clamps(frame, acceleration, S) \in [ClampKinds -> Int]
<1> DEFINE Faster == {a \in S : acceleration[a] > MaxAcceleration}
           Slower == {a \in S : acceleration[a] < -MaxDeceleration}
           TooFast == {a \in S : frame[a].spd > MaxSpeed}
           WouldPass == {a \in S : ProposedSpeed(frame[a], acceleration[a]) > MaxSpeed}
           WouldReverse == {a \in S : ProposedSpeed(frame[a], acceleration[a]) < 0}
<1>1. \A T \in SUBSET S : Cardinality(T) \in Int
  <2> SUFFICES ASSUME NEW T \in SUBSET S PROVE Cardinality(T) \in Int
    OBVIOUS
  <2>1. IsFiniteSet(T)
    BY LimitsAssumption, FS_Subset
  <2> QED
    BY <2>1, FS_CardinalityType
<1>2. Clamps(frame, acceleration, S)
        = [acceleration |-> Cardinality(Faster), deceleration |-> Cardinality(Slower),
           speed |-> Cardinality(TooFast) + Cardinality(WouldPass),
           reverse_prevented |-> Cardinality(WouldReverse)]
  BY DEF Clamps
<1>3. /\ Cardinality(Faster) \in Int /\ Cardinality(Slower) \in Int
      /\ Cardinality(TooFast) + Cardinality(WouldPass) \in Int
      /\ Cardinality(WouldReverse) \in Int
  <2>1. /\ Faster \in SUBSET S /\ Slower \in SUBSET S /\ TooFast \in SUBSET S
        /\ WouldPass \in SUBSET S /\ WouldReverse \in SUBSET S
    OBVIOUS
  <2> HIDE DEF Faster, Slower, TooFast, WouldPass, WouldReverse
  <2> QED
    BY <1>1, <2>1
<1> HIDE DEF Faster, Slower, TooFast, WouldPass, WouldReverse
<1> QED
  BY <1>2, <1>3 DEF ClampKinds

-----------------------------------------------------------------------------
(* The plans *)

\* The frames of the interval, in order.
LEMMA Horizon ==
  /\ Current \in Nat /\ Stop \in Nat /\ LastFrame \in Nat
  /\ Current + 1 < Stop /\ Stop <= LastFrame
  /\ Frames \subseteq 0..LastFrame /\ Scored \subseteq Frames /\ Transitions \subseteq Frames
BY WindowAssumption, HorizonAssumption DEF Stop, Frames, Scored, Transitions

\* The pulse takes nothing away before it begins.
LEMMA DeficitIs ==
  ASSUME NEW dose \in Nat \ {0}, NEW t \in Nat, t >= Current
  PROVE  Deficit(dose, t) \in Nat /\ Deficit(dose, Current) = 0
<1>1. Current \in Nat /\ Pulse \in Nat \ {0}
  BY WindowAssumption, HorizonAssumption
<1>2. Min({t - Current, Pulse}) = IF t - Current <= Pulse THEN t - Current ELSE Pulse
  BY <1>1, MinOfTwo
<1>3. Min({Current - Current, Pulse}) = 0
  BY <1>1, MinOfTwo
<1>4. Min({t - Current, Pulse}) \in Nat
  BY <1>1, <1>2
<1> QED
  BY <1>3, <1>4 DEF Deficit

\* What a log is made of.
LEMMA LogStates ==
  ASSUME NEW log \in Logs
  PROVE  /\ \A t \in 0..LastFrame : log[t] \in FrameStates
         /\ \A t \in 0..LastFrame, a \in Agents :
              /\ log[t][a] \in AgentStates /\ log[t][a].valid \in BOOLEAN
              /\ log[t][a].pos \in Int /\ log[t][a].spd \in Nat
         /\ Ego \in Agents /\ World \subseteq Agents
BY DEF Logs, FrameStates, AgentStates, Agents

\* A step of a brake plan is a number.
LEMMA StepIsNumber ==
  ASSUME NEW log \in Logs, NEW dose \in Nat \ {0}, NEW s \in Transitions
  PROVE  Step(log, dose, s) \in Int
<1>1. s \in Nat /\ s >= Current /\ s \in 0..LastFrame /\ s + 1 \in 0..LastFrame
  BY Horizon DEF Transitions
<1>2. Segment(log, s) \in Int
  BY <1>1, LogStates DEF Segment
<1>3. 2 * (Deficit(dose, s) + Deficit(dose, s + 1)) \in Int
  <2>1. Deficit(dose, s) \in Nat
    BY <1>1, DeficitIs
  <2>2. s + 1 \in Nat /\ s + 1 >= Current
    BY <1>1, Horizon
  <2>3. Deficit(dose, s + 1) \in Nat
    BY <2>2, DeficitIs
  <2> HIDE DEF Deficit
  <2> QED
    BY <2>1, <2>3
<1>4. Lost(log, dose, s) \in Int
  BY <1>2, <1>3, MinOfTwo DEF Lost
<1> QED
  BY <1>2, <1>4 DEF Step

\* A plan has states of the ego that are there when the log's are, and begins on the log.
LEMMA PlanStates ==
  ASSUME NEW log \in Logs, NEW dose \in Nat \ {0}
  PROVE  /\ \A t \in Frames : /\ BrakePlan(log, dose)[t] \in AgentStates
                              /\ BrakePlan(log, dose)[t].valid = log[t][Ego].valid
         /\ BrakePlan(log, dose)[Current] = log[Current][Ego]
<1> DEFINE Far(t) == Distance(log, dose, Current..(t - 1))
<1>1. ASSUME NEW t \in Frames PROVE Far(t) \in Int /\ (t = Current => Far(t) = 0)
  <2>1. Current..(t - 1) \subseteq Transitions /\ IsFiniteSet(Current..(t - 1))
    BY Horizon, FS_Interval DEF Frames, Transitions
  <2>2. PICK sum : /\ Additive(sum, Steps(log, dose, Current..(t - 1)), Current..(t - 1))
                   /\ Far(t) = sum[Current..(t - 1)]
    BY <2>1, StepIsNumber, BrakeSum
  <2>3. t = Current => Current..(t - 1) = {}
    BY Horizon
  <2> DEFINE S == Current..(t - 1)
  <2>4. S \in SUBSET S
    OBVIOUS
  <2>5. sum[S] \in Int /\ (S = {} => sum[S] = 0)
    <3> HIDE DEF S
    <3> QED
      BY <2>2, <2>4 DEF Additive, S
  <2> QED
    BY <2>2, <2>3, <2>5
<1>2. ASSUME NEW t \in Frames
      PROVE  Max({0, log[t][Ego].spd - Deficit(dose, t)}) \in Nat
  <2>1. log[t][Ego].spd \in Nat /\ Deficit(dose, t) \in Nat
    BY Horizon, LogStates, DeficitIs DEF Frames
  <2>2. log[t][Ego].spd - Deficit(dose, t) \in Int
    BY <2>1
  <2> HIDE DEF Deficit
  <2> QED
    BY <2>2, MaxOfTwo
<1>3. ASSUME NEW t \in Frames
      PROVE  BrakePlan(log, dose)[t] = [valid |-> log[t][Ego].valid,
                                        pos |-> log[Current][Ego].pos + Far(t),
                                        spd |-> Max({0, log[t][Ego].spd - Deficit(dose, t)})]
  BY DEF BrakePlan, Distance, Steps, Step
<1>4. Current \in Frames
  BY Horizon DEF Frames
<1>5. Max({0, log[Current][Ego].spd - Deficit(dose, Current)}) = log[Current][Ego].spd
  <2>1. log[Current][Ego].spd \in Nat /\ Deficit(dose, Current) = 0
    BY <1>4, Horizon, LogStates, DeficitIs
  <2> HIDE DEF Deficit
  <2>2. log[Current][Ego].spd - Deficit(dose, Current) = log[Current][Ego].spd
    BY <2>1
  <2> QED
    BY <2>1, <2>2, MaxOfTwo
<1>6. \A t \in Frames : log[t][Ego] \in AgentStates
  BY Horizon, LogStates
<1> HIDE DEF Far
<1>7. ASSUME NEW t \in Frames
      PROVE  /\ BrakePlan(log, dose)[t] \in AgentStates
             /\ BrakePlan(log, dose)[t].valid = log[t][Ego].valid
  <2> DEFINE spd == Max({0, log[t][Ego].spd - Deficit(dose, t)})
  <2>1. log[t][Ego].valid \in BOOLEAN
    BY <1>6 DEF AgentStates
  <2>2. log[Current][Ego].pos \in Int
    BY <1>4, <1>6 DEF AgentStates
  <2>3. log[Current][Ego].pos + Far(t) \in Int
    BY <1>1, <2>2
  <2>4. spd \in Nat
    BY <1>2
  <2>5. BrakePlan(log, dose)[t] = [valid |-> log[t][Ego].valid,
                                   pos |-> log[Current][Ego].pos + Far(t), spd |-> spd]
    BY <1>3
  <2> HIDE DEF spd
  <2> QED
    BY <2>1, <2>3, <2>4, <2>5 DEF AgentStates
<1>8. BrakePlan(log, dose)[Current] = log[Current][Ego]
  BY <1>1, <1>3, <1>4, <1>5, <1>6 DEF AgentStates
<1> QED
  BY <1>7, <1>8

-----------------------------------------------------------------------------
(* The conditions, and where each puts the ego and ends *)

Conditions == {"legacy", "identity", "primary", "secondary"}

PlanUnder(k, log) == CASE k = "identity" -> LogEgo(log)
                       [] k = "primary" -> BrakePlan(log, PrimaryDose)
                       [] k = "secondary" -> BrakePlan(log, SecondaryDose)
EgoUnder(k, log, t) == IF k = "legacy" THEN log[t][Ego] ELSE PlanUnder(k, log)[t]
StopOf(k) == IF k = "legacy" THEN LastFrame ELSE Stop

\* The ego of a condition is a state, as valid as the logged one; without a brake it is the logged one.
LEMMA EgoStates ==
  ASSUME NEW k \in Conditions, NEW log \in Logs, NEW t \in Current..StopOf(k)
  PROVE  /\ EgoUnder(k, log, t) \in AgentStates
         /\ EgoUnder(k, log, t).valid = log[t][Ego].valid
         /\ k \in {"legacy", "identity"} => EgoUnder(k, log, t) = log[t][Ego]
<1>1. t \in 0..LastFrame /\ (k # "legacy" => t \in Frames)
  BY Horizon DEF StopOf, Frames
<1>2. log[t][Ego] \in AgentStates
  BY <1>1, LogStates
<1>3. {PrimaryDose, SecondaryDose} \subseteq Nat \ {0}
  BY HorizonAssumption
<1>4. CASE k = "legacy"
  BY <1>2, <1>4 DEF EgoUnder
<1>5. CASE k = "identity"
  BY <1>1, <1>2, <1>5 DEF EgoUnder, PlanUnder, LogEgo
<1>6. CASE k = "primary"
  <2>1. EgoUnder(k, log, t) = BrakePlan(log, PrimaryDose)[t]
    BY <1>6 DEF EgoUnder, PlanUnder
  <2> QED
    BY <1>1, <1>3, <1>6, <2>1, PlanStates
<1>7. CASE k = "secondary"
  <2>1. EgoUnder(k, log, t) = BrakePlan(log, SecondaryDose)[t]
    BY <1>7 DEF EgoUnder, PlanUnder
  <2> QED
    BY <1>1, <1>3, <1>7, <2>1, PlanStates
<1> QED
  BY <1>4, <1>5, <1>6, <1>7 DEF Conditions

-----------------------------------------------------------------------------
(* What a rollout is *)

StepAt(policy, log, frames, t) == PolicyStep(policy, log, frames[t], t + 1)

\* The run of a policy over the log under condition k, up to frame n.
Executed(r, policy, log, k, n) ==
  /\ r.frames \in [0..n -> FrameStates]
  /\ \A t \in 0..Current : r.frames[t] = log[t]
  /\ \A t \in Current..(n - 1) :
       /\ r.frames[t + 1] = NextFrame(r.frames[t], log[t + 1], StepAt(policy, log, r.frames, t),
                                      EgoUnder(k, log, t + 1))
       /\ r.trace[t] = TraceRow(StepAt(policy, log, r.frames, t), log, t)
  /\ r.clamps = ReplayedClamps(r.trace, r.frames, Current, n)

\* What an executed run planned at a frame has the shape the engine asks for.
LEMMA StepAtFits ==
  ASSUME NEW policy \in Policies, NEW log \in Logs, NEW k \in Conditions,
         NEW n \in Current..StopOf(k), NEW r, Executed(r, policy, log, k, n),
         NEW t \in Current..n, t < LastFrame
  PROVE  /\ r.frames[t] \in FrameStates /\ log[t] \in FrameStates /\ log[t + 1] \in FrameStates
         /\ FitsStep(StepAt(policy, log, r.frames, t), log[t + 1])
<1>1. t \in 0..n /\ t \in 0..LastFrame /\ t + 1 \in 0..LastFrame
  BY Horizon
<1>2. r.frames[t] \in FrameStates
  BY <1>1 DEF Executed
<1> QED
  BY <1>1, <1>2, LogStates, PolicyFits DEF StepAt

\* Everyone is there when the log says so.
LEMMA ExecutedValid ==
  ASSUME NEW policy \in Policies, NEW log \in Logs, NEW k \in Conditions,
         NEW n \in Current..StopOf(k), NEW r, Executed(r, policy, log, k, n),
         NEW t \in 0..n, NEW a \in Agents
  PROVE  r.frames[t][a].valid = log[t][a].valid
<1>1. CASE t <= Current
  <2>1. t \in 0..Current
    BY <1>1, Horizon
  <2> QED
    BY <2>1 DEF Executed
<1>2. CASE t > Current
  <2> DEFINE s == t - 1
  <2>1. s \in Current..(n - 1) /\ s \in Current..n /\ s < LastFrame /\ s + 1 = t /\ s \in Int
        /\ t \in Current..StopOf(k)
    BY <1>2, Horizon DEF StopOf
  <2> HIDE DEF s
  <2> DEFINE frame == r.frames[s]
             reference == log[s + 1]
             step == StepAt(policy, log, r.frames, s)
             egoNext == EgoUnder(k, log, s + 1)
  <2>2. egoNext \in AgentStates
    BY <2>1, EgoStates
  <2>3. frame \in FrameStates /\ reference \in FrameStates /\ FitsStep(step, reference)
    BY <2>1, StepAtFits
  <2>4. r.frames[s + 1] = NextFrame(frame, reference, step, egoNext)
    BY <2>1 DEF Executed
  <2>5. r.frames[s + 1][a].valid = reference[a].valid
    <3> HIDE DEF frame, reference, step, egoNext
    <3> QED
      BY <2>2, <2>3, <2>4, NextFrameStates DEF SameLife
  <2> QED
    BY <2>1, <2>5
<1> QED
  BY <1>1, <1>2, Horizon

-----------------------------------------------------------------------------
(* One frame of a rollout *)

\* What is known of a transition.
ExecutedAt(r, policy, log, k, t) ==
  /\ r.frames[t] \in FrameStates /\ r.frames[t + 1] \in FrameStates
  /\ log[t] \in FrameStates /\ log[t + 1] \in FrameStates
  /\ FitsStep(StepAt(policy, log, r.frames, t), log[t + 1])
  /\ SameLife(r.frames[t], log[t]) /\ SameLife(r.frames[t + 1], log[t + 1])
  /\ r.frames[t + 1][Ego] = EgoUnder(k, log, t + 1)
  /\ WorldMoves(r.frames[t + 1], r.frames[t], log[t + 1], StepAt(policy, log, r.frames, t))
  /\ r.trace[t] = TraceRow(StepAt(policy, log, r.frames, t), log, t)

\* Every transition of an executed run, taken by itself.
LEMMA ExecutedSteps ==
  ASSUME NEW policy \in Policies, NEW log \in Logs, NEW k \in Conditions,
         NEW n \in Current..StopOf(k), NEW r, Executed(r, policy, log, k, n),
         NEW t \in Current..(n - 1)
  PROVE  ExecutedAt(r, policy, log, k, t)
<1> DEFINE frame == r.frames[t]
           reference == log[t + 1]
           step == StepAt(policy, log, r.frames, t)
           egoNext == EgoUnder(k, log, t + 1)
<1>1. /\ t \in Current..n /\ t < LastFrame /\ t \in 0..n /\ t + 1 \in 0..n /\ t \in Int
      /\ t + 1 \in Current..StopOf(k)
  BY Horizon DEF StopOf
<1>2. egoNext \in AgentStates /\ egoNext.valid = reference[Ego].valid
  BY <1>1, EgoStates
<1>3. /\ frame \in FrameStates /\ log[t] \in FrameStates /\ reference \in FrameStates
      /\ FitsStep(step, reference)
  BY <1>1, StepAtFits
<1>4. r.frames[t + 1] = NextFrame(frame, reference, step, egoNext)
  BY DEF Executed
<1>5. /\ r.frames[t + 1] \in FrameStates /\ SameLife(r.frames[t + 1], reference)
      /\ r.frames[t + 1][Ego] = egoNext
      /\ WorldMoves(r.frames[t + 1], frame, reference, step)
  <2> HIDE DEF frame, reference, step, egoNext
  <2> QED
    BY <1>2, <1>3, <1>4, NextFrameStates, NextFrameEgo, NextFrameWorld
<1>6. SameLife(frame, log[t])
  BY <1>1, ExecutedValid DEF SameLife
<1>7. r.trace[t] = TraceRow(step, log, t)
  BY DEF Executed
<1> QED
  BY <1>3, <1>5, <1>6, <1>7 DEF ExecutedAt

\* How an agent of the world gets from a frame to the next.
LEMMA SegmentOf ==
  ASSUME NEW policy \in Policies, NEW log \in Logs, NEW k \in Conditions,
         NEW n \in Current..StopOf(k), NEW r, Executed(r, policy, log, k, n),
         NEW t \in (0..n) \ {0}, NEW a \in World, r.frames[t][a].valid
  PROVE  IF r.frames[t - 1][a].valid /\ t > Current /\ policy \notin Privileged
         THEN /\ r.frames[t][a].pos - r.frames[t - 1][a].pos \in 0..(4 * MaxSpeed)
              /\ r.frames[t][a].spd \in 0..MaxSpeed
              /\ r.frames[t][a].spd - CurrentSpeed(r.frames[t - 1][a])
                   \in -MaxDeceleration..MaxAcceleration
         ELSE r.frames[t][a] = log[t][a]
<1> DEFINE now == r.frames[t][a]
           before == r.frames[t - 1][a]
<1>1. CASE t <= Current
  <2>1. t \in 0..Current /\ ~(t > Current)
    BY <1>1, Horizon
  <2> QED
    BY <2>1 DEF Executed
<1>2. CASE t > Current
  <2> DEFINE s == t - 1
             step == StepAt(policy, log, r.frames, s)
  <2>1. s \in Current..(n - 1) /\ s + 1 = t /\ a \in Agents
    BY <1>2, Horizon DEF Agents
  <2>2. ExecutedAt(r, policy, log, k, s)
    <3> HIDE DEF s
    <3> QED
      BY <2>1, ExecutedSteps
  <2>3. /\ r.frames[s] \in FrameStates /\ FitsStep(step, log[t])
        /\ SameLife(r.frames[t], log[t]) /\ WorldMoves(r.frames[t], r.frames[s], log[t], step)
    <3> HIDE DEF s
    <3> QED
      BY <2>1, <2>2 DEF ExecutedAt
  <2>4. log[t][a].valid
    BY <2>1, <2>3 DEF SameLife
  <2>5. before \in AgentStates /\ step.acceleration[a] \in Int
    BY <2>1, <2>3 DEF FrameStates, FitsStep
  <2>6. CASE before.valid /\ policy \notin Privileged
    <3>1. step.mask = {}
      <4>1. r.frames[s] \in FrameStates
        BY <2>3
      <4> QED
        BY <2>6, <4>1, StepOf DEF StepAt
    <3> HIDE DEF step
    <3>2. now = Moved(before, step.acceleration[a])
      BY <2>3, <2>4, <2>6, <3>1 DEF WorldMoves
    <3> HIDE DEF now, before
    <3>3. /\ now.pos = before.pos + Travel(before, step.acceleration[a])
          /\ now.spd = NextSpeed(before, step.acceleration[a])
      BY <3>2 DEF Moved
    <3>4. /\ Travel(before, step.acceleration[a]) \in 0..(4 * MaxSpeed)
          /\ NextSpeed(before, step.acceleration[a]) \in 0..MaxSpeed
          /\ NextSpeed(before, step.acceleration[a]) - CurrentSpeed(before)
               \in -MaxDeceleration..MaxAcceleration
      BY <2>5, TravelBounds, SpeedBounds
    <3>5. before.pos \in Int
      BY <2>5 DEF AgentStates
    <3>6. now.pos - before.pos = Travel(before, step.acceleration[a])
      BY <3>3, <3>4, <3>5, LimitsAssumption
    <3>7. /\ now.pos - before.pos \in 0..(4 * MaxSpeed) /\ now.spd \in 0..MaxSpeed
          /\ now.spd - CurrentSpeed(before) \in -MaxDeceleration..MaxAcceleration
      BY <3>3, <3>4, <3>6
    <3> QED
      BY <1>2, <2>6, <3>7 DEF now, before
  <2>7. CASE ~before.valid
    <3> HIDE DEF step
    <3> QED
      BY <2>3, <2>4, <2>7 DEF WorldMoves
  <2>8. CASE policy \in Privileged
    <3>1. step.mask = World
      <4>1. r.frames[s] \in FrameStates
        BY <2>3
      <4> QED
        BY <2>8, <4>1, StepOf DEF StepAt
    <3> HIDE DEF step
    <3> QED
      BY <2>3, <2>8, <3>1 DEF WorldMoves
  <2> QED
    BY <2>6, <2>7, <2>8
<1> QED
  BY <1>1, <1>2, Horizon

-----------------------------------------------------------------------------
(* The trace binds *)

\* A row of an executed run's trace binds to the frames beside it.
LEMMA RowBindsTo ==
  ASSUME NEW policy \in Policies, NEW log \in Logs, NEW k \in Conditions,
         NEW n \in Current..StopOf(k), NEW r, Executed(r, policy, log, k, n),
         NEW t \in Current..(n - 1)
  PROVE  RowBinds(r.trace[t], r.frames[t], r.frames[t + 1])
<1> DEFINE frame == r.frames[t]
           next == r.frames[t + 1]
           step == StepAt(policy, log, r.frames, t)
           row == r.trace[t]
<1>1. ExecutedAt(r, policy, log, k, t)
  BY ExecutedSteps
<1>2. row = TraceRow(step, log, t) /\ FitsStep(step, log[t + 1])
      /\ SameLife(frame, log[t]) /\ SameLife(next, log[t + 1])
      /\ WorldMoves(next, frame, log[t + 1], step)
      /\ frame \in FrameStates /\ log[t + 1] \in FrameStates
  BY <1>1 DEF ExecutedAt
<1>3. World \subseteq Agents /\ Ego \notin World
  BY LimitsAssumption DEF Agents
<1> HIDE DEF frame, next, step, row
<1>4. /\ row.acceleration = step.acceleration /\ row.mask = step.mask \ {Ego}
      /\ \A a \in row.mask : row.override[a] = step.override[a]
      /\ row.effective = Continuing(log[t], log[t + 1])
      /\ row.births = Births(log[t], log[t + 1])
  BY <1>2 DEF TraceRow
<1>5. /\ Continuing(frame, next) = Continuing(log[t], log[t + 1])
      /\ Births(frame, next) = Births(log[t], log[t + 1])
  BY <1>2, <1>3 DEF SameLife, Continuing, Births
<1>6. row.mask = step.mask /\ row.mask \subseteq World
      /\ \A a \in row.mask : row.override[a] = log[t + 1][a] /\ step.mask = World
  BY <1>2, <1>3, <1>4 DEF FitsStep
<1>7. ASSUME NEW a \in row.mask
      PROVE  row.override[a].valid = next[a].valid /\ row.override[a] = next[a]
  BY <1>2, <1>6 DEF WorldMoves
<1>8. ASSUME NEW a \in row.effective \ row.mask
      PROVE  Integrated(frame, row.acceleration, row.effective \ row.mask)[a] = next[a]
  <2>1. a \in World /\ a \in Agents /\ frame[a].valid /\ log[t + 1][a].valid /\ a \notin step.mask
    BY <1>2, <1>3, <1>4, <1>5, <1>6 DEF Continuing, SameLife
  <2>2. step.mask = {}
    BY <1>2, <2>1 DEF FitsStep
  <2>3. next[a] = Moved(frame[a], step.acceleration[a])
    BY <1>2, <2>1, <2>2 DEF WorldMoves
  <2>4. Integrated(frame, row.acceleration, row.effective \ row.mask)[a]
          = [frame[a] EXCEPT !.pos = @ + Travel(frame[a], step.acceleration[a]),
                             !.spd = NextSpeed(frame[a], step.acceleration[a])]
    BY <1>4, <2>1 DEF Integrated
  <2>5. frame[a] \in AgentStates /\ frame[a].valid = TRUE
    BY <1>2, <2>1 DEF FrameStates, AgentStates
  <2> QED
    BY <2>3, <2>4, <2>5 DEF Moved, AgentStates
<1>9. RowBinds(row, frame, next)
  BY <1>4, <1>5, <1>7, <1>8 DEF RowBinds
<1> QED
  BY <1>9 DEF row, frame, next

\* A trace counts what its rollout counted.
LEMMA RowsCount ==
  ASSUME NEW policy \in Policies, NEW log \in Logs, NEW k \in Conditions,
         NEW n \in Current..StopOf(k), NEW r, Executed(r, policy, log, k, n)
  PROVE  Countable(r.trace, r.frames, Current, n)
<1>1. ASSUME NEW t \in Current..(n - 1)
      PROVE  RowClamps(r.trace[t], r.frames[t]) \in [ClampKinds -> Int]
  <2>1. r.trace[t] = TraceRow(StepAt(policy, log, r.frames, t), log, t)
    BY DEF Executed
  <2>2. r.trace[t].effective \ r.trace[t].mask \in SUBSET World
    BY <2>1 DEF TraceRow, Continuing
  <2> QED
    BY <2>2, ClampsAreCounts DEF RowClamps
<1> QED
  BY <1>1 DEF Countable

\* The trace of an executed run binds to the run, from its current frame to its end.
LEMMA TraceBindsTo ==
  ASSUME NEW policy \in Policies, NEW log \in Logs, NEW k \in Conditions,
         NEW n \in Current..StopOf(k), NEW r, Executed(r, policy, log, k, n)
  PROVE  TraceBinds(r.trace, r, Current, n)
BY RowBindsTo DEF TraceBinds, Executed

-----------------------------------------------------------------------------
(* One transition more *)

Extended(r, log, step, next, t) ==
  [frames |-> [s \in 0..(t + 1) |-> IF s <= t THEN r.frames[s] ELSE next],
   clamps |-> AddClamps(r.clamps, Clamps(r.frames[t], step.acceleration,
                                         Kinematic(r.frames[t], log[t + 1], step))),
   trace |-> [s \in Current..t |-> IF s < t THEN r.trace[s] ELSE TraceRow(step, log, t)]]

\* A transition extends an executed run to an executed run.
LEMMA ExecutedNext ==
  ASSUME NEW policy \in Policies, NEW log \in Logs, NEW k \in Conditions,
         NEW n \in Current..StopOf(k), n < StopOf(k), NEW r, Executed(r, policy, log, k, n)
  PROVE  LET step == StepAt(policy, log, r.frames, n)
         IN  Executed(Extended(r, log, step,
                               NextFrame(r.frames[n], log[n + 1], step, EgoUnder(k, log, n + 1)),
                               n),
                      policy, log, k, n + 1)
<1> DEFINE step == StepAt(policy, log, r.frames, n)
           next == NextFrame(r.frames[n], log[n + 1], step, EgoUnder(k, log, n + 1))
           e == Extended(r, log, step, next, n)
<1>1. /\ n \in Current..n /\ n < LastFrame /\ n \in Nat /\ n \in Int /\ n + 1 \in Current..StopOf(k)
      /\ n >= Current /\ Current \in Nat
  BY Horizon DEF StopOf
<1>2. /\ r.frames[n] \in FrameStates /\ log[n] \in FrameStates /\ log[n + 1] \in FrameStates
      /\ FitsStep(step, log[n + 1])
  BY <1>1, StepAtFits
<1>3. EgoUnder(k, log, n + 1) \in AgentStates
  BY <1>1, EgoStates
<1>4. next \in FrameStates
  <2> DEFINE f == r.frames[n]
             reference == log[n + 1]
             egoNext == EgoUnder(k, log, n + 1)
  <2> HIDE DEF f, reference, egoNext, step
  <2>1. NextFrame(f, reference, step, egoNext) \in FrameStates
    BY <1>2, <1>3, NextFrameStates DEF f, reference, egoNext
  <2> QED
    BY <2>1 DEF f, reference, egoNext
<1> HIDE DEF next
<1>5. /\ e.frames = [s \in 0..(n + 1) |-> IF s <= n THEN r.frames[s] ELSE next]
      /\ e.trace = [s \in Current..n |-> IF s < n THEN r.trace[s] ELSE TraceRow(step, log, n)]
      /\ e.clamps = AddClamps(r.clamps, Clamps(r.frames[n], step.acceleration,
                                               Kinematic(r.frames[n], log[n + 1], step)))
  BY DEF Extended
<1> HIDE DEF e
<1>6. r.frames \in [0..n -> FrameStates]
  BY DEF Executed
<1>7. e.frames \in [0..(n + 1) -> FrameStates]
  <2>1. \A s \in 0..(n + 1) : s <= n => s \in 0..n
    BY <1>1
  <2> QED
    BY <1>4, <1>5, <1>6, <2>1
<1>8. \A s \in 0..n : e.frames[s] = r.frames[s]
  BY <1>1, <1>5
<1>9. \A t \in 0..Current : e.frames[t] = log[t]
  BY <1>1, <1>8 DEF Executed
<1>10. e.frames[n + 1] = next /\ e.trace[n] = TraceRow(step, log, n)
  BY <1>1, <1>5
<1>11. \A t \in Current..(n - 1) : e.trace[t] = r.trace[t] /\ e.frames[t] = r.frames[t]
  BY <1>1, <1>5, <1>8
<1>12. ASSUME NEW t \in Current..((n + 1) - 1)
       PROVE  /\ e.frames[t + 1] = NextFrame(e.frames[t], log[t + 1],
                                             StepAt(policy, log, e.frames, t),
                                             EgoUnder(k, log, t + 1))
              /\ e.trace[t] = TraceRow(StepAt(policy, log, e.frames, t), log, t)
  <2>1. t \in 0..n /\ e.frames[t] = r.frames[t]
    BY <1>1, <1>8
  <2>2. StepAt(policy, log, e.frames, t) = StepAt(policy, log, r.frames, t)
    BY <2>1 DEF StepAt
  <2>3. CASE t = n
    BY <1>10, <2>1, <2>2, <2>3 DEF next
  <2>4. CASE t # n
    <3>1. t \in Current..(n - 1) /\ t + 1 \in 0..n
      BY <1>1, <2>4
    <3> QED
      BY <1>8, <1>11, <2>1, <2>2, <3>1 DEF Executed
  <2> QED
    BY <2>3, <2>4
<1>13. RowClamps(e.trace[n], e.frames[n])
         = Clamps(r.frames[n], step.acceleration, Kinematic(r.frames[n], log[n + 1], step))
  <2>1. n \in 0..n /\ e.frames[n] = r.frames[n]
    BY <1>1, <1>8
  <2>2. SameLife(r.frames[n], log[n])
    BY <2>1, ExecutedValid DEF SameLife
  <2>3. Continuing(log[n], log[n + 1]) = Continuing(r.frames[n], log[n + 1])
    BY <2>2 DEF SameLife, Continuing, Agents
  <2>4. Continuing(log[n], log[n + 1]) \ (step.mask \ {Ego})
          = Continuing(log[n], log[n + 1]) \ step.mask
    BY LimitsAssumption DEF Continuing
  <2>5. /\ e.trace[n].acceleration = step.acceleration
        /\ e.trace[n].effective = Continuing(log[n], log[n + 1])
        /\ e.trace[n].mask = step.mask \ {Ego}
    BY <1>10 DEF TraceRow
  <2> QED
    BY <2>1, <2>3, <2>4, <2>5 DEF RowClamps, Kinematic
<1>14. e.clamps = ReplayedClamps(e.trace, e.frames, Current, n + 1)
  <2>1. Countable(r.trace, r.frames, Current, n)
    BY RowsCount
  <2>2. Kinematic(r.frames[n], log[n + 1], step) \in SUBSET World
    BY DEF Kinematic, Continuing
  <2>3. RowClamps(e.trace[n], e.frames[n]) \in [ClampKinds -> Int]
    BY <1>13, <2>2, ClampsAreCounts
  <2>4. r.clamps = ReplayedClamps(r.trace, r.frames, Current, n)
    BY DEF Executed
  <2>5. ReplayedClamps(e.trace, e.frames, Current, n + 1)
          = AddClamps(ReplayedClamps(r.trace, r.frames, Current, n),
                      RowClamps(e.trace[n], e.frames[n]))
    <3>1. \A t \in Current..(n - 1) : r.trace[t] = e.trace[t] /\ r.frames[t] = e.frames[t]
      BY <1>11
    <3> DEFINE trace == r.trace
               frames == r.frames
               other == e.trace
               others == e.frames
    <3>2. /\ Countable(trace, frames, Current, n)
          /\ \A t \in Current..(n - 1) : trace[t] = other[t] /\ frames[t] = others[t]
          /\ RowClamps(other[n], others[n]) \in [ClampKinds -> Int]
      BY <2>1, <2>3, <3>1
    <3> HIDE DEF trace, frames, other, others
    <3>3. ReplayedClamps(other, others, Current, n + 1)
            = AddClamps(ReplayedClamps(trace, frames, Current, n), RowClamps(other[n], others[n]))
      BY <1>1, <3>2, ReplayedNext
    <3> QED
      BY <3>3 DEF trace, frames, other, others
  <2> QED
    BY <1>5, <1>13, <2>4, <2>5
<1>15. Executed(e, policy, log, k, n + 1)
  BY <1>7, <1>9, <1>12, <1>14 DEF Executed
<1> QED
  BY <1>15 DEF e, next

\* A run begins with the logged frames.
LEMMA ExecutedFirst ==
  ASSUME NEW policy, NEW log \in Logs, NEW k
  PROVE  Executed([frames |-> Prefix(log, Current), clamps |-> NoClamps, trace |-> <<>>],
                  policy, log, k, Current)
<1> DEFINE r == [frames |-> Prefix(log, Current), clamps |-> NoClamps, trace |-> <<>>]
<1>1. Current \in Nat /\ 0..Current \subseteq 0..LastFrame /\ Current..(Current - 1) = {}
  BY Horizon
<1>2. r.frames = [s \in 0..Current |-> log[s]]
  BY DEF Prefix
<1>3. r.frames \in [0..Current -> FrameStates]
  BY <1>1, <1>2, LogStates
<1>4. r.clamps = ReplayedClamps(r.trace, r.frames, Current, Current)
  BY <1>1, ReplayedNone
<1> QED
  BY <1>1, <1>2, <1>3, <1>4 DEF Executed

-----------------------------------------------------------------------------
(* Two rollouts of one policy over one log *)

\* The world does not see what the ego is about to do.
LEMMA WorldAlone ==
  ASSUME NEW frame, NEW other, \A a \in World : frame[a] = other[a],
         NEW reference, NEW step, NEW step2, NEW e1, NEW e2,
         step.acceleration = step2.acceleration, step.mask = step2.mask,
         \A a \in step.mask : step.override[a] = step2.override[a]
  PROVE  \A a \in World : NextFrame(frame, reference, step, e1)[a]
                            = NextFrame(other, reference, step2, e2)[a]
<1> SUFFICES ASSUME NEW a \in World
             PROVE  NextFrame(frame, reference, step, e1)[a]
                      = NextFrame(other, reference, step2, e2)[a]
  OBVIOUS
<1> DEFINE moved == Integrated(frame, step.acceleration, Kinematic(frame, reference, step))
           moved2 == Integrated(other, step2.acceleration, Kinematic(other, reference, step2))
           born == Births(frame, reference)
           born2 == Births(other, reference)
           State(b) == CASE b = Ego -> e1
                         [] b \in born -> reference[b]
                         [] b \in (step.mask \ {Ego}) \ born -> step.override[b]
                         [] OTHER -> moved[b]
           State2(b) == CASE b = Ego -> e2
                          [] b \in born2 -> reference[b]
                          [] b \in (step2.mask \ {Ego}) \ born2 -> step2.override[b]
                          [] OTHER -> moved2[b]
<1>1. a # Ego /\ a \in Agents
  BY LimitsAssumption DEF Agents
<1>2. born = born2
  BY DEF Births
<1>3. Kinematic(frame, reference, step) = Kinematic(other, reference, step2)
  BY DEF Kinematic, Continuing
<1>4. moved[a] = moved2[a]
  BY <1>1, <1>3 DEF Integrated
<1>5. State(a) = State2(a)
  <2> HIDE DEF moved, moved2, born, born2
  <2>1. CASE a \in born
    <3>1. State(a) = reference[a] /\ State2(a) = reference[a]
      BY <1>1, <1>2, <2>1
    <3> QED
      BY <3>1
  <2>2. CASE a \notin born /\ a \in step.mask
    <3>1. State(a) = step.override[a] /\ State2(a) = step2.override[a]
      BY <1>1, <1>2, <2>2
    <3> QED
      BY <2>2, <3>1
  <2>3. CASE a \notin born /\ a \notin step.mask
    <3>1. State(a) = moved[a] /\ State2(a) = moved2[a]
      BY <1>1, <1>2, <2>3
    <3> QED
      BY <1>4, <3>1
  <2> QED
    BY <2>1, <2>2, <2>3
<1>6. /\ NextFrame(frame, reference, step, e1)[a] = [State(a) EXCEPT !.valid = reference[a].valid]
      /\ NextFrame(other, reference, step2, e2)[a] = [State2(a) EXCEPT !.valid = reference[a].valid]
  BY <1>1 DEF NextFrame
<1> HIDE DEF State, State2
<1> QED
  BY <1>5, <1>6

\* The runs without a plan and with the plan that is the log are the same.
LEMMA ShamFrames ==
  ASSUME NEW policy \in Policies, NEW log \in Logs, NEW legacy, NEW sham,
         Executed(legacy, policy, log, "legacy", LastFrame),
         Executed(sham, policy, log, "identity", Stop)
  PROVE  /\ \A t \in 0..Stop : sham.frames[t] = legacy.frames[t]
         /\ \A t \in Transitions : sham.trace[t] = legacy.trace[t]
<1> DEFINE Same == {t \in 0..Stop : sham.frames[t] = legacy.frames[t]}
<1>1. \A t \in 0..Current : t \in Same
  BY Horizon DEF Executed
<1>2. ASSUME NEW t \in Current..(Stop - 1), t \in Same PROVE t + 1 \in Same
  <2>1. t \in Current..(LastFrame - 1) /\ t + 1 \in 0..Stop /\ t + 1 \in Current..LastFrame
        /\ t + 1 \in Current..Stop
    BY Horizon
  <2>2. /\ sham.frames[t + 1] = NextFrame(sham.frames[t], log[t + 1],
                                          StepAt(policy, log, sham.frames, t),
                                          EgoUnder("identity", log, t + 1))
        /\ legacy.frames[t + 1] = NextFrame(legacy.frames[t], log[t + 1],
                                            StepAt(policy, log, legacy.frames, t),
                                            EgoUnder("legacy", log, t + 1))
    BY <2>1 DEF Executed
  <2>3. EgoUnder("identity", log, t + 1) = EgoUnder("legacy", log, t + 1)
    <3>1. EgoUnder("identity", log, t + 1) = log[t + 1][Ego]
      BY <2>1, EgoStates DEF StopOf, Conditions
    <3>2. EgoUnder("legacy", log, t + 1) = log[t + 1][Ego]
      BY DEF EgoUnder
    <3> QED
      BY <3>1, <3>2
  <2>4. StepAt(policy, log, sham.frames, t) = StepAt(policy, log, legacy.frames, t)
    BY <1>2 DEF StepAt
  <2>5. sham.frames[t] = legacy.frames[t]
    BY <1>2
  <2> QED
    BY <2>1, <2>2, <2>3, <2>4, <2>5
<1>3. Current..Stop \subseteq Same
  <2>1. Current \in Same
    BY <1>1, Horizon
  <2> HIDE DEF Same
  <2> QED
    BY <1>2, <2>1, Horizon, UpThrough
<1>4. \A t \in 0..Stop : sham.frames[t] = legacy.frames[t]
  <2>1. \A t \in 0..Stop : t \in 0..Current \/ t \in Current..Stop
    BY Horizon
  <2> QED
    BY <1>1, <1>3, <2>1
<1>5. ASSUME NEW t \in Transitions PROVE sham.trace[t] = legacy.trace[t]
  <2>1. t \in 0..Stop /\ t \in Current..(LastFrame - 1) /\ t \in Current..(Stop - 1)
    BY Horizon DEF Transitions
  <2>2. StepAt(policy, log, sham.frames, t) = StepAt(policy, log, legacy.frames, t)
    BY <1>4, <2>1 DEF StepAt
  <2> QED
    BY <2>1, <2>2 DEF Executed
<1> QED
  BY <1>4, <1>5

\* Two executed runs without a brake pass the identity sham: the shorter is the longer's beginning.
LEMMA ShamOf ==
  ASSUME NEW policy \in Policies, NEW log \in Logs, NEW runs,
         Executed(runs["legacy"], policy, log, "legacy", LastFrame),
         Executed(runs["identity"], policy, log, "identity", Stop)
  PROVE  ShamHolds(runs)
<1> DEFINE legacy == runs["legacy"]
           sham == runs["identity"]
<1>1. /\ \A t \in 0..Stop : sham.frames[t] = legacy.frames[t]
      /\ \A t \in Transitions : sham.trace[t] = legacy.trace[t]
  <2>1. /\ Executed(legacy, policy, log, "legacy", LastFrame)
        /\ Executed(sham, policy, log, "identity", Stop)
    OBVIOUS
  <2> HIDE DEF legacy, sham
  <2> QED
    BY <2>1, ShamFrames
<1>2. Countable(sham.trace, sham.frames, Current, Stop)
  <2>1. Stop \in Current..StopOf("identity") /\ "identity" \in Conditions
    BY Horizon DEF StopOf, Conditions
  <2>2. Executed(sham, policy, log, "identity", Stop)
    OBVIOUS
  <2> HIDE DEF sham
  <2> QED
    BY <2>1, <2>2, RowsCount
<1>3. ReplayedClamps(sham.trace, sham.frames, Current, Stop)
        = ReplayedClamps(legacy.trace, legacy.frames, Current, Stop)
  <2>1. \A t \in Current..(Stop - 1) : sham.trace[t] = legacy.trace[t]
                                      /\ sham.frames[t] = legacy.frames[t]
    BY <1>1, Horizon DEF Transitions
  <2> DEFINE trace == sham.trace
             frames == sham.frames
             other == legacy.trace
             others == legacy.frames
  <2>2. /\ Countable(trace, frames, Current, Stop)
        /\ \A t \in Current..(Stop - 1) : trace[t] = other[t] /\ frames[t] = others[t]
    BY <1>2, <2>1
  <2> HIDE DEF trace, frames, other, others
  <2>3. ReplayedClamps(trace, frames, Current, Stop) = ReplayedClamps(other, others, Current, Stop)
    BY <2>2, Horizon, ReplayedAlike
  <2> QED
    BY <2>3 DEF trace, frames, other, others
<1>4. /\ sham.clamps = ReplayedClamps(sham.trace, sham.frames, Current, Stop)
      /\ legacy.clamps = ReplayedClamps(legacy.trace, legacy.frames, Current, LastFrame)
  BY DEF Executed
<1>5. ShamClampsHold(runs)
  BY <1>3, <1>4 DEF ShamClampsHold
<1> QED
  BY <1>1, <1>5 DEF ShamHolds

-----------------------------------------------------------------------------
(* A pair *)

DoseOf(k) == IF k = "secondary" THEN SecondaryDose ELSE PrimaryDose

\* A rollout with a plan keeps the history, the lifecycle and its plan.
LEMMA PlannedRun ==
  ASSUME NEW policy \in Policies, NEW log \in Logs, NEW k \in Conditions \ {"legacy"},
         NEW r, Executed(r, policy, log, k, Stop)
  PROVE  /\ HistoryHolds(log, r.frames) /\ LifecycleHolds(log, r.frames)
         /\ \A t \in Frames : r.frames[t][Ego] = PlanUnder(k, log)[t]
<1>1. /\ k \in Conditions /\ StopOf(k) = Stop /\ Stop \in Current..StopOf(k)
      /\ Current \in Frames /\ Current \in Current..StopOf(k) /\ Current \in 0..Current
  BY Horizon DEF StopOf, Frames
<1>2. HistoryHolds(log, r.frames)
  BY DEF HistoryHolds, Executed
<1>3. LifecycleHolds(log, r.frames)
  <2>1. \A t \in 0..Stop, a \in Agents : r.frames[t][a].valid = log[t][a].valid
    BY <1>1, ExecutedValid
  <2> QED
    BY <2>1 DEF LifecycleHolds, Valid
<1>4. ASSUME NEW t \in Frames PROVE r.frames[t][Ego] = PlanUnder(k, log)[t]
  <2>1. EgoUnder(k, log, t) = PlanUnder(k, log)[t]
    BY DEF EgoUnder
  <2>2. CASE t = Current
    <3>1. r.frames[Current] = log[Current]
      BY <1>1 DEF Executed
    <3>2. PrimaryDose \in Nat \ {0} /\ SecondaryDose \in Nat \ {0}
      BY HorizonAssumption
    <3>3. PlanUnder(k, log)[Current] = log[Current][Ego]
      <4>1. CASE k = "identity"
        BY <1>1, <4>1 DEF PlanUnder, LogEgo
      <4>2. CASE k = "primary"
        <5>1. PlanUnder(k, log) = BrakePlan(log, PrimaryDose)
          BY <4>2 DEF PlanUnder
        <5> QED
          BY <3>2, <5>1, PlanStates
      <4>3. CASE k = "secondary"
        <5>1. PlanUnder(k, log) = BrakePlan(log, SecondaryDose)
          BY <4>3 DEF PlanUnder
        <5> QED
          BY <3>2, <5>1, PlanStates
      <4> QED
        BY <4>1, <4>2, <4>3 DEF Conditions
    <3> QED
      BY <2>2, <3>1, <3>3
  <2>3. CASE t # Current
    <3> DEFINE s == t - 1
    <3>1. s \in Current..(Stop - 1) /\ s + 1 = t
      BY <2>3, Horizon DEF Frames
    <3> HIDE DEF s
    <3>2. ExecutedAt(r, policy, log, k, s)
      BY <1>1, <3>1, ExecutedSteps
    <3> QED
      BY <2>1, <3>1, <3>2 DEF ExecutedAt
  <2> QED
    BY <2>2, <2>3
<1> QED
  BY <1>2, <1>3, <1>4

\* Executed runs of one log pass the coverage floor.
LEMMA FloorOf ==
  ASSUME NEW policy \in Policies, NEW log \in Logs,
         NEW k \in Conditions \ {"legacy"}, NEW j \in Conditions \ {"legacy"}, NEW base, NEW treated,
         Executed(base, policy, log, j, Stop), Executed(treated, policy, log, k, Stop)
  PROVE  FloorHolds(base.frames, treated.frames)
<1>1. \A t \in 0..Current : base.frames[t] = treated.frames[t]
  BY DEF Executed
<1>2. Current \in Current..(Stop - 1) /\ Current \in 0..Current /\ Current \in Nat
  BY Horizon
<1>3. StepAt(policy, log, base.frames, Current) = StepAt(policy, log, treated.frames, Current)
  BY <1>1, <1>2 DEF StepAt
<1> DEFINE step == StepAt(policy, log, base.frames, Current)
           frame == base.frames[Current]
           reference == log[Current + 1]
<1>4. /\ base.frames[Current + 1]
           = NextFrame(frame, reference, step, EgoUnder(j, log, Current + 1))
      /\ treated.frames[Current + 1]
           = NextFrame(frame, reference, step, EgoUnder(k, log, Current + 1))
  BY <1>1, <1>2, <1>3 DEF Executed
<1>5. \A a \in World : base.frames[Current + 1][a] = treated.frames[Current + 1][a]
  <2> HIDE DEF step, frame, reference
  <2>1. \A a \in World : NextFrame(frame, reference, step, EgoUnder(j, log, Current + 1))[a]
                           = NextFrame(frame, reference, step, EgoUnder(k, log, Current + 1))[a]
    BY WorldAlone
  <2> QED
    BY <1>4, <2>1
<1>6. \A t \in 0..(Current + 1) : t \in 0..Current \/ t = Current + 1
  BY <1>2
<1> QED
  BY <1>1, <1>5, <1>6 DEF FloorHolds

\* An executed baseline and an executed brake over one log pass the comparison of a pair.
LEMMA PairOf ==
  ASSUME NEW policy \in Policies, NEW log \in Logs, NEW k \in {"primary", "secondary"},
         NEW base, NEW treated,
         Executed(base, policy, log, "identity", Stop), Executed(treated, policy, log, k, Stop)
  PROVE  PairHolds(log, base.frames, treated.frames, DoseOf(k))
<1>1. k \in Conditions \ {"legacy"} /\ "identity" \in Conditions \ {"legacy"}
  BY DEF Conditions
<1>2. /\ HistoryHolds(log, base.frames) /\ LifecycleHolds(log, base.frames)
      /\ \A t \in Frames : base.frames[t][Ego] = PlanUnder("identity", log)[t]
  BY <1>1, PlannedRun
<1>3. /\ HistoryHolds(log, treated.frames) /\ LifecycleHolds(log, treated.frames)
      /\ \A t \in Frames : treated.frames[t][Ego] = PlanUnder(k, log)[t]
  BY <1>1, PlannedRun
<1>4. FloorHolds(base.frames, treated.frames)
  BY <1>1, FloorOf
<1>5. PlanUnder("identity", log) = LogEgo(log) /\ PlanUnder(k, log) = BrakePlan(log, DoseOf(k))
  BY DEF PlanUnder, DoseOf
<1> QED
  BY <1>2, <1>3, <1>4, <1>5 DEF PairHolds, PlanHolds

-----------------------------------------------------------------------------
(* The target *)

\* The target of a log is one of its candidates, a vehicle of the world.
LEMMA TargetIs ==
  ASSUME NEW log \in Logs, Targets(log) # {}
  PROVE  Target(log) \in Targets(log) /\ Target(log) \in World /\ Target(log) \in Vehicles
<1>1. Targets(log) \subseteq Vehicles /\ Vehicles \subseteq World /\ World \subseteq Nat
  BY LimitsAssumption DEF Targets, StableFollowers
<1>2. \A a \in Targets(log) : FollowerGap(log, a) \in Int
  <2>1. \A a \in Targets(log) : FollowerGap(log, a) \in MinimumFollowerGap..MaximumFollowerGap
    BY DEF Targets
  <2> QED
    BY <2>1
<1>3. IsFiniteSet(Targets(log))
  BY <1>1, LimitsAssumption, FS_Subset
<1> DEFINE gaps == {FollowerGap(log, a) : a \in Targets(log)}
<1>4. gaps \in SUBSET Int /\ IsFiniteSet(gaps) /\ gaps # {}
  <2>1. IsFiniteSet(gaps)
    <3> DEFINE f == [a \in Targets(log) |-> FollowerGap(log, a)]
    <3>1. f \in Surjection(Targets(log), gaps)
      BY DEF Surjection
    <3> HIDE DEF f, gaps
    <3> QED
      BY <1>3, <3>1, FS_Surjection
  <2> QED
    BY <1>2, <2>1
<1>5. PICK least \in gaps : \A g \in gaps : least <= g
  <2> HIDE DEF gaps
  <2> QED
    BY <1>4, MinIsLeast
<1> DEFINE nearest == {a \in Targets(log) : FollowerGap(log, a) = least}
<1>6. nearest \in SUBSET Int /\ IsFiniteSet(nearest) /\ nearest # {}
  <2>1. nearest \subseteq Targets(log)
    OBVIOUS
  <2>2. IsFiniteSet(nearest)
    <3> HIDE DEF nearest
    <3> QED
      BY <1>3, <2>1, FS_Subset
  <2> QED
    BY <1>1, <1>5, <2>2
<1>7. PICK a \in nearest : \A b \in nearest : a <= b
  <2> HIDE DEF nearest
  <2> QED
    BY <1>6, MinIsLeast
<1>8. \A b \in Targets(log) : \/ FollowerGap(log, a) < FollowerGap(log, b)
                              \/ FollowerGap(log, a) = FollowerGap(log, b) /\ a <= b
  <2> SUFFICES ASSUME NEW b \in Targets(log)
               PROVE  \/ FollowerGap(log, a) < FollowerGap(log, b)
                      \/ FollowerGap(log, a) = FollowerGap(log, b) /\ a <= b
    OBVIOUS
  <2>1. FollowerGap(log, a) = least /\ least <= FollowerGap(log, b) /\ least \in Int
        /\ FollowerGap(log, b) \in Int
    BY <1>2, <1>5, <1>7
  <2>2. FollowerGap(log, b) = least => a <= b
    BY <1>7
  <2> QED
    BY <2>1, <2>2
<1>9. Target(log) \in Targets(log)
  BY <1>7, <1>8 DEF Target
<1> QED
  BY <1>1, <1>9

-----------------------------------------------------------------------------
(* A policy that cannot react does not *)

\* Under a policy that does not react, the world does not see the brake.
LEMMA NonreactiveWorld ==
  ASSUME NEW policy \in Policies, policy \in Nonreactive, NEW log \in Logs,
         NEW k \in Conditions \ {"legacy"}, NEW j \in Conditions \ {"legacy"}, NEW base, NEW treated,
         Executed(base, policy, log, j, Stop), Executed(treated, policy, log, k, Stop)
  PROVE  \A t \in Frames, a \in World : base.frames[t][a] = treated.frames[t][a]
<1> DEFINE Alike == {t \in Frames : \A a \in World : base.frames[t][a] = treated.frames[t][a]}
<1>1. Current \in Alike
  <2>1. Current \in 0..Current /\ Current \in Frames
    BY Horizon DEF Frames
  <2>2. base.frames[Current] = treated.frames[Current]
    BY <2>1 DEF Executed
  <2> QED
    BY <2>1, <2>2
<1>2. ASSUME NEW t \in Current..(Stop - 1), t \in Alike PROVE t + 1 \in Alike
  <2> DEFINE frame == base.frames[t]
             other == treated.frames[t]
             reference == log[t + 1]
             step == StepAt(policy, log, base.frames, t)
             step2 == StepAt(policy, log, treated.frames, t)
             e1 == EgoUnder(j, log, t + 1)
             e2 == EgoUnder(k, log, t + 1)
  <2>1. t + 1 \in Frames
    BY Horizon DEF Frames
  <2>2. /\ base.frames[t + 1] = NextFrame(frame, reference, step, e1)
        /\ treated.frames[t + 1] = NextFrame(other, reference, step2, e2)
    BY DEF Executed
  <2>3. /\ step.acceleration = step2.acceleration /\ step.mask = step2.mask
        /\ \A a \in step.mask : step.override[a] = step2.override[a]
    <3>1. policy = "log_replay" \/ policy = "constant_velocity"
      BY DEF Nonreactive
    <3>2. CASE policy = "log_replay"
      BY <3>2 DEF StepAt, PolicyStep
    <3>3. CASE policy = "constant_velocity"
      BY <3>3 DEF StepAt, PolicyStep, Unforced
    <3> QED
      BY <3>1, <3>2, <3>3
  <2>4. \A a \in World : frame[a] = other[a]
    BY <1>2
  <2>5. \A a \in World : base.frames[t + 1][a] = treated.frames[t + 1][a]
    <3> HIDE DEF frame, other, reference, step, step2, e1, e2
    <3>1. \A a \in World : NextFrame(frame, reference, step, e1)[a]
                             = NextFrame(other, reference, step2, e2)[a]
      BY <2>3, <2>4, WorldAlone
    <3> QED
      BY <2>2, <3>1
  <2> QED
    BY <2>1, <2>5
<1>3. Current..Stop \subseteq Alike
  <2> HIDE DEF Alike
  <2> QED
    BY <1>1, <1>2, Horizon, UpThrough
<1> QED
  BY <1>3 DEF Frames

\* The impulse is a sum over the transitions.
Extra(base, treated, a) == [t \in Transitions |-> ExtraBraking(base, treated, a, t)]

\* Without extra braking there is no impulse.
LEMMA NoImpulse ==
  ASSUME NEW base, NEW treated, NEW a,
         \A t \in Transitions : ExtraBraking(base, treated, a, t) = 0
  PROVE  Impulse(base, treated, a) = 0
<1> DEFINE f == Extra(base, treated, a)
<1>1. f \in [Transitions -> Int] /\ \A t \in Transitions : f[t] = 0
  BY DEF Extra
<1>2. IsFiniteSet(Transitions)
  BY Horizon, FS_Interval DEF Transitions
<1>3. Impulse(base, treated, a) = SumFunction(f)
  BY DEF Impulse, Extra
<1> HIDE DEF f
<1>4. PICK sum : Additive(sum, f, Transitions) /\ SumFunction(f) = sum[Transitions]
  BY <1>1, <1>2, SumIs
<1>5. sum[Transitions] = 0
  BY <1>1, <1>2, <1>4, ZeroSum
<1> QED
  BY <1>3, <1>4, <1>5

\* Executed runs of a policy that does not react pass its gate.
LEMMA NonreactivityOf ==
  ASSUME NEW policy \in Policies, NEW log \in Logs, Targets(log) # {},
         NEW k \in Conditions \ {"legacy"}, NEW j \in Conditions \ {"legacy"}, NEW base, NEW treated,
         Executed(base, policy, log, j, Stop), Executed(treated, policy, log, k, Stop)
  PROVE  NonreactivityHolds(policy, log, base.frames, treated.frames)
<1> SUFFICES ASSUME policy \in Nonreactive
             PROVE  ExactlyNonreactive(base.frames, treated.frames, Target(log))
  BY DEF NonreactivityHolds
<1> DEFINE a == Target(log)
           b == base.frames
           d == treated.frames
<1>1. a \in World /\ a \in Agents
  BY TargetIs DEF Agents
<1>2. \A t \in Frames, w \in World : b[t][w] = d[t][w]
  BY NonreactiveWorld
<1>3. \A t \in Frames : b[t][a].spd \in Int /\ b[t][a].pos \in Int
  <2>1. b \in [0..Stop -> FrameStates]
    BY DEF Executed
  <2>2. Frames \subseteq 0..Stop
    BY Horizon DEF Frames
  <2> SUFFICES ASSUME NEW t \in Frames PROVE b[t][a].spd \in Int /\ b[t][a].pos \in Int
    OBVIOUS
  <2> HIDE DEF a, b
  <2>3. b[t] \in FrameStates
    BY <2>1, <2>2
  <2>4. b[t][a] \in AgentStates
    BY <1>1, <2>3 DEF FrameStates
  <2> QED
    BY <2>4 DEF AgentStates
<1> HIDE DEF a, b, d
<1>4. ASSUME NEW t \in Transitions PROVE ExtraBraking(b, d, a, t) = 0
  <2>1. t \in Frames /\ t + 1 \in Frames
    BY Horizon DEF Transitions, Frames
  <2>2. Acceleration(b, a, t) = Acceleration(d, a, t)
    BY <1>1, <1>2, <2>1 DEF Acceleration
  <2>3. Acceleration(b, a, t) \in Int
    BY <1>3, <2>1 DEF Acceleration
  <2>4. Acceleration(b, a, t) - Acceleration(d, a, t) = 0
    BY <2>2, <2>3
  <2> QED
    BY <2>4, MaxOfTwo DEF ExtraBraking
<1>5. Impulse(b, d, a) = 0
  BY <1>4, NoImpulse
<1>6. Responses(b, d, a) = {}
  <2> SUFFICES ASSUME NEW t \in Responses(b, d, a) PROVE FALSE
    OBVIOUS
  <2>1. t \in Transitions /\ t \in (t - Persistence + 1)..t
    BY WindowAssumption, Horizon DEF Responses, Transitions
  <2>2. ExtraBraking(b, d, a, t) >= ResponseThreshold
    BY <2>1 DEF Responses
  <2> QED
    BY <1>4, <2>1, <2>2, WindowAssumption
<1>7. Timeliness(Responses(b, d, a)) = 0
  BY <1>6 DEF Timeliness
<1>8. ProgressLoss(b, d, a) = 0
  <2>1. Stop \in Frames
    BY Horizon DEF Frames
  <2> QED
    BY <1>1, <1>2, <1>3, <2>1 DEF ProgressLoss
<1>9. WorldAgrees(b, d)
  BY <1>2, Horizon DEF WorldAgrees
<1>10. \A metric \in {"impulse", "timeliness", "loss"} : PrimaryResults(b, d, a)[metric].value = 0
  BY <1>5, <1>7, <1>8 DEF PrimaryResults
<1> QED
  BY <1>9, <1>10 DEF ExactlyNonreactive, a, b, d

-----------------------------------------------------------------------------
(* A scene *)

\* A scene result made of executed runs holds.
LEMMA SceneOfRuns ==
  ASSUME NEW policy \in Policies, NEW log \in Logs, Targets(log) # {},
         NEW k \in {"primary", "secondary"}, NEW scene,
         log = source[scene.case], scene.policy = policy,
         Executed(scene.legacy, policy, log, "legacy", LastFrame),
         Executed(scene.baseline, policy, log, "identity", Stop),
         Executed(scene.treated, policy, log, k, Stop),
         scene.primary = PrimaryResults(scene.baseline.frames, scene.treated.frames, Target(log)),
         scene.secondary = SecondaryResults(scene.baseline.frames, scene.treated.frames, Target(log))
  PROVE  SceneHolds(scene, DoseOf(k))
<1>1. {"identity", k} \subseteq Conditions \ {"legacy"} /\ {"legacy", "identity", k} \subseteq Conditions
      /\ k \in Conditions \ {"legacy"} /\ "identity" \in Conditions \ {"legacy"}
  BY DEF Conditions
<1>2. ShamHolds([legacy |-> scene.legacy, identity |-> scene.baseline])
  <2> DEFINE runs == [legacy |-> scene.legacy, identity |-> scene.baseline]
  <2>1. runs["legacy"] = scene.legacy /\ runs["identity"] = scene.baseline
    OBVIOUS
  <2> HIDE DEF runs
  <2>2. ShamHolds(runs)
    BY <2>1, ShamOf
  <2> QED
    BY <2>2 DEF runs
<1>3. Stop \in Current..StopOf("identity") /\ Stop \in Current..StopOf(k)
      /\ LastFrame \in Current..StopOf("legacy")
  BY Horizon DEF StopOf
<1>4. TraceBinds(scene.legacy.trace, scene.legacy, Current, LastFrame)
  BY <1>1, <1>3, TraceBindsTo
<1>5. TraceBinds(scene.baseline.trace, scene.baseline, Current, Stop)
  BY <1>1, <1>3, TraceBindsTo
<1>6. TraceBinds(scene.treated.trace, scene.treated, Current, Stop)
  BY <1>1, <1>3, TraceBindsTo
<1>7. PairHolds(log, scene.baseline.frames, scene.treated.frames, DoseOf(k))
  BY PairOf
<1>8. NonreactivityHolds(policy, log, scene.baseline.frames, scene.treated.frames)
  BY <1>1, NonreactivityOf
<1>9. \A kept \in {scene.baseline, scene.treated} : TraceBinds(kept.trace, kept, Current, Stop)
  BY <1>5, <1>6
<1> QED
  BY <1>2, <1>4, <1>7, <1>8, <1>9 DEF SceneHolds

-----------------------------------------------------------------------------
(* Listings *)

\* Sets that are listed without repetition have as many members as the list.
LEMMA ListedOnce ==
  ASSUME NEW S, IsFiniteSet(S), NEW T, NEW f \in [S -> T],
         \A x, y \in S : f[x] = f[y] => x = y, \A z \in T : \E x \in S : f[x] = z
  PROVE  IsFiniteSet(T) /\ Cardinality(T) = Cardinality(S)
<1>1. f \in Injection(S, T) /\ f \in Surjection(S, T)
  BY DEF Injection, IsInjective, Surjection
<1> QED
  BY <1>1, FS_Surjection

Increasing(s, n) == \A i, j \in 1..n : i < j => s[i] < s[j]

\* A finite set of integers has a listing in ascending order.
LEMMA AscendingExists ==
  ASSUME NEW S \in SUBSET Int, IsFiniteSet(S)
  PROVE  \E s \in [1..Cardinality(S) -> S] : Increasing(s, Cardinality(S))
<1> DEFINE Good == {T \in SUBSET S : \E s \in [1..Cardinality(T) -> T] : Increasing(s, Cardinality(T))}
<1>1. ASSUME NEW T \in SUBSET S, \A x \in T : T \ {x} \in Good PROVE T \in Good
  <2>1. IsFiniteSet(T) /\ Cardinality(T) \in Nat
    BY FS_Subset, FS_CardinalityType
  <2>2. CASE T = {}
    <3>1. Cardinality(T) = 0
      BY <2>2, FS_EmptySet
    <3>2. <<>> \in [1..0 -> T] /\ Increasing(<<>>, 0)
      BY DEF Increasing
    <3> QED
      BY <3>1, <3>2
  <2>3. CASE T # {}
    <3> DEFINE m == Max(T)
               n == Cardinality(T)
    <3>1. m \in T /\ \A x \in T : x <= m
      BY <2>1, <2>3, MaxIsGreatest
    <3>2. Cardinality(T \ {m}) = n - 1
      <4> HIDE DEF m
      <4> QED
        BY <2>1, <3>1, FS_RemoveElement, ZenonT(30)
    <3>3. n \in Nat /\ n # 0
      BY <2>1, <2>3, FS_EmptySet
    <3>4. PICK s \in [1..(n - 1) -> T \ {m}] : Increasing(s, n - 1)
      BY <1>1, <3>1, <3>2
    <3> DEFINE more == [i \in 1..n |-> IF i = n THEN m ELSE s[i]]
    <3> HIDE DEF m, n
    <3>5. more \in [1..n -> T]
      BY <3>1, <3>3, <3>4
    <3>6. Increasing(more, n)
      <4> SUFFICES ASSUME NEW i \in 1..n, NEW j \in 1..n, i < j PROVE more[i] < more[j]
        BY DEF Increasing
      <4>1. i \in 1..(n - 1)
        BY <3>3
      <4>2. s[i] \in T \ {m} /\ s[i] < m
        <5>1. s[i] \in T \ {m}
          BY <3>4, <4>1
        <5>2. s[i] \in Int /\ m \in Int /\ s[i] <= m /\ s[i] # m
          BY <3>1, <5>1
        <5> QED
          BY <5>1, <5>2
      <4>3. CASE j = n
        BY <3>3, <4>1, <4>2, <4>3
      <4>4. CASE j # n
        BY <3>3, <3>4, <4>1, <4>4 DEF Increasing
      <4> QED
        BY <4>3, <4>4
    <3> HIDE DEF more
    <3> QED
      BY <3>5, <3>6 DEF n
  <2> QED
    BY <2>2, <2>3
<1>2. SUBSET S \subseteq Good
  <2> HIDE DEF Good
  <2> QED
    BY <1>1, UpFromEmpty
<1> QED
  BY <1>2

\* Ascending lists every member of a finite set of numbers once, in their order.
LEMMA AscendingIs ==
  ASSUME NEW S \in SUBSET Int, IsFiniteSet(S)
  PROVE  /\ Ascending(S) \in Seq(S) /\ Len(Ascending(S)) = Cardinality(S)
         /\ \A i, j \in 1..Len(Ascending(S)) : i < j => Ascending(S)[i] < Ascending(S)[j]
         /\ \A i, j \in 1..Len(Ascending(S)) : Ascending(S)[i] = Ascending(S)[j] => i = j
         /\ \A x \in S : \E i \in 1..Len(Ascending(S)) : Ascending(S)[i] = x
         /\ Range(Ascending(S)) = S
<1> DEFINE n == Cardinality(S)
           s == Ascending(S)
<1>1. n \in Nat
  BY FS_CardinalityType
<1>2. s \in [1..n -> S] /\ Increasing(s, n)
  <2>1. \E t \in [1..Cardinality(S) -> S] :
          \A i, j \in 1..Cardinality(S) : i < j => t[i] < t[j]
    BY AscendingExists DEF Increasing
  <2>2. s \in [1..Cardinality(S) -> S] /\ \A i, j \in 1..Cardinality(S) : i < j => s[i] < s[j]
    BY <2>1 DEF Ascending
  <2> QED
    BY <2>2 DEF Increasing
<1> HIDE DEF s
<1>3. \A i, j \in 1..n : s[i] = s[j] => i = j
  <2> SUFFICES ASSUME NEW i \in 1..n, NEW j \in 1..n, s[i] = s[j], i # j PROVE FALSE
    OBVIOUS
  <2>1. s[i] \in Int /\ s[j] \in Int
    BY <1>2
  <2>2. i < j \/ j < i
    OBVIOUS
  <2> QED
    BY <1>2, <2>1, <2>2 DEF Increasing
<1>4. \A x \in S : \E i \in 1..n : s[i] = x
  <2>1. s \in Injection(1..n, S)
    BY <1>2, <1>3 DEF Injection, IsInjective
  <2>2. Cardinality(1..n) = Cardinality(S)
    BY <1>1, FS_Interval
  <2>3. s \in Surjection(1..n, S)
    BY <2>1, <2>2, FS_Injection
  <2> QED
    BY <2>3 DEF Surjection
<1>5. s \in Seq(S) /\ Len(s) = n
  <2> HIDE DEF n
  <2> QED
    BY <1>1, <1>2
<1>6. Range(s) = S
  <2> HIDE DEF n
  <2>1. DOMAIN s = 1..n
    BY <1>2
  <2> QED
    BY <1>2, <1>4, <2>1 DEF Range
<1> QED
  BY <1>2, <1>3, <1>4, <1>5, <1>6 DEF s, Increasing

-----------------------------------------------------------------------------
(* Sequences of sequences, one after the other *)

\* Induction over the places of a sequence.
LEMMA UpFromOne ==
  ASSUME NEW high \in Nat \ {0}, NEW Good, 1 \in Good,
         \A n \in 1..(high - 1) : n \in Good => n + 1 \in Good
  PROVE  1..high \subseteq Good
<1> DEFINE one == 1
<1>1. one \in Int /\ high \in Int /\ one \in Good
      /\ \A n \in one..(high - 1) : n \in Good => n + 1 \in Good
  OBVIOUS
<1>2. one..high \subseteq Good
  <2> HIDE DEF one
  <2> QED
    BY <1>1, UpThrough
<1> QED
  BY <1>2

\* The members of a concatenation.
LEMMA Joined ==
  ASSUME NEW T, NEW s \in Seq(T), NEW t \in Seq(T)
  PROVE  /\ s \o t \in Seq(T) /\ Len(s \o t) = Len(s) + Len(t)
         /\ \A i \in 1..Len(s) : (s \o t)[i] = s[i]
         /\ \A i \in 1..Len(t) : (s \o t)[Len(s) + i] = t[i]
<1>1. Len(s) \in Nat /\ Len(t) \in Nat
  OBVIOUS
<1>2. \A i \in 1..Len(t) : (s \o t)[Len(s) + i] = t[(Len(s) + i) - Len(s)]
  BY <1>1
<1>3. \A i \in 1..Len(t) : (Len(s) + i) - Len(s) = i
  BY <1>1
<1> QED
  BY <1>1, <1>2, <1>3

Flat(F, seqs, n) ==
  F = [i \in 1..n |-> IF i = 1 THEN seqs[i] ELSE F[i - 1] \o seqs[i]]

\* The steps by which a sequence of sequences is put end to end.
LEMMA FlatExists ==
  ASSUME NEW T, NEW seqs \in Seq(Seq(T)), Len(seqs) # 0
  PROVE  \E F : Flat(F, seqs, Len(seqs))
<1> DEFINE Good == {n \in 1..Len(seqs) : \E F : Flat(F, seqs, n)}
<1>1. Len(seqs) \in Nat /\ 1 \in 1..Len(seqs)
  OBVIOUS
<1>2. 1 \in Good
  <2>1. Flat([i \in 1..1 |-> seqs[i]], seqs, 1)
    BY DEF Flat
  <2> QED
    BY <1>1, <2>1
<1>3. ASSUME NEW n \in 1..(Len(seqs) - 1), n \in Good PROVE n + 1 \in Good
  <2>1. PICK F : Flat(F, seqs, n)
    BY <1>3
  <2> DEFINE G == [i \in 1..(n + 1) |-> IF i = n + 1 THEN F[n] \o seqs[n + 1] ELSE F[i]]
  <2>2. ASSUME NEW i \in 1..(n + 1)
        PROVE  G[i] = IF i = 1 THEN seqs[i] ELSE G[i - 1] \o seqs[i]
    <3>1. CASE i = n + 1
      <4>1. i # 1 /\ n \in 1..(n + 1) /\ n # n + 1 /\ i - 1 = n
        BY <3>1
      <4>2. G[i] = F[n] \o seqs[n + 1] /\ G[n] = F[n]
        BY <3>1, <4>1
      <4> HIDE DEF G
      <4> QED
        BY <3>1, <4>1, <4>2
    <3>2. CASE i # n + 1
      <4>1. i \in 1..n /\ G[i] = F[i] /\ (i # 1 => i - 1 \in 1..(n + 1) /\ i - 1 # n + 1)
        BY <3>2
      <4>2. F[i] = IF i = 1 THEN seqs[i] ELSE F[i - 1] \o seqs[i]
        BY <2>1, <4>1 DEF Flat
      <4>3. i # 1 => G[i - 1] = F[i - 1]
        BY <4>1
      <4> HIDE DEF G
      <4> QED
        BY <4>1, <4>2, <4>3
    <3> QED
      BY <3>1, <3>2
  <2>3. G = [i \in 1..(n + 1) |-> G[i]]
    OBVIOUS
  <2>4. Flat(G, seqs, n + 1)
    <3> HIDE DEF G
    <3> QED
      BY <2>2, <2>3 DEF Flat
  <2> QED
    BY <1>1, <2>4
<1>4. 1..Len(seqs) \subseteq Good
  <2> HIDE DEF Good
  <2> QED
    BY <1>1, <1>2, <1>3, UpFromOne
<1> QED
  BY <1>1, <1>4

\* FlattenSeq puts sequences end to end, one after the other.
LEMMA FlattenSteps ==
  ASSUME NEW T, NEW seqs \in Seq(Seq(T)), Len(seqs) # 0
  PROVE  \E F : /\ F \in [1..Len(seqs) -> Seq(T)] /\ F[1] = seqs[1]
                /\ \A i \in 2..Len(seqs) : F[i] = F[i - 1] \o seqs[i]
                /\ FlattenSeq(seqs) = F[Len(seqs)]
<1> DEFINE F == CHOOSE F : Flat(F, seqs, Len(seqs))
           n == Len(seqs)
<1>1. n \in Nat /\ n # 0
  OBVIOUS
<1>2. FlattenSeq(seqs) = F[n]
  BY DEF FlattenSeq, Flat
<1>3. Flat(F, seqs, n)
  BY FlatExists
<1>4. \A i \in 1..n : seqs[i] \in Seq(T)
  OBVIOUS
<1> HIDE DEF F, n
<1>5. F = [i \in 1..n |-> IF i = 1 THEN seqs[i] ELSE F[i - 1] \o seqs[i]]
  BY <1>3 DEF Flat
<1>6. \A i \in 1..n : F[i] = IF i = 1 THEN seqs[i] ELSE F[i - 1] \o seqs[i]
  BY <1>5
<1>7. F[1] = seqs[1]
  BY <1>1, <1>6
<1>8. \A i \in 2..n : F[i] = F[i - 1] \o seqs[i]
  <2>1. \A i \in 2..n : i \in 1..n /\ i # 1
    BY <1>1
  <2> QED
    BY <1>6, <2>1
<1> DEFINE Good == {i \in 1..n : F[i] \in Seq(T)}
<1>9. 1 \in Good
  BY <1>1, <1>4, <1>7
<1>10. ASSUME NEW i \in 1..(n - 1), i \in Good PROVE i + 1 \in Good
  <2>1. i + 1 \in 2..n /\ (i + 1) - 1 = i /\ i + 1 \in 1..n
    BY <1>1
  <2>2. F[i + 1] = F[i] \o seqs[i + 1]
    BY <1>8, <2>1
  <2>3. F[i] \in Seq(T) /\ seqs[i + 1] \in Seq(T)
    BY <1>4, <1>10, <2>1
  <2>4. F[i] \o seqs[i + 1] \in Seq(T)
    BY <2>3, Joined, ZenonT(30)
  <2> QED
    BY <2>1, <2>2, <2>4
<1>11. 1..n \subseteq Good
  <2> HIDE DEF Good
  <2> QED
    BY <1>1, <1>9, <1>10, UpFromOne
<1>12. F \in [1..n -> Seq(T)]
  <2>1. DOMAIN F = 1..n
    BY <1>5
  <2>2. F = [i \in 1..n |-> F[i]]
    BY <1>5
  <2> QED
    BY <1>11, <2>2
<1> QED
  BY <1>2, <1>7, <1>8, <1>12 DEF n

\* Blocks of one size, one after the other.
InBlocks(flat, seqs, m, T) ==
  /\ flat \in Seq(T) /\ Len(flat) = m * Len(seqs)
  /\ \A i \in 1..Len(seqs), j \in 1..m : flat[m * (i - 1) + j] = seqs[i][j]

\* FlattenSeq of sequences of one length gives blocks of that length.
LEMMA FlattenBlocks ==
  ASSUME NEW T, NEW seqs \in Seq(Seq(T)), NEW m \in {1, 3, 4},
         \A i \in 1..Len(seqs) : Len(seqs[i]) = m
  PROVE  InBlocks(FlattenSeq(seqs), seqs, m, T)
<1> USE DEF InBlocks
<1>1. CASE Len(seqs) = 0
  <2>1. FlattenSeq(seqs) = seqs /\ seqs = <<>>
    BY <1>1 DEF FlattenSeq
  <2>2. m * 0 = 0
    OBVIOUS
  <2> QED
    BY <1>1, <2>1, <2>2
<1>2. CASE Len(seqs) # 0
  <2> DEFINE n == Len(seqs)
  <2>1. PICK F : /\ F \in [1..n -> Seq(T)] /\ F[1] = seqs[1]
                 /\ \A i \in 2..n : F[i] = F[i - 1] \o seqs[i]
                 /\ FlattenSeq(seqs) = F[n]
    BY <1>2, FlattenSteps
  <2>2. n \in Nat /\ n # 0 /\ \A i \in 1..n : seqs[i] \in Seq(T) /\ Len(seqs[i]) = m
    BY <1>2
  <2> DEFINE Good == {k \in 1..n : /\ Len(F[k]) = m * k
                                   /\ \A i \in 1..k, j \in 1..m : F[k][m * (i - 1) + j] = seqs[i][j]}
  <2> HIDE DEF n
  <2>3. 1 \in Good
    <3>1. m * 1 = m /\ \A i \in 1..1, j \in 1..m : i = 1 /\ m * (i - 1) + j = j
      OBVIOUS
    <3>2. 1 \in 1..n /\ F[1] = seqs[1] /\ Len(F[1]) = m * 1
      BY <2>1, <2>2, <3>1
    <3>3. \A i \in 1..1, j \in 1..m : F[1][m * (i - 1) + j] = seqs[i][j]
      BY <3>1, <3>2
    <3> QED
      BY <3>2, <3>3
  <2>4. ASSUME NEW k \in 1..(n - 1), k \in Good PROVE k + 1 \in Good
    <3>1. k + 1 \in 2..n /\ (k + 1) - 1 = k /\ k + 1 \in 1..n /\ k \in 1..n
      BY <2>2
    <3>2. F[k + 1] = F[k] \o seqs[k + 1]
      BY <2>1, <3>1
    <3>3. F[k] \in Seq(T) /\ seqs[k + 1] \in Seq(T) /\ Len(F[k]) = m * k /\ Len(seqs[k + 1]) = m
      BY <2>1, <2>2, <2>4, <3>1
    <3>4. m * (k + 1) = m * k + m /\ m * k \in Nat
      BY <3>1
    <3>5. Len(F[k + 1]) = m * (k + 1)
      <4> DEFINE a == F[k]
                 b == seqs[k + 1]
      <4>1. a \in Seq(T) /\ b \in Seq(T)
        BY <3>3
      <4>2. Len(a \o b) = Len(a) + Len(b)
        <5> HIDE DEF a, b
        <5> QED
          BY <4>1, Joined
      <4> QED
        BY <3>2, <3>3, <3>4, <4>2
    <3>6. ASSUME NEW i \in 1..(k + 1), NEW j \in 1..m
          PROVE  F[k + 1][m * (i - 1) + j] = seqs[i][j]
      <4>1. CASE i = k + 1
        <5>1. m * (i - 1) + j = Len(F[k]) + j
          BY <3>1, <3>3, <4>1
        <5>2. Len(F[k]) \in Nat /\ j \in 1..Len(seqs[k + 1])
          BY <3>3
        <5>3. (F[k] \o seqs[k + 1])[Len(F[k]) + j] = seqs[k + 1][j]
          <6> DEFINE a == F[k]
                     b == seqs[k + 1]
          <6>1. a \in Seq(T) /\ b \in Seq(T) /\ j \in 1..Len(b)
            BY <3>3, <5>2
          <6>2. (a \o b)[Len(a) + j] = b[j]
            <7> HIDE DEF a, b
            <7> QED
              BY <6>1, Joined
          <6> QED
            BY <6>2
        <5> QED
          BY <3>2, <4>1, <5>1, <5>3
      <4>2. CASE i # k + 1
        <5>1. i \in 1..k
          BY <3>1, <4>2
        <5>2. m * (i - 1) + j \in 1..(m * k)
          <6>1. CASE m = 1
            BY <3>1, <5>1, <6>1
          <6>2. CASE m = 3
            BY <3>1, <5>1, <6>2
          <6>3. CASE m = 4
            BY <3>1, <5>1, <6>3
          <6> QED
            BY <6>1, <6>2, <6>3
        <5> DEFINE x == m * (i - 1) + j
        <5>3. F[k][x] = seqs[i][j]
          BY <2>4, <5>1
        <5>4. x \in 1..Len(F[k])
          BY <3>3, <5>2
        <5> HIDE DEF x
        <5>5. (F[k] \o seqs[k + 1])[x] = F[k][x]
          <6> DEFINE a == F[k]
                     b == seqs[k + 1]
          <6>1. a \in Seq(T) /\ b \in Seq(T) /\ x \in 1..Len(a)
            BY <3>3, <5>4
          <6>2. (a \o b)[x] = a[x]
            <7> HIDE DEF a, b
            <7> QED
              BY <6>1, Joined
          <6> QED
            BY <6>2
        <5>6. F[k + 1][x] = seqs[i][j]
          BY <3>2, <5>3, <5>5
        <5> QED
          BY <5>6 DEF x
      <4> QED
        BY <4>1, <4>2
    <3> QED
      BY <3>1, <3>5, <3>6
  <2>5. 1..n \subseteq Good
    <3> HIDE DEF Good
    <3> QED
      BY <2>2, <2>3, <2>4, UpFromOne
  <2>6. n \in Good
    BY <2>2, <2>5
  <2> QED
    BY <2>1, <2>2, <2>6 DEF n
<1> QED
  BY <1>1, <1>2

\* Every place of such a sequence is in one of the blocks.
LEMMA PlaceInBlock ==
  ASSUME NEW n \in Nat, NEW m \in {1, 3, 4}, NEW x \in 1..(m * n)
  PROVE  \E i \in 1..n, j \in 1..m : x = m * (i - 1) + j
<1>1. CASE m = 1
  <2>1. x \in 1..n /\ x = m * (x - 1) + 1 /\ 1 \in 1..m
    BY <1>1
  <2> QED
    BY <2>1
<1>2. CASE m = 3
  <2> DEFINE q == (x - 1) \div 3
             r == (x - 1) % 3
  <2>1. q \in Int /\ r \in 0..2 /\ x - 1 = 3 * q + r
    BY <1>2
  <2> HIDE DEF q, r
  <2>2. q + 1 \in 1..n /\ r + 1 \in 1..m /\ x = m * ((q + 1) - 1) + (r + 1)
    BY <1>2, <2>1
  <2> QED
    BY <2>2
<1>3. CASE m = 4
  <2> DEFINE q == (x - 1) \div 4
             r == (x - 1) % 4
  <2>1. q \in Int /\ r \in 0..3 /\ x - 1 = 4 * q + r
    BY <1>3
  <2> HIDE DEF q, r
  <2>2. q + 1 \in 1..n /\ r + 1 \in 1..m /\ x = m * ((q + 1) - 1) + (r + 1)
    BY <1>3, <2>1
  <2> QED
    BY <2>2
<1> QED
  BY <1>1, <1>2, <1>3

\* In blocks of three,
LEMMA PlaceInThree ==
  ASSUME NEW n \in Nat, NEW x \in 1..(3 * n)
  PROVE  \E i \in 1..n, j \in 1..3 : x = 3 * (i - 1) + j
<1> DEFINE m == 3
<1>1. m \in {1, 3, 4} /\ x \in 1..(m * n)
  OBVIOUS
<1> HIDE DEF m
<1>2. \E i \in 1..n, j \in 1..m : x = m * (i - 1) + j
  BY <1>1, PlaceInBlock, ZenonT(30)
<1> QED
  BY <1>2 DEF m

\* and in blocks of four.
LEMMA PlaceInFour ==
  ASSUME NEW n \in Nat, NEW x \in 1..(4 * n)
  PROVE  \E i \in 1..n, j \in 1..4 : x = 4 * (i - 1) + j
<1> DEFINE m == 4
<1>1. m \in {1, 3, 4} /\ x \in 1..(m * n)
  OBVIOUS
<1> HIDE DEF m
<1>2. \E i \in 1..n, j \in 1..m : x = m * (i - 1) + j
  BY <1>1, PlaceInBlock, ZenonT(30)
<1> QED
  BY <1>2 DEF m

-----------------------------------------------------------------------------
(* The runs of the cases *)

\* The order of the policies lists each once.
LEMMA PolicyOrderIs ==
  /\ Len(PolicyOrder) = 3
  /\ \A p \in 1..3 : PolicyOrder[p] \in Policies
  /\ \A p, q \in 1..3 : PolicyOrder[p] = PolicyOrder[q] => p = q
  /\ \A policy \in Policies : \E p \in 1..3 : PolicyOrder[p] = policy
<1>1. /\ PolicyOrder[1] = "log_replay" /\ PolicyOrder[2] = "constant_velocity"
      /\ PolicyOrder[3] = "idm" /\ Len(PolicyOrder) = 3
  BY DEF PolicyOrder
<1>2. \A p \in 1..3 : p = 1 \/ p = 2 \/ p = 3
  OBVIOUS
<1>3. 1 \in 1..3 /\ 2 \in 1..3 /\ 3 \in 1..3
  OBVIOUS
<1> HIDE DEF PolicyOrder
<1>4. \A p \in 1..3 : PolicyOrder[p] \in Policies
  BY <1>1, <1>2 DEF Policies
<1>5. \A p, q \in 1..3 : PolicyOrder[p] = PolicyOrder[q] => p = q
  BY <1>1, <1>2
<1>6. \A policy \in Policies : \E p \in 1..3 : PolicyOrder[p] = policy
  BY <1>1, <1>3 DEF Policies
<1> QED
  BY <1>1, <1>4, <1>5, <1>6

\* Every case under each policy, case after case.
LEMMA RunsAre ==
  ASSUME NEW C, NEW cases \in Seq(C)
  PROVE  /\ RunsOf(cases) \in Seq([case : C, policy : Policies])
         /\ Len(RunsOf(cases)) = 3 * Len(cases)
         /\ \A i \in 1..Len(cases), p \in 1..3 :
              RunsOf(cases)[3 * (i - 1) + p] = [case |-> cases[i], policy |-> PolicyOrder[p]]
<1> DEFINE n == Len(cases)
           R == [case : C, policy : Policies]
           seqs == [i \in 1..n |-> PolicyRuns(cases[i])]
<1>1. n \in Nat /\ \A i \in 1..n : cases[i] \in C
  OBVIOUS
<1>2. \A c \in C : /\ PolicyRuns(c) \in Seq(R) /\ Len(PolicyRuns(c)) = 3
                   /\ \A p \in 1..3 : PolicyRuns(c)[p] = [case |-> c, policy |-> PolicyOrder[p]]
  <2> SUFFICES ASSUME NEW c \in C
               PROVE  /\ PolicyRuns(c) \in Seq(R) /\ Len(PolicyRuns(c)) = 3
                      /\ \A p \in 1..3 : PolicyRuns(c)[p] = [case |-> c, policy |-> PolicyOrder[p]]
    OBVIOUS
  <2>1. PolicyRuns(c) = [p \in 1..3 |-> [case |-> c, policy |-> PolicyOrder[p]]]
    BY PolicyOrderIs DEF PolicyRuns
  <2>2. \A p \in 1..3 : [case |-> c, policy |-> PolicyOrder[p]] \in R
    BY PolicyOrderIs
  <2> HIDE DEF R
  <2>3. [p \in 1..3 |-> [case |-> c, policy |-> PolicyOrder[p]]] \in [1..3 -> R]
    BY <2>2
  <2> QED
    BY <2>1, <2>3
<1>3. seqs \in Seq(Seq(R)) /\ Len(seqs) = n
  <2> HIDE DEF n, R
  <2>1. \A i \in 1..n : PolicyRuns(cases[i]) \in Seq(R)
    BY <1>1, <1>2
  <2> QED
    BY <1>1, <2>1
<1>4. \A i \in 1..n : seqs[i] = PolicyRuns(cases[i])
  OBVIOUS
<1>5. RunsOf(cases) = FlattenSeq(seqs)
  BY DEF RunsOf
<1> HIDE DEF seqs, n, R
<1>6. \A i \in 1..Len(seqs) : Len(seqs[i]) = 3
  <2> SUFFICES ASSUME NEW i \in 1..Len(seqs) PROVE Len(seqs[i]) = 3
    OBVIOUS
  <2>1. cases[i] \in C /\ seqs[i] = PolicyRuns(cases[i])
    BY <1>1, <1>3, <1>4
  <2> QED
    BY <1>2, <2>1
<1>7. /\ FlattenSeq(seqs) \in Seq(R) /\ Len(FlattenSeq(seqs)) = 3 * Len(seqs)
      /\ \A i \in 1..Len(seqs), j \in 1..3 : FlattenSeq(seqs)[3 * (i - 1) + j] = seqs[i][j]
  <2> DEFINE m == 3
  <2>1. m \in {1, 3, 4} /\ \A i \in 1..Len(seqs) : Len(seqs[i]) = m
    BY <1>6
  <2>2. seqs \in Seq(Seq(R))
    BY <1>3
  <2> HIDE DEF m
  <2>3. InBlocks(FlattenSeq(seqs), seqs, m, R)
    BY <2>1, <2>2, FlattenBlocks
  <2> QED
    BY <2>3 DEF m, InBlocks
<1>8. \A i \in 1..n, p \in 1..3 :
        RunsOf(cases)[3 * (i - 1) + p] = [case |-> cases[i], policy |-> PolicyOrder[p]]
  <2> SUFFICES ASSUME NEW i \in 1..n, NEW p \in 1..3
               PROVE  RunsOf(cases)[3 * (i - 1) + p]
                        = [case |-> cases[i], policy |-> PolicyOrder[p]]
    OBVIOUS
  <2>1. RunsOf(cases)[3 * (i - 1) + p] = seqs[i][p]
    BY <1>3, <1>5, <1>7
  <2>2. seqs[i][p] = [case |-> cases[i], policy |-> PolicyOrder[p]]
    BY <1>1, <1>2, <1>4
  <2> QED
    BY <2>1, <2>2
<1> QED
  BY <1>3, <1>5, <1>7, <1>8 DEF n, R

-----------------------------------------------------------------------------
(* The inductive invariant *)

EligibleIn(src) == Ascending({c \in Cases : Eligible(src[c])})
SevereIn(src) == Ascending({c \in Cases : Eligible(src[c]) /\ SevereFeasible(src[c])})
OrderIn(src) == RunsOf(EligibleIn(src))

Jobs == [case : Cases, policy : Policies]
Working == {"ready", "running", "gate", "analyse"}
Planned == Working \union {"statistics", "result", "compare_result", "published"}
Early == {"copy", "compare_copies", "validated"}
Stages == Planned \union Early \union {"compare_blocked", "blocked", "failed"}

TypesHold ==
  /\ caller \in [Cases -> Logs] /\ changes \in Nat /\ stage \in Stages
  /\ condition \in Conditions /\ DOMAIN source \subseteq Cases
  /\ \A c \in DOMAIN source : source[c] \in Logs
TodoHolds == todo \in Seq(Cases)

\* The cases that are not to be copied any more are, and stay as they are.
CopiesHold ==
  /\ stage # "copy" => DOMAIN source = Cases
  /\ stage = "copy" => \A c \in Cases : c \in DOMAIN source \/ \E i \in 1..Len(todo) : todo[i] = c
  /\ stage \in {"copy"} \union DOMAIN Compared => Len(todo) # 0
  /\ changes = 0 => \A c \in DOMAIN source : caller[c] = source[c]

\* What is to be run is what is left of the order.
PlansIn(src, st, prep, sev, done) ==
  st \in Planned =>
    /\ Len(EligibleIn(src)) >= MinimumPairs /\ sev = Range(SevereIn(src))
    /\ prep \in Seq(Jobs) /\ done \in Nat /\ done + Len(prep) = Len(OrderIn(src))
    /\ \A i \in 1..Len(prep) : prep[i] = OrderIn(src)[done + i]
    /\ st \in Working <=> Len(prep) # 0
PlansHold == PlansIn(source, stage, prepared, severe, Len(rows))

\* The conditions done before another.
Before(k) == CASE k = "legacy" -> {} [] k = "identity" -> {"legacy"}
               [] k = "primary" -> {"legacy", "identity"}
               [] k = "secondary" -> {"legacy", "identity", "primary"}

\* The rollouts that are kept, and the one under way, are what the engine makes.
RunsIn(src, st, prep, sev, k, r, kept) ==
  /\ st \in Working =>
       /\ DOMAIN kept = IF st \in {"gate", "analyse"} THEN Before(k) \union {k} ELSE Before(k)
       /\ \A j \in DOMAIN kept :
            Executed(kept[j], Head(prep).policy, src[Head(prep).case], j, StopOf(j))
       /\ k = "secondary" => Head(prep).case \in sev
       /\ st = "analyse" => k = IF Head(prep).case \in sev THEN "secondary" ELSE "primary"
  /\ st = "running" =>
       \E n \in Current..StopOf(k) : Executed(r, Head(prep).policy, src[Head(prep).case], k, n)
  /\ st # "running" => r = NoRun
  /\ st \notin Working => DOMAIN kept = {}
  /\ st \notin Working \union {"failed"} => k = "legacy"
RunsHold == RunsIn(source, stage, prepared, severe, condition, run, products)

\* A scene is what the runs of its condition give.
SceneIs(scene, at, log, k) ==
  /\ scene.case = at.case /\ scene.policy = at.policy /\ scene.target = Target(log)
  /\ Executed(scene.legacy, at.policy, log, "legacy", LastFrame)
  /\ Executed(scene.baseline, at.policy, log, "identity", Stop)
  /\ Executed(scene.treated, at.policy, log, k, Stop)
  /\ scene.primary = PrimaryResults(scene.baseline.frames, scene.treated.frames, Target(log))
  /\ scene.secondary = SecondaryResults(scene.baseline.frames, scene.treated.frames, Target(log))

\* The first of the order whose case can have the higher dose.
SevereUpTo(order, sev, n) == {i \in 1..n : order[i].case \in sev}

ScenesAre(order, src, sev, scenes, severeScenes) ==
  /\ \E S : scenes \in Seq(S)
  /\ \E S : severeScenes \in Seq(S)
  /\ \A i \in 1..Len(scenes) : SceneIs(scenes[i], order[i], src[order[i].case], "primary")
  /\ Len(severeScenes) = Cardinality(SevereUpTo(order, sev, Len(scenes)))
  /\ \A i \in SevereUpTo(order, sev, Len(scenes)) :
       SceneIs(severeScenes[Cardinality(SevereUpTo(order, sev, i))], order[i],
               src[order[i].case], "secondary")
  /\ \A j \in 1..Len(severeScenes) : \E i \in SevereUpTo(order, sev, Len(scenes)) :
       SceneIs(severeScenes[j], order[i], src[order[i].case], "secondary")

RowsIn(src, st, sev, scenes, severeScenes) ==
  /\ st \in Early => scenes = <<>> /\ severeScenes = <<>>
  /\ st \in Planned => ScenesAre(OrderIn(src), src, sev, scenes, severeScenes)
RowsHold == RowsIn(source, stage, severe, rows, severeRows)

MatrixHolds ==
  stage \in {"result", "compare_result", "published"} => matrix = Matrix(CellInputs(rows))

EvaluationInv ==
  /\ TypesHold /\ TodoHolds /\ CopiesHold /\ PlansHold /\ RunsHold /\ RowsHold
  /\ MatrixHolds /\ GatesRefuseNoHonestRun
-----------------------------------------------------------------------------
(* The cases *)

\* The cases a source makes eligible, and the order of its runs.
LEMMA CasesListed ==
  ASSUME NEW src
  PROVE  /\ EligibleIn(src) \in Seq({c \in Cases : Eligible(src[c])})
         /\ SevereIn(src) \in Seq({c \in Cases : Eligible(src[c]) /\ SevereFeasible(src[c])})
         /\ EligibleIn(src) \in Seq(Cases) /\ SevereIn(src) \in Seq(Cases)
         /\ Range(EligibleIn(src)) = {c \in Cases : Eligible(src[c])}
         /\ Range(SevereIn(src)) = {c \in Cases : Eligible(src[c]) /\ SevereFeasible(src[c])}
         /\ OrderIn(src) \in Seq(Jobs) /\ Len(OrderIn(src)) = 3 * Len(EligibleIn(src))
         /\ \A i \in 1..Len(EligibleIn(src)), p \in 1..3 :
              OrderIn(src)[3 * (i - 1) + p]
                = [case |-> EligibleIn(src)[i], policy |-> PolicyOrder[p]]
<1> DEFINE E == {c \in Cases : Eligible(src[c])}
           H == {c \in Cases : Eligible(src[c]) /\ SevereFeasible(src[c])}
<1>1. Cases \in SUBSET Int /\ IsFiniteSet(Cases)
  BY HorizonAssumption
<1>2. E \in SUBSET Cases /\ H \in SUBSET Cases
  OBVIOUS
<1> HIDE DEF E, H
<1>3. E \in SUBSET Int /\ H \in SUBSET Int /\ IsFiniteSet(E) /\ IsFiniteSet(H)
  BY <1>1, <1>2, FS_Subset
<1>4. /\ Ascending(E) \in Seq(E) /\ Range(Ascending(E)) = E
      /\ Ascending(H) \in Seq(H) /\ Range(Ascending(H)) = H
  BY <1>3, AscendingIs
<1>5. EligibleIn(src) = Ascending(E) /\ SevereIn(src) = Ascending(H)
  BY DEF EligibleIn, SevereIn, E, H
<1>6. EligibleIn(src) \in Seq(Cases) /\ SevereIn(src) \in Seq(Cases)
  BY <1>2, <1>4, <1>5
<1>7. /\ OrderIn(src) \in Seq(Jobs) /\ Len(OrderIn(src)) = 3 * Len(EligibleIn(src))
      /\ \A i \in 1..Len(EligibleIn(src)), p \in 1..3 :
           OrderIn(src)[3 * (i - 1) + p]
             = [case |-> EligibleIn(src)[i], policy |-> PolicyOrder[p]]
  BY <1>6, RunsAre DEF OrderIn, Jobs
<1> QED
  BY <1>4, <1>5, <1>6, <1>7 DEF E, H

\* Where the order is at, a case is eligible.
LEMMA OrderAt ==
  ASSUME NEW src, NEW x \in 1..Len(OrderIn(src))
  PROVE  /\ OrderIn(src)[x].case \in Cases /\ OrderIn(src)[x].policy \in Policies
         /\ Eligible(src[OrderIn(src)[x].case])
<1> DEFINE cases == EligibleIn(src)
<1>1. Len(cases) \in Nat /\ x \in 1..(3 * Len(cases))
  <2>1. cases \in Seq(Cases) /\ Len(OrderIn(src)) = 3 * Len(cases)
    BY CasesListed
  <2>2. x \in 1..(3 * Len(cases))
    BY <2>1
  <2> HIDE DEF cases
  <2>3. Len(cases) \in Nat
    BY <2>1
  <2> QED
    BY <2>2, <2>3
<1>2. PICK i \in 1..Len(cases), p \in 1..3 : x = 3 * (i - 1) + p
  BY <1>1, PlaceInThree
<1>3. OrderIn(src)[x] = [case |-> cases[i], policy |-> PolicyOrder[p]]
  BY <1>2, CasesListed
<1>4. cases[i] \in {c \in Cases : Eligible(src[c])}
  <2>1. cases \in Seq({c \in Cases : Eligible(src[c])})
    BY CasesListed
  <2> HIDE DEF cases
  <2> QED
    BY <1>2, <2>1
<1>5. PolicyOrder[p] \in Policies
  BY <1>2, PolicyOrderIs
<1> QED
  BY <1>3, <1>4, <1>5

\* The order of the cases lists all of them.
LEMMA CaseOrderIs ==
  /\ CaseOrder \in Seq(Cases) /\ Len(CaseOrder) # 0 /\ Range(CaseOrder) = Cases
  /\ \A c \in Cases : \E i \in 1..Len(CaseOrder) : CaseOrder[i] = c
<1>1. Cases \in SUBSET Int /\ IsFiniteSet(Cases) /\ Cases # {}
  BY HorizonAssumption
<1>2. /\ CaseOrder \in Seq(Cases) /\ Range(CaseOrder) = Cases
      /\ \A c \in Cases : \E i \in 1..Len(CaseOrder) : CaseOrder[i] = c
  BY <1>1, AscendingIs DEF CaseOrder
<1>3. Len(CaseOrder) # 0
  <2>1. PICK c \in Cases : TRUE
    BY <1>1
  <2>2. \E i \in 1..Len(CaseOrder) : CaseOrder[i] = c
    BY <1>2
  <2> QED
    BY <2>2
<1> QED
  BY <1>2, <1>3

\* The case and the policy at hand.
LEMMA AtHand ==
  ASSUME TypesHold, CopiesHold, PlansHold, stage \in Working
  PROVE  /\ Case \in Cases /\ Policy \in Policies /\ Log \in Logs /\ Eligible(Log)
         /\ Targets(Log) # {} /\ (Case \in severe => SevereFeasible(Log))
         /\ prepared \in Seq(Jobs) /\ Len(prepared) \in Nat \ {0}
         /\ Head(prepared) = OrderIn(source)[Len(rows) + 1]
         /\ Len(rows) + 1 \in 1..Len(OrderIn(source))
<1>1. /\ prepared \in Seq(Jobs) /\ Len(rows) \in Nat
      /\ Len(rows) + Len(prepared) = Len(OrderIn(source))
      /\ \A i \in 1..Len(prepared) : prepared[i] = OrderIn(source)[Len(rows) + i]
      /\ Len(prepared) # 0 /\ severe = Range(SevereIn(source))
  BY DEF PlansHold, PlansIn, Planned
<1>2. Len(prepared) \in Nat \ {0}
  BY <1>1
<1>3. Head(prepared) = prepared[1]
  BY <1>1, <1>2
<1>4. Head(prepared) = OrderIn(source)[Len(rows) + 1] /\ Len(rows) + 1 \in 1..Len(OrderIn(source))
  BY <1>1, <1>2, <1>3
<1>5. Case \in Cases /\ Policy \in Policies /\ Eligible(source[Case])
  BY <1>4, OrderAt DEF Case, Policy
<1>6. Log \in Logs
  BY <1>5 DEF TypesHold, CopiesHold, Log, Working
<1>7. Eligible(Log) /\ Targets(Log) # {}
  BY <1>5 DEF Log, Eligible
<1>8. Case \in severe => SevereFeasible(Log)
  BY <1>1, CasesListed DEF Log
<1> QED
  BY <1>1, <1>2, <1>4, <1>5, <1>6, <1>7, <1>8

-----------------------------------------------------------------------------
(* The first state *)

\* The evaluation begins in the invariant.
LEMMA EvaluationBegins == Init => EvaluationInv
<1> SUFFICES ASSUME Init PROVE EvaluationInv
  OBVIOUS
<1>1. TypesHold
  <2>1. \A c \in Cases : caller[c] \in Logs
    <3>1. \A c \in Cases : caller[c] \in UNION {Sources[k] : k \in Cases}
      BY DEF Init
    <3> QED
      BY <3>1, ScenarioAssumption
  <2>2. caller \in [Cases -> Logs]
    BY <2>1 DEF Init
  <2>3. source = <<>> /\ DOMAIN source = {}
    BY DEF Init
  <2> QED
    BY <2>2, <2>3 DEF Init, TypesHold, Stages, Early, Conditions
<1>2. TodoHolds
  BY CaseOrderIs DEF Init, TodoHolds
<1>3. CopiesHold
  <2>1. DOMAIN source = {}
    BY DEF Init
  <2> QED
    BY <2>1, CaseOrderIs DEF Init, CopiesHold
<1>4. PlansHold
  BY DEF Init, PlansHold, PlansIn, Planned, Working
<1>5. RunsHold
  <2>1. DOMAIN products = {}
    BY DEF Init
  <2> QED
    BY <2>1 DEF Init, RunsHold, RunsIn, Working
<1>6. RowsHold
  BY DEF Init, RowsHold, RowsIn, Planned, Working
<1>7. MatrixHolds /\ GatesRefuseNoHonestRun
  BY DEF Init, MatrixHolds, GatesRefuseNoHonestRun
<1> QED
  BY <1>1, <1>2, <1>3, <1>4, <1>5, <1>6, <1>7 DEF EvaluationInv

-----------------------------------------------------------------------------
(* The steps before anything is run, and after *)

\* A caller that changes its case behind the evaluation keeps the invariant.
LEMMA ChangesAreSafe ==
  ASSUME EvaluationInv, NEW c \in Cases, CallerChanges(c)
  PROVE  EvaluationInv'
<1> USE DEF EvaluationInv
<1>1. /\ UNCHANGED <<source, todo, stage, prepared, severe, condition, run, products, rows,
                     severeRows, matrix>>
      /\ changes' = changes + 1
  BY DEF CallerChanges, caseVars, planVars, resultVars
<1>2. TypesHold'
  <2>1. PICK s \in (Alternates \union {source[k] : k \in {c} \intersect DOMAIN source})
                     \ {caller[c]} :
          caller' = [caller EXCEPT ![c] = s]
    BY DEF CallerChanges
  <2>2. s \in Logs
    BY <2>1, ScenarioAssumption DEF TypesHold
  <2>3. caller' \in [Cases -> Logs]
    BY <2>1, <2>2 DEF TypesHold
  <2> QED
    BY <1>1, <2>3 DEF TypesHold
<1>3. TodoHolds'
  BY <1>1 DEF TodoHolds
<1>4. CopiesHold'
  <2>1. changes' # 0
    BY <1>1 DEF TypesHold
  <2> QED
    BY <1>1, <2>1 DEF CopiesHold
<1>5. PlansHold'
  BY <1>1 DEF PlansHold
<1>6. RunsHold'
  BY <1>1 DEF RunsHold
<1>7. RowsHold'
  BY <1>1 DEF RowsHold
<1>8. MatrixHolds'
  BY <1>1 DEF MatrixHolds
<1>9. GatesRefuseNoHonestRun'
  <2>1. stage' # "failed"
    BY <1>1 DEF CallerChanges, Ended
  <2> QED
    BY <2>1 DEF GatesRefuseNoHonestRun
<1> QED
  BY <1>2, <1>3, <1>4, <1>5, <1>6, <1>7, <1>8, <1>9

\* The copy of a case keeps the invariant.
LEMMA CopyIsSafe ==
  ASSUME EvaluationInv, CopyCase
  PROVE  EvaluationInv'
<1> USE DEF EvaluationInv
<1> DEFINE c == Head(todo)
<1>1. /\ UNCHANGED <<caller, changes, prepared, severe, condition, run, products, rows,
                     severeRows, matrix>>
      /\ stage = "copy"
      /\ source' = [k \in DOMAIN source \union {c} |-> IF k = c THEN caller[c] ELSE source[k]]
  BY DEF CopyCase, callerVars, planVars, resultVars
<1>2. todo \in Seq(Cases) /\ Len(todo) \in Nat \ {0}
  BY <1>1 DEF TodoHolds, CopiesHold
<1>3. c = todo[1] /\ c \in Cases
  BY <1>2
<1>4. \/ Len(todo) = 1 /\ stage' = "compare_copies" /\ todo' = CaseOrder
      \/ Len(todo) # 1 /\ todo' = Tail(todo) /\ stage' = "copy"
  BY <1>1 DEF CopyCase
<1> HIDE DEF c
<1>5. DOMAIN source' = DOMAIN source \union {c} /\ source'[c] = caller[c]
      /\ \A k \in DOMAIN source \ {c} : source'[k] = source[k]
  BY <1>1
<1>6. TypesHold'
  <2>1. \A k \in DOMAIN source' : source'[k] \in Logs
    BY <1>3, <1>5 DEF TypesHold
  <2>2. stage' \in Stages
    BY <1>4 DEF Stages, Early
  <2> QED
    BY <1>1, <1>3, <1>5, <2>1, <2>2 DEF TypesHold
<1>7. TodoHolds'
  <2>1. Tail(todo) \in Seq(Cases)
    BY <1>2
  <2> QED
    BY <1>4, <2>1, CaseOrderIs DEF TodoHolds
<1>8. CopiesHold'
  <2>1. \A k \in Cases : k \in DOMAIN source \/ \E i \in 1..Len(todo) : todo[i] = k
    BY <1>1 DEF CopiesHold
  <2>2. changes' = 0 => \A k \in DOMAIN source' : caller'[k] = source'[k]
    BY <1>1, <1>5 DEF CopiesHold
  <2>3. CASE Len(todo) = 1
    <3>1. DOMAIN source' = Cases
      BY <1>3, <1>5, <2>1, <2>3 DEF TypesHold
    <3>2. stage' = "compare_copies" /\ Len(todo') # 0
      BY <1>4, <2>3, CaseOrderIs
    <3> QED
      BY <2>2, <3>1, <3>2 DEF CopiesHold
  <2>4. CASE Len(todo) # 1
    <3>1. todo' = Tail(todo) /\ stage' = "copy" /\ Len(todo') = Len(todo) - 1
      BY <1>2, <1>4, <2>4
    <3>2. \A k \in Cases : k \in DOMAIN source' \/ \E i \in 1..Len(todo') : todo'[i] = k
      <4> SUFFICES ASSUME NEW k \in Cases, k \notin DOMAIN source'
                   PROVE  \E i \in 1..Len(todo') : todo'[i] = k
        OBVIOUS
      <4>1. PICK i \in 1..Len(todo) : todo[i] = k
        BY <1>5, <2>1
      <4>2. i # 1
        BY <1>3, <1>5, <4>1
      <4>3. i - 1 \in 1..Len(todo') /\ todo'[i - 1] = todo[i]
        BY <1>2, <3>1, <4>2
      <4> QED
        BY <4>1, <4>3
    <3>3. Len(todo') # 0
      BY <1>2, <2>4, <3>1
    <3> QED
      BY <2>2, <3>1, <3>2, <3>3 DEF CopiesHold
  <2> QED
    BY <2>3, <2>4
<1>9. PlansHold'
  BY <1>4 DEF PlansHold, PlansIn, Planned, Working
<1>10. RunsHold'
  BY <1>1, <1>4 DEF RunsHold, RunsIn, Working
<1>11. RowsHold'
  <2>1. stage' \notin Planned /\ rows' = <<>> /\ severeRows' = <<>>
    BY <1>1, <1>4 DEF RowsHold, RowsIn, Early, Planned, Working
  <2> QED
    BY <2>1 DEF RowsHold, RowsIn
<1>12. MatrixHolds' /\ GatesRefuseNoHonestRun'
  BY <1>4 DEF MatrixHolds, GatesRefuseNoHonestRun
<1> QED
  BY <1>6, <1>7, <1>8, <1>9, <1>10, <1>11, <1>12

\* The comparison of a copy with the caller's case keeps the invariant.
LEMMA CompareIsSafe ==
  ASSUME EvaluationInv, CompareCase
  PROVE  EvaluationInv'
<1> USE DEF EvaluationInv
<1>1. /\ UNCHANGED <<caller, changes, source, prepared, severe, condition, run, products, rows,
                     severeRows, matrix>>
      /\ todo' = Tail(todo)
  BY DEF CompareCase, callerVars, planVars, resultVars
<1>2. \/ stage = "compare_copies" /\ Compared[stage] = "validated"
      \/ stage = "compare_blocked" /\ Compared[stage] = "blocked"
      \/ stage = "compare_result" /\ Compared[stage] = "published"
  BY DEF CompareCase, Compared
<1>3. todo \in Seq(Cases) /\ Len(todo) \in Nat \ {0} /\ DOMAIN source = Cases
  BY <1>2 DEF TodoHolds, CopiesHold, CompareCase
<1>4. Head(todo) = todo[1] /\ Head(todo) \in Cases /\ todo' \in Seq(Cases)
      /\ (Len(todo) # 1 => Len(todo') # 0)
  BY <1>1, <1>3
<1>5. \/ ~SameAsCaller(Head(todo)) /\ stage' = "failed"
      \/ Len(todo) = 1 /\ stage' = Compared[stage]
      \/ Len(todo) # 1 /\ stage' = stage
  BY DEF CompareCase
<1>6. stage' \in {"failed", "validated", "blocked", "published"} \/ stage' = stage
  BY <1>2, <1>5
<1>7. TypesHold'
  <2>1. stage' \in Stages
    BY <1>6 DEF Stages, Early, Planned, TypesHold
  <2> QED
    BY <1>1, <2>1 DEF TypesHold
<1>8. TodoHolds'
  BY <1>4 DEF TodoHolds
<1>9. CopiesHold'
  <2>1. stage' # "copy"
    BY <1>2, <1>6
  <2>2. stage' \in {"copy"} \union DOMAIN Compared => Len(todo') # 0
    BY <1>2, <1>4, <1>5 DEF Compared
  <2> QED
    BY <1>1, <1>3, <2>1, <2>2 DEF CopiesHold
<1>10. stage' \in Planned => stage = "compare_result" /\ stage \in Planned
                             /\ stage' \in {"compare_result", "published"}
  BY <1>2, <1>5 DEF Planned, Working
<1>11. PlansHold'
  <2>1. CASE stage' \in Planned
    <3>1. stage \notin Working /\ stage' \notin Working /\ stage \in Planned
      BY <1>10, <2>1 DEF Working
    <3> QED
      BY <1>1, <3>1 DEF PlansHold, PlansIn
  <2>2. CASE stage' \notin Planned
    BY <2>2 DEF PlansHold, PlansIn
  <2> QED
    BY <2>1, <2>2
<1>12. RunsHold'
  <2>1. stage \notin Working \union {"failed"} /\ stage' \notin Working
    BY <1>2, <1>5 DEF Working
  <2> QED
    BY <1>1, <2>1 DEF RunsHold, RunsIn, Working
<1>13. RowsHold'
  <2>1. stage' \in Early => stage \in Early
    BY <1>2, <1>5 DEF Early
  <2> QED
    BY <1>1, <1>10, <2>1 DEF RowsHold, RowsIn
<1>14. MatrixHolds'
  <2>1. stage' \in {"result", "compare_result", "published"} => stage = "compare_result"
    BY <1>2, <1>5
  <2> QED
    BY <1>1, <2>1 DEF MatrixHolds
<1>15. GatesRefuseNoHonestRun'
  <2> SUFFICES ASSUME stage' = "failed" PROVE changes' > 0
    BY DEF GatesRefuseNoHonestRun
  <2>1. ~SameAsCaller(Head(todo))
    BY <1>2, <1>5
  <2>2. changes # 0
    BY <1>3, <1>4, <2>1 DEF CopiesHold, SameAsCaller
  <2> QED
    BY <1>1, <2>2 DEF TypesHold
<1> QED
  BY <1>7, <1>8, <1>9, <1>11, <1>12, <1>13, <1>14, <1>15

-----------------------------------------------------------------------------
(* The steps of the rollouts *)

\* An action that goes on with the case at hand, or fails, leaves the rest as it is.
LEMMA StaysAtWork ==
  ASSUME EvaluationInv, stage \in Working, stage' \in Working \union {"failed"},
         condition' \in Conditions,
         UNCHANGED <<callerVars, source, todo, planVars, resultVars>>
  PROVE  TypesHold' /\ TodoHolds' /\ CopiesHold' /\ PlansHold' /\ RowsHold' /\ MatrixHolds'
<1> USE DEF EvaluationInv
<1>1. UNCHANGED <<caller, changes, source, todo, prepared, severe, rows, severeRows, matrix>>
  BY DEF callerVars, planVars, resultVars
<1>2. /\ stage' # "copy" /\ stage' \notin DOMAIN Compared /\ stage' \notin Early
      /\ stage' \in Planned => stage' \in Working
      /\ stage # "copy" /\ stage \in Planned
  BY DEF Compared, Early, Planned, Working
<1>3. TypesHold'
  BY <1>1 DEF TypesHold, Stages, Planned
<1>4. TodoHolds'
  BY <1>1 DEF TodoHolds
<1>5. CopiesHold'
  BY <1>1, <1>2 DEF CopiesHold
<1>6. PlansHold'
  BY <1>1, <1>2 DEF PlansHold, PlansIn
<1>7. RowsHold'
  BY <1>1, <1>2 DEF RowsHold, RowsIn
<1>8. MatrixHolds'
  BY <1>2 DEF MatrixHolds, Working
<1> QED
  BY <1>3, <1>4, <1>5, <1>6, <1>7, <1>8

\* Starting a run keeps the invariant.
LEMMA StartIsSafe ==
  ASSUME EvaluationInv, StartRun
  PROVE  EvaluationInv'
<1> USE DEF EvaluationInv
<1>1. /\ UNCHANGED <<caller, changes, source, todo, prepared, severe, condition, products, rows,
                     severeRows, matrix>>
      /\ stage = "ready" /\ stage \in Working
  BY DEF StartRun, callerVars, caseVars, planVars, resultVars, Working
<1>2. \/ EngineAccepts(Log) /\ stage' = "running"
         /\ run' = [frames |-> Prefix(Log, Current), clamps |-> NoClamps, trace |-> <<>>]
      \/ ~EngineAccepts(Log) /\ stage' = "failed" /\ run' = run
  BY DEF StartRun
<1>3. stage' \in Working \union {"failed"}
  BY <1>2 DEF Working
<1>4. TypesHold' /\ TodoHolds' /\ CopiesHold' /\ PlansHold' /\ RowsHold' /\ MatrixHolds'
  BY <1>1, <1>3, StaysAtWork DEF StartRun, caseVars, TypesHold
<1>5. /\ Case \in Cases /\ Log \in Logs /\ Eligible(Log)
      /\ Case \in severe => SevereFeasible(Log)
  BY <1>1, AtHand
<1>6. /\ run = NoRun /\ DOMAIN products = Before(condition)
      /\ \A j \in DOMAIN products :
           Executed(products[j], Head(prepared).policy, source[Head(prepared).case], j, StopOf(j))
      /\ condition = "secondary" => Case \in severe
  BY <1>1 DEF RunsHold, RunsIn, Case
<1>7. CASE EngineAccepts(Log)
  <2>1. Executed(run', Policy, Log, condition, Current)
    BY <1>2, <1>5, <1>7, ExecutedFirst
  <2>2. Current \in Current..StopOf(condition)
    BY Horizon DEF StopOf
  <2>3. RunsHold'
    BY <1>1, <1>2, <1>6, <1>7, <2>1, <2>2 DEF RunsHold, RunsIn, Working, Case, Policy, Log
  <2>4. GatesRefuseNoHonestRun'
    BY <1>2, <1>7 DEF GatesRefuseNoHonestRun
  <2> QED
    BY <1>4, <2>3, <2>4
<1>8. CASE ~EngineAccepts(Log)
  <2>1. condition = "legacy" /\ ~EgoStaysUntil(Log, LastFrame)
    <3>1. condition \in Conditions
      BY DEF TypesHold
    <3>2. EgoStaysUntil(Log, Stop) /\ Audit(LogEgo(Log)) /\ Audit(BrakePlan(Log, PrimaryDose))
      BY <1>5 DEF Eligible
    <3>3. condition = "secondary" => Audit(BrakePlan(Log, SecondaryDose))
      BY <1>5, <1>6 DEF SevereFeasible
    <3>4. condition # "legacy" => Audit(Plan(Log)) /\ RunStop = Stop
      BY <3>1, <3>2, <3>3 DEF Conditions, Plan, RunStop
    <3>5. condition = "legacy" => RunStop = LastFrame
      BY DEF RunStop
    <3> QED
      BY <1>8, <3>2, <3>4, <3>5 DEF EngineAccepts
  <2>2. DOMAIN products = {}
    BY <1>6, <2>1 DEF Before
  <2>3. RunsHold'
    BY <1>1, <1>2, <1>6, <1>8, <2>2 DEF RunsHold, RunsIn, Working
  <2>4. GatesRefuseNoHonestRun'
    BY <1>1, <1>5, <2>1 DEF GatesRefuseNoHonestRun, Log
  <2> QED
    BY <1>4, <2>3, <2>4
<1> QED
  BY <1>7, <1>8

\* The run under way is as far as its last frame says.
LEMMA RunUnderWay ==
  ASSUME EvaluationInv, stage = "running"
  PROVE  /\ LastDone(run.frames) \in Current..StopOf(condition)
         /\ Executed(run, Policy, Log, condition, LastDone(run.frames))
         /\ RunStop = StopOf(condition) /\ condition \in Conditions
<1> USE DEF EvaluationInv
<1>1. PICK n \in Current..StopOf(condition) : Executed(run, Policy, Log, condition, n)
  BY DEF RunsHold, RunsIn, Policy, Log, Case
<1>2. n \in Nat /\ 0 <= n
  BY Horizon DEF StopOf
<1>3. DOMAIN run.frames = 0..n
  BY <1>1 DEF Executed
<1>4. LastDone(run.frames) = n
  BY <1>2, <1>3, MaxOfInterval DEF LastDone
<1> QED
  BY <1>1, <1>4 DEF RunStop, StopOf, TypesHold

\* A transition of a run keeps the invariant.
LEMMA TransitionIsSafe ==
  ASSUME EvaluationInv, Transition
  PROVE  EvaluationInv'
<1> USE DEF EvaluationInv
<1> DEFINE t == LastDone(run.frames)
           step == StepAt(Policy, Log, run.frames, t)
           next == NextFrame(run.frames[t], Log[t + 1], step, EgoUnder(condition, Log, t + 1))
<1>1. /\ UNCHANGED <<caller, changes, source, todo, prepared, severe, condition, products, rows,
                     severeRows, matrix>>
      /\ stage = "running" /\ stage \in Working /\ t < RunStop
  BY DEF Transition, callerVars, caseVars, planVars, resultVars, Working
<1>2. /\ Case \in Cases /\ Policy \in Policies /\ Log \in Logs
  BY <1>1, AtHand
<1>3. /\ t \in Current..StopOf(condition) /\ Executed(run, Policy, Log, condition, t)
      /\ RunStop = StopOf(condition) /\ condition \in Conditions
  BY <1>1, RunUnderWay
<1>4. EgoAt(Log, t + 1) = EgoUnder(condition, Log, t + 1)
  BY DEF EgoAt, EgoUnder, Plan, PlanUnder
<1>5. StepAccepted(Policy, step, Log[t + 1])
  <2> DEFINE frame == run.frames[t]
             n == t + 1
  <2>1. t \in 0..t
    BY <1>3, Horizon
  <2>2. frame \in FrameStates
    BY <1>3, <2>1 DEF Executed
  <2> HIDE DEF frame, n, t
  <2>3. StepAccepted(Policy, PolicyStep(Policy, Log, frame, n), Log[n])
    BY <1>2, <2>2, StepIsAccepted
  <2> QED
    BY <2>3 DEF frame, n, StepAt
<1>6. stage' = "running" /\ run' = Extended(run, Log, step, next, t)
  BY <1>4, <1>5 DEF Transition, Observed, StepAt, Extended
<1>7. t + 1 \in Current..StopOf(condition)
  BY <1>1, <1>3, Horizon DEF StopOf
<1>8. Executed(run', Policy, Log, condition, t + 1)
  <2>1. t < StopOf(condition)
    BY <1>1, <1>3
  <2> HIDE DEF t
  <2> QED
    BY <1>2, <1>3, <1>6, <2>1, ExecutedNext
<1> HIDE DEF t, step, next
<1>9. TypesHold' /\ TodoHolds' /\ CopiesHold' /\ PlansHold' /\ RowsHold' /\ MatrixHolds'
  BY <1>1, <1>3, <1>6, StaysAtWork DEF Transition, caseVars, Working
<1>10. RunsHold'
  BY <1>1, <1>6, <1>7, <1>8 DEF RunsHold, RunsIn, Working, Policy, Log, Case
<1>11. GatesRefuseNoHonestRun'
  BY <1>6 DEF GatesRefuseNoHonestRun
<1> QED
  BY <1>9, <1>10, <1>11

\* Binding a trace keeps the invariant.
LEMMA BindIsSafe ==
  ASSUME EvaluationInv, BindTrace
  PROVE  EvaluationInv'
<1> USE DEF EvaluationInv
<1>1. /\ UNCHANGED <<caller, changes, source, todo, prepared, severe, condition, rows,
                     severeRows, matrix>>
      /\ stage = "running" /\ stage \in Working /\ LastDone(run.frames) = RunStop /\ run' = NoRun
      /\ products' = [k \in DOMAIN products \union {condition} |->
                        IF k = condition THEN run ELSE products[k]]
  BY DEF BindTrace, callerVars, caseVars, planVars, resultVars, Working
<1>2. /\ Case \in Cases /\ Policy \in Policies /\ Log \in Logs
  BY <1>1, AtHand
<1>3. /\ RunStop \in Current..StopOf(condition) /\ Executed(run, Policy, Log, condition, RunStop)
      /\ RunStop = StopOf(condition) /\ condition \in Conditions
  BY <1>1, RunUnderWay
<1>4. TraceBinds(run.trace, run, Current, RunStop)
  BY <1>2, <1>3, TraceBindsTo
<1>5. stage' = "gate"
  BY <1>4 DEF BindTrace
<1>6. TypesHold' /\ TodoHolds' /\ CopiesHold' /\ PlansHold' /\ RowsHold' /\ MatrixHolds'
  BY <1>1, <1>3, <1>5, StaysAtWork DEF BindTrace, caseVars, Working
<1>7. RunsHold'
  <2>1. /\ DOMAIN products = Before(condition)
        /\ \A j \in DOMAIN products :
             Executed(products[j], Policy, Log, j, StopOf(j))
        /\ condition = "secondary" => Case \in severe
    BY <1>1 DEF RunsHold, RunsIn, Case, Policy, Log
  <2>2. DOMAIN products' = Before(condition) \union {condition}
    BY <1>1, <2>1
  <2>3. \A j \in DOMAIN products' : Executed(products'[j], Policy, Log, j, StopOf(j))
    <3> SUFFICES ASSUME NEW j \in DOMAIN products'
                 PROVE  Executed(products'[j], Policy, Log, j, StopOf(j))
      OBVIOUS
    <3>1. CASE j = condition
      BY <1>1, <1>3, <3>1
    <3>2. CASE j # condition
      BY <1>1, <2>1, <3>2
    <3> QED
      BY <3>1, <3>2
  <2> QED
    BY <1>1, <1>5, <2>1, <2>2, <2>3 DEF RunsHold, RunsIn, Working, Case, Policy, Log
<1>8. GatesRefuseNoHonestRun'
  BY <1>5 DEF GatesRefuseNoHonestRun
<1> QED
  BY <1>6, <1>7, <1>8

-----------------------------------------------------------------------------
(* The ledger and the gates *)

\* Classifying a case keeps the invariant.
LEMMA ClassifyIsSafe ==
  ASSUME EvaluationInv, Classify
  PROVE  EvaluationInv'
<1> USE DEF EvaluationInv
<1>1. /\ UNCHANGED <<caller, changes, source, condition, run, products, rows, severeRows, matrix>>
      /\ stage = "validated"
  BY DEF Classify, callerVars, resultVars
<1>2. /\ EligibleCases = EligibleIn(source) /\ SevereCases = SevereIn(source)
      /\ RunsOf(EligibleCases) = OrderIn(source)
  BY DEF EligibleCases, SevereCases, EligibleIn, SevereIn, OrderIn
<1>3. \/ stage' = "compare_blocked" /\ todo' = CaseOrder /\ prepared' = prepared /\ severe' = severe
      \/ /\ Len(EligibleIn(source)) >= MinimumPairs /\ stage' = "ready" /\ todo' = todo
         /\ prepared' = OrderIn(source) /\ severe' = Range(SevereIn(source))
  <2>1. CASE Len(EligibleCases) < MinimumPairs
    BY <2>1 DEF Classify, planVars
  <2>2. CASE ~(Len(EligibleCases) < MinimumPairs)
    <3>1. Len(EligibleIn(source)) \in Nat /\ MinimumPairs \in Nat
      <4> DEFINE cases == EligibleIn(source)
      <4>1. cases \in Seq(Cases)
        BY CasesListed
      <4> HIDE DEF cases
      <4>2. Len(cases) \in Nat
        BY <4>1
      <4> QED
        BY <4>2, SampleAssumption DEF cases
    <3>2. /\ Len(EligibleIn(source)) >= MinimumPairs
      BY <1>2, <2>2, <3>1
    <3> QED
      BY <1>2, <2>2, <3>2 DEF Classify
  <2> QED
    BY <2>1, <2>2
<1>4. rows = <<>> /\ severeRows = <<>> /\ condition = "legacy" /\ run = NoRun
      /\ DOMAIN products = {} /\ DOMAIN source = Cases
  BY <1>1 DEF RowsHold, RowsIn, RunsHold, RunsIn, CopiesHold, Early, Working
<1>5. TypesHold'
  BY <1>1, <1>3 DEF TypesHold, Stages, Planned, Working
<1>6. TodoHolds'
  BY <1>3, CaseOrderIs DEF TodoHolds
<1>7. CopiesHold'
  BY <1>1, <1>3, <1>4, CaseOrderIs DEF CopiesHold, Compared
<1>8. PlansHold'
  <2>1. CASE stage' = "compare_blocked"
    BY <2>1 DEF PlansHold, PlansIn, Planned, Working
  <2>2. CASE stage' # "compare_blocked"
    <3> DEFINE order == OrderIn(source)
               cases == EligibleIn(source)
    <3>1. order \in Seq(Jobs) /\ Len(order) = 3 * Len(cases) /\ cases \in Seq(Cases)
      BY CasesListed
    <3>2. /\ Len(cases) >= MinimumPairs /\ stage' = "ready" /\ source' = source
          /\ prepared' = order /\ severe' = Range(SevereIn(source)) /\ rows' = rows
      BY <1>1, <1>3, <2>2
    <3>a. OrderIn(source') = order /\ EligibleIn(source') = cases
          /\ severe' = Range(SevereIn(source'))
      BY <3>2
    <3> HIDE DEF order, cases
    <3>3. Len(order) \in Nat \ {0}
      <4>1. Len(cases) \in Nat
        BY <3>1
      <4> QED
        BY <3>1, <3>2, <4>1, SampleAssumption
    <3>4. Len(rows') = 0
      BY <1>4, <3>2
    <3>5. \A i \in 1..Len(prepared') : prepared'[i] = order[0 + i]
      BY <3>2, <3>3
    <3>6. stage' \in Planned /\ stage' \in Working
      BY <3>2 DEF Planned, Working
    <3>7. PlansIn(source', stage', prepared', severe', 0)
      BY <3>1, <3>2, <3>a, <3>3, <3>5, <3>6 DEF PlansIn
    <3> QED
      BY <3>4, <3>7 DEF PlansHold
  <2> QED
    BY <2>1, <2>2
<1>9. RunsHold'
  BY <1>1, <1>3, <1>4 DEF RunsHold, RunsIn, Working, Before
<1>10. RowsHold'
  <2>1. Len(rows') = 0 /\ Len(severeRows') = 0 /\ rows' \in Seq({}) /\ severeRows' \in Seq({})
    BY <1>1, <1>4
  <2>2. SevereUpTo(OrderIn(source'), severe', Len(rows')) = {}
    BY <2>1 DEF SevereUpTo
  <2>3. Cardinality({}) = 0
    BY FS_EmptySet
  <2>4. stage' \notin Early
    BY <1>3 DEF Early
  <2>5. 1..Len(rows') = {} /\ 1..Len(severeRows') = {}
    BY <2>1
  <2> QED
    BY <2>1, <2>2, <2>3, <2>4, <2>5 DEF RowsHold, RowsIn, ScenesAre
<1>11. MatrixHolds' /\ GatesRefuseNoHonestRun'
  BY <1>3 DEF MatrixHolds, GatesRefuseNoHonestRun
<1> QED
  BY <1>5, <1>6, <1>7, <1>8, <1>9, <1>10, <1>11

\* The gates pass whatever runs the evaluation made.
LEMMA GatesPass ==
  ASSUME EvaluationInv, stage = "gate"
  PROVE  GateHolds
<1> USE DEF EvaluationInv
<1>1. /\ Policy \in Policies /\ Log \in Logs /\ Targets(Log) # {} /\ stage \in Working
  BY AtHand DEF Working
<1>2. /\ DOMAIN products = Before(condition) \union {condition} /\ condition \in Conditions
      /\ \A j \in DOMAIN products : Executed(products[j], Policy, Log, j, StopOf(j))
  BY <1>1 DEF RunsHold, RunsIn, Policy, Log, Case, TypesHold
<1>3. CASE condition = "legacy"
  BY <1>3 DEF GateHolds
<1>4. CASE condition = "identity"
  <2>1. {"legacy", "identity"} \subseteq DOMAIN products
    BY <1>2, <1>4 DEF Before
  <2>2. /\ Executed(products["legacy"], Policy, Log, "legacy", LastFrame)
        /\ Executed(products["identity"], Policy, Log, "identity", Stop)
    BY <1>2, <2>1 DEF StopOf
  <2>3. ShamHolds(products)
    BY <1>1, <2>2, ShamOf
  <2> QED
    BY <1>4, <2>3 DEF GateHolds
<1>5. CASE condition \in {"primary", "secondary"}
  <2> DEFINE base == products["identity"]
             treated == products[condition]
  <2>1. {"identity", condition} \subseteq DOMAIN products
    BY <1>2, <1>5 DEF Before
  <2>2. Executed(base, Policy, Log, "identity", Stop) /\ Executed(treated, Policy, Log, condition, Stop)
    BY <1>2, <1>5, <2>1 DEF StopOf
  <2> HIDE DEF base, treated
  <2>3. PairHolds(Log, base.frames, treated.frames, DoseOf(condition))
    BY <1>1, <1>5, <2>2, PairOf
  <2>4. NonreactivityHolds(Policy, Log, base.frames, treated.frames)
    <3>1. {"identity", condition} \subseteq Conditions \ {"legacy"}
      BY <1>5 DEF Conditions
    <3> QED
      BY <1>1, <2>2, <3>1, NonreactivityOf
  <2>5. Dose = DoseOf(condition)
    BY DEF Dose, DoseOf
  <2> QED
    BY <1>5, <2>3, <2>4, <2>5 DEF GateHolds, base, treated
<1> QED
  BY <1>2, <1>3, <1>4, <1>5 DEF Conditions

\* Passing the gates keeps the invariant.
LEMMA GateIsSafe ==
  ASSUME EvaluationInv, PassGate
  PROVE  EvaluationInv'
<1>1. /\ UNCHANGED <<caller, changes, source, todo, prepared, severe, run, products, rows,
                     severeRows, matrix>>
      /\ stage = "gate" /\ stage \in Working
  BY DEF PassGate, callerVars, caseVars, planVars, resultVars, Working
<1>2. \/ NextCondition = "none" /\ stage' = "analyse" /\ condition' = condition
      \/ NextCondition # "none" /\ stage' = "ready" /\ condition' = NextCondition
  BY <1>1, GatesPass DEF PassGate
<1> USE DEF EvaluationInv
<1>3. condition \in Conditions /\ condition' \in Conditions
  BY <1>2 DEF TypesHold, NextCondition, Conditions
<1>4. TypesHold' /\ TodoHolds' /\ CopiesHold' /\ PlansHold' /\ RowsHold' /\ MatrixHolds'
  BY <1>1, <1>2, <1>3, StaysAtWork DEF PassGate, caseVars, Working
<1>5. RunsHold'
  <2>1. /\ DOMAIN products = Before(condition) \union {condition}
        /\ \A j \in DOMAIN products :
             Executed(products[j], Head(prepared).policy, source[Head(prepared).case], j, StopOf(j))
        /\ condition = "secondary" => Case \in severe
        /\ run = NoRun
    BY <1>1 DEF RunsHold, RunsIn, Case
  <2>2. CASE NextCondition = "none"
    <3>1. condition = IF Case \in severe THEN "secondary" ELSE "primary"
      BY <1>3, <2>1, <2>2 DEF NextCondition, Conditions
    <3> QED
      BY <1>1, <1>2, <2>1, <2>2, <3>1 DEF RunsHold, RunsIn, Working, Case
  <2>3. CASE NextCondition # "none"
    <3>1. DOMAIN products = Before(NextCondition)
      BY <1>3, <2>1, <2>3 DEF NextCondition, Conditions, Before
    <3>2. NextCondition = "secondary" => Case \in severe
      BY <1>3, <2>3 DEF NextCondition, Conditions
    <3> QED
      BY <1>1, <1>2, <2>1, <2>3, <3>1, <3>2 DEF RunsHold, RunsIn, Working, Case
  <2> QED
    BY <2>2, <2>3
<1>6. GatesRefuseNoHonestRun'
  BY <1>2 DEF GatesRefuseNoHonestRun
<1> QED
  BY <1>4, <1>5, <1>6

-----------------------------------------------------------------------------
(* Scene results *)

\* The runs of the higher dose can be counted, up to any place of the order.
LEMMA SevereFinite ==
  ASSUME NEW order, NEW sev, NEW n \in Nat
  PROVE  /\ IsFiniteSet(SevereUpTo(order, sev, n)) /\ Cardinality(SevereUpTo(order, sev, n)) \in Nat
         /\ \A i \in SevereUpTo(order, sev, n) :
              Cardinality(SevereUpTo(order, sev, i)) \in 1..Cardinality(SevereUpTo(order, sev, n))
<1>1. \A m \in Nat : IsFiniteSet(SevereUpTo(order, sev, m))
  <2> TAKE m \in Nat
  <2>1. IsFiniteSet(1..m) /\ SevereUpTo(order, sev, m) \in SUBSET (1..m)
    BY FS_Interval DEF SevereUpTo
  <2> QED
    BY <2>1, FS_Subset
<1>2. \A m \in Nat : Cardinality(SevereUpTo(order, sev, m)) \in Nat
  BY <1>1, FS_CardinalityType
<1>3. ASSUME NEW i \in SevereUpTo(order, sev, n)
      PROVE  Cardinality(SevereUpTo(order, sev, i)) \in 1..Cardinality(SevereUpTo(order, sev, n))
  <2> DEFINE few == SevereUpTo(order, sev, i)
             all == SevereUpTo(order, sev, n)
  <2>1. i \in Nat /\ i \in few /\ few \in SUBSET all
    BY <1>3 DEF SevereUpTo
  <2>2. IsFiniteSet(few) /\ IsFiniteSet(all) /\ Cardinality(few) \in Nat /\ Cardinality(all) \in Nat
    BY <1>1, <1>2, <2>1
  <2> HIDE DEF few, all
  <2>3. Cardinality(few) <= Cardinality(all)
    BY <2>1, <2>2, FS_Subset
  <2>4. Cardinality(few) # 0
    BY <2>1, <2>2, FS_EmptySet
  <2>5. Cardinality(few) \in 1..Cardinality(all)
    BY <2>2, <2>3, <2>4
  <2> QED
    BY <2>5 DEF few, all
<1> QED
  BY <1>1, <1>2, <1>3

\* One more place of the order is one more run of the higher dose, or none.
LEMMA SevereNext ==
  ASSUME NEW order, NEW sev, NEW n \in Nat
  PROVE  /\ order[n + 1].case \in sev =>
              /\ SevereUpTo(order, sev, n + 1) = SevereUpTo(order, sev, n) \union {n + 1}
              /\ Cardinality(SevereUpTo(order, sev, n + 1))
                   = Cardinality(SevereUpTo(order, sev, n)) + 1
         /\ order[n + 1].case \notin sev =>
              SevereUpTo(order, sev, n + 1) = SevereUpTo(order, sev, n)
<1> DEFINE before == SevereUpTo(order, sev, n)
           last == n + 1
<1>1. IsFiniteSet(before)
  BY SevereFinite
<1>2. last \notin before
  BY DEF SevereUpTo
<1>3. order[n + 1].case \in sev => SevereUpTo(order, sev, n + 1) = before \union {last}
  <2>1. 1..(n + 1) = 1..n \union {n + 1}
    OBVIOUS
  <2> QED
    BY <2>1 DEF SevereUpTo
<1>4. order[n + 1].case \notin sev => SevereUpTo(order, sev, n + 1) = before
  <2>1. 1..(n + 1) = 1..n \union {n + 1}
    OBVIOUS
  <2> QED
    BY <2>1 DEF SevereUpTo
<1> HIDE DEF before, last
<1>5. Cardinality(before \union {last}) = Cardinality(before) + 1
  BY <1>1, <1>2, FS_AddElement
<1> QED
  BY <1>3, <1>4, <1>5 DEF before, last

\* The scene results of one more case and policy.
LEMMA ScenesNext ==
  ASSUME NEW order, NEW src, NEW sev, NEW scenes, NEW severeScenes,
         ScenesAre(order, src, sev, scenes, severeScenes),
         NEW scene, NEW more, NEW n \in Nat, n = Len(scenes),
         SceneIs(scene, order[n + 1], src[order[n + 1].case], "primary"),
         order[n + 1].case \notin sev => more = <<>>,
         order[n + 1].case \in sev =>
           /\ more = <<more[1]>>
           /\ SceneIs(more[1], order[n + 1], src[order[n + 1].case], "secondary")
  PROVE  ScenesAre(order, src, sev, Append(scenes, scene), severeScenes \o more)
<1> USE DEF ScenesAre
<1> DEFINE at == order[n + 1]
           upTo(m) == SevereUpTo(order, sev, m)
           longer == Append(scenes, scene)
           joined == severeScenes \o more
<1>1. PICK S : scenes \in Seq(S)
  OBVIOUS
<1>2. /\ longer \in Seq(S \union {scene}) /\ Len(longer) = n + 1 /\ longer[n + 1] = scene
      /\ \A i \in 1..n : longer[i] = scenes[i]
  <2>1. scenes \in Seq(S \union {scene})
    BY <1>1
  <2> QED
    BY <2>1
<1>3. PICK T : severeScenes \in Seq(T)
  OBVIOUS
<1>4. Len(severeScenes) = Cardinality(upTo(n)) /\ Cardinality(upTo(n)) \in Nat
  BY SevereFinite
<1>5. /\ joined \in Seq(T \union {more[1]}) /\ Len(joined) = Len(severeScenes) + Len(more)
      /\ \A i \in 1..Len(severeScenes) : joined[i] = severeScenes[i]
      /\ \A i \in 1..Len(more) : joined[Len(severeScenes) + i] = more[i]
      /\ Len(more) = IF at.case \in sev THEN 1 ELSE 0
  <2> DEFINE U == T \union {more[1]}
  <2>1. severeScenes \in Seq(U)
    BY <1>3
  <2>2. more \in Seq(U) /\ Len(more) = IF at.case \in sev THEN 1 ELSE 0
    <3>1. CASE at.case \in sev
      <4> DEFINE m == more[1]
      <4>1. more = <<m>> /\ m \in U
        BY <3>1
      <4> HIDE DEF m, U
      <4>2. <<m>> \in Seq(U) /\ Len(<<m>>) = 1
        BY <4>1
      <4> QED
        BY <3>1, <4>1, <4>2
    <3>2. CASE at.case \notin sev
      <4>1. more = <<>>
        BY <3>2
      <4> HIDE DEF U
      <4>2. <<>> \in Seq(U) /\ Len(<<>>) = 0
        OBVIOUS
      <4> QED
        BY <3>2, <4>1, <4>2
    <3> QED
      BY <3>1, <3>2
  <2> HIDE DEF U, at
  <2>3. /\ joined \in Seq(U) /\ Len(joined) = Len(severeScenes) + Len(more)
        /\ \A i \in 1..Len(severeScenes) : joined[i] = severeScenes[i]
        /\ \A i \in 1..Len(more) : joined[Len(severeScenes) + i] = more[i]
    <3>1. more \in Seq(U)
      BY <2>2
    <3> HIDE DEF ScenesAre
    <3> QED
      BY <2>1, <3>1, Joined
  <2>4. Len(more) = IF at.case \in sev THEN 1 ELSE 0
    BY <2>2
  <2> HIDE DEF joined
  <2> QED
    BY <2>3, <2>4 DEF U
<1> HIDE DEF longer, joined
<1>6. \A i \in 1..(n + 1) : SceneIs(longer[i], order[i], src[order[i].case], "primary")
  <2> TAKE i \in 1..(n + 1)
  <2>1. CASE i = n + 1
    BY <1>2, <2>1
  <2>2. CASE i # n + 1
    <3>1. i \in 1..n
      BY <2>2
    <3> QED
      BY <1>2, <3>1
  <2> QED
    BY <2>1, <2>2
<1>7. \A i \in upTo(n) :
        /\ Cardinality(upTo(i)) \in 1..Len(severeScenes)
        /\ SceneIs(joined[Cardinality(upTo(i))], order[i], src[order[i].case], "secondary")
  <2> TAKE i \in upTo(n)
  <2>1. Cardinality(upTo(i)) \in 1..Len(severeScenes)
    BY <1>4, SevereFinite
  <2>2. SceneIs(severeScenes[Cardinality(upTo(i))], order[i], src[order[i].case], "secondary")
    OBVIOUS
  <2> QED
    BY <1>5, <2>1, <2>2
<1>8. \A j \in 1..Len(severeScenes) : \E i \in upTo(n) :
        SceneIs(joined[j], order[i], src[order[i].case], "secondary")
  BY <1>5
<1>9. CASE at.case \in sev
  <2>1. upTo(n + 1) = upTo(n) \union {n + 1} /\ Cardinality(upTo(n + 1)) = Len(severeScenes) + 1
    BY <1>4, <1>9, SevereNext
  <2>2. Len(joined) = Len(severeScenes) + 1 /\ Len(severeScenes) \in Nat
    BY <1>4, <1>5, <1>9
  <2>3. joined[Len(severeScenes) + 1] = more[1]
    BY <1>5, <1>9
  <2>4. SceneIs(joined[Len(severeScenes) + 1], order[n + 1], src[order[n + 1].case], "secondary")
    BY <1>9, <2>3
  <2>5. \A i \in upTo(n + 1) :
          SceneIs(joined[Cardinality(upTo(i))], order[i], src[order[i].case], "secondary")
    <3> TAKE i \in upTo(n + 1)
    <3>1. CASE i = n + 1
      BY <2>1, <2>4, <3>1
    <3>2. CASE i # n + 1
      <4>1. i \in upTo(n)
        BY <2>1, <3>2
      <4> QED
        BY <1>7, <4>1
    <3> QED
      BY <3>1, <3>2
  <2>6. \A j \in 1..Len(joined) : \E i \in upTo(n + 1) :
          SceneIs(joined[j], order[i], src[order[i].case], "secondary")
    <3> TAKE j \in 1..Len(joined)
    <3>1. CASE j = Len(severeScenes) + 1
      BY <2>1, <2>4, <3>1
    <3>2. CASE j # Len(severeScenes) + 1
      <4>1. j \in 1..Len(severeScenes)
        BY <2>2, <3>2
      <4> QED
        BY <1>8, <2>1, <4>1
    <3> QED
      BY <3>1, <3>2
  <2> HIDE DEF upTo
  <2>7. /\ \E U : longer \in Seq(U)
        /\ \E U : joined \in Seq(U)
        /\ \A i \in 1..Len(longer) : SceneIs(longer[i], order[i], src[order[i].case], "primary")
        /\ Len(joined) = Cardinality(upTo(Len(longer)))
        /\ \A i \in upTo(Len(longer)) :
             SceneIs(joined[Cardinality(upTo(i))], order[i], src[order[i].case], "secondary")
        /\ \A j \in 1..Len(joined) : \E i \in upTo(Len(longer)) :
             SceneIs(joined[j], order[i], src[order[i].case], "secondary")
    BY <1>2, <1>5, <1>6, <2>1, <2>2, <2>5, <2>6
  <2> QED
    BY <2>7 DEF upTo, longer, joined
<1>10. CASE at.case \notin sev
  <2>1. upTo(n + 1) = upTo(n) /\ Len(joined) = Len(severeScenes)
    BY <1>4, <1>5, <1>10, SevereNext
  <2> HIDE DEF upTo
  <2>2. /\ \E U : longer \in Seq(U)
        /\ \E U : joined \in Seq(U)
        /\ \A i \in 1..Len(longer) : SceneIs(longer[i], order[i], src[order[i].case], "primary")
        /\ Len(joined) = Cardinality(upTo(Len(longer)))
        /\ \A i \in upTo(Len(longer)) :
             SceneIs(joined[Cardinality(upTo(i))], order[i], src[order[i].case], "secondary")
        /\ \A j \in 1..Len(joined) : \E i \in upTo(Len(longer)) :
             SceneIs(joined[j], order[i], src[order[i].case], "secondary")
    BY <1>2, <1>4, <1>5, <1>6, <1>7, <1>8, <2>1
  <2> QED
    BY <2>2 DEF upTo, longer, joined
<1> QED
  BY <1>9, <1>10

-----------------------------------------------------------------------------

\* What the runs of a case and a policy give holds.
LEMMA SceneAtHand ==
  ASSUME EvaluationInv, stage = "analyse", NEW k \in {"primary", "secondary"},
         k = "secondary" => Case \in severe
  PROVE  /\ SceneIs(Scene(Case, Policy, Log, products, k), Head(prepared), Log, k)
         /\ SceneHolds(Scene(Case, Policy, Log, products, k), DoseOf(k))
<1> USE DEF EvaluationInv
<1> DEFINE scene == Scene(Case, Policy, Log, products, k)
<1>1. /\ Policy \in Policies /\ Log \in Logs /\ Targets(Log) # {} /\ stage \in Working
  BY AtHand DEF Working
<1>2. /\ DOMAIN products = Before(condition) \union {condition}
      /\ condition = IF Case \in severe THEN "secondary" ELSE "primary"
      /\ \A j \in DOMAIN products : Executed(products[j], Policy, Log, j, StopOf(j))
  BY <1>1 DEF RunsHold, RunsIn, Policy, Log, Case
<1>3. {"legacy", "identity", k} \subseteq DOMAIN products
  BY <1>2 DEF Before
<1>4. /\ Executed(products["legacy"], Policy, Log, "legacy", LastFrame)
      /\ Executed(products["identity"], Policy, Log, "identity", Stop)
      /\ Executed(products[k], Policy, Log, k, Stop)
  BY <1>2, <1>3 DEF StopOf
<1>5. /\ scene.case = Case /\ scene.policy = Policy /\ scene.target = Target(Log)
      /\ scene.legacy = products["legacy"] /\ scene.baseline = products["identity"]
      /\ scene.treated = products[k]
      /\ scene.primary = PrimaryResults(products["identity"].frames, products[k].frames, Target(Log))
      /\ scene.secondary
           = SecondaryResults(products["identity"].frames, products[k].frames, Target(Log))
  BY DEF Scene
<1> HIDE DEF scene
<1>6. SceneIs(scene, Head(prepared), Log, k)
  BY <1>4, <1>5 DEF SceneIs, Case, Policy
<1>7. SceneHolds(scene, DoseOf(k))
  <2> DEFINE policy == Policy
             log == Log
  <2>1. /\ log = source[scene.case] /\ scene.policy = policy
        /\ policy \in Policies /\ log \in Logs /\ Targets(log) # {}
        /\ Executed(scene.legacy, policy, log, "legacy", LastFrame)
        /\ Executed(scene.baseline, policy, log, "identity", Stop)
        /\ Executed(scene.treated, policy, log, k, Stop)
        /\ scene.primary = PrimaryResults(scene.baseline.frames, scene.treated.frames, Target(log))
        /\ scene.secondary = SecondaryResults(scene.baseline.frames, scene.treated.frames, Target(log))
    BY <1>1, <1>4, <1>5 DEF Log
  <2> HIDE DEF policy, log
  <2> QED
    BY <2>1, SceneOfRuns
<1> QED
  BY <1>6, <1>7 DEF scene

\* Analysing the runs of a case and a policy keeps the invariant.
LEMMA AnalyseIsSafe ==
  ASSUME EvaluationInv, Analyse
  PROVE  EvaluationInv'
<1> DEFINE scene == Scene(Case, Policy, Log, products, "primary")
           stronger == Scene(Case, Policy, Log, products, "secondary")
           more == IF Case \in severe THEN <<stronger>> ELSE <<>>
           n == Len(rows)
           order == OrderIn(source)
<1>1. /\ UNCHANGED <<caller, changes, source, todo, severe, run, matrix>>
      /\ stage = "analyse" /\ stage \in Working
  BY DEF Analyse, callerVars, caseVars, Working
<1>2. SceneIs(scene, Head(prepared), Log, "primary") /\ SceneHolds(scene, PrimaryDose)
  BY <1>1, SceneAtHand DEF DoseOf
<1>3. Case \in severe =>
        SceneIs(stronger, Head(prepared), Log, "secondary") /\ SceneHolds(stronger, SecondaryDose)
  BY <1>1, SceneAtHand DEF DoseOf
<1>4. \A s \in Range(more) : SceneHolds(s, SecondaryDose)
  <2> HIDE DEF stronger
  <2>1. Case \in severe => \A s \in Range(more) : s = stronger
    BY DEF Range
  <2>2. Case \notin severe => \A s \in Range(more) : FALSE
    BY DEF Range
  <2> QED
    BY <1>3, <2>1, <2>2
<1> USE DEF EvaluationInv
<1>5. /\ Case \in Cases /\ Log = source[Case] /\ DOMAIN source = Cases
      /\ prepared \in Seq(Jobs) /\ Len(prepared) \in Nat \ {0}
      /\ Head(prepared) = order[n + 1] /\ n \in Nat
      /\ n + Len(prepared) = Len(order) /\ \A i \in 1..Len(prepared) : prepared[i] = order[n + i]
  BY <1>1, AtHand DEF PlansHold, PlansIn, Planned, CopiesHold, Working, Log
<1>6. /\ rows' = Append(rows, scene) /\ severeRows' = severeRows \o more
      /\ prepared' = Tail(prepared) /\ condition' = "legacy" /\ products' = <<>>
      /\ stage' = IF Len(prepared) = 1 THEN "statistics" ELSE "ready"
  BY <1>2, <1>4 DEF Analyse
<1>7. ScenesAre(order, source, severe, rows', severeRows')
  <2>1. ScenesAre(order, source, severe, rows, severeRows)
    BY <1>1 DEF RowsHold, RowsIn, Planned
  <2>2. Case = order[n + 1].case
    BY <1>5 DEF Case
  <2>3. SceneIs(scene, order[n + 1], source[order[n + 1].case], "primary")
    BY <1>2, <1>5, <2>2
  <2>4. order[n + 1].case \in severe
        => /\ more = <<more[1]>>
           /\ SceneIs(more[1], order[n + 1], source[order[n + 1].case], "secondary")
    <3> SUFFICES ASSUME order[n + 1].case \in severe
                 PROVE  /\ more = <<more[1]>>
                        /\ SceneIs(more[1], order[n + 1], source[order[n + 1].case], "secondary")
      OBVIOUS
    <3>1. SceneIs(stronger, order[n + 1], source[order[n + 1].case], "secondary")
      BY <1>3, <1>5, <2>2
    <3> HIDE DEF stronger
    <3>2. more = <<stronger>> /\ more[1] = stronger
      BY <2>2
    <3> QED
      BY <3>1, <3>2
  <2>5. order[n + 1].case \notin severe => more = <<>>
    BY <2>2
  <2>6. n = Len(rows)
    OBVIOUS
  <2> HIDE DEF scene, more, n, order
  <2> QED
    BY <1>5, <1>6, <2>1, <2>3, <2>4, <2>5, <2>6, ScenesNext
<1> HIDE DEF scene, stronger, more
<1>8. n + 1 = Len(rows') /\ Len(rows') \in Nat
  <2>1. PICK S : rows \in Seq(S)
    BY <1>1 DEF RowsHold, RowsIn, ScenesAre, Planned
  <2>2. rows \in Seq(S \union {scene})
    BY <2>1
  <2> QED
    BY <1>6, <2>2
<1> HIDE DEF n
<1>9. TypesHold'
  BY <1>1, <1>6 DEF TypesHold, Conditions, Stages, Planned, Working
<1>10. TodoHolds'
  BY <1>1 DEF TodoHolds
<1>11. CopiesHold'
  BY <1>1, <1>5, <1>6 DEF CopiesHold, Compared
<1>12. PlansHold'
  <2>1. Len(EligibleIn(source)) >= MinimumPairs /\ severe = Range(SevereIn(source))
    BY <1>1 DEF PlansHold, PlansIn, Planned
  <2>2. prepared' \in Seq(Jobs) /\ Len(prepared') = Len(prepared) - 1
        /\ \A i \in 1..Len(prepared') : prepared'[i] = prepared[i + 1]
    BY <1>5, <1>6
  <2>3. \A i \in 1..Len(prepared') : prepared'[i] = order[Len(rows') + i]
    <3> TAKE i \in 1..Len(prepared')
    <3>1. i + 1 \in 1..Len(prepared) /\ n + (i + 1) = (n + 1) + i
      BY <1>5, <2>2
    <3> QED
      BY <1>5, <1>8, <2>2, <3>1
  <2>4. Len(rows') + Len(prepared') = Len(order) /\ Len(prepared') \in Nat
    <3>1. /\ n \in Nat /\ Len(prepared) \in Nat \ {0} /\ n + Len(prepared) = Len(order)
          /\ Len(rows') = n + 1 /\ Len(prepared') = Len(prepared) - 1
      BY <1>5, <1>8, <2>2
    <3> DEFINE left == Len(prepared)
               before == Len(order)
               then == Len(rows')
               still == Len(prepared')
    <3> HIDE DEF left, before, then, still, order
    <3>2. /\ n \in Nat /\ left \in Nat \ {0} /\ n + left = before /\ then = n + 1
          /\ still = left - 1
      BY <3>1 DEF left, before, then, still
    <3>3. then + still = before /\ still \in Nat
      BY <3>2
    <3> QED
      BY <3>3 DEF before, then, still
  <2>5. stage' \in Working <=> Len(prepared') # 0
    BY <1>5, <1>6, <2>2 DEF Working
  <2> HIDE DEF order
  <2>6. OrderIn(source') = order
    BY <1>1 DEF order
  <2> QED
    BY <1>1, <1>8, <2>1, <2>2, <2>3, <2>4, <2>5, <2>6 DEF PlansHold, PlansIn
<1>13. RunsHold'
  <2>1. DOMAIN products' = {}
    BY <1>6
  <2>2. run' = NoRun
    BY <1>1 DEF RunsHold, RunsIn
  <2> QED
    BY <1>6, <2>1, <2>2 DEF RunsHold, RunsIn, Working, Before
<1>14. RowsHold'
  <2>1. stage' \notin Early
    BY <1>6 DEF Early
  <2> QED
    BY <1>1, <1>7, <2>1 DEF RowsHold, RowsIn
<1>15. MatrixHolds' /\ GatesRefuseNoHonestRun'
  BY <1>6 DEF MatrixHolds, GatesRefuseNoHonestRun
<1> QED
  BY <1>9, <1>10, <1>11, <1>12, <1>13, <1>14, <1>15

-----------------------------------------------------------------------------
(* The matrix *)

Metrics == {"impulse", "timeliness", "gap", "loss"}

\* An effect that a cell of a measure takes.
FitsCell(effect, metric) ==
  CASE metric # "timeliness" -> effect.answer = "none" /\ effect.latency = NoLatency
    [] metric = "timeliness" /\ effect.answer = "responded" -> effect.latency # NoLatency
    [] metric = "timeliness" /\ effect.answer = "censored" ->
         effect.latency = NoLatency /\ effect.value = 0
    [] OTHER -> FALSE

\* A latency is a positive number, or there is none.
LEMMA ResponsesAre ==
  ASSUME NEW base, NEW treated, NEW a
  PROVE  /\ Responses(base, treated, a) # {} => Latency(Responses(base, treated, a)) \in Nat \ {0}
         /\ Responses(base, treated, a) = {} =>
              Latency(Responses(base, treated, a)) = NoLatency
<1> DEFINE responses == Responses(base, treated, a)
<1>1. Current \in Nat /\ Window \in Nat /\ Persistence \in Nat /\ Stop \in Nat
  BY WindowAssumption DEF Stop
<1>2. responses \in SUBSET Transitions /\ \A t \in responses : t - Persistence >= Current
  BY DEF Responses
<1>3. Transitions \in SUBSET Int /\ IsFiniteSet(Transitions)
  BY <1>1, FS_Interval DEF Transitions
<1> HIDE DEF responses
<1>4. responses \in SUBSET Int /\ IsFiniteSet(responses)
  BY <1>2, <1>3, FS_Subset
<1>5. responses # {} => Min(responses) \in responses
  BY <1>4, MinIsLeast
<1>6. responses # {} => Min(responses) + 1 - Current \in Nat \ {0}
  <2> SUFFICES ASSUME responses # {} PROVE Min(responses) + 1 - Current \in Nat \ {0}
    OBVIOUS
  <2> DEFINE first == Min(responses)
  <2>1. first \in Int /\ first - Persistence >= Current
    BY <1>2, <1>4, <1>5
  <2> HIDE DEF first
  <2>2. first + 1 - Current \in Nat \ {0}
    BY <1>1, <2>1
  <2> QED
    BY <2>2 DEF first
<1> QED
  BY <1>6 DEF Latency, responses

\* The results of a scene fit the cells they go to.
LEMMA ResultsFit ==
  ASSUME NEW base, NEW treated, NEW a, NEW metric \in Metrics, NEW row,
         row.primary = PrimaryResults(base, treated, a)
  PROVE  FitsCell(Effect(row, metric), metric)
<1> DEFINE responses == Responses(base, treated, a)
           effect == Effect(row, metric)
<1>1. /\ effect.value = PrimaryResults(base, treated, a)[metric].value
      /\ effect.answer = PrimaryResults(base, treated, a)[metric].answer
      /\ effect.latency = PrimaryResults(base, treated, a)[metric].latency
  BY DEF Effect
<1> HIDE DEF effect
<1>2. CASE metric # "timeliness"
  <2>1. metric \in {"impulse", "gap", "loss"}
    BY <1>2 DEF Metrics
  <2>2. /\ PrimaryResults(base, treated, a)[metric].answer = "none"
        /\ PrimaryResults(base, treated, a)[metric].latency = NoLatency
    BY <2>1 DEF PrimaryResults
  <2> QED
    BY <1>1, <1>2, <2>2 DEF FitsCell, effect
<1>3. CASE metric = "timeliness"
  <2>1. effect.value = Timeliness(responses) /\ effect.answer = Answered(responses)
        /\ effect.latency = Latency(responses)
    BY <1>1, <1>3 DEF PrimaryResults
  <2>2. CASE responses = {}
    <3>1. effect.latency = NoLatency /\ effect.value = 0 /\ effect.answer = "censored"
      BY <2>1, <2>2, ResponsesAre DEF Timeliness, Answered
    <3> QED
      BY <1>3, <3>1 DEF FitsCell, effect
  <2>3. CASE responses # {}
    <3>1. effect.latency # NoLatency /\ effect.answer = "responded"
      BY <2>1, <2>3, ResponsesAre DEF Answered, NoLatency
    <3> QED
      BY <1>3, <3>1 DEF FitsCell, effect
  <2> QED
    BY <2>2, <2>3
<1> QED
  BY <1>2, <1>3

\* Results that are those of some cases, in their order and under each policy.
Tabled(results, cases) ==
  /\ \E S : results \in Seq(S)
  /\ Len(results) = 3 * Len(cases)
  /\ \A i \in 1..Len(cases), p \in 1..3 :
       /\ results[3 * (i - 1) + p].case = cases[i]
       /\ results[3 * (i - 1) + p].policy = PolicyOrder[p]
  /\ \A x \in 1..Len(results) : \E base, treated, a :
       results[x].primary = PrimaryResults(base, treated, a)

\* The results of a policy are one for each case.
LEMMA PolicyRows ==
  ASSUME NEW results, NEW S \in SUBSET Int, IsFiniteSet(S), Tabled(results, Ascending(S)),
         NEW policy \in Policies
  PROVE  /\ Cardinality({x \in DOMAIN results : results[x].policy = policy}) = Cardinality(S)
         /\ {results[x].case : x \in {y \in DOMAIN results : results[y].policy = policy}} = S
         /\ \A c \in S : \E x \in DOMAIN results :
              results[x].policy = policy /\ results[x].case = c
<1> DEFINE ofPolicy == {x \in DOMAIN results : results[x].policy = policy}
           cases == Ascending(S)
           n == Cardinality(S)
<1>1. /\ cases \in Seq(S) /\ Len(cases) = n /\ n \in Nat
      /\ \A i, j \in 1..n : cases[i] = cases[j] => i = j
      /\ \A c \in S : \E i \in 1..n : cases[i] = c
  BY AscendingIs, FS_CardinalityType
<1>2. DOMAIN results = 1..(3 * n)
  BY <1>1 DEF Tabled
<1>3. PICK p \in 1..3 : PolicyOrder[p] = policy
  BY PolicyOrderIs
<1>4. \A i \in 1..n, q \in 1..3 :
        /\ results[3 * (i - 1) + q].case = cases[i]
        /\ results[3 * (i - 1) + q].policy = PolicyOrder[q]
  BY <1>1 DEF Tabled
<1> DEFINE place == [i \in 1..n |-> 3 * (i - 1) + p]
<1> HIDE DEF cases, n
<1>5. ASSUME NEW i \in 1..n
      PROVE  /\ 3 * (i - 1) + p \in ofPolicy /\ results[3 * (i - 1) + p].case = cases[i]
  <2>1. 3 * (i - 1) + p \in 1..(3 * n)
    BY <1>1
  <2> QED
    BY <1>2, <1>3, <1>4, <2>1
<1>6. ASSUME NEW x \in ofPolicy
      PROVE  \E i \in 1..n : x = 3 * (i - 1) + p
  <2>1. x \in 1..(3 * n) /\ results[x].policy = policy
    BY <1>2
  <2>2. PICK i \in 1..n, q \in 1..3 : x = 3 * (i - 1) + q
    BY <1>1, <2>1, PlaceInThree
  <2>3. PolicyOrder[q] = policy
    BY <1>4, <2>1, <2>2
  <2>4. q = p
    BY <1>3, <2>3, PolicyOrderIs
  <2> QED
    BY <2>2, <2>4
<1>7. Cardinality(ofPolicy) = n
  <2> DEFINE T == 1..n
  <2>1. IsFiniteSet(T) /\ Cardinality(T) = n
    BY <1>1, FS_Interval
  <2>2. place \in [T -> ofPolicy]
    BY <1>5
  <2>3. \A i, j \in T : place[i] = place[j] => i = j
    BY <1>1
  <2>4. \A x \in ofPolicy : \E i \in T : place[i] = x
    BY <1>6
  <2> HIDE DEF T, ofPolicy, place
  <2> QED
    BY <2>1, <2>2, <2>3, <2>4, ListedOnce
<1>8. {results[x].case : x \in ofPolicy} \subseteq S
  <2> SUFFICES ASSUME NEW x \in ofPolicy PROVE results[x].case \in S
    OBVIOUS
  <2>1. PICK i \in 1..n : x = 3 * (i - 1) + p
    BY <1>6
  <2>2. cases[i] \in S
    BY <1>1
  <2> QED
    BY <1>5, <2>1, <2>2
<1>9. ASSUME NEW c \in S
      PROVE  \E x \in ofPolicy : results[x].case = c
  <2>1. PICK i \in 1..n : cases[i] = c
    BY <1>1
  <2> QED
    BY <1>5, <2>1
<1>10. {results[x].case : x \in ofPolicy} = S
  <2> HIDE DEF ofPolicy
  <2> QED
    BY <1>8, <1>9
<1> QED
  BY <1>7, <1>9, <1>10 DEF n

\* The cell of a policy and a measure is over all cases, and is accepted.
LEMMA CellOf ==
  ASSUME NEW results, NEW S \in SUBSET Int, IsFiniteSet(S), Tabled(results, Ascending(S)),
         NEW policy \in Policies, NEW metric \in Metrics, NEW cell,
         cell = CellInput(results, policy, metric)
  PROVE  /\ Len(cell.effects) = Cardinality(S) /\ InputAccepted(cell)
         /\ CohortOf(cell) = [i \in 1..Cardinality(S) |-> Ascending(S)[i]]
<1> DEFINE ofPolicy == {x \in DOMAIN results : results[x].policy = policy}
           cases == Ascending(S)
           n == Cardinality(S)
           RowOf(c) == results[CHOOSE x \in ofPolicy : results[x].case = c]
<1>1. /\ Cardinality(ofPolicy) = n /\ {results[x].case : x \in ofPolicy} = S
      /\ \A c \in S : \E x \in ofPolicy : results[x].case = c
  BY PolicyRows
<1>2. /\ cases \in Seq(S) /\ Len(cases) = n /\ n \in Nat
  BY AscendingIs, FS_CardinalityType
<1> DEFINE listed == Ascending({results[x].case : x \in ofPolicy})
<1>3. /\ cell.given = Cardinality(ofPolicy) /\ cell.metric = metric
      /\ cell.effects = [k \in 1..Len(listed) |-> Effect(RowOf(listed[k]), metric)]
  BY DEF CellInput
<1>a. listed = cases
  BY <1>1
<1> HIDE DEF ofPolicy, listed, RowOf, cases, n
<1>4. cell.effects = [k \in 1..n |-> Effect(RowOf(cases[k]), metric)]
  BY <1>2, <1>3, <1>a
<1>5. \A c \in S : RowOf(c).case = c /\ \E x \in ofPolicy : RowOf(c) = results[x]
  <2> TAKE c \in S
  <2>1. \E x \in ofPolicy : results[x].case = c
    BY <1>1
  <2> QED
    BY <2>1 DEF RowOf
<1>6. Len(cell.effects) = n /\ DOMAIN cell.effects = 1..n
  BY <1>2, <1>4
<1>7. ASSUME NEW k \in 1..n
      PROVE  /\ cell.effects[k].case = cases[k] /\ FitsCell(cell.effects[k], metric)
  <2>1. cases[k] \in S
    BY <1>2
  <2> DEFINE row == RowOf(cases[k])
  <2>2. cell.effects[k] = Effect(row, metric)
    BY <1>4
  <2>3. row.case = cases[k] /\ \E x \in ofPolicy : row = results[x]
    BY <1>5, <2>1
  <2> HIDE DEF row
  <2>4. PICK x \in ofPolicy : row = results[x]
    BY <2>3
  <2>5. x \in 1..Len(results)
    BY DEF ofPolicy, Tabled
  <2>6. PICK base, treated, a : row.primary = PrimaryResults(base, treated, a)
    BY <2>4, <2>5 DEF Tabled
  <2>7. FitsCell(Effect(row, metric), metric)
    BY <2>6, ResultsFit
  <2>8. Effect(row, metric).case = row.case
    BY DEF Effect
  <2> QED
    BY <2>2, <2>3, <2>7, <2>8
<1>8. CohortOf(cell) = [i \in 1..n |-> cases[i]]
  BY <1>6, <1>7 DEF CohortOf
<1>9. InputAccepted(cell)
  <2>1. cell.given = Len(cell.effects)
    BY <1>1, <1>3, <1>6
  <2>2. \A effect \in Range(cell.effects) : FitsCell(effect, metric)
    BY <1>6, <1>7 DEF Range
  <2> QED
    BY <1>3, <2>1, <2>2 DEF InputAccepted, FitsCell
<1> QED
  BY <1>6, <1>8, <1>9 DEF n, cases

-----------------------------------------------------------------------------

\* A member of a sequence is what the sequence is of.
LEMMA MemberOf ==
  ASSUME NEW T, NEW s \in Seq(T), NEW i \in 1..Len(s)
  PROVE  s[i] \in T
OBVIOUS

\* The order of the metrics lists each once.
LEMMA MetricsAre ==
  /\ PrimaryMetrics \in Seq(Metrics) /\ Len(PrimaryMetrics) = 4
  /\ \A j \in 1..4 : PrimaryMetrics[j] \in Metrics
  /\ \A i, j \in 1..4 : PrimaryMetrics[i] = PrimaryMetrics[j] => i = j
  /\ \A metric \in Metrics : \E j \in 1..4 : PrimaryMetrics[j] = metric
<1>1. /\ PrimaryMetrics[1] = "impulse" /\ PrimaryMetrics[2] = "timeliness"
      /\ PrimaryMetrics[3] = "gap" /\ PrimaryMetrics[4] = "loss"
      /\ Len(PrimaryMetrics) = 4 /\ PrimaryMetrics \in Seq(Metrics)
  BY DEF PrimaryMetrics, Metrics
<1>2. \A i \in 1..4 : i = 1 \/ i = 2 \/ i = 3 \/ i = 4
  OBVIOUS
<1> QED
  BY <1>1, <1>2 DEF Metrics

\* A cell for every policy and every measure.
LEMMA CellOrderIs ==
  /\ CellOrder \in Seq([policy : Policies, metric : Metrics]) /\ Len(CellOrder) = 12
  /\ \A i \in 1..3, j \in 1..4 :
       CellOrder[4 * (i - 1) + j] = [policy |-> PolicyOrder[i], metric |-> PrimaryMetrics[j]]
  /\ \A x \in 1..12 : CellOrder[x].policy \in Policies /\ CellOrder[x].metric \in Metrics
<1> DEFINE T == [policy : Policies, metric : Metrics]
           Block(i) == [j \in 1..Len(PrimaryMetrics) |->
                          [policy |-> PolicyOrder[i], metric |-> PrimaryMetrics[j]]]
           seqs == [i \in 1..Len(PolicyOrder) |-> Block(i)]
           m == 4
<1>1. \A i \in 1..3 : Block(i) \in Seq(T) /\ Len(Block(i)) = 4
  <2> TAKE i \in 1..3
  <2>1. \A j \in 1..4 : [policy |-> PolicyOrder[i], metric |-> PrimaryMetrics[j]] \in T
    BY PolicyOrderIs, MetricsAre
  <2>2. Len(PrimaryMetrics) = 4
    BY MetricsAre
  <2> HIDE DEF T
  <2> QED
    BY <2>1, <2>2
<1>2. seqs \in Seq(Seq(T)) /\ Len(seqs) = 3 /\ \A i \in 1..3 : seqs[i] = Block(i)
  <2> HIDE DEF Block, T
  <2> QED
    BY <1>1, PolicyOrderIs
<1>3. CellOrder = FlattenSeq(seqs)
  BY DEF CellOrder
<1>4. \A i \in 1..3, j \in 1..4 :
        Block(i)[j] = [policy |-> PolicyOrder[i], metric |-> PrimaryMetrics[j]]
  BY MetricsAre
<1> HIDE DEF T, seqs, Block, m
<1>5. InBlocks(FlattenSeq(seqs), seqs, m, T)
  <2>1. m \in {1, 3, 4} /\ \A i \in 1..Len(seqs) : Len(seqs[i]) = m
    BY <1>1, <1>2 DEF m
  <2> QED
    BY <1>2, <2>1, FlattenBlocks
<1>6. /\ CellOrder \in Seq(T) /\ Len(CellOrder) = 12
      /\ \A i \in 1..3, j \in 1..4 : CellOrder[4 * (i - 1) + j] = seqs[i][j]
  BY <1>2, <1>3, <1>5 DEF InBlocks, m
<1>7. \A i \in 1..3, j \in 1..4 :
        CellOrder[4 * (i - 1) + j] = [policy |-> PolicyOrder[i], metric |-> PrimaryMetrics[j]]
  <2> TAKE i \in 1..3, j \in 1..4
  <2>1. CellOrder[4 * (i - 1) + j] = seqs[i][j]
    BY <1>6
  <2>2. seqs[i] = Block(i)
    BY <1>2
  <2>3. Block(i)[j] = [policy |-> PolicyOrder[i], metric |-> PrimaryMetrics[j]]
    BY <1>4
  <2> QED
    BY <2>1, <2>2, <2>3
<1>8. \A x \in 1..12 : CellOrder[x] \in T
  <2> DEFINE order == CellOrder
  <2> HIDE DEF order
  <2>1. order \in Seq(T) /\ Len(order) = 12
    BY <1>6 DEF order
  <2>2. \A x \in 1..Len(order) : order[x] \in T
    BY <2>1, MemberOf
  <2> QED
    BY <2>1, <2>2 DEF order
<1> QED
  BY <1>6, <1>7, <1>8 DEF T

\* The matrix of a full table is accepted.
LEMMA MatrixIsAccepted ==
  ASSUME NEW results, NEW S \in SUBSET Int, IsFiniteSet(S), Tabled(results, Ascending(S)),
         Cardinality(S) >= MinimumPairs
  PROVE  MatrixAccepted(CellInputs(results))
<1> DEFINE inputs == CellInputs(results)
           cohort == [i \in 1..Cardinality(S) |-> Ascending(S)[i]]
<1>1. DOMAIN inputs = 1..12
      /\ \A x \in 1..12 :
           inputs[x] = CellInput(results, CellOrder[x].policy, CellOrder[x].metric)
  BY CellOrderIs DEF CellInputs
<1> HIDE DEF inputs
<1>2. ASSUME NEW x \in 1..12
      PROVE  /\ Len(inputs[x].effects) = Cardinality(S) /\ InputAccepted(inputs[x])
             /\ CohortOf(inputs[x]) = cohort
  <2> DEFINE policy == CellOrder[x].policy
             metric == CellOrder[x].metric
             cell == inputs[x]
  <2>1. policy \in Policies /\ metric \in Metrics
    BY CellOrderIs
  <2>2. cell = CellInput(results, policy, metric)
    BY <1>1
  <2> HIDE DEF policy, metric, cell
  <2>3. /\ Len(cell.effects) = Cardinality(S) /\ InputAccepted(cell)
        /\ CohortOf(cell) = cohort
    BY <2>1, <2>2, CellOf
  <2> QED
    BY <2>3 DEF cell
<1> HIDE DEF cohort
<1>3. \A cell \in Range(inputs) : InputAccepted(cell) /\ CohortOf(cell) = CohortOf(inputs[1])
  BY <1>1, <1>2 DEF Range
<1>4. Len(inputs[1].effects) >= MinimumPairs
  BY <1>2
<1> QED
  BY <1>3, <1>4 DEF MatrixAccepted, inputs

-----------------------------------------------------------------------------
(* The results when all is run *)

\* Scene results that are those of an order of runs are the results of its cases.
LEMMA ScenesTabled ==
  ASSUME NEW scenes, NEW cases, NEW order,
         \E S : scenes \in Seq(S), Len(scenes) = Len(order), Len(order) = 3 * Len(cases),
         \A i \in 1..Len(cases), p \in 1..3 :
           order[3 * (i - 1) + p] = [case |-> cases[i], policy |-> PolicyOrder[p]],
         Len(cases) \in Nat,
         NEW src, NEW k,
         \A x \in 1..Len(scenes) : SceneIs(scenes[x], order[x], src[order[x].case], k)
  PROVE  Tabled(scenes, cases)
<1>1. Len(scenes) = 3 * Len(cases)
  OBVIOUS
<1>2. ASSUME NEW i \in 1..Len(cases), NEW p \in 1..3
      PROVE  /\ scenes[3 * (i - 1) + p].case = cases[i]
             /\ scenes[3 * (i - 1) + p].policy = PolicyOrder[p]
  <2> DEFINE x == 3 * (i - 1) + p
  <2>1. x \in 1..Len(scenes)
    BY <1>1
  <2>2. order[x] = [case |-> cases[i], policy |-> PolicyOrder[p]]
    OBVIOUS
  <2> HIDE DEF x
  <2>3. scenes[x].case = order[x].case /\ scenes[x].policy = order[x].policy
    BY <2>1 DEF SceneIs
  <2> QED
    BY <2>2, <2>3 DEF x
<1>3. \A x \in 1..Len(scenes) : \E base, treated, a :
        scenes[x].primary = PrimaryResults(base, treated, a)
  BY DEF SceneIs
<1> QED
  BY <1>1, <1>2, <1>3 DEF Tabled

\* When every run is analysed the rows are the whole table.
LEMMA RowsDone ==
  ASSUME EvaluationInv, stage \in Planned \ Working
  PROVE  /\ Len(rows) = Len(OrderIn(source)) /\ Tabled(rows, EligibleIn(source))
         /\ ScenesAre(OrderIn(source), source, severe, rows, severeRows)
         /\ Len(EligibleIn(source)) \in Nat /\ Len(EligibleIn(source)) >= MinimumPairs
         /\ severe = Range(SevereIn(source))
<1> USE DEF EvaluationInv
<1>1. /\ ScenesAre(OrderIn(source), source, severe, rows, severeRows)
      /\ Len(EligibleIn(source)) >= MinimumPairs /\ severe = Range(SevereIn(source))
      /\ Len(rows) \in Nat /\ Len(rows) + Len(prepared) = Len(OrderIn(source)) /\ Len(prepared) = 0
  BY DEF RowsHold, RowsIn, PlansHold, PlansIn
<1>2. Len(rows) = Len(OrderIn(source))
  BY <1>1
<1> DEFINE cases == EligibleIn(source)
           order == OrderIn(source)
<1>3. cases \in Seq(Cases)
  BY CasesListed
<1>4. Len(order) = 3 * Len(cases)
      /\ \A i \in 1..Len(cases), p \in 1..3 :
           order[3 * (i - 1) + p] = [case |-> cases[i], policy |-> PolicyOrder[p]]
  BY CasesListed
<1>5. /\ \E S : rows \in Seq(S)
      /\ \A x \in 1..Len(rows) : SceneIs(rows[x], order[x], source[order[x].case], "primary")
  BY <1>1 DEF ScenesAre
<1>6. Len(rows) = Len(order)
  BY <1>2
<1> HIDE DEF cases, order
<1>7. Len(cases) \in Nat
  BY <1>3
<1>8. Tabled(rows, cases)
  BY <1>4, <1>5, <1>6, <1>7, ScenesTabled
<1> QED
  BY <1>1, <1>2, <1>7, <1>8 DEF cases

\* The eligible and the severe cases are finite, and the lists are as long.
LEMMA EligibleFinite ==
  ASSUME NEW src
  PROVE  /\ {c \in Cases : Eligible(src[c])} \in SUBSET Int
         /\ IsFiniteSet({c \in Cases : Eligible(src[c])})
         /\ Len(EligibleIn(src)) = Cardinality({c \in Cases : Eligible(src[c])})
         /\ {c \in Cases : Eligible(src[c]) /\ SevereFeasible(src[c])} \in SUBSET Int
         /\ IsFiniteSet({c \in Cases : Eligible(src[c]) /\ SevereFeasible(src[c])})
         /\ Len(SevereIn(src)) = Cardinality({c \in Cases : Eligible(src[c]) /\ SevereFeasible(src[c])})
<1> DEFINE E == {c \in Cases : Eligible(src[c])}
           H == {c \in Cases : Eligible(src[c]) /\ SevereFeasible(src[c])}
<1>1. Cases \in SUBSET Int /\ IsFiniteSet(Cases)
  BY HorizonAssumption
<1>2. E \in SUBSET Cases /\ H \in SUBSET Cases
  OBVIOUS
<1>3. EligibleIn(src) = Ascending(E) /\ SevereIn(src) = Ascending(H)
  BY DEF EligibleIn, SevereIn
<1> HIDE DEF E, H
<1>4. E \in SUBSET Int /\ H \in SUBSET Int /\ IsFiniteSet(E) /\ IsFiniteSet(H)
  BY <1>1, <1>2, FS_Subset
<1>5. Len(Ascending(E)) = Cardinality(E) /\ Len(Ascending(H)) = Cardinality(H)
  BY <1>4, AscendingIs
<1> QED
  BY <1>3, <1>4, <1>5 DEF E, H

\* The rows of the evaluation make a matrix the statistics accept.
LEMMA RowsMakeTheMatrix ==
  ASSUME EvaluationInv, stage \in Planned \ Working
  PROVE  MatrixAccepted(CellInputs(rows))
<1> DEFINE E == {c \in Cases : Eligible(source[c])}
<1>1. E \in SUBSET Int /\ IsFiniteSet(E) /\ Len(EligibleIn(source)) = Cardinality(E)
  BY EligibleFinite
<1>2. Tabled(rows, EligibleIn(source)) /\ Len(EligibleIn(source)) >= MinimumPairs
  BY RowsDone
<1>3. EligibleIn(source) = Ascending(E)
  BY DEF EligibleIn
<1> HIDE DEF E
<1> QED
  BY <1>1, <1>2, <1>3, MatrixIsAccepted

\* Analysing the matrix keeps the invariant.
LEMMA MatrixIsSafe ==
  ASSUME EvaluationInv, AnalyseMatrix
  PROVE  EvaluationInv'
<1>1. /\ UNCHANGED <<caller, changes, source, todo, prepared, severe, condition, run, products,
                     rows, severeRows>>
      /\ stage = "statistics" /\ stage \in Planned \ Working
  BY DEF AnalyseMatrix, callerVars, caseVars, planVars, Planned, Working
<1>2. stage' = "result" /\ matrix' = Matrix(CellInputs(rows))
  BY <1>1, RowsMakeTheMatrix DEF AnalyseMatrix
<1> USE DEF EvaluationInv
<1>3. stage' \in Planned \ Working /\ stage' \notin Early /\ stage' # "failed"
  BY <1>2 DEF Planned, Working, Early
<1>4. TypesHold'
  BY <1>1, <1>3 DEF TypesHold, Stages
<1>5. TodoHolds'
  BY <1>1 DEF TodoHolds
<1>6. CopiesHold'
  BY <1>1, <1>2 DEF CopiesHold, Compared
<1>7. PlansHold'
  BY <1>1, <1>3 DEF PlansHold, PlansIn
<1>8. RunsHold'
  <2>1. stage \notin Working \union {"failed"} /\ stage' \notin Working
    BY <1>1, <1>2 DEF Working
  <2> QED
    BY <1>1, <2>1 DEF RunsHold, RunsIn, Working
<1>9. RowsHold'
  BY <1>1, <1>3 DEF RowsHold, RowsIn
<1>10. MatrixHolds' /\ GatesRefuseNoHonestRun'
  BY <1>1, <1>2 DEF MatrixHolds, GatesRefuseNoHonestRun
<1> QED
  BY <1>4, <1>5, <1>6, <1>7, <1>8, <1>9, <1>10

-----------------------------------------------------------------------------
(* Where the results of the higher dose are in the order of the runs *)

Places(place, order, sev, M, N) ==
  /\ M \in Nat /\ N \in Nat /\ place \in [1..M -> 1..N]
  /\ \A i, j \in 1..M : i < j => place[i] < place[j]
  /\ \A j \in 1..M : order[place[j]].case \in sev
  /\ \A x \in 1..N : order[x].case \in sev => \E j \in 1..M : place[j] = x

Counted(place, order, sev, M, N) ==
  /\ Cardinality(SevereUpTo(order, sev, N)) = M
  /\ \A j \in 1..M : Cardinality(SevereUpTo(order, sev, place[j])) = j

\* Up to the place of its i-th run, i runs of the higher dose were met.
LEMMA CountedUpTo ==
  ASSUME NEW order, NEW sev, NEW M, NEW N, NEW place, Places(place, order, sev, M, N)
  PROVE  Counted(place, order, sev, M, N)
<1> USE DEF Places, Counted
<1>1. ASSUME NEW J \in 0..M, NEW I \in 0..N, \A j \in 1..M : j <= J <=> place[j] <= I
      PROVE  Cardinality(SevereUpTo(order, sev, I)) = J
  <2> DEFINE S == 1..J
             T == SevereUpTo(order, sev, I)
             f == [j \in S |-> place[j]]
  <2>1. IsFiniteSet(S) /\ Cardinality(S) = J
    BY FS_Interval
  <2>2. f \in [S -> T]
    <3> SUFFICES ASSUME NEW j \in S PROVE place[j] \in T
      OBVIOUS
    <3>1. j \in 1..M /\ place[j] \in 1..N /\ place[j] <= I /\ order[place[j]].case \in sev
      BY <1>1
    <3>2. place[j] \in 1..I
      BY <3>1
    <3> QED
      BY <3>1, <3>2 DEF SevereUpTo
  <2>3. \A i, j \in S : f[i] = f[j] => i = j
    <3> SUFFICES ASSUME NEW i \in S, NEW j \in S, place[i] = place[j] PROVE i = j
      OBVIOUS
    <3>1. i \in 1..M /\ j \in 1..M /\ place[i] \in 1..N
      OBVIOUS
    <3>2. ~(i < j) /\ ~(j < i)
      BY <3>1
    <3> QED
      BY <3>1, <3>2
  <2>4. \A x \in T : \E j \in S : f[j] = x
    <3> SUFFICES ASSUME NEW x \in T PROVE \E j \in S : f[j] = x
      OBVIOUS
    <3>1. x \in 1..N /\ x <= I /\ order[x].case \in sev
      BY DEF SevereUpTo
    <3>2. PICK j \in 1..M : place[j] = x
      BY <3>1
    <3>3. j \in S
      BY <1>1, <3>1, <3>2
    <3> QED
      BY <3>2, <3>3
  <2> HIDE DEF S, T, f
  <2>5. Cardinality(T) = Cardinality(S)
    BY <2>1, <2>2, <2>3, <2>4, ListedOnce
  <2> QED
    BY <2>1, <2>5 DEF T
<1>2. Cardinality(SevereUpTo(order, sev, N)) = M
  <2>1. \A j \in 1..M : j <= M <=> place[j] <= N
    OBVIOUS
  <2> QED
    BY <1>1, <2>1
<1>3. ASSUME NEW i \in 1..M
      PROVE  Cardinality(SevereUpTo(order, sev, place[i])) = i
  <2> DEFINE I == place[i]
  <2>1. I \in 0..N /\ i \in 0..M
    OBVIOUS
  <2>2. \A j \in 1..M : j <= i <=> place[j] <= I
    <3> TAKE j \in 1..M
    <3>1. place[j] \in 1..N /\ I \in 1..N
      OBVIOUS
    <3>2. CASE j < i
      BY <3>1, <3>2
    <3>3. CASE j = i
      BY <3>1, <3>3
    <3>4. CASE i < j
      BY <3>1, <3>4
    <3> QED
      BY <3>2, <3>3, <3>4
  <2> HIDE DEF I
  <2>3. Cardinality(SevereUpTo(order, sev, I)) = i
    BY <1>1, <2>1, <2>2
  <2> QED
    BY <2>3 DEF I
<1> QED
  BY <1>2, <1>3

\* Blocks of three do not overlap.
LEMMA ThirdsOnce ==
  ASSUME NEW q \in Int, NEW r \in Int, NEW p \in 1..3, NEW s \in 1..3
  PROVE  /\ 3 * (q - 1) + p = 3 * (r - 1) + s => q = r /\ p = s
         /\ 3 * (q - 1) + p < 3 * (r - 1) + s => q < r \/ (q = r /\ p < s)
         /\ q < r => 3 * (q - 1) + p < 3 * (r - 1) + s
         /\ q = r /\ p < s => 3 * (q - 1) + p < 3 * (r - 1) + s
OBVIOUS

\* Places of cases give places of runs, three to a case.
LEMMA Thirds ==
  ASSUME NEW m \in Nat, NEW n \in Nat, NEW e \in [1..m -> 1..n],
         \A q, r \in 1..m : q < r => e[q] < e[r]
  PROVE  \E place \in [1..(3 * m) -> 1..(3 * n)] :
           /\ \A i, j \in 1..(3 * m) : i < j => place[i] < place[j]
           /\ \A q \in 1..m, p \in 1..3 : place[3 * (q - 1) + p] = 3 * (e[q] - 1) + p
<1> DEFINE IsPlace(j, x) ==
             \E q \in 1..m, p \in 1..3 : j = 3 * (q - 1) + p /\ x = 3 * (e[q] - 1) + p
           place == [j \in 1..(3 * m) |-> CHOOSE x \in 1..(3 * n) : IsPlace(j, x)]
<1>1. ASSUME NEW j \in 1..(3 * m)
      PROVE  \E q \in 1..m, p \in 1..3 : j = 3 * (q - 1) + p
  BY PlaceInThree
<1>2. ASSUME NEW j \in 1..(3 * m)
      PROVE  \E x \in 1..(3 * n) : IsPlace(j, x)
  <2>1. PICK q \in 1..m, p \in 1..3 : j = 3 * (q - 1) + p
    BY <1>1
  <2>2. e[q] \in 1..n
    OBVIOUS
  <2>3. 3 * (e[q] - 1) + p \in 1..(3 * n)
    BY <2>2
  <2>4. IsPlace(j, 3 * (e[q] - 1) + p)
    BY <2>1
  <2> QED
    BY <2>3, <2>4
<1> HIDE DEF IsPlace
<1>3. \A j \in 1..(3 * m) : place[j] \in 1..(3 * n) /\ IsPlace(j, place[j])
  BY <1>2
<1> HIDE DEF place
<1>4. \A j \in 1..(3 * m) : \E q \in 1..m, p \in 1..3 :
        j = 3 * (q - 1) + p /\ place[j] = 3 * (e[q] - 1) + p
  BY <1>3 DEF IsPlace
<1>5. ASSUME NEW q \in 1..m, NEW p \in 1..3
      PROVE  place[3 * (q - 1) + p] = 3 * (e[q] - 1) + p
  <2> DEFINE j == 3 * (q - 1) + p
  <2>1. j \in 1..(3 * m)
    OBVIOUS
  <2>2. PICK r \in 1..m, s \in 1..3 : j = 3 * (r - 1) + s /\ place[j] = 3 * (e[r] - 1) + s
    BY <1>4, <2>1
  <2>3. r = q /\ s = p
    <3>1. 3 * (q - 1) + p = 3 * (r - 1) + s /\ q \in Int /\ r \in Int
      BY <2>2
    <3> HIDE DEF j
    <3> QED
      BY <3>1, ThirdsOnce
  <2> QED
    BY <2>2, <2>3
<1>6. ASSUME NEW i \in 1..(3 * m), NEW j \in 1..(3 * m), i < j
      PROVE  place[i] < place[j]
  <2>1. PICK q \in 1..m, p \in 1..3 : i = 3 * (q - 1) + p /\ place[i] = 3 * (e[q] - 1) + p
    BY <1>4
  <2>2. PICK r \in 1..m, s \in 1..3 : j = 3 * (r - 1) + s /\ place[j] = 3 * (e[r] - 1) + s
    BY <1>4
  <2>3. e[q] \in 1..n /\ e[r] \in 1..n
    OBVIOUS
  <2>4. q < r \/ (q = r /\ p < s)
    <3>1. 3 * (q - 1) + p < 3 * (r - 1) + s /\ q \in Int /\ r \in Int
      BY <1>6, <2>1, <2>2
    <3> QED
      BY <3>1, ThirdsOnce
  <2>5. q < r => e[q] < e[r]
    OBVIOUS
  <2> DEFINE a == e[q]
             b == e[r]
  <2>6. /\ a \in Int /\ b \in Int /\ (a < b \/ (a = b /\ p < s))
        /\ place[i] = 3 * (a - 1) + p /\ place[j] = 3 * (b - 1) + s
    BY <2>1, <2>2, <2>3, <2>4, <2>5
  <2> HIDE DEF a, b
  <2> QED
    BY <2>6, ThirdsOnce
<1>7. place \in [1..(3 * m) -> 1..(3 * n)]
  BY <1>3 DEF place
<1> QED
  BY <1>5, <1>6, <1>7

\* The results of the higher dose are the part of the order that is about its cases.
LEMMA SeverePlaces ==
  ASSUME NEW src
  PROVE  \E place \in [1..Len(RunsOf(SevereIn(src))) -> 1..Len(OrderIn(src))] :
           /\ \A j \in 1..Len(RunsOf(SevereIn(src))) :
                /\ OrderIn(src)[place[j]] = RunsOf(SevereIn(src))[j]
                /\ place[j] \in SevereUpTo(OrderIn(src), Range(SevereIn(src)), Len(OrderIn(src)))
                /\ Cardinality(SevereUpTo(OrderIn(src), Range(SevereIn(src)), place[j])) = j
           /\ Cardinality(SevereUpTo(OrderIn(src), Range(SevereIn(src)), Len(OrderIn(src))))
                = Len(RunsOf(SevereIn(src)))
<1> DEFINE E == {c \in Cases : Eligible(src[c])}
           H == {c \in Cases : Eligible(src[c]) /\ SevereFeasible(src[c])}
           cases == EligibleIn(src)
           hard == SevereIn(src)
           order == OrderIn(src)
           m == Len(hard)
           n == Len(cases)
<1>1. /\ E \in SUBSET Int /\ H \in SUBSET E /\ IsFiniteSet(E) /\ IsFiniteSet(H) /\ H \in SUBSET Int
  BY EligibleFinite
<1>2. /\ cases = Ascending(E) /\ hard = Ascending(H) /\ cases \in Seq(Cases) /\ hard \in Seq(Cases)
      /\ Range(hard) = H
  BY CasesListed DEF EligibleIn, SevereIn
<1>3. /\ Len(order) = 3 * n
      /\ \A i \in 1..n, p \in 1..3 :
           order[3 * (i - 1) + p] = [case |-> cases[i], policy |-> PolicyOrder[p]]
  BY CasesListed
<1>4. /\ Len(RunsOf(hard)) = 3 * m
      /\ \A i \in 1..m, p \in 1..3 :
           RunsOf(hard)[3 * (i - 1) + p] = [case |-> hard[i], policy |-> PolicyOrder[p]]
  BY <1>2, RunsAre
<1> HIDE DEF E, H, cases, hard, order
<1>5. m \in Nat /\ n \in Nat
  BY <1>2
<1>6. /\ \A i \in 1..n : cases[i] \in Int
      /\ \A i \in 1..m : hard[i] \in Int /\ hard[i] \in H
      /\ \A i, j \in 1..n : i < j => cases[i] < cases[j]
      /\ \A i, j \in 1..m : i < j => hard[i] < hard[j]
      /\ \A c \in E : \E i \in 1..n : cases[i] = c
      /\ \A c \in H : \E i \in 1..m : hard[i] = c
  <2>1. cases \in Seq(E) /\ hard \in Seq(H)
    BY <1>1, <1>2, AscendingIs
  <2>2. \A i \in 1..n : cases[i] \in E
    BY <2>1, MemberOf
  <2>3. \A i \in 1..m : hard[i] \in H
    BY <2>1, MemberOf
  <2>4. \A i, j \in 1..n : i < j => cases[i] < cases[j]
    BY <1>1, <1>2, AscendingIs
  <2>5. \A i, j \in 1..m : i < j => hard[i] < hard[j]
    BY <1>1, <1>2, AscendingIs
  <2>6. \A c \in E : \E i \in 1..n : cases[i] = c
    BY <1>1, <1>2, AscendingIs
  <2>7. \A c \in H : \E i \in 1..m : hard[i] = c
    BY <1>1, <1>2, AscendingIs
  <2> QED
    BY <1>1, <2>2, <2>3, <2>4, <2>5, <2>6, <2>7
<1> DEFINE e == [q \in 1..m |-> CHOOSE i \in 1..n : cases[i] = hard[q]]
<1> HIDE DEF m, n
<1>7. \A q \in 1..m : e[q] \in 1..n /\ cases[e[q]] = hard[q]
  <2> TAKE q \in 1..m
  <2>1. \E i \in 1..n : cases[i] = hard[q]
    BY <1>1, <1>6
  <2> QED
    BY <2>1
<1>8. e \in [1..m -> 1..n]
  BY <1>7
<1> HIDE DEF e
<1>9. \A q, r \in 1..m : q < r => e[q] < e[r]
  <2> SUFFICES ASSUME NEW q \in 1..m, NEW r \in 1..m, q < r PROVE e[q] < e[r]
    OBVIOUS
  <2>1. hard[q] < hard[r] /\ hard[q] \in Int /\ hard[r] \in Int
    BY <1>6
  <2>2. cases[e[q]] < cases[e[r]] /\ e[q] \in 1..n /\ e[r] \in 1..n
    BY <1>7, <2>1
  <2>3. e[r] # e[q]
    BY <1>7, <2>1
  <2>4. ~(e[r] < e[q])
    <3> SUFFICES ASSUME e[r] < e[q] PROVE FALSE
      OBVIOUS
    <3>1. cases[e[r]] < cases[e[q]]
      BY <1>6, <2>2
    <3> QED
      BY <1>6, <2>2, <3>1
  <2> QED
    BY <1>5, <2>2, <2>3, <2>4
<1>10. PICK place \in [1..(3 * m) -> 1..(3 * n)] :
         /\ \A i, j \in 1..(3 * m) : i < j => place[i] < place[j]
         /\ \A q \in 1..m, p \in 1..3 : place[3 * (q - 1) + p] = 3 * (e[q] - 1) + p
  BY <1>5, <1>8, <1>9, Thirds
<1>11. ASSUME NEW j \in 1..(3 * m)
       PROVE  order[place[j]] = RunsOf(hard)[j] /\ order[place[j]].case \in H
  <2>1. PICK q \in 1..m, p \in 1..3 : j = 3 * (q - 1) + p
    BY <1>5, PlaceInThree
  <2>2. place[j] = 3 * (e[q] - 1) + p
    BY <1>10, <2>1
  <2>3. e[q] \in 1..n /\ cases[e[q]] = hard[q]
    BY <1>7
  <2>4. order[place[j]] = [case |-> cases[e[q]], policy |-> PolicyOrder[p]]
    <3> DEFINE i == e[q]
    <3>1. i \in 1..n /\ place[j] = 3 * (i - 1) + p
      BY <2>2, <2>3
    <3> HIDE DEF i
    <3>2. order[3 * (i - 1) + p] = [case |-> cases[i], policy |-> PolicyOrder[p]]
      BY <1>3, <3>1 DEF n
    <3> QED
      BY <3>1, <3>2 DEF i
  <2>5. RunsOf(hard)[j] = [case |-> hard[q], policy |-> PolicyOrder[p]]
    BY <1>4, <2>1 DEF m
  <2> QED
    BY <1>6, <2>3, <2>4, <2>5 DEF m
<1>12. ASSUME NEW x \in 1..(3 * n), order[x].case \in H
       PROVE  \E j \in 1..(3 * m) : place[j] = x
  <2>1. PICK i \in 1..n, p \in 1..3 : x = 3 * (i - 1) + p
    BY <1>5, PlaceInThree
  <2>2. order[x] = [case |-> cases[i], policy |-> PolicyOrder[p]]
    BY <1>3, <2>1 DEF n
  <2>3. PICK q \in 1..m : hard[q] = cases[i]
    BY <1>6, <1>12, <2>2 DEF m
  <2>4. e[q] \in 1..n /\ cases[e[q]] = cases[i]
    BY <1>7, <2>3
  <2>5. e[q] = i
    <3> DEFINE k == e[q]
    <3>1. k \in 1..n /\ cases[k] = cases[i] /\ cases[i] \in Int
      BY <1>6, <2>4 DEF n
    <3> HIDE DEF k
    <3>2. ~(k < i) /\ ~(i < k)
      <4>1. k < i => cases[k] < cases[i]
        BY <1>6, <3>1 DEF n
      <4>2. i < k => cases[i] < cases[k]
        BY <1>6, <3>1 DEF n
      <4>3. ~(cases[i] < cases[i])
        BY <3>1
      <4> QED
        BY <3>1, <4>1, <4>2, <4>3
    <3>3. k = i
      BY <1>5, <3>1, <3>2
    <3> QED
      BY <3>3 DEF k
  <2>6. place[3 * (q - 1) + p] = x
    BY <1>10, <2>1, <2>5
  <2>7. 3 * (q - 1) + p \in 1..(3 * m)
    BY <1>5
  <2> QED
    BY <2>6, <2>7
<1> DEFINE M == 3 * m
           N == 3 * n
<1>13. /\ M \in Nat /\ N \in Nat /\ place \in [1..M -> 1..N]
       /\ \A i, j \in 1..M : i < j => place[i] < place[j]
       /\ \A j \in 1..M : order[place[j]].case \in H
       /\ \A j \in 1..M : order[place[j]] = RunsOf(hard)[j]
       /\ \A x \in 1..N : order[x].case \in H => \E j \in 1..M : place[j] = x
       /\ M = Len(RunsOf(hard)) /\ N = Len(order)
  BY <1>3, <1>4, <1>5, <1>10, <1>11, <1>12 DEF m, n
<1> HIDE DEF M, N
<1>14. /\ Cardinality(SevereUpTo(order, H, N)) = M
       /\ \A j \in 1..M : Cardinality(SevereUpTo(order, H, place[j])) = j
  <2>1. Places(place, order, H, M, N)
    BY <1>13 DEF Places
  <2>2. Counted(place, order, H, M, N)
    BY <2>1, CountedUpTo
  <2> QED
    BY <2>2 DEF Counted
<1>15. \A j \in 1..M : place[j] \in SevereUpTo(order, H, N)
  BY <1>13 DEF SevereUpTo
<1>16. H = Range(hard)
  BY <1>2
<1> QED
  BY <1>13, <1>14, <1>15, <1>16 DEF hard, order

-----------------------------------------------------------------------------
(* The result *)

\* A scene of a run of the order holds.
LEMMA OrderedSceneHolds ==
  ASSUME EvaluationInv, stage \in Planned, NEW x \in 1..Len(OrderIn(source)), NEW scene,
         NEW k \in {"primary", "secondary"},
         SceneIs(scene, OrderIn(source)[x], source[OrderIn(source)[x].case], k)
  PROVE  SceneHolds(scene, DoseOf(k))
<1> USE DEF EvaluationInv
<1> DEFINE at == OrderIn(source)[x]
           policy == at.policy
           log == source[at.case]
<1>1. at.case \in Cases /\ policy \in Policies /\ Eligible(log)
  BY OrderAt
<1>2. DOMAIN source = Cases
  BY DEF CopiesHold, Planned, Working
<1>3. log \in Logs /\ Targets(log) # {}
  BY <1>1, <1>2 DEF TypesHold, Eligible
<1>4. /\ log = source[scene.case] /\ scene.policy = policy
      /\ Executed(scene.legacy, policy, log, "legacy", LastFrame)
      /\ Executed(scene.baseline, policy, log, "identity", Stop)
      /\ Executed(scene.treated, policy, log, k, Stop)
      /\ scene.primary = PrimaryResults(scene.baseline.frames, scene.treated.frames, Target(log))
      /\ scene.secondary
           = SecondaryResults(scene.baseline.frames, scene.treated.frames, Target(log))
  BY DEF SceneIs
<1> HIDE DEF policy, log
<1> QED
  BY <1>1, <1>3, <1>4, SceneOfRuns

\* The rows are in the order of the cases and the policies.
LEMMA RowsAreInOrder ==
  ASSUME EvaluationInv, stage \in Planned \ Working
  PROVE  InOrder(rows, EligibleCases) /\ InOrder(severeRows, SevereCases)
<1> DEFINE order == OrderIn(source)
           hard == RunsOf(SevereIn(source))
<1>1. Len(rows) = Len(order) /\ ScenesAre(order, source, severe, rows, severeRows)
      /\ severe = Range(SevereIn(source))
  BY RowsDone
<1>2. RunsOf(EligibleCases) = order /\ RunsOf(SevereCases) = hard
  BY DEF EligibleCases, SevereCases, EligibleIn, SevereIn, OrderIn
<1>3. \A i \in 1..Len(order) : rows[i].case = order[i].case /\ rows[i].policy = order[i].policy
  BY <1>1 DEF ScenesAre, SceneIs
<1>4. InOrder(rows, EligibleCases)
  BY <1>1, <1>2, <1>3 DEF InOrder
<1>5. PICK place \in [1..Len(hard) -> 1..Len(order)] :
        /\ \A j \in 1..Len(hard) :
             /\ order[place[j]] = hard[j]
             /\ place[j] \in SevereUpTo(order, severe, Len(order))
             /\ Cardinality(SevereUpTo(order, severe, place[j])) = j
        /\ Cardinality(SevereUpTo(order, severe, Len(order))) = Len(hard)
  BY <1>1, SeverePlaces
<1> HIDE DEF order, hard
<1>6. Len(severeRows) = Len(hard)
  BY <1>1, <1>5 DEF ScenesAre
<1>7. ASSUME NEW j \in 1..Len(hard)
      PROVE  severeRows[j].case = hard[j].case /\ severeRows[j].policy = hard[j].policy
  <2> DEFINE x == place[j]
  <2>1. /\ order[x] = hard[j] /\ x \in SevereUpTo(order, severe, Len(rows))
        /\ Cardinality(SevereUpTo(order, severe, x)) = j
    BY <1>1, <1>5
  <2> HIDE DEF x
  <2>2. SceneIs(severeRows[Cardinality(SevereUpTo(order, severe, x))], order[x],
                source[order[x].case], "secondary")
    BY <1>1, <2>1 DEF ScenesAre
  <2>3. SceneIs(severeRows[j], order[x], source[order[x].case], "secondary")
    BY <2>1, <2>2
  <2> QED
    BY <2>1, <2>3 DEF SceneIs
<1>8. InOrder(severeRows, SevereCases)
  BY <1>2, <1>6, <1>7 DEF InOrder
<1> QED
  BY <1>4, <1>8

\* Every scene of the rows holds.
LEMMA ScenesOfRowsHold ==
  ASSUME EvaluationInv, stage \in Planned \ Working
  PROVE  /\ \A scene \in Range(rows) : SceneHolds(scene, PrimaryDose)
         /\ \A scene \in Range(severeRows) : SceneHolds(scene, SecondaryDose)
<1> DEFINE order == OrderIn(source)
<1>1. /\ Len(rows) = Len(order) /\ ScenesAre(order, source, severe, rows, severeRows)
      /\ stage \in Planned
  BY RowsDone
<1>2. PICK S, T : rows \in Seq(S) /\ severeRows \in Seq(T)
  BY <1>1 DEF ScenesAre
<1> HIDE DEF order
<1>3. ASSUME NEW i \in DOMAIN rows PROVE SceneHolds(rows[i], PrimaryDose)
  <2> DEFINE scene == rows[i]
  <2>1. i \in 1..Len(order)
    BY <1>1, <1>2
  <2>2. SceneIs(scene, order[i], source[order[i].case], "primary")
    BY <1>1, <2>1 DEF ScenesAre
  <2> HIDE DEF scene
  <2>3. SceneHolds(scene, DoseOf("primary"))
    BY <1>1, <2>1, <2>2, OrderedSceneHolds DEF order
  <2> QED
    BY <2>3 DEF DoseOf, scene
<1>4. ASSUME NEW j \in DOMAIN severeRows PROVE SceneHolds(severeRows[j], SecondaryDose)
  <2> DEFINE scene == severeRows[j]
  <2>1. j \in 1..Len(severeRows)
    BY <1>2
  <2>2. PICK i \in SevereUpTo(order, severe, Len(rows)) :
          SceneIs(scene, order[i], source[order[i].case], "secondary")
    BY <1>1, <2>1 DEF ScenesAre
  <2>3. i \in 1..Len(order)
    BY <1>1 DEF SevereUpTo
  <2> HIDE DEF scene
  <2>4. SceneHolds(scene, DoseOf("secondary"))
    BY <1>1, <2>2, <2>3, OrderedSceneHolds DEF order
  <2> QED
    BY <2>4 DEF DoseOf, scene
<1> QED
  BY <1>3, <1>4 DEF Range

\* What the result holds can be had from the sources again.
LEMMA ResultOf ==
  ASSUME EvaluationInv, stage \in {"result", "compare_result", "published"}
  PROVE  ResultHolds
<1>1. stage \in Planned \ Working
  BY DEF Planned, Working
<1>2. /\ Len(EligibleIn(source)) >= MinimumPairs /\ severe = Range(SevereIn(source))
  BY <1>1, RowsDone
<1>3. EligibleCases = EligibleIn(source) /\ SevereCases = SevereIn(source)
  BY DEF EligibleCases, SevereCases, EligibleIn, SevereIn
<1>4. MatrixAccepted(CellInputs(rows))
  BY <1>1, RowsMakeTheMatrix
<1>5. matrix = Matrix(CellInputs(rows))
  BY DEF EvaluationInv, MatrixHolds
<1> QED
  BY <1>1, <1>2, <1>3, <1>4, <1>5, RowsAreInOrder, ScenesOfRowsHold DEF ResultHolds

\* Building the result keeps the invariant.
LEMMA BuildIsSafe ==
  ASSUME EvaluationInv, BuildResult
  PROVE  EvaluationInv'
<1>1. /\ UNCHANGED <<caller, changes, source, prepared, severe, condition, run, products,
                     rows, severeRows, matrix>>
      /\ stage = "result" /\ stage \in Planned \ Working
  BY DEF BuildResult, callerVars, planVars, resultVars, Planned, Working
<1>2. stage' = "compare_result" /\ todo' = CaseOrder
  BY <1>1, ResultOf DEF BuildResult
<1> USE DEF EvaluationInv
<1>3. stage' \in Planned \ Working /\ stage' \notin Early /\ stage' # "failed"
  BY <1>2 DEF Planned, Working, Early
<1>4. TypesHold'
  BY <1>1, <1>3 DEF TypesHold, Stages
<1>5. TodoHolds'
  BY <1>2, CaseOrderIs DEF TodoHolds
<1>6. CopiesHold'
  BY <1>1, <1>2, CaseOrderIs DEF CopiesHold
<1>7. PlansHold'
  BY <1>1, <1>3 DEF PlansHold, PlansIn
<1>8. RunsHold'
  <2>1. stage \notin Working \union {"failed"} /\ stage' \notin Working
    BY <1>1, <1>2 DEF Working
  <2> QED
    BY <1>1, <2>1 DEF RunsHold, RunsIn, Working
<1>9. RowsHold'
  BY <1>1, <1>3 DEF RowsHold, RowsIn
<1>10. MatrixHolds' /\ GatesRefuseNoHonestRun'
  BY <1>1, <1>2 DEF MatrixHolds, GatesRefuseNoHonestRun
<1> QED
  BY <1>4, <1>5, <1>6, <1>7, <1>8, <1>9, <1>10

\* Every step of the evaluation keeps the invariant.
LEMMA EvaluationStep ==
  ASSUME EvaluationInv, Next
  PROVE  EvaluationInv'
<1>1. CASE Evaluate
  BY <1>1, CopyIsSafe, CompareIsSafe, ClassifyIsSafe, StartIsSafe, TransitionIsSafe, BindIsSafe,
     GateIsSafe, AnalyseIsSafe, MatrixIsSafe, BuildIsSafe DEF Evaluate
<1>2. ASSUME NEW c \in Cases, CallerChanges(c) PROVE EvaluationInv'
  BY <1>2, ChangesAreSafe
<1> QED
  BY <1>1, <1>2 DEF Next

\* An evaluation that does nothing stays as it is.
LEMMA EvaluationStutters ==
  ASSUME EvaluationInv, UNCHANGED vars
  PROVE  EvaluationInv'
<1> USE DEF EvaluationInv, vars, callerVars, caseVars, planVars, resultVars
<1>1. TypesHold' /\ TodoHolds' /\ CopiesHold'
  BY DEF TypesHold, TodoHolds, CopiesHold
<1>2. PlansHold' /\ RunsHold' /\ RowsHold'
  BY DEF PlansHold, RunsHold, RowsHold
<1>3. MatrixHolds' /\ GatesRefuseNoHonestRun'
  BY DEF MatrixHolds, GatesRefuseNoHonestRun
<1> QED
  BY <1>1, <1>2, <1>3

\* In the invariant every segment starts from the log.
LEMMA InvariantSegments ==
  ASSUME EvaluationInv
  PROVE  SegmentsStartFromTheLog
<1> USE DEF EvaluationInv
<1>1. SUFFICES ASSUME NEW rollout \in {run} \union {products[k] : k \in DOMAIN products},
                      NEW t \in DOMAIN rollout.frames \ {0}, NEW a \in World,
                      rollout.frames[t][a].valid
               PROVE  IF rollout.frames[t - 1][a].valid /\ t > Current /\ Policy \notin Privileged
                      THEN /\ rollout.frames[t][a].pos - rollout.frames[t - 1][a].pos
                                \in 0..(4 * MaxSpeed)
                           /\ rollout.frames[t][a].spd \in 0..MaxSpeed
                           /\ rollout.frames[t][a].spd - CurrentSpeed(rollout.frames[t - 1][a])
                                \in -MaxDeceleration..MaxAcceleration
                      ELSE rollout.frames[t][a] = Log[t][a]
  BY DEF SegmentsStartFromTheLog
<1>2. stage \in Working
  <2> SUFFICES ASSUME stage \notin Working PROVE FALSE
    OBVIOUS
  <2>1. DOMAIN products = {} /\ run = NoRun
    BY DEF RunsHold, RunsIn, Working
  <2>2. rollout = NoRun /\ DOMAIN rollout.frames = {}
    BY <1>1, <2>1 DEF NoRun
  <2> QED
    BY <1>1, <2>2
<1>3. Policy \in Policies /\ Log \in Logs
  BY <1>2, AtHand
<1>4. \E k \in Conditions : \E n \in Current..StopOf(k) : Executed(rollout, Policy, Log, k, n)
  <2>1. CASE rollout = run
    <3>1. stage = "running"
      <4> SUFFICES ASSUME stage # "running" PROVE FALSE
        OBVIOUS
      <4>1. DOMAIN rollout.frames = {}
        BY <2>1 DEF RunsHold, RunsIn, NoRun
      <4> QED
        BY <1>1, <4>1
    <3>2. \E n \in Current..StopOf(condition) : Executed(run, Policy, Log, condition, n)
      BY <3>1 DEF RunsHold, RunsIn, Policy, Log, Case
    <3> QED
      BY <2>1, <3>2 DEF TypesHold
  <2>2. CASE \E k \in DOMAIN products : rollout = products[k]
    <3>1. PICK k \in DOMAIN products : rollout = products[k]
      BY <2>2
    <3>2. Executed(rollout, Policy, Log, k, StopOf(k))
      BY <1>2, <3>1 DEF RunsHold, RunsIn, Policy, Log, Case
    <3>3. DOMAIN products \subseteq Before(condition) \union {condition} /\ condition \in Conditions
      BY <1>2 DEF RunsHold, RunsIn, TypesHold
    <3>4. k \in Conditions
      BY <3>1, <3>3 DEF Before, Conditions
    <3>5. StopOf(k) \in Current..StopOf(k)
      BY Horizon DEF StopOf
    <3> QED
      BY <3>2, <3>4, <3>5
  <2> QED
    BY <1>1, <2>1, <2>2
<1>5. PICK k \in Conditions : \E n \in Current..StopOf(k) : Executed(rollout, Policy, Log, k, n)
  BY <1>4
<1>a. PICK n \in Current..StopOf(k) : Executed(rollout, Policy, Log, k, n)
  BY <1>5
<1>6. t \in (0..n) \ {0}
  BY <1>1, <1>a DEF Executed
<1> QED
  BY <1>1, <1>3, <1>a, <1>6, SegmentOf

-----------------------------------------------------------------------------
(* The tables *)

\* The rows of a table that has as many for every scene.
LEMMA ScalarRowsAre ==
  ASSUME NEW scenes, \E S : scenes \in Seq(S)
  PROVE  /\ \E T : ScalarRows(scenes) \in Seq(T)
         /\ Len(ScalarRows(scenes)) = 4 * Len(scenes)
         /\ \A i \in 1..Len(scenes), j \in 1..4 :
              ScalarRows(scenes)[4 * (i - 1) + j] = ScalarRow(scenes[i], PrimaryMetrics[j])
<1> DEFINE n == Len(scenes)
           Block(i) == [j \in 1..Len(PrimaryMetrics) |-> ScalarRow(scenes[i], PrimaryMetrics[j])]
           T == {ScalarRow(scenes[i], PrimaryMetrics[j]) : i \in 1..n, j \in 1..4}
           seqs == [i \in 1..n |-> Block(i)]
           m == 4
<1>1. n \in Nat
  OBVIOUS
<1> HIDE DEF n
<1>2. \A i \in 1..n : Block(i) \in Seq(T) /\ Len(Block(i)) = 4
  <2> TAKE i \in 1..n
  <2>1. \A j \in 1..4 : ScalarRow(scenes[i], PrimaryMetrics[j]) \in T
    OBVIOUS
  <2>2. Len(PrimaryMetrics) = 4
    BY MetricsAre
  <2> HIDE DEF T
  <2> QED
    BY <2>1, <2>2
<1>3. \A i \in 1..n, j \in 1..4 : Block(i)[j] = ScalarRow(scenes[i], PrimaryMetrics[j])
  BY MetricsAre
<1>4. ScalarRows(scenes) = FlattenSeq(seqs)
  BY DEF ScalarRows, n
<1>5. seqs \in Seq(Seq(T)) /\ Len(seqs) = n /\ \A i \in 1..n : seqs[i] = Block(i)
  <2> HIDE DEF Block, T
  <2> QED
    BY <1>1, <1>2
<1> HIDE DEF T, seqs, Block, m
<1>6. InBlocks(FlattenSeq(seqs), seqs, m, T)
  <2>1. m \in {1, 3, 4} /\ \A i \in 1..Len(seqs) : Len(seqs[i]) = m
    BY <1>2, <1>5 DEF m
  <2> QED
    BY <1>5, <2>1, FlattenBlocks
<1>7. /\ ScalarRows(scenes) \in Seq(T) /\ Len(ScalarRows(scenes)) = 4 * n
      /\ \A i \in 1..n, j \in 1..4 : ScalarRows(scenes)[4 * (i - 1) + j] = seqs[i][j]
  BY <1>4, <1>5, <1>6 DEF InBlocks, m
<1>8. \A i \in 1..n, j \in 1..4 :
        ScalarRows(scenes)[4 * (i - 1) + j] = ScalarRow(scenes[i], PrimaryMetrics[j])
  <2> TAKE i \in 1..n, j \in 1..4
  <2>1. ScalarRows(scenes)[4 * (i - 1) + j] = seqs[i][j]
    BY <1>7
  <2>2. seqs[i] = Block(i)
    BY <1>5
  <2>3. Block(i)[j] = ScalarRow(scenes[i], PrimaryMetrics[j])
    BY <1>3
  <2> QED
    BY <2>1, <2>2, <2>3
<1> QED
  BY <1>7, <1>8 DEF n

HasKeys(keys, order) ==
  /\ \E T : keys \in Seq(T)
  /\ Len(keys) = 4 * Len(order)
  /\ \A i \in 1..Len(order), j \in 1..4 :
       keys[4 * (i - 1) + j]
         = [case |-> order[i].case, policy |-> order[i].policy, metric |-> PrimaryMetrics[j]]

\* The keys of a table, three to a case.
LEMMA KeysAre ==
  ASSUME NEW cases, NEW C, cases \in Seq(C)
  PROVE  HasKeys(KeysOf(cases), RunsOf(cases))
<1> DEFINE order == RunsOf(cases)
           n == Len(order)
           Key(i, j) == [case |-> order[i].case, policy |-> order[i].policy,
                         metric |-> PrimaryMetrics[j]]
           Block(i) == [j \in 1..Len(PrimaryMetrics) |-> Key(i, j)]
           T == {Key(i, j) : i \in 1..n, j \in 1..4}
           seqs == [i \in 1..n |-> Block(i)]
           m == 4
<1>1. n \in Nat
  <2>1. order \in Seq([case : C, policy : Policies])
    BY RunsAre
  <2> HIDE DEF order
  <2> QED
    BY <2>1
<1>2. KeysOf(cases) = FlattenSeq(seqs)
  BY DEF KeysOf
<1> HIDE DEF n, Key
<1>3. \A i \in 1..n : Block(i) \in Seq(T) /\ Len(Block(i)) = 4
  <2> TAKE i \in 1..n
  <2>1. \A j \in 1..4 : Key(i, j) \in T
    OBVIOUS
  <2>2. Len(PrimaryMetrics) = 4
    BY MetricsAre
  <2> HIDE DEF T
  <2> QED
    BY <2>1, <2>2
<1>4. \A i \in 1..n, j \in 1..4 : Block(i)[j] = Key(i, j)
  BY MetricsAre
<1>5. seqs \in Seq(Seq(T)) /\ Len(seqs) = n /\ \A i \in 1..n : seqs[i] = Block(i)
  <2> HIDE DEF Block, T
  <2> QED
    BY <1>1, <1>3
<1> HIDE DEF T, seqs, Block, m
<1>6. InBlocks(FlattenSeq(seqs), seqs, m, T)
  <2>1. m \in {1, 3, 4} /\ \A i \in 1..Len(seqs) : Len(seqs[i]) = m
    BY <1>3, <1>5 DEF m
  <2> QED
    BY <1>5, <2>1, FlattenBlocks
<1>7. /\ KeysOf(cases) \in Seq(T) /\ Len(KeysOf(cases)) = 4 * n
      /\ \A i \in 1..n, j \in 1..4 : KeysOf(cases)[4 * (i - 1) + j] = seqs[i][j]
  BY <1>2, <1>5, <1>6 DEF InBlocks, m
<1>8. \A i \in 1..n, j \in 1..4 : KeysOf(cases)[4 * (i - 1) + j] = Key(i, j)
  <2> TAKE i \in 1..n, j \in 1..4
  <2>1. KeysOf(cases)[4 * (i - 1) + j] = seqs[i][j]
    BY <1>7
  <2>2. seqs[i] = Block(i)
    BY <1>5
  <2> QED
    BY <1>4, <2>1, <2>2
<1> QED
  BY <1>7, <1>8 DEF n, Key, HasKeys

\* The table of the scenes of an order of runs has the keys of its cases.
LEMMA TableHasItsKeys ==
  ASSUME NEW scenes, NEW cases, NEW C, cases \in Seq(C), \E S : scenes \in Seq(S),
         InOrder(scenes, cases)
  PROVE  [i \in 1..Len(ScalarRows(scenes)) |-> KeyOf(ScalarRows(scenes)[i])] = KeysOf(cases)
<1> DEFINE order == RunsOf(cases)
           n == Len(scenes)
           table == ScalarRows(scenes)
           keys == KeysOf(cases)
<1>1. Len(order) = n
      /\ \A i \in 1..n : scenes[i].case = order[i].case /\ scenes[i].policy = order[i].policy
  BY DEF InOrder
<1>2. /\ \E T : table \in Seq(T)
      /\ Len(table) = 4 * n
      /\ \A i \in 1..n, j \in 1..4 : table[4 * (i - 1) + j] = ScalarRow(scenes[i], PrimaryMetrics[j])
  BY ScalarRowsAre
<1> HIDE DEF order
<1>3. /\ \E T : keys \in Seq(T)
      /\ Len(keys) = 4 * n
      /\ \A i \in 1..n, j \in 1..4 :
           keys[4 * (i - 1) + j] = [case |-> order[i].case, policy |-> order[i].policy,
                                    metric |-> PrimaryMetrics[j]]
  <2>1. HasKeys(keys, order)
    BY KeysAre DEF order
  <2> QED
    BY <1>1, <2>1 DEF HasKeys
<1>4. n \in Nat
  OBVIOUS
<1> HIDE DEF n, table, keys
<1>5. ASSUME NEW x \in 1..(4 * n)
      PROVE  KeyOf(table[x]) = keys[x]
  <2>1. PICK i \in 1..n, j \in 1..4 : x = 4 * (i - 1) + j
    BY <1>4, PlaceInFour
  <2>2. table[x] = ScalarRow(scenes[i], PrimaryMetrics[j])
    BY <1>2, <2>1
  <2>3. keys[x] = [case |-> order[i].case, policy |-> order[i].policy, metric |-> PrimaryMetrics[j]]
    BY <1>3, <2>1
  <2>4. KeyOf(table[x]) = [case |-> scenes[i].case, policy |-> scenes[i].policy,
                           metric |-> PrimaryMetrics[j]]
    BY <2>2 DEF KeyOf, ScalarRow
  <2> QED
    BY <1>1, <2>3, <2>4
<1>6. [x \in 1..Len(table) |-> KeyOf(table[x])] = [x \in 1..(4 * n) |-> keys[x]]
  BY <1>2, <1>5
<1>7. PICK T : keys \in Seq(T)
  BY <1>3
<1>8. keys = [x \in 1..(4 * n) |-> keys[x]]
  BY <1>3, <1>7
<1> QED
  BY <1>6, <1>8 DEF table, keys

-----------------------------------------------------------------------------
(* The observations *)

ObservationOf(gate, c, policy) ==
  [gate |-> gate, case |-> c, policy |-> policy, violation |-> ~Passed(gate, c, policy)]

\* The observations of a gate, for every case and every policy of it.
LEMMA ObservationsAre ==
  ASSUME NEW C, NEW cases \in Seq(C), NEW g, NEW m \in {1, 3}, Len(g.policies) = m, NEW T,
         \A i \in 1..Len(cases), j \in 1..m : ObservationOf(g.gate, cases[i], g.policies[j]) \in T
  PROVE  Observations(g, cases) \in Seq(T) /\ Len(Observations(g, cases)) = m * Len(cases)
<1> DEFINE n == Len(cases)
           Block(i) == [j \in 1..Len(g.policies) |->
                          ObservationOf(g.gate, cases[i], g.policies[j])]
           seqs == [i \in 1..n |-> Block(i)]
<1>1. n \in Nat
  OBVIOUS
<1>2. Observations(g, cases) = FlattenSeq(seqs)
  BY DEF Observations, ObservationOf
<1> HIDE DEF n
<1>3. ASSUME NEW i \in 1..n PROVE Block(i) \in Seq(T) /\ Len(Block(i)) = m
  <2> DEFINE part == [j \in 1..m |-> ObservationOf(g.gate, cases[i], g.policies[j])]
  <2>1. \A j \in 1..m : ObservationOf(g.gate, cases[i], g.policies[j]) \in T
    BY DEF n
  <2>2. part \in Seq(T) /\ Len(part) = m
    BY <2>1
  <2> QED
    BY <2>2
<1>4. seqs \in Seq(Seq(T)) /\ Len(seqs) = n /\ \A i \in 1..n : Len(seqs[i]) = m
  <2> HIDE DEF Block
  <2> QED
    BY <1>1, <1>3
<1> HIDE DEF seqs
<1>5. InBlocks(FlattenSeq(seqs), seqs, m, T)
  <2>1. m \in {1, 3, 4} /\ \A i \in 1..Len(seqs) : Len(seqs[i]) = m
    BY <1>4
  <2> QED
    BY <1>4, <2>1, FlattenBlocks
<1> QED
  BY <1>2, <1>4, <1>5 DEF InBlocks, n

CasesOf(x) == IF NegativeGates[x].gate = "nested_doses" THEN SevereCases ELSE EligibleCases

\* The six negative gates, their policies and their cases.
LEMMA GatesAre ==
  /\ Len(NegativeGates) = 6
  /\ Len(NegativeGates[1].policies) = 1 /\ Len(NegativeGates[2].policies) = 1
  /\ Len(NegativeGates[3].policies) = 3 /\ Len(NegativeGates[4].policies) = 3
  /\ Len(NegativeGates[5].policies) = 1 /\ Len(NegativeGates[6].policies) = 1
  /\ \A x \in 1..5 : CasesOf(x) = EligibleCases
  /\ CasesOf(6) = SevereCases
<1>1. /\ NegativeGates[1] = [gate |-> "world_equality", policies |-> <<"log_replay">>]
      /\ NegativeGates[2] = [gate |-> "world_equality", policies |-> <<"constant_velocity">>]
      /\ NegativeGates[3] = [gate |-> "sham_equality", policies |-> PolicyOrder]
      /\ NegativeGates[4] = [gate |-> "response_floor", policies |-> PolicyOrder]
      /\ NegativeGates[5] = [gate |-> "plan_feasibility", policies |-> <<"none">>]
      /\ NegativeGates[6] = [gate |-> "nested_doses", policies |-> <<"none">>]
      /\ Len(NegativeGates) = 6
  BY DEF NegativeGates
<1>2. \A x \in 1..5 : x = 1 \/ x = 2 \/ x = 3 \/ x = 4 \/ x = 5
  OBVIOUS
<1> QED
  BY <1>1, <1>2, PolicyOrderIs DEF CasesOf

ObservedIn(T) ==
  \A x \in 1..6 : \A i \in 1..Len(CasesOf(x)), j \in 1..Len(NegativeGates[x].policies) :
    ObservationOf(NegativeGates[x].gate, CasesOf(x)[i], NegativeGates[x].policies[j]) \in T

\* Two, after one, of the sequences that are put together.
LEMMA OneMore ==
  ASSUME NEW T, NEW seqs \in Seq(Seq(T)), NEW F \in [1..Len(seqs) -> Seq(T)],
         \A i \in 2..Len(seqs) : F[i] = F[i - 1] \o seqs[i],
         NEW j \in 1..(Len(seqs) - 1), NEW i, i = j + 1
  PROVE  Len(F[i]) = Len(F[j]) + Len(seqs[i])
<1> DEFINE a == F[j]
           b == seqs[i]
<1>1. i \in 1..Len(seqs) /\ i \in 2..Len(seqs) /\ j \in 1..Len(seqs) /\ i - 1 = j
  OBVIOUS
<1>2. a \in Seq(T) /\ b \in Seq(T)
  BY <1>1, MemberOf
<1>3. F[i] = a \o b
  BY <1>1
<1> HIDE DEF a, b
<1>4. Len(a \o b) = Len(a) + Len(b)
  BY <1>2, Joined
<1> QED
  BY <1>3, <1>4 DEF a, b

\* The length of six sequences put end to end.
LEMMA FlattenSix ==
  ASSUME NEW T, NEW seqs \in Seq(Seq(T)), Len(seqs) = 6
  PROVE  /\ FlattenSeq(seqs) \in Seq(T)
         /\ Len(FlattenSeq(seqs)) = Len(seqs[1]) + Len(seqs[2]) + Len(seqs[3]) + Len(seqs[4])
                                    + Len(seqs[5]) + Len(seqs[6])
<1>1. PICK F : /\ F \in [1..Len(seqs) -> Seq(T)] /\ F[1] = seqs[1]
               /\ \A i \in 2..Len(seqs) : F[i] = F[i - 1] \o seqs[i]
               /\ FlattenSeq(seqs) = F[Len(seqs)]
  <2>1. Len(seqs) # 0
    OBVIOUS
  <2> QED
    BY <2>1, FlattenSteps
<1>2. \A j \in 1..5 : \A i : i = j + 1 => Len(F[i]) = Len(F[j]) + Len(seqs[i])
  <2> TAKE j \in 1..5
  <2> TAKE i
  <2> HAVE i = j + 1
  <2>1. j \in 1..(Len(seqs) - 1)
    OBVIOUS
  <2>2. F \in [1..Len(seqs) -> Seq(T)]
    BY <1>1
  <2>3. \A x \in 2..Len(seqs) : F[x] = F[x - 1] \o seqs[x]
    BY <1>1, Zenon
  <2> QED
    BY <2>1, <2>2, <2>3, OneMore
<1>3. \A i \in 1..6 : F[i] \in Seq(T)
  BY <1>1
<1>4. \A i \in 1..6 : Len(F[i]) \in Nat /\ Len(seqs[i]) \in Nat
  <2> TAKE i \in 1..6
  <2> DEFINE a == F[i]
             b == seqs[i]
  <2>1. a \in Seq(T) /\ b \in Seq(T)
    BY <1>3, MemberOf
  <2> HIDE DEF a, b
  <2>2. Len(a) \in Nat /\ Len(b) \in Nat
    BY <2>1
  <2> QED
    BY <2>2 DEF a, b
<1>5. Len(F[2]) = Len(F[1]) + Len(seqs[2])
  BY <1>2
<1>6. Len(F[3]) = Len(F[2]) + Len(seqs[3])
  BY <1>2
<1>7. Len(F[4]) = Len(F[3]) + Len(seqs[4])
  BY <1>2
<1>8. Len(F[5]) = Len(F[4]) + Len(seqs[5])
  BY <1>2
<1>9. Len(F[6]) = Len(F[5]) + Len(seqs[6])
  BY <1>2
<1> QED
  BY <1>1, <1>3, <1>4, <1>5, <1>6, <1>7, <1>8, <1>9

\* The negative rows are observations, as many as the document says.
LEMMA NegativeRowsAre ==
  ASSUME NEW C, EligibleCases \in Seq(C), SevereCases \in Seq(C), NEW T, ObservedIn(T)
  PROVE  NegativeRows \in Seq(T) /\ NegativeRowsHold
<1> DEFINE part(x) == Observations(NegativeGates[x], CasesOf(x))
           seqs == [x \in 1..Len(NegativeGates) |-> part(x)]
           n == Len(EligibleCases)
           k == Len(SevereCases)
           counts(x) == Len(NegativeGates[x].policies)
<1>1. ASSUME NEW x \in 1..6
      PROVE  part(x) \in Seq(T) /\ Len(part(x)) = counts(x) * Len(CasesOf(x))
  <2> DEFINE g == NegativeGates[x]
             cases == CasesOf(x)
             m == counts(x)
  <2>1. m \in {1, 3} /\ cases \in Seq(C)
    <3>1. x = 1 \/ x = 2 \/ x = 3 \/ x = 4 \/ x = 5 \/ x = 6
      OBVIOUS
    <3> QED
      BY <3>1, GatesAre DEF CasesOf
  <2>2. \A i \in 1..Len(cases), j \in 1..m : ObservationOf(g.gate, cases[i], g.policies[j]) \in T
    BY DEF ObservedIn
  <2>3. Len(g.policies) = m
    OBVIOUS
  <2> HIDE DEF g, cases, m
  <2>4. Observations(g, cases) \in Seq(T) /\ Len(Observations(g, cases)) = m * Len(cases)
    BY <2>1, <2>2, <2>3, ObservationsAre
  <2> QED
    BY <2>4 DEF g, cases, m
<1>2. NegativeRows = FlattenSeq(seqs)
  BY DEF NegativeRows, CasesOf
<1>3. /\ counts(1) = 1 /\ counts(2) = 1 /\ counts(3) = 3 /\ counts(4) = 3 /\ counts(5) = 1
      /\ counts(6) = 1 /\ Len(CasesOf(6)) = k /\ \A x \in 1..5 : Len(CasesOf(x)) = n
  BY GatesAre
<1>4. n \in Nat /\ k \in Nat
  OBVIOUS
<1> HIDE DEF part, n, k, counts
<1>5. seqs \in Seq(Seq(T)) /\ Len(seqs) = 6 /\ \A x \in 1..6 : seqs[x] = part(x)
  BY <1>1, GatesAre
<1>6. /\ Len(seqs[1]) = n /\ Len(seqs[2]) = n /\ Len(seqs[3]) = 3 * n /\ Len(seqs[4]) = 3 * n
      /\ Len(seqs[5]) = n /\ Len(seqs[6]) = k
  <2> HIDE DEF seqs
  <2>1. ASSUME NEW x \in 1..6 PROVE Len(seqs[x]) = counts(x) * Len(CasesOf(x))
    BY <1>1, <1>5
  <2>2. 1 \in 1..6 /\ 2 \in 1..6 /\ 3 \in 1..6 /\ 4 \in 1..6 /\ 5 \in 1..6 /\ 6 \in 1..6
    OBVIOUS
  <2>3. /\ Len(seqs[1]) = counts(1) * n /\ Len(seqs[2]) = counts(2) * n
        /\ Len(seqs[3]) = counts(3) * n /\ Len(seqs[4]) = counts(4) * n
        /\ Len(seqs[5]) = counts(5) * n /\ Len(seqs[6]) = counts(6) * k
    <3>1. Len(CasesOf(6)) = k /\ \A x \in 1..5 : Len(CasesOf(x)) = n
      BY <1>3
    <3>2. 1 \in 1..5 /\ 2 \in 1..5 /\ 3 \in 1..5 /\ 4 \in 1..5 /\ 5 \in 1..5
      OBVIOUS
    <3> QED
      BY <2>1, <2>2, <3>1, <3>2, Zenon
  <2>4. 1 * n = n /\ 1 * k = k
    BY <1>4
  <2>5. /\ counts(1) = 1 /\ counts(2) = 1 /\ counts(3) = 3 /\ counts(4) = 3 /\ counts(5) = 1
        /\ counts(6) = 1
    BY <1>3
  <2> HIDE DEF counts
  <2> QED
    BY <2>3, <2>4, <2>5, Zenon
<1> HIDE DEF seqs
<1>7. /\ FlattenSeq(seqs) \in Seq(T)
      /\ Len(FlattenSeq(seqs)) = Len(seqs[1]) + Len(seqs[2]) + Len(seqs[3]) + Len(seqs[4])
                                 + Len(seqs[5]) + Len(seqs[6])
  BY <1>5, FlattenSix
<1>10. Len(NegativeRows) = 9 * n + k
  BY <1>2, <1>4, <1>6, <1>7
<1>11. NegativeRows \in Seq(T)
  BY <1>2, <1>7
<1> QED
  BY <1>10, <1>11 DEF NegativeRowsHold, n, k

\* There are as many negative rows as the document says.
LEMMA NegativeRowsCount ==
  ASSUME NEW C, EligibleCases \in Seq(C), SevereCases \in Seq(C)
  PROVE  NegativeRowsHold
<1> DEFINE Of(x) == {ObservationOf(NegativeGates[x].gate, CasesOf(x)[i], NegativeGates[x].policies[j]) :
                       i \in 1..Len(CasesOf(x)), j \in 1..Len(NegativeGates[x].policies)}
           T == UNION {Of(x) : x \in 1..6}
<1>1. ASSUME NEW x \in 1..6, NEW i \in 1..Len(CasesOf(x)),
             NEW j \in 1..Len(NegativeGates[x].policies)
      PROVE  ObservationOf(NegativeGates[x].gate, CasesOf(x)[i], NegativeGates[x].policies[j]) \in T
  <2>1. ObservationOf(NegativeGates[x].gate, CasesOf(x)[i], NegativeGates[x].policies[j]) \in Of(x)
    OBVIOUS
  <2> HIDE DEF Of
  <2> QED
    BY <2>1
<1> HIDE DEF T
<1>2. ObservedIn(T)
  BY <1>1 DEF ObservedIn
<1> QED
  BY <1>2, NegativeRowsAre

-----------------------------------------------------------------------------
(* The tables are issued *)

\* The cases of a result are the eligible ones, and the severe among them.
LEMMA CasesOfResult ==
  /\ EligibleCases \in Seq(Cases) /\ SevereCases \in Seq(Cases)
  /\ Range(EligibleCases) = {c \in Cases : Eligible(source[c])}
  /\ Range(SevereCases) = {c \in Cases : Eligible(source[c]) /\ SevereFeasible(source[c])}
<1>1. EligibleCases = EligibleIn(source) /\ SevereCases = SevereIn(source)
  BY DEF EligibleCases, SevereCases, EligibleIn, SevereIn
<1> QED
  BY <1>1, CasesListed

\* The severe cases are those the eligibility table says yes to.
LEMMA SevereOfTheTable ==
  ASSUME severe = Range(SevereCases)
  PROVE  severe = {row.case : row \in {r \in Range(EligibilityRows) : r.severe = "yes"}}
<1>1. \A c : EligibilityRow(c).case = c
  BY DEF EligibilityRow
<1>2. \A c \in Cases : EligibilityRow(c).severe = "yes"
                         <=> Eligible(source[c]) /\ SevereFeasible(source[c])
  BY CasesOfResult DEF EligibilityRow
<1>3. Range(EligibilityRows) = {EligibilityRow(c) : c \in Cases}
  <2> DEFINE order == CaseOrder
             n == Len(order)
  <2>1. order \in Seq(Cases) /\ \A c \in Cases : \E i \in 1..n : order[i] = c
    BY CaseOrderIs
  <2>2. \A i \in 1..n : order[i] \in Cases
    BY <2>1, MemberOf
  <2>3. EligibilityRows = [i \in 1..n |-> EligibilityRow(order[i])]
    BY DEF EligibilityRows
  <2>4. Range(EligibilityRows) = {EligibilityRow(order[i]) : i \in 1..n}
    BY <2>3 DEF Range
  <2> HIDE DEF order, n
  <2> QED
    BY <2>1, <2>2, <2>4
<1>4. severe = {c \in Cases : Eligible(source[c]) /\ SevereFeasible(source[c])}
  BY CasesOfResult
<1> QED
  BY <1>1, <1>2, <1>3, <1>4

\* Issuing the rows changes nothing, and what it asks for is there.
LEMMA IssueIsSafe ==
  ASSUME EvaluationInv, IssueRows
  PROVE  EvaluationInv' /\ UNCHANGED vars
<1> USE DEF EvaluationInv
<1>1. /\ UNCHANGED <<callerVars, caseVars, planVars, condition, run, products, resultVars>>
      /\ stage = "published" /\ stage \in Planned \ Working
  BY DEF IssueRows, Planned, Working
<1>2. ResultHolds
  BY <1>1, ResultOf
<1>3. severe = {row.case : row \in {r \in Range(EligibilityRows) : r.severe = "yes"}}
  BY <1>2, SevereOfTheTable DEF ResultHolds
<1>4. /\ ScenesAre(OrderIn(source), source, severe, rows, severeRows)
      /\ Len(rows) = Len(OrderIn(source))
      /\ \E S : rows \in Seq(S)
      /\ \E S : severeRows \in Seq(S)
  BY <1>1, RowsDone DEF ScenesAre
<1>5. \A scene \in Range(rows) \union Range(severeRows) :
        scene.primary = PrimaryResults(scene.baseline.frames, scene.treated.frames, scene.target)
  <2>1. \A i \in 1..Len(rows) :
          rows[i].primary = PrimaryResults(rows[i].baseline.frames, rows[i].treated.frames,
                                           rows[i].target)
    BY <1>4 DEF ScenesAre, SceneIs
  <2>2. \A j \in 1..Len(severeRows) :
          severeRows[j].primary = PrimaryResults(severeRows[j].baseline.frames,
                                                 severeRows[j].treated.frames,
                                                 severeRows[j].target)
    BY <1>4 DEF ScenesAre, SceneIs
  <2>3. DOMAIN rows = 1..Len(rows) /\ DOMAIN severeRows = 1..Len(severeRows)
    BY <1>4
  <2> QED
    BY <2>1, <2>2, <2>3 DEF Range
<1>6. ScalarRowsHold(rows, EligibleCases) /\ ScalarRowsHold(severeRows, SevereCases)
  BY <1>1, <1>4, <1>5, RowsAreInOrder, TableHasItsKeys, CasesOfResult DEF ScalarRowsHold
<1>7. NegativeRowsHold
  BY NegativeRowsCount, CasesOfResult
<1>8. UNCHANGED stage
  BY <1>2, <1>3, <1>6, <1>7 DEF IssueRows
<1>9. UNCHANGED vars
  BY <1>1, <1>8 DEF vars
<1> QED
  BY <1>9, EvaluationStutters

\* Whatever the caller changes, the runs under way and the runs kept are what the
\* engine makes of the snapshots, in the order of the cases and the policies, and
\* the variables have their types.
THEOREM TypesAndRunsHold == OfficialSpec => []EvaluationInv
<1>1. OfficialInit => EvaluationInv
  BY EvaluationBegins DEF OfficialInit
<1>2. EvaluationInv /\ [OfficialNext]_officialVars => EvaluationInv'
  <2> SUFFICES ASSUME EvaluationInv, [OfficialNext]_officialVars PROVE EvaluationInv'
    OBVIOUS
  <2>1. CASE Next
    BY <2>1, EvaluationStep
  <2>2. CASE IssueRows
    BY <2>2, IssueIsSafe
  <2>3. CASE UNCHANGED officialVars
    BY <2>3, EvaluationStutters DEF officialVars
  <2> QED
    BY <2>1, <2>2, <2>3 DEF OfficialNext
<1> QED
  BY <1>1, <1>2, PTL DEF OfficialSpec

\* The gates refuse no run that the engine made of its source: an evaluation fails
\* only when the caller changed a case, or when the ego of an eligible one does not
\* stay to the end of the log, which the run without a plan needs.
THEOREM GatesRefuseNoHonestRunTheorem == OfficialSpec => []GatesRefuseNoHonestRun
<1>1. EvaluationInv => GatesRefuseNoHonestRun
  BY DEF EvaluationInv
<1> QED
  BY <1>1, TypesAndRunsHold, PTL

\* In every rollout, finished or under way, an agent that comes into the scene, or
\* is replayed, is where the log has it, and any other has moved within the limits
\* of the dynamics.
THEOREM SegmentsStartFromTheLogTheorem == OfficialSpec => []SegmentsStartFromTheLog
<1>1. EvaluationInv => SegmentsStartFromTheLog
  BY InvariantSegments
<1> QED
  BY <1>1, TypesAndRunsHold, PTL

-----------------------------------------------------------------------------
(* Rows, and the scenarios the caller has *)

\* The last comparison has found what it has passed to be what the caller has.
ComparedHold ==
  /\ stage = "compare_result" =>
       \A c \in Cases \ late :
         (\E i \in 1..Len(todo) : todo[i] = c) \/ caller[c] = source[c]
  /\ stage = "published" => \A c \in Cases \ late : caller[c] = source[c]

\* What a step leaves of a list that it has taken the first of.
LEMMA TailKeeps ==
  ASSUME NEW T, NEW s \in Seq(T), Len(s) # 0, NEW c, NEW i \in 1..Len(s), s[i] = c
  PROVE  c = Head(s) \/ (Len(s) # 1 /\ \E j \in 1..Len(Tail(s)) : Tail(s)[j] = c)
<1>1. CASE i = 1
  BY <1>1
<1>2. CASE i # 1
  <2>1. Len(Tail(s)) = Len(s) - 1 /\ i - 1 \in 1..Len(Tail(s)) /\ Tail(s)[i - 1] = s[i]
    BY <1>2
  <2>2. Len(s) # 1
    BY <1>2
  <2> QED
    BY <2>1, <2>2
<1> QED
  BY <1>1, <1>2

\* Every step of the evaluation keeps what the last comparison has found.
LEMMA ComparedStep ==
  ASSUME EvaluationInv, ComparedHold, Next
  PROVE  ComparedHold'
<1> USE DEF EvaluationInv
<1>1. CASE CompareCase
  <2>1. /\ UNCHANGED <<caller, late, source>> /\ todo' = Tail(todo)
        /\ todo \in Seq(Cases) /\ Len(todo) # 0
    BY <1>1 DEF CompareCase, callerVars, TodoHolds, CopiesHold
  <2>2. CASE stage = "compare_result"
    <3>1. \A c \in Cases \ late : c = Head(todo) \/ caller[c] = source[c]
                 \/ (Len(todo) # 1 /\ \E j \in 1..Len(Tail(todo)) : Tail(todo)[j] = c)
      BY <2>1, <2>2, TailKeeps DEF ComparedHold
    <3>2. stage' # "failed" => caller[Head(todo)] = source[Head(todo)]
      BY <1>1 DEF CompareCase, SameAsCaller
    <3>3. stage' = "published" => Len(todo) = 1
      BY <1>1, <2>2 DEF CompareCase
    <3> QED
      BY <2>1, <3>1, <3>2, <3>3 DEF ComparedHold
  <2>3. CASE stage # "compare_result"
    <3>1. stage' \notin {"compare_result", "published"}
      BY <1>1, <2>3 DEF CompareCase, Compared
    <3> QED
      BY <3>1 DEF ComparedHold
  <2> QED
    BY <2>2, <2>3
<1>2. CASE BuildResult
  <2>1. stage' # "failed" => stage' = "compare_result" /\ todo' = CaseOrder
    BY <1>2 DEF BuildResult
  <2>2. stage' # "published"
    BY <1>2 DEF BuildResult
  <2> QED
    BY <2>1, <2>2, CaseOrderIs DEF ComparedHold
<1>3. ASSUME NEW c \in Cases, CallerChanges(c) PROVE ComparedHold'
  <2>1. /\ UNCHANGED <<source, todo, stage>> /\ stage # "published"
        /\ late' = IF stage = "compare_result" THEN late \union {c} ELSE late
        /\ \E s : caller' = [caller EXCEPT ![c] = s]
    BY <1>3 DEF CallerChanges, Ended, caseVars
  <2>2. \A d \in Cases \ {c} : caller'[d] = caller[d]
    BY <2>1 DEF TypesHold
  <2> QED
    BY <2>1, <2>2 DEF ComparedHold
<1>4. ASSUME stage' \notin {"compare_result", "published"} PROVE ComparedHold'
  BY <1>4 DEF ComparedHold
<1>5. CASE CopyCase
  BY <1>4, <1>5 DEF CopyCase
<1>6. CASE Classify
  BY <1>4, <1>6 DEF Classify
<1>7. CASE StartRun
  BY <1>4, <1>7 DEF StartRun
<1>8. CASE Transition
  <2>1. stage' \in {"running", "failed"}
    BY <1>8 DEF Transition
  <2> QED
    BY <1>4, <2>1
<1>9. CASE BindTrace
  BY <1>4, <1>9 DEF BindTrace
<1>10. CASE PassGate
  BY <1>4, <1>10 DEF PassGate
<1>11. CASE Analyse
  <2>1. stage' \in {"statistics", "ready", "failed"}
    BY <1>11 DEF Analyse
  <2> QED
    BY <1>4, <2>1
<1>12. CASE AnalyseMatrix
  BY <1>4, <1>12 DEF AnalyseMatrix
<1> QED
  BY <1>1, <1>2, <1>3, <1>5, <1>6, <1>7, <1>8, <1>9, <1>10, <1>11, <1>12 DEF Next, Evaluate

\* Where a run of an order is.
LEMMA RunAt ==
  ASSUME NEW C, NEW cases \in Seq(C), NEW x \in 1..Len(RunsOf(cases))
  PROVE  \E i \in 1..Len(cases), p \in 1..3 :
           /\ x = 3 * (i - 1) + p
           /\ RunsOf(cases)[x] = [case |-> cases[i], policy |-> PolicyOrder[p]]
<1> DEFINE runs == RunsOf(cases)
<1>1. /\ runs \in Seq([case : C, policy : Policies])
      /\ Len(runs) = 3 * Len(cases)
      /\ \A i \in 1..Len(cases), p \in 1..3 :
           runs[3 * (i - 1) + p] = [case |-> cases[i], policy |-> PolicyOrder[p]]
  BY RunsAre, Zenon
<1>2. x \in 1..Len(runs)
  OBVIOUS
<1>3. PICK i \in 1..Len(cases), p \in 1..3 : x = 3 * (i - 1) + p
  <2> DEFINE n == Len(cases)
  <2> HIDE DEF runs
  <2>1. n \in Nat /\ x \in 1..(3 * n)
    BY <1>1, <1>2
  <2> HIDE DEF n
  <2>2. \E i \in 1..n, p \in 1..3 : x = 3 * (i - 1) + p
    BY <2>1, PlaceInThree
  <2> QED
    BY <2>2 DEF n
<1>4. runs[x] = [case |-> cases[i], policy |-> PolicyOrder[p]]
  <2> HIDE DEF runs
  <2> QED
    BY <1>1, <1>3
<1> QED
  BY <1>3, <1>4

\* The run of a case and a policy is in an order once if the case is.
LEMMA RunPlaced ==
  ASSUME NEW C, NEW cases \in Seq(C),
         \A i, j \in 1..Len(cases) : cases[i] = cases[j] => i = j,
         NEW x \in 1..Len(RunsOf(cases)), NEW y \in 1..Len(RunsOf(cases)),
         RunsOf(cases)[x].case = RunsOf(cases)[y].case,
         RunsOf(cases)[x].policy = RunsOf(cases)[y].policy
  PROVE  x = y
<1>1. PICK i \in 1..Len(cases), p \in 1..3 :
        /\ x = 3 * (i - 1) + p
        /\ RunsOf(cases)[x] = [case |-> cases[i], policy |-> PolicyOrder[p]]
  BY RunAt
<1>2. PICK j \in 1..Len(cases), q \in 1..3 :
        /\ y = 3 * (j - 1) + q
        /\ RunsOf(cases)[y] = [case |-> cases[j], policy |-> PolicyOrder[q]]
  BY RunAt
<1>3. cases[i] = cases[j] /\ PolicyOrder[p] = PolicyOrder[q]
  BY <1>1, <1>2
<1>4. i = j /\ p = q
  BY <1>3, PolicyOrderIs
<1> QED
  BY <1>1, <1>2, <1>4

-----------------------------------------------------------------------------
\* The rows of a case and a policy.
Under(results, c, p) == {r \in Range(results) : r.case = c /\ r.policy = p}

\* In a table in the order of its runs no two rows are of one case and one policy.
LEMMA RowsDiffer ==
  ASSUME NEW S, NEW results \in Seq(S), NEW C, NEW cases \in Seq(C),
         \A i, j \in 1..Len(cases) : cases[i] = cases[j] => i = j,
         InOrder(results, cases),
         NEW x \in 1..Len(results), NEW y \in 1..Len(results),
         results[x].case = results[y].case, results[x].policy = results[y].policy
  PROVE  x = y
<1> DEFINE order == RunsOf(cases)
<1>1. /\ Len(results) = Len(order)
      /\ \A i \in 1..Len(order) :
           results[i].case = order[i].case /\ results[i].policy = order[i].policy
  BY DEF InOrder
<1>2. x \in 1..Len(order) /\ y \in 1..Len(order)
  BY <1>1
<1>3. order[x].case = order[y].case /\ order[x].policy = order[y].policy
  BY <1>1, <1>2
<1> QED
  BY <1>2, <1>3, RunPlaced

\* So it has as many rows as places,
LEMMA RowsCounted ==
  ASSUME NEW S, NEW results \in Seq(S), NEW C, NEW cases \in Seq(C),
         \A i, j \in 1..Len(cases) : cases[i] = cases[j] => i = j,
         InOrder(results, cases)
  PROVE  Len(results) = Cardinality(Range(results))
<1> DEFINE n == Len(results)
           D == 1..n
           T == Range(results)
<1>1. n \in Nat /\ results \in [D -> T]
  BY DEF Range
<1>2. \A z \in T : \E x \in D : results[x] = z
  BY <1>1 DEF Range
<1>3. \A x, y \in D : results[x] = results[y] => x = y
  BY RowsDiffer
<1>4. IsFiniteSet(D) /\ Cardinality(D) = n
  <2> HIDE DEF n
  <2>1. n \in Nat
    BY <1>1
  <2>2. /\ IsFiniteSet(1..n)
        /\ Cardinality(1..n) = IF 1 > n THEN 0 ELSE n - 1 + 1
    BY <2>1, FS_Interval
  <2> QED
    BY <2>1, <2>2
<1> HIDE DEF D, T, n
<1>5. Cardinality(T) = Cardinality(D)
  BY <1>1, <1>2, <1>3, <1>4, ListedOnce
<1> QED
  BY <1>4, <1>5 DEF n, T

\* and one for every policy of a case it is about.
LEMMA RowsUnder ==
  ASSUME NEW S, NEW results \in Seq(S), NEW C, NEW cases \in Seq(C),
         \A i, j \in 1..Len(cases) : cases[i] = cases[j] => i = j,
         InOrder(results, cases), NEW c, NEW policy \in Policies
  PROVE  Cardinality(Under(results, c, policy)) = IF c \in Range(cases) THEN 1 ELSE 0
<1> DEFINE order == RunsOf(cases)
<1>1. /\ Len(results) = Len(order)
      /\ \A i \in 1..Len(order) :
           results[i].case = order[i].case /\ results[i].policy = order[i].policy
  BY DEF InOrder
<1>2. CASE c \in Range(cases)
  <2>1. PICK q \in 1..Len(cases) : cases[q] = c
    BY <1>2 DEF Range
  <2>2. PICK p \in 1..3 : PolicyOrder[p] = policy
    BY PolicyOrderIs
  <2> DEFINE x == 3 * (q - 1) + p
  <2>3. /\ order \in Seq([case : C, policy : Policies])
        /\ Len(order) = 3 * Len(cases)
        /\ \A i \in 1..Len(cases), j \in 1..3 :
             order[3 * (i - 1) + j] = [case |-> cases[i], policy |-> PolicyOrder[j]]
    BY RunsAre, Zenon
  <2>4. x \in 1..Len(order) /\ order[x] = [case |-> c, policy |-> policy]
    <3> HIDE DEF order
    <3>1. order[x] = [case |-> cases[q], policy |-> PolicyOrder[p]]
      BY <2>3
    <3>2. x \in 1..(3 * Len(cases))
      OBVIOUS
    <3> QED
      BY <2>1, <2>2, <2>3, <3>1, <3>2
  <2> HIDE DEF x
  <2>5. results[x].case = c /\ results[x].policy = policy /\ x \in 1..Len(results)
    BY <1>1, <2>4
  <2>6. ASSUME NEW r \in Under(results, c, policy) PROVE r = results[x]
    <3>1. PICK y \in 1..Len(results) : results[y] = r
      BY <2>6 DEF Under, Range
    <3>2. results[y].case = results[x].case /\ results[y].policy = results[x].policy
      BY <2>5, <2>6, <3>1 DEF Under
    <3> QED
      BY <2>5, <3>1, <3>2, RowsDiffer
  <2>7. Under(results, c, policy) = {results[x]}
    BY <2>5, <2>6 DEF Under, Range
  <2> QED
    BY <1>2, <2>7, FS_Singleton
<1>3. CASE c \notin Range(cases)
  <2>1. ASSUME NEW r \in Under(results, c, policy) PROVE FALSE
    <3>1. PICK y \in 1..Len(results) : results[y] = r
      BY <2>1 DEF Under, Range
    <3>2. y \in 1..Len(order)
      BY <1>1
    <3>3. PICK i \in 1..Len(cases), p \in 1..3 :
            /\ y = 3 * (i - 1) + p
            /\ order[y] = [case |-> cases[i], policy |-> PolicyOrder[p]]
      BY <3>2, RunAt
    <3>4. cases[i] = c
      <4>1. order[y].case = cases[i]
        BY <3>3
      <4> HIDE DEF order
      <4> QED
        BY <1>1, <2>1, <3>1, <3>2, <4>1 DEF Under
    <3> QED
      BY <1>3, <3>4 DEF Range
  <2>2. Under(results, c, policy) = {}
    BY <2>1
  <2> QED
    BY <1>3, <2>2, FS_EmptySet
<1> QED
  BY <1>2, <1>3

-----------------------------------------------------------------------------
\* The lists of cases list each once.
LEMMA ListsDiffer ==
  /\ \A i, j \in 1..Len(EligibleCases) : EligibleCases[i] = EligibleCases[j] => i = j
  /\ \A i, j \in 1..Len(SevereCases) : SevereCases[i] = SevereCases[j] => i = j
<1> DEFINE E == {c \in Cases : Eligible(source[c])}
           H == {c \in Cases : Eligible(source[c]) /\ SevereFeasible(source[c])}
<1>1. E \in SUBSET Int /\ IsFiniteSet(E) /\ H \in SUBSET Int /\ IsFiniteSet(H)
  BY EligibleFinite
<1>2. EligibleCases = Ascending(E) /\ SevereCases = Ascending(H)
  BY DEF EligibleCases, SevereCases
<1> HIDE DEF E, H
<1> QED
  BY <1>1, <1>2, AscendingIs

\* Where the ego of a baseline is replayed, so is its target: under log replay the
\* target ends where the log does.
LEMMA ReplayedTarget ==
  ASSUME NEW log \in Logs, Targets(log) # {}, NEW r,
         Executed(r, "log_replay", log, "identity", Stop)
  PROVE  r.frames[Stop][Target(log)] = log[Stop][Target(log)]
<1> DEFINE a == Target(log)
<1>1. a \in World /\ a \in Targets(log)
  BY TargetIs
<1>2. log[Stop][a].valid
  <2>1. Stop \in Frames
    BY Horizon DEF Frames
  <2> QED
    BY <1>1, <2>1 DEF Targets, StableFollowers
<1>3. "log_replay" \in Policies /\ "log_replay" \in Privileged
  BY DEF Policies, Privileged
<1>4. "identity" \in Conditions /\ Stop \in Current..StopOf("identity")
  BY Horizon DEF Conditions, StopOf
<1>5. Stop \in 0..Stop /\ Stop \in (0..Stop) \ {0} /\ a \in Agents
  BY <1>1, Horizon DEF Agents
<1> HIDE DEF a
<1>6. r.frames[Stop][a].valid
  BY <1>2, <1>3, <1>4, <1>5, ExecutedValid
<1>7. IF r.frames[Stop - 1][a].valid /\ Stop > Current /\ "log_replay" \notin Privileged
      THEN /\ r.frames[Stop][a].pos - r.frames[Stop - 1][a].pos \in 0..(4 * MaxSpeed)
           /\ r.frames[Stop][a].spd \in 0..MaxSpeed
           /\ r.frames[Stop][a].spd - CurrentSpeed(r.frames[Stop - 1][a])
                \in -MaxDeceleration..MaxAcceleration
      ELSE r.frames[Stop][a] = log[Stop][a]
  BY <1>1, <1>3, <1>4, <1>5, <1>6, SegmentOf
<1> QED
  BY <1>3, <1>7 DEF a

\* What is known of the rows that are returned.
LEMMA RowsReturned ==
  ASSUME EvaluationInv, stage = "published"
  PROVE  /\ Len(rows) = Cardinality(Range(rows))
         /\ \A c \in Cases, p \in Policies :
              /\ Cardinality(Under(rows, c, p)) = IF Eligible(source[c]) THEN 1 ELSE 0
              /\ Cardinality(Under(severeRows, c, p))
                   = IF Eligible(source[c]) /\ SevereFeasible(source[c]) THEN 1 ELSE 0
<1>1. stage \in Planned \ Working
  BY DEF Planned, Working
<1>2. InOrder(rows, EligibleCases) /\ InOrder(severeRows, SevereCases)
  BY <1>1, RowsAreInOrder
<1>3. PICK S : rows \in Seq(S)
  BY <1>1, RowsDone DEF ScenesAre
<1>4. PICK T : severeRows \in Seq(T)
  BY <1>1, RowsDone DEF ScenesAre
<1>5. /\ EligibleCases \in Seq(Cases) /\ SevereCases \in Seq(Cases)
      /\ Range(EligibleCases) = {c \in Cases : Eligible(source[c])}
      /\ Range(SevereCases) = {c \in Cases : Eligible(source[c]) /\ SevereFeasible(source[c])}
  BY CasesOfResult
<1>6. Len(rows) = Cardinality(Range(rows))
  BY <1>2, <1>3, <1>5, ListsDiffer, RowsCounted
<1>7. ASSUME NEW c \in Cases, NEW p \in Policies
      PROVE  /\ Cardinality(Under(rows, c, p)) = IF c \in Range(EligibleCases) THEN 1 ELSE 0
             /\ Cardinality(Under(severeRows, c, p)) = IF c \in Range(SevereCases) THEN 1 ELSE 0
  <2>1. Cardinality(Under(rows, c, p)) = IF c \in Range(EligibleCases) THEN 1 ELSE 0
    BY <1>2, <1>3, <1>5, ListsDiffer, RowsUnder
  <2>2. Cardinality(Under(severeRows, c, p)) = IF c \in Range(SevereCases) THEN 1 ELSE 0
    BY <1>2, <1>4, <1>5, ListsDiffer, RowsUnder
  <2> QED
    BY <2>1, <2>2
<1> QED
  BY <1>5, <1>6, <1>7

\* Every row is the scene of the log of its case.
LEMMA RowIsScene ==
  ASSUME EvaluationInv, stage = "published", NEW r \in Range(rows)
  PROVE  /\ r.target = Target(source[r.case])
         /\ r.policy = "log_replay" =>
              r.baseline.frames[Stop][r.target] = source[r.case][Stop][r.target]
<1>1. stage \in Planned \ Working
  BY DEF Planned, Working
<1> DEFINE order == OrderIn(source)
<1>2. /\ ScenesAre(order, source, severe, rows, severeRows)
      /\ Len(rows) = Len(order)
      /\ DOMAIN rows = 1..Len(rows)
  BY <1>1, RowsDone DEF ScenesAre
<1>3. PICK x \in 1..Len(order) : rows[x] = r
  BY <1>2 DEF Range
<1>4. SceneIs(r, order[x], source[order[x].case], "primary")
  BY <1>2, <1>3 DEF ScenesAre
<1>5. order[x].case \in Cases /\ Eligible(source[order[x].case])
  BY <1>3, OrderAt
<1> HIDE DEF order
<1> DEFINE log == source[r.case]
<1>6. /\ r.case = order[x].case /\ r.policy = order[x].policy
      /\ r.target = Target(log)
      /\ Executed(r.baseline, r.policy, log, "identity", Stop)
  BY <1>4 DEF SceneIs
<1>7. log \in Logs /\ Targets(log) # {}
  <2>1. DOMAIN source = Cases /\ \A c \in DOMAIN source : source[c] \in Logs
    BY DEF EvaluationInv, TypesHold, CopiesHold
  <2> QED
    BY <1>5, <1>6, <2>1 DEF Eligible
<1> HIDE DEF log
<1>8. r.policy = "log_replay" => r.baseline.frames[Stop][Target(log)] = log[Stop][Target(log)]
  BY <1>6, <1>7, ReplayedTarget
<1> QED
  BY <1>6, <1>8 DEF log

-----------------------------------------------------------------------------
\* In the invariant, and with what the last comparison has found, the rows are of
\* the caller.
LEMMA ReturnedOfCaller ==
  ASSUME EvaluationInv, ComparedHold
  PROVE  RowsAreOfTheCaller
<1> SUFFICES ASSUME stage = "published" PROVE RowsAreOfTheCaller
  BY DEF RowsAreOfTheCaller
<1>1. Len(rows) = Cardinality(Range(rows))
  BY RowsReturned
<1>2. ASSUME NEW c \in Cases \ late, NEW p \in Policies
      PROVE  /\ caller[c] = source[c]
             /\ Cardinality({r \in Range(rows) : r.case = c /\ r.policy = p})
                  = IF Eligible(caller[c]) THEN 1 ELSE 0
             /\ Cardinality({r \in Range(severeRows) : r.case = c /\ r.policy = p})
                  = IF Eligible(caller[c]) /\ SevereFeasible(caller[c]) THEN 1 ELSE 0
  <2>1. caller[c] = source[c]
    BY DEF ComparedHold
  <2>2. /\ Cardinality(Under(rows, c, p)) = IF Eligible(source[c]) THEN 1 ELSE 0
        /\ Cardinality(Under(severeRows, c, p))
             = IF Eligible(source[c]) /\ SevereFeasible(source[c]) THEN 1 ELSE 0
    BY RowsReturned
  <2> QED
    BY <2>1, <2>2 DEF Under
<1>3. ASSUME NEW c \in Cases \ late, NEW p \in Policies,
             NEW r \in {x \in Range(rows) : x.case = c /\ x.policy = p}
      PROVE  /\ r.target = Target(caller[c])
             /\ p = "log_replay" =>
                  r.baseline.frames[Stop][r.target] = caller[c][Stop][r.target]
  <2>1. r \in Range(rows) /\ r.case = c /\ r.policy = p /\ caller[c] = source[c]
    BY <1>2, <1>3
  <2>2. /\ r.target = Target(source[r.case])
        /\ r.policy = "log_replay" =>
             r.baseline.frames[Stop][r.target] = source[r.case][Stop][r.target]
    BY <2>1, RowIsScene
  <2> QED
    BY <2>1, <2>2
<1> QED
  BY <1>1, <1>2, <1>3 DEF RowsAreOfTheCaller

\* What is returned belongs to the scenarios the caller has, but for those it
\* changed during the last comparison: rows for the eligible cases and no others,
\* once under each policy, with the target of the log.
THEOREM RowsSafety == OfficialSpec => []RowsAreOfTheCaller
<1>1. OfficialInit => ComparedHold
  BY DEF OfficialInit, Init, ComparedHold
<1>2. EvaluationInv /\ ComparedHold /\ [OfficialNext]_officialVars => ComparedHold'
  <2> SUFFICES ASSUME EvaluationInv, ComparedHold, [OfficialNext]_officialVars
               PROVE  ComparedHold'
    OBVIOUS
  <2>1. CASE Next
    BY <2>1, ComparedStep
  <2>2. ASSUME UNCHANGED vars PROVE ComparedHold'
    BY <2>2 DEF vars, callerVars, caseVars, ComparedHold
  <2>3. CASE IssueRows
    BY <2>2, <2>3, IssueIsSafe
  <2>4. CASE UNCHANGED officialVars
    BY <2>2, <2>4 DEF officialVars
  <2> QED
    BY <2>1, <2>3, <2>4 DEF OfficialNext
<1>3. EvaluationInv /\ ComparedHold => RowsAreOfTheCaller
  BY ReturnedOfCaller
<1> QED
  BY <1>1, <1>2, <1>3, TypesAndRunsHold, PTL DEF OfficialSpec

-----------------------------------------------------------------------------
(* The algebra of sums *)

\* A sum is a number.
LEMMA SumIsNumber ==
  ASSUME NEW S, IsFiniteSet(S), NEW f \in [S -> Int]
  PROVE  SumFunction(f) \in Int
<1>1. PICK sum : Additive(sum, f, S) /\ SumFunction(f) = sum[S]
  BY SumIs
<1> QED
  BY <1>1 DEF Additive

\* Sums grow with what is summed up.
LEMMA SumGrows ==
  ASSUME NEW S, IsFiniteSet(S), NEW f \in [S -> Int], NEW g \in [S -> Int],
         \A x \in S : f[x] <= g[x]
  PROVE  SumFunction(f) <= SumFunction(g)
<1>1. PICK sum : Additive(sum, f, S) /\ SumFunction(f) = sum[S]
  BY SumIs
<1>2. PICK add : Additive(add, g, S) /\ SumFunction(g) = add[S]
  BY SumIs
<1> DEFINE Good == {U \in SUBSET S : sum[U] <= add[U]}
<1>3. ASSUME NEW U \in SUBSET S, \A x \in U : U \ {x} \in Good PROVE U \in Good
  <2>1. CASE U = {}
    BY <1>1, <1>2, <2>1 DEF Additive
  <2>2. CASE U # {}
    <3>1. PICK x \in U : TRUE
      BY <2>2
    <3>2. sum[U \ {x}] <= add[U \ {x}]
      BY <1>3, <3>1
    <3>3. sum[U] = f[x] + sum[U \ {x}] /\ add[U] = g[x] + add[U \ {x}]
      BY <1>1, <1>2, <3>1 DEF Additive
    <3>4. sum[U \ {x}] \in Int /\ add[U \ {x}] \in Int /\ f[x] \in Int /\ g[x] \in Int
      BY <1>1, <1>2, <3>1 DEF Additive
    <3>5. f[x] <= g[x]
      BY <3>1
    <3> HIDE DEF Good
    <3>6. sum[U] <= add[U]
      BY <3>2, <3>3, <3>4, <3>5
    <3> QED
      BY <3>6 DEF Good
  <2> QED
    BY <2>1, <2>2
<1>4. SUBSET S \subseteq Good
  <2> HIDE DEF Good
  <2> QED
    BY <1>3, UpFromEmpty
<1>5. sum[S] <= add[S]
  BY <1>4
<1> QED
  BY <1>1, <1>2, <1>5

\* Part of a sum of what is not negative is no more than the whole.
LEMMA SumOfPart ==
  ASSUME NEW S, IsFiniteSet(S), NEW f \in [S -> Int], \A x \in S : f[x] >= 0,
         NEW sum, Additive(sum, f, S), NEW T \in SUBSET S
  PROVE  sum[T] <= sum[S]
<1> DEFINE Good == {U \in SUBSET S : sum[T \intersect U] <= sum[U]}
<1>1. ASSUME NEW U \in SUBSET S, \A x \in U : U \ {x} \in Good PROVE U \in Good
  <2>1. CASE U = {}
    <3>1. T \intersect U = {}
      BY <2>1
    <3> QED
      BY <2>1, <3>1 DEF Additive
  <2>2. CASE U # {}
    <3>1. PICK x \in U : TRUE
      BY <2>2
    <3>2. sum[T \intersect (U \ {x})] <= sum[U \ {x}]
      BY <1>1, <3>1
    <3>3. sum[U] = f[x] + sum[U \ {x}] /\ f[x] \in Int /\ f[x] >= 0
      BY <3>1 DEF Additive
    <3>4. sum[U \ {x}] \in Int /\ sum[T \intersect (U \ {x})] \in Int
      BY DEF Additive
    <3>5. CASE x \in T
      <4>1. (T \intersect U) \ {x} = T \intersect (U \ {x}) /\ x \in T \intersect U
        BY <3>1, <3>5
      <4>2. sum[T \intersect U] = f[x] + sum[T \intersect (U \ {x})]
        BY <4>1 DEF Additive
      <4>3. sum[T \intersect U] <= sum[U]
        BY <3>2, <3>3, <3>4, <4>2
      <4> QED
        BY <4>3
    <3>6. CASE x \notin T
      <4>1. T \intersect U = T \intersect (U \ {x})
        BY <3>6
      <4>2. sum[T \intersect U] <= sum[U]
        BY <3>2, <3>3, <3>4, <4>1
      <4> QED
        BY <4>2
    <3> QED
      BY <3>5, <3>6
  <2> QED
    BY <2>1, <2>2
<1>2. SUBSET S \subseteq Good
  <2> HIDE DEF Good
  <2> QED
    BY <1>1, UpFromEmpty
<1>3. T \intersect S = T /\ S \in Good
  BY <1>2
<1> QED
  BY <1>3

\* A sum does not care what its terms are called.
LEMMA SumRenamed ==
  ASSUME NEW S, IsFiniteSet(S), NEW f \in [S -> Int],
         NEW T, IsFiniteSet(T), NEW g \in [T -> Int],
         NEW h \in [S -> T], \A x, y \in S : h[x] = h[y] => x = y,
         \A z \in T : \E x \in S : h[x] = z, \A x \in S : f[x] = g[h[x]]
  PROVE  SumFunction(f) = SumFunction(g)
<1>1. PICK sum : Additive(sum, f, S) /\ SumFunction(f) = sum[S]
  BY SumIs
<1>2. PICK add : Additive(add, g, T) /\ SumFunction(g) = add[T]
  BY SumIs
<1> DEFINE Image(U) == {h[x] : x \in U}
           Good == {U \in SUBSET S : sum[U] = add[Image(U)]}
<1>3. ASSUME NEW U \in SUBSET S, \A x \in U : U \ {x} \in Good PROVE U \in Good
  <2>1. CASE U = {}
    <3>1. Image(U) = {}
      BY <2>1
    <3> QED
      BY <1>1, <1>2, <2>1, <3>1 DEF Additive
  <2>2. CASE U # {}
    <3>1. PICK x \in U : TRUE
      BY <2>2
    <3>2. sum[U \ {x}] = add[Image(U \ {x})]
      BY <1>3, <3>1
    <3>3. Image(U) \in SUBSET T /\ h[x] \in Image(U)
      BY <3>1
    <3>4. Image(U) \ {h[x]} = Image(U \ {x})
      BY <3>1
    <3>5. sum[U] = f[x] + sum[U \ {x}]
      BY <1>1, <3>1 DEF Additive
    <3>6. add[Image(U)] = g[h[x]] + add[Image(U \ {x})]
      <4> DEFINE V == Image(U)
                 W == Image(U \ {x})
                 y == h[x]
      <4>1. V \in SUBSET T /\ y \in V /\ W = V \ {y}
        BY <3>3, <3>4
      <4>2. add[V] = g[y] + add[W]
        <5> HIDE DEF V, W, y
        <5> QED
          BY <1>2, <4>1 DEF Additive
      <4> QED
        BY <4>2
    <3>7. f[x] = g[h[x]]
      BY <3>1
    <3>8. sum[U] = add[Image(U)]
      <4> HIDE DEF Image
      <4> QED
        BY <3>2, <3>5, <3>6, <3>7
    <3> QED
      BY <3>8
  <2> QED
    BY <2>1, <2>2
<1>4. SUBSET S \subseteq Good
  <2> HIDE DEF Good
  <2> QED
    BY <1>3, UpFromEmpty
<1>5. Image(S) = T
  OBVIOUS
<1>6. sum[S] = add[T]
  BY <1>4, <1>5
<1> QED
  BY <1>1, <1>2, <1>6

-----------------------------------------------------------------------------
(* The measures *)

\* Rollouts whose speeds of an agent are numbers.
HasSpeeds(frames, a) == \A t \in Frames : frames[t][a].spd \in Int

\* What a transition brakes harder is at least what it slows down more.
LEMMA ExtraIs ==
  ASSUME NEW base, NEW treated, NEW a, HasSpeeds(base, a), HasSpeeds(treated, a),
         NEW t \in Transitions
  PROVE  /\ ExtraBraking(base, treated, a, t) \in Int
         /\ ExtraBraking(base, treated, a, t) >= 0
         /\ ExtraBraking(base, treated, a, t)
              >= (base[t + 1][a].spd - base[t][a].spd)
                   - (treated[t + 1][a].spd - treated[t][a].spd)
<1>1. t \in Frames /\ t + 1 \in Frames
  BY Horizon DEF Frames, Transitions
<1>2. /\ base[t + 1][a].spd \in Int /\ base[t][a].spd \in Int
      /\ treated[t + 1][a].spd \in Int /\ treated[t][a].spd \in Int
  BY <1>1 DEF HasSpeeds
<1> DEFINE more == (base[t + 1][a].spd - base[t][a].spd)
                     - (treated[t + 1][a].spd - treated[t][a].spd)
<1>3. more \in Int
  BY <1>2
<1>4. ExtraBraking(base, treated, a, t) = Max({0, more})
  BY DEF ExtraBraking, Acceleration
<1> HIDE DEF more
<1>5. Max({0, more}) = IF 0 >= more THEN 0 ELSE more
  BY <1>3, MaxOfTwo
<1>6. /\ ExtraBraking(base, treated, a, t) \in Int /\ ExtraBraking(base, treated, a, t) >= 0
      /\ ExtraBraking(base, treated, a, t) >= more
  BY <1>3, <1>4, <1>5
<1> QED
  BY <1>6 DEF more

\* The impulse is a sum of what is not negative.
LEMMA ImpulseIs ==
  ASSUME NEW base, NEW treated, NEW a, HasSpeeds(base, a), HasSpeeds(treated, a)
  PROVE  /\ Extra(base, treated, a) \in [Transitions -> Int]
         /\ \A t \in Transitions : Extra(base, treated, a)[t] >= 0
         /\ IsFiniteSet(Transitions)
         /\ Impulse(base, treated, a) \in Int
         /\ \E sum : /\ Additive(sum, Extra(base, treated, a), Transitions)
                     /\ Impulse(base, treated, a) = sum[Transitions]
<1> DEFINE f == Extra(base, treated, a)
<1>1. f \in [Transitions -> Int] /\ \A t \in Transitions : f[t] >= 0
  BY ExtraIs DEF Extra
<1>2. IsFiniteSet(Transitions)
  BY Horizon, FS_Interval DEF Transitions
<1>3. Impulse(base, treated, a) = SumFunction(f)
  BY DEF Impulse, Extra
<1> HIDE DEF f
<1>4. SumFunction(f) \in Int /\ \E sum : Additive(sum, f, Transitions) /\ SumFunction(f) = sum[Transitions]
  BY <1>1, <1>2, SumIs, SumIsNumber
<1> QED
  BY <1>1, <1>2, <1>3, <1>4 DEF f

\* Up to any frame no more speed was lost than the transitions before it braked.
LEMMA LostSpeed ==
  ASSUME NEW base, NEW treated, NEW a, HasSpeeds(base, a), HasSpeeds(treated, a),
         base[Current][a].spd = treated[Current][a].spd,
         NEW sum, Additive(sum, Extra(base, treated, a), Transitions), NEW t \in Frames
  PROVE  base[t][a].spd - treated[t][a].spd <= sum[Current..(t - 1)]
<1> DEFINE Lag(s) == base[s][a].spd - treated[s][a].spd
           Good == {k \in Nat : Current + k \in Frames =>
                                  Lag(Current + k) <= sum[Current..((Current + k) - 1)]}
<1>1. 0 \in Good
  <2>1. Current..((Current + 0) - 1) = {} /\ Current + 0 = Current /\ Current \in Frames
    BY Horizon DEF Frames
  <2>2. sum[{}] = 0
    BY DEF Additive
  <2>3. Lag(Current) = 0
    <3>1. base[Current][a].spd \in Int
      BY <2>1 DEF HasSpeeds
    <3> QED
      BY <3>1
  <2>4. sum[Current..((Current + 0) - 1)] = 0
    BY <2>1, <2>2
  <2>5. Lag(Current + 0) = 0
    BY <2>1, <2>3
  <2> HIDE DEF Lag
  <2>6. Lag(Current + 0) <= sum[Current..((Current + 0) - 1)]
    BY <2>4, <2>5
  <2> QED
    BY <2>6
<1>2. ASSUME NEW k \in Nat, k \in Good PROVE k + 1 \in Good
  <2> SUFFICES ASSUME Current + (k + 1) \in Frames
               PROVE  Lag(Current + (k + 1)) <= sum[Current..((Current + (k + 1)) - 1)]
    OBVIOUS
  <2> DEFINE s == Current + k
             P == Current..(s - 1)
             Q == Current..s
  <2>1. s \in Transitions /\ s \in Frames /\ s + 1 \in Frames /\ s \in Int
    BY Horizon DEF Frames, Transitions
  <2>2. s \in Q /\ Q \ {s} = P /\ Q \in SUBSET Transitions /\ P \in SUBSET Transitions
    BY <2>1, Horizon DEF Transitions
  <2>3. sum[Q] = Extra(base, treated, a)[s] + sum[P] /\ sum[P] \in Int
    <3> HIDE DEF P, Q, s
    <3> QED
      BY <2>2 DEF Additive
  <2>4. Lag(s) <= sum[P]
    BY <1>2, <2>1
  <2>5. Extra(base, treated, a)[s] \in Int /\ Extra(base, treated, a)[s] >= Lag(s + 1) - Lag(s)
    <3> HIDE DEF s
    <3>1. /\ ExtraBraking(base, treated, a, s) \in Int
          /\ ExtraBraking(base, treated, a, s)
               >= (base[s + 1][a].spd - base[s][a].spd)
                    - (treated[s + 1][a].spd - treated[s][a].spd)
      BY <2>1, ExtraIs
    <3>2. Extra(base, treated, a)[s] = ExtraBraking(base, treated, a, s)
      BY <2>1 DEF Extra
    <3>3. /\ base[s + 1][a].spd \in Int /\ base[s][a].spd \in Int
          /\ treated[s + 1][a].spd \in Int /\ treated[s][a].spd \in Int
      BY <2>1 DEF HasSpeeds
    <3> QED
      BY <3>1, <3>2, <3>3
  <2>6. Lag(s) \in Int /\ Lag(s + 1) \in Int
    <3> HIDE DEF s
    <3>1. /\ base[s + 1][a].spd \in Int /\ base[s][a].spd \in Int
          /\ treated[s + 1][a].spd \in Int /\ treated[s][a].spd \in Int
      BY <2>1 DEF HasSpeeds
    <3> QED
      BY <3>1
  <2>7. Lag(s + 1) <= sum[Q]
    <3> HIDE DEF Lag, s, P, Q
    <3> QED
      BY <2>3, <2>4, <2>5, <2>6
  <2>8. Current + (k + 1) = s + 1 /\ (Current + (k + 1)) - 1 = s
    BY Horizon
  <2> QED
    BY <2>7, <2>8
<1>3. Nat \subseteq Good
  <2> HIDE DEF Good
  <2> QED
    BY <1>1, <1>2, UpFromZero
<1>4. t - Current \in Nat /\ Current + (t - Current) = t
  BY Horizon DEF Frames
<1>5. t - Current \in Good
  BY <1>3, <1>4
<1> QED
  BY <1>4, <1>5

\* Speed is given up only by braking that is in the impulse.
LEMMA ReductionInImpulse ==
  ASSUME NEW base, NEW treated, NEW a, HasSpeeds(base, a), HasSpeeds(treated, a),
         base[Current][a].spd = treated[Current][a].spd
  PROVE  SpeedReduction(base, treated, a) <= Impulse(base, treated, a)
<1> DEFINE Lags == {base[t][a].spd - treated[t][a].spd : t \in Scored}
<1>1. Scored \subseteq Frames /\ Scored # {} /\ IsFiniteSet(Scored)
  <2>1. Current + 1 \in Int /\ Stop \in Int /\ Current + 1 \in Scored
    BY Horizon DEF Scored
  <2>2. IsFiniteSet(Scored)
    BY <2>1, FS_Interval DEF Scored
  <2> QED
    BY <2>1, <2>2, Horizon DEF Scored, Frames
<1>2. Lags \in SUBSET Int /\ Lags # {}
  BY <1>1 DEF HasSpeeds
<1>3. PICK sum : /\ Additive(sum, Extra(base, treated, a), Transitions)
                 /\ Impulse(base, treated, a) = sum[Transitions]
  BY ImpulseIs
<1>4. ASSUME NEW t \in Scored
      PROVE  base[t][a].spd - treated[t][a].spd <= Impulse(base, treated, a)
  <2>1. base[t][a].spd - treated[t][a].spd <= sum[Current..(t - 1)]
    BY <1>1, <1>3, LostSpeed
  <2>2. Current..(t - 1) \in SUBSET Transitions
    BY Horizon DEF Scored, Transitions
  <2>3. sum[Current..(t - 1)] <= sum[Transitions]
    BY <1>3, <2>2, ImpulseIs, SumOfPart
  <2>4. sum[Current..(t - 1)] \in Int
    BY <1>3, <2>2 DEF Additive
  <2>5. base[t][a].spd - treated[t][a].spd \in Int
    BY <1>1 DEF HasSpeeds
  <2>6. Impulse(base, treated, a) \in Int
    BY ImpulseIs
  <2> QED
    BY <1>3, <2>1, <2>3, <2>4, <2>5, <2>6
<1>5. \E x \in Lags : \A y \in Lags : x >= y
  <2>1. IsFiniteSet(Lags)
    <3> DEFINE F == [t \in Scored |-> base[t][a].spd - treated[t][a].spd]
    <3>1. F \in Surjection(Scored, Lags)
      BY DEF Surjection
    <3> HIDE DEF F, Lags
    <3> QED
      BY <1>1, <3>1, FS_Surjection
  <2>2. Max(Lags) \in Lags /\ \A x \in Lags : x <= Max(Lags)
    <3> HIDE DEF Lags
    <3> QED
      BY <1>2, <2>1, MaxIsGreatest
  <2> HIDE DEF Lags
  <2>3. \A x \in Lags : x \in Int
    BY <1>2
  <2> QED
    BY <2>2, <2>3
<1>6. SpeedReduction(base, treated, a) \in Lags
  BY <1>5 DEF SpeedReduction, Max
<1> QED
  BY <1>4, <1>6

-----------------------------------------------------------------------------
\* Products, one factor at a time.
LEMMA Times ==
  ASSUME NEW k \in Nat, NEW r \in Nat
  PROVE  k * r \in Nat /\ (k + 1) * r = k * r + r
OBVIOUS

\* A persistent response is in the impulse, every transition of it.
LEMMA ResponseInImpulse ==
  ASSUME NEW base, NEW treated, NEW a, HasSpeeds(base, a), HasSpeeds(treated, a),
         Responses(base, treated, a) # {}
  PROVE  Impulse(base, treated, a) >= Persistence * ResponseThreshold
<1>1. PICK t \in Responses(base, treated, a) : TRUE
  OBVIOUS
<1> DEFINE f == Extra(base, treated, a)
           r == ResponseThreshold
           low == t - Persistence
<1>2. PICK sum : Additive(sum, f, Transitions) /\ Impulse(base, treated, a) = sum[Transitions]
  BY ImpulseIs
<1>3. /\ t \in Int /\ low \in Int /\ low >= Current /\ Persistence \in Nat /\ r \in Nat
      /\ t \in Transitions /\ t = low + Persistence
  BY <1>1, WindowAssumption DEF Responses, Transitions
<1>4. \A s \in (low + 1)..t : s \in Transitions /\ f[s] >= r /\ f[s] \in Int
  <2> SUFFICES ASSUME NEW s \in (low + 1)..t PROVE s \in Transitions /\ f[s] >= r /\ f[s] \in Int
    OBVIOUS
  <2>1. s \in Transitions
    BY <1>3, WindowAssumption DEF Transitions, Stop
  <2>2. ExtraBraking(base, treated, a, s) >= r
    BY <1>1 DEF Responses
  <2> QED
    BY <2>1, <2>2, ImpulseIs DEF Extra
<1> DEFINE P(k) == (low + 1)..(low + k)
           Good == {k \in Nat : k <= Persistence => sum[P(k)] >= k * r}
<1>5. 0 \in Good
  <2>1. P(0) = {} /\ 0 * r = 0
    BY <1>3
  <2>2. sum[{}] = 0
    BY <1>2 DEF Additive
  <2> DEFINE U == P(0)
             m == 0 * r
  <2>3. sum[U] >= m
    <3>1. U = {} /\ m = 0
      BY <2>1
    <3> HIDE DEF U, m
    <3> QED
      BY <2>2, <3>1
  <2> QED
    BY <2>3
<1> HIDE DEF f, r, low
<1>6. ASSUME NEW k \in Nat, k \in Good PROVE k + 1 \in Good
  <2> SUFFICES ASSUME k + 1 <= Persistence PROVE sum[P(k + 1)] >= (k + 1) * r
    OBVIOUS
  <2> DEFINE s == low + (k + 1)
             U == P(k)
             V == P(k + 1)
  <2>1. s \in (low + 1)..t /\ s \in Int
    BY <1>3
  <2>2. s \in V /\ V \ {s} = U
    BY <1>3
  <2>3. V \in SUBSET Transitions
    <3>1. V \subseteq (low + 1)..t
      BY <1>3
    <3> HIDE DEF V
    <3> QED
      BY <1>4, <3>1
  <2>4. sum[V] = f[s] + sum[U] /\ sum[U] \in Int
    <3> HIDE DEF U, V, s
    <3> QED
      BY <1>2, <2>2, <2>3 DEF Additive
  <2>5. f[s] >= r /\ f[s] \in Int
    <3> HIDE DEF s
    <3> QED
      BY <1>4, <2>1
  <2>6. sum[U] >= k * r
    <3>1. k <= Persistence
      BY <1>3
    <3> QED
      BY <1>6, <3>1
  <2>7. (k + 1) * r = k * r + r /\ k * r \in Nat
    BY <1>3, Times
  <2> DEFINE m == k * r
  <2>8. sum[V] >= m + r
    <3> HIDE DEF U, V, s
    <3>1. sum[U] >= m /\ m \in Nat
      BY <2>6, <2>7
    <3> HIDE DEF m
    <3> QED
      BY <1>3, <2>4, <2>5, <3>1
  <2> QED
    BY <2>7, <2>8
<1>7. Persistence \in Good
  <2> HIDE DEF Good
  <2>1. Nat \subseteq Good
    BY <1>5, <1>6, UpFromZero
  <2> QED
    BY <1>3, <2>1
<1> DEFINE T == P(Persistence)
<1>8. sum[T] >= Persistence * r
  BY <1>3, <1>7
<1>9. T \in SUBSET Transitions
  BY <1>3, <1>4
<1>10. sum[T] <= sum[Transitions] /\ sum[T] \in Int /\ sum[Transitions] \in Int
  <2>1. /\ f \in [Transitions -> Int] /\ \A s \in Transitions : f[s] >= 0
        /\ IsFiniteSet(Transitions)
    BY ImpulseIs DEF f
  <2> HIDE DEF T
  <2>2. sum[T] <= sum[Transitions]
    BY <1>2, <1>9, <2>1, SumOfPart
  <2> QED
    BY <1>2, <1>9, <2>2 DEF Additive
<1>11. Persistence * r \in Nat
  BY <1>3, Times
<1> HIDE DEF T
<1> DEFINE m == Persistence * r
<1>12. sum[T] >= m /\ m \in Nat
  BY <1>8, <1>11
<1>13. sum[Transitions] >= m
  <2> HIDE DEF m
  <2> QED
    BY <1>10, <1>12
<1> QED
  BY <1>2, <1>13 DEF r

-----------------------------------------------------------------------------
(* Where the brake leaves the ego *)

\* Where a plan is at a frame: the start and the steps before it.
LEMMA PlanPlace ==
  ASSUME NEW log \in Logs, NEW dose \in Nat \ {0}, NEW t \in Frames,
         NEW sum, Additive(sum, Steps(log, dose, Transitions), Transitions)
  PROVE  /\ BrakePlan(log, dose)[t].pos = log[Current][Ego].pos + sum[Current..(t - 1)]
         /\ sum[Current..(t - 1)] \in Int
<1> DEFINE S == Current..(t - 1)
           f == Steps(log, dose, S)
           g == Steps(log, dose, Transitions)
<1>1. S \in SUBSET Transitions /\ IsFiniteSet(S) /\ IsFiniteSet(Transitions)
  <2>1. Current \in Int /\ t \in Int /\ Stop \in Int /\ t - 1 \in Int /\ Stop - 1 \in Int /\ t <= Stop
    BY Horizon DEF Frames
  <2>2. IsFiniteSet(Current..(t - 1)) /\ IsFiniteSet(Current..(Stop - 1))
    BY <2>1, FS_Interval
  <2>3. \A x \in Current..(t - 1) : x \in Current..(Stop - 1)
    BY <2>1
  <2> QED
    BY <2>2, <2>3 DEF Transitions
<1>2. f \in [S -> Int] /\ \A s \in S : f[s] = g[s]
  BY <1>1, StepIsNumber DEF Steps
<1>3. BrakePlan(log, dose)[t].pos = log[Current][Ego].pos + SumFunction(f)
  BY DEF BrakePlan, Steps, Step
<1> HIDE DEF S, f, g
<1>4. PICK add : Additive(add, f, S) /\ SumFunction(f) = add[S]
  BY <1>1, <1>2, SumIs
<1>5. add[S] = sum[S]
  <2>1. Additive(sum, g, Transitions)
    BY DEF g
  <2>2. S \subseteq Transitions
    BY <1>1
  <2> QED
    BY <1>1, <1>2, <1>4, <2>1, <2>2, SumsAgree
<1>6. sum[S] \in Int
  BY <1>1 DEF Additive
<1> QED
  BY <1>3, <1>4, <1>5, <1>6 DEF S

\* The steps of a plan are no longer than the log's, where those go forward.
LEMMA StepIsShort ==
  ASSUME NEW log \in Logs, PathIsStrict(log), NEW dose \in Nat \ {0}, NEW s \in Transitions
  PROVE  Step(log, dose, s) \in Int /\ Step(log, dose, s) <= Segment(log, s)
<1>1. s \in Nat /\ s >= Current /\ s \in 0..LastFrame /\ s + 1 \in 0..LastFrame
  BY Horizon DEF Transitions
<1>2. Segment(log, s) \in Int /\ Segment(log, s) > 0
  BY <1>1, LogStates DEF Segment, PathIsStrict
<1> DEFINE taken == 2 * (Deficit(dose, s) + Deficit(dose, s + 1))
<1>3. taken \in Nat
  <2>1. Deficit(dose, s) \in Nat
    BY <1>1, DeficitIs
  <2>2. s + 1 \in Nat /\ s + 1 >= Current
    BY <1>1, Horizon
  <2>3. Deficit(dose, s + 1) \in Nat
    BY <2>2, DeficitIs
  <2> HIDE DEF Deficit
  <2> QED
    BY <2>1, <2>3
<1>4. Lost(log, dose, s) = Min({Segment(log, s), taken})
  BY DEF Lost
<1> HIDE DEF taken
<1>5. Lost(log, dose, s) \in Int /\ Lost(log, dose, s) >= 0
  BY <1>2, <1>3, <1>4, MinOfTwo
<1> QED
  BY <1>2, <1>5 DEF Step

\* So a braking ego is nowhere ahead of where it was.
LEMMA PlanBehind ==
  ASSUME NEW log \in Logs, PathIsStrict(log), NEW dose \in Nat \ {0}, NEW t \in Frames
  PROVE  /\ BrakePlan(log, dose)[t].pos \in Int /\ log[t][Ego].pos \in Int
         /\ BrakePlan(log, dose)[t].pos <= log[t][Ego].pos
<1> DEFINE f == Steps(log, dose, Transitions)
           Start == log[Current][Ego].pos
           Place(s) == log[s][Ego].pos
<1>1. f \in [Transitions -> Int] /\ IsFiniteSet(Transitions)
      /\ \A s \in Transitions : f[s] <= Place(s + 1) - Place(s)
  <2>1. ASSUME NEW s \in Transitions
        PROVE  f[s] \in Int /\ f[s] <= Place(s + 1) - Place(s)
    BY StepIsShort DEF Steps, Segment
  <2>2. IsFiniteSet(Transitions)
    <3>1. Current \in Int /\ Stop - 1 \in Int
      BY Horizon
    <3> QED
      BY <3>1, FS_Interval DEF Transitions
  <2>3. f = [s \in Transitions |-> Step(log, dose, s)]
    BY DEF Steps
  <2> HIDE DEF f, Place
  <2> QED
    BY <2>1, <2>2, <2>3
<1>2. \A s \in Frames : Place(s) \in Int
  BY Horizon, LogStates
<1> HIDE DEF f, Place
<1>3. PICK sum : Additive(sum, f, Transitions) /\ SumFunction(f) = sum[Transitions]
  BY <1>1, SumIs
<1> DEFINE Up(k) == Current..((Current + k) - 1)
           Good == {k \in Nat : Current + k \in Frames =>
                                  sum[Up(k)] <= Place(Current + k) - Place(Current)}
<1>4. 0 \in Good
  <2>1. Up(0) = {} /\ Current + 0 = Current /\ Current \in Frames
    BY Horizon DEF Frames
  <2>2. sum[{}] = 0
    BY <1>3 DEF Additive
  <2>3. Place(Current) - Place(Current) = 0
    BY <1>2, <2>1
  <2>4. sum[Up(0)] = 0 /\ Place(Current + 0) - Place(Current) = 0
    BY <2>1, <2>2, <2>3
  <2> HIDE DEF Up
  <2> QED
    BY <2>4
<1>5. ASSUME NEW k \in Nat, k \in Good PROVE k + 1 \in Good
  <2> SUFFICES ASSUME Current + (k + 1) \in Frames
               PROVE  sum[Up(k + 1)] <= Place(Current + (k + 1)) - Place(Current)
    OBVIOUS
  <2> DEFINE s == Current + k
             P == Up(k)
             Q == Up(k + 1)
  <2>1. s \in Transitions /\ s \in Frames /\ s + 1 \in Frames /\ Current + (k + 1) = s + 1
    BY Horizon DEF Frames, Transitions
  <2>2. s \in Q /\ Q \ {s} = P /\ Q \in SUBSET Transitions /\ P \in SUBSET Transitions
    BY <2>1, Horizon DEF Transitions
  <2>3. sum[P] <= Place(s) - Place(Current)
    BY <1>5, <2>1
  <2>4. Current \in Frames
    BY Horizon DEF Frames
  <2> HIDE DEF P, Q, s
  <2>5. sum[Q] = f[s] + sum[P] /\ sum[P] \in Int
    BY <1>3, <2>2 DEF Additive
  <2>6. f[s] \in Int /\ f[s] <= Place(s + 1) - Place(s)
    BY <1>1, <2>1
  <2>7. Place(s) \in Int /\ Place(s + 1) \in Int /\ Place(Current) \in Int
    BY <1>2, <2>1, <2>4
  <2>8. sum[Q] <= Place(s + 1) - Place(Current)
    BY <2>3, <2>5, <2>6, <2>7
  <2> QED
    BY <2>1, <2>8 DEF Q
<1>6. t - Current \in Good
  <2> HIDE DEF Good
  <2>1. Nat \subseteq Good
    BY <1>4, <1>5, UpFromZero
  <2>2. t - Current \in Nat
    BY Horizon DEF Frames
  <2> QED
    BY <2>1, <2>2
<1>7. sum[Current..(t - 1)] <= Place(t) - Place(Current)
  <2>1. Current + (t - Current) = t
    BY Horizon DEF Frames
  <2> QED
    BY <1>6, <2>1
<1>8. /\ BrakePlan(log, dose)[t].pos = Place(Current) + sum[Current..(t - 1)]
      /\ sum[Current..(t - 1)] \in Int
  BY <1>3, PlanPlace DEF f, Place
<1>9. Place(t) \in Int /\ Place(Current) \in Int
  BY <1>2, Horizon DEF Frames
<1>10. /\ BrakePlan(log, dose)[t].pos \in Int
       /\ BrakePlan(log, dose)[t].pos <= Place(t)
  BY <1>7, <1>8, <1>9
<1> QED
  BY <1>9, <1>10 DEF Place

-----------------------------------------------------------------------------
(* The measures of a scene fit together *)

\* Families of which the one is nowhere above the other have such minima.
LEMMA MinBelow ==
  ASSUME NEW S, IsFiniteSet(S), S # {}, NEW f \in [S -> Int], NEW g \in [S -> Int],
         \A x \in S : f[x] <= g[x]
  PROVE  /\ Min({f[x] : x \in S}) \in Int /\ Min({g[x] : x \in S}) \in Int
         /\ Min({f[x] : x \in S}) <= Min({g[x] : x \in S})
<1> DEFINE F == {f[x] : x \in S}
           G == {g[x] : x \in S}
<1>1. F \in SUBSET Int /\ F # {} /\ G \in SUBSET Int /\ G # {}
  OBVIOUS
<1>2. f \in Surjection(S, F) /\ g \in Surjection(S, G)
  BY DEF Surjection
<1>3. \A y \in G : \E x \in S : y = g[x] /\ f[x] \in F /\ f[x] <= y
  OBVIOUS
<1> HIDE DEF F, G
<1>4. IsFiniteSet(F) /\ IsFiniteSet(G)
  BY <1>2, FS_Surjection
<1>5. Min(F) \in F /\ \A y \in F : Min(F) <= y
  BY <1>1, <1>4, MinIsLeast
<1>6. Min(G) \in G
  BY <1>1, <1>4, MinIsLeast
<1>7. PICK x \in S : Min(G) = g[x] /\ f[x] \in F /\ f[x] <= Min(G)
  BY <1>3, <1>6
<1>8. Min(F) <= f[x] /\ Min(F) \in Int /\ Min(G) \in Int /\ f[x] \in Int
  BY <1>1, <1>5, <1>6, <1>7
<1>9. Min(F) <= Min(G)
  BY <1>7, <1>8
<1> QED
  BY <1>8, <1>9 DEF F, G

\* Both runs of a scene, for the agents of the world and for the ego.
LEMMA SceneRuns ==
  ASSUME NEW log \in Logs, Eligible(log), NEW policy \in Policies,
         NEW k \in {"primary", "secondary"}, NEW base, NEW treated,
         Executed(base, policy, log, "identity", Stop), Executed(treated, policy, log, k, Stop)
  PROVE  /\ Target(log) \in World
         /\ HasSpeeds(base.frames, Target(log)) /\ HasSpeeds(treated.frames, Target(log))
         /\ base.frames[Current] = treated.frames[Current]
         /\ \A t \in Frames : /\ base.frames[t][Target(log)].pos \in Int
                              /\ treated.frames[t][Target(log)].pos \in Int
                              /\ base.frames[t][Ego].pos \in Int
                              /\ treated.frames[t][Ego].pos \in Int
                              /\ treated.frames[t][Ego].pos <= base.frames[t][Ego].pos
         /\ policy \in Nonreactive => \A t \in Frames, a \in World :
                                        base.frames[t][a] = treated.frames[t][a]
<1>1. Target(log) \in World
  BY TargetIs DEF Eligible
<1>2. ASSUME NEW t \in Frames, NEW a \in Agents
      PROVE  /\ base.frames[t][a].spd \in Int /\ treated.frames[t][a].spd \in Int
             /\ base.frames[t][a].pos \in Int /\ treated.frames[t][a].pos \in Int
  <2>1. t \in 0..Stop
    BY Horizon DEF Frames
  <2>2. base.frames[t] \in FrameStates /\ treated.frames[t] \in FrameStates
    BY <2>1 DEF Executed
  <2> QED
    BY <2>2 DEF FrameStates, AgentStates
<1>3. Ego \in Agents /\ World \subseteq Agents
  BY DEF Agents
<1>4. Current \in 0..Current
  BY Horizon
<1>5. base.frames[Current] = treated.frames[Current]
  BY <1>4 DEF Executed
<1>6. ASSUME NEW t \in Frames
      PROVE  treated.frames[t][Ego].pos <= base.frames[t][Ego].pos
  <2>1. PathIsStrict(log)
    BY DEF Eligible
  <2>2. DoseOf(k) \in Nat \ {0}
    BY HorizonAssumption DEF DoseOf
  <2>3. BrakePlan(log, DoseOf(k))[t].pos <= log[t][Ego].pos
    BY <2>1, <2>2, PlanBehind
  <2>4. "identity" \in Conditions \ {"legacy"} /\ k \in Conditions \ {"legacy"}
    BY DEF Conditions
  <2>5. base.frames[t][Ego] = PlanUnder("identity", log)[t]
    BY <2>4, PlannedRun
  <2>6. treated.frames[t][Ego] = PlanUnder(k, log)[t]
    BY <2>4, PlannedRun
  <2>7. PlanUnder("identity", log)[t] = log[t][Ego]
    BY DEF PlanUnder, LogEgo
  <2>8. PlanUnder(k, log)[t] = BrakePlan(log, DoseOf(k))[t]
    BY DEF PlanUnder, DoseOf
  <2> QED
    BY <2>3, <2>5, <2>6, <2>7, <2>8
<1>7. ASSUME policy \in Nonreactive
      PROVE  \A t \in Frames, a \in World : base.frames[t][a] = treated.frames[t][a]
  <2>1. "identity" \in Conditions \ {"legacy"} /\ k \in Conditions \ {"legacy"}
    BY DEF Conditions
  <2> QED
    BY <1>7, <2>1, NonreactiveWorld
<1>8. HasSpeeds(base.frames, Target(log)) /\ HasSpeeds(treated.frames, Target(log))
  BY <1>1, <1>2, <1>3 DEF HasSpeeds
<1> QED
  BY <1>1, <1>2, <1>3, <1>5, <1>6, <1>7, <1>8

\* An ego that is nowhere ahead of where it was leaves no greater a gap to who has
\* not moved otherwise.
LEMMA GapShrinks ==
  ASSUME NEW base, NEW treated, NEW a,
         \A t \in Frames : /\ base[t][a].pos \in Int /\ base[t][a] = treated[t][a]
                           /\ base[t][Ego].pos \in Int /\ treated[t][Ego].pos \in Int
                           /\ treated[t][Ego].pos <= base[t][Ego].pos
  PROVE  GapChange(base, treated, a) <= 0
<1> DEFINE f == [t \in Scored |-> Gap(treated[t], a, Ego)]
           g == [t \in Scored |-> Gap(base[t], a, Ego)]
<1>1. Scored \subseteq Frames /\ Scored # {} /\ IsFiniteSet(Scored)
  <2>1. Current + 1 \in Int /\ Stop \in Int /\ Current + 1 \in Scored
    BY Horizon DEF Scored
  <2>2. IsFiniteSet(Scored)
    BY <2>1, FS_Interval DEF Scored
  <2> QED
    BY <2>1, <2>2, Horizon
<1>2. ASSUME NEW t \in Scored
      PROVE  f[t] \in Int /\ g[t] \in Int /\ f[t] <= g[t]
  <2>1. AgentLength \in Int
    BY LimitsAssumption
  <2>2. /\ base[t][a].pos \in Int /\ base[t][a] = treated[t][a]
        /\ base[t][Ego].pos \in Int /\ treated[t][Ego].pos \in Int
        /\ treated[t][Ego].pos <= base[t][Ego].pos
    BY <1>1
  <2> QED
    BY <2>1, <2>2 DEF Gap
<1>3. f \in [Scored -> Int] /\ g \in [Scored -> Int] /\ \A t \in Scored : f[t] <= g[t]
  BY <1>2
<1>4. /\ MinimumGapOf(treated, a) = Min({f[t] : t \in Scored})
      /\ MinimumGapOf(base, a) = Min({g[t] : t \in Scored})
  <2>1. /\ {f[t] : t \in Scored} = {Gap(treated[t], a, Ego) : t \in Scored}
        /\ {g[t] : t \in Scored} = {Gap(base[t], a, Ego) : t \in Scored}
    OBVIOUS
  <2> QED
    BY <2>1 DEF MinimumGapOf
<1> HIDE DEF f, g
<1>5. /\ Min({f[t] : t \in Scored}) \in Int /\ Min({g[t] : t \in Scored}) \in Int
      /\ Min({f[t] : t \in Scored}) <= Min({g[t] : t \in Scored})
  <2>1. \A t \in Scored : f[t] <= g[t]
    BY <1>3
  <2> QED
    BY <1>1, <1>3, <2>1, MinBelow
<1> QED
  BY <1>4, <1>5 DEF GapChange

\* Who has not moved is not displaced.
LEMMA NotDisplaced ==
  ASSUME NEW base, NEW treated, NEW a,
         \A t \in Frames : base[t][a].pos \in Int /\ base[t][a] = treated[t][a]
  PROVE  Displacement(base, treated, a) = 0
<1> DEFINE f == [t \in Scored |-> Magnitude(treated[t][a].pos - base[t][a].pos)]
<1>1. Scored \subseteq Frames /\ IsFiniteSet(Scored)
  <2>1. Current + 1 \in Int /\ Stop \in Int
    BY Horizon
  <2>2. IsFiniteSet(Scored)
    BY <2>1, FS_Interval DEF Scored
  <2> QED
    BY <2>2, Horizon
<1>2. ASSUME NEW t \in Scored PROVE f[t] = 0
  <2>1. treated[t][a].pos - base[t][a].pos = 0
    BY <1>1
  <2>2. Magnitude(0) = 0
    BY MaxOfTwo DEF Magnitude
  <2> QED
    BY <2>1, <2>2
<1>3. Displacement(base, treated, a) = SumFunction(f)
  BY DEF Displacement
<1>4. f \in [Scored -> Int]
  <2>1. f = [t \in Scored |-> f[t]]
    OBVIOUS
  <2> HIDE DEF f
  <2> QED
    BY <1>2, <2>1
<1> HIDE DEF f
<1>5. PICK sum : Additive(sum, f, Scored) /\ SumFunction(f) = sum[Scored]
  BY <1>1, <1>4, SumIs
<1>6. \A t \in Scored : f[t] = 0
  BY <1>2
<1>7. sum[Scored] = 0
  BY <1>1, <1>5, <1>6, ZeroSum
<1> QED
  BY <1>3, <1>5, <1>7

\* What the measures of a scene say of each other.
MeasuresFit(scene) ==
  /\ scene.secondary.reduction <= scene.primary.impulse.value
  /\ scene.primary.timeliness.answer = "responded" =>
       scene.primary.impulse.value >= Persistence * ResponseThreshold
  /\ scene.policy \in Nonreactive =>
       scene.primary.gap.value <= 0 /\ scene.secondary.displacement = 0

\* The measures of a scene of the order fit together.
LEMMA SceneMeasures ==
  ASSUME NEW log \in Logs, Eligible(log), NEW at \in Jobs, NEW k \in {"primary", "secondary"},
         NEW scene, SceneIs(scene, at, log, k)
  PROVE  MeasuresFit(scene)
<1> DEFINE r == scene.baseline
           s == scene.treated
           policy == at.policy
           base == r.frames
           treated == s.frames
           a == Target(log)
<1>1. /\ policy \in Policies /\ scene.policy = policy
      /\ Executed(r, policy, log, "identity", Stop) /\ Executed(s, policy, log, k, Stop)
      /\ scene.primary = PrimaryResults(base, treated, a)
      /\ scene.secondary = SecondaryResults(base, treated, a)
  BY DEF SceneIs, Jobs
<1>2. /\ a \in World
      /\ HasSpeeds(base, a) /\ HasSpeeds(treated, a)
      /\ base[Current] = treated[Current]
      /\ \A t \in Frames : /\ base[t][a].pos \in Int
                           /\ base[t][Ego].pos \in Int
                           /\ treated[t][Ego].pos \in Int
                           /\ treated[t][Ego].pos <= base[t][Ego].pos
      /\ policy \in Nonreactive => \A t \in Frames, b \in World : base[t][b] = treated[t][b]
  <2> HIDE DEF r, s, policy
  <2> QED
    BY <1>1, SceneRuns
<1> HIDE DEF r, s, policy, base, treated, a
<1>3. /\ scene.primary.impulse.value = Impulse(base, treated, a)
      /\ scene.primary.timeliness.answer = Answered(Responses(base, treated, a))
      /\ scene.primary.gap.value = GapChange(base, treated, a)
  BY <1>1 DEF PrimaryResults
<1>4. /\ scene.secondary.reduction = SpeedReduction(base, treated, a)
      /\ scene.secondary.displacement = Displacement(base, treated, a)
  BY <1>1 DEF SecondaryResults
<1>5. scene.secondary.reduction <= scene.primary.impulse.value
  <2>1. base[Current][a].spd = treated[Current][a].spd
    BY <1>2
  <2> QED
    BY <1>2, <1>3, <1>4, <2>1, ReductionInImpulse
<1>6. ASSUME scene.primary.timeliness.answer = "responded"
      PROVE  scene.primary.impulse.value >= Persistence * ResponseThreshold
  <2>1. Responses(base, treated, a) # {}
    BY <1>3, <1>6 DEF Answered
  <2> QED
    BY <1>2, <1>3, <2>1, ResponseInImpulse
<1>7. ASSUME scene.policy \in Nonreactive
      PROVE  scene.primary.gap.value <= 0 /\ scene.secondary.displacement = 0
  <2>1. \A t \in Frames : /\ base[t][a].pos \in Int /\ base[t][a] = treated[t][a]
                          /\ base[t][Ego].pos \in Int /\ treated[t][Ego].pos \in Int
                          /\ treated[t][Ego].pos <= base[t][Ego].pos
    BY <1>1, <1>2, <1>7
  <2>2. \A t \in Frames : base[t][a].pos \in Int /\ base[t][a] = treated[t][a]
    BY <2>1
  <2>3. GapChange(base, treated, a) <= 0
    BY <2>1, GapShrinks
  <2>4. Displacement(base, treated, a) = 0
    BY <2>2, NotDisplaced
  <2> QED
    BY <1>3, <1>4, <2>3, <2>4
<1> QED
  BY <1>5, <1>6, <1>7 DEF MeasuresFit

-----------------------------------------------------------------------------
\* Every scene of the rows is a scene of the order of the runs.
LEMMA SceneOrdered ==
  ASSUME EvaluationInv, stage \in Planned \ Working,
         NEW scene \in Range(rows) \union Range(severeRows)
  PROVE  \E x \in 1..Len(OrderIn(source)), k \in {"primary", "secondary"} :
           SceneIs(scene, OrderIn(source)[x], source[OrderIn(source)[x].case], k)
<1> DEFINE order == OrderIn(source)
<1>1. /\ Len(rows) = Len(order) /\ ScenesAre(order, source, severe, rows, severeRows)
  BY RowsDone
<1>2. PICK S, T : rows \in Seq(S) /\ severeRows \in Seq(T)
  BY <1>1 DEF ScenesAre
<1> HIDE DEF order
<1>3. CASE scene \in Range(rows)
  <2>1. PICK i \in 1..Len(rows) : rows[i] = scene
    BY <1>2, <1>3 DEF Range
  <2>2. i \in 1..Len(order) /\ SceneIs(scene, order[i], source[order[i].case], "primary")
    BY <1>1, <2>1 DEF ScenesAre
  <2> QED
    BY <2>2 DEF order
<1>4. CASE scene \in Range(severeRows)
  <2>1. PICK j \in 1..Len(severeRows) : severeRows[j] = scene
    BY <1>2, <1>4 DEF Range
  <2>2. PICK i \in SevereUpTo(order, severe, Len(rows)) :
          SceneIs(scene, order[i], source[order[i].case], "secondary")
    BY <1>1, <2>1 DEF ScenesAre
  <2>3. i \in 1..Len(order)
    BY <1>1 DEF SevereUpTo
  <2> QED
    BY <2>2, <2>3 DEF order
<1> QED
  BY <1>3, <1>4

\* Where the evaluation is at, its snapshots are logs.
LEMMA OrderedLog ==
  ASSUME EvaluationInv, stage \in Planned, NEW x \in 1..Len(OrderIn(source))
  PROVE  /\ OrderIn(source)[x] \in Jobs
         /\ source[OrderIn(source)[x].case] \in Logs
         /\ Eligible(source[OrderIn(source)[x].case])
<1>1. OrderIn(source)[x].case \in Cases /\ Eligible(source[OrderIn(source)[x].case])
  BY OrderAt
<1>2. OrderIn(source)[x] \in Jobs
  <2>1. OrderIn(source) \in Seq(Jobs)
    BY CasesListed
  <2> QED
    BY <2>1, MemberOf
<1>3. DOMAIN source = Cases /\ \A c \in DOMAIN source : source[c] \in Logs
  BY DEF EvaluationInv, TypesHold, CopiesHold, Planned, Working
<1> QED
  BY <1>1, <1>2, <1>3

\* In the invariant the measures of every scene fit together.
LEMMA InvariantMeasures ==
  ASSUME EvaluationInv, stage \in Planned \ Working
  PROVE  MeasuresAgree
<1>1. ASSUME NEW scene \in Range(rows) \union Range(severeRows)
      PROVE  MeasuresFit(scene)
  <2> DEFINE order == OrderIn(source)
  <2>1. PICK x \in 1..Len(order), k \in {"primary", "secondary"} :
          SceneIs(scene, order[x], source[order[x].case], k)
    BY SceneOrdered
  <2> DEFINE at == order[x]
             log == source[at.case]
  <2>2. at \in Jobs /\ log \in Logs /\ Eligible(log)
    BY <2>1, OrderedLog
  <2>3. SceneIs(scene, at, log, k)
    BY <2>1
  <2> HIDE DEF at, log
  <2> QED
    BY <2>2, <2>3, SceneMeasures
<1> QED
  BY <1>1 DEF MeasuresAgree, MeasuresFit

-----------------------------------------------------------------------------
(* No observation is a violation *)

\* A harder pulse leaves no more of the speed,
LEMMA HarderIsSlower ==
  ASSUME NEW weak \in Nat \ {0}, NEW strong \in Nat, weak <= strong,
         NEW t \in Nat, t >= Current
  PROVE  Deficit(weak, t) <= Deficit(strong, t)
<1> DEFINE lasted == Min({t - Current, Pulse})
<1>1. lasted \in Nat
  <2>1. Current \in Nat /\ Pulse \in Nat \ {0}
    BY WindowAssumption, HorizonAssumption
  <2>2. Min({t - Current, Pulse}) = IF t - Current <= Pulse THEN t - Current ELSE Pulse
    BY <2>1, MinOfTwo
  <2> QED
    BY <2>1, <2>2
<1>2. Deficit(weak, t) = weak * lasted /\ Deficit(strong, t) = strong * lasted
  BY DEF Deficit
<1> HIDE DEF lasted
<1> DEFINE more == strong - weak
<1>3. more \in Nat /\ strong = weak + more
  OBVIOUS
<1> HIDE DEF more
<1>4. (weak + more) * lasted = weak * lasted + more * lasted
  BY <1>1, <1>3
<1>5. more * lasted \in Nat /\ weak * lasted \in Nat
  BY <1>1, <1>3
<1> QED
  BY <1>2, <1>3, <1>4, <1>5

\* nor of the way.
LEMMA HarderIsShorter ==
  ASSUME NEW log \in Logs
  PROVE  NestedPlansMonotone(log)
<1> DEFINE weak == BrakePlan(log, PrimaryDose)
           strong == BrakePlan(log, SecondaryDose)
<1>1. /\ PrimaryDose \in Nat \ {0} /\ SecondaryDose \in Nat \ {0}
      /\ PrimaryDose <= SecondaryDose
  BY HorizonAssumption
<1>2. weak[Current] = strong[Current]
  BY <1>1, PlanStates
<1>3. ASSUME NEW t \in Frames
      PROVE  weak[t].spd \in Int /\ strong[t].spd \in Int /\ strong[t].spd <= weak[t].spd
  <2> DEFINE v == log[t][Ego].spd
             d == Deficit(PrimaryDose, t)
             e == Deficit(SecondaryDose, t)
  <2>1. t \in Nat /\ t >= Current /\ t \in 0..LastFrame
    BY Horizon DEF Frames
  <2>2. v \in Nat
    BY <2>1, LogStates
  <2>3. d \in Nat /\ e \in Nat
    BY <1>1, <2>1, DeficitIs
  <2>4. d <= e
    BY <1>1, <2>1, HarderIsSlower
  <2>5. weak[t].spd = Max({0, v - d}) /\ strong[t].spd = Max({0, v - e})
    BY DEF BrakePlan
  <2> HIDE DEF v, d, e, weak, strong
  <2>6. v - d \in Int /\ v - e \in Int
    BY <2>2, <2>3
  <2>7. /\ Max({0, v - d}) = IF 0 >= v - d THEN 0 ELSE v - d
        /\ Max({0, v - e}) = IF 0 >= v - e THEN 0 ELSE v - e
    BY <2>6, MaxOfTwo
  <2> QED
    BY <2>2, <2>3, <2>4, <2>5, <2>7
<1> HIDE DEF weak, strong
<1>4. ASSUME NEW t \in Scored PROVE Progress(strong, t) <= Progress(weak, t)
  <2> DEFINE S == Current..(t - 1)
             f == [s \in S |-> strong[s].spd + strong[s + 1].spd]
             g == [s \in S |-> weak[s].spd + weak[s + 1].spd]
  <2>1. t \in Int /\ t <= Stop /\ Current \in Int /\ t - 1 \in Int
    BY Horizon DEF Scored, Frames
  <2>2. IsFiniteSet(S)
    BY <2>1, FS_Interval
  <2>3. \A s \in S : s \in Frames /\ s + 1 \in Frames
    BY <2>1, Horizon DEF Frames
  <2>4. Progress(strong, t) = SumFunction(f) /\ Progress(weak, t) = SumFunction(g)
    BY DEF Progress
  <2>5. ASSUME NEW s \in S
        PROVE  f[s] \in Int /\ g[s] \in Int /\ f[s] <= g[s]
    BY <1>3, <2>3
  <2>6. f \in [S -> Int] /\ g \in [S -> Int]
    BY <2>5
  <2> HIDE DEF S, f, g
  <2>7. \A s \in S : f[s] <= g[s]
    BY <2>5
  <2> QED
    BY <2>2, <2>4, <2>6, <2>7, SumGrows
<1>5. \A t \in Scored : strong[t].spd <= weak[t].spd
  BY <1>3, Horizon
<1> QED
  BY <1>2, <1>4, <1>5 DEF NestedPlansMonotone, weak, strong

\* The scene of an eligible case and a policy is there, and holds.
LEMMA SceneOfCase ==
  ASSUME EvaluationInv, stage = "published", NEW c \in Cases, Eligible(source[c]),
         NEW policy \in Policies
  PROVE  /\ SceneOf(c, policy) \in Range(rows)
         /\ SceneOf(c, policy).case = c /\ SceneOf(c, policy).policy = policy
         /\ SceneHolds(SceneOf(c, policy), PrimaryDose)
<1>1. Cardinality(Under(rows, c, policy)) = 1
  BY RowsReturned
<1>2. Under(rows, c, policy) # {}
  BY <1>1, FS_EmptySet
<1>3. \E s \in Range(rows) : s.case = c /\ s.policy = policy
  BY <1>2 DEF Under
<1>4. /\ SceneOf(c, policy) \in Range(rows)
      /\ SceneOf(c, policy).case = c /\ SceneOf(c, policy).policy = policy
  BY <1>3 DEF SceneOf
<1>5. stage \in Planned \ Working
  BY DEF Planned, Working
<1> QED
  BY <1>4, <1>5, ScenesOfRowsHold

\* Its gates pass,
LEMMA SceneGatesPass ==
  ASSUME EvaluationInv, stage = "published", NEW c \in Cases, Eligible(source[c]),
         NEW policy \in Policies
  PROVE  /\ policy \in Nonreactive => Passed("world_equality", c, policy)
         /\ Passed("sham_equality", c, policy) /\ Passed("response_floor", c, policy)
<1> DEFINE scene == SceneOf(c, policy)
           base == scene.baseline.frames
           treated == scene.treated.frames
<1>1. scene.case = c /\ scene.policy = policy /\ SceneHolds(scene, PrimaryDose)
  BY SceneOfCase
<1> HIDE DEF scene
<1>2. ShamHolds([legacy |-> scene.legacy, identity |-> scene.baseline])
  BY <1>1 DEF SceneHolds
<1>3. FloorHolds(base, treated)
  BY <1>1 DEF SceneHolds, PairHolds
<1>4. policy \in Nonreactive => WorldAgrees(base, treated)
  BY <1>1 DEF SceneHolds, NonreactivityHolds, ExactlyNonreactive
<1>5. policy \in Nonreactive => Passed("world_equality", c, policy)
  BY <1>4 DEF Passed, scene
<1>6. Passed("sham_equality", c, policy)
  BY <1>2 DEF Passed, scene
<1>7. Passed("response_floor", c, policy)
  BY <1>3 DEF Passed, scene
<1> QED
  BY <1>5, <1>6, <1>7

\* and those of the plans.
LEMMA PlanGatesPass ==
  ASSUME EvaluationInv, stage = "published", NEW c \in Cases, Eligible(source[c])
  PROVE  Passed("plan_feasibility", c, "none") /\ Passed("nested_doses", c, "none")
<1>1. source[c] \in Logs
  BY DEF EvaluationInv, TypesHold, CopiesHold
<1>2. Audit(BrakePlan(source[c], PrimaryDose))
  BY DEF Eligible
<1>3. NestedPlansMonotone(source[c])
  BY <1>1, HarderIsShorter
<1> QED
  BY <1>2, <1>3 DEF Passed

\* So every observation is made that must be, and no other.
LEMMA GatesObserve ==
  ASSUME EvaluationInv, stage = "published",
         NEW x \in 1..6, NEW i \in 1..Len(CasesOf(x)), NEW j \in 1..Len(NegativeGates[x].policies)
  PROVE  Passed(NegativeGates[x].gate, CasesOf(x)[i], NegativeGates[x].policies[j])
<1> DEFINE c == CasesOf(x)[i]
<1>1. c \in Cases /\ Eligible(source[c])
  <2>1. /\ EligibleCases \in Seq(Cases) /\ SevereCases \in Seq(Cases)
        /\ Range(EligibleCases) = {d \in Cases : Eligible(source[d])}
        /\ Range(SevereCases) = {d \in Cases : Eligible(source[d]) /\ SevereFeasible(source[d])}
    BY CasesOfResult
  <2>2. CASE CasesOf(x) = EligibleCases
    <3>1. c \in Range(EligibleCases)
      BY <2>1, <2>2 DEF Range
    <3> QED
      BY <2>1, <3>1
  <2>3. CASE CasesOf(x) = SevereCases
    <3>1. c \in Range(SevereCases)
      BY <2>1, <2>3 DEF Range
    <3> QED
      BY <2>1, <3>1
  <2> QED
    BY <2>2, <2>3 DEF CasesOf
<1> HIDE DEF c
<1>2. /\ \A policy \in Policies :
           /\ policy \in Nonreactive => Passed("world_equality", c, policy)
           /\ Passed("sham_equality", c, policy) /\ Passed("response_floor", c, policy)
      /\ Passed("plan_feasibility", c, "none") /\ Passed("nested_doses", c, "none")
  BY <1>1, SceneGatesPass, PlanGatesPass
<1>3. PolicyOrder = <<"log_replay", "constant_velocity", "idm">>
  BY DEF PolicyOrder
<1>4. x = 1 \/ x = 2 \/ x = 3 \/ x = 4 \/ x = 5 \/ x = 6
  OBVIOUS
<1> DEFINE policy == NegativeGates[x].policies[j]
           gate == NegativeGates[x].gate
<1>5. \/ gate = "world_equality" /\ policy \in Nonreactive
      \/ gate \in {"sham_equality", "response_floor"} /\ policy \in Policies
      \/ gate \in {"plan_feasibility", "nested_doses"} /\ policy = "none"
  <2>1. CASE x \in {1, 2, 5, 6}
    <3>1. Len(NegativeGates[x].policies) = 1
      BY <2>1 DEF NegativeGates
    <3>2. j = 1
      BY <3>1
    <3> QED
      BY <2>1, <3>2 DEF NegativeGates, Nonreactive
  <2>2. CASE x \in {3, 4}
    <3>1. NegativeGates[x].policies = PolicyOrder /\ gate \in {"sham_equality", "response_floor"}
      BY <2>2 DEF NegativeGates
    <3>2. j \in 1..3
      BY <3>1, PolicyOrderIs
    <3> QED
      BY <3>1, <3>2, PolicyOrderIs
  <2> QED
    BY <1>4, <2>1, <2>2
<1>6. Nonreactive \subseteq Policies
  BY DEF Nonreactive, Policies
<1> HIDE DEF policy, gate
<1>7. Passed(gate, c, policy)
  BY <1>2, <1>5, <1>6
<1> QED
  BY <1>7 DEF policy, gate, c

\* No observation of the table is a violation.
LEMMA NoViolation ==
  ASSUME EvaluationInv, stage = "published"
  PROVE  \A row \in Range(NegativeRows) : ~row.violation
<1> DEFINE Of(x) == {ObservationOf(NegativeGates[x].gate, CasesOf(x)[i], NegativeGates[x].policies[j]) :
                       i \in 1..Len(CasesOf(x)), j \in 1..Len(NegativeGates[x].policies)}
           T == UNION {Of(x) : x \in 1..6}
<1>1. ASSUME NEW x \in 1..6, NEW i \in 1..Len(CasesOf(x)),
             NEW j \in 1..Len(NegativeGates[x].policies)
      PROVE  ObservationOf(NegativeGates[x].gate, CasesOf(x)[i], NegativeGates[x].policies[j]) \in T
  <2>1. ObservationOf(NegativeGates[x].gate, CasesOf(x)[i], NegativeGates[x].policies[j]) \in Of(x)
    OBVIOUS
  <2> HIDE DEF Of
  <2> QED
    BY <2>1
<1>2. ASSUME NEW row \in T PROVE ~row.violation
  <2>1. PICK x \in 1..6 : row \in Of(x)
    OBVIOUS
  <2>2. PICK i \in 1..Len(CasesOf(x)), j \in 1..Len(NegativeGates[x].policies) :
          row = ObservationOf(NegativeGates[x].gate, CasesOf(x)[i], NegativeGates[x].policies[j])
    BY <2>1
  <2> HIDE DEF Of, T
  <2> DEFINE c == CasesOf(x)[i]
             gate == NegativeGates[x].gate
             policy == NegativeGates[x].policies[j]
  <2>3. Passed(gate, c, policy)
    BY GatesObserve
  <2>4. row = ObservationOf(gate, c, policy)
    BY <2>2
  <2> HIDE DEF c, gate, policy
  <2>5. row.violation = ~Passed(gate, c, policy)
    BY <2>4 DEF ObservationOf
  <2> QED
    BY <2>3, <2>5
<1> HIDE DEF T
<1>3. ObservedIn(T)
  BY <1>1 DEF ObservedIn
<1>4. NegativeRows \in Seq(T)
  BY <1>3, CasesOfResult, NegativeRowsAre
<1> QED
  BY <1>2, <1>4 DEF Range

-----------------------------------------------------------------------------
(* What the values of a scene are *)

\* The gaps of a rollout have a least.
LEMMA LeastGap ==
  ASSUME NEW frames, NEW a,
         \A t \in Frames : frames[t][a].pos \in Int /\ frames[t][Ego].pos \in Int
  PROVE  MinimumGapOf(frames, a) \in Int
<1> DEFINE f == [t \in Scored |-> Gap(frames[t], a, Ego)]
<1>1. Scored \subseteq Frames /\ Scored # {} /\ IsFiniteSet(Scored)
  <2>1. Current + 1 \in Int /\ Stop \in Int /\ Current + 1 \in Scored
    BY Horizon DEF Scored
  <2>2. IsFiniteSet(Scored)
    BY <2>1, FS_Interval DEF Scored
  <2> QED
    BY <2>1, <2>2, Horizon
<1>2. ASSUME NEW t \in Scored PROVE f[t] \in Int
  <2>1. AgentLength \in Int
    BY LimitsAssumption
  <2> QED
    BY <1>1, <2>1 DEF Gap
<1>3. f \in [Scored -> Int] /\ \A t \in Scored : f[t] <= f[t]
  BY <1>2
<1>4. MinimumGapOf(frames, a) = Min({f[t] : t \in Scored})
  <2>1. {f[t] : t \in Scored} = {Gap(frames[t], a, Ego) : t \in Scored}
    OBVIOUS
  <2> QED
    BY <2>1 DEF MinimumGapOf
<1> HIDE DEF f
<1>5. f \in [Scored -> Int]
  BY <1>3
<1>6. \A t \in Scored : f[t] <= f[t]
  BY <1>3
<1> QED
  BY <1>1, <1>4, <1>5, <1>6, MinBelow

\* The values of a scene are numbers, time that is left means that there was an
\* answer, and a policy that cannot answer is only ever nearer.
ValuesFit(scene) ==
  /\ \A metric \in Metrics : scene.primary[metric].value \in Int
  /\ scene.primary["timeliness"].value > 0 => scene.primary["timeliness"].answer = "responded"
  /\ scene.policy \in Nonreactive =>
       \A metric \in Metrics \ {"gap"} : scene.primary[metric].value = 0

\* The values of a scene of the order are such.
LEMMA SceneValues ==
  ASSUME NEW log \in Logs, Eligible(log), NEW at \in Jobs, NEW k \in {"primary", "secondary"},
         NEW scene, SceneIs(scene, at, log, k)
  PROVE  ValuesFit(scene)
<1> DEFINE r == scene.baseline
           s == scene.treated
           policy == at.policy
           base == r.frames
           treated == s.frames
           a == Target(log)
<1>1. /\ policy \in Policies /\ scene.policy = policy
      /\ Executed(r, policy, log, "identity", Stop) /\ Executed(s, policy, log, k, Stop)
      /\ scene.primary = PrimaryResults(base, treated, a)
  BY DEF SceneIs, Jobs
<1>2. /\ HasSpeeds(base, a) /\ HasSpeeds(treated, a)
      /\ \A t \in Frames : /\ base[t][a].pos \in Int /\ treated[t][a].pos \in Int
                           /\ base[t][Ego].pos \in Int /\ treated[t][Ego].pos \in Int
  <2> HIDE DEF r, s, policy
  <2>1. HasSpeeds(base, a) /\ HasSpeeds(treated, a)
    BY <1>1, SceneRuns
  <2>2. \A t \in Frames : /\ base[t][a].pos \in Int
                         /\ treated[t][a].pos \in Int
                         /\ base[t][Ego].pos \in Int
                         /\ treated[t][Ego].pos \in Int
                         /\ treated[t][Ego].pos <= base[t][Ego].pos
    BY <1>1, SceneRuns
  <2> HIDE DEF base, treated, a
  <2> QED
    BY <2>1, <2>2
<1>3. policy \in Nonreactive =>
        \A metric \in {"impulse", "timeliness", "loss"} :
          PrimaryResults(base, treated, a)[metric].value = 0
  <2>1. "identity" \in Conditions \ {"legacy"} /\ k \in Conditions \ {"legacy"}
        /\ Targets(log) # {}
    BY DEF Conditions, Eligible
  <2>2. NonreactivityHolds(policy, log, base, treated)
    <3> HIDE DEF r, s, policy
    <3> QED
      BY <1>1, <2>1, NonreactivityOf
  <2> QED
    BY <2>2 DEF NonreactivityHolds, ExactlyNonreactive
<1> HIDE DEF r, s, policy, base, treated, a
<1> DEFINE answers == Responses(base, treated, a)
<1>4. /\ scene.primary["impulse"].value = Impulse(base, treated, a)
      /\ scene.primary["timeliness"].value = Timeliness(answers)
      /\ scene.primary["timeliness"].answer = Answered(answers)
      /\ scene.primary["gap"].value = GapChange(base, treated, a)
      /\ scene.primary["loss"].value = ProgressLoss(base, treated, a)
  BY <1>1 DEF PrimaryResults
<1>5. Impulse(base, treated, a) \in Int
  BY <1>2, ImpulseIs
<1>6. Timeliness(answers) \in Int /\ (Timeliness(answers) > 0 => Answered(answers) = "responded")
  <2>1. answers # {} => Latency(answers) \in Nat \ {0}
    BY ResponsesAre
  <2>2. Window \in Nat
    BY WindowAssumption
  <2> HIDE DEF answers
  <2>3. CASE answers = {}
    BY <2>3 DEF Timeliness
  <2>4. CASE answers # {}
    BY <2>1, <2>2, <2>4 DEF Timeliness, Answered
  <2> QED
    BY <2>3, <2>4
<1>7. GapChange(base, treated, a) \in Int
  <2>1. \A t \in Frames : base[t][a].pos \in Int /\ base[t][Ego].pos \in Int
    BY <1>2
  <2>2. \A t \in Frames : treated[t][a].pos \in Int /\ treated[t][Ego].pos \in Int
    BY <1>2
  <2>3. MinimumGapOf(base, a) \in Int
    BY <2>1, LeastGap
  <2>4. MinimumGapOf(treated, a) \in Int
    BY <2>2, LeastGap
  <2> QED
    BY <2>3, <2>4 DEF GapChange
<1>8. ProgressLoss(base, treated, a) \in Int
  <2>1. Stop \in Frames
    BY Horizon DEF Frames
  <2> QED
    BY <1>2, <2>1 DEF ProgressLoss
<1> HIDE DEF answers
<1>9. \A metric \in Metrics : scene.primary[metric].value \in Int
  BY <1>4, <1>5, <1>6, <1>7, <1>8 DEF Metrics
<1>10. scene.policy \in Nonreactive =>
         \A metric \in Metrics \ {"gap"} : scene.primary[metric].value = 0
  BY <1>1, <1>3 DEF Metrics
<1> QED
  BY <1>4, <1>6, <1>9, <1>10 DEF ValuesFit

-----------------------------------------------------------------------------
(* What a cell sums up *)

\* The row of the k-th case under the p-th policy.
RowFor(results, p, k) == results[3 * (k - 1) + p]

ValuesFor(results, p, metric, n) ==
  [k \in 1..n |-> RowFor(results, p, k).primary[metric].value]

\* The effects of a cell are those of the rows of its policy, case by case.
LEMMA CellEffects ==
  ASSUME NEW results, NEW S \in SUBSET Int, IsFiniteSet(S), Tabled(results, Ascending(S)),
         NEW p \in 1..3, NEW metric \in Metrics, NEW cell,
         cell = CellInput(results, PolicyOrder[p], metric)
  PROVE  /\ cell.policy = PolicyOrder[p] /\ cell.metric = metric
         /\ Len(cell.effects) = Cardinality(S) /\ DOMAIN cell.effects = 1..Cardinality(S)
         /\ \A k \in 1..Cardinality(S) :
              cell.effects[k] = Effect(RowFor(results, p, k), metric)
<1> DEFINE policy == PolicyOrder[p]
           ofPolicy == {x \in DOMAIN results : results[x].policy = policy}
           cases == Ascending(S)
           n == Cardinality(S)
           Place(c) == CHOOSE x \in ofPolicy : results[x].case = c
           listed == Ascending({results[x].case : x \in ofPolicy})
<1>1. policy \in Policies
  BY PolicyOrderIs
<1>2. {results[x].case : x \in ofPolicy} = S
  <2> HIDE DEF policy
  <2> QED
    BY <1>1, PolicyRows
<1>3. /\ cases \in Seq(S) /\ Len(cases) = n /\ n \in Nat
      /\ \A i, j \in 1..n : cases[i] = cases[j] => i = j
  BY AscendingIs, FS_CardinalityType
<1>4. /\ cell.policy = policy /\ cell.metric = metric
      /\ cell.effects = [k \in 1..Len(listed) |-> Effect(results[Place(listed[k])], metric)]
  BY DEF CellInput
<1>5. listed = cases
  BY <1>2
<1>6. /\ DOMAIN results = 1..(3 * n)
      /\ \A i \in 1..n, q \in 1..3 :
           /\ results[3 * (i - 1) + q].case = cases[i]
           /\ results[3 * (i - 1) + q].policy = PolicyOrder[q]
  <2>1. Tabled(results, cases)
    OBVIOUS
  <2> HIDE DEF ofPolicy, listed, Place, cases, n, policy
  <2>2. (\E U : results \in Seq(U)) /\ Len(results) = 3 * n
    BY <1>3, <2>1 DEF Tabled
  <2>3. DOMAIN results = 1..(3 * n)
    BY <2>2
  <2>4. \A i \in 1..n, q \in 1..3 :
          /\ results[3 * (i - 1) + q].case = cases[i]
          /\ results[3 * (i - 1) + q].policy = PolicyOrder[q]
    BY <1>3, <2>1 DEF Tabled
  <2> QED
    BY <2>3, <2>4
<1> HIDE DEF ofPolicy, listed, Place, cases, n
<1>7. cell.effects = [k \in 1..n |-> Effect(results[Place(cases[k])], metric)]
  BY <1>3, <1>4, <1>5
<1>8. ASSUME NEW k \in 1..n PROVE Place(cases[k]) = 3 * (k - 1) + p
  <2> DEFINE here == 3 * (k - 1) + p
  <2>1. here \in 1..(3 * n)
    BY <1>3
  <2>2. here \in ofPolicy /\ results[here].case = cases[k]
    BY <1>6, <2>1 DEF ofPolicy, policy
  <2>3. ASSUME NEW x \in ofPolicy, results[x].case = cases[k] PROVE x = here
    <3>1. x \in 1..(3 * n) /\ results[x].policy = policy
      BY <1>6 DEF ofPolicy
    <3>2. PICK i \in 1..n, q \in 1..3 : x = 3 * (i - 1) + q
      BY <1>3, <3>1, PlaceInThree
    <3>3. PolicyOrder[q] = PolicyOrder[p] /\ cases[i] = cases[k]
      BY <1>6, <2>3, <3>1, <3>2 DEF policy
    <3>4. q = p /\ i = k
      BY <1>3, <3>3, PolicyOrderIs
    <3> QED
      BY <3>2, <3>4
  <2> HIDE DEF here
  <2>4. Place(cases[k]) = here
    BY <2>2, <2>3 DEF Place
  <2> QED
    BY <2>4 DEF here
<1>9. ASSUME NEW k \in 1..n
      PROVE  cell.effects[k] = Effect(RowFor(results, p, k), metric)
  BY <1>7, <1>8 DEF RowFor
<1>10. Len(cell.effects) = n /\ DOMAIN cell.effects = 1..n
  BY <1>3, <1>7
<1> QED
  BY <1>4, <1>9, <1>10 DEF n, policy

\* The band of a cell, whose ends are the least and the greatest of its values.
Band(values) == Min(Range(values))..Max(Range(values))

\* Which of the cases count as events, and which gave an answer.
EventsFor(results, p, metric, n) ==
  {k \in 1..n : Counts(metric, RowFor(results, p, k).primary[metric].value)}
RespondersFor(results, p, metric, n) ==
  {k \in 1..n : RowFor(results, p, k).primary[metric].answer = "responded"}

\* What a cell says of the rows of its policy.
CellSays(cell, results, p, metric, n) ==
  /\ cell.policy = PolicyOrder[p] /\ cell.metric = metric /\ cell.pairs = n
  /\ cell.sum = SumFunction(ValuesFor(results, p, metric, n))
  /\ cell.events = Cardinality(EventsFor(results, p, metric, n))
  /\ cell.sign = Sign(Status(n, Cardinality(EventsFor(results, p, metric, n)),
                             Band(ValuesFor(results, p, metric, n))),
                      Band(ValuesFor(results, p, metric, n)))
  /\ metric = "timeliness" =>
       cell.responders = Cardinality(RespondersFor(results, p, metric, n))

\* A cell says this of the rows of its policy.
LEMMA CellIs ==
  ASSUME NEW results, NEW S \in SUBSET Int, IsFiniteSet(S), Tabled(results, Ascending(S)),
         NEW p \in 1..3, NEW metric \in Metrics
  PROVE  CellSays(Cell(CellInput(results, PolicyOrder[p], metric)), results, p, metric,
                  Cardinality(S))
<1> DEFINE input == CellInput(results, PolicyOrder[p], metric)
           n == Cardinality(S)
           values == [i \in 1..Len(input.effects) |-> input.effects[i].value]
           events == {i \in DOMAIN values : Counts(input.metric, values[i])}
           responders == {i \in DOMAIN values : input.effects[i].answer = "responded"}
<1>1. /\ input.policy = PolicyOrder[p] /\ input.metric = metric
      /\ Len(input.effects) = n
      /\ \A k \in 1..n : input.effects[k] = Effect(RowFor(results, p, k), metric)
  <2> HIDE DEF input
  <2>1. input = CellInput(results, PolicyOrder[p], metric)
    BY DEF input
  <2> QED
    BY <2>1, CellEffects
<1>2. n \in Nat
  BY FS_CardinalityType
<1>3. /\ Cell(input).policy = input.policy /\ Cell(input).metric = input.metric
      /\ Cell(input).pairs = Len(values) /\ Cell(input).sum = SumFunction(values)
      /\ Cell(input).events = Cardinality(events)
      /\ Cell(input).sign = Sign(Status(Len(values), Cardinality(events), Band(values)),
                                 Band(values))
      /\ input.metric = "timeliness" => Cell(input).responders = Cardinality(responders)
  BY DEF Cell, Band
<1> HIDE DEF input
<1>4. ASSUME NEW k \in 1..n
      PROVE  /\ input.effects[k].value = RowFor(results, p, k).primary[metric].value
             /\ input.effects[k].answer = RowFor(results, p, k).primary[metric].answer
  <2> DEFINE row == RowFor(results, p, k)
  <2>1. input.effects[k] = Effect(row, metric)
    BY <1>1
  <2> HIDE DEF row
  <2>2. /\ input.effects[k].value = row.primary[metric].value
        /\ input.effects[k].answer = row.primary[metric].answer
    BY <2>1 DEF Effect
  <2> QED
    BY <2>2 DEF row
<1>5. values = ValuesFor(results, p, metric, n)
  BY <1>1, <1>4 DEF ValuesFor
<1>6. Len(values) = n /\ DOMAIN values = 1..n
  BY <1>1, <1>2
<1>7. events = EventsFor(results, p, metric, n)
  BY <1>1, <1>4 DEF EventsFor
<1>8. responders = RespondersFor(results, p, metric, n)
  BY <1>1, <1>4 DEF RespondersFor
<1> HIDE DEF values, events, responders
<1>9. CellSays(Cell(input), results, p, metric, n)
  BY <1>1, <1>3, <1>5, <1>6, <1>7, <1>8 DEF CellSays
<1> QED
  BY <1>9 DEF input, n

-----------------------------------------------------------------------------
(* What the cells say of each other *)

RowsFit(results, n) ==
  \A p \in 1..3, k \in 1..n :
    /\ ValuesFit(RowFor(results, p, k)) /\ MeasuresFit(RowFor(results, p, k))
    /\ RowFor(results, p, k).policy = PolicyOrder[p]

\* No more cases leave time than answered,
LEMMA EventsAnswered ==
  ASSUME NEW results, NEW n \in Nat, RowsFit(results, n), NEW p \in 1..3
  PROVE  Cardinality(EventsFor(results, p, "timeliness", n))
           <= Cardinality(RespondersFor(results, p, "timeliness", n))
<1> DEFINE E == EventsFor(results, p, "timeliness", n)
           R == RespondersFor(results, p, "timeliness", n)
<1>1. ASSUME NEW k \in E PROVE k \in R
  <2> DEFINE row == RowFor(results, p, k)
  <2>1. k \in 1..n /\ Counts("timeliness", row.primary["timeliness"].value)
    BY DEF EventsFor
  <2>2. ValuesFit(row)
    BY <2>1 DEF RowsFit
  <2> HIDE DEF row
  <2>3. row.primary["timeliness"].value > 0
    BY <2>1 DEF Counts
  <2>4. row.primary["timeliness"].answer = "responded"
    BY <2>2, <2>3 DEF ValuesFit
  <2> QED
    BY <2>1, <2>4 DEF RespondersFor, row
<1>2. IsFiniteSet(R)
  <2>1. R \in SUBSET (1..n) /\ IsFiniteSet(1..n)
    BY FS_Interval DEF RespondersFor
  <2> QED
    BY <2>1, FS_Subset
<1> HIDE DEF E, R
<1> QED
  BY <1>1, <1>2, FS_Subset DEF E, R

\* and no more answered than braked.
LEMMA RespondersBraked ==
  ASSUME NEW results, NEW n \in Nat, RowsFit(results, n), NEW p \in 1..3
  PROVE  Cardinality(RespondersFor(results, p, "timeliness", n))
           <= Cardinality(EventsFor(results, p, "impulse", n))
<1> DEFINE R == RespondersFor(results, p, "timeliness", n)
           E == EventsFor(results, p, "impulse", n)
<1>1. ASSUME NEW k \in R PROVE k \in E
  <2> DEFINE row == RowFor(results, p, k)
  <2>1. k \in 1..n /\ row.primary["timeliness"].answer = "responded"
    BY DEF RespondersFor
  <2>2. ValuesFit(row) /\ MeasuresFit(row)
    BY <2>1 DEF RowsFit
  <2> HIDE DEF row
  <2>3. row.primary["impulse"].value >= Persistence * ResponseThreshold
    BY <2>1, <2>2 DEF MeasuresFit
  <2>4. row.primary["impulse"].value \in Int
    BY <2>2 DEF ValuesFit, Metrics
  <2>5. Persistence * ResponseThreshold \in Nat /\ Persistence * ResponseThreshold > 0
    <3> DEFINE h == Persistence - 1
               r == ResponseThreshold
    <3>1. h \in Nat /\ Persistence = h + 1 /\ r \in Nat /\ r > 0
      BY WindowAssumption
    <3> HIDE DEF h, r
    <3>2. (h + 1) * r = h * r + r /\ h * r \in Nat
      BY <3>1, Times
    <3>3. (h + 1) * r \in Nat /\ (h + 1) * r > 0
      BY <3>1, <3>2
    <3> QED
      BY <3>1, <3>3 DEF r
  <2>6. row.primary["impulse"].value > 0
    BY <2>3, <2>4, <2>5
  <2>7. Counts("impulse", row.primary["impulse"].value)
    BY <2>6 DEF Counts
  <2> QED
    BY <2>1, <2>7 DEF EventsFor, row
<1>2. IsFiniteSet(E)
  <2>1. E \in SUBSET (1..n) /\ IsFiniteSet(1..n)
    BY FS_Interval DEF EventsFor
  <2> QED
    BY <2>1, FS_Subset
<1> HIDE DEF E, R
<1> QED
  BY <1>1, <1>2, FS_Subset DEF E, R

\* A band has a least and a greatest, between which all values are.
LEMMA BandOf ==
  ASSUME NEW n \in Nat \ {0}, NEW values \in [1..n -> Int]
  PROVE  /\ Min(Range(values)) \in Range(values) /\ Max(Range(values)) \in Range(values)
         /\ Min(Range(values)) \in Int /\ Max(Range(values)) \in Int
         /\ Min(Range(values)) <= Max(Range(values))
<1> DEFINE V == Range(values)
<1>1. V \in SUBSET Int /\ 1 \in 1..n /\ values[1] \in V
  BY DEF Range
<1>2. IsFiniteSet(V)
  <2>1. values \in Surjection(1..n, V) /\ IsFiniteSet(1..n)
    BY FS_Interval DEF Surjection, Range
  <2> HIDE DEF V
  <2> QED
    BY <2>1, FS_Surjection
<1> HIDE DEF V
<1>3. V # {}
  BY <1>1
<1>4. Min(V) \in V /\ \A x \in V : Min(V) <= x
  BY <1>1, <1>2, <1>3, MinIsLeast
<1>5. Max(V) \in V
  BY <1>1, <1>2, <1>3, MaxIsGreatest
<1> QED
  BY <1>1, <1>4, <1>5 DEF V

\* Under a policy that cannot answer only the gap is given a direction, downwards.
LEMMA SignOf ==
  ASSUME NEW results, NEW n \in Nat \ {0}, RowsFit(results, n), NEW p \in 1..3,
         PolicyOrder[p] \in Nonreactive, NEW metric \in Metrics, NEW events \in Nat,
         NEW values, values = ValuesFor(results, p, metric, n),
         Sign(Status(n, events, Band(values)), Band(values)) # "none"
  PROVE  metric = "gap" /\ Sign(Status(n, events, Band(values)), Band(values)) = "negative"
<1>1. ASSUME NEW k \in 1..n
      PROVE  /\ values[k] \in Int /\ (metric # "gap" => values[k] = 0)
             /\ (metric = "gap" => values[k] <= 0)
  <2> DEFINE row == RowFor(results, p, k)
  <2>1. ValuesFit(row) /\ MeasuresFit(row) /\ row.policy \in Nonreactive
    BY DEF RowsFit
  <2>2. values[k] = row.primary[metric].value
    BY DEF ValuesFor
  <2> HIDE DEF row
  <2> QED
    BY <2>1, <2>2 DEF ValuesFit, MeasuresFit
<1>2. values \in [1..n -> Int] /\ \A x \in Range(values) : \E k \in 1..n : x = values[k]
  BY <1>1 DEF ValuesFor, Range
<1> DEFINE low == Min(Range(values))
           high == Max(Range(values))
<1>3. low \in Range(values) /\ high \in Range(values) /\ low \in Int /\ high \in Int /\ low <= high
  BY <1>2, BandOf
<1>4. Band(values) = low..high
  BY DEF Band
<1> HIDE DEF low, high
<1> DEFINE band == Band(values)
           status == Status(n, events, band)
<1>5. status = "direction_supported"
  BY DEF Sign
<1>6. 0 \notin band
  <2>1. SparseEvents \in Nat /\ SmallSample \in Nat
    BY SampleAssumption
  <2> HIDE DEF band
  <2> QED
    BY <1>5, <2>1 DEF Status
<1>7. metric = "gap"
  <2> SUFFICES ASSUME metric # "gap" PROVE FALSE
    OBVIOUS
  <2>1. low = 0 /\ high = 0
    BY <1>1, <1>2, <1>3
  <2> QED
    BY <1>4, <1>6, <2>1
<1>8. low <= 0
  BY <1>1, <1>2, <1>3, <1>7
<1>9. ~(Min(band) > 0)
  <2>1. low \in band /\ IsFiniteSet(band) /\ band \in SUBSET Int
    BY <1>3, <1>4, FS_Interval
  <2> HIDE DEF band
  <2>2. Min(band) \in band /\ Min(band) <= low
    BY <2>1, MinIsLeast
  <2>3. Min(band) \in Int
    BY <2>1, <2>2
  <2> QED
    BY <1>3, <1>8, <2>2, <2>3
<1> HIDE DEF band, status
<1>10. Sign(status, band) = "negative"
  BY <1>5, <1>9 DEF Sign
<1> QED
  BY <1>7, <1>10 DEF status, band

-----------------------------------------------------------------------------
(* The cells, and the tables they count *)

CellFor(results, p, metric) == Cell(CellInput(results, PolicyOrder[p], metric))

\* The matrix has a cell for every policy and every measure, and no other.
LEMMA MatrixCells ==
  ASSUME NEW results, NEW m, m = Matrix(CellInputs(results))
  PROVE  /\ \A cell \in Range(m.cells) : \E p \in 1..3, metric \in Metrics :
              cell = CellFor(results, p, metric)
         /\ \A p \in 1..3, metric \in Metrics : CellFor(results, p, metric) \in Range(m.cells)
<1> DEFINE inputs == CellInputs(results)
<1>1. DOMAIN inputs = 1..12 /\ Len(inputs) = 12
      /\ \A i \in 1..12 : inputs[i] = CellInput(results, CellOrder[i].policy, CellOrder[i].metric)
  BY CellOrderIs DEF CellInputs
<1>2. m.cells = [i \in 1..Len(inputs) |-> Cell(inputs[i])]
  BY DEF Matrix
<1> HIDE DEF inputs
<1>3. DOMAIN m.cells = 1..12
      /\ \A i \in 1..12 :
           m.cells[i] = Cell(CellInput(results, CellOrder[i].policy, CellOrder[i].metric))
  BY <1>1, <1>2
<1>4. ASSUME NEW cell \in Range(m.cells)
      PROVE  \E p \in 1..3, metric \in Metrics : cell = CellFor(results, p, metric)
  <2>1. PICK i \in 1..12 : m.cells[i] = cell
    BY <1>3 DEF Range
  <2>2. CellOrder[i].policy \in Policies /\ CellOrder[i].metric \in Metrics
    BY CellOrderIs
  <2>3. PICK p \in 1..3 : PolicyOrder[p] = CellOrder[i].policy
    BY <2>2, PolicyOrderIs
  <2> QED
    BY <1>3, <2>1, <2>2, <2>3 DEF CellFor
<1>5. ASSUME NEW p \in 1..3, NEW metric \in Metrics
      PROVE  CellFor(results, p, metric) \in Range(m.cells)
  <2>1. PICK j \in 1..4 : PrimaryMetrics[j] = metric
    BY MetricsAre
  <2> DEFINE i == 4 * (p - 1) + j
  <2>2. i \in 1..12
    OBVIOUS
  <2>3. CellOrder[i] = [policy |-> PolicyOrder[p], metric |-> metric]
    BY <2>1, CellOrderIs
  <2> HIDE DEF i
  <2>4. m.cells[i] = CellFor(results, p, metric)
    BY <1>3, <2>2, <2>3 DEF CellFor
  <2> QED
    BY <1>3, <2>2, <2>4 DEF Range
<1> QED
  BY <1>4, <1>5

\* The cell of a policy and a measure is found by them.
LEMMA CellFound ==
  ASSUME NEW results, NEW S \in SUBSET Int, IsFiniteSet(S), Tabled(results, Ascending(S)),
         NEW m, m = Matrix(CellInputs(results)), NEW p \in 1..3, NEW metric \in Metrics
  PROVE  (CHOOSE other \in Range(m.cells) :
            other.policy = PolicyOrder[p] /\ other.metric = metric) = CellFor(results, p, metric)
<1> DEFINE n == Cardinality(S)
           Asked(other) == other.policy = PolicyOrder[p] /\ other.metric = metric
<1>1. ASSUME NEW q \in 1..3, NEW another \in Metrics
      PROVE  /\ CellFor(results, q, another).policy = PolicyOrder[q]
             /\ CellFor(results, q, another).metric = another
  <2> DEFINE cell == CellFor(results, q, another)
  <2>1. CellSays(cell, results, q, another, n)
    BY CellIs DEF CellFor
  <2> HIDE DEF cell, n
  <2>2. cell.policy = PolicyOrder[q] /\ cell.metric = another
    BY <2>1 DEF CellSays
  <2> QED
    BY <2>2 DEF cell
<1>2. CellFor(results, p, metric) \in Range(m.cells) /\ Asked(CellFor(results, p, metric))
  BY <1>1, MatrixCells
<1>3. ASSUME NEW other \in Range(m.cells), Asked(other)
      PROVE  other = CellFor(results, p, metric)
  <2>1. PICK q \in 1..3, another \in Metrics : other = CellFor(results, q, another)
    BY MatrixCells
  <2>2. PolicyOrder[q] = PolicyOrder[p] /\ another = metric
    BY <1>1, <1>3, <2>1
  <2>3. q = p
    BY <2>2, PolicyOrderIs
  <2> QED
    BY <2>1, <2>2, <2>3
<1> HIDE DEF Asked
<1>4. (CHOOSE other \in Range(m.cells) : Asked(other)) = CellFor(results, p, metric)
  BY <1>2, <1>3
<1> QED
  BY <1>4 DEF Asked

\* Results that are what their runs give.
Derived(results) ==
  \A x \in 1..Len(results) :
    results[x].primary = PrimaryResults(results[x].baseline.frames, results[x].treated.frames,
                                        results[x].target)

\* Where the scalar rows of a policy and a measure are.
TableFor(results, p, metric) ==
  {i \in DOMAIN ScalarRows(results) : /\ ScalarRows(results)[i].policy = PolicyOrder[p]
                                      /\ ScalarRows(results)[i].metric = metric}

TablePlace(p, j, k) == 4 * ((3 * (k - 1) + p) - 1) + j

TablePlaced(results, p, j, metric, n) ==
  \A k \in 1..n :
    /\ TablePlace(p, j, k) \in TableFor(results, p, metric)
    /\ ScalarRows(results)[TablePlace(p, j, k)].value
         = RowFor(results, p, k).primary[metric].value

\* The scalar row of the k-th case under the p-th policy, and no other is there.
LEMMA TablePlaces ==
  ASSUME NEW results, NEW cases, Tabled(results, cases), NEW n \in Nat, Len(cases) = n,
         Derived(results), NEW p \in 1..3, NEW j \in 1..4, NEW metric,
         metric = PrimaryMetrics[j]
  PROVE  /\ IsFiniteSet(TableFor(results, p, metric))
         /\ TablePlaced(results, p, j, metric, n)
         /\ \A x \in TableFor(results, p, metric) : \E k \in 1..n : x = TablePlace(p, j, k)
<1> DEFINE flat == ScalarRows(results)
           table == TableFor(results, p, metric)
           N == 3 * n
<1>1. Len(results) = N /\ N \in Nat
      /\ \A k \in 1..n, q \in 1..3 : results[3 * (k - 1) + q].policy = PolicyOrder[q]
  BY DEF Tabled
<1>2. /\ Len(flat) = 4 * N /\ \E T : flat \in Seq(T)
      /\ \A i \in 1..N, l \in 1..4 : flat[4 * (i - 1) + l] = ScalarRow(results[i], PrimaryMetrics[l])
  <2>1. \E S : results \in Seq(S)
    BY DEF Tabled
  <2>2. /\ Len(flat) = 4 * Len(results) /\ \E T : flat \in Seq(T)
        /\ \A i \in 1..Len(results), l \in 1..4 :
             flat[4 * (i - 1) + l] = ScalarRow(results[i], PrimaryMetrics[l])
    BY <2>1, ScalarRowsAre
  <2> HIDE DEF flat, N
  <2> QED
    BY <1>1, <2>2
<1>3. DOMAIN flat = 1..(4 * N)
  BY <1>2
<1>4. ASSUME NEW i \in 1..N, NEW l \in 1..4
      PROVE  /\ flat[4 * (i - 1) + l].policy = results[i].policy
             /\ flat[4 * (i - 1) + l].metric = PrimaryMetrics[l]
             /\ flat[4 * (i - 1) + l].value = results[i].primary[PrimaryMetrics[l]].value
  <2>1. flat[4 * (i - 1) + l] = ScalarRow(results[i], PrimaryMetrics[l])
    BY <1>2
  <2>2. results[i].primary = PrimaryResults(results[i].baseline.frames, results[i].treated.frames,
                                            results[i].target)
    BY <1>1 DEF Derived
  <2> DEFINE row == flat[4 * (i - 1) + l]
             scene == results[i]
             one == PrimaryMetrics[l]
  <2> HIDE DEF flat, row, scene, one
  <2>3. row = ScalarRow(scene, one)
    BY <2>1 DEF row, scene, one
  <2>4. scene.primary = PrimaryResults(scene.baseline.frames, scene.treated.frames, scene.target)
    BY <2>2 DEF scene
  <2>5. row.policy = scene.policy /\ row.metric = one /\ row.value = scene.primary[one].value
    BY <2>3, <2>4 DEF ScalarRow
  <2> QED
    BY <2>5 DEF row, scene, one
<1>5. table = {x \in DOMAIN flat : flat[x].policy = PolicyOrder[p] /\ flat[x].metric = metric}
  BY DEF TableFor
<1> HIDE DEF flat, table, N
<1>6. ASSUME NEW k \in 1..n
      PROVE  /\ 4 * ((3 * (k - 1) + p) - 1) + j \in table
             /\ flat[4 * ((3 * (k - 1) + p) - 1) + j].value
                  = RowFor(results, p, k).primary[metric].value
  <2> DEFINE i == 3 * (k - 1) + p
  <2>1. i \in 1..N /\ results[i].policy = PolicyOrder[p]
    <3>1. results[i].policy = PolicyOrder[p]
      BY <1>1
    <3>2. i \in 1..N
      BY DEF N
    <3> QED
      BY <3>1, <3>2
  <2> DEFINE row == results[i]
  <2>2. row = RowFor(results, p, k) /\ row.policy = PolicyOrder[p]
    BY <2>1 DEF RowFor
  <2> HIDE DEF i, row
  <2>3. 4 * (i - 1) + j \in 1..(4 * N)
    BY <1>1, <2>1
  <2>4. /\ flat[4 * (i - 1) + j].policy = row.policy /\ flat[4 * (i - 1) + j].metric = metric
        /\ flat[4 * (i - 1) + j].value = row.primary[metric].value
    BY <1>4, <2>1 DEF row
  <2>5. 4 * (i - 1) + j \in table
    BY <1>3, <1>5, <2>2, <2>3, <2>4
  <2> QED
    BY <2>2, <2>4, <2>5 DEF i
<1>7. ASSUME NEW x \in table
      PROVE  \E k \in 1..n : x = 4 * ((3 * (k - 1) + p) - 1) + j
  <2>1. x \in 1..(4 * N) /\ flat[x].policy = PolicyOrder[p] /\ flat[x].metric = metric
    BY <1>3, <1>5
  <2>2. PICK i \in 1..N, l \in 1..4 : x = 4 * (i - 1) + l
    BY <1>1, <2>1, PlaceInFour
  <2>3. PrimaryMetrics[l] = PrimaryMetrics[j] /\ results[i].policy = PolicyOrder[p]
    BY <1>4, <2>1, <2>2
  <2>4. l = j
    BY <2>3, MetricsAre
  <2>5. PICK k \in 1..n, q \in 1..3 : i = 3 * (k - 1) + q
    BY PlaceInThree DEF N
  <2>6. PolicyOrder[q] = PolicyOrder[p]
    BY <1>1, <2>3, <2>5
  <2>7. q = p
    BY <2>6, PolicyOrderIs
  <2> QED
    BY <2>2, <2>4, <2>5, <2>7
<1>8. IsFiniteSet(table)
  <2>1. IsFiniteSet(1..(4 * N)) /\ table \in SUBSET (1..(4 * N))
    BY <1>1, <1>3, <1>5, FS_Interval
  <2> QED
    BY <2>1, FS_Subset
<1> QED
  BY <1>6, <1>7, <1>8 DEF flat, table, TablePlace, TablePlaced

\* The sum of a cell is the sum of its rows of the table.
LEMMA TableAddsUp ==
  ASSUME NEW results, NEW cases, Tabled(results, cases), NEW n \in Nat, Len(cases) = n,
         Derived(results), RowsFit(results, n), NEW p \in 1..3, NEW metric \in Metrics
  PROVE  SumFunction(ValuesFor(results, p, metric, n))
           = SumFunction([i \in TableFor(results, p, metric) |-> ScalarRows(results)[i].value])
<1>1. PICK j \in 1..4 : metric = PrimaryMetrics[j]
  BY MetricsAre
<1> DEFINE T == TableFor(results, p, metric)
           Place(k) == TablePlace(p, j, k)
           f == ValuesFor(results, p, metric, n)
           g == [i \in T |-> ScalarRows(results)[i].value]
           h == [k \in 1..n |-> Place(k)]
<1>2. /\ IsFiniteSet(T)
      /\ \A k \in 1..n :
           /\ Place(k) \in T
           /\ ScalarRows(results)[Place(k)].value = RowFor(results, p, k).primary[metric].value
      /\ \A x \in T : \E k \in 1..n : x = Place(k)
  <2>1. IsFiniteSet(TableFor(results, p, metric))
    BY <1>1, TablePlaces
  <2>2. TablePlaced(results, p, j, metric, n)
    BY <1>1, TablePlaces
  <2>3. ASSUME NEW x \in TableFor(results, p, metric)
        PROVE  \E k \in 1..n : x = TablePlace(p, j, k)
    BY <1>1, TablePlaces
  <2> QED
    BY <2>1, <2>2, <2>3 DEF TablePlaced
<1>3. \A k, l \in 1..n : Place(k) = Place(l) => k = l
  BY DEF TablePlace
<1> HIDE DEF T, Place
<1>4. ASSUME NEW k \in 1..n PROVE f[k] \in Int /\ f[k] = g[h[k]]
  <2> DEFINE row == RowFor(results, p, k)
  <2>1. ValuesFit(row)
    BY DEF RowsFit
  <2>2. f[k] = row.primary[metric].value
    BY DEF ValuesFor
  <2>3. g[h[k]] = row.primary[metric].value
    BY <1>2
  <2> HIDE DEF f, g, h, row
  <2> QED
    BY <2>1, <2>2, <2>3 DEF ValuesFit
<1>5. h \in [1..n -> T] /\ \A x \in T : \E k \in 1..n : h[k] = x
  BY <1>2
<1>6. \A k, l \in 1..n : h[k] = h[l] => k = l
  BY <1>3
<1>7. f = [k \in 1..n |-> f[k]] /\ g = [x \in T |-> g[x]]
  BY DEF ValuesFor
<1> HIDE DEF f, g, h
<1>8. f \in [1..n -> Int]
  BY <1>4, <1>7
<1>9. g \in [T -> Int]
  <2>1. ASSUME NEW x \in T PROVE g[x] \in Int
    BY <1>4, <1>5
  <2> QED
    BY <1>7, <2>1
<1>10. IsFiniteSet(1..n)
  BY FS_Interval
<1>11. \A x \in T : \E k \in 1..n : h[k] = x
  BY <1>5
<1>12. \A k \in 1..n : f[k] = g[h[k]]
  BY <1>4
<1>13. SumFunction(f) = SumFunction(g)
  <2> DEFINE S == 1..n
  <2>1. /\ IsFiniteSet(S) /\ f \in [S -> Int] /\ h \in [S -> T]
    BY <1>5, <1>8, <1>10
  <2>2. \A x, y \in S : h[x] = h[y] => x = y
    BY <1>6
  <2>3. \A z \in T : \E x \in S : h[x] = z
    BY <1>11
  <2>4. \A x \in S : f[x] = g[h[x]]
    BY <1>12
  <2>5. IsFiniteSet(T)
    BY <1>2
  <2> HIDE DEF S
  <2> QED
    BY <1>9, <2>1, <2>2, <2>3, <2>4, <2>5, SumRenamed
<1> QED
  BY <1>13 DEF f, g, T

-----------------------------------------------------------------------------
(* The tables agree *)

\* The eligible cases are as many as the eligible rows of the table of the cases.
LEMMA PairsCounted ==
  Cardinality({row \in Range(EligibilityRows) : row.eligible})
    = Cardinality({c \in Cases : Eligible(source[c])})
<1> DEFINE S == {c \in Cases : Eligible(source[c])}
           T == {row \in Range(EligibilityRows) : row.eligible}
           f == [c \in S |-> EligibilityRow(c)]
<1>1. Range(EligibleCases) = S /\ S \subseteq Cases
  BY CasesListed DEF EligibleIn, EligibleCases
<1>2. IsFiniteSet(S)
  BY EligibleFinite
<1>3. \A c : EligibilityRow(c).case = c /\ (EligibilityRow(c).eligible <=> c \in S)
  BY <1>1 DEF EligibilityRow
<1>4. \A row : row \in Range(EligibilityRows) <=> \E c \in Cases : row = EligibilityRow(c)
  <2>1. /\ CaseOrder \in Seq(Cases) /\ DOMAIN EligibilityRows = 1..Len(CaseOrder)
        /\ \A i \in 1..Len(CaseOrder) : EligibilityRows[i] = EligibilityRow(CaseOrder[i])
        /\ \A c \in Cases : \E i \in 1..Len(CaseOrder) : CaseOrder[i] = c
    BY CaseOrderIs DEF EligibilityRows
  <2>2. \A i \in 1..Len(CaseOrder) : CaseOrder[i] \in Cases
    BY <2>1
  <2> DEFINE list == EligibilityRows
  <2>3. DOMAIN list = 1..Len(CaseOrder)
        /\ \A i \in 1..Len(CaseOrder) : list[i] = EligibilityRow(CaseOrder[i])
    BY <2>1
  <2> HIDE DEF EligibilityRow, list
  <2>4. ASSUME NEW row, row \in Range(list) PROVE \E c \in Cases : row = EligibilityRow(c)
    <3>1. PICK i \in 1..Len(CaseOrder) : row = list[i]
      BY <2>3, <2>4 DEF Range
    <3> QED
      BY <2>2, <2>3, <3>1
  <2>5. ASSUME NEW c \in Cases PROVE EligibilityRow(c) \in Range(list)
    <3>1. PICK i \in 1..Len(CaseOrder) : CaseOrder[i] = c
      BY <2>1
    <3> QED
      BY <2>3, <3>1 DEF Range
  <2>6. \A row : row \in Range(list) <=> \E c \in Cases : row = EligibilityRow(c)
    BY <2>4, <2>5
  <2> QED
    BY <2>6 DEF list
<1> HIDE DEF S
<1>5. \A c \in S : EligibilityRow(c) \in T
  BY <1>1, <1>3, <1>4
<1>6. f \in [S -> T]
  BY <1>5
<1>7. \A x, y \in S : f[x] = f[y] => x = y
  BY <1>3
<1>8. \A z \in T : \E x \in S : f[x] = z
  BY <1>3, <1>4
<1> HIDE DEF T, f
<1>9. Cardinality(T) = Cardinality(S)
  BY <1>2, <1>6, <1>7, <1>8, ListedOnce
<1> QED
  BY <1>9 DEF T, S

\* The scenes that are returned fit together, and are what their runs give.
LEMMA ReturnedFit ==
  ASSUME EvaluationInv, stage \in Planned \ Working
  PROVE  RowsFit(rows, Len(EligibleIn(source))) /\ Derived(rows)
<1> DEFINE n == Len(EligibleIn(source))
           order == OrderIn(source)
<1>1. /\ Len(rows) = Len(order) /\ Tabled(rows, EligibleIn(source)) /\ n \in Nat
      /\ \A i \in 1..Len(rows) : SceneIs(rows[i], order[i], source[order[i].case], "primary")
  BY RowsDone DEF ScenesAre
<1>2. Len(rows) = 3 * n
      /\ \A k \in 1..n, p \in 1..3 : rows[3 * (k - 1) + p].policy = PolicyOrder[p]
  BY <1>1 DEF Tabled
<1> HIDE DEF n, order
<1>3. ASSUME NEW p \in 1..3, NEW k \in 1..n
      PROVE  /\ ValuesFit(RowFor(rows, p, k)) /\ MeasuresFit(RowFor(rows, p, k))
             /\ RowFor(rows, p, k).policy = PolicyOrder[p]
  <2> DEFINE x == 3 * (k - 1) + p
  <2>1. x \in 1..Len(rows) /\ x \in 1..Len(order)
    BY <1>1, <1>2
  <2>2. RowFor(rows, p, k) = rows[x] /\ rows[x].policy = PolicyOrder[p]
    BY <1>2 DEF RowFor
  <2> HIDE DEF x
  <2> DEFINE at == order[x]
             log == source[at.case]
             scene == rows[x]
  <2>3. at \in Jobs /\ log \in Logs /\ Eligible(log)
    BY <2>1, OrderedLog DEF order
  <2>4. SceneIs(scene, at, log, "primary")
    BY <1>1, <2>1
  <2> HIDE DEF at, log, scene
  <2>5. "primary" \in {"primary", "secondary"}
    OBVIOUS
  <2>6. ValuesFit(scene) /\ MeasuresFit(scene)
    BY <2>3, <2>4, <2>5, SceneValues, SceneMeasures
  <2> QED
    BY <2>2, <2>6 DEF scene
<1>4. RowsFit(rows, n)
  BY <1>3 DEF RowsFit
<1>5. Derived(rows)
  BY <1>1 DEF Derived, SceneIs
<1> QED
  BY <1>4, <1>5 DEF n

\* What the tables say of a cell.
TableOf(flat, cell) ==
  {i \in DOMAIN flat : flat[i].policy = cell.policy /\ flat[i].metric = cell.metric}
OtherCell(m, cell, metric) ==
  CHOOSE other \in Range(m.cells) : other.policy = cell.policy /\ other.metric = metric
CellCounts(m, flat, cell, pairs) ==
  /\ cell.pairs = pairs
  /\ cell.sum = SumFunction([i \in TableOf(flat, cell) |-> flat[i].value])
  /\ OtherCell(m, cell, "timeliness").events <= OtherCell(m, cell, "timeliness").responders
  /\ OtherCell(m, cell, "timeliness").responders <= OtherCell(m, cell, "impulse").events
  /\ cell.policy \in Nonreactive /\ cell.sign # "none" =>
       cell.metric = "gap" /\ cell.sign = "negative"

\* The cells count the rows they sum up.
LEMMA CellsFit ==
  ASSUME NEW results, NEW S \in SUBSET Int, IsFiniteSet(S), S # {},
         Tabled(results, Ascending(S)), RowsFit(results, Cardinality(S)), Derived(results),
         NEW m, m = Matrix(CellInputs(results)), NEW cell \in Range(m.cells)
  PROVE  CellCounts(m, ScalarRows(results), cell, Cardinality(S))
<1> DEFINE n == Cardinality(S)
           flat == ScalarRows(results)
           cases == Ascending(S)
<1>1. n \in Nat /\ n \in Nat \ {0} /\ Len(cases) = n
  <2>1. n \in Nat /\ (n = 0 <=> S = {})
    BY FS_CardinalityType, FS_EmptySet
  <2> QED
    BY <2>1, AscendingIs
<1>2. PICK p \in 1..3, metric \in Metrics : cell = CellFor(results, p, metric)
  BY MatrixCells
<1>3. \A another \in Metrics : CellSays(CellFor(results, p, another), results, p, another, n)
  BY CellIs DEF CellFor
<1>4. CellSays(cell, results, p, metric, n)
  BY <1>2, <1>3
<1>5. cell.policy = PolicyOrder[p] /\ cell.metric = metric
  BY <1>4 DEF CellSays
<1>6. \A another \in Metrics : OtherCell(m, cell, another) = CellFor(results, p, another)
  <2> SUFFICES ASSUME NEW another \in Metrics
               PROVE  OtherCell(m, cell, another) = CellFor(results, p, another)
    OBVIOUS
  <2>1. (CHOOSE other \in Range(m.cells) :
           other.policy = PolicyOrder[p] /\ other.metric = another) = CellFor(results, p, another)
    BY CellFound
  <2> QED
    BY <1>5, <2>1 DEF OtherCell
<1>7. Tabled(results, cases) /\ RowsFit(results, n)
  OBVIOUS
<1> HIDE DEF n, flat, cases
<1>8. cell.pairs = n
  BY <1>4 DEF CellSays
<1>9. cell.sum = SumFunction([i \in TableOf(flat, cell) |-> flat[i].value])
  <2>1. SumFunction(ValuesFor(results, p, metric, n))
          = SumFunction([i \in TableFor(results, p, metric) |-> ScalarRows(results)[i].value])
    BY <1>1, <1>7, TableAddsUp
  <2>2. TableFor(results, p, metric) = TableOf(flat, cell)
    BY <1>5 DEF TableFor, TableOf, flat
  <2>3. cell.sum = SumFunction(ValuesFor(results, p, metric, n))
    BY <1>4 DEF CellSays
  <2> QED
    BY <2>1, <2>2, <2>3 DEF flat
<1> DEFINE timely == OtherCell(m, cell, "timeliness")
           braking == OtherCell(m, cell, "impulse")
<1>10. /\ timely.events = Cardinality(EventsFor(results, p, "timeliness", n))
       /\ timely.responders = Cardinality(RespondersFor(results, p, "timeliness", n))
       /\ braking.events = Cardinality(EventsFor(results, p, "impulse", n))
  <2>1. "timeliness" \in Metrics /\ "impulse" \in Metrics
    BY DEF Metrics
  <2>2. /\ CellSays(timely, results, p, "timeliness", n)
        /\ CellSays(braking, results, p, "impulse", n)
    BY <1>3, <1>6, <2>1
  <2> HIDE DEF timely, braking
  <2> QED
    BY <2>2 DEF CellSays
<1>11. timely.events <= timely.responders /\ timely.responders <= braking.events
  BY <1>1, <1>7, <1>10, EventsAnswered, RespondersBraked
<1> HIDE DEF timely, braking
<1>12. ASSUME cell.policy \in Nonreactive, cell.sign # "none"
       PROVE  cell.metric = "gap" /\ cell.sign = "negative"
  <2> DEFINE events == Cardinality(EventsFor(results, p, metric, n))
             values == ValuesFor(results, p, metric, n)
  <2>1. cell.sign = Sign(Status(n, events, Band(values)), Band(values))
    BY <1>4 DEF CellSays
  <2>2. events \in Nat
    <3>1. EventsFor(results, p, metric, n) \in SUBSET (1..n) /\ IsFiniteSet(1..n)
      BY <1>1, FS_Interval DEF EventsFor
    <3> QED
      BY <3>1, FS_Subset, FS_CardinalityType
  <2>3. values = ValuesFor(results, p, metric, n)
    OBVIOUS
  <2>4. PolicyOrder[p] \in Nonreactive
    BY <1>5, <1>12
  <2> HIDE DEF events, values
  <2>5. Sign(Status(n, events, Band(values)), Band(values)) # "none"
    BY <1>12, <2>1
  <2>6. metric = "gap" /\ Sign(Status(n, events, Band(values)), Band(values)) = "negative"
    BY <1>1, <1>7, <2>2, <2>3, <2>4, <2>5, SignOf
  <2> QED
    BY <1>5, <2>1, <2>6
<1> QED
  BY <1>8, <1>9, <1>11, <1>12 DEF CellCounts, timely, braking, n, flat

\* What is issued is what was returned, and stays.
IssuedHold ==
  issued # <<>> =>
    /\ stage = "published" /\ issued.eligibility = EligibilityRows
    /\ issued.primary = ScalarRows(rows) /\ issued.negative = NegativeRows

\* Nothing happens once the result is returned, but for the tables.
LEMMA NothingFollows ==
  ASSUME stage = "published", Next
  PROVE  FALSE
BY DEF Next, Evaluate, CopyCase, CompareCase, Compared, Classify, StartRun, Transition, BindTrace,
       PassGate, Analyse, AnalyseMatrix, BuildResult, CallerChanges, Ended

\* The tables are derived from what does not change any more.
LEMMA IssuedStays ==
  ASSUME UNCHANGED vars, UNCHANGED issued, IssuedHold
  PROVE  IssuedHold'
<1>1. UNCHANGED <<source, stage, rows>>
  BY DEF vars, caseVars, resultVars
<1>2. UNCHANGED EligibleCases /\ UNCHANGED SevereCases
  BY <1>1 DEF EligibleCases, SevereCases
<1>3. UNCHANGED EligibilityRows
  BY <1>1, <1>2 DEF EligibilityRows, EligibilityRow
<1>4. UNCHANGED NegativeRows
  BY <1>1, <1>2 DEF NegativeRows, Observations, Passed, SceneOf
<1> QED
  BY <1>1, <1>3, <1>4 DEF IssuedHold

\* The tables are issued of the result.
LEMMA IssuedByTheResult ==
  ASSUME EvaluationInv, IssueRows
  PROVE  IssuedHold'
<1>1. UNCHANGED vars /\ UNCHANGED <<source, stage, rows>> /\ stage = "published"
  BY IssueIsSafe DEF IssueRows, vars, caseVars, resultVars
<1>2. UNCHANGED EligibleCases /\ UNCHANGED SevereCases
  BY <1>1 DEF EligibleCases, SevereCases
<1>3. UNCHANGED EligibilityRows
  BY <1>1, <1>2 DEF EligibilityRows, EligibilityRow
<1>4. UNCHANGED NegativeRows
  BY <1>1, <1>2 DEF NegativeRows, Observations, Passed, SceneOf
<1>5. \/ issued' = [eligibility |-> EligibilityRows, primary |-> ScalarRows(rows),
                    secondary |-> ScalarRows(severeRows), negative |-> NegativeRows]
      \/ issued' = <<>>
  BY <1>1 DEF IssueRows
<1> QED
  BY <1>1, <1>3, <1>4, <1>5 DEF IssuedHold

\* In the invariant the tables that are issued agree.
LEMMA IssuedAgree ==
  ASSUME EvaluationInv, IssuedHold
  PROVE  TablesAgree
<1> SUFFICES ASSUME issued # <<>> PROVE TablesAgree
  BY DEF TablesAgree
<1>1. /\ stage = "published" /\ issued.eligibility = EligibilityRows
      /\ issued.primary = ScalarRows(rows) /\ issued.negative = NegativeRows
  BY DEF IssuedHold
<1>2. stage \in Planned \ Working
  BY <1>1 DEF Planned, Working
<1>3. matrix = Matrix(CellInputs(rows))
  BY <1>1 DEF EvaluationInv, MatrixHolds
<1> DEFINE S == {c \in Cases : Eligible(source[c])}
<1>4. /\ S \in SUBSET Int /\ IsFiniteSet(S) /\ Len(EligibleIn(source)) = Cardinality(S)
      /\ EligibleIn(source) = Ascending(S)
  BY EligibleFinite DEF EligibleIn
<1>5. Cardinality({row \in Range(EligibilityRows) : row.eligible}) = Cardinality(S)
  BY PairsCounted
<1> HIDE DEF S
<1>6. /\ Tabled(rows, Ascending(S)) /\ RowsFit(rows, Cardinality(S)) /\ Derived(rows)
      /\ Cardinality(S) >= MinimumPairs
  BY <1>2, <1>4, RowsDone, ReturnedFit
<1>7. S # {}
  <2>1. MinimumPairs \in Nat /\ MinimumPairs > 0
    BY SampleAssumption
  <2>2. Cardinality({}) = 0
    BY FS_EmptySet
  <2>3. Cardinality(S) >= MinimumPairs
    BY <1>6
  <2>4. Cardinality(S) # Cardinality({})
    BY <2>1, <2>2, <2>3
  <2> QED
    BY <2>4
<1>8. \A cell \in Range(matrix.cells) : CellCounts(matrix, issued.primary, cell, Cardinality(S))
  BY <1>1, <1>3, <1>4, <1>6, <1>7, CellsFit
<1>9. Cardinality({r \in Range(issued.eligibility) : r.eligible}) = Cardinality(S)
  BY <1>1, <1>5
<1>10. CellsCountTheRows
  BY <1>8, <1>9 DEF CellsCountTheRows, CellCounts, TableOf, OtherCell
<1>11. MeasuresAgree
  BY <1>2, InvariantMeasures
<1>12. \A row \in Range(issued.negative) : ~row.violation
  BY <1>1, NoViolation
<1> QED
  BY <1>10, <1>11, <1>12 DEF TablesAgree

\* The tables that are issued agree: the measures of every pair fit together, every
\* cell of the matrix counts the rows of its policy and measure, its direction is
\* one its policy can have, and no observation is a violation.
THEOREM TablesSafety == OfficialSpec => []TablesAgree
<1>1. OfficialInit => IssuedHold
  BY DEF OfficialInit, IssuedHold
<1>2. EvaluationInv /\ IssuedHold /\ [OfficialNext]_officialVars => IssuedHold'
  <2> SUFFICES ASSUME EvaluationInv, IssuedHold, [OfficialNext]_officialVars
               PROVE  IssuedHold'
    OBVIOUS
  <2>1. CASE Next /\ UNCHANGED issued
    <3>1. stage # "published"
      BY <2>1, NothingFollows
    <3>2. issued = <<>> /\ issued' = <<>>
      BY <2>1, <3>1 DEF IssuedHold
    <3> QED
      BY <3>2 DEF IssuedHold
  <2>2. CASE IssueRows
    BY <2>2, IssuedByTheResult
  <2>3. CASE UNCHANGED officialVars
    BY <2>3, IssuedStays DEF officialVars
  <2> QED
    BY <2>1, <2>2, <2>3 DEF OfficialNext
<1>3. EvaluationInv /\ IssuedHold => TablesAgree
  BY IssuedAgree
<1> QED
  BY <1>1, <1>2, <1>3, TypesAndRunsHold, PTL DEF OfficialSpec
=============================================================================
