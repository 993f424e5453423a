----------------------------- MODULE M6Statistics -----------------------------
(***************************************************************************)
(* The primary matrix of an evaluation: a cell for every policy and every  *)
(* primary measure, over the effects of the same eligible cases            *)
(* (evalsim/stats/m6.py). The band of a cell is the widest that resampling *)
(* of its cases can give, from the smallest effect to the largest.         *)
(***************************************************************************)
EXTENDS M6Metrics, Sequences, SequencesExt

CONSTANTS
  MinimumPairs,      \* M6_MINIMUM_PRIMARY_PAIR_N
  SparseEvents,      \* fewer effects than this are too few to speak of any
  SparseResponders,  \* and fewer answers too few for their latency
  SmallSample        \* and fewer pairs too few for a direction

ASSUME SampleAssumption ==
  /\ MinimumPairs \in Nat \ {0} /\ SparseEvents \in Nat
  /\ SparseResponders \in Nat \ {0} /\ SmallSample \in Nat

PolicyOrder == <<"log_replay", "constant_velocity", "idm">>

\* The members of a finite set of numbers in their order.
Ascending(S) ==
  CHOOSE s \in [1..Cardinality(S) -> S] :
    \A i, j \in 1..Cardinality(S) : i < j => s[i] < s[j]
-----------------------------------------------------------------------------
(* Cells *)

\* The effect a scene result adds to the cell of a measure.
Effect(row, metric) ==
  [case |-> row.case, value |-> row.primary[metric].value,
   answer |-> row.primary[metric].answer, latency |-> row.primary[metric].latency]

\* The input of a cell: how many scene results its policy has, and what they say,
\* in the order of the cases.
CellInput(results, policy, metric) ==
  LET ofPolicy == {i \in DOMAIN results : results[i].policy = policy}
      cases == Ascending({results[i].case : i \in ofPolicy})
      RowOf(c) == results[CHOOSE i \in ofPolicy : results[i].case = c]
  IN  [policy |-> policy, metric |-> metric, given |-> Cardinality(ofPolicy),
       effects |-> [k \in 1..Len(cases) |-> Effect(RowOf(cases[k]), metric)]]

CohortOf(cell) == [i \in 1..Len(cell.effects) |-> cell.effects[i].case]

\* Each case counts once. An answer has a latency and only timeliness has answers;
\* a case that gave none has no latency and the value nought.
InputAccepted(cell) ==
  /\ cell.given = Len(cell.effects)
  /\ \A effect \in Range(cell.effects) :
       CASE cell.metric # "timeliness" ->
              effect.answer = "none" /\ effect.latency = NoLatency
         [] cell.metric = "timeliness" /\ effect.answer = "responded" ->
              effect.latency # NoLatency
         [] cell.metric = "timeliness" /\ effect.answer = "censored" ->
              effect.latency = NoLatency /\ effect.value = 0
         [] OTHER -> FALSE

\* The measures of a change count in both directions, the others upwards only.
Counts(metric, value) == IF metric \in {"gap", "loss"} THEN value # 0 ELSE value > 0

\* Too few effects, then too few pairs, then a band around nought.
Status(pairs, events, band) ==
  CASE events < SparseEvents -> "event_sparse"
    [] events >= SparseEvents /\ pairs < SmallSample -> "small_n"
    [] events >= SparseEvents /\ pairs >= SmallSample /\ 0 \in band -> "descriptive"
    [] OTHER -> "direction_supported"

Sign(status, band) ==
  CASE status # "direction_supported" -> "none"
    [] status = "direction_supported" /\ Min(band) > 0 -> "positive"
    [] OTHER -> "negative"

\* The times of the answers are summed up only if there are enough of them.
LatencySummary(latencies) ==
  IF Cardinality(DOMAIN latencies) < SparseResponders
  THEN [status |-> "responder_sparse", sum |-> NoLatency]
  ELSE [status |-> "descriptive", sum |-> SumFunction(latencies)]

Cell(input) ==
  LET values == [i \in 1..Len(input.effects) |-> input.effects[i].value]
      events == {i \in DOMAIN values : Counts(input.metric, values[i])}
      responders == {i \in DOMAIN values : input.effects[i].answer = "responded"}
      band == Min(Range(values))..Max(Range(values))
      status == Status(Len(values), Cardinality(events), band)
      timed == input.metric = "timeliness"
  IN  [policy |-> input.policy, metric |-> input.metric, pairs |-> Len(values),
       sum |-> SumFunction(values), events |-> Cardinality(events), status |-> status,
       sign |-> Sign(status, band),
       responders |-> IF timed THEN Cardinality(responders) ELSE 0,
       censored |-> IF timed THEN Len(values) - Cardinality(responders) ELSE 0,
       latency |-> LatencySummary([i \in responders |-> input.effects[i].latency])]
-----------------------------------------------------------------------------
(* The matrix *)

CellOrder ==
  FlattenSeq([i \in 1..Len(PolicyOrder) |->
                [j \in 1..Len(PrimaryMetrics) |->
                   [policy |-> PolicyOrder[i], metric |-> PrimaryMetrics[j]]]])

CellInputs(results) ==
  [i \in 1..Len(CellOrder) |->
     CellInput(results, CellOrder[i].policy, CellOrder[i].metric)]

\* All cells are over the same cases, and those are not too few.
MatrixAccepted(inputs) ==
  /\ \A cell \in Range(inputs) :
       InputAccepted(cell) /\ CohortOf(cell) = CohortOf(inputs[1])
  /\ Len(inputs[1].effects) >= MinimumPairs

\* The matrix, and whether IDM answered as often as expected.
Matrix(inputs) ==
  LET cells == [i \in 1..Len(inputs) |-> Cell(inputs[i])]
  IN  [cells |-> cells, pairs |-> Len(inputs[1].effects),
       expected |-> \E cell \in Range(cells) :
                      /\ cell.policy = "idm" /\ cell.metric = "timeliness"
                      /\ cell.responders >= SparseResponders]
=============================================================================
