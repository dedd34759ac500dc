---------------------------- MODULE DetectTasks -----------------------------
(***************************************************************************)
(* The tasks of graphs 1 and 2 (dni/tasks/core, dni/tasks/snding).  A      *)
(* datum is a pair of its C++ type and its value, scores in hundredths; a  *)
(* task whose Consume<T> meets another type returns -1, here Fail.         *)
(***************************************************************************)
EXTENDS Features, SequencesExt, FiniteSetsExt

double(v) == <<"double", v>>
Fail == <<"fail", 0>>

Consumes(ins, type) == \A i \in DOMAIN ins : ins[i][1] = type
Values(ins) == [i \in DOMAIN ins |-> ins[i][2]]

\* Open of the two threshold tasks: a later score replaces an earlier one.
tsmap(o) ==
  [t \in {o.thresh_scores[i][1] : i \in DOMAIN o.thresh_scores} |->
     o.thresh_scores[Max({i \in DOMAIN o.thresh_scores : o.thresh_scores[i][1] = t})][2]]

\* A std::map is walked in the order of its keys.
Thresholds(o) == SetToSortSeq(DOMAIN tsmap(o), <)

\* The walk ends at the first threshold that is not reached.
Score(o, stat) ==
  LET keys == Thresholds(o)
      reached == {i \in DOMAIN keys : \A j \in 1 .. i : stat >= keys[j]} IN
  IF reached = {} THEN o.default ELSE tsmap(o)[keys[Max(reached)]]

ThresholdTask(o, ins) ==
  IF ~ Consumes(ins, "double") THEN Fail ELSE double(Score(o, ins[1][2]))

\* Scores only when every condition is met, and -1 when their number differs.
ConditionThresholdTask(o, ins) ==
  LET cond_vals == ins[2][2] IN
  IF ins[1][1] # "double" \/ ins[2][1] # "doubles" THEN Fail
  ELSE IF Len(cond_vals) # Len(o.conditions) THEN double(-100)
  ELSE double(IF \E i \in DOMAIN cond_vals : cond_vals[i] < o.conditions[i]
              THEN o.default ELSE Score(o, ins[1][2]))

SumTask(o, ins) ==
  IF Consumes(ins, "double") THEN double(FoldSeq(+, 0, Values(ins))) ELSE Fail

MaxTask(o, ins) ==
  IF Consumes(ins, "double") THEN double(Max(ToSet(Values(ins)))) ELSE Fail

\* Sends a uint64_t.
CounterTask(o, ins) ==
  IF Consumes(ins, "double")
  THEN <<"uint64", Cardinality({i \in DOMAIN ins : ins[i][2] = o.feature})>> ELSE Fail

FeatureCounterTask(o, ins) ==
  LET ret == FeatureCounter(ins[1][2], o.feature) IN
  IF ins[1][1] # "packets" THEN [j \in DOMAIN o.feature |-> Fail]
  ELSE [j \in DOMAIN o.feature |-> <<"counts", ret[o.feature[j]]>>]

\* How a set of values compares with a fixed number of packets.
SndNumberStatsTask(o, ins) ==
  LET keys == SetToSortSeq(DOMAIN ins[1][2], <)
      diffs == Cardinality({keys[i + 1] - keys[i] : i \in 1 .. Len(keys) - 1})
      min == o.numValueSum * o.ratioMin
      max == o.numValueSum * o.ratioMax
      class == CASE Len(keys) * 100 < min -> 1
                 [] Len(keys) * 100 >= min /\ diffs * 100 <= min -> 2
                 [] OTHER -> IF diffs * 100 >= max THEN 3 ELSE 4 IN
  IF ins[1][1] # "counts" \/ Len(o.score_thresholds) # 4 \/ keys = << >> THEN Fail
  ELSE double(o.score_thresholds[class])

\* The scores that a walk over the protocols leaves, for some order of the
\* unordered_map: a protocol below both limits keeps the score of the last.
ProtoScores(o, counts) ==
  LET class(p) == CASE counts[p] * 100 >= o.protoCountSum * o.ratioMax -> 1
                    [] counts[p] * 100 < o.protoCountSum * o.ratioMin -> 3
                    [] OTHER -> 2
      set == {p \in DOMAIN counts : class(p) # 3} IN
  IF set = {} THEN {o.score_thresholds[3]} ELSE {o.score_thresholds[class(p)] : p \in set}

\* The score sent is that of the last protocol, not score_max.
SndProtocolStatsTask(o, ins) ==
  IF ins[1][1] # "counts" \/ Len(o.score_thresholds) # 3 THEN {Fail}
  ELSE {double(s) : s \in ProtoScores(o, ins[1][2])}

\* int(x + 0.5)
Round(x) == IF x >= -50 THEN (x + 50) \div 100 ELSE - ((- (x + 50)) \div 100)

\* Mutant of SndAdTask: the third pair is taken for the second.
SndAdTaskSwapped(o, ins) ==
  LET v == Values(ins)
      sum == Round(v[1]) + Round(v[2]) + Round(v[3]) IN
  <<"int", CASE sum = 3 -> 1
             [] sum = 2 /\ v[1] + v[2] = 200 -> 2
             [] sum = 2 /\ v[2] + v[3] = 200 -> 3
             [] sum = 2 /\ v[1] + v[3] = 200 -> 4
             [] OTHER -> 0>>

\* PACKET, NETDEV and RESOURCE: rounded for the sum, but not for the pairs.
SndAdTask(o, ins) ==
  LET v == Values(ins)
      sum == Round(v[1]) + Round(v[2]) + Round(v[3]) IN
  IF Len(ins) # 3 \/ ~ Consumes(ins, "double") THEN Fail
  ELSE <<"int", CASE sum = 3 -> 1
                  [] sum = 2 /\ v[1] + v[2] = 200 -> 2
                  [] sum = 2 /\ v[1] + v[2] # 200 /\ v[1] + v[3] = 200 -> 3
                  [] sum = 2 /\ v[1] + v[2] # 200 /\ v[1] + v[3] # 200 /\ v[2] + v[3] = 200 -> 4
                  [] OTHER -> 0>>

\* What a node may send: a sequence of data, one per output.
Process(task, o, ins) ==
  CASE task = "ThresholdTask" -> {<<ThresholdTask(o, ins)>>}
    [] task = "ConditionThresholdTask" -> {<<ConditionThresholdTask(o, ins)>>}
    [] task = "SumTask" -> {<<SumTask(o, ins)>>}
    [] task = "MaxTask" -> {<<MaxTask(o, ins)>>}
    [] task = "CounterTask" -> {<<CounterTask(o, ins)>>}
    [] task = "FeatureCounterTask" -> {FeatureCounterTask(o, ins)}
    [] task = "SndNumberStatsTask" -> {<<SndNumberStatsTask(o, ins)>>}
    [] task = "SndProtocolStatsTask" -> {<<d>> : d \in SndProtocolStatsTask(o, ins)}
    [] task = "SndAdTask" -> {<<SndAdTask(o, ins)>>}
=============================================================================
