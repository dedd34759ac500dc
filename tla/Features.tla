------------------------------ MODULE Features ------------------------------
(***************************************************************************)
(* A parsed packet is a tuple of its features, and FeatureCounterTask      *)
(* (dni/tasks/snding/feature_counter_task.cc) counts their values.         *)
(***************************************************************************)
EXTENDS Integers, Sequences, FiniteSets

SIP == 1
SPort == 2
DPort == 3
Protocol == 4
Length == 5
DIP == 6

\* The j-th output is counted from the j-th element of each packet, and
\* named by the j-th feature of the options.
FeatureCounter(pkts, features) ==
  [f \in {features[j] : j \in DOMAIN features} |->
     LET j == CHOOSE k \in DOMAIN features : features[k] = f IN
     [v \in {pkts[i][j] : i \in DOMAIN pkts} |-> Cardinality({i \in DOMAIN pkts : pkts[i][j] = v})]]
=============================================================================
