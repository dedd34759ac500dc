---------------------------- MODULE GraphService ----------------------------
(***************************************************************************)
(* What a running graph promises the code that drives it (dms.go adds one  *)
(* set of inputs and reads one set of outputs per cycle): the k-th answer  *)
(* on an output stream belongs to the k-th inputs, it comes only after     *)
(* those inputs, and answers stop when the graph is shut down.             *)
(***************************************************************************)
EXTENDS Integers, Sequences

CONSTANTS
  GIn, GOut,   \* the graph's input and output streams
  Feeds        \* Feeds[s]: the input streams that output s is computed from

VARIABLES
  added,       \* added[s]: inputs submitted on s
  got,         \* got[s]: answers taken from s
  open         \* FALSE once the graph is being destroyed

vars == <<added, got, open>>

Init ==
  /\ added = [s \in GIn |-> 0]
  /\ got = [s \in GOut |-> << >>]
  /\ open = TRUE

Submit(s) ==
  /\ open
  /\ added' = [added EXCEPT ![s] = @ + 1]
  /\ UNCHANGED <<got, open>>

\* The answer of the next round, or nil when a task of that round failed.
Answer(s) ==
  LET k == Len(got[s]) + 1
  IN  /\ open
      /\ \A a \in Feeds[s] : added[a] >= k
      /\ \E d \in {{}, {k}} :
           got' = [got EXCEPT ![s] = Append(@, [ok |-> TRUE, d |-> d])]
      /\ UNCHANGED <<added, open>>

\* After a shutdown, a reader is told so.
Refuse(s) ==
  /\ ~ open
  /\ got' = [got EXCEPT ![s] = Append(@, [ok |-> FALSE, d |-> {}])]
  /\ UNCHANGED <<added, open>>

Shutdown ==
  /\ open
  /\ open' = FALSE
  /\ UNCHANGED <<added, got>>

Next ==
  \/ \E s \in GIn : Submit(s)
  \/ \E s \in GOut : Answer(s) \/ Refuse(s)
  \/ Shutdown

Spec == Init /\ [][Next]_vars
=============================================================================
