------------------------------ MODULE OnnxTask ------------------------------
(***************************************************************************)
(* The ONNX tasks: Open finds out whether a model has a dynamic dimension  *)
(* and loads it with the loader for that kind; every Process shapes its    *)
(* data, runs the session and copies the result.  The runtime is external: *)
(* a tensor needs as many values as its shape, a run may throw, and a      *)
(* result has a row for each row of the first input.                       *)
(***************************************************************************)
EXTENDS Sums, Sequences, FiniteSets

CONSTANTS
  Models,       \* sequences of input shapes; -1 is a dynamic dimension
  Sizes,        \* how many values an input may be given
  MaxRuns       \* bound: calls of Process

Dim == {d \in Int : d > 0 \/ d = -1}
ASSUME ModelsAssumption ==
  /\ \A m \in Models : m \in Seq(Seq(Dim)) /\ m # << >> /\ m[1] # << >>
  /\ Sizes \subseteq Nat /\ MaxRuns \in Nat

VARIABLES
  shapes,       \* of the model
  task,         \* which ParseInferenceResult
  onnxPhase,        \* "closed", "failed", "ready", "threw"
  model_type_,
  input_node_dims_, inputs_dynamic_index_, inputs_size_in_1D_,
  given,        \* values each input got in the last run
  result,       \* of the last run: "none", "fail", "empty" or "rows" of [from, upto)
  runs

loader == <<model_type_, input_node_dims_, inputs_dynamic_index_, inputs_size_in_1D_>>
onnxVars == <<shapes, task, onnxPhase, loader, given, result, runs>>

Product(s) == ProductTo(s, Len(s))
Dynamic(s) == {j \in DOMAIN s : s[j] = -1}
DynamicIndex(s) == IF Dynamic(s) = {} THEN 0 ELSE CHOOSE j \in Dynamic(s) : TRUE
\* How many values a row has: the product of the fixed dimensions.
RowSize(s) == ProductTo([j \in DOMAIN s |-> IF s[j] = -1 THEN 1 ELSE s[j]], Len(s))

\* n rows of width values, each from where the one before ends.
NoRows(kind) == [kind |-> kind, rows |-> << >>]
Rows(n, width) == [kind |-> "rows", rows |-> [m \in 1 .. n |-> <<(m - 1) * width, m * width>>]]
-----------------------------------------------------------------------------
OnnxInit ==
  /\ shapes \in Models /\ task \in {"TwoDimesion", "SNDingMFR", "LogReg"}
  /\ onnxPhase = "closed" /\ model_type_ = 0
  /\ input_node_dims_ = << >> /\ inputs_dynamic_index_ = << >> /\ inputs_size_in_1D_ = << >>
  /\ given = << >> /\ result = NoRows("none") /\ runs = 0

\* 1 when some dimension of some input is dynamic.
parse_for_model_type == IF \E k \in DOMAIN shapes : Dynamic(shapes[k]) # {} THEN 1 ELSE 0

LoadFixed ==
  /\ parse_for_model_type = 0
  /\ model_type_' = 0 /\ input_node_dims_' = shapes /\ onnxPhase' = "ready"
  /\ UNCHANGED <<shapes, task, inputs_dynamic_index_, inputs_size_in_1D_, given, result, runs>>

TooManyDynamic == \E k \in DOMAIN shapes : Cardinality(Dynamic(shapes[k])) > 1

\* size_in_1D is declared before the loop over the inputs: it goes on
\* growing from one input to the next.
SizeIn1D(k) ==
  IF \A j \in 1 .. k : Dynamic(shapes[j]) = DOMAIN shapes[j] THEN 0
  ELSE ProductTo([j \in DOMAIN shapes |-> RowSize(shapes[j])], k)

LoadDynamic ==
  /\ parse_for_model_type = 1 /\ model_type_' = 1
  /\ IF TooManyDynamic
     THEN onnxPhase' = "failed" /\ UNCHANGED <<input_node_dims_, inputs_dynamic_index_, inputs_size_in_1D_>>
     ELSE /\ onnxPhase' = "ready"
          /\ input_node_dims_' = shapes
          /\ inputs_dynamic_index_' =
               [k \in DOMAIN shapes |-> DynamicIndex(shapes[k])]
          /\ inputs_size_in_1D_' = [k \in DOMAIN shapes |-> SizeIn1D(k)]
  /\ UNCHANGED <<shapes, task, given, result, runs>>

OnnxOpen == onnxPhase = "closed" /\ (LoadFixed \/ LoadDynamic)

FixDim(k, size) ==
  IF inputs_size_in_1D_[k] = 0 THEN size ELSE size \div inputs_size_in_1D_[k]

\* Mutant of DynamicDims: a dimension once set is no longer dynamic.
DynamicDimsOnce(sizes) ==
  [k \in DOMAIN shapes |->
     IF inputs_dynamic_index_[k] = 0 \/ input_node_dims_[k][inputs_dynamic_index_[k]] # -1 THEN input_node_dims_[k]
     ELSE [input_node_dims_[k] EXCEPT ![inputs_dynamic_index_[k]] = FixDim(k, sizes[k])]]

\* The dynamic dimension is set anew for each run.
DynamicDims(sizes) ==
  [k \in DOMAIN shapes |->
     IF inputs_dynamic_index_[k] = 0 THEN input_node_dims_[k]
     ELSE [input_node_dims_[k] EXCEPT ![inputs_dynamic_index_[k]] = FixDim(k, sizes[k])]]

FixedDims(sizes) == input_node_dims_

\* CreateTensor throws when there are too few values, outside of the try.
CreateTensorThrows(sizes, dims) == \E k \in DOMAIN dims : Product(dims[k]) > sizes[k]

\* A row is shape[1] values; another rank gives an empty datum.
TwoDimesion(shape) ==
  IF Len(shape) # 2 THEN NoRows("empty") ELSE Rows(shape[1], shape[2])

SNDingMFR(shape) == TwoDimesion(shape)

\* The labels: for each dimension, shape[0] values.
LogReg(shape) == Rows(Len(shape), shape[1])

Columns == 3
\* What the models of the samples return: a row of scores, or a label, for
\* each row of the first input.
SessionOutput(dims) == IF task = "LogReg" THEN <<dims[1][1]>> ELSE <<dims[1][1], Columns>>

ParseInferenceResult(shape) ==
  CASE task = "TwoDimesion" -> TwoDimesion(shape)
    [] task = "SNDingMFR" -> SNDingMFR(shape)
    [] OTHER -> LogReg(shape)

\* A datum of another type fails the task.
WrongDatum ==
  /\ onnxPhase = "ready" /\ runs < MaxRuns
  /\ runs' = runs + 1 /\ result' = NoRows("fail") /\ given' = << >>
  /\ UNCHANGED <<shapes, task, onnxPhase, loader>>

OnnxProcess ==
  /\ onnxPhase = "ready" /\ runs < MaxRuns
  /\ \E sizes \in [DOMAIN shapes -> Sizes] :
       LET dims == IF model_type_ = 1 THEN DynamicDims(sizes) ELSE FixedDims(sizes) IN
       /\ given' = sizes /\ input_node_dims_' = dims
       /\ IF CreateTensorThrows(sizes, dims)
          THEN onnxPhase' = "threw" /\ result' = NoRows("none")
          ELSE /\ UNCHANGED onnxPhase
               /\ result' \in {ParseInferenceResult(SessionOutput(dims)), NoRows("fail")}  \* Run may throw
  /\ runs' = runs + 1
  /\ UNCHANGED <<shapes, task, model_type_, inputs_dynamic_index_, inputs_size_in_1D_>>

OnnxNext == OnnxOpen \/ WrongDatum \/ OnnxProcess

OnnxSpec == OnnxInit /\ [][OnnxNext]_onnxVars
-----------------------------------------------------------------------------
(* Properties *)

(***************************************************************************)
(* Types: a loaded model has at most one dynamic dimension in an input,    *)
(* and none after a run.                                                   *)
(***************************************************************************)
OnnxTypeOK ==
  /\ onnxPhase \in {"closed", "failed", "ready", "threw"} /\ model_type_ \in {0, 1} /\ runs \in 0 .. MaxRuns
  /\ \A k \in DOMAIN input_node_dims_ : Cardinality(Dynamic(input_node_dims_[k])) <= IF given = << >> THEN 1 ELSE 0

(***************************************************************************)
(* However often and with however much data the task runs, the first       *)
(* input has as many rows as its data of this run fill.                    *)
(***************************************************************************)
FirstInputRows ==
  (given # << >> /\ onnxPhase = "ready" /\ model_type_ = 1 /\ Dynamic(shapes[1]) # {}) =>
    LET dims == input_node_dims_[1] IN
    /\ Product(dims) <= given[1]
    /\ given[1] - Product(dims) < RowSize(shapes[1])

(***************************************************************************)
(* A dynamic model is never asked for a tensor larger than its data when   *)
(* that input is dynamic: only inputs of fixed shape can throw out of      *)
(* Process.                                                                *)
(***************************************************************************)
OnlyFixedShapesThrow ==
  onnxPhase = "threw" => \E k \in DOMAIN shapes : Dynamic(shapes[k]) = {} /\ Product(shapes[k]) > given[k]

(***************************************************************************)
(* The result has one row for each row given, next to each other and       *)
(* without a gap.                                                          *)
(***************************************************************************)
OneRowPerRow ==
  (onnxPhase = "ready" /\ result.kind = "rows" /\ task # "LogReg") =>
    /\ Len(result.rows) = input_node_dims_[1][1]
    /\ \A m \in DOMAIN result.rows : result.rows[m] = <<(m - 1) * Columns, m * Columns>>

(***************************************************************************)
(* However often and with however much data the tasks run: the three       *)
(* above.                                                                  *)
(***************************************************************************)
RowsRight == FirstInputRows /\ OnlyFixedShapesThrow /\ OneRowPerRow
-----------------------------------------------------------------------------
(* The inductive invariant of CppComponents_proofs *)

\* All but the dynamic dimension of an input stay those of the model.
DimsOfModel ==
  \A k \in DOMAIN shapes :
    /\ input_node_dims_[k] \in Seq(Int) /\ Len(input_node_dims_[k]) = Len(shapes[k])
    /\ \A j \in DOMAIN shapes[k] : j # inputs_dynamic_index_[k] => input_node_dims_[k][j] = shapes[k][j]

OnnxInv ==
  /\ shapes \in Models /\ task \in {"TwoDimesion", "SNDingMFR", "LogReg"} /\ model_type_ \in {0, 1}
  /\ onnxPhase = "closed" => given = << >> /\ result.kind # "rows"
  /\ onnxPhase = "ready" /\ model_type_ = 0 => parse_for_model_type = 0 /\ input_node_dims_ = shapes
  /\ onnxPhase = "ready" /\ model_type_ = 1 =>
       /\ ~ TooManyDynamic /\ DimsOfModel
       /\ inputs_dynamic_index_ = [k \in DOMAIN shapes |-> DynamicIndex(shapes[k])]
       /\ inputs_size_in_1D_ = [k \in DOMAIN shapes |-> SizeIn1D(k)]
  /\ RowsRight
=============================================================================
