------------------------------ MODULE MCInfer ------------------------------
(* The float model of src/hs_ml.c with two heads, alone. *)
EXTENDS InferenceProps

NoUsers == {}
TwoHeads == {[layers |-> 1, heads |-> 2, kvHeads |-> 2, context |-> 3, head |-> "float",
              users |-> NoUsers]}
=============================================================================
