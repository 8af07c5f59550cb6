------------------------------- MODULE MCMl ---------------------------------
(* Three threads for two producers, a blocking and a droppable channel with  *)
(* queues of one message and budgets of one, and a GPU node.                 *)
EXTENDS MlProps

Send(op, ch) == [op |-> op, ch |-> ch]
MCScript ==
  << <<Send("small", 1), Send("fence", 1)>>,
     <<Send("cpu", 2), Send("small", 2)>>, <<>> >>
MCBudget == <<1, 1>>
MCBlocking == <<TRUE, FALSE>>
=============================================================================
