------------------------------ MODULE MCSlotStream ------------------------------
(* Model-checking instance of SlotStream. *)
EXTENDS SlotStream

CONSTANTS ask, run  \* tool calls

Distinct == [t \in Nat |-> t]

TwoTurns == {<<"user", "start", "chunk", "step", "end", "start", "chunk", "end">>,
             <<"own", "start", "chunk", "step", "end", "mail">>,
             <<"own", "start", "delta", "call", "result", "end">>,
             <<"user", "start", "call", "end", "result", "end">>}

AbortedCall == {<<"user", "start", "delta", "end">>}
================================================================================
