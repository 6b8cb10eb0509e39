----------------------------- MODULE MCTurnControl -----------------------------
(* Model-checking instance of TurnControl. *)
EXTENDS TurnControl, TLC

CONSTANTS forge, iori,  \* agents
          m1, m2,       \* messages
          c1, c2,       \* calls of sendMessage
          cron          \* a turn the page did not start

TwoAgents == {forge, iori}
OneAgent  == {forge}

TwoMsgs  == {m1, m2}
TwoCalls == {c1, c2}

NoForeign  == {}
OneForeign == {cron}

NoMention   == [m \in Msgs |-> None]
SomeMention == [m \in Msgs |-> IF m = m2 THEN iori ELSE None]

CallSymmetry == Permutations(Calls)
================================================================================
