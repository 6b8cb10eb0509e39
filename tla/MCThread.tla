--------------------------------- MODULE MCThread ---------------------------------
(* Model-checking instance of three parts of a thread that share no variable: what *)
(* the user writes, what waits or runs as a command, and the history of a CLI      *)
(* thread.  One of them (focus) takes the steps.                                  *)
EXTENDS Naturals, Sequences

CONSTANTS None, forge, mochi,
          t1, t2, NoThread, Advice, Plain, MaxTokens, MaxSwitches, MaxMounts,
          c1, MaxRuns, MaxLoads, MaxCuts,
          loop, tell, slash, plain, MaxEntries

\* None is no agent, no number and no list of runs.
ASSUME ThreadAssumption == None \notin {forge, mochi} /\ None \notin Nat \cup Seq(Nat)

VARIABLES focus,
          here, mounted, text, textOwner, owner, drafts, attached, batches, submit, resume,
          bridge, sent, strays, typed, entered, switches,
          runs, slotAgent, loads, begun, rows, runId, tails, lost, cuts,
          tab, unsent, slots, queues, awaiting, busy, log, accepted, executed, wiped, made, entries

textVars == <<here, mounted, text, textOwner, owner, drafts, attached, batches, submit,
              resume, bridge, sent, strays, typed, entered, switches>>

historyVars == <<runs, slotAgent, loads, begun, rows, runId, tails, lost, cuts>>

outboxVars == <<tab, unsent, slots, queues, awaiting, busy, log, accepted, executed, wiped,
                made, entries>>

AguiEvent(type, call, seq) == [type |-> type, call |-> call, seq |-> seq]

C == INSTANCE ComposerText WITH
       active <- here, Threads <- {t1, t2},
       Selections <- {<<"file">>, <<"pill">>, <<"file", "pill">>}
H == INSTANCE ThreadHistory WITH
       active <- slotAgent, Agents <- {forge, mochi},
       Scripts <- {<<AguiEvent("TEXT_MESSAGE_CONTENT", None, 1), AguiEvent("TOOL_CALL_START", <<c1>>, 2),
                     AguiEvent("TOOL_CALL_ARGS", <<c1>>, 3), AguiEvent("RUN_FINISHED", None, 4)>>,
                   <<AguiEvent("STEP_STARTED", c1, 1), AguiEvent("STEP_FINISHED", c1, 2),
                     AguiEvent("REASONING_MESSAGE_CONTENT", None, 3)>>}
O == INSTANCE Outbox WITH
       rows <- slots, queue <- queues, calls <- awaiting, acts <- entries,
       Agents <- {forge, mochi}, Msgs <- {loop, tell, slash, plain},
       Kind <- [m \in {loop, tell, slash, plain} |->
                  CASE m = loop -> "loop" [] m = tell -> "tool" [] m = slash -> "slash" [] OTHER -> "plain"],
       MaxActs <- MaxEntries

MCInit == /\ focus \in {"text", "history", "outbox"}
          /\ C!Init /\ H!Init /\ O!Init
          /\ here = t1 /\ slotAgent = forge /\ tab = forge

Text(step) == focus = "text" /\ step /\ UNCHANGED <<focus, historyVars, outboxVars>>
History(step) == focus = "history" /\ step /\ UNCHANGED <<focus, textVars, outboxVars>>
Waiting(step) == focus = "outbox" /\ step /\ UNCHANGED <<focus, textVars, historyVars>>

MCNext == Text(C!Next) \/ History(H!Next) \/ Waiting(O!Next)

mcVars == <<focus, textVars, historyVars, outboxVars>>

MCSpec == MCInit /\ [][MCNext]_mcVars

\* The properties of the modules, stated there.
ComposedMessages == C!ComposedMessages
HistoryShown == H!HistoryShown
OutboxShown == O!OutboxShown
================================================================================
