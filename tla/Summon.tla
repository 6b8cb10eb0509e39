-------------------------------- MODULE Summon --------------------------------
(***************************************************************************)
(* The expert a message summons (agent-key.ts, Composer.tsx, ChatPanel.tsx,  *)
(* RewindControls.tsx): the one the user picked since the page on screen was *)
(* opened, else the one the page prefers, if the catalog has it and the      *)
(* thread is the root's.  It is resolved at each render, read when a message *)
(* leaves the composer, and kept with a message that waits.                  *)
(*                                                                          *)
(* React renders a change of state at once and runs the effects of a render  *)
(* before the next one; what awaits an answer may go on in between.          *)
(***************************************************************************)
EXTENDS Naturals, SequencesExt

CONSTANTS None, Main, Sub,      \* the root agent and another one of the tree
          Pages, Prefers,       \* the pages of the shell, the agent key each prefers
          Markets, Buses,       \* the lists /api/agents may answer: sequences of <<key, instance>>
          MaxMoves              \* bound: pages, picks, switches and messages

VARIABLES
  page, seen,      \* the page on screen, panelKeyRef
  extensions,      \* whether the extensions are known
  catalog,         \* agentMentions: None while it loads or when it failed
  fetching,        \* the request of the catalog
  selected, manual,  \* summonAgentId, summonManual
  active, root,    \* the agent the tab shows, the root agent if it is known
  submit,          \* onSubmit between its start and the read of the expert: the agent it is for
  rewind,          \* the message of an edit whose rewind is under way
  queue, sent,     \* the messages that wait and those that left
  choice,          \* history: what the user picked since the page was opened
  moves

summonVars == <<page, seen, extensions, catalog, fetching, selected, manual, active, root,
                submit, rewind, queue, sent, choice, moves>>

Init == /\ page \in Pages /\ seen = page
        /\ extensions = FALSE /\ catalog = None /\ fetching = TRUE
        /\ selected = None /\ manual = FALSE
        /\ active = Main /\ root \in {None, Main}
        /\ submit = None /\ rewind = None /\ queue = <<>> /\ sent = {}
        /\ choice = None /\ moves = 0

-------------------------------------------------------------------------------
\* preferredAgentKeyForPage: none until the extensions are known.
PreferredKey == IF extensions THEN Prefers[page] ELSE None

\* agentMatches: the agent of the key, or an instance of it.
AgentMatches(id, key) == id[1] = key

\* preferredAvailable: the first agent of the catalog that matches.
PreferredAvailable ==
  LET fit == IF catalog = None THEN <<>> ELSE SelectSeq(catalog, LAMBDA id : AgentMatches(id, PreferredKey))
  IN  IF fit = <<>> THEN None ELSE Head(fit)

Available(id) == catalog # None /\ id \in ToSet(catalog)

CanSummon == root # None /\ active = root

\* resolveSummonAgentId, published for all who send.
Resolved == IF CanSummon /\ selected # None /\ Available(selected) THEN selected ELSE None

\* Mutant: a choice by hand survives the page it was made on.
MutReconciled ==
  IF catalog # None /\ selected # None /\ ~Available(selected) THEN [selected |-> None, manual |-> manual]
  ELSE IF manual THEN [selected |-> selected, manual |-> manual]
  ELSE [selected |-> PreferredAvailable, manual |-> FALSE]

\* reconcileSummonSelection: a new page starts anew; a list that is not there says
\* nothing; an agent that is gone is not replaced when it was picked by hand.
Reconciled ==
  IF page # seen THEN [selected |-> PreferredAvailable, manual |-> FALSE]
  ELSE IF catalog = None THEN [selected |-> selected, manual |-> manual]
  ELSE IF selected # None /\ ~Available(selected) THEN [selected |-> None, manual |-> manual]
  ELSE IF manual THEN [selected |-> selected, manual |-> manual]
  ELSE [selected |-> PreferredAvailable, manual |-> FALSE]

\* The effect of the last render is still to run.
EffectDue == page # seen \/ Reconciled # [selected |-> selected, manual |-> manual]

Effect == /\ EffectDue
          /\ seen' = page
          /\ selected' = Reconciled.selected /\ manual' = Reconciled.manual
          /\ UNCHANGED <<page, extensions, catalog, fetching, active, root, submit, rewind, queue,
                         sent, choice, moves>>

-------------------------------------------------------------------------------
\* What changes under the composer.

Move == ~EffectDue /\ moves < MaxMoves /\ moves' = moves + 1

OpenPage(p) ==
  /\ Move /\ p # page
  /\ page' = p /\ choice' = None
  /\ UNCHANGED <<seen, extensions, catalog, fetching, selected, manual, active, root, submit,
                 rewind, queue, sent>>

ExtensionsKnown ==
  /\ ~EffectDue /\ ~extensions
  /\ extensions' = TRUE
  /\ UNCHANGED <<page, seen, catalog, fetching, selected, manual, active, root, submit, rewind,
                 queue, sent, choice, moves>>

\* fetchAgentMentions: the market's agents, those of the bus that are not among them,
\* and never the main agent.
Rows(market, bus) == SelectSeq(market \o SelectSeq(bus, LAMBDA id : id \notin ToSet(market)),
                               LAMBDA id : id[1] # Main)

CatalogAnswered ==
  /\ ~EffectDue /\ fetching
  /\ fetching' = FALSE
  /\ \E rows \in {Rows(market, bus) : market \in Markets, bus \in Buses} \cup {None} : catalog' = rows
  /\ UNCHANGED <<page, seen, extensions, selected, manual, active, root, submit, rewind, queue,
                 sent, choice, moves>>

\* selectSummonedAgent, and the cross of the chip.
Chosen(id) == /\ selected' = id /\ manual' = TRUE
              /\ choice' = <<id>>
              /\ UNCHANGED <<page, seen, extensions, catalog, fetching, active, root, submit,
                             rewind, queue, sent>>

Pick(id) == Move /\ Chosen(id)
Clear    == Move /\ Resolved # None /\ Chosen(None)

\* A thread is shown: what a submission awaits is no longer its own (ownsComposer).
ShowAgent(agent) ==
  /\ Move /\ agent # active
  /\ active' = agent /\ submit' = None
  /\ UNCHANGED <<page, seen, extensions, catalog, fetching, selected, manual, root, rewind, queue,
                 sent, choice>>

RootKnown ==
  /\ ~EffectDue /\ root = None
  /\ root' = Main
  /\ UNCHANGED <<page, seen, extensions, catalog, fetching, selected, manual, active, submit,
                 rewind, queue, sent, choice, moves>>

-------------------------------------------------------------------------------
\* What the user means: her choice on this page, else the page's expert.
Meant == IF ~CanSummon THEN None
         ELSE IF choice # None THEN choice[1] ELSE PreferredAvailable

\* A message as it leaves the composer: the thread it is for, the expert read, what the
\* user means, and whether the page has changed under it.
Written(agent) == [agent |-> agent, expert |-> Resolved, meant |-> Meant, stale |-> EffectDue, kind |-> "typed"]

Left(message, to) == sent' = sent \cup {[message |-> message, to |-> to]}

\* onSubmit reads the expert when the model is found ready and the files are read.
Submit ==
  /\ Move /\ submit = None
  /\ submit' = active
  /\ UNCHANGED <<page, seen, extensions, catalog, fetching, selected, manual, active, root, rewind,
                 queue, sent, choice>>

Submitted ==
  /\ submit # None
  /\ submit' = None
  /\ \/ queue' = Append(queue, Written(submit)) /\ UNCHANGED sent
     \/ Left(Written(submit), submit) /\ UNCHANGED queue
  /\ UNCHANGED <<page, seen, extensions, catalog, fetching, selected, manual, active, root, rewind,
                 choice, moves>>

Interrupt ==
  /\ Move
  /\ Left(Written(active), active)
  /\ UNCHANGED <<page, seen, extensions, catalog, fetching, selected, manual, active, root, submit,
                 rewind, queue, choice>>

\* flushQueuedForAgent sends the head of the queue of the agent shown, "send now" any
\* of its items (queuedSendOptions).
Dequeue ==
  /\ \E i \in DOMAIN queue : /\ queue[i].agent = active
                             /\ Left(queue[i], active)
                             /\ queue' = RemoveAt(queue, i)
  /\ UNCHANGED <<page, seen, extensions, catalog, fetching, selected, manual, active, root, submit,
                 rewind, choice, moves>>

\* doRewindAndSend: the expert is read before the rewind, the message goes to the
\* thread shown after it.
Rewind ==
  /\ Move /\ rewind = None
  /\ rewind' = [Written(active) EXCEPT !.kind = "edited"]
  /\ UNCHANGED <<page, seen, extensions, catalog, fetching, selected, manual, active, root, submit,
                 queue, sent, choice>>

Rewound ==
  /\ rewind # None
  /\ rewind' = None
  /\ Left(rewind, active) \/ UNCHANGED sent   \* or the rewind failed
  /\ UNCHANGED <<page, seen, extensions, catalog, fetching, selected, manual, active, root, submit,
                 queue, choice, moves>>

Next == \/ Effect \/ ExtensionsKnown \/ CatalogAnswered \/ RootKnown
        \/ Clear \/ Submit \/ Submitted \/ Interrupt \/ Dequeue \/ Rewind \/ Rewound
        \/ \E p \in Pages : OpenPage(p)
        \/ catalog # None /\ \E id \in ToSet(catalog) : Pick(id)
        \/ \E agent \in {Main, Sub} : ShowAgent(agent)

Spec == Init /\ [][Next]_summonVars

-------------------------------------------------------------------------------
Faithful(m) == m.expert # None => m.agent = Main /\ (m.stale \/ m.expert = m.meant)

\* The expert shown is the one the user means, on any page, however pages, catalog,
\* extensions and threads came; a message summons no other one, and none for a thread
\* that is not the root's, at once, from the queue or after a rewind; and it goes to the
\* thread it was written for (reconcileSummonSelection, queuedSendOptions).
SummonKept ==
  /\ ~EffectDue => Resolved = Meant
  /\ \A i \in DOMAIN queue : Faithful(queue[i])
  /\ \A s \in sent : Faithful(s.message) /\ (s.message.kind = "typed" => s.to = s.message.agent)

\* "Prevents a prior main-thread expert from crossing that thread" (Composer.tsx:926).
\* It does not hold for an edit: its rewind is awaited, and the message then goes to the
\* thread shown.
NoExpertCrosses == \A s \in sent : s.message.expert # None => s.to = Main
================================================================================
