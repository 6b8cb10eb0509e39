--------------------------------- MODULE MCPanel ---------------------------------
(* Model-checking instance of parts of the chat panel that share no variable:   *)
(* the run checks them side by side, one of them (focus) taking the steps.      *)
(* The warm-up is extended, the others are instantiated.                        *)
EXTENDS CliPrewarm, Sequences

CONSTANTS Typed, q1, q2, Multi, MaxAsks, MaxMounts,
          Lost, Window, Views, MaxRows, MaxLength,
          t1, t2, forge, mochi, MaxVisits, MaxPulls,
          cli, gone, m1, m2, c1, c2, ModelThreads, Registered, Catalog, Preferred, MaxRoutes, MaxJobs,
          game, wiki, iori, wren, MaxActs

\* The sessions are those of the two tabs, None is no agent, no answer and no number, and a
\* thread is rendered by windows of at least one message.
ASSUME PanelAssumption == /\ Sids \subseteq {t1, t2}
                          /\ None \notin {forge, mochi, "answered"} /\ None \notin Nat
                          /\ Window \in Nat \ {0} /\ Views \subseteq Nat

VARIABLES focus,
          host, given, tool, cache, card, posts, mounts, strayed,
          shown, limit, paging, top, view, follower, scrolled, resized, seen, unread,
          lastUser, place,
          open, onScreen, bound, tree, main, parked, jumped, loaded, reading, settled, misled,
          pulls, opened, visits,
          thread, provider, models, last, seeds, model, loading, modelCache, jobs, pick,
          chosen, contested, misread, routes,
          page, pageSeen, extensions, catalog, fetching, selected, manual, agent, root, leaving,
          rewind, queue, messages, choice, acts

Questions == {q1, q2}
Options == [q \in Questions |-> IF q = q1 THEN {"a label"} ELSE {}]
Threads == {<<>>, <<[user |-> TRUE, length |-> 1], [user |-> FALSE, length |-> 2]>>}

\* The catalogs of the run and what is preferred in them.
PanelCatalog == [name \in {None, cli} |-> IF name = cli THEN {c1, c2} ELSE {m1, m2}]
PanelPreferred == [name \in {None, cli} |-> IF name = cli THEN c1 ELSE m1]

askVars == <<host, given, tool, cache, card, posts, mounts, strayed>>
scrollVars == <<shown, limit, paging, top, view, follower, scrolled, resized, seen, unread,
                lastUser, place>>

threadVars == <<open, onScreen, bound, tree, main, parked, jumped, loaded, reading, settled,
                misled, pulls, opened, visits>>

modelVars == <<thread, provider, models, last, seeds, model, loading, modelCache, jobs,
               pick, chosen, contested, misread, routes>>

summonVars == <<page, pageSeen, extensions, catalog, fetching, selected, manual, agent, root,
                leaving, rewind, queue, messages, choice, acts>>

A == INSTANCE AskCard
S == INSTANCE ThreadScroll
F == INSTANCE ThreadFocus WITH
       active <- onScreen, mounts <- opened, moves <- visits, MaxMoves <- MaxVisits, Agents <- {forge, mochi},
       Root <- [sid \in {t1, t2} |-> IF sid = t1 THEN forge ELSE mochi], Main <- forge,
       Calls <- {q1, q2}, CallSid <- [call \in {q1, q2} |-> t1],
       CallAgent <- [call \in {q1, q2} |-> mochi]
M == INSTANCE ModelChoice WITH
       active <- thread, shown <- model, cache <- modelCache, unread <- misread, moves <- routes,
       Threads <- ModelThreads, MaxMoves <- MaxRoutes
U == INSTANCE Summon WITH
       seen <- pageSeen, active <- agent, submit <- leaving, sent <- messages, moves <- acts,
       Main <- forge, Sub <- mochi, Pages <- {game, wiki},
       Prefers <- [p \in {game, wiki} |-> IF p = game THEN iori ELSE None],
       Markets <- {<<>>, <<<<forge, 0>>, <<wren, 0>>>>},
       Buses <- {<<<<wren, 0>>>>, <<<<forge, 0>>, <<iori, 1>>, <<iori, 2>>>>},
       MaxMoves <- MaxActs

MCInit ==
        /\ focus \in {"ask", "scroll", "threads", "model", "summon", "warm"}
        /\ A!Init /\ S!Init /\ F!Init /\ M!Init /\ U!Init /\ Init
        /\ focus # "scroll" => shown = <<>> /\ view = 1
        /\ thread = t1 /\ seeds = {t1} /\ page = game
        /\ focus # "summon" => root = forge

panelVars == <<askVars, scrollVars, threadVars, modelVars>>
sideVars == <<summonVars, warmVars>>

MCNext ==
        /\ UNCHANGED focus
        /\ \/ focus = "ask" /\ A!Next /\ UNCHANGED <<scrollVars, threadVars, modelVars, sideVars>>
           \/ focus = "scroll" /\ S!Next /\ UNCHANGED <<askVars, threadVars, modelVars, sideVars>>
           \/ focus = "threads" /\ F!Next /\ UNCHANGED <<askVars, scrollVars, modelVars, sideVars>>
           \/ focus = "model" /\ M!Next /\ UNCHANGED <<askVars, scrollVars, threadVars, sideVars>>
           \/ focus = "summon" /\ U!Next /\ UNCHANGED <<panelVars, warmVars>>
           \/ focus = "warm" /\ Next /\ UNCHANGED <<panelVars, summonVars>>

MCSpec == MCInit /\ [][MCNext]_<<focus, panelVars, sideVars>>

\* The properties of the modules, stated there (WarmSparing is one of CliPrewarm).
AnswersMatch == A!AnswersMatch
FollowKept == S!FollowKept
FocusKept == F!FocusKept
ModelTold == M!ModelTold
SummonKept == U!SummonKept
================================================================================
