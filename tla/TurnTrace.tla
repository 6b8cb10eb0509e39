-------------------------------- MODULE TurnTrace --------------------------------
(***************************************************************************)
(* The trace of chat turns and its stall watchdog (chat-turn-trace.ts): one *)
(* active turn per agent, a timer fenced by the generation of its turn, the *)
(* incident it reports to the host, and the render span closed at the next  *)
(* animation frame.  The callers know a turn only by its agent.             *)
(*                                                                          *)
(* The host of timers and frames is external: it may throw after it took a  *)
(* callback, and run one that was cleared.                                  *)
(***************************************************************************)
EXTENDS Naturals, Sequences

CONSTANTS Agents, Sids,
          MaxTurns,   \* bound on the turns begun
          MaxStalls,  \* bound on the stalls reported of a turn
          MaxGen      \* bound on the generations of a turn that sees tool results

VARIABLES
  turns,     \* every turn begun, with its spans not ended yet
  active,    \* the place in turns of the agent's active turn, or 0
  timers,    \* callbacks the timer host holds: <<turn, generation>>
  frames,    \* turns whose finish waits for an animation frame
  incidents, \* <<sid, agent>> reported and not recovered
  disposed

traceVars == <<turns, active, timers, frames, incidents, disposed>>

Init == /\ turns = <<>>
        /\ active = [a \in Agents |-> 0]
        /\ timers = {}
        /\ frames = {}
        /\ incidents = {}
        /\ disposed = FALSE

Scope(t) == <<turns[t].sid, turns[t].agent>>

\* clearStall: the generation moves, so a callback that still runs is stale.
Cleared(turn) == [turn EXCEPT !.gen = @ + 1, !.timer = FALSE]

\* Mutant: a stall is recovered by a token only.
MutRecovered(t) == IF turns[t].stalls > 0 /\ turns[t].first THEN incidents \ {Scope(t)}
                   ELSE incidents

\* resolveStall: the timer is cleared, a reported stall is recovered.
Recovered(t) == IF turns[t].stalls > 0 THEN incidents \ {Scope(t)} ELSE incidents

\* armStall: setTimeout takes the callback, or takes it and throws.
Armed(turn, thrown) == IF disposed THEN turn
                       ELSE [turn EXCEPT !.gen = @ + (IF thrown THEN 2 ELSE 1), !.timer = ~thrown]
Callback(t, gen) == IF disposed THEN timers ELSE timers \cup {<<t, gen + 1>>}

NewTurn(a, sid) == [agent |-> a, sid |-> sid, open |-> {"send", "request"},
                    first |-> FALSE, ended |-> FALSE, gen |-> 0, timer |-> FALSE, stalls |-> 0]

\* Mutant: the stall timer is armed before the turn is active.
MutBeginChatTurn(a, sid, thrown) ==
  /\ Len(turns) < MaxTurns
  /\ incidents' = IF active[a] = 0 THEN incidents ELSE Recovered(active[a])
  /\ turns' = Append(turns, NewTurn(a, sid))
  /\ active' = [active EXCEPT ![a] = Len(turns) + 1]
  /\ UNCHANGED <<timers, frames, disposed>>

\* The turns with what becomes of the previous one and the new one at the end.
Begun(a, sid, thrown) ==
  Append([t \in DOMAIN turns |-> IF t = active[a] THEN Cleared(turns[t]) ELSE turns[t]],
         Armed(NewTurn(a, sid), thrown))

BeginChatTurn(a, sid, thrown) ==
  /\ Len(turns) < MaxTurns
  /\ incidents' = IF active[a] = 0 THEN incidents ELSE Recovered(active[a])
  /\ turns' = Begun(a, sid, thrown)
  /\ active' = [active EXCEPT ![a] = Len(turns) + 1]
  /\ timers' = Callback(Len(turns) + 1, 0)
  /\ UNCHANGED <<frames, disposed>>

ChatFirstToken(a) ==
  LET t == active[a] IN
  /\ t # 0 /\ ~turns[t].first /\ ~turns[t].ended
  /\ incidents' = Recovered(t)
  /\ turns' = [turns EXCEPT ![t] = [Cleared(turns[t]) EXCEPT
                 !.first = TRUE, !.open = (turns[t].open \ {"request"}) \cup {"stream"}]]
  /\ UNCHANGED <<active, timers, frames, disposed>>

ChatToolResult(a) ==
  LET t == active[a] IN
  /\ t # 0 /\ ~turns[t].ended
  /\ turns[t].gen < MaxGen
  /\ incidents' = Recovered(t)
  /\ turns' = [turns EXCEPT ![t] = Cleared(@)]
  /\ UNCHANGED <<active, timers, frames, disposed>>

Without(acts, t) == [a \in Agents |-> IF acts[a] = t THEN 0 ELSE acts[a]]

\* Mutant: the frame drops whatever turn its agent has.
MutFrameFires(t) ==
  /\ t \in frames
  /\ frames' = frames \ {t}
  /\ turns' = [turns EXCEPT ![t].open = @ \ {"render", "send"}]
  /\ active' = [active EXCEPT ![turns[t].agent] = 0]
  /\ UNCHANGED <<timers, incidents, disposed>>

\* chatTurnEnd: the render and root spans end at once in a hidden page, at the next
\* frame otherwise.
ChatTurnEnd(a, hidden) ==
  LET t == active[a] IN
  /\ t # 0 /\ ~turns[t].ended
  /\ incidents' = Recovered(t)
  /\ turns' = [turns EXCEPT ![t] = [Cleared(@) EXCEPT
                 !.ended = TRUE, !.open = IF hidden /\ ~disposed THEN {} ELSE {"send", "render"}]]
  /\ frames' = IF hidden THEN frames ELSE frames \cup {t}
  /\ active' = IF hidden /\ ~disposed THEN Without(active, t) ELSE active
  /\ UNCHANGED <<timers, disposed>>

FrameFires(t) ==
  /\ t \in frames
  /\ frames' = frames \ {t}
  /\ IF disposed THEN UNCHANGED <<turns, active>>
     ELSE /\ turns' = [turns EXCEPT ![t].open = @ \ {"render", "send"}]
          /\ active' = Without(active, t)
  /\ UNCHANGED <<timers, incidents, disposed>>

\* The callback of a stale generation, turn or lifecycle does nothing; a live one
\* reports the stall and arms the next.
Live(t, gen) == /\ ~disposed
                /\ active[turns[t].agent] = t
                /\ turns[t].gen = gen
                /\ ~turns[t].first /\ ~turns[t].ended

StallFires(t, gen, thrown) ==
  /\ <<t, gen>> \in timers
  /\ Live(t, gen) => turns[t].stalls < MaxStalls
  /\ IF Live(t, gen)
     THEN /\ turns' = [turns EXCEPT ![t] = Armed([turns[t] EXCEPT !.stalls = @ + 1], thrown)]
          /\ incidents' = incidents \cup {Scope(t)}
          /\ timers' = Callback(t, gen) \ {<<t, gen>>}
     ELSE /\ timers' = timers \ {<<t, gen>>}
          /\ UNCHANGED <<turns, incidents>>
  /\ UNCHANGED <<active, frames, disposed>>

Dispose ==
  /\ ~disposed
  /\ disposed' = TRUE
  /\ turns' = [t \in DOMAIN turns |-> IF \E a \in Agents : active[a] = t THEN Cleared(turns[t])
                                      ELSE turns[t]]
  /\ active' = [a \in Agents |-> 0]
  /\ UNCHANGED <<timers, frames, incidents>>

Timer(t) == \E gen \in {x[2] : x \in timers}, thrown \in BOOLEAN : StallFires(t, gen, thrown)

Next == \/ \E a \in Agents : \/ \E sid \in Sids, thrown \in BOOLEAN : BeginChatTurn(a, sid, thrown)
                             \/ ChatFirstToken(a) \/ ChatToolResult(a)
                             \/ \E hidden \in BOOLEAN : ChatTurnEnd(a, hidden)
        \/ \E t \in frames : FrameFires(t)
        \/ \E t \in DOMAIN turns : Timer(t)
        \/ Dispose

Spec == Init /\ [][Next]_traceVars

-------------------------------------------------------------------------------

\* A reported incident belongs to the turn its agent still waits for: no token, tool
\* result, end or later turn leaves one open, and no stale timer opens one
\* (resolveStall, the fence of armStall).
IncidentsOwned ==
  \A i \in incidents : disposed \/ \E a \in Agents :
    /\ active[a] # 0
    /\ i = Scope(active[a])
    /\ ~turns[active[a]].first /\ ~turns[active[a]].ended

\* A turn that ended and was painted has ended all its spans; one that ended and
\* was not is painted at a frame to come.
TreesClosed ==
  \A t \in DOMAIN turns : turns[t].ended /\ ~disposed =>
    \/ turns[t].open = {} /\ t \notin frames
    \/ turns[t].open = {"send", "render"} /\ t \in frames

\* The latest turn of an agent stays its active one until it is painted, whatever
\* frames of earlier turns are late.
LatestActive ==
  \A t \in DOMAIN turns :
    /\ \A u \in DOMAIN turns : turns[u].agent = turns[t].agent => u <= t
    /\ "send" \in turns[t].open
    => disposed \/ active[turns[t].agent] = t

TraceSafe == IncidentsOwned /\ TreesClosed /\ LatestActive

\* A turn without an answer is reported: unless the timer host fails or the recorder
\* is disposed, a turn that begins gets a token, a tool result, an end, a later turn, or an incident
\* (beginChatTurn, armStall).
Silent(t) == /\ ~disposed /\ t \in DOMAIN turns /\ active[turns[t].agent] = t
             /\ ~turns[t].first /\ ~turns[t].ended
             /\ turns[t].gen < 2 /\ turns[t].stalls = 0
SilenceReported == \A t \in 1..MaxTurns : Silent(t) ~> ~Silent(t)
================================================================================
