----------------------------- MODULE ThreadHistory -----------------------------
(***************************************************************************)
(* The history of a thread of a CLI provider (loadThreadHistory, store.ts):   *)
(* the runs of the thread are read one after the other and committed as one   *)
(* slot; an event source, the tail, follows each run that still goes on.      *)
(* Loads overlap, Stop and closed tabs cut the tails, and the slot written is *)
(* that of the agent shown when the load began.                              *)
(*                                                                          *)
(* The server and EventSource are external: a tail that reconnects goes on    *)
(* where it was.  Of a request only the bubble of its answer is kept, and     *)
(* times are left out.                                                       *)
(***************************************************************************)
EXTENDS Naturals, SequencesExt

CONSTANTS None, Agents,
          Scripts,             \* what a run may say: sequences of AG-UI events
          MaxRuns, MaxLoads, MaxCuts   \* bounds: runs, loads, acts that cut tails

VARIABLES
  runs,     \* server: the events of each run, its script, whether it is known to be over
  active,   \* the agent shown
  loads,    \* the loads under way: agent, runs to read, what was read
  begun,    \* how many began
  rows,     \* the bubbles in the slot of each agent
  runId,    \* the run Stop cancels
  tails,    \* _tailsByTab: agent, run, and how many of its events were read
  lost,     \* history: bubbles whose tail was cut
  cuts

historyVars == <<runs, active, loads, begun, rows, runId, tails, lost, cuts>>

Init == /\ runs = <<>> /\ active \in Agents
        /\ loads = {} /\ begun = 0
        /\ rows = [x \in Agents |-> {}] /\ runId = None /\ tails = {}
        /\ lost = {} /\ cuts = 0

-------------------------------------------------------------------------------
\* The server (external).

Terminal == {"RUN_FINISHED", "RUN_ERROR"}

RunStarts(script) ==
  /\ Len(runs) < MaxRuns
  /\ runs' = Append(runs, [events |-> <<>>, script |-> script, over |-> FALSE])
  /\ UNCHANGED <<active, loads, begun, rows, runId, tails, lost, cuts>>

\* A run without a terminal event dies: it is over, and no event says so.
RunGoesOn(r) ==
  /\ ~runs[r].over
  /\ runs' = [runs EXCEPT ![r] =
       IF @.script = <<>> THEN [@ EXCEPT !.over = TRUE]
       ELSE [events |-> Append(@.events, Head(@.script)), script |-> Tail(@.script),
             over |-> Head(@.script).type \in Terminal]]
  /\ UNCHANGED <<active, loads, begun, rows, runId, tails, lost, cuts>>

-------------------------------------------------------------------------------
\* consumeAguiEvents

\* appendChatSegment, upsertToolSegment
AppendText(segments, kind) ==
  IF segments # <<>> /\ Last(segments).kind = kind
  THEN [segments EXCEPT ![Len(segments)].parts = @ + 1]
  ELSE Append(segments, [kind |-> kind, parts |-> 1])

Tool(call, args, status) == [kind |-> "tool", call |-> call, args |-> args, status |-> status]

ToolIndex(segments, call) == {i \in DOMAIN segments : segments[i].kind = "tool" /\ segments[i].call = call}

\* A call started twice is one call; words for a call that never started are dropped.
Started(segments, call) == IF ToolIndex(segments, call) # {} THEN segments
                           ELSE Append(segments, Tool(call, 0, "running"))

WithArgs(segments, call) ==
  [i \in DOMAIN segments |-> IF i \in ToolIndex(segments, call) THEN [segments[i] EXCEPT !.args = @ + 1]
                             ELSE segments[i]]

Ended(segments, call) ==
  [i \in DOMAIN segments |-> IF i \in ToolIndex(segments, call) THEN [segments[i] EXCEPT !.status = "done"]
                             ELSE segments[i]]

\* STEP_FINISHED ends the first running step of its name.
Stepped(segments, name) ==
  LET open == {i \in DOMAIN segments : /\ segments[i].kind = "tool" /\ segments[i].status = "running"
                                       /\ segments[i].call[1] = "step" /\ segments[i].call[3] = name}
  IN  IF open = {} THEN segments ELSE [segments EXCEPT ![Min(open)].status = "done"]

\* One event: e.seq is its number in the run.
Consumed(segments, e) ==
  CASE e.type = "TEXT_MESSAGE_CONTENT"  -> AppendText(segments, "text")
    [] e.type = "REASONING_MESSAGE_CONTENT" -> AppendText(segments, "thinking")
    [] e.type = "TOOL_CALL_START"  -> Started(segments, e.call)
    [] e.type = "TOOL_CALL_ARGS"   -> WithArgs(segments, e.call)
    [] e.type \in {"TOOL_CALL_END", "TOOL_CALL_RESULT"} -> Ended(segments, e.call)
    [] e.type = "STEP_STARTED"  -> Append(segments, Tool(<<"step", e.seq, e.call>>, 0, "running"))
    [] e.type = "STEP_FINISHED" -> Stepped(segments, e.call)
    [] OTHER -> segments

Status(events) == LET types == {events[i].type : i \in DOMAIN events}
                  IN  IF "RUN_ERROR" \in types THEN "error"
                      ELSE IF "RUN_FINISHED" \in types THEN "done" ELSE "streaming"

\* The bubble of a run of which these events were read.
Bubble(r, events, live) == [run |-> r, segments |-> FoldLeft(Consumed, <<>>, events),
                            status |-> IF live THEN "streaming" ELSE Status(events)]

-------------------------------------------------------------------------------
\* The load.

Load ==
  /\ begun < MaxLoads
  /\ begun' = begun + 1
  /\ loads' = loads \cup {[id |-> begun', agent |-> active, todo |-> None, got |-> <<>>]}
  /\ UNCHANGED <<runs, active, rows, runId, tails, lost, cuts>>

\* /api/threads: the runs of the thread; with none there is nothing to do.
Listed(l) ==
  /\ l.todo = None
  /\ loads' = (loads \ {l}) \cup (IF runs = <<>> THEN {} ELSE {[l EXCEPT !.todo = [r \in DOMAIN runs |-> r]]})
  /\ UNCHANGED <<runs, active, begun, rows, runId, tails, lost, cuts>>

\* A request that throws ends the load.
LoadFails(l) ==
  /\ loads' = loads \ {l}
  /\ UNCHANGED <<runs, active, begun, rows, runId, tails, lost, cuts>>

\* What the tails leave when they are closed.
Cut == {<<t.agent, t.run>> : t \in tails}

\* Mutant: the tails of an earlier load stay open.
MutCommitted(x, got) ==
  LET live == {r \in ToSet(got) : r.live}
  IN  /\ rows' = [rows EXCEPT ![x] = {Bubble(r.run, r.events, r.live) : r \in ToSet(got)}]
      /\ runId' = IF live = {} THEN None ELSE Max({r.run : r \in live})
      /\ tails' = tails \cup {[agent |-> x, run |-> r.run, read |-> Len(r.events)] : r \in live}
      /\ lost' = {p \in lost : p[1] # x}

\* The commit: the slot is replaced, the tails of the thread are closed, and one is
\* opened for each run that goes on.
Committed(x, got) ==
  LET live == {r \in ToSet(got) : r.live}
  IN  /\ rows' = [rows EXCEPT ![x] = {Bubble(r.run, r.events, r.live) : r \in ToSet(got)}]
      /\ runId' = IF live = {} THEN None ELSE Max({r.run : r \in live})
      /\ tails' = {[agent |-> x, run |-> r.run, read |-> Len(r.events)] : r \in live}
      /\ lost' = {p \in lost \cup Cut : p[1] # x}

\* The next run is read, or refused and left out; after the last the load commits.
Polled(l) ==
  /\ l.todo # None
  /\ \E got \in {l.got, Append(l.got, [run |-> Head(l.todo), events |-> runs[Head(l.todo)].events,
                                       live |-> ~runs[Head(l.todo)].over])} :
       IF Len(l.todo) > 1
       THEN /\ loads' = (loads \ {l}) \cup {[l EXCEPT !.todo = Tail(@), !.got = got]}
            /\ UNCHANGED <<rows, runId, tails, lost>>
       ELSE loads' = loads \ {l} /\ Committed(l.agent, got)
  /\ UNCHANGED <<runs, active, begun, cuts>>

-------------------------------------------------------------------------------
\* onAguiFrame: the bubble is built anew from all events of the run; the last event
\* closes the tail.
TailFrame(t) ==
  /\ t.read < Len(runs[t.run].events)
  /\ LET events == SubSeq(runs[t.run].events, 1, t.read + 1)
         live   == Status(events) = "streaming"
     IN  /\ rows' = [rows EXCEPT ![t.agent] = {IF m.run = t.run THEN Bubble(t.run, events, FALSE) ELSE m : m \in @}]
         /\ runId' = IF ~live /\ runId = t.run THEN None ELSE runId
         /\ tails' = (tails \ {t}) \cup (IF live THEN {[t EXCEPT !.read = @ + 1]} ELSE {})
  /\ UNCHANGED <<runs, active, loads, begun, lost, cuts>>

CutSome(some) ==
  /\ cuts < MaxCuts /\ cuts' = cuts + 1
  /\ tails' = tails \ some
  /\ UNCHANGED <<runs, active, loads, begun>>

\* es.onerror of a source the browser has given up.
TailBreaks(t) ==
  /\ CutSome({t})
  /\ lost' = lost \cup {<<t.agent, t.run>>}
  /\ UNCHANGED <<rows, runId>>

\* A new connection closes all tails (registerChatConnectionCleanup).
Cleanup == /\ CutSome(tails) /\ lost' = lost \cup Cut /\ UNCHANGED <<rows, runId>>

\* cancelStream seals what streams in the slot shown, and closes the tails.
Sealed(m) == IF m.status # "streaming" THEN m
             ELSE [m EXCEPT !.status = "done",
                            !.segments = [i \in DOMAIN @ |-> IF @[i].kind = "tool" THEN [@[i] EXCEPT !.status = "done"]
                                                             ELSE @[i]]]

Stop == /\ CutSome(tails)
        /\ rows' = [rows EXCEPT ![active] = {Sealed(m) : m \in @}]
        /\ lost' = lost \cup Cut
        /\ UNCHANGED runId

\* The tab is closed; a load under way goes on.
Drop == /\ CutSome(tails)
        /\ rows' = [x \in Agents |-> {}] /\ runId' = None /\ lost' = {}

Show(x) ==
  /\ x # active
  /\ cuts < MaxCuts /\ cuts' = cuts + 1
  /\ active' = x
  /\ UNCHANGED <<runs, loads, begun, rows, runId, tails, lost>>

Next == \/ Load \/ Cleanup \/ Stop \/ Drop
        \/ \E script \in Scripts : RunStarts(script)
        \/ \E r \in DOMAIN runs : RunGoesOn(r)
        \/ \E l \in loads : Listed(l) \/ Polled(l) \/ LoadFails(l)
        \/ \E t \in tails : TailFrame(t) \/ TailBreaks(t)
        \/ \E x \in Agents : Show(x)

Spec == Init /\ [][Next]_historyVars

-------------------------------------------------------------------------------
Dead(r) == runs[r].over /\ Status(runs[r].events) = "streaming"

\* However loads overlap: a run has one tail, the bubble shows what the tail has read;
\* a bubble streams only while its run is followed, and one that does not shows all of
\* it; the run Stop would cancel is one that is followed (loadThreadHistory), unless the
\* tail was cut or the run died without a word.
HistoryShown ==
  /\ \A t \in tails : /\ \A u \in tails : u.run = t.run => u = t
                      /\ Bubble(t.run, SubSeq(runs[t.run].events, 1, t.read), FALSE) \in rows[t.agent]
  /\ \A x \in Agents : \A m \in rows[x] :
       \/ <<x, m.run>> \in lost \/ Dead(m.run)
       \/ m.status = "streaming" /\ \E t \in tails : t.agent = x /\ t.run = m.run
       \/ m.status # "streaming" /\ m = Bubble(m.run, runs[m.run].events, FALSE)
  /\ runId # None => \/ \E t \in tails : t.run = runId
                     \/ \E x \in Agents : <<x, runId>> \in lost

\* What the thread shows as streaming is going on.  It does not hold: a run that dies, a
\* tail the browser gives up, and a load begun with another agent shown leave a bubble
\* that streams for ever.
StreamsWhileRunning ==
  loads = {} /\ tails = {} => \A x \in Agents : \A m \in rows[x] : m.status # "streaming"
================================================================================
