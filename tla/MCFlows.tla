-------------------------------- MODULE MCFlows --------------------------------
(* Model-checking instance of four flows that share no variable: small instances  *)
(* of the resumable stream and of the stall watchdog, for what must happen in the  *)
(* end, the task flow and the system rows.  One of them (focus) takes the steps.  *)
EXTENDS Naturals

CONSTANTS r1, None, OpenLoad, MaxServers, MaxSeq, MaxHeld,
          Agents, TraceSids, MaxTurns, MaxStalls, MaxGen,
          Turns, Todos, MaxMessages, Mixes, MaxSegs,
          task1, task2,  \* tasks of a todo list
          RowAgents, Viewer, MaxEvents, MaxAhead, MaxLoads

\* The todo lists the run writes: a task is active, the other takes over, none is,
\* the list is settled.
TwoTasks == {<<<<task1, "in_progress">>, <<task2, "pending">>>>, <<<<task1, "completed">>, <<task2, "in_progress">>>>,
             <<<<task1, "completed">>, <<task2, "pending">>>>, <<<<task2, "completed">>>>}

\* Two segments of any kinds, three of todo lists with delegations, and, in one message,
\* a question with words and calls, or the steps of two lists.
FourMixes ==
  {[kinds |-> {"private", "summary", "text", "work", "todo", "ask", "cliAsk", "deliver", "subagent"}, most |-> 2, messages |-> 2],
   [kinds |-> {"text", "ask", "work"}, most |-> 3, messages |-> 1],
   [kinds |-> {"todo", "subagent"}, most |-> 3, messages |-> 2],
   [kinds |-> {"text", "todo", "work"}, most |-> 4, messages |-> 1]}

VARIABLES focus,
          gen, last, link, since, chan, hello, cursor, gapBuf, work, loads, applied, replayed,
          twice, echoed, joined, lost,
          turns, active, timers, frames, incidents, disposed,
          talk,
          log, got, rowCursor, slots, load, rowLoads, behind, passed, sorted

streamVars == <<gen, last, link, since, chan, hello, cursor, gapBuf, work, loads, applied,
                replayed, twice, echoed, joined, lost>>
traceVars  == <<turns, active, timers, frames, incidents, disposed>>

rowVars    == <<log, got, rowCursor, slots, load, rowLoads, behind, passed, sorted>>

R == INSTANCE ResumeStream WITH GapLoads <- {r1}, MaxGen <- MaxServers
T == INSTANCE TurnTrace WITH Sids <- TraceSids
V == INSTANCE WorkTimeline
SR == INSTANCE SystemRows WITH Agents <- RowAgents, cursor <- rowCursor, loads <- rowLoads

\* The tab shows an agent; what is absent is no agent, and not said by an event.
ASSUME RowAssumption ==
  /\ Viewer \in RowAgents
  /\ None \notin RowAgents
  /\ None \notin {"running", "returned", "unknown", "started", "failed", "error", "warning", "private",
                  "again", "message", "resume", "word", "prompt", "file"}

MCInit == /\ focus \in {"stream", "trace", "work", "rows"}
          /\ R!Init /\ T!Init /\ V!Init /\ SR!Init
          /\ focus # "stream" => last[1] = 0  \* no event yet

Stream(step) == focus = "stream" /\ step /\ UNCHANGED <<focus, traceVars, talk, rowVars>>
Trace(step) == focus = "trace" /\ step /\ UNCHANGED <<focus, streamVars, talk, rowVars>>
Work(step) == focus = "work" /\ step /\ UNCHANGED <<focus, streamVars, traceVars, rowVars>>
Rows(step) == focus = "rows" /\ step /\ UNCHANGED <<focus, streamVars, traceVars, talk>>

MCNext == Stream(R!Next) \/ Trace(T!Next) \/ Work(V!Next) \/ Rows(SR!Next)

mcVars == <<focus, streamVars, traceVars, talk, rowVars>>

\* Microtasks run, a request in flight is answered or fails, and the timers of the
\* watchdog come due.
MCFairness ==
  /\ WF_mcVars(Stream(R!Drain))
  /\ \A i \in {r1, OpenLoad} : WF_mcVars(Stream(R!ReadWal(i) \/ R!CommitLoad(i) \/ R!FailLoad(i)))
  /\ \A t \in 1..MaxTurns : WF_mcVars(Trace(T!Timer(t)))

MCSpec == MCInit /\ [][MCNext]_mcVars /\ MCFairness

\* The properties of the modules, stated there.
TraceSafe == T!TraceSafe
GapReleased == R!GapReleased
SilenceReported == T!SilenceReported
WorkShown == V!WorkShown
RowsLikeReload == SR!RowsLikeReload
================================================================================
