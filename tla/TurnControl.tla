------------------------------ MODULE TurnControl ------------------------------
(***************************************************************************)
(* The life of a turn in one session as the chat page runs it (store.ts):   *)
(* sendMessage on its three transports (native event bus, CLI bridge, steer)*)
(* with its preparation, its abort controller and its optimistic bubble;    *)
(* cancelStream and the suppression of late frames; the client-side queue;  *)
(* and the turnStart, turn and turnEnd frames of session-stream.ts.  A       *)
(* turnEnd that is a checkpoint of an ask_user changes nothing and is left  *)
(* out, like slash commands and the closing of the tab.  The server is      *)
(* external: it runs the turns of an agent one after the other and its      *)
(* frames arrive in order, at any delay from its HTTP answers.              *)
(***************************************************************************)
EXTENDS Naturals, FiniteSets, SequencesExt

CONSTANTS Agents,    \* agents of the session
          Msgs,      \* messages the user types, each once
          Calls,     \* calls of sendMessage, bounding how many are made
          Foreign,   \* turns other tabs, agents or daemons start
          Mention,   \* the agent a message mentions, or None
          MaxLag,    \* bound on the frames on their way to the page
          Kinds,     \* providers the user selects: native, or a CLI kernel
          None

ASSUME MentionAssumption == Mention \in [Msgs -> Agents \cup {None}]
ASSUME NoneAssumption == None \notin Agents \cup Calls \cup Foreign
\* A turn that another tab or a daemon started is none of this page's calls.
ASSUME ForeignAssumption == Foreign \cap Calls = {}
ASSUME LagAssumption == MaxLag \in Nat \ {0}
ASSUME KindAssumption == Kinds \subseteq {"native", "cli"}

Turns == Calls \cup Foreign

VARIABLES
  prepares,    \* a host registered a send preparation (send-preparation.ts)
  tabAgent,    \* tab.agentId
  unsent,      \* messages not typed yet
  queue,       \* queuedMessages, by agent
  calls,       \* the calls of sendMessage
  owner,       \* _abortByTab of the session: the call holding the controller
  streaming,   \* streamingByAgent
  suppressed,  \* _streamSuppressByAgent
  sse,         \* _cliSseTurns
  bubbles,     \* streaming assistant bubbles of an agent's slot, each by the call
               \* that pushed it or None
  pend,        \* server: accepted turns not begun, by agent
  run,         \* server: the running turn, by agent
  told,        \* server: turns that have sent text
  ended,       \* server: turns that are over
  wire,        \* session frames on their way to the page
  accepted,    \* history: calls the server accepted
  stranded,    \* history: agents for whom no turn end will flush the queue
  viaSse,      \* history: calls whose text was read from the CLI stream
  shownAgain   \* history: such a text was applied from the session stream too

pageVars   == <<prepares, tabAgent, unsent, queue, calls, owner, streaming, suppressed,
                sse, bubbles>>
serverVars == <<pend, run, told, ended, wire>>
vars == <<prepares, tabAgent, unsent, queue, calls, owner, streaming, suppressed, sse,
          bubbles, pend, run, told, ended, wire, accepted, stranded,
          viaSse, shownAgain>>

Unused == [stage |-> "unused"]

Init == /\ prepares \in BOOLEAN
        /\ tabAgent \in Agents
        /\ unsent = Msgs
        /\ queue = [a \in Agents |-> <<>>]
        /\ calls = [c \in Calls |-> Unused]
        /\ owner = None
        /\ streaming = [a \in Agents |-> FALSE]
        /\ suppressed = {}
        /\ sse = [a \in Agents |-> 0]
        /\ bubbles = [a \in Agents |-> <<>>]
        /\ pend = [a \in Agents |-> <<>>]
        /\ run = [a \in Agents |-> None]
        /\ told = {} /\ ended = {}
        /\ wire = <<>>
        /\ accepted = {} /\ stranded = {}
        /\ viaSse = {} /\ shownAgain = FALSE

Over(c) == [stage |-> "over", msg |-> calls[c].msg]

InFlight == {"native", "cli", "steer"}

InStage(st) == {c \in Calls : calls[c].stage \in st}

\* Without a registered preparation sendMessage does not yield before it is
\* accepted, so nothing runs between its start and Prepared.
Yielded == prepares \/ InStage({"preparing"}) = {}

-------------------------------------------------------------------------------
\* Bubbles.

\* ensureStreamingAsst: the last streaming bubble is adopted, or one is made.  Only
\* turns that begin on the page have frames here, so no anchor finds another one.
MutEnsured(s) == Append(s, None)
Ensured(s) == IF s = <<>> THEN <<None>> ELSE s

\* patchAsst of call c with a final status: the one bubble it pushed stops streaming.
Settled(s, c) == RemoveFirst(s, c)

-------------------------------------------------------------------------------
\* sendMessage.

\* Up to `await preparation`: a mention moves the tab to its agent.  `kind` is
\* "steer" or the provider captured here; `from` the agent whose queue is flushed.
Start(c, m, target, kind, from) ==
  /\ calls[c] = Unused
  /\ calls' = [calls EXCEPT ![c] =
       [stage |-> "preparing", msg |-> m, kind |-> kind, from |-> from,
        agent |-> IF Mention[m] = None THEN target ELSE Mention[m]]]
  /\ tabAgent' = IF Mention[m] = None THEN tabAgent ELSE Mention[m]

Idle(a) == ~streaming[a]

\* onSubmit: a message typed while its agent streams is queued; it interrupts when
\* it carries an attachment, or is sent with onInterrupt.
Submit(m) ==
  /\ Yielded
  /\ m \in unsent
  /\ unsent' = unsent \ {m}
  /\ \/ /\ streaming[tabAgent]
        /\ queue' = [queue EXCEPT ![tabAgent] = Append(@, m)]
        /\ UNCHANGED <<tabAgent, calls>>
     \/ /\ streaming[tabAgent]
        /\ \E c \in Calls : Start(c, m, tabAgent, "steer", None)
        /\ UNCHANGED queue
     \/ /\ Idle(tabAgent)
        /\ \E c \in Calls, kind \in Kinds : Start(c, m, tabAgent, kind, None)
        /\ UNCHANGED queue
  /\ UNCHANGED <<prepares, owner, streaming, suppressed, sse, bubbles, serverVars,
                 accepted, stranded, viaSse, shownAgain>>

\* dequeueMessage: an item is queued once.
Without(m) == [queue EXCEPT ![tabAgent] = RemoveFirst(@, m)]

\* onQueuedSendNow: the item leaves the queue and is sent, as a steer when a
\* native turn is running.
SendNow(m) ==
  /\ Yielded
  /\ m \in ToSet(queue[tabAgent])
  /\ queue' = Without(m)
  /\ \E c \in Calls, kind \in Kinds :
       Start(c, m, tabAgent,
             IF streaming[tabAgent] /\ kind = "native" THEN "steer" ELSE kind, None)
  /\ UNCHANGED <<prepares, unsent, owner, streaming, suppressed, sse, bubbles, serverVars,
                 accepted, stranded, viaSse, shownAgain>>

\* onQueuedEdit: the item leaves the queue; the edited text is another message.
Edit(m) ==
  /\ Yielded
  /\ m \in ToSet(queue[tabAgent])
  /\ queue' = Without(m)
  /\ UNCHANGED <<prepares, tabAgent, unsent, calls, owner, streaming, suppressed, sse, bubbles,
                 serverVars, accepted, stranded, viaSse, shownAgain>>

\* prepareChatSend rejects: nothing is sent, and a queued item stays queued.
PreparationFails(c) ==
  /\ prepares
  /\ calls[c].stage = "preparing"
  /\ calls' = [calls EXCEPT ![c] = Over(c)]
  /\ stranded' = stranded \cup {calls[c].agent}
  /\ UNCHANGED <<prepares, tabAgent, unsent, queue, owner, streaming, suppressed, sse,
                 bubbles, serverVars, accepted, viaSse, shownAgain>>

\* onAccepted of flushQueuedForAgent: the head leaves, if it is still the head.
MutDequeueHead(c) == queue
DequeueHead(c) ==
  LET a == calls[c].from
  IN  IF a # None /\ queue[a] # <<>> /\ Head(queue[a]) = calls[c].msg
      THEN [queue EXCEPT ![a] = Tail(@)] ELSE queue

Sent(c) == [stage |-> calls[c].kind, msg |-> calls[c].msg,
            agent |-> calls[c].agent, aborted |-> FALSE]

\* The steer path: no controller, no bubble, the suppression stays.
Steer(c) ==
  /\ calls[c].stage = "preparing" /\ calls[c].kind = "steer"
  /\ queue' = DequeueHead(c)
  /\ calls' = [calls EXCEPT ![c] = Sent(c)]
  /\ UNCHANGED <<prepares, tabAgent, unsent, owner, streaming, suppressed, sse, bubbles,
                 serverVars, accepted, stranded, viaSse, shownAgain>>

\* A normal send: the session's previous controller is aborted and its agent
\* marked idle, the new call owns the session, its bubble is pushed, the
\* suppression of its agent is lifted and the agent marked streaming.
Prepared(c) ==
  /\ calls[c].stage = "preparing" /\ calls[c].kind # "steer"
  /\ queue' = DequeueHead(c)
  /\ owner' = c
  /\ LET a == calls[c].agent
         sent == [calls EXCEPT ![c] = Sent(c)]
     IN /\ calls' = IF owner = None THEN sent
                    ELSE [sent EXCEPT ![owner].aborted = TRUE]
        /\ streaming' = [x \in Agents |->
             x = a \/ (streaming[x] /\ (owner # None => calls[owner].agent # x))]
        /\ bubbles' = [bubbles EXCEPT ![a] = Append(@, c)]
        /\ suppressed' = suppressed \ {a}
        /\ sse' = IF calls[c].kind = "cli" THEN [sse EXCEPT ![a] = @ + 1] ELSE sse
  /\ UNCHANGED <<prepares, tabAgent, unsent, serverVars, accepted, stranded,
                 viaSse, shownAgain>>

MutFinishTurnAlways(c) ==
  /\ calls' = [calls EXCEPT ![c] = Over(c)]
  /\ owner' = None
  /\ streaming' = [streaming EXCEPT ![calls[c].agent] = FALSE]

\* finishTurn: only the call that still owns the session clears the flags.
FinishTurn(c) ==
  /\ calls' = [calls EXCEPT ![c] = Over(c)]
  /\ owner' = IF owner = c THEN None ELSE owner
  /\ streaming' = IF owner = c THEN [streaming EXCEPT ![calls[c].agent] = FALSE]
                  ELSE streaming

CallRest == UNCHANGED <<prepares, tabAgent, unsent, queue, suppressed, serverVars,
                        accepted, shownAgain>>

\* The bubble of a call is sealed when it was aborted, else marked with an error.
SettleBubble(c) ==
  bubbles' = [bubbles EXCEPT ![calls[c].agent] = Settled(@, c)]

\* A call that fails or is aborted flushes no queue.
GiveUp(c) == /\ SettleBubble(c)
             /\ stranded' = stranded \cup {calls[c].agent}
             /\ FinishTurn(c)

\* The native POST is answered: the turn goes on until its turnEnd frame.
PostAnswered(c) ==
  /\ Yielded
  /\ calls[c].stage = "native" /\ ~calls[c].aborted /\ c \in accepted
  /\ calls' = [calls EXCEPT ![c] = Over(c)]
  /\ owner' = IF owner = c THEN None ELSE owner
  /\ CallRest /\ UNCHANGED <<streaming, sse, bubbles, stranded, viaSse>>

\* The native POST is aborted or fails.
PostFails(c) ==
  /\ Yielded
  /\ calls[c].stage = "native"
  /\ GiveUp(c)
  /\ CallRest /\ UNCHANGED <<sse, viaSse>>

SteerEnds(c) ==
  /\ Yielded
  /\ calls[c].stage = "steer"
  /\ calls' = [calls EXCEPT ![c] = Over(c)]
  /\ CallRest /\ UNCHANGED <<owner, streaming, sse, bubbles, stranded, viaSse>>

MutClearSse(a) == sse' = [sse EXCEPT ![a] = 0]

\* clearCliSseActive.
ClearSse(a) == sse' = [sse EXCEPT ![a] = IF @ > 0 THEN @ - 1 ELSE 0]

\* The CLI request is aborted, fails, or is answered with an error or no body.
CliFails(c) ==
  /\ Yielded
  /\ calls[c].stage = "cli"
  /\ ClearSse(calls[c].agent)
  /\ GiveUp(c)
  /\ CallRest /\ UNCHANGED viaSse

\* The CLI request is answered: the page reads the turn's text from its stream.
CliAnswered(c) ==
  /\ Yielded
  /\ calls[c].stage = "cli" /\ ~calls[c].aborted /\ c \in accepted
  /\ calls' = [calls EXCEPT ![c].stage = "reading"]
  /\ CallRest /\ UNCHANGED <<owner, streaming, sse, bubbles, stranded, viaSse>>

\* The stream breaks or is aborted: the catch and `finally` blocks.
CliBreaks(c) ==
  /\ Yielded
  /\ calls[c].stage = "reading"
  /\ ClearSse(calls[c].agent)
  /\ GiveUp(c)
  /\ CallRest /\ UNCHANGED viaSse

\* The stream is read to its end, after the end of the turn.
CliEnds(c) ==
  /\ Yielded
  /\ calls[c].stage = "reading" /\ c \in ended
  /\ viaSse' = viaSse \cup ({c} \cap told)
  /\ ClearSse(calls[c].agent)
  /\ SettleBubble(c)
  /\ FinishTurn(c)
  /\ CallRest /\ UNCHANGED stranded

-------------------------------------------------------------------------------
\* The other operations of the user.

\* cancelStream on the tab's agent; both callers offer it while the agent streams.
Stop ==
  /\ Yielded
  /\ streaming[tabAgent]
  /\ calls' = IF owner # None /\ calls[owner].agent = tabAgent
              THEN [calls EXCEPT ![owner].aborted = TRUE] ELSE calls
  /\ suppressed' = suppressed \cup {tabAgent}
  /\ streaming' = [streaming EXCEPT ![tabAgent] = FALSE]
  /\ bubbles' = [bubbles EXCEPT ![tabAgent] = <<>>]
  /\ stranded' = stranded \cup {tabAgent}
  /\ UNCHANGED <<prepares, tabAgent, unsent, queue, owner, sse, serverVars, accepted,
                 viaSse, shownAgain>>

\* The tab is switched to another agent.
SwitchAgent(a) == /\ Yielded
                  /\ tabAgent' = a
                  /\ UNCHANGED <<prepares, unsent, queue, calls, owner, streaming,
                                 suppressed, sse, bubbles, serverVars,
                                 accepted, stranded, viaSse, shownAgain>>

-------------------------------------------------------------------------------
\* The server (external).

Frame(k, a, t, ok) == [kind |-> k, agent |-> a, turn |-> t, ok |-> ok]

Room == Len(wire) < MaxLag

\* A request arrives, even one the page gave up on.  A steer ends the running
\* turn and goes first.
Accept(c) ==
  /\ calls[c].stage \in InFlight /\ c \notin accepted
  /\ LET a == calls[c].agent
         cut == calls[c].stage = "steer" /\ run[a] # None
     IN /\ cut => Room
        /\ pend' = [pend EXCEPT ![a] = IF calls[c].stage = "steer"
                                       THEN <<c>> \o @ ELSE Append(@, c)]
        /\ run' = IF cut THEN [run EXCEPT ![a] = None] ELSE run
        /\ ended' = IF cut THEN ended \cup {run[a]} ELSE ended
        /\ wire' = IF cut THEN Append(wire, Frame("end", a, run[a], FALSE)) ELSE wire
  /\ accepted' = accepted \cup {c}
  /\ UNCHANGED <<pageVars, told, stranded, viaSse, shownAgain>>

ForeignTurn(a, f) ==
  /\ \A b \in Agents : f # run[b] /\ \A i \in DOMAIN pend[b] : pend[b][i] # f
  /\ f \notin ended
  /\ pend' = [pend EXCEPT ![a] = Append(@, f)]
  /\ UNCHANGED <<pageVars, run, told, ended, wire, accepted, stranded,
                 viaSse, shownAgain>>

TurnBegins(a) ==
  /\ Room
  /\ run[a] = None /\ pend[a] # <<>>
  /\ run' = [run EXCEPT ![a] = Head(pend[a])]
  /\ pend' = [pend EXCEPT ![a] = Tail(@)]
  /\ wire' = Append(wire, Frame("start", a, Head(pend[a]), TRUE))
  /\ UNCHANGED <<pageVars, told, ended, accepted, stranded, viaSse, shownAgain>>

\* What a turn sends before it ends: text, or a call of a tool.
TurnSpeaks(a, kind) ==
  /\ Room
  /\ run[a] # None /\ run[a] \notin told
  /\ told' = told \cup {run[a]}
  /\ wire' = Append(wire, Frame(kind, a, run[a], TRUE))
  /\ UNCHANGED <<pageVars, pend, run, ended, accepted, stranded, viaSse,
                 shownAgain>>

\* A turn ends by itself, with or without an error, or by the abort request that
\* Stop sends (ok is FALSE).
TurnEnds(a, ok) ==
  /\ Room
  /\ run[a] # None
  /\ ended' = ended \cup {run[a]}
  /\ wire' = Append(wire, Frame("end", a, run[a], ok))
  /\ run' = [run EXCEPT ![a] = None]
  /\ UNCHANGED <<pageVars, pend, told, accepted, stranded, viaSse, shownAgain>>

-------------------------------------------------------------------------------
\* dispatchSessionEvent on the next frame.

\* hook:turnStart.
OnStart(f) ==
  /\ f.kind = "start"
  /\ IF f.agent \in suppressed THEN UNCHANGED <<bubbles, streaming>>
     ELSE /\ bubbles' = [bubbles EXCEPT ![f.agent] = Ensured(@)]
          /\ streaming' = [streaming EXCEPT ![f.agent] = TRUE]
  /\ UNCHANGED <<tabAgent, calls, stranded, shownAgain>>

MutOnText(f) ==
  /\ f.kind = "text"
  /\ IF sse[f.agent] > 0
     THEN UNCHANGED <<bubbles, streaming, shownAgain>>
     ELSE /\ bubbles' = [bubbles EXCEPT ![f.agent] = Ensured(@)]
          /\ streaming' = [streaming EXCEPT ![f.agent] = TRUE]
          /\ shownAgain' = (shownAgain \/ f.turn \in viaSse)
  /\ UNCHANGED <<tabAgent, calls, stranded>>

\* stream:llm: the text of an agent with an active CLI stream is dropped.
OnText(f) ==
  /\ f.kind = "text"
  /\ IF sse[f.agent] > 0 \/ f.agent \in suppressed
     THEN UNCHANGED <<bubbles, streaming, shownAgain>>
     ELSE /\ bubbles' = [bubbles EXCEPT ![f.agent] = Ensured(@)]
          /\ streaming' = [streaming EXCEPT ![f.agent] = TRUE]
          /\ shownAgain' = (shownAgain \/ f.turn \in viaSse)
  /\ UNCHANGED <<tabAgent, calls, stranded>>

\* The other frames of a running turn: no CLI stream hides them.
OnTool(f) ==
  /\ f.kind = "tool"
  /\ IF f.agent \in suppressed THEN UNCHANGED <<bubbles, streaming>>
     ELSE /\ bubbles' = [bubbles EXCEPT ![f.agent] = Ensured(@)]
          /\ streaming' = [streaming EXCEPT ![f.agent] = TRUE]
  /\ UNCHANGED <<tabAgent, calls, stranded, shownAgain>>

\* flushQueuedForAgent: the head is sent to its pinned target; the item stays
\* queued until the send is accepted.
Flush(a) ==
  IF queue[a] = <<>> \/ tabAgent # a
  THEN UNCHANGED <<tabAgent, calls>>
  ELSE \E c \in Calls, kind \in Kinds : Start(c, Head(queue[a]), a, kind, a)

\* The flush of an agent's queue leads to another turn end of that agent.
FlushGoesOn(f) == /\ f.ok
                  /\ tabAgent = f.agent
                  /\ queue[f.agent] # <<>> => Mention[Head(queue[f.agent])] = None

\* hook:turnEnd: the last streaming bubble is closed, and after a turn that
\* ended well the queue is flushed.
OnEnd(f) ==
  /\ f.kind = "end"
  /\ bubbles' = [bubbles EXCEPT ![f.agent] = IF @ = <<>> THEN @ ELSE Front(@)]
  /\ streaming' = [streaming EXCEPT ![f.agent] = FALSE]
  /\ IF f.ok THEN Flush(f.agent) ELSE UNCHANGED <<tabAgent, calls>>
  /\ stranded' = IF FlushGoesOn(f) THEN stranded \ {f.agent}
                 ELSE stranded \cup {f.agent}
  /\ UNCHANGED shownAgain

Dispatch ==
  /\ Yielded
  /\ wire # <<>>
  /\ wire' = Tail(wire)
  /\ LET f == Head(wire) IN OnStart(f) \/ OnText(f) \/ OnTool(f) \/ OnEnd(f)
  /\ UNCHANGED <<prepares, unsent, queue, owner, suppressed, sse, pend, run, told, ended,
                 accepted, viaSse>>

Next == \/ \E m \in Msgs : Submit(m)
        \/ \E m \in Msgs : SendNow(m)
        \/ \E m \in Msgs : Edit(m)
        \/ \E c \in Calls : PreparationFails(c)
        \/ \E c \in Calls : Steer(c)
        \/ \E c \in Calls : Prepared(c)
        \/ \E c \in Calls : PostAnswered(c)
        \/ \E c \in Calls : PostFails(c)
        \/ \E c \in Calls : SteerEnds(c)
        \/ \E c \in Calls : CliFails(c)
        \/ \E c \in Calls : CliAnswered(c)
        \/ \E c \in Calls : CliBreaks(c)
        \/ \E c \in Calls : CliEnds(c)
        \/ Stop
        \/ \E a \in Agents : SwitchAgent(a)
        \/ \E c \in Calls : Accept(c)
        \/ \E a \in Agents, f \in Foreign : ForeignTurn(a, f)
        \/ \E a \in Agents : TurnBegins(a)
        \/ \E a \in Agents, kind \in {"text", "tool"} : TurnSpeaks(a, kind)
        \/ \E a \in Agents, ok \in BOOLEAN : TurnEnds(a, ok)
        \/ Dispatch

Spec == Init /\ [][Next]_vars

-------------------------------------------------------------------------------

Started == {c \in Calls : calls[c] # Unused}

PreparingCalls == [stage : {"preparing"}, msg : Msgs, kind : Kinds \cup {"steer"},
                   from : Agents \cup {None}, agent : Agents]

SentCalls == [stage : {"native", "cli", "steer", "reading"}, msg : Msgs,
              agent : Agents, aborted : BOOLEAN]

OverCalls == [stage : {"over"}, msg : Msgs]

CallStates == {Unused} \cup PreparingCalls \cup SentCalls \cup OverCalls

Frames == [kind : {"start", "text", "tool", "end"}, agent : Agents, turn : Turns,
           ok : BOOLEAN]

TypeOK == /\ prepares \in BOOLEAN
          /\ tabAgent \in Agents
          /\ unsent \subseteq Msgs
          /\ queue \in [Agents -> Seq(Msgs)]
          /\ calls \in [Calls -> CallStates]
          /\ owner \in Calls \cup {None}
          /\ streaming \in [Agents -> BOOLEAN]
          /\ suppressed \subseteq Agents
          /\ sse \in [Agents -> Nat]
          /\ bubbles \in [Agents -> Seq(Calls \cup {None})]
          /\ pend \in [Agents -> Seq(Turns)]
          /\ run \in [Agents -> Turns \cup {None}]
          /\ told \subseteq Turns /\ ended \subseteq Turns
          /\ wire \in Seq(Frames)
          /\ accepted \subseteq Calls
          /\ stranded \subseteq Agents
          /\ viaSse \subseteq Calls
          /\ shownAgain \in BOOLEAN

\* A message reaches the server at most once, whether it is sent at once, queued
\* and flushed at a turn's end or pulled out of the queue (Composer.onSubmit: a
\* queued message "flushes as its own turn").  It does not with a registered
\* preparation: an item stays in the queue while its flush is prepared.
SentOnce == \A c, d \in accepted : c # d => calls[c].msg # calls[d].msg

\* After Stop nothing of the agent looks alive until its next send: no late
\* frame, aborted request or broken stream lights the Stop button or reopens a
\* bubble (cancelStream, suppressAgentStream).
StopHolds == \A a \in suppressed : Idle(a) /\ bubbles[a] = <<>>

CliCalls(a) == {c \in InStage({"cli", "reading"}) : calls[c].agent = a}

\* The count that makes session frames yield to a CLI stream is the number of the
\* agent's CLI requests in flight: no exit of sendMessage leaves it raised, which
\* would silence the agent, or lowers it for another call.
SseCountsCalls == \A a \in Agents : sse[a] = Cardinality(CliCalls(a))

\* The abort controller of the session belongs to a call in flight, which Stop or
\* the next send can still abort, and a call that lost it was aborted.
OwnerInFlight ==
  /\ owner # None => owner \in InStage({"native", "cli", "reading"})
  /\ \A c \in InStage({"native", "cli", "reading"}) : c = owner \/ calls[c].aborted

Quiet == /\ \A c \in Started : calls[c].stage = "over"
         /\ \A a \in Agents : pend[a] = <<>> /\ run[a] = None
         /\ wire = <<>>

\* When every request is answered and every frame applied, no agent looks busy; and
\* no bubble is left streaming, whatever turn closed whatever bubble: a turnEnd
\* closes the last streaming bubble, a turnStart takes one it did not push, but
\* when every request reached the server the two even out.
QuietMeansSettled ==
  Quiet => \A a \in Agents : Idle(a) /\ (Started \subseteq accepted => bubbles[a] = <<>>)

\* A queued message is sent once: when all is quiet the queue of an agent is empty,
\* unless its last turn was stopped or failed, or ended while the tab showed another
\* agent; and without a registered preparation no message was sent twice on the way,
\* from the queue or around it (flushQueuedForAgent).
QueueServed ==
  /\ Quiet => \A a \in Agents \ stranded : queue[a] = <<>>
  /\ ~prepares => SentOnce

\* The comment on the CLI branch of stream:llm: the tab that reads a reply from
\* its own CLI stream drops the copy on the session stream.  The mark is gone once
\* the stream has ended, so a copy that arrives later is shown again.
RenderedOnce == ~shownAgain

\* The comment of _streamSuppressByAgent: the suppression of a stopped agent is
\* cleared on the next send of the user to it.  An interrupt leaves it, and one that
\* mentions a stopped agent gets its reply dropped.
SendLiftsSuppression ==
  [][ \A c \in Calls :
        ~prepares /\ calls[c].stage = "preparing" /\ calls'[c].stage \in InFlight
          => calls[c].agent \notin suppressed' ]_vars
================================================================================
