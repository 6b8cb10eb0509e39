--------------------------------- MODULE Outbox ---------------------------------
(***************************************************************************)
(* A message between Enter and its turn (store.ts: sendMessage, the queue):   *)
(* it waits behind a running turn with a row that shows it, or it is a slash   *)
(* command, which the server runs without a turn, or the name of a skill,     *)
(* whose prompt is fetched before the turn begins.                            *)
(*                                                                          *)
(* What a turn does is in TurnControl, with mentions and preparations; here    *)
(* it makes its agent busy until it ends.  The log has the messages whose     *)
(* turns the server began, and a load shows the log and nothing else.         *)
(***************************************************************************)
EXTENDS Naturals, SequencesExt

CONSTANTS None, Agents, Msgs,
          Kind,        \* of a message: "plain", "loop", "tool", "slash"
          MaxActs      \* bound: what the user does, turns of others and loads

VARIABLES
  tab,        \* the agent the tab shows
  unsent,     \* the messages the user has still to enter
  rows,       \* the slot of each agent: role, message, id
  queue,      \* queuedMessages: message and optimisticMessageId
  calls,      \* the calls of sendMessage that await an answer
  busy,       \* streamingByAgent
  log,        \* server: the messages it has in the log of each agent
  accepted,   \* history: messages that left for good, with their agent
  executed,   \* history: the rows of commands the server was asked to run
  wiped,      \* history: the rows a load has taken away
  made,       \* ids given out
  acts

outboxVars == <<tab, unsent, rows, queue, calls, busy, log, accepted, executed, wiped, made, acts>>

Init == /\ tab \in Agents /\ unsent = Msgs
        /\ rows = [a \in Agents |-> <<>>] /\ queue = [a \in Agents |-> <<>>]
        /\ calls = {} /\ busy = [a \in Agents |-> FALSE] /\ log = [a \in Agents |-> <<>>]
        /\ accepted = {} /\ executed = {} /\ wiped = {} /\ made = 0 /\ acts = 0

-------------------------------------------------------------------------------
Row(role, m, id) == [role |-> role, msg |-> m, id |-> id]

\* A call that awaits: from is the row of the item a flush sends, row that of its answer.
Call(stage, m, a, from, steer) ==
  [id |-> made + 1, stage |-> stage, msg |-> m, agent |-> a, from |-> from, steer |-> steer, row |-> None]

Awaits(c) == calls' = calls \cup {c}

\* What a handler finds: the store as it has changed it before it sends.
Now == [queue |-> queue, rows |-> rows, busy |-> busy]

\* onAccepted of a flush: the item leaves, if it is still the head.
HeadLeaves(q, a, from) ==
  IF from # None /\ q[a] # <<>> /\ Head(q[a]).row = from THEN [q EXCEPT ![a] = Tail(@)] ELSE q

Accept(m, a, from, q) == /\ queue' = HeadLeaves(q, a, from)
                         /\ accepted' = accepted \cup {<<a, m>>}

\* The turn begins; the row of a queued message keeps its place, an interrupt shows its own.
\* The request reaches the server and its log, or it does not.
Turn(m, a, from, steer, now) ==
  /\ Accept(m, a, from, now.queue)
  /\ log' \in {log, [log EXCEPT ![a] = Append(@, m)]}
  /\ busy' = IF steer THEN now.busy ELSE [now.busy EXCEPT ![a] = TRUE]
  /\ rows' = IF ~steer /\ from # None /\ \E i \in DOMAIN now.rows[a] : now.rows[a][i].id = from
             THEN now.rows
             ELSE [now.rows EXCEPT ![a] = Append(@, Row("user", m, IF steer \/ from = None THEN made + 1 ELSE from))]

\* sendMessage until it awaits.
Start(m, a, from, steer, now) ==
  /\ made' = made + 2
  /\ \/ /\ Kind[m] = "plain"
        /\ Turn(m, a, from, steer, now)
        /\ UNCHANGED calls
     \/ /\ Kind[m] = "loop"
        /\ Accept(m, a, from, now.queue)
        /\ Awaits(Call("server", m, a, from, steer))
        /\ rows' = now.rows /\ busy' = now.busy /\ UNCHANGED log
     \/ /\ Kind[m] = "tool"
        /\ Accept(m, a, from, now.queue)
        /\ \/ /\ rows' = [now.rows EXCEPT ![a] = Append(@, Row("note", m, made + 1))]  \* arguments that do not parse
              /\ UNCHANGED calls
           \/ /\ rows' = [now.rows EXCEPT ![a] = Append(@, Row("user", m, made + 1))]
              /\ Awaits(Call("server", m, a, from, steer))
        /\ busy' = now.busy /\ UNCHANGED log
     \/ /\ Kind[m] = "slash"
        /\ Awaits(Call("catalog", m, a, from, steer))
        /\ queue' = now.queue /\ rows' = now.rows /\ busy' = now.busy
        /\ UNCHANGED <<accepted, log>>
  /\ UNCHANGED executed

-------------------------------------------------------------------------------
\* The user.

Act == acts < MaxActs /\ acts' = acts + 1

\* enqueueMessage: item and row are one commit.
Enqueue(m) ==
  /\ made' = made + 1
  /\ queue' = [queue EXCEPT ![tab] = Append(@, [msg |-> m, row |-> made + 1])]
  /\ rows' = [rows EXCEPT ![tab] = Append(@, Row("user", m, made + 1))]
  /\ UNCHANGED <<calls, busy, log, accepted, executed>>

Submit(m) ==
  /\ Act
  /\ unsent' = unsent \ {m}
  /\ IF busy[tab] THEN Enqueue(m) ELSE Start(m, tab, None, FALSE, Now)
  /\ UNCHANGED <<tab, wiped>>

WithoutItem(i) == [queue EXCEPT ![tab] = RemoveAt(@, i)]

\* The rows of s that are not among these.
Without(s, ids) ==
  LET kept[n \in 0..Len(s)] == IF n = 0 THEN <<>>
                               ELSE IF s[n].id \in ids THEN kept[n - 1] ELSE Append(kept[n - 1], s[n])
  IN  kept[Len(s)]

WithoutRows(ids) == [rows EXCEPT ![tab] = Without(@, ids)]

\* dequeueMessage, by the cross or to be edited.
Take(i) ==
  /\ Act
  /\ queue' = WithoutItem(i) /\ rows' = WithoutRows({queue[tab][i].row})
  /\ unsent' \in {unsent, unsent \cup {queue[tab][i].msg}}
  /\ UNCHANGED <<tab, calls, busy, log, accepted, executed, wiped, made>>

\* onQueuedSendNow
SendNow(i) ==
  /\ Act
  /\ \E steer \in {FALSE, busy[tab]} :
       Start(queue[tab][i].msg, tab, None, steer,
             [Now EXCEPT !.queue = WithoutItem(i), !.rows = WithoutRows({queue[tab][i].row})])
  /\ UNCHANGED <<tab, unsent, wiped>>

ClearQueue ==
  /\ Act /\ queue[tab] # <<>>
  /\ queue' = [queue EXCEPT ![tab] = <<>>]
  /\ rows' = WithoutRows({item.row : item \in ToSet(queue[tab])})
  /\ UNCHANGED <<tab, unsent, calls, busy, log, accepted, executed, wiped, made>>

Show(a) ==
  /\ Act /\ a # tab
  /\ tab' = a
  /\ UNCHANGED <<unsent, rows, queue, calls, busy, log, accepted, executed, wiped, made>>

-------------------------------------------------------------------------------
\* The answers.  The agent is the one the call began with, whatever the tab shows now.

Answered(c) == calls' = calls \ {c}

Noted(c) == rows' = [rows EXCEPT ![c.agent] = Append(@, Row("note", c.msg, made + 1))]

\* A loop or a tool: what came of it is noted.
ServerAnswers(c) ==
  /\ c.stage = "server"
  /\ Answered(c) /\ Noted(c) /\ made' = made + 1
  /\ UNCHANGED <<tab, unsent, queue, busy, log, accepted, executed, wiped, acts>>

\* The skill is found, or the name is a command, also when the catalog fails.
CatalogAnswers(c) ==
  /\ c.stage = "catalog"
  /\ \/ /\ calls' = (calls \ {c}) \cup {[c EXCEPT !.stage = "skill"]}
        /\ UNCHANGED <<rows, queue, accepted, executed, made>>
     \/ /\ Accept(c.msg, c.agent, c.from, queue)
        /\ made' = made + 2
        /\ rows' = [rows EXCEPT ![c.agent] = @ \o <<Row("user", c.msg, made + 1), Row("pending", c.msg, made + 2)>>]
        /\ calls' = (calls \ {c}) \cup {[c EXCEPT !.stage = "execute", !.row = made + 2]}
        /\ executed' = executed \cup {[agent |-> c.agent, row |-> made + 2]}
  /\ UNCHANGED <<tab, unsent, busy, log, wiped, acts>>

\* The prompt of the skill begins a turn; a refusal is noted, and what waited still waits.
SkillAnswers(c) ==
  /\ c.stage = "skill"
  /\ Answered(c) /\ made' = made + 1
  /\ \/ Turn(c.msg, c.agent, c.from, c.steer, Now)
     \/ Noted(c) /\ UNCHANGED <<queue, busy, log, accepted>>
  /\ UNCHANGED <<tab, unsent, executed, wiped, acts>>

\* Mutant: the answer looks for its row in the slot that is shown by then.
MutCommandAnswers(c) ==
  /\ c.stage = "execute"
  /\ Answered(c)
  /\ rows' = [rows EXCEPT ![tab] =
       [i \in DOMAIN @ |-> IF @[i].id = c.row THEN [@[i] EXCEPT !.role = "result"] ELSE @[i]]]
  /\ UNCHANGED <<tab, unsent, queue, busy, log, accepted, executed, wiped, made, acts>>

\* The row of a command becomes its result, if it is still there.
CommandAnswers(c) ==
  /\ c.stage = "execute"
  /\ Answered(c)
  /\ rows' = [rows EXCEPT ![c.agent] =
       [i \in DOMAIN @ |-> IF @[i].id = c.row THEN [@[i] EXCEPT !.role = "result"] ELSE @[i]]]
  /\ UNCHANGED <<tab, unsent, queue, busy, log, accepted, executed, wiped, made, acts>>

-------------------------------------------------------------------------------
\* Turns and loads.

\* Another tab, agent or daemon.
ForeignTurn(a) ==
  /\ Act /\ ~busy[a]
  /\ busy' = [busy EXCEPT ![a] = TRUE]
  /\ UNCHANGED <<tab, unsent, rows, queue, calls, log, accepted, executed, wiped, made>>

\* A turn that ended without error flushes the queue (flushQueuedForAgent), unless the
\* tab shows another agent.
TurnEnds(a) ==
  /\ busy[a]
  /\ LET now == [Now EXCEPT !.busy[a] = FALSE]
     IN  \/ /\ busy' = now.busy
            /\ UNCHANGED <<rows, queue, calls, log, accepted, executed, made>>
         \/ /\ queue[a] # <<>> /\ tab = a
            /\ Start(Head(queue[a]).msg, a, Head(queue[a]).row, FALSE, now)
  /\ UNCHANGED <<tab, unsent, wiped, acts>>

\* The commit of loadSession: rows that are in no log are gone.
Reload(a) ==
  /\ Act /\ log[a] # <<>>
  /\ rows' = [rows EXCEPT ![a] = [i \in DOMAIN log[a] |-> Row("user", log[a][i], 0)]]
  /\ wiped' = wiped \cup {rows[a][i].id : i \in DOMAIN rows[a]}
  /\ UNCHANGED <<tab, unsent, queue, calls, busy, log, accepted, executed, made>>

Next == \/ ClearQueue
        \/ \E m \in unsent : Submit(m)
        \/ \E i \in DOMAIN queue[tab] : Take(i) \/ SendNow(i)
        \/ \E a \in Agents : Show(a) \/ ForeignTurn(a) \/ TurnEnds(a) \/ Reload(a)
        \/ \E c \in calls : ServerAnswers(c) \/ CatalogAnswers(c) \/ SkillAnswers(c) \/ CommandAnswers(c)

Spec == Init /\ [][Next]_outboxVars

-------------------------------------------------------------------------------
At(a, id) == {i \in DOMAIN rows[a] : rows[a][i].id = id}

Waiting(a) == {item.row : item \in ToSet(queue[a])}

\* What the user sees of what she entered, but for what a load took away: a message that
\* waits has its one row in the slot it waits for, a message taken back has none, and
\* every other row is of one that left; a command has one row where it was entered, that
\* says it runs for as long as it does and then what came of it, wherever the tab went in
\* the meantime (enqueueMessage, dequeueMessage, clearQueue, sendMessage).
OutboxShown ==
  \A a \in Agents :
    /\ \A id \in Waiting(a) \ wiped : Cardinality(At(a, id)) = 1
    /\ \A i \in DOMAIN rows[a] :
         rows[a][i].role = "user" => rows[a][i].id \in Waiting(a) \/ <<a, rows[a][i].msg>> \in accepted
    /\ \A x \in executed : x.agent = a /\ x.row \notin wiped =>
         \E i \in At(a, x.row) :
           /\ At(a, x.row) = {i}
           /\ rows[a][i].role = IF \E c \in calls : c.row = x.row THEN "pending" ELSE "result"

\* A message is shown once for each time it was sent.  It does not hold: a command, a tool
\* or a second sending of a queued message shows the message anew beside the row it had
\* while it waited.
ShownOnce ==
  \A a \in Agents : \A m \in Msgs :
    Cardinality({i \in DOMAIN rows[a] : rows[a][i].role = "user" /\ rows[a][i].msg = m}) <= 1

\* "It flushes as its own turn when the current turn ends (sequential, one turn per
\* queued message)" (Composer.tsx:1815).  It does not hold: a command has no turn whose
\* end would flush the next item, and a skill that is refused keeps its place at the head.
QueueGoesOn == calls = {} /\ ~busy[tab] => queue[tab] = <<>>
================================================================================
