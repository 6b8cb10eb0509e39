# A formal model of forgeax-chat

forgeax-chat is the chat page of an agent workbench: a React application that
talks to a server over HTTP, over a session WebSocket and over streaming
requests. Its rendering is ordinary; what is hard in it is what happens between
the network, the message list and the user. This directory models that part in
TLA+, checks it with TLC on small instances and proves theorems about it with TLAPS.
Paths below are relative to `src/src/` unless they begin with `src/`; SS is
`session-store/session-stream.ts`, `store.ts` is `session-store/store.ts`.

## 1. Inventory

| component | code | state it keeps | operations |
|---|---|---|---|
| WebSocket bridge | `session-bridge.ts` 1-160, 337-501 | `_desiredSid`, `_attachedSid`, `_ws`, `_connected`, `_reconnectTimer`, `_reconnectDelay` | connect, disconnect, the four socket listeners, the reconnect timer |
| host connection | `connection.ts` | the installed transport, the cleanups | `setChatConnection`, `disposeChatConnection` |
| resumable stream | `session-bridge.ts` 280-335, SS 1566-1624, `store.ts` 650-670, 876-1278 | `_cursors`, `_helloSgen`, `_gapBuffers`, `pendingSessionWork`, one `loadSession` per call | gate, note, buffer, release, recovery |
| turn control | `store.ts` 1447-2797, 3092-3130, `Composer.tsx` | the client queue, `_abortByTab`, `streamingByAgent`, `_streamSuppressByAgent`, `_cliSseTurns` | send (native, CLI, steer, slash, skill, tool), stop, enqueue, send-now, edit, flush |
| event dispatch | SS | message slots (session × agent), text and argument buffers, seals | one handler per event, snapshots, flushes |
| replay and merge | `store.ts` 876-1278, `event-engine/*` | none of its own; overwrites slots | `loadSession` |
| thread history | `store.ts` 367-640, 1282-1446 | `_tailsByTab`, `runId` | load the runs of a CLI thread, follow those that go on |
| permission cards | `permission-stream.ts`, `PermissionPrompt.tsx` | pending, settled and answered requests by session | ask, settle, replay, drop |
| question cards | `AskUserCard.tsx`, `task-flow/ask-user-protocol.ts` | drafts, a cache that outlives the mount | draft, submit, answer, expire |
| turn trace | `chat-turn-trace.ts` | one active turn by agent, its stall timer | begin, first token, end, stall |
| daemon ticks | `session-store/daemon-tick.ts` | tick → bubble | start, event, end |
| rewind | `event-engine/rewind-mask.ts`, `RewindControls.tsx` | `pendingRewind`, dialog, editors | mask, rewind, cancel, finalize |
| projection | `task-flow/*` | none (pure) | messages → bodies, processes, tasks |
| thread scrolling | `scroll-follow.ts`, `use-scroll-anchor.ts`, `unread-messages.ts`, `ChatPanel.tsx` | pinned, recorded heights, render window, unread | follow, drag, page, resize, switch |
| thread navigation | `handoff-focus.ts`, `use-agent-thread.ts`, `ChatPanel.tsx` | bound agents, parked teammate, loaded threads | switch, hand off, pull, close |
| composer | `Composer.tsx` and its helpers | text, owner, drafts, attachments, file reads, submission | type, attach, request, send, interrupt, queue |
| expert, warm-up | `agent-key.ts`, `rewind-send-options.ts`, `cli-prewarm.ts` | selected expert; cycles, cooldowns | pick, resolve, send; warm |
| model selection | `Composer.tsx`, `ModelPicker.tsx`, `runtime.tsx` | shown model, cache, seeds | read, repair, seed, pick, reset |
| runtime contract, boot, panel | `runtime.tsx`, `main.tsx`, `ChatPanel/*` | React state | REST calls, rendering |

**How they interact.** `connectForgeaXWs(sid)` opens one socket. Each frame it
delivers is, in one browser task, recorded (`hello`), turned into a gap buffer
(`resume-gap`), held back in that buffer, or queued as session work; a microtask
passes queued work through the sequence gate and into the handlers of SS. These write
the slots, raise and lower `streamingByAgent` and, on a turn's end, flush the client
queue by calling `sendMessage`. `sendMessage` and the user's Stop write the same
flags, and so do the continuations of every request in flight. A `resume-gap` starts
`loadSession`, which rewrites a slot from the durable log and moves the cursor that the
gate and the next reconnection use. The panel renders the slots, loads a thread when it
is first shown, and its composer hands texts to `sendMessage` after awaiting files and
connections, while the thread on screen may change.

**What is hard, and when it is right.**

* *Bridge*: sockets are orphaned, not awaited; their late events arrive after
  the next socket exists; constructors throw synchronously. There is one live socket for
  the wanted session, or one armed timer, never both.
* *Stream*: three sources (ring replay, WAL recovery, snapshot) overlap, and one
  cursor and one buffer are shared by recoveries that overlap as well. Each event is
  dispatched at most once, none is lost, the cursor is monotone and never runs ahead of
  what is shown, and held frames are released.
* *Turn control*: the controller of a session is one slot shared by calls for
  several agents; the end of a turn is told twice (HTTP answer, `turnEnd` frame), in any
  order; a queued item is sent and removed in two steps around an await; the same text
  travels on two channels. A stopped agent stays quiet until the next send, quiet pages
  have no streaming flag or bubble, one queued message becomes one turn, and what waits
  is shown once, where it was entered.
* *Slots*: a replay commits over work done during its request; buffered text is flushed
  after a snapshot; words are told by chunks, steps, snapshots and the log; a tick follows
  the active agent. Each request and each sealed word is shown once, in order, and live
  and reload agree.
* *Histories and streams of CLI providers*: loads overlap, tails are cut, a stream is
  stopped while buffers are full. A run has one tail, and nothing read is lost.
* *Cards*: requests and resolutions arrive as frames and in logs read earlier; a reply
  may be lost, refused or overtaken, and its card may be gone. The cards converge to what
  the host waits for, and only recorded answers are shown.
* *Rewind*: a boundary is told by a frame, an index, a log and an HTTP answer. The live
  page greys out what a reload would.
* *Panel*: the browser reports scrolls and sizes late and in any order; one input serves
  all threads; models, logs and catalogs are read while the route changes. The reader
  stays where she is, a text goes to the thread it was written for, the picker tells what
  the server has.

`PROJECT.json` lists the hazards one by one with their lines.

## 2. Modules

| module | models | composed with |
|---|---|---|
| `BridgeLink` | the abstract promise of the bridge: wanted session, link live or not, frames routed only over the live link of the wanted session | – |
| `BridgeSocket` | sockets, timer, backoff, replaced transports | implements `BridgeLink` |
| `ResumeStream` | cursor, gate, gap buffer, recoveries, the server's generations and ring | link up and down as in `BridgeLink` |
| `TurnControl` | sends, controller, stop, suppression, queue, turn frames | frames in order, as `ResumeStream` delivers them |
| `Outbox` | a message between Enter and its turn: queue rows, slash commands, skills, loops, tools | the turn itself is in `TurnControl` |
| `CliStream` | the reading of one CLI reply with its buffers, sub-agents and ends | the call is in `TurnControl` |
| `Transcript` | `TurnAccumulator` and the builder of messages: log → rows, as operators | used by `SlotStream` |
| `SlotStream` | the live slot of an agent, snapshots, buffers, replay and merge, ticks | the gate and buffer of `ResumeStream`, one generation |
| `SystemRows` | cards and notices of several agents, live and from the log | frames in order |
| `ThreadHistory` | runs of a CLI thread, loads and tails | – |
| `PermissionStream` | pending, settled and answered requests, the card and its replies, replay, deletion | frames in order |
| `AskCard` | the question card, its cache, its reply | – |
| `Rewind` | mask, pending rewind, dialog, editors, banner, a second tab | – |
| `WorkTimeline` | the projection into bodies, processes, tasks, as operators over a growing transcript | – |
| `TurnTrace` | turns, stall timers, incidents, render frames | – |
| `ThreadScroll`, `ThreadFocus` | scrolling; which thread is shown and loaded | – |
| `ComposerText`, `Summon`, `ModelChoice`, `CliPrewarm` | the input and its owner; the expert; the model; the warm-up | – |
| `Filter` | `Array.filter` and the loop over an array as recursive functions, which the provers can unfold | used by `SlotStream`, `ComposerText`, `Rewind`, `CliStream`, `WorkTimeline` and `SystemRows` |
| `ComponentProofs`, `WorkProofs`, `ResumeStreamProofs`, `TurnControlProofs`, `RequestProofs`, `SlotStreamProofs`, `PanelProofs`, `RowsProofs` | theorems: of `BridgeSocket`, `TurnTrace` and `SystemRows` the first, of `WorkTimeline` `WorkProofs`, of `PermissionStream`, `Rewind` and `CliStream` `RequestProofs`, of `MCPanel` `PanelProofs`, of `MCThread` `RowsProofs`, of the module named the others | TLAPS |
| `MC*` | instances for TLC | |

`MCRequests`, `MCPanel`, `MCThread` and `MCFlows` each put several modules side by side (`MCPanel` extends
`CliPrewarm`, `MCRequests` extends `PermissionStream`, the rest are instantiated). These share no
variable, so a behaviour of one constrains no other: the state `focus` chooses, at
the beginning, the one that takes the steps, and a property is checked on all of them.

The definitions named `Mut...` are deviations a bug could introduce; nothing in a
specification uses them. They record, for each property, one change of the code
that the property detects.

An assumption holds for all modules of the panel: React renders a change of the store before
another task runs, and the effects of a render run before the next one. Continuations of
awaits, timers and network events come in any order.

### BridgeSocket

`desired`, `attached`, `ws`, `connected`, `timer`, `delay` and `host` are the
module variables of the code. `net` is the browser's side: a socket told to close
is `closing`, can still deliver frames, and is `closed` after its close event. One
action per entry point: `Connect`, `Disconnect`, `SetConnection`, `Dispose`, the
timer (`Reconnect`, or `ReconnectFails` when the constructor throws),
`OpenEvent`, `MessageEvent`, `CloseEvent`. `Opens` and `Throws` are the two
outcomes of `_connectOnce`. The early return of `connectForgeaXWs` is
`AlreadyAttached`; `_connected` keeps the value of the *previous* socket until an
open or close event of the current one, and the model keeps that. The error
listener only logs. Socket ids are reused once closed, so the guard
`net[k] = "closed"` bounds how many sockets are alive at once.

### ResumeStream

One session. `Emit`, `Restart`, `Accept` and `ReadWal` are the server, which is
not in this repository: it is reconstructed from the frames and comments of the
page (external in the map). An event `<<gen, seq>>` is in the log for ever; a reconnection
with a cursor of the running generation gets the ring replay, or a gap when the
ring no longer reaches back; one of another generation gets a gap. `Receive` is the
message listener, `Drain` one element of `pendingSessionWork` (`ApplyEvent`,
`ApplySnapshot`, `StartRecovery`, `SkipRecovery`), `CommitLoad`/`FailLoad` the end of
a `loadSession`. A browser task finishes with its microtasks, so all actions of
the page wait until the work queue is drained; for the same reason
committing a replay and noting its cursor (an already resolved dynamic import) are one
step. The history variables `applied`, `replayed`, `twice`, `echoed` say by which
way an event was shown.

### TurnControl

One session with several agents. A call of `sendMessage` is a record with a stage:
`preparing` (before and during the host's preparation), then `native`, `cli` or
`steer` with its request in flight, `reading` the CLI stream, `over`. The
transitions between stages are the awaits of the code; everything between two
awaits is one action. `owner` is `_abortByTab` of the session. Aborting marks the call; its
rejection is `PostFails`, `CliFails` or `CliBreaks` later. `bubbles[a]` is the
sequence of *streaming* assistant bubbles of the agent's slot, each with the call that
pushed it, or `None` when `ensureStreamingAsst` made it: the code closes "the last
streaming bubble" on `turnEnd`, and settles "the bubble of this call" on failure,
and the two need not be the same one. `prepares` says whether a host registered a send preparation:
without one `sendMessage` does not yield before it is accepted (`Yielded`). The
server runs the turns of an agent one after the other; `wire` is the session stream, at any
delay from the HTTP answers. `Foreign` are turns started by another tab, an agent or a daemon.
`Stop` is guarded by the streaming flag of the shown agent, as its two callers
(`Composer.tsx` 1736, `RewindControls.tsx` 101) offer it only then. Left out: the thread of a
parallel tab, the abort of a closed tab, and the `turnEnd` that is a checkpoint of a waiting `ask_user`
(it changes none of this state).

### Outbox

What `TurnControl` abstracts of a send: the row with which a waiting message is shown
(`enqueueMessage` and its `optimisticMessageId`), and the messages that are no plain turn.
`Kind` says which of the paths of `sendMessage` a message takes: a slash command is executed by the
server and its row replaced by the result, the name of a skill waits for the catalog and its prompt, a
loop and a tool are requests of their own. A turn only makes its agent busy until it ends.
`Reload` is a replay as far as it takes rows away; what it took is in `wiped`.

### Transcript, SlotStream

`Transcript` is the accumulation of a log into messages (`turn-accumulator.ts`, `message-builder.ts`):
`Replay` of rows, with `Feed`, `SettleTurn` and the turns that wait. `SlotStream` is one agent's slot. `log`
is what the server sent; its durable part is the ledger, and `Word` gives each chunk its own word. `Dispatch` applies one event to
`page` (the slot, the busy flag, the text and argument buffers, the seals of turns, the tick bubbles); `Frame` is the animation
frame that flushes the buffers; `Snapshot` is `applyTurnSnapshot`. `Drop` and `Reconnect` lose the frames on the way and bring a
ring replay, a gap or a snapshot. `OpenTab`, `ReadLog`, `CommitLoad`, `FailLoad` are `loadSession` with its merge. `TickStart`, `TickEvent` and
`TickEnd` are `handleDaemonTick`. A send here only pushes its two bubbles and is answered; the rest of it is in `TurnControl`.

`spoilt` names what was lost or mixed in a way the code does not repair: `doubled` (a snapshot while buffered words wait),
`mixed` (a tick's bubble adopted by a turn), `skipped` (a load that moved the cursor past frames on their way), `unclosed` (a busy flag or bubble a
commit left), `forgotten` and `unrecovered` (a load that failed, or took away rows). The run prunes the behaviours after such a
state (`Unspoilt`), since each of them is a defect or a loss named in section 5.

### SystemRows

Several agents and the rows of a session that are no speech. `Dispatch` is what a frame does to the slots, `Replay` what
the log of an agent shows, and `Distilled` forgets what the two are known to tell differently (section 5). `Load`, `ReadLog`,
`CommitLoad` and `LoadsNothing` are a `loadSession` of one agent, whose cursor is that of the session.

### CliStream

A reply read frame by frame: words and calls of the agent and of its sub-agents, with the text and argument buffers
that are written at most once in 32 ms (`FlushInTime`). `Stop` marks the stream; the frames behind it are not read; `Ends` is what its
three ends share (read to the end, aborted, broken). A text is the sequence of the numbers of its frames.

### ThreadHistory

The server's runs grow by scripts of AG-UI events; a run may die without a terminal event. `Load`, `Listed`, `Polled`,
`LoadFails` are the awaits of `loadThreadHistory`, `Committed` its replacement of the slot, `Consumed` the reducer
`consumeAguiEvents`. A tail is an `EventSource` with the number of events it read; `Stop`, `Drop` (a closed tab), `Cleanup` (a new
connection) and `TailBreaks` end it, and what they cut while it was streaming is in `lost`.

### PermissionStream

`pending`, `settled` and `summary` are the three maps of `permission-stream.ts`; the insertion order of a session's
map is a sequence. `log` is the host's list of requests and resolutions of each session, where it decides once.
The page gets it by `Frame`, in order from the position `at` where its socket opened, and by `Replay` of a prefix that
`ReadLog` read at some earlier time, cut at a compact boundary; `Gap` skips frames. A frame may have waited in a gap
buffer, which is only a delay. `Dispatch` is the reducer over the events of one task, stated for the whole run: the last
event that opens a request or answers a question decides the summary. `submitting` is the
reply of the mounted card. `Render` is the commit of React that follows every store
change before the next task: when session or request of the card changes (`Key`), the card unmounts, its reply
becomes a `stray` one whose answer is ignored, and a new front request clears the decision line. `Drop` is
`dropPermissionSession`, which runs after the host has deleted (`Delete`). `got` is history: the positions of
the log received since the last drop. Left out: questions and options (an answer is a member of `Choices`), an
`AskUserQuestion` without questions, the rewind mask over a replayed log, and hosts that call the exported
`clearPendingPermission` themselves.

### AskCard

The asks of one agent, each with its card. `host` and `given` are the host's side, `tool` what the page was told, `cache` the
module map of drafts that a remount reads, `posts` the replies on their way: a reply names the agent and not the call, so it
resolves the ask the agent waits for when it is served. `strayed` says that a card was mounted again while its reply was on its way, or
that a reply met a later ask.

### Rewind

A message is its number. `ledger` is the server's log, `wire` the frames; `Rewound`, `Undone` and `Logged` are the server's answers, shared by
this page and by another tab (`ForeignRewind`, `ForeignRedo`, `ForeignSend`). `ApplyRewindMask` and `FindPendingRewind` are the pure
functions; `Loaded` is what a reload shows. The page learns of a boundary by `Receive`, by the answer to its own request
(`RewindAnswered`, `EditAnswered`, `RedoAnswered`) and by the index of checkpoints (`IndexAnswered`). `muddled` records the
orders in which the page cannot agree: an index older than an event (`stale`), a cut whose message is not a row yet (`observed`), a reply below a
newer request (`late`), a request overtaken by one of another tab (`crossed`). Files and the code-only mode are left out.

The mask is `Dropped`, the condition of an entry, and `Among`, the filter. The server, which is external, refuses to rewind a message that is rewound already.

### WorkTimeline

`ProjectWorkTimeline` and `Attributed` are the pure functions of `project.ts` and `process-tasks.ts`; the transcript `talk` grows by the
steps of a message store, and the property is about the projection of every reachable transcript. `StepsOwned` says that a step of the todo window is under one task, and under the one
that was active when it was taken; which task a step between two lists goes to is `Owner`'s choice. `Mixes` bounds a transcript by the kinds of segment that occur together.

### TurnTrace

Each turn begun, with its open spans, the generation of its timer and the stalls reported of it. The timer host may throw after it took a
callback and run one that was cleared; `StallFires` is fenced by the generation. `ChatTurnEnd` leaves the render span to
`FrameFires` unless the page is hidden.

### ThreadScroll, ThreadFocus

`ThreadScroll` measures heights in messages' lengths, one unit being more than the tolerances in pixels. `Commit` is a render with the effects that follow it;
`ScrollEvent`, `ScrollEnd`, `Observe` are the browser's later reports; `LoadEarlier` and `CommitPage` the anchor. `place` is what the
reader has at the top, and `Lost` where the page is known to have moved it. `ThreadFocus` is the tab's agent, the parked teammate, the pull
of an ask and the loading of threads; `Effects` are the effects of the panel after each change of the shell. `misled` are sessions shown while the catalog
stood in for another root.

### ComposerText, Summon, ModelChoice, CliPrewarm

`ComposerText`: a text is a sequence of words, pills of files and advices; each carries the thread and the generation it was entered in, which the code
does not keep and only the properties read. `OwnerNow` is the owner looked up as the code does it, on use and not on a switch. A
submission goes through `Submit`, `ResumeSend`, `Drained`, `ModelReady` or `ModelMissing` and then `Send`, `Enqueue` or nothing; each may find its owner gone. `strays` are
words an unmount saved as the draft of another thread. `Summon`: `Resolved` is the expert shown at each render, `Effect` the reconciling
effect, `Meant` what the user means; a message keeps the expert it was written with. `ModelChoice`: a read of a thread's model may find one the catalog does not
know and write another (`WriteServed`, `WriteAnswered`), seeds a new thread, and races with `Pick` and `Reset`. `contested` are the
threads where two writes or a write and a read overlapped. `CliPrewarm`: the timer of the route shown, the cycles under way and the sets that outlive it.

## 3. What is checked

With two TLC workers the runs take between a few seconds and about three minutes.

| run | modules | properties | shows |
|---|---|---|---|
| `bridge_socket` | `BridgeSocket`, `BridgeLink` | `TypeOK`, `NeverStuckNeverDoubled`, `OneLiveSocket`, `BackoffRestarts`, `ImplementsLink`, `Recovers` | the bridge is one socket or one timer, implements the link, and connects in the end |
| `resume_stream` | `ResumeStream` | `TypeOK`, `DispatchedOnce`, `NothingMissed`, `CursorForward` | no event twice, none lost, over restarts and overlapping recoveries |
| `flows` | `ResumeStream`, `TurnTrace`, `WorkTimeline`, `SystemRows` | `GapReleased`, `SilenceReported`, `TraceSafe`, `WorkShown`, `RowsLikeReload` | held frames are always released, a silent turn is always reported, incidents belong to the turn that waits; the steps of a conversation lose and repeat nothing and stay with their task; the cards and notices of two agents, shown live, are those a reload shows |
| `turn_agents` | `TurnControl` | `StopHolds`, `SseCountsCalls`, `OwnerInFlight` | Stop holds and the counters are exact over two agents and both transports |
| `turn_quiet` | `TurnControl` | `QuietMeansSettled`, `QueueServed` | with a foreign turn, nothing is left busy, streaming or queued when all is quiet |
| `slot` | `SlotStream` | `ConversationExact`, `RestIsIdle`, `LikeReload`, `TicksKept`, `EndedStays` | the slot shows each request and sealed word once, is idle at rest, and is what a reload builds |
| `requests` | `PermissionStream`, `Rewind`, `CliStream` | `SettledWasAnswered`, `CardsAgree`, `ShownIsTrue`, `CardKeepsPlace`, `RewindAgrees`, `StreamKept` | cards converge to the host's open requests, none is lost, only recorded answers are shown; a page told of every rewind shows what a reload shows; a CLI reply shows all that was said |
| `panel` | `AskCard`, `ThreadScroll`, `ThreadFocus`, `ModelChoice`, `Summon`, `CliPrewarm` | `AnswersMatch`, `FollowKept`, `FocusKept`, `ModelTold`, `SummonKept`, `WarmSparing` | one property of each, see below |
| `thread` | `ComposerText`, `ThreadHistory`, `Outbox` | `ComposedMessages`, `HistoryShown`, `OutboxShown` | one property of each, see below |
| `turn_prepared`, `slot_newer`, `composer_drafts` | `TurnControl`, `SlotStream`, `ComposerText` | `SentOnce`, `LoadKeepsNewer`, `DraftsSurvive` | expected violations: the findings of section 5 |

The properties of `panel` and `thread`: an answer sent covers its group and the card shows what the host took (`AskCard`); a thread that
follows shows its end and a reader elsewhere keeps her place (`ThreadScroll`); a message leaves once, with the words and
files entered for its thread (`ComposerText`); the thread shown has its log, asks pull once (`ThreadFocus`); the picker tells the
model the server has (`ModelChoice`); a message summons the expert meant (`Summon`); a provider is warmed by one request at a
time (`CliPrewarm`); a bubble shows what its one tail has read (`ThreadHistory`); what waits, and what a command became, has one row where it
was entered (`Outbox`).

**Bounds, and why they are enough.**

* *Bridge*: 2 sessions, 2 transports, 3 sockets, delays 1-3. At most one socket is live, so three ids
  give the current one and two orphans in different phases; the delays reach the cap by a doubling that overshoots it.
* *Stream*: `MaxGen` 2, `MaxSeq` 2, `MaxHeld` 2, two recoveries and the load of an opened tab. Two generations give every relation between a
  cursor and a `hello` (same, older, none); two events give a hole and a successor; two recoveries are the smallest
  overlap, and the code treats a third like the second. In `flows` one of each, the question being whether a recovery ends.
* *Turns*: two calls are an old and a new owner of the controller; two messages are a queue with a head and a rest; `MaxLag` 2 lets
  the end of a turn and the start of the next be on the wire together. The two runs split agents from
  foreign turns because a foreign turn acts on one agent's slot only.
* *Slot*: `MaxLag` 2, and two `Moves` out of opening the tab, losing the link, sending and a tick, with every pairing of them. `Scripts` are
  four courses of the server: two turns of words with a step between, a reply to a message of this page with a mail after it, one with announced and finished calls, one
  with an ask that ends its turn by a checkpoint. Each event kind of the module occurs, and every position of the moves in them.
* *Views*: `MaxMessages` 2, `MaxSegs` 4 and four `Mixes` (`WorkTimeline`). Two segments of any kinds, over two messages: in the second what changes the first. Three of a text, a
  question and a call, in one message: a question between narration and its call. Three of lists and delegations, over two messages: a list of the later message against steps of the
  earlier one. Four of lists, texts and calls in one message: two steps of two tasks. There the words of a task meet another task that takes over, and a step has no active task, but a next one, an
  earlier one or none, so it goes to the first; `MutTook`, which lets the words pass to the other task, is found only there.
  `MaxEvents` 3, `MaxAhead` 1, `MaxLoads` 1 (`SystemRows`): a card, its update and a row between, met by a load.
* *CLI reply*: `MaxStream` 4, two calls and a sub-agent: a call with its delta, frame and result beside words of another agent.
* *Permissions*: one session, a question and an approval, one log being read, one stray reply. All state but the screen is by session, and leaving for no session
  unmounts the same cards as leaving for another one; a log read at any length meets every position of the frames.
* *Rewind*: `MaxMsgs` 2, `MaxRewinds` 1, `MaxFrames` 2, `MaxReads` 1: a boundary with a message on each side, told by a frame and by an
  index at once.
* *Trace*: `MaxTurns` 2 of one agent in two sessions, `MaxStalls` 2, `MaxGen` 3 generations: a later turn against the timer and frame of an earlier one.
* *Panel and thread*: `MaxAsks` 2, `MaxMounts` 2 (a reply and a later ask; a remount); `Window` 1, `Views` 1 and 2, `MaxRows` 2, `MaxLength` 2 (content smaller, equal and larger
  than the viewport, one hidden page); `MaxTokens` 2, `MaxSwitches` 2 over two threads (away and back); `MaxVisits` 5, `MaxPulls` 2 with two sessions and two asks;
  `MaxRoutes` 4, `MaxJobs` 3 (two reads and a write under way; the last change of route finds nothing under way, so that a first read that failed, two picks and the way
  back occur); `MaxActs` 4 with pages that prefer an expert or none; `MaxAttempts` 2, `MaxMoves` 5; `MaxRuns` 2,
  `MaxLoads` 2, `MaxCuts` 1 (two loads over a live and a finished run); `MaxEntries` 4, one message of each kind.

Every bound is a constant in the guard of the action it limits. Where two threads, sessions or agents are alike,
`MCPanel` and `MCThread` begin with a chosen one. Deadlock is not checked in the bounded models, where messages, calls and
numbers run out; it is checked in `bridge_socket`.

**History variables that excuse a state.** `lost` (`ResumeStream`): a recovery failed or had no
agent to load, or the page reconnected without a cursor. `stranded` (`TurnControl`): the agent's last turn was stopped, failed, or
ended while the tab showed another agent; the code flushes the queue in none of these. `spoilt`, `muddled`, `strayed`, `misled`, `contested`,
`unread`, `strays`, `place = Lost`, `lost` and `Dead` (`ThreadHistory`), `wiped` (`Outbox`), `stale` (`Summon`) are explained above; `behind`,
`passed` and `sorted` (`SystemRows`): a load that set a slot back, moved the cursor past another agent's events, or sorted rows beside a live bubble.
Each stands for a defect or a loss named in section 5, and the property says what holds beside it.

**Fairness.** Bridge: the browser delivers the close event of a closing socket (weak); an armed
timer fires, and, tried again and again, a constructor and a handshake succeed again and again (strong,
per session and per current socket). Without the strong part a server that is down for ever
satisfies the specification. `flows`: microtasks run (weak on `Drain`), a request in flight is
answered or fails (weak per load), and the timers of the watchdog come due (weak per turn). All other properties are safety.

## 4. What is proved

### ComponentProofs and WorkProofs: the bridge, the turn trace, the task flow and the system rows

Four components that share no variable (the turn trace is the instance `T` of `MCFlows`, the task flow its instance `V`, in `WorkProofs`, the system rows its instance `SR`).

**The bridge.** For any sets of sessions, sockets and transports and any bounds of the backoff.
The assumptions are those of `BridgeSocket`: `null` is no session and no socket (`SidAssumption`,
`SockAssumption`), the browser's transport is a transport (`HostAssumption`), and
0 < `InitialDelay` <= `MaxDelay` (`DelayAssumption`).

The invariant is `IInv`: `TypeOK`, `NeverStuckNeverDoubled`, `OneLiveSocket`,
`BackoffRestarts`, and the strengthening `Attachment`, which ties `_attachedSid` and the stale
`_connected` to the rest: `attached` equals `desired`, `connected` is false while no session is wanted, and
an open current socket has set it. It is needed because of the early return of `connectForgeaXWs`: it
keeps the socket on the word of `attached`, which is right only if `attached` names the session of that
socket; and a live link asked for again must be kept, which needs `connected` to be true of it.
The proof has one lemma per operation (`OpensStep` and `ThrowsStep` for the
two outcomes of `_connectOnce`, shared by `Connect` and the timer).

* `TypeCorrect`, `NeverStuck`, `SingleSocket`, `BackoffResets`: the parts of `IInv`.
* `Implementation`: every step of the sockets is a step or a stutter of `BridgeLink`, under `want <- desired`
  and `live <-` "the current socket is open". Opening the current socket is
  `Attach`, its close event is `Lose`, a connect is `Choose`, and a firing timer or a frame of an orphan
  is a stutter.

**The turn trace.** For any agents and sessions and any bounds; nothing is assumed. `TraceIsSafe` is `TraceSafe`, of `TurnTrace` alone and of `MCFlows`. `TreesClosed` and `LatestActive` are inductive with
`Placed`: an agent's active turn is one of its own, and only an ended turn waits for a frame, so a late frame takes away no later turn. `IncidentsOwned` is not:
`resolveStall` recovers an incident only of a turn whose `stalls` is positive. `Owned` says that the turn an incident belongs to has counted it, so
the token, the tool result, the end or the later turn that makes the incident groundless also recovers it.

**The task flow** (`WorkIsShown`). For any turns, agents and todo lists and a transcript of any length; all that is assumed is that a todo list is a sequence
(`TodosAreLists`). `WorkShown` is about a function of the transcript, so the proof is in two halves.
* What a transcript is, `TalkInv`, kept by every step of the message store: the calls are numbered as they come; a call is in the flat list of its message once and in
  its segments; only a call of work comes again, in a message of the same turn (`Shared`). Without the last a question and a step could share an identity.
* What the projection of its first n messages is, `ProjectionFits`, proved along the fold. A process has an anchor with entries; each of its entries is one of a
  message of the process, and a step that of the last one which has the call (`FromSource`); each entry of each such message is there by its identity; the identities
  differ, and so do the items of the timeline, where a message is if and only if it is shown.

  The merge keeps this because what comes again replaces the one entry it repeats, and the sort because an insertion loses and repeats nothing (`SortedIs`).

`NothingHidden` follows from the two: a segment is hidden, kept or entered, one of the three (`KeptOrEntered`); what is kept is shown; what is entered is in the process,
and nothing else is, as an entry with the identity of a segment is an entry of that message (`OnlyEntered`). `StepsOwned` is a third fold, of `tasksFromProcess`: after
each entry the steps so far and the words that wait are spread under the tasks without a repetition (`Spread`), a step that was taken is under its owner or among the words of its
owner (`Sits`), and a flush leaves no words. The active task is the owner if there is one.

**The system rows** (`RowsAreLikeReload`). For any agents and any bounds, of `SystemRows` alone and of `MCFlows`; assumed is that the tab shows one of the agents and
that nothing is neither an agent nor one of the words of an event (`RowAssumption`). The invariant is `RowsInv`:
* `RowsFit`: a slot is made of bubbles and of notices of visible events that concern its agent, each with the row one of the two ways gives it, and no two notices
  are one card;
* `Shows`: a slot that no load set back or passed by shows, of the events told alike, what the log up to the cursor shows: the same list, or the same set where a
  load sorted rows beside a live bubble. The property compares with the whole log; it is this at rest, when the cursor is at the end of the log.

The whole proof goes through `Pushed`, what one row makes of the list compared. An event told alike has one row on both ways (`ToldAlike`); that a frame pushes it
(`DispatchIs`) and that the replay of one more event pushes it (`FedIs`) are two facts about two pieces of code, and with them an event applied live keeps `Shows`. A load moves the
cursor, so it needs two more: what it skips of its own agent is nothing, the log being that agent's (`ReplaySkips`), and what it skips of another is shown nowhere,
unless that agent is in `passed` (`ShownSkips`). `MergedRows` says that the merge, which may drop bubbles and sort, keeps the notices, as a list or as a set.

`Among` and `Folded` are recursive functions; that they have their fixpoint is shown, as for `Without`, by the least number where they would not.

### TurnControlProofs

For any sets of agents, messages, calls and foreign turns and any lag of the wire. The assumptions are those of
`TurnControl`: a mention is an agent or nothing (`MentionAssumption`), nothing is neither an agent nor a turn
(`NoneAssumption`), a call is native or CLI (`KindAssumption`), and a turn that another tab or a daemon started is none of this
page's calls (`ForeignAssumption`: the server names the turns it starts itself).

The invariant is `IInv`: `TypeOK`, `StopHolds` and `OwnerInFlight`, which is inductive as it stands. `StopHolds` is stated strongly
enough for that: a suppressed agent has neither a streaming flag nor a streaming bubble, so a late frame finds nothing to
extend, and every step either opens nothing for it or lifts its suppression (`QuietKept`). `OwnerInFlight` is what
types need: Stop marks the call of the owner as aborted, and only a call whose request was sent carries that mark.

* `TypeCorrect`, `StoppedStaysQuiet`, `NoCallEscapes`: the parts of `IInv`.
* `CountsCliCalls`: `SseCountsCalls`, from `SseExact`: `sse[a]` is the cardinality of `CliCalls(a)`, which is finite. The
  set starts empty, and each step adds or removes at most the one call it is about; that needs no assumption that `Calls` is finite.
* `SettlesInTheEnd`: `QuietMeansSettled`. Its invariant `QuietInv` (also checked by TLC on the instances of `turn_agents` and `turn_quiet`) counts what an agent
  still waits for: its `Ends`, which are the turns whose end frame is to come (`Turning`: waiting at the server, running, or ended on the wire) and the requests
  that pushed a bubble and are not accepted yet (`Asking`).
    * `Busy`: an agent marked streaming waits for a turn, or its request holds the controller. A late opening frame may light an agent up
      whose turn has ended: `Followed` says that a frame that is no end is followed on the wire by one of its agent, or the turn still runs.
    * `Even`: an agent has no more streaming bubbles than `Ends`. Which turn closes which bubble does not matter: an end frame takes one of each, a send adds
      one of each, an opening frame adds a bubble only where there is none and an end is to come. A request given up before the server had it breaks
      the count for good (`Doomed`): its bubble is settled by name, but a foreign end may have closed it already.
    * `Reached`: what the server accepted was sent, and a CLI stream is read only of an accepted call.
* `QueuesAreServed`: `QueueServed`. Its first half is `Served`, a part of `QuietInv`: a queue that is not `stranded` has an end or a prepared send of its agent to come.
  Its second half, `SentOnce` without a preparation, is `MessagesInOnePlace`: every message is not typed yet, or one entry of one queue, or of one call, except that a
  call that prepares the flush of a queue shares its message with the head of that queue (`Placed`); while it prepares nothing else runs (`Yielded`), so it is
  still the head when the accepted flush takes it out. `Cut` and its lemmas say that the ways out of a queue take one entry and move none.

### ResumeStreamProofs

For any numbers of generations, events and held frames and any set of recoveries. The assumptions are `BoundAssumption`
(the bounds are naturals, at least one generation), `NoneAssumption` (nothing is neither a number nor a cursor) and
`BufferAssumption` (no buffer is nothing: `_gapBuffers.has` tells an empty buffer from none). The last is what `NoEventMissed`
needs: without it a full buffer could pass for none, and its frames would be dropped.

* `TypeCorrect`: types.
* `CursorMonotone`: `CursorForward`, step by step from the types: the gate and `Noted` never lower a cursor of the same generation.
* `EventsOnce`: `DispatchedOnce`. The gate compares numbers only within the cursor's generation: once a recovery has moved the cursor to
  the generation of the last hello, the gate alone would let a repeated event of an older one through. `OnceInv` says why none is left by then:
    * `Behind`: the cursor is at or past everything dispatched, and `NoneOlder`: nothing that waits is of an older generation than what was dispatched.
      So a queued event that was overtaken is of the cursor's generation (`WorkGated`), and the gate drops it.
    * `HeldFresh`: while frames are held nothing is dispatched, and no held event was overtaken. Held frames are therefore safe to release
      after the cursor has moved.
    * `ChanFresh`, `DialFresh`: the events that will be held are past those dispatched, because the socket was dialed with a cursor past them or its gap
      is still ahead of them in the channel.
    * `Known`, `Ordered`, `GapAlone`, `Greeted`, `Snapshots`: generations and numbers are bounded by the server's, each channel is in order, a `resume-gap`
      is alone in its task, nothing precedes the hello of its generation, a snapshot is past the events before it.
* `NoEventMissed`: `NothingMissed`. Its invariant `MissInv` (also checked by TLC on the instance of `resume_stream`) says where an event that
  was not shown is now. `Had` is what was shown, together with what a recovery in flight will show: a request not yet answered will read the whole log, an
  answer already read shows what it holds, so a load turns from the one into the other without losing anything. Unless something was `lost`:
    * `CursorBacked`: what lies behind the cursor, and behind the cursor the socket was dialed with, is had. The ring therefore has to bring
      only what comes after.
    * `Chained`: frames wait in the order session work, gap buffer, channel, and whatever the cursor will pass when a frame of them is applied
      is had or is brought by a frame that waits before it (`Led`). A resume-gap brings the whole log; a dropped buffer is covered by the gap that dropped it.
    * `Carried`: what waits was logged, and an open socket owes nothing of the running generation that is neither had nor waiting.
  When nothing waits and no recovery is in flight, `Had` is what was shown (`WayEnds`). The lemmas about `Led` and `Brought` (`LedAppend`,
  `LedTail`, `LedConcat`) say how the two change when a frame is sent, taken or released.

### RequestProofs

For any sessions, requests, replies and bounds. `CardsLeaveAnswered` is `SettledWasAnswered` and `OnlyTruthIsShown` is `ShownIsTrue`.
Neither is inductive alone: a reply settles and shows when its answer arrives, so `IInv` adds `WaitIsTrue` (while
the mounted card holds an "ok", the log of the session on the screen holds that very resolution), which `Render` keeps
because a card that leaves the screen forgets its reply, and `ReadsArePrefixes` (frames and reads stay within the log, so
what is dispatched was recorded). `Growing`: the host's log loses no outcome.

`CardsConverge` is `CardsAgree` and `CardsKeepTheirPlace` the action property `CardKeepsPlace`. `CardsAgree` speaks of a page that has received the whole log;
its invariant `CardsKept` (also checked by TLC on the instance of `requests`) says what the queue is at any time: the requests received and not
settled, each once, and a resolution that was received is settled. With the whole log received, and with `SettledWasAnswered` for the other direction, that
is what the host waits for. `AskedOnce` (the host asks a request once) makes a run of events free of repetitions. The queue changes by `Selected`,
the elements of a sequence at some of its positions; `Ranks` and `SelectedElements` say that it is those elements in their order by
counting positions, with no induction. `Enqueued` appends and `Without` removes, so a first card that stays is the first card (`EnqueuedCards`, `WithoutCards`);
`Run` is a step of the reducer over any piece of the log, which a frame and a replay both are.

`RewindsAgree` is `RewindAgrees`, of the specification of `Rewind` and of `MCRequests`. It is for any messages, rewinds, frames and reads; `RewindAssumption` asks only that the
bounds are numbers and that `None` is told from an answer and from a pair of the index. Its invariant `RewindInv` has two parts.

* `Base` holds in every behaviour: the ledger numbers its messages and boundaries in order (`LedgerOK`), what is on the wire or under way was logged (`WireOK`,
  `SendsOK`), and the rows are messages (`RowsOK`).
* `Agreed` holds unless the orders of the page were `muddled` or a message under way was overtaken (`Doomed`). The rows are in order and are the messages the page was told of without
  those a told final boundary hides (`InOrder`, `AllShown`); a message the page is not told of yet has a higher number than those before it (`Numbered`); `Told` says that the last frame about a rewind tells what pends, and without one the page knows it or
  an answer that tells it is awaited.

When nothing waits, the page was told of everything, and what a reload shows must be the same sequence. The mask of the code is a scan; `Sealed` and `Covers` are its closed form: a boundary
with a message right after it is final and hides what was logged from its own message up to it (`DroppedIs`), and only a boundary at the end of the ledger pends (`PendingIs`). `Among` keeps a position if and only if it is not
dropped, by the least position for which that fails (`PlacesKept`, `LoadedIs`), and two sequences of the same numbers in order, each once, are equal (`SameLength`, by bijections).

`RepliesAreKept` is `StreamKept`, of the specification of `CliStream` and of `MCRequests`, for any agents, calls and frames; `CliAssumption` asks that the agent is none of its
sub-agents, that there are finitely many calls, and that `None` is told from what is kept of a call. The property speaks of a stream that is left; `CliInv` says where each word and call is
before:
* `OneOwner`, `ResultsFit`: the frames of a call are of one agent, and its result comes after its own frame.
* `BufFits`, `DeltasFit`: the text buffer has one entry per agent, with words of that agent in order and later than what is written of it; no deltas wait for a call whose result was read,
  so no flush puts a finished call to work again.
* `Shown`: the message has exactly the words that were read and do not wait, in order and of the right kind and agent (`Words`), each call of its own frame once, and the finished
  calls at rest (`CallsFit`).

A write either says words (`SaidShown`, `EntryShown`, `TextShown`) or loses none (`Mends`: the texts stay, calls are only added, and those not written to stay as they are). Every frame flushes the text, then writes,
so there is one lemma per frame built of these. At the end the buffers are empty, what is shown are the words read, and two rising sequences of the same numbers are equal (`RisingSame`). The
loops of the code are `Folded`, a recursive function: `RoundsMade` shows that it has its fixpoint by the least natural number where it would not, and `Reached` is the
induction over its rounds, stated of a set of numbers.

### The model choice (PanelProofs)

For any threads, providers, catalogs and bounds; `NoneIsNoPick` asks only that `None` is told from a write of the picker. `ModelIsTold` is `ModelTold`:
`LoadingEnds`, `ShownIsServed` and `PickKept`. The last two say nothing of a state with operations under way, so `IInv` adds what each operation knows:
* `Coherent`: on a thread that is not contested, a read that has its answer has the model of the server, and a write that was served wrote it.
* `Told`: what is shown is that model, or a read of what is on screen or a served pick will paint it.
* `ForFirst`: a write over a model that its catalog has is a first model; `Listed`: what was picked is in the catalog of now. Together they say
  that a repair never replaces a pick.

A write that meets nothing on its thread (`MetByNone`) leaves these true of every other operation, having none beside it; and a thread stops being
contested only when it comes on screen with nothing under way on it. While this invariant was prepared, TLC refuted an earlier form of `PickKept`
with four moves: the code itself writes over a pick, `SeedSparesPick` in section 5.

### SlotStreamProofs

For any calls, any sequence of events, any lag of the link and any number of moves; nothing is assumed. `TicksAreKept` is `TicksKept`: a bubble of `daemon-tick.ts` has no
event in the log, so a load that drops it drops it for good. The invariant `SlotInv` types the log, the frames (also the held ones), the loads and the page, and says that each id
in `ticks` is the id of a row that is a message. Two relations carry it:
* `After(p, q)`: `q` has every row of `p` (by its id). Every handler leads to such a page (`OnCallAfter`, `ReconciledAfter`, `EndedAfter`, ...), therefore so do a dispatched event
  (`DispatchAfter`), a snapshot, a frame and all the frames a recovery releases (`AppliedLater`, `ReleasedLater`).
* `TicksStay(p, q)`: `q` has the rows of ticks. It is what a load grants: `Merged` keeps the bubbles of ticks whatever the replay gives and sorts them in (`MergedStay`), and
  `NothingLogged` filters all but them (`NothingLoggedStay`).

A replay only has to be a sequence of messages (`IsReplay`, with one lemma per event of the accumulator up to `ReplayIs`), because `Merged` tells its rows apart by their anchors. `Among`,
`ByTime`, `Replayed` and `Released` are recursive functions. Each has two lemmas: that it satisfies its equation, by the least index at which it would not (`AmongUnfold`,
`ByTimeUnfold`, `ReplayedUnfold`, `ReleasedUnfold`), and what it therefore keeps, by the least index at which that would fail (`AmongThem`, `ByTimeAll`, `ReplayIs`, `ReleasedLater`).

### PanelProofs and RowsProofs

Theorems of the instances `MCPanel` and `MCThread`, which take a part for each of their modules: every step is one of the part or leaves the part's variables alone, so a
part has an inductive invariant of its own. No bound is used; `PanelAssumption` and `ThreadAssumption` (evaluated by TLC) say that the sessions are those of the two tabs and that `None`
is no agent, no answer, no number and no list of runs, and that a window has a message (`MEMLEAK_CASE02_RENDER_WINDOW` is 120) and heights are naturals; `NoneIsNoChoice` and `NoneIsNoPick` are hypotheses, as TLC could not evaluate the first and the second is a set of another module.
* `PanelTellsModel` is `ModelIsTold` of the panel, whose steps are those of the model or leave it alone.
* `AnswersAreTaken` (`AnswersMatch`): the property knows only cards that show an answer. `AskInv` adds who may come to say so: a reply under way is the one
  of its ask and has the drafts of the mounted card and of the cache, both of which are locked; card and cache have the same drafts; and whoever
  says that the ask is answered has the drafts the host took.
* `ExpertsAreMeant` (`SummonKept`): `ChoiceHeld`, a choice of this page is selected by hand and was in the catalog, and there is none after a change of page
  whose effect is still to run; `OwnsComposer`, the read of the expert after the await of a submission meets the agent it was for.
* `FocusIsKept` (`FocusKept`): `LogsKnown`, a thread the panel remembers as loaded is there, refused or being read; `PullsCounted`, the ask that pulled last is not
  the one that pulls next, so its count stays one below what the others and the mounts allow.
* `ProvidersAreSpared` (`WarmSparing`, of the module `CliPrewarm` and of the panel), if a cycle has at least one attempt (its hypothesis): the bound on failures needs
  `Counted`: a provider without a cycle that is not cooling has none, and the failures of one with a cycle are the attempts that cycle has lost, so a cycle that begins after another
  was cut short by a change of route cannot add to what that one left. `Apart` and `Welcome` say that the sets the code keeps mirror the cycles.

* `TailIsFollowed` (`FollowKept`): the property speaks of a page at rest; `ScrollInv` says what holds before the browser has reported. `AtTail`: while nothing is to be
  observed, a followed thread was seen at its end last, with the height and viewport of now, and is there unless a drag away from it is about to be noticed (the
  pointer may be released first: `onPointerUp` handles the scroll too). `OffTail`: a reader elsewhere has a place, and a page on its way was asked for at that place, so the anchor
  of `useScrollAnchor` adds exactly the height the page brings (`PagesGrow`: what is hidden and what is rendered are together all there is). The position
  fits the content (`ScrollTyped`), so the browser clamps no anchor. `Ends`, the layout, is a recursive function, unfolded like `Without` below.

The other three, of `RowsProofs`: two are about the rows of a slot, the last about the composer.
* `HistoryIsShown` (`HistoryShown`): what a load or a tail has read is a beginning of its run; the terminal event of a run is its last, so a read that met it has
  all of the run; what is still to be polled was not read; a run has one tail and a thread one bubble of it.
* `RowsAreShown` (`OutboxShown`). Its invariant `OutboxInv`:
    * the ids of the rows are distinct, except that a row of the log has none, so taking a row away by its id takes that one;
    * an item that waits has the message of its row, and the row is in the slot of its queue unless a load took it away (`wiped`); a row of the user is of an item
      that waits or of a message that was accepted;
    * a message waits once, or is under way, or has left; a command has one row, of its own call while that runs.

  The proof has one lemma per change (a row is told, an item is taken, a message leaves, a call or a command begins or ends, a slot is loaded again) and one per
  handler, which is a few of them in a row. The filter of `dequeueMessage` is `Without`, a recursive function: the library's `SelectSeq` is a recursive operator, of
  which the provers know nothing. `WithoutThem` shows that the function has its fixpoint by the least natural number where it would not, and that it keeps the rows
  that stay.
* `MessagesAreComposed` (`ComposedMessages`). What the user has entered is in one place at a time, and `Composed` says in which, with a part for each place:
    * `TextsFit`: a word is in the text, which is also the draft of its thread, or in a message; while the composer is mounted the two are the same, and words of
      another thread are in it only if an unmount brought them (`strays`);
    * `BatchesFit`: a batch being read belongs to one owner, and no two batches share a file;
    * `FilesFit`: what is attached was chosen in this visit of a thread or an earlier one, and what was chosen in this visit (the generation of the owner) is of the
      owner's thread, so what `takeAttachments` selects by the generation is of the thread the message goes to;
    * `MessagesFit`: a message has words and files of its thread only, and no two messages share one; `Together` is the second half of the property.

  A number counts what was entered and every place is bounded by it (`Upto`), so what is entered next is new everywhere. The owner is looked up on use and not on a
  switch, so most lemmas are about a change that may also move the owner (`OwnerMoves`); `NoMore` says what a step may not bring to the other places. The filters
  are `Among`, a recursive function as `Without` is. A queued message that is taken back into the text (`EditQueued`) is no message any more, so its words stay in one place.

### Only model-checked

`Recovers`, `GapReleased` and `SilenceReported` (liveness is out of the prover's reach); `ConversationExact`, `RestIsIdle`, `LikeReload` and `EndedStays` of `SlotStream`.
The first and the third compare two computations over a whole log (a replay and a fold with `FoldLeft` and `SelectSeq`, where `SystemRows` has recursive functions), so their proof would need what the
recursive operators of the community modules compute for every input. `EndedStays` and `RestIsIdle` hold for the scripts of their run and not for every value of the constants: with an aborted
call the flush of its arguments reopens the bubble (section 5).

## 5. Findings

Each of the first three has a run that expects the violation.

* `turn_prepared`. With a host that prepares sends, an item being flushed stays in the queue until
  the preparation ends (`store.ts` 1574); its own chip (send now, edit) or a second end of turn sends it again.
  Without a preparation `QueueServed` includes `SentOnce`.
* `slot_newer`. A load that fails or finds no log decides with the messages it saw before the request and then filters the slot as it is
  (`store.ts` 943): a message sent meanwhile, and its reply's bubble, are taken away, against `store.ts` 941 and 1211.
* `composer_drafts`. The cleanup of the composer (`Composer.tsx` 1259) writes the text on screen as the draft of the owner looked up last, which may be
  the thread left before; and Enter in a thread entered by a switch erases the draft just restored (1764).

The definitions below do not hold either. They are stated in their modules for a reader who wants the trace; the properties of
the runs say what holds beside them.

| definition | module | to see it |
|---|---|---|
| `HeldDuringRecovery`, `OverlapDropped` | `ResumeStream` | add to `MCResumeStream.cfg` |
| `RenderedOnce` | `TurnControl` | `TurnQuiet.cfg` with `NoForeign` and `Kinds = {"cli"}` |
| `SendLiftsSuppression` | `TurnControl` | `MCTurnControl.cfg` with `OneForeign` and `Kinds = {"native"}` |
| `NewRequestClears` | `PermissionStream` | add to `MCRequests.cfg` |
| `RestIsIdle` with an aborted call | `SlotStream` | `MCSlotStream.cfg` with `Scripts <- AbortedCall` |
| `StoppedIsSealed`, `CallKeepsArguments` | `CliStream` | a configuration of `CliStream` |
| `NonePassed` | `SystemRows` | a configuration of `SystemRows` with the constants of `MCFlows.cfg` |
| `StreamsWhileRunning`, `ShownOnce`, `QueueGoesOn`, `NoExpertCrosses`, `SettledIsWarmed` | `ThreadHistory`, `Outbox`, `Summon`, `CliPrewarm` | the constants of `MCThread` for the first three, of `MCPanel` for the others |
| `SeedSparesPick` | `ModelChoice` | the constants of `MCPanel` |

What they and the history variables stand for:

*Stream and cursor.*
* The session has one gap buffer: when a second `resume-gap` arrives during a recovery, the end of the *first* releases the
  frames the second must precede (SS 1570), while `session-bridge.ts` 294 says that they wait for the full recovery. They are shown, then replayed.
* The cursor is noted after a replay only if a `hello` was received; a replay committed before it leaves
  the live frames that overlap it to be applied again (`store.ts` 1253).
* A load of one agent's log moves the session's cursor past events of other agents not yet received, and past frames of
  its own agent that a commit did not show (`store.ts` 1250-1273).

*Slots.*
* A snapshot sets the text while buffered words wait; the flush doubles them (SS 1498). The dedup of steps by suffix drops a step that repeats the end of the text.
* A commit keeps a live bubble but leaves the busy flag of a turn whose end it replayed (`store.ts` 1231-1247).
* The flush after an aborted `turnEnd` marks a call and its bubble streaming again. A tick's bubble that streams is adopted by a turn's text.
* `agent_crash` (SS 1364-1397) neither flushes the queue nor clears seals; the error row at the tail blocks later loads; on a reload its bubble is "done".
* Session frames of a CLI turn that come after the CLI stream has ended are shown a second time (`RenderedOnce`).

*Rows live and after a reload.* A crash with only `message`, a retry or fallback without `warning`, a subagent's result and a text of an unseen agent show a row live and none
(or another) after a reload; media and agent commands, resumes without a delegation, and `visual_display` beside an error the other way round. A message between agents is in one slot live and in both
after a reload. A card updated live takes a new time, so a merge beside a live bubble moves it.

*CLI streams and histories.*
* The flush of a stopped reply reopens a running call (`StoppedIsSealed`); buffered argument deltas overwrite final
  arguments (`CallKeepsArguments`, `store.ts` 2406); sub-agent runs made by plain frames are never settled (2781).
* `STEP_FINISHED` compares the raw name with the normalised one (614), so an aliased step never ends; `RUN_FINISHED` settles no running call; Stop leaves
  `runId`; the commit replaces messages sent meanwhile; a load begun with another agent shown writes and cuts that one's slot; a load that ends after its tab was closed
  makes slot and tails anew; a run that dies, or whose tail gave up, streams for ever.

*Sends.* An interrupt that mentions a stopped agent does not lift its suppression (`SendLiftsSuppression`). A queued slash command or tool shows its message a second time (1764, 1881: `existingUserMessageId` is ignored) and, having no
turn, does not flush the rest of the queue (`QueueGoesOn`, against `Composer.tsx` 1815); a refused skill keeps its place at the head; while the skill catalog is awaited its item can be sent
again; a load's commit takes away rows of waiting messages and of running commands, whose result is then lost.

*Cards.* A log read before a request arrived may be replayed after it and puts the summary of an older question back in place of its decision line (`NewRequestClears`,
`PermissionPrompt.tsx` 96). A question card mounted again while its reply is sent permits a second one; a reply carries no call id, so a late one resolves a later ask; a late snapshot recreates
a dropped cache.

*Rewind.* The answer of the checkpoint index overwrites newer events; closing the dialog while it is busy lets its answer close a newer one; `cancelled` clears any pending
rewind whatever its boundary. When the boundary of a message with no row is finalized the rows stay as they are (`store.ts` 2927), while the mask of a reload drops what came after that
message: if the server took a rewind of a message that is rewound already, page and reload would differ. `RewindsAgree` rests on its refusal, and `MaxRewinds` 2 without it violates `RewindAgrees`.

*Projection.* Todo items without id and with equal content share a task; a snapshot of a call repeated in a later message is ignored; a message with an artifact but no turn shows both the
legacy card and the host's.

*Thread.*
* Scrolling: a click in the gutter, or loading earlier rows when everything fits, leaves the reader unpinned at the bottom; any change of the last user message counts as "just sent"; the anchor
  takes growth below for growth above; a page rendered after a switch leaves a pinned thread off its bottom; arriving messages slide the window under a reader.
* Navigation: two asks pull the focus back and forth, as only the last one pulled is remembered; a failed load of a thread is never retried while its tab is open; the catalog's main agent
  standing in for another root parks the true root. `parkedSubAgentId` and `returnToSub` are consumed by no component.
* `ChatAgentCapsule`: after a switch of session with the same agent busy before, its bubble claims a finished turn; unread marks are shared by sessions.

*Composer.*
* Attachments of a thread left stay displayed and are never sent; files chosen before leaving a thread are dropped; an interrupt leaves the
  attachments; a suggestion queued once does nothing until an edit; a text requested in one thread lands in the one shown at the next frame; text typed with no agent bound is lost when one
  is pinned; editing a queued message overwrites the input. The gate of `Composer.tsx` 457-461 (no pending permission) is not implemented.
* Model: a late pick paints the model of the thread left onto the one shown (against 639-641); a pick during a read may be overwritten by an older read or the seed; a reset by the
  host's settings does not tell the composer; a thread whose first read failed or was left keeps its seed marker (652-654, 699-709), so that a model picked by hand
  there gives way to one picked later on another thread (`SeedSparesPick`, against 2407); a write that outlives its provider leaves the other catalog's model; a failed read shows none.
* Expert: an edited message goes to the thread shown after its rewind (`RewindControls.tsx` 374-377, against `Composer.tsx` 926-928); the catalog is fetched once at mount.
* Warm-up: a route whose provider is busy with another session is dropped and not tried again.

## 6. Not modelled, and why

* REST calls of `runtime.tsx`, rendering, pickers, formatting and wording: pure I/O and layout.
* Boot (`main.tsx`, `standalone-session-bootstrap.ts`): one pass, whose order (handlers before the socket) is an assumption of `ResumeStream`.
* Turn control: the thread of a parallel tab, the abort of a closed tab. Events: artifacts, blobs, the list of agents, runs of sub-agents on the
  session stream; an error thrown in the middle of a microtask batch (SS 1622).
* Rewind: files, kept dirty files, their notice and the code-only mode.
* Projection: the legacy `projectTimeline` and the freezing of failed steps.
* Composer: the picker of commands and skills, the insertion of references.
* `AgentSwitcher.tsx`: mounted nowhere.

What is left of the plan: proofs of the other properties of `SlotStream`, where a fact about a fold or a selection
can be had from the least element for which it fails; the parallel tabs of `TurnControl`.
