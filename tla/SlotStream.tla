------------------------------- MODULE SlotStream -------------------------------
(***************************************************************************)
(* One agent's slot of messages, live: the dispatch of session events and   *)
(* turn snapshots with the frame-batched text and tool deltas               *)
(* (session-stream.ts), the replay that loadSession merges into the slot    *)
(* (store.ts), and the bubbles of daemon ticks (daemon-tick.ts).  The link, *)
(* the sequence gate and the gap buffer are those of ResumeStream, for one  *)
(* server generation.  Stop and the transports of a send are in TurnControl:*)
(* here a send pushes its two bubbles and its POST is answered.             *)
(*                                                                          *)
(* The server is external: it runs one turn of the agent at a time, logs    *)
(* every durable event before it sends it, and numbers all it sends.        *)
(***************************************************************************)
EXTENDS Transcript

F == INSTANCE Functions

CONSTANTS Calls,     \* ids of tool calls, used once each
          Word,      \* the word of the chunk sent at a time
          Scripts,   \* bound on what the server sends: sequences of event types
          MaxLag,    \* bound on the frames on their way
          Moves,     \* what the page and its link may do beside receiving
          MaxMoves   \* bound on the number of those moves

ASSUME WordAssumption == DOMAIN Word = Nat

Loads == {"open", "gap"}

VARIABLES
  log,    \* server: everything sent, in order; the durable part is the ledger
  asked,  \* server: POSTs of this page not handled yet, each the id of its row
  link,   \* "up", or "down" with the frames on the way lost
  chan,   \* frames not yet received
  page,   \* the page: slot, streaming, and the module maps of session-stream.ts
  cursor, \* the last event applied
  held,   \* the gap buffer, or None
  loads,  \* the calls of loadSession in flight
  posts,  \* POSTs handled and not yet answered: <<row id, event>>
  used,   \* the moves made so far
  spoilt  \* history: what was lost or mixed, and why

vars == <<log, asked, link, chan, page, cursor, held, loads, posts, used, spoilt>>

NoEntries == [x \in {} |-> 0]

Init == /\ log = <<>> /\ asked = <<>>
        /\ link = "up" /\ chan = <<>>
        /\ page = [slot |-> <<>>, streaming |-> FALSE, buf |-> NoEntries,
                   deltas |-> NoEntries, seals |-> NoEntries, fresh |-> 1,
                   ticks |-> {}]
        /\ cursor = 0
        /\ held = None
        /\ loads = [l \in Loads |-> None]
        /\ posts = {}
        /\ used = 0
        /\ spoilt = {}

-------------------------------------------------------------------------------
\* The server (external).

\* The part of log `es` since the running turn started, or none.
TurnOf(es) == LET starts == LastWith(es, LAMBDA e : e.type = "start")
                  ends   == LastWith(es, LAMBDA e : e.type = "end" /\ e.arg # "waiting")
              IN  IF starts = {} \/ \E i \in starts, j \in ends : j > i THEN <<>>
                  ELSE SubSeq(es, CHOOSE i \in starts : TRUE, Len(es))

Running == TurnOf(log) # <<>>

TextOf(es)   == FoldLeft(LAMBDA t, e : IF e.type = "chunk" THEN Append(t, e.arg) ELSE t, <<>>, es)
SealedOf(es) == FoldLeft(LAMBDA t, e : IF e.type = "step" THEN t \o e.arg ELSE t, <<>>, es)
CallsOf(es)  == FoldLeft(LAMBDA m, e :
                    IF e.type = "call" THEN PutCall(m, e.arg, FALSE)
                    ELSE IF e.type = "result" THEN SetCall(m, e.arg[1], e.arg[2]) ELSE m,
                  Message("assistant", 0, None, "streaming", 0), es).calls

Unsealed(es) == SubSeq(TextOf(es), Len(SealedOf(es)) + 1, Len(TextOf(es)))

Send(type, arg) ==
  /\ Len(chan) < MaxLag
  /\ \E s \in Scripts : IsPrefix(Append([i \in DOMAIN log |-> log[i].type], type), s)
  /\ log' = Append(log, Ev(type, Len(log) + 1, arg))
  /\ chan' = IF link = "up" THEN Append(chan, [kind |-> "event", n |-> Len(log) + 1])
                            ELSE chan

Emit(type, arg) == /\ Send(type, arg)
                   /\ UNCHANGED <<asked, link, page, cursor, held, loads, posts, used, spoilt>>

\* A request of another tab, and a message another agent sends.
EmitRequest == ~Running /\ Emit("user", None)
EmitMail    == Emit("mail", 0)

EmitStart == /\ ~Running
             /\ log # <<>>
             /\ Emit("start", None)

EmitChunk == Running /\ Emit("chunk", Word[Len(log) + 1])
EmitStep  == /\ Unsealed(TurnOf(log)) # <<>>
             /\ Emit("step", Unsealed(TurnOf(log)))

Unused(c) == \A i \in DOMAIN log : log[i].type = "call" => log[i].arg # c
Announced == {c \in Calls : Unused(c) /\ \E i \in DOMAIN log : log[i].type = "delta" /\ log[i].arg = c}
Open(c)   == \E i \in DOMAIN CallsOf(TurnOf(log)) :
               /\ CallsOf(TurnOf(log))[i].id = c
               /\ CallsOf(TurnOf(log))[i].status = "running"

EmitDelta(c) == Running /\ Unused(c) /\ Emit("delta", c)
EmitCall(c)  == Running /\ Unused(c) /\ Announced \subseteq {c} /\ Emit("call", c)
EmitResult(c, status) == Open(c) /\ Emit("result", <<c, status>>)

\* A turn ends with its text sealed and its calls made and answered, or it is aborted; it
\* may report a checkpoint while an ask waits.
EmitEnd == /\ Running
           /\ Unsealed(TurnOf(log)) = <<>>
           /\ \A c \in Calls : ~Open(c) /\ c \notin Announced
           /\ Emit("end", "ok")
EmitAbort == Running /\ Emit("end", "aborted")
EmitCheckpoint(c) == Open(c) /\ c \in Asks /\ Last(log).type # "end" /\ Emit("end", "waiting")

\* A POST of this page is handled.
EmitOwn == /\ asked # <<>> /\ ~Running
           /\ Send("own", None)
           /\ posts' = posts \cup {<<Head(asked), Len(log) + 1>>}
           /\ asked' = Tail(asked)
           /\ UNCHANGED <<link, page, cursor, held, loads, used, spoilt>>

ReadLog(l) == /\ loads[l] # None /\ loads[l].n = None
              /\ loads' = [loads EXCEPT ![l].n = Len(log)]
              /\ UNCHANGED <<log, asked, link, chan, page, cursor, held, posts, used, spoilt>>

-------------------------------------------------------------------------------
\* The slot and its buffers.

\* flushPendingStreamText: the buffered words are appended, the bubble streams.
FlushText(p) ==
  [p EXCEPT !.slot = [i \in DOMAIN p.slot |->
                        IF p.slot[i].id \in DOMAIN p.buf
                        THEN [p.slot[i] EXCEPT !.text = @ \o p.buf[p.slot[i].id],
                                               !.status = "streaming"]
                        ELSE p.slot[i]],
            !.buf = NoEntries]

\* Calls whose arguments are the text of deltas.
Partial(cs) == [i \in DOMAIN cs |-> [id |-> cs[i], status |-> "running", partial |-> TRUE]]

\* flushPendingDeltas: a call not there yet is added, and its bubble streams.
FlushDeltas(p) ==
  LET Applied(m) == LET new == {c \in DOMAIN p.deltas : /\ p.deltas[c] = m.id
                                                        /\ ~HasCall(m, c)}
                        more == {c \in DOMAIN p.deltas :
                                   /\ p.deltas[c] = m.id
                                   /\ \E i \in DOMAIN m.calls :
                                        /\ m.calls[i].id = c
                                        /\ m.calls[i].partial
                                        /\ m.calls[i].status = "running"}
                    IN  IF new \cup more = {} THEN m
                        ELSE [m EXCEPT !.calls = @ \o Partial(SetToSeq(new)), !.status = "streaming"]
  IN  [p EXCEPT !.slot = [i \in DOMAIN @ |-> Applied(@[i])], !.deltas = NoEntries]

\* ensureStreamingAsst: the bubble with the anchor, the last one streaming, or a
\* new one.
Context(p, anchor) ==
  LET byAnchor  == {i \in DOMAIN p.slot : anchor # None /\ p.slot[i].key = anchor}
      streaming == LastWith(p.slot, IsStreaming)
  IN  IF byAnchor # {} THEN p.slot[Min(byAnchor)].id
      ELSE IF streaming # {} THEN p.slot[CHOOSE i \in streaming : TRUE].id
      ELSE p.fresh

Ensured(p, ts, anchor) ==
  LET id == Context(p, anchor)
  IN  IF id = p.fresh
      THEN [p EXCEPT !.slot = Append(@, Message("assistant", id, anchor, "streaming", ts)),
                     !.fresh = @ + 1, !.streaming = TRUE]
      ELSE [p EXCEPT !.slot = Patch(@, id, LAMBDA m :
                       [m EXCEPT !.status = "streaming",
                                 !.key = IF anchor = None THEN @ ELSE anchor]),
                     !.streaming = TRUE]

\* Ensured, then a change of the bubble found.
InBubble(p, ts, mut(_)) ==
  LET q == Ensured(p, ts, None)
  IN  [q EXCEPT !.slot = Patch(@, Context(p, None), mut)]

\* Mutant: the step is appended to what was streamed of it.
MutReconciled(p, ts, step) == InBubble(p, ts, LAMBDA m : [m EXCEPT !.text = @ \o step])

\* reconcileAssistantStep: what follows the seal becomes the authoritative step.
Reconciled(p, ts, step) ==
  LET id   == Context(p, None)
      seal == IF id \in DOMAIN p.seals THEN p.seals[id] ELSE 0
      text(m) == SubSeq(m.text, 1, IF seal < Len(m.text) THEN seal ELSE Len(m.text)) \o step
      q    == InBubble(p, ts, LAMBDA m : [m EXCEPT !.text = text(m)])
  IN  [q EXCEPT !.seals = (id :> Len(q.slot[CHOOSE i \in DOMAIN q.slot : q.slot[i].id = id].text))
                            @@ @]

\* The user row of another tab: once, before what is later than it.
InsertRequest(p, e) ==
  LET later == {i \in DOMAIN p.slot : \/ p.slot[i].ts > e.ts
                                      \/ p.slot[i].ts = e.ts /\ IsAssistant(p.slot[i])}
      row   == Message("user", p.fresh, Request(e.ts), "done", e.ts)
  IN  IF \E i \in DOMAIN p.slot : p.slot[i].key = Request(e.ts) THEN p
      ELSE [p EXCEPT !.slot = IF later = {} THEN Append(@, row) ELSE InsertAt(@, Min(later), row),
                     !.fresh = @ + 1]

\* Mutant: a pending ask keeps an aborted turn open.
MutEnded(p, e) ==
  LET ctx == LastWith(p.slot, IsStreaming)
  IN  IF e.arg = "waiting" \/ \E i \in ctx : PendingAsk(p.slot[i]) THEN p
      ELSE [p EXCEPT !.slot = [i \in DOMAIN @ |-> IF i \in ctx
                                                  THEN [@[i] EXCEPT !.status = "done"] ELSE @[i]],
                     !.streaming = FALSE, !.seals = NoEntries]

\* hook:turnEnd: nothing at a checkpoint or while an ask is pending; else the last
\* streaming bubble is closed, the agent idle and its seals gone.
Ended(p, e) ==
  LET ctx == LastWith(p.slot, IsStreaming)
      pendingAsk == \E i \in ctx : PendingAsk(p.slot[i])
      status == IF Interrupted(e.arg) THEN "error" ELSE "done"
  IN  IF e.arg = "waiting" \/ (pendingAsk /\ ~Interrupted(e.arg)) THEN p
      ELSE [p EXCEPT !.slot = [i \in DOMAIN @ |-> IF i \in ctx
                                                  THEN [@[i] EXCEPT !.status = status]
                                                  ELSE @[i]],
                     !.streaming = FALSE,
                     !.seals = NoEntries]

\* enqueueStreamText and enqueueDelta: what waits for the next frame, by bubble and
\* by call.
EnqueueText(buf, id, word) == IF id \in DOMAIN buf THEN [buf EXCEPT ![id] = Append(@, word)]
                              ELSE (id :> <<word>>) @@ buf
EnqueueDelta(deltas, id, c) == IF c \in DOMAIN deltas THEN deltas ELSE (c :> id) @@ deltas

Buffered(p, ts, word) == [Ensured(p, ts, None) EXCEPT
                            !.buf = EnqueueText(@, Context(p, None), word)]
Delayed(p, ts, c) == [Ensured(p, ts, None) EXCEPT
                        !.deltas = EnqueueDelta(@, Context(p, None), c)]

WithoutDelta(p, c) == [p EXCEPT !.deltas = F!RestrictDomain(@, LAMBDA x : x # c)]

\* user_input of one agent to another: a system row.
OnMail(p, e) == [p EXCEPT !.slot = PushSystem(@, p.fresh, <<e.arg>>, e.ts), !.fresh = @ + 1]

\* hook:turnStart: the turn's bubble takes the anchor, its seal starts at nothing.
OnStart(p, e) == [Ensured(p, e.ts, Live(e.ts)) EXCEPT
                    !.seals = (Context(p, Live(e.ts)) :> 0) @@ @]

\* hook:toolCall replaces what was streamed of its arguments.
OnCall(p, e) == InBubble(WithoutDelta(p, e.arg), e.ts, LAMBDA m : PutCall(m, e.arg, FALSE))

OnResult(p, e) == InBubble(p, e.ts, LAMBDA m : SetCall(m, e.arg[1], e.arg[2]))

Flushed(f, e) ==
  CASE e.type = "own"    -> f
    [] e.type = "user"   -> InsertRequest(f, e)
    [] e.type = "mail"   -> OnMail(f, e)
    [] e.type = "start"  -> OnStart(f, e)
    [] e.type = "delta"  -> Delayed(f, e.ts, e.arg)
    [] e.type = "call"   -> OnCall(f, e)
    [] e.type = "result" -> OnResult(f, e)
    [] e.type = "step"   -> Reconciled(f, e.ts, e.arg)
    [] e.type = "end"    -> Ended(f, e)

\* dispatchSessionEvent: text waits for the next frame, everything else flushes it.
Dispatch(p, e) ==
  IF e.type = "chunk" THEN Buffered(p, e.ts, e.arg) ELSE Flushed(FlushText(p), e)

\* Mutant: a snapshot reopens the bubble of a turn that ended.
MutSnapshot(p, es) ==
  LET start == es[1].ts
      id == Context(p, Live(start))
      q  == Ensured(p, start, Live(start))
  IN  [q EXCEPT !.slot = Patch(@, id, LAMBDA m :
                   [m EXCEPT !.ts = start, !.text = TextOf(es), !.calls = CallsOf(es)]),
                !.seals = (id :> Len(SealedOf(es))) @@ @]

\* applyTurnSnapshot of the turn `es`: a finished bubble of the turn is left alone,
\* else the turn's bubble is overwritten.
Snapshot(p, es) ==
  LET start == es[1].ts
      anchor == Live(start)
      id == Context(p, anchor)
      q  == Ensured(p, start, anchor)
  IN  IF \E i \in DOMAIN p.slot : /\ IsAssistant(p.slot[i])
                                  /\ p.slot[i].key = anchor \/ p.slot[i].ts = start
                                  /\ p.slot[i].status # "streaming"
      THEN p
      ELSE [q EXCEPT !.slot = Patch(@, id, LAMBDA m :
                       [m EXCEPT !.key = anchor, !.ts = start, !.text = TextOf(es),
                                 !.calls = CallsOf(es), !.status = "streaming"]),
                     !.seals = (id :> Len(SealedOf(es))) @@ @]

-------------------------------------------------------------------------------
\* The page: frames of the socket.

Rest == UNCHANGED <<log, asked, link, posts, used>>

\* A frame on the page and its cursor; the gate drops an event that is not new.
Applied(st, f) ==
  IF f.kind = "snapshot"
  THEN [page |-> Snapshot(st.page, TurnOf(SubSeq(log, 1, f.n))),
        cursor |-> IF f.n > st.cursor THEN f.n ELSE st.cursor]
  ELSE IF f.n > st.cursor
  THEN [page |-> Dispatch(st.page, log[f.n]), cursor |-> f.n]
  ELSE st

\* A bubble of a daemon tick streams: it takes what the turn streams meanwhile.
TickStreams == \E i \in DOMAIN page.slot : page.slot[i].id \in page.ticks /\ IsStreaming(page.slot[i])

\* A snapshot is set while words it has already wait for the frame.
Doubles(fs) == page.buf # NoEntries /\ \E i \in DOMAIN fs : fs[i].kind = "snapshot"

Becomes(st) == page' = st.page /\ cursor' = st.cursor

Now == [page |-> page, cursor |-> cursor]

Receive ==
  /\ chan # <<>>
  /\ chan' = Tail(chan)
  /\ LET f == Head(chan) IN
       \/ /\ f.kind # "gap" /\ held = None
          /\ Becomes(Applied(Now, f))
          /\ spoilt' = spoilt \cup (IF TickStreams THEN {"mixed"} ELSE {})
                              \cup (IF Doubles(<<f>>) THEN {"doubled"} ELSE {})
          /\ UNCHANGED <<held, loads>>
       \/ /\ f.kind # "gap" /\ held # None
          /\ held' = Append(held, f)
          /\ UNCHANGED <<page, cursor, loads, spoilt>>
       \/ /\ f.kind = "gap"
          /\ held' = <<>>
          /\ loads' = [loads EXCEPT !["gap"] = [snap |-> page.slot, n |-> None]]
          /\ UNCHANGED <<page, cursor, spoilt>>
  /\ Rest

\* requestAnimationFrame: the deltas first, for words that wait came after them.
Frame == /\ page.buf # NoEntries \/ page.deltas # NoEntries
         /\ page' = FlushText(FlushDeltas(page))
         /\ UNCHANGED <<chan, cursor, held, loads, spoilt>> /\ Rest

Move(m) == /\ m \in Moves /\ used < MaxMoves
           /\ used' = used + 1

Drop == /\ Move("drop")
        /\ link = "up"
        /\ link' = "down" /\ chan' = <<>>
        /\ UNCHANGED <<log, asked, page, cursor, held, loads, posts, spoilt>>

RunningTurn == IF Running THEN <<[kind |-> "snapshot", n |-> Len(log)]>> ELSE <<>>

\* The link is back: the ring is replayed after the cursor, or a gap is declared
\* and the running turn sent.
Reconnect ==
  /\ link = "down"
  /\ link' = "up"
  /\ \/ chan' = [i \in 1..(Len(log) - cursor) |-> [kind |-> "event", n |-> cursor + i]]
     \/ /\ cursor > 0 /\ loads["gap"] = None
        /\ chan' = <<[kind |-> "gap", n |-> 0]>> \o RunningTurn
  /\ UNCHANGED <<log, asked, page, cursor, held, loads, posts, used, spoilt>>

-------------------------------------------------------------------------------
\* The page: loadSession.

Daemon(p, m) == m.id \in p.ticks
Daemons(p) == {m \in ToSet(p.slot) : Daemon(p, m)}

\* A bubble that fails or still streams is newer than the log; only an anchored
\* one streaming does not keep a load away.
MayLoad == LET own  == Among(page.slot, ToSet(page.slot) \ Daemons(page))
               tail == LastWith(own, IsAssistant)
           IN  \A i \in tail : \/ own[i].status = "done"
                               \/ own[i].status = "streaming" /\ own[i].key # None

\* A tab is opened or switched to.
OpenTab == /\ loads["open"] = None
           /\ Move("open")
           /\ MayLoad
           /\ loads' = [loads EXCEPT !["open"] = [snap |-> page.slot, n |-> None]]
           /\ UNCHANGED <<log, asked, link, chan, page, cursor, held, posts, spoilt>>

\* Array.sort by time, which keeps the order of equals.
Inserted(s, m) ==
  LET after == {i \in DOMAIN s : s[i].ts > m.ts}
  IN  IF after = {} THEN Append(s, m) ELSE InsertAt(s, Min(after), m)

ByTime(msgs) ==
  LET sorted[n \in 0..Len(msgs)] == IF n = 0 THEN <<>> ELSE Inserted(sorted[n - 1], msgs[n])
  IN  sorted[Len(msgs)]

\* The anchored bubbles that stream, unless nothing changed meanwhile and the log
\* shows their turn ended.
LiveBubbles(p, r, unchanged) ==
  {m \in ToSet(p.slot) : m.status = "streaming" /\ m.key # None /\ ~(unchanged /\ m.key \in r.settled)}

\* What the log has beside the bubbles kept.
OtherRows(r, kept) ==
  Among(r.msgs, {m \in ToSet(r.msgs) : m.key = None \/ \A k \in kept : k.key # m.key})

\* Mutant: only the bubbles of turns are kept.
MutMerged(p, r, unchanged) ==
  LET live == LiveBubbles(p, r, unchanged)
  IN  ByTime(OtherRows(r, live) \o Among(p.slot, live))

\* The commit of a replay r: daemon bubbles and live bubbles are kept.
Merged(p, r, unchanged) ==
  LET live == LiveBubbles(p, r, unchanged)
      keep == Among(p.slot, Daemons(p)) \o Among(p.slot, live)
  IN  IF keep = <<>> THEN OtherRows(r, live) ELSE ByTime(OtherRows(r, live) \o keep)

\* A log with nothing to show keeps what was there when the load began.
NothingLogged(p, snap) ==
  IF \E i \in DOMAIN snap : ~Daemon(p, snap[i]) THEN p
  ELSE [p EXCEPT !.slot = Among(@, Daemons(p))]

Logged(rows) == Among(rows, {e \in ToSet(rows) : Durable(e)})

Rows(l) == Logged(SubSeq(log, 1, loads[l].n))

CommittedAs(l, r, slot) ==
  LET settled == /\ page.slot = loads[l].snap /\ r.settled # {} /\ r.open = None
                 /\ ~\E i \in DOMAIN slot : slot[i].status = "streaming"
  IN  [page |-> [page EXCEPT !.slot = slot, !.fresh = r.fresh, !.streaming = @ /\ ~settled],
       cursor |-> IF Last(Rows(l)).ts > cursor THEN Last(Rows(l)).ts ELSE cursor]

CommittedReplay(l, r) == CommittedAs(l, r, Merged(page, r, page.slot = loads[l].snap))

Committed(l) ==
  IF Rows(l) = <<>> THEN [page |-> NothingLogged(page, loads[l].snap), cursor |-> cursor]
  ELSE CommittedReplay(l, Replay(Rows(l), page.fresh))

\* The frames held during a gap are applied when its load is over.
Released(st, l) ==
  LET after[n \in 0..Len(held)] == IF n = 0 THEN st ELSE Applied(after[n - 1], held[n])
  IN  IF l # "gap" \/ held = None THEN st ELSE after[Len(held)]

\* A row is gone from `slot` that had events after the read of n, or is not named
\* by the server yet.
Forgets(slot, n) ==
  \E i \in DOMAIN page.slot :
    /\ \A j \in DOMAIN slot : slot[j].id # page.slot[i].id
    /\ cursor > n \/ page.slot[i].key = None

\* A bubble is kept as it is, and the cursor moves past frames it has not had.
Skips(st) == /\ st.cursor > cursor
             /\ \E i \in DOMAIN st.page.slot : \E j \in DOMAIN page.slot :
                  /\ st.page.slot[i].id = page.slot[j].id
                  /\ st.page.slot[i].key # None

\* The end of a turn is passed by, and the agent stays busy.
Unclosed(st) == /\ st.page.streaming
                /\ \E n \in (cursor + 1)..st.cursor : log[n].type = "end"

CommitLoad(l) ==
  /\ loads[l] # None /\ loads[l].n # None
  /\ loads' = [loads EXCEPT ![l] = None]
  /\ held' = IF l = "gap" THEN None ELSE held
  /\ \E st \in {Committed(l)} :
       /\ Becomes(Released(st, l))
       /\ spoilt' = spoilt \cup (IF Forgets(st.page.slot, loads[l].n) THEN {"forgotten"} ELSE {})
                           \cup (IF Skips(st) THEN {"skipped"} ELSE {})
                           \cup (IF TickStreams THEN {"mixed"} ELSE {})
                           \cup (IF l = "gap" /\ held # None /\ Doubles(held)
                                 THEN {"doubled"} ELSE {})
                           \cup (IF Unclosed(st) THEN {"unclosed"} ELSE {})
                           \cup (IF Rows(l) # <<>> THEN {"replayed"} ELSE {})
  /\ UNCHANGED <<link, chan>> /\ Rest

\* The request failed: an empty log is read.
FailLoad(l) ==
  /\ loads[l] # None
  /\ loads' = [loads EXCEPT ![l] = None]
  /\ held' = IF l = "gap" THEN None ELSE held
  /\ Becomes(Released([Now EXCEPT !.page = NothingLogged(page, loads[l].snap)], l))
  /\ spoilt' = spoilt \cup (IF l = "gap" THEN {"unrecovered"} ELSE {})
                      \cup (IF Forgets(NothingLogged(page, loads[l].snap).slot, 0)
                            THEN {"forgotten"} ELSE {})
  /\ UNCHANGED <<link, chan>> /\ Rest

-------------------------------------------------------------------------------
\* The page: sends and daemon ticks.

\* sendMessage pushes the request and the bubble of its reply.
SendMessage ==
  /\ ~page.streaming
  /\ Move("send")
  /\ LET id == page.fresh
         row == Message("user", id, None, "done", Len(log))
         bubble == Message("assistant", id + 1, None, "streaming", Len(log))
     IN /\ page' = [page EXCEPT !.slot = @ \o <<row, bubble>>, !.fresh = @ + 2,
                                !.streaming = TRUE]
        /\ asked' = Append(asked, id)
  /\ UNCHANGED <<log, link, chan, cursor, held, loads, posts, spoilt>>

\* The answer of the POST names the request.
PostAnswered(post) ==
  /\ posts' = posts \ {post}
  /\ page' = [page EXCEPT !.slot = Patch(@, post[1], LAMBDA m :
                [m EXCEPT !.key = Request(post[2])])]
  /\ UNCHANGED <<log, asked, link, chan, cursor, held, loads, used, spoilt>>

\* daemon-tick-start pushes a bubble, -event adds to it, -end closes it.
TickStart ==
  /\ page.ticks = {}
  /\ Move("tick")
  /\ page' = [page EXCEPT !.slot = Append(@, Message("assistant", page.fresh, None, "streaming", Len(log))),
                             !.fresh = @ + 1, !.ticks = {page.fresh}]
  /\ UNCHANGED <<log, asked, link, chan, cursor, held, loads, posts, spoilt>>

TickRuns(id) == \E i \in DOMAIN page.slot : page.slot[i].id = id /\ 0 \notin ToSet(page.slot[i].text)

TickEvent(id) ==
  /\ id \in page.ticks /\ TickRuns(id)
  /\ page' = [page EXCEPT !.slot = Patch(@, id, LAMBDA m : [m EXCEPT !.text = Append(@, 0)])]
  /\ UNCHANGED <<log, asked, link, chan, cursor, held, loads, posts, used, spoilt>>

TickEnd(id) ==
  /\ id \in page.ticks
  /\ ~TickRuns(id)
  /\ page' = [page EXCEPT !.slot = Patch(@, id, LAMBDA m : [m EXCEPT !.status = "done"])]
  /\ page'.slot # page.slot
  /\ UNCHANGED <<log, asked, link, chan, cursor, held, loads, posts, used, spoilt>>

Server == \/ EmitRequest \/ EmitMail \/ EmitStart \/ EmitChunk \/ EmitStep \/ EmitEnd
          \/ EmitAbort \/ EmitOwn
          \/ \E c \in Calls : \/ EmitDelta(c) \/ EmitCall(c) \/ EmitCheckpoint(c)
                              \/ \E status \in {"done", "error"} : EmitResult(c, status)
          \/ \E l \in Loads : ReadLog(l)

Next == \/ Server
        \/ Receive \/ Frame \/ Drop \/ Reconnect \/ OpenTab
        \/ \E l \in Loads : CommitLoad(l) \/ FailLoad(l)
        \/ SendMessage
        \/ \E post \in posts : PostAnswered(post)
        \/ TickStart
        \/ \E id \in page.ticks : TickEvent(id) \/ TickEnd(id)

Spec == Init /\ [][Next]_vars

-------------------------------------------------------------------------------
\* Bound: what follows a known loss or mixture is left to the runs about it.
Unspoilt == spoilt \subseteq {"replayed"}

\* Everything sent was applied and nothing is on its way.
Quiet == /\ link = "up" /\ chan = <<>> /\ held = None
         /\ \A l \in Loads : loads[l] = None
         /\ page.buf = NoEntries /\ page.deltas = NoEntries
         /\ asked = <<>> /\ posts = {}
         /\ cursor = Len(log)

\* The requests and the sealed words of the log, and those of the slot.
Words(s)    == SelectSeq(s, LAMBDA x : x[1] = "word")
Requests(s) == SelectSeq(s, LAMBDA x : x[1] = "request")
Tagged(text) == [i \in DOMAIN text |-> <<"word", text[i]>>]

Conversation == FoldLeft(LAMBDA t, e : CASE e.type \in {"user", "own"} -> Append(t, Request(e.ts))
                                   [] e.type = "step" -> t \o Tagged(e.arg)
                                   [] OTHER -> t,
                   <<>>, log)

Shown == FoldLeft(LAMBDA t, m : CASE m.role = "user" -> Append(t, m.key)
                                  [] IsAssistant(m)  -> t \o Tagged(m.text)
                                  [] OTHER -> t,
                  <<>>, page.slot)

ShownOfLog == SelectSeq(Shown, LAMBDA x : x \in ToSet(Conversation))

AtRest == Quiet /\ ~Running /\ spoilt \subseteq {"replayed"}

\* Whatever was lost, snapshotted, buffered or replayed on the way, a page at rest
\* shows every request and every sealed word once, each in the order of the ledger,
\* and in one order when no replay was merged (reconcileAssistantStep,
\* applyTurnSnapshot, the merge of loadSession).
ConversationExact ==
  AtRest => /\ Words(ShownOfLog) = Words(Conversation)
            /\ Requests(ShownOfLog) = Requests(Conversation)
            /\ IsInjective(Shown)
            /\ "replayed" \notin spoilt => ShownOfLog = Conversation

Idle == \A i \in DOMAIN page.slot : page.slot[i].status = "streaming" => Daemon(page, page.slot[i])

\* No bubble is left streaming, and no busy flag set, once the last turn ended.
TurnEnded == log # <<>> /\ Last(log).type = "end" /\ Last(log).arg # "waiting"

RestIsIdle ==
  AtRest /\ TurnEnded
     => Idle /\ ~page.streaming

View(msgs) == [i \in DOMAIN msgs |-> [role |-> msgs[i].role, text |-> msgs[i].text,
                                      status |-> msgs[i].status, calls |-> msgs[i].calls]]

\* What was built live is what a reload of the page would build, when every word
\* streamed was sealed.
LikeReload ==
  AtRest /\ TurnEnded /\ spoilt = {} /\ page.ticks = {} /\ TextOf(log) = SealedOf(log)
     => View(page.slot) = View(Replay(Logged(log), 0).msgs)

\* A bubble of a daemon tick is not lost, whatever is loaded, merged or dispatched.
TicksKept == \A id \in page.ticks : \E i \in DOMAIN page.slot : page.slot[i].id = id

\* A load, committed or failed, takes no row away that came while its request was in
\* flight and that its log does not hold: "Preserve newer live work", "Don't wipe a
\* populated slot".
Newer(m, load) == /\ \A i \in DOMAIN load.snap : load.snap[i].id # m.id
                  /\ \/ m.id \in ToSet(asked)
                     \/ load.n = None
                     \/ m.ts > load.n

LoadKeepsNewer ==
  [][ \A l \in Loads : loads[l] # None /\ loads'[l] = None =>
        \A i \in DOMAIN page.slot :
          Newer(page.slot[i], loads[l]) =>
            \E j \in DOMAIN page'.slot : page'.slot[j].id = page.slot[i].id ]_vars

\* A bubble whose turn has ended never streams again.
EndedStays ==
  [][ spoilt' \subseteq {"replayed"} =>
      \A i \in DOMAIN page.slot : \A j \in DOMAIN page'.slot :
        /\ page.slot[i].id = page'.slot[j].id
        /\ page.slot[i].key # None
        /\ page'.slot[j].status = "streaming"
        => page.slot[i].status = "streaming" ]_vars
================================================================================
