------------------------------- MODULE SystemRows -------------------------------
(***************************************************************************)
(* The rows of a session that are no speech: delegation and compaction      *)
(* cards, errors, warnings, crashes, and what agents write to each other.   *)
(* They are built twice: from the frames as they come (session-stream.ts),  *)
(* and from the log of an agent when its slot is loaded (event-formatter.ts *)
(* and the effects of message-builder.ts, committed by store.ts).           *)
(*                                                                          *)
(* The server is external: it numbers the events of the session as one      *)
(* sequence and logs each with the agents it concerns.  Frames come in      *)
(* order (ResumeStream has the link).  Of a reply only the bubble is kept.  *)
(* Wordings, and visual_display beside an error, are left out: a text is    *)
(* who says it and what.                                                    *)
(***************************************************************************)
EXTENDS Naturals, SequencesExt, Filter

CONSTANTS None,
          Agents, Viewer,     \* the agents, and the one the tab shows
          MaxEvents, MaxAhead, MaxLoads  \* bounds: log, frames on the way, loads

VARIABLES
  log,     \* server: the events of the session
  got,     \* how many of them the socket has delivered
  cursor,  \* the last number the page has applied
  slots,   \* the rows of each agent
  load,    \* the loadSession in flight: agent, what was read, the slot when it
           \* began, and whether frames have written it since
  loads,   \* how many began
  behind,  \* history: agents whose slot a load has set back
  passed,  \* history: agents whose events the cursor passed without a row
  sorted   \* history: agents whose rows were sorted by time beside a live bubble

rowVars == <<log, got, cursor, slots, load, loads, behind, passed, sorted>>

Init == /\ log = <<>> /\ got = 0 /\ cursor = 0
        /\ slots = [x \in Agents |-> <<>>]
        /\ load = None /\ loads = 0
        /\ behind = {} /\ passed = {} /\ sorted = {}

-------------------------------------------------------------------------------
\* The server (external).

\* The agents in whose logs an event is, and the log of an agent: the numbers of its events.
Concerns(e) == {e.from, e.to} \cap Agents
LedgerOf(x, n) == {i \in 1..n : x \in Concerns(log[i])}

RunningIn(x) == LET turn == SelectSeq(log, LAMBDA e : e.from = x /\ e.type \in {"start", "end", "crash"})
                IN  turn # <<>> /\ Last(turn).type = "start"

Emit(type, from, to, arg) ==
  /\ Len(log) < MaxEvents /\ Len(log) - got < MaxAhead
  /\ log' = Append(log, [type |-> type, from |-> from, to |-> to, arg |-> arg, ts |-> Len(log) + 1])
  /\ UNCHANGED <<got, cursor, slots, load, loads, behind, passed, sorted>>

Others(x) == Agents \ {x}

EmitTurn(x) == \/ ~RunningIn(x) /\ Emit("start", x, None, None)
               \/ RunningIn(x) /\ \E type \in {"step", "end"} : Emit(type, x, None, None)

\* A delegation of x is told by the agent it went to; a status may be none the page knows.
EmitDelegation(x, by, status) == Emit("delegation", by, x, status)
EmitReturn(x, by)             == Emit("message", by, x, "resume")
EmitCompaction(x, phase)      == Emit("compaction", x, None, phase)
EmitDiagnosis(x)              == \E type \in {"error", "warning"} : Emit(type, x, None, type)
EmitPrivate(x)                == Emit("error", x, None, "private")
EmitRetry(x, warning)         == Emit("retry", x, None, warning)
EmitCrash(x, how)             == RunningIn(x) /\ Emit("crash", x, None, how)
EmitMail(x, to)               == Emit("mail", x, to, "prompt")
EmitWord(x, to)               == Emit("message", x, to, "word")
EmitMedia(x)                  == Emit("media", x, None, "file")

\* What the agent the tab shows does; of the others what they tell and what fails.
Server == \/ EmitTurn(Viewer) \/ EmitPrivate(Viewer) \/ EmitMedia(Viewer)
          \/ \E phase \in {"started", "failed"} : EmitCompaction(Viewer, phase)
          \/ \E warning \in {"again", None} : EmitRetry(Viewer, warning)
          \/ \E how \in {"error", "message"} : EmitCrash(Viewer, how)
          \/ \E y \in Others(Viewer) :
               \/ \E status \in {"running", "returned", "unknown"} : EmitDelegation(Viewer, y, status)
               \/ EmitReturn(Viewer, y)
          \/ \E x \in Agents : \/ EmitDiagnosis(x)
                              \/ \E y \in Others(x) : EmitMail(x, y) \/ EmitWord(x, y)

-------------------------------------------------------------------------------
\* What an event says.

Row(id, e, level, dir) == [id |-> id, text |-> <<e.from, e.arg>>, level |-> level, dir |-> dir]

\* isChatMessageEvent: what is private, or of a kind not listed, is no message.
Visible(e) == e.arg # "private"

\* formatDelegationStatus: one row for a delegation of a task, and one for a result
\* that came too late to resume it.
DelegationRow(e) ==
  CASE e.type = "delegation" /\ e.arg \in {"running", "returned"} ->
         Row(<<"delegation", e.to>>, e, None, "incoming")
    [] e.type = "message" /\ e.arg = "resume" -> Row(None, e, None, "incoming")
    [] OTHER -> None

IsCard(e) == e.type = "delegation" \/ e.arg = "resume"

\* formatCompactionStatus: one row for a compaction, whatever its phase.
CompactionRow(e) == Row(<<"compaction", e.from>>, e,
                        IF e.arg = "failed" THEN "warning" ELSE "info", None)

\* pushSystemMessage, and applySystem of a replay: a row equal to the last is not
\* repeated, a card takes the place of the one before.
Notice(row, e) == [role |-> "system", of |-> e, row |-> row, ts |-> e.ts]

Repeats(rows, row) == /\ rows # <<>> /\ Last(rows).role = "system"
                      /\ row.id # None => Last(rows).row.id = row.id
                      /\ [Last(rows).row EXCEPT !.id = row.id] = row

Card(rows, row) == {i \in DOMAIN rows : row.id # None /\ rows[i].role = "system" /\ rows[i].row.id = row.id}

PushRow(rows, row, e) ==
  IF row = None \/ Repeats(rows, row) THEN rows
  ELSE IF Card(rows, row) = {} THEN Append(rows, Notice(row, e))
  ELSE [i \in DOMAIN rows |-> IF i \in Card(rows, row) THEN Notice(row, e) ELSE rows[i]]

-------------------------------------------------------------------------------
\* Live: dispatchSessionEvent.

Bubble(status, anchor, ts) == [role |-> "assistant", status |-> status, anchor |-> anchor, ts |-> ts]
Streams(m) == m.role = "assistant" /\ m.status = "streaming"

\* ensureStreamingAsst: the bubble of the anchor, else the one that streams, else a
\* new one; and the end of a turn.
Adopted(rows, anchor) ==
  LET own == {i \in DOMAIN rows : anchor # None /\ rows[i].role = "assistant" /\ rows[i].anchor = anchor}
  IN  IF own # {} THEN own ELSE {i \in DOMAIN rows : Streams(rows[i])}

Ensured(rows, anchor, ts) ==
  LET k == Max(Adopted(rows, anchor))
      own == IF anchor = None THEN rows[k].anchor ELSE anchor
  IN  IF Adopted(rows, anchor) = {} THEN Append(rows, Bubble("streaming", anchor, ts))
      ELSE [rows EXCEPT ![k] = Bubble("streaming", own, rows[k].ts)]

Close(rows, status) == [i \in DOMAIN rows |-> IF Streams(rows[i]) THEN [rows[i] EXCEPT !.status = status]
                                              ELSE rows[i]]

\* The row of an event, or None when it has none.
LiveRow(e) ==
  IF ~Visible(e) THEN None
  ELSE IF IsCard(e) THEN DelegationRow(e)
  ELSE CASE e.type = "compaction" -> CompactionRow(e)
    [] e.type = "error"   -> Row(None, e, "error", None)
    [] e.type = "warning" -> Row(None, e, "warning", None)
    [] e.type = "crash"   -> Row(None, e, "error", None)
    [] e.type = "retry"   -> Row(None, e, "warning", None)
    [] e.type = "message" -> Row(None, e, None, IF e.to = Viewer THEN "incoming"
                                                    ELSE IF e.from = Viewer THEN "outgoing" ELSE None)
    [] OTHER -> None

\* Mutant: a card goes to the agent that tells of it.
MutTarget(e) == IF e.type = "message" /\ e.to = Viewer THEN e.to ELSE e.from

\* The slot the row goes to.
Target(e) == IF IsCard(e) \/ (e.type = "message" /\ e.to = Viewer) THEN e.to ELSE e.from

\* A message of one agent to another stands in the slots of both.
Mailed(at, e) ==
  [x \in Agents |-> IF x \notin {e.from, e.to} THEN at[x]
                    ELSE PushRow(at[x], Row(None, e, None, IF x = e.to THEN "incoming" ELSE "outgoing"), e)]

\* The agents whose slot shows an event.
Shown(e) == CASE e.type = "mail" -> Concerns(e)
              [] e.type # "mail" /\ LiveRow(e) # None -> {Target(e)}
              [] OTHER -> {}

Bubbled(rows, e) ==
  CASE e.type = "start" -> Ensured(rows, e.ts, e.ts)
    [] e.type = "step"  -> Ensured(rows, None, e.ts)
    [] e.type = "end"   -> Close(rows, "done")
    [] e.type = "crash" -> Close(rows, "error")
    [] OTHER -> rows

Dispatch(at, e) ==
  IF e.type = "mail" THEN Mailed(at, e)
  ELSE LET bubbled == [at EXCEPT ![e.from] = Bubbled(@, e)]
       IN  [bubbled EXCEPT ![Target(e)] = PushRow(@, LiveRow(e), e)]

\* The step of a reply writes its bubble, of which the words are left out.
Writes(x, e) == Dispatch(slots, e)[x] # slots[x] \/ (e.type = "step" /\ e.from = x)

\* A frame: the gate drops what the cursor has passed.
Receive ==
  /\ got < Len(log)
  /\ got' = got + 1
  /\ IF got + 1 > cursor
     THEN /\ cursor' = got + 1
          /\ slots' = Dispatch(slots, log[got + 1])
          /\ load' = IF load # None /\ Writes(load.agent, log[got + 1]) THEN [load EXCEPT !.changed = TRUE]
                     ELSE load
     ELSE UNCHANGED <<cursor, slots, load>>
  /\ UNCHANGED <<log, loads, behind, passed, sorted>>

-------------------------------------------------------------------------------
\* Replayed: formatEvent for the owner x of a log, TurnAccumulator, applySystem.

FormatEvent(x, e) ==
  IF ~Visible(e) THEN None
  ELSE IF IsCard(e) THEN DelegationRow(e)
  ELSE CASE e.type = "compaction" -> CompactionRow(e)
    [] e.type = "error" \/ (e.type = "crash" /\ e.arg = "error") -> Row(None, e, "error", None)
    [] e.type \in {"warning", "retry"} /\ e.arg # None -> Row(None, e, "warning", None)
    [] e.type \in {"mail", "message"} -> Row(None, e, None, IF x = e.to THEN "incoming" ELSE "outgoing")
    [] e.type = "media" -> Row(None, e, None, None)
    [] OTHER -> None

\* A turn that said something, or had a row, seals its bubble.
Fed(x, r, e) ==
  LET row == FormatEvent(x, e)
      opens == e.type = "step" /\ (r.sealed \/ ~\E i \in DOMAIN r.rows : r.rows[i].role = "assistant")
  IN  [rows |-> PushRow(IF opens THEN Append(r.rows, Bubble("done", r.open, e.ts)) ELSE r.rows, row, e),
       busy |-> e.type \notin {"start", "end"} /\ (r.busy \/ e.type = "step" \/ (row # None /\ e.type # "mail")),
       sealed |-> IF e.type = "end" \/ (e.type = "start" /\ r.agent) THEN r.sealed \/ r.busy
                  ELSE r.sealed /\ ~opens,
       agent |-> r.agent \/ e.type = "start",
       open |-> CASE e.type = "start" -> e.ts [] e.type = "end" -> None [] OTHER -> r.open,
       settled |-> r.settled \cup {t \in {r.open} : e.type = "end" /\ t # None}]

NothingFed == [rows |-> <<>>, busy |-> FALSE, sealed |-> FALSE, agent |-> FALSE, open |-> None, settled |-> {}]

\* The log of x up to n, one event after the other.
Replay(x, n) ==
  LET at[k \in 0..n] == IF k = 0 THEN NothingFed
                        ELSE IF x \in Concerns(log[k]) THEN Fed(x, at[k - 1], log[k]) ELSE at[k - 1]
  IN  at[n]

\* loadSession: a reply that failed, or streams without an anchor, is newer than the
\* log; a gap forces the load all the same.
MayLoad(x) == LET replies == SelectSeq(slots[x], LAMBDA m : m.role = "assistant")
              IN  replies # <<>> => \/ Last(replies).status = "done"
                                    \/ Streams(Last(replies)) /\ Last(replies).anchor # None

Load(x, forced) ==
  /\ load = None /\ loads < MaxLoads
  /\ forced \/ MayLoad(x)
  /\ load' = [agent |-> x, n |-> None, snap |-> slots[x], changed |-> FALSE]
  /\ loads' = loads + 1
  /\ UNCHANGED <<log, got, cursor, slots, behind, passed, sorted>>

ReadLog == /\ load # None /\ load.n = None
           /\ load' = [load EXCEPT !.n = Len(log)]
           /\ UNCHANGED <<log, got, cursor, slots, loads, behind, passed, sorted>>

\* Array.sort by time, which keeps the order of equals.
Inserted(s, m) ==
  LET after == {k \in DOMAIN s : s[k].ts > m.ts}
  IN  IF after = {} THEN Append(s, m) ELSE InsertAt(s, Min(after), m)

ByTime(rows) == Folded(Inserted, <<>>, rows)

\* The bubbles that stream stay, but those of a slot nobody wrote since the load began
\* whose turn has its end in the log.
Kept(x, r) ==
  Among(slots[x], {m \in ToSet(slots[x]) :
                     Streams(m) /\ m.anchor # None /\ (load.changed \/ m.anchor \notin r.settled)})

\* The replay replaces the slot, but for the bubble of a turn that streams.
Merged(x, r) ==
  LET rows == r.rows
      kept == Kept(x, r)
      wal  == Among(rows, {m \in ToSet(rows) : \/ m.role = "system"
                                               \/ \A i \in DOMAIN kept : kept[i].anchor # m.anchor})
  IN  IF kept = <<>> THEN rows ELSE ByTime(wal \o kept)

\* History: what a commit of the log of x up to n does to x and to the others.
Judged(x, r, n, seen) ==
  /\ behind' = IF \E i \in n + 1..cursor : x \in Concerns(log[i]) THEN behind \cup {x} ELSE behind \ {x}
  /\ passed' = (IF \E i \in n + 1..seen : x \in Concerns(log[i]) THEN passed ELSE passed \ {x})
               \cup UNION {Shown(log[i]) \ {x} : i \in cursor + 1..seen}
  /\ sorted' = IF Kept(x, r) = <<>> THEN sorted \ {x} ELSE sorted \cup {x}

\* The cursor of the session moves to the last number of the log read.
CommitLoad ==
  /\ load # None /\ load.n # None
  /\ LET x == load.agent
         r    == Replay(x, load.n)
         seen == Max(LedgerOf(x, load.n) \cup {cursor})
     IN  /\ LedgerOf(x, load.n) # {}
         /\ slots' = [slots EXCEPT ![x] = Merged(x, r)]
         /\ cursor' = seen
         /\ Judged(x, r, load.n, seen)
  /\ load' = None
  /\ UNCHANGED <<log, got, loads>>

\* The request fails, or its log is empty: what was there when it began stays.
LoadsNothing ==
  /\ load # None
  /\ load.n # None => LedgerOf(load.agent, load.n) = {}
  /\ load' = None
  /\ IF load.snap # <<>> THEN UNCHANGED <<slots, behind>>
     ELSE /\ slots' = [slots EXCEPT ![load.agent] = <<>>]
          /\ behind' = behind \cup {y \in {load.agent} : slots[y] # <<>>}
  /\ UNCHANGED <<log, got, cursor, loads, passed, sorted>>

Next == \/ Server \/ Receive \/ ReadLog \/ CommitLoad \/ LoadsNothing
        \/ \E x \in Agents, forced \in BOOLEAN : Load(x, forced)

Spec == Init /\ [][Next]_rowVars

-------------------------------------------------------------------------------
\* What the two ways are known to tell differently: media, a retry or a crash without
\* the usual field, a delegation in the slot of the agent that tells of it, and a word
\* to or from an agent the tab does not show.
Alike(x, e) == /\ e.type # "media"
               /\ e.type = "retry" => e.arg # None
               /\ e.type = "crash" => e.arg = "error"
               /\ IsCard(e) => x = e.to
               /\ e.type = "message" => x = Viewer \/ IsCard(e)

\* The rows compared, each once in a row: a bubble between two of them is not
\* opened at the same place.
Compared(x, m) == m.role = "system" /\ Alike(x, m.of)

Distilled(x, rows) ==
  LET at[n \in 0..Len(rows)] ==
        IF n = 0 THEN <<>>
        ELSE IF Compared(x, rows[n]) /\ (at[n - 1] # <<>> => Last(at[n - 1]) # rows[n].row)
             THEN Append(at[n - 1], rows[n].row) ELSE at[n - 1]
  IN  at[Len(rows)]

Agrees(x) == LET live == Distilled(x, slots[x])
                 reloaded == Distilled(x, Replay(x, Len(log)).rows)
             IN  IF x \in sorted THEN ToSet(live) = ToSet(reloaded) ELSE live = reloaded

\* A slot shows the rows a reload of it would show, in their order, whatever was
\* loaded on the way, unless a load set it back or passed it by (dispatchSessionEvent
\* against formatEvent and applySystem); a delegation or a compaction has one card,
\* and what is private has none.
RowsLikeReload ==
  /\ got = Len(log) /\ load = None => \A x \in Agents \ (behind \cup passed) : Agrees(x)
  /\ \A x \in Agents : \A i \in DOMAIN slots[x] :
       slots[x][i].role = "system" =>
         /\ Visible(slots[x][i].of)
         /\ Cardinality(Card(slots[x], slots[x][i].row)) <= 1

\* Every event of an agent is shown in its slot, loaded or live: "so that the live
\* frames that overlap the replay are dropped" (store.ts:1250).  It does not hold.
NonePassed == passed = {}
================================================================================
