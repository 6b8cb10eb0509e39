------------------------------- MODULE Transcript -------------------------------
(***************************************************************************)
(* One agent's slot rebuilt from its durable log: TurnAccumulator, the      *)
(* callbacks and in-memory effects of message-builder.ts that it drives, and*)
(* the loop of loadSession that gives turns their identity (store.ts).      *)
(*                                                                          *)
(* A text is the sequence of the words streamed; thinking is joined and     *)
(* sealed the same way and is left out.  The time of an event is its place  *)
(* in the log, and the anchor of a turn the time it started.                *)
(***************************************************************************)
EXTENDS Naturals, SequencesExt, Filter

CONSTANTS Asks,   \* the tool calls that are an ask_user
          None    \* undefined, null

\* Events of the ledger; arg is a word, a text, a call, <<call, status>> or how a
\* turn ended.  "chunk" and "delta" are sent and not logged.
Ev(type, ts, arg) == [type |-> type, ts |-> ts, arg |-> arg]
Durable(e) == e.type \notin {"chunk", "delta"}

\* liveAnchor, and the msgId of a request.
Live(ts) == <<"live", ts>>
Request(ts) == <<"request", ts>>

Message(role, id, key, status, ts) ==
  [role |-> role, id |-> id, key |-> key, status |-> status, ts |-> ts,
   text |-> <<>>, calls |-> <<>>]

LastWith(s, P(_)) == {i \in DOMAIN s : P(s[i]) /\ \A j \in DOMAIN s : j > i => ~P(s[j])}

IsAssistant(m) == m.role = "assistant"
IsStreaming(m) == IsAssistant(m) /\ m.status = "streaming"

\* The id of the last assistant message, or None.
LastAssistant(msgs) == LET last == LastWith(msgs, IsAssistant)
                       IN  IF last = {} THEN None ELSE msgs[CHOOSE i \in last : TRUE].id

\* patchMessageInList.
Patch(msgs, id, mut(_)) ==
  [i \in DOMAIN msgs |-> IF msgs[i].id = id THEN mut(msgs[i]) ELSE msgs[i]]

\* hasPendingAskUser over the calls of a message.
PendingAsk(m) == \E i \in DOMAIN m.calls : m.calls[i].id \in Asks /\ m.calls[i].status = "running"

HasCall(m, c) == \E i \in DOMAIN m.calls : m.calls[i].id = c

\* upsertToolSegment and the update of toolCalls beside it: `partial` while the
\* arguments are the text of deltas.
PutCall(m, c, partial) ==
  LET call == [id |-> c, status |-> "running", partial |-> partial]
  IN  IF HasCall(m, c)
      THEN [m EXCEPT !.calls = [i \in DOMAIN @ |-> IF @[i].id = c THEN call ELSE @[i]]]
      ELSE [m EXCEPT !.calls = Append(@, call)]

SetCall(m, c, status) ==
  [m EXCEPT !.calls = [i \in DOMAIN @ |->
     IF @[i].id = c THEN [@[i] EXCEPT !.status = status] ELSE @[i]]]

\* A system row equal to the last row is not repeated.
PushSystem(msgs, id, text, ts) ==
  IF msgs # <<>> /\ Last(msgs).role = "system" /\ Last(msgs).text = text THEN msgs
  ELSE Append(msgs, [Message("system", id, None, "done", ts) EXCEPT !.text = text])

-------------------------------------------------------------------------------
\* makeInMemEffects over r.msgs; r.fresh is the next id, r.sealed is mainSealed.

Opened(r, ts) == [r EXCEPT !.msgs = Append(@, Message("assistant", r.fresh, None, "streaming", ts)),
                           !.fresh = @ + 1, !.sealed = FALSE]

ApplyMain(r, ts, mut(_)) ==
  LET q == IF r.sealed \/ LastAssistant(r.msgs) = None THEN Opened(r, ts) ELSE r
  IN  [q EXCEPT !.msgs = Patch(@, LastAssistant(q.msgs), mut)]

\* onUserInput: the open bubble is finished; the request and the skeleton of its
\* reply are pushed.
OnUserInput(r, ts, key) ==
  LET q == [r EXCEPT !.msgs = Patch(@, LastAssistant(@), LAMBDA m :
                       IF m.status = "streaming" THEN [m EXCEPT !.status = "done"] ELSE m)]
  IN  Opened([q EXCEPT !.msgs = Append(@, Message("user", q.fresh, key, "done", ts)),
                       !.fresh = @ + 1], ts)

-------------------------------------------------------------------------------
\* TurnAccumulator; r.busy when currentMessages is not empty, r.pending the
\* calls without a result, r.agent when currentAgent is set.

CommitPending(r) == IF ~r.busy THEN r
                    ELSE [r EXCEPT !.busy = FALSE, !.pending = {}, !.sealed = @ \/ r.agent]

Interrupted(how) == how = "aborted"

FinalizeTurn(r, e) ==
  LET q == IF Interrupted(e.arg)
           THEN ApplyMain(r, e.ts, LAMBDA m : [m EXCEPT !.status = "error"]) ELSE r
  IN  [q EXCEPT !.sealed = @ \/ r.busy \/ Interrupted(e.arg), !.busy = FALSE, !.pending = {}]

\* A step the text already ends with is not appended again.
AppendStep(text, step) == IF IsSuffix(step, text) THEN text ELSE text \o step

\* hook:toolResult: a call still pending is merged and updated.
MergeResult(r, e) ==
  IF e.arg[1] \notin r.pending THEN r
  ELSE [ApplyMain(r, e.ts, LAMBDA m : SetCall(m, e.arg[1], e.arg[2]))
          EXCEPT !.pending = @ \ {e.arg[1]}]

Feed(r, e) ==
  CASE e.type \in {"user", "own"} -> OnUserInput(CommitPending(r), e.ts, Request(e.ts))
    [] e.type = "mail"  -> [r EXCEPT !.msgs = PushSystem(@, r.fresh, <<e.arg>>, e.ts),
                                     !.fresh = @ + 1]
    [] e.type = "start" -> [CommitPending(r) EXCEPT !.agent = TRUE]
    [] e.type = "step"  -> [ApplyMain(r, e.ts, LAMBDA m : [m EXCEPT !.text = AppendStep(@, e.arg)])
                              EXCEPT !.busy = TRUE]
    [] e.type = "call"  -> [ApplyMain(r, e.ts, LAMBDA m : PutCall(m, e.arg, FALSE))
                              EXCEPT !.busy = TRUE, !.pending = @ \cup {e.arg}]
    [] e.type = "result" -> MergeResult(r, e)
    [] e.type = "end"   -> FinalizeTurn(r, e)

-------------------------------------------------------------------------------
\* The loop of loadSession: r.open is openTurnStartedAt, r.bubble
\* openTurnAssistantId, r.reply pendingUserAssistantId.

Waits(r, e) ==
  /\ e.type = "end" /\ ~Interrupted(e.arg)
  /\ \/ e.arg = "waiting"
     \/ \E i \in LastWith(r.msgs, IsAssistant) : PendingAsk(r.msgs[i])

BeginTurn(r, e) == IF e.type # "start" THEN r
                   ELSE [r EXCEPT !.open = e.ts, !.bubble = r.reply, !.reply = None]

\* A request that opened a skeleton ends the identity of the turn before it; the
\* first bubble a turn opens is the turn's.
Identify(r, q, e) ==
  LET tail == LastAssistant(q.msgs)
      new  == tail # LastAssistant(r.msgs)
      u    == IF e.type \in {"user", "own"} /\ new
              THEN [q EXCEPT !.open = None, !.bubble = None, !.reply = tail] ELSE q
  IN  IF u.open # None /\ u.bubble = None /\ new THEN [u EXCEPT !.bubble = tail] ELSE u

\* Mutant: a turn that was open settles its bubble only.
MutSettleTurn(r, e) ==
  [r EXCEPT !.msgs = Patch(@, r.bubble, LAMBDA m : [m EXCEPT !.status = "done"]),
            !.open = None, !.bubble = None]

\* hook:turnEnd: the turn's bubble takes the anchor and its final status.
SettleTurn(r, e) ==
  LET target == IF r.bubble # None THEN r.bubble ELSE LastAssistant(r.msgs)
      status == IF Interrupted(e.arg) THEN "error" ELSE "done"
  IN  [r EXCEPT
        !.msgs = Patch(@, target, LAMBDA m :
                   [m EXCEPT !.status = status,
                             !.key = IF r.open = None THEN @ ELSE Live(r.open)]),
        !.settled = IF r.open = None THEN @ ELSE @ \cup {Live(r.open)},
        !.open = None, !.bubble = None]

Fed(r, e) == Identify(r, Feed(r, e), e)
Settled(r, e) == IF e.type = "end" THEN SettleTurn(r, e) ELSE r

ReplayEvent(r, e) == IF Waits(r, e) THEN r ELSE Settled(Fed(BeginTurn(r, e), e), e)

Blank(fresh) == [msgs |-> <<>>, fresh |-> fresh, sealed |-> FALSE, busy |-> FALSE,
                 pending |-> {}, agent |-> FALSE, open |-> None, bubble |-> None,
                 reply |-> None, settled |-> {}]

\* finalizeStreamingStatus.
Finalized(msgs) ==
  [i \in DOMAIN msgs |-> IF IsStreaming(msgs[i]) /\ ~PendingAsk(msgs[i])
                         THEN [msgs[i] EXCEPT !.status = "done"] ELSE msgs[i]]

Replayed(rows, fresh) ==
  LET after[i \in 0..Len(rows)] == IF i = 0 THEN Blank(fresh)
                                   ELSE ReplayEvent(after[i - 1], rows[i])
  IN  after[Len(rows)]

\* The replay of a log: the bubble of a turn still open takes its anchor.
Replay(rows, fresh) ==
  LET r == Replayed(rows, fresh)
  IN  [r EXCEPT !.msgs = Finalized(
         IF r.open = None \/ r.bubble = None THEN @
         ELSE Patch(@, r.bubble, LAMBDA m : [m EXCEPT !.key = Live(r.open)]))]
================================================================================
