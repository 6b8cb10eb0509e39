-------------------------------- MODULE CliStream --------------------------------
(***************************************************************************)
(* The reply of one CLI request as its stream is read (store.ts, the loop   *)
(* over parseSse): frames of the agent and of its sub-agents, the buffers   *)
(* of text and of argument deltas that are written at most once in 32 ms,   *)
(* Stop, a broken stream, and the writes that every end goes through.       *)
(*                                                                          *)
(* A text is the sequence of the numbers of its frames, and one text stands *)
(* for the two of a sub-agent (said and thought).  The arguments of a       *)
(* call are the deltas read so far, or Final once its own frame was read.   *)
(* Provider names, run ids and the stored events fed to the accumulator     *)
(* (Transcript has it) are left out.                                        *)
(***************************************************************************)
EXTENDS Integers, SequencesExt, Filter

CONSTANTS None, Final, Main,
          Subs,       \* sub-agents
          Calls,      \* tool calls; an agent makes its own
          MaxStream   \* bound on the frames of the stream

VARIABLES
  said,      \* history: the frames, as the server sent them
  bubble,    \* the message: segments, calls, status, and the runs of the sub-agents
  textBuf,   \* text not written yet, an entry per agent, oldest agent first
  deltaBuf,  \* argument deltas not written yet, per call: who, and which frames
  reading,   \* whether the stream is read: "yes", "stopped" or "no"
  cut        \* history: the stream was stopped, or broke

cliVars == <<said, bubble, textBuf, deltaBuf, reading, cut>>

Init == /\ said = <<>>
        /\ bubble = [segs |-> <<>>, calls |-> [c \in Calls |-> None], status |-> "streaming",
                     subs |-> [s \in Subs |-> None]]
        /\ textBuf = <<>> /\ deltaBuf = [c \in Calls |-> None]
        /\ reading = "yes" /\ cut = FALSE

-------------------------------------------------------------------------------
\* Pure reducers of the message.

\* appendChatSegment: words of one kind that follow each other are one segment.
AppendChatSegment(segs, kind, n) ==
  IF segs # <<>> /\ Last(segs).kind = kind
  THEN [segs EXCEPT ![Len(segs)].of = Append(@, n)]
  ELSE Append(segs, [kind |-> kind, of |-> <<n>>])

HasSegment(segs, c) == \E i \in DOMAIN segs : segs[i] = [kind |-> "tool", of |-> c]
UpsertToolSegment(segs, c) == IF HasSegment(segs, c) THEN segs
                              ELSE Append(segs, [kind |-> "tool", of |-> c])

\* patchSub: the run of a sub-agent begins with what it is patched with first.
Run(b, s) == IF b.subs[s] = None
             THEN [text |-> <<>>, calls |-> [c \in Calls |-> None], status |-> "streaming"]
             ELSE b.subs[s]
PatchSub(b, s, run) == [b EXCEPT !.subs[s] = run]

Said(b, who, chunk) ==
  IF who = Main THEN [b EXCEPT !.segs = AppendChatSegment(@, chunk.kind, chunk.n)]
  ELSE PatchSub(b, who, [Run(b, who) EXCEPT !.text = Append(@, chunk.n)])

\* flushSseTextBuf
EntrySaid(b, entry) == Folded(LAMBDA x, chunk : Said(x, entry.from, chunk), b, entry.chunks)
FlushText(b) == Folded(EntrySaid, b, textBuf)

\* Deltas follow the deltas there, or start anew over arguments that are no text.
Extended(tool, deltas) == [tool EXCEPT !.args = (IF @ = Final THEN <<>> ELSE @) \o deltas,
                                       !.status = "running"]
WithDeltas(b, c, d) ==
  IF d = None THEN b
  ELSE IF d.from = Main
  THEN [b EXCEPT !.calls[c] = IF @ = None THEN [args |-> d.deltas, status |-> "running"]
                              ELSE Extended(@, d.deltas),
                 !.segs = UpsertToolSegment(@, c)]
  ELSE LET run == Run(b, d.from)
       IN  PatchSub(b, d.from, IF run.calls[c] = None THEN run
                               ELSE [run EXCEPT !.calls[c] = Extended(@, d.deltas)])

\* flushSseDeltaBuf
FlushDeltas(b, buf) == Folded(LAMBDA at, c : WithDeltas(at, c, buf[c]), b, SetToSeq(Calls))
NoDeltas == [c \in Calls |-> None]

SetCall(b, who, c, tool) ==
  IF who = Main THEN [b EXCEPT !.calls[c] = tool, !.segs = UpsertToolSegment(@, c)]
  ELSE PatchSub(b, who, [Run(b, who) EXCEPT !.calls[c] = tool])

-------------------------------------------------------------------------------
\* The frames.

Reads(frame) == /\ reading = "yes" /\ Len(said) < MaxStream
                /\ \A i \in DOMAIN said : said[i].type # "error"
                /\ said' = Append(said, frame)
                /\ UNCHANGED <<reading, cut>>

Frame(type, from, call) == [type |-> type, from |-> from, call |-> call]
Sent(type, c) == \E i \in DOMAIN said : said[i].type = type /\ said[i].call = c
Of(who, c) == \A i \in DOMAIN said : said[i].call = c => said[i].from = who

Buffered(who, chunk) ==
  IF \E i \in DOMAIN textBuf : textBuf[i].from = who
  THEN [i \in DOMAIN textBuf |-> IF textBuf[i].from = who
                                 THEN [textBuf[i] EXCEPT !.chunks = Append(@, chunk)] ELSE textBuf[i]]
  ELSE Append(textBuf, [from |-> who, chunks |-> <<chunk>>])

\* A token waits, or 32 ms have passed and all is written.
Words(kind, who) ==
  /\ Reads(Frame(kind, who, None))
  /\ textBuf' = Buffered(who, [kind |-> kind, n |-> Len(said) + 1])
  /\ UNCHANGED <<bubble, deltaBuf>>
FlushInTime == /\ reading = "yes" /\ textBuf # <<>>
               /\ Last(said).type \in {"text", "thinking"}
               /\ bubble' = FlushText(bubble) /\ textBuf' = <<>>
               /\ UNCHANGED <<said, deltaBuf, reading, cut>>

\* The frame of a call merges into the one its deltas made.
ToolCall(who, c) ==
  /\ ~Sent("call", c) /\ Of(who, c)
  /\ Reads(Frame("call", who, c))
  /\ bubble' = SetCall(FlushText(bubble), who, c, [args |-> Final, status |-> "running"])
  /\ textBuf' = <<>>
  /\ UNCHANGED deltaBuf

\* A delta waits, or 32 ms have passed and all deltas are written.
Delta(who, c, now) ==
  /\ ~Sent("call", c) /\ Of(who, c)
  /\ Reads(Frame("delta", who, c))
  /\ LET d == [from |-> who, deltas |-> (IF deltaBuf[c] = None THEN <<>> ELSE deltaBuf[c].deltas)
                                        \o <<Len(said) + 1>>]
         buf == [deltaBuf EXCEPT ![c] = d]
         b == FlushText(bubble)
     IN  /\ bubble' = IF now THEN FlushDeltas(b, buf) ELSE b
         /\ deltaBuf' = IF now THEN NoDeltas ELSE buf
  /\ textBuf' = <<>>

Settled(b, who, c, status) ==
  IF who = Main
  THEN IF b.calls[c] = None THEN b ELSE [b EXCEPT !.calls[c].status = status]
  ELSE LET run == Run(b, who)
       IN  PatchSub(b, who, IF run.calls[c] = None THEN run ELSE [run EXCEPT !.calls[c].status = status])

\* Mutant: the result is written without the deltas before it.
MutToolResult(who, c, status) ==
  /\ Sent("call", c) /\ ~Sent("result", c) /\ Of(who, c)
  /\ Reads(Frame("result", who, c))
  /\ bubble' = Settled(FlushText(bubble), who, c, status)
  /\ textBuf' = <<>>
  /\ UNCHANGED deltaBuf

ToolResult(who, c, status) ==
  /\ Sent("call", c) /\ ~Sent("result", c) /\ Of(who, c)
  /\ Reads(Frame("result", who, c))
  /\ bubble' = Settled(FlushDeltas(FlushText(bubble), deltaBuf), who, c, status)
  /\ textBuf' = <<>> /\ deltaBuf' = NoDeltas

ErrorOrDone(type, who) ==
  /\ Reads(Frame(type, who, None))
  /\ LET b == FlushDeltas(FlushText(bubble), deltaBuf)
     IN  bubble' = IF type = "done" THEN b
                   ELSE IF who = Main THEN [b EXCEPT !.status = "error"]
                   ELSE PatchSub(b, who, [Run(b, who) EXCEPT !.status = "error"])
  /\ textBuf' = <<>> /\ deltaBuf' = NoDeltas

\* cancelStream: the bubble is sealed at once and the request aborted.
Sealed(b) ==
  LET Seal(tool) == IF tool # None /\ tool.status = "running" THEN [tool EXCEPT !.status = "done"] ELSE tool
      End(run) == IF run # None /\ run.status = "streaming"
                  THEN [run EXCEPT !.status = "done", !.calls = [c \in Calls |-> Seal(run.calls[c])]] ELSE run
  IN  IF b.status # "streaming" THEN b
      ELSE [b EXCEPT !.status = "done", !.calls = [c \in Calls |-> Seal(b.calls[c])],
                     !.subs = [s \in Subs |-> End(b.subs[s])]]
Stop == /\ reading = "yes"
        /\ reading' = "stopped" /\ cut' = TRUE
        /\ bubble' = Sealed(bubble)
        /\ UNCHANGED <<said, textBuf, deltaBuf>>

\* The loop is left at the end of the stream, by the abort or by an error; the
\* buffers are written and a bubble that streams is done.
Ends(how) ==
  /\ reading = (IF how = "aborted" THEN "stopped" ELSE "yes")
  /\ reading' = "no" /\ cut' = (cut \/ how = "broken")
  /\ LET marked == CASE how = "aborted" -> [bubble EXCEPT !.status = "done"]
                     [] how = "broken" -> [bubble EXCEPT !.status = "error"]
                     [] OTHER -> bubble
         b == FlushDeltas(FlushText(marked), deltaBuf)
     IN  bubble' = IF b.status = "streaming" THEN [b EXCEPT !.status = "done"] ELSE b
  /\ textBuf' = <<>> /\ deltaBuf' = NoDeltas
  /\ UNCHANGED said

Next == \/ \E who \in Subs \cup {Main} :
             \/ \E kind \in {"text", "thinking"} : Words(kind, who)
             \/ \E c \in Calls : \/ ToolCall(who, c)
                                 \/ \E now \in BOOLEAN : Delta(who, c, now)
                                 \/ \E status \in {"done", "error"} : ToolResult(who, c, status)
             \/ \E type \in {"error", "done"} : ErrorOrDone(type, who)
        \/ FlushInTime \/ Stop
        \/ \E how \in {"read", "aborted", "broken"} : Ends(how)

Spec == Init /\ [][Next]_cliVars

-------------------------------------------------------------------------------
FramesOf(who, kinds) ==
  Among([i \in DOMAIN said |-> i], {i \in DOMAIN said : said[i].from = who /\ said[i].type \in kinds})

TextOf(kind) == Folded(LAMBDA text, seg : IF seg.kind = kind THEN text \o seg.of ELSE text, <<>>, bubble.segs)

\* When the stream is left, nothing said is missing or out of order, no agent has words
\* of another, each call is shown once, a result stays, and the reply has ended.
StreamKept ==
  reading = "no" =>
    /\ TextOf("text") = FramesOf(Main, {"text"})
    /\ TextOf("thinking") = FramesOf(Main, {"thinking"})
    /\ \A s \in Subs : bubble.subs[s] # None => bubble.subs[s].text = FramesOf(s, {"text", "thinking"})
    /\ \A c \in Calls : Sent("call", c) /\ Of(Main, c) =>
         Cardinality({i \in DOMAIN bubble.segs : bubble.segs[i].kind = "tool" /\ bubble.segs[i].of = c}) = 1
    /\ \A c \in Calls : Sent("result", c) =>
         \E who \in Subs \cup {Main} : /\ Of(who, c)
           /\ (IF who = Main THEN bubble ELSE bubble.subs[who]).calls[c].status # "running"
    /\ bubble.status # "streaming"

\* The arguments in a call's own frame are what the call shows: its deltas merge into
\* it (store.ts: "Merge that final event into the existing call").
CallKeepsArguments ==
  \A c \in Calls : bubble.calls[c] # None /\ Sent("call", c) => bubble.calls[c].args = Final

\* A reply that was stopped shows no call at work (sealAbortedAssistantMessage).
StoppedIsSealed == reading = "no" /\ cut /\ bubble.status = "done" =>
                     \A c \in Calls : bubble.calls[c] # None => bubble.calls[c].status # "running"
================================================================================
