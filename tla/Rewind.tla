--------------------------------- MODULE Rewind ---------------------------------
(***************************************************************************)
(* Checkpoint rewind of one session's conversation: the mask of the ledger  *)
(* (rewind-mask.ts), the pending rewind and the rewind events of the store  *)
(* (store.ts), and the dialog, the two inline editors and the banner that   *)
(* ask for it (RewindControls.tsx).  A message is its number: its row, its  *)
(* user_input and the reply to it.  The files of a rewind and the kept dirty*)
(* ones are left out, and with them the code-only mode.                     *)
(*                                                                          *)
(* The server is external: one boundary pends at a time, the next message   *)
(* finalizes it before it is logged, a turn replies to the last message,    *)
(* and a message that is rewound already is not rewound again.              *)
(***************************************************************************)
EXTENDS Naturals, SequencesExt, Filter

CONSTANTS None,
          MaxMsgs,     \* bound on the messages sent
          MaxRewinds,  \* bound on the boundaries
          MaxFrames,   \* bound on the frames on their way
          MaxReads     \* bound on the reads of the checkpoint index

VARIABLES
  ledger,   \* the events of the ledger
  wire,     \* frames on their way to the page
  sent,     \* the messages numbered so far
  rows,     \* the page: the rows of the slot
  pend,     \* pendingRewind: <<boundary, target>> or None
  dialog,   \* RewindConfirmDialog: None, or its message and whether it is busy
  edit,     \* BubbleEditInline: None, or its message and its phase
  calls,    \* requests of the page: kind, argument, and the server's answer
  reads,    \* reads of the checkpoint index so far
  muddled   \* history: what no longer has to agree with the server, and why

rewindVars == <<ledger, wire, sent, rows, pend, dialog, edit, calls, reads, muddled>>

Init == /\ ledger = <<>> /\ wire = <<>> /\ sent = 0
        /\ rows = <<>> /\ pend = None /\ dialog = None /\ edit = None
        /\ calls = {} /\ reads = 0 /\ muddled = {}

-------------------------------------------------------------------------------
\* rewind-mask.ts over a ledger.

Cancelled(es) == {es[i].id : i \in {j \in DOMAIN es : es[j].type = "cancel"}}

\* rangeStart: the last row of the target before the boundary.
RangeStart(es, b) ==
  LET targets == {j \in 1..(b - 1) : es[j].type = "user" /\ es[j].id = es[b].target}
  IN  IF targets = {} THEN b ELSE Max(targets)

\* Mutant: a cancelled boundary masks as well.
MutMasks(es, keep, b) == es[b].type = "boundary" /\ es[b].id # keep

\* The boundaries that hide what they rewound.
Masks(es, keep, b) == /\ es[b].type = "boundary"
                      /\ es[b].id \notin Cancelled(es)
                      /\ es[b].id # keep

Dropped(es, keep, i) ==
  \/ es[i].type \in {"boundary", "cancel"}
  \/ \E b \in DOMAIN es : Masks(es, keep, b) /\ i \in RangeStart(es, b)..b

\* The places of the events that stay.
ApplyRewindMask(es, keep) ==
  Among([i \in DOMAIN es |-> i], {i \in DOMAIN es : ~Dropped(es, keep, i)})

\* findPendingRewind: a boundary not cancelled that no message follows.
FindPendingRewind(es) ==
  LET open == {b \in DOMAIN es : /\ es[b].type = "boundary"
                                 /\ es[b].id \notin Cancelled(es)
                                 /\ \A j \in DOMAIN es : j > b => es[j].type # "user"}
  IN  IF open = {} THEN None ELSE <<es[Max(open)].id, es[Max(open)].target>>

\* What loadSession shows of a ledger.
Row(e) == [role |-> e.type, id |-> e.id]
Loaded(es) == LET p == FindPendingRewind(es)
                  shown == ApplyRewindMask(es, IF p = None THEN None ELSE p[1])
              IN  [i \in DOMAIN shown |-> Row(es[shown[i]])]

-------------------------------------------------------------------------------
\* The server (external).

Event(type, id, target) == [type |-> type, id |-> id, target |-> target]
Boundaries == Cardinality({i \in DOMAIN ledger : ledger[i].type = "boundary"})

\* A message of the conversation as it is is rewound.
Rewound(msg) ==
  /\ FindPendingRewind(ledger) = None
  /\ Boundaries < MaxRewinds
  /\ \E i \in DOMAIN ledger : /\ ledger[i].type = "user" /\ ledger[i].id = msg
                              /\ ~Dropped(ledger, None, i)
  /\ Len(wire) < MaxFrames
  /\ ledger' = Append(ledger, Event("boundary", Boundaries + 1, msg))
  /\ wire' = Append(wire, Event("done", Boundaries + 1, msg))

Pends(b) == LET p == FindPendingRewind(ledger) IN p # None /\ p[1] = b

Undone(b) ==
  /\ Pends(b)
  /\ Len(wire) < MaxFrames
  /\ ledger' = Append(ledger, Event("cancel", b, None))
  /\ wire' = Append(wire, Event("cancelled", b, None))

\* A message finalizes what is pending, and is broadcast.
Logged(msg) ==
  LET p == FindPendingRewind(ledger)
      final == IF p = None THEN <<>> ELSE <<Event("finalized", p[1], p[2])>>
  IN  /\ Len(wire) + 1 < MaxFrames
      /\ ledger' = Append(ledger, Event("user", msg, None))
      /\ wire' = wire \o Append(final, Event("user", msg, None))

Replies == /\ ledger # <<>> /\ Last(ledger).type = "user"
           /\ Len(wire) < MaxFrames
           /\ ledger' = Append(ledger, Event("reply", Last(ledger).id, None))
           /\ wire' = Append(wire, Event("reply", Last(ledger).id, None))
           /\ UNCHANGED <<sent, rows, pend, dialog, edit, calls, reads, muddled>>

PageRest == UNCHANGED <<rows, pend, dialog, edit, calls, reads, muddled>>

\* Another tab sends, rewinds or restores.
ForeignSend   == sent < MaxMsgs /\ sent' = sent + 1 /\ Logged(sent + 1) /\ PageRest
ForeignRewind(msg) == Rewound(msg) /\ UNCHANGED sent /\ PageRest
ForeignRedo(b) == Undone(b) /\ UNCHANGED sent /\ PageRest

Call(kind, arg) == [kind |-> kind, arg |-> arg, answer |-> None, read |-> None]

\* The message was overtaken by one that another tab sent later.
Crossed(msg) == \E i \in DOMAIN ledger : ledger[i].type = "user" /\ ledger[i].id > msg

\* A request is handled: done, or refused and nothing happens.
Handle(c, answer) ==
  /\ c \in calls /\ c.answer = None
  /\ \/ /\ c.kind \in {"rewind", "editRewind"} /\ answer = "ok" /\ Rewound(c.arg)
     \/ /\ c.kind = "redo" /\ answer = "ok" /\ Undone(c.arg)
     \/ /\ c.kind = "send" /\ answer = "ok" /\ Logged(c.arg)
     \/ /\ c.kind = "redo" /\ answer = "refused"
        /\ ~Pends(c.arg)
        /\ UNCHANGED <<ledger, wire>>
     \/ c.kind \in {"rewind", "editRewind"} /\ answer = "refused" /\ UNCHANGED <<ledger, wire>>
     \/ c.kind = "index" /\ answer = "ok" /\ UNCHANGED <<ledger, wire>>
  /\ calls' = (calls \ {c}) \cup {[c EXCEPT !.answer = answer, !.read = FindPendingRewind(ledger)]}
  /\ muddled' = muddled \cup IF c.kind = "send" /\ Crossed(c.arg) THEN {"crossed"} ELSE {}
  /\ UNCHANGED <<sent, rows, pend, dialog, edit, reads>>

-------------------------------------------------------------------------------
\* The page: applyRewindEvent and the rows.

Has(msg) == \E i \in DOMAIN rows : rows[i].role = "user" /\ rows[i].id = msg

\* The event of a rewind whose target another agent's slot holds is not for this one.
OnDone(f) == pend' = (IF rows # <<>> /\ ~Has(f.target) THEN pend ELSE <<f.id, f.target>>)

\* rewind:finalized removes the rows from the target to the last message after it.
Cut(target) ==
  LET at == {i \in DOMAIN rows : rows[i].role = "user" /\ rows[i].id = target}
      later == {i \in DOMAIN rows : rows[i].role = "user" /\ i > Min(at)}
      to == IF later = {} THEN Len(rows) + 1 ELSE Max(later)
  IN  IF at = {} THEN rows ELSE SubSeq(rows, 1, Min(at) - 1) \o SubSeq(rows, to, Len(rows))

\* The message that finalizes is not a row yet, and the rewound part has others.
Observed(f) == LET next == {i \in DOMAIN ledger : ledger[i].type = "user" /\
                              \E b \in 1..(i - 1) : ledger[b].type = "boundary" /\ ledger[b].id = f.id}
               IN  next # {} /\ ~Has(ledger[Min(next)].id)

OnFinalized(f) == /\ pend' = None
                  /\ rows' = Cut(f.target)
                  /\ muddled' = muddled \cup IF Observed(f) THEN {"observed"} ELSE {}

\* A request is put before what is later than it, a reply is appended.
Added(f) == LET later == {i \in DOMAIN rows : rows[i].id > f.id}
            IN  IF f.type = "user" /\ Has(f.id) THEN rows
                ELSE IF f.type = "reply" \/ later = {} THEN Append(rows, Row(f))
                ELSE InsertAt(rows, Min(later), Row(f))

\* A reply that arrives below a newer request of the page is taken for that one's.
Late(f) == f.type = "reply" /\ \E i \in DOMAIN rows : rows[i].role = "user" /\ rows[i].id > f.id

Receive ==
  /\ wire # <<>>
  /\ wire' = Tail(wire)
  /\ LET f == Head(wire) IN
       \/ f.type = "done" /\ OnDone(f) /\ UNCHANGED <<rows, muddled>>
       \/ f.type = "cancelled" /\ pend' = None /\ UNCHANGED <<rows, muddled>>
       \/ f.type = "finalized" /\ OnFinalized(f)
       \/ /\ f.type \in {"user", "reply"}
          /\ rows' = Added(f)
          /\ muddled' = muddled \cup IF Late(f) THEN {"late"} ELSE {}
          /\ UNCHANGED pend
  /\ edit' = IF pend' # None /\ edit # None /\ edit[2] # "sending" THEN None ELSE edit
  /\ UNCHANGED <<ledger, sent, dialog, calls, reads>>

\* canRewindHere: a row not greyed out that the server knows.
Known(msg) == Has(msg) /\ \E i \in DOMAIN ledger : ledger[i].type = "user" /\ ledger[i].id = msg
Grey(i) == pend # None /\ \E j \in 1..i : rows[j].role = "user" /\ rows[j].id = pend[2]
CanRewindHere(msg) == Known(msg) /\ \A i \in DOMAIN rows : rows[i].id = msg => ~Grey(i)

Flying(kind) == \E c \in calls : c.kind = kind
ServerRest == UNCHANGED <<ledger, wire, reads, muddled>>

OpenDialog(msg) == /\ dialog = None /\ CanRewindHere(msg) /\ ~Flying("rewind")
                   /\ dialog' = <<msg, FALSE>>
                   /\ UNCHANGED <<sent, rows, pend, edit, calls>> /\ ServerRest
CloseDialog == /\ dialog # None
               /\ dialog' = None
               /\ UNCHANGED <<sent, rows, pend, edit, calls>> /\ ServerRest
RunRewind == /\ dialog # None /\ ~dialog[2]
             /\ dialog' = <<dialog[1], TRUE>>
             /\ calls' = calls \cup {Call("rewind", dialog[1])}
             /\ UNCHANGED <<sent, rows, pend, edit>> /\ ServerRest
\* Done, the dialog closes; refused, it can be tried again.
RewindAnswered(c) ==
  /\ c \in calls /\ c.kind = "rewind" /\ c.answer # None
  /\ calls' = calls \ {c}
  /\ dialog' = IF c.answer = "ok" \/ dialog = None THEN None ELSE <<dialog[1], FALSE>>
  /\ UNCHANGED <<sent, rows, pend, edit>> /\ ServerRest

\* sendMessage: the row at once, then the request.
Push == /\ sent < MaxMsgs
        /\ sent' = sent + 1
        /\ rows' = Append(rows, [role |-> "user", id |-> sent + 1])

Send == /\ ~Flying("send") /\ edit = None
        /\ Push
        /\ calls' = calls \cup {Call("send", sent + 1)}
        /\ UNCHANGED <<pend, dialog, edit>> /\ ServerRest
SendAnswered(c) == /\ c \in calls /\ c.kind = "send" /\ c.answer # None
                   /\ calls' = calls \ {c}
                   /\ UNCHANGED <<sent, rows, pend, dialog, edit>> /\ ServerRest

\* BubbleEditInline: the preview of the files, the rewind, the message.
StartEdit(msg) == /\ edit = None /\ pend = None /\ CanRewindHere(msg)
                  /\ edit' = <<msg, "editing">>
                  /\ UNCHANGED <<sent, rows, pend, dialog, calls>> /\ ServerRest
CancelEdit == /\ edit # None /\ edit[2] \in {"editing", "confirming"}
              /\ edit' = IF edit[2] = "editing" THEN None ELSE <<edit[1], "editing">>
              /\ UNCHANGED <<sent, rows, pend, dialog, calls>> /\ ServerRest
\* The preview shows files to revert, so it asks first, or nothing to ask about.
PreviewEdit(files) == /\ edit # None /\ edit[2] = "editing" /\ files
                      /\ edit' = <<edit[1], "confirming">>
                      /\ UNCHANGED <<sent, rows, pend, dialog, calls>> /\ ServerRest
RewindAndSend(files) == /\ edit # None /\ edit[2] = (IF files THEN "confirming" ELSE "editing")
                        /\ edit' = <<edit[1], "sending">>
                        /\ calls' = calls \cup {Call("editRewind", edit[1])}
                        /\ UNCHANGED <<sent, rows, pend, dialog>> /\ ServerRest
EditAnswered(c) ==
  /\ c \in calls /\ c.kind = "editRewind" /\ c.answer # None
  /\ \/ /\ c.answer = "ok" /\ Push
        /\ calls' = (calls \ {c}) \cup {Call("send", sent + 1)}
        /\ edit' = None
     \/ /\ c.answer = "refused"
        /\ calls' = calls \ {c}
        /\ edit' = IF pend = None THEN <<edit[1], "editing">> ELSE None
        /\ UNCHANGED <<sent, rows>>
  /\ UNCHANGED <<pend, dialog>> /\ ServerRest

\* performRewindCancel, from the banner or the inline editor.
Redo == /\ pend # None /\ ~Flying("redo")
        /\ calls' = calls \cup {Call("redo", pend[1])}
        /\ UNCHANGED <<sent, rows, pend, dialog, edit>> /\ ServerRest

\* A 409 drops what the page believes and reads the index again.
RedoAnswered(c) ==
  /\ c \in calls /\ c.kind = "redo" /\ c.answer # None
  /\ \/ c.answer = "ok" /\ calls' = calls \ {c} /\ UNCHANGED <<pend, reads>>
     \/ /\ c.answer = "refused"
        /\ pend' = None
        /\ ~Flying("index") /\ reads < MaxReads
        /\ reads' = reads + 1
        /\ calls' = (calls \ {c}) \cup {Call("index", None)}
  /\ UNCHANGED <<ledger, wire, muddled, sent, rows, dialog, edit>>

\* loadCheckpoints, when the page is opened or a refusal was met.
LoadCheckpoints == /\ ~Flying("index") /\ reads < MaxReads
                   /\ reads' = reads + 1
                   /\ calls' = calls \cup {Call("index", None)}
                   /\ UNCHANGED <<ledger, wire, muddled, sent, rows, pend, dialog, edit>>
\* Its answer replaces what the events said; it is stale if one is newer than the read
\* or still on its way.
IndexAnswered(c) ==
  /\ c \in calls /\ c.kind = "index" /\ c.answer # None
  /\ calls' = calls \ {c}
  /\ pend' = c.read
  /\ edit' = IF pend' # None /\ edit # None /\ edit[2] # "sending" THEN None ELSE edit
  /\ muddled' = muddled \cup
       IF c.read # FindPendingRewind(ledger)
          \/ \E i \in DOMAIN wire : wire[i].type \in {"done", "cancelled", "finalized"}
       THEN {"stale"} ELSE {}
  /\ UNCHANGED <<ledger, wire, sent, rows, dialog, reads>>

\* The page is opened anew, with nothing on its way.
Reload == /\ wire = <<>> /\ calls = {} /\ reads < MaxReads
          /\ rows' = Loaded(ledger)
          /\ pend' = None /\ dialog' = None /\ edit' = None
          /\ calls' = {Call("index", None)}
          /\ reads' = reads + 1
          /\ muddled' = {}
          /\ UNCHANGED <<ledger, wire, sent>>

Answers(c) == \/ RewindAnswered(c) \/ SendAnswered(c) \/ EditAnswered(c)
              \/ RedoAnswered(c) \/ IndexAnswered(c)

Next == \/ Replies \/ ForeignSend
        \/ \E msg \in 1..MaxMsgs : \/ ForeignRewind(msg) \/ OpenDialog(msg) \/ StartEdit(msg)
        \/ \E b \in 1..MaxRewinds : ForeignRedo(b)
        \/ \E c \in calls : \/ Answers(c)
                            \/ \E answer \in {"ok", "refused"} : Handle(c, answer)
        \/ Receive \/ CloseDialog \/ RunRewind \/ Send \/ CancelEdit
        \/ \E files \in BOOLEAN : PreviewEdit(files) \/ RewindAndSend(files)
        \/ Redo \/ LoadCheckpoints \/ Reload

Spec == Init /\ [][Next]_rewindVars

-------------------------------------------------------------------------------

Settled == wire = <<>> /\ calls = {}

\* When nothing is on its way, the live page shows what a reload would: the rewound
\* part is greyed out while its boundary pends, gone once a message finalized it,
\* and back once it was cancelled (applyRewindEvent against applyRewindMask).
RewindAgrees ==
  Settled /\ muddled = {} =>
    /\ ToSet(rows) = ToSet(Loaded(ledger)) /\ Len(rows) = Len(Loaded(ledger))
    /\ pend = FindPendingRewind(ledger)
================================================================================
