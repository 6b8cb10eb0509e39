---------------------------- MODULE ComposerText ----------------------------
(***************************************************************************)
(* The text box of the chat panel (Composer.tsx): one input that is shared *)
(* by all threads.  The thread the user looks at (session and agent) may    *)
(* change at any time, also while files are being read and while a message *)
(* is being prepared, so the component keeps an OWNER (thread and a         *)
(* generation that grows whenever the owner is looked up and has changed),  *)
(* tags the text, the attachments and the file reads with generations, and  *)
(* saves the text of each thread as a draft (composer-draft.ts).            *)
(*                                                                         *)
(* A text is a sequence of tokens: a typed word, the pill of a text file,   *)
(* or an advice placed by a suggestion button (composer-text-bridge.ts).    *)
(* Every word and file carries the thread and the generation it was entered *)
(* in; the code keeps no such mark, the properties read it.                 *)
(***************************************************************************)
EXTENDS Naturals, Sequences, SequencesExt, FiniteSets, Filter

CONSTANTS
  Threads,      \* the threads: a session with its bound agent
  NoThread,     \* the active tab has no agent yet
  Advice,       \* the identities of suggestion buttons
  Plain,        \* a request of text without such an identity
  Selections,   \* what one file choice may hold: sequences over {"file", "pill"}
  MaxTokens,    \* words, files and requests entered
  MaxSwitches,  \* changes of the active thread
  MaxMounts     \* times the panel is mounted

VARIABLES
  active,     \* the shell's active thread
  mounted,    \* how often the panel was mounted, and whether it is
  text,       \* the input
  textOwner,  \* textOwnerGenerationRef; 0 stands for null
  owner,      \* ownerRef
  drafts,     \* the saved texts
  attached,   \* the attachments shown
  batches,    \* fileReadCommitQueueRef and pendingFileReadsRef
  submit,     \* the one submission being prepared
  resume,     \* connectResumeOwnerRef
  bridge,     \* the text bridge: its queue, the last advice, those seen
  sent,       \* what left the input
  strays,     \* the words an unmount saved as another thread's draft
  typed,      \* the words entered and not removed by the user
  entered,    \* how many words and files were entered
  switches    \* how often the thread changed

vars == <<active, mounted, text, textOwner, owner, drafts, attached, batches,
          submit, resume, bridge, sent, strays, typed, entered, switches>>

NoOwner == [thread |-> NoThread, gen |-> 0]
Idle == [phase |-> "idle", owner |-> NoOwner]
NoRequests == [queue |-> <<>>, last |-> Plain, seen |-> {}]

---------------------------------------------------------------------------
(* Owners and drafts. *)

(* currentOwner: the owner as of now, with a new generation when the thread  *)
(* is another than at the last look.                                        *)
OwnerNow == IF owner.thread = active THEN owner
            ELSE [thread |-> active, gen |-> owner.gen + 1]

Looked == owner' = IF active = NoThread THEN owner ELSE OwnerNow

Owns(o) == mounted.on /\ active # NoThread /\ OwnerNow = o

Write(saved, thread, value) ==
  IF thread = NoThread THEN saved ELSE [saved EXCEPT ![thread] = value]

Read(thread) == IF thread = NoThread THEN <<>> ELSE drafts[thread]

(* The input is on screen, rendered for the active thread. *)
AtInput == mounted.on

(* bindTextToCurrentOwner, which every change of the input calls. *)
Bind(value) ==
  /\ Looked
  /\ textOwner' = IF value # <<>> /\ active # NoThread THEN OwnerNow.gen ELSE 0
  /\ text' = value
  /\ drafts' = Write(drafts, active, value)

(* A change by hand also starts a new round of suggestions. *)
Advanced == bridge' = [bridge EXCEPT !.last = Plain, !.seen = {}]

Edit(value) == Bind(value) /\ Advanced

Mark(kind, n) ==
  [kind |-> kind, thread |-> active, n |-> n,
   gen |-> IF active = NoThread THEN 0 ELSE OwnerNow.gen]

AdviceMark(id) == [kind |-> "advice", thread |-> NoThread, n |-> 0, gen |-> 0, id |-> id]

---------------------------------------------------------------------------
(* The panel and the active thread. *)

(* The user, or an event, makes another thread the active one, and the panel  *)
(* is rendered for it before anything else runs: the text becomes the draft   *)
(* of the thread left, the draft of the thread entered becomes the text.      *)
(* Attachments, owner and the text's generation stay.                        *)
Switch ==
  \E thread \in (Threads \cup {NoThread}) \ {active} :
    /\ switches < MaxSwitches
    /\ switches' = switches + 1
    /\ active' = thread
    /\ IF mounted.on
       THEN text' = Read(thread) /\ drafts' = Write(drafts, active, text)
       ELSE UNCHANGED <<text, drafts>>
    /\ UNCHANGED <<mounted, textOwner, owner, attached, batches, submit, resume,
                   bridge, sent, strays, typed, entered>>

(* The panel is closed: the text goes to the draft of the owner last looked   *)
(* up, and every reference of the component is gone; reads and submissions    *)
(* under way find their owner gone.                                          *)
Unmount ==
  /\ AtInput
  /\ mounted' = [mounted EXCEPT !.on = FALSE]
  /\ drafts' = Write(drafts, owner.thread, text)
  /\ strays' = IF owner.thread = active THEN strays ELSE strays \cup ToSet(text)
  /\ text' = <<>>
  /\ textOwner' = 0
  /\ owner' = NoOwner
  /\ attached' = <<>>
  /\ batches' = <<>>
  /\ submit' = Idle
  /\ resume' = NoOwner
  /\ UNCHANGED <<active, bridge, sent, typed, entered, switches>>

Mount ==
  /\ ~mounted.on
  /\ mounted.count < MaxMounts
  /\ mounted' = [on |-> TRUE, count |-> mounted.count + 1]
  /\ text' = Read(active)
  /\ Looked
  /\ textOwner' = IF Read(active) # <<>> THEN OwnerNow.gen ELSE 0
  /\ UNCHANGED <<active, drafts, attached, batches, submit, resume,
                 bridge, sent, strays, typed, entered, switches>>

---------------------------------------------------------------------------
(* The user at the input. *)

Type ==
  LET word == Mark("word", entered + 1) IN
  /\ AtInput
  /\ entered < MaxTokens
  /\ entered' = entered + 1
  /\ typed' = typed \cup {word}
  /\ Edit(Append(text, word))
  /\ UNCHANGED <<active, mounted, attached, batches, submit, resume,
                 sent, strays, switches>>

Erase ==
  /\ AtInput
  /\ text # <<>>
  /\ typed' = typed \ ToSet(text)
  /\ Edit(<<>>)
  /\ UNCHANGED <<active, mounted, attached, batches, submit, resume,
                 sent, strays, entered, switches>>

(* addFiles: paste, drop or the picker; the files are read in the background. *)
AddFiles ==
  \E choice \in Selections :
    /\ AtInput
    /\ active # NoThread
    /\ entered + Len(choice) <= MaxTokens
    /\ Looked
    /\ entered' = entered + Len(choice)
    /\ batches' = Append(batches,
         [owner |-> OwnerNow, read |-> FALSE,
          items |-> [i \in DOMAIN choice |-> Mark(choice[i], entered + i)]])
    /\ UNCHANGED <<active, mounted, text, textOwner, drafts, attached, submit,
                   resume, bridge, sent, strays, typed, switches>>

(* All reads of a batch have settled; those that failed are only announced. *)
ReadBatch ==
  \E i \in DOMAIN batches : \E read \in SUBSET ToSet(batches[i].items) :
    /\ ~batches[i].read
    /\ batches' = [batches EXCEPT ![i] =
                     [owner |-> @.owner, read |-> TRUE, items |-> Among(@.items, read)]]
    /\ UNCHANGED <<active, mounted, text, textOwner, owner, drafts, attached,
                   submit, resume, bridge, sent, strays, typed, entered, switches>>

OfKind(items, kind) == Among(items, {item \in ToSet(items) : item.kind = kind})

(* Batches are committed in the order they were chosen: pills into the text,  *)
(* the others to the attachments, unless the owner has changed.              *)
CommitBatch ==
  LET batch == Head(batches)
      pills == OfKind(batch.items, "pill")
  IN /\ batches # <<>>
     /\ batch.read
     /\ batches' = Tail(batches)
     /\ IF Owns(batch.owner)
        THEN /\ attached' = attached \o OfKind(batch.items, "file")
             /\ IF pills # <<>> THEN Edit(text \o pills)
                ELSE Looked /\ UNCHANGED <<text, textOwner, drafts, bridge>>
        ELSE Looked /\ UNCHANGED <<attached, text, textOwner, drafts, bridge>>
     /\ UNCHANGED <<active, mounted, submit, resume, sent, strays, typed,
                    entered, switches>>

RemoveFile ==
  \E i \in DOMAIN attached :
    /\ AtInput
    /\ attached' = RemoveAt(attached, i)
    /\ UNCHANGED <<active, mounted, text, textOwner, owner, drafts, batches,
                   submit, resume, bridge, sent, strays, typed, entered, switches>>

---------------------------------------------------------------------------
(* The bridge: text requested by a button elsewhere. *)

(* enqueueComposerTextRequest *)
Request ==
  \E id \in Advice \cup {Plain}, mode \in {"append", "replace"} :
    LET named == mode = "append" /\ id # Plain
        again == named /\ bridge.last = id /\ id \in bridge.seen
        seen == IF bridge.last = id THEN bridge.seen ELSE {}
    IN /\ entered < MaxTokens
       /\ ~again
       /\ entered' = entered + 1
       /\ bridge' = [queue |-> Append(bridge.queue, <<id, mode>>),
                     last |-> IF id = Plain THEN bridge.last ELSE id,
                     seen |-> IF named THEN seen \cup {id} ELSE bridge.seen]
       /\ UNCHANGED <<active, mounted, text, textOwner, owner, drafts, attached,
                      batches, submit, resume, sent, strays, typed, switches>>

(* The next frame puts the first request into the input: not a change by hand. *)
TakeRequest ==
  LET id == Head(bridge.queue)[1]
      added == AdviceMark(id)
      next == IF Head(bridge.queue)[2] = "replace" THEN <<added>>
              ELSE IF id = Plain /\ added \in ToSet(text) THEN text
              ELSE Append(text, added)
  IN /\ AtInput
     /\ bridge.queue # <<>>
     /\ bridge' = [bridge EXCEPT !.queue = Tail(@)]
     /\ IF next # text THEN Bind(next)
        ELSE UNCHANGED <<text, textOwner, owner, drafts>>
     /\ typed' = typed \ (ToSet(text) \ ToSet(next))
     /\ UNCHANGED <<active, mounted, attached, batches, submit, resume,
                    sent, strays, entered, switches>>

---------------------------------------------------------------------------
(* Sending. *)

(* Mutant: everything attached leaves, whatever thread it was chosen in. *)
MutOwned(gen) == attached

Owned(gen) == Among(attached, {file \in ToSet(attached) : file.gen = gen})
Reading(gen) == \E i \in DOMAIN batches : batches[i].owner.gen = gen

Message(to, gen, files, how) ==
  [to |-> to, gen |-> gen, words |-> text, files |-> files, how |-> how]

(* onSubmit up to its first await: one submission at a time. *)
Submit ==
  /\ AtInput
  /\ submit = Idle
  /\ active # NoThread
  /\ Looked
  /\ submit' = [phase |-> "draining", owner |-> OwnerNow]
  /\ UNCHANGED <<active, mounted, text, textOwner, drafts, attached, batches,
                 resume, bridge, sent, strays, typed, entered, switches>>

(* The connect prompt reports a model: the intercepted send is tried again. *)
ResumeSend ==
  /\ resume # NoOwner
  /\ resume' = NoOwner
  /\ IF submit = Idle THEN Looked ELSE UNCHANGED owner
  /\ submit' = IF submit = Idle /\ Owns(resume)
               THEN [phase |-> "draining", owner |-> OwnerNow] ELSE submit
  /\ UNCHANGED <<active, mounted, text, textOwner, drafts, attached, batches,
                 bridge, sent, strays, typed, entered, switches>>

(* drainPendingFileReads finds another owner. *)
OwnerGone ==
  /\ submit.phase \in {"draining", "redraining"}
  /\ ~Owns(submit.owner)
  /\ Looked
  /\ submit' = Idle
  /\ UNCHANGED <<active, mounted, text, textOwner, drafts, attached, batches,
                 resume, bridge, sent, strays, typed, entered, switches>>

(* The reads are in: text of another generation is removed, and unless nothing *)
(* is left to send the model is asked for.                                    *)
Drained ==
  LET gen == submit.owner.gen
      stale == text # <<>> /\ textOwner # gen
  IN /\ submit.phase = "draining"
     /\ Owns(submit.owner)
     /\ ~Reading(gen)
     /\ IF stale THEN Edit(<<>>)
        ELSE Looked /\ UNCHANGED <<text, textOwner, drafts, bridge>>
     /\ submit' = IF (text = <<>> \/ stale) /\ Owned(gen) = <<>> THEN Idle
                  ELSE [submit EXCEPT !.phase = "asking"]
     /\ UNCHANGED <<active, mounted, attached, batches, resume,
                    sent, strays, typed, entered, switches>>

(* checkModelReady answers: ready, not ready (the prompt opens), or it fails. *)
ModelReady ==
  /\ submit.phase = "asking"
  /\ submit' = [submit EXCEPT !.phase = "redraining"]
  /\ UNCHANGED <<active, mounted, text, textOwner, owner, drafts, attached,
                 batches, resume, bridge, sent, strays, typed, entered, switches>>

ModelMissing ==
  /\ submit.phase = "asking"
  /\ submit' = Idle
  /\ Looked
  /\ resume' = IF Owns(submit.owner) THEN submit.owner ELSE resume
  /\ UNCHANGED <<active, mounted, text, textOwner, drafts, attached, batches,
                 bridge, sent, strays, typed, entered, switches>>

ModelUnknown ==
  /\ submit.phase = "asking"
  /\ submit' = Idle
  /\ UNCHANGED <<active, mounted, text, textOwner, owner, drafts, attached,
                 batches, resume, bridge, sent, strays, typed, entered, switches>>

(* The message may leave: reads are in again, the owner is the same and the   *)
(* text is the owner's.                                                      *)
MayDispatch ==
  /\ submit.phase = "redraining"
  /\ Owns(submit.owner)
  /\ ~Reading(submit.owner.gen)

Sendable ==
  /\ text # <<>> => textOwner = submit.owner.gen
  /\ text # <<>> \/ Owned(submit.owner.gen) # <<>>

NothingToSend ==
  /\ MayDispatch
  /\ ~Sendable
  /\ submit' = Idle
  /\ UNCHANGED <<active, mounted, text, textOwner, owner, drafts, attached,
                 batches, resume, bridge, sent, strays, typed, entered, switches>>

(* The agent answers (TurnControl knows when; here it may or may not) and      *)
(* there is no attachment: the text waits in the queue.                      *)
Enqueue ==
  LET to == submit.owner.thread IN
  /\ MayDispatch
  /\ Sendable
  /\ Owned(submit.owner.gen) = <<>>
  /\ sent' = Append(sent, Message(to, submit.owner.gen, <<>>, "queue"))
  /\ drafts' = Write(drafts, to, <<>>)
  /\ text' = <<>>
  /\ submit' = Idle
  /\ UNCHANGED <<active, mounted, textOwner, owner, attached, batches, resume,
                 bridge, strays, typed, entered, switches>>

Send ==
  LET to == submit.owner.thread
      files == Owned(submit.owner.gen)
  IN /\ MayDispatch
     /\ Sendable
     /\ attached' = Among(attached, ToSet(attached) \ ToSet(files))
     /\ sent' = Append(sent, Message(to, submit.owner.gen, files, "send"))
     /\ Edit(<<>>)
     /\ submit' = Idle
     /\ UNCHANGED <<active, mounted, batches, resume, strays, typed, entered,
                    switches>>

(* onInterrupt, offered while the agent answers: the text at once, without     *)
(* the attachments.                                                          *)
Interrupt ==
  /\ AtInput
  /\ active # NoThread
  /\ text # <<>>
  /\ sent' = Append(sent, Message(active, 0, <<>>, "interrupt"))
  /\ drafts' = Write(drafts, active, <<>>)
  /\ text' = <<>>
  /\ UNCHANGED <<active, mounted, textOwner, owner, attached, batches, submit,
                 resume, bridge, strays, typed, entered, switches>>

(* onQueuedEdit: a waiting text replaces the input. *)
EditQueued ==
  \E i \in DOMAIN sent :
    /\ AtInput
    /\ sent[i].how = "queue"
    /\ sent[i].to = active
    /\ sent' = RemoveAt(sent, i)
    /\ typed' = typed \ ToSet(text)
    /\ Edit(sent[i].words)
    /\ UNCHANGED <<active, mounted, attached, batches, submit, resume, strays,
                   entered, switches>>

---------------------------------------------------------------------------
Init ==
  /\ active \in Threads
  /\ mounted = [on |-> TRUE, count |-> 1]
  /\ text = <<>>
  /\ textOwner = 0
  /\ owner = [thread |-> active, gen |-> 1]
  /\ drafts = [thread \in Threads |-> <<>>]
  /\ attached = <<>>
  /\ batches = <<>>
  /\ submit = Idle
  /\ resume = NoOwner
  /\ bridge = NoRequests
  /\ sent = <<>>
  /\ strays = {}
  /\ typed = {}
  /\ entered = 0
  /\ switches = 0

Next ==
  \/ Switch \/ Unmount \/ Mount
  \/ Type \/ Erase \/ AddFiles \/ ReadBatch \/ CommitBatch \/ RemoveFile
  \/ Request \/ TakeRequest
  \/ Submit \/ ResumeSend \/ OwnerGone \/ Drained
  \/ ModelReady \/ ModelMissing \/ ModelUnknown
  \/ NothingToSend \/ Enqueue \/ Send \/ Interrupt \/ EditQueued

Spec == Init /\ [][Next]_vars

---------------------------------------------------------------------------
(* Where a message has what was entered: a suggestion has no place. *)
Places(message) ==
  ({"words"} \X {k \in DOMAIN message.words : message.words[k].kind # "advice"})
    \cup ({"files"} \X DOMAIN message.files)

At(message, place) == message[place[1]][place[2]]

(* What leaves the input for a thread was entered while that thread was the   *)
(* active one (an unmount may save a text as another thread's draft: strays),  *)
(* and no word or file leaves twice.                                         *)
SentWhereWritten ==
  \A i \in DOMAIN sent : \A p \in Places(sent[i]) :
    LET item == At(sent[i], p) IN
    item \notin strays =>
      /\ item.thread = sent[i].to
      /\ \A j \in DOMAIN sent : \A q \in Places(sent[j]) :
           At(sent[j], q) = item => j = i /\ q = p

(* The files chosen before a submitted word was typed, in the same visit of    *)
(* the thread, leave with it: none of them is still being read, still attached *)
(* or part of a later message.                                               *)
FilesLeaveTogether ==
  \A i \in DOMAIN sent : \A word \in ToSet(sent[i].words) :
    sent[i].how = "send" /\ word.kind = "word" =>
      LET behind == ToSet(attached)
                      \cup (UNION {ToSet(batches[j].items) : j \in DOMAIN batches})
                      \cup (UNION {ToSet(sent[j].files) : j \in i + 1 .. Len(sent)})
      IN \A file \in behind :
           file.thread = sent[i].to /\ file.gen = sent[i].gen => file.n > word.n

ComposedMessages == SentWhereWritten /\ FilesLeaveTogether

(* "In-memory composer drafts keyed by session + bound agent ... survives tab  *)
(* remounts" (composer-draft.ts:1): a word the user typed in a thread and did  *)
(* not remove is in that thread's draft, in the input, or was sent.           *)
DraftsSurvive ==
  \A word \in typed :
    \/ word.thread = NoThread
    \/ word \in ToSet(drafts[word.thread])
    \/ mounted.on /\ active = word.thread /\ word \in ToSet(text)
    \/ \E i \in DOMAIN sent : word \in ToSet(sent[i].words)
=============================================================================
