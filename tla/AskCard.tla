--------------------------------- MODULE AskCard ---------------------------------
(***************************************************************************)
(* The card of a question group of the ask_user tool (AskUserCard.tsx) and  *)
(* the protocol that decides whether it is answered (ask-user-protocol.ts): *)
(* one agent's asks, one after the other, each with the same questions.  A  *)
(* card keeps its drafts in a cache that outlives its mount; its request    *)
(* names the agent, not the call.                                           *)
(*                                                                          *)
(* The host is external: a reply resolves the ask its agent waits for.      *)
(* Texts typed into the custom field are Typed; labels, expansion and the   *)
(* legacy answers in quotes are left out.                                   *)
(***************************************************************************)
EXTENDS Naturals, FiniteSets

CONSTANTS None, Typed,
          Questions, Multi,  \* Multi: those that take several values
          Options,           \* the labels of each question
          MaxAsks,           \* bound on the asks
          MaxMounts          \* bound on the mounts of the cards

VARIABLES
  host,     \* the asks: None, "pending", "over" or "answered"
  given,    \* the answers the host took
  tool,     \* what the page knows: None, "preparing", "running", "over" or "answered"
  cache,    \* askState: None, or drafts and whether submitted
  card,     \* None, or the mounted card: its number, drafts, submitted, sending
  posts,    \* requests: call, mount, drafts and answers sent, what came back
  mounts,   \* mounts so far
  strayed   \* history: why a card may differ from its ask

askVars == <<host, given, tool, cache, card, posts, mounts, strayed>>

Asks == 1..MaxAsks
EmptyDraft == [selected |-> {}, customOn |-> FALSE, custom |-> FALSE]
NoDrafts == [q \in Questions |-> EmptyDraft]

Init == /\ host = [c \in Asks |-> None] /\ given = host /\ tool = [c \in Asks |-> None]
        /\ cache = [c \in Asks |-> None] /\ card = [c \in Asks |-> None]
        /\ posts = {} /\ mounts = 0 /\ strayed = {}

-------------------------------------------------------------------------------
ValuesOf(draft) == draft.selected \cup IF draft.customOn /\ draft.custom THEN {Typed} ELSE {}
AnswersOf(drafts) == [q \in Questions |-> ValuesOf(drafts[q])]

\* askUserHasCompleteAnswer: every question has a value, a single choice has one.
CompleteAnswer(answers) == \A q \in Questions : /\ answers[q] # {}
                                                /\ q \in Multi \/ Cardinality(answers[q]) = 1

Waiting(c) == host[c] = "pending"

Answered(c) == card[c].submitted \/ tool[c] = "answered"
Locked(c) == Answered(c) \/ tool[c] = "over"
Editable(c) == card[c] # None /\ tool[c] # "preparing" /\ ~Locked(c) /\ ~card[c].sending

-------------------------------------------------------------------------------
\* The host, and the frames that reach the page.

Made(c) == /\ host[c] = None
           /\ \A d \in 1..(c - 1) : host[d] # None /\ ~Waiting(d)
           /\ host' = [host EXCEPT ![c] = "pending"]
           /\ UNCHANGED <<given, tool, cache, card, posts, mounts, strayed>>

\* The turn is stopped, or the ask fails.
Dropped(c) == /\ Waiting(c)
              /\ host' = [host EXCEPT ![c] = "over"]
              /\ UNCHANGED <<given, tool, cache, card, posts, mounts, strayed>>

\* The call comes with its arguments in pieces, then whole, then its result.
Arrives(c, state) ==
  /\ \/ state = "preparing" /\ tool[c] = None /\ host[c] # None
     \/ state = "running" /\ tool[c] = "preparing"
     \/ state = host[c] /\ tool[c] = "running" /\ ~Waiting(c)
  /\ tool' = [tool EXCEPT ![c] = state]
  /\ UNCHANGED <<host, given, cache, card, posts, mounts, strayed>>

\* A reply is taken, refused, or lost on its way there or back.
Handle(p, came) ==
  /\ p \in posts /\ p.came = None
  /\ posts' = (posts \ {p}) \cup {[p EXCEPT !.came = came]}
  /\ LET waits == {c \in Asks : Waiting(c)} IN
       \/ /\ waits # {} /\ came \in {"ok", "error"}
          /\ host' = [c \in Asks |-> IF c \in waits THEN "answered" ELSE host[c]]
          /\ given' = [c \in Asks |-> IF c \in waits THEN AnswersOf(p.drafts) ELSE given[c]]
          /\ strayed' = strayed \cup IF waits # {p.call} THEN {"misdirected"} ELSE {}
       \/ came = "error" /\ UNCHANGED <<host, given, strayed>>
  /\ UNCHANGED <<tool, cache, card, mounts>>

-------------------------------------------------------------------------------
\* The card.

\* A render with questions writes the cache.
Mount(c) ==
  /\ card[c] = None /\ tool[c] # None /\ mounts < MaxMounts
  /\ mounts' = mounts + 1
  /\ LET kept == IF cache[c] = None THEN [drafts |-> NoDrafts, submitted |-> FALSE] ELSE cache[c]
     IN  /\ card' = [card EXCEPT ![c] = [mount |-> mounts + 1, sending |-> FALSE,
                                         drafts |-> kept.drafts, submitted |-> kept.submitted]]
         /\ cache' = IF tool[c] = "preparing" THEN cache ELSE [cache EXCEPT ![c] = kept]
  /\ strayed' = strayed \cup IF \E p \in posts : p.call = c THEN {"remounted"} ELSE {}
  /\ UNCHANGED <<host, given, tool, posts>>

Unmount(c) == /\ card[c] # None
              /\ card' = [card EXCEPT ![c] = None]
              /\ UNCHANGED <<host, given, tool, cache, posts, mounts, strayed>>

\* dropAskUserSession: the session left the tabs, and its cards are gone.
DropAskUserSession == /\ card' = [c \in Asks |-> None]
                      /\ cache' = [c \in Asks |-> None]
                      /\ cache' # cache
                      /\ UNCHANGED <<host, given, tool, posts, mounts, strayed>>

\* snapshot writes over the cached state, or over that of the render it belongs to.
UpdateDraft(c, q, draft) ==
  LET drafts == [card[c].drafts EXCEPT ![q] = draft] IN
  /\ card' = [card EXCEPT ![c].drafts = drafts]
  /\ cache' = [cache EXCEPT ![c] = [drafts |-> drafts,
                                    submitted |-> IF @ = None THEN card[c].submitted ELSE @.submitted]]
  /\ UNCHANGED <<host, given, tool, posts, mounts, strayed>>

\* Mutant: a picked label leaves the custom field on.
MutPicked(draft, q, o) ==
  IF q \in Multi
  THEN [draft EXCEPT !.selected = IF o \in @ THEN @ \ {o} ELSE @ \cup {o}]
  ELSE [draft EXCEPT !.selected = {o}]

Picked(draft, q, o) ==
  IF q \in Multi
  THEN [draft EXCEPT !.selected = IF o \in @ THEN @ \ {o} ELSE @ \cup {o}]
  ELSE [draft EXCEPT !.selected = {o}, !.customOn = FALSE]

Pick(c, q, o) == /\ Editable(c)
                 /\ UpdateDraft(c, q, Picked(card[c].drafts[q], q, o))

\* The focus of the field turns it on.
PickCustom(c, q) ==
  /\ Editable(c) /\ ~card[c].drafts[q].customOn
  /\ UpdateDraft(c, q, [card[c].drafts[q] EXCEPT
       !.customOn = TRUE, !.selected = IF q \in Multi THEN @ ELSE {}])
EditCustom(c, q, filled) ==
  /\ Editable(c)
  /\ UpdateDraft(c, q, [card[c].drafts[q] EXCEPT
       !.custom = filled, !.customOn = filled \/ @, !.selected = IF q \in Multi THEN @ ELSE {}])

Submit(c) ==
  /\ Editable(c)
  /\ \A q \in Questions : ValuesOf(card[c].drafts[q]) # {}
  /\ card' = [card EXCEPT ![c].sending = TRUE]
  /\ posts' = posts \cup {[call |-> c, mount |-> card[c].mount, drafts |-> card[c].drafts, came |-> None]}
  /\ UNCHANGED <<host, given, tool, cache, mounts, strayed>>

\* The answer is the concern of the mount that sent it and of the cache.
SubmitAnswered(p) ==
  /\ p \in posts /\ p.came # None
  /\ posts' = posts \ {p}
  /\ LET mine == card[p.call] # None /\ card[p.call].mount = p.mount IN
     /\ card' = IF ~mine THEN card
                ELSE [card EXCEPT ![p.call].sending = FALSE, ![p.call].submitted = @ \/ p.came = "ok"]
     /\ cache' = IF p.came # "ok" THEN cache
                 ELSE [cache EXCEPT ![p.call] =
                        [drafts |-> IF @ = None THEN p.drafts ELSE @.drafts, submitted |-> TRUE]]
  /\ UNCHANGED <<host, given, tool, mounts, strayed>>

Next == \/ \E c \in Asks : \/ Made(c) \/ Dropped(c)
                           \/ Arrives(c, "preparing") \/ Arrives(c, "running") \/ Arrives(c, host[c])
                           \/ Mount(c) \/ Unmount(c) \/ Submit(c)
                           \/ \E q \in Questions :
                                \/ \E o \in Options[q] : Pick(c, q, o)
                                \/ PickCustom(c, q)
                                \/ \E filled \in BOOLEAN : EditCustom(c, q, filled)
        \/ DropAskUserSession
        \/ \E p \in posts : \/ SubmitAnswered(p)
                            \/ \E came \in {"ok", "error"} : Handle(p, came)

Spec == Init /\ [][Next]_askVars

-------------------------------------------------------------------------------
\* Every answer sent covers the group, with one value for a single choice, so the ask
\* it resolves is complete; and a card that folds as answered shows what the host took
\* for its ask, unless it was mounted again while the reply was on its way or the reply
\* met a later ask (AskUserCard: the guards on sending, the cache, the drafts).
AnswersMatch ==
  /\ \A p \in posts : CompleteAnswer(AnswersOf(p.drafts))
  /\ strayed = {} => \A c \in Asks : card[c] # None /\ Answered(c) =>
       /\ host[c] = "answered"
       /\ AnswersOf(card[c].drafts) = given[c] \/ tool[c] = "answered"
================================================================================
