------------------------------- MODULE PanelProofs -------------------------------
(***************************************************************************)
(* The six parts that MCPanel checks side by side: the question cards,   *)
(* the choice of the model, the expert a message summons, the tabs, the     *)
(* warm-up and the scrolling. The parts share no variable, so each has an   *)
(* inductive invariant of its own and every step of the run either is one   *)
(* of the part or leaves its variables alone. No bound is used. Of what the *)
(* instance fixes, the questions and their options are never expanded.      *)
(***************************************************************************)
EXTENDS MCPanel, FiniteSetTheorems, WellFoundedInduction, TLAPS

Crew == {forge, mochi}

IsSeq(s) == s \in Seq({s[i] : i \in DOMAIN s})

LEMMA OwnElements ==
  ASSUME NEW T, NEW s \in Seq(T) PROVE s \in Seq({s[i] : i \in DOMAIN s})
<1>1. Len(s) \in Nat /\ DOMAIN s = 1..Len(s) /\ s = [i \in 1..Len(s) |-> s[i]]
  OBVIOUS
<1> QED
  BY <1>1

-------------------------------------------------------------------------------
\* Question cards.

NoneIsNoAnswer == None # "answered"

Asks == A!Asks
AnswersOf(ds) == A!AnswersOf(ds)

\* What the card keeps for a question: a single choice has an option or the text.
WellDrafted(draft, q) ==
  /\ draft \in [selected : {draft.selected}, customOn : BOOLEAN, custom : BOOLEAN]
  /\ q \notin Multi => \/ draft.selected = {}
                       \/ ~draft.customOn /\ \E o \in draft.selected : draft.selected = {o}

IsDrafts(ds) == DOMAIN ds = Questions /\ \A q \in Questions : WellDrafted(ds[q], q)

IsKept(kept) == /\ kept \in [drafts : {kept.drafts}, submitted : BOOLEAN]
                /\ IsDrafts(kept.drafts)

IsCard(mount) == /\ mount \in [mount : {mount.mount}, sending : BOOLEAN,
                               drafts : {mount.drafts}, submitted : BOOLEAN]
                 /\ IsDrafts(mount.drafts)

IsPost(p) == /\ p \in [call : Asks, mount : {p.mount}, drafts : {p.drafts}, came : {p.came}]
             /\ IsDrafts(p.drafts) /\ A!CompleteAnswer(AnswersOf(p.drafts))

AskTyped ==
  /\ DOMAIN host = Asks /\ DOMAIN given = Asks /\ DOMAIN tool = Asks
  /\ DOMAIN cache = Asks /\ DOMAIN card = Asks
  /\ \A c \in Asks : cache[c] # None => IsKept(cache[c])
  /\ \A c \in Asks : card[c] # None => IsCard(card[c])
  /\ \A p \in posts : IsPost(p)

\* The result of a call is the host's.
ToolTrue == \A c \in Asks : tool[c] = "answered" => host[c] = "answered"

\* The host took these drafts for the ask.
Taken(c, ds) == host[c] = "answered" /\ AnswersOf(ds) = given[c]

\* A reply under way is that of the card and of the cache, and of no other card.
PostsApart ==
  /\ \A p \in posts : card[p.call] # None =>
       /\ card[p.call].mount = p.mount /\ card[p.call].sending
       /\ card[p.call].drafts = p.drafts
  /\ \A p \in posts : cache[p.call] # None => cache[p.call].drafts = p.drafts
  /\ \A p, r \in posts : p.call = r.call => p = r

CacheLikeCard ==
  \A c \in Asks : card[c] # None /\ cache[c] # None =>
    cache[c].drafts = card[c].drafts /\ (cache[c].submitted => card[c].submitted)

\* Whoever says that an ask is answered has the drafts the host took.
SaysTrue ==
  /\ \A p \in posts : p.came # None /\ p.came = "ok" => Taken(p.call, p.drafts)
  /\ \A c \in Asks : card[c] # None /\ card[c].submitted => Taken(c, card[c].drafts)
  /\ \A c \in Asks : cache[c] # None /\ cache[c].submitted => Taken(c, cache[c].drafts)

AskInv == /\ AskTyped /\ ToolTrue
          /\ strayed = {} => PostsApart /\ CacheLikeCard /\ SaysTrue

-------------------------------------------------------------------------------
LEMMA DraftsComplete ==
  ASSUME NEW ds, IsDrafts(ds), \A q \in Questions : A!ValuesOf(ds[q]) # {}
  PROVE  A!CompleteAnswer(AnswersOf(ds))
<1> SUFFICES ASSUME NEW q \in Questions
             PROVE  /\ AnswersOf(ds)[q] # {}
                    /\ q \in Multi \/ Cardinality(AnswersOf(ds)[q]) = 1
  BY DEF A!CompleteAnswer, A!Cardinality, Cardinality
<1>1. AnswersOf(ds)[q] = A!ValuesOf(ds[q])
  BY DEF AnswersOf, A!AnswersOf
<1>2. AnswersOf(ds)[q] # {}
  BY <1>1
<1>3. q \notin Multi => \E v : AnswersOf(ds)[q] = {v}
  <2> SUFFICES ASSUME q \notin Multi PROVE \E v : A!ValuesOf(ds[q]) = {v}
    BY <1>1
  <2>1. CASE ds[q].selected = {}
    <3>1. A!ValuesOf(ds[q]) = {Typed}
      BY <2>1 DEF A!ValuesOf
    <3> QED
      BY <3>1
  <2>2. CASE ~ds[q].customOn /\ \E o \in ds[q].selected : ds[q].selected = {o}
    <3>1. A!ValuesOf(ds[q]) = ds[q].selected
      BY <2>2 DEF A!ValuesOf
    <3> QED
      BY <2>2, <3>1
  <2> QED
    BY <2>1, <2>2 DEF IsDrafts, WellDrafted
<1>4. q \notin Multi => Cardinality(AnswersOf(ds)[q]) = 1
  BY <1>3, FS_Singleton
<1> QED
  BY <1>2, <1>4

LEMMA AskInitKeeps == A!Init => AskInv
<1> SUFFICES ASSUME A!Init PROVE AskInv
  OBVIOUS
<1> USE DEF A!Init
<1>1. AskTyped
  BY DEF AskTyped, Asks
<1>2. ToolTrue
  BY DEF ToolTrue, Asks
<1>3. PostsApart /\ CacheLikeCard /\ SaysTrue
  BY DEF PostsApart, CacheLikeCard, SaysTrue, Asks
<1> QED
  BY <1>1, <1>2, <1>3 DEF AskInv

-------------------------------------------------------------------------------
\* What a step that takes no answer back leaves true.
LEMMA TakenKept ==
  ASSUME AskTyped, \A c \in Asks : host[c] = "answered" => host'[c] = "answered" /\ given'[c] = given[c],
         UNCHANGED <<cache, card>>,
         \A p \in posts' : p \in posts
  PROVE  SaysTrue => SaysTrue'
<1> SUFFICES ASSUME SaysTrue PROVE SaysTrue'
  OBVIOUS
<1>1. ASSUME NEW c \in Asks, NEW ds, Taken(c, ds) PROVE Taken(c, ds)'
  BY <1>1 DEF Taken, AnswersOf, A!AnswersOf, A!ValuesOf
<1>2. \A p \in posts : p.call \in Asks
  BY DEF AskTyped, IsPost
<1> QED
  BY <1>1, <1>2 DEF SaysTrue

-------------------------------------------------------------------------------
\* The host.

LEMMA MadeDroppedKeeps ==
  ASSUME NoneIsNoAnswer, AskInv, NEW c \in Asks, A!Made(c) \/ A!Dropped(c)
  PROVE  AskInv'
<1>1. /\ UNCHANGED <<given, tool, cache, card, posts, strayed>>
      /\ host[c] # "answered"
      /\ DOMAIN host' = Asks
      /\ \A d \in Asks : d # c => host'[d] = host[d]
  BY DEF A!Made, A!Dropped, A!Waiting, AskInv, AskTyped, NoneIsNoAnswer
<1>2. \A d \in Asks : host[d] = "answered" => host'[d] = "answered"
  BY <1>1
<1>3. AskTyped'
  BY <1>1 DEF AskInv, AskTyped
<1>4. ToolTrue'
  BY <1>1, <1>2 DEF AskInv, ToolTrue
<1>5. strayed = {} => PostsApart' /\ CacheLikeCard'
  BY <1>1 DEF AskInv, PostsApart, CacheLikeCard
<1>6. strayed = {} => SaysTrue'
  BY <1>1, <1>2, TakenKept DEF AskInv
<1> QED
  BY <1>1, <1>3, <1>4, <1>5, <1>6 DEF AskInv

LEMMA ArrivesKeeps ==
  ASSUME AskInv, NEW c \in Asks, NEW state, state \in {"preparing", "running"} \/ state = host[c],
         A!Arrives(c, state)
  PROVE  AskInv'
<1>1. /\ UNCHANGED <<host, given, cache, card, posts, strayed>>
      /\ tool' = [tool EXCEPT ![c] = state]
  BY DEF A!Arrives
<1>2. AskTyped'
  BY <1>1 DEF AskInv, AskTyped
<1>3. ToolTrue'
  BY <1>1 DEF AskInv, ToolTrue, AskTyped
<1>4. strayed = {} => PostsApart' /\ CacheLikeCard' /\ SaysTrue'
  BY <1>1, TakenKept DEF AskInv, PostsApart, CacheLikeCard
<1> QED
  BY <1>1, <1>2, <1>3, <1>4 DEF AskInv

LEMMA HandleKeeps ==
  ASSUME AskInv, NEW p \in posts, NEW came \in {"ok", "error"}, A!Handle(p, came)
  PROVE  AskInv'
<1> USE DEF AskInv
<1>1. p.came = None /\ UNCHANGED <<tool, cache, card>>
  BY DEF A!Handle
<1>2. PICK q : q = [p EXCEPT !.came = came]
  OBVIOUS
<1>3. /\ q.call = p.call /\ q.mount = p.mount /\ q.drafts = p.drafts /\ q.came = came
      /\ IsPost(q) /\ p.call \in Asks
  BY <1>2 DEF AskTyped, IsPost
<1>4. posts' = (posts \ {p}) \cup {q}
  BY <1>2 DEF A!Handle
<1>5. PICK waits : waits = {c \in Asks : host[c] = "pending"}
  OBVIOUS
<1>6. \/ /\ host' = [c \in Asks |-> IF c \in waits THEN "answered" ELSE host[c]]
         /\ given' = [c \in Asks |-> IF c \in waits THEN AnswersOf(p.drafts) ELSE given[c]]
         /\ strayed' = strayed \cup IF waits # {p.call} THEN {"misdirected"} ELSE {}
      \/ came = "error" /\ UNCHANGED <<host, given, strayed>>
  BY <1>5 DEF A!Handle, A!Waiting, Asks, AnswersOf
<1>7. /\ DOMAIN host' = Asks /\ DOMAIN given' = Asks
      /\ \A c \in Asks : host[c] = "answered" => host'[c] = "answered" /\ given'[c] = given[c]
      /\ strayed' = {} => strayed = {}
  BY <1>5, <1>6 DEF AskTyped
<1>8. AskTyped'
  BY <1>1, <1>3, <1>4, <1>7 DEF AskTyped
<1>9. ToolTrue'
  BY <1>1, <1>7 DEF ToolTrue
<1>10. ASSUME strayed' = {} PROVE PostsApart' /\ CacheLikeCard' /\ SaysTrue'
  <2>1. strayed = {} /\ PostsApart /\ CacheLikeCard /\ SaysTrue
    BY <1>7, <1>10
  <2>2. PostsApart'
    BY <1>1, <1>3, <1>4, <2>1 DEF PostsApart
  <2>3. CacheLikeCard'
    BY <1>1, <2>1 DEF CacheLikeCard
  <2>4. came = "ok" => Taken(q.call, q.drafts)'
    <3> SUFFICES ASSUME came = "ok" PROVE Taken(q.call, q.drafts)'
      OBVIOUS
    <3>1. p.call \in waits
      BY <1>6, <1>10
    <3>2. host'[p.call] = "answered" /\ given'[p.call] = AnswersOf(p.drafts)
      BY <1>3, <1>6, <3>1
    <3> QED
      BY <1>3, <3>2 DEF Taken, AnswersOf, A!AnswersOf, A!ValuesOf
  <2>5. ASSUME NEW c \in Asks, NEW ds, Taken(c, ds) PROVE Taken(c, ds)'
    BY <1>7, <2>5 DEF Taken, AnswersOf, A!AnswersOf, A!ValuesOf
  <2>6. \A r \in posts : r.call \in Asks
    BY DEF AskTyped, IsPost
  <2>7. SaysTrue'
    BY <1>1, <1>3, <1>4, <2>1, <2>4, <2>5, <2>6 DEF SaysTrue
  <2> QED
    BY <2>2, <2>3, <2>7
<1> QED
  BY <1>8, <1>9, <1>10

-------------------------------------------------------------------------------
\* The card.

LEMMA MountKeeps == ASSUME AskInv, NEW c \in Asks, A!Mount(c) PROVE AskInv'
<1> USE DEF AskInv
<1>0. PICK kept : kept = IF cache[c] = None THEN [drafts |-> A!NoDrafts, submitted |-> FALSE]
                         ELSE cache[c]
  OBVIOUS
<1>1. PICK mine : mine = [mount |-> mounts + 1, sending |-> FALSE,
                          drafts |-> kept.drafts, submitted |-> kept.submitted]
  OBVIOUS
<1>2. /\ card' = [card EXCEPT ![c] = mine]
      /\ cache' = cache \/ cache' = [cache EXCEPT ![c] = kept]
      /\ UNCHANGED <<host, given, tool, posts>>
      /\ strayed' = strayed \cup IF \E p \in posts : p.call = c THEN {"remounted"} ELSE {}
  BY <1>0, <1>1 DEF A!Mount
<1>3. IsKept(kept)
  <2>1. CASE cache[c] = None
    <3>1. kept.drafts = A!NoDrafts /\ kept.submitted = FALSE
          /\ kept \in [drafts : {kept.drafts}, submitted : BOOLEAN]
      BY <1>0, <2>1
    <3>2. IsDrafts(A!NoDrafts)
      BY DEF IsDrafts, A!NoDrafts, A!EmptyDraft, WellDrafted
    <3> QED
      BY <3>1, <3>2 DEF IsKept
  <2>2. CASE cache[c] # None
    BY <1>0, <2>2 DEF AskTyped
  <2> QED
    BY <2>1, <2>2
<1>4. /\ IsCard(mine) /\ mine.drafts = kept.drafts /\ mine.submitted = kept.submitted
      /\ \A d \in Asks : d # c => card'[d] = card[d] /\ cache'[d] = cache[d]
      /\ card'[c] = mine /\ (cache'[c] = cache[c] \/ cache'[c] = kept)
      /\ DOMAIN card' = Asks /\ DOMAIN cache' = Asks
  BY <1>1, <1>2, <1>3 DEF IsKept, IsCard, AskTyped
<1>5. AskTyped'
  BY <1>2, <1>3, <1>4 DEF AskTyped
<1>6. ToolTrue'
  BY <1>2 DEF ToolTrue
<1>7. ASSUME strayed' = {} PROVE PostsApart' /\ CacheLikeCard' /\ SaysTrue'
  <2>1. strayed = {} /\ PostsApart /\ CacheLikeCard /\ SaysTrue /\ (\A p \in posts : p.call # c)
    BY <1>2, <1>7
  <2>2. \A p \in posts : p.call \in Asks
    BY DEF AskTyped, IsPost
  <2>3. PostsApart'
    BY <1>2, <1>4, <2>1, <2>2 DEF PostsApart
  <2>4. CacheLikeCard'
    BY <1>0, <1>4, <2>1 DEF CacheLikeCard
  <2>5. kept.submitted => Taken(c, kept.drafts)
    BY <1>0, <2>1 DEF SaysTrue
  <2>6. ASSUME NEW d \in Asks, NEW ds, Taken(d, ds) PROVE Taken(d, ds)'
    BY <1>2, <2>6 DEF Taken, AnswersOf, A!AnswersOf, A!ValuesOf
  <2>7. \A d \in Asks : card'[d] # None /\ card'[d].submitted => Taken(d, card'[d].drafts)
    BY <1>4, <2>1, <2>5 DEF SaysTrue
  <2>8. \A d \in Asks : cache'[d] # None /\ cache'[d].submitted => Taken(d, cache'[d].drafts)
    BY <1>4, <2>1, <2>5 DEF SaysTrue
  <2>9. SaysTrue'
    BY <1>2, <2>1, <2>2, <2>6, <2>7, <2>8 DEF SaysTrue
  <2> QED
    BY <2>3, <2>4, <2>9
<1> QED
  BY <1>5, <1>6, <1>7

\* The cards or the caches that are gone say nothing.
LEMMA GoneKeeps ==
  ASSUME AskInv, UNCHANGED <<host, given, tool, posts, strayed>>,
         DOMAIN card' = Asks, DOMAIN cache' = Asks,
         \A c \in Asks : card'[c] \in {None, card[c]} /\ cache'[c] \in {None, cache[c]}
  PROVE  AskInv'
<1> USE DEF AskInv
<1>1. AskTyped'
  BY DEF AskTyped
<1>2. ToolTrue'
  BY DEF ToolTrue
<1>3. \A p \in posts : p.call \in Asks
  BY DEF AskTyped, IsPost
<1>4. ASSUME strayed' = {} PROVE PostsApart' /\ CacheLikeCard' /\ SaysTrue'
  <2>1. PostsApart /\ CacheLikeCard /\ SaysTrue
    BY <1>4
  <2>2. PostsApart' /\ CacheLikeCard'
    BY <1>3, <2>1 DEF PostsApart, CacheLikeCard
  <2>3. ASSUME NEW c \in Asks, NEW ds, Taken(c, ds) PROVE Taken(c, ds)'
    BY <2>3 DEF Taken, AnswersOf, A!AnswersOf, A!ValuesOf
  <2>4. SaysTrue'
    BY <1>3, <2>1, <2>3 DEF SaysTrue
  <2> QED
    BY <2>2, <2>4
<1> QED
  BY <1>1, <1>2, <1>4

LEMMA UnmountKeeps == ASSUME AskInv, NEW c \in Asks, A!Unmount(c) PROVE AskInv'
<1>1. UNCHANGED <<host, given, tool, cache, posts, strayed>> /\ card' = [card EXCEPT ![c] = None]
  BY DEF A!Unmount
<1>2. DOMAIN card = Asks /\ DOMAIN cache = Asks
  BY DEF AskInv, AskTyped
<1> QED
  BY <1>1, <1>2, GoneKeeps

LEMMA DropKeeps == ASSUME AskInv, A!DropAskUserSession PROVE AskInv'
<1>1. /\ UNCHANGED <<host, given, tool, posts, strayed>>
      /\ card' = [c \in Asks |-> None] /\ cache' = [c \in Asks |-> None]
  BY DEF A!DropAskUserSession, Asks
<1> QED
  BY <1>1, GoneKeeps

\* A draft changes only while no reply of its ask is under way or taken.
LEMMA UpdateKeeps ==
  ASSUME AskInv, NEW c \in Asks, NEW q \in Questions, NEW draft, A!Editable(c),
         WellDrafted(draft, q), A!UpdateDraft(c, q, draft)
  PROVE  AskInv'
<1> USE DEF AskInv
<1>1. /\ card[c] # None /\ ~card[c].submitted /\ ~card[c].sending
      /\ UNCHANGED <<host, given, tool, posts, strayed>>
  BY DEF A!Editable, A!Locked, A!Answered, A!UpdateDraft
<1>2. PICK ds : ds = [card[c].drafts EXCEPT ![q] = draft]
  OBVIOUS
<1>3. IsCard(card[c])
  BY <1>1 DEF AskTyped
<1>4. IsDrafts(ds)
  BY <1>2, <1>3 DEF IsCard, IsDrafts
<1>5. PICK kept : kept = [drafts |-> ds,
                          submitted |-> IF cache[c] = None THEN card[c].submitted ELSE cache[c].submitted]
  OBVIOUS
<1>6. card' = [card EXCEPT ![c].drafts = ds] /\ cache' = [cache EXCEPT ![c] = kept]
  BY <1>2, <1>5 DEF A!UpdateDraft
<1>7. /\ card'[c].drafts = ds /\ card'[c].submitted = card[c].submitted
      /\ card'[c].sending = card[c].sending /\ IsCard(card'[c])
      /\ \A d \in Asks : d # c => card'[d] = card[d] /\ cache'[d] = cache[d]
      /\ cache'[c] = kept /\ DOMAIN card' = Asks /\ DOMAIN cache' = Asks
  BY <1>3, <1>4, <1>6 DEF AskTyped, IsCard
<1>8. kept.drafts = ds /\ IsKept(kept)
  BY <1>3, <1>4, <1>5 DEF AskTyped, IsKept, IsCard
<1>9. AskTyped'
  BY <1>1, <1>7, <1>8 DEF AskTyped
<1>10. ToolTrue'
  BY <1>1 DEF ToolTrue
<1>11. ASSUME strayed' = {} PROVE PostsApart' /\ CacheLikeCard' /\ SaysTrue'
  <2>1. PostsApart /\ CacheLikeCard /\ SaysTrue
    BY <1>1, <1>11
  <2>2. \A p \in posts : p.call \in Asks /\ p.call # c
    BY <1>1, <2>1 DEF AskTyped, IsPost, PostsApart
  <2>3. ~kept.submitted
    BY <1>1, <1>5, <2>1 DEF CacheLikeCard
  <2>4. PostsApart'
    BY <1>1, <1>7, <2>1, <2>2 DEF PostsApart
  <2>5. CacheLikeCard'
    BY <1>7, <1>8, <2>1, <2>3 DEF CacheLikeCard
  <2>6. ASSUME NEW d \in Asks, NEW es, Taken(d, es) PROVE Taken(d, es)'
    BY <1>1, <2>6 DEF Taken, AnswersOf, A!AnswersOf, A!ValuesOf
  <2>7. SaysTrue'
    BY <1>1, <1>7, <2>1, <2>2, <2>3, <2>6 DEF SaysTrue
  <2> QED
    BY <2>4, <2>5, <2>7
<1> QED
  BY <1>9, <1>10, <1>11

\* Each change of a draft leaves a single choice single.
LEMMA EditKeeps ==
  ASSUME AskInv, NEW c \in Asks, NEW q \in Questions,
         \/ \E o \in Options[q] : A!Pick(c, q, o)
         \/ A!PickCustom(c, q)
         \/ \E filled \in BOOLEAN : A!EditCustom(c, q, filled)
  PROVE  AskInv'
<1>1. A!Editable(c)
  BY DEF A!Pick, A!PickCustom, A!EditCustom
<1>2. WellDrafted(card[c].drafts[q], q)
  BY <1>1 DEF A!Editable, AskInv, AskTyped, IsCard, IsDrafts
<1>3. PICK old : old = card[c].drafts[q]
  OBVIOUS
<1>4. ASSUME NEW o \in Options[q] PROVE WellDrafted(A!Picked(old, q, o), q)
  BY <1>2, <1>3 DEF WellDrafted, A!Picked
<1>5. WellDrafted([old EXCEPT !.customOn = TRUE, !.selected = IF q \in Multi THEN @ ELSE {}], q)
  BY <1>2, <1>3 DEF WellDrafted
<1>6. ASSUME NEW filled \in BOOLEAN
      PROVE  WellDrafted([old EXCEPT !.custom = filled, !.customOn = filled \/ @,
                                     !.selected = IF q \in Multi THEN @ ELSE {}], q)
  BY <1>2, <1>3 DEF WellDrafted
<1>7. ASSUME NEW o \in Options[q], A!Pick(c, q, o) PROVE AskInv'
  <2>1. A!UpdateDraft(c, q, A!Picked(old, q, o))
    BY <1>3, <1>7 DEF A!Pick
  <2> QED
    BY <1>1, <1>4, <2>1, UpdateKeeps
<1>8. ASSUME A!PickCustom(c, q) PROVE AskInv'
  <2>1. A!UpdateDraft(c, q, [old EXCEPT !.customOn = TRUE, !.selected = IF q \in Multi THEN @ ELSE {}])
    BY <1>3, <1>8 DEF A!PickCustom
  <2> QED
    BY <1>1, <1>5, <2>1, UpdateKeeps
<1>9. ASSUME NEW filled \in BOOLEAN, A!EditCustom(c, q, filled) PROVE AskInv'
  <2>1. A!UpdateDraft(c, q, [old EXCEPT !.custom = filled, !.customOn = filled \/ @,
                                        !.selected = IF q \in Multi THEN @ ELSE {}])
    BY <1>3, <1>9 DEF A!EditCustom
  <2> QED
    BY <1>1, <1>6, <2>1, UpdateKeeps
<1> QED
  BY <1>7, <1>8, <1>9

LEMMA SubmitKeeps == ASSUME AskInv, NEW c \in Asks, A!Submit(c) PROVE AskInv'
<1> USE DEF AskInv
<1>1. /\ card[c] # None /\ ~card[c].sending
      /\ UNCHANGED <<host, given, tool, cache, strayed>>
      /\ \A q \in Questions : A!ValuesOf(card[c].drafts[q]) # {}
      /\ card' = [card EXCEPT ![c].sending = TRUE]
  BY DEF A!Submit, A!Editable
<1>2. PICK p : p = [call |-> c, mount |-> card[c].mount, drafts |-> card[c].drafts, came |-> None]
  OBVIOUS
<1>3. posts' = posts \cup {p}
  BY <1>2 DEF A!Submit
<1>4. IsCard(card[c])
  BY <1>1 DEF AskTyped
<1>5. /\ p.call = c /\ p.mount = card[c].mount /\ p.drafts = card[c].drafts /\ p.came = None
      /\ IsPost(p)
  <2>1. A!CompleteAnswer(AnswersOf(card[c].drafts))
    BY <1>1, <1>4, DraftsComplete DEF IsCard
  <2> QED
    BY <1>2, <1>4, <2>1 DEF IsPost, IsCard
<1>6. /\ card'[c].mount = card[c].mount /\ card'[c].drafts = card[c].drafts
      /\ card'[c].submitted = card[c].submitted /\ card'[c].sending = TRUE /\ IsCard(card'[c])
      /\ \A d \in Asks : d # c => card'[d] = card[d]
      /\ DOMAIN card' = Asks
  BY <1>1, <1>4 DEF AskTyped, IsCard
<1>7. AskTyped'
  BY <1>1, <1>3, <1>5, <1>6 DEF AskTyped
<1>8. ToolTrue'
  BY <1>1 DEF ToolTrue
<1>9. ASSUME strayed' = {} PROVE PostsApart' /\ CacheLikeCard' /\ SaysTrue'
  <2>1. PostsApart /\ CacheLikeCard /\ SaysTrue
    BY <1>1, <1>9
  <2>2. \A r \in posts : r.call \in Asks /\ r.call # c
    BY <1>1, <2>1 DEF AskTyped, IsPost, PostsApart
  <2>3. PostsApart'
    BY <1>1, <1>3, <1>5, <1>6, <2>1, <2>2 DEF PostsApart, CacheLikeCard
  <2>4. CacheLikeCard'
    BY <1>1, <1>6, <2>1 DEF CacheLikeCard
  <2>5. ASSUME NEW d \in Asks, NEW ds, Taken(d, ds) PROVE Taken(d, ds)'
    BY <1>1, <2>5 DEF Taken, AnswersOf, A!AnswersOf, A!ValuesOf
  <2>6. SaysTrue'
    BY <1>1, <1>3, <1>5, <1>6, <2>1, <2>2, <2>5 DEF SaysTrue
  <2> QED
    BY <2>3, <2>4, <2>6
<1> QED
  BY <1>7, <1>8, <1>9

LEMMA SubmitAnsweredKeeps == ASSUME AskInv, NEW p \in posts, A!SubmitAnswered(p) PROVE AskInv'
<1> USE DEF AskInv
<1>1. /\ p.came # None /\ posts' = posts \ {p}
      /\ UNCHANGED <<host, given, tool, strayed>>
      /\ IsPost(p) /\ p.call \in Asks
  BY DEF A!SubmitAnswered, AskTyped, IsPost
<1>2. PICK c \in Asks : c = p.call
  BY <1>1
<1>3. PICK kept : kept = [drafts |-> IF cache[c] = None THEN p.drafts ELSE cache[c].drafts,
                          submitted |-> TRUE]
  OBVIOUS
<1>4. \/ p.came # "ok" /\ cache' = cache
      \/ p.came = "ok" /\ cache' = [cache EXCEPT ![c] = kept]
  BY <1>2, <1>3 DEF A!SubmitAnswered
<1>5. IsKept(kept) /\ kept.submitted
  BY <1>1, <1>3 DEF IsKept, IsPost, AskTyped
<1>6. /\ \A d \in Asks : d # c => card'[d] = card[d] /\ cache'[d] = cache[d]
      /\ DOMAIN card' = Asks /\ DOMAIN cache' = Asks
      /\ cache'[c] = IF p.came = "ok" THEN kept ELSE cache[c]
  BY <1>2, <1>4 DEF A!SubmitAnswered, AskTyped
<1>7. PICK mine \in BOOLEAN : mine <=> card[c] # None /\ card[c].mount = p.mount
  OBVIOUS
<1>8. /\ ~mine => card'[c] = card[c]
      /\ mine => /\ IsCard(card'[c]) /\ ~card'[c].sending
                 /\ card'[c].mount = card[c].mount /\ card'[c].drafts = card[c].drafts
                 /\ card'[c].submitted <=> card[c].submitted \/ p.came = "ok"
  <2>1. CASE mine
    <3>1. IsCard(card[c]) /\ DOMAIN card = Asks
      BY <1>7, <2>1 DEF AskTyped
    <3>2. card' = [card EXCEPT ![c].sending = FALSE, ![c].submitted = @ \/ p.came = "ok"]
      BY <1>2, <1>7, <2>1 DEF A!SubmitAnswered
    <3>3. card'[c] = [card[c] EXCEPT !.sending = FALSE, !.submitted = @ \/ p.came = "ok"]
      BY <3>1, <3>2
    <3> QED
      BY <2>1, <3>1, <3>3 DEF IsCard
  <2>2. CASE ~mine
    BY <1>2, <1>7, <2>2 DEF A!SubmitAnswered
  <2> QED
    BY <2>1, <2>2
<1>9. AskTyped'
  BY <1>1, <1>5, <1>6, <1>7, <1>8 DEF AskTyped
<1>10. ToolTrue'
  BY <1>1 DEF ToolTrue
<1>11. ASSUME strayed' = {} PROVE PostsApart' /\ CacheLikeCard' /\ SaysTrue'
  <2>1. PostsApart /\ CacheLikeCard /\ SaysTrue
    BY <1>1, <1>11
  <2>2. /\ \A r \in posts' : r \in posts /\ r.call \in Asks /\ r.call # c
        /\ card[c] # None => mine /\ card[c].drafts = p.drafts
        /\ kept.drafts = p.drafts
    BY <1>1, <1>2, <1>3, <1>7, <2>1 DEF AskTyped, IsPost, PostsApart
  <2>3. PostsApart'
    BY <1>6, <2>1, <2>2 DEF PostsApart
  <2>4. CacheLikeCard'
    BY <1>5, <1>6, <1>7, <1>8, <2>1, <2>2 DEF CacheLikeCard
  <2>5. ASSUME NEW d \in Asks, NEW ds, Taken(d, ds) PROVE Taken(d, ds)'
    BY <1>1, <2>5 DEF Taken, AnswersOf, A!AnswersOf, A!ValuesOf
  <2>6. p.came = "ok" => Taken(c, p.drafts)
    BY <1>1, <1>2, <2>1 DEF SaysTrue
  <2>7. \A d \in Asks : card'[d] # None /\ card'[d].submitted => Taken(d, card'[d].drafts)
    BY <1>6, <1>7, <1>8, <2>1, <2>2, <2>6 DEF SaysTrue
  <2>8. \A d \in Asks : cache'[d] # None /\ cache'[d].submitted => Taken(d, cache'[d].drafts)
    BY <1>6, <2>1, <2>2, <2>6 DEF SaysTrue
  <2>9. SaysTrue'
    BY <2>1, <2>2, <2>5, <2>7, <2>8 DEF SaysTrue
  <2> QED
    BY <2>3, <2>4, <2>9
<1> QED
  BY <1>9, <1>10, <1>11

-------------------------------------------------------------------------------
LEMMA AskNextKeeps == ASSUME NoneIsNoAnswer, AskInv, A!Next PROVE AskInv'
<1>1. ASSUME NEW c \in Asks,
             \/ A!Made(c) \/ A!Dropped(c)
             \/ A!Arrives(c, "preparing") \/ A!Arrives(c, "running") \/ A!Arrives(c, host[c])
             \/ A!Mount(c) \/ A!Unmount(c) \/ A!Submit(c)
             \/ \E q \in Questions : \/ \E o \in Options[q] : A!Pick(c, q, o)
                                     \/ A!PickCustom(c, q)
                                     \/ \E filled \in BOOLEAN : A!EditCustom(c, q, filled)
      PROVE  AskInv'
  BY <1>1, MadeDroppedKeeps, ArrivesKeeps, MountKeeps, UnmountKeeps, SubmitKeeps, EditKeeps
<1>2. ASSUME A!DropAskUserSession PROVE AskInv'
  BY <1>2, DropKeeps
<1>3. ASSUME NEW p \in posts,
             A!SubmitAnswered(p) \/ \E came \in {"ok", "error"} : A!Handle(p, came)
      PROVE  AskInv'
  BY <1>3, SubmitAnsweredKeeps, HandleKeeps
<1> QED
  BY <1>1, <1>2, <1>3 DEF A!Next, Asks

LEMMA AskStepKeeps ==
  ASSUME NoneIsNoAnswer, AskInv, [MCNext]_<<focus, panelVars, sideVars>>
  PROVE  AskInv'
<1>1. A!Next \/ UNCHANGED askVars
  BY DEF MCNext, panelVars
<1>2. CASE UNCHANGED askVars
  <2>1. AskTyped' /\ ToolTrue'
    BY <1>2 DEF askVars, AskInv, AskTyped, ToolTrue
  <2>2. strayed = {} => PostsApart' /\ CacheLikeCard'
    BY <1>2 DEF askVars, AskInv, PostsApart, CacheLikeCard
  <2>3. strayed = {} => SaysTrue'
    BY <1>2, TakenKept DEF askVars, AskInv
  <2> QED
    BY <1>2, <2>1, <2>2, <2>3 DEF askVars, AskInv
<1> QED
  BY <1>1, <1>2, AskNextKeeps

\* Every answer sent to an ask covers its questions, with one value for a single
\* choice, and a card that folds as answered shows what the host took for its ask,
\* unless it was mounted again while the reply was on its way or the reply met a
\* later ask (AskUserCard.tsx, ask-user-protocol.ts).
THEOREM AnswersAreTaken == MCSpec => []AnswersMatch
<1> USE PanelAssumption DEF PanelAssumption, NoneIsNoAnswer
<1>1. MCInit => AskInv
  BY AskInitKeeps DEF MCInit
<1>2. AskInv /\ [MCNext]_<<focus, panelVars, sideVars>> => AskInv'
  BY AskStepKeeps
<1>3. AskInv => AnswersMatch
  <2> SUFFICES ASSUME AskInv PROVE AnswersMatch
    OBVIOUS
  <2>1. \A p \in posts : A!CompleteAnswer(A!AnswersOf(p.drafts))
    BY DEF AskInv, AskTyped, IsPost, AnswersOf
  <2>2. ASSUME strayed = {}, NEW c \in A!Asks, card[c] # None, A!Answered(c)
        PROVE  /\ host[c] = "answered"
               /\ A!AnswersOf(card[c].drafts) = given[c] \/ tool[c] = "answered"
    BY <2>2 DEF AskInv, SaysTrue, Taken, ToolTrue, A!Answered, Asks, AnswersOf
  <2> QED
    BY <2>1, <2>2 DEF AnswersMatch, A!AnswersMatch
<1> QED
  BY <1>1, <1>2, <1>3, PTL DEF MCSpec

-------------------------------------------------------------------------------
\* The model of the thread.

\* ModelChoice for any threads, providers, catalogs and bounds: the picker does not wait for
\* nothing, it tells the model of the thread on screen when nothing is under way, and a model
\* picked by hand is kept.  The invariant says what is true while operations are under way: on
\* a thread that is not contested each of them knows the model the server has (Coherent), and
\* what is shown is that model unless something under way will paint the screen (Told).

Stages == {"get", "catalog", "write", "written"}

\* A reset is not answered to anybody: the server's taking it is its end.
IsJob(job) ==
  /\ job \in [id : {job.id}, reset : BOOLEAN, thread : ModelThreads, catalog : {job.catalog},
              seed : BOOLEAN, stage : Stages, got : {job.got}, target : {job.target}]
  /\ job.reset => job.stage \in {"catalog", "write"}

Picks == [thread : ModelThreads, catalog : CatalogIds \cup {None}, model : M!Models,
          stage : {"write", "written"}]

IsPick(write) == write \in Picks

\* All that is asked of the constants: a write in flight is told from no write.
NoneIsNoPick == None \notin Picks

ModelTyped ==
  /\ thread \in ModelThreads
  /\ DOMAIN models = ModelThreads /\ DOMAIN chosen = ModelThreads
  /\ \A job \in jobs : IsJob(job)
  /\ pick # None => IsPick(pick)

\* An operation on a thread that is not contested knows the model of the thread.
Knows(job) ==
  ~job.reset /\ job.thread \notin contested =>
    /\ job.stage \in {"catalog", "write"} => job.got = models[job.thread]
    /\ job.stage = "written" => job.target = models[job.thread]

PickKnows ==
  pick # None /\ pick.stage = "written" /\ pick.thread \notin contested =>
    pick.model = models[pick.thread]

Coherent == (\A job \in jobs : Knows(job)) /\ PickKnows

\* A read that will paint the screen.
Paints == \E job \in jobs : ~job.reset /\ M!StillCurrent(job)

Told ==
  M!CanSwitch(provider) =>
    \/ model = models[thread] \/ misread \/ thread \in contested
    \/ Paints
    \/ pick # None /\ pick.thread = thread /\ pick.stage = "written"

\* Only the first model of a thread replaces one that its catalog has.
ForFirst(job) ==
  ~job.reset /\ job.stage = "write" /\ job.got \in Catalog[job.catalog] => job.seed

Listed ==
  /\ \A to \in ModelThreads : chosen[to] # None =>
       chosen[to] \in Catalog[M!CatalogOf(provider)]
  /\ pick # None => pick.model \in Catalog[pick.catalog]

ModelInv ==
  /\ ModelTyped
  /\ M!LoadingEnds
  /\ Coherent
  /\ Told
  /\ \A job \in jobs : ForFirst(job)
  /\ Listed
  /\ M!PickKept

-------------------------------------------------------------------------------
\* A pick in flight is not one of the jobs.
LEMMA PickIsNoJob ==
  ASSUME ModelTyped, pick # None
  PROVE  pick \notin jobs
<1> SUFFICES ASSUME pick \in jobs PROVE FALSE
  OBVIOUS
<1>1. IsJob(pick) /\ IsPick(pick)
  BY DEF ModelTyped
<1>2. "reset" \in DOMAIN pick
  BY <1>1 DEF IsJob
<1>3. "reset" \notin DOMAIN pick
  BY <1>1 DEF IsPick, Picks
<1> QED
  BY <1>2, <1>3

\* The operation of a job ends: if it was to paint the screen, the screen shows
\* the model of its thread or says that it could not be read.
LEMMA EndKeeps ==
  ASSUME ModelInv, NEW job \in jobs, jobs' = jobs \ {job},
         UNCHANGED <<thread, provider, models, pick, chosen>>, contested \subseteq contested',
         IF ~job.reset /\ M!StillCurrent(job)
         THEN /\ ~loading'
              /\ misread' \/ model' = models[thread] \/ thread \in contested'
         ELSE UNCHANGED <<model, loading, misread>>
  PROVE  ModelInv'
<1> USE DEF ModelInv
<1>1. ModelTyped' /\ (\A j \in jobs' : ForFirst(j)') /\ Listed' /\ M!PickKept'
  BY DEF ModelTyped, Listed, ForFirst, M!PickKept, IsJob, IsPick, Picks
<1>2. Coherent'
  BY DEF Coherent, Knows, PickKnows
<1>3. \A j \in jobs : M!StillCurrent(j)' <=> M!StillCurrent(j)
  BY DEF M!StillCurrent
<1>4. M!LoadingEnds'
  BY <1>3 DEF M!LoadingEnds
<1>5. Told'
  <2>1. CASE ~job.reset /\ M!StillCurrent(job)
    BY <2>1 DEF Told
  <2>2. CASE ~(~job.reset /\ M!StillCurrent(job))
    <3>1. Paints => Paints'
      BY <1>3, <2>2 DEF Paints
    <3> QED
      BY <2>2, <3>1 DEF Told
  <2> QED
    BY <2>1, <2>2
<1> QED
  BY <1>1, <1>2, <1>4, <1>5

\* A job goes on to its next stage.
LEMMA GoOnKeeps ==
  ASSUME ModelInv, NEW job \in jobs, NEW next, jobs' = M!Replaced(job, next),
         UNCHANGED <<thread, provider, models, model, loading, pick, chosen, contested, misread>>,
         next.reset = job.reset, next.thread = job.thread, next.catalog = job.catalog,
         IsJob(next), Knows(next), ForFirst(next)
  PROVE  ModelInv'
<1> USE DEF ModelInv
<1>1. \A j \in jobs' : j \in jobs \/ j = next
  BY DEF M!Replaced
<1>2. ModelTyped' /\ (\A j \in jobs' : ForFirst(j)') /\ Listed' /\ M!PickKept'
  BY <1>1 DEF ModelTyped, Listed, ForFirst, M!PickKept, IsJob, IsPick, Picks
<1>3. Coherent'
  BY <1>1 DEF Coherent, Knows, PickKnows
<1>4. Paints => Paints'
  <2> SUFFICES ASSUME NEW j \in jobs, ~j.reset, M!StillCurrent(j) PROVE Paints'
    BY DEF Paints
  <2>1. CASE j = job
    <3>1. next \in jobs' /\ ~next.reset /\ M!StillCurrent(next)'
      BY <2>1 DEF M!Replaced, M!StillCurrent
    <3> QED
      BY <3>1 DEF Paints
  <2>2. CASE j # job
    <3>1. j \in jobs' /\ M!StillCurrent(j)'
      BY <2>2 DEF M!Replaced, M!StillCurrent
    <3> QED
      BY <3>1 DEF Paints
  <2> QED
    BY <2>1, <2>2
<1>5. M!LoadingEnds' /\ Told'
  BY <1>4 DEF M!LoadingEnds, Told, Paints
<1> QED
  BY <1>2, <1>3, <1>5

-------------------------------------------------------------------------------
\* The reads.

LEMMA GetAnsweredKeeps == ASSUME ModelInv, M!GetAnswered PROVE ModelInv'
<1>1. PICK job \in jobs :
        /\ job.stage = "get"
        /\ jobs' = M!Replaced(job, [job EXCEPT !.stage = "catalog", !.got = models[job.thread]])
  BY Zenon DEF M!GetAnswered
<1>2. PICK next : next = [job EXCEPT !.stage = "catalog", !.got = models[job.thread]]
  OBVIOUS
<1>3. IsJob(job)
  BY DEF ModelInv, ModelTyped
<1>4. /\ next.reset = job.reset /\ next.thread = job.thread /\ next.catalog = job.catalog
      /\ next.stage = "catalog" /\ next.got = models[job.thread] /\ IsJob(next)
  BY <1>2, <1>3 DEF IsJob, Stages
<1>5. Knows(next) /\ ForFirst(next)
  BY <1>4 DEF Knows, ForFirst
<1> QED
  BY <1>1, <1>2, <1>4, <1>5, GoOnKeeps DEF M!GetAnswered

LEMMA GetFailsKeeps == ASSUME ModelInv, M!GetFails PROVE ModelInv'
<1>1. PICK job \in jobs :
        /\ job.stage = "get"
        /\ jobs' = jobs \ {job}
        /\ IF M!StillCurrent(job)
           THEN model' = None /\ loading' = FALSE /\ misread' = TRUE
           ELSE UNCHANGED <<model, loading, misread>>
  BY DEF M!GetFails
<1>2. ~job.reset
  BY <1>1 DEF ModelInv, ModelTyped, IsJob
<1>3. UNCHANGED <<thread, provider, models, pick, chosen, contested>>
  BY DEF M!GetFails
<1> QED
  BY <1>1, <1>2, <1>3, EndKeeps

\* What a read commits is the model of its thread, or the thread is contested.
LEMMA CommittedKeeps ==
  ASSUME ModelInv, NEW job \in jobs, NEW found, ~job.reset, M!Committed(job, found),
         UNCHANGED <<thread, provider, models, pick, chosen>>, contested \subseteq contested',
         found = models[job.thread] \/ job.thread \in contested'
  PROVE  ModelInv'
<1>1. M!StillCurrent(job) => ~loading' /\ (model' = models[thread] \/ thread \in contested')
  BY DEF M!Committed, M!StillCurrent
<1>2. jobs' = jobs \ {job}
  BY DEF M!Committed
<1>3. ~M!StillCurrent(job) => UNCHANGED <<model, loading, misread>>
  BY DEF M!Committed
<1> QED
  BY <1>1, <1>2, <1>3, EndKeeps

LEMMA CatalogAnsweredKeeps == ASSUME ModelInv, M!CatalogAnswered PROVE ModelInv'
<1>1. PICK job \in jobs :
        /\ ~job.reset
        /\ job.stage = "catalog"
        /\ IF M!Repairs(job)
           THEN /\ jobs' = M!Replaced(job, [job EXCEPT !.stage = "write",
                                                      !.target = M!Fallback(job)])
                /\ UNCHANGED <<seeds, model, loading, modelCache, misread>>
           ELSE /\ M!Committed(job, job.got)
                /\ seeds' = IF M!SeedResolved(job) THEN seeds \ {job.thread} ELSE seeds
  BY Zenon DEF M!CatalogAnswered
<1>2. UNCHANGED <<thread, provider, models, pick, chosen, contested>>
  BY DEF M!CatalogAnswered
<1>3. IsJob(job) /\ Knows(job)
  BY DEF ModelInv, ModelTyped, Coherent
<1>4. CASE M!Repairs(job)
  <2>1. PICK next : next = [job EXCEPT !.stage = "write", !.target = M!Fallback(job)]
    OBVIOUS
  <2>2. /\ next.reset = job.reset /\ next.thread = job.thread /\ next.catalog = job.catalog
        /\ next.seed = job.seed /\ next.stage = "write" /\ next.got = job.got /\ IsJob(next)
    BY <1>1, <1>3, <2>1 DEF IsJob, Stages
  <2>3. Knows(next)
    BY <1>1, <1>3, <2>2 DEF Knows
  <2>4. ForFirst(next)
    BY <1>4, <2>2 DEF ForFirst, M!Repairs, M!Fallback
  <2> QED
    BY <1>1, <1>2, <1>4, <2>1, <2>2, <2>3, <2>4, GoOnKeeps
<1>5. CASE ~M!Repairs(job)
  <2>1. job.got = models[job.thread] \/ job.thread \in contested'
    BY <1>1, <1>2, <1>3 DEF Knows
  <2> QED
    BY <1>1, <1>2, <1>5, <2>1, CommittedKeeps
<1> QED
  BY <1>4, <1>5

LEMMA CatalogFailsKeeps == ASSUME ModelInv, M!CatalogFails PROVE ModelInv'
<1>1. PICK job \in jobs : ~job.reset /\ job.stage = "catalog" /\ M!Committed(job, job.got)
  BY DEF M!CatalogFails
<1>2. UNCHANGED <<thread, provider, models, pick, chosen, contested>>
  BY DEF M!CatalogFails
<1>3. job.got = models[job.thread] \/ job.thread \in contested'
  BY <1>1, <1>2 DEF ModelInv, Coherent, Knows
<1> QED
  BY <1>1, <1>2, <1>3, CommittedKeeps

-------------------------------------------------------------------------------
\* The writes of a read or of a reset.

\* A write that is alone on its thread and has the catalog of now.
LEMMA MetByNone ==
  ASSUME NEW write, write.thread \notin M!Contested(write)
  PROVE  /\ \A job \in jobs : job.thread = write.thread => job = write
         /\ pick # None /\ pick # write => pick.thread # write.thread
         /\ write.catalog = M!CatalogOf(provider)
         /\ write.thread \notin contested
  BY DEF M!Contested, M!Meets, M!Others

LEMMA ContestedGrows == \A write : contested \subseteq M!Contested(write)
  BY DEF M!Contested

LEMMA WriteServedKeeps == ASSUME ModelInv, M!WriteServed PROVE ModelInv'
<1> USE DEF ModelInv
<1>0. PICK job \in jobs :
        /\ job.stage = "write"
        /\ models' = [models EXCEPT ![job.thread] = job.target]
        /\ contested' = IF job.reset THEN contested \cup {job.thread}
                        ELSE M!Contested(job)
        /\ jobs' = IF job.reset THEN jobs \ {job}
                   ELSE M!Replaced(job, [job EXCEPT !.stage = "written"])
        /\ chosen' = IF job.seed THEN [chosen EXCEPT ![job.thread] = None] ELSE chosen
  BY DEF M!WriteServed
<1>1. UNCHANGED <<thread, provider, model, loading, pick, misread>>
  BY DEF M!WriteServed
<1>2. PICK next : next = [job EXCEPT !.stage = "written"]
  OBVIOUS
<1>3. IsJob(job) /\ Knows(job) /\ ForFirst(job)
  BY DEF ModelTyped, Coherent
<1>4. /\ next.reset = job.reset /\ next.thread = job.thread /\ next.catalog = job.catalog
      /\ next.target = job.target /\ next.stage = "written"
      /\ ~job.reset => IsJob(next)
  BY <1>2, <1>3 DEF IsJob, Stages
<1>5. /\ job.reset => jobs' = jobs \ {job}
      /\ ~job.reset => jobs' = (jobs \ {job}) \cup {next}
  BY <1>0, <1>2 DEF M!Replaced
<1>6. /\ models'[job.thread] = job.target
      /\ \A to \in ModelThreads : to # job.thread => models'[to] = models[to]
      /\ DOMAIN models' = ModelThreads
  BY <1>0, <1>3 DEF ModelTyped, IsJob
<1>7. contested \subseteq contested' /\ (job.reset => job.thread \in contested')
  BY <1>0, ContestedGrows
<1>8. job.thread \notin contested' =>
        /\ ~job.reset
        /\ \A other \in jobs : other.thread = job.thread => other = job
        /\ pick # None => pick.thread # job.thread
        /\ job.catalog = M!CatalogOf(provider)
        /\ job.thread \notin contested
  BY <1>0, MetByNone, PickIsNoJob
<1>9. ModelTyped'
  BY <1>0, <1>1, <1>3, <1>4, <1>5, <1>6 DEF ModelTyped, IsJob, IsPick, Picks
<1>10. Coherent'
  <2>1. ASSUME NEW other \in jobs' PROVE Knows(other)'
    <3>1. CASE other = next
      BY <1>4, <1>6, <3>1 DEF Knows
    <3>2. CASE other # next
      <4>1. other \in jobs /\ other # job /\ Knows(other) /\ other.thread \in ModelThreads
        BY <1>5, <2>1, <3>2 DEF Coherent, ModelTyped, IsJob
      <4> QED
        BY <1>6, <1>7, <1>8, <4>1 DEF Knows
    <3> QED
      BY <3>1, <3>2
  <2>2. PickKnows'
    BY <1>1, <1>6, <1>7, <1>8 DEF Coherent, PickKnows, ModelTyped, IsPick, Picks
  <2> QED
    BY <2>1, <2>2 DEF Coherent
<1>11. Paints => Paints'
  <2> SUFFICES ASSUME NEW j \in jobs, ~j.reset, M!StillCurrent(j) PROVE Paints'
    BY DEF Paints
  <2>1. CASE j = job
    <3>1. next \in jobs' /\ ~next.reset /\ M!StillCurrent(next)'
      BY <1>1, <1>4, <1>5, <2>1 DEF M!StillCurrent
    <3> QED
      BY <3>1 DEF Paints
  <2>2. CASE j # job
    <3>1. j \in jobs' /\ M!StillCurrent(j)'
      BY <1>1, <1>5, <2>2 DEF M!StillCurrent
    <3> QED
      BY <3>1 DEF Paints
  <2> QED
    BY <2>1, <2>2
<1>12. M!LoadingEnds'
  BY <1>1, <1>11 DEF M!LoadingEnds, Paints
<1>13. Told'
  <2>1. CASE job.thread # thread \/ thread \in contested'
    BY <1>1, <1>6, <1>7, <1>11, <2>1 DEF Told, ModelTyped
  <2>2. CASE job.thread = thread /\ thread \notin contested'
    <3>1. ~job.reset /\ M!StillCurrent(job)
      BY <1>8, <2>2 DEF M!StillCurrent
    <3> QED
      BY <1>11, <3>1 DEF Told, Paints
  <2> QED
    BY <2>1, <2>2
<1>14. \A j \in jobs' : ForFirst(j)'
  BY <1>4, <1>5 DEF ForFirst
<1>15. Listed'
  BY <1>0, <1>1, <1>3 DEF Listed, ModelTyped, IsJob
<1>16. M!PickKept'
  <2> SUFFICES ASSUME NEW to \in ModelThreads, chosen'[to] # None, to \notin contested'
               PROVE  models'[to] = chosen'[to]
    BY DEF M!PickKept
  <2>1. chosen'[to] = chosen[to] /\ to \notin contested
    BY <1>0, <1>3, <1>7 DEF ModelTyped, IsJob
  <2>2. models[to] = chosen[to]
    BY <2>1 DEF M!PickKept
  <2>3. CASE to = job.thread
    <3>1. ~job.seed
      BY <1>0, <1>3, <2>3 DEF ModelTyped, IsJob
    <3>2. job.got = chosen[to]
      BY <1>0, <1>3, <1>8, <2>2, <2>3 DEF Knows
    <3>3. job.got \in Catalog[job.catalog]
      BY <1>8, <2>1, <2>3, <3>2 DEF Listed
    <3> QED
      BY <1>0, <1>3, <1>8, <2>3, <3>1, <3>3 DEF ForFirst
  <2> QED
    BY <1>6, <2>1, <2>2, <2>3
<1> QED
  BY <1>9, <1>10, <1>12, <1>13, <1>14, <1>15, <1>16

LEMMA WriteAnsweredKeeps == ASSUME ModelInv, M!WriteAnswered PROVE ModelInv'
<1>1. PICK job \in jobs : job.stage = "written" /\ M!Committed(job, job.target)
  BY DEF M!WriteAnswered
<1>2. UNCHANGED <<thread, provider, models, pick, chosen, contested>>
  BY DEF M!WriteAnswered
<1>3. ~job.reset
  BY <1>1 DEF ModelInv, ModelTyped, IsJob
<1>4. job.target = models[job.thread] \/ job.thread \in contested'
  BY <1>1, <1>2, <1>3 DEF ModelInv, Coherent, Knows
<1> QED
  BY <1>1, <1>2, <1>3, <1>4, CommittedKeeps

LEMMA WriteFailsKeeps == ASSUME ModelInv, M!WriteFails PROVE ModelInv'
<1>1. PICK job \in jobs :
        /\ job.stage \in {"write", "written"}
        /\ IF job.reset THEN /\ jobs' = jobs \ {job}
                             /\ UNCHANGED <<model, loading, modelCache, misread>>
                        ELSE M!Committed(job, job.got)
        /\ contested' = IF job.stage = "written" THEN contested \cup {job.thread} ELSE contested
  BY DEF M!WriteFails
<1>2. UNCHANGED <<thread, provider, models, pick, chosen>> /\ contested \subseteq contested'
  BY <1>1 DEF M!WriteFails
<1>3. CASE job.reset
  BY <1>1, <1>2, <1>3, EndKeeps
<1>4. CASE ~job.reset
  <2>1. job.got = models[job.thread] \/ job.thread \in contested'
    BY <1>1, <1>4 DEF ModelInv, Coherent, Knows
  <2> QED
    BY <1>1, <1>2, <1>4, <2>1, CommittedKeeps
<1> QED
  BY <1>3, <1>4

LEMMA ResetGoesOnKeeps == ASSUME ModelInv, M!ResetGoesOn PROVE ModelInv'
<1>1. PICK job \in jobs :
        /\ job.reset
        /\ job.stage = "catalog"
        /\ jobs' = IF M!StillCurrent(job)
                   THEN M!Replaced(job, [job EXCEPT !.stage = "write",
                                                  !.target = M!DefaultModel(job.catalog)])
                   ELSE jobs \ {job}
  BY Zenon DEF M!ResetGoesOn
<1>2. UNCHANGED <<thread, provider, models, model, loading, pick, chosen, contested, misread>>
  BY DEF M!ResetGoesOn
<1>3. PICK next : next = [job EXCEPT !.stage = "write", !.target = M!DefaultModel(job.catalog)]
  OBVIOUS
<1>4. /\ next.reset = job.reset /\ next.thread = job.thread /\ next.catalog = job.catalog
      /\ IsJob(next)
  <2>1. IsJob(job)
    BY DEF ModelInv, ModelTyped
  <2>2. /\ next.reset = job.reset /\ next.thread = job.thread /\ next.catalog = job.catalog
        /\ next.stage = "write"
    BY <1>3, <2>1 DEF IsJob
  <2>3. IsJob(next)
    BY <1>3, <2>1 DEF IsJob, Stages
  <2> QED
    BY <2>2, <2>3
<1>5. Knows(next) /\ ForFirst(next)
  BY <1>1, <1>4 DEF Knows, ForFirst
<1>6. CASE M!StillCurrent(job)
  BY <1>1, <1>2, <1>3, <1>4, <1>5, <1>6, GoOnKeeps
<1>7. CASE ~M!StillCurrent(job)
  BY <1>1, <1>2, <1>7, EndKeeps
<1> QED
  BY <1>6, <1>7

-------------------------------------------------------------------------------
\* The changes of route. A thread is no longer contested when it comes on screen
\* with nothing under way on it, and a model picked for it before is given up then.
LEMMA PaintKeeps ==
  ASSUME ModelInv, NEW to \in ModelThreads, NEW name, NEW running, M!Paint(to, name, running),
         jobs \subseteq running, \A job \in running \ jobs : job.reset /\ IsJob(job),
         UNCHANGED <<models, pick>>, DOMAIN chosen' = ModelThreads,
         \A t \in ModelThreads : chosen'[t] # None =>
           /\ chosen'[t] = chosen[t] /\ name = provider
           /\ t = to => t \notin contested
  PROVE  ModelInv'
<1> USE DEF ModelInv
<1>1. thread' = to /\ provider' = name /\ misread' = FALSE
  BY DEF M!Paint
<1>2. contested' \subseteq contested /\ contested \ {to} \subseteq contested'
  BY DEF M!Paint
<1>3. to \in contested \ contested' =>
        /\ \A job \in jobs : job.thread # to
        /\ pick # None => pick.thread # to
  BY DEF M!Paint, M!Others
<1>4. PICK read : read = M!Read(to, M!CatalogOf(name))
  OBVIOUS
<1>5. /\ ~read.reset /\ read.thread = to /\ read.catalog = M!CatalogOf(name)
      /\ read.stage = "get" /\ IsJob(read)
  BY <1>4 DEF M!Read, IsJob, Stages
<1>6. IF M!CanSwitch(name) THEN jobs' = running \cup {read}
                         ELSE jobs' = running /\ loading' = FALSE
  BY <1>4 DEF M!Paint
<1>7. \A job \in jobs' : \/ job \in jobs
                         \/ job.reset /\ IsJob(job)
                         \/ job = read
  BY <1>6
<1>8. ModelTyped'
  BY <1>1, <1>5, <1>7 DEF ModelTyped, IsJob, IsPick, Picks
<1>9. Coherent'
  <2>1. ASSUME NEW job \in jobs' PROVE Knows(job)'
    <3>1. CASE job \in jobs
      BY <1>2, <1>3, <3>1 DEF Coherent, Knows
    <3>2. CASE job.reset \/ job = read
      BY <1>5, <3>2 DEF Knows
    <3> QED
      BY <1>7, <3>1, <3>2
  <2>2. PickKnows'
    BY <1>2, <1>3 DEF Coherent, PickKnows
  <2> QED
    BY <2>1, <2>2 DEF Coherent
<1>10. M!CanSwitch(name) => Paints'
  <2> SUFFICES ASSUME M!CanSwitch(name) PROVE Paints'
    OBVIOUS
  <2>1. read \in jobs' /\ M!StillCurrent(read)'
    BY <1>1, <1>5, <1>6 DEF M!StillCurrent, M!CatalogOf
  <2> QED
    BY <1>5, <2>1 DEF Paints
<1>11. M!LoadingEnds' /\ Told'
  BY <1>1, <1>6, <1>10 DEF M!LoadingEnds, Told, Paints, M!CanSwitch
<1>12. \A job \in jobs' : ForFirst(job)'
  BY <1>5, <1>7 DEF ForFirst
<1>13. Listed'
  BY <1>1 DEF Listed, M!CatalogOf
<1>14. M!PickKept'
  BY <1>2 DEF M!PickKept
<1> QED
  BY <1>8, <1>9, <1>11, <1>12, <1>13, <1>14

LEMMA ChooseThreadKeeps == ASSUME ModelInv, M!SelectThread PROVE ModelInv'
<1>1. PICK to \in ModelThreads :
        /\ M!Paint(to, provider, jobs)
        /\ chosen' = [chosen EXCEPT ![to] = IF to \in contested THEN None ELSE @]
  BY DEF M!SelectThread
<1>2. UNCHANGED <<models, pick>>
  BY DEF M!SelectThread
<1>3. DOMAIN chosen = ModelThreads
  BY DEF ModelInv, ModelTyped
<1>4. DOMAIN chosen' = ModelThreads
  BY <1>1, <1>3
<1>5. \A t \in ModelThreads : chosen'[t] # None => chosen'[t] = chosen[t]
                                           /\ (t = to => t \notin contested)
  BY <1>1, <1>3
<1> QED
  BY <1>1, <1>2, <1>4, <1>5, PaintKeeps

LEMMA SetProviderKeeps == ASSUME ModelInv, M!SetProvider PROVE ModelInv'
<1>1. PICK name :
        \/ M!Paint(thread, name, jobs)
        \/ M!Paint(thread, name, jobs \cup {M!Reset(M!CatalogOf(name))})
  BY DEF M!SetProvider
<1>2. UNCHANGED <<models, pick>> /\ chosen' = [to \in ModelThreads |-> None]
  BY DEF M!SetProvider
<1>3. thread \in ModelThreads
  BY DEF ModelInv, ModelTyped
<1>4. M!Reset(M!CatalogOf(name)).reset /\ IsJob(M!Reset(M!CatalogOf(name)))
  BY <1>3 DEF M!Reset, IsJob, Stages
<1>5. CASE M!Paint(thread, name, jobs)
  BY <1>2, <1>3, <1>5, PaintKeeps
<1>6. CASE M!Paint(thread, name, jobs \cup {M!Reset(M!CatalogOf(name))})
  BY <1>2, <1>3, <1>4, <1>6, PaintKeeps
<1> QED
  BY <1>1, <1>5, <1>6

LEMMA HealKeeps == ASSUME ModelInv, M!Heal PROVE ModelInv'
<1>1. thread \in ModelThreads
  BY DEF ModelInv, ModelTyped
<1> QED
  BY <1>1, PaintKeeps DEF M!Heal

-------------------------------------------------------------------------------
\* The picker.

LEMMA PickKeeps == ASSUME ModelInv, M!Pick PROVE ModelInv'
<1> USE DEF ModelInv
<1>0. PICK found \in Catalog[M!CatalogOf(provider)] :
        IF found = model
        THEN model' = found /\ pick' = pick
        ELSE /\ pick = None /\ model' = model
             /\ pick' = [thread |-> thread, catalog |-> M!CatalogOf(provider),
                         model |-> found, stage |-> "write"]
  BY DEF M!Pick, M!Chosen
<1>1. UNCHANGED <<thread, provider, models, loading, jobs, chosen, contested, misread>>
  BY DEF M!Pick
<1>2. model' = model
  BY <1>0
<1>3. pick' = pick \/ (/\ pick = None /\ IsPick(pick') /\ pick'.stage = "write"
                       /\ pick'.model \in Catalog[pick'.catalog])
  <2>1. M!CatalogOf(provider) \in CatalogIds \cup {None} /\ found \in M!Models
    BY DEF M!CatalogOf, M!Models
  <2> QED
    BY <1>0, <2>1 DEF IsPick, Picks, ModelTyped
<1>4. ModelTyped' /\ M!PickKept' /\ M!LoadingEnds'
  BY <1>1, <1>3 DEF ModelTyped, M!PickKept, M!LoadingEnds, M!StillCurrent, IsPick, Picks
<1>5. Coherent'
  BY <1>1, <1>3 DEF Coherent, Knows, PickKnows
<1>6. Told'
  BY <1>1, <1>2, <1>3 DEF Told, Paints, M!StillCurrent
<1>7. (\A job \in jobs' : ForFirst(job)') /\ Listed'
  BY <1>1, <1>3 DEF ForFirst, Listed
<1> QED
  BY <1>4, <1>5, <1>6, <1>7

LEMMA PickServedKeeps == ASSUME NoneIsNoPick, ModelInv, M!PickServed PROVE ModelInv'
<1> USE DEF ModelInv, M!PickServed
<1>1. IsPick(pick) /\ pick # None
  BY DEF ModelTyped
<1>2. /\ pick'.thread = pick.thread /\ pick'.catalog = pick.catalog
      /\ pick'.model = pick.model /\ pick'.stage = "written" /\ IsPick(pick')
  BY <1>1 DEF IsPick, Picks
<1>3. /\ models'[pick.thread] = pick.model
      /\ \A to \in ModelThreads : to # pick.thread => models'[to] = models[to]
      /\ DOMAIN models' = ModelThreads
  BY <1>1 DEF ModelTyped, IsPick, Picks
<1>4. contested \subseteq contested'
  BY ContestedGrows
<1>5. pick.thread \notin contested' =>
        /\ \A job \in jobs : job.thread # pick.thread
        /\ pick.catalog = M!CatalogOf(provider)
  BY <1>1, MetByNone, PickIsNoJob
<1>6. /\ DOMAIN chosen' = ModelThreads
      /\ chosen'[pick.thread] = IF pick.catalog = M!CatalogOf(provider) THEN pick.model ELSE None
      /\ \A to \in ModelThreads : to # pick.thread => chosen'[to] = chosen[to]
  BY <1>1 DEF ModelTyped, IsPick, Picks
<1>7. ModelTyped'
  BY <1>2, <1>3, <1>6 DEF ModelTyped, IsJob
<1>8. Coherent'
  BY <1>2, <1>3, <1>4, <1>5 DEF Coherent, Knows, PickKnows, ModelTyped, IsJob
<1>9. M!LoadingEnds' /\ (Paints => Paints')
  BY DEF M!LoadingEnds, Paints, M!StillCurrent
<1>10. Told'
  <2>1. CASE pick.thread = thread
    BY <1>2, <2>1 DEF Told, IsPick, NoneIsNoPick
  <2>2. CASE pick.thread # thread
    <3>1. models'[thread] = models[thread]
      BY <1>3, <2>2 DEF ModelTyped
    <3> QED
      BY <1>4, <1>9, <2>2, <3>1 DEF Told
  <2> QED
    BY <2>1, <2>2
<1>11. (\A job \in jobs' : ForFirst(job)') /\ Listed'
  BY <1>1, <1>2, <1>6 DEF ForFirst, Listed, ModelTyped
<1>12. M!PickKept'
  BY <1>1, <1>3, <1>4, <1>6 DEF M!PickKept
<1> QED
  BY <1>7, <1>8, <1>9, <1>10, <1>11, <1>12

LEMMA PickAnsweredKeeps == ASSUME ModelInv, M!PickAnswered PROVE ModelInv'
<1> USE DEF ModelInv, M!PickAnswered
<1>1. model' = pick.model /\ pick' = None
  BY DEF M!Chosen
<1>2. contested \subseteq contested'
  BY ContestedGrows
<1>3. ModelTyped' /\ Coherent' /\ M!PickKept'
  BY <1>1, <1>2 DEF ModelTyped, IsJob, Coherent, Knows, PickKnows, M!PickKept
<1>4. M!LoadingEnds' /\ (\A job \in jobs' : ForFirst(job)') /\ Listed'
  BY <1>1 DEF M!LoadingEnds, M!StillCurrent, ForFirst, Listed
<1>5. model' = models[thread] \/ thread \in contested'
  BY <1>1, <1>2 DEF M!StillCurrent, Coherent, PickKnows
<1>6. Told'
  BY <1>5 DEF Told
<1> QED
  BY <1>3, <1>4, <1>6

LEMMA PickFailsKeeps == ASSUME ModelInv, M!PickFails PROVE ModelInv'
<1> USE DEF ModelInv, M!PickFails
<1>1. contested \subseteq contested'
  OBVIOUS
<1>2. ModelTyped' /\ Coherent' /\ M!PickKept'
  BY <1>1 DEF ModelTyped, IsJob, Coherent, Knows, PickKnows, M!PickKept
<1>3. M!LoadingEnds' /\ (\A job \in jobs' : ForFirst(job)') /\ Listed'
  BY DEF M!LoadingEnds, M!StillCurrent, ForFirst, Listed
<1>4. Told'
  BY DEF Told, Paints, M!StillCurrent
<1> QED
  BY <1>2, <1>3, <1>4

-------------------------------------------------------------------------------
LEMMA ModelInitKeeps == M!Init => ModelInv
<1> SUFFICES ASSUME M!Init PROVE ModelInv
  OBVIOUS
<1> USE DEF M!Init
<1>1. PICK job : jobs = {job} /\ IsJob(job) /\ ~job.reset /\ M!StillCurrent(job) /\ job.stage = "get"
  <2>1. PICK job : job = [id |-> 1, reset |-> FALSE, thread |-> thread, catalog |-> None,
                          seed |-> thread \in seeds, stage |-> "get", got |-> None,
                          target |-> None]
    OBVIOUS
  <2>2. IsJob(job)
    BY <2>1 DEF IsJob, Stages
  <2>3. M!StillCurrent(job)
    BY <2>1 DEF M!StillCurrent, M!CatalogOf
  <2>4. jobs = {job} /\ ~job.reset /\ job.stage = "get"
    BY <2>1
  <2> QED
    BY <2>2, <2>3, <2>4
<1>2. ModelTyped
  BY <1>1 DEF ModelTyped
<1>3. Coherent /\ Listed /\ M!PickKept
  BY <1>1 DEF Coherent, Knows, PickKnows, Listed, M!PickKept
<1>4. M!LoadingEnds /\ Told
  BY <1>1 DEF M!LoadingEnds, Told, Paints
<1>5. \A j \in jobs : ForFirst(j)
  BY <1>1 DEF ForFirst
<1> QED
  BY <1>2, <1>3, <1>4, <1>5 DEF ModelInv

LEMMA ModelNextKeeps == ASSUME NoneIsNoPick, ModelInv, [M!Next]_M!vars PROVE ModelInv'
<1>1. CASE UNCHANGED M!vars
  BY <1>1 DEF M!vars, ModelInv, ModelTyped, M!LoadingEnds, Coherent, Knows, PickKnows, Told, Paints,
              ForFirst, Listed, M!PickKept, M!StillCurrent, IsJob, IsPick, Picks
<1>2. CASE M!SelectThread \/ M!SetProvider \/ M!Heal
  BY <1>2, ChooseThreadKeeps, SetProviderKeeps, HealKeeps
<1>3. CASE M!GetAnswered \/ M!GetFails \/ M!CatalogAnswered \/ M!CatalogFails
  BY <1>3, GetAnsweredKeeps, GetFailsKeeps, CatalogAnsweredKeeps, CatalogFailsKeeps
<1>4. CASE M!WriteServed \/ M!WriteAnswered \/ M!WriteFails \/ M!ResetGoesOn
  BY <1>4, WriteServedKeeps, WriteAnsweredKeeps, WriteFailsKeeps, ResetGoesOnKeeps
<1>5. CASE M!Pick \/ M!PickServed \/ M!PickAnswered \/ M!PickFails
  BY <1>5, PickKeeps, PickServedKeeps, PickAnsweredKeeps, PickFailsKeeps
<1> QED
  BY <1>1, <1>2, <1>3, <1>4, <1>5 DEF M!Next

\* The placeholder of the picker is not shown for ever for want of an operation that
\* would paint the screen; with nothing under way the picker tells the model the
\* server has for the thread on screen, unless that could not be read or two
\* operations met on the thread; and a model picked by hand stays the model of its
\* thread (fetchAgentModel, resetActiveAgentModelToProviderDefault and the picker,
\* whatever the order in which their requests are served, answered or fail).
THEOREM ModelIsTold == ASSUME NoneIsNoPick PROVE M!Spec => []M!ModelTold
<1>1. ModelInv => M!ModelTold
  BY DEF ModelInv, M!ModelTold, Told, M!ShownIsServed, Paints
<1>2. ModelInv /\ [M!Next]_M!vars => ModelInv'
  BY ModelNextKeeps
<1> QED
  BY <1>1, <1>2, ModelInitKeeps, PTL DEF M!Spec

\* ModelIsTold for the panel, one part of which it is: the thread shown names the model it
\* runs with (Composer.tsx, ModelPicker.tsx).
THEOREM PanelTellsModel == ASSUME NoneIsNoPick PROVE MCSpec => []ModelTold
<1>1. MCInit => M!Init
  BY DEF MCInit
<1>2. [MCNext]_<<focus, panelVars, sideVars>> => [M!Next]_M!vars
  BY DEF MCNext, panelVars, modelVars, M!vars
<1>3. M!ModelTold => ModelTold
  BY DEF ModelTold
<1> QED
  BY <1>1, <1>2, <1>3, ModelIsTold, PTL DEF MCSpec, M!Spec

-------------------------------------------------------------------------------
\* The expert summoned.

\* All that is asked of the constants: a choice is told from no choice.
NoneIsNoChoice == \A id : <<id>> # None

SummonTyped ==
  /\ root \in {None, forge} /\ manual \in BOOLEAN
  /\ queue \in Seq({queue[i] : i \in DOMAIN queue})
  /\ catalog # None => ~fetching

\* What the user picked on this page is in the catalog, and is what is selected.
ChoiceHeld ==
  /\ choice # None => /\ choice = <<choice[1]>>
                      /\ catalog # None
                      /\ choice[1] = None \/ U!Available(choice[1])
  /\ choice # None => manual /\ selected = choice[1]
  /\ IF page = pageSeen THEN manual => choice # None ELSE choice = None

\* A submission is for the thread shown.
OwnsComposer == leaving # None => leaving = agent

MessagesFaithful ==
  /\ \A i \in DOMAIN queue : U!Faithful(queue[i]) /\ queue[i].kind = "typed"
  /\ rewind # None => U!Faithful(rewind) /\ rewind.kind = "edited"
  /\ \A s \in messages : U!Faithful(s.message) /\ (s.message.kind = "typed" => s.to = s.message.agent)

SummonInv == SummonTyped /\ ChoiceHeld /\ OwnsComposer /\ MessagesFaithful

LEMMA ShownIsMeant == ASSUME SummonInv, ~U!EffectDue PROVE U!Resolved = U!Meant
<1> USE DEF SummonInv, SummonTyped, ChoiceHeld
<1>1. page = pageSeen /\ U!Reconciled = [selected |-> selected, manual |-> manual]
  BY DEF U!EffectDue
<1>2. CASE ~U!CanSummon
  BY <1>2 DEF U!Resolved, U!Meant
<1>3. CASE U!CanSummon /\ choice # None
  BY <1>1, <1>3 DEF U!Resolved, U!Meant
<1>4. CASE U!CanSummon /\ choice = None /\ catalog = None
  BY <1>4 DEF U!Resolved, U!Meant, U!Available, U!PreferredAvailable
<1>5. CASE U!CanSummon /\ choice = None /\ catalog # None
  <2>1. ~manual
    BY <1>1, <1>5
  <2>2. selected = None \/ U!Available(selected)
    BY <1>1, <1>5 DEF U!Reconciled
  <2>3. selected = U!PreferredAvailable
    BY <1>1, <1>5, <2>1, <2>2 DEF U!Reconciled
  <2> QED
    BY <1>5, <2>2, <2>3 DEF U!Resolved, U!Meant
<1> QED
  BY <1>2, <1>3, <1>4, <1>5

LEMMA WrittenFaithful ==
  ASSUME SummonInv, NEW to, to = agent PROVE U!Faithful(U!Written(to))
<1>1. U!Resolved # None => agent = forge
  BY DEF U!Resolved, U!CanSummon, SummonInv, SummonTyped
<1>2. U!EffectDue \/ U!Resolved = U!Meant
  BY ShownIsMeant
<1> QED
  BY <1>1, <1>2 DEF U!Faithful, U!Written

LEMMA Removed ==
  ASSUME NEW T, NEW s \in Seq(T), NEW i \in DOMAIN s
  PROVE  /\ U!RemoveAt(s, i) \in Seq(T)
         /\ \A j \in DOMAIN U!RemoveAt(s, i) : \E k \in DOMAIN s : U!RemoveAt(s, i)[j] = s[k]
<1> DEFINE a == SubSeq(s, 1, i - 1)
<1> DEFINE b == SubSeq(s, i + 1, Len(s))
<1>1. Len(s) \in Nat /\ i \in 1..Len(s) /\ DOMAIN s = 1..Len(s)
  OBVIOUS
<1>2. a \in Seq(T) /\ Len(a) = i - 1 /\ \A j \in 1..i - 1 : a[j] = s[j]
  BY <1>1
<1>3. b \in Seq(T) /\ Len(b) = Len(s) - i /\ \A j \in 1..Len(s) - i : b[j] = s[i + j]
  BY <1>1
<1> HIDE DEF a, b
<1>4. a \o b \in Seq(T)
  BY <1>2, <1>3
<1>5. ASSUME NEW j \in DOMAIN (a \o b) PROVE \E k \in DOMAIN s : (a \o b)[j] = s[k]
  <2>1. j \in 1..Len(a) + Len(b)
    BY <1>2, <1>3, <1>5
  <2>2. CASE j <= i - 1
    BY <1>1, <1>2, <1>3, <2>1, <2>2
  <2>3. CASE j > i - 1
    <3>1. (a \o b)[j] = b[j - (i - 1)]
      BY <1>1, <1>2, <1>3, <2>1, <2>3
    <3>2. j - (i - 1) \in 1..Len(s) - i /\ i + (j - (i - 1)) \in DOMAIN s
      BY <1>1, <1>2, <1>3, <2>1, <2>3
    <3> QED
      BY <1>3, <3>1, <3>2
  <2> QED
    BY <1>1, <2>1, <2>2, <2>3
<1>6. U!RemoveAt(s, i) = a \o b
  BY DEF U!RemoveAt, a, b
<1> QED
  BY <1>4, <1>5, <1>6

LEMMA SummonInitKeeps == ASSUME U!Init PROVE SummonInv
<1> USE DEF U!Init
<1>1. queue = <<>> /\ DOMAIN queue = {}
  OBVIOUS
<1>2. SummonTyped
  <2>1. <<>> \in Seq({queue[i] : i \in DOMAIN queue})
    OBVIOUS
  <2> QED
    BY <1>1, <2>1 DEF SummonTyped
<1>3. ChoiceHeld /\ OwnsComposer
  BY DEF ChoiceHeld, OwnsComposer
<1>4. MessagesFaithful
  BY <1>1 DEF MessagesFaithful
<1> QED
  BY <1>2, <1>3, <1>4 DEF SummonInv

\* The steps that write no message.
LEMMA QuietKeeps ==
  ASSUME NoneIsNoChoice, SummonInv,
         \/ U!Effect \/ U!ExtensionsKnown \/ U!CatalogAnswered \/ U!RootKnown \/ U!Clear \/ U!Submit
         \/ \E p \in {game, wiki} : U!OpenPage(p)
         \/ catalog # None /\ \E id \in U!ToSet(catalog) : U!Pick(id)
         \/ \E to \in {forge, mochi} : U!ShowAgent(to)
  PROVE  SummonInv'
<1>1. UNCHANGED <<queue, rewind, messages>>
  BY DEF U!Effect, U!ExtensionsKnown, U!CatalogAnswered, U!RootKnown, U!Clear, U!Submit, U!OpenPage,
         U!Pick, U!Chosen, U!ShowAgent
<1>2. MessagesFaithful'
  BY <1>1 DEF SummonInv, MessagesFaithful, U!Faithful
<1>3. OwnsComposer'
  BY DEF SummonInv, OwnsComposer, U!Effect, U!ExtensionsKnown, U!CatalogAnswered, U!RootKnown, U!Clear,
         U!Submit, U!OpenPage, U!Pick, U!Chosen, U!ShowAgent
<1> USE DEF SummonInv, SummonTyped, ChoiceHeld, U!Available
<1>4. CASE U!Effect
  <2>1. /\ U!Reconciled.manual \in BOOLEAN
        /\ page # pageSeen => U!Reconciled.manual = FALSE
        /\ choice # None => U!Reconciled = [selected |-> selected, manual |-> manual]
        /\ U!Reconciled.manual => manual
    BY DEF U!Reconciled
  <2> QED
    BY <1>1, <1>2, <1>3, <1>4, <2>1 DEF U!Effect
<1>5. CASE U!ExtensionsKnown \/ U!RootKnown \/ U!Submit \/ \E to \in {forge, mochi} : U!ShowAgent(to)
  BY <1>1, <1>2, <1>3, <1>5 DEF U!ExtensionsKnown, U!RootKnown, U!Submit, U!ShowAgent
<1>6. CASE U!CatalogAnswered
  BY <1>1, <1>2, <1>3, <1>6 DEF U!CatalogAnswered
<1>7. ASSUME NEW p \in {game, wiki}, U!OpenPage(p) PROVE SummonInv'
  BY <1>1, <1>2, <1>3, <1>7 DEF U!OpenPage, U!Move, U!EffectDue
<1>8. ASSUME NEW id, U!Move, U!Chosen(id), catalog # None, id = None \/ U!Available(id) PROVE SummonInv'
  <2>1. <<id>> # None
    BY DEF NoneIsNoChoice
  <2>2. page = pageSeen
    BY <1>8 DEF U!Move, U!EffectDue
  <2> QED
    BY <1>1, <1>2, <1>3, <1>8, <2>1, <2>2 DEF U!Chosen
<1>9. U!Clear => catalog # None
  BY DEF U!Clear, U!Resolved
<1> QED
  BY <1>4, <1>5, <1>6, <1>7, <1>8, <1>9 DEF U!Clear, U!Pick

LEMMA MessagesKeep ==
  ASSUME SummonInv, U!Submitted \/ U!Interrupt \/ U!Dequeue \/ U!Rewind \/ U!Rewound
  PROVE  SummonInv'
<1>1. ChoiceHeld' /\ OwnsComposer'
  BY DEF SummonInv, ChoiceHeld, OwnsComposer, U!Available, U!Submitted, U!Interrupt, U!Dequeue, U!Rewind,
         U!Rewound
<1>2. UNCHANGED <<root, manual, catalog, fetching>>
  BY DEF U!Submitted, U!Interrupt, U!Dequeue, U!Rewind, U!Rewound
<1> USE DEF SummonInv, SummonTyped, MessagesFaithful
<1>t. ASSUME NEW m, U!Faithful(m) PROVE U!Faithful(m)'
  BY <1>t DEF U!Faithful
<1>3. ASSUME U!Submitted PROVE SummonTyped' /\ MessagesFaithful'
  <2>1. U!Faithful(U!Written(leaving)) /\ U!Written(leaving).kind = "typed" /\ U!Written(leaving).agent = leaving
    BY <1>3, WrittenFaithful DEF OwnsComposer, U!Submitted, U!Written
  <2>2. CASE queue' = Append(queue, U!Written(leaving)) /\ UNCHANGED messages
    BY <1>2, <1>3, <2>1, <2>2 DEF U!Submitted, U!Faithful
  <2>3. CASE U!Left(U!Written(leaving), leaving) /\ UNCHANGED queue
    BY <1>2, <1>3, <2>1, <2>3 DEF U!Submitted, U!Faithful, U!Left
  <2> QED
    BY <1>3, <2>2, <2>3 DEF U!Submitted
<1>4. ASSUME U!Interrupt PROVE SummonTyped' /\ MessagesFaithful'
  <2>1. U!Faithful(U!Written(agent)) /\ U!Written(agent).kind = "typed" /\ U!Written(agent).agent = agent
    BY WrittenFaithful DEF U!Written
  <2> QED
    BY <1>2, <1>4, <2>1 DEF U!Interrupt, U!Faithful, U!Left
<1>5. ASSUME U!Dequeue PROVE SummonTyped' /\ MessagesFaithful'
  <2>1. PICK i \in DOMAIN queue : /\ queue[i].agent = agent
                                  /\ U!Left(queue[i], agent)
                                  /\ queue' = U!RemoveAt(queue, i)
    BY <1>5 DEF U!Dequeue
  <2>2. PICK T : T = {queue[j] : j \in DOMAIN queue}
    OBVIOUS
  <2>3. /\ queue \in Seq(T) /\ \A j \in DOMAIN queue : U!Faithful(queue[j]) /\ queue[j].kind = "typed"
        /\ rewind # None => U!Faithful(rewind) /\ rewind.kind = "edited"
        /\ \A s \in messages : U!Faithful(s.message) /\ (s.message.kind = "typed" => s.to = s.message.agent)
    BY <2>2
  <2>4. root \in {None, forge} /\ manual \in BOOLEAN /\ (catalog # None => ~fetching)
    OBVIOUS
  <2> HIDE DEF SummonInv, SummonTyped, MessagesFaithful
  <2>5. queue' \in Seq(T) /\ \A j \in DOMAIN queue' : \E k \in DOMAIN queue : queue'[j] = queue[k]
    BY <2>1, <2>3, Removed
  <2>6. queue' \in Seq({queue'[j] : j \in DOMAIN queue'})
    BY <2>5, OwnElements
  <2>7. UNCHANGED rewind
    BY <1>5 DEF U!Dequeue
  <2>8. SummonTyped'
    BY <1>2, <2>4, <2>6 DEF SummonTyped
  <2>9. MessagesFaithful'
    <3>1. messages' = messages \cup {[message |-> queue[i], to |-> agent]}
      BY <2>1 DEF U!Left
    <3>2. \A j \in DOMAIN queue' : U!Faithful(queue'[j]) /\ queue'[j].kind = "typed"
      BY <2>3, <2>5
    <3>3. ASSUME NEW s \in messages'
          PROVE  U!Faithful(s.message) /\ (s.message.kind = "typed" => s.to = s.message.agent)
      <4>1. CASE s \in messages
        BY <2>3, <4>1
      <4>2. CASE s = [message |-> queue[i], to |-> agent]
        <5>1. s.message = queue[i] /\ s.to = agent
          BY <4>2
        <5> QED
          BY <2>1, <2>3, <5>1
      <4> QED
        BY <3>1, <4>1, <4>2
    <3>4. rewind' # None => U!Faithful(rewind') /\ rewind'.kind = "edited"
      BY <2>3, <2>7
    <3> QED
      BY <3>2, <3>3, <3>4 DEF MessagesFaithful, U!Faithful
  <2> QED
    BY <2>8, <2>9
<1>6. ASSUME U!Rewind PROVE SummonTyped' /\ MessagesFaithful'
  <2>1. U!Faithful(U!Written(agent))
    BY WrittenFaithful
  <2>2. U!Faithful(rewind') /\ rewind'.kind = "edited"
    BY <1>6, <2>1 DEF U!Rewind, U!Written, U!Faithful
  <2> QED
    BY <1>2, <1>6, <2>2 DEF U!Rewind, U!Faithful
<1>7. ASSUME U!Rewound PROVE SummonTyped' /\ MessagesFaithful'
  BY <1>2, <1>7 DEF U!Rewound, U!Left, U!Faithful
<1> QED
  BY <1>1, <1>3, <1>4, <1>5, <1>6, <1>7

LEMMA SummonNextKeeps == ASSUME NoneIsNoChoice, SummonInv, U!Next PROVE SummonInv'
BY QuietKeeps, MessagesKeep DEF U!Next

LEMMA SummonStepKeeps ==
  ASSUME NoneIsNoChoice, SummonInv, [MCNext]_<<focus, panelVars, sideVars>>
  PROVE  SummonInv'
<1>1. U!Next \/ UNCHANGED summonVars
  BY DEF MCNext, sideVars
<1>2. CASE UNCHANGED summonVars
  BY <1>2 DEF summonVars, SummonInv, SummonTyped, ChoiceHeld, OwnsComposer, MessagesFaithful, U!Faithful,
              U!Available
<1> QED
  BY <1>1, <1>2, SummonNextKeeps

\* The expert shown is the one the user means, and a message summons no other one, none for
\* a thread that is not the root's, and goes to the thread it was written for: at once, from
\* the queue or after a rewind (agent-key.ts, Composer.tsx, RewindControls.tsx).
THEOREM ExpertsAreMeant == ASSUME NoneIsNoChoice PROVE MCSpec => []SummonKept
<1>1. MCInit => SummonInv
  BY SummonInitKeeps DEF MCInit
<1>2. SummonInv /\ [MCNext]_<<focus, panelVars, sideVars>> => SummonInv'
  BY SummonStepKeeps
<1>3. SummonInv => SummonKept
  BY ShownIsMeant DEF SummonInv, MessagesFaithful, SummonKept, U!SummonKept
<1> QED
  BY <1>1, <1>2, <1>3, PTL DEF MCSpec

-------------------------------------------------------------------------------
\* Tabs.

\* All that is asked of the constants: the sessions have a root, and an agent is told from none.
TabsHaveRoots == Sids \subseteq {t1, t2} /\ None \notin {forge, mochi}

RootOf(sid) == IF sid = t1 THEN forge ELSE mochi

FocusTyped ==
  /\ open \subseteq Sids
  /\ onScreen \in open \cup {None}
  /\ bound \in [Sids -> Crew \cup {None}]
  /\ tree \subseteq Sids /\ main \in {None, forge}

LogsTyped ==
  /\ loaded \subseteq F!Threads
  /\ reading \in [F!Threads -> Nat]

\* What the panel asked for came or is on its way; the thread shown was asked for.
LogsKnown ==
  /\ \A key \in loaded : key \in settled \/ reading[key] > 0
  /\ F!Shown \subseteq loaded

ParkedApart ==
  /\ parked \in [Sids -> Crew \cup {None}]
  /\ \A sid \in Sids \ misled : parked[sid] # RootOf(sid)
  /\ onScreen # None => F!RootAgent \in {None, RootOf(onScreen)} \/ onScreen \in misled

SumOf(f, set) == F!MapThenSumSet(LAMBDA x : f[x], set)

PulledBy(others) == SumOf(pulls, others)

\* The ask that pulled last is not the one that pulls next.
PullsCounted ==
  /\ pulls \in [{q1, q2} -> Nat] /\ opened \in Nat
  /\ \A call \in {q1, q2} :
       pulls[call] + (IF jumped = call THEN 0 ELSE 1) <= opened + PulledBy({q1, q2} \ {call})

FocusInv == FocusTyped /\ LogsTyped /\ LogsKnown /\ ParkedApart /\ PullsCounted

-------------------------------------------------------------------------------
LEMMA NoOthers == ASSUME NEW f PROVE SumOf(f, {}) = 0
<1> DEFINE body(g) == [s \in SUBSET {} |-> IF s = {} THEN 0
                        ELSE LET x == CHOOSE x \in s : TRUE IN f[x] + g[s \ {x}]]
<1> DEFINE iter == CHOOSE g : g = body(g)
<1>1. SumOf(f, {}) = iter[{}]
  BY DEF SumOf, F!MapThenSumSet, F!MapThenFoldSet
<1>2. body([s \in {{}} |-> 0]) = [s \in {{}} |-> 0]
  OBVIOUS
<1>3. iter = body(iter)
  BY <1>2
<1>4. body(iter)[{}] = 0
  OBVIOUS
<1> QED
  BY <1>1, <1>3, <1>4

LEMMA OneOther == ASSUME NEW f, NEW o, f[o] \in Nat PROVE SumOf(f, {o}) = f[o]
<1> DEFINE body(g) == [s \in SUBSET {o} |-> IF s = {} THEN 0
                        ELSE LET x == CHOOSE x \in s : TRUE IN f[x] + g[s \ {x}]]
<1> DEFINE iter == CHOOSE g : g = body(g)
<1> DEFINE sum == [s \in SUBSET {o} |-> IF s = {} THEN 0 ELSE f[o]]
<1>1. SumOf(f, {o}) = iter[{o}]
  BY DEF SumOf, F!MapThenSumSet, F!MapThenFoldSet
<1>2. \A s \in SUBSET {o} : s # {} => s = {o} /\ (CHOOSE x \in s : TRUE) = o /\ s \ {o} = {}
  OBVIOUS
<1>3. body(sum) = sum
  <2>1. ASSUME NEW s \in SUBSET {o} PROVE body(sum)[s] = sum[s]
    <3>1. CASE s = {}
      BY <3>1
    <3>2. CASE s # {}
      <4>1. body(sum)[s] = f[o] + sum[{}]
        BY <1>2, <3>2
      <4>2. sum[{}] = 0 /\ sum[s] = f[o]
        BY <3>2
      <4> QED
        BY <4>1, <4>2
    <3> QED
      BY <3>1, <3>2
  <2> QED
    BY <2>1
<1>4. iter = body(iter)
  BY <1>3
<1>5. \A g : body(g)[{}] = 0
  OBVIOUS
<1>6. \A g : body(g)[{o}] = f[o] + g[{}]
  BY <1>2
<1> HIDE DEF body, iter
<1>7. iter[{}] = 0
  BY <1>4, <1>5
<1>8. iter[{o}] = f[o] + iter[{}]
  BY <1>4, <1>6
<1> QED
  BY <1>1, <1>7, <1>8

\* The pulls of the other ask, if there is one.
LEMMA TheOthers ==
  ASSUME NEW f, f \in [{q1, q2} -> Nat], NEW call \in {q1, q2}, NEW other \in {q1, q2},
         other # call \/ q1 = q2
  PROVE  SumOf(f, {q1, q2} \ {call}) = IF other = call THEN 0 ELSE f[other]
<1>1. CASE other = call
  <2>1. {q1, q2} \ {call} = {}
    BY <1>1
  <2> QED
    BY <1>1, <2>1, NoOthers
<1>2. CASE other # call
  <2>1. {q1, q2} \ {call} = {other}
    BY <1>2
  <2> QED
    BY <1>2, <2>1, OneOther
<1> QED
  BY <1>1, <1>2

LEMMA OthersCount ==
  ASSUME NEW f, f \in [{q1, q2} -> Nat], NEW call \in {q1, q2}
  PROVE  SumOf(f, {q1, q2} \ {call}) \in Nat
<1>1. PICK other \in {q1, q2} : other # call \/ q1 = q2
  OBVIOUS
<1>2. SumOf(f, {q1, q2} \ {call}) = IF other = call THEN 0 ELSE f[other]
  BY <1>1, TheOthers
<1> QED
  BY <1>2

LEMMA FocusInitKeeps == ASSUME TabsHaveRoots, F!Init PROVE FocusInv
<1> USE DEF F!Init
<1>1. FocusTyped /\ LogsTyped
  BY DEF FocusTyped, LogsTyped
<1>2. LogsKnown
  BY DEF LogsKnown, F!Shown
<1>3. ParkedApart
  BY DEF ParkedApart, TabsHaveRoots, RootOf
<1>4. PullsCounted
  <2>1. \A call \in {q1, q2} : PulledBy({q1, q2} \ {call}) \in Nat
    BY OthersCount DEF PulledBy
  <2> QED
    BY <2>1 DEF PullsCounted
<1> QED
  BY <1>1, <1>2, <1>3, <1>4 DEF FocusInv

-------------------------------------------------------------------------------
\* The effects of a render, whatever the step of the shell.
LEMMA EffectsKeep ==
  ASSUME TabsHaveRoots, FocusTyped', LogsTyped,
         NEW before, before \in [Sids -> Crew \cup {None}],
         \A sid \in Sids \ misled : before[sid] # RootOf(sid),
         NEW asked, asked \subseteq F!Threads,
         \A key \in asked : key[1] \in open' => key \in settled' \/ reading[key] > 0,
         F!EffectsOn(before, asked)
  PROVE  LogsTyped' /\ LogsKnown' /\ ParkedApart'
<1> DEFINE seat == IF onScreen' = None THEN None ELSE bound'[onScreen']
<1> DEFINE head == F!RootIn(onScreen', tree', main')
<1> DEFINE fresh == F!Shown' \ asked
<1>1. F!Shown' \subseteq F!Threads /\ \A key \in F!Shown' : key[1] \in open' /\ F!Shown' = {key}
  BY DEF F!Shown, FocusTyped, F!Threads, Crew
<1>2. loaded' = {key \in asked \cup F!Shown' : key[1] \in open'}
  BY DEF F!EffectsOn, F!Kept
<1>3. reading' = IF fresh = {} THEN reading
                 ELSE [reading EXCEPT ![CHOOSE key \in fresh : TRUE] = @ + 1]
  BY DEF F!EffectsOn, F!Counted
<1>4. \A key \in fresh : (CHOOSE other \in fresh : TRUE) = key
  BY <1>1
<1>5. LogsTyped'
  <2>1. fresh # {} => (CHOOSE key \in fresh : TRUE) \in F!Threads
    BY <1>1
  <2> HIDE DEF fresh
  <2> QED
    BY <1>1, <1>2, <1>3, <2>1 DEF LogsTyped
<1>6. \A key \in F!Threads : reading'[key] >= reading[key]
  BY <1>3, <1>4, <1>1 DEF LogsTyped
<1>7. \A key \in fresh : reading'[key] > 0
  <2> SUFFICES ASSUME NEW key \in fresh PROVE reading'[key] > 0
    OBVIOUS
  <2>1. reading' = [reading EXCEPT ![key] = @ + 1] /\ key \in F!Threads
    BY <1>1, <1>3, <1>4
  <2> QED
    BY <2>1 DEF LogsTyped
<1>8. LogsKnown'
  <2>1. ASSUME NEW key \in loaded' PROVE key \in settled' \/ reading'[key] > 0
    BY <1>2, <1>5, <1>6, <1>7, <2>1 DEF LogsTyped
  <2> QED
    BY <1>1, <1>2, <2>1 DEF LogsKnown
<1>9. ParkedApart'
  <2>1. onScreen' # None => F!RootIn(onScreen', tree', main') \in {None, RootOf(onScreen')} \/ onScreen' \in misled'
    BY DEF F!EffectsOn, F!RootIn, RootOf, FocusTyped, TabsHaveRoots
  <2>2. /\ misled \subseteq misled'
        /\ parked' = F!Remembered(before, onScreen', seat, head)
    BY DEF F!EffectsOn
  <2>3. parked' \in [Sids -> Crew \cup {None}]
    BY <2>2 DEF F!Remembered, FocusTyped
  <2>4. ASSUME NEW sid \in Sids \ misled' PROVE parked'[sid] # RootOf(sid)
    <3>1. CASE parked' = before
      BY <2>2, <2>4, <3>1
    <3>2. CASE parked' # before
      <4>1. None \notin {onScreen', seat, head} /\ seat # head /\ parked' = [before EXCEPT ![onScreen'] = seat]
        BY <2>2, <3>2 DEF F!Remembered
      <4> HIDE DEF seat
      <4> QED
        BY <2>1, <2>2, <2>4, <4>1
    <3> QED
      BY <3>1, <3>2
  <2> QED
    BY <2>1, <2>3, <2>4 DEF ParkedApart, F!RootAgent
<1> QED
  BY <1>5, <1>8, <1>9

\* The steps of the shell that leave the asks alone.
LEMMA ShellKeeps ==
  ASSUME TabsHaveRoots, FocusInv, FocusTyped',
         \A key \in loaded : key[1] \in open' => (key \in settled => key \in settled'),
         \/ F!Effects
         \/ F!EffectsOn([sid \in Sids |-> None], {})
  PROVE  LogsTyped' /\ LogsKnown' /\ ParkedApart'
<1>1. CASE F!Effects
  BY <1>1, EffectsKeep DEF F!Effects, FocusInv, LogsTyped, LogsKnown, ParkedApart
<1>2. CASE F!EffectsOn([sid \in Sids |-> None], {})
  <2>1. [sid \in Sids |-> None] \in [Sids -> Crew \cup {None}]
    OBVIOUS
  <2>2. \A sid \in Sids : None # RootOf(sid)
    BY DEF TabsHaveRoots, RootOf
  <2> QED
    BY <1>2, <2>1, <2>2, EffectsKeep DEF FocusInv
<1> QED
  BY <1>1, <1>2

LEMMA CountKept ==
  ASSUME PullsCounted, UNCHANGED pulls,
         \/ UNCHANGED <<jumped, opened>>
         \/ opened' = opened + 1
  PROVE  PullsCounted'
<1>1. \A call \in {q1, q2} : (PulledBy({q1, q2} \ {call}))' = PulledBy({q1, q2} \ {call})
  BY DEF PulledBy
<1>2. \A call \in {q1, q2} : PulledBy({q1, q2} \ {call}) \in Nat
  BY OthersCount DEF PullsCounted, PulledBy
<1> QED
  BY <1>1, <1>2 DEF PullsCounted

LEMMA TabsKeep ==
  ASSUME TabsHaveRoots, FocusInv,
         F!OpenTab \/ F!CloseTab \/ F!SelectSession \/ F!TreeChanges \/ F!CatalogAnswers \/ F!Remount
  PROVE  FocusInv'
<1> USE DEF FocusInv
<1>1. FocusTyped'
  BY DEF FocusTyped, F!OpenTab, F!CloseTab, F!SelectSession, F!TreeChanges, F!CatalogAnswers, F!Remount, Crew
<1>2. PullsCounted'
  BY CountKept DEF F!OpenTab, F!CloseTab, F!SelectSession, F!TreeChanges, F!CatalogAnswers, F!Remount
<1>3. \A key \in loaded : key[1] \in open' => (key \in settled => key \in settled')
  BY DEF F!OpenTab, F!CloseTab, F!SelectSession, F!TreeChanges, F!CatalogAnswers, F!Remount
<1>4. F!Effects \/ F!EffectsOn([sid \in Sids |-> None], {})
  BY DEF F!OpenTab, F!CloseTab, F!SelectSession, F!TreeChanges, F!CatalogAnswers, F!Remount
<1> QED
  BY <1>1, <1>2, <1>3, <1>4, ShellKeeps

\* A tab gets another agent.
LEMMA SetTabAgentKeeps ==
  ASSUME TabsHaveRoots, FocusInv, NEW to, to \in Crew \cup {None},
         F!SetTabAgent(onScreen, to), UNCHANGED settled
  PROVE  FocusTyped' /\ LogsTyped' /\ LogsKnown' /\ ParkedApart'
<1>1. FocusTyped'
  BY DEF FocusInv, FocusTyped, F!SetTabAgent
<1> QED
  BY <1>1, ShellKeeps DEF F!SetTabAgent

LEMMA MovesKeep ==
  ASSUME TabsHaveRoots, FocusInv, F!OpenAgent \/ F!BackToMain \/ F!ReturnToSub
  PROVE  FocusInv'
<1>1. PullsCounted'
  BY CountKept DEF FocusInv, F!OpenAgent, F!BackToMain, F!ReturnToSub, F!SetTabAgent
<1>2. CASE F!OpenAgent
  BY <1>1, <1>2, SetTabAgentKeeps DEF F!OpenAgent, FocusInv, Crew
<1>3. CASE F!BackToMain
  <2>1. F!RootAgent \in Crew \cup {None}
    BY <1>3 DEF F!BackToMain, F!RootAgent, F!RootIn, FocusInv, FocusTyped, Crew, TabsHaveRoots
  <2> QED
    BY <1>1, <1>3, <2>1, SetTabAgentKeeps DEF F!BackToMain, FocusInv
<1>4. CASE F!ReturnToSub
  <2>1. parked[onScreen] \in Crew \cup {None}
    BY <1>4 DEF F!ReturnToSub, FocusInv, FocusTyped, ParkedApart
  <2> QED
    BY <1>1, <1>4, <2>1, SetTabAgentKeeps DEF F!ReturnToSub, FocusInv
<1> QED
  BY <1>2, <1>3, <1>4

LEMMA HandoffKeeps == ASSUME TabsHaveRoots, FocusInv, F!Handoff PROVE FocusInv'
<1> USE DEF FocusInv, F!Handoff, F!shell
<1>1. FocusTyped' /\ LogsTyped'
  BY DEF FocusTyped, LogsTyped
<1>2. LogsKnown'
  BY DEF LogsKnown, F!Shown
<1>3. PullsCounted'
  BY CountKept
<1>4. ParkedApart'
  <2>1. PICK to \in Crew : parked' = F!Remembered(parked, onScreen, to, F!RootAgent)
    BY DEF Crew
  <2>2. \/ parked' = parked
        \/ F!RootAgent \notin {None, to} /\ onScreen # None /\ parked' = [parked EXCEPT ![onScreen] = to]
    BY <2>1 DEF F!Remembered
  <2>3. F!RootAgent' = F!RootAgent
    BY DEF F!RootAgent, F!RootIn
  <2> QED
    BY <2>2, <2>3 DEF ParkedApart, FocusTyped
<1> QED
  BY <1>1, <1>2, <1>3, <1>4

LEMMA AskFrameKeeps == ASSUME TabsHaveRoots, FocusInv, F!AskFrame PROVE FocusInv'
<1>1. PICK call \in {q1, q2} :
        /\ jumped # call /\ jumped' = call
        /\ pulls' = [pulls EXCEPT ![call] = @ + 1]
        /\ F!SetTabAgent(onScreen, mochi)
        /\ UNCHANGED <<settled, opened>>
  BY DEF F!AskFrame
<1>2. FocusTyped' /\ LogsTyped' /\ LogsKnown' /\ ParkedApart'
  BY <1>1, SetTabAgentKeeps DEF Crew
<1>3. PICK other \in {q1, q2} : other # call \/ q1 = q2
  OBVIOUS
<1>4. pulls' \in [{q1, q2} -> Nat] /\ opened' \in Nat
  BY <1>1 DEF FocusInv, PullsCounted
<1>5. PulledBy({q1, q2} \ {call}) = (IF other = call THEN 0 ELSE pulls[other])
  BY <1>3, TheOthers DEF FocusInv, PullsCounted, PulledBy
<1>6. PulledBy({q1, q2} \ {call})' = (IF other = call THEN 0 ELSE pulls'[other])
  BY <1>3, <1>4, TheOthers DEF PulledBy
<1>7. other # call => PulledBy({q1, q2} \ {other}) = pulls[call] /\ PulledBy({q1, q2} \ {other})' = pulls'[call]
  BY <1>4, TheOthers DEF FocusInv, PullsCounted, PulledBy
<1>8. \A c \in {q1, q2} : c = call \/ c = other
  BY <1>3
<1>9. pulls'[call] = pulls[call] + 1 /\ (other # call => pulls'[other] = pulls[other])
  BY <1>1 DEF FocusInv, PullsCounted
<1>10. PullsCounted'
  <2>1. pulls'[call] <= opened' + PulledBy({q1, q2} \ {call})'
    BY <1>1, <1>3, <1>4, <1>5, <1>6, <1>9 DEF FocusInv, PullsCounted
  <2>2. other # call => pulls'[other] + 1 <= opened' + PulledBy({q1, q2} \ {other})'
    BY <1>1, <1>4, <1>7, <1>9 DEF FocusInv, PullsCounted
  <2>3. ASSUME NEW c \in {q1, q2}
        PROVE  pulls'[c] + (IF jumped' = c THEN 0 ELSE 1) <= opened' + PulledBy({q1, q2} \ {c})'
    <3>1. CASE c = call
      BY <1>1, <1>4, <2>1, <3>1
    <3>2. CASE c = other /\ other # call
      BY <1>1, <1>4, <2>2, <3>2
    <3> QED
      BY <1>8, <3>1, <3>2
  <2> QED
    BY <1>4, <2>3 DEF PullsCounted
<1> QED
  BY <1>2, <1>10 DEF FocusInv

LEMMA LogSettledKeeps == ASSUME FocusInv, F!LogSettled PROVE FocusInv'
<1> USE DEF FocusInv, F!LogSettled, F!shell
<1>1. FocusTyped' /\ LogsTyped'
  BY DEF FocusTyped, LogsTyped
<1>2. LogsKnown'
  BY DEF LogsKnown, F!Shown, LogsTyped
<1>3. PullsCounted'
  BY CountKept
<1>4. ParkedApart'
  BY DEF ParkedApart, F!RootAgent, F!RootIn
<1> QED
  BY <1>1, <1>2, <1>3, <1>4

LEMMA FocusNextKeeps == ASSUME TabsHaveRoots, FocusInv, F!Next PROVE FocusInv'
BY TabsKeep, MovesKeep, HandoffKeeps, AskFrameKeeps, LogSettledKeeps DEF F!Next

LEMMA FocusStepKeeps ==
  ASSUME TabsHaveRoots, FocusInv, [MCNext]_<<focus, panelVars, sideVars>>
  PROVE  FocusInv'
<1>1. F!Next \/ UNCHANGED threadVars
  BY DEF MCNext, panelVars
<1>2. CASE UNCHANGED threadVars
  <2>1. FocusTyped' /\ LogsTyped'
    BY <1>2 DEF threadVars, FocusInv, FocusTyped, LogsTyped
  <2>2. LogsKnown' /\ ParkedApart'
    BY <1>2 DEF threadVars, FocusInv, LogsKnown, F!Shown, ParkedApart, F!RootAgent, F!RootIn
  <2>3. PullsCounted'
    BY <1>2, CountKept DEF threadVars, FocusInv
  <2> QED
    BY <2>1, <2>2, <2>3 DEF FocusInv
<1> QED
  BY <1>1, <1>2, FocusNextKeeps

\* The log of the thread on screen is in the store, on its way, or could not be had; a parked
\* agent is a teammate; and the frames of one ask pull the focus once per mounted panel
\* unless another ask pulled in between (ChatPanel.tsx, handoff-focus.ts, use-agent-thread.ts).
THEOREM FocusIsKept == MCSpec => []FocusKept
<1> USE PanelAssumption DEF PanelAssumption, TabsHaveRoots
<1>1. MCInit => FocusInv
  BY FocusInitKeeps DEF MCInit
<1>2. FocusInv /\ [MCNext]_<<focus, panelVars, sideVars>> => FocusInv'
  BY FocusStepKeeps
<1>3. FocusInv => FocusKept
  <2> SUFFICES ASSUME FocusInv PROVE FocusKept
    OBVIOUS
  <2>1. F!ShownIsLoaded
    BY DEF FocusInv, LogsKnown, F!ShownIsLoaded
  <2>2. F!ParkedIsTeammate
    BY DEF FocusInv, ParkedApart, F!ParkedIsTeammate, RootOf, TabsHaveRoots
  <2>3. F!PulledOnce
    <3>1. \A call \in {q1, q2} : pulls[call] <= opened + PulledBy({q1, q2} \ {call})
      <4> SUFFICES ASSUME NEW call \in {q1, q2}
                   PROVE  pulls[call] <= opened + PulledBy({q1, q2} \ {call})
        OBVIOUS
      <4>1. PulledBy({q1, q2} \ {call}) \in Nat
        BY OthersCount DEF FocusInv, PullsCounted, PulledBy
      <4>2. /\ pulls[call] \in Nat /\ opened \in Nat
            /\ \/ pulls[call] + 0 <= opened + PulledBy({q1, q2} \ {call})
               \/ pulls[call] + 1 <= opened + PulledBy({q1, q2} \ {call})
        BY DEF FocusInv, PullsCounted
      <4> QED
        BY <4>1, <4>2
    <3>2. \A set : PulledBy(set) = F!MapThenSumSet(LAMBDA other : pulls[other], set)
      BY DEF PulledBy, SumOf
    <3> QED
      BY <3>1, <3>2 DEF F!PulledOnce
  <2> QED
    BY <2>1, <2>2, <2>3 DEF FocusKept, F!FocusKept
<1> QED
  BY <1>1, <1>2, <1>3, PTL DEF MCSpec

-------------------------------------------------------------------------------
\* The warm-up.

Cycles == [route : Routes, attempt : Nat, waits : BOOLEAN]

WarmTyped == /\ route \in Routes \cup {None} /\ ready \in BOOLEAN
          /\ timer \in Routes \cup {None}
          /\ cycles \subseteq Cycles
          /\ failures \in [Providers -> Nat]

Providing(c) == c.route.provider

\* The sets that keep cycles apart say what is under way, and nothing else.
Apart ==
  /\ \A c, d \in cycles : Providing(c) = Providing(d) => c = d
  /\ inFlight = {c.route : c \in cycles}
  /\ providerInFlight = {Providing(c) : c \in cycles}

Welcome == \A c \in cycles : c.route \notin succeeded /\ Providing(c) \notin cooldowns

\* The failures of a provider are those of its cycle, none without one, and no more than
\* a cycle has while it is left alone.
Counted ==
  /\ \A c \in cycles : /\ c.attempt \in 1..MaxAttempts
                       /\ c.waits => c.attempt < MaxAttempts
                       /\ failures[Providing(c)] = IF c.waits THEN c.attempt ELSE c.attempt - 1
  /\ \A p \in Providers \ providerInFlight : p \notin cooldowns => failures[p] = 0
  /\ \A p \in Providers \cap cooldowns : failures[p] <= MaxAttempts

WarmInv == WarmTyped /\ Apart /\ Welcome /\ Counted

LEMMA WarmInitKeeps == Init => WarmInv
<1> SUFFICES ASSUME Init PROVE WarmInv
  OBVIOUS
<1>1. WarmTyped
  BY DEF Init, WarmTyped
<1>2. Apart /\ Welcome /\ Counted
  BY DEF Init, Apart, Welcome, Counted
<1> QED
  BY <1>1, <1>2 DEF WarmInv

\* A change of the route touches its timer only.
LEMMA RerunStep ==
  ASSUME WarmInv, NEW next \in Routes \cup {None}, NEW is \in BOOLEAN, Rerun(next, is)
  PROVE  WarmInv'
<1>1. WarmTyped'
  BY DEF WarmInv, WarmTyped, Rerun
<1>2. Apart' /\ Welcome' /\ Counted'
  BY DEF WarmInv, Apart, Welcome, Counted, Rerun, Providing
<1> QED
  BY <1>1, <1>2 DEF WarmInv

\* A cycle begins for a provider that has none, does not cool and has no failures.
LEMMA TimerStep ==
  ASSUME MaxAttempts \in Nat \ {0}, WarmInv, TimerFires
  PROVE  WarmInv'
<1> DEFINE new == [route |-> timer, attempt |-> 1, waits |-> FALSE]
<1>1. CASE MayStart(timer)
  <2>1. timer \in Routes
    BY DEF WarmInv, WarmTyped, TimerFires
  <2>2. /\ new \in Cycles /\ new.route = timer /\ new.attempt = 1 /\ ~new.waits
        /\ timer.provider \in Providers
    BY <2>1 DEF Cycles, Routes
  <2> HIDE DEF new
  <2>3. /\ cycles' = cycles \cup {new} /\ inFlight' = inFlight \cup {timer}
        /\ providerInFlight' = providerInFlight \cup {timer.provider}
        /\ timer' = None
        /\ UNCHANGED <<route, ready, succeeded, cooldowns, failures>>
    BY <1>1 DEF TimerFires, new
  <2>4. WarmTyped'
    BY <2>2, <2>3 DEF WarmInv, WarmTyped
  <2>5. \A c \in cycles : Providing(c) # timer.provider
    BY <1>1 DEF WarmInv, Apart, MayStart
  <2>6. Apart'
    BY <2>2, <2>3, <2>5 DEF WarmInv, Apart, Providing
  <2>7. Welcome'
    BY <1>1, <2>2, <2>3 DEF WarmInv, Welcome, MayStart, Providing
  <2>8. failures[timer.provider] = 0
    BY <1>1, <2>2 DEF WarmInv, Counted, MayStart
  <2>9. Counted'
    <3>1. \A c \in cycles' : /\ c.attempt \in 1..MaxAttempts
                             /\ c.waits => c.attempt < MaxAttempts
                             /\ failures'[Providing(c)] = IF c.waits THEN c.attempt ELSE c.attempt - 1
      BY <2>2, <2>3, <2>8 DEF WarmInv, Counted, Providing
    <3>2. /\ \A p \in Providers \ providerInFlight' : p \notin cooldowns' => failures'[p] = 0
          /\ \A p \in Providers \cap cooldowns' : failures'[p] <= MaxAttempts
      BY <2>3 DEF WarmInv, Counted
    <3> QED
      BY <3>1, <3>2 DEF Counted
  <2> QED
    BY <2>4, <2>6, <2>7, <2>9 DEF WarmInv
<1>2. CASE ~MayStart(timer)
  <2>1. UNCHANGED <<cycles, inFlight, providerInFlight, route, ready, succeeded, cooldowns, failures>>
        /\ timer' = None
    BY <1>2 DEF TimerFires
  <2>2. WarmTyped'
    BY <2>1 DEF WarmInv, WarmTyped
  <2>3. Apart' /\ Welcome' /\ Counted'
    BY <2>1 DEF WarmInv, Apart, Welcome, Counted, Providing
  <2> QED
    BY <2>2, <2>3 DEF WarmInv
<1> QED
  BY <1>1, <1>2

\* What a cycle leaves behind when it ends.
LEMMA EndedApart ==
  ASSUME Apart, NEW c \in cycles, Ended(c)
  PROVE  /\ Apart'
         /\ providerInFlight' = providerInFlight \ {Providing(c)}
         /\ \A d \in cycles' : d \in cycles /\ Providing(d) # Providing(c) /\ d.route # c.route
<1>1. \A d \in cycles' : d \in cycles /\ Providing(d) # Providing(c) /\ d.route # c.route
  BY DEF Apart, Ended, Providing
<1>2. inFlight' = {d.route : d \in cycles'}
  BY <1>1 DEF Apart, Ended
<1>3. providerInFlight' = {Providing(d) : d \in cycles'}
  BY <1>1 DEF Apart, Ended, Providing
<1> QED
  BY <1>1, <1>2, <1>3 DEF Apart, Ended, Providing

LEMMA WarmedStep ==
  ASSUME WarmInv, NEW c \in cycles, Warmed(c)
  PROVE  WarmInv'
<1>1. /\ Ended(c) /\ succeeded' = succeeded \cup {c.route}
      /\ failures' = [failures EXCEPT ![Providing(c)] = 0]
      /\ UNCHANGED <<route, ready, timer, cooldowns>>
  BY DEF Warmed, Providing
<1>2. /\ Apart' /\ providerInFlight' = providerInFlight \ {Providing(c)}
      /\ \A d \in cycles' : d \in cycles /\ Providing(d) # Providing(c) /\ d.route # c.route
  BY <1>1, EndedApart DEF WarmInv
<1>3. Providing(c) \in Providers
  BY DEF WarmInv, WarmTyped, Cycles, Routes, Providing
<1>4. WarmTyped'
  BY <1>1, <1>2, <1>3 DEF WarmInv, WarmTyped
<1>5. Welcome'
  BY <1>1, <1>2 DEF WarmInv, Welcome, Providing
<1>6. \A p \in Providers : p # Providing(c) => failures'[p] = failures[p]
  BY <1>1 DEF WarmInv, WarmTyped
<1>7. failures'[Providing(c)] = 0
  BY <1>1, <1>3 DEF WarmInv, WarmTyped
<1>8. Counted'
  <2>1. \A d \in cycles : Providing(d) \in Providers
    BY DEF WarmInv, WarmTyped, Cycles, Routes, Providing
  <2>2. \A d \in cycles' : /\ d.attempt \in 1..MaxAttempts
                           /\ d.waits => d.attempt < MaxAttempts
                           /\ failures'[Providing(d)] = IF d.waits THEN d.attempt ELSE d.attempt - 1
    BY <1>2, <1>6, <2>1 DEF WarmInv, Counted
  <2>3. \A p \in Providers \ providerInFlight' : p \notin cooldowns' => failures'[p] = 0
    BY <1>1, <1>2, <1>6, <1>7 DEF WarmInv, Counted
  <2>4. \A p \in Providers \cap cooldowns' : failures'[p] <= MaxAttempts
    BY <1>1, <1>6 DEF WarmInv, Counted, Welcome
  <2> QED
    BY <2>2, <2>3, <2>4 DEF Counted
<1> QED
  BY <1>2, <1>4, <1>5, <1>8 DEF WarmInv

\* A cycle that goes on with its next state: it keeps its route.
LEMMA OnwardApart ==
  ASSUME Apart, Welcome, NEW c \in cycles, NEW d, d.route = c.route,
         cycles' = (cycles \ {c}) \cup {d},
         UNCHANGED <<inFlight, providerInFlight, succeeded, cooldowns>>
  PROVE  /\ Apart' /\ Welcome'
         /\ \A e \in cycles' : e # d => e \in cycles /\ Providing(e) # Providing(c)
<1>1. \A e \in cycles' : e # d => e \in cycles /\ Providing(e) # Providing(c)
  BY DEF Apart, Providing
<1>2. Providing(d) = Providing(c)
  BY DEF Providing
<1>3. \A e, f \in cycles' : Providing(e) = Providing(f) => e = f
  BY <1>1, <1>2 DEF Apart
<1>4. inFlight' = {e.route : e \in cycles'}
  BY DEF Apart
<1>5. providerInFlight' = {Providing(e) : e \in cycles'}
  BY <1>2 DEF Apart
<1>6. Welcome'
  BY <1>2 DEF Welcome
<1> QED
  BY <1>1, <1>3, <1>4, <1>5, <1>6 DEF Apart

LEMMA FailedStep ==
  ASSUME MaxAttempts \in Nat \ {0}, WarmInv, NEW c \in cycles, Failed(c)
  PROVE  WarmInv'
<1> DEFINE p == Providing(c)
           d == [c EXCEPT !.waits = TRUE]
<1>1. /\ c \in Cycles /\ p \in Providers /\ ~c.waits
      /\ c.attempt \in 1..MaxAttempts /\ failures[p] = c.attempt - 1
  BY DEF WarmInv, WarmTyped, Cycles, Routes, Providing, Counted, Failed
<1>2. /\ failures' = [failures EXCEPT ![p] = @ + 1]
      /\ UNCHANGED <<route, ready, timer, succeeded>>
  BY DEF Failed, Providing
<1>3. /\ failures' \in [Providers -> Nat] /\ failures'[p] = c.attempt
      /\ \A q \in Providers : q # p => failures'[q] = failures[q]
  BY <1>1, <1>2 DEF WarmInv, WarmTyped
<1>4. \A e \in cycles : Providing(e) \in Providers
  BY DEF WarmInv, WarmTyped, Cycles, Routes, Providing
<1>5. CASE c.attempt < MaxAttempts
  <2>1. /\ cycles' = (cycles \ {c}) \cup {d}
        /\ UNCHANGED <<inFlight, providerInFlight, cooldowns>>
    BY <1>5 DEF Failed
  <2>2. d \in Cycles /\ d.route = c.route /\ d.waits /\ d.attempt = c.attempt
    BY <1>1 DEF Cycles
  <2> HIDE DEF d
  <2>3. /\ Apart' /\ Welcome'
        /\ \A e \in cycles' : e # d => e \in cycles /\ Providing(e) # p
    BY <1>2, <2>1, <2>2, OnwardApart DEF WarmInv
  <2>4. WarmTyped'
    BY <1>2, <1>3, <2>1, <2>2 DEF WarmInv, WarmTyped
  <2>5. \A e \in cycles' : /\ e.attempt \in 1..MaxAttempts
                           /\ e.waits => e.attempt < MaxAttempts
                           /\ failures'[Providing(e)] = IF e.waits THEN e.attempt ELSE e.attempt - 1
    <3> SUFFICES ASSUME NEW e \in cycles'
                 PROVE  /\ e.attempt \in 1..MaxAttempts
                        /\ e.waits => e.attempt < MaxAttempts
                        /\ failures'[Providing(e)] = IF e.waits THEN e.attempt ELSE e.attempt - 1
      OBVIOUS
    <3>1. CASE e = d
      BY <3>1, <1>1, <1>3, <1>5, <2>2 DEF Providing
    <3>2. CASE e # d
      BY <3>2, <1>3, <1>4, <2>3 DEF WarmInv, Counted
    <3> QED
      BY <3>1, <3>2
  <2>6. p \in providerInFlight /\ p \notin cooldowns
    BY DEF WarmInv, Apart, Welcome
  <2>7. /\ \A q \in Providers \ providerInFlight' : q \notin cooldowns' => failures'[q] = 0
        /\ \A q \in Providers \cap cooldowns' : failures'[q] <= MaxAttempts
    BY <1>3, <2>1, <2>6 DEF WarmInv, Counted
  <2>8. Counted'
    BY <2>5, <2>7 DEF Counted
  <2> QED
    BY <2>3, <2>4, <2>8 DEF WarmInv
<1>6. CASE ~(c.attempt < MaxAttempts)
  <2>1. Ended(c) /\ cooldowns' = cooldowns \cup {p}
    BY <1>6 DEF Failed, Providing
  <2>2. /\ Apart' /\ providerInFlight' = providerInFlight \ {p}
        /\ \A e \in cycles' : e \in cycles /\ Providing(e) # p /\ e.route # c.route
    BY <2>1, EndedApart DEF WarmInv
  <2>3. WarmTyped'
    BY <1>2, <1>3, <2>2 DEF WarmInv, WarmTyped
  <2>4. Welcome'
    BY <1>2, <2>1, <2>2 DEF WarmInv, Welcome
  <2>5. \A e \in cycles' : /\ e.attempt \in 1..MaxAttempts
                           /\ e.waits => e.attempt < MaxAttempts
                           /\ failures'[Providing(e)] = IF e.waits THEN e.attempt ELSE e.attempt - 1
    BY <1>3, <1>4, <2>2 DEF WarmInv, Counted
  <2>6. \A q \in Providers \ providerInFlight' : q \notin cooldowns' => failures'[q] = 0
    BY <1>3, <2>1, <2>2 DEF WarmInv, Counted
  <2>7. \A q \in Providers \cap cooldowns' : failures'[q] <= MaxAttempts
    BY <1>1, <1>3, <2>1 DEF WarmInv, Counted
  <2>8. Counted'
    BY <2>5, <2>6, <2>7 DEF Counted
  <2> QED
    BY <2>2, <2>3, <2>4, <2>8 DEF WarmInv
<1> QED
  BY <1>5, <1>6

LEMMA RetriesStep ==
  ASSUME WarmInv, NEW c \in cycles, Retries(c), MaxAttempts \in Nat \ {0}
  PROVE  WarmInv'
<1> DEFINE d == [route |-> c.route, attempt |-> c.attempt + 1, waits |-> FALSE]
<1>1. /\ c \in Cycles /\ c.waits /\ c.attempt \in 1..MaxAttempts /\ c.attempt < MaxAttempts
      /\ failures[Providing(c)] = c.attempt
  BY DEF WarmInv, WarmTyped, Counted, Retries
<1>2. /\ cycles' = (cycles \ {c}) \cup {d}
      /\ UNCHANGED <<route, ready, timer, inFlight, providerInFlight, succeeded, cooldowns, failures>>
  BY DEF Retries
<1>3. d \in Cycles /\ d.route = c.route /\ ~d.waits /\ d.attempt = c.attempt + 1
  BY <1>1 DEF Cycles
<1> HIDE DEF d
<1>4. /\ Apart' /\ Welcome'
      /\ \A e \in cycles' : e # d => e \in cycles /\ Providing(e) # Providing(c)
  BY <1>2, <1>3, OnwardApart DEF WarmInv
<1>5. WarmTyped'
  BY <1>2, <1>3 DEF WarmInv, WarmTyped
<1>6. Counted'
  <2>1. \A e \in cycles' : /\ e.attempt \in 1..MaxAttempts
                           /\ e.waits => e.attempt < MaxAttempts
                           /\ failures'[Providing(e)] = IF e.waits THEN e.attempt ELSE e.attempt - 1
    <3> SUFFICES ASSUME NEW e \in cycles'
                 PROVE  /\ e.attempt \in 1..MaxAttempts
                        /\ e.waits => e.attempt < MaxAttempts
                        /\ failures'[Providing(e)] = IF e.waits THEN e.attempt ELSE e.attempt - 1
      OBVIOUS
    <3>1. CASE e = d
      BY <3>1, <1>1, <1>2, <1>3 DEF Providing
    <3>2. CASE e # d
      BY <3>2, <1>2, <1>4 DEF WarmInv, Counted
    <3> QED
      BY <3>1, <3>2
  <2> QED
    BY <1>2, <2>1 DEF WarmInv, Counted
<1> QED
  BY <1>4, <1>5, <1>6 DEF WarmInv

LEMMA CooledStep ==
  ASSUME WarmInv, MaxAttempts \in Nat \ {0}, NEW p \in Providers, Cooled(p)
  PROVE  WarmInv'
<1>1. /\ p \in cooldowns /\ cooldowns' = cooldowns \ {p}
      /\ failures' = [failures EXCEPT ![p] = 0]
      /\ UNCHANGED <<route, ready, timer, cycles, inFlight, providerInFlight, succeeded>>
  BY DEF Cooled
<1>2. WarmTyped'
  BY <1>1 DEF WarmInv, WarmTyped
<1>3. Apart' /\ Welcome'
  BY <1>1 DEF WarmInv, Apart, Welcome, Providing
<1>4. \A c \in cycles : Providing(c) \in Providers /\ Providing(c) # p
  BY <1>1 DEF WarmInv, WarmTyped, Cycles, Routes, Providing, Welcome
<1>5. failures'[p] = 0 /\ \A q \in Providers : q # p => failures'[q] = failures[q]
  BY <1>1 DEF WarmInv, WarmTyped
<1>6. Counted'
  <2>1. \A c \in cycles' : /\ c.attempt \in 1..MaxAttempts
                           /\ c.waits => c.attempt < MaxAttempts
                           /\ failures'[Providing(c)] = IF c.waits THEN c.attempt ELSE c.attempt - 1
    BY <1>1, <1>4, <1>5 DEF WarmInv, Counted
  <2>2. \A q \in Providers \ providerInFlight' : q \notin cooldowns' => failures'[q] = 0
    BY <1>1, <1>5 DEF WarmInv, Counted
  <2>3. \A q \in Providers \cap cooldowns' : failures'[q] <= MaxAttempts
    BY <1>1, <1>5 DEF WarmInv, Counted
  <2> QED
    BY <2>1, <2>2, <2>3 DEF Counted
<1> QED
  BY <1>2, <1>3, <1>6 DEF WarmInv

LEMMA WarmStepKeeps ==
  ASSUME MaxAttempts \in Nat \ {0}, WarmInv, [Next]_warmVars
  PROVE  WarmInv'
<1>1. CASE Turn
  BY <1>1, RerunStep DEF Turn, WarmInv, WarmTyped
<1>2. CASE TimerFires
  BY <1>2, TimerStep
<1>3. CASE \E next \in Routes \cup {None} : Show(next)
  BY <1>3, RerunStep DEF Show
<1>4. ASSUME NEW c \in cycles, Warmed(c) PROVE WarmInv'
  BY <1>4, WarmedStep
<1>5. ASSUME NEW c \in cycles, Failed(c) PROVE WarmInv'
  BY <1>5, FailedStep
<1>6. ASSUME NEW c \in cycles, Retries(c) PROVE WarmInv'
  BY <1>6, RetriesStep
<1>7. ASSUME NEW p \in Providers, Cooled(p) PROVE WarmInv'
  BY <1>7, CooledStep
<1>8. CASE UNCHANGED warmVars
  BY <1>8 DEF WarmInv, WarmTyped, Apart, Welcome, Counted, warmVars, Providing
<1> QED
  BY <1>1, <1>2, <1>3, <1>4, <1>5, <1>6, <1>7, <1>8 DEF Next

LEMMA WarmIsSparing ==
  ASSUME MaxAttempts \in Nat \ {0}, WarmInv
  PROVE  WarmSparing
<1>1. ASSUME NEW p \in Providers PROVE failures[p] <= MaxAttempts
  <2>1. CASE p \in cooldowns
    BY <2>1 DEF WarmInv, Counted
  <2>2. CASE p \notin cooldowns /\ p \notin providerInFlight
    BY <2>2 DEF WarmInv, Counted
  <2>3. CASE p \in providerInFlight
    <3>1. PICK c \in cycles : Providing(c) = p
      BY <2>3 DEF WarmInv, Apart
    <3> QED
      BY <3>1 DEF WarmInv, Counted, WarmTyped, Cycles
  <2> QED
    BY <2>1, <2>2, <2>3
<1>2. /\ \A c, d \in cycles : c.route.provider = d.route.provider => c = d
      /\ inFlight = {c.route : c \in cycles}
      /\ providerInFlight = {c.route.provider : c \in cycles}
      /\ \A c \in cycles : c.route \notin succeeded /\ c.route.provider \notin cooldowns
  BY DEF WarmInv, Apart, Welcome, Providing
<1> QED
  BY <1>1, <1>2 DEF WarmSparing

\* One request at a time for a provider, no more failures than a cycle has before it is
\* left alone, none for a route that was warmed, and nothing held back without a cycle
\* (runCliPrewarm, prewarmWithRetry), for any sessions, providers and attempts.
THEOREM ProvidersAreSpared ==
  ASSUME MaxAttempts \in Nat \ {0}
  PROVE  (Spec => []WarmSparing) /\ (MCSpec => []WarmSparing)
<1>1. Init => WarmInv
  BY WarmInitKeeps
<1>2. WarmInv /\ [Next]_warmVars => WarmInv'
  BY WarmStepKeeps
<1>3. WarmInv => WarmSparing
  BY WarmIsSparing
<1>4. MCInit => Init
  BY DEF MCInit
<1>5. [MCNext]_<<focus, panelVars, sideVars>> => [Next]_warmVars
  BY DEF MCNext, sideVars
<1> QED
  BY <1>1, <1>2, <1>3, <1>4, <1>5, PTL DEF Spec, MCSpec

-------------------------------------------------------------------------------
\* Scrolling.

Row == [user : BOOLEAN, length : Nat]

LEMMA LeastElement ==
  ASSUME NEW I, I \subseteq Nat, I # {}
  PROVE  \E x \in I : \A y \in I : x <= y
<1> DEFINE R == OpToRel(<, Nat)
<1>1. \A x, y \in Nat : x < y => <<x, y>> \in R
  BY DEF OpToRel
<1> HIDE DEF R
<1>2. IsWellFoundedOn(R, Nat)
  BY NatLessThanWellFounded DEF R
<1>3. PICK x \in I : \A y \in I : ~ (<<y, x>> \in R)
  BY <1>2, WFMin
<1>4. x \in Nat
  BY <1>3
<1>5. ASSUME NEW y \in I PROVE x <= y
  <2>1. y \in Nat /\ ~ (<<y, x>> \in R)
    BY <1>3
  <2>2. ~ (y < x)
    BY <1>1, <1>4, <2>1
  <2> QED
    BY <1>4, <2>1, <2>2
<1> QED
  BY <1>5

\* What Ends is at a message.
EndOf(s, n, g) == g[n] = IF n = 0 THEN 0 ELSE g[n - 1] + s[n].length

LEMMA EndsUnfold ==
  ASSUME NEW s, Len(s) \in Nat
  PROVE  \A n \in 0..Len(s) : EndOf(s, n, S!Ends(s))
<1> DEFINE body(g) == [n \in 0..Len(s) |-> IF n = 0 THEN 0 ELSE g[n - 1] + s[n].length]
<1> DEFINE ends == CHOOSE g : g = body(g)
<1>1. S!Ends(s) = ends
  BY DEF S!Ends
<1>2. ends = body(ends)
  <2> DEFINE bad == {m \in 0..Len(s) : ~\E g : \A n \in 0..m : EndOf(s, n, g)}
  <2>1. bad = {}
    <3> SUFFICES ASSUME bad # {} PROVE FALSE
      OBVIOUS
    <3>0. bad \subseteq Nat
      OBVIOUS
    <3> HIDE DEF bad
    <3>1. PICK x \in bad : \A y \in bad : x <= y
      BY <3>0, LeastElement
    <3> USE DEF bad
    <3>2. CASE x = 0
      <4>1. \A n \in 0..0 : EndOf(s, n, [k \in {0} |-> 0])
        BY DEF EndOf
      <4> QED
        BY <3>1, <3>2, <4>1
    <3>3. CASE x # 0
      <4>0. x \in Nat /\ x \in 0..Len(s)
        OBVIOUS
      <4>1. x \in Nat /\ x - 1 \in 0..Len(s) /\ x - 1 \notin bad
        <5> HIDE DEF bad
        <5>1. x - 1 \notin bad
          BY <3>1, <4>0
        <5> QED
          BY <3>3, <4>0, <5>1
      <4>2. PICK g : \A n \in 0..x - 1 : EndOf(s, n, g)
        BY <4>1
      <4>3. PICK newest : newest = g[x - 1] + s[x].length
        OBVIOUS
      <4> DEFINE h == [n \in 0..x |-> IF n = x THEN newest ELSE g[n]]
      <4>4. ASSUME NEW n \in 0..x PROVE EndOf(s, n, h)
        <5>1. CASE n = x
          BY <3>3, <4>1, <4>3, <5>1 DEF EndOf
        <5>2. CASE n # x
          <6>1. n \in 0..x - 1 /\ n - 1 # x /\ (n # 0 => n - 1 \in 0..x)
            BY <4>1, <5>2
          <6>2. h[n] = g[n] /\ (n # 0 => h[n - 1] = g[n - 1])
            BY <5>2, <6>1
          <6> QED
            BY <4>2, <6>1, <6>2 DEF EndOf
        <5> QED
          BY <5>1, <5>2
      <4> QED
        BY <3>1, <4>4
    <3> QED
      BY <3>2, <3>3
  <2>2. PICK g : \A n \in 0..Len(s) : EndOf(s, n, g)
    <3>1. Len(s) \in 0..Len(s) /\ Len(s) \notin bad
      BY <2>1
    <3> QED
      BY <3>1
  <2> DEFINE f == [n \in 0..Len(s) |-> g[n]]
  <2>3. ASSUME NEW n \in 0..Len(s) PROVE f[n] = IF n = 0 THEN 0 ELSE f[n - 1] + s[n].length
    <3>1. n # 0 => n - 1 \in 0..Len(s)
      OBVIOUS
    <3> QED
      BY <2>2, <3>1 DEF EndOf
  <2>4. f = body(f)
    <3> HIDE DEF f, ends
    <3>1. PICK e : e = body(f)
      OBVIOUS
    <3>2. f = [n \in 0..Len(s) |-> f[n]]
      BY DEF f
    <3>3. \A n \in 0..Len(s) : f[n] = e[n]
      BY <2>3, <3>1
    <3>4. DOMAIN e = 0..Len(s) /\ e = [n \in 0..Len(s) |-> e[n]]
      BY <3>1
    <3> QED
      BY <3>1, <3>2, <3>3, <3>4
  <2> QED
    BY <2>4, Zenon
<1>3. \A n \in 0..Len(s) : EndOf(s, n, ends)
  BY <1>2 DEF EndOf
<1> QED
  BY <1>1, <1>3

\* A message ends where it begins or further down.
LEMMA EndsGrow ==
  ASSUME NEW s \in Seq(Row)
  PROVE  LET e == S!Ends(s)
         IN  /\ \A n \in 0..Len(s) : e[n] \in Nat
             /\ \A m, n \in 0..Len(s) : m <= n => e[m] <= e[n]
<1>1. PICK e : e = S!Ends(s)
  OBVIOUS
<1>2. Len(s) \in Nat /\ \A n \in 1..Len(s) : s[n].length \in Nat
  <2>1. Len(s) \in Nat /\ \A n \in 1..Len(s) : s[n] \in Row
    OBVIOUS
  <2>2. \A r \in Row : r.length \in Nat
    BY DEF Row
  <2> QED
    BY <2>1, <2>2
<1>3. \A n \in 0..Len(s) : EndOf(s, n, e)
  BY <1>1, <1>2, EndsUnfold
<1> DEFINE right(n) == e[n] \in Nat /\ \A m \in 0..n : e[m] \in Nat /\ e[m] <= e[n]
<1> DEFINE bad == {n \in 0..Len(s) : ~right(n)}
<1>4. right(0)
  BY <1>2, <1>3 DEF EndOf
<1>5. ASSUME NEW n \in 1..Len(s), right(n - 1) PROVE right(n)
  <2>1. n \in 0..Len(s) /\ n # 0 /\ n \in Nat /\ n - 1 \in Nat
    BY <1>2
  <2>2. e[n] = e[n - 1] + s[n].length /\ s[n].length \in Nat
    BY <1>2, <1>3, <2>1 DEF EndOf
  <2>3. e[n] \in Nat /\ e[n - 1] <= e[n]
    BY <1>5, <2>2
  <2>4. ASSUME NEW m \in 0..n PROVE e[m] \in Nat /\ e[m] <= e[n]
    <3>1. CASE m = n
      BY <2>3, <3>1
    <3>2. CASE m # n
      <4>1. m \in 0..n - 1
        BY <2>1, <3>2
      <4>2. e[m] \in Nat /\ e[m] <= e[n - 1] /\ e[n - 1] \in Nat
        BY <1>5, <4>1
      <4> QED
        BY <2>3, <4>2
    <3> QED
      BY <3>1, <3>2
  <2> QED
    BY <2>3, <2>4
<1> HIDE DEF right
<1>6. bad = {}
  <2> SUFFICES ASSUME bad # {} PROVE FALSE
    OBVIOUS
  <2>0. bad \subseteq Nat
    BY <1>2
  <2> HIDE DEF bad
  <2>1. PICK x \in bad : \A y \in bad : x <= y
    BY <2>0, LeastElement
  <2> USE DEF bad
  <2>2. x \in 1..Len(s) /\ x - 1 \in 0..Len(s) /\ x - 1 \notin bad
    BY <1>2, <1>4, <2>1
  <2>3. right(x - 1)
    BY <2>2
  <2> QED
    BY <1>5, <2>1, <2>2, <2>3
<1>7. \A n \in 0..Len(s) : right(n)
  BY <1>6
<1>8. \A n \in 0..Len(s) : e[n] \in Nat /\ \A m \in 0..n : e[m] <= e[n]
  BY <1>7 DEF right
<1>9. ASSUME NEW m \in 0..Len(s), NEW n \in 0..Len(s), m <= n PROVE e[m] <= e[n]
  <2>1. m \in 0..n
    BY <1>2, <1>9
  <2> QED
    BY <1>8, <2>1
<1> QED
  BY <1>1, <1>8, <1>9

\* What is not rendered and what is are together all there is, and a longer page hides less.
LEMMA PagesGrow ==
  ASSUME NEW s \in Seq(Row), NEW n \in Nat, NEW k \in Nat
  PROVE  /\ S!Hidden(s, n) \in Nat /\ S!Height(s, n) \in Nat
         /\ S!Hidden(s, n) + S!Height(s, n) = S!Hidden(s, k) + S!Height(s, k)
         /\ n <= k => S!Height(s, n) <= S!Height(s, k)
<1>1. PICK e : e = S!Ends(s)
  OBVIOUS
<1>2. Len(s) \in Nat /\ \A i \in 0..Len(s) : e[i] \in Nat
  BY <1>1, EndsGrow
<1>3. \A i, j \in 0..Len(s) : i <= j => e[i] <= e[j]
  BY <1>1, EndsGrow
<1>4. PICK hn, hk : hn = S!Higher(Len(s), n) - n /\ hk = S!Higher(Len(s), k) - k
  OBVIOUS
<1>5. hn \in 0..Len(s) /\ hk \in 0..Len(s) /\ (n <= k => hk <= hn) /\ Len(s) \in 0..Len(s)
  BY <1>2, <1>4 DEF S!Higher
<1>6. /\ S!Hidden(s, n) = e[hn] /\ S!Height(s, n) = e[Len(s)] - e[hn]
      /\ S!Hidden(s, k) = e[hk] /\ S!Height(s, k) = e[Len(s)] - e[hk]
  BY <1>1, <1>4 DEF S!Hidden, S!Height
<1>7. /\ e[hn] \in Nat /\ e[hk] \in Nat /\ e[Len(s)] \in Nat
      /\ e[hn] <= e[Len(s)] /\ e[hk] <= e[Len(s)] /\ (n <= k => e[hk] <= e[hn])
  BY <1>2, <1>3, <1>5
<1> QED
  BY <1>6, <1>7

LEMMA BottomsGrow ==
  ASSUME NEW s \in Seq(Row), NEW n \in Nat, NEW k \in Nat, NEW v \in Nat
  PROVE  /\ S!Bottom(s, n, v) \in Nat
         /\ S!Bottom(s, n, v) = IF S!Height(s, n) > v THEN S!Height(s, n) - v ELSE 0
         /\ n <= k => S!Bottom(s, n, v) <= S!Bottom(s, k, v)
<1>1. PICK h, g : h = S!Height(s, n) /\ g = S!Height(s, k)
  OBVIOUS
<1>2. h \in Nat /\ g \in Nat /\ (n <= k => h <= g)
  BY <1>1, PagesGrow
<1>3. /\ S!Bottom(s, n, v) = (IF h > v THEN h ELSE v) - v
      /\ S!Bottom(s, k, v) = (IF g > v THEN g ELSE v) - v
  BY <1>1 DEF S!Bottom, S!Higher
<1> QED
  BY <1>1, <1>2, <1>3

Follower == [pinned : BOOLEAN, lastTop : Nat, height : Nat, view : Nat, towardBottom : BOOLEAN,
             dragging : BOOLEAN]

ScrollTyped ==
  /\ shown \in Seq(Row) /\ limit \in Nat /\ Window <= limit /\ view \in Nat
  /\ top \in 0..S!Bottom(shown, limit, view)
  /\ follower \in Follower
  /\ paging \in [height : Nat, top : Nat, limit : Nat]
  /\ paging # S!NoPage => Window <= paging.limit

\* A thread that is followed is at its end as it was seen last, and a reader who drags
\* away from there is about to be noticed.
AtTail ==
  follower.pinned =>
    /\ unread = 0
    /\ ~resized /\ place # Lost =>
         /\ limit = Window /\ follower.view = view /\ follower.height = S!Height(shown, limit)
         /\ follower.lastTop = S!Bottom(shown, limit, view)
         /\ top = follower.lastTop \/ (follower.dragging /\ scrolled = "moved")

\* A reader elsewhere has a place, which the page on its way was asked for at.
OffTail ==
  ~follower.pinned =>
    /\ unread = S!UnreadMessageCount(shown, seen)
    /\ place \in {Lost, S!Hidden(shown, limit) + top}
    /\ paging # S!NoPage /\ place # Lost =>
         paging.top = top /\ paging.height = S!Height(shown, limit) /\ limit <= paging.limit

ScrollInv == ScrollTyped /\ AtTail /\ OffTail

LEMMA ThreadsAreRows == Threads \subseteq Seq(Row)
<1>1. PICK ask, answer : ask = [user |-> TRUE, length |-> 1] /\ answer = [user |-> FALSE, length |-> 2]
  OBVIOUS
<1>2. ask \in Row /\ answer \in Row
  BY <1>1 DEF Row
<1>3. <<>> \in Seq(Row) /\ <<ask, answer>> \in Seq(Row)
  BY <1>2
<1>4. Threads = {<<>>, <<ask, answer>>}
  BY <1>1 DEF Threads
<1> QED
  BY <1>3, <1>4

LEMMA ScrollInitKeeps ==
  ASSUME Window \in Nat \ {0}, Views \subseteq Nat, S!Init PROVE ScrollInv
<1>1. shown \in Seq(Row)
  BY ThreadsAreRows DEF S!Init
<1>2. limit = Window /\ limit \in Nat /\ view \in Nat
  BY DEF S!Init
<1>3. PICK h, b : h = S!Height(shown, limit) /\ b = S!Bottom(shown, limit, view)
  OBVIOUS
<1>4. h \in Nat /\ b \in Nat
  BY <1>1, <1>2, <1>3, PagesGrow, BottomsGrow
<1>5. /\ top = b /\ paging = [height |-> 0, top |-> 0, limit |-> 0] /\ unread = 0 /\ paging = S!NoPage
      /\ follower = [pinned |-> TRUE, lastTop |-> b, height |-> h, view |-> view,
                     towardBottom |-> FALSE, dragging |-> FALSE]
  BY <1>2, <1>3 DEF S!Init, S!NoPage
<1>6. follower \in Follower /\ follower.pinned /\ follower.view = view /\ follower.height = h /\ follower.lastTop = b
  BY <1>2, <1>4, <1>5 DEF Follower
<1>7. ScrollTyped
  BY <1>1, <1>2, <1>3, <1>4, <1>5, <1>6 DEF ScrollTyped
<1> QED
  BY <1>2, <1>3, <1>5, <1>6, <1>7 DEF ScrollInv, AtTail, OffTail

LEMMA PausedIs ==
  ASSUME NEW f \in Follower, NEW r, r = S!Paused(f)
  PROVE  /\ r \in Follower /\ ~r.pinned /\ r.dragging = f.dragging /\ r.lastTop = f.lastTop
         /\ r.height = f.height /\ r.view = f.view
BY DEF Follower, S!Paused

\* All there is counts as read.
LEMMA NothingUnread ==
  ASSUME NEW s \in Seq(Row) PROVE S!UnreadMessageCount(s, S!Lengths(s)) = 0
<1>1. PICK old : old = S!Lengths(s)
  OBVIOUS
<1>2. DOMAIN old = DOMAIN s /\ \A i \in DOMAIN s : old[i] = s[i].length
  BY <1>1 DEF S!Lengths
<1>3. ASSUME NEW i \in DOMAIN s PROVE i \in DOMAIN old /\ ~(s[i].length > old[i])
  <2>1. s[i] \in Row
    OBVIOUS
  <2>2. s[i].length \in Nat
    BY <2>1 DEF Row
  <2>3. i \in DOMAIN old /\ old[i] = s[i].length
    BY <1>2
  <2> QED
    BY <2>2, <2>3
<1>4. {i \in DOMAIN s : i \notin DOMAIN old \/ s[i].length > old[i]} = {}
  BY <1>3
<1>5. S!UnreadMessageCount(s, old) = S!Cardinality({})
  BY <1>4 DEF S!UnreadMessageCount
<1>6. S!Cardinality({}) = Cardinality({})
  BY DEF S!Cardinality, Cardinality
<1> QED
  BY <1>1, <1>5, <1>6, FS_EmptySet

\* What follow comes to: the end of the last window.
LEMMA FollowKeeps ==
  ASSUME Window \in Nat \ {0}, ScrollInv, NEW s \in Seq(Row), NEW f \in Follower,
         S!Follow(s, f), shown' = s, view' = view, resized' \/ limit = Window
  PROVE  ScrollInv'
<1>1. /\ limit \in Nat /\ Window <= limit /\ view \in Nat /\ Window \in Nat
      /\ paging \in [height : Nat, top : Nat, limit : Nat]
  BY DEF ScrollInv, ScrollTyped
<1>2. PICK h, end, b : /\ h = S!Height(s, limit) /\ end = S!Bottom(s, limit, view)
                       /\ b = S!Bottom(s, Window, view)
  OBVIOUS
<1>3. h \in Nat /\ end \in Nat /\ b \in Nat /\ b <= end
  BY <1>1, <1>2, PagesGrow, BottomsGrow
<1>4. PICK g : g = [f EXCEPT !.pinned = TRUE, !.towardBottom = FALSE]
  OBVIOUS
<1>5. g \in Follower /\ g.pinned /\ g.dragging = f.dragging
  BY <1>4 DEF Follower
<1>6. /\ follower' = S!Recorded(g, end, h) /\ limit' = Window /\ unread' = 0 /\ place' = None
      /\ paging' = IF paging = S!NoPage THEN S!NoPage ELSE [paging EXCEPT !.limit = Window]
      /\ top' = S!Lower(end, b)
  BY <1>2, <1>4 DEF S!Follow, S!Lands
<1>7. top' = b
  BY <1>3, <1>6 DEF S!Lower
<1>8. /\ follower' \in Follower /\ follower'.lastTop = end /\ follower'.height = h
      /\ follower'.view = view /\ follower'.pinned
  <2>1. PICK r : r = S!Recorded(g, end, h)
    OBVIOUS
  <2>2. r \in Follower /\ r.lastTop = end /\ r.height = h /\ r.view = view /\ r.pinned = g.pinned
    BY <1>1, <1>3, <1>5, <2>1 DEF S!Recorded, Follower
  <2> QED
    BY <1>5, <1>6, <2>1, <2>2
<1>9. paging' \in [height : Nat, top : Nat, limit : Nat] /\ (paging' # S!NoPage => Window <= paging'.limit)
  <2>1. CASE paging = S!NoPage
    BY <1>1, <1>6, <2>1
  <2>2. CASE paging # S!NoPage
    <3>1. PICK p : p = paging
      OBVIOUS
    <3>2. paging' = [p EXCEPT !.limit = Window]
      BY <1>6, <2>2, <3>1
    <3>3. p \in [height : Nat, top : Nat, limit : Nat]
      BY <1>1, <3>1
    <3>4. /\ [p EXCEPT !.limit = Window] \in [height : Nat, top : Nat, limit : Nat]
          /\ [p EXCEPT !.limit = Window].limit = Window
      BY <1>1, <3>3
    <3> QED
      BY <1>1, <3>2, <3>4
  <2> QED
    BY <2>1, <2>2
<1>10. ScrollTyped'
  BY <1>1, <1>2, <1>3, <1>6, <1>7, <1>8, <1>9 DEF ScrollTyped
<1>11. AtTail'
  BY <1>2, <1>6, <1>7, <1>8 DEF AtTail
<1> QED
  BY <1>8, <1>10, <1>11 DEF ScrollInv, OffTail

\* The messages change.
LEMMA CommitKeeps ==
  ASSUME Window \in Nat \ {0}, ScrollInv, NEW s \in Seq(Row), S!Commit(s) PROVE ScrollInv'
<1>1. shown' = s /\ resized' /\ view' = view
  BY DEF S!Commit
<1>2. CASE S!LastUser(s) \notin {0, lastUser} \/ follower.pinned
  <2>1. S!Follow(s, follower) /\ follower \in Follower
    BY <1>2 DEF S!Commit, ScrollInv, ScrollTyped
  <2> QED
    BY <1>1, <2>1, FollowKeeps
<1>3. CASE ~(S!LastUser(s) \notin {0, lastUser} \/ follower.pinned)
  <2>1. /\ ~follower.pinned
        /\ limit' = limit /\ paging' = paging /\ follower' = follower /\ seen' = seen
        /\ unread' = S!UnreadMessageCount(s, seen)
        /\ top' = S!Lower(top, S!Bottom(s, limit, view))
        /\ place' = IF paging # S!NoPage \/ top' # top \/ S!Hidden(s, limit) # S!Hidden(shown, limit)
                    THEN Lost ELSE place
    BY <1>3 DEF S!Commit, S!Lands
  <2>2. PICK b, d : b = S!Bottom(shown, limit, view) /\ d = S!Bottom(s, limit, view)
    OBVIOUS
  <2>3. limit \in Nat /\ view \in Nat /\ top \in 0..b
    BY <2>2 DEF ScrollInv, ScrollTyped
  <2>4. b \in Nat /\ d \in Nat
    BY <2>2, <2>3, BottomsGrow DEF ScrollInv, ScrollTyped
  <2>5. top' \in 0..d
    BY <2>1, <2>2, <2>3, <2>4 DEF S!Lower
  <2>6. ScrollTyped'
    BY <1>1, <2>1, <2>2, <2>5 DEF ScrollInv, ScrollTyped
  <2>7. OffTail'
    BY <1>1, <2>1 DEF ScrollInv, OffTail
  <2> QED
    BY <2>1, <2>6, <2>7 DEF ScrollInv, AtTail
<1> QED
  BY <1>2, <1>3

LEMMA NewKeeps ==
  ASSUME Window \in Nat \ {0}, ScrollInv, NEW user \in BOOLEAN, S!New(user) PROVE ScrollInv'
<1>1. PICK r : r = [user |-> user, length |-> 1]
  OBVIOUS
<1>2. r \in Row
  BY <1>1 DEF Row
<1>3. Append(shown, r) \in Seq(Row)
  BY <1>2 DEF ScrollInv, ScrollTyped
<1>4. S!Commit(Append(shown, r))
  BY <1>1 DEF S!New
<1> QED
  BY <1>3, <1>4, CommitKeeps

LEMMA SaysKeeps == ASSUME Window \in Nat \ {0}, ScrollInv, S!Says PROVE ScrollInv'
<1>1. PICK s, n : s = shown /\ n = Len(shown)
  OBVIOUS
<1>2. s \in Seq(Row) /\ s # <<>> /\ n = Len(s)
  BY <1>1 DEF S!Says, ScrollInv, ScrollTyped
<1>3. n \in 1..Len(s)
  BY <1>2
<1>4. PICK r : r = [s[n] EXCEPT !.length = @ + 1]
  OBVIOUS
<1>5. r \in Row
  <2>1. PICK e : e = s[n]
    OBVIOUS
  <2>2. e \in Row /\ r = [e EXCEPT !.length = @ + 1]
    BY <1>2, <1>3, <1>4, <2>1
  <2> QED
    BY <2>2 DEF Row
<1>6. [s EXCEPT ![n] = r] \in Seq(Row)
  BY <1>2, <1>3, <1>5
<1>7. [s EXCEPT ![n].length = @ + 1] = [s EXCEPT ![n] = r]
  BY <1>4
<1>8. S!Commit([s EXCEPT ![n] = r])
  BY <1>1, <1>7 DEF S!Says
<1> QED
  BY <1>6, <1>8, CommitKeeps

LEMMA CutLastKeeps == ASSUME Window \in Nat \ {0}, ScrollInv, S!CutLast PROVE ScrollInv'
<1>1. shown \in Seq(Row) /\ shown # <<>>
  BY DEF S!CutLast, ScrollInv, ScrollTyped
<1>2. S!Front(shown) \in Seq(Row)
  <2>1. SubSeq(shown, 1, Len(shown) - 1) \in Seq(Row)
    BY <1>1
  <2> QED
    BY <2>1 DEF S!Front
<1>3. S!Commit(S!Front(shown))
  BY DEF S!CutLast
<1> QED
  BY <1>2, <1>3, CommitKeeps

LEMMA SelectThreadKeeps ==
  ASSUME Window \in Nat \ {0}, ScrollInv, NEW s \in Threads, S!SelectThread(s) PROVE ScrollInv'
<1>1. s \in Seq(Row) /\ follower \in Follower
  BY ThreadsAreRows DEF ScrollInv, ScrollTyped
<1>2. S!Follow(s, follower) /\ shown' = s /\ view' = view /\ resized'
  BY DEF S!SelectThread
<1> QED
  BY <1>1, <1>2, FollowKeeps

LEMMA JumpLatestKeeps == ASSUME Window \in Nat \ {0}, ScrollInv, S!JumpLatest PROVE ScrollInv'
<1>1. shown \in Seq(Row) /\ follower \in Follower
  BY DEF ScrollInv, ScrollTyped
<1>2. /\ S!Follow(shown, follower) /\ shown' = shown /\ view' = view
      /\ resized' = (resized \/ limit # Window)
  BY DEF S!JumpLatest
<1> QED
  BY <1>1, <1>2, FollowKeeps
\* What is read on leaving the tail.
LEMMA ReadSoFar ==
  ASSUME ScrollInv, S!Reads PROVE unread' = S!UnreadMessageCount(shown, seen')
<1>1. CASE follower.pinned
  BY <1>1, NothingUnread DEF S!Reads, ScrollInv, ScrollTyped
<1>2. CASE ~follower.pinned
  BY <1>2 DEF S!Reads, ScrollInv, OffTail
<1> QED
  BY <1>1, <1>2

\* A page that is asked for.
LEMMA OlderIs ==
  ASSUME Window \in Nat \ {0}, ScrollInv, Len(shown) > limit, NEW p, p = S!Older
  PROVE  /\ p \in [height : Nat, top : Nat, limit : Nat]
         /\ p.height = S!Height(shown, limit) /\ p.top = top
         /\ limit <= p.limit /\ Window <= p.limit /\ p # S!NoPage
<1>1. /\ limit \in Nat /\ Window \in Nat /\ Window # 0 /\ Window <= limit /\ view \in Nat
      /\ shown \in Seq(Row)
      /\ top \in 0..S!Bottom(shown, limit, view)
  BY DEF ScrollInv, ScrollTyped
<1>2. PICK h, b, n : /\ h = S!Height(shown, limit) /\ b = S!Bottom(shown, limit, view)
                     /\ n = S!Lower(Len(shown), limit + Window)
  OBVIOUS
<1>3. h \in Nat /\ b \in Nat
  BY <1>1, <1>2, PagesGrow, BottomsGrow
<1>4. top \in Nat /\ n \in Nat /\ limit <= n /\ Window <= n /\ n # 0
  BY <1>1, <1>2, <1>3 DEF S!Lower
<1>5. p = [height |-> h, top |-> top, limit |-> n]
  BY <1>2 DEF S!Older
<1>6. p.limit # S!NoPage.limit
  BY <1>4, <1>5 DEF S!NoPage
<1> QED
  BY <1>2, <1>3, <1>4, <1>5, <1>6

LEMMA LoadEarlierKeeps == ASSUME Window \in Nat \ {0}, ScrollInv, S!LoadEarlier PROVE ScrollInv'
<1>1. /\ Len(shown) > limit /\ paging' = S!Older /\ follower' = S!Paused(follower) /\ S!Reads
      /\ place' = S!Hidden(shown, limit) + top
      /\ shown' = shown /\ limit' = limit /\ top' = top /\ view' = view
  BY DEF S!LoadEarlier
<1>2. /\ paging' \in [height : Nat, top : Nat, limit : Nat]
      /\ paging'.height = S!Height(shown, limit) /\ paging'.top = top
      /\ limit <= paging'.limit /\ Window <= paging'.limit
  BY <1>1, OlderIs
<1>3. follower' \in Follower /\ ~follower'.pinned
  BY <1>1, PausedIs DEF ScrollInv, ScrollTyped
<1>4. unread' = S!UnreadMessageCount(shown, seen')
  BY <1>1, ReadSoFar
<1>5. ScrollTyped'
  BY <1>1, <1>2, <1>3 DEF ScrollInv, ScrollTyped
<1>6. OffTail'
  BY <1>1, <1>2, <1>4 DEF OffTail
<1> QED
  BY <1>3, <1>5, <1>6 DEF ScrollInv, AtTail

\* What was at the top is still there when the page has come.
LEMMA CommitPageKeeps == ASSUME Window \in Nat \ {0}, ScrollInv, S!CommitPage PROVE ScrollInv'
<1>1. /\ paging # S!NoPage /\ limit' = paging.limit /\ paging' = S!NoPage
      /\ top' = S!Lower(S!Anchored(shown, paging.limit), S!Bottom(shown, paging.limit, view))
      /\ place' = IF follower.pinned \/ paging.height < view THEN Lost ELSE place
      /\ shown' = shown /\ view' = view /\ follower' = follower /\ seen' = seen /\ unread' = unread
  BY DEF S!CommitPage, S!Lands
<1>2. /\ shown \in Seq(Row) /\ limit \in Nat /\ view \in Nat /\ Window <= paging.limit
      /\ paging.height \in Nat /\ paging.top \in Nat /\ paging.limit \in Nat
      /\ top \in 0..S!Bottom(shown, limit, view)
  BY <1>1 DEF ScrollInv, ScrollTyped
<1>3. PICK n, ph, pt : n = paging.limit /\ ph = paging.height /\ pt = paging.top
  OBVIOUS
<1>4. PICK h, g, b, d, x, y : /\ h = S!Height(shown, limit) /\ g = S!Height(shown, n)
                              /\ b = S!Bottom(shown, limit, view) /\ d = S!Bottom(shown, n, view)
                              /\ x = S!Hidden(shown, limit) /\ y = S!Hidden(shown, n)
  OBVIOUS
<1>5. /\ h \in Nat /\ g \in Nat /\ x \in Nat /\ y \in Nat /\ x + h = y + g
      /\ limit <= n => h <= g
  BY <1>2, <1>3, <1>4, PagesGrow
<1>6. /\ b = (IF h > view THEN h - view ELSE 0) /\ b \in Nat
      /\ d = (IF g > view THEN g - view ELSE 0) /\ d \in Nat
  <2>1. b = (IF h > view THEN h - view ELSE 0) /\ b \in Nat
    BY <1>2, <1>4, BottomsGrow
  <2>2. n \in Nat
    BY <1>2, <1>3
  <2>3. d = (IF g > view THEN g - view ELSE 0) /\ d \in Nat
    BY <1>2, <1>4, <2>2, BottomsGrow
  <2> QED
    BY <2>1, <2>3
<1>7. PICK e : e = S!Anchored(shown, n)
  OBVIOUS
<1>8. e = (IF g + pt > ph THEN g + pt ELSE ph) - ph
  BY <1>3, <1>4, <1>7 DEF S!Anchored, S!Higher
<1>9. top' = IF e < d THEN e ELSE d
  BY <1>1, <1>3, <1>4, <1>7 DEF S!Lower
<1>10. top' \in 0..d
  <2>1. g \in Nat /\ d \in Nat /\ ph \in Nat /\ pt \in Nat
    BY <1>2, <1>3, <1>5, <1>6
  <2>2. PICK w : w = g + pt
    OBVIOUS
  <2>3. w \in Nat /\ e = (IF w > ph THEN w ELSE ph) - ph
    BY <1>8, <2>1, <2>2
  <2>4. e \in Nat
    BY <2>1, <2>3
  <2> QED
    BY <1>9, <2>1, <2>4
<1>11. ScrollTyped'
  <2>1. S!NoPage \in [height : Nat, top : Nat, limit : Nat]
    BY DEF S!NoPage
  <2> QED
    BY <1>1, <1>2, <1>3, <1>4, <1>10, <2>1 DEF ScrollInv, ScrollTyped
<1>12. OffTail'
  <2> SUFFICES ASSUME ~follower.pinned, place' # Lost PROVE place' = y + top'
    BY <1>1, <1>3, <1>4 DEF ScrollInv, OffTail
  <2>1. place' = place /\ place # Lost /\ ~(ph < view)
    BY <1>1, <1>3
  <2>2. place = x + top /\ pt = top /\ ph = h /\ limit <= n
    BY <1>1, <1>3, <1>4, <2>1 DEF ScrollInv, OffTail
  <2>3. top \in 0..b /\ top \in Nat /\ h <= g /\ ~(h < view)
    BY <1>2, <1>4, <1>5, <1>6, <2>1, <2>2
  <2>4. top <= h - view
    BY <1>2, <1>5, <1>6, <2>3
  <2>5. e = g + top - h /\ d = g - view
    BY <1>2, <1>5, <1>6, <1>8, <2>2, <2>3
  <2>6. top' = g + top - h
    BY <1>2, <1>5, <1>9, <2>3, <2>4, <2>5
  <2> QED
    BY <1>5, <2>1, <2>2, <2>3, <2>6
<1> QED
  BY <1>1, <1>11, <1>12 DEF ScrollInv, AtTail

LEMMA ResizeViewportKeeps ==
  ASSUME Window \in Nat \ {0}, ScrollInv, NEW v \in Nat, S!ResizeViewport(v) PROVE ScrollInv'
<1>1. /\ view' = v /\ top' = S!Lower(top, S!Bottom(shown, limit, v)) /\ resized'
      /\ place' = IF top' # top /\ ~follower.pinned THEN Lost ELSE place
      /\ shown' = shown /\ limit' = limit /\ paging' = paging /\ follower' = follower
      /\ seen' = seen /\ unread' = unread
  BY DEF S!ResizeViewport
<1>2. PICK b, d : b = S!Bottom(shown, limit, view) /\ d = S!Bottom(shown, limit, v)
  OBVIOUS
<1>3. limit \in Nat /\ view \in Nat /\ top \in 0..b
  BY <1>2 DEF ScrollInv, ScrollTyped
<1>4. b \in Nat /\ d \in Nat
  BY <1>2, <1>3, BottomsGrow DEF ScrollInv, ScrollTyped
<1>5. top' \in 0..d
  BY <1>1, <1>2, <1>3, <1>4 DEF S!Lower
<1>6. ScrollTyped'
  BY <1>1, <1>2, <1>5 DEF ScrollInv, ScrollTyped
<1>7. OffTail'
  BY <1>1 DEF ScrollInv, OffTail
<1> QED
  BY <1>1, <1>6, <1>7 DEF ScrollInv, AtTail

LEMMA ObserveKeeps == ASSUME Window \in Nat \ {0}, ScrollInv, S!Observe PROVE ScrollInv'
<1>1. shown' = shown /\ view' = view /\ shown \in Seq(Row) /\ follower \in Follower
  BY DEF S!Observe, ScrollInv, ScrollTyped
<1>2. CASE follower.pinned
  <2>1. S!Follow(shown, follower) /\ resized' = (limit # Window)
    BY <1>2 DEF S!Observe
  <2> QED
    BY <1>1, <2>1, FollowKeeps
<1>3. CASE ~follower.pinned
  <2>1. PICK h : h = S!Height(shown, limit)
    OBVIOUS
  <2>2. /\ follower' = [S!Recorded(follower, top, h) EXCEPT !.towardBottom = FALSE]
        /\ limit' = limit /\ paging' = paging /\ top' = top /\ seen' = seen /\ unread' = unread
        /\ place' = place
    BY <1>3, <2>1 DEF S!Observe
  <2>3. limit \in Nat /\ view \in Nat /\ h \in Nat /\ top \in Nat
    <3>1. limit \in Nat /\ view \in Nat
      BY DEF ScrollInv, ScrollTyped
    <3> QED
      BY <1>1, <2>1, <3>1, PagesGrow, BottomsGrow DEF ScrollInv, ScrollTyped
  <2>4. follower' \in Follower /\ ~follower'.pinned
    BY <1>1, <1>3, <2>2, <2>3 DEF Follower, S!Recorded
  <2>5. ScrollTyped'
    BY <1>1, <2>2, <2>4 DEF ScrollInv, ScrollTyped
  <2>6. OffTail'
    BY <1>1, <1>3, <2>2 DEF ScrollInv, OffTail
  <2> QED
    BY <2>4, <2>5, <2>6 DEF ScrollInv, AtTail
<1> QED
  BY <1>2, <1>3
\* A scroll is noticed: at the tail, one that leaves it releases it.
LEMMA OnScrollKeeps ==
  ASSUME Window \in Nat \ {0}, ScrollInv, NEW goesOn \in BOOLEAN, S!OnScroll(goesOn),
         shown' = shown, view' = view
  PROVE  ScrollInv'
<1>1. PICK h, b : h = S!Height(shown, limit) /\ b = S!Bottom(shown, limit, view)
  OBVIOUS
<1>2. /\ shown \in Seq(Row) /\ follower \in Follower /\ limit \in Nat /\ view \in Nat
      /\ top \in 0..b
  BY <1>1 DEF ScrollInv, ScrollTyped
<1>3. h \in Nat /\ b \in Nat /\ top \in Nat
  BY <1>1, <1>2, PagesGrow, BottomsGrow
<1>4. PICK changed : changed = (follower.height # h \/ follower.view # view)
  OBVIOUS
<1>5. PICK released : released = (follower.dragging /\ ~changed /\ top # follower.lastTop /\ ~(top = b))
  OBVIOUS
<1>6. PICK f0 : f0 = IF released THEN S!Paused(follower) ELSE follower
  OBVIOUS
<1>7. PICK f : f = [f0 EXCEPT !.towardBottom = @ /\ ~changed]
  OBVIOUS
<1>8. PICK f1 : f1 = [f EXCEPT !.dragging = @ /\ goesOn]
  OBVIOUS
<1>9. f0 \in Follower /\ f0.pinned = (follower.pinned /\ ~released)
  BY <1>2, <1>5, <1>6 DEF Follower, S!Paused
<1>10. f \in Follower /\ f.pinned = f0.pinned
  BY <1>4, <1>7, <1>9 DEF Follower
<1>11. f1 \in Follower /\ f1.pinned = f.pinned
  BY <1>8, <1>10 DEF Follower
<1>12. PICK returned, more :
         /\ returned = /\ ~f.pinned /\ ~changed /\ top > follower.lastTop /\ top = b
                       /\ f.dragging \/ f.towardBottom
         /\ more = (~f.pinned /\ top = 0 /\ paging = S!NoPage /\ Len(shown) > limit)
  OBVIOUS
<1>13. /\ returned => S!Follow(shown, f1) /\ resized' = (resized \/ limit # Window)
       /\ ~returned =>
            /\ follower' = S!Recorded(f1, top, h)
            /\ IF released THEN S!Reads ELSE UNCHANGED <<seen, unread>>
            /\ paging' = IF more THEN S!Older ELSE paging
            /\ place' = IF released THEN S!Chosen(top) ELSE place
            /\ UNCHANGED <<limit, resized, top>>
  BY <1>1, <1>4, <1>5, <1>6, <1>7, <1>8, <1>12 DEF S!OnScroll
<1>14. CASE returned
  BY <1>2, <1>11, <1>13, <1>14, FollowKeeps
<1>15. CASE ~returned
  <2>1. /\ follower' = S!Recorded(f1, top, h)
        /\ IF released THEN S!Reads ELSE UNCHANGED <<seen, unread>>
        /\ paging' = IF more THEN S!Older ELSE paging
        /\ place' = IF released THEN S!Chosen(top) ELSE place
        /\ limit' = limit /\ resized' = resized /\ top' = top
    BY <1>13, <1>15
  <2>2. /\ follower' \in Follower /\ follower'.pinned = f1.pinned
        /\ follower'.lastTop = top /\ follower'.height = h /\ follower'.view = view
    BY <1>2, <1>3, <1>11, <2>1 DEF Follower, S!Recorded
  <2>3. follower'.pinned = (follower.pinned /\ ~released)
    BY <1>9, <1>10, <1>11, <2>2
  <2>4. /\ paging' \in [height : Nat, top : Nat, limit : Nat]
        /\ paging' # S!NoPage => Window <= paging'.limit
    <3>1. CASE more
      BY <1>12, <2>1, <3>1, OlderIs
    <3>2. CASE ~more
      BY <2>1, <3>2 DEF ScrollInv, ScrollTyped
    <3> QED
      BY <3>1, <3>2
  <2>5. ScrollTyped'
    BY <2>1, <2>2, <2>4 DEF ScrollInv, ScrollTyped
  <2>6. ASSUME ~follower'.pinned
        PROVE  /\ unread' = S!UnreadMessageCount(shown, seen')
               /\ place' \in {Lost, S!Hidden(shown, limit) + top}
               /\ paging # S!NoPage /\ place' # Lost =>
                    ~follower.pinned /\ place # Lost
    <3>1. CASE released
      BY <2>1, <3>1, ReadSoFar DEF S!Chosen
    <3>2. CASE ~released
      BY <2>1, <2>3, <2>6, <3>2 DEF ScrollInv, OffTail
    <3> QED
      BY <3>1, <3>2
  <2>7. OffTail'
    <3> SUFFICES ASSUME ~follower'.pinned, paging' # S!NoPage, place' # Lost
                 PROVE  /\ paging'.top = top /\ paging'.height = S!Height(shown, limit)
                        /\ limit <= paging'.limit
      BY <2>1, <2>6 DEF OffTail
    <3>1. CASE more
      BY <1>12, <2>1, <3>1, OlderIs
    <3>2. CASE ~more
      BY <2>1, <2>6, <3>2 DEF ScrollInv, OffTail
    <3> QED
      BY <3>1, <3>2
  <2>8. AtTail'
    <3> SUFFICES ASSUME follower'.pinned
                 PROVE  /\ unread' = 0
                        /\ ~resized /\ place' # Lost => limit = Window /\ top = b
      BY <1>1, <2>1, <2>2 DEF AtTail
    <3>1. follower.pinned /\ ~released
      BY <2>3
    <3>2. unread' = unread /\ place' = place /\ unread = 0
      BY <2>1, <3>1 DEF ScrollInv, AtTail
    <3>3. ASSUME ~resized, place # Lost PROVE limit = Window /\ top = b
      <4>1. /\ limit = Window /\ follower.view = view /\ follower.height = h
            /\ follower.lastTop = b
            /\ top = follower.lastTop \/ follower.dragging
        BY <1>1, <3>1, <3>3 DEF ScrollInv, AtTail
      <4> QED
        BY <1>4, <1>5, <3>1, <4>1
    <3> QED
      BY <3>2, <3>3
  <2> QED
    BY <2>5, <2>7, <2>8 DEF ScrollInv
<1> QED
  BY <1>14, <1>15

LEMMA ScrollEventKeeps == ASSUME Window \in Nat \ {0}, ScrollInv, S!ScrollEvent PROVE ScrollInv'
<1>1. S!OnScroll(TRUE) /\ shown' = shown /\ view' = view
  BY DEF S!ScrollEvent
<1> QED
  BY <1>1, OnScrollKeeps

LEMMA PointerUpKeeps == ASSUME Window \in Nat \ {0}, ScrollInv, S!PointerUp PROVE ScrollInv'
<1>1. S!OnScroll(FALSE) /\ shown' = shown /\ view' = view
  BY DEF S!PointerUp
<1> QED
  BY <1>1, OnScrollKeeps

LEMMA ScrollEndKeeps == ASSUME ScrollInv, S!ScrollEnd PROVE ScrollInv'
<1>1. /\ scrolled = "settling" /\ scrolled' = "no"
      /\ follower' = [follower EXCEPT !.towardBottom = FALSE]
      /\ shown' = shown /\ limit' = limit /\ paging' = paging /\ top' = top /\ view' = view
      /\ resized' = resized /\ seen' = seen /\ unread' = unread /\ place' = place
  BY DEF S!ScrollEnd
<1>2. follower \in Follower
  BY DEF ScrollInv, ScrollTyped
<1>3. /\ follower' \in Follower /\ follower'.pinned = follower.pinned
      /\ follower'.lastTop = follower.lastTop /\ follower'.height = follower.height
      /\ follower'.view = follower.view /\ follower'.dragging = follower.dragging
  BY <1>1, <1>2 DEF Follower
<1>4. ScrollTyped'
  BY <1>1, <1>3 DEF ScrollInv, ScrollTyped
<1>5. AtTail'
  BY <1>1, <1>3 DEF ScrollInv, AtTail
<1>6. OffTail'
  BY <1>1, <1>3 DEF ScrollInv, OffTail
<1> QED
  BY <1>4, <1>5, <1>6 DEF ScrollInv

\* The reader scrolls away from the tail, or elsewhere.
LEMMA GoesOff ==
  ASSUME ScrollInv, NEW t \in 0..S!Bottom(shown, limit, view), S!Goes(t),
         follower' \in Follower, ~follower'.pinned, unread' = S!UnreadMessageCount(shown, seen'),
         shown' = shown, limit' = limit, paging' = paging, view' = view
  PROVE  ScrollInv'
<1>1. top' = t /\ place' = S!Chosen(t)
  BY DEF S!Goes
<1>2. ScrollTyped'
  BY <1>1 DEF ScrollInv, ScrollTyped
<1>3. OffTail'
  BY <1>1 DEF S!Chosen, OffTail
<1> QED
  BY <1>2, <1>3 DEF ScrollInv, AtTail

\* The reader scrolls at the tail, dragging or to where it ends.
LEMMA GoesAlong ==
  ASSUME ScrollInv, NEW t \in 0..S!Bottom(shown, limit, view), S!Goes(t),
         follower' \in Follower, follower'.pinned, follower.pinned,
         follower'.lastTop = follower.lastTop, follower'.height = follower.height,
         follower'.view = follower.view, follower'.dragging = follower.dragging,
         follower.dragging \/ t >= top,
         shown' = shown, limit' = limit, paging' = paging, view' = view, resized' = resized,
         unread' = unread
  PROVE  ScrollInv'
<1>1. top' = t /\ place' = place /\ scrolled' = IF t # top THEN "moved" ELSE scrolled
  BY DEF S!Goes, S!Scrolls
<1>2. ScrollTyped'
  BY <1>1 DEF ScrollInv, ScrollTyped
<1>3. PICK b : b = S!Bottom(shown, limit, view)
  OBVIOUS
<1>4. b \in Nat /\ t \in 0..b /\ top \in 0..b
  BY <1>3, BottomsGrow DEF ScrollInv, ScrollTyped
<1>5. AtTail'
  <2> SUFFICES ASSUME ~resized, place # Lost
               PROVE  /\ limit = Window /\ follower.view = view
                      /\ follower.height = S!Height(shown, limit) /\ follower.lastTop = b
                      /\ t = follower.lastTop \/ (follower.dragging /\ scrolled' = "moved")
    BY <1>1, <1>3 DEF ScrollInv, AtTail
  <2>1. /\ limit = Window /\ follower.view = view
        /\ follower.height = S!Height(shown, limit) /\ follower.lastTop = b
        /\ top = follower.lastTop \/ (follower.dragging /\ scrolled = "moved")
    BY <1>3 DEF ScrollInv, AtTail
  <2>2. CASE follower.dragging
    BY <1>1, <2>1, <2>2
  <2>3. CASE ~follower.dragging
    BY <1>4, <2>1, <2>3
  <2> QED
    BY <2>1, <2>2, <2>3
<1> QED
  BY <1>2, <1>5 DEF ScrollInv, OffTail

LEMMA IntentUpKeeps ==
  ASSUME ScrollInv, NEW t \in Nat, S!IntentUp(t) PROVE ScrollInv'
<1>1. PICK b : b = S!Bottom(shown, limit, view)
  OBVIOUS
<1>2. /\ t < top /\ follower' = S!Paused(follower) /\ S!Reads /\ S!Goes(t)
      /\ shown' = shown /\ limit' = limit /\ paging' = paging /\ view' = view
  BY DEF S!IntentUp
<1>3. top \in 0..b /\ b \in Nat
  BY <1>1, BottomsGrow DEF ScrollInv, ScrollTyped
<1>4. t \in 0..b
  BY <1>2, <1>3
<1>5. follower' \in Follower /\ ~follower'.pinned
  BY <1>2, PausedIs DEF ScrollInv, ScrollTyped
<1>6. unread' = S!UnreadMessageCount(shown, seen')
  BY <1>2, ReadSoFar
<1> QED
  BY <1>1, <1>2, <1>4, <1>5, <1>6, GoesOff

LEMMA IntentDownKeeps ==
  ASSUME ScrollInv, NEW t \in Nat, S!IntentDown(t) PROVE ScrollInv'
<1>1. PICK b : b = S!Bottom(shown, limit, view)
  OBVIOUS
<1>2. /\ t \in top..b /\ follower' = [follower EXCEPT !.towardBottom = TRUE] /\ S!Goes(t)
      /\ shown' = shown /\ limit' = limit /\ paging' = paging /\ view' = view
      /\ resized' = resized /\ seen' = seen /\ unread' = unread
  BY <1>1 DEF S!IntentDown
<1>3. top \in 0..b /\ b \in Nat /\ follower \in Follower
  BY <1>1, BottomsGrow DEF ScrollInv, ScrollTyped
<1>4. t \in 0..b /\ t >= top
  BY <1>2, <1>3
<1>5. /\ follower' \in Follower /\ follower'.pinned = follower.pinned
      /\ follower'.lastTop = follower.lastTop /\ follower'.height = follower.height
      /\ follower'.view = follower.view /\ follower'.dragging = follower.dragging
  BY <1>2, <1>3 DEF Follower
<1>6. CASE follower.pinned
  BY <1>1, <1>2, <1>4, <1>5, <1>6, GoesAlong
<1>7. CASE ~follower.pinned
  <2>1. unread' = S!UnreadMessageCount(shown, seen')
    BY <1>2, <1>7 DEF ScrollInv, OffTail
  <2> QED
    BY <1>1, <1>2, <1>4, <1>5, <1>7, <2>1, GoesOff
<1> QED
  BY <1>6, <1>7

LEMMA DragKeeps ==
  ASSUME ScrollInv, NEW t \in Nat, S!Drag(t) PROVE ScrollInv'
<1>1. PICK b : b = S!Bottom(shown, limit, view)
  OBVIOUS
<1>2. /\ follower.dragging /\ t \in 0..b /\ S!Goes(t) /\ follower' = follower
      /\ shown' = shown /\ limit' = limit /\ paging' = paging /\ view' = view
      /\ resized' = resized /\ seen' = seen /\ unread' = unread
  BY <1>1 DEF S!Drag
<1>3. follower' \in Follower
  BY <1>2 DEF ScrollInv, ScrollTyped
<1>4. CASE follower.pinned
  BY <1>1, <1>2, <1>3, <1>4, GoesAlong
<1>5. CASE ~follower.pinned
  <2>1. unread' = S!UnreadMessageCount(shown, seen')
    BY <1>2, <1>5 DEF ScrollInv, OffTail
  <2> QED
    BY <1>1, <1>2, <1>3, <1>5, <2>1, GoesOff
<1> QED
  BY <1>4, <1>5

LEMMA PointerDownKeeps ==
  ASSUME ScrollInv, NEW gutter \in BOOLEAN, S!PointerDown(gutter) PROVE ScrollInv'
<1>1. PICK f : f = IF gutter THEN S!Paused(follower) ELSE follower
  OBVIOUS
<1>2. /\ follower' = [f EXCEPT !.dragging = TRUE]
      /\ shown' = shown /\ limit' = limit /\ paging' = paging /\ view' = view /\ resized' = resized
  BY <1>1 DEF S!PointerDown
<1>3. follower \in Follower /\ top \in 0..S!Bottom(shown, limit, view)
  BY DEF ScrollInv, ScrollTyped
<1>4. CASE gutter
  <2>1. S!Reads /\ S!Goes(top)
    BY <1>4 DEF S!PointerDown
  <2>2. f \in Follower /\ ~f.pinned
    BY <1>1, <1>3, <1>4, PausedIs
  <2>3. follower' \in Follower /\ ~follower'.pinned
    BY <1>2, <2>2 DEF Follower
  <2>4. unread' = S!UnreadMessageCount(shown, seen')
    BY <2>1, ReadSoFar
  <2> QED
    BY <1>2, <1>3, <2>1, <2>3, <2>4, GoesOff
<1>5. CASE ~gutter
  <2>1. /\ ~follower.dragging
        /\ top' = top /\ scrolled' = scrolled /\ seen' = seen /\ unread' = unread /\ place' = place
    BY <1>5 DEF S!PointerDown
  <2>2. /\ follower' \in Follower /\ follower'.pinned = follower.pinned
        /\ follower'.lastTop = follower.lastTop /\ follower'.height = follower.height
        /\ follower'.view = follower.view /\ follower'.dragging
    BY <1>1, <1>2, <1>3, <1>5 DEF Follower
  <2>3. ScrollTyped'
    BY <1>2, <2>1, <2>2 DEF ScrollInv, ScrollTyped
  <2>4. AtTail'
    BY <1>2, <2>1, <2>2 DEF ScrollInv, AtTail
  <2>5. OffTail'
    BY <1>2, <2>1, <2>2 DEF ScrollInv, OffTail
  <2> QED
    BY <2>3, <2>4, <2>5 DEF ScrollInv
<1> QED
  BY <1>4, <1>5

LEMMA ScrollNextKeeps ==
  ASSUME Window \in Nat \ {0}, Views \subseteq Nat, ScrollInv, S!Next PROVE ScrollInv'
<1>1. CASE \E user \in BOOLEAN : S!New(user)
  BY <1>1, NewKeeps
<1>2. CASE S!Says \/ S!CutLast \/ S!JumpLatest \/ S!LoadEarlier \/ S!CommitPage
  BY <1>2, SaysKeeps, CutLastKeeps, JumpLatestKeeps, LoadEarlierKeeps, CommitPageKeeps
<1>3. CASE \E s \in Threads : S!SelectThread(s)
  BY <1>3, SelectThreadKeeps
<1>4. CASE \E v \in Views : S!ResizeViewport(v)
  BY <1>4, ResizeViewportKeeps
<1>5. CASE S!Observe \/ S!ScrollEvent \/ S!ScrollEnd \/ S!PointerUp
  BY <1>5, ObserveKeeps, ScrollEventKeeps, ScrollEndKeeps, PointerUpKeeps
<1>6. CASE \E t \in 0..(MaxRows * MaxLength) : S!IntentUp(t) \/ S!IntentDown(t) \/ S!Drag(t)
  <2>1. PICK t \in 0..(MaxRows * MaxLength) : S!IntentUp(t) \/ S!IntentDown(t) \/ S!Drag(t)
    BY <1>6
  <2>2. t \in Nat
    BY <2>1
  <2> QED
    BY <2>1, <2>2, IntentUpKeeps, IntentDownKeeps, DragKeeps
<1>7. CASE \E gutter \in BOOLEAN : S!PointerDown(gutter)
  BY <1>7, PointerDownKeeps
<1> QED
  BY <1>1, <1>2, <1>3, <1>4, <1>5, <1>6, <1>7 DEF S!Next

LEMMA ScrollStepKeeps ==
  ASSUME Window \in Nat \ {0}, Views \subseteq Nat, ScrollInv,
         [MCNext]_<<focus, panelVars, sideVars>>
  PROVE  ScrollInv'
<1>1. CASE S!Next
  BY <1>1, ScrollNextKeeps
<1>2. CASE UNCHANGED scrollVars
  BY <1>2 DEF scrollVars, ScrollInv, ScrollTyped, AtTail, OffTail, S!Height, S!Hidden, S!Bottom,
              S!UnreadMessageCount
<1>3. S!Next \/ UNCHANGED scrollVars
  BY DEF MCNext, panelVars, sideVars
<1> QED
  BY <1>1, <1>2, <1>3

\* Once the browser has reported everything, a thread that follows its tail shows the end of
\* it, one window of messages and nothing unread; a reader elsewhere has what was put at the
\* top still there, and the count of what is new since (createScrollFollow, useScrollAnchor,
\* unreadMessageCount), for any heights, windows and numbers of messages.
THEOREM TailIsFollowed == MCSpec => []FollowKept
<1> USE PanelAssumption DEF PanelAssumption
<1>1. MCInit => ScrollInv
  BY ScrollInitKeeps DEF MCInit
<1>2. ScrollInv /\ [MCNext]_<<focus, panelVars, sideVars>> => ScrollInv'
  BY ScrollStepKeeps
<1>3. ScrollInv => FollowKept
  <2> SUFFICES ASSUME ScrollInv, S!AtRest
               PROVE  IF follower.pinned
                      THEN place # Lost => /\ top = S!Bottom(shown, limit, view)
                                           /\ limit = Window /\ unread = 0
                      ELSE /\ unread = S!UnreadMessageCount(shown, seen)
                           /\ place \in {Lost, S!Hidden(shown, limit) + top}
    BY DEF FollowKept, S!FollowKept
  <2> QED
    BY DEF ScrollInv, AtTail, OffTail, S!AtRest
<1> QED
  BY <1>1, <1>2, <1>3, PTL DEF MCSpec

==================================================================================
