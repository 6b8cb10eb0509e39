-------------------------- MODULE PermissionStream --------------------------
(***************************************************************************)
(* The permission cards of a page: permission-stream.ts, the card of       *)
(* PermissionPrompt.tsx with its replies, the replay of a session's log by *)
(* loadSession and the eviction by deleteSession.                          *)
(*                                                                         *)
(* A session's host keeps a log of requests and resolutions.  The page     *)
(* receives that log on two ways: frame by frame, in order, and as a prefix *)
(* read some time ago that loadSession replays whenever it gets to it.  The *)
(* user replies through the card of the oldest pending request; a reply is *)
(* an HTTP request that may fail, be refused, or be overtaken by another   *)
(* tab's.  A card that is replaced or unmounted forgets its reply, which   *)
(* still travels.                                                          *)
(*                                                                         *)
(* React renders before the next task of the page runs, so a change of the *)
(* pending request and the unmounting of its card are one step here.       *)
(***************************************************************************)
EXTENDS Integers, Sequences, FiniteSets

CONSTANTS Sids,        \* sessions
          Reqs,        \* request ids, unique over sessions
          Asks,        \* those of AskUserQuestion: an answer leaves a summary
          Choices,     \* affirmative replies (approval, or the picked answers)
          Deny,        \* the negative reply
          MaxLoads,    \* bound: logs of one session being read at a time
          MaxStray,    \* bound: replies in flight whose card is gone
          None

ASSUME ReqAssumption == Asks \subseteq Reqs
ASSUME NoneAssumption ==
    /\ None \notin Sids /\ None \notin Reqs /\ None \notin Nat
    /\ None \notin [req : Reqs, choice : Choices \cup {Deny}]
    /\ None \notin [req : Reqs, choice : Choices \cup {Deny},
                    answer : {"none", "ok", "refused"}]
ASSUME DenyAssumption == Deny \notin Choices
ASSUME BoundAssumption == MaxLoads \in Nat /\ MaxStray \in Nat

VARIABLES
    log,         \* host: session -> requests and resolutions, in order
    life,        \* session -> "live", "deleted" by the host, "dropped" here
    at,          \* session -> frames dispatched so far; None: not connected
    loads,       \* session -> lengths of the logs read and not replayed yet
    pending,     \* pendingBySid: session -> requests in insertion order
    settled,     \* settledBySid
    summary,     \* resolvedBySid: session -> the answer shown, or None
    active,      \* activeSid, or None
    decision,    \* SessionPermissions.decision, or None
    submitting,  \* the reply the mounted card waits for, or None
    stray,       \* replies on their way to the host whose card is gone
    got          \* history: session -> positions of the log received

host == <<log, life>>
desk == <<pending, settled, summary>>
card == <<active, decision, submitting, stray>>
vars == <<log, life, at, loads, pending, settled, summary, active, decision,
          submitting, stray, got>>

Events == [kind : {"request"}, req : Reqs]
            \cup [kind : {"resolved"}, req : Reqs, choice : Choices \cup {Deny}]
Answers == [req : Reqs, choice : Choices \cup {Deny}]
Submits == [req : Reqs, choice : Choices \cup {Deny}, answer : {"none", "ok", "refused"}]

\* What the host was asked, and how it was resolved.
Asked(s) == {log[s][n].req : n \in {m \in 1..Len(log[s]) : log[s][m].kind = "request"}}
Outcomes(s) == {[req |-> log[s][n].req, choice |-> log[s][n].choice] :
                   n \in {m \in 1..Len(log[s]) : log[s][m].kind = "resolved"}}
Closed(s) == {o.req : o \in Outcomes(s)}
Open(s) == Asked(s) \ Closed(s)

\* getPendingPermission: the first value of the session's Map.
Front(s) == IF s = None \/ pending[s] = <<>> THEN None ELSE Head(pending[s])
IsPending(s, r) == \E i \in 1..Len(pending[s]) : pending[s][i] = r

Init ==
    /\ log = [s \in Sids |-> <<>>]
    /\ life = [s \in Sids |-> "live"]
    /\ at = [s \in Sids |-> None]
    /\ loads = [s \in Sids |-> {}]
    /\ pending = [s \in Sids |-> <<>>]
    /\ settled = [s \in Sids |-> {}]
    /\ summary = [s \in Sids |-> None]
    /\ active = None
    /\ decision = None
    /\ submitting = None
    /\ stray = {}
    /\ got = [s \in Sids |-> {}]

-----------------------------------------------------------------------------
(* The host. *)

Ask(s, r) ==
    /\ life[s] = "live"
    /\ \A t \in Sids : r \notin Asked(t)
    /\ log' = [log EXCEPT ![s] = Append(@, [kind |-> "request", req |-> r])]
    /\ UNCHANGED <<life, at, loads, desk, card, got>>

\* One request is resolved once; every other reply to it is refused.
Takes(s, r, c) ==
    /\ life[s] = "live" /\ r \in Open(s)
    /\ log' = [log EXCEPT ![s] = Append(@, [kind |-> "resolved", req |-> r, choice |-> c])]

Refuses(s, r) == (life[s] # "live" \/ r \notin Open(s)) /\ UNCHANGED log

\* Another tab, a cancelled turn or the host's own timeout resolves a request.
ResolveElsewhere(s, r, c) ==
    /\ Takes(s, r, c)
    /\ UNCHANGED <<life, at, loads, desk, card, got>>

TakeReply ==
    /\ submitting # None /\ submitting.answer = "none"
    /\ \/ Takes(active, submitting.req, submitting.choice)
          /\ submitting' = [submitting EXCEPT !.answer = "ok"]
       \/ Refuses(active, submitting.req)
          /\ submitting' = [submitting EXCEPT !.answer = "refused"]
    /\ UNCHANGED <<life, at, loads, desk, active, decision, stray, got>>

\* A reply whose card is gone reaches the host or is lost; its answer is
\* ignored by the page ("if (!mounted.current) return").
StrayArrives(x) ==
    /\ \/ Takes(x.sid, x.req, x.choice)
       \/ Refuses(x.sid, x.req)
       \/ UNCHANGED log
    /\ stray' = stray \ {x}
    /\ UNCHANGED <<life, at, loads, desk, active, decision, submitting, got>>

-----------------------------------------------------------------------------
(* Rendering.  The card is keyed by session and request: when either changes *)
(* the old card unmounts and forgets its reply, and a request that becomes   *)
(* the front clears the decision line.  d and sub are what decision and      *)
(* submitting become if nothing of that happens.                             *)

Key == <<active, Front(active)>>

\* The reply of a card that goes while the host has not answered it.
Orphan(sub) ==
    IF sub = None \/ sub.answer # "none" THEN {}
    ELSE {[sid |-> active, req |-> sub.req, choice |-> sub.choice]}

Render(d, sub) ==
    IF Key' = Key
    THEN decision' = d /\ submitting' = sub /\ stray' = stray
    ELSE /\ decision' = IF active' # active \/ Front(active)' # None THEN None ELSE d
         /\ submitting' = None
         /\ stray' = stray \cup Orphan(sub)
         /\ Cardinality(stray') <= MaxStray

(* The reducer dispatchPermission over a run of events of s, E, in one task. *)

Resolutions(E) == {E[i].req : i \in {j \in 1..Len(E) : E[j].kind = "resolved"}}

\* A request settled here before is ignored.
Opens(s, E, i) == E[i].kind = "request" /\ E[i].req \notin settled[s]

\* A resolution leaves a summary when it answers a question.
Summarises(E, i) == E[i].kind = "resolved" /\ E[i].req \in Asks /\ E[i].choice \in Choices

\* The elements of q at the positions I, in their order.
Selected(q, I) ==
    [k \in 1..Cardinality(I) |-> q[CHOOSE i \in I : Cardinality({j \in I : j <= i}) = k]]

Without(q, R) == Selected(q, {i \in 1..Len(q) : q[i] \notin R})

ReqsOf(E) == [i \in 1..Len(E) |-> E[i].req]

\* Mutant: a request that was settled here is opened again.
MutEnqueued(s, E) ==
    pending[s] \o Selected(ReqsOf(E), {i \in 1..Len(E) : /\ E[i].kind = "request"
                                                         /\ ~IsPending(s, E[i].req)})

\* Mutant: a repeated request moves to the end.
MutEnqueuedAnew(s, E) ==
    LET fresh == {i \in 1..Len(E) : Opens(s, E, i)}
    IN Without(pending[s], {E[i].req : i \in fresh}) \o Selected(ReqsOf(E), fresh)

\* Map.set appends a key it has not and keeps the place of one it has.  The
\* host asks once, so E itself repeats no request.
Enqueued(s, E) ==
    pending[s] \o Selected(ReqsOf(E), {i \in 1..Len(E) : /\ Opens(s, E, i)
                                                         /\ ~IsPending(s, E[i].req)})

Settle(s, R) == settled' = [settled EXCEPT ![s] = @ \cup R]

\* The last event of E that opens a request or answers a question decides.
Summarise(s, E) ==
    LET marks == {i \in 1..Len(E) : Opens(s, E, i) \/ Summarises(E, i)} IN
    \/ marks = {} /\ UNCHANGED summary
    \/ \E i \in marks :
         /\ \A j \in marks : j <= i
         /\ summary' = [summary EXCEPT ![s] =
                IF E[i].kind = "request" THEN None
                ELSE [req |-> E[i].req, choice |-> E[i].choice]]

Dispatch(s, E) ==
    /\ Settle(s, Resolutions(E))
    /\ pending' = [pending EXCEPT ![s] = Without(Enqueued(s, E), Resolutions(E))]
    /\ Summarise(s, E)
    /\ Render(decision, submitting)

-----------------------------------------------------------------------------
(* The page. *)

\* The socket of the session opens without since=: frames start here.
Connect(s) ==
    /\ at[s] = None
    /\ at' = [at EXCEPT ![s] = Len(log[s])]
    /\ UNCHANGED <<host, loads, desk, card, got>>

\* The next frame.  It may have been held in a gap buffer: a delay.
Frame(s) ==
    /\ at[s] # None /\ at[s] < Len(log[s])
    /\ at' = [at EXCEPT ![s] = @ + 1]
    /\ got' = [got EXCEPT ![s] = @ \cup {at[s] + 1}]
    /\ UNCHANGED <<host, loads, active>>
    /\ Dispatch(s, <<log[s][at[s] + 1]>>)

\* resume-gap: the host cannot replay what was missed; frames start anew.
Gap(s) ==
    /\ at[s] # None /\ at[s] < Len(log[s])
    /\ at' = [at EXCEPT ![s] = Len(log[s])]
    /\ UNCHANGED <<host, loads, desk, card, got>>

\* loadSession: the log is read; its replay waits for the answer and blobs.
ReadLog(s) ==
    /\ life[s] = "live" /\ Cardinality(loads[s]) < MaxLoads
    /\ loads' = [loads EXCEPT ![s] = @ \cup {Len(log[s])}]
    /\ UNCHANGED <<host, at, desk, card, got>>

\* The replay shows the log after its last compact boundary, at cut.
Replay(s, n, cut) ==
    /\ loads' = [loads EXCEPT ![s] = @ \ {n}]
    /\ got' = [got EXCEPT ![s] = @ \cup (cut + 1)..n]
    /\ UNCHANGED <<host, at, active>>
    /\ Dispatch(s, SubSeq(log[s], cut + 1, n))

LoadFails(s, n) ==
    /\ loads' = [loads EXCEPT ![s] = @ \ {n}]
    /\ UNCHANGED <<host, at, desk, card, got>>

\* The user goes to another session, or to none.
Switch(s) ==
    /\ s # active
    /\ active' = s
    /\ UNCHANGED desk
    /\ Render(decision, submitting)
    /\ UNCHANGED <<host, at, loads, got>>

\* reply(): one at a time by card ("if (submitting.current) return").
Reply(c) ==
    /\ Front(active) # None /\ submitting = None
    /\ submitting' = [req |-> Front(active), choice |-> c, answer |-> "none"]
    /\ UNCHANGED <<host, at, loads, desk, active, decision, stray, got>>

MutReplyAccepted ==
    /\ submitting # None /\ submitting.answer \in {"ok", "refused"}
    /\ LET r == submitting.req
           answer == [req |-> r, choice |-> submitting.choice] IN
       /\ summary' = IF r \in Asks /\ submitting.choice \in Choices
                     THEN [summary EXCEPT ![active] = answer] ELSE summary
       /\ Settle(active, {r})
       /\ pending' = [pending EXCEPT ![active] = Without(@, {r})]
       /\ UNCHANGED active
       /\ Render(IF r \in Asks THEN decision ELSE answer, None)
    /\ UNCHANGED <<host, at, loads, got>>

\* The host took the reply: summary or decision, then the card goes.
ReplyAccepted ==
    /\ submitting # None /\ submitting.answer = "ok"
    /\ LET r == submitting.req
           answer == [req |-> r, choice |-> submitting.choice] IN
       /\ summary' = IF r \in Asks /\ submitting.choice \in Choices
                     THEN [summary EXCEPT ![active] = answer] ELSE summary
       /\ Settle(active, {r})
       /\ pending' = [pending EXCEPT ![active] = Without(@, {r})]
       /\ UNCHANGED active
       /\ Render(IF r \in Asks THEN decision ELSE answer, None)
    /\ UNCHANGED <<host, at, loads, got>>

MutReplyFailed ==
    /\ submitting # None
    /\ Settle(active, {submitting.req})
    /\ pending' = [pending EXCEPT ![active] = Without(@, {submitting.req})]
    /\ UNCHANGED <<host, at, loads, summary, active, got>>
    /\ Render(decision, None)

\* Refused, or the network failed before or after the host took it: the card
\* stays and may be sent again.
ReplyFailed ==
    /\ submitting # None
    /\ submitting' = None
    /\ UNCHANGED <<host, at, loads, desk, active, decision, got>>
    /\ stray' = stray \cup Orphan(submitting)
    /\ Cardinality(stray') <= MaxStray

\* deleteSession: the host deletes, and only then the page forgets.
Delete(s) ==
    /\ life[s] = "live"
    /\ life' = [life EXCEPT ![s] = "deleted"]
    /\ UNCHANGED <<log, at, loads, desk, card, got>>

Drop(s) ==
    /\ life[s] = "deleted"
    /\ life' = [life EXCEPT ![s] = "dropped"]
    /\ settled' = [settled EXCEPT ![s] = {}]
    /\ pending' = [pending EXCEPT ![s] = <<>>]
    /\ summary' = [summary EXCEPT ![s] = None]
    /\ got' = [got EXCEPT ![s] = {}]
    /\ UNCHANGED active
    /\ Render(decision, submitting)
    /\ UNCHANGED <<log, at, loads>>

Next ==
    \/ \E s \in Sids :
         \/ \E r \in Reqs : Ask(s, r)
         \/ \E r \in Reqs, c \in Choices \cup {Deny} : ResolveElsewhere(s, r, c)
         \/ Connect(s) \/ Frame(s) \/ Gap(s) \/ ReadLog(s)
         \/ \E n \in loads[s] :
              LoadFails(s, n) \/ \E cut \in 0..n : Replay(s, n, cut)
         \/ Delete(s) \/ Drop(s)
    \/ \E s \in Sids \cup {None} : Switch(s)
    \/ \E c \in Choices \cup {Deny} : Reply(c)
    \/ TakeReply \/ ReplyAccepted \/ ReplyFailed
    \/ \E x \in stray : StrayArrives(x)

Spec == Init /\ [][Next]_vars

-----------------------------------------------------------------------------
(* What is true of the cards. *)

TypeOK ==
    /\ log \in [Sids -> Seq(Events)]
    /\ life \in [Sids -> {"live", "deleted", "dropped"}]
    /\ at \in [Sids -> Nat \cup {None}]
    /\ loads \in [Sids -> SUBSET Nat]
    /\ pending \in [Sids -> Seq(Reqs)]
    /\ settled \in [Sids -> SUBSET Reqs]
    /\ summary \in [Sids -> Answers \cup {None}]
    /\ active \in Sids \cup {None}
    /\ decision \in Answers \cup {None}
    /\ submitting \in Submits \cup {None}
    /\ stray \subseteq [sid : Sids, req : Reqs, choice : Choices \cup {Deny}]
    /\ got \in [Sids -> SUBSET Nat]

\* A card goes away for good only when the host has a resolution of its
\* request: a failed, refused or forgotten reply (PermissionPrompt 254-281)
\* settles nothing.
SettledWasAnswered == \A s \in Sids : settled[s] \subseteq Closed(s)

\* Whatever the order in which frames and replayed logs brought the events,
\* and whatever the replies did meanwhile: once every event of the log was
\* received, the queue of cards is the set of requests the host waits for
\* (permission-stream 106-151, 245-252), each once.
CardsAgree == \A s \in Sids :
    got[s] = 1..Len(log[s]) =>
        /\ {pending[s][i] : i \in 1..Len(pending[s])} = Open(s)
        /\ Len(pending[s]) = Cardinality(Open(s))

\* What the page tells the user was answered is what the host recorded, for
\* the session on the screen: the summary and the decision line are never
\* those of a reply that another tab or an earlier card overtook.
ShownIsTrue ==
    /\ \A s \in Sids : summary[s] # None => summary[s] \in Outcomes(s)
    /\ decision # None => active # None /\ decision \in Outcomes(active)

\* permission-stream.test.ts 86 says of an answer's summary: "a new request
\* clears the previous resolved summary".  So a summary is that of a resolution
\* later than every request received.
NewRequestClears == \A s \in Sids :
    summary[s] # None =>
        \A n \in got[s] : log[s][n].kind = "request" =>
            \E m \in n+1..Len(log[s]) : log[s][m].kind = "resolved"
                                          /\ log[s][m].req = summary[s].req

\* The card the user is working on is replaced only when its request leaves
\* the queue: neither a replayed request nor a repeated frame moves it.
CardKeepsPlace ==
    [][\A s \in Sids, r \in Reqs :
           Front(s) = r /\ Front(s)' # r => ~IsPending(s, r)']_vars
=============================================================================
