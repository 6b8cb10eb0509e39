------------------------------ MODULE RequestProofs ------------------------------
(***************************************************************************)
(* Proofs about PermissionStream for any sessions, requests, replies and   *)
(* bounds: the page settles only what the host resolved, shows as answered *)
(* only what the host recorded, and ends up with one card for each request *)
(* the host waits for, none of which loses its place while it is pending.  *)
(*                                                                         *)
(* The first two rest on one fact about a reply: while the mounted card    *)
(* holds an "ok", the host's log holds the resolution it stands for, and   *)
(* the card belongs to the session on the screen (WaitIsTrue).  The log    *)
(* only grows.  The others rest on what the queue is at any time: the      *)
(* requests received and not settled, each once (CardsKept).               *)
(*                                                                         *)
(* The second part is about Rewind, for any messages, rewinds, frames and  *)
(* reads: a page with nothing on its way shows what a reload would         *)
(* (RewindsAgree, from RewindInv).                                         *)
(*                                                                         *)
(* The third part is about CliStream, for any agents, calls and frames: a  *)
(* reply whose stream is left shows all that was said, in order            *)
(* (RepliesAreKept, from CliInv, at the end).                              *)
(***************************************************************************)
EXTENDS MCRequests, FiniteSetTheorems, SequenceTheorems, WellFoundedInduction, TLAPS

\* The form of the reply a card waits for.  That its request is one is not
\* needed: the host takes no other, and its log is typed.
Waits(sub) == sub = None \/ sub \in [req : {sub.req}, choice : Choices \cup {Deny},
                                     answer : {"none", "ok", "refused"}]

\* The parts of the type invariant that the proofs need.
Typed ==
    /\ log \in [Sids -> Seq(Events)]
    /\ at \in [Sids -> Nat \cup {None}]
    /\ loads \in [Sids -> SUBSET Nat]
    /\ DOMAIN pending = Sids
    /\ settled \in [Sids -> SUBSET Reqs]
    /\ summary \in [Sids -> Answers \cup {None}]
    /\ active \in Sids \cup {None}
    /\ decision \in Answers \cup {None}
    /\ Waits(submitting)

\* What was read of a log is a prefix of it.
ReadsArePrefixes == \A s \in Sids :
    /\ at[s] # None => at[s] <= Len(log[s])
    /\ \A n \in loads[s] : n <= Len(log[s])

\* A card that waits is on the screen, and an "ok" is in the log.
WaitIsTrue ==
    submitting # None =>
        /\ active # None
        /\ submitting.answer = "ok" =>
             [req |-> submitting.req, choice |-> submitting.choice] \in Outcomes(active)

IInv == Typed /\ ReadsArePrefixes /\ WaitIsTrue /\ SettledWasAnswered /\ ShownIsTrue

-----------------------------------------------------------------------------
(* The log. *)

\* Outcomes in terms of positions.
LEMMA OutcomeAt ==
    ASSUME NEW s, NEW r, NEW c
    PROVE  [req |-> r, choice |-> c] \in Outcomes(s)
             <=> \E n \in 1..Len(log[s]) : /\ log[s][n].kind = "resolved"
                                           /\ log[s][n].req = r /\ log[s][n].choice = c
BY DEF Outcomes

LEMMA EventForm ==
    ASSUME NEW e \in Events
    PROVE  /\ e.req \in Reqs
           /\ e.kind = "resolved" => e.choice \in Choices \cup {Deny}
           /\ e.kind = "resolved" => [req |-> e.req, choice |-> e.choice] \in Answers
BY DEF Events, Answers

\* Appending an event loses no outcome.
LEMMA Growing ==
    ASSUME Typed, NEW s \in Sids, NEW e \in Events,
           log' = [log EXCEPT ![s] = Append(@, e)]
    PROVE  /\ log' \in [Sids -> Seq(Events)]
           /\ \A t \in Sids : Len(log[t]) <= Len(log'[t])
           /\ \A t \in Sids : Outcomes(t) \subseteq Outcomes(t)'
           /\ \A t \in Sids : Closed(t) \subseteq Closed(t)'
<1>1. log \in [Sids -> Seq(Events)]
  BY DEF Typed
<1>2. log' \in [Sids -> Seq(Events)]
  BY <1>1
<1>3. \A t \in Sids : Len(log[t]) <= Len(log'[t])
  BY <1>1
<1>4. \A t \in Sids : \A n \in 1..Len(log[t]) : n \in 1..Len(log'[t]) /\ log'[t][n] = log[t][n]
  BY <1>1
<1>5. \A t \in Sids : Outcomes(t) \subseteq Outcomes(t)'
  BY <1>4 DEF Outcomes
<1>6. \A t \in Sids : Closed(t) \subseteq Closed(t)'
  BY <1>5 DEF Closed
<1> QED
  BY <1>2, <1>3, <1>5, <1>6

\* A reply taken by the host is an outcome from then on.
LEMMA Taken ==
    ASSUME Typed, NEW s \in Sids, NEW r, NEW c \in Choices \cup {Deny}, Takes(s, r, c)
    PROVE  /\ [kind |-> "resolved", req |-> r, choice |-> c] \in Events
           /\ log' = [log EXCEPT ![s] = Append(@, [kind |-> "resolved", req |-> r, choice |-> c])]
           /\ [req |-> r, choice |-> c] \in Outcomes(s)'
<1>1. log \in [Sids -> Seq(Events)]
  BY DEF Typed
<1>2. [kind |-> "resolved", req |-> r, choice |-> c] \in Events
  <2>1. r \in Asked(s)
    BY DEF Takes, Open
  <2>2. \A n \in 1..Len(log[s]) : log[s][n] \in Events
    BY <1>1
  <2>3. r \in Reqs
    BY <2>1, <2>2, EventForm DEF Asked
  <2> QED
    BY <2>3 DEF Events
<1>3. log' = [log EXCEPT ![s] = Append(@, [kind |-> "resolved", req |-> r, choice |-> c])]
  BY DEF Takes
<1>4. Len(log'[s]) \in 1..Len(log'[s])
      /\ log'[s][Len(log'[s])] = [kind |-> "resolved", req |-> r, choice |-> c]
  BY <1>1, <1>2, <1>3
<1>5. [req |-> r, choice |-> c] \in Outcomes(s)'
  BY <1>4 DEF Outcomes
<1> QED
  BY <1>2, <1>3, <1>5

\* When the log is unchanged, so is what follows from it.
LEMMA SameLog ==
    ASSUME UNCHANGED log, NEW t
    PROVE  Outcomes(t)' = Outcomes(t) /\ Closed(t)' = Closed(t)
BY DEF Outcomes, Closed

-----------------------------------------------------------------------------
(* The screen. *)

\* Rendering keeps the decision and the wait of the session on the screen, or
\* forgets them.
LEMMA Rendered ==
    ASSUME NEW d, NEW sub, Render(d, sub)
    PROVE  /\ decision' = None \/ (decision' = d /\ active' = active)
           /\ submitting' = None \/ (submitting' = sub /\ active' = active)
<1>1. CASE Key' = Key
  <2>1. active' = active
    BY <1>1 DEF Key
  <2> QED
    BY <1>1, <2>1 DEF Render
<1>2. CASE Key' # Key
  BY <1>2 DEF Render
<1> QED
  BY <1>1, <1>2

\* A step that leaves the log alone keeps what the screen says true, if the
\* decision and the wait it renders were true.
LEMMA ScreenStaysTrue ==
    ASSUME IInv, UNCHANGED log, active' \in Sids \cup {None},
           NEW d \in Answers \cup {None}, NEW sub,
           d # None => active # None /\ d \in Outcomes(active),
           sub = None \/ sub = submitting,
           Render(d, sub)
    PROVE  /\ decision' \in Answers \cup {None} /\ Waits(submitting)'
           /\ WaitIsTrue'
           /\ decision' # None => active' # None /\ decision' \in Outcomes(active)'
<1>1. /\ decision' = None \/ (decision' = d /\ active' = active)
      /\ submitting' = None \/ (submitting' = sub /\ active' = active)
  BY Rendered
<1>2. Outcomes(active)' = Outcomes(active')
  BY DEF Outcomes
<1>3. decision' \in Answers \cup {None} /\ Waits(submitting)'
  BY <1>1 DEF Waits, IInv, Typed
<1>4. WaitIsTrue'
  <2>1. CASE submitting' = None
    BY <2>1 DEF WaitIsTrue
  <2>2. CASE submitting' = submitting /\ active' = active
    <3>1. Outcomes(active)' = Outcomes(active)
      BY <2>2 DEF Outcomes
    <3> QED
      BY <2>2, <3>1 DEF WaitIsTrue, IInv
  <2> QED
    BY <1>1, <2>1, <2>2
<1>5. decision' # None => active' # None /\ decision' \in Outcomes(active)'
  <2>1. CASE decision' = None
    BY <2>1
  <2>2. CASE decision' = d /\ active' = active
    <3>1. Outcomes(active)' = Outcomes(active)
      BY <2>2 DEF Outcomes
    <3> QED
      BY <2>2, <3>1
  <2> QED
    BY <1>1, <2>1, <2>2
<1> QED
  BY <1>3, <1>4, <1>5

-----------------------------------------------------------------------------
(* The reducer. *)

\* A run of events taken from a log.
LEMMA Piece ==
    ASSUME Typed, NEW s \in Sids, NEW E \in Seq(Events),
           \A i \in 1..Len(E) : \E n \in 1..Len(log[s]) : E[i] = log[s][n],
           Dispatch(s, E)
    PROVE  /\ settled' \in [Sids -> SUBSET Reqs]
           /\ summary' \in [Sids -> Answers \cup {None}]
           /\ DOMAIN pending' = Sids
           /\ \A t \in Sids : settled'[t] \subseteq settled[t] \cup Closed(t)
           /\ \A t \in Sids : summary'[t] \in {summary[t], None} \cup Outcomes(t)
<1>1. \A i \in 1..Len(E) : E[i] \in Events
  OBVIOUS
<1>2. \A i \in 1..Len(E) : E[i].kind = "resolved"
          => [req |-> E[i].req, choice |-> E[i].choice] \in Outcomes(s)
  BY DEF Outcomes
<1>3. Resolutions(E) \subseteq Closed(s)
  <2>1. SUFFICES ASSUME NEW i \in 1..Len(E), E[i].kind = "resolved"
                 PROVE  E[i].req \in Closed(s)
    BY DEF Resolutions
  <2>2. [req |-> E[i].req, choice |-> E[i].choice] \in Outcomes(s)
    BY <1>2, <2>1
  <2>3. [req |-> E[i].req, choice |-> E[i].choice].req = E[i].req
    OBVIOUS
  <2> QED
    BY <2>2, <2>3 DEF Closed
<1>4. Resolutions(E) \subseteq Reqs
  BY <1>1, EventForm DEF Resolutions
<1>5. settled' = [settled EXCEPT ![s] = @ \cup Resolutions(E)]
  BY DEF Dispatch, Settle
<1>6. settled' \in [Sids -> SUBSET Reqs]
  BY <1>4, <1>5 DEF Typed
<1>7. \A t \in Sids : settled'[t] \subseteq settled[t] \cup Closed(t)
  BY <1>3, <1>5 DEF Typed
<1>8. DOMAIN pending' = Sids
  BY DEF Dispatch, Typed
<1>9. \/ UNCHANGED summary
      \/ summary' = [summary EXCEPT ![s] = None]
      \/ \E i \in 1..Len(E) :
           /\ E[i].kind = "resolved"
           /\ summary' = [summary EXCEPT ![s] = [req |-> E[i].req, choice |-> E[i].choice]]
  <2>1. Summarise(s, E)
    BY DEF Dispatch
  <2>2. \A i \in 1..Len(E) : E[i].kind \in {"request", "resolved"}
    BY <1>1 DEF Events
  <2> QED
    BY <2>1, <2>2 DEF Summarise
<1>10. summary' \in [Sids -> Answers \cup {None}]
  <2>1. \A i \in 1..Len(E) : E[i].kind = "resolved"
           => [req |-> E[i].req, choice |-> E[i].choice] \in Answers
    BY <1>1, EventForm
  <2>2. PICK A : A = Answers \cup {None}
    OBVIOUS
  <2>3. summary \in [Sids -> A]
    BY <2>2 DEF Typed
  <2>4. \/ summary' = summary
        \/ \E x \in A : summary' = [summary EXCEPT ![s] = x]
    BY <1>9, <2>1, <2>2
  <2>5. summary' \in [Sids -> A]
    BY <2>3, <2>4
  <2> QED
    BY <2>2, <2>5
<1>11. \A t \in Sids : summary'[t] \in {summary[t], None} \cup Outcomes(t)
  BY <1>2, <1>9 DEF Typed
<1> QED
  BY <1>6, <1>7, <1>8, <1>10, <1>11

\* Such a run keeps everything but the bounds of the reads.
LEMMA DispatchKeeps ==
    ASSUME IInv, NEW s \in Sids, NEW E \in Seq(Events),
           \A i \in 1..Len(E) : \E n \in 1..Len(log[s]) : E[i] = log[s][n],
           Dispatch(s, E), UNCHANGED <<host, active>>,
           at' \in [Sids -> Nat \cup {None}], loads' \in [Sids -> SUBSET Nat]
    PROVE  Typed' /\ WaitIsTrue' /\ SettledWasAnswered' /\ ShownIsTrue'
<1>1. Typed /\ UNCHANGED log
  BY DEF IInv, host
<1>2. /\ settled' \in [Sids -> SUBSET Reqs]
      /\ summary' \in [Sids -> Answers \cup {None}]
      /\ DOMAIN pending' = Sids
      /\ \A t \in Sids : settled'[t] \subseteq settled[t] \cup Closed(t)
      /\ \A t \in Sids : summary'[t] \in {summary[t], None} \cup Outcomes(t)
  BY <1>1, Piece
<1>3. Render(decision, submitting)
  BY DEF Dispatch
<1>4. decision # None => active # None /\ decision \in Outcomes(active)
  BY DEF IInv, ShownIsTrue
<1>5. /\ decision' \in Answers \cup {None} /\ Waits(submitting)'
      /\ WaitIsTrue'
      /\ decision' # None => active' # None /\ decision' \in Outcomes(active)'
  <2>1. active' \in Sids \cup {None}
    BY <1>1 DEF Typed
  <2>2. decision \in Answers \cup {None} /\ Waits(submitting)
    BY <1>1 DEF Typed
  <2> QED
    BY <1>1, <1>3, <1>4, <2>1, <2>2, ScreenStaysTrue
<1>6. Typed'
  BY <1>1, <1>2, <1>5 DEF Typed
<1>7. \A t \in Sids : Outcomes(t)' = Outcomes(t) /\ Closed(t)' = Closed(t)
  BY <1>1, SameLog
<1>8. SettledWasAnswered'
  BY <1>2, <1>7 DEF SettledWasAnswered, IInv
<1>9. ShownIsTrue'
  BY <1>2, <1>5, <1>7 DEF ShownIsTrue, IInv
<1> QED
  BY <1>5, <1>6, <1>8, <1>9

-----------------------------------------------------------------------------
(* Induction. *)

\* The log grew by one event and nothing else of the page moved but the waiting.
LEMMA HostKeeps ==
    ASSUME IInv, NEW s \in Sids, NEW e \in Events,
           log' = [log EXCEPT ![s] = Append(@, e)],
           UNCHANGED <<at, loads, desk, active, decision>>,
           Waits(submitting)', WaitIsTrue'
    PROVE  IInv'
<1>1. Typed
  BY DEF IInv
<1>2. /\ log' \in [Sids -> Seq(Events)]
      /\ \A t \in Sids : Len(log[t]) <= Len(log'[t])
      /\ \A t \in Sids : Outcomes(t) \subseteq Outcomes(t)'
      /\ \A t \in Sids : Closed(t) \subseteq Closed(t)'
  BY <1>1, Growing
<1>3. Typed'
  BY <1>1, <1>2 DEF Typed, desk
<1>4. ReadsArePrefixes'
  <2>1. \A t \in Sids : /\ Len(log[t]) \in Nat /\ Len(log'[t]) \in Nat
                        /\ at[t] \in Nat \cup {None} /\ loads[t] \subseteq Nat
    BY <1>1, <1>2 DEF Typed
  <2> QED
    BY <1>2, <2>1 DEF ReadsArePrefixes, IInv
<1>5. SettledWasAnswered'
  BY <1>2 DEF SettledWasAnswered, IInv, desk
<1>6. ShownIsTrue'
  <2>1. \A t \in Sids : summary'[t] # None => summary'[t] \in Outcomes(t)'
    BY <1>2 DEF ShownIsTrue, IInv, desk
  <2>2. ASSUME decision' # None PROVE active' # None /\ decision' \in Outcomes(active)'
    <3>1. decision # None /\ active' = active /\ decision' = decision
      BY <2>2
    <3>2. active \in Sids /\ decision \in Outcomes(active)
      BY <1>1, <3>1 DEF IInv, ShownIsTrue, Typed
    <3>3. Outcomes(active) \subseteq Outcomes(active)'
      <4>1. PICK t \in Sids : t = active
        BY <3>2
      <4>2. Outcomes(t)' = Outcomes(active)' /\ Outcomes(t) = Outcomes(active)
        BY <3>1, <4>1 DEF Outcomes
      <4> QED
        BY <1>2, <4>2
    <3>4. decision \in Outcomes(active)'
      BY <3>2, <3>3
    <3>5. active # None
      BY <3>2, NoneAssumption
    <3> QED
      BY <3>1, <3>4, <3>5
  <2> QED
    BY <2>1, <2>2 DEF ShownIsTrue
<1> QED
  BY <1>3, <1>4, <1>5, <1>6 DEF IInv

\* An unchanged wait stays true when the log grows.
LEMMA WaitGrows ==
    ASSUME IInv, NEW s \in Sids, NEW e \in Events,
           log' = [log EXCEPT ![s] = Append(@, e)], UNCHANGED <<submitting, active>>
    PROVE  Waits(submitting)' /\ WaitIsTrue'
<1>1. Typed
  BY DEF IInv
<1>2. \A t \in Sids : Outcomes(t) \subseteq Outcomes(t)'
  BY <1>1, Growing
<1>3. ASSUME submitting # None PROVE Outcomes(active) \subseteq Outcomes(active)'
  <2>1. active \in Sids
    BY <1>1, <1>3 DEF IInv, WaitIsTrue, Typed
  <2>2. PICK t \in Sids : t = active
    BY <2>1
  <2>3. Outcomes(t)' = Outcomes(active)' /\ Outcomes(t) = Outcomes(active)
    BY <2>2 DEF Outcomes
  <2> QED
    BY <1>2, <2>3
<1> QED
  BY <1>1, <1>3 DEF WaitIsTrue, IInv, Typed

\* Nothing of the page's state but the queue of reads, connections or the
\* history moved.
LEMMA QuietKeeps ==
    ASSUME IInv, UNCHANGED <<log, desk, active, decision>>,
           at' \in [Sids -> Nat \cup {None}], loads' \in [Sids -> SUBSET Nat],
           ReadsArePrefixes', Waits(submitting)', WaitIsTrue'
    PROVE  IInv'
<1>1. \A t : Outcomes(t)' = Outcomes(t) /\ Closed(t)' = Closed(t)
  BY SameLog
<1>2. Typed'
  BY DEF Typed, IInv, desk
<1>3. SettledWasAnswered'
  BY <1>1 DEF SettledWasAnswered, IInv, desk
<1>4. Outcomes(active)' = Outcomes(active)
  BY DEF Outcomes
<1>5. ShownIsTrue'
  BY <1>1, <1>4 DEF ShownIsTrue, IInv, desk
<1> QED
  BY <1>2, <1>3, <1>5 DEF IInv

LEMMA WaitStays ==
    ASSUME IInv, UNCHANGED <<log, submitting, active>>
    PROVE  Waits(submitting)' /\ WaitIsTrue'
<1>1. Outcomes(active)' = Outcomes(active)
  BY DEF Outcomes
<1> QED
  BY <1>1 DEF WaitIsTrue, IInv, Typed

LEMMA Initially == Init => IInv
<1> SUFFICES ASSUME Init PROVE IInv
  OBVIOUS
<1>1. Typed
  BY DEF Init, Typed, Waits
<1>2. ReadsArePrefixes /\ WaitIsTrue /\ SettledWasAnswered /\ ShownIsTrue
  BY DEF Init, ReadsArePrefixes, WaitIsTrue, SettledWasAnswered, ShownIsTrue
<1> QED
  BY <1>1, <1>2 DEF IInv

LEMMA FrameKeeps == ASSUME IInv, NEW s \in Sids, Frame(s) PROVE IInv'
<1> DEFINE E == <<log[s][at[s] + 1]>>
<1>1. /\ log[s] \in Seq(Events) /\ at[s] \in Nat /\ at[s] + 1 \in 1..Len(log[s])
      /\ at \in [Sids -> Nat \cup {None}] /\ loads \in [Sids -> SUBSET Nat]
  BY DEF Frame, IInv, Typed
<1>2. /\ E \in Seq(Events)
      /\ \A i \in 1..Len(E) : \E n \in 1..Len(log[s]) : E[i] = log[s][n]
  <2>1. log[s][at[s] + 1] \in Events
    BY <1>1
  <2>2. E \in Seq(Events)
    BY <2>1
  <2>3. Len(E) = 1 /\ E[1] = log[s][at[s] + 1]
    OBVIOUS
  <2>4. \A i \in 1..Len(E) : i = 1
    BY <2>3
  <2> HIDE DEF E
  <2> QED
    BY <1>1, <2>2, <2>3, <2>4
<1>3. /\ Dispatch(s, E) /\ UNCHANGED <<host, active>>
      /\ at' = [at EXCEPT ![s] = @ + 1] /\ loads' = loads
  BY DEF Frame
<1>4. at' \in [Sids -> Nat \cup {None}] /\ loads' \in [Sids -> SUBSET Nat]
  BY <1>1, <1>3
<1>5. Typed' /\ WaitIsTrue' /\ SettledWasAnswered' /\ ShownIsTrue'
  BY <1>2, <1>3, <1>4, DispatchKeeps
<1>6. ReadsArePrefixes'
  BY <1>1, <1>3 DEF ReadsArePrefixes, IInv, host
<1> QED
  BY <1>5, <1>6 DEF IInv

LEMMA ReplayKeeps ==
    ASSUME IInv, NEW s \in Sids, NEW n \in loads[s], NEW skip \in 0..n, Replay(s, n, skip)
    PROVE  IInv'
<1> DEFINE E == SubSeq(log[s], skip + 1, n)
<1>1. /\ log[s] \in Seq(Events) /\ n \in Nat /\ n <= Len(log[s]) /\ skip \in Nat /\ skip <= n
      /\ at \in [Sids -> Nat \cup {None}] /\ loads \in [Sids -> SUBSET Nat]
  BY DEF IInv, Typed, ReadsArePrefixes
<1>2. /\ E \in Seq(Events)
      /\ \A i \in 1..Len(E) : \E m \in 1..Len(log[s]) : E[i] = log[s][m]
  <2>1. Len(log[s]) \in Nat
    BY <1>1
  <2>2. Len(E) = n - skip
    BY <1>1, <2>1
  <2>3. \A i \in 1..Len(E) : skip + i \in 1..Len(log[s]) /\ E[i] = log[s][skip + i]
    BY <1>1, <2>1, <2>2
  <2>4. E \in Seq(Events)
    BY <1>1, <2>1
  <2> QED
    BY <2>3, <2>4
<1>3. /\ Dispatch(s, E) /\ UNCHANGED <<host, active>>
      /\ at' = at /\ loads' = [loads EXCEPT ![s] = @ \ {n}]
  BY DEF Replay
<1>4. at' \in [Sids -> Nat \cup {None}] /\ loads' \in [Sids -> SUBSET Nat]
  BY <1>1, <1>3
<1>5. Typed' /\ WaitIsTrue' /\ SettledWasAnswered' /\ ShownIsTrue'
  BY <1>2, <1>3, <1>4, DispatchKeeps
<1>6. ReadsArePrefixes'
  BY <1>1, <1>3 DEF ReadsArePrefixes, IInv, host
<1> QED
  BY <1>5, <1>6 DEF IInv

\* The reply was taken: its outcome is in the log, so it may settle and show.
LEMMA AcceptedKeeps == ASSUME IInv, ReplyAccepted PROVE IInv'
<1> DEFINE r == submitting.req
           answer == [req |-> r, choice |-> submitting.choice]
           d == IF r \in Asks THEN decision ELSE answer
<1>1. /\ submitting # None /\ active \in Sids /\ active # None
      /\ answer \in Outcomes(active) /\ UNCHANGED <<log, at, loads, active>>
  BY DEF ReplyAccepted, IInv, WaitIsTrue, Typed, host
<1>2. r \in Reqs /\ answer \in Answers
  <2>1. PICK n \in 1..Len(log[active]) :
          /\ log[active][n].kind = "resolved"
          /\ log[active][n].req = r /\ log[active][n].choice = submitting.choice
    BY <1>1, OutcomeAt
  <2>2. log[active][n] \in Events
    BY <1>1 DEF IInv, Typed
  <2> QED
    BY <2>1, <2>2, EventForm
<1>3. Render(d, None)
  BY DEF ReplyAccepted
<1>4. /\ settled' = [settled EXCEPT ![active] = @ \cup {r}]
      /\ DOMAIN pending' = DOMAIN pending
      /\ summary' = summary \/ summary' = [summary EXCEPT ![active] = answer]
  BY DEF ReplyAccepted, Settle
<1>5. r \in Closed(active)
  <2>1. answer.req = r
    OBVIOUS
  <2> QED
    BY <1>1, <2>1 DEF Closed
<1>6. /\ decision' \in Answers \cup {None} /\ Waits(submitting)'
      /\ WaitIsTrue'
      /\ decision' # None => active' # None /\ decision' \in Outcomes(active)'
  <2>1. d \in Answers \cup {None} /\ (d # None => active # None /\ d \in Outcomes(active))
    BY <1>1, <1>2 DEF IInv, Typed, ShownIsTrue
  <2>2. active' \in Sids \cup {None}
    BY <1>1
  <2> HIDE DEF d
  <2> QED
    BY <1>1, <1>3, <2>1, <2>2, ScreenStaysTrue
<1>7. Typed'
  BY <1>1, <1>2, <1>4, <1>6 DEF IInv, Typed
<1>8. \A t \in Sids : Outcomes(t)' = Outcomes(t) /\ Closed(t)' = Closed(t)
  BY <1>1, SameLog
<1>9. SettledWasAnswered'
  BY <1>4, <1>5, <1>8 DEF SettledWasAnswered, IInv, Typed
<1>10. ShownIsTrue'
  BY <1>1, <1>4, <1>6, <1>8 DEF ShownIsTrue, IInv, Typed
<1>11. ReadsArePrefixes'
  BY <1>1 DEF ReadsArePrefixes, IInv
<1> QED
  BY <1>6, <1>7, <1>9, <1>10, <1>11 DEF IInv

LEMMA DropKeeps == ASSUME IInv, NEW s \in Sids, Drop(s) PROVE IInv'
<1>1. /\ UNCHANGED <<log, at, loads, active>> /\ Render(decision, submitting)
      /\ settled' = [settled EXCEPT ![s] = {}] /\ summary' = [summary EXCEPT ![s] = None]
      /\ DOMAIN pending' = DOMAIN pending
  BY DEF Drop
<1>2. /\ decision' \in Answers \cup {None} /\ Waits(submitting)'
      /\ WaitIsTrue'
      /\ decision' # None => active' # None /\ decision' \in Outcomes(active)'
  <2>1. /\ decision \in Answers \cup {None} /\ Waits(submitting)
        /\ active' \in Sids \cup {None}
        /\ decision # None => active # None /\ decision \in Outcomes(active)
    BY <1>1 DEF IInv, Typed, ShownIsTrue
  <2> QED
    BY <1>1, <2>1, ScreenStaysTrue
<1>3. Typed'
  BY <1>1, <1>2 DEF IInv, Typed
<1>4. \A t \in Sids : Outcomes(t)' = Outcomes(t) /\ Closed(t)' = Closed(t)
  BY <1>1, SameLog
<1>5. SettledWasAnswered' /\ ReadsArePrefixes'
  BY <1>1, <1>4 DEF SettledWasAnswered, ReadsArePrefixes, IInv, Typed
<1>6. ShownIsTrue'
  BY <1>1, <1>2, <1>4 DEF ShownIsTrue, IInv, Typed
<1> QED
  BY <1>2, <1>3, <1>5, <1>6 DEF IInv

LEMMA SwitchKeeps == ASSUME IInv, NEW s \in Sids \cup {None}, Switch(s) PROVE IInv'
<1>1. /\ UNCHANGED <<log, at, loads, pending, settled, summary>> /\ active' = s
      /\ Render(decision, submitting)
  BY DEF Switch, desk, host
<1>2. /\ decision' \in Answers \cup {None} /\ Waits(submitting)'
      /\ WaitIsTrue'
      /\ decision' # None => active' # None /\ decision' \in Outcomes(active)'
  <2>1. /\ decision \in Answers \cup {None} /\ Waits(submitting)
        /\ active' \in Sids \cup {None}
        /\ decision # None => active # None /\ decision \in Outcomes(active)
    BY <1>1 DEF IInv, Typed, ShownIsTrue
  <2> QED
    BY <1>1, <2>1, ScreenStaysTrue
<1>3. Typed'
  BY <1>1, <1>2 DEF IInv, Typed
<1>4. \A t \in Sids : Outcomes(t)' = Outcomes(t) /\ Closed(t)' = Closed(t)
  BY <1>1, SameLog
<1>5. SettledWasAnswered' /\ ReadsArePrefixes'
  BY <1>1, <1>4 DEF SettledWasAnswered, ReadsArePrefixes, IInv
<1>6. ShownIsTrue'
  BY <1>1, <1>2, <1>4 DEF ShownIsTrue, IInv
<1> QED
  BY <1>2, <1>3, <1>5, <1>6 DEF IInv

\* A reply on its way to the host, mounted or not, meets the log there.
LEMMA ReplyMeetsHost ==
    ASSUME IInv, TakeReply PROVE IInv'
<1>1. /\ submitting # None /\ active \in Sids /\ active # None
      /\ UNCHANGED <<at, loads, desk, active, decision>>
  BY DEF TakeReply, IInv, WaitIsTrue, Typed
<1>2. submitting \in [req : {submitting.req}, choice : Choices \cup {Deny},
                     answer : {"none", "ok", "refused"}]
  BY <1>1 DEF IInv, Typed, Waits
<1>3. CASE /\ Takes(active, submitting.req, submitting.choice)
           /\ submitting' = [submitting EXCEPT !.answer = "ok"]
  <2> DEFINE e == [kind |-> "resolved", req |-> submitting.req, choice |-> submitting.choice]
  <2>1. /\ e \in Events /\ log' = [log EXCEPT ![active] = Append(@, e)]
        /\ [req |-> submitting.req, choice |-> submitting.choice] \in Outcomes(active)'
    BY <1>1, <1>2, <1>3, Taken DEF IInv
  <2>2. /\ submitting'.req = submitting.req /\ submitting'.choice = submitting.choice
        /\ Waits(submitting)'
    BY <1>2, <1>3 DEF Waits
  <2>3. WaitIsTrue'
    BY <1>1, <2>1, <2>2 DEF WaitIsTrue
  <2> HIDE DEF e
  <2> QED
    BY <1>1, <2>1, <2>2, <2>3, HostKeeps
<1>4. CASE /\ Refuses(active, submitting.req)
           /\ submitting' = [submitting EXCEPT !.answer = "refused"]
  <2>1. Waits(submitting)' /\ submitting'.answer # "ok"
    BY <1>2, <1>4 DEF Waits
  <2>2. WaitIsTrue'
    BY <1>1, <2>1 DEF WaitIsTrue
  <2>3. UNCHANGED log
    BY <1>4 DEF Refuses
  <2>4. ReadsArePrefixes' /\ at' \in [Sids -> Nat \cup {None}] /\ loads' \in [Sids -> SUBSET Nat]
    BY <1>1, <2>3 DEF ReadsArePrefixes, IInv, Typed
  <2> QED
    BY <1>1, <2>1, <2>2, <2>3, <2>4, QuietKeeps
<1> QED
  BY <1>3, <1>4 DEF TakeReply

\* A step that leaves the log, the desk and the screen alone.
LEMMA ReadsKeep ==
    ASSUME IInv, UNCHANGED <<log, desk, active, decision, submitting>>,
           at' \in [Sids -> Nat \cup {None}], loads' \in [Sids -> SUBSET Nat],
           ReadsArePrefixes'
    PROVE  IInv'
<1>1. Waits(submitting)' /\ WaitIsTrue'
  BY WaitStays
<1> QED
  BY <1>1, QuietKeeps

\* The replies that lost their card name a session and an answer.
Sendable(X) == \A x \in X : x.sid \in Sids /\ x.choice \in Choices \cup {Deny}
Strays == Sendable(stray)

LEMMA OrphanTyped ==
    ASSUME IInv
    PROVE  Sendable(Orphan(submitting))
<1>1. CASE submitting = None
  BY <1>1 DEF Orphan, Sendable
<1>2. CASE submitting # None
  <2>1. active \in Sids /\ submitting.choice \in Choices \cup {Deny}
    BY <1>2 DEF IInv, WaitIsTrue, Typed, Waits
  <2> QED
    BY <2>1 DEF Orphan, Sendable
<1> QED
  BY <1>1, <1>2

LEMMA RenderStrays ==
    ASSUME IInv, Strays, NEW d, NEW sub, sub = None \/ sub = submitting, Render(d, sub)
    PROVE  Strays'
<1>1. Sendable(Orphan(sub))
  <2>1. CASE sub = None
    BY <2>1 DEF Orphan, Sendable
  <2>2. CASE sub = submitting
    BY <2>2, OrphanTyped
  <2> QED
    BY <2>1, <2>2
<1>2. stray' = stray \/ stray' = stray \cup Orphan(sub)
  BY DEF Render
<1> QED
  BY <1>1, <1>2 DEF Strays, Sendable

LEMMA StrayKeeps ==
    ASSUME IInv, Strays, NEW x \in stray, StrayArrives(x) PROVE IInv' /\ Strays'
<1>1. x.sid \in Sids /\ x.choice \in Choices \cup {Deny}
  BY DEF Strays, Sendable
<1>2. /\ UNCHANGED <<at, loads, desk, active, decision, submitting>>
      /\ stray' = stray \ {x}
  BY DEF StrayArrives
<1>3. CASE Takes(x.sid, x.req, x.choice)
  <2> DEFINE e == [kind |-> "resolved", req |-> x.req, choice |-> x.choice]
  <2>1. e \in Events /\ log' = [log EXCEPT ![x.sid] = Append(@, e)]
    <3>1. PICK s, r, c : s = x.sid /\ r = x.req /\ c = x.choice
      OBVIOUS
    <3>2. Typed /\ s \in Sids /\ c \in Choices \cup {Deny} /\ Takes(s, r, c)
      BY <1>1, <1>3, <3>1 DEF IInv
    <3>3. /\ [kind |-> "resolved", req |-> r, choice |-> c] \in Events
          /\ log' = [log EXCEPT ![s] = Append(@, [kind |-> "resolved", req |-> r, choice |-> c])]
      BY <3>2, Taken
    <3> QED
      BY <3>1, <3>3
  <2> HIDE DEF e
  <2>2. Waits(submitting)' /\ WaitIsTrue'
    BY <1>1, <1>2, <2>1, WaitGrows
  <2> QED
    BY <1>1, <1>2, <2>1, <2>2, HostKeeps DEF Strays, Sendable
<1>4. CASE UNCHANGED log
  <2>1. ReadsArePrefixes' /\ at' \in [Sids -> Nat \cup {None}] /\ loads' \in [Sids -> SUBSET Nat]
    BY <1>2, <1>4 DEF ReadsArePrefixes, IInv, Typed
  <2> QED
    BY <1>2, <1>4, <2>1, ReadsKeep DEF Strays, Sendable
<1> QED
  BY <1>3, <1>4 DEF StrayArrives, Refuses

\* An event the host appends for reasons of its own.
LEMMA HostActs ==
    ASSUME IInv, Strays, NEW s \in Sids, NEW e \in Events,
           log' = [log EXCEPT ![s] = Append(@, e)], UNCHANGED <<at, loads, desk, card>>
    PROVE  IInv' /\ Strays'
<1>1. UNCHANGED <<active, decision, submitting, stray>>
  BY DEF card
<1>2. Waits(submitting)' /\ WaitIsTrue'
  BY <1>1, WaitGrows
<1> QED
  BY <1>1, <1>2, HostKeeps DEF Strays, Sendable

THEOREM Inductive == IInv /\ Strays /\ [Next]_vars => IInv' /\ Strays'
<1> SUFFICES ASSUME IInv, Strays, [Next]_vars PROVE IInv' /\ Strays'
  OBVIOUS
<1>1. ASSUME NEW s \in Sids, NEW r \in Reqs, Ask(s, r) PROVE IInv' /\ Strays'
  <2> DEFINE e == [kind |-> "request", req |-> r]
  <2>1. e \in Events
    BY DEF Events
  <2>2. log' = [log EXCEPT ![s] = Append(@, e)] /\ UNCHANGED <<at, loads, desk, card>>
    BY <1>1 DEF Ask
  <2> HIDE DEF e
  <2> QED
    BY <2>1, <2>2, HostActs
<1>2. ASSUME NEW s \in Sids, NEW r \in Reqs, NEW c \in Choices \cup {Deny},
             ResolveElsewhere(s, r, c)
      PROVE  IInv' /\ Strays'
  <2> DEFINE e == [kind |-> "resolved", req |-> r, choice |-> c]
  <2>1. e \in Events /\ log' = [log EXCEPT ![s] = Append(@, e)]
    BY <1>2, Taken DEF ResolveElsewhere, IInv
  <2>2. UNCHANGED <<at, loads, desk, card>>
    BY <1>2 DEF ResolveElsewhere
  <2> HIDE DEF e
  <2> QED
    BY <2>1, <2>2, HostActs
<1>3. ASSUME NEW s \in Sids, Connect(s) \/ Gap(s) \/ ReadLog(s) \/ Delete(s)
      PROVE  IInv' /\ Strays'
  <2>1. UNCHANGED <<log, desk, active, decision, submitting, stray>>
    BY <1>3 DEF Connect, Gap, ReadLog, Delete, host, card
  <2>2. /\ at \in [Sids -> Nat \cup {None}] /\ loads \in [Sids -> SUBSET Nat]
        /\ Len(log[s]) \in Nat
    BY DEF IInv, Typed
  <2>3. /\ at' = at \/ at' = [at EXCEPT ![s] = Len(log[s])]
        /\ loads' = loads \/ loads' = [loads EXCEPT ![s] = @ \cup {Len(log[s])}]
    BY <1>3 DEF Connect, Gap, ReadLog, Delete
  <2>4. at' \in [Sids -> Nat \cup {None}] /\ loads' \in [Sids -> SUBSET Nat]
    BY <2>2, <2>3
  <2>5. ReadsArePrefixes'
    BY <2>1, <2>2, <2>3 DEF ReadsArePrefixes, IInv
  <2> QED
    BY <2>1, <2>4, <2>5, ReadsKeep DEF Strays, Sendable
<1>4. ASSUME NEW s \in Sids, NEW n \in loads[s], LoadFails(s, n) PROVE IInv' /\ Strays'
  <2>1. /\ UNCHANGED <<log, at, desk, active, decision, submitting, stray>>
        /\ loads' = [loads EXCEPT ![s] = @ \ {n}]
    BY <1>4 DEF LoadFails, host, card
  <2>2. at' \in [Sids -> Nat \cup {None}] /\ loads' \in [Sids -> SUBSET Nat]
    BY <2>1 DEF IInv, Typed
  <2>3. ReadsArePrefixes'
    BY <2>1 DEF ReadsArePrefixes, IInv, Typed
  <2> QED
    BY <2>1, <2>2, <2>3, ReadsKeep DEF Strays, Sendable
<1>5. ASSUME NEW s \in Sids, Frame(s) PROVE IInv' /\ Strays'
  BY <1>5, FrameKeeps, RenderStrays DEF Frame, Dispatch
<1>6. ASSUME NEW s \in Sids, NEW n \in loads[s], NEW skip \in 0..n, Replay(s, n, skip)
      PROVE  IInv' /\ Strays'
  BY <1>6, ReplayKeeps, RenderStrays DEF Replay, Dispatch
<1>7. ASSUME NEW s \in Sids, Drop(s) PROVE IInv' /\ Strays'
  BY <1>7, DropKeeps, RenderStrays DEF Drop
<1>8. ASSUME NEW s \in Sids \cup {None}, Switch(s) PROVE IInv' /\ Strays'
  BY <1>8, SwitchKeeps, RenderStrays DEF Switch
<1>9. ASSUME NEW c \in Choices \cup {Deny}, Reply(c) PROVE IInv' /\ Strays'
  <2>1. /\ UNCHANGED <<log, at, loads, desk, active, decision, stray>> /\ Front(active) # None
        /\ submitting' = [req |-> Front(active), choice |-> c, answer |-> "none"]
    BY <1>9 DEF Reply, host
  <2>2. active # None
    BY <2>1 DEF Front
  <2>3. Waits(submitting)' /\ submitting'.answer # "ok"
    BY <2>1 DEF Waits
  <2>4. WaitIsTrue'
    BY <2>1, <2>2, <2>3 DEF WaitIsTrue
  <2>5. ReadsArePrefixes' /\ at' \in [Sids -> Nat \cup {None}] /\ loads' \in [Sids -> SUBSET Nat]
    BY <2>1 DEF ReadsArePrefixes, IInv, Typed
  <2> QED
    BY <2>1, <2>3, <2>4, <2>5, QuietKeeps DEF Strays, Sendable
<1>10. ASSUME TakeReply PROVE IInv' /\ Strays'
  BY <1>10, ReplyMeetsHost DEF TakeReply, Strays, Sendable
<1>11. ASSUME ReplyAccepted PROVE IInv' /\ Strays'
  BY <1>11, AcceptedKeeps, RenderStrays DEF ReplyAccepted
<1>12. ASSUME ReplyFailed PROVE IInv' /\ Strays'
  <2>1. /\ UNCHANGED <<log, at, loads, desk, active, decision>> /\ submitting' = None
        /\ stray' = stray \cup Orphan(submitting)
    BY <1>12 DEF ReplyFailed, host
  <2>2. WaitIsTrue' /\ Waits(submitting)'
    BY <2>1 DEF WaitIsTrue, Waits
  <2>3. ReadsArePrefixes' /\ at' \in [Sids -> Nat \cup {None}] /\ loads' \in [Sids -> SUBSET Nat]
    BY <2>1 DEF ReadsArePrefixes, IInv, Typed
  <2>4. Strays'
    BY <2>1, OrphanTyped DEF Strays, Sendable
  <2> QED
    BY <2>1, <2>2, <2>3, <2>4, QuietKeeps
<1>13. ASSUME NEW x \in stray, StrayArrives(x) PROVE IInv' /\ Strays'
  BY <1>13, StrayKeeps
<1>14. CASE UNCHANGED vars
  <2>1. UNCHANGED <<log, at, loads, desk, active, decision, submitting, stray>>
    BY <1>14 DEF vars, desk
  <2>2. ReadsArePrefixes' /\ at' \in [Sids -> Nat \cup {None}] /\ loads' \in [Sids -> SUBSET Nat]
    BY <2>1 DEF ReadsArePrefixes, IInv, Typed
  <2> QED
    BY <2>1, <2>2, ReadsKeep DEF Strays, Sendable
<1> QED
  BY <1>1, <1>2, <1>3, <1>4, <1>5, <1>6, <1>7, <1>8, <1>9, <1>10, <1>11, <1>12, <1>13, <1>14
     DEF Next

THEOREM Invariance == Spec => [](IInv /\ Strays)
<1>1. Init => IInv /\ Strays
  <2>1. Init => Strays
    BY DEF Init, Strays, Sendable
  <2> QED
    BY <2>1, Initially
<1> QED
  BY <1>1, Inductive, PTL DEF Spec

\* No failed, refused, lost or forgotten reply, and no replay, settles a request
\* that the host has not resolved: its card cannot be lost that way.
THEOREM CardsLeaveAnswered == Spec => []SettledWasAnswered
<1>1. IInv /\ Strays => SettledWasAnswered
  BY DEF IInv
<1> QED
  BY <1>1, Invariance, PTL

\* The summary and the decision line always repeat an outcome in the host's log
\* of the session they are shown for.
THEOREM OnlyTruthIsShown == Spec => []ShownIsTrue
<1>1. IInv /\ Strays => ShownIsTrue
  BY DEF IInv
<1> QED
  BY <1>1, Invariance, PTL

-----------------------------------------------------------------------------
(* The elements of a sequence at some of its positions. *)

\* The number of positions of I up to i.
Rank(I, i) == Cardinality({j \in I : j <= i})

\* The ranks of the positions are 1, 2, ... up to their number, each once.
LEMMA Ranks ==
    ASSUME NEW n \in Nat, NEW I \in SUBSET (1..n)
    PROVE  /\ Cardinality(I) \in Nat
           /\ \A i \in I : Rank(I, i) \in 1..Cardinality(I)
           /\ \A i, j \in I : Rank(I, i) = Rank(I, j) => i = j
           /\ \A k \in 1..Cardinality(I) : \E i \in I : Rank(I, i) = k
           /\ 1 \in I => Rank(I, 1) = 1
<1>0. \A i \in I : i \in Nat /\ i >= 1
  OBVIOUS
<1>1. IsFiniteSet(I) /\ Cardinality(I) \in Nat
  <2>1. IsFiniteSet(1..n)
    BY FS_Interval
  <2>2. IsFiniteSet(I)
    BY <2>1, FS_Subset
  <2> QED
    BY <2>2, FS_CardinalityType
<1>2. ASSUME NEW i \in I PROVE IsFiniteSet({j \in I : j <= i}) /\ Rank(I, i) \in 1..Cardinality(I)
  <2> DEFINE J == {j \in I : j <= i}
  <2>1. IsFiniteSet(J) /\ Cardinality(J) <= Cardinality(I)
    BY <1>1, FS_Subset
  <2>2. i \in J
    OBVIOUS
  <2> HIDE DEF J
  <2>3. Cardinality(J) \in Nat /\ Cardinality(J) # 0
    BY <2>1, <2>2, FS_CardinalityType, FS_EmptySet
  <2> QED
    BY <1>1, <2>1, <2>3 DEF Rank, J
<1>3. ASSUME NEW i \in I, NEW j \in I, i < j PROVE Rank(I, i) # Rank(I, j)
  <2> DEFINE J == {l \in I : l <= i}
             K == {l \in I : l <= j}
  <2>0. i \in Nat /\ j \in Nat /\ j <= j /\ ~ (j <= i) /\ \A l \in I : l <= i => l <= j
    BY <1>0, <1>3
  <2>1. J \in SUBSET K /\ j \in K /\ j \notin J
    BY <2>0, Zenon
  <2>2. IsFiniteSet(K) /\ Rank(I, i) = Cardinality(J) /\ Rank(I, j) = Cardinality(K)
    BY <1>2 DEF Rank
  <2> HIDE DEF J, K
  <2> QED
    BY <2>1, <2>2, FS_Subset
<1>4. \A i, j \in I : Rank(I, i) = Rank(I, j) => i = j
  BY <1>3
<1>5. \A k \in 1..Cardinality(I) : \E i \in I : Rank(I, i) = k
  <2> DEFINE f == [i \in I |-> Rank(I, i)]
             N == 1..Cardinality(I)
  <2>1. f \in Injection(I, N)
    BY <1>2, <1>4 DEF Injection, IsInjective
  <2>2. IsFiniteSet(N) /\ Cardinality(N) = Cardinality(I)
    BY <1>1, FS_Interval
  <2> HIDE DEF N
  <2>3. f \in Surjection(I, N)
    BY <2>1, <2>2, FS_Injection
  <2> QED
    BY <2>3 DEF Surjection, N
<1>6. ASSUME 1 \in I PROVE Rank(I, 1) = 1
  <2>1. \A j \in I : j <= 1 <=> j = 1
    BY <1>0
  <2>2. {j \in I : j <= 1} = {1}
    BY <1>6, <2>1
  <2> QED
    BY <2>2, FS_Singleton DEF Rank
<1> QED
  BY <1>1, <1>2, <1>4, <1>5, <1>6

\* What is selected is the sequence of the elements at those positions: h tells
\* which position each comes from.
Picks(w, q, I, h, n) ==
    /\ h \in [1..n -> I] /\ n \in Nat /\ Len(w) = n
    /\ \A k \in 1..n : w[k] = q[h[k]]
    /\ \A k, l \in 1..n : h[k] = h[l] => k = l
    /\ \A i \in I : \E k \in 1..n : h[k] = i
    /\ 1 \in I => 1 \in 1..n /\ h[1] = 1

LEMMA SelectedElements ==
    ASSUME NEW S, NEW q \in Seq(S), NEW I \in SUBSET (1..Len(q)), NEW w, w = Selected(q, I)
    PROVE  w \in Seq(S) /\ \E h : Picks(w, q, I, h, Cardinality(I))
<1> DEFINE n == Cardinality(I)
           h == [k \in 1..n |-> CHOOSE i \in I : Rank(I, i) = k]
<1>1. Len(q) \in Nat /\ \A i \in 1..Len(q) : q[i] \in S
  OBVIOUS
<1>2. /\ n \in Nat
      /\ \A i \in I : Rank(I, i) \in 1..n
      /\ \A i, j \in I : Rank(I, i) = Rank(I, j) => i = j
      /\ \A k \in 1..n : \E i \in I : Rank(I, i) = k
      /\ 1 \in I => Rank(I, 1) = 1
  BY <1>1, Ranks
<1> HIDE DEF n
<1>3. \A k \in 1..n : h[k] \in I /\ Rank(I, h[k]) = k
  BY <1>2
<1>4. w = [k \in 1..n |-> q[h[k]]]
  BY DEF Selected, Rank, n
<1> HIDE DEF h
<1>5. h \in [1..n -> I]
  BY <1>3 DEF h
<1>6. \A k \in 1..n : q[h[k]] \in S
  BY <1>1, <1>3
<1>7. w \in Seq(S) /\ Len(w) = n
  BY <1>2, <1>4, <1>6
<1>8. \A i \in I : Rank(I, i) \in 1..n /\ h[Rank(I, i)] = i
  BY <1>2, <1>3
<1>9. 1 \in I => 1 \in 1..n /\ h[1] = 1
  BY <1>2, <1>8
<1>10. \A k, l \in 1..n : h[k] = h[l] => k = l
  BY <1>3
<1>11. \A i \in I : \E k \in 1..n : h[k] = i
  BY <1>8
<1>12. \A k \in 1..n : w[k] = q[h[k]]
  BY <1>4
<1>13. Picks(w, q, I, h, n)
  BY <1>2, <1>5, <1>7, <1>9, <1>10, <1>11, <1>12 DEF Picks
<1> QED
  BY <1>7, <1>13 DEF n

\* What a sequence holds, and that it holds nothing twice.
Elements(q) == {q[i] : i \in 1..Len(q)}
Once(q) == \A i, j \in 1..Len(q) : q[i] = q[j] => i = j

\* A request is asked once in a run of events.
AskedOnce(E) == \A i, j \in 1..Len(E) :
    E[i].kind = "request" /\ E[j].kind = "request" /\ E[i].req = E[j].req => i = j

\* w is what is left of q without Rs: its first element is in its place still.
IsLeft(w, q, Rs) ==
    /\ Elements(w) = Elements(q) \ Rs
    /\ q # <<>> /\ q[1] \notin Rs => w # <<>> /\ w[1] = q[1]

\* Without removes the cards of Rs, keeps the others once and the first in its place.
LEMMA WithoutCards ==
    ASSUME NEW S, NEW q \in Seq(S), Once(q), NEW Rs, NEW w, w = Without(q, Rs)
    PROVE  w \in Seq(S) /\ Once(w) /\ IsLeft(w, q, Rs)
<1> DEFINE I == {i \in 1..Len(q) : q[i] \notin Rs}
<1>1. Len(q) \in Nat /\ I \in SUBSET (1..Len(q)) /\ w = Selected(q, I)
  BY DEF Without
<1> PICK n : n = Cardinality(I)
  OBVIOUS
<1>2. PICK h \in [1..n -> I] :
        /\ n \in Nat /\ w \in Seq(S) /\ Len(w) = n
        /\ \A k \in 1..n : w[k] = q[h[k]]
        /\ \A k, l \in 1..n : h[k] = h[l] => k = l
        /\ \A i \in I : \E k \in 1..n : h[k] = i
        /\ 1 \in I => 1 \in 1..n /\ h[1] = 1
  <2> HIDE DEF I
  <2>1. w \in Seq(S) /\ \E h : Picks(w, q, I, h, n)
    BY <1>1, SelectedElements
  <2> QED
    BY <2>1 DEF Picks
<1>3. \A k \in 1..n : h[k] \in I
  BY <1>2
<1>4. \A i : i \in I <=> i \in 1..Len(q) /\ q[i] \notin Rs
  OBVIOUS
<1> HIDE DEF I
<1>5. Once(w)
  <2> SUFFICES ASSUME NEW k \in 1..n, NEW l \in 1..n, w[k] = w[l] PROVE k = l
    BY <1>2 DEF Once
  <2>1. q[h[k]] = q[h[l]] /\ h[k] \in 1..Len(q) /\ h[l] \in 1..Len(q)
    BY <1>2, <1>3, <1>4
  <2>2. h[k] = h[l]
    BY <2>1 DEF Once
  <2> QED
    BY <1>2, <2>2
<1>6. Elements(w) \subseteq Elements(q) \ Rs
  <2> SUFFICES ASSUME NEW k \in 1..n PROVE w[k] \in Elements(q) \ Rs
    BY <1>2 DEF Elements
  <2>1. w[k] = q[h[k]] /\ h[k] \in 1..Len(q) /\ q[h[k]] \notin Rs
    BY <1>2, <1>3, <1>4
  <2> QED
    BY <2>1 DEF Elements
<1>7. Elements(q) \ Rs \subseteq Elements(w)
  <2> SUFFICES ASSUME NEW i \in 1..Len(q), q[i] \notin Rs PROVE q[i] \in Elements(w)
    BY DEF Elements
  <2>1. PICK k \in 1..n : h[k] = i
    BY <1>2, <1>4
  <2>2. w[k] = q[i] /\ k \in 1..Len(w)
    BY <1>2, <2>1
  <2> QED
    BY <2>2 DEF Elements
<1>8. ASSUME q # <<>>, q[1] \notin Rs PROVE w # <<>> /\ w[1] = q[1]
  <2>1. 1 \in 1..Len(q)
    BY <1>1, <1>8
  <2>2. 1 \in 1..n /\ h[1] = 1
    BY <1>2, <1>4, <1>8, <2>1
  <2>3. w[1] = q[1] /\ Len(w) # 0
    BY <1>2, <2>2
  <2> QED
    BY <2>3
<1>9. Elements(w) = Elements(q) \ Rs
  BY <1>6, <1>7
<1>10. IsLeft(w, q, Rs)
  BY <1>8, <1>9 DEF IsLeft
<1> QED
  BY <1>2, <1>5, <1>10

\* The requests of a run of events.
Requests(E) == {E[i].req : i \in {j \in 1..Len(E) : E[j].kind = "request"}}

\* A run of events adds its requests that were not settled here, behind the others.
LEMMA EnqueuedCards ==
    ASSUME NEW s, pending[s] \in Seq(Reqs), Once(pending[s]),
           NEW E \in Seq(Events), AskedOnce(E), NEW w, w = Enqueued(s, E)
    PROVE  /\ w \in Seq(Reqs) /\ Once(w)
           /\ Elements(w) = Elements(pending[s]) \cup (Requests(E) \ settled[s])
           /\ pending[s] # <<>> => w # <<>> /\ w[1] = pending[s][1]
<1> DEFINE I == {i \in 1..Len(E) : Opens(s, E, i) /\ ~IsPending(s, E[i].req)}
<1>0. PICK p, e, f, n :
        p = pending[s] /\ e = ReqsOf(E) /\ f = Selected(e, I) /\ n = Cardinality(I)
  OBVIOUS
<1>1. /\ p \in Seq(Reqs) /\ Once(p) /\ Len(p) \in Nat /\ Len(E) \in Nat
      /\ \A i \in 1..Len(E) : E[i].req \in Reqs
  <2>1. \A i \in 1..Len(E) : E[i] \in Events
    OBVIOUS
  <2>2. \A i \in 1..Len(E) : E[i].req \in Reqs
    BY <2>1, EventForm
  <2>3. p \in Seq(Reqs) /\ Once(p)
    BY <1>0
  <2> QED
    BY <2>2, <2>3
<1>2. e \in Seq(Reqs) /\ Len(e) = Len(E) /\ \A i \in 1..Len(E) : e[i] = E[i].req
  BY <1>0, <1>1 DEF ReqsOf
<1>3. \A i : i \in I <=> /\ i \in 1..Len(E) /\ E[i].kind = "request"
                         /\ e[i] \notin settled[s] /\ e[i] \notin Elements(p)
  BY <1>0, <1>2 DEF Opens, IsPending, Elements
<1>4. w = p \o f
  BY <1>0 DEF Enqueued
<1> HIDE DEF I
<1>5. PICK h \in [1..n -> I] :
        /\ n \in Nat /\ f \in Seq(Reqs) /\ Len(f) = n
        /\ \A k \in 1..n : f[k] = e[h[k]]
        /\ \A k, l \in 1..n : h[k] = h[l] => k = l
        /\ \A i \in I : \E k \in 1..n : h[k] = i
  <2>1. I \in SUBSET (1..Len(e)) /\ e \in Seq(Reqs)
    BY <1>2, <1>3
  <2>2. f = Selected(e, I) /\ n = Cardinality(I)
    BY <1>0
  <2>3. f \in Seq(Reqs) /\ \E h : Picks(f, e, I, h, n)
    BY <2>1, <2>2, SelectedElements
  <2> QED
    BY <2>3 DEF Picks
<1>6. \A k \in 1..n : h[k] \in I
  BY <1>5
<1>7. /\ w \in Seq(Reqs) /\ Len(w) = Len(p) + n
      /\ \A i \in 1..Len(p) : w[i] = p[i]
      /\ \A k \in 1..n : w[Len(p) + k] = f[k]
  <2>1. p \in Seq(Reqs) /\ f \in Seq(Reqs) /\ Len(f) = n /\ w = p \o f
    BY <1>1, <1>4, <1>5
  <2> QED
    BY <2>1
<1>8. \A i \in 1..Len(w) : i \in 1..Len(p) \/ \E k \in 1..n : i = Len(p) + k
  <2> SUFFICES ASSUME NEW i \in 1..Len(w), ~ (i \in 1..Len(p))
               PROVE  \E k \in 1..n : i = Len(p) + k
    OBVIOUS
  <2>1. PICK k : k = i - Len(p)
    OBVIOUS
  <2>2. k \in 1..n /\ i = Len(p) + k
    BY <1>1, <1>5, <1>7, <2>1
  <2> QED
    BY <2>2
<1>9. \A k \in 1..n : f[k] \notin Elements(p) /\ f[k] \in Requests(E) \ settled[s]
  <2> SUFFICES ASSUME NEW k \in 1..n
               PROVE  f[k] \notin Elements(p) /\ f[k] \in Requests(E) \ settled[s]
    OBVIOUS
  <2>1. PICK i : i = h[k]
    OBVIOUS
  <2>2. f[k] = e[i] /\ i \in I
    BY <1>5, <1>6, <2>1
  <2>3. /\ i \in 1..Len(E) /\ E[i].kind = "request" /\ e[i] \notin settled[s] /\ e[i] \notin Elements(p)
    BY <1>3, <2>2
  <2>4. e[i] = E[i].req
    BY <1>2, <2>3
  <2> QED
    BY <2>2, <2>3, <2>4 DEF Requests
<1>10. \A k, l \in 1..n : f[k] = f[l] => k = l
  <2> SUFFICES ASSUME NEW k \in 1..n, NEW l \in 1..n, f[k] = f[l] PROVE k = l
    OBVIOUS
  <2>1. /\ h[k] \in 1..Len(E) /\ E[h[k]].kind = "request" /\ f[k] = E[h[k]].req
        /\ h[l] \in 1..Len(E) /\ E[h[l]].kind = "request" /\ f[l] = E[h[l]].req
    BY <1>2, <1>3, <1>5, <1>6
  <2>2. h[k] = h[l]
    BY <2>1 DEF AskedOnce
  <2> QED
    BY <1>5, <2>2
<1>11. Once(w)
  <2> SUFFICES ASSUME NEW i \in 1..Len(w), NEW j \in 1..Len(w), w[i] = w[j] PROVE i = j
    BY DEF Once
  <2>1. CASE i \in 1..Len(p) /\ j \in 1..Len(p)
    BY <1>1, <1>7, <2>1 DEF Once
  <2>2. ASSUME NEW k \in 1..n, i \in 1..Len(p), j = Len(p) + k PROVE FALSE
    BY <1>7, <1>9, <2>2 DEF Elements
  <2>3. ASSUME NEW k \in 1..n, j \in 1..Len(p), i = Len(p) + k PROVE FALSE
    BY <1>7, <1>9, <2>3 DEF Elements
  <2>4. ASSUME NEW k \in 1..n, NEW l \in 1..n, i = Len(p) + k, j = Len(p) + l PROVE i = j
    <3>1. f[k] = f[l]
      BY <1>7, <2>4
    <3> QED
      BY <1>10, <2>4, <3>1
  <2> QED
    BY <1>8, <2>1, <2>2, <2>3, <2>4
<1>12. Elements(w) \subseteq Elements(p) \cup (Requests(E) \ settled[s])
  <2> SUFFICES ASSUME NEW i \in 1..Len(w)
               PROVE  w[i] \in Elements(p) \cup (Requests(E) \ settled[s])
    BY DEF Elements
  <2>1. CASE i \in 1..Len(p)
    BY <1>7, <2>1 DEF Elements
  <2>2. ASSUME NEW k \in 1..n, i = Len(p) + k PROVE w[i] \in Requests(E) \ settled[s]
    BY <1>7, <1>9, <2>2
  <2> QED
    BY <1>8, <2>1, <2>2
<1>13. Elements(p) \subseteq Elements(w)
  <2> SUFFICES ASSUME NEW i \in 1..Len(p) PROVE p[i] \in Elements(w)
    BY DEF Elements
  <2>1. i \in 1..Len(w) /\ w[i] = p[i]
    BY <1>1, <1>5, <1>7
  <2> QED
    BY <2>1 DEF Elements
<1>14. Requests(E) \ settled[s] \subseteq Elements(w)
  <2> SUFFICES ASSUME NEW j \in 1..Len(E), E[j].kind = "request", E[j].req \notin settled[s],
                      E[j].req \notin Elements(p)
               PROVE  E[j].req \in Elements(w)
    BY <1>13 DEF Requests
  <2>1. PICK k \in 1..n : h[k] = j
    BY <1>2, <1>3, <1>5
  <2>2. w[Len(p) + k] = E[j].req
    <3>1. f[k] = e[j] /\ e[j] = E[j].req
      BY <1>2, <1>5, <2>1
    <3> QED
      BY <1>7, <3>1
  <2>3. Len(p) + k \in 1..Len(w)
    BY <1>1, <1>5, <1>7
  <2> QED
    BY <2>2, <2>3 DEF Elements
<1>15. ASSUME p # <<>> PROVE w # <<>> /\ w[1] = p[1]
  <2>1. 1 \in 1..Len(p) /\ Len(w) # 0
    BY <1>1, <1>5, <1>7, <1>15
  <2> QED
    BY <1>7, <2>1
<1> QED
  BY <1>0, <1>7, <1>11, <1>12, <1>13, <1>14, <1>15

-----------------------------------------------------------------------------
(* The queue of cards and what was received of the log. *)

\* What the page received of the log of s: the requests of its events of a kind.
Received(s, kind) == {log[s][n].req : n \in {m \in got[s] : log[s][m].kind = kind}}

\* The cards of a session: what was received comes from its log, in which a
\* request is asked once; a resolution that was received is settled; and the
\* queue holds, each once, the requests received and not settled.
CardsOf(s) ==
    /\ got[s] \subseteq 1..Len(log[s])
    /\ AskedOnce(log[s])
    /\ Received(s, "resolved") \subseteq settled[s]
    /\ Elements(pending[s]) = Received(s, "request") \ settled[s]
    /\ Once(pending[s])

CardsKept ==
    /\ pending \in [Sids -> Seq(Reqs)] /\ got \in [Sids -> SUBSET Nat]
    /\ \A s \in Sids : CardsOf(s)

LEMMA SameCards ==
    ASSUME NEW t, CardsOf(t), log'[t] = log[t], got'[t] = got[t],
           settled'[t] = settled[t], pending'[t] = pending[t]
    PROVE  CardsOf(t)'
BY DEF CardsOf, Received

\* What a run of events brings, in terms of the events and of their places in the log.
LEMMA ReceivedMore ==
    ASSUME NEW s, NEW E, NEW P,
           \A i \in 1..Len(E) : \E n \in P : E[i] = log[s][n],
           \A n \in P : \E i \in 1..Len(E) : E[i] = log[s][n],
           log' = log, got'[s] = got[s] \cup P
    PROVE  /\ Received(s, "request")' = Received(s, "request") \cup Requests(E)
           /\ Received(s, "resolved")' = Received(s, "resolved") \cup Resolutions(E)
<1> DEFINE Of(kind) == {E[i].req : i \in {j \in 1..Len(E) : E[j].kind = kind}}
<1>1. ASSUME NEW kind PROVE Received(s, kind)' = Received(s, kind) \cup Of(kind)
  <2>1. \A n \in got[s] \cup P : log[s][n].kind = kind
          => log[s][n].req \in Received(s, kind) \cup Of(kind)
    BY DEF Received
  <2>2. Of(kind) \subseteq {log[s][n].req : n \in {m \in P : log[s][m].kind = kind}}
    OBVIOUS
  <2>3. Received(s, kind)' = {log[s][n].req : n \in {m \in got[s] \cup P : log[s][m].kind = kind}}
    BY DEF Received
  <2> HIDE DEF Of
  <2>4. Received(s, kind)' \subseteq Received(s, kind) \cup Of(kind)
    BY <2>1, <2>3
  <2>5. Received(s, kind) \subseteq Received(s, kind)'
    BY <2>3 DEF Received
  <2>6. Of(kind) \subseteq Received(s, kind)'
    BY <2>2, <2>3
  <2> QED
    BY <2>4, <2>5, <2>6
<1>2. Of("request") = Requests(E) /\ Of("resolved") = Resolutions(E)
  BY DEF Requests, Resolutions
<1> QED
  BY <1>1, <1>2

\* The reducer and the history move together.
LEMMA DispatchCards ==
    ASSUME Typed, CardsKept, NEW s \in Sids, NEW E \in Seq(Events), AskedOnce(E),
           NEW P \in SUBSET (1..Len(log[s])),
           \A i \in 1..Len(E) : \E n \in P : E[i] = log[s][n],
           \A n \in P : \E i \in 1..Len(E) : E[i] = log[s][n],
           Dispatch(s, E), log' = log, got' = [got EXCEPT ![s] = @ \cup P]
    PROVE  CardsKept'
<1>1. /\ pending \in [Sids -> Seq(Reqs)] /\ got \in [Sids -> SUBSET Nat]
      /\ settled \in [Sids -> SUBSET Reqs] /\ Len(log[s]) \in Nat
      /\ \A t \in Sids : CardsOf(t)
  BY DEF CardsKept, Typed
<1>2. PICK v, w : v = Enqueued(s, E) /\ w = Without(v, Resolutions(E))
  OBVIOUS
<1>3. /\ pending' = [pending EXCEPT ![s] = w]
      /\ settled' = [settled EXCEPT ![s] = @ \cup Resolutions(E)]
  BY <1>2 DEF Dispatch, Settle
<1>4. /\ v \in Seq(Reqs) /\ Once(v)
      /\ Elements(v) = Elements(pending[s]) \cup (Requests(E) \ settled[s])
  <2>1. pending[s] \in Seq(Reqs) /\ Once(pending[s])
    BY <1>1 DEF CardsOf
  <2> QED
    BY <1>2, <2>1, EnqueuedCards
<1>5. w \in Seq(Reqs) /\ Once(w) /\ Elements(w) = Elements(v) \ Resolutions(E)
  <2>1. w \in Seq(Reqs) /\ Once(w) /\ IsLeft(w, v, Resolutions(E))
    BY <1>2, <1>4, WithoutCards
  <2> QED
    BY <2>1 DEF IsLeft
<1>6. pending' \in [Sids -> Seq(Reqs)] /\ got' \in [Sids -> SUBSET Nat]
  <2>0. \A n \in P : n \in Nat
    BY <1>1
  <2>1. got[s] \cup P \in SUBSET Nat
    BY <1>1, <2>0
  <2>2. got' \in [Sids -> SUBSET Nat]
    BY <1>1, <2>1
  <2> QED
    BY <1>1, <1>3, <1>5, <2>2
<1>7. /\ pending'[s] = w /\ settled'[s] = settled[s] \cup Resolutions(E)
      /\ got'[s] = got[s] \cup P
  BY <1>1, <1>3
<1>8. CardsOf(s)'
  <2>1. /\ Received(s, "request")' = Received(s, "request") \cup Requests(E)
        /\ Received(s, "resolved")' = Received(s, "resolved") \cup Resolutions(E)
    BY <1>7, ReceivedMore
  <2>2. /\ got[s] \subseteq 1..Len(log[s]) /\ AskedOnce(log[s])
        /\ Received(s, "resolved") \subseteq settled[s]
        /\ Elements(pending[s]) = Received(s, "request") \ settled[s]
    BY <1>1 DEF CardsOf
  <2>3. got'[s] \subseteq 1..Len(log'[s]) /\ AskedOnce(log[s])'
    BY <1>7, <2>2 DEF AskedOnce
  <2>4. Elements(pending[s])' = Elements(w) /\ Once(pending[s])'
    BY <1>5, <1>7 DEF Elements, Once
  <2>5. Received(s, "resolved")' \subseteq settled'[s]
    BY <1>7, <2>1, <2>2
  <2>6. Elements(w) = Received(s, "request")' \ settled'[s]
    BY <1>4, <1>5, <1>7, <2>1, <2>2
  <2> QED
    BY <2>3, <2>4, <2>5, <2>6 DEF CardsOf
<1>9. ASSUME NEW t \in Sids, t # s PROVE CardsOf(t)'
  <2>1. /\ log'[t] = log[t] /\ got'[t] = got[t]
        /\ settled'[t] = settled[t] /\ pending'[t] = pending[t]
    BY <1>1, <1>3, <1>9
  <2> QED
    BY <1>1, <2>1, SameCards
<1> QED
  BY <1>6, <1>8, <1>9 DEF CardsKept

LEMMA StillCards ==
    ASSUME CardsKept, UNCHANGED <<log, settled, pending, got>> PROVE CardsKept'
<1>1. \A t \in Sids : CardsOf(t)'
  BY SameCards DEF CardsKept
<1> QED
  BY <1>1 DEF CardsKept

\* The log grows; a request it asked before is not asked again.
LEMMA GrowsCards ==
    ASSUME Typed, CardsKept, NEW s \in Sids, NEW e \in Events,
           e.kind = "request" => e.req \notin Asked(s),
           log' = [log EXCEPT ![s] = Append(@, e)], UNCHANGED <<settled, pending, got>>
    PROVE  CardsKept'
<1>1. log \in [Sids -> Seq(Events)] /\ \A t \in Sids : CardsOf(t)
  BY DEF Typed, CardsKept
<1>2. PICK l, m : l = log[s] /\ m = Append(l, e)
  OBVIOUS
<1>3. /\ Len(l) \in Nat /\ Len(m) = Len(l) + 1 /\ m[Len(l) + 1] = e
      /\ \A i \in 1..Len(l) : m[i] = l[i]
  <2>1. l \in Seq(Events)
    BY <1>1, <1>2
  <2> QED
    BY <1>2, <2>1
<1>4. log'[s] = m /\ \A t \in Sids \ {s} : log'[t] = log[t]
  BY <1>1, <1>2
<1>5. got[s] \subseteq 1..Len(l) /\ AskedOnce(l)
  BY <1>1, <1>2 DEF CardsOf
<1>6. AskedOnce(m)
  <2> SUFFICES ASSUME NEW i \in 1..Len(m), NEW j \in 1..Len(m),
                      m[i].kind = "request", m[j].kind = "request", m[i].req = m[j].req
               PROVE  i = j
    BY DEF AskedOnce
  <2>1. \A k \in 1..Len(l) : l[k].kind = "request" /\ e.kind = "request" => l[k].req # e.req
    BY <1>2 DEF Asked
  <2>2. CASE i \in 1..Len(l) /\ j \in 1..Len(l)
    BY <1>3, <1>5, <2>2 DEF AskedOnce
  <2>3. CASE i \in 1..Len(l) /\ j = Len(l) + 1
    BY <1>3, <2>1, <2>3
  <2>4. CASE i = Len(l) + 1 /\ j \in 1..Len(l)
    BY <1>3, <2>1, <2>4
  <2> QED
    BY <1>3, <2>2, <2>3, <2>4
<1>7. CardsOf(s)'
  <2>1. Received(s, "request")' = Received(s, "request")
        /\ Received(s, "resolved")' = Received(s, "resolved")
    <3>1. \A n \in got[s] : log'[s][n] = log[s][n]
      BY <1>2, <1>3, <1>4, <1>5
    <3> QED
      BY <3>1 DEF Received
  <2>2. got'[s] \subseteq 1..Len(log'[s])
    BY <1>3, <1>4, <1>5
  <2>3. CardsOf(s)
    BY <1>1
  <2>4. AskedOnce(log[s])'
    BY <1>4, <1>6
  <2>5. Elements(pending[s])' = Elements(pending[s]) /\ (Once(pending[s])' <=> Once(pending[s]))
    BY DEF Elements, Once
  <2> QED
    BY <2>1, <2>2, <2>3, <2>4, <2>5 DEF CardsOf
<1>8. ASSUME NEW t \in Sids, t # s PROVE CardsOf(t)'
  BY <1>1, <1>4, <1>8, SameCards
<1> QED
  BY <1>7, <1>8 DEF CardsKept

\* A step of the reducer over a run of events from the log of s.
Run(s) ==
    \E E \in Seq(Events), P \in SUBSET (1..Len(log[s])) :
        /\ AskedOnce(E)
        /\ \A i \in 1..Len(E) : \E n \in P : E[i] = log[s][n]
        /\ \A n \in P : \E i \in 1..Len(E) : E[i] = log[s][n]
        /\ Dispatch(s, E)
        /\ log' = log /\ got' = [got EXCEPT ![s] = @ \cup P]

LEMMA RunCards == ASSUME IInv, CardsKept, NEW s \in Sids, Run(s) PROVE CardsKept'
BY DispatchCards DEF Run, IInv

LEMMA FrameRuns == ASSUME IInv, NEW s \in Sids, Frame(s) PROVE Run(s)
<1> PICK n, x, E : n = at[s] + 1 /\ x = log[s][n] /\ E = <<x>>
  OBVIOUS
<1>1. Typed /\ n \in 1..Len(log[s]) /\ x \in Events
  BY DEF Frame, IInv, Typed
<1>2. E \in Seq(Events) /\ Len(E) = 1 /\ E[1] = x
  BY <1>1
<1>3. /\ \A i \in 1..Len(E) : \E m \in {n} : E[i] = log[s][m]
      /\ \A m \in {n} : \E i \in 1..Len(E) : E[i] = log[s][m]
      /\ AskedOnce(E)
  BY <1>2 DEF AskedOnce
<1>4. Dispatch(s, E) /\ log' = log /\ got' = [got EXCEPT ![s] = @ \cup {n}]
  BY DEF Frame, host
<1>5. {n} \in SUBSET (1..Len(log[s]))
  BY <1>1
<1> QED
  BY <1>2, <1>3, <1>4, <1>5 DEF Run

LEMMA ReplayRuns ==
    ASSUME IInv, CardsKept, NEW s \in Sids, NEW n \in loads[s], NEW skip \in 0..n,
           Replay(s, n, skip)
    PROVE  Run(s)
<1> PICK l, E, P : l = log[s] /\ E = SubSeq(l, skip + 1, n) /\ P = (skip + 1)..n
  OBVIOUS
<1>1. /\ Typed /\ l \in Seq(Events) /\ Len(l) \in Nat /\ n \in Nat /\ n <= Len(l)
      /\ skip \in Nat /\ skip <= n /\ AskedOnce(l)
  BY DEF IInv, Typed, ReadsArePrefixes, CardsKept, CardsOf
<1>2. /\ E \in Seq(Events) /\ Len(E) = n - skip
      /\ \A i \in 1..Len(E) : skip + i \in P /\ skip + i \in 1..Len(l) /\ E[i] = l[skip + i]
  <2>1. skip + 1 \in Int /\ n \in Int /\ \A i \in (skip + 1)..n : l[i] \in Events
    BY <1>1
  <2>2. /\ E \in Seq(Events)
        /\ Len(E) = (IF skip + 1 <= n THEN n - (skip + 1) + 1 ELSE 0)
        /\ \A i \in 1..n - (skip + 1) + 1 : E[i] = l[skip + 1 + i - 1]
    BY <2>1, SubSeqProperties
  <2>3. Len(E) = n - skip /\ n - (skip + 1) + 1 = n - skip
    BY <1>1, <2>2
  <2>4. ASSUME NEW i \in 1..Len(E)
        PROVE  skip + i \in P /\ skip + i \in 1..Len(l) /\ skip + 1 + i - 1 = skip + i
    BY <1>1, <2>3
  <2> QED
    BY <2>2, <2>3, <2>4
<1>3. \A i \in 1..Len(E) : \E m \in P : E[i] = log[s][m]
  BY <1>2
<1>4. \A m \in P : \E i \in 1..Len(E) : E[i] = log[s][m]
  <2> SUFFICES ASSUME NEW m \in P PROVE \E i \in 1..Len(E) : E[i] = log[s][m]
    OBVIOUS
  <2>1. m - skip \in 1..Len(E) /\ skip + (m - skip) = m
    BY <1>1, <1>2
  <2> QED
    BY <1>2, <2>1
<1>5. AskedOnce(E)
  <2> SUFFICES ASSUME NEW i \in 1..Len(E), NEW j \in 1..Len(E),
                      E[i].kind = "request", E[j].kind = "request", E[i].req = E[j].req
               PROVE  i = j
    BY DEF AskedOnce
  <2>1. PICK x, y : x = skip + i /\ y = skip + j
    OBVIOUS
  <2>2. x \in 1..Len(l) /\ y \in 1..Len(l) /\ E[i] = l[x] /\ E[j] = l[y]
    BY <1>2, <2>1
  <2>3. x = y
    BY <1>1, <2>2, Zenon DEF AskedOnce
  <2> QED
    BY <1>1, <2>1, <2>3
<1>6. Dispatch(s, E) /\ log' = log /\ got' = [got EXCEPT ![s] = @ \cup P]
  BY DEF Replay, host
<1>7. P \in SUBSET (1..Len(log[s]))
  BY <1>1
<1> QED
  BY <1>2, <1>3, <1>4, <1>5, <1>6, <1>7 DEF Run

\* An accepted reply settles its request and takes its card away.
LEMMA AcceptedCards == ASSUME IInv, CardsKept, ReplyAccepted PROVE CardsKept'
<1>0. PICK s, r, q, w :
        s = active /\ r = submitting.req /\ q = pending[s] /\ w = Without(q, {r})
  OBVIOUS
<1>1. /\ s \in Sids /\ UNCHANGED <<log, got>>
      /\ settled' = [settled EXCEPT ![s] = @ \cup {r}]
      /\ pending' = [pending EXCEPT ![s] = w]
  BY <1>0 DEF ReplyAccepted, Settle, IInv, WaitIsTrue, Typed, host
<1>2. /\ pending \in [Sids -> Seq(Reqs)] /\ got \in [Sids -> SUBSET Nat]
      /\ settled \in [Sids -> SUBSET Reqs] /\ \A t \in Sids : CardsOf(t)
  BY DEF CardsKept, IInv, Typed
<1>3. w \in Seq(Reqs) /\ Once(w) /\ Elements(w) = Elements(q) \ {r}
  <2>1. q \in Seq(Reqs) /\ Once(q)
    BY <1>0, <1>1, <1>2 DEF CardsOf
  <2>2. w \in Seq(Reqs) /\ Once(w) /\ IsLeft(w, q, {r})
    BY <1>0, <2>1, WithoutCards
  <2> QED
    BY <2>2 DEF IsLeft
<1>4. pending'[s] = w /\ settled'[s] = settled[s] \cup {r}
  BY <1>1, <1>2
<1>5. CardsOf(s)'
  <2>1. Received(s, "request")' = Received(s, "request")
        /\ Received(s, "resolved")' = Received(s, "resolved")
    BY <1>1 DEF Received
  <2>2. Elements(pending[s])' = Elements(w) /\ Once(pending[s])'
    BY <1>3, <1>4 DEF Elements, Once
  <2>3. AskedOnce(log[s])' /\ got'[s] \subseteq 1..Len(log'[s])
    BY <1>1, <1>2 DEF CardsOf, AskedOnce
  <2>4. /\ Received(s, "resolved") \subseteq settled[s]
        /\ Elements(q) = Received(s, "request") \ settled[s]
    BY <1>0, <1>1, <1>2 DEF CardsOf
  <2>5. Received(s, "resolved")' \subseteq settled'[s]
    BY <1>4, <2>1, <2>4
  <2>6. Elements(w) = Received(s, "request")' \ settled'[s]
    BY <1>3, <1>4, <2>1, <2>4
  <2> QED
    BY <2>2, <2>3, <2>5, <2>6 DEF CardsOf
<1>6. ASSUME NEW t \in Sids, t # s PROVE CardsOf(t)'
  BY <1>1, <1>2, <1>6, SameCards
<1> QED
  BY <1>1, <1>2, <1>3, <1>5, <1>6 DEF CardsKept

\* A dropped session forgets its cards, what it settled and what it received.
LEMMA DropCards == ASSUME IInv, CardsKept, NEW s \in Sids, Drop(s) PROVE CardsKept'
<1>1. /\ UNCHANGED log
      /\ settled' = [settled EXCEPT ![s] = {}] /\ pending' = [pending EXCEPT ![s] = <<>>]
      /\ got' = [got EXCEPT ![s] = {}]
  BY DEF Drop
<1>2. /\ pending \in [Sids -> Seq(Reqs)] /\ got \in [Sids -> SUBSET Nat]
      /\ settled \in [Sids -> SUBSET Reqs] /\ \A t \in Sids : CardsOf(t)
  BY DEF CardsKept, IInv, Typed
<1>3. pending'[s] = <<>> /\ settled'[s] = {} /\ got'[s] = {}
  BY <1>1, <1>2
<1>4. CardsOf(s)'
  <2>1. Received(s, "request")' = {} /\ Received(s, "resolved")' = {}
    BY <1>3 DEF Received
  <2>2. Elements(pending[s])' = {} /\ Once(pending[s])'
    BY <1>3 DEF Elements, Once
  <2>3. AskedOnce(log[s])'
    BY <1>1, <1>2 DEF CardsOf, AskedOnce
  <2> QED
    BY <1>3, <2>1, <2>2, <2>3 DEF CardsOf
<1>5. ASSUME NEW t \in Sids, t # s PROVE CardsOf(t)'
  BY <1>1, <1>2, <1>5, SameCards
<1>6. pending' \in [Sids -> Seq(Reqs)] /\ got' \in [Sids -> SUBSET Nat]
  <2>1. <<>> \in Seq(Reqs) /\ {} \in SUBSET Nat
    OBVIOUS
  <2> QED
    BY <1>1, <1>2, <2>1
<1> QED
  BY <1>4, <1>5, <1>6 DEF CardsKept

LEMMA CardsInductive == IInv /\ Strays /\ CardsKept /\ [Next]_vars => CardsKept'
<1> SUFFICES ASSUME IInv, Strays, CardsKept, [Next]_vars PROVE CardsKept'
  OBVIOUS
<1>1. ASSUME NEW s \in Sids, NEW r \in Reqs, Ask(s, r) PROVE CardsKept'
  <2> DEFINE e == [kind |-> "request", req |-> r]
  <2>1. e \in Events /\ e.req \notin Asked(s)
    BY <1>1 DEF Events, Ask
  <2>2. log' = [log EXCEPT ![s] = Append(@, e)] /\ UNCHANGED <<settled, pending, got>>
    BY <1>1 DEF Ask, desk
  <2> HIDE DEF e
  <2> QED
    BY <2>1, <2>2, GrowsCards DEF IInv
<1>2. ASSUME NEW s \in Sids, NEW r, NEW c \in Choices \cup {Deny}, Takes(s, r, c),
             UNCHANGED <<settled, pending, got>>
      PROVE  CardsKept'
  <2> DEFINE e == [kind |-> "resolved", req |-> r, choice |-> c]
  <2>1. e \in Events /\ log' = [log EXCEPT ![s] = Append(@, e)]
    BY <1>2, Taken DEF IInv
  <2>2. e.kind # "request"
    OBVIOUS
  <2> HIDE DEF e
  <2> QED
    BY <1>2, <2>1, <2>2, GrowsCards DEF IInv
<1>3. ASSUME NEW s \in Sids, NEW r \in Reqs, NEW c \in Choices \cup {Deny},
             ResolveElsewhere(s, r, c)
      PROVE  CardsKept'
  BY <1>2, <1>3 DEF ResolveElsewhere, desk
<1>4. ASSUME TakeReply PROVE CardsKept'
  <2>1. /\ UNCHANGED <<settled, pending, got>> /\ active \in Sids
        /\ submitting.choice \in Choices \cup {Deny}
    BY <1>4 DEF TakeReply, desk, IInv, WaitIsTrue, Typed, Waits
  <2>2. Takes(active, submitting.req, submitting.choice) \/ UNCHANGED log
    BY <1>4 DEF TakeReply, Refuses
  <2> QED
    BY <1>2, <2>1, <2>2, StillCards
<1>5. ASSUME NEW x \in stray, StrayArrives(x) PROVE CardsKept'
  <2>1. /\ UNCHANGED <<settled, pending, got>> /\ x.sid \in Sids
        /\ x.choice \in Choices \cup {Deny}
    BY <1>5 DEF StrayArrives, desk, Strays, Sendable
  <2>2. Takes(x.sid, x.req, x.choice) \/ UNCHANGED log
    BY <1>5 DEF StrayArrives, Refuses
  <2> QED
    BY <1>2, <2>1, <2>2, StillCards
<1>6. ASSUME NEW s \in Sids, Connect(s) \/ Gap(s) \/ ReadLog(s) \/ Delete(s)
      PROVE  CardsKept'
  BY <1>6, StillCards DEF Connect, Gap, ReadLog, Delete, host, desk
<1>7. ASSUME NEW s \in Sids, NEW n \in loads[s], LoadFails(s, n) PROVE CardsKept'
  BY <1>7, StillCards DEF LoadFails, host, desk
<1>8. ASSUME NEW s \in Sids \cup {None}, Switch(s) PROVE CardsKept'
  BY <1>8, StillCards DEF Switch, host, desk
<1>9. ASSUME NEW c \in Choices \cup {Deny}, Reply(c) PROVE CardsKept'
  BY <1>9, StillCards DEF Reply, host, desk
<1>10. CASE ReplyFailed
  BY <1>10, StillCards DEF ReplyFailed, host, desk
<1>11. CASE UNCHANGED vars
  BY <1>11, StillCards DEF vars
<1> QED
  BY <1>1, <1>3, <1>4, <1>5, <1>6, <1>7, <1>8, <1>9, <1>10, <1>11,
     FrameRuns, ReplayRuns, RunCards, AcceptedCards, DropCards DEF Next

\* When all of the log was received, the cards are the requests still open.
LEMMA KeptCardsAgree == IInv /\ CardsKept => CardsAgree
<1> SUFFICES ASSUME IInv, CardsKept, NEW s \in Sids, got[s] = 1..Len(log[s])
             PROVE  /\ {pending[s][i] : i \in 1..Len(pending[s])} = Open(s)
                    /\ Len(pending[s]) = Cardinality(Open(s))
  BY DEF CardsAgree
<1> PICK q, n : q = pending[s] /\ n = Len(q)
  OBVIOUS
<1>1. q \in Seq(Reqs) /\ n \in Nat /\ CardsOf(s) /\ settled[s] \subseteq Closed(s)
  BY DEF CardsKept, IInv, SettledWasAnswered
<1>2. Received(s, "request") = Asked(s)
  BY DEF Received, Asked
<1>3. Closed(s) \subseteq Received(s, "resolved")
  <2> SUFFICES ASSUME NEW o \in Outcomes(s) PROVE o.req \in Received(s, "resolved")
    BY DEF Closed
  <2>1. PICK m \in 1..Len(log[s]) :
          /\ log[s][m].kind = "resolved"
          /\ o = [req |-> log[s][m].req, choice |-> log[s][m].choice]
    BY DEF Outcomes
  <2> QED
    BY <2>1 DEF Received
<1>4. Elements(q) = Open(s)
  BY <1>1, <1>2, <1>3 DEF CardsOf, Open
<1>5. Len(q) = Cardinality(Open(s))
  <2> DEFINE f == [i \in 1..n |-> q[i]]
  <2>1. f \in Injection(1..n, Elements(q))
    BY <1>1 DEF Injection, IsInjective, Elements, CardsOf, Once
  <2>2. f \in Surjection(1..n, Elements(q))
    BY DEF Surjection, Elements
  <2>3. ExistsBijection(1..n, Elements(q))
    BY <2>1, <2>2 DEF ExistsBijection, Bijection
  <2> QED
    BY <1>1, <1>4, <2>3, FS_CountingElements
<1> QED
  BY <1>4, <1>5 DEF Elements

\* A card keeps its place while its request is pending.
LEMMA PlaceKept ==
    ASSUME IInv, CardsKept, [Next]_vars, NEW s \in Sids, NEW r \in Reqs,
           Front(s) = r, Front(s)' # r
    PROVE  ~IsPending(s, r)'
<1> PICK q, p : q = pending[s] /\ p = pending'[s]
  OBVIOUS
<1>1. /\ q \in Seq(Reqs) /\ q # <<>> /\ q[1] = r /\ s # None
      /\ Once(q) /\ settled \in [Sids -> SUBSET Reqs] /\ pending \in [Sids -> Seq(Reqs)]
  BY NoneAssumption DEF Front, CardsKept, CardsOf, IInv, Typed
<1>2. ASSUME NEW Rs, p = Without(q, Rs) PROVE r \in Rs
  <2> SUFFICES ASSUME r \notin Rs PROVE FALSE
    OBVIOUS
  <2>1. IsLeft(p, q, Rs)
    BY <1>1, <1>2, WithoutCards
  <2>2. p # <<>> /\ p[1] = r
    BY <1>1, <2>1 DEF IsLeft
  <2> QED
    BY <1>1, <2>2 DEF Front
<1>3. ASSUME NEW E \in Seq(Events), AskedOnce(E), Dispatch(s, E) PROVE ~IsPending(s, r)'
  <2> PICK v, Rs : v = Enqueued(s, E) /\ Rs = Resolutions(E)
    OBVIOUS
  <2>1. p = Without(v, Rs)
    BY <1>1, <1>3 DEF Dispatch
  <2>2. v \in Seq(Reqs) /\ Once(v) /\ v # <<>> /\ v[1] = r
    BY <1>1, <1>3, EnqueuedCards
  <2>3. IsLeft(p, v, Rs)
    BY <2>1, <2>2, WithoutCards
  <2>4. r \in Rs
    <3>1. r \notin Rs => p # <<>> /\ p[1] = r
      BY <2>2, <2>3 DEF IsLeft
    <3> QED
      BY <1>1, <3>1 DEF Front
  <2>5. r \notin Elements(p)
    BY <2>3, <2>4 DEF IsLeft
  <2> QED
    BY <2>5 DEF IsPending, Elements
<1>4. p # q
  BY DEF Front
<1>5. ASSUME Run(s) PROVE ~IsPending(s, r)'
  BY <1>3, <1>5 DEF Run
<1>6. ASSUME NEW t \in Sids, Run(t) PROVE t = s
  BY <1>1, <1>4, <1>6 DEF Run, Dispatch
<1>7. ASSUME NEW Rs, p = Without(q, Rs) PROVE ~IsPending(s, r)'
  <2>1. r \in Rs /\ IsLeft(p, q, Rs)
    BY <1>1, <1>2, <1>7, WithoutCards
  <2>2. r \notin Elements(p)
    BY <2>1 DEF IsLeft
  <2> QED
    BY <2>2 DEF IsPending, Elements
<1>8. CASE ReplyAccepted
  <2>1. pending' = [pending EXCEPT ![active] = Without(@, {submitting.req})]
    BY <1>8 DEF ReplyAccepted
  <2>2. active = s
    BY <1>1, <1>4, <2>1
  <2>3. p = Without(q, {submitting.req})
    BY <1>1, <2>1, <2>2
  <2> QED
    BY <1>7, <2>3
<1>9. ASSUME NEW t \in Sids, Drop(t) PROVE ~IsPending(s, r)'
  <2>1. pending' = [pending EXCEPT ![t] = <<>>]
    BY <1>9 DEF Drop
  <2>2. t = s /\ p = <<>>
    BY <1>1, <1>4, <2>1
  <2> QED
    BY <2>2 DEF IsPending
<1>10. CASE UNCHANGED pending
  BY <1>4, <1>10
<1>11. UNCHANGED pending
         \/ (\E t \in Sids : \/ Frame(t) \/ Drop(t)
                             \/ \E n \in loads[t] : \E skip \in 0..n : Replay(t, n, skip))
         \/ ReplyAccepted
  BY DEF Next, vars, desk, Ask, ResolveElsewhere, Connect, Gap, ReadLog, LoadFails, Delete,
         Switch, Reply, TakeReply, ReplyFailed, StrayArrives
<1>12. ASSUME NEW t \in Sids, Frame(t) PROVE ~IsPending(s, r)'
  <2>1. Run(t)
    BY <1>12, FrameRuns
  <2> QED
    BY <1>5, <1>6, <2>1
<1>13. ASSUME NEW t \in Sids, NEW n \in loads[t], NEW skip \in 0..n, Replay(t, n, skip)
       PROVE  ~IsPending(s, r)'
  <2>1. Run(t)
    BY <1>13, ReplayRuns
  <2> QED
    BY <1>5, <1>6, <2>1
<1> QED
  BY <1>8, <1>9, <1>10, <1>11, <1>12, <1>13

LEMMA CardsInitially == Init => CardsKept
<1> SUFFICES ASSUME Init PROVE CardsKept
  OBVIOUS
<1>1. pending \in [Sids -> Seq(Reqs)] /\ got \in [Sids -> SUBSET Nat]
  <2>1. <<>> \in Seq(Reqs) /\ {} \in SUBSET Nat
    OBVIOUS
  <2> QED
    BY <2>1 DEF Init
<1>2. ASSUME NEW s \in Sids PROVE CardsOf(s)
  <2>1. log[s] = <<>> /\ got[s] = {} /\ settled[s] = {} /\ pending[s] = <<>>
    BY DEF Init
  <2> QED
    BY <2>1 DEF CardsOf, AskedOnce, Received, Elements, Once
<1> QED
  BY <1>1, <1>2 DEF CardsKept

THEOREM CardsInvariance == Spec => [](IInv /\ Strays /\ CardsKept)
<1>1. Init => CardsKept
  BY CardsInitially
<1>2. IInv /\ Strays /\ CardsKept /\ [Next]_vars => CardsKept'
  BY CardsInductive
<1> QED
  BY <1>1, <1>2, Invariance, PTL DEF Spec

\* In whatever order frames and replayed logs brought the events, with repetitions,
\* and whatever the replies did meanwhile: once all of the log was received, the
\* queue holds a card for each request the host waits for, and one only.
THEOREM CardsConverge == Spec => []CardsAgree
<1>1. IInv /\ Strays /\ CardsKept => CardsAgree
  BY KeptCardsAgree
<1> QED
  BY <1>1, CardsInvariance, PTL

\* The card on top is replaced only when its request leaves the queue.
THEOREM CardsKeepTheirPlace == Spec => CardKeepsPlace
<1> DEFINE Keeps == \A s \in Sids, r \in Reqs :
               Front(s) = r /\ Front(s)' # r => ~IsPending(s, r)'
<1>1. IInv /\ CardsKept /\ [Next]_vars => [Keeps]_vars
  BY PlaceKept
<1>2. CardKeepsPlace <=> [][Keeps]_vars
  BY DEF CardKeepsPlace
<1> HIDE DEF Keeps
<1> QED
  BY <1>1, <1>2, CardsInvariance, PTL DEF Spec

-------------------------------------------------------------------------------
(* Sequences. *)

IsSeq(s) == s \in Seq({s[i] : i \in DOMAIN s})

LEMMA SeqIs ==
  ASSUME NEW s
  PROVE  IsSeq(s) <=> Len(s) \in Nat /\ DOMAIN s = 1..Len(s) /\ s = [i \in 1..Len(s) |-> s[i]]
<1>1. ASSUME IsSeq(s) PROVE Len(s) \in Nat /\ DOMAIN s = 1..Len(s) /\ s = [i \in 1..Len(s) |-> s[i]]
  BY <1>1 DEF IsSeq
<1>2. ASSUME Len(s) \in Nat, DOMAIN s = 1..Len(s), s = [i \in 1..Len(s) |-> s[i]] PROVE IsSeq(s)
  BY <1>2 DEF IsSeq
<1> QED
  BY <1>1, <1>2

LEMMA OwnElements ==
  ASSUME NEW T, NEW s \in Seq(T) PROVE s \in Seq({s[i] : i \in DOMAIN s})
<1>1. Len(s) \in Nat /\ DOMAIN s = 1..Len(s) /\ s = [i \in 1..Len(s) |-> s[i]]
  OBVIOUS
<1> QED
  BY <1>1

LEMMA Nothing ==
  ASSUME NEW s, s = <<>>
  PROVE  IsSeq(s) /\ Len(s) = 0 /\ \A x : x \notin DOMAIN s
<1>1. s \in Seq({}) /\ Len(s) = 0
  OBVIOUS
<1>2. DOMAIN s = 1..0
  BY <1>1
<1>3. IsSeq(s)
  <2>1. s \in Seq({s[i] : i \in DOMAIN s})
    BY <1>1, OwnElements
  <2> QED
    BY <2>1 DEF IsSeq
<1> QED
  BY <1>1, <1>2, <1>3

IsGrown(t, s, e) == t = Append(s, e)

LEMMA Grown ==
  ASSUME NEW s, IsSeq(s), NEW e, NEW t, IsGrown(t, s, e)
  PROVE  /\ IsSeq(t) /\ Len(t) = Len(s) + 1 /\ DOMAIN t = 1..Len(s) + 1
         /\ Len(s) \in Nat /\ DOMAIN s = 1..Len(s)
         /\ t[Len(s) + 1] = e
         /\ \A i \in DOMAIN s : t[i] = s[i]
<1> DEFINE T == {s[i] : i \in DOMAIN s} \cup {e}
<1>0. t = Append(s, e)
  BY DEF IsGrown
<1>1. s \in Seq(T) /\ e \in T
  BY DEF IsSeq
<1> HIDE DEF T
<1>2. t \in Seq(T) /\ Len(t) = Len(s) + 1 /\ Len(s) \in Nat
  BY <1>0, <1>1
<1>3. t[Len(s) + 1] = e /\ \A i \in 1..Len(s) : t[i] = s[i]
  BY <1>0, <1>1
<1>4. DOMAIN s = 1..Len(s) /\ DOMAIN t = 1..Len(s) + 1
  BY <1>1, <1>2
<1>5. IsSeq(t)
  <2>1. t \in Seq({t[i] : i \in DOMAIN t})
    BY <1>2, OwnElements
  <2> QED
    BY <2>1 DEF IsSeq
<1> QED
  BY <1>2, <1>3, <1>4, <1>5

IsTail(t, s) == s # <<>> /\ t = Tail(s)

LEMMA TailIs ==
  ASSUME NEW s, IsSeq(s), NEW t, IsTail(t, s)
  PROVE  /\ IsSeq(t) /\ Len(s) \in Nat /\ DOMAIN s = 1..Len(s) /\ Len(s) >= 1
         /\ Len(t) = Len(s) - 1 /\ DOMAIN t = 1..Len(s) - 1
         /\ \A i \in DOMAIN t : t[i] = s[i + 1]
         /\ Head(s) = s[1]
<1> DEFINE S == {s[i] : i \in DOMAIN s}
<1>1. Len(s) \in Nat /\ DOMAIN s = 1..Len(s) /\ s # <<>> /\ t = Tail(s) /\ s \in Seq(S)
  BY DEF IsSeq, IsTail
<1>2. Len(s) >= 1 /\ Head(s) = s[1]
  BY <1>1
<1> HIDE DEF S
<1>3. /\ Tail(s) \in Seq(S) /\ Len(Tail(s)) = Len(s) - 1
      /\ \A i \in 1..Len(Tail(s)) : Tail(s)[i] = s[i + 1]
  BY <1>1, HeadTailProperties, Zenon
<1>4. t \in Seq(S) /\ Len(t) = Len(s) - 1 /\ \A i \in 1..Len(t) : t[i] = s[i + 1]
  BY <1>1, <1>3, Zenon
<1>5. IsSeq(t) /\ DOMAIN t = 1..Len(t)
  <2>1. t \in Seq({t[i] : i \in DOMAIN t})
    BY <1>4, OwnElements
  <2> QED
    BY <1>4, <2>1 DEF IsSeq
<1> QED
  BY <1>1, <1>2, <1>4, <1>5

LEMMA LeastElement ==
  ASSUME NEW I, I \subseteq Nat, I # {}
  PROVE  \E x \in I : \A y \in I : x <= y
<1> DEFINE W == OpToRel(<, Nat)
<1>1. \A x, y \in Nat : x < y => <<x, y>> \in W
  BY DEF OpToRel
<1> HIDE DEF W
<1>2. IsWellFoundedOn(W, Nat)
  BY NatLessThanWellFounded DEF W
<1>3. PICK x \in I : \A y \in I : ~ (<<y, x>> \in W)
  BY <1>2, WFMin
<1>4. x \in Nat
  BY <1>3
<1>5. ASSUME NEW y \in I PROVE x <= y
  <2>1. y \in Nat /\ ~ (<<y, x>> \in W)
    BY <1>3
  <2>2. ~ (y < x)
    BY <1>1, <1>4, <2>1
  <2> QED
    BY <1>4, <2>1, <2>2
<1> QED
  BY <1>5

LEMMA MinIs ==
  ASSUME NEW I, I \subseteq Nat, I # {}
  PROVE  R!Min(I) \in I /\ \A y \in I : R!Min(I) <= y
<1>1. \E x \in I : \A y \in I : x <= y
  BY LeastElement
<1> QED
  BY <1>1 DEF R!Min

\* The largest of some numbers up to n.
LEMMA MaxIs ==
  ASSUME NEW n \in Nat, NEW I, I \subseteq 1..n, I # {}
  PROVE  R!Max(I) \in I /\ \A y \in I : R!Max(I) >= y
<1> DEFINE J == {n - x : x \in I}
<1>1. J \subseteq Nat /\ J # {}
  <2>1. \A x \in I : n - x \in Nat
    OBVIOUS
  <2> QED
    BY <2>1
<1> HIDE DEF J
<1>2. PICK z \in J : \A y \in J : z <= y
  BY <1>1, LeastElement
<1>3. PICK x \in I : z = n - x
  BY <1>2 DEF J
<1>4. ASSUME NEW y \in I PROVE x >= y
  <2>1. n - y \in J
    BY DEF J
  <2>2. n - x <= n - y
    BY <1>2, <1>3, <2>1
  <2>3. x \in Nat /\ y \in Nat
    OBVIOUS
  <2> QED
    BY <2>2, <2>3
<1>5. \E v \in I : \A y \in I : v >= y
  BY <1>4
<1> QED
  BY <1>5 DEF R!Max

\* An element put before the m-th.
LEMMA PutIn ==
  ASSUME NEW s, IsSeq(s), NEW m \in DOMAIN s, NEW e, NEW t, t = R!InsertAt(s, m, e)
  PROVE  /\ IsSeq(t) /\ Len(t) = Len(s) + 1 /\ DOMAIN t = 1..Len(s) + 1
         /\ \A k \in DOMAIN t : t[k] = IF k < m THEN s[k] ELSE IF k = m THEN e ELSE s[k - 1]
<1> DEFINE S == {s[i] : i \in DOMAIN s} \cup {e}
<1>0. Len(s) \in Nat /\ DOMAIN s = 1..Len(s) /\ m \in 1..Len(s) /\ s \in Seq(S) /\ e \in S
  BY DEF IsSeq
<1> HIDE DEF S
<1>1. PICK a : a = SubSeq(s, 1, m - 1)
  OBVIOUS
<1>2. PICK b : b = SubSeq(s, m, Len(s))
  OBVIOUS
<1>3. PICK c : c = a \o <<e>>
  OBVIOUS
<1>4. t = c \o b
  BY <1>1, <1>2, <1>3 DEF R!InsertAt
<1>5. a \in Seq(S) /\ Len(a) = m - 1 /\ \A k \in 1..m - 1 : a[k] = s[k]
  BY <1>0, <1>1
<1>6. b \in Seq(S) /\ Len(b) = Len(s) - m + 1 /\ \A k \in 1..Len(s) - m + 1 : b[k] = s[m + k - 1]
  BY <1>0, <1>2
<1>7. c \in Seq(S) /\ Len(c) = m /\ c[m] = e /\ \A k \in 1..m - 1 : c[k] = s[k]
  BY <1>0, <1>3, <1>5
<1>8. t \in Seq(S) /\ Len(t) = Len(s) + 1
  <2>1. c \o b \in Seq(S) /\ Len(c \o b) = Len(c) + Len(b)
    BY <1>6, <1>7, ConcatProperties, Zenon
  <2>2. t \in Seq(S) /\ Len(t) = Len(c) + Len(b)
    BY <1>4, <2>1, Zenon
  <2> QED
    BY <1>0, <1>6, <1>7, <2>2
<1>9. ASSUME NEW k \in 1..Len(s) + 1 PROVE t[k] = IF k < m THEN s[k] ELSE IF k = m THEN e ELSE s[k - 1]
  <2>0. t[k] = IF k <= m THEN c[k] ELSE b[k - m]
    <3>1. k \in 1..Len(c) + Len(b)
      BY <1>0, <1>6, <1>7
    <3>2. (c \o b)[k] = IF k <= Len(c) THEN c[k] ELSE b[k - Len(c)]
      BY <1>6, <1>7, <3>1, ConcatProperties, Zenon
    <3> QED
      BY <1>4, <1>7, <3>2
  <2>1. CASE k < m
    <3>1. k \in 1..m - 1 /\ k <= m
      BY <1>0, <2>1
    <3>2. c[k] = s[k] /\ t[k] = c[k]
      BY <1>7, <2>0, <3>1
    <3> QED
      BY <2>1, <3>2
  <2>2. CASE k = m
    <3>1. t[k] = c[m]
      BY <1>0, <2>0, <2>2
    <3> QED
      BY <1>0, <1>7, <2>2, <3>1
  <2>3. CASE k > m
    <3>1. t[k] = b[k - m]
      BY <1>0, <2>0, <2>3
    <3>2. k - m \in 1..Len(s) - m + 1 /\ m + (k - m) - 1 = k - 1
      BY <1>0, <2>3
    <3> QED
      BY <1>0, <1>6, <2>3, <3>1, <3>2
  <2> QED
    BY <1>0, <2>1, <2>2, <2>3
<1>10. IsSeq(t) /\ DOMAIN t = 1..Len(s) + 1
  <2>1. t \in Seq({t[i] : i \in DOMAIN t})
    BY <1>8, OwnElements
  <2> QED
    BY <1>8, <2>1 DEF IsSeq
<1> QED
  BY <1>8, <1>9, <1>10

\* The elements from the m-th to the one before the n-th taken out.
IsCutOut(t, s, m, n) == t = SubSeq(s, 1, m - 1) \o SubSeq(s, n, Len(s))

\* Where an element behind those taken out comes from.
Behind(z, m, n, k, j) ==
  /\ j \in 1..z - n + 1 /\ n + j - 1 = k - m + n
  /\ k \in 1..(m - 1) + (z - n + 1) /\ ~(k <= m - 1) /\ k - (m - 1) = j

LEMMA BehindTheCut ==
  ASSUME NEW z \in Nat, NEW m \in 1..z, NEW n \in 1..z + 1, NEW k \in 1..m + z - n, k >= m, NEW j, j = k - m + 1
  PROVE  Behind(z, m, n, k, j)
BY DEF Behind

LEMMA CutOut ==
  ASSUME NEW s, IsSeq(s), NEW m \in DOMAIN s, NEW n \in Nat, m < n, n <= Len(s) + 1, NEW t, IsCutOut(t, s, m, n)
  PROVE  /\ IsSeq(t) /\ Len(t) = m + Len(s) - n /\ DOMAIN t = 1..m + Len(s) - n
         /\ \A k \in DOMAIN t : t[k] = IF k < m THEN s[k] ELSE s[k - m + n]
<1> DEFINE S == {s[i] : i \in DOMAIN s}
<1>0. Len(s) \in Nat /\ DOMAIN s = 1..Len(s) /\ m \in 1..Len(s) /\ n \in 1..Len(s) + 1 /\ s \in Seq(S)
  BY DEF IsSeq
<1> HIDE DEF S
<1>1. PICK a : a = SubSeq(s, 1, m - 1)
  OBVIOUS
<1>2. PICK b : b = SubSeq(s, n, Len(s))
  OBVIOUS
<1>4. t = a \o b
  BY <1>1, <1>2 DEF IsCutOut
<1>5. a \in Seq(S) /\ Len(a) = m - 1 /\ \A k \in 1..m - 1 : a[k] = s[k]
  BY <1>0, <1>1
<1>6. b \in Seq(S) /\ Len(b) = Len(s) - n + 1 /\ \A k \in 1..Len(s) - n + 1 : b[k] = s[n + k - 1]
  BY <1>0, <1>2
<1>8. t \in Seq(S) /\ Len(t) = m + Len(s) - n
  <2>1. a \o b \in Seq(S) /\ Len(a \o b) = Len(a) + Len(b)
    BY <1>5, <1>6, ConcatProperties, Zenon
  <2>2. t \in Seq(S) /\ Len(t) = Len(a) + Len(b)
    BY <1>4, <2>1, Zenon
  <2> QED
    BY <1>0, <1>5, <1>6, <2>2
<1>9. ASSUME NEW k \in 1..m + Len(s) - n PROVE t[k] = IF k < m THEN s[k] ELSE s[k - m + n]
  <2>1. CASE k < m
    BY <1>0, <1>4, <1>5, <1>6, <2>1
  <2>3. CASE k >= m
    <3>1. PICK j : j = k - m + 1
      OBVIOUS
    <3>2. /\ j \in 1..Len(s) - n + 1 /\ n + j - 1 = k - m + n
          /\ k \in 1..(m - 1) + (Len(s) - n + 1) /\ ~(k <= m - 1) /\ k - (m - 1) = j
      <4>1. PICK z : z = Len(s)
        OBVIOUS
      <4>2. z \in Nat /\ m \in 1..z /\ n \in 1..z + 1 /\ k \in 1..m + z - n
        BY <1>0, <4>1
      <4>3. Behind(z, m, n, k, j)
        BY <2>3, <3>1, <4>2, BehindTheCut
      <4> QED
        BY <4>1, <4>3 DEF Behind
    <3>3. t[k] = b[j]
      <4>1. \A y \in 1..Len(a) + Len(b) : (a \o b)[y] = IF y <= Len(a) THEN a[y] ELSE b[y - Len(a)]
        BY <1>5, <1>6, ConcatProperties, Zenon
      <4>2. \A y \in 1..Len(a) + Len(b) : t[y] = IF y <= Len(a) THEN a[y] ELSE b[y - Len(a)]
        BY <1>4, <4>1, Zenon
      <4>3. k \in 1..Len(a) + Len(b) /\ ~(k <= Len(a)) /\ k - Len(a) = j
        <5>1. Len(a) = m - 1 /\ Len(b) = Len(s) - n + 1
          BY <1>5, <1>6
        <5> QED
          BY <3>2, <5>1
      <4> QED
        BY <4>2, <4>3
    <3>4. b[j] = s[n + j - 1]
      BY <1>6, <3>2
    <3>5. ~(k < m)
      BY <1>0, <2>3
    <3> QED
      BY <3>2, <3>3, <3>4, <3>5
  <2> QED
    BY <1>0, <2>1, <2>3
<1>10. IsSeq(t) /\ DOMAIN t = 1..m + Len(s) - n
  <2>1. t \in Seq({t[i] : i \in DOMAIN t})
    BY <1>8, OwnElements
  <2> QED
    BY <1>8, <2>1 DEF IsSeq
<1> QED
  BY <1>8, <1>9, <1>10

-------------------------------------------------------------------------------
(* The ledger. *)

Speech(e) == e.type \in {"user", "reply"}

\* A message follows the boundary at b: it is final.
Sealed(es, b) == b \in DOMAIN es /\ b + 1 \in DOMAIN es /\ es[b].type = "boundary" /\ es[b + 1].type = "user"

\* The boundary at b rewinds what is at i.
Covers(es, b, i) == i <= b /\ \E s \in DOMAIN es : s <= i /\ es[s].type = "user" /\ es[s].id = es[b].target

BoundariesOf(es) == {i \in DOMAIN es : es[i].type = "boundary"}

\* A boundary rewinds a message of the conversation as it was then.
Aims(es, b) == \E s \in DOMAIN es : /\ s < b /\ es[s].type = "user" /\ es[s].id = es[b].target
                                    /\ \A c \in DOMAIN es : c < b /\ Sealed(es, c) => ~Covers(es, c, s)

LedgerOK(es, n) ==
  /\ IsSeq(es)
  /\ \A i \in DOMAIN es : es[i].type \in {"user", "reply", "boundary", "cancel"}
  /\ \A i, j \in DOMAIN es : es[i].type = es[j].type /\ es[i].id = es[j].id => i = j
  /\ \A i \in DOMAIN es : Speech(es[i]) => es[i].id \in 1..n
  /\ \A i \in DOMAIN es : es[i].type = "reply" =>
       i - 1 \in DOMAIN es /\ es[i - 1].type = "user" /\ es[i - 1].id = es[i].id
  /\ \A i \in DOMAIN es : es[i].type = "cancel" =>
       i - 1 \in DOMAIN es /\ es[i - 1].type = "boundary" /\ es[i - 1].id = es[i].id
  /\ \A b \in DOMAIN es : es[b].type = "boundary" /\ b + 1 \in DOMAIN es => es[b + 1].type \in {"user", "cancel"}
  /\ \A b \in DOMAIN es : es[b].type = "boundary" =>
       Aims(es, b) /\ es[b].id \in Nat /\ <<es[b].id, es[b].target>> # None
  /\ IsFiniteSet(BoundariesOf(es))
  /\ \A b \in BoundariesOf(es) : es[b].id \in 1..Cardinality(BoundariesOf(es))

\* The boundary that still pends is the last event.
Pending(es) == IF Len(es) > 0 /\ es[Len(es)].type = "boundary" THEN <<es[Len(es)].id, es[Len(es)].target>> ELSE None

LEMMA Boundless == LedgerOK(<<>>, 0)
<1>1. PICK s : s = <<>>
  OBVIOUS
<1>2. IsSeq(s) /\ \A x : x \notin DOMAIN s
  BY <1>1, Nothing
<1>3. BoundariesOf(s) = {}
  BY <1>2 DEF BoundariesOf
<1>4. LedgerOK(s, 0)
  BY <1>2, <1>3, FS_EmptySet DEF LedgerOK
<1> QED
  BY <1>1, <1>4

LEMMA Uncancelled ==
  ASSUME NEW n, NEW es, LedgerOK(es, n), NEW b \in DOMAIN es, es[b].type = "boundary"
  PROVE  es[b].id \notin R!Cancelled(es) <=> b = Len(es) \/ Sealed(es, b)
<1>0. Len(es) \in Nat /\ DOMAIN es = 1..Len(es)
  BY SeqIs DEF LedgerOK
<1>1. ASSUME es[b].id \in R!Cancelled(es) PROVE b # Len(es) /\ ~Sealed(es, b)
  <2>1. PICK i \in DOMAIN es : es[i].type = "cancel" /\ es[i].id = es[b].id
    BY <1>1 DEF R!Cancelled
  <2>2. i - 1 = b
    BY <2>1 DEF LedgerOK
  <2> QED
    BY <1>0, <2>1, <2>2 DEF Sealed
<1>2. ASSUME b # Len(es), ~Sealed(es, b) PROVE es[b].id \in R!Cancelled(es)
  <2>1. b + 1 \in DOMAIN es
    BY <1>0, <1>2
  <2>2. es[b + 1].type = "cancel"
    BY <1>2, <2>1 DEF LedgerOK, Sealed
  <2>3. es[b + 1].id = es[b].id
    <3>1. b \in Nat /\ b + 1 - 1 = b
      BY <1>0
    <3> QED
      BY <2>1, <2>2, <3>1 DEF LedgerOK
  <2> QED
    BY <2>1, <2>2, <2>3 DEF R!Cancelled
<1> QED
  BY <1>1, <1>2

LEMMA MaxOfOne == ASSUME NEW x \in Nat PROVE R!Max({x}) = x
BY DEF R!Max

\* findPendingRewind finds it.
LEMMA PendingIs ==
  ASSUME NEW n, NEW es, LedgerOK(es, n)
  PROVE  R!FindPendingRewind(es) = Pending(es)
<1> DEFINE open == {b \in DOMAIN es : /\ es[b].type = "boundary"
                                      /\ es[b].id \notin R!Cancelled(es)
                                      /\ \A j \in DOMAIN es : j > b => es[j].type # "user"}
<1>0. Len(es) \in Nat /\ DOMAIN es = 1..Len(es)
  BY SeqIs DEF LedgerOK
<1>1. R!FindPendingRewind(es) =
        IF open = {} THEN None ELSE <<es[R!Max(open)].id, es[R!Max(open)].target>>
  BY DEF R!FindPendingRewind
<1>2. ASSUME NEW b \in open PROVE b = Len(es)
  <2>1. ~Sealed(es, b)
    BY <1>0, <1>2 DEF Sealed
  <2> QED
    BY <1>2, <2>1, Uncancelled
<1>3. CASE Len(es) > 0 /\ es[Len(es)].type = "boundary"
  <2>1. Len(es) \in open
    <3>1. Len(es) \in DOMAIN es /\ \A j \in DOMAIN es : ~(j > Len(es))
      BY <1>0, <1>3
    <3> QED
      BY <1>3, <3>1, Uncancelled
  <2>2. open = {Len(es)}
    BY <1>2, <2>1
  <2> HIDE DEF open
  <2>3. R!Max(open) = Len(es)
    BY <1>0, <2>2, MaxOfOne
  <2> QED
    BY <1>1, <1>3, <2>2, <2>3 DEF Pending
<1>4. CASE ~(Len(es) > 0 /\ es[Len(es)].type = "boundary")
  <2>1. open = {}
    BY <1>0, <1>2, <1>4
  <2> QED
    BY <1>1, <1>4, <2>1 DEF Pending
<1> QED
  BY <1>3, <1>4

\* What the mask drops, of a ledger whose pending rewind is spared.
LEMMA DroppedIs ==
  ASSUME NEW n, NEW es, LedgerOK(es, n), NEW i \in DOMAIN es,
         NEW keep, keep = IF Pending(es) = None THEN None ELSE Pending(es)[1]
  PROVE  R!Dropped(es, keep, i) <=> ~Speech(es[i]) \/ \E b \in DOMAIN es : Sealed(es, b) /\ Covers(es, b, i)
<1>0. Len(es) \in Nat /\ DOMAIN es = 1..Len(es)
  BY SeqIs DEF LedgerOK
<1>1. ASSUME NEW b \in DOMAIN es PROVE R!Masks(es, keep, b) <=> Sealed(es, b)
  <2>1. CASE es[b].type = "boundary"
    <3>1. es[b].id \notin R!Cancelled(es) <=> b = Len(es) \/ Sealed(es, b)
      BY <2>1, Uncancelled
    <3>2. Sealed(es, b) => b # Len(es)
      BY <1>0 DEF Sealed
    <3>3. es[b].id # keep <=> b # Len(es)
      <4>1. CASE Pending(es) = None
        <5>1. es[b].id # keep
          BY <2>1, <4>1, NoneAssumption DEF LedgerOK
        <5>2. b # Len(es)
          <6>1. CASE b = Len(es)
            <7>1. Len(es) > 0
              BY <1>0, <6>1
            <7> QED
              BY <2>1, <4>1, <6>1, <7>1 DEF Pending, LedgerOK
          <6> QED
            BY <6>1
        <5> QED
          BY <5>1, <5>2
      <4>2. CASE Pending(es) # None
        <5>1. Len(es) \in DOMAIN es /\ es[Len(es)].type = "boundary" /\ keep = es[Len(es)].id
          BY <1>0, <4>2 DEF Pending
        <5> QED
          BY <2>1, <5>1 DEF LedgerOK
      <4> QED
        BY <4>1, <4>2
    <3> QED
      BY <2>1, <3>1, <3>2, <3>3 DEF R!Masks
  <2>2. CASE es[b].type # "boundary"
    BY <2>2 DEF R!Masks, Sealed
  <2> QED
    BY <2>1, <2>2
<1>2. ASSUME NEW b \in DOMAIN es, Sealed(es, b) PROVE i \in R!RangeStart(es, b)..b <=> Covers(es, b, i)
  <2>1. PICK s \in DOMAIN es : s < b /\ es[s].type = "user" /\ es[s].id = es[b].target
    BY <1>2 DEF LedgerOK, Aims, Sealed
  <2> DEFINE targets == {j \in 1..(b - 1) : es[j].type = "user" /\ es[j].id = es[b].target}
  <2>2. targets = {s}
    <3>1. \A j \in 1..(b - 1) : j \in DOMAIN es
      BY <1>0
    <3>2. s \in 1..(b - 1)
      BY <1>0, <2>1
    <3>3. \A j \in targets : j = s
      BY <2>1, <3>1 DEF LedgerOK
    <3> QED
      BY <2>1, <3>2, <3>3
  <2>3. R!RangeStart(es, b) = s
    <3>1. R!RangeStart(es, b) = IF targets = {} THEN b ELSE R!Max(targets)
      BY DEF R!RangeStart
    <3> HIDE DEF targets
    <3>2. R!Max(targets) = s
      BY <1>0, <2>2, MaxOfOne
    <3> QED
      BY <2>2, <3>1, <3>2
  <2>4. Covers(es, b, i) <=> s <= i /\ i <= b
    BY <2>1 DEF Covers, LedgerOK
  <2> QED
    BY <1>0, <2>3, <2>4
<1>3. es[i].type \in {"boundary", "cancel"} <=> ~Speech(es[i])
  BY DEF Speech, LedgerOK
<1> QED
  BY <1>1, <1>2, <1>3 DEF R!Dropped

LEMMA SealedGrows ==
  ASSUME NEW s, IsSeq(s), NEW e, NEW t, IsGrown(t, s, e)
  PROVE  /\ \A b \in DOMAIN s : b # Len(s) => (Sealed(t, b) <=> Sealed(s, b))
         /\ Sealed(t, Len(s)) <=> Len(s) > 0 /\ s[Len(s)].type = "boundary" /\ e.type = "user"
         /\ ~Sealed(t, Len(s) + 1)
         /\ ~Sealed(s, Len(s))
         /\ \A b : Sealed(s, b) => Sealed(t, b)
         /\ \A b, i \in DOMAIN s : Covers(t, b, i) <=> Covers(s, b, i)
<1>1. /\ IsSeq(t) /\ Len(t) = Len(s) + 1 /\ DOMAIN t = 1..Len(s) + 1
      /\ Len(s) \in Nat /\ DOMAIN s = 1..Len(s)
      /\ t[Len(s) + 1] = e
      /\ \A i \in DOMAIN s : t[i] = s[i]
  BY Grown
<1>2. ASSUME NEW b \in DOMAIN s, b # Len(s) PROVE Sealed(t, b) <=> Sealed(s, b)
  BY <1>1, <1>2 DEF Sealed
<1>3. Sealed(t, Len(s)) <=> Len(s) > 0 /\ s[Len(s)].type = "boundary" /\ e.type = "user"
  <2>1. CASE Len(s) = 0
    BY <1>1, <2>1 DEF Sealed
  <2>2. CASE Len(s) > 0
    BY <1>1, <2>2 DEF Sealed
  <2> QED
    BY <1>1, <2>1, <2>2
<1>4. ~Sealed(t, Len(s) + 1) /\ ~Sealed(s, Len(s))
  BY <1>1 DEF Sealed
<1>5. ASSUME NEW b \in DOMAIN s, NEW i \in DOMAIN s PROVE Covers(t, b, i) <=> Covers(s, b, i)
  <2>1. \A k \in DOMAIN t : k <= i => k \in DOMAIN s
    BY <1>1
  <2>2. \A k \in DOMAIN s : k \in DOMAIN t
    BY <1>1
  <2> QED
    BY <1>1, <2>1, <2>2 DEF Covers
<1>6. ASSUME NEW b, Sealed(s, b) PROVE Sealed(t, b)
  <2>1. b \in DOMAIN s /\ b + 1 \in DOMAIN s
    BY <1>6 DEF Sealed
  <2>2. b # Len(s)
    BY <1>1, <2>1
  <2> QED
    BY <1>2, <1>6, <2>1, <2>2
<1> QED
  BY <1>2, <1>3, <1>4, <1>5, <1>6

\* What the server may log next.
Fits(es, e, n) ==
  \/ e.type = "user" /\ e.id \in 1..n /\ \A i \in DOMAIN es : es[i].type = "user" => es[i].id # e.id
  \/ e.type = "reply" /\ Len(es) > 0 /\ es[Len(es)].type = "user" /\ es[Len(es)].id = e.id
  \/ e.type = "cancel" /\ Len(es) > 0 /\ es[Len(es)].type = "boundary" /\ es[Len(es)].id = e.id
  \/ /\ e.type = "boundary" /\ e.id = Cardinality(BoundariesOf(es)) + 1
     /\ Pending(es) = None /\ <<e.id, e.target>> # None
     /\ \E i \in DOMAIN es : /\ es[i].type = "user" /\ es[i].id = e.target
                             /\ \A b \in DOMAIN es : Sealed(es, b) => ~Covers(es, b, i)

LEMMA NonePends ==
  ASSUME NEW n, NEW es, LedgerOK(es, n), Pending(es) = None
  PROVE  Len(es) > 0 => es[Len(es)].type # "boundary"
<1>0. Len(es) \in Nat /\ DOMAIN es = 1..Len(es)
  BY SeqIs DEF LedgerOK
<1> QED
  BY <1>0 DEF Pending, LedgerOK

LEMMA LedgerGrows ==
  ASSUME NEW n \in Nat, NEW s, LedgerOK(s, n), NEW m \in Nat, n <= m, NEW e, Fits(s, e, m), NEW t, IsGrown(t, s, e)
  PROVE  LedgerOK(t, m)
<1>1. /\ IsSeq(t) /\ Len(t) = Len(s) + 1 /\ DOMAIN t = 1..Len(s) + 1
      /\ Len(s) \in Nat /\ DOMAIN s = 1..Len(s)
      /\ t[Len(s) + 1] = e
      /\ \A i \in DOMAIN s : t[i] = s[i]
  BY Grown DEF LedgerOK
<1>2. PICK q : q = Len(s) + 1
  OBVIOUS
<1>3. /\ q \in Nat /\ q > 0 /\ q \in DOMAIN t /\ t[q] = e /\ q \notin DOMAIN s /\ q - 1 = Len(s)
      /\ \A i \in DOMAIN t : i \in DOMAIN s \/ i = q
      /\ \A i \in DOMAIN s : i \in DOMAIN t /\ i < q /\ i \in Nat
      /\ Len(s) > 0 => Len(s) \in DOMAIN s
      /\ \A i \in DOMAIN s : i - 1 \in DOMAIN t <=> i - 1 \in DOMAIN s
  BY <1>1, <1>2
<1>4. \A i \in DOMAIN t : t[i].type \in {"user", "reply", "boundary", "cancel"}
  BY <1>1, <1>3 DEF LedgerOK, Fits
<1>5. BoundariesOf(t) = IF e.type = "boundary" THEN BoundariesOf(s) \cup {q} ELSE BoundariesOf(s)
  BY <1>1, <1>3 DEF BoundariesOf
<1>6. IsFiniteSet(BoundariesOf(s)) /\ Cardinality(BoundariesOf(s)) \in Nat /\ q \notin BoundariesOf(s)
  BY <1>3, FS_CardinalityType DEF LedgerOK, BoundariesOf
<1>7. /\ IsFiniteSet(BoundariesOf(t))
      /\ Cardinality(BoundariesOf(t)) = IF e.type = "boundary" THEN Cardinality(BoundariesOf(s)) + 1
                                        ELSE Cardinality(BoundariesOf(s))
  BY <1>5, <1>6, FS_AddElement
<1>8. \A b \in BoundariesOf(t) : t[b].id \in 1..Cardinality(BoundariesOf(t))
  <2> SUFFICES ASSUME NEW b \in BoundariesOf(t) PROVE t[b].id \in 1..Cardinality(BoundariesOf(t))
    OBVIOUS
  <2>1. CASE b \in BoundariesOf(s)
    <3>1. s[b].id \in 1..Cardinality(BoundariesOf(s)) /\ t[b] = s[b]
      BY <1>1, <2>1 DEF LedgerOK, BoundariesOf
    <3> QED
      BY <1>6, <1>7, <3>1
  <2>2. CASE b \notin BoundariesOf(s)
    <3>1. e.type = "boundary" /\ b = q
      BY <1>5, <2>2
    <3>2. e.id = Cardinality(BoundariesOf(s)) + 1
      BY <3>1 DEF Fits
    <3> QED
      BY <1>3, <1>6, <1>7, <3>1, <3>2
  <2> QED
    BY <2>1, <2>2
<1>9. ASSUME NEW i \in DOMAIN s, s[i].type = e.type, s[i].id = e.id PROVE FALSE
  <2>1. CASE e.type = "user"
    BY <1>9, <2>1 DEF Fits
  <2>2. CASE e.type = "reply"
    <3>1. s[Len(s)].type = "user" /\ s[Len(s)].id = e.id /\ Len(s) \in DOMAIN s
      BY <1>3, <2>2 DEF Fits
    <3>2. i - 1 \in DOMAIN s /\ s[i - 1].type = "user" /\ s[i - 1].id = e.id
      BY <1>9, <2>2 DEF LedgerOK
    <3>3. i - 1 = Len(s)
      BY <3>1, <3>2 DEF LedgerOK
    <3> QED
      BY <1>1, <3>3
  <2>3. CASE e.type = "cancel"
    <3>1. s[Len(s)].type = "boundary" /\ s[Len(s)].id = e.id /\ Len(s) \in DOMAIN s
      BY <1>3, <2>3 DEF Fits
    <3>2. i - 1 \in DOMAIN s /\ s[i - 1].type = "boundary" /\ s[i - 1].id = e.id
      BY <1>9, <2>3 DEF LedgerOK
    <3>3. i - 1 = Len(s)
      BY <3>1, <3>2 DEF LedgerOK
    <3> QED
      BY <1>1, <3>3
  <2>4. CASE e.type = "boundary"
    <3>1. e.id = Cardinality(BoundariesOf(s)) + 1
      BY <2>4 DEF Fits
    <3>2. s[i].id \in 1..Cardinality(BoundariesOf(s))
      BY <1>9, <2>4 DEF LedgerOK, BoundariesOf
    <3> QED
      BY <1>6, <1>9, <3>1, <3>2
  <2> QED
    BY <2>1, <2>2, <2>3, <2>4 DEF Fits
<1>10. \A i, j \in DOMAIN t : t[i].type = t[j].type /\ t[i].id = t[j].id => i = j
  <2> SUFFICES ASSUME NEW i \in DOMAIN t, NEW j \in DOMAIN t, t[i].type = t[j].type, t[i].id = t[j].id PROVE i = j
    OBVIOUS
  <2>1. CASE i \in DOMAIN s /\ j \in DOMAIN s
    BY <1>1, <2>1 DEF LedgerOK
  <2>2. CASE i \in DOMAIN s /\ j = q
    BY <1>1, <1>3, <1>9, <2>2
  <2>3. CASE i = q /\ j \in DOMAIN s
    BY <1>1, <1>3, <1>9, <2>3
  <2> QED
    BY <1>3, <2>1, <2>2, <2>3
<1>11. \A i \in DOMAIN t : Speech(t[i]) => t[i].id \in 1..m
  <2>1. \A x : x \in 1..n => x \in 1..m
    OBVIOUS
  <2>2. \A i \in DOMAIN s : Speech(s[i]) => s[i].id \in 1..m
    BY <2>1 DEF LedgerOK
  <2>3. Speech(e) => e.id \in 1..m
    <3>1. CASE e.type = "user"
      BY <3>1 DEF Fits
    <3>2. CASE e.type = "reply"
      BY <1>3, <2>2, <3>2 DEF Fits, Speech
    <3> QED
      BY <3>1, <3>2 DEF Speech
  <2> QED
    BY <1>1, <1>3, <2>2, <2>3
<1>12. \A i \in DOMAIN t : t[i].type = "reply" => i - 1 \in DOMAIN t /\ t[i - 1].type = "user" /\ t[i - 1].id = t[i].id
  <2> SUFFICES ASSUME NEW i \in DOMAIN t, t[i].type = "reply"
               PROVE  i - 1 \in DOMAIN t /\ t[i - 1].type = "user" /\ t[i - 1].id = t[i].id
    OBVIOUS
  <2>1. CASE i \in DOMAIN s
    BY <1>1, <1>3, <2>1 DEF LedgerOK
  <2>2. CASE i = q
    BY <1>1, <1>3, <2>2 DEF Fits
  <2> QED
    BY <1>3, <2>1, <2>2
<1>13. \A i \in DOMAIN t : t[i].type = "cancel" => i - 1 \in DOMAIN t /\ t[i - 1].type = "boundary" /\ t[i - 1].id = t[i].id
  <2> SUFFICES ASSUME NEW i \in DOMAIN t, t[i].type = "cancel"
               PROVE  i - 1 \in DOMAIN t /\ t[i - 1].type = "boundary" /\ t[i - 1].id = t[i].id
    OBVIOUS
  <2>1. CASE i \in DOMAIN s
    BY <1>1, <1>3, <2>1 DEF LedgerOK
  <2>2. CASE i = q
    BY <1>1, <1>3, <2>2 DEF Fits
  <2> QED
    BY <1>3, <2>1, <2>2
<1>14. \A b \in DOMAIN t : t[b].type = "boundary" /\ b + 1 \in DOMAIN t => t[b + 1].type \in {"user", "cancel"}
  <2> SUFFICES ASSUME NEW b \in DOMAIN t, t[b].type = "boundary", b + 1 \in DOMAIN t
               PROVE  t[b + 1].type \in {"user", "cancel"}
    OBVIOUS
  <2>1. b \in DOMAIN s /\ s[b].type = "boundary"
    BY <1>1, <1>3
  <2>2. CASE b + 1 \in DOMAIN s
    BY <1>1, <2>1, <2>2 DEF LedgerOK
  <2>3. CASE b + 1 = q
    <3>1. b = Len(s) /\ Len(s) > 0
      BY <1>1, <1>2, <2>1, <2>3
    <3>2. e.type \in {"user", "cancel"}
      BY <2>1, <3>1, NonePends DEF Fits
    <3> QED
      BY <1>3, <2>3, <3>2
  <2> QED
    BY <1>3, <2>2, <2>3
<1>15. ASSUME NEW b \in DOMAIN t, t[b].type = "boundary"
       PROVE  Aims(t, b) /\ t[b].id \in Nat /\ <<t[b].id, t[b].target>> # None
  <2>0. /\ \A c \in DOMAIN s : c # Len(s) => (Sealed(t, c) <=> Sealed(s, c))
        /\ \A c, i \in DOMAIN s : Covers(t, c, i) <=> Covers(s, c, i)
    BY SealedGrows DEF LedgerOK
  <2>1. CASE b \in DOMAIN s
    <3>1. Aims(s, b) /\ s[b].id \in Nat /\ <<s[b].id, s[b].target>> # None /\ t[b] = s[b]
      BY <1>1, <1>15, <2>1 DEF LedgerOK
    <3>2. PICK k \in DOMAIN s : /\ k < b /\ s[k].type = "user" /\ s[k].id = s[b].target
                                /\ \A c \in DOMAIN s : c < b /\ Sealed(s, c) => ~Covers(s, c, k)
      BY <3>1 DEF Aims
    <3>3. k \in DOMAIN t /\ k < b /\ t[k].type = "user" /\ t[k].id = t[b].target
      BY <1>1, <1>3, <3>1, <3>2
    <3>4. ASSUME NEW c \in DOMAIN t, c < b, Sealed(t, c) PROVE ~Covers(t, c, k)
      <4>1. c \in DOMAIN s /\ c # Len(s)
        BY <1>1, <2>1, <3>4
      <4> QED
        BY <2>0, <3>2, <3>4, <4>1
    <3> QED
      BY <3>1, <3>3, <3>4 DEF Aims
  <2>2. CASE b = q
    <3>1. /\ e.type = "boundary" /\ e.id = Cardinality(BoundariesOf(s)) + 1
          /\ Pending(s) = None /\ <<e.id, e.target>> # None
      BY <1>3, <1>15, <2>2 DEF Fits
    <3>2. PICK k \in DOMAIN s : /\ s[k].type = "user" /\ s[k].id = e.target
                                /\ \A c \in DOMAIN s : Sealed(s, c) => ~Covers(s, c, k)
      BY <1>3, <1>15, <2>2 DEF Fits
    <3>3. k \in DOMAIN t /\ k < b /\ t[k].type = "user" /\ t[k].id = t[b].target
      BY <1>1, <1>3, <2>2, <3>2
    <3>4. ASSUME NEW c \in DOMAIN t, c < b, Sealed(t, c) PROVE ~Covers(t, c, k)
      <4>1. c \in DOMAIN s
        BY <1>3, <2>2, <3>4
      <4>2. c # Len(s)
        BY <3>1, <3>4, <4>1, SealedGrows DEF LedgerOK
      <4> QED
        BY <2>0, <3>2, <3>4, <4>1, <4>2
    <3> QED
      BY <1>3, <1>6, <2>2, <3>1, <3>3, <3>4 DEF Aims
  <2> QED
    BY <1>3, <2>1, <2>2
<1> QED
  BY <1>1, <1>4, <1>7, <1>8, <1>10, <1>11, <1>12, <1>13, <1>14, <1>15 DEF LedgerOK

-------------------------------------------------------------------------------
(* The wire. *)

\* The frame f tells the event at i, or that the event at i made the boundary before it final.
FrameAt(es, f, i) ==
  /\ i \in DOMAIN es
  /\ \/ f.type \in {"user", "reply"} /\ es[i].type = f.type /\ es[i].id = f.id
     \/ f.type = "done" /\ es[i].type = "boundary" /\ es[i].id = f.id /\ es[i].target = f.target
     \/ f.type = "cancelled" /\ es[i].type = "cancel" /\ es[i].id = f.id
     \/ f.type = "finalized" /\ Sealed(es, i - 1) /\ es[i - 1].id = f.id /\ es[i - 1].target = f.target

Ends(f) == f.type = "finalized"

\* They are on their way.
Comes(es, w, i) == \E k \in DOMAIN w : FrameAt(es, w[k], i) /\ ~Ends(w[k])
EndComes(es, w, i) == \E k \in DOMAIN w : FrameAt(es, w[k], i) /\ Ends(w[k])

\* What is told by frames later than others comes later, and what follows an event whose
\* frame is on its way is on its way as well.
WireOK(es, w) ==
  /\ IsSeq(w)
  /\ \A k \in DOMAIN w : \E i \in DOMAIN es : FrameAt(es, w[k], i)
  /\ \A k, l \in DOMAIN w : \A i, j \in DOMAIN es :
       k < l /\ FrameAt(es, w[k], i) /\ FrameAt(es, w[l], j) => i < j \/ (i = j /\ Ends(w[k]) /\ ~Ends(w[l]))
  /\ \A i, j \in DOMAIN es : i < j /\ (Comes(es, w, i) \/ EndComes(es, w, i)) =>
       Comes(es, w, j) /\ (Sealed(es, j - 1) => EndComes(es, w, j))
  /\ \A i \in DOMAIN es : EndComes(es, w, i) => Comes(es, w, i)

LEMMA FrameOnce ==
  ASSUME NEW n, NEW es, LedgerOK(es, n), NEW f, NEW i, NEW j, FrameAt(es, f, i), FrameAt(es, f, j)
  PROVE  i = j
<1>0. Len(es) \in Nat /\ DOMAIN es = 1..Len(es)
  BY SeqIs DEF LedgerOK
<1>1. i \in DOMAIN es /\ j \in DOMAIN es
  BY DEF FrameAt
<1>2. CASE f.type = "finalized"
  <2>1. Sealed(es, i - 1) /\ Sealed(es, j - 1) /\ es[i - 1].id = f.id /\ es[j - 1].id = f.id
    BY <1>2 DEF FrameAt
  <2>2. i - 1 = j - 1
    BY <2>1 DEF Sealed, LedgerOK
  <2> QED
    BY <1>0, <1>1, <2>2
<1>3. CASE f.type # "finalized"
  BY <1>1, <1>3 DEF FrameAt, LedgerOK
<1> QED
  BY <1>2, <1>3

LEMMA FrameGrows ==
  ASSUME NEW s, IsSeq(s), NEW e, NEW t, IsGrown(t, s, e), NEW f, NEW i \in DOMAIN s
  PROVE  FrameAt(t, f, i) <=> FrameAt(s, f, i)
<1>1. /\ DOMAIN t = 1..Len(s) + 1 /\ Len(s) \in Nat /\ DOMAIN s = 1..Len(s)
      /\ \A k \in DOMAIN s : t[k] = s[k]
  BY Grown
<1>2. i \in DOMAIN t /\ t[i] = s[i]
  BY <1>1
<1>3. Sealed(t, i - 1) <=> Sealed(s, i - 1)
  <2>1. CASE i - 1 \in DOMAIN s
    <3>1. i - 1 # Len(s)
      BY <1>1
    <3> QED
      BY <2>1, <3>1, SealedGrows
  <2>2. CASE i - 1 \notin DOMAIN s
    <3>1. i - 1 \notin DOMAIN t
      BY <1>1, <2>2
    <3> QED
      BY <2>2, <3>1 DEF Sealed
  <2> QED
    BY <2>1, <2>2
<1>4. Sealed(s, i - 1) => t[i - 1] = s[i - 1]
  BY <1>1 DEF Sealed
<1> QED
  BY <1>2, <1>3, <1>4 DEF FrameAt

\* The server tells an event with the frames v added to w.
Adds(t, q, w, v) ==
  /\ IsSeq(v)
  /\ \A k \in DOMAIN w : k \in DOMAIN v /\ v[k] = w[k]
  /\ \A k \in DOMAIN w, l \in DOMAIN v \ DOMAIN w : k < l
  /\ \A k \in DOMAIN v \ DOMAIN w : FrameAt(t, v[k], q)
  /\ \A k, l \in DOMAIN v \ DOMAIN w : k < l => Ends(v[k]) /\ ~Ends(v[l])
  /\ Comes(t, v, q) /\ (Sealed(t, q - 1) => EndComes(t, v, q))

LEMMA ComesStill ==
  ASSUME NEW n, NEW s, LedgerOK(s, n), NEW e, NEW t, IsGrown(t, s, e), NEW m, LedgerOK(t, m),
         NEW w, WireOK(s, w), NEW v, Adds(t, Len(s) + 1, w, v), NEW i \in DOMAIN s
  PROVE  (Comes(t, v, i) <=> Comes(s, w, i)) /\ (EndComes(t, v, i) <=> EndComes(s, w, i))
<1>1. IsSeq(s)
  BY DEF LedgerOK
<1>2. Len(s) \in Nat /\ DOMAIN s = 1..Len(s)
  BY <1>1, SeqIs
<1>3. \A f : FrameAt(t, f, i) <=> FrameAt(s, f, i)
  BY <1>1, FrameGrows
<1>4. \A k \in DOMAIN v : FrameAt(t, v[k], i) => k \in DOMAIN w
  <2> SUFFICES ASSUME NEW k \in DOMAIN v, FrameAt(t, v[k], i), k \notin DOMAIN w PROVE FALSE
    OBVIOUS
  <2>1. FrameAt(t, v[k], Len(s) + 1)
    BY DEF Adds
  <2>2. i = Len(s) + 1
    BY <2>1, FrameOnce
  <2> QED
    BY <1>2, <2>2
<1>5. \A k \in DOMAIN w : k \in DOMAIN v /\ v[k] = w[k]
  BY DEF Adds
<1> QED
  BY <1>3, <1>4, <1>5 DEF Comes, EndComes

LEMMA WireGrows ==
  ASSUME NEW n, NEW s, LedgerOK(s, n), NEW e, NEW t, IsGrown(t, s, e), NEW m, LedgerOK(t, m),
         NEW w, WireOK(s, w), NEW v, Adds(t, Len(s) + 1, w, v)
  PROVE  WireOK(t, v)
<1>1. IsSeq(s)
  BY DEF LedgerOK
<1>2. /\ DOMAIN t = 1..Len(s) + 1 /\ Len(s) \in Nat /\ DOMAIN s = 1..Len(s)
      /\ \A k \in DOMAIN s : t[k] = s[k]
  BY <1>1, Grown
<1>3. PICK q : q = Len(s) + 1
  OBVIOUS
<1>4. q \in Nat /\ q \in DOMAIN t /\ (\A i \in DOMAIN t : i \in DOMAIN s \/ i = q)
      /\ \A i \in DOMAIN s : i \in DOMAIN t /\ i < q /\ i # q /\ ~(q < i) /\ i \in Nat
  BY <1>2, <1>3
<1>5. \A f, i : i \in DOMAIN s => (FrameAt(t, f, i) <=> FrameAt(s, f, i))
  BY <1>1, FrameGrows
<1>6. Adds(t, q, w, v)
  BY <1>3
<1>7. \A i \in DOMAIN s : (Comes(t, v, i) <=> Comes(s, w, i)) /\ (EndComes(t, v, i) <=> EndComes(s, w, i))
  BY ComesStill
<1>8. \A k \in DOMAIN v : \E i \in DOMAIN t : FrameAt(t, v[k], i)
  <2> SUFFICES ASSUME NEW k \in DOMAIN v PROVE \E i \in DOMAIN t : FrameAt(t, v[k], i)
    OBVIOUS
  <2>1. CASE k \in DOMAIN w
    <3>1. PICK i \in DOMAIN s : FrameAt(s, w[k], i)
      BY <2>1 DEF WireOK
    <3>2. v[k] = w[k]
      BY <1>6, <2>1 DEF Adds
    <3> QED
      BY <1>4, <1>5, <3>1, <3>2
  <2>2. CASE k \notin DOMAIN w
    BY <1>4, <1>6, <2>2 DEF Adds
  <2> QED
    BY <2>1, <2>2
<1>9. ASSUME NEW k \in DOMAIN v, NEW l \in DOMAIN v, NEW i \in DOMAIN t, NEW j \in DOMAIN t,
             k < l, FrameAt(t, v[k], i), FrameAt(t, v[l], j)
      PROVE  i < j \/ (i = j /\ Ends(v[k]) /\ ~Ends(v[l]))
  <2>1. CASE k \in DOMAIN w
    <3>1. PICK x \in DOMAIN s : FrameAt(s, w[k], x)
      BY <2>1 DEF WireOK
    <3>2. i = x
      <4>1. FrameAt(t, v[k], x)
        BY <1>5, <1>6, <2>1, <3>1 DEF Adds
      <4> QED
        BY <1>9, <4>1, FrameOnce
    <3>3. CASE l \in DOMAIN w
      <4>1. PICK y \in DOMAIN s : FrameAt(s, w[l], y)
        BY <3>3 DEF WireOK
      <4>2. j = y
        <5>1. FrameAt(t, v[l], y)
          BY <1>5, <1>6, <3>3, <4>1 DEF Adds
        <5> QED
          BY <1>9, <5>1, FrameOnce
      <4>3. v[k] = w[k] /\ v[l] = w[l]
        BY <1>6, <2>1, <3>3 DEF Adds
      <4> QED
        BY <1>9, <2>1, <3>1, <3>2, <3>3, <4>1, <4>2, <4>3 DEF WireOK
    <3>4. CASE l \notin DOMAIN w
      <4>1. FrameAt(t, v[l], q)
        BY <1>6, <3>4 DEF Adds
      <4>2. j = q
        BY <1>9, <4>1, FrameOnce
      <4> QED
        BY <1>4, <3>2, <4>2
    <3> QED
      BY <3>3, <3>4
  <2>2. CASE k \notin DOMAIN w
    <3>1. l \notin DOMAIN w
      <4>1. SUFFICES ASSUME l \in DOMAIN w PROVE FALSE
        OBVIOUS
      <4>2. l < k
        BY <1>6, <2>2, <4>1 DEF Adds
      <4>3. k \in Int /\ l \in Int
        BY SeqIs, <1>6 DEF Adds
      <4> QED
        BY <1>9, <4>2, <4>3
    <3>2. FrameAt(t, v[l], q) /\ FrameAt(t, v[k], q) /\ Ends(v[k]) /\ ~Ends(v[l])
      BY <1>6, <1>9, <2>2, <3>1 DEF Adds
    <3>3. i = q /\ j = q
      BY <1>9, <3>2, FrameOnce
    <3> QED
      BY <3>2, <3>3
  <2> QED
    BY <2>1, <2>2
<1>10. ASSUME NEW i \in DOMAIN t, NEW j \in DOMAIN t, i < j, Comes(t, v, i) \/ EndComes(t, v, i)
       PROVE  Comes(t, v, j) /\ (Sealed(t, j - 1) => EndComes(t, v, j))
  <2>1. CASE j = q
    BY <1>6, <2>1 DEF Adds
  <2>2. CASE j \in DOMAIN s
    <3>1. i \in DOMAIN s
      BY <1>4, <1>10, <2>2
    <3>2. Comes(s, w, j) /\ (Sealed(s, j - 1) => EndComes(s, w, j))
      BY <1>7, <1>10, <2>2, <3>1 DEF WireOK
    <3>3. Sealed(t, j - 1) => Sealed(s, j - 1)
      <4>1. SUFFICES ASSUME Sealed(t, j - 1) PROVE Sealed(s, j - 1)
        OBVIOUS
      <4>2. j - 1 \in DOMAIN s /\ j - 1 # Len(s)
        BY <1>2, <2>2, <4>1 DEF Sealed
      <4> QED
        BY <1>1, <4>1, <4>2, SealedGrows
    <3> QED
      BY <1>7, <2>2, <3>2, <3>3
  <2> QED
    BY <1>4, <2>1, <2>2
<1>11. ASSUME NEW i \in DOMAIN t, EndComes(t, v, i) PROVE Comes(t, v, i)
  <2>1. CASE i = q
    BY <1>6, <2>1 DEF Adds
  <2>2. CASE i \in DOMAIN s
    BY <1>7, <1>11, <2>2 DEF WireOK
  <2> QED
    BY <1>4, <2>1, <2>2
<1> QED
  BY <1>6, <1>8, <1>9, <1>10, <1>11 DEF WireOK, Adds

\* One frame tells the event, or two a message that makes a boundary final.
LEMMA AddsOne ==
  ASSUME NEW t, NEW q, NEW w, IsSeq(w), NEW f, NEW v, IsGrown(v, w, f), FrameAt(t, f, q), ~Ends(f), ~Sealed(t, q - 1)
  PROVE  Adds(t, q, w, v)
<1>1. /\ IsSeq(v) /\ DOMAIN v = 1..Len(w) + 1 /\ Len(w) \in Nat /\ DOMAIN w = 1..Len(w)
      /\ v[Len(w) + 1] = f /\ \A k \in DOMAIN w : v[k] = w[k]
  BY Grown
<1>2. PICK z : z = Len(w) + 1
  OBVIOUS
<1>3. /\ z \in DOMAIN v /\ v[z] = f /\ ~(z < z)
      /\ \A k \in DOMAIN v \ DOMAIN w : k = z
      /\ \A k \in DOMAIN w : k \in DOMAIN v /\ k < z
  BY <1>1, <1>2
<1>4. Comes(t, v, q)
  BY <1>3 DEF Comes
<1> QED
  BY <1>1, <1>3, <1>4 DEF Adds

LEMMA AddsTwo ==
  ASSUME NEW t, NEW q, NEW w, IsSeq(w), NEW f, NEW g, NEW u, IsGrown(u, w, g), NEW v, IsGrown(v, u, f),
         FrameAt(t, f, q), ~Ends(f), FrameAt(t, g, q), Ends(g)
  PROVE  Adds(t, q, w, v)
<1>1. /\ IsSeq(u) /\ Len(u) = Len(w) + 1 /\ DOMAIN u = 1..Len(w) + 1 /\ Len(w) \in Nat /\ DOMAIN w = 1..Len(w)
      /\ u[Len(w) + 1] = g /\ \A k \in DOMAIN w : u[k] = w[k]
  BY Grown
<1>2. /\ IsSeq(v) /\ DOMAIN v = 1..Len(u) + 1
      /\ v[Len(u) + 1] = f /\ \A k \in DOMAIN u : v[k] = u[k]
  BY <1>1, Grown
<1>3. PICK y : y = Len(w) + 1
  OBVIOUS
<1>4. PICK z : z = Len(u) + 1
  OBVIOUS
<1>5. /\ z \in DOMAIN v /\ y \in DOMAIN v /\ v[z] = f /\ v[y] = g /\ ~(z < z) /\ ~(y < y) /\ ~(z < y)
      /\ \A k \in DOMAIN v \ DOMAIN w : k \in {y, z}
      /\ \A k \in DOMAIN w : k \in DOMAIN v /\ k < z /\ k < y /\ v[k] = w[k]
  BY <1>1, <1>2, <1>3, <1>4
<1>6. Comes(t, v, q) /\ EndComes(t, v, q)
  BY <1>5 DEF Comes, EndComes
<1> QED
  BY <1>2, <1>5, <1>6 DEF Adds

\* The first frame f of the wire w is received, which leaves v: f was at p.
Gone(es, w, f, p, v) ==
  /\ \A i \in DOMAIN es : i < p => ~Comes(es, w, i) /\ ~EndComes(es, w, i)
  /\ \A i \in DOMAIN es : p < i => Comes(es, w, i) /\ (Sealed(es, i - 1) => EndComes(es, w, i))
  /\ Comes(es, w, p)
  /\ \A i \in DOMAIN es : Comes(es, v, i) <=> Comes(es, w, i) /\ (Ends(f) \/ i # p)
  /\ \A i \in DOMAIN es : EndComes(es, v, i) <=> EndComes(es, w, i) /\ (~Ends(f) \/ i # p)
  /\ ~Ends(f) => ~EndComes(es, w, p)

LEMMA WireShrinks ==
  ASSUME NEW n, NEW es, LedgerOK(es, n), NEW w, WireOK(es, w), NEW v, IsTail(v, w)
  PROVE  WireOK(es, v) /\ \E p \in DOMAIN es : FrameAt(es, w[1], p) /\ Gone(es, w, w[1], p, v)
<1>0. Len(es) \in Nat /\ DOMAIN es = 1..Len(es)
  BY SeqIs DEF LedgerOK
<1>1. /\ IsSeq(v) /\ Len(w) \in Nat /\ DOMAIN w = 1..Len(w) /\ Len(w) >= 1 /\ DOMAIN v = 1..Len(w) - 1
      /\ \A k \in DOMAIN v : v[k] = w[k + 1]
  BY TailIs DEF WireOK
<1>2. /\ 1 \in DOMAIN w
      /\ \A k \in DOMAIN v : k + 1 \in DOMAIN w /\ 1 < k + 1 /\ v[k] = w[k + 1]
      /\ \A k \in DOMAIN w : k # 1 => 1 < k /\ k - 1 \in DOMAIN v /\ v[k - 1] = w[k]
      /\ \A k, l \in DOMAIN v : k < l => k + 1 < l + 1
  <2>1. ASSUME NEW k \in DOMAIN w, k # 1 PROVE 1 < k /\ k - 1 \in DOMAIN v /\ v[k - 1] = w[k]
    <3>1. 1 < k /\ k - 1 \in DOMAIN v /\ k - 1 + 1 = k
      BY <1>1, <2>1
    <3> QED
      BY <1>1, <3>1
  <2> QED
    BY <1>1, <2>1
<1>3. PICK p \in DOMAIN es : FrameAt(es, w[1], p)
  BY <1>2 DEF WireOK
<1>4. PICK f : f = w[1]
  OBVIOUS
<1>5. ASSUME NEW i \in DOMAIN es, NEW k \in DOMAIN w, FrameAt(es, w[k], i)
      PROVE  (k = 1 => i = p) /\ (k # 1 => p < i \/ (i = p /\ Ends(f) /\ ~Ends(w[k])))
  <2>1. CASE k = 1
    BY <1>3, <1>5, <2>1, FrameOnce
  <2>2. CASE k # 1
    BY <1>2, <1>3, <1>4, <1>5, <2>2 DEF WireOK
  <2> QED
    BY <2>1, <2>2
<1>6. ASSUME NEW i \in DOMAIN es, i < p PROVE ~Comes(es, w, i) /\ ~EndComes(es, w, i)
  <2>1. ~(p < i) /\ i # p
    BY <1>0, <1>6
  <2> QED
    BY <1>5, <2>1 DEF Comes, EndComes
<1>7. ASSUME NEW i \in DOMAIN es PROVE Comes(es, v, i) <=> Comes(es, w, i) /\ (Ends(f) \/ i # p)
  <2>1. ASSUME Comes(es, v, i) PROVE Comes(es, w, i) /\ (Ends(f) \/ i # p)
    <3>1. PICK k \in DOMAIN v : FrameAt(es, v[k], i) /\ ~Ends(v[k])
      BY <2>1 DEF Comes
    <3>2. k + 1 \in DOMAIN w /\ k + 1 # 1 /\ w[k + 1] = v[k]
      BY <1>1, <1>2
    <3>3. p < i \/ Ends(f)
      BY <1>5, <3>1, <3>2
    <3>4. p < i => i # p
      BY <1>0
    <3> QED
      BY <3>1, <3>2, <3>3, <3>4 DEF Comes
  <2>2. ASSUME Comes(es, w, i), Ends(f) \/ i # p PROVE Comes(es, v, i)
    <3>1. PICK k \in DOMAIN w : FrameAt(es, w[k], i) /\ ~Ends(w[k])
      BY <2>2 DEF Comes
    <3>2. k # 1
      BY <1>4, <1>5, <2>2, <3>1
    <3> QED
      BY <1>2, <3>1, <3>2 DEF Comes
  <2> QED
    BY <2>1, <2>2
<1>8. ASSUME NEW i \in DOMAIN es PROVE EndComes(es, v, i) <=> EndComes(es, w, i) /\ (~Ends(f) \/ i # p)
  <2>1. ASSUME EndComes(es, v, i) PROVE EndComes(es, w, i) /\ (~Ends(f) \/ i # p)
    <3>1. PICK k \in DOMAIN v : FrameAt(es, v[k], i) /\ Ends(v[k])
      BY <2>1 DEF EndComes
    <3>2. k + 1 \in DOMAIN w /\ k + 1 # 1 /\ w[k + 1] = v[k]
      BY <1>1, <1>2
    <3>3. p < i
      BY <1>5, <3>1, <3>2
    <3>4. p < i => i # p
      BY <1>0
    <3> QED
      BY <3>1, <3>2, <3>3, <3>4 DEF EndComes
  <2>2. ASSUME EndComes(es, w, i), ~Ends(f) \/ i # p PROVE EndComes(es, v, i)
    <3>1. PICK k \in DOMAIN w : FrameAt(es, w[k], i) /\ Ends(w[k])
      BY <2>2 DEF EndComes
    <3>2. k # 1
      BY <1>4, <1>5, <2>2, <3>1
    <3> QED
      BY <1>2, <3>1, <3>2 DEF EndComes
  <2> QED
    BY <2>1, <2>2
<1>9. ~Ends(f) => ~EndComes(es, w, p)
  <2> SUFFICES ASSUME ~Ends(f), EndComes(es, w, p) PROVE FALSE
    OBVIOUS
  <2>1. PICK k \in DOMAIN w : FrameAt(es, w[k], p) /\ Ends(w[k])
    BY DEF EndComes
  <2>2. k # 1
    BY <1>4, <2>1
  <2>3. p < p
    BY <1>5, <2>1, <2>2
  <2> QED
    BY <1>0, <2>3
<1>10. Comes(es, w, p) \/ EndComes(es, w, p)
  BY <1>2, <1>3 DEF Comes, EndComes
<1>11. Comes(es, w, p) /\ \A i \in DOMAIN es : p < i => Comes(es, w, i) /\ (Sealed(es, i - 1) => EndComes(es, w, i))
  BY <1>10 DEF WireOK
<1>12. Gone(es, w, f, p, v)
  BY <1>6, <1>7, <1>8, <1>9, <1>11 DEF Gone
<1>13. WireOK(es, v)
  <2>1. \A k \in DOMAIN v : \E i \in DOMAIN es : FrameAt(es, v[k], i)
    BY <1>2 DEF WireOK
  <2>2. ASSUME NEW k \in DOMAIN v, NEW l \in DOMAIN v, NEW i \in DOMAIN es, NEW j \in DOMAIN es,
               k < l, FrameAt(es, v[k], i), FrameAt(es, v[l], j)
        PROVE  i < j \/ (i = j /\ Ends(v[k]) /\ ~Ends(v[l]))
    <3>1. k + 1 \in DOMAIN w /\ l + 1 \in DOMAIN w /\ k + 1 < l + 1 /\ v[k] = w[k + 1] /\ v[l] = w[l + 1]
      BY <1>2, <2>2
    <3> QED
      BY <2>2, <3>1 DEF WireOK
  <2>3. ASSUME NEW i \in DOMAIN es, Comes(es, v, i) \/ EndComes(es, v, i) PROVE ~(i < p)
    BY <1>6, <1>7, <1>8, <2>3
  <2>4. ASSUME NEW i \in DOMAIN es, NEW j \in DOMAIN es, i < j, Comes(es, v, i) \/ EndComes(es, v, i)
        PROVE  Comes(es, v, j) /\ (Sealed(es, j - 1) => EndComes(es, v, j))
    <3>1. j # p
      BY <2>3, <2>4
    <3>2. Comes(es, w, j) /\ (Sealed(es, j - 1) => EndComes(es, w, j))
      BY <1>7, <1>8, <2>4 DEF WireOK
    <3> QED
      BY <1>7, <1>8, <3>1, <3>2
  <2>5. ASSUME NEW i \in DOMAIN es, EndComes(es, v, i) PROVE Comes(es, v, i)
    <3>1. EndComes(es, w, i) /\ (~Ends(f) \/ i # p)
      BY <1>8, <2>5
    <3>2. Ends(f) \/ i # p
      BY <1>9, <3>1
    <3> QED
      BY <1>7, <3>1, <3>2 DEF WireOK
  <2> QED
    BY <1>1, <2>1, <2>2, <2>4, <2>5 DEF WireOK
<1> QED
  BY <1>3, <1>4, <1>12, <1>13

-------------------------------------------------------------------------------
(* The page. *)

\* The row x is that of the event at i.
RowAt(es, x, i) == i \in DOMAIN es /\ es[i].type = x.role /\ es[i].id = x.id
Placed(es, x) == \E i \in DOMAIN es : RowAt(es, x, i)
InRows(es, rs, i) == \E r \in DOMAIN rs : RowAt(es, rs[r], i)

Send(c) == c.kind = "send"
Awaited(cs, msg) == \E c \in cs : Send(c) /\ c.arg = msg /\ c.answer = None
CallForm(c) == c \in [kind : {c.kind}, arg : {c.arg}, answer : {c.answer}, read : {c.read}]

\* A row is that of an event, or of a message that was sent and is not logged yet.
RowForm(x) == x = [role |-> x.role, id |-> x.id]
RowsOK(es, rs, cs) ==
  /\ IsSeq(rs)
  /\ \A r \in DOMAIN rs : /\ RowForm(rs[r]) /\ rs[r].role \in {"user", "reply"}
                          /\ Placed(es, rs[r]) \/ (rs[r].role = "user" /\ Awaited(cs, rs[r].id))

SendsOK(es, cs, n) ==
  /\ \A c \in cs : CallForm(c)
  /\ \A c \in cs : Send(c) => /\ c.arg \in 1..n
                              /\ c.answer = None => \A i \in DOMAIN es : es[i].type = "user" => es[i].id # c.arg
  /\ \A c, d \in cs : Send(c) /\ Send(d) /\ c.arg = d.arg => c = d

\* The row x is above the row y.
Earlier(es, x, y) == \/ \E i, j \in DOMAIN es : i < j /\ RowAt(es, x, i) /\ RowAt(es, y, j)
                     \/ ~Placed(es, y) /\ (Placed(es, x) \/ x.id < y.id)
InOrder(es, rs) == \A r, q \in DOMAIN rs : r < q => Earlier(es, rs[r], rs[q])

\* A final boundary that the page was told of hides the event at i.
Hidden(es, w, i) == \E b \in DOMAIN es : Sealed(es, b) /\ Covers(es, b, i) /\ ~EndComes(es, w, b + 1)

\* The page has the rows of what it was told, without what is hidden.
AllShown(es, w, rs) ==
  \A i \in DOMAIN es : Speech(es[i]) =>
    IF Comes(es, w, i) THEN es[i].type = "reply" => ~InRows(es, rs, i)
    ELSE InRows(es, rs, i) <=> ~Hidden(es, w, i)

\* Messages the page is not told of yet are in the order of their numbers.
Numbered(es, w) == \A i, j \in DOMAIN es : es[i].type = "user" /\ Comes(es, w, i) /\ j < i /\ es[j].type = "user"
                                              => es[j].id < es[i].id

Pendings == {"done", "cancelled", "finalized"}
Says(f) == IF f.type = "done" THEN <<f.id, f.target>> ELSE None

\* The last frame about a rewind tells what pends; if there is none, the page knows it or asks.
Told(pending0, w, p, cs) ==
  \/ /\ \A k \in DOMAIN w : w[k].type \notin Pendings
     /\ p = pending0 \/ \E c \in cs : c.kind = "index"
  \/ \E k \in DOMAIN w : /\ w[k].type \in Pendings /\ pending0 = Says(w[k])
                         /\ \A l \in DOMAIN w : k < l => w[l].type \notin Pendings

LEMMA PendingGrown ==
  ASSUME NEW s, IsSeq(s), NEW e, NEW t, IsGrown(t, s, e)
  PROVE  Pending(t) = IF e.type = "boundary" THEN <<e.id, e.target>> ELSE None
<1>1. Len(t) = Len(s) + 1 /\ Len(s) \in Nat /\ t[Len(s) + 1] = e
  BY Grown
<1> QED
  BY <1>1 DEF Pending

LEMMA ToldSame ==
  ASSUME NEW P, NEW w, IsSeq(w), NEW f, f.type \notin Pendings, NEW v, IsGrown(v, w, f), NEW p, NEW cs, Told(P, w, p, cs)
  PROVE  Told(P, v, p, cs)
<1>1. /\ DOMAIN v = 1..Len(w) + 1 /\ Len(w) \in Nat /\ DOMAIN w = 1..Len(w)
      /\ v[Len(w) + 1] = f /\ \A k \in DOMAIN w : v[k] = w[k]
  BY Grown
<1>2. \A k \in DOMAIN v : k \in DOMAIN w \/ v[k].type \notin Pendings
  BY <1>1
<1>3. \A k \in DOMAIN w : k \in DOMAIN v /\ v[k] = w[k]
  BY <1>1
<1>4. CASE \A k \in DOMAIN w : w[k].type \notin Pendings
  BY <1>2, <1>3, <1>4 DEF Told
<1>5. CASE ~\A k \in DOMAIN w : w[k].type \notin Pendings
  <2>1. PICK k \in DOMAIN w : /\ w[k].type \in Pendings /\ P = Says(w[k])
                              /\ \A l \in DOMAIN w : k < l => w[l].type \notin Pendings
    BY <1>5 DEF Told
  <2>2. k \in DOMAIN v /\ v[k].type \in Pendings /\ P = Says(v[k])
    BY <1>3, <2>1
  <2>3. \A l \in DOMAIN v : k < l => v[l].type \notin Pendings
    BY <1>2, <1>3, <2>1
  <2> QED
    BY <2>2, <2>3 DEF Told
<1> QED
  BY <1>4, <1>5

LEMMA ToldNew ==
  ASSUME NEW w, IsSeq(w), NEW f, f.type \in Pendings, NEW v, IsGrown(v, w, f), NEW p, NEW cs
  PROVE  Told(Says(f), v, p, cs)
<1>1. DOMAIN v = 1..Len(w) + 1 /\ Len(w) \in Nat /\ v[Len(w) + 1] = f
  BY Grown
<1>2. PICK z : z = Len(w) + 1
  OBVIOUS
<1>3. z \in DOMAIN v /\ v[z] = f /\ \A l \in DOMAIN v : ~(z < l)
  BY <1>1, <1>2
<1> QED
  BY <1>3 DEF Told

LEMMA HiddenStill ==
  ASSUME NEW n, NEW s, LedgerOK(s, n), NEW e, NEW t, IsGrown(t, s, e), NEW m, LedgerOK(t, m),
         NEW w, WireOK(s, w), NEW v, Adds(t, Len(s) + 1, w, v), NEW i \in DOMAIN s
  PROVE  Hidden(t, v, i) <=> Hidden(s, w, i)
<1>1. IsSeq(s)
  BY DEF LedgerOK
<1>2. /\ DOMAIN t = 1..Len(s) + 1 /\ Len(s) \in Nat /\ DOMAIN s = 1..Len(s)
      /\ \A k \in DOMAIN s : t[k] = s[k]
  BY <1>1, Grown
<1>3. /\ \A b \in DOMAIN s : b # Len(s) => (Sealed(t, b) <=> Sealed(s, b))
      /\ ~Sealed(t, Len(s) + 1)
      /\ ~Sealed(s, Len(s))
      /\ \A b \in DOMAIN s : Covers(t, b, i) <=> Covers(s, b, i)
  BY <1>1, SealedGrows
<1>4. \A k \in DOMAIN s : EndComes(t, v, k) <=> EndComes(s, w, k)
  BY ComesStill
<1>5. ASSUME Hidden(t, v, i) PROVE Hidden(s, w, i)
  <2>1. PICK b \in DOMAIN t : Sealed(t, b) /\ Covers(t, b, i) /\ ~EndComes(t, v, b + 1)
    BY <1>5 DEF Hidden
  <2>2. b # Len(s) + 1
    BY <1>3, <2>1
  <2>3. b # Len(s)
    <3>1. SUFFICES ASSUME b = Len(s) PROVE FALSE
      OBVIOUS
    <3>2. Sealed(t, Len(s) + 1 - 1) /\ ~EndComes(t, v, Len(s) + 1)
      BY <1>2, <2>1, <3>1
    <3> QED
      BY <3>2 DEF Adds
  <2>4. b \in DOMAIN s /\ b + 1 \in DOMAIN s
    BY <1>2, <2>2, <2>3
  <2> QED
    BY <1>3, <1>4, <2>1, <2>3, <2>4 DEF Hidden
<1>6. ASSUME Hidden(s, w, i) PROVE Hidden(t, v, i)
  <2>1. PICK b \in DOMAIN s : Sealed(s, b) /\ Covers(s, b, i) /\ ~EndComes(s, w, b + 1)
    BY <1>6 DEF Hidden
  <2>2. b # Len(s) /\ b + 1 \in DOMAIN s /\ b \in DOMAIN t
    BY <1>2, <1>3, <2>1 DEF Sealed
  <2> QED
    BY <1>3, <1>4, <2>1, <2>2 DEF Hidden
<1> QED
  BY <1>5, <1>6

LEMMA RowGrows ==
  ASSUME NEW s, IsSeq(s), NEW e, NEW t, IsGrown(t, s, e), NEW x
  PROVE  /\ \A i \in DOMAIN s : RowAt(t, x, i) <=> RowAt(s, x, i)
         /\ \A i : RowAt(s, x, i) => RowAt(t, x, i)
         /\ RowAt(t, x, Len(s) + 1) <=> e.type = x.role /\ e.id = x.id
         /\ Placed(t, x) <=> Placed(s, x) \/ RowAt(t, x, Len(s) + 1)
<1>1. /\ DOMAIN t = 1..Len(s) + 1 /\ Len(s) \in Nat /\ DOMAIN s = 1..Len(s)
      /\ t[Len(s) + 1] = e /\ \A k \in DOMAIN s : t[k] = s[k]
  BY Grown
<1>2. \A i \in DOMAIN s : i \in DOMAIN t /\ (RowAt(t, x, i) <=> RowAt(s, x, i))
  BY <1>1 DEF RowAt
<1>3. Len(s) + 1 \in DOMAIN t /\ \A i \in DOMAIN t : i \in DOMAIN s \/ i = Len(s) + 1
  BY <1>1
<1>4. RowAt(t, x, Len(s) + 1) <=> e.type = x.role /\ e.id = x.id
  BY <1>1, <1>3 DEF RowAt
<1>5. Placed(t, x) <=> Placed(s, x) \/ RowAt(t, x, Len(s) + 1)
  BY <1>2, <1>3 DEF Placed
<1>6. \A i : RowAt(s, x, i) => RowAt(t, x, i)
  BY <1>2 DEF RowAt
<1> QED
  BY <1>2, <1>4, <1>5, <1>6

LEMMA ShownGrows ==
  ASSUME NEW n, NEW s, LedgerOK(s, n), NEW e, NEW t, IsGrown(t, s, e), NEW m, LedgerOK(t, m),
         NEW w, WireOK(s, w), NEW v, Adds(t, Len(s) + 1, w, v), NEW rs,
         e.type = "reply" => ~InRows(t, rs, Len(s) + 1),
         e.type = "user" => \A j \in DOMAIN s : s[j].type = "user" => s[j].id < e.id,
         AllShown(s, w, rs), Numbered(s, w)
  PROVE  AllShown(t, v, rs) /\ Numbered(t, v)
<1>1. IsSeq(s)
  BY DEF LedgerOK
<1>2. /\ DOMAIN t = 1..Len(s) + 1 /\ Len(s) \in Nat /\ DOMAIN s = 1..Len(s)
      /\ t[Len(s) + 1] = e /\ \A k \in DOMAIN s : t[k] = s[k]
  BY <1>1, Grown
<1>3. PICK q : q = Len(s) + 1
  OBVIOUS
<1>4. /\ t[q] = e /\ \A i \in DOMAIN t : i \in DOMAIN s \/ i = q
      /\ \A i \in DOMAIN s : i \in DOMAIN t /\ i < q /\ ~(q < i) /\ ~(q < q)
  BY <1>2, <1>3
<1>5. Comes(t, v, q)
  BY <1>3 DEF Adds
<1>6. \A i \in DOMAIN s : (Comes(t, v, i) <=> Comes(s, w, i)) /\ (Hidden(t, v, i) <=> Hidden(s, w, i))
  BY ComesStill, HiddenStill
<1>7. \A i \in DOMAIN s : InRows(t, rs, i) <=> InRows(s, rs, i)
  BY <1>1, RowGrows DEF InRows
<1>8. AllShown(t, v, rs)
  <2> SUFFICES ASSUME NEW i \in DOMAIN t, Speech(t[i])
               PROVE  IF Comes(t, v, i) THEN t[i].type = "reply" => ~InRows(t, rs, i)
                      ELSE InRows(t, rs, i) <=> ~Hidden(t, v, i)
    BY DEF AllShown
  <2>1. CASE i \in DOMAIN s
    BY <1>2, <1>6, <1>7, <2>1 DEF AllShown
  <2>2. CASE i = q
    BY <1>3, <1>4, <1>5, <2>2
  <2> QED
    BY <1>4, <2>1, <2>2
<1>9. Numbered(t, v)
  <2> SUFFICES ASSUME NEW i \in DOMAIN t, NEW j \in DOMAIN t, t[i].type = "user", Comes(t, v, i), j < i, t[j].type = "user"
               PROVE  t[j].id < t[i].id
    BY DEF Numbered
  <2>1. CASE i \in DOMAIN s
    <3>1. j \in DOMAIN s
      BY <1>4, <2>1
    <3> QED
      BY <1>2, <1>6, <2>1, <3>1 DEF Numbered
  <2>2. CASE i = q
    <3>1. j \in DOMAIN s
      BY <1>4, <2>2
    <3> QED
      BY <1>2, <1>4, <2>2, <3>1
  <2> QED
    BY <1>4, <2>1, <2>2
<1> QED
  BY <1>8, <1>9

\* A logged event that is no row leaves the order alone.
LEMMA OrderGrows ==
  ASSUME NEW s, IsSeq(s), NEW e, NEW t, IsGrown(t, s, e), NEW rs, ~InRows(t, rs, Len(s) + 1), InOrder(s, rs)
  PROVE  InOrder(t, rs)
<1>1. DOMAIN t = 1..Len(s) + 1 /\ Len(s) \in Nat /\ DOMAIN s = 1..Len(s)
  BY Grown
<1>2. \A i \in DOMAIN s : i \in DOMAIN t
  BY <1>1
<1>3. \A r \in DOMAIN rs : /\ \A i \in DOMAIN s : RowAt(t, rs[r], i) <=> RowAt(s, rs[r], i)
                           /\ Placed(t, rs[r]) <=> Placed(s, rs[r])
  BY RowGrows DEF InRows
<1> QED
  BY <1>2, <1>3 DEF InOrder, Earlier

\* The message of a row that is logged without overtaking another one.
LEMMA OrderTold ==
  ASSUME NEW n, NEW s, LedgerOK(s, n), NEW e, NEW t, IsGrown(t, s, e), NEW m, LedgerOK(t, m),
         e.id \in Nat, NEW rs, InOrder(s, rs),
         \A r \in DOMAIN rs : ~Placed(s, rs[r]) => rs[r].id \in Nat /\ e.id <= rs[r].id
  PROVE  InOrder(t, rs)
<1>1. IsSeq(s)
  BY DEF LedgerOK
<1>2. DOMAIN t = 1..Len(s) + 1 /\ Len(s) \in Nat /\ DOMAIN s = 1..Len(s)
  BY <1>1, Grown
<1>3. PICK q : q = Len(s) + 1
  OBVIOUS
<1>4. q \in DOMAIN t /\ \A i \in DOMAIN s : i \in DOMAIN t /\ i < q
  BY <1>2, <1>3
<1>5. \A x : /\ \A i \in DOMAIN s : RowAt(t, x, i) <=> RowAt(s, x, i)
             /\ RowAt(t, x, q) => e.id = x.id
             /\ Placed(t, x) <=> Placed(s, x) \/ RowAt(t, x, q)
  BY <1>1, <1>3, RowGrows
<1>6. \A x : RowAt(t, x, q) => ~Placed(s, x)
  <2> SUFFICES ASSUME NEW x, RowAt(t, x, q), NEW i \in DOMAIN s, RowAt(s, x, i) PROVE FALSE
    BY DEF Placed
  <2>1. RowAt(t, x, i)
    BY <1>5
  <2>2. i = q
    BY <2>1 DEF RowAt, LedgerOK
  <2> QED
    BY <1>2, <1>3, <2>2
<1> SUFFICES ASSUME NEW j \in DOMAIN rs, NEW k \in DOMAIN rs, j < k PROVE Earlier(t, rs[j], rs[k])
  BY DEF InOrder
<1>7. Earlier(s, rs[j], rs[k])
  BY DEF InOrder
<1>8. CASE RowAt(t, rs[k], q)
  <2>1. ~Placed(s, rs[k]) /\ rs[k].id = e.id
    BY <1>5, <1>6, <1>8
  <2>2. Placed(s, rs[j]) \/ rs[j].id < e.id
    BY <1>7, <2>1 DEF Earlier, Placed
  <2>3. Placed(s, rs[j])
    BY <2>2
  <2>4. PICK i \in DOMAIN s : RowAt(s, rs[j], i)
    BY <2>3 DEF Placed
  <2> QED
    BY <1>4, <1>5, <1>8, <2>4 DEF Earlier
<1>9. CASE ~RowAt(t, rs[k], q) /\ RowAt(t, rs[j], q)
  <2>1. ~Placed(s, rs[j])
    BY <1>6, <1>9
  <2>2. ~Placed(s, rs[k])
    BY <1>7, <2>1 DEF Earlier, Placed
  <2>3. ~Placed(t, rs[k]) /\ Placed(t, rs[j])
    BY <1>4, <1>5, <1>9, <2>2
  <2> QED
    BY <2>3 DEF Earlier
<1>10. CASE ~RowAt(t, rs[k], q) /\ ~RowAt(t, rs[j], q)
  BY <1>4, <1>5, <1>7, <1>10 DEF Earlier
<1> QED
  BY <1>8, <1>9, <1>10

LEMMA RowsGrow ==
  ASSUME NEW es, NEW rs, IsSeq(rs), NEW x, NEW ts, IsGrown(ts, rs, x)
  PROVE  /\ IsSeq(ts)
         /\ \A r \in DOMAIN ts : ts[r] = x \/ \E q \in DOMAIN rs : ts[r] = rs[q]
         /\ \A i : InRows(es, ts, i) <=> InRows(es, rs, i) \/ RowAt(es, x, i)
         /\ InOrder(es, rs) /\ (\A r \in DOMAIN rs : Earlier(es, rs[r], x)) => InOrder(es, ts)
<1>1. /\ IsSeq(ts) /\ DOMAIN ts = 1..Len(rs) + 1 /\ Len(rs) \in Nat /\ DOMAIN rs = 1..Len(rs)
      /\ ts[Len(rs) + 1] = x /\ \A r \in DOMAIN rs : ts[r] = rs[r]
  BY Grown
<1>2. PICK z : z = Len(rs) + 1
  OBVIOUS
<1>3. /\ z \in DOMAIN ts /\ ts[z] = x /\ \A r \in DOMAIN ts : (r \in DOMAIN rs \/ r = z) /\ ~(z < r)
      /\ \A r \in DOMAIN rs : r \in DOMAIN ts /\ ts[r] = rs[r]
  BY <1>1, <1>2
<1>4. \A i : InRows(es, ts, i) <=> InRows(es, rs, i) \/ RowAt(es, x, i)
  BY <1>3 DEF InRows
<1>5. ASSUME InOrder(es, rs), \A r \in DOMAIN rs : Earlier(es, rs[r], x) PROVE InOrder(es, ts)
  <2> SUFFICES ASSUME NEW r \in DOMAIN ts, NEW q \in DOMAIN ts, r < q PROVE Earlier(es, ts[r], ts[q])
    BY DEF InOrder
  <2>1. r \in DOMAIN rs
    BY <1>3
  <2>2. CASE q \in DOMAIN rs
    BY <1>3, <1>5, <2>1, <2>2 DEF InOrder
  <2>3. CASE q = z
    BY <1>3, <1>5, <2>1, <2>3
  <2> QED
    BY <1>3, <2>2, <2>3
<1> QED
  BY <1>1, <1>3, <1>4, <1>5

LEMMA RowsTake ==
  ASSUME NEW es, NEW rs, IsSeq(rs), NEW m \in DOMAIN rs, NEW x, NEW ts, ts = R!InsertAt(rs, m, x)
  PROVE  /\ IsSeq(ts)
         /\ \A r \in DOMAIN ts : ts[r] = x \/ \E q \in DOMAIN rs : ts[r] = rs[q]
         /\ \A i : InRows(es, ts, i) <=> InRows(es, rs, i) \/ RowAt(es, x, i)
         /\ /\ InOrder(es, rs)
            /\ \A r \in DOMAIN rs : IF r < m THEN Earlier(es, rs[r], x) ELSE Earlier(es, x, rs[r])
            => InOrder(es, ts)
<1>1. /\ IsSeq(ts) /\ DOMAIN ts = 1..Len(rs) + 1
      /\ \A k \in DOMAIN ts : ts[k] = IF k < m THEN rs[k] ELSE IF k = m THEN x ELSE rs[k - 1]
  BY PutIn
<1>2. Len(rs) \in Nat /\ DOMAIN rs = 1..Len(rs)
  BY SeqIs
<1>3. m \in DOMAIN ts /\ ts[m] = x
  BY <1>1, <1>2
<1>4. \A k \in DOMAIN ts : k < m => k \in DOMAIN rs /\ ts[k] = rs[k]
  BY <1>1, <1>2
<1>5. \A k \in DOMAIN ts : m < k => k - 1 \in DOMAIN rs /\ ~(k - 1 < m) /\ ts[k] = rs[k - 1]
  BY <1>1, <1>2
<1>6. \A k \in DOMAIN ts : k < m \/ k = m \/ m < k
  BY <1>1, <1>2
<1>7. \A r \in DOMAIN rs : \E k \in DOMAIN ts : ts[k] = rs[r]
  <2> SUFFICES ASSUME NEW r \in DOMAIN rs PROVE \E k \in DOMAIN ts : ts[k] = rs[r]
    OBVIOUS
  <2>1. CASE r < m
    <3>1. r \in DOMAIN ts
      BY <1>1, <1>2
    <3> QED
      BY <1>4, <2>1, <3>1
  <2>2. CASE ~(r < m)
    <3>1. PICK k : k = r + 1
      OBVIOUS
    <3>2. k \in DOMAIN ts /\ m < k /\ k - 1 = r
      BY <1>1, <1>2, <2>2, <3>1
    <3> QED
      BY <1>5, <3>2
  <2> QED
    BY <2>1, <2>2
<1>8. \A r \in DOMAIN ts : ts[r] = x \/ \E q \in DOMAIN rs : ts[r] = rs[q]
  BY <1>3, <1>4, <1>5, <1>6
<1>9. \A i : InRows(es, ts, i) <=> InRows(es, rs, i) \/ RowAt(es, x, i)
  BY <1>3, <1>7, <1>8 DEF InRows
<1>10. ASSUME InOrder(es, rs), \A r \in DOMAIN rs : IF r < m THEN Earlier(es, rs[r], x) ELSE Earlier(es, x, rs[r])
       PROVE  InOrder(es, ts)
  <2> SUFFICES ASSUME NEW r \in DOMAIN ts, NEW q \in DOMAIN ts, r < q PROVE Earlier(es, ts[r], ts[q])
    BY DEF InOrder
  <2>0. r \in Int /\ q \in Int /\ m \in Int
    BY <1>1, <1>2
  <2>1. CASE r < m /\ q < m
    BY <1>4, <1>10, <2>1 DEF InOrder
  <2>2. CASE r < m /\ q = m
    BY <1>3, <1>4, <1>10, <2>2
  <2>3. CASE r < m /\ m < q
    <3>1. r < q - 1
      BY <2>0, <2>3
    <3> QED
      BY <1>4, <1>5, <1>10, <2>3, <3>1 DEF InOrder
  <2>4. CASE r = m /\ m < q
    BY <1>3, <1>5, <1>10, <2>4
  <2>5. CASE m < r /\ m < q
    <3>1. r - 1 < q - 1
      BY <2>0
    <3> QED
      BY <1>5, <1>10, <2>5, <3>1 DEF InOrder
  <2> QED
    BY <1>6, <2>0, <2>1, <2>2, <2>3, <2>4, <2>5
<1> QED
  BY <1>1, <1>8, <1>9, <1>10

LEMMA RowsLose ==
  ASSUME NEW es, NEW rs, IsSeq(rs), NEW m \in DOMAIN rs, NEW n \in Nat, m < n, n <= Len(rs) + 1,
         NEW ts, IsCutOut(ts, rs, m, n)
  PROVE  /\ IsSeq(ts)
         /\ \A r \in DOMAIN ts : \E q \in DOMAIN rs : ts[r] = rs[q] /\ (q < m \/ n <= q)
         /\ \A q \in DOMAIN rs : q < m \/ n <= q => \E r \in DOMAIN ts : ts[r] = rs[q]
         /\ InOrder(es, rs) => InOrder(es, ts)
<1>1. /\ IsSeq(ts) /\ DOMAIN ts = 1..m + Len(rs) - n
      /\ \A k \in DOMAIN ts : ts[k] = IF k < m THEN rs[k] ELSE rs[k - m + n]
  BY CutOut
<1>2. Len(rs) \in Nat /\ DOMAIN rs = 1..Len(rs)
  BY SeqIs
<1>3. \A k \in DOMAIN ts : k < m => k \in DOMAIN rs /\ ts[k] = rs[k]
  BY <1>1, <1>2
<1>4. \A k \in DOMAIN ts : ~(k < m) => k - m + n \in DOMAIN rs /\ n <= k - m + n /\ ts[k] = rs[k - m + n]
  BY <1>1, <1>2
<1>5. \A r \in DOMAIN ts : \E q \in DOMAIN rs : ts[r] = rs[q] /\ (q < m \/ n <= q)
  BY <1>3, <1>4
<1>6. ASSUME NEW q \in DOMAIN rs, q < m \/ n <= q PROVE \E r \in DOMAIN ts : ts[r] = rs[q]
  <2>1. CASE q < m
    <3>1. q \in DOMAIN ts
      BY <1>1, <1>2, <2>1
    <3> QED
      BY <1>3, <2>1, <3>1
  <2>2. CASE n <= q
    <3>0. PICK k : k = q - n + m
      OBVIOUS
    <3>1. k \in DOMAIN ts /\ ~(k < m) /\ k - m + n = q
      BY <1>1, <1>2, <2>2, <3>0
    <3> QED
      BY <1>4, <3>1
  <2> QED
    BY <1>6, <2>1, <2>2
<1>7. ASSUME InOrder(es, rs) PROVE InOrder(es, ts)
  <2> SUFFICES ASSUME NEW r \in DOMAIN ts, NEW q \in DOMAIN ts, r < q PROVE Earlier(es, ts[r], ts[q])
    BY DEF InOrder
  <2>0. r \in Int /\ q \in Int /\ m \in Int /\ n \in Int
    BY <1>1, <1>2
  <2>1. CASE r < m /\ q < m
    BY <1>3, <1>7, <2>1 DEF InOrder
  <2>2. CASE r < m /\ ~(q < m)
    <3>1. r < q - m + n
      BY <2>0, <2>2
    <3> QED
      BY <1>3, <1>4, <1>7, <2>2, <3>1 DEF InOrder
  <2>3. CASE ~(r < m) /\ ~(q < m)
    <3>1. r - m + n < q - m + n
      BY <2>0
    <3> QED
      BY <1>4, <1>7, <2>3, <3>1 DEF InOrder
  <2> QED
    BY <2>0, <2>1, <2>2, <2>3
<1> QED
  BY <1>1, <1>5, <1>6, <1>7

Overtaken(es, msg) == \E i \in DOMAIN es : es[i].type = "user" /\ es[i].id > msg

\* A message on its way to the server was overtaken.
Doomed(es, cs) == \E c \in cs : Send(c) /\ c.answer = None /\ Overtaken(es, c.arg)

Base(es, w, rs, cs, n) == n \in Nat /\ LedgerOK(es, n) /\ WireOK(es, w) /\ RowsOK(es, rs, cs) /\ SendsOK(es, cs, n)
Shows(es, w, rs) == InOrder(es, rs) /\ AllShown(es, w, rs) /\ Numbered(es, w)
Agreed(es, w, rs, p, cs) == Shows(es, w, rs) /\ Told(Pending(es), w, p, cs)

\* The requests of the page change, and no message among them.
SendsStay(cs, ds) ==
  /\ \A c \in cs : Send(c) /\ c.answer = None => c \in ds
  /\ \A d \in ds : CallForm(d) /\ (Send(d) => d \in cs)

AsksIndex(cs) == \E c \in cs : c.kind = "index"

LEMMA OthersChange ==
  ASSUME NEW es, NEW w, NEW rs, NEW cs, NEW n, Base(es, w, rs, cs, n), NEW ds, SendsStay(cs, ds)
  PROVE  Base(es, w, rs, ds, n) /\ (Doomed(es, cs) => Doomed(es, ds))
<1>1. \A msg : Awaited(cs, msg) => Awaited(ds, msg)
  BY DEF Awaited, SendsStay
<1>2. RowsOK(es, rs, ds)
  BY <1>1 DEF RowsOK, Base
<1>3. SendsOK(es, ds, n)
  BY DEF SendsOK, SendsStay, Base
<1>4. Doomed(es, cs) => Doomed(es, ds)
  BY DEF Doomed, SendsStay
<1> QED
  BY <1>2, <1>3, <1>4 DEF Base

\* A boundary or its cancel is logged.
LEMMA RewindLogged ==
  ASSUME NEW s, NEW w, NEW rs, NEW cs, NEW n, Base(s, w, rs, cs, n),
         NEW e, Fits(s, e, n), e.type \in {"boundary", "cancel"}, NEW t, IsGrown(t, s, e),
         NEW f, f.type \in {"done", "cancelled"}, FrameAt(t, f, Len(s) + 1), NEW v, IsGrown(v, w, f), NEW p
  PROVE  /\ Base(t, v, rs, cs, n) /\ (Doomed(s, cs) => Doomed(t, cs))
         /\ Agreed(s, w, rs, p, cs) => Agreed(t, v, rs, p, cs)
<1>0. n \in Nat /\ LedgerOK(s, n) /\ WireOK(s, w) /\ RowsOK(s, rs, cs) /\ SendsOK(s, cs, n) /\ IsSeq(s) /\ IsSeq(w)
  BY DEF Base, LedgerOK, WireOK
<1>1. /\ DOMAIN t = 1..Len(s) + 1 /\ Len(s) \in Nat /\ DOMAIN s = 1..Len(s)
      /\ t[Len(s) + 1] = e /\ \A k \in DOMAIN s : t[k] = s[k]
  BY <1>0, Grown
<1>2. LedgerOK(t, n)
  BY <1>0, LedgerGrows
<1>3. ~Sealed(t, Len(s) + 1 - 1)
  <2>1. Len(s) + 1 - 1 = Len(s)
    BY <1>1
  <2>2. ~Sealed(t, Len(s))
    BY <1>0, SealedGrows
  <2> QED
    BY <2>1, <2>2
<1>4. Adds(t, Len(s) + 1, w, v)
  <2>1. PICK q : q = Len(s) + 1
    OBVIOUS
  <2>2. FrameAt(t, f, q) /\ ~Sealed(t, q - 1) /\ ~Ends(f)
    BY <1>3, <2>1 DEF Ends
  <2>3. Adds(t, q, w, v)
    BY <1>0, <2>2, AddsOne
  <2> QED
    BY <2>1, <2>3
<1>5. WireOK(t, v)
  BY <1>0, <1>2, <1>4, WireGrows
<1>6. \A x : RowAt(t, x, Len(s) + 1) => x.role \notin {"user", "reply"}
  BY <1>1 DEF RowAt
<1>7. ~InRows(t, rs, Len(s) + 1)
  BY <1>0, <1>6 DEF InRows, RowsOK
<1>8. \A x : Placed(s, x) => Placed(t, x)
  BY <1>0, RowGrows
<1>9. RowsOK(t, rs, cs)
  BY <1>0, <1>8 DEF RowsOK
<1>10. \A i \in DOMAIN t : t[i].type = "user" => i \in DOMAIN s /\ t[i] = s[i]
  BY <1>1
<1>11. SendsOK(t, cs, n)
  BY <1>0, <1>10 DEF SendsOK
<1>12. \A msg : Overtaken(s, msg) => Overtaken(t, msg)
  BY <1>1 DEF Overtaken
<1>13. Doomed(s, cs) => Doomed(t, cs)
  BY <1>12 DEF Doomed
<1>14. ASSUME Agreed(s, w, rs, p, cs) PROVE Agreed(t, v, rs, p, cs)
  <2>1. InOrder(t, rs)
    BY <1>0, <1>7, <1>14, OrderGrows DEF Agreed, Shows
  <2>2. AllShown(t, v, rs) /\ Numbered(t, v)
    BY <1>0, <1>2, <1>4, <1>7, <1>14, ShownGrows DEF Agreed, Shows
  <2>3. Pending(t) = Says(f)
    <3>1. Pending(t) = IF e.type = "boundary" THEN <<e.id, e.target>> ELSE None
      BY <1>0, PendingGrown
    <3>2. e.type = "boundary" <=> f.type = "done"
      BY <1>1 DEF FrameAt
    <3>3. f.type = "done" => e.id = f.id /\ e.target = f.target
      BY <1>1 DEF FrameAt
    <3> QED
      BY <3>1, <3>2, <3>3 DEF Says
  <2>4. Told(Pending(t), v, p, cs)
    <3>1. f.type \in Pendings
      BY DEF Pendings
    <3> QED
      BY <1>0, <2>3, <3>1, ToldNew
  <2> QED
    BY <2>1, <2>2, <2>4 DEF Agreed, Shows
<1> QED
  BY <1>0, <1>2, <1>5, <1>9, <1>11, <1>13, <1>14 DEF Base

\* A reply is logged.
LEMMA ReplyLogged ==
  ASSUME NEW s, NEW w, NEW rs, NEW cs, NEW n, Base(s, w, rs, cs, n),
         NEW e, Fits(s, e, n), e.type = "reply", NEW t, IsGrown(t, s, e),
         NEW f, f.type = "reply", f.id = e.id, NEW v, IsGrown(v, w, f), NEW p
  PROVE  /\ Base(t, v, rs, cs, n) /\ (Doomed(s, cs) => Doomed(t, cs))
         /\ Agreed(s, w, rs, p, cs) => Agreed(t, v, rs, p, cs)
<1>0. n \in Nat /\ LedgerOK(s, n) /\ WireOK(s, w) /\ RowsOK(s, rs, cs) /\ SendsOK(s, cs, n) /\ IsSeq(s) /\ IsSeq(w)
  BY DEF Base, LedgerOK, WireOK
<1>1. /\ DOMAIN t = 1..Len(s) + 1 /\ Len(s) \in Nat /\ DOMAIN s = 1..Len(s)
      /\ t[Len(s) + 1] = e /\ \A k \in DOMAIN s : t[k] = s[k]
  BY <1>0, Grown
<1>2. LedgerOK(t, n)
  BY <1>0, LedgerGrows
<1>3. ~Sealed(t, Len(s) + 1 - 1)
  <2>1. Len(s) + 1 - 1 = Len(s)
    BY <1>1
  <2>2. ~Sealed(t, Len(s))
    BY <1>0, SealedGrows
  <2> QED
    BY <2>1, <2>2
<1>4. Adds(t, Len(s) + 1, w, v)
  <2>1. PICK q : q = Len(s) + 1
    OBVIOUS
  <2>2. FrameAt(t, f, q) /\ ~Sealed(t, q - 1) /\ ~Ends(f)
    BY <1>1, <1>3, <2>1 DEF Ends, FrameAt
  <2>3. Adds(t, q, w, v)
    BY <1>0, <2>2, AddsOne
  <2> QED
    BY <2>1, <2>3
<1>5. WireOK(t, v)
  BY <1>0, <1>2, <1>4, WireGrows
<1>7. ~InRows(t, rs, Len(s) + 1)
  <2> SUFFICES ASSUME NEW r \in DOMAIN rs, RowAt(t, rs[r], Len(s) + 1) PROVE FALSE
    BY DEF InRows
  <2>1. rs[r].role = "reply"
    BY <1>1 DEF RowAt
  <2>2. PICK i \in DOMAIN s : RowAt(s, rs[r], i)
    BY <1>0, <2>1 DEF RowsOK, Placed
  <2>3. RowAt(t, rs[r], i)
    BY <1>0, <2>2, RowGrows
  <2>4. i = Len(s) + 1
    BY <1>2, <2>3 DEF RowAt, LedgerOK
  <2> QED
    BY <1>1, <2>4
<1>8. \A x : Placed(s, x) => Placed(t, x)
  BY <1>0, RowGrows
<1>9. RowsOK(t, rs, cs)
  BY <1>0, <1>8 DEF RowsOK
<1>10. \A i \in DOMAIN t : t[i].type = "user" => i \in DOMAIN s /\ t[i] = s[i]
  BY <1>1
<1>11. SendsOK(t, cs, n)
  BY <1>0, <1>10 DEF SendsOK
<1>12. \A msg : Overtaken(s, msg) => Overtaken(t, msg)
  BY <1>1 DEF Overtaken
<1>13. Doomed(s, cs) => Doomed(t, cs)
  BY <1>12 DEF Doomed
<1>14. ASSUME Agreed(s, w, rs, p, cs) PROVE Agreed(t, v, rs, p, cs)
  <2>1. InOrder(t, rs)
    BY <1>0, <1>7, <1>14, OrderGrows DEF Agreed, Shows
  <2>2. AllShown(t, v, rs) /\ Numbered(t, v)
    BY <1>0, <1>2, <1>4, <1>7, <1>14, ShownGrows DEF Agreed, Shows
  <2>3. Pending(t) = Pending(s)
    <3>1. Pending(t) = None
      BY <1>0, PendingGrown
    <3>2. Pending(s) = None
      BY DEF Pending, Fits
    <3> QED
      BY <3>1, <3>2
  <2>4. Told(Pending(t), v, p, cs)
    <3>1. f.type \notin Pendings
      BY DEF Pendings
    <3> QED
      BY <1>0, <1>14, <2>3, <3>1, ToldSame DEF Agreed
  <2> QED
    BY <2>1, <2>2, <2>4 DEF Agreed, Shows
<1> QED
  BY <1>0, <1>2, <1>5, <1>9, <1>11, <1>13, <1>14 DEF Base

\* The frames of a message: f, after the frame g of what it makes final.
Announces(s, f, g, w, v) ==
  IF Pending(s) = None THEN IsGrown(v, w, f)
  ELSE /\ Ends(g) /\ Pending(s) = <<g.id, g.target>>
       /\ \E u : IsGrown(u, w, g) /\ IsGrown(v, u, f)

LEMMA MessageLogged ==
  ASSUME NEW n \in Nat, NEW s, LedgerOK(s, n), NEW w, WireOK(s, w), NEW m \in Nat, n <= m,
         NEW e, Fits(s, e, m), e.type = "user", NEW t, IsGrown(t, s, e),
         NEW f, f.type = "user", f.id = e.id, NEW g, NEW v, Announces(s, f, g, w, v),
         NEW p, NEW cs
  PROVE  /\ LedgerOK(t, m) /\ Adds(t, Len(s) + 1, w, v) /\ WireOK(t, v)
         /\ Told(Pending(s), w, p, cs) => Told(Pending(t), v, p, cs)
<1>0. IsSeq(s) /\ IsSeq(w)
  BY DEF LedgerOK, WireOK
<1>1. /\ DOMAIN t = 1..Len(s) + 1 /\ Len(s) \in Nat /\ DOMAIN s = 1..Len(s)
      /\ t[Len(s) + 1] = e /\ \A k \in DOMAIN s : t[k] = s[k]
  BY <1>0, Grown
<1>2. LedgerOK(t, m)
  BY LedgerGrows
<1>3. PICK q : q = Len(s) + 1
  OBVIOUS
<1>4. q \in DOMAIN t /\ t[q] = e /\ q - 1 = Len(s)
  BY <1>1, <1>3
<1>5. FrameAt(t, f, q) /\ ~Ends(f) /\ f.type \notin Pendings
  BY <1>4 DEF FrameAt, Ends, Pendings
<1>6. Pending(t) = None
  BY <1>0, PendingGrown
<1>7. CASE Pending(s) = None
  <2>1. IsGrown(v, w, f)
    BY <1>7 DEF Announces
  <2>2. ~Sealed(t, q - 1)
    <3>1. Len(s) > 0 => s[Len(s)].type # "boundary"
      BY <1>7, NonePends
    <3>2. ~Sealed(t, Len(s))
      BY <1>0, <3>1, SealedGrows
    <3> QED
      BY <1>4, <3>2
  <2>3. Adds(t, q, w, v)
    BY <1>0, <1>5, <2>1, <2>2, AddsOne
  <2>4. Told(Pending(s), w, p, cs) => Told(Pending(t), v, p, cs)
    BY <1>0, <1>5, <1>6, <1>7, <2>1, ToldSame
  <2>5. WireOK(t, v)
    BY <1>2, <1>3, <2>3, WireGrows
  <2> QED
    BY <1>2, <1>3, <2>3, <2>4, <2>5
<1>8. CASE Pending(s) # None
  <2>1. PICK u : IsGrown(u, w, g) /\ IsGrown(v, u, f)
    BY <1>8 DEF Announces
  <2>2. Ends(g) /\ Pending(s) = <<g.id, g.target>>
    BY <1>8 DEF Announces
  <2>3. Len(s) > 0 /\ s[Len(s)].type = "boundary" /\ s[Len(s)].id = g.id /\ s[Len(s)].target = g.target
    BY <1>8, <2>2 DEF Pending
  <2>4. FrameAt(t, g, q)
    <3>1. Sealed(t, Len(s))
      BY <1>0, <2>3, SealedGrows
    <3>2. t[Len(s)] = s[Len(s)]
      BY <1>1, <2>3
    <3> QED
      BY <1>4, <2>2, <2>3, <3>1, <3>2 DEF FrameAt, Ends
  <2>5. Adds(t, q, w, v)
    BY <1>0, <1>5, <2>1, <2>2, <2>4, AddsTwo
  <2>6. WireOK(t, v)
    BY <1>2, <1>3, <2>5, WireGrows
  <2>7. Told(Pending(t), v, p, cs)
    <3>1. g.type \in Pendings /\ Says(g) = None
      BY <2>2 DEF Ends, Pendings, Says
    <3>2. Told(Says(g), u, p, cs)
      BY <1>0, <2>1, <3>1, ToldNew
    <3>3. Told(None, u, p, cs)
      BY <3>1, <3>2
    <3>4. IsSeq(u)
      BY <1>0, <2>1, Grown
    <3>5. Told(None, v, p, cs)
      BY <1>5, <2>1, <3>3, <3>4, ToldSame
    <3> QED
      BY <1>6, <3>5
  <2> QED
    BY <1>2, <1>3, <2>5, <2>6, <2>7
<1> QED
  BY <1>7, <1>8

LEMMA RowNumbers ==
  ASSUME NEW es, NEW w, NEW rs, NEW cs, NEW n, Base(es, w, rs, cs, n), NEW r \in DOMAIN rs
  PROVE  rs[r].id \in 1..n /\ rs[r].role \in {"user", "reply"}
<1>1. CASE Placed(es, rs[r])
  <2>1. PICK i \in DOMAIN es : es[i].type = rs[r].role /\ es[i].id = rs[r].id
    BY <1>1 DEF Placed, RowAt
  <2>2. rs[r].role \in {"user", "reply"}
    BY DEF Base, RowsOK
  <2> QED
    BY <2>1, <2>2 DEF Base, LedgerOK, Speech
<1>2. CASE ~Placed(es, rs[r])
  <2>1. rs[r].role = "user" /\ Awaited(cs, rs[r].id)
    BY <1>2 DEF Base, RowsOK
  <2> QED
    BY <2>1 DEF Awaited, Base, SendsOK
<1> QED
  BY <1>1, <1>2

\* Another tab's message.
LEMMA ForeignLogged ==
  ASSUME NEW s, NEW w, NEW rs, NEW cs, NEW n, Base(s, w, rs, cs, n), NEW m, m = n + 1,
         NEW e, e.type = "user", e.id = m, NEW t, IsGrown(t, s, e),
         NEW f, f.type = "user", f.id = e.id, NEW g, NEW v, Announces(s, f, g, w, v), NEW p
  PROVE  /\ Base(t, v, rs, cs, m) /\ (Doomed(s, cs) => Doomed(t, cs))
         /\ Agreed(s, w, rs, p, cs) => Agreed(t, v, rs, p, cs)
<1>0. n \in Nat /\ LedgerOK(s, n) /\ WireOK(s, w) /\ RowsOK(s, rs, cs) /\ SendsOK(s, cs, n) /\ IsSeq(s)
      /\ m \in Nat /\ n <= m /\ m \in 1..m /\ \A x \in 1..n : x # m /\ x < m /\ x \in 1..m
  BY DEF Base, LedgerOK
<1>1. /\ DOMAIN t = 1..Len(s) + 1 /\ Len(s) \in Nat /\ DOMAIN s = 1..Len(s)
      /\ t[Len(s) + 1] = e /\ \A k \in DOMAIN s : t[k] = s[k]
  BY <1>0, Grown
<1>2. \A j \in DOMAIN s : s[j].type = "user" => s[j].id < e.id /\ s[j].id # e.id
  BY <1>0 DEF LedgerOK, Speech
<1>3. Fits(s, e, m)
  BY <1>0, <1>2 DEF Fits
<1>4. LedgerOK(t, m) /\ Adds(t, Len(s) + 1, w, v) /\ WireOK(t, v)
  BY <1>0, <1>3, MessageLogged
<1>5. Told(Pending(s), w, p, cs) => Told(Pending(t), v, p, cs)
  BY <1>0, <1>3, MessageLogged
<1>6. ~InRows(t, rs, Len(s) + 1)
  <2> SUFFICES ASSUME NEW r \in DOMAIN rs, RowAt(t, rs[r], Len(s) + 1) PROVE FALSE
    BY DEF InRows
  <2>1. rs[r].id = m
    BY <1>1 DEF RowAt
  <2>2. rs[r].id \in 1..n
    BY RowNumbers
  <2> QED
    BY <1>0, <2>1, <2>2
<1>7. \A x : Placed(s, x) => Placed(t, x)
  BY <1>0, RowGrows
<1>8. RowsOK(t, rs, cs)
  BY <1>0, <1>7 DEF RowsOK
<1>9. SendsOK(t, cs, m)
  <2>1. \A i \in DOMAIN t : t[i].type = "user" => t[i].id = m \/ (i \in DOMAIN s /\ t[i] = s[i])
    BY <1>1
  <2> QED
    BY <1>0, <2>1 DEF SendsOK
<1>10. Doomed(s, cs) => Doomed(t, cs)
  <2>1. \A msg : Overtaken(s, msg) => Overtaken(t, msg)
    BY <1>1 DEF Overtaken
  <2> QED
    BY <2>1 DEF Doomed
<1>11. ASSUME Agreed(s, w, rs, p, cs) PROVE Agreed(t, v, rs, p, cs)
  <2>1. InOrder(t, rs)
    BY <1>0, <1>6, <1>11, OrderGrows DEF Agreed, Shows
  <2>2. AllShown(t, v, rs) /\ Numbered(t, v)
    BY <1>0, <1>2, <1>4, <1>6, <1>11, ShownGrows DEF Agreed, Shows
  <2> QED
    BY <1>5, <1>11, <2>1, <2>2 DEF Agreed, Shows
<1> QED
  BY <1>0, <1>4, <1>8, <1>9, <1>10, <1>11 DEF Base

\* A message of the page.
LEMMA OwnLogged ==
  ASSUME NEW s, NEW w, NEW rs, NEW cs, NEW n, Base(s, w, rs, cs, n),
         NEW c \in cs, Send(c), c.answer = None,
         NEW d, CallForm(d), d.kind = c.kind, d.arg = c.arg, d.answer # None,
         NEW ds, ds = (cs \ {c}) \cup {d},
         NEW e, e.type = "user", e.id = c.arg, NEW t, IsGrown(t, s, e),
         NEW f, f.type = "user", f.id = e.id, NEW g, NEW v, Announces(s, f, g, w, v), NEW p
  PROVE  /\ Base(t, v, rs, ds, n)
         /\ ~Overtaken(s, c.arg) /\ Doomed(s, cs) => Doomed(t, ds)
         /\ ~Overtaken(s, c.arg) /\ ~Doomed(t, ds) /\ Agreed(s, w, rs, p, cs) => Agreed(t, v, rs, p, ds)
<1>0. n \in Nat /\ LedgerOK(s, n) /\ WireOK(s, w) /\ RowsOK(s, rs, cs) /\ SendsOK(s, cs, n) /\ IsSeq(s) /\ n <= n
  BY DEF Base, LedgerOK
<1>1. /\ DOMAIN t = 1..Len(s) + 1 /\ Len(s) \in Nat /\ DOMAIN s = 1..Len(s)
      /\ t[Len(s) + 1] = e /\ \A k \in DOMAIN s : t[k] = s[k]
  BY <1>0, Grown
<1>2. c.arg \in 1..n /\ \A i \in DOMAIN s : s[i].type = "user" => s[i].id # c.arg
  BY <1>0 DEF SendsOK
<1>3. Fits(s, e, n)
  BY <1>2 DEF Fits
<1>4. LedgerOK(t, n) /\ Adds(t, Len(s) + 1, w, v) /\ WireOK(t, v)
  BY <1>0, <1>3, MessageLogged
<1>5. Told(Pending(s), w, p, ds) => Told(Pending(t), v, p, ds)
  BY <1>0, <1>3, MessageLogged
<1>6. /\ \A x : Placed(s, x) => Placed(t, x)
      /\ \A x : x.role = "user" /\ x.id = c.arg => Placed(t, x)
  <2>1. Len(s) + 1 \in DOMAIN t
    BY <1>1
  <2>2. \A x : x.role = "user" /\ x.id = c.arg => RowAt(t, x, Len(s) + 1)
    BY <1>1, <2>1 DEF RowAt
  <2> QED
    BY <1>0, <2>2, RowGrows
<1>7. \A x \in cs : Send(x) /\ x.answer = None => x.arg = c.arg \/ x \in ds
  BY DEF Send
<1>8. RowsOK(t, rs, ds)
  <2> SUFFICES ASSUME NEW r \in DOMAIN rs, ~Placed(t, rs[r])
               PROVE  rs[r].role = "user" /\ Awaited(ds, rs[r].id)
    BY <1>0 DEF RowsOK
  <2>1. rs[r].role = "user" /\ Awaited(cs, rs[r].id) /\ rs[r].id # c.arg
    BY <1>0, <1>6 DEF RowsOK
  <2> QED
    BY <1>7, <2>1 DEF Awaited
<1>9. SendsOK(t, ds, n)
  <2>1. \A x \in ds : CallForm(x) /\ (x = d \/ (x \in cs /\ x # c))
    BY <1>0 DEF SendsOK
  <2>2. ASSUME NEW x \in ds, Send(x)
        PROVE  x.arg \in 1..n /\ (x.answer = None => \A i \in DOMAIN t : t[i].type = "user" => t[i].id # x.arg)
    <3>1. CASE x = d
      BY <1>2, <3>1
    <3>2. CASE x \in cs /\ x # c
      <4>1. x.arg # c.arg
        BY <1>0, <2>2, <3>2 DEF SendsOK
      <4>2. \A i \in DOMAIN t : t[i].type = "user" => t[i].id = c.arg \/ (i \in DOMAIN s /\ t[i] = s[i])
        BY <1>1
      <4> QED
        BY <1>0, <2>2, <3>2, <4>1, <4>2 DEF SendsOK
    <3> QED
      BY <2>1, <3>1, <3>2
  <2>3. ASSUME NEW x \in ds, NEW y \in ds, Send(x), Send(y), x.arg = y.arg PROVE x = y
    <3>1. \A z \in cs : Send(z) /\ z.arg = c.arg => z = c
      BY <1>0 DEF SendsOK
    <3> QED
      BY <1>0, <2>1, <2>3, <3>1 DEF SendsOK
  <2> QED
    BY <2>1, <2>2, <2>3 DEF SendsOK
<1>10. \A msg : Overtaken(s, msg) => Overtaken(t, msg)
  BY <1>1 DEF Overtaken
<1>11. ASSUME ~Overtaken(s, c.arg), Doomed(s, cs) PROVE Doomed(t, ds)
  <2>1. PICK x \in cs : Send(x) /\ x.answer = None /\ Overtaken(s, x.arg)
    BY <1>11 DEF Doomed
  <2>2. x \in ds
    BY <1>7, <1>11, <2>1
  <2> QED
    BY <1>10, <2>1, <2>2 DEF Doomed
<1>12. ASSUME ~Overtaken(s, c.arg), ~Doomed(t, ds), Agreed(s, w, rs, p, cs) PROVE Agreed(t, v, rs, p, ds)
  <2>1. \A j \in DOMAIN s : s[j].type = "user" => s[j].id < e.id
    <3> SUFFICES ASSUME NEW j \in DOMAIN s, s[j].type = "user" PROVE s[j].id < e.id
      OBVIOUS
    <3>1. s[j].id \in 1..n /\ ~(s[j].id > c.arg) /\ s[j].id # c.arg
      BY <1>0, <1>2, <1>12 DEF LedgerOK, Speech, Overtaken
    <3> QED
      BY <1>2, <3>1
  <2>2. AllShown(t, v, rs) /\ Numbered(t, v)
    BY <1>0, <1>4, <1>12, <2>1, ShownGrows DEF Agreed, Shows
  <2>3. InOrder(t, rs)
    <3>1. ASSUME NEW r \in DOMAIN rs, ~Placed(s, rs[r]) PROVE rs[r].id \in Nat /\ e.id <= rs[r].id
      <4>1. rs[r].id \in 1..n
        BY RowNumbers
      <4>2. PICK x \in cs : Send(x) /\ x.arg = rs[r].id /\ x.answer = None
        BY <1>0, <3>1 DEF RowsOK, Awaited
      <4>3. CASE x.arg = c.arg
        BY <4>1, <4>2, <4>3
      <4>4. CASE x.arg # c.arg
        <5>1. x \in ds
          BY <1>7, <4>2, <4>4
        <5>2. ~Overtaken(t, x.arg)
          BY <1>12, <4>2, <5>1 DEF Doomed
        <5>3. Len(s) + 1 \in DOMAIN t
          BY <1>1
        <5>4. ~(c.arg > x.arg)
          BY <1>1, <5>2, <5>3 DEF Overtaken
        <5> QED
          BY <1>2, <4>1, <4>2, <5>4
      <4> QED
        BY <4>3, <4>4
    <3>2. e.id \in Nat
      BY <1>2
    <3> QED
      BY <1>0, <1>4, <1>12, <3>1, <3>2, OrderTold DEF Agreed, Shows
  <2>4. Told(Pending(s), w, p, ds)
    <3>1. (\E x \in cs : x.kind = "index") => \E x \in ds : x.kind = "index"
      BY DEF Send
    <3> QED
      BY <1>12, <3>1 DEF Agreed, Told
  <2> QED
    BY <1>5, <2>2, <2>3, <2>4 DEF Agreed, Shows
<1> QED
  BY <1>0, <1>4, <1>8, <1>9, <1>11, <1>12 DEF Base

\* The request x of a message is made, in place of another request or of none.
Replaces(ds, cs, x) == /\ x \in ds /\ \A y \in ds : y = x \/ y \in cs
                       /\ \A y \in cs : Send(y) \/ y.kind = "index" => y \in ds

\* A message is sent: its row, and its request x.
LEMMA Pushed ==
  ASSUME NEW es, NEW w, NEW rs, NEW cs, NEW n, Base(es, w, rs, cs, n), NEW m, m = n + 1,
         NEW row, RowForm(row), row.role = "user", row.id = m, NEW ts, IsGrown(ts, rs, row),
         NEW x, CallForm(x), x.kind = "send", x.arg = m, x.answer = None,
         NEW ds, Replaces(ds, cs, x), NEW p
  PROVE  /\ Base(es, w, ts, ds, m) /\ (Doomed(es, cs) => Doomed(es, ds))
         /\ Agreed(es, w, rs, p, cs) => Agreed(es, w, ts, p, ds)
<1>0. n \in Nat /\ LedgerOK(es, n) /\ WireOK(es, w) /\ RowsOK(es, rs, cs) /\ SendsOK(es, cs, n) /\ IsSeq(rs)
      /\ m \in Nat /\ n <= m /\ m \in 1..m /\ \A k \in 1..n : k # m /\ k < m /\ k \in 1..m
  BY DEF Base, RowsOK
<1>1. /\ IsSeq(ts)
      /\ \A r \in DOMAIN ts : ts[r] = row \/ \E q \in DOMAIN rs : ts[r] = rs[q]
      /\ \A i : InRows(es, ts, i) <=> InRows(es, rs, i) \/ RowAt(es, row, i)
      /\ InOrder(es, rs) /\ (\A r \in DOMAIN rs : Earlier(es, rs[r], row)) => InOrder(es, ts)
  BY <1>0, RowsGrow
<1>2. ~Placed(es, row)
  BY <1>0 DEF Placed, RowAt, LedgerOK, Speech
<1>3. LedgerOK(es, m)
  BY <1>0 DEF LedgerOK
<1>4. x \in ds /\ Send(x) /\ \A y \in cs : Send(y) => y \in ds
  BY DEF Send, Replaces
<1>5. Awaited(ds, m) /\ \A msg : Awaited(cs, msg) => Awaited(ds, msg)
  BY <1>4 DEF Awaited
<1>6. RowsOK(es, ts, ds)
  BY <1>0, <1>1, <1>5 DEF RowsOK
<1>7. SendsOK(es, ds, m)
  <2>1. \A y \in ds : y = x \/ y \in cs
    BY DEF Replaces
  <2>2. \A i \in DOMAIN es : es[i].type = "user" => es[i].id # m
    BY <1>0 DEF LedgerOK, Speech
  <2>3. \A y \in cs : Send(y) => y.arg # m /\ y.arg \in 1..m
    BY <1>0 DEF SendsOK
  <2> QED
    BY <1>0, <2>1, <2>2, <2>3 DEF SendsOK
<1>8. Doomed(es, cs) => Doomed(es, ds)
  BY <1>4 DEF Doomed
<1>9. ASSUME Agreed(es, w, rs, p, cs) PROVE Agreed(es, w, ts, p, ds)
  <2>1. InOrder(es, ts)
    <3>1. ASSUME NEW r \in DOMAIN rs PROVE Earlier(es, rs[r], row)
      <4>1. rs[r].id < row.id
        BY <1>0, RowNumbers
      <4> QED
        BY <1>2, <4>1 DEF Earlier
    <3> QED
      BY <1>1, <1>9, <3>1 DEF Agreed, Shows
  <2>2. \A i \in DOMAIN es : InRows(es, ts, i) <=> InRows(es, rs, i)
    BY <1>1, <1>2 DEF Placed
  <2>3. AllShown(es, w, ts)
    BY <1>9, <2>2 DEF Agreed, Shows, AllShown
  <2>4. Told(Pending(es), w, p, ds)
    <3>1. (\E y \in cs : y.kind = "index") => \E y \in ds : y.kind = "index"
      BY DEF Replaces
    <3> QED
      BY <1>9, <3>1 DEF Agreed, Told
  <2> QED
    BY <1>9, <2>1, <2>3, <2>4 DEF Agreed, Shows
<1> QED
  BY <1>0, <1>3, <1>6, <1>7, <1>8, <1>9 DEF Base

-------------------------------------------------------------------------------
(* A frame is received. *)

LEMMA ToldTail ==
  ASSUME NEW P, NEW w, IsSeq(w), NEW v, IsTail(v, w), NEW p, NEW cs, Told(P, w, p, cs)
  PROVE  /\ w[1].type \notin Pendings => Told(P, v, p, cs)
         /\ w[1].type \in Pendings => \A z : (P = Says(w[1]) => z = P) => Told(P, v, z, cs)
<1>1. /\ IsSeq(v) /\ Len(w) \in Nat /\ DOMAIN w = 1..Len(w) /\ Len(w) >= 1 /\ DOMAIN v = 1..Len(w) - 1
      /\ \A k \in DOMAIN v : v[k] = w[k + 1]
  BY TailIs
<1>2. /\ 1 \in DOMAIN w
      /\ \A k \in DOMAIN v : k + 1 \in DOMAIN w /\ 1 < k + 1 /\ v[k] = w[k + 1]
      /\ \A k, l \in DOMAIN v : k < l => k + 1 < l + 1
  BY <1>1
<1>3. ASSUME NEW k \in DOMAIN w, k # 1 PROVE \E j \in DOMAIN v : k = j + 1 /\ v[j] = w[k]
  <2>1. PICK j : j = k - 1
    OBVIOUS
  <2>2. j \in DOMAIN v /\ k = j + 1
    BY <1>1, <1>3, <2>1
  <2> QED
    BY <1>1, <2>2
<1>4. CASE \A k \in DOMAIN w : w[k].type \notin Pendings
  <2>1. p = P \/ \E c \in cs : c.kind = "index"
    BY <1>4 DEF Told
  <2> QED
    BY <1>2, <1>4, <2>1 DEF Told
<1>5. CASE ~\A k \in DOMAIN w : w[k].type \notin Pendings
  <2>1. PICK k \in DOMAIN w : /\ w[k].type \in Pendings /\ P = Says(w[k])
                              /\ \A l \in DOMAIN w : k < l => w[l].type \notin Pendings
    BY <1>5 DEF Told
  <2>2. CASE k = 1
    <3>1. \A l \in DOMAIN v : v[l].type \notin Pendings
      BY <1>2, <2>1, <2>2
    <3> QED
      BY <2>1, <2>2, <3>1 DEF Told
  <2>3. CASE k # 1
    <3>1. PICK j \in DOMAIN v : k = j + 1 /\ v[j] = w[k]
      BY <1>3, <2>3
    <3>2. \A l \in DOMAIN v : j < l => v[l].type \notin Pendings
      BY <1>2, <2>1, <3>1
    <3> QED
      BY <2>1, <3>1, <3>2 DEF Told
  <2> QED
    BY <2>2, <2>3
<1> QED
  BY <1>4, <1>5

\* What is rewound, when its boundary is the last event and its frame the next, is on the screen.
LEMMA DoneSeen ==
  ASSUME NEW es, NEW w, NEW rs, NEW cs, NEW n, Base(es, w, rs, cs, n), Shows(es, w, rs), NEW v, IsTail(v, w),
         w[1].type = "done", Pending(es) = <<w[1].id, w[1].target>>
  PROVE  \E r \in DOMAIN rs : rs[r].role = "user" /\ rs[r].id = w[1].target
<1>0. LedgerOK(es, n) /\ WireOK(es, w)
  BY DEF Base
<1>1. Len(es) \in Nat /\ DOMAIN es = 1..Len(es)
  BY <1>0, SeqIs DEF LedgerOK
<1>2. PICK f : f = w[1]
  OBVIOUS
<1>3. PICK p \in DOMAIN es : FrameAt(es, f, p) /\ Gone(es, w, f, p, v)
  BY <1>0, <1>2, WireShrinks
<1>4. es[p].type = "boundary" /\ es[p].id = f.id /\ es[p].target = f.target
  BY <1>2, <1>3 DEF FrameAt
<1>5. p = Len(es)
  <2>1. <<f.id, f.target>> # None
    BY <1>0, <1>4 DEF LedgerOK
  <2>2. Len(es) > 0 /\ es[Len(es)].type = "boundary" /\ es[Len(es)].id = f.id
    BY <1>2, <2>1 DEF Pending
  <2>3. Len(es) \in DOMAIN es
    BY <1>1, <2>2
  <2> QED
    BY <1>0, <1>4, <2>2, <2>3 DEF LedgerOK
<1>6. PICK s \in DOMAIN es : /\ s < p /\ es[s].type = "user" /\ es[s].id = es[p].target
                             /\ \A c \in DOMAIN es : c < p /\ Sealed(es, c) => ~Covers(es, c, s)
  BY <1>0, <1>4 DEF LedgerOK, Aims
<1>7. ~Comes(es, w, s)
  BY <1>3, <1>6 DEF Gone
<1>8. ~Hidden(es, w, s)
  <2> SUFFICES ASSUME NEW b \in DOMAIN es, Sealed(es, b), Covers(es, b, s) PROVE FALSE
    BY DEF Hidden
  <2>1. b < p
    BY <1>1, <1>5 DEF Sealed
  <2> QED
    BY <1>6, <2>1
<1>9. InRows(es, rs, s)
  BY <1>6, <1>7, <1>8 DEF Shows, AllShown, Speech
<1> QED
  BY <1>2, <1>4, <1>6, <1>9 DEF InRows, RowAt

\* A frame about a rewind that leaves the rows.
LEMMA RewindSeen ==
  ASSUME NEW es, NEW w, NEW rs, NEW cs, NEW n, Base(es, w, rs, cs, n), NEW v, IsTail(v, w),
         w[1].type \in {"done", "cancelled"}
  PROVE  Base(es, v, rs, cs, n) /\ (Shows(es, w, rs) => Shows(es, v, rs))
<1>0. LedgerOK(es, n) /\ WireOK(es, w)
  BY DEF Base
<1>1. PICK f : f = w[1]
  OBVIOUS
<1>2. WireOK(es, v) /\ \E p \in DOMAIN es : FrameAt(es, f, p) /\ Gone(es, w, f, p, v)
  BY <1>0, <1>1, WireShrinks
<1>3. PICK p \in DOMAIN es : FrameAt(es, f, p) /\ Gone(es, w, f, p, v)
  BY <1>2
<1>4. ~Ends(f) /\ ~Speech(es[p]) /\ es[p].type # "user"
  BY <1>1, <1>3 DEF FrameAt, Ends, Speech
<1>5. /\ \A i \in DOMAIN es : Speech(es[i]) => (Comes(es, v, i) <=> Comes(es, w, i))
      /\ \A i \in DOMAIN es : EndComes(es, v, i) <=> EndComes(es, w, i)
  BY <1>3, <1>4 DEF Gone
<1>6. \A i \in DOMAIN es : Hidden(es, v, i) <=> Hidden(es, w, i)
  <2>1. \A b \in DOMAIN es : Sealed(es, b) => (EndComes(es, v, b + 1) <=> EndComes(es, w, b + 1))
    BY <1>5 DEF Sealed
  <2> QED
    BY <2>1 DEF Hidden
<1>7. ASSUME Shows(es, w, rs) PROVE Shows(es, v, rs)
  <2>1. AllShown(es, v, rs)
    BY <1>5, <1>6, <1>7 DEF Shows, AllShown
  <2>2. Numbered(es, v)
    BY <1>5, <1>7 DEF Shows, Numbered, Speech
  <2> QED
    BY <1>7, <2>1, <2>2 DEF Shows
<1> QED
  BY <1>2, <1>7 DEF Base

\* On which side of a message or a reply that is received next a row is.
LEMMA RowSide ==
  ASSUME NEW es, NEW w, NEW rs, NEW cs, NEW n, Base(es, w, rs, cs, n), Shows(es, w, rs), ~Doomed(es, cs),
         NEW v, NEW f, Speech(f), NEW p, FrameAt(es, f, p), Gone(es, w, f, p, v), NEW r \in DOMAIN rs
  PROVE  /\ ~Placed(es, rs[r]) => rs[r].role = "user" /\ f.id < rs[r].id
         /\ \A i : RowAt(es, rs[r], i) /\ p < i => rs[r].role = "user" /\ f.id < rs[r].id
         /\ f.type = "user" => \A i : RowAt(es, rs[r], i) /\ i < p => rs[r].id < f.id
<1>0. LedgerOK(es, n) /\ WireOK(es, w) /\ RowsOK(es, rs, cs) /\ SendsOK(es, cs, n)
  BY DEF Base
<1>1. Len(es) \in Nat /\ DOMAIN es = 1..Len(es)
  BY <1>0, SeqIs DEF LedgerOK
<1>2. p \in DOMAIN es /\ es[p].type = f.type /\ es[p].id = f.id
  BY DEF FrameAt, Speech
<1>3. PICK u \in DOMAIN es : u <= p /\ es[u].type = "user" /\ es[u].id = f.id
  <2>1. CASE f.type = "user"
    BY <1>1, <1>2, <2>1
  <2>2. CASE f.type = "reply"
    <3>1. p - 1 \in DOMAIN es /\ es[p - 1].type = "user" /\ es[p - 1].id = f.id
      BY <1>0, <1>2, <2>2 DEF LedgerOK
    <3>2. p - 1 <= p
      BY <1>1, <1>2
    <3> QED
      BY <3>1, <3>2
  <2> QED
    BY <2>1, <2>2 DEF Speech
<1>4. f.id \in 1..n
  BY <1>0, <1>3 DEF LedgerOK, Speech
<1>5. ASSUME ~Placed(es, rs[r]) PROVE rs[r].role = "user" /\ f.id < rs[r].id
  <2>1. rs[r].role = "user" /\ Awaited(cs, rs[r].id)
    BY <1>0, <1>5 DEF RowsOK
  <2>2. PICK c \in cs : Send(c) /\ c.arg = rs[r].id /\ c.answer = None
    BY <2>1 DEF Awaited
  <2>3. c.arg \in 1..n /\ c.arg # f.id
    BY <1>0, <1>3, <2>2 DEF SendsOK
  <2>4. ~(f.id > c.arg)
    BY <1>3, <2>2 DEF Doomed, Overtaken
  <2> QED
    BY <1>4, <2>1, <2>2, <2>3, <2>4
<1>6. ASSUME NEW i, RowAt(es, rs[r], i), p < i PROVE rs[r].role = "user" /\ f.id < rs[r].id
  <2>1. i \in DOMAIN es /\ Comes(es, w, i) /\ es[i].type = rs[r].role /\ es[i].id = rs[r].id
    BY <1>6 DEF RowAt, Gone
  <2>2. es[i].type \in {"user", "reply"} /\ InRows(es, rs, i)
    BY <1>0, <1>6, <2>1 DEF RowsOK, InRows
  <2>3. es[i].type = "user"
    BY <2>1, <2>2 DEF Shows, AllShown, Speech
  <2>4. u < i
    BY <1>1, <1>2, <1>3, <1>6, <2>1
  <2>5. es[u].id < es[i].id
    BY <1>3, <2>1, <2>3, <2>4 DEF Shows, Numbered
  <2> QED
    BY <1>3, <2>1, <2>3, <2>5
<1>7. ASSUME f.type = "user", NEW i, RowAt(es, rs[r], i), i < p PROVE rs[r].id < f.id
  <2>1. i \in DOMAIN es /\ es[i].type = rs[r].role /\ es[i].id = rs[r].id
    BY <1>7 DEF RowAt
  <2>2. es[i].type \in {"user", "reply"}
    BY <1>0, <2>1 DEF RowsOK
  <2>3. Comes(es, w, p)
    BY DEF Gone
  <2>4. CASE es[i].type = "user"
    BY <1>2, <1>7, <2>1, <2>3, <2>4 DEF Shows, Numbered
  <2>5. CASE es[i].type = "reply"
    <3>1. i - 1 \in DOMAIN es /\ es[i - 1].type = "user" /\ es[i - 1].id = rs[r].id
      BY <1>0, <2>1, <2>5 DEF LedgerOK
    <3>2. i - 1 < p
      BY <1>1, <1>2, <1>7, <2>1
    <3> QED
      BY <1>2, <1>7, <2>3, <3>1, <3>2 DEF Shows, Numbered
  <2> QED
    BY <2>2, <2>4, <2>5
<1> QED
  BY <1>5, <1>6, <1>7

\* The page takes a message or a reply: what the rows ts must be.
LEMMA SpeechSeen ==
  ASSUME NEW es, NEW w, NEW rs, NEW cs, NEW n, Base(es, w, rs, cs, n), NEW v, IsTail(v, w),
         NEW f, f = w[1], Speech(f), NEW ts, IsSeq(ts), NEW x, RowForm(x), x.role = f.type, x.id = f.id,
         \A r \in DOMAIN ts : ts[r] = x \/ \E q \in DOMAIN rs : ts[r] = rs[q],
         \A i : InRows(es, ts, i) <=> InRows(es, rs, i) \/ RowAt(es, x, i)
  PROVE  /\ Base(es, v, ts, cs, n)
         /\ Shows(es, w, rs) /\ InOrder(es, ts) => Shows(es, v, ts)
<1>0. LedgerOK(es, n) /\ WireOK(es, w) /\ RowsOK(es, rs, cs)
  BY DEF Base
<1>1. Len(es) \in Nat /\ DOMAIN es = 1..Len(es)
  BY <1>0, SeqIs DEF LedgerOK
<1>2. WireOK(es, v) /\ \E p \in DOMAIN es : FrameAt(es, f, p) /\ Gone(es, w, f, p, v)
  BY <1>0, WireShrinks
<1>3. PICK p \in DOMAIN es : FrameAt(es, f, p) /\ Gone(es, w, f, p, v)
  BY <1>2
<1>4. ~Ends(f) /\ es[p].type = f.type /\ es[p].id = f.id /\ RowAt(es, x, p)
  BY <1>3 DEF FrameAt, Ends, Speech, RowAt
<1>5. \A i : RowAt(es, x, i) => i = p
  BY <1>0, <1>4 DEF RowAt, LedgerOK
<1>6. RowsOK(es, ts, cs)
  <2>1. Placed(es, x) /\ x.role \in {"user", "reply"}
    BY <1>4 DEF Placed, Speech
  <2> QED
    BY <1>0, <2>1 DEF RowsOK
<1>7. Base(es, v, ts, cs, n)
  BY <1>2, <1>6 DEF Base
<1>8. ASSUME Shows(es, w, rs), InOrder(es, ts) PROVE Shows(es, v, ts)
  <2>1. /\ \A i \in DOMAIN es : Comes(es, v, i) <=> Comes(es, w, i) /\ i # p
        /\ \A i \in DOMAIN es : EndComes(es, v, i) <=> EndComes(es, w, i)
    BY <1>3, <1>4 DEF Gone
  <2>2. \A i \in DOMAIN es : Hidden(es, v, i) <=> Hidden(es, w, i)
    <3>1. \A b \in DOMAIN es : Sealed(es, b) => (EndComes(es, v, b + 1) <=> EndComes(es, w, b + 1))
      BY <2>1 DEF Sealed
    <3> QED
      BY <3>1 DEF Hidden
  <2>3. ~Hidden(es, v, p)
    <3> SUFFICES ASSUME NEW b \in DOMAIN es, Sealed(es, b), Covers(es, b, p) PROVE EndComes(es, v, b + 1)
      BY DEF Hidden
    <3>1. PICK i : i = b + 1
      OBVIOUS
    <3>2. i \in DOMAIN es /\ p < i /\ i - 1 = b
      BY <1>1, <3>1 DEF Sealed, Covers
    <3>3. EndComes(es, w, i)
      BY <1>3, <3>2 DEF Gone
    <3> QED
      BY <2>1, <3>1, <3>2, <3>3
  <2>4. \A i \in DOMAIN es : InRows(es, ts, i) <=> InRows(es, rs, i) \/ i = p
    BY <1>4, <1>5
  <2>5. AllShown(es, v, ts)
    <3> SUFFICES ASSUME NEW i \in DOMAIN es, Speech(es[i])
                 PROVE  IF Comes(es, v, i) THEN es[i].type = "reply" => ~InRows(es, ts, i)
                        ELSE InRows(es, ts, i) <=> ~Hidden(es, v, i)
      BY DEF AllShown
    <3>1. CASE i = p
      BY <2>1, <2>3, <2>4, <3>1
    <3>2. CASE i # p
      BY <1>8, <2>1, <2>2, <2>4, <3>2 DEF Shows, AllShown
    <3> QED
      BY <3>1, <3>2
  <2>6. Numbered(es, v)
    BY <1>8, <2>1 DEF Shows, Numbered
  <2> QED
    BY <1>8, <2>5, <2>6 DEF Shows
<1> QED
  BY <1>7, <1>8

LEMMA RowOnce ==
  ASSUME NEW n, NEW es, LedgerOK(es, n), NEW x, NEW i, NEW j, RowAt(es, x, i), RowAt(es, x, j)
  PROVE  i = j
BY DEF RowAt, LedgerOK

LEMMA PlacedOrder ==
  ASSUME NEW n, NEW es, LedgerOK(es, n), NEW rs, InOrder(es, rs), NEW r \in DOMAIN rs, NEW q \in DOMAIN rs,
         r < q, NEW i, RowAt(es, rs[r], i), NEW j, RowAt(es, rs[q], j)
  PROVE  i < j
<1>1. Placed(es, rs[q])
  BY DEF Placed, RowAt
<1>2. Earlier(es, rs[r], rs[q])
  BY DEF InOrder
<1>3. PICK k, l \in DOMAIN es : k < l /\ RowAt(es, rs[r], k) /\ RowAt(es, rs[q], l)
  BY <1>1, <1>2 DEF Earlier
<1>4. k = i /\ l = j
  BY <1>3, RowOnce
<1> QED
  BY <1>3, <1>4

\* A row above the one of what is received next.
LEMMA RowAbove ==
  ASSUME NEW es, NEW w, NEW rs, NEW cs, NEW n, Base(es, w, rs, cs, n), Shows(es, w, rs), ~Doomed(es, cs),
         NEW v, NEW f, Speech(f), NEW p, FrameAt(es, f, p), Gone(es, w, f, p, v),
         NEW x, x.role = f.type, x.id = f.id,
         NEW r \in DOMAIN rs, ~RowAt(es, rs[r], p), ~(rs[r].role = "user" /\ f.id < rs[r].id)
  PROVE  Earlier(es, rs[r], x)
<1>1. LedgerOK(es, n)
  BY DEF Base
<1>2. DOMAIN es = 1..Len(es)
  BY <1>1, SeqIs DEF LedgerOK
<1>3. p \in DOMAIN es /\ RowAt(es, x, p)
  BY DEF FrameAt, RowAt, Speech
<1>4. Placed(es, rs[r])
  BY RowSide
<1>5. PICK i \in DOMAIN es : RowAt(es, rs[r], i)
  BY <1>4 DEF Placed
<1>6. ~(p < i)
  BY <1>5, RowSide
<1>7. i # p
  BY <1>5
<1>8. i < p
  BY <1>2, <1>3, <1>5, <1>6, <1>7
<1> QED
  BY <1>3, <1>5, <1>8 DEF Earlier

\* A row below that of a message received next.
LEMMA RowBelow ==
  ASSUME NEW es, NEW w, NEW rs, NEW cs, NEW n, Base(es, w, rs, cs, n), Shows(es, w, rs), ~Doomed(es, cs),
         NEW v, NEW f, f.type = "user", NEW p, FrameAt(es, f, p), Gone(es, w, f, p, v),
         NEW x, x.role = f.type, x.id = f.id,
         NEW m \in DOMAIN rs, f.id < rs[m].id, NEW r \in DOMAIN rs, m = r \/ m < r
  PROVE  Earlier(es, x, rs[r])
<1>1. LedgerOK(es, n)
  BY DEF Base
<1>2. DOMAIN es = 1..Len(es)
  BY <1>1, SeqIs DEF LedgerOK
<1>3. p \in DOMAIN es /\ RowAt(es, x, p) /\ f.id = es[p].id /\ Placed(es, x)
  BY DEF FrameAt, RowAt, Placed
<1>4. f.id \in 1..n /\ rs[m].id \in 1..n /\ n \in Nat
  BY <1>1, <1>3, RowNumbers DEF FrameAt, LedgerOK, Speech, Base
<1>5. ASSUME NEW i \in DOMAIN es, RowAt(es, rs[m], i) PROVE p < i
  <2>1. Speech(f)
    BY DEF Speech
  <2>2. ~(i < p)
    <3>1. i < p => rs[m].id < f.id
      BY <1>5, <2>1, RowSide
    <3> QED
      BY <1>4, <3>1
  <2>3. i # p
    <3>1. rs[m].id = es[i].id
      BY <1>5 DEF RowAt
    <3> QED
      BY <1>3, <1>4, <3>1
  <2> QED
    BY <1>2, <1>3, <2>2, <2>3
<1>6. CASE ~Placed(es, rs[r])
  BY <1>3, <1>6 DEF Earlier
<1>7. CASE Placed(es, rs[r])
  <2>1. PICK j \in DOMAIN es : RowAt(es, rs[r], j)
    BY <1>7 DEF Placed
  <2>2. p < j
    <3>1. CASE m = r
      BY <1>5, <2>1, <3>1
    <3>2. CASE m < r
      <4>1. Earlier(es, rs[m], rs[r])
        BY <3>2 DEF Shows, InOrder
      <4>2. PICK k, l \in DOMAIN es : k < l /\ RowAt(es, rs[m], k) /\ RowAt(es, rs[r], l)
        BY <1>7, <4>1 DEF Earlier
      <4>3. l = j
        BY <1>1, <2>1, <4>2, RowOnce
      <4>4. p < k
        BY <1>5, <4>2
      <4> QED
        BY <1>2, <1>3, <4>2, <4>3, <4>4
    <3> QED
      BY <3>1, <3>2
  <2> QED
    BY <1>3, <2>1, <2>2 DEF Earlier
<1> QED
  BY <1>6, <1>7

\* The row of the target has a message below it, and what the last one of these leaves is shown.
CutShown(es, v, rs, target) ==
  /\ \E a \in DOMAIN rs : rs[a].role = "user" /\ rs[a].id = target
  /\ \A m \in DOMAIN rs : rs[m].role = "user" /\ rs[m].id = target =>
       /\ \E r \in DOMAIN rs : m < r /\ rs[r].role = "user"
       /\ \A to \in DOMAIN rs : \A ts : /\ m < to
                                        /\ \A r \in DOMAIN rs : m < r /\ rs[r].role = "user" => r <= to
                                        /\ IsCutOut(ts, rs, m, to)
                                        => Shows(es, v, ts)

\* The rows that finalized leaves.
LEMMA FinalSeen ==
  ASSUME NEW es, NEW w, NEW rs, NEW cs, NEW n, Base(es, w, rs, cs, n), Shows(es, w, rs), NEW v, IsTail(v, w),
         NEW f, Ends(f), NEW p, FrameAt(es, f, p), Gone(es, w, f, p, v), EndComes(es, w, p), InRows(es, rs, p)
  PROVE  CutShown(es, v, rs, f.target)
<1>0. LedgerOK(es, n) /\ WireOK(es, w) /\ RowsOK(es, rs, cs) /\ IsSeq(rs) /\ InOrder(es, rs)
  BY DEF Base, RowsOK, Shows
<1>1. DOMAIN es = 1..Len(es) /\ Len(es) \in Nat /\ DOMAIN rs = 1..Len(rs) /\ Len(rs) \in Nat
  BY <1>0, SeqIs DEF LedgerOK
<1>2. PICK b : b = p - 1
  OBVIOUS
<1>3. /\ p \in DOMAIN es /\ b \in DOMAIN es /\ p = b + 1 /\ b < p
      /\ Sealed(es, b) /\ es[b].type = "boundary" /\ es[b].target = f.target /\ es[p].type = "user"
  <2>1. p \in DOMAIN es /\ Sealed(es, b) /\ es[b].target = f.target
    BY <1>2 DEF FrameAt, Ends
  <2>2. p \in Nat /\ b + 1 = p
    BY <1>1, <1>2, <2>1
  <2> QED
    BY <1>1, <2>1, <2>2 DEF Sealed
<1>4. PICK s \in DOMAIN es : /\ s < b /\ es[s].type = "user" /\ es[s].id = f.target
                             /\ \A c \in DOMAIN es : c < b /\ Sealed(es, c) => ~Covers(es, c, s)
  BY <1>0, <1>3 DEF LedgerOK, Aims
<1>5. \A i \in DOMAIN es : /\ i < p => ~Comes(es, w, i)
                           /\ ~(i < p) => Comes(es, w, i)
  <2>1. \A i \in DOMAIN es : i < p \/ i = p \/ p < i
    BY <1>1, <1>3
  <2> QED
    BY <1>1, <2>1 DEF Gone
<1>6. ASSUME NEW c \in DOMAIN es, Sealed(es, c), ~(c < b) PROVE EndComes(es, w, c + 1)
  <2>1. PICK k : k = c + 1
    OBVIOUS
  <2>2. k \in DOMAIN es /\ k - 1 = c /\ (k = p \/ p < k)
    BY <1>1, <1>3, <1>6, <2>1 DEF Sealed
  <2>3. EndComes(es, w, k)
    BY <1>6, <2>2 DEF Gone
  <2> QED
    BY <2>1, <2>3
<1>7. InRows(es, rs, s)
  <2>1. ~Hidden(es, w, s)
    BY <1>4, <1>6 DEF Hidden
  <2>2. s < p
    BY <1>1, <1>3, <1>4
  <2> QED
    BY <1>4, <1>5, <2>1, <2>2 DEF Shows, AllShown, Speech
<1>8. \E a \in DOMAIN rs : rs[a].role = "user" /\ rs[a].id = f.target
  BY <1>4, <1>7 DEF InRows, RowAt
<1>9. PICK z \in DOMAIN rs : RowAt(es, rs[z], p)
  BY DEF InRows
<1>10. ASSUME NEW m \in DOMAIN rs, rs[m].role = "user", rs[m].id = f.target
       PROVE  RowAt(es, rs[m], s) /\ m < z /\ rs[z].role = "user"
  <2>1. RowAt(es, rs[m], s)
    BY <1>4, <1>10 DEF RowAt
  <2>2. m # z
    <3>1. m = z => s = p
      BY <1>0, <1>9, <2>1, RowOnce
    <3> QED
      BY <1>1, <1>3, <1>4, <3>1
  <2>3. ~(z < m)
    <3>1. z < m => p < s
      BY <1>0, <1>9, <2>1, PlacedOrder
    <3> QED
      BY <1>1, <1>3, <1>4, <3>1
  <2>4. rs[z].role = "user"
    BY <1>3, <1>9 DEF RowAt
  <2> QED
    BY <1>1, <2>1, <2>2, <2>3, <2>4
<1>11. ASSUME NEW m \in DOMAIN rs, rs[m].role = "user", rs[m].id = f.target,
              NEW to \in DOMAIN rs, m < to, \A r \in DOMAIN rs : m < r /\ rs[r].role = "user" => r <= to,
              NEW ts, IsCutOut(ts, rs, m, to)
       PROVE  Shows(es, v, ts)
  <2>1. RowAt(es, rs[m], s) /\ m < z /\ z <= to
    BY <1>10, <1>11
  <2>2. /\ \A r \in DOMAIN ts : \E q \in DOMAIN rs : ts[r] = rs[q] /\ (q < m \/ to <= q)
        /\ \A q \in DOMAIN rs : q < m \/ to <= q => \E r \in DOMAIN ts : ts[r] = rs[q]
        /\ InOrder(es, ts)
    <3>1. to \in Nat /\ to <= Len(rs) + 1
      BY <1>1
    <3> QED
      BY <1>0, <1>11, <3>1, RowsLose
  <2>3. \A i : InRows(es, ts, i) => InRows(es, rs, i)
    BY <2>2 DEF InRows
  <2>4. ASSUME NEW i \in DOMAIN es, i < p PROVE InRows(es, ts, i) <=> InRows(es, rs, i) /\ i < s
    <3>1. ASSUME InRows(es, ts, i) PROVE i < s
      <4>1. PICK q \in DOMAIN rs : RowAt(es, rs[q], i) /\ (q < m \/ to <= q)
        BY <2>2, <3>1 DEF InRows
      <4>2. CASE q < m
        BY <1>0, <2>1, <4>1, <4>2, PlacedOrder
      <4>3. CASE to <= q
        <5>1. z = q \/ z < q
          BY <1>1, <2>1, <4>3
        <5>2. z = q => p = i
          BY <1>0, <1>9, <4>1, RowOnce
        <5>3. z < q => p < i
          BY <1>0, <1>9, <4>1, PlacedOrder
        <5> QED
          BY <1>1, <1>3, <2>4, <5>1, <5>2, <5>3
      <4> QED
        BY <4>1, <4>2, <4>3
    <3>2. ASSUME InRows(es, rs, i), i < s PROVE InRows(es, ts, i)
      <4>1. PICK q \in DOMAIN rs : RowAt(es, rs[q], i)
        BY <3>2 DEF InRows
      <4>2. q # m
        <5>1. q = m => i = s
          BY <1>0, <2>1, <4>1, RowOnce
        <5> QED
          BY <1>1, <3>2, <5>1
      <4>3. ~(m < q)
        <5>1. m < q => s < i
          BY <1>0, <2>1, <4>1, PlacedOrder
        <5> QED
          BY <1>1, <3>2, <5>1
      <4>4. q < m
        BY <1>1, <4>2, <4>3
      <4>5. PICK r \in DOMAIN ts : ts[r] = rs[q]
        BY <2>2, <4>4
      <4> QED
        BY <4>1, <4>5 DEF InRows
    <3> QED
      BY <2>3, <3>1, <3>2
  <2>5. /\ \A i \in DOMAIN es : Comes(es, v, i) <=> Comes(es, w, i)
        /\ \A i \in DOMAIN es : EndComes(es, v, i) <=> EndComes(es, w, i) /\ i # p
    BY DEF Gone
  <2>6. ASSUME NEW i \in DOMAIN es, i < p PROVE Hidden(es, v, i) <=> Hidden(es, w, i) \/ ~(i < s)
    <3>1. Covers(es, b, i) <=> ~(i < s)
      <4>1. i <= b
        BY <1>1, <1>3, <2>6
      <4>2. \A k \in DOMAIN es : es[k].type = "user" /\ es[k].id = f.target <=> k = s
        BY <1>0, <1>4 DEF LedgerOK
      <4>3. Covers(es, b, i) <=> s <= i
        BY <1>3, <4>1, <4>2 DEF Covers
      <4> QED
        BY <1>1, <4>3
    <3>2. ~EndComes(es, v, b + 1)
      BY <1>3, <2>5
    <3>3. \A c \in DOMAIN es : Sealed(es, c) /\ c # b => (EndComes(es, v, c + 1) <=> EndComes(es, w, c + 1))
      <4>1. \A c \in DOMAIN es : c # b => c + 1 # p
        BY <1>1, <1>3
      <4> QED
        BY <2>5, <4>1 DEF Sealed
    <3>4. EndComes(es, w, b + 1)
      BY <1>3
    <3> QED
      BY <1>3, <3>1, <3>2, <3>3, <3>4 DEF Hidden
  <2>7. AllShown(es, v, ts)
    <3> SUFFICES ASSUME NEW i \in DOMAIN es, Speech(es[i])
                 PROVE  IF Comes(es, v, i) THEN es[i].type = "reply" => ~InRows(es, ts, i)
                        ELSE InRows(es, ts, i) <=> ~Hidden(es, v, i)
      BY DEF AllShown
    <3>1. CASE i < p
      <4>1. ~Comes(es, v, i) /\ (InRows(es, rs, i) <=> ~Hidden(es, w, i))
        BY <1>5, <2>5, <3>1 DEF Shows, AllShown
      <4> QED
        BY <2>4, <2>6, <3>1, <4>1
    <3>2. CASE ~(i < p)
      <4>1. Comes(es, w, i) /\ Comes(es, v, i)
        BY <1>5, <2>5, <3>2
      <4> QED
        BY <2>3, <4>1 DEF Shows, AllShown
    <3> QED
      BY <3>1, <3>2
  <2>8. Numbered(es, v)
    BY <2>5 DEF Shows, Numbered
  <2> QED
    BY <2>2, <2>7, <2>8 DEF Shows
<1> QED
  BY <1>8, <1>10, <1>11 DEF CutShown

-------------------------------------------------------------------------------
(* The steps. *)

IndexStays(cs, ds) == AsksIndex(cs) => AsksIndex(ds)

\* The requests change, without the messages among them and the reads of the index.
LEMMA CallsChange ==
  ASSUME NEW es, NEW w, NEW rs, NEW cs, NEW n, Base(es, w, rs, cs, n), NEW ds, SendsStay(cs, ds),
         IndexStays(cs, ds), NEW p
  PROVE  /\ Base(es, w, rs, ds, n) /\ (Doomed(es, cs) => Doomed(es, ds))
         /\ Agreed(es, w, rs, p, cs) => Agreed(es, w, rs, p, ds)
<1>1. Base(es, w, rs, ds, n) /\ (Doomed(es, cs) => Doomed(es, ds))
  BY OthersChange
<1>2. ASSUME Agreed(es, w, rs, p, cs) PROVE Agreed(es, w, rs, p, ds)
  BY <1>2 DEF Agreed, Told, IndexStays, AsksIndex
<1> QED
  BY <1>1, <1>2

RewindInv == /\ sent <= MaxMsgs /\ Base(ledger, wire, rows, calls, sent)
             /\ muddled = {} /\ ~Doomed(ledger, calls) => Agreed(ledger, wire, rows, pend, calls)

\* A message is rewound.
LEMMA RewoundKept ==
  ASSUME RewindInv, NEW msg, R!Rewound(msg)
  PROVE  /\ Base(ledger', wire', rows, calls, sent) /\ (Doomed(ledger, calls) => Doomed(ledger', calls))
         /\ Agreed(ledger, wire, rows, pend, calls) => Agreed(ledger', wire', rows, pend, calls)
<1>0. Base(ledger, wire, rows, calls, sent) /\ LedgerOK(ledger, sent) /\ IsSeq(ledger) /\ IsSeq(wire) /\ sent \in Nat
  BY DEF RewindInv, Base, LedgerOK, WireOK
<1>1. PICK e : e = R!Event("boundary", R!Boundaries + 1, msg)
  OBVIOUS
<1>2. PICK f : f = R!Event("done", R!Boundaries + 1, msg)
  OBVIOUS
<1>3. PICK t : t = ledger'
  OBVIOUS
<1>4. PICK v : v = wire'
  OBVIOUS
<1>5. IsGrown(t, ledger, e) /\ IsGrown(v, wire, f)
  BY <1>1, <1>2, <1>3, <1>4 DEF R!Rewound, IsGrown
<1>6. /\ e.type = "boundary" /\ e.id = R!Boundaries + 1 /\ e.target = msg
      /\ f.type = "done" /\ f.id = R!Boundaries + 1 /\ f.target = msg
  BY <1>1, <1>2 DEF R!Event
<1>7. R!Boundaries = Cardinality(BoundariesOf(ledger))
  BY DEF R!Boundaries, BoundariesOf, R!Cardinality, Cardinality
<1>8. Pending(ledger) = None
  BY <1>0, PendingIs DEF R!Rewound
<1>9. PICK i \in DOMAIN ledger : ledger[i].type = "user" /\ ledger[i].id = msg /\ ~R!Dropped(ledger, None, i)
  BY DEF R!Rewound
<1>10. \A b \in DOMAIN ledger : Sealed(ledger, b) => ~Covers(ledger, b, i)
  BY <1>0, <1>8, <1>9, DroppedIs
<1>11. <<e.id, e.target>> # None
  <2>1. msg \in 1..sent
    BY <1>0, <1>9 DEF LedgerOK, Speech
  <2>2. msg \in 1..MaxMsgs
    BY <1>0, <2>1, RewindAssumption DEF RewindInv
  <2>3. R!Boundaries \in Nat
    BY <1>0, <1>7, FS_CardinalityType DEF LedgerOK
  <2>4. R!Boundaries < MaxRewinds
    BY DEF R!Rewound
  <2>5. R!Boundaries + 1 \in 1..MaxRewinds
    BY <2>3, <2>4, RewindAssumption
  <2> QED
    BY <1>6, <2>2, <2>5, RewindAssumption
<1>12. Fits(ledger, e, sent)
  BY <1>6, <1>7, <1>8, <1>9, <1>10, <1>11 DEF Fits
<1>13. FrameAt(t, f, Len(ledger) + 1)
  <2>1. Len(ledger) + 1 \in DOMAIN t /\ t[Len(ledger) + 1] = e
    BY <1>0, <1>5, Grown
  <2> QED
    BY <1>6, <2>1 DEF FrameAt
<1>14. /\ Base(t, v, rows, calls, sent) /\ (Doomed(ledger, calls) => Doomed(t, calls))
       /\ Agreed(ledger, wire, rows, pend, calls) => Agreed(t, v, rows, pend, calls)
  BY <1>0, <1>5, <1>6, <1>12, <1>13, RewindLogged
<1> QED
  BY <1>3, <1>4, <1>14

LEMMA UndoneKept ==
  ASSUME RewindInv, NEW b, R!Undone(b)
  PROVE  /\ Base(ledger', wire', rows, calls, sent) /\ (Doomed(ledger, calls) => Doomed(ledger', calls))
         /\ Agreed(ledger, wire, rows, pend, calls) => Agreed(ledger', wire', rows, pend, calls)
<1>0. Base(ledger, wire, rows, calls, sent) /\ LedgerOK(ledger, sent) /\ IsSeq(ledger) /\ IsSeq(wire) /\ sent \in Nat
  BY DEF RewindInv, Base, LedgerOK, WireOK
<1>1. PICK e : e = R!Event("cancel", b, None)
  OBVIOUS
<1>2. PICK f : f = R!Event("cancelled", b, None)
  OBVIOUS
<1>3. PICK t : t = ledger'
  OBVIOUS
<1>4. PICK v : v = wire'
  OBVIOUS
<1>5. IsGrown(t, ledger, e) /\ IsGrown(v, wire, f)
  BY <1>1, <1>2, <1>3, <1>4 DEF R!Undone, IsGrown
<1>6. e.type = "cancel" /\ e.id = b /\ f.type = "cancelled" /\ f.id = b
  BY <1>1, <1>2 DEF R!Event
<1>8. Pending(ledger) # None /\ Pending(ledger)[1] = b
  BY <1>0, PendingIs DEF R!Undone, R!Pends
<1>12. Fits(ledger, e, sent)
  BY <1>6, <1>8 DEF Fits, Pending
<1>13. FrameAt(t, f, Len(ledger) + 1)
  <2>1. Len(ledger) + 1 \in DOMAIN t /\ t[Len(ledger) + 1] = e
    BY <1>0, <1>5, Grown
  <2> QED
    BY <1>6, <2>1 DEF FrameAt
<1>14. /\ Base(t, v, rows, calls, sent) /\ (Doomed(ledger, calls) => Doomed(t, calls))
       /\ Agreed(ledger, wire, rows, pend, calls) => Agreed(t, v, rows, pend, calls)
  BY <1>0, <1>5, <1>6, <1>12, <1>13, RewindLogged
<1> QED
  BY <1>3, <1>4, <1>14

\* A message is logged, with the event e and the frames that announce it.
LEMMA LoggedKept ==
  ASSUME RewindInv, NEW msg, R!Logged(msg), NEW f, f = R!Event("user", msg, None)
  PROVE  /\ IsGrown(ledger', ledger, f) /\ f.type = "user" /\ f.id = msg
         /\ \E g : Announces(ledger, f, g, wire, wire')
<1>0. Base(ledger, wire, rows, calls, sent) /\ LedgerOK(ledger, sent) /\ IsSeq(ledger) /\ IsSeq(wire) /\ sent \in Nat
  BY DEF RewindInv, Base, LedgerOK, WireOK
<1>1. IsGrown(ledger', ledger, f) /\ f.type = "user" /\ f.id = msg
  BY DEF R!Logged, IsGrown, R!Event
<1>2. R!FindPendingRewind(ledger) = Pending(ledger)
  BY <1>0, PendingIs
<1>3. CASE Pending(ledger) = None
  <2>1. wire' = wire \o Append(<<>>, f)
    BY <1>2, <1>3 DEF R!Logged
  <2>2. wire' = Append(wire, f)
    BY <1>0, <2>1 DEF IsSeq
  <2> QED
    BY <1>1, <1>3, <2>2 DEF Announces, IsGrown
<1>4. CASE Pending(ledger) # None
  <2>1. PICK g : g = R!Event("finalized", Pending(ledger)[1], Pending(ledger)[2])
    OBVIOUS
  <2>2. wire' = wire \o Append(<<g>>, f)
    BY <1>2, <1>4, <2>1 DEF R!Logged
  <2>3. PICK u : u = Append(wire, g)
    OBVIOUS
  <2>4. wire' = Append(u, f)
    BY <1>0, <2>2, <2>3 DEF IsSeq
  <2>5. Ends(g) /\ g.id = Pending(ledger)[1] /\ g.target = Pending(ledger)[2]
    BY <2>1 DEF Ends, R!Event
  <2>6. Pending(ledger) = <<g.id, g.target>>
    BY <1>4, <2>5 DEF Pending
  <2> QED
    BY <1>1, <1>4, <2>3, <2>4, <2>5, <2>6 DEF Announces, IsGrown
<1> QED
  BY <1>1, <1>3, <1>4

LEMMA RepliesKept ==
  ASSUME RewindInv, R!Replies PROVE RewindInv'
<1>0. Base(ledger, wire, rows, calls, sent) /\ LedgerOK(ledger, sent) /\ IsSeq(ledger) /\ IsSeq(wire) /\ sent \in Nat
  BY DEF RewindInv, Base, LedgerOK, WireOK
<1>1. PICK e : e = R!Event("reply", R!Last(ledger).id, None)
  OBVIOUS
<1>2. ledger[Len(ledger)].type = "user" /\ R!Last(ledger) = ledger[Len(ledger)] /\ Len(ledger) > 0
  BY <1>0, SeqIs DEF R!Replies, R!Last
<1>3. IsGrown(ledger', ledger, e) /\ IsGrown(wire', wire, e)
  BY <1>1 DEF R!Replies, IsGrown, R!Last
<1>4. e.type = "reply" /\ e.id = ledger[Len(ledger)].id
  BY <1>1, <1>2 DEF R!Event
<1>5. Fits(ledger, e, sent)
  BY <1>2, <1>4 DEF Fits
<1>6. PICK t : t = ledger'
  OBVIOUS
<1>7. PICK v : v = wire'
  OBVIOUS
<1>8. /\ Base(t, v, rows, calls, sent) /\ (Doomed(ledger, calls) => Doomed(t, calls))
      /\ Agreed(ledger, wire, rows, pend, calls) => Agreed(t, v, rows, pend, calls)
  BY <1>0, <1>3, <1>4, <1>5, <1>6, <1>7, ReplyLogged
<1>9. UNCHANGED <<sent, rows, pend, calls, muddled>>
  BY DEF R!Replies
<1> QED
  BY <1>6, <1>7, <1>8, <1>9 DEF RewindInv

LEMMA ForeignSendKept ==
  ASSUME RewindInv, R!ForeignSend PROVE RewindInv'
<1>0. Base(ledger, wire, rows, calls, sent) /\ LedgerOK(ledger, sent) /\ IsSeq(ledger) /\ IsSeq(wire) /\ sent \in Nat
  BY DEF RewindInv, Base, LedgerOK, WireOK
<1>1. PICK m : m = sent + 1
  OBVIOUS
<1>2. /\ sent' = m /\ R!Logged(m) /\ sent < MaxMsgs
      /\ UNCHANGED <<rows, pend, calls, muddled>>
  BY <1>1 DEF R!ForeignSend, R!PageRest
<1>3. PICK f : f = R!Event("user", m, None)
  OBVIOUS
<1>4. /\ IsGrown(ledger', ledger, f) /\ f.type = "user" /\ f.id = m
      /\ \E g : Announces(ledger, f, g, wire, wire')
  BY <1>2, <1>3, LoggedKept
<1>6. PICK t : t = ledger'
  OBVIOUS
<1>7. PICK v : v = wire'
  OBVIOUS
<1>5. PICK g : Announces(ledger, f, g, wire, v)
  BY <1>4, <1>7
<1>8. /\ Base(t, v, rows, calls, m) /\ (Doomed(ledger, calls) => Doomed(t, calls))
      /\ Agreed(ledger, wire, rows, pend, calls) => Agreed(t, v, rows, pend, calls)
  BY <1>0, <1>1, <1>4, <1>5, <1>6, ForeignLogged
<1>9. m <= MaxMsgs
  BY <1>0, <1>1, <1>2, RewindAssumption
<1> QED
  BY <1>2, <1>6, <1>7, <1>8, <1>9 DEF RewindInv

LEMMA ForeignRewindKept ==
  ASSUME RewindInv, NEW msg, R!ForeignRewind(msg) PROVE RewindInv'
<1>1. R!Rewound(msg) /\ UNCHANGED <<sent, rows, pend, calls, muddled>>
  BY DEF R!ForeignRewind, R!PageRest
<1>2. /\ Base(ledger', wire', rows, calls, sent) /\ (Doomed(ledger, calls) => Doomed(ledger', calls))
      /\ Agreed(ledger, wire, rows, pend, calls) => Agreed(ledger', wire', rows, pend, calls)
  BY <1>1, RewoundKept
<1> QED
  BY <1>1, <1>2 DEF RewindInv

LEMMA ForeignRedoKept ==
  ASSUME RewindInv, NEW b, R!ForeignRedo(b) PROVE RewindInv'
<1>1. R!Undone(b) /\ UNCHANGED <<sent, rows, pend, calls, muddled>>
  BY DEF R!ForeignRedo, R!PageRest
<1>2. /\ Base(ledger', wire', rows, calls, sent) /\ (Doomed(ledger, calls) => Doomed(ledger', calls))
      /\ Agreed(ledger, wire, rows, pend, calls) => Agreed(ledger', wire', rows, pend, calls)
  BY <1>1, UndoneKept
<1> QED
  BY <1>1, <1>2 DEF RewindInv

LEMMA HandleKept ==
  ASSUME RewindInv, NEW c \in calls, NEW answer \in {"ok", "refused"}, R!Handle(c, answer) PROVE RewindInv'
<1>0. Base(ledger, wire, rows, calls, sent) /\ LedgerOK(ledger, sent) /\ IsSeq(ledger) /\ IsSeq(wire) /\ sent \in Nat
      /\ \A x \in calls : CallForm(x)
  BY DEF RewindInv, Base, LedgerOK, WireOK, SendsOK
<1>1. c.answer = None /\ CallForm(c) /\ answer # None
  BY <1>0, RewindAssumption DEF R!Handle
<1>2. PICK d : d = [c EXCEPT !.answer = answer, !.read = R!FindPendingRewind(ledger)]
  OBVIOUS
<1>3. CallForm(d) /\ d.kind = c.kind /\ d.arg = c.arg /\ d.answer # None
  BY <1>1, <1>2 DEF CallForm
<1>4. PICK ds : ds = (calls \ {c}) \cup {d}
  OBVIOUS
<1>5. calls' = ds /\ UNCHANGED <<sent, rows, pend>> /\ muddled \subseteq muddled'
  BY <1>2, <1>4 DEF R!Handle
<1>6. IndexStays(calls, ds)
  BY <1>3, <1>4 DEF IndexStays, AsksIndex
<1>7. CASE c.kind = "send"
  <2>1. R!Logged(c.arg)
    BY <1>7 DEF R!Handle
  <2>2. PICK f : f = R!Event("user", c.arg, None)
    OBVIOUS
  <2>3. /\ IsGrown(ledger', ledger, f) /\ f.type = "user" /\ f.id = c.arg
        /\ \E g : Announces(ledger, f, g, wire, wire')
    BY <2>1, <2>2, LoggedKept
  <2>4. PICK t : t = ledger'
    OBVIOUS
  <2>5. PICK v : v = wire'
    OBVIOUS
  <2>6. PICK g : Announces(ledger, f, g, wire, v)
    BY <2>3, <2>5
  <2>7. /\ Base(t, v, rows, ds, sent)
        /\ ~Overtaken(ledger, c.arg) /\ Doomed(ledger, calls) => Doomed(t, ds)
        /\ ~Overtaken(ledger, c.arg) /\ ~Doomed(t, ds) /\ Agreed(ledger, wire, rows, pend, calls)
             => Agreed(t, v, rows, pend, ds)
    BY <1>0, <1>1, <1>3, <1>4, <1>7, <2>3, <2>4, <2>6, OwnLogged DEF Send
  <2>8. Overtaken(ledger, c.arg) => muddled' # {}
    BY <1>7 DEF R!Handle, R!Crossed, Overtaken
  <2> QED
    BY <1>5, <2>4, <2>5, <2>7, <2>8 DEF RewindInv
<1>8. CASE c.kind # "send"
  <2>1. SendsStay(calls, ds)
    BY <1>0, <1>3, <1>4, <1>8 DEF SendsStay, Send
  <2>2. ASSUME NEW t, NEW v, t = ledger', v = wire', Base(t, v, rows, calls, sent),
               Doomed(ledger, calls) => Doomed(t, calls),
               Agreed(ledger, wire, rows, pend, calls) => Agreed(t, v, rows, pend, calls)
        PROVE  RewindInv'
    <3>1. /\ Base(t, v, rows, ds, sent) /\ (Doomed(t, calls) => Doomed(t, ds))
          /\ Agreed(t, v, rows, pend, calls) => Agreed(t, v, rows, pend, ds)
      BY <1>6, <2>1, <2>2, CallsChange
    <3> QED
      BY <1>5, <2>2, <3>1 DEF RewindInv
  <2>3. \/ R!Rewound(c.arg) \/ R!Undone(c.arg) \/ UNCHANGED <<ledger, wire>>
    BY <1>8 DEF R!Handle
  <2>4. CASE R!Rewound(c.arg)
    BY <2>2, <2>4, RewoundKept
  <2>5. CASE R!Undone(c.arg)
    BY <2>2, <2>5, UndoneKept
  <2>6. CASE UNCHANGED <<ledger, wire>>
    BY <1>0, <2>2, <2>6
  <2> QED
    BY <2>3, <2>4, <2>5, <2>6
<1> QED
  BY <1>7, <1>8

\* The page asks, or takes an answer, and leaves the rows.
LEMMA CallsKept ==
  ASSUME RewindInv, UNCHANGED <<ledger, wire, rows, sent>>, muddled \subseteq muddled', NEW ds, ds = calls',
         SendsStay(calls, ds),
         muddled' = {} /\ Told(Pending(ledger), wire, pend, calls) => Told(Pending(ledger), wire, pend', ds)
  PROVE  RewindInv'
<1>1. Base(ledger, wire, rows, calls, sent)
  BY DEF RewindInv
<1>2. Base(ledger, wire, rows, ds, sent) /\ (Doomed(ledger, calls) => Doomed(ledger, ds))
  BY <1>1, OthersChange
<1>3. ASSUME muddled' = {}, Agreed(ledger, wire, rows, pend, calls) PROVE Agreed(ledger, wire, rows, pend', ds)
  BY <1>3 DEF Agreed
<1> QED
  BY <1>2, <1>3 DEF RewindInv

\* No request changes, one is made, or one is answered.
LEMMA CallForms ==
  ASSUME RewindInv
  PROVE  /\ \A c \in calls : CallForm(c)
         /\ \A kind, arg : LET x == R!Call(kind, arg) IN CallForm(x) /\ x.kind = kind /\ x.arg = arg /\ x.answer = None
<1>1. \A c \in calls : CallForm(c)
  BY DEF RewindInv, Base, SendsOK
<1> QED
  BY <1>1 DEF R!Call, CallForm

LEMMA NoneAsked ==
  ASSUME RewindInv, UNCHANGED <<ledger, wire, rows, sent, pend, calls, muddled>>
  PROVE  RewindInv'
BY DEF RewindInv

LEMMA OneAsked ==
  ASSUME RewindInv, UNCHANGED <<ledger, wire, rows, sent, muddled>>, NEW kind, NEW arg, kind # "send",
         calls' = calls \cup {R!Call(kind, arg)}, kind = "index" \/ UNCHANGED pend
  PROVE  RewindInv'
<1>1. PICK x : x = R!Call(kind, arg)
  OBVIOUS
<1>2. CallForm(x) /\ x.kind = kind /\ \A c \in calls : CallForm(c)
  BY <1>1, CallForms
<1>3. PICK ds : ds = calls \cup {x}
  OBVIOUS
<1>4. SendsStay(calls, ds)
  BY <1>2, <1>3 DEF SendsStay, Send
<1>5. ASSUME Told(Pending(ledger), wire, pend, calls) PROVE Told(Pending(ledger), wire, pend', ds)
  <2>1. CASE kind = "index"
    BY <1>2, <1>3, <1>5, <2>1 DEF Told
  <2>2. CASE UNCHANGED pend
    BY <1>3, <1>5, <2>2 DEF Told
  <2> QED
    BY <2>1, <2>2
<1>6. ds = calls'
  BY <1>1, <1>3
<1> QED
  BY <1>4, <1>5, <1>6, CallsKept

LEMMA OneAnswered ==
  ASSUME RewindInv, UNCHANGED <<ledger, wire, rows, sent, muddled, pend>>, NEW c \in calls, c.answer # None,
         c.kind # "index", calls' = calls \ {c}
  PROVE  RewindInv'
<1>1. \A x \in calls : CallForm(x)
  BY CallForms
<1>2. PICK ds : ds = calls \ {c}
  OBVIOUS
<1>3. SendsStay(calls, ds)
  BY <1>1, <1>2 DEF SendsStay
<1>4. ASSUME Told(Pending(ledger), wire, pend, calls) PROVE Told(Pending(ledger), wire, pend', ds)
  BY <1>2, <1>4 DEF Told
<1> QED
  BY <1>2, <1>3, <1>4, CallsKept

LEMMA RedoAnsweredKept ==
  ASSUME RewindInv, NEW c \in calls, R!RedoAnswered(c) PROVE RewindInv'
<1>1. UNCHANGED <<ledger, wire, rows, sent, muddled>> /\ c.answer # None /\ c.kind = "redo"
  BY DEF R!RedoAnswered
<1>2. CASE calls' = calls \ {c} /\ UNCHANGED pend
  BY <1>1, <1>2, OneAnswered
<1>3. CASE calls' = (calls \ {c}) \cup {R!Call("index", None)}
  <2>1. PICK x : x = R!Call("index", None)
    OBVIOUS
  <2>2. CallForm(x) /\ x.kind = "index" /\ \A y \in calls : CallForm(y)
    BY <2>1, CallForms
  <2>3. PICK ds : ds = (calls \ {c}) \cup {x}
    OBVIOUS
  <2>4. SendsStay(calls, ds)
    BY <1>1, <2>2, <2>3 DEF SendsStay, Send
  <2>5. ASSUME Told(Pending(ledger), wire, pend, calls) PROVE Told(Pending(ledger), wire, pend', ds)
    BY <2>2, <2>3, <2>5 DEF Told
  <2>6. ds = calls'
    BY <1>3, <2>1, <2>3
  <2> QED
    BY <1>1, <2>4, <2>5, <2>6, CallsKept
<1> QED
  BY <1>2, <1>3 DEF R!RedoAnswered

LEMMA IndexAnsweredKept ==
  ASSUME RewindInv, NEW c \in calls, R!IndexAnswered(c) PROVE RewindInv'
<1>1. /\ UNCHANGED <<ledger, wire, rows, sent>> /\ c.answer # None /\ c.kind = "index"
      /\ muddled \subseteq muddled' /\ pend' = c.read
  BY DEF R!IndexAnswered
<1>2. PICK ds : ds = calls \ {c}
  OBVIOUS
<1>3. \A x \in calls : CallForm(x)
  BY CallForms
<1>4. SendsStay(calls, ds)
  BY <1>1, <1>2, <1>3 DEF SendsStay
<1>5. ASSUME muddled' = {} PROVE Told(Pending(ledger), wire, pend', ds)
  <2>1. R!FindPendingRewind(ledger) = Pending(ledger)
    BY PendingIs DEF RewindInv, Base
  <2>2. c.read = Pending(ledger) /\ \A i \in DOMAIN wire : wire[i].type \notin Pendings
    BY <1>5, <2>1 DEF R!IndexAnswered, Pendings
  <2> QED
    BY <1>1, <2>2 DEF Told
<1>6. ds = calls'
  BY <1>2 DEF R!IndexAnswered
<1> QED
  BY <1>1, <1>4, <1>5, <1>6, CallsKept

\* A message is sent, in place of the call c.
LEMMA PushKept ==
  ASSUME RewindInv, R!Push, NEW c, ~Send(c), c.kind # "index",
         calls' = (calls \ {c}) \cup {R!Call("send", sent + 1)}, UNCHANGED <<ledger, wire, pend, muddled>>
  PROVE  RewindInv'
<1>1. Base(ledger, wire, rows, calls, sent) /\ sent \in Nat
  BY DEF RewindInv, Base
<1>2. PICK m : m = sent + 1
  OBVIOUS
<1>3. PICK row : row = [role |-> "user", id |-> m]
  OBVIOUS
<1>4. PICK x : x = R!Call("send", m)
  OBVIOUS
<1>5. CallForm(x) /\ x.kind = "send" /\ x.arg = m /\ x.answer = None
  BY <1>4, CallForms
<1>6. PICK ts : ts = rows'
  OBVIOUS
<1>7. PICK ds : ds = calls'
  OBVIOUS
<1>8. IsGrown(ts, rows, row) /\ RowForm(row) /\ row.role = "user" /\ row.id = m
  BY <1>2, <1>3, <1>6 DEF R!Push, IsGrown, RowForm
<1>11. Replaces(ds, calls, x)
  BY <1>2, <1>4, <1>7 DEF Replaces
<1>9. /\ Base(ledger, wire, ts, ds, m) /\ (Doomed(ledger, calls) => Doomed(ledger, ds))
      /\ Agreed(ledger, wire, rows, pend, calls) => Agreed(ledger, wire, ts, pend, ds)
  BY <1>1, <1>2, <1>5, <1>8, <1>11, Pushed
<1>10. sent' = m /\ m <= MaxMsgs
  BY <1>1, <1>2, RewindAssumption DEF R!Push
<1> QED
  BY <1>6, <1>7, <1>9, <1>10 DEF RewindInv

LEMMA SendKept ==
  ASSUME RewindInv, R!Send PROVE RewindInv'
<1>1. PICK c : c = [kind |-> "none"]
  OBVIOUS
<1>2. c.kind = "none" /\ ~CallForm(c)
  <2>1. DOMAIN c = {"kind"}
    BY <1>1
  <2>2. CallForm(c) => DOMAIN c = {"kind", "arg", "answer", "read"}
    BY DEF CallForm
  <2> QED
    BY <1>1, <2>1, <2>2
<1>3. calls \ {c} = calls
  <2>1. \A x \in calls : CallForm(x)
    BY CallForms
  <2> QED
    BY <1>2, <2>1
<1>4. R!Push /\ calls' = calls \cup {R!Call("send", sent + 1)} /\ UNCHANGED <<ledger, wire, pend, muddled>>
  BY DEF R!Send, R!ServerRest
<1> QED
  BY <1>2, <1>3, <1>4, PushKept DEF Send

LEMMA EditAnsweredKept ==
  ASSUME RewindInv, NEW c \in calls, R!EditAnswered(c) PROVE RewindInv'
<1>1. UNCHANGED <<ledger, wire, pend, muddled>> /\ c.kind = "editRewind" /\ c.answer # None
  BY DEF R!EditAnswered, R!ServerRest
<1>2. CASE R!Push /\ calls' = (calls \ {c}) \cup {R!Call("send", sent + 1)}
  BY <1>1, <1>2, PushKept DEF Send
<1>3. CASE calls' = calls \ {c} /\ UNCHANGED <<sent, rows>>
  BY <1>1, <1>3, OneAnswered
<1> QED
  BY <1>2, <1>3 DEF R!EditAnswered

\* What the page takes from the wire.
LEMMA WireTaken ==
  ASSUME RewindInv, R!Receive, NEW f, f = Head(wire), NEW v, v = wire'
  PROVE  /\ IsTail(v, wire) /\ f = wire[1] /\ IsSeq(wire)
         /\ UNCHANGED <<ledger, sent, calls>>
         /\ WireOK(ledger, v) /\ \E p \in DOMAIN ledger : FrameAt(ledger, f, p) /\ Gone(ledger, wire, f, p, v)
<1>1. LedgerOK(ledger, sent) /\ WireOK(ledger, wire) /\ IsSeq(wire)
  BY DEF RewindInv, Base, WireOK
<1>2. IsTail(v, wire) /\ UNCHANGED <<ledger, sent, calls>>
  BY DEF R!Receive, IsTail
<1>3. f = wire[1]
  BY <1>1, <1>2, TailIs
<1>4. WireOK(ledger, v) /\ \E p \in DOMAIN ledger : FrameAt(ledger, wire[1], p) /\ Gone(ledger, wire, wire[1], p, v)
  BY <1>1, <1>2, WireShrinks
<1> QED
  BY <1>1, <1>2, <1>3, <1>4

LEMMA DoneKept ==
  ASSUME RewindInv, R!Receive, NEW f, f = Head(wire), UNCHANGED <<rows, muddled>>,
         \/ f.type = "done" /\ R!OnDone(f)
         \/ f.type = "cancelled" /\ pend' = None
  PROVE  RewindInv'
<1>1. PICK v : v = wire'
  OBVIOUS
<1>2. IsTail(v, wire) /\ f = wire[1] /\ IsSeq(wire) /\ UNCHANGED <<ledger, sent, calls>>
  BY <1>1, WireTaken
<1>3. Base(ledger, wire, rows, calls, sent)
  BY DEF RewindInv
<1>4. wire[1].type \in {"done", "cancelled"}
  BY <1>2
<1>5. Base(ledger, v, rows, calls, sent) /\ (Shows(ledger, wire, rows) => Shows(ledger, v, rows))
  BY <1>2, <1>3, <1>4, RewindSeen
<1>6. ASSUME Agreed(ledger, wire, rows, pend, calls) PROVE Agreed(ledger, v, rows, pend', calls)
  <2>1. Shows(ledger, wire, rows) /\ Told(Pending(ledger), wire, pend, calls)
    BY <1>6 DEF Agreed
  <2>2. ASSUME Pending(ledger) = Says(wire[1]) PROVE pend' = Pending(ledger)
    <3>1. CASE f.type = "cancelled"
      BY <1>2, <2>2, <3>1 DEF Says
    <3>2. CASE f.type = "done"
      <4>1. Pending(ledger) = <<wire[1].id, wire[1].target>>
        BY <1>2, <2>2, <3>2 DEF Says
      <4>2. \E r \in DOMAIN rows : rows[r].role = "user" /\ rows[r].id = wire[1].target
        BY <1>2, <1>3, <2>1, <3>2, <4>1, DoneSeen
      <4>3. pend' = <<f.id, f.target>>
        BY <1>2, <3>2, <4>2 DEF R!OnDone, R!Has
      <4> QED
        BY <1>2, <4>1, <4>3
    <3> QED
      BY <3>1, <3>2
  <2>3. wire[1].type \in Pendings
    BY <1>4 DEF Pendings
  <2>4. PICK z : z = pend'
    OBVIOUS
  <2>5. Told(Pending(ledger), v, z, calls)
    BY <1>2, <2>1, <2>2, <2>3, <2>4, ToldTail
  <2> QED
    BY <1>5, <2>1, <2>4, <2>5 DEF Agreed
<1> QED
  BY <1>1, <1>2, <1>5, <1>6 DEF RewindInv

\* The rows that finalized leaves, and the case they were observed in.
LEMMA CutRows ==
  ASSUME RewindInv, NEW target, NEW ts, ts = R!Cut(target)
  PROVE  \/ ts = rows /\ \A a \in DOMAIN rows : ~(rows[a].role = "user" /\ rows[a].id = target)
         \/ \E m \in DOMAIN rows, to \in Nat :
              /\ rows[m].role = "user" /\ rows[m].id = target
              /\ m < to /\ to <= Len(rows) + 1 /\ IsCutOut(ts, rows, m, to)
              /\ \A r \in DOMAIN rows : m < r /\ rows[r].role = "user" => to \in DOMAIN rows /\ r <= to
<1>0. IsSeq(rows)
  BY DEF RewindInv, Base, RowsOK
<1>1. Len(rows) \in Nat /\ DOMAIN rows = 1..Len(rows)
  BY <1>0, SeqIs
<1>2. PICK heads : heads = {i \in DOMAIN rows : rows[i].role = "user" /\ rows[i].id = target}
  OBVIOUS
<1>3. PICK m : m = R!Min(heads)
  OBVIOUS
<1>4. PICK later : later = {i \in DOMAIN rows : rows[i].role = "user" /\ i > m}
  OBVIOUS
<1>5. PICK to : to = IF later = {} THEN Len(rows) + 1 ELSE R!Max(later)
  OBVIOUS
<1>6. ts = IF heads = {} THEN rows ELSE SubSeq(rows, 1, m - 1) \o SubSeq(rows, to, Len(rows))
  BY <1>2, <1>3, <1>4, <1>5 DEF R!Cut
<1>7. CASE heads = {}
  BY <1>2, <1>6, <1>7
<1>8. CASE heads # {}
  <2>1. m \in heads
    <3>1. heads \subseteq Nat
      BY <1>1, <1>2
    <3> QED
      BY <1>3, <1>8, <3>1, MinIs
  <2>2. later \subseteq 1..Len(rows)
    BY <1>1, <1>4
  <2>3. m \in DOMAIN rows /\ rows[m].role = "user" /\ rows[m].id = target /\ IsCutOut(ts, rows, m, to)
    BY <1>2, <1>6, <1>8, <2>1 DEF IsCutOut
  <2>4. CASE later = {}
    BY <1>1, <1>4, <1>5, <2>3, <2>4
  <2>5. CASE later # {}
    <3>1. to \in later /\ \A y \in later : to >= y
      BY <1>1, <1>5, <2>2, <2>5, MaxIs
    <3> QED
      BY <1>1, <1>4, <2>2, <2>3, <3>1
  <2> QED
    BY <2>4, <2>5
<1> QED
  BY <1>7, <1>8

LEMMA FinalizedKept ==
  ASSUME RewindInv, R!Receive, NEW f, f = Head(wire), f.type = "finalized", R!OnFinalized(f)
  PROVE  RewindInv'
<1>1. PICK v : v = wire'
  OBVIOUS
<1>2. /\ IsTail(v, wire) /\ f = wire[1] /\ IsSeq(wire) /\ UNCHANGED <<ledger, sent, calls>> /\ WireOK(ledger, v)
      /\ \E p \in DOMAIN ledger : FrameAt(ledger, f, p) /\ Gone(ledger, wire, f, p, v)
  BY <1>1, WireTaken
<1>3. PICK p \in DOMAIN ledger : FrameAt(ledger, f, p) /\ Gone(ledger, wire, f, p, v)
  BY <1>2
<1>4. Base(ledger, wire, rows, calls, sent) /\ LedgerOK(ledger, sent) /\ IsSeq(rows) /\ IsSeq(ledger)
      /\ RowsOK(ledger, rows, calls)
  BY DEF RewindInv, Base, RowsOK, LedgerOK
<1>5. PICK ts : ts = rows'
  OBVIOUS
<1>6. ts = R!Cut(f.target) /\ pend' = None /\ muddled' = muddled \cup IF R!Observed(f) THEN {"observed"} ELSE {}
  BY <1>5 DEF R!OnFinalized
<1>7. \/ ts = rows /\ \A a \in DOMAIN rows : ~(rows[a].role = "user" /\ rows[a].id = f.target)
      \/ \E m \in DOMAIN rows, to \in Nat :
           /\ rows[m].role = "user" /\ rows[m].id = f.target
           /\ m < to /\ to <= Len(rows) + 1 /\ IsCutOut(ts, rows, m, to)
           /\ \A r \in DOMAIN rows : m < r /\ rows[r].role = "user" => to \in DOMAIN rows /\ r <= to
  BY <1>6, CutRows
<1>8. RowsOK(ledger, ts, calls)
  <2>1. CASE ts = rows
    BY <1>4, <2>1
  <2>2. CASE \E m \in DOMAIN rows, to \in Nat : m < to /\ to <= Len(rows) + 1 /\ IsCutOut(ts, rows, m, to)
    <3>1. PICK m \in DOMAIN rows, to \in Nat : m < to /\ to <= Len(rows) + 1 /\ IsCutOut(ts, rows, m, to)
      BY <2>2
    <3>2. IsSeq(ts) /\ \A r \in DOMAIN ts : \E q \in DOMAIN rows : ts[r] = rows[q] /\ (q < m \/ to <= q)
      <4>1. IsSeq(rows)
        BY <1>4 DEF RowsOK
      <4> QED
        BY <3>1, <4>1, RowsLose
    <3> QED
      BY <1>4, <3>2 DEF RowsOK
  <2> QED
    BY <1>7, <2>1, <2>2
<1>9. Base(ledger, v, ts, calls, sent)
  BY <1>2, <1>4, <1>8 DEF Base
<1>10. ASSUME Agreed(ledger, wire, rows, pend, calls), ~R!Observed(f) PROVE Agreed(ledger, v, ts, pend', calls)
  <2>1. Shows(ledger, wire, rows) /\ Told(Pending(ledger), wire, pend, calls)
    BY <1>10 DEF Agreed
  <2>2. Told(Pending(ledger), v, pend', calls)
    <3>1. wire[1].type \in Pendings /\ Says(wire[1]) = None
      BY <1>2 DEF Pendings, Says
    <3>2. PICK z : z = pend'
      OBVIOUS
    <3>3. Pending(ledger) = Says(wire[1]) => z = Pending(ledger)
      BY <1>6, <3>1, <3>2
    <3>4. Told(Pending(ledger), v, z, calls)
      BY <1>2, <2>1, <3>1, <3>3, ToldTail
    <3> QED
      BY <3>2, <3>4
  <2>3. Ends(f)
    BY DEF Ends
  <2>4. EndComes(ledger, wire, p)
    BY <1>2, <1>3, <2>3, TailIs DEF EndComes
  <2>5. Sealed(ledger, p - 1) /\ ledger[p - 1].id = f.id
    BY <1>3 DEF FrameAt
  <2>6. Len(ledger) \in Nat /\ DOMAIN ledger = 1..Len(ledger)
    BY <1>4, SeqIs
  <2>7. PICK next : next = {i \in DOMAIN ledger : ledger[i].type = "user" /\
                              \E b \in 1..(i - 1) : ledger[b].type = "boundary" /\ ledger[b].id = f.id}
    OBVIOUS
  <2>8. p \in next
    BY <2>5, <2>6, <2>7 DEF Sealed
  <2>9. \A i \in next : p <= i
    <3>1. ASSUME NEW i \in next PROVE p <= i
      <4>1. i \in DOMAIN ledger
        BY <2>7
      <4>2. PICK b \in 1..(i - 1) : ledger[b].type = "boundary" /\ ledger[b].id = f.id
        BY <2>7
      <4>3. b \in DOMAIN ledger
        BY <2>6, <4>1
      <4>4. b = p - 1
        BY <1>4, <2>5, <4>2, <4>3 DEF LedgerOK, Sealed
      <4> QED
        BY <2>6, <4>1, <4>4
    <3> QED
      BY <3>1
  <2>10. R!Min(next) = p
    <3>1. next \subseteq Nat /\ next # {}
      BY <2>6, <2>7, <2>8
    <3>2. R!Min(next) \in next /\ \A y \in next : R!Min(next) <= y
      BY <3>1, MinIs
    <3> QED
      BY <2>8, <2>9, <3>1, <3>2
  <2>11. R!Has(ledger[p].id)
    BY <1>10, <2>7, <2>8, <2>10 DEF R!Observed
  <2>12. InRows(ledger, rows, p)
    BY <2>7, <2>8, <2>11 DEF R!Has, InRows, RowAt
  <2>13. CutShown(ledger, v, rows, f.target)
    BY <1>2, <1>3, <1>4, <2>1, <2>3, <2>4, <2>12, FinalSeen
  <2>14. PICK m \in DOMAIN rows, to \in Nat :
           /\ rows[m].role = "user" /\ rows[m].id = f.target
           /\ m < to /\ to <= Len(rows) + 1 /\ IsCutOut(ts, rows, m, to)
           /\ \A r \in DOMAIN rows : m < r /\ rows[r].role = "user" => to \in DOMAIN rows /\ r <= to
    BY <1>7, <2>13 DEF CutShown
  <2>15. to \in DOMAIN rows
    BY <2>13, <2>14 DEF CutShown
  <2>16. Shows(ledger, v, ts)
    BY <2>13, <2>14, <2>15 DEF CutShown
  <2> QED
    BY <2>2, <2>16 DEF Agreed
<1> QED
  BY <1>1, <1>2, <1>5, <1>6, <1>9, <1>10 DEF RewindInv

\* The rows that a message or a reply leaves.
LEMMA SpeechRows ==
  ASSUME RewindInv, R!Receive, NEW f, f = Head(wire), f.type \in {"user", "reply"}, NEW ts, ts = R!Added(f),
         NEW x, x = R!Row(f)
  PROVE  /\ IsSeq(ts)
         /\ \A r \in DOMAIN ts : ts[r] = x \/ \E q \in DOMAIN rows : ts[r] = rows[q]
         /\ \A i : InRows(ledger, ts, i) <=> InRows(ledger, rows, i) \/ RowAt(ledger, x, i)
         /\ ~R!Late(f) /\ ~Doomed(ledger, calls) /\ Shows(ledger, wire, rows) => InOrder(ledger, ts)
<1>1. PICK v : v = wire'
  OBVIOUS
<1>2. /\ IsTail(v, wire) /\ f = wire[1] /\ IsSeq(wire)
      /\ \E p \in DOMAIN ledger : FrameAt(ledger, f, p) /\ Gone(ledger, wire, f, p, v)
  BY <1>1, WireTaken
<1>3. PICK p \in DOMAIN ledger : FrameAt(ledger, f, p) /\ Gone(ledger, wire, f, p, v)
  BY <1>2
<1>4. Base(ledger, wire, rows, calls, sent) /\ LedgerOK(ledger, sent) /\ IsSeq(rows)
  BY DEF RewindInv, Base, RowsOK
<1>5. Len(rows) \in Nat /\ DOMAIN rows = 1..Len(rows)
  BY <1>4, SeqIs
<1>6. x.role = f.type /\ x.id = f.id /\ Speech(f)
  BY DEF R!Row, Speech
<1>7. f.id \in Nat /\ \A r \in DOMAIN rows : rows[r].id \in Nat
  <2>1. f.id \in Nat
    BY <1>3, <1>4 DEF FrameAt, LedgerOK, Speech
  <2> QED
    BY <1>4, <2>1, RowNumbers
<1>8. PICK later : later = {i \in DOMAIN rows : rows[i].id > f.id}
  OBVIOUS
<1>9. ts = IF f.type = "user" /\ R!Has(f.id) THEN rows
           ELSE IF f.type = "reply" \/ later = {} THEN Append(rows, x)
           ELSE R!InsertAt(rows, R!Min(later), x)
  BY <1>8 DEF R!Added
<1>10. ASSUME NEW r \in DOMAIN rows, Shows(ledger, wire, rows), f.type = "reply" \/ ~R!Has(f.id)
       PROVE  ~RowAt(ledger, rows[r], p)
  <2>1. CASE f.type = "reply"
    <3>1. ledger[p].type = "reply" /\ Comes(ledger, wire, p)
      BY <1>3, <2>1 DEF FrameAt, Gone
    <3>2. ~InRows(ledger, rows, p)
      BY <1>10, <3>1 DEF Shows, AllShown, Speech
    <3> QED
      BY <3>2 DEF InRows
  <2>2. CASE f.type = "user"
    BY <1>3, <1>10, <2>2 DEF FrameAt, RowAt, R!Has
  <2> QED
    BY <2>1, <2>2
<1>11. ASSUME NEW r \in DOMAIN rows, Shows(ledger, wire, rows), ~Doomed(ledger, calls),
              f.type = "reply" \/ ~R!Has(f.id), ~(rows[r].role = "user" /\ f.id < rows[r].id)
       PROVE  Earlier(ledger, rows[r], x)
  <2>1. ~RowAt(ledger, rows[r], p)
    BY <1>10, <1>11
  <2> QED
    BY <1>3, <1>4, <1>6, <1>11, <2>1, RowAbove
<1>12. CASE f.type = "user" /\ R!Has(f.id)
  <2>1. PICK q \in DOMAIN rows : rows[q].role = "user" /\ rows[q].id = f.id
    BY <1>12 DEF R!Has
  <2>2. \A i : RowAt(ledger, x, i) => RowAt(ledger, rows[q], i)
    BY <1>6, <1>12, <2>1 DEF RowAt
  <2>3. ts = rows
    BY <1>9, <1>12
  <2> QED
    BY <1>4, <2>2, <2>3 DEF InRows, Shows
<1>13. CASE ~(f.type = "user" /\ R!Has(f.id)) /\ (f.type = "reply" \/ later = {})
  <2>1. IsGrown(ts, rows, x)
    BY <1>9, <1>13 DEF IsGrown
  <2>2. /\ IsSeq(ts)
        /\ \A r \in DOMAIN ts : ts[r] = x \/ \E q \in DOMAIN rows : ts[r] = rows[q]
        /\ \A i : InRows(ledger, ts, i) <=> InRows(ledger, rows, i) \/ RowAt(ledger, x, i)
        /\ InOrder(ledger, rows) /\ (\A r \in DOMAIN rows : Earlier(ledger, rows[r], x)) => InOrder(ledger, ts)
    BY <1>4, <2>1, RowsGrow
  <2>3. ASSUME ~R!Late(f), ~Doomed(ledger, calls), Shows(ledger, wire, rows) PROVE InOrder(ledger, ts)
    <3>1. ASSUME NEW r \in DOMAIN rows PROVE Earlier(ledger, rows[r], x)
      <4>1. ~(rows[r].role = "user" /\ f.id < rows[r].id)
        BY <1>7, <1>8, <1>13, <2>3 DEF R!Late
      <4> QED
        BY <1>11, <1>13, <2>3, <4>1
    <3> QED
      BY <2>2, <2>3, <3>1 DEF Shows
  <2> QED
    BY <2>2, <2>3
<1>14. CASE f.type = "user" /\ ~R!Has(f.id) /\ later # {}
  <2>1. PICK m : m = R!Min(later)
    OBVIOUS
  <2>2. m \in DOMAIN rows /\ rows[m].id > f.id /\ \A y \in later : m <= y
    <3>1. later \subseteq Nat
      BY <1>5, <1>8
    <3>2. m \in later /\ \A y \in later : m <= y
      BY <1>14, <2>1, <3>1, MinIs
    <3> QED
      BY <1>8, <3>2
  <2>3. ts = R!InsertAt(rows, m, x)
    BY <1>9, <1>14, <2>1
  <2>4. /\ IsSeq(ts)
        /\ \A r \in DOMAIN ts : ts[r] = x \/ \E q \in DOMAIN rows : ts[r] = rows[q]
        /\ \A i : InRows(ledger, ts, i) <=> InRows(ledger, rows, i) \/ RowAt(ledger, x, i)
        /\ /\ InOrder(ledger, rows)
           /\ \A r \in DOMAIN rows : IF r < m THEN Earlier(ledger, rows[r], x) ELSE Earlier(ledger, x, rows[r])
           => InOrder(ledger, ts)
    <3>1. IsSeq(rows) /\ m \in DOMAIN rows
      BY <1>4, <2>2
    <3> QED
      BY <2>3, <3>1, RowsTake
  <2>5. ASSUME ~Doomed(ledger, calls), Shows(ledger, wire, rows) PROVE InOrder(ledger, ts)
    <3>1. ASSUME NEW r \in DOMAIN rows, r < m PROVE Earlier(ledger, rows[r], x)
      <4>1. r \notin later
        BY <1>5, <2>2, <3>1
      <4>2. ~(f.id < rows[r].id)
        BY <1>7, <1>8, <4>1
      <4> QED
        BY <1>11, <1>14, <2>5, <4>2
    <3>2. ASSUME NEW r \in DOMAIN rows, ~(r < m) PROVE Earlier(ledger, x, rows[r])
      <4>1. m = r \/ m < r
        BY <1>5, <2>2, <3>2
      <4>2. f.id < rows[m].id
        BY <1>7, <2>2
      <4> QED
        BY <1>3, <1>4, <1>6, <1>14, <2>2, <2>5, <4>1, <4>2, RowBelow
    <3> QED
      BY <2>4, <2>5, <3>1, <3>2 DEF Shows
  <2> QED
    BY <2>4, <2>5
<1> QED
  BY <1>12, <1>13, <1>14

LEMMA SpeechKept ==
  ASSUME RewindInv, R!Receive, NEW f, f = Head(wire), f.type \in {"user", "reply"}, rows' = R!Added(f),
         muddled' = muddled \cup IF R!Late(f) THEN {"late"} ELSE {}, UNCHANGED pend
  PROVE  RewindInv'
<1>1. PICK v : v = wire'
  OBVIOUS
<1>2. IsTail(v, wire) /\ f = wire[1] /\ IsSeq(wire) /\ UNCHANGED <<ledger, sent, calls>>
  BY <1>1, WireTaken
<1>3. Base(ledger, wire, rows, calls, sent)
  BY DEF RewindInv
<1>4. PICK ts : ts = rows'
  OBVIOUS
<1>5. PICK x : x = R!Row(f)
  OBVIOUS
<1>6. /\ IsSeq(ts)
      /\ \A r \in DOMAIN ts : ts[r] = x \/ \E q \in DOMAIN rows : ts[r] = rows[q]
      /\ \A i : InRows(ledger, ts, i) <=> InRows(ledger, rows, i) \/ RowAt(ledger, x, i)
      /\ ~R!Late(f) /\ ~Doomed(ledger, calls) /\ Shows(ledger, wire, rows) => InOrder(ledger, ts)
  BY <1>4, <1>5, SpeechRows
<1>7. RowForm(x) /\ x.role = f.type /\ x.id = f.id /\ Speech(f)
  BY <1>5 DEF R!Row, Speech, RowForm
<1>8. /\ Base(ledger, v, ts, calls, sent)
      /\ Shows(ledger, wire, rows) /\ InOrder(ledger, ts) => Shows(ledger, v, ts)
  BY <1>2, <1>3, <1>6, <1>7, SpeechSeen
<1>9. ASSUME Agreed(ledger, wire, rows, pend, calls), ~R!Late(f), ~Doomed(ledger, calls)
      PROVE  Agreed(ledger, v, ts, pend, calls)
  <2>1. Shows(ledger, wire, rows) /\ Told(Pending(ledger), wire, pend, calls)
    BY <1>9 DEF Agreed
  <2>2. wire[1].type \notin Pendings
    BY <1>2 DEF Pendings
  <2>3. Told(Pending(ledger), v, pend, calls)
    BY <1>2, <2>1, <2>2, ToldTail
  <2> QED
    BY <1>6, <1>8, <1>9, <2>1, <2>3 DEF Agreed
<1> QED
  BY <1>1, <1>2, <1>4, <1>8, <1>9 DEF RewindInv

LEMMA ReceiveKept == ASSUME RewindInv, R!Receive PROVE RewindInv'
<1>1. PICK f : f = Head(wire)
  OBVIOUS
<1>2. \/ f.type = "done" /\ R!OnDone(f) /\ UNCHANGED <<rows, muddled>>
      \/ f.type = "cancelled" /\ pend' = None /\ UNCHANGED <<rows, muddled>>
      \/ f.type = "finalized" /\ R!OnFinalized(f)
      \/ /\ f.type \in {"user", "reply"}
         /\ rows' = R!Added(f)
         /\ muddled' = muddled \cup IF R!Late(f) THEN {"late"} ELSE {}
         /\ UNCHANGED pend
  BY <1>1 DEF R!Receive
<1> QED
  BY <1>1, <1>2, DoneKept, FinalizedKept, SpeechKept

\* What Among makes of the first elements.
KeptUpTo(s, items, n, g) == g[n] = IF n = 0 THEN <<>> ELSE IF s[n] \in items THEN Append(g[n - 1], s[n]) ELSE g[n - 1]

LEMMA AmongUnfold ==
  ASSUME NEW s, NEW items, Len(s) \in Nat
  PROVE  \E g : R!Among(s, items) = g[Len(s)] /\ \A n \in 0..Len(s) : KeptUpTo(s, items, n, g)
<1> DEFINE body(g) == [n \in 0..Len(s) |-> IF n = 0 THEN <<>>
                                             ELSE IF s[n] \in items THEN Append(g[n - 1], s[n]) ELSE g[n - 1]]
<1> DEFINE kept == CHOOSE g : g = body(g)
<1>1. R!Among(s, items) = kept[Len(s)]
  BY DEF R!Among
<1>2. kept = body(kept)
  <2> DEFINE bad == {m \in 0..Len(s) : ~\E g : \A n \in 0..m : KeptUpTo(s, items, n, g)}
  <2>1. bad = {}
    <3> SUFFICES ASSUME bad # {} PROVE FALSE
      OBVIOUS
    <3>0. bad \subseteq Nat
      OBVIOUS
    <3> HIDE DEF bad
    <3>1. PICK x \in bad : \A y \in bad : x <= y
      BY <3>0, LeastElement
    <3> USE DEF bad
    <3>2. CASE x = 0
      <4>1. \A n \in 0..0 : KeptUpTo(s, items, n, [k \in {0} |-> <<>>])
        BY DEF KeptUpTo
      <4> QED
        BY <3>1, <3>2, <4>1
    <3>3. CASE x # 0
      <4>0. x \in Nat /\ x \in 0..Len(s)
        OBVIOUS
      <4>1. x \in Nat /\ x - 1 \in 0..Len(s) /\ x - 1 \notin bad
        <5> HIDE DEF bad
        <5>1. x - 1 \notin bad
          BY <3>1, <4>0
        <5> QED
          BY <3>3, <4>0, <5>1
      <4>2. PICK g : \A n \in 0..x - 1 : KeptUpTo(s, items, n, g)
        BY <4>1
      <4>3. PICK newest : newest = IF s[x] \in items THEN Append(g[x - 1], s[x]) ELSE g[x - 1]
        OBVIOUS
      <4> DEFINE h == [n \in 0..x |-> IF n = x THEN newest ELSE g[n]]
      <4>4. ASSUME NEW n \in 0..x PROVE KeptUpTo(s, items, n, h)
        <5>1. CASE n = x
          BY <3>3, <4>1, <4>3, <5>1 DEF KeptUpTo
        <5>2. CASE n # x
          <6>1. n \in 0..x - 1 /\ n - 1 # x /\ (n # 0 => n - 1 \in 0..x)
            BY <4>1, <5>2
          <6>2. h[n] = g[n] /\ (n # 0 => h[n - 1] = g[n - 1])
            BY <5>2, <6>1
          <6> QED
            BY <4>2, <6>1, <6>2 DEF KeptUpTo
        <5> QED
          BY <5>1, <5>2
      <4> QED
        BY <3>1, <4>4
    <3> QED
      BY <3>2, <3>3
  <2>2. PICK g : \A n \in 0..Len(s) : KeptUpTo(s, items, n, g)
    <3>1. Len(s) \in 0..Len(s) /\ Len(s) \notin bad
      BY <2>1
    <3> QED
      BY <3>1
  <2> DEFINE f == [n \in 0..Len(s) |-> g[n]]
  <2>3. ASSUME NEW n \in 0..Len(s)
        PROVE  f[n] = IF n = 0 THEN <<>> ELSE IF s[n] \in items THEN Append(f[n - 1], s[n]) ELSE f[n - 1]
    <3>1. n # 0 => n - 1 \in 0..Len(s)
      OBVIOUS
    <3> QED
      BY <2>2, <3>1 DEF KeptUpTo
  <2>4. f = body(f)
    <3> HIDE DEF f, kept
    <3>1. PICK e : e = body(f)
      OBVIOUS
    <3>2. f = [n \in 0..Len(s) |-> f[n]]
      BY DEF f
    <3>3. \A n \in 0..Len(s) : f[n] = e[n]
      BY <2>3, <3>1
    <3>4. DOMAIN e = 0..Len(s) /\ e = [n \in 0..Len(s) |-> e[n]]
      BY <3>1
    <3> QED
      BY <3>1, <3>2, <3>3, <3>4
  <2> QED
    BY <2>4, Zenon
<1>3. \A n \in 0..Len(s) : KeptUpTo(s, items, n, kept)
  BY <1>2 DEF KeptUpTo
<1> QED
  BY <1>1, <1>3

ArePlaces(s, N) == s = [i \in 1..N |-> i]

\* The places that are kept, in their order.
LEMMA PlacesKept ==
  ASSUME NEW N \in Nat, NEW s, ArePlaces(s, N), NEW items, NEW w, w = R!Among(s, items)
  PROVE  /\ IsSeq(w)
         /\ \A k \in DOMAIN w : w[k] \in 1..N /\ w[k] \in items
         /\ \A i \in 1..N : i \in items => \E k \in DOMAIN w : w[k] = i
         /\ \A k, l \in DOMAIN w : k < l => w[k] < w[l]
<1>2. Len(s) = N /\ \A i \in 1..N : s[i] = i
  BY DEF ArePlaces
<1>1. PICK kept : /\ w = kept[N]
                  /\ \A n \in 0..N : KeptUpTo(s, items, n, kept)
  BY <1>2, AmongUnfold
<1>4. \A n \in 0..N : kept[n] = IF n = 0 THEN <<>> ELSE IF n \in items THEN Append(kept[n - 1], n)
                                ELSE kept[n - 1]
  BY <1>1, <1>2 DEF KeptUpTo
<1> DEFINE right(n) ==
      /\ IsSeq(kept[n])
      /\ \A k \in DOMAIN kept[n] : kept[n][k] \in 1..n /\ kept[n][k] \in items
      /\ \A i \in 1..n : i \in items => \E k \in DOMAIN kept[n] : kept[n][k] = i
      /\ \A k, l \in DOMAIN kept[n] : k < l => kept[n][k] < kept[n][l]
<1> DEFINE bad == {n \in 0..N : ~right(n)}
<1>5. right(0)
  <2>1. kept[0] = <<>>
    BY <1>4
  <2>2. PICK v : v = kept[0]
    OBVIOUS
  <2>3. IsSeq(v) /\ \A k : k \notin DOMAIN v
    BY <2>1, <2>2, Nothing
  <2> QED
    BY <2>2, <2>3
<1>6. ASSUME NEW n \in 1..N, right(n - 1) PROVE right(n)
  <2>1. n \in 0..N /\ n # 0 /\ n \in Nat /\ 1..n = (1..n - 1) \cup {n} /\ n \notin 1..n - 1
        /\ (\A i \in 1..n - 1 : i < n)
    OBVIOUS
  <2>2. CASE n \notin items
    <3>1. kept[n] = kept[n - 1]
      BY <1>4, <2>1, <2>2
    <3> QED
      BY <1>6, <2>1, <2>2, <3>1
  <2>3. CASE n \in items
    <3>1. PICK v : v = kept[n - 1]
      OBVIOUS
    <3>2. PICK x : x = Append(v, n)
      OBVIOUS
    <3>3. kept[n] = x
      BY <1>4, <2>1, <2>3, <3>1, <3>2
    <3>4. /\ IsSeq(v)
          /\ \A k \in DOMAIN v : v[k] \in 1..n - 1 /\ v[k] \in items
          /\ \A i \in 1..n - 1 : i \in items => \E k \in DOMAIN v : v[k] = i
          /\ \A k, l \in DOMAIN v : k < l => v[k] < v[l]
      BY <1>6, <3>1
    <3>5. PICK z : z = Len(v) + 1
      OBVIOUS
    <3>6. /\ IsSeq(x)
          /\ \A k \in DOMAIN x : k \in DOMAIN v \/ k = z
          /\ z \in DOMAIN x /\ x[z] = n /\ z \in Nat
          /\ \A k \in DOMAIN v : k \in DOMAIN x /\ x[k] = v[k] /\ k < z
      <4>1. IsGrown(x, v, n)
        BY <3>2 DEF IsGrown
      <4>2. /\ IsSeq(x) /\ Len(x) = Len(v) + 1 /\ DOMAIN x = 1..Len(v) + 1
            /\ Len(v) \in Nat /\ DOMAIN v = 1..Len(v)
            /\ x[Len(v) + 1] = n
            /\ \A i \in DOMAIN v : x[i] = v[i]
        BY <3>4, <4>1, Grown
      <4> QED
        BY <3>5, <4>2
    <3>7. \A k \in DOMAIN x : x[k] \in 1..n /\ x[k] \in items
      BY <2>1, <2>3, <3>4, <3>6
    <3>8. \A i \in 1..n : i \in items => \E k \in DOMAIN x : x[k] = i
      BY <2>1, <3>4, <3>6
    <3>9. ASSUME NEW k \in DOMAIN x, NEW l \in DOMAIN x, k < l PROVE x[k] < x[l]
      <4>1. k \in DOMAIN v
        <5>1. ASSUME k = z PROVE FALSE
          <6>1. l \in DOMAIN v => l < z /\ l \in Nat
            BY <3>4, <3>6, SeqIs
          <6> QED
            BY <3>6, <3>9, <5>1, <6>1
        <5> QED
          BY <3>6, <5>1
      <4>2. CASE l = z
        BY <2>1, <3>4, <3>6, <4>1, <4>2
      <4>3. CASE l \in DOMAIN v
        BY <3>4, <3>6, <3>9, <4>1, <4>3
      <4> QED
        BY <3>6, <4>2, <4>3
    <3> QED
      BY <3>3, <3>6, <3>7, <3>8, <3>9
  <2> QED
    BY <2>2, <2>3
<1>7. bad = {}
  <2> SUFFICES ASSUME bad # {} PROVE FALSE
    OBVIOUS
  <2>0. bad \subseteq Nat
    OBVIOUS
  <2> HIDE DEF bad
  <2>1. PICK x \in bad : \A y \in bad : x <= y
    BY <2>0, LeastElement
  <2>2. x \in 0..N /\ ~right(x)
    BY DEF bad
  <2> HIDE DEF right
  <2>3. x # 0
    BY <1>5, <2>2
  <2>4. x \in 1..N /\ x - 1 \in 0..N /\ x - 1 < x
    BY <2>2, <2>3
  <2>5. right(x - 1)
    BY <2>0, <2>1, <2>4 DEF bad
  <2> QED
    BY <1>6, <2>2, <2>4, <2>5
<1>8. right(N)
  <2> HIDE DEF right
  <2> QED
    BY <1>7
<1> QED
  BY <1>1, <1>8

\* What a reload shows: the rows of what no final boundary hides, in their order.
LEMMA LoadedIs ==
  ASSUME NEW es, NEW n, LedgerOK(es, n), NEW rs, rs = R!Loaded(es)
  PROVE  \E w : /\ IsSeq(w) /\ IsSeq(rs) /\ DOMAIN rs = DOMAIN w
                /\ \A k \in DOMAIN w : /\ w[k] \in DOMAIN es /\ Speech(es[w[k]])
                                       /\ ~\E b \in DOMAIN es : Sealed(es, b) /\ Covers(es, b, w[k])
                                       /\ RowForm(rs[k]) /\ rs[k].role = es[w[k]].type /\ rs[k].id = es[w[k]].id
                /\ \A i \in DOMAIN es : Speech(es[i]) /\ (~\E b \in DOMAIN es : Sealed(es, b) /\ Covers(es, b, i))
                     => \E k \in DOMAIN w : w[k] = i
                /\ \A k, l \in DOMAIN w : k < l => w[k] < w[l]
<1>0. Len(es) \in Nat /\ DOMAIN es = 1..Len(es)
  BY SeqIs DEF LedgerOK
<1>1. R!FindPendingRewind(es) = Pending(es)
  BY PendingIs
<1>2. PICK keep : keep = IF Pending(es) = None THEN None ELSE Pending(es)[1]
  OBVIOUS
<1>3. PICK w : w = R!ApplyRewindMask(es, keep)
  OBVIOUS
<1>4. rs = [i \in DOMAIN w |-> R!Row(es[w[i]])]
  BY <1>1, <1>2, <1>3 DEF R!Loaded
<1>5. PICK K : K = {i \in DOMAIN es : ~R!Dropped(es, keep, i)}
  OBVIOUS
<1>6. PICK N : N = Len(es)
  OBVIOUS
<1>15. PICK s : ArePlaces(s, N)
  BY DEF ArePlaces
<1>7. w = R!Among(s, K)
  BY <1>0, <1>3, <1>5, <1>6, <1>15 DEF R!ApplyRewindMask, ArePlaces
<1>8. \A i \in DOMAIN es : i \in K <=> Speech(es[i]) /\ ~\E b \in DOMAIN es : Sealed(es, b) /\ Covers(es, b, i)
  BY <1>2, <1>5, DroppedIs
<1>9. /\ IsSeq(w)
      /\ \A k \in DOMAIN w : w[k] \in 1..N /\ w[k] \in K
      /\ \A i \in 1..N : i \in K => \E k \in DOMAIN w : w[k] = i
      /\ \A k, l \in DOMAIN w : k < l => w[k] < w[l]
  BY <1>0, <1>6, <1>7, <1>15, PlacesKept
<1>10. Len(w) \in Nat /\ DOMAIN w = 1..Len(w)
  BY <1>9, SeqIs
<1>11. PICK g : g = [i \in DOMAIN w |-> R!Row(es[w[i]])]
  OBVIOUS
<1>12. rs = [k \in 1..Len(w) |-> g[k]] /\ \A k \in DOMAIN w : rs[k] = R!Row(es[w[k]])
  BY <1>4, <1>10, <1>11
<1>13. IsSeq(rs) /\ DOMAIN rs = DOMAIN w
  <2>1. rs \in Seq({rs[k] : k \in DOMAIN rs}) /\ DOMAIN rs = 1..Len(w)
    BY <1>10, <1>12
  <2> QED
    BY <1>10, <2>1 DEF IsSeq
<1>14. \A k \in DOMAIN w : RowForm(rs[k]) /\ rs[k].role = es[w[k]].type /\ rs[k].id = es[w[k]].id
  <2>1. ASSUME NEW k \in DOMAIN w PROVE RowForm(rs[k]) /\ rs[k].role = es[w[k]].type /\ rs[k].id = es[w[k]].id
    <3>1. PICK e : e = es[w[k]]
      OBVIOUS
    <3>2. rs[k] = R!Row(e)
      BY <1>12, <3>1
    <3>3. R!Row(e).role = e.type /\ R!Row(e).id = e.id /\ RowForm(R!Row(e))
      BY DEF R!Row, RowForm
    <3> QED
      BY <3>1, <3>2, <3>3
  <2> QED
    BY <2>1
<1> QED
  BY <1>0, <1>6, <1>8, <1>9, <1>13, <1>14

LEMMA ReloadKept == ASSUME RewindInv, R!Reload PROVE RewindInv'
<1>1. /\ UNCHANGED <<ledger, wire, sent>> /\ wire = <<>> /\ calls' = {R!Call("index", None)}
      /\ rows' = R!Loaded(ledger)
  BY DEF R!Reload
<1>2. LedgerOK(ledger, sent) /\ WireOK(ledger, wire) /\ sent \in Nat
  BY DEF RewindInv, Base
<1>3. PICK rs : rs = rows'
  OBVIOUS
<1>4. PICK w : /\ IsSeq(w) /\ IsSeq(rs) /\ DOMAIN rs = DOMAIN w
               /\ \A k \in DOMAIN w : /\ w[k] \in DOMAIN ledger /\ Speech(ledger[w[k]])
                                      /\ ~\E b \in DOMAIN ledger : Sealed(ledger, b) /\ Covers(ledger, b, w[k])
                                      /\ RowForm(rs[k]) /\ rs[k].role = ledger[w[k]].type /\ rs[k].id = ledger[w[k]].id
               /\ \A i \in DOMAIN ledger : Speech(ledger[i])
                     /\ (~\E b \in DOMAIN ledger : Sealed(ledger, b) /\ Covers(ledger, b, i))
                     => \E k \in DOMAIN w : w[k] = i
               /\ \A k, l \in DOMAIN w : k < l => w[k] < w[l]
  BY <1>1, <1>2, <1>3, LoadedIs
<1>5. PICK x : x = R!Call("index", None)
  OBVIOUS
<1>6. CallForm(x) /\ x.kind = "index"
  BY <1>5, CallForms
<1>7. PICK ds : ds = {x}
  OBVIOUS
<1>8. \A k \in DOMAIN rs : RowAt(ledger, rs[k], w[k])
  BY <1>4 DEF RowAt
<1>9. RowsOK(ledger, rs, ds)
  BY <1>4, <1>8 DEF RowsOK, Placed, Speech
<1>10. SendsOK(ledger, ds, sent)
  BY <1>6, <1>7 DEF SendsOK, Send
<1>11. \A k : k \notin DOMAIN wire
  BY <1>1, Nothing
<1>12. InOrder(ledger, rs)
  BY <1>4, <1>8 DEF InOrder, Earlier, RowAt
<1>13. AllShown(ledger, wire, rs)
  <2>1. ASSUME NEW i \in DOMAIN ledger, Speech(ledger[i]) PROVE InRows(ledger, rs, i) <=> ~Hidden(ledger, wire, i)
    <3>1. ASSUME NEW r \in DOMAIN rs, RowAt(ledger, rs[r], i) PROVE i = w[r]
      BY <1>2, <1>8, <3>1, RowOnce
    <3> QED
      BY <1>4, <1>8, <1>11, <2>1, <3>1 DEF InRows, Hidden, EndComes
  <2> QED
    BY <1>11, <2>1 DEF AllShown, Comes
<1>14. Numbered(ledger, wire)
  BY <1>11 DEF Numbered, Comes
<1>15. PICK p : p = pend'
  OBVIOUS
<1>16. Told(Pending(ledger), wire, p, ds)
  BY <1>6, <1>7, <1>11 DEF Told
<1>17. Base(ledger, wire, rs, ds, sent) /\ Agreed(ledger, wire, rs, p, ds)
  BY <1>2, <1>9, <1>10, <1>12, <1>13, <1>14, <1>16 DEF Base, Agreed, Shows
<1> QED
  BY <1>1, <1>3, <1>5, <1>7, <1>15, <1>17 DEF RewindInv

LEMMA RewindInit == R!Init => RewindInv
<1> SUFFICES ASSUME R!Init PROVE RewindInv
  OBVIOUS
<1>1. ledger = <<>> /\ wire = <<>> /\ sent = 0 /\ rows = <<>> /\ pend = None /\ calls = {}
  BY DEF R!Init
<1>2. \A k : k \notin DOMAIN ledger /\ k \notin DOMAIN wire /\ k \notin DOMAIN rows
  BY <1>1, Nothing
<1>3. IsSeq(wire) /\ IsSeq(rows) /\ Len(ledger) = 0
  BY <1>1, Nothing
<1>4. LedgerOK(ledger, sent)
  BY <1>1, Boundless
<1>5. Base(ledger, wire, rows, calls, sent)
  BY <1>1, <1>2, <1>3, <1>4 DEF Base, WireOK, RowsOK, SendsOK, Comes, EndComes
<1>6. Shows(ledger, wire, rows)
  BY <1>2 DEF Shows, InOrder, AllShown, Numbered
<1>7. Told(Pending(ledger), wire, pend, calls)
  BY <1>1, <1>2, <1>3 DEF Told, Pending
<1> QED
  BY <1>1, <1>5, <1>6, <1>7, RewindAssumption DEF RewindInv, Agreed

LEMMA RewindStep == RewindInv /\ [R!Next]_rewindVars => RewindInv'
<1> SUFFICES ASSUME RewindInv, [R!Next]_rewindVars PROVE RewindInv'
  OBVIOUS
<1>1. CASE UNCHANGED rewindVars
  BY <1>1, NoneAsked DEF rewindVars
<1>2. CASE R!Replies \/ R!ForeignSend \/ R!Receive \/ R!Send \/ R!Reload
  BY <1>2, RepliesKept, ForeignSendKept, ReceiveKept, SendKept, ReloadKept
<1>3. ASSUME NEW msg \in 1..MaxMsgs, R!ForeignRewind(msg) \/ R!OpenDialog(msg) \/ R!StartEdit(msg) PROVE RewindInv'
  <2>1. CASE R!ForeignRewind(msg)
    BY <2>1, ForeignRewindKept
  <2>2. CASE R!OpenDialog(msg)
    BY <2>2, NoneAsked DEF R!OpenDialog, R!ServerRest
  <2>3. CASE R!StartEdit(msg)
    BY <2>3, NoneAsked DEF R!StartEdit, R!ServerRest
  <2> QED
    BY <1>3, <2>1, <2>2, <2>3
<1>4. ASSUME NEW b \in 1..MaxRewinds, R!ForeignRedo(b) PROVE RewindInv'
  BY <1>4, ForeignRedoKept
<1>5. ASSUME NEW c \in calls, R!Answers(c) PROVE RewindInv'
  <2>1. CASE R!RewindAnswered(c)
    <3>1. /\ UNCHANGED <<ledger, wire, rows, sent, muddled, pend>> /\ c.answer # None
          /\ c.kind # "index" /\ calls' = calls \ {c}
      BY <2>1 DEF R!RewindAnswered, R!ServerRest
    <3> QED
      BY <3>1, OneAnswered
  <2>2. CASE R!SendAnswered(c)
    <3>1. /\ UNCHANGED <<ledger, wire, rows, sent, muddled, pend>> /\ c.answer # None
          /\ c.kind # "index" /\ calls' = calls \ {c}
      BY <2>2 DEF R!SendAnswered, R!ServerRest
    <3> QED
      BY <3>1, OneAnswered
  <2>3. CASE R!EditAnswered(c)
    BY <2>3, EditAnsweredKept
  <2>4. CASE R!RedoAnswered(c)
    BY <2>4, RedoAnsweredKept
  <2>5. CASE R!IndexAnswered(c)
    BY <2>5, IndexAnsweredKept
  <2> QED
    BY <1>5, <2>1, <2>2, <2>3, <2>4, <2>5 DEF R!Answers
<1>6. ASSUME NEW c \in calls, NEW answer \in {"ok", "refused"}, R!Handle(c, answer) PROVE RewindInv'
  BY <1>6, HandleKept
<1>7. CASE R!CloseDialog \/ R!CancelEdit
  <2>1. UNCHANGED <<ledger, wire, rows, sent, pend, calls, muddled>>
    BY <1>7 DEF R!CloseDialog, R!CancelEdit, R!ServerRest
  <2> QED
    BY <2>1, NoneAsked
<1>8. CASE R!RunRewind
  <2>1. /\ UNCHANGED <<ledger, wire, rows, sent, muddled>> /\ UNCHANGED pend
        /\ calls' = calls \cup {R!Call("rewind", dialog[1])}
    BY <1>8 DEF R!RunRewind, R!ServerRest
  <2> QED
    BY <2>1, OneAsked
<1>9. ASSUME NEW files \in BOOLEAN, R!PreviewEdit(files) \/ R!RewindAndSend(files) PROVE RewindInv'
  <2>1. CASE R!PreviewEdit(files)
    BY <2>1, NoneAsked DEF R!PreviewEdit, R!ServerRest
  <2>2. CASE R!RewindAndSend(files)
    <3>1. /\ UNCHANGED <<ledger, wire, rows, sent, muddled>> /\ UNCHANGED pend
          /\ calls' = calls \cup {R!Call("editRewind", edit[1])}
      BY <2>2 DEF R!RewindAndSend, R!ServerRest
    <3> QED
      BY <3>1, OneAsked
  <2> QED
    BY <1>9, <2>1, <2>2
<1>10. CASE R!Redo
  <2>1. /\ UNCHANGED <<ledger, wire, rows, sent, muddled>> /\ UNCHANGED pend
        /\ calls' = calls \cup {R!Call("redo", pend[1])}
    BY <1>10 DEF R!Redo, R!ServerRest
  <2> QED
    BY <2>1, OneAsked
<1>11. CASE R!LoadCheckpoints
  <2>1. /\ UNCHANGED <<ledger, wire, rows, sent, muddled>> /\ UNCHANGED pend
        /\ calls' = calls \cup {R!Call("index", None)}
    BY <1>11 DEF R!LoadCheckpoints
  <2> QED
    BY <2>1, OneAsked
<1> QED
  BY <1>1, <1>2, <1>3, <1>4, <1>5, <1>6, <1>7, <1>8, <1>9, <1>10, <1>11 DEF R!Next

\* Sequences that repeat nothing and have the same elements are as long.
Distinct(s) == \A k, l \in DOMAIN s : k < l => s[k] # s[l]

LEMMA SameLength ==
  ASSUME NEW s, IsSeq(s), Distinct(s), NEW t, IsSeq(t), Distinct(t),
         \A k \in DOMAIN s : \E l \in DOMAIN t : s[k] = t[l],
         \A l \in DOMAIN t : \E k \in DOMAIN s : s[k] = t[l]
  PROVE  Len(s) = Len(t)
<1>1. Len(s) \in Nat /\ DOMAIN s = 1..Len(s) /\ Len(t) \in Nat /\ DOMAIN t = 1..Len(t)
  BY SeqIs
<1>2. PICK E : E = {s[k] : k \in DOMAIN s}
  OBVIOUS
<1>3. E = {t[k] : k \in DOMAIN t}
  BY <1>2
<1>4. ASSUME NEW u, NEW n \in Nat, DOMAIN u = 1..n, Distinct(u), E = {u[k] : k \in DOMAIN u}
      PROVE  Cardinality(E) = n
  <2> DEFINE f == [i \in 1..n |-> u[i]]
  <2>1. f \in Injection(1..n, E)
    <3>1. ASSUME NEW k \in 1..n, NEW l \in 1..n, u[k] = u[l] PROVE k = l
      BY <1>4, <3>1 DEF Distinct
    <3> QED
      BY <1>4, <3>1 DEF Injection, IsInjective
  <2>2. f \in Surjection(1..n, E)
    BY <1>4 DEF Surjection
  <2>3. ExistsBijection(1..n, E)
    BY <2>1, <2>2 DEF ExistsBijection, Bijection
  <2> QED
    BY <2>3, FS_CountingElements
<1>5. Cardinality(E) = Len(s)
  BY <1>1, <1>2, <1>4
<1>6. Cardinality(E) = Len(t)
  BY <1>1, <1>3, <1>4
<1> QED
  BY <1>5, <1>6

LEMMA RewindSafe == RewindInv => R!RewindAgrees
<1> SUFFICES ASSUME RewindInv, wire = <<>>, calls = {}, muddled = {}
             PROVE  /\ R!ToSet(rows) = R!ToSet(R!Loaded(ledger)) /\ Len(rows) = Len(R!Loaded(ledger))
                    /\ pend = R!FindPendingRewind(ledger)
  BY DEF R!RewindAgrees, R!Settled
<1>1. LedgerOK(ledger, sent) /\ RowsOK(ledger, rows, calls) /\ IsSeq(rows)
  BY DEF RewindInv, Base, RowsOK
<1>2. \A k : k \notin DOMAIN wire
  BY Nothing
<1>3. InOrder(ledger, rows) /\ AllShown(ledger, wire, rows) /\ Told(Pending(ledger), wire, pend, calls)
  BY DEF RewindInv, Doomed, Agreed, Shows
<1>4. pend = R!FindPendingRewind(ledger)
  BY <1>1, <1>2, <1>3, PendingIs DEF Told
<1>5. PICK rs : rs = R!Loaded(ledger)
  OBVIOUS
<1>6. PICK w : /\ IsSeq(w) /\ IsSeq(rs) /\ DOMAIN rs = DOMAIN w
               /\ \A k \in DOMAIN w : /\ w[k] \in DOMAIN ledger /\ Speech(ledger[w[k]])
                                      /\ ~\E b \in DOMAIN ledger : Sealed(ledger, b) /\ Covers(ledger, b, w[k])
                                      /\ RowForm(rs[k]) /\ rs[k].role = ledger[w[k]].type /\ rs[k].id = ledger[w[k]].id
               /\ \A i \in DOMAIN ledger : Speech(ledger[i])
                     /\ (~\E b \in DOMAIN ledger : Sealed(ledger, b) /\ Covers(ledger, b, i))
                     => \E k \in DOMAIN w : w[k] = i
               /\ \A k, l \in DOMAIN w : k < l => w[k] < w[l]
  BY <1>1, <1>5, LoadedIs
<1>7. \A i \in DOMAIN ledger : Speech(ledger[i]) =>
        (InRows(ledger, rows, i) <=> ~\E b \in DOMAIN ledger : Sealed(ledger, b) /\ Covers(ledger, b, i))
  BY <1>2, <1>3 DEF AllShown, Hidden, Comes, EndComes
<1>8. \A r \in DOMAIN rows : RowForm(rows[r]) /\ \E i \in DOMAIN ledger : RowAt(ledger, rows[r], i) /\ Speech(ledger[i])
  BY <1>1 DEF RowsOK, Awaited, Placed, RowAt, Speech
<1>9. ASSUME NEW r \in DOMAIN rows PROVE \E k \in DOMAIN rs : rows[r] = rs[k]
  <2>1. PICK i \in DOMAIN ledger : RowAt(ledger, rows[r], i) /\ Speech(ledger[i])
    BY <1>8
  <2>2. InRows(ledger, rows, i)
    BY <2>1 DEF InRows
  <2>3. PICK k \in DOMAIN w : w[k] = i
    BY <1>6, <1>7, <2>1, <2>2
  <2>4. rs[k].role = rows[r].role /\ rs[k].id = rows[r].id /\ RowForm(rs[k]) /\ RowForm(rows[r])
    BY <1>6, <1>8, <2>1, <2>3 DEF RowAt
  <2> QED
    BY <1>6, <2>4 DEF RowForm
<1>10. ASSUME NEW k \in DOMAIN rs PROVE \E r \in DOMAIN rows : rows[r] = rs[k]
  <2>1. PICK i : i = w[k]
    OBVIOUS
  <2>2. i \in DOMAIN ledger /\ InRows(ledger, rows, i)
    BY <1>6, <1>7, <2>1
  <2>3. PICK r \in DOMAIN rows : RowAt(ledger, rows[r], i)
    BY <2>2 DEF InRows
  <2>4. rs[k].role = rows[r].role /\ rs[k].id = rows[r].id /\ RowForm(rs[k]) /\ RowForm(rows[r])
    BY <1>6, <1>8, <2>1, <2>3 DEF RowAt
  <2> QED
    BY <2>4 DEF RowForm
<1>11. Distinct(rows)
  <2>1. ASSUME NEW r \in DOMAIN rows, NEW q \in DOMAIN rows, r < q, rows[r] = rows[q] PROVE FALSE
    <3>1. PICK i \in DOMAIN ledger : RowAt(ledger, rows[r], i)
      BY <1>8
    <3>2. RowAt(ledger, rows[q], i)
      BY <2>1, <3>1
    <3>3. i < i
      BY <1>1, <1>3, <2>1, <3>1, <3>2, PlacedOrder
    <3>4. i \in Nat
      BY <1>1, <3>1, SeqIs DEF LedgerOK
    <3> QED
      BY <3>3, <3>4
  <2> QED
    BY <2>1 DEF Distinct
<1>12. Distinct(rs)
  <2>1. ASSUME NEW k \in DOMAIN rs, NEW l \in DOMAIN rs, k < l, rs[k] = rs[l] PROVE FALSE
    <3>1. RowAt(ledger, rs[k], w[k]) /\ RowAt(ledger, rs[k], w[l])
      BY <1>6, <2>1 DEF RowAt
    <3>2. w[k] = w[l]
      BY <1>1, <3>1, RowOnce
    <3>3. w[k] < w[l] /\ w[k] \in Nat
      BY <1>1, <1>6, <2>1, SeqIs DEF LedgerOK
    <3> QED
      BY <3>2, <3>3
  <2> QED
    BY <2>1 DEF Distinct
<1>13. Len(rows) = Len(rs)
  BY <1>1, <1>6, <1>9, <1>10, <1>11, <1>12, SameLength
<1>14. R!ToSet(rows) = R!ToSet(rs)
  BY <1>9, <1>10 DEF R!ToSet
<1> QED
  BY <1>4, <1>5, <1>13, <1>14

\* When nothing is on its way, the live page shows what a reload would
\* (applyRewindEvent against applyRewindMask), for any number of messages, rewinds,
\* frames and reads of the index: of the rewind alone, and of its instance.
THEOREM RewindsAgree == (R!Spec => []RewindAgrees) /\ (MCSpec => []RewindAgrees)
<1>1. RewindInv /\ [MCNext]_<<focus, vars, rewindVars, cliVars>> => RewindInv'
  <2>1. [MCNext]_<<focus, vars, rewindVars, cliVars>> => [R!Next]_rewindVars
    BY DEF MCNext
  <2> QED
    BY <2>1, RewindStep
<1>2. MCInit => RewindInv
  BY RewindInit DEF MCInit
<1>3. RewindInv => RewindAgrees
  BY RewindSafe DEF RewindAgrees
<1>4. R!rewindVars = rewindVars
  BY DEF R!rewindVars, rewindVars
<1>5. R!Spec => []RewindAgrees
  <2>1. RewindInv /\ [R!Next]_R!rewindVars => RewindInv'
    BY <1>4, RewindStep DEF R!rewindVars, rewindVars
  <2> QED
    BY <1>3, <2>1, RewindInit, PTL DEF R!Spec
<1>6. MCSpec => []RewindAgrees
  BY <1>1, <1>2, <1>3, PTL DEF MCSpec
<1> QED
  BY <1>5, <1>6

-------------------------------------------------------------------------------
\* The reply of a CLI request.

Voices == Subs \cup {Main}
Chat == {"text", "thinking"}
Statuses == {"streaming", "done", "error"}
ToolMap == [Calls -> CliTools \cup {None}]
Runs == [text : Seq(Nat), calls : ToolMap, status : Statuses]
Segs == [kind : Chat, of : Seq(Nat)] \cup [kind : {"tool"}, of : Calls]
Bubbles == [segs : Seq(Segs), calls : ToolMap, status : Statuses, subs : [Subs -> Runs \cup {None}]]

\* The p-th number of the i-th segment, and the segment of a call.
At(segs, i, p) == i \in DOMAIN segs /\ segs[i].kind \in Chat /\ p \in DOMAIN segs[i].of
ToolAt(segs, i) == i \in DOMAIN segs /\ segs[i].kind = "tool"

\* The words of t are those of segs and then n; the calls are the same.
SegsSaid(t, segs, kind, n) ==
  \E l, p : /\ At(t, l, p) /\ ~At(segs, l, p) /\ t[l].of[p] = n /\ t[l].kind = kind
            /\ \A i, q : At(t, i, q) <=> At(segs, i, q) \/ (i = l /\ q = p)
            /\ \A i, q : At(segs, i, q) => t[i].of[q] = segs[i].of[q] /\ t[i].kind = segs[i].kind
            /\ \A i, q : At(segs, i, q) => i < l \/ (i = l /\ q < p)
            /\ \A i : ToolAt(t, i) <=> ToolAt(segs, i)
            /\ \A i : ToolAt(segs, i) => t[i] = segs[i]

LEMMA AppendIs ==
  ASSUME NEW S, NEW s \in Seq(S), NEW e \in S, NEW t, IsGrown(t, s, e)
  PROVE  /\ t \in Seq(S) /\ Len(t) = Len(s) + 1 /\ DOMAIN t = 1..Len(s) + 1
         /\ Len(s) \in Nat /\ DOMAIN s = 1..Len(s)
         /\ t[Len(s) + 1] = e
         /\ \A i \in DOMAIN s : t[i] = s[i] /\ i \in DOMAIN t /\ i < Len(s) + 1 /\ i \in Nat
<1>1. t = Append(s, e)
  BY DEF IsGrown
<1>2. t \in Seq(S) /\ Len(t) = Len(s) + 1 /\ Len(s) \in Nat
  BY <1>1
<1>3. t[Len(s) + 1] = e /\ \A i \in 1..Len(s) : t[i] = s[i]
  BY <1>1
<1>4. DOMAIN s = 1..Len(s) /\ DOMAIN t = 1..Len(s) + 1
  BY <1>2
<1> QED
  BY <1>2, <1>3, <1>4

LEMMA SegForms ==
  ASSUME NEW x \in Segs
  PROVE  /\ x.kind \in Chat \cup {"tool"} /\ "tool" \notin Chat
         /\ x.kind \in Chat => x \in [kind : Chat, of : Seq(Nat)] /\ x.of \in Seq(Nat)
         /\ x.kind = "tool" => x.of \in Calls /\ x = [kind |-> "tool", of |-> x.of]
BY DEF Segs, Chat

\* appendChatSegment, whether the segment is a new one or the last.
LEMMA SegmentGrows ==
  ASSUME NEW segs \in Seq(Segs), NEW kind \in Chat, NEW n \in Nat, NEW t, t = C!AppendChatSegment(segs, kind, n)
  PROVE  t \in Seq(Segs) /\ SegsSaid(t, segs, kind, n)
<1>0. Len(segs) \in Nat /\ DOMAIN segs = 1..Len(segs) /\ \A i \in DOMAIN segs : segs[i] \in Segs
  OBVIOUS
<1>1. CASE segs # <<>> /\ segs[Len(segs)].kind = kind
  <2>1. PICK l : l = Len(segs)
    OBVIOUS
  <2>2. l \in DOMAIN segs /\ l \in Nat /\ \A i \in DOMAIN segs : i <= l /\ i \in Nat
    <3>1. Len(segs) # 0
      BY <1>1
    <3> QED
      BY <1>0, <2>1, <3>1
  <2>3. PICK old : old = segs[l].of
    OBVIOUS
  <2>4. PICK new : IsGrown(new, old, n)
    BY DEF IsGrown
  <2>5. old \in Seq(Nat) /\ segs[l].kind = kind
    BY <1>0, <1>1, <2>1, <2>2, <2>3, SegForms
  <2>6. /\ new \in Seq(Nat) /\ Len(new) = Len(old) + 1 /\ DOMAIN new = 1..Len(old) + 1
        /\ Len(old) \in Nat /\ DOMAIN old = 1..Len(old)
        /\ new[Len(old) + 1] = n
        /\ \A i \in DOMAIN old : new[i] = old[i] /\ i \in DOMAIN new /\ i < Len(old) + 1 /\ i \in Nat
    BY <2>4, <2>5, AppendIs
  <2>7. PICK p : p = Len(old) + 1
    OBVIOUS
  <2>8. PICK x : x = [kind |-> kind, of |-> new]
    OBVIOUS
  <2>9. x \in Segs /\ x.kind = kind /\ x.of = new
    BY <2>6, <2>8 DEF Segs
  <2>10. t = [segs EXCEPT ![l] = x]
    <3>1. t = [segs EXCEPT ![l].of = Append(@, n)]
      BY <1>1, <2>1 DEF C!AppendChatSegment, C!Last
    <3>2. [segs[l] EXCEPT !.of = new] = x
      <4>1. segs[l] \in [kind : Chat, of : Seq(Nat)]
        BY <1>0, <2>2, <2>5, SegForms
      <4> QED
        BY <2>5, <2>8, <4>1
    <3>3. new = Append(segs[l].of, n)
      BY <2>3, <2>4 DEF IsGrown
    <3> QED
      BY <3>1, <3>2, <3>3
  <2>11. /\ t \in Seq(Segs) /\ DOMAIN t = DOMAIN segs /\ t[l] = x
         /\ \A i \in DOMAIN segs : i # l => t[i] = segs[i]
    BY <1>0, <2>2, <2>9, <2>10
  <2>12. /\ p \notin DOMAIN old /\ p \in DOMAIN new /\ new[p] = n
         /\ \A q : q \in DOMAIN new <=> q \in DOMAIN old \/ q = p
         /\ \A q \in DOMAIN old : new[q] = old[q] /\ q < p
    BY <2>6, <2>7
  <2>13. \A i \in DOMAIN segs : i # l => i < l
    BY <2>2
  <2>14. kind # "tool"
    BY DEF Chat
  <2> HIDE DEF At
  <2>15. /\ At(t, l, p) /\ ~At(segs, l, p) /\ t[l].of[p] = n /\ t[l].kind = kind
         /\ \A i, q : At(t, i, q) <=> At(segs, i, q) \/ (i = l /\ q = p)
    BY <2>2, <2>3, <2>5, <2>9, <2>11, <2>12 DEF At
  <2>16. /\ \A i, q : At(segs, i, q) => t[i].of[q] = segs[i].of[q] /\ t[i].kind = segs[i].kind
         /\ \A i, q : At(segs, i, q) => i < l \/ (i = l /\ q < p)
    BY <2>2, <2>3, <2>5, <2>9, <2>11, <2>12, <2>13 DEF At
  <2>17. /\ \A i : ToolAt(t, i) <=> ToolAt(segs, i)
         /\ \A i : ToolAt(segs, i) => t[i] = segs[i]
    BY <2>2, <2>5, <2>9, <2>11, <2>14 DEF ToolAt
  <2> QED
    BY <2>11, <2>15, <2>16, <2>17 DEF SegsSaid
<1>2. CASE ~(segs # <<>> /\ segs[Len(segs)].kind = kind)
  <2>1. PICK one : one = <<n>>
    OBVIOUS
  <2>2. PICK x : x = [kind |-> kind, of |-> one]
    OBVIOUS
  <2>3. one \in Seq(Nat) /\ DOMAIN one = {1} /\ one[1] = n
    BY <2>1
  <2>4. x \in Segs /\ x.kind = kind /\ x.of = one
    BY <2>2, <2>3 DEF Segs
  <2>5. IsGrown(t, segs, x)
    BY <1>2, <2>1, <2>2 DEF C!AppendChatSegment, C!Last, IsGrown
  <2>6. PICK l : l = Len(segs) + 1
    OBVIOUS
  <2>7. /\ t \in Seq(Segs) /\ l \in DOMAIN t /\ t[l] = x /\ l \notin DOMAIN segs
        /\ \A i : i \in DOMAIN t <=> i \in DOMAIN segs \/ i = l
        /\ \A i \in DOMAIN segs : t[i] = segs[i] /\ i < l
    <3>1. x \in Segs
      BY <2>4
    <3>2. /\ t \in Seq(Segs) /\ Len(t) = Len(segs) + 1 /\ DOMAIN t = 1..Len(segs) + 1
          /\ Len(segs) \in Nat /\ DOMAIN segs = 1..Len(segs)
          /\ t[Len(segs) + 1] = x
          /\ \A i \in DOMAIN segs : t[i] = segs[i] /\ i \in DOMAIN t /\ i < Len(segs) + 1 /\ i \in Nat
      BY <3>1, <2>5, AppendIs
    <3> QED
      BY <1>0, <2>6, <3>2
  <2>8. kind # "tool"
    BY DEF Chat
  <2>9. /\ At(t, l, 1) /\ ~At(segs, l, 1) /\ t[l].of[1] = n /\ t[l].kind = kind
        /\ \A i, q : At(t, i, q) <=> At(segs, i, q) \/ (i = l /\ q = 1)
    BY <2>3, <2>4, <2>7 DEF At
  <2>10. /\ \A i, q : At(segs, i, q) => t[i].of[q] = segs[i].of[q] /\ t[i].kind = segs[i].kind
         /\ \A i, q : At(segs, i, q) => i < l \/ (i = l /\ q < 1)
         /\ \A i : ToolAt(t, i) <=> ToolAt(segs, i)
         /\ \A i : ToolAt(segs, i) => t[i] = segs[i]
    BY <2>4, <2>7, <2>8 DEF At, ToolAt
  <2> QED
    BY <2>7, <2>9, <2>10 DEF SegsSaid
<1> QED
  BY <1>1, <1>2

SaysAs(sd, n, who, kind) == n \in DOMAIN sd /\ sd[n].from = who /\ sd[n].type = kind

\* The segments show the words D of the agent, in order, each under its kind.
MainWords(segs, D, sd) ==
  /\ \A i, p : At(segs, i, p) => segs[i].of[p] \in D /\ SaysAs(sd, segs[i].of[p], Main, segs[i].kind)
  /\ \A n \in D : sd[n].from = Main => \E i, p : At(segs, i, p) /\ segs[i].of[p] = n
  /\ \A i, j, p, q : At(segs, i, p) /\ At(segs, j, q) /\ (i < j \/ (i = j /\ p < q)) => segs[i].of[p] < segs[j].of[q]

\* The text of a sub-agent's run is its words in order.
TextIs(text, D, sd, s) ==
  /\ \A p \in DOMAIN text : text[p] \in D /\ sd[text[p]].from = s
  /\ \A n \in D : sd[n].from = s => \E p \in DOMAIN text : text[p] = n
  /\ \A p, q \in DOMAIN text : p < q => text[p] < text[q]

Words(b, D, sd) ==
  /\ MainWords(b.segs, D, sd)
  /\ \A s \in Subs : IF b.subs[s] = None THEN \A n \in D : sd[n].from # s ELSE TextIs(b.subs[s].text, D, sd, s)

\* Of each call there is one segment; a call is there once its frame was read, and at
\* rest once its result was.
ToolOnce(segs) == \A i, j : ToolAt(segs, i) /\ ToolAt(segs, j) /\ segs[i].of = segs[j].of => i = j
Has(b, who, c) ==
  IF who = Main THEN b.calls[c] # None /\ \E i : ToolAt(b.segs, i) /\ b.segs[i].of = c
  ELSE b.subs[who] # None /\ b.subs[who].calls[c] # None
Rests(b, who, c) ==
  IF who = Main THEN b.calls[c].status # "running" ELSE b.subs[who].calls[c].status # "running"
FrameOf(sd, type, who, c) == \E i \in DOMAIN sd : sd[i].type = type /\ sd[i].call = c /\ sd[i].from = who
CallsFit(b, sd) ==
  /\ ToolOnce(b.segs)
  /\ \A who \in Voices, c \in Calls : FrameOf(sd, "call", who, c) => Has(b, who, c)
  /\ \A who \in Voices, c \in Calls : FrameOf(sd, "result", who, c) => Has(b, who, c) /\ Rests(b, who, c)

\* The message shows the words D and the calls of what was read.
Shown(b, D, sd) == b \in Bubbles /\ Words(b, D, sd) /\ CallsFit(b, sd)

LEMMA MainSaid ==
  ASSUME NEW segs \in Seq(Segs), NEW t \in Seq(Segs), NEW kind, NEW n \in Nat, SegsSaid(t, segs, kind, n),
         NEW D, D \subseteq Nat, NEW sd, MainWords(segs, D, sd), SaysAs(sd, n, Main, kind),
         \A m \in D : sd[m].from = Main => m < n
  PROVE  MainWords(t, D \cup {n}, sd)
<1>1. PICK l, p : /\ At(t, l, p) /\ ~At(segs, l, p) /\ t[l].of[p] = n /\ t[l].kind = kind
                  /\ \A i, q : At(t, i, q) <=> At(segs, i, q) \/ (i = l /\ q = p)
                  /\ \A i, q : At(segs, i, q) => t[i].of[q] = segs[i].of[q] /\ t[i].kind = segs[i].kind
                  /\ \A i, q : At(segs, i, q) => i < l \/ (i = l /\ q < p)
  BY DEF SegsSaid
<1>2. \A i, q : At(t, i, q) => i \in Nat /\ q \in Nat
  <2> SUFFICES ASSUME NEW i, NEW q, At(t, i, q) PROVE i \in Nat /\ q \in Nat
    OBVIOUS
  <2>1. i \in DOMAIN t /\ t[i] \in Segs /\ t[i].kind \in Chat /\ q \in DOMAIN t[i].of
    BY DEF At
  <2>2. t[i].of \in Seq(Nat)
    BY <2>1, SegForms
  <2> QED
    BY <2>1, <2>2
<1>3. \A i, q : At(segs, i, q) => segs[i].of[q] \in D /\ SaysAs(sd, segs[i].of[q], Main, segs[i].kind)
  BY DEF MainWords
<1>4. ASSUME NEW i, NEW q, At(t, i, q)
      PROVE  t[i].of[q] \in D \cup {n} /\ SaysAs(sd, t[i].of[q], Main, t[i].kind)
  BY <1>1, <1>3, <1>4
<1>5. ASSUME NEW m \in D \cup {n}, sd[m].from = Main PROVE \E i, q : At(t, i, q) /\ t[i].of[q] = m
  <2>1. CASE m = n
    BY <1>1, <2>1
  <2>2. CASE m \in D
    <3>1. PICK i, q : At(segs, i, q) /\ segs[i].of[q] = m
      BY <1>5, <2>2 DEF MainWords
    <3> QED
      BY <1>1, <3>1
  <2> QED
    BY <2>1, <2>2
<1>6. ASSUME NEW i, NEW j, NEW r, NEW q, At(t, i, r), At(t, j, q), i < j \/ (i = j /\ r < q)
      PROVE  t[i].of[r] < t[j].of[q]
  <2>1. l \in Nat /\ p \in Nat /\ i \in Nat /\ j \in Nat /\ r \in Nat /\ q \in Nat
    BY <1>1, <1>2, <1>6
  <2>2. At(segs, i, r)
    <3>1. ASSUME i = l, r = p PROVE FALSE
      <4>1. At(segs, j, q) \/ (j = l /\ q = p)
        BY <1>1, <1>6
      <4>2. At(segs, j, q) => j < l \/ (j = l /\ q < p)
        BY <1>1
      <4> QED
        BY <1>6, <2>1, <3>1, <4>1, <4>2
    <3> QED
      BY <1>1, <1>6, <3>1
  <2>3. CASE At(segs, j, q)
    <3>1. segs[i].of[r] < segs[j].of[q]
      BY <1>6, <2>2, <2>3 DEF MainWords
    <3> QED
      BY <1>1, <2>2, <2>3, <3>1
  <2>4. CASE j = l /\ q = p
    <3>1. segs[i].of[r] \in D /\ sd[segs[i].of[r]].from = Main
      BY <1>3, <2>2 DEF SaysAs
    <3>2. segs[i].of[r] < n
      BY <3>1
    <3> QED
      BY <1>1, <2>2, <2>4, <3>2
  <2> QED
    BY <1>1, <1>6, <2>3, <2>4
<1> QED
  BY <1>4, <1>5, <1>6 DEF MainWords

LEMMA TextSaid ==
  ASSUME NEW text \in Seq(Nat), NEW n \in Nat, NEW t, IsGrown(t, text, n), NEW D, NEW sd, NEW s, NEW kind,
         TextIs(text, D, sd, s), SaysAs(sd, n, s, kind), \A m \in D : sd[m].from = s => m < n
  PROVE  t \in Seq(Nat) /\ TextIs(t, D \cup {n}, sd, s)
<1>1. /\ t \in Seq(Nat) /\ Len(t) = Len(text) + 1 /\ DOMAIN t = 1..Len(text) + 1
      /\ Len(text) \in Nat /\ DOMAIN text = 1..Len(text)
      /\ t[Len(text) + 1] = n
      /\ \A i \in DOMAIN text : t[i] = text[i] /\ i \in DOMAIN t /\ i < Len(text) + 1 /\ i \in Nat
  BY AppendIs
<1>2. PICK l : l = Len(text) + 1
  OBVIOUS
<1>3. /\ l \in DOMAIN t /\ t[l] = n /\ \A p : p \in DOMAIN t <=> p \in DOMAIN text \/ p = l
      /\ \A p \in DOMAIN text : t[p] = text[p] /\ p < l /\ ~(l < p)
  BY <1>1, <1>2
<1>4. ASSUME NEW p \in DOMAIN t, NEW q \in DOMAIN t, p < q PROVE t[p] < t[q]
  <2>1. p \in DOMAIN text
    <3>1. ~(l < l)
      BY <1>1, <1>2
    <3> QED
      BY <1>3, <1>4, <3>1
  <2>2. t[p] \in D /\ sd[t[p]].from = s
    BY <1>3, <2>1 DEF TextIs
  <2> QED
    BY <1>3, <1>4, <2>1, <2>2 DEF TextIs
<1>5. \A p \in DOMAIN t : t[p] \in D \cup {n} /\ sd[t[p]].from = s
  BY <1>3 DEF TextIs, SaysAs
<1>6. ASSUME NEW m \in D \cup {n}, sd[m].from = s PROVE \E p \in DOMAIN t : t[p] = m
  BY <1>3, <1>6 DEF TextIs
<1>7. t \in Seq(Nat)
  BY <1>1
<1> QED
  BY <1>4, <1>5, <1>6, <1>7 DEF TextIs

LEMMA CallsStay ==
  ASSUME NEW b, NEW sd, CallsFit(b, sd), NEW d, d.calls = b.calls,
         \A i : ToolAt(d.segs, i) <=> ToolAt(b.segs, i), \A i : ToolAt(b.segs, i) => d.segs[i] = b.segs[i],
         \A s \in Subs : b.subs[s] # None => d.subs[s] # None /\ d.subs[s].calls = b.subs[s].calls
  PROVE  CallsFit(d, sd)
<1>1. ToolOnce(d.segs)
  BY DEF CallsFit, ToolOnce
<1>2. ASSUME NEW who \in Voices, NEW c \in Calls, Has(b, who, c)
      PROVE  Has(d, who, c) /\ (Rests(b, who, c) => Rests(d, who, c))
  BY <1>2 DEF Has, Rests, Voices
<1> QED
  BY <1>1, <1>2 DEF CallsFit

LEMMA NoneApart ==
  /\ Main \notin Subs
  /\ \A x \in CliTools : x # None
  /\ \A r \in Runs : r # None
BY CliAssumption DEF Runs, ToolMap, Statuses

LEMMA BubbleForm ==
  ASSUME NEW b \in Bubbles
  PROVE  /\ b.segs \in Seq(Segs) /\ b.calls \in ToolMap /\ b.status \in Statuses
         /\ DOMAIN b.subs = Subs /\ \A s \in Subs : b.subs[s] \in Runs \cup {None}
BY DEF Bubbles

\* patchSub and the run it begins with.
LEMMA RunIs ==
  ASSUME NEW b \in Bubbles, NEW s \in Subs, NEW r, r = C!Run(b, s)
  PROVE  /\ r \in Runs
         /\ b.subs[s] = None => r.text = <<>> /\ \A c \in Calls : r.calls[c] = None
         /\ b.subs[s] # None => r = b.subs[s]
<1>1. CASE b.subs[s] = None
  <2>1. r = [text |-> <<>>, calls |-> [c \in Calls |-> None], status |-> "streaming"]
    BY <1>1 DEF C!Run
  <2> QED
    BY <1>1, <2>1 DEF Runs, ToolMap, Statuses
<1>2. CASE b.subs[s] # None
  <2>1. r = b.subs[s]
    BY <1>2 DEF C!Run
  <2> QED
    BY <1>2, <2>1, BubbleForm
<1> QED
  BY <1>1, <1>2

LEMMA PatchIs ==
  ASSUME NEW b \in Bubbles, NEW s \in Subs, NEW r \in Runs, NEW d, d = C!PatchSub(b, s, r)
  PROVE  /\ d \in Bubbles /\ d.segs = b.segs /\ d.calls = b.calls /\ d.status = b.status
         /\ d.subs[s] = r /\ r # None
         /\ \A o \in Subs : o # s => d.subs[o] = b.subs[o]
<1>1. d = [b EXCEPT !.subs = [@ EXCEPT ![s] = r]]
  BY DEF C!PatchSub
<1>2. PICK subs : subs = [b.subs EXCEPT ![s] = r]
  OBVIOUS
<1>3. subs \in [Subs -> Runs \cup {None}] /\ subs[s] = r /\ \A o \in Subs : o # s => subs[o] = b.subs[o]
  <2>1. b.subs \in [Subs -> Runs \cup {None}]
    BY DEF Bubbles
  <2> QED
    BY <1>2, <2>1
<1>4. d \in Bubbles /\ d.segs = b.segs /\ d.calls = b.calls /\ d.status = b.status /\ d.subs = subs
  BY <1>1, <1>2, <1>3 DEF Bubbles
<1> QED
  BY <1>3, <1>4, NoneApart

\* One more word is written.
IsSaid(d, b, who, chunk) == d = C!Said(b, who, chunk)
IsNext(chunk, D, sd, who) == /\ chunk.kind \in Chat /\ chunk.n \in Nat /\ SaysAs(sd, chunk.n, who, chunk.kind)
                             /\ D \subseteq Nat /\ \A m \in D : sd[m].from = who => m < chunk.n
HasToo(E, D, chunk) == E = D \cup {chunk.n}

LEMMA SaidShown ==
  ASSUME NEW b, NEW D, NEW sd, Shown(b, D, sd), NEW who \in Voices, NEW chunk, IsNext(chunk, D, sd, who),
         NEW d, IsSaid(d, b, who, chunk), NEW E, HasToo(E, D, chunk)
  PROVE  Shown(d, E, sd)
<1>0. b \in Bubbles /\ Words(b, D, sd) /\ CallsFit(b, sd)
  BY DEF Shown
<1>1. PICK n, kind : n = chunk.n /\ kind = chunk.kind
  OBVIOUS
<1>2. n \in Nat /\ kind \in Chat /\ SaysAs(sd, n, who, kind) /\ sd[n].from = who
  BY <1>1 DEF SaysAs, IsNext
<1>5. D \subseteq Nat /\ \A m \in D : sd[m].from = who => m < n
  BY <1>1 DEF IsNext
<1>6. E = D \cup {n}
  BY <1>1 DEF HasToo
<1>3. CASE who = Main
  <2>1. PICK t : t = C!AppendChatSegment(b.segs, kind, n)
    OBVIOUS
  <2>2. t \in Seq(Segs) /\ SegsSaid(t, b.segs, kind, n)
    BY <1>0, <1>2, <2>1, BubbleForm, SegmentGrows
  <2>3. d = [b EXCEPT !.segs = t]
    BY <1>1, <1>3, <2>1 DEF C!Said, IsSaid
  <2>4. d \in Bubbles /\ d.segs = t /\ d.calls = b.calls /\ d.status = b.status /\ d.subs = b.subs
    BY <1>0, <2>2, <2>3 DEF Bubbles
  <2>5. MainWords(t, D \cup {n}, sd)
    <3>1. b.segs \in Seq(Segs) /\ MainWords(b.segs, D, sd)
      BY <1>0, BubbleForm DEF Words
    <3>2. SaysAs(sd, n, Main, kind) /\ n \in Nat
      BY <1>2, <1>3
    <3>3. \A m \in D : sd[m].from = Main => m < n
      BY <1>5, <1>3
    <3> QED
      BY <1>5, <2>2, <3>1, <3>2, <3>3, MainSaid
  <2>6. ASSUME NEW s \in Subs
        PROVE  IF d.subs[s] = None THEN \A m \in D \cup {n} : sd[m].from # s ELSE TextIs(d.subs[s].text, D \cup {n}, sd, s)
    <3>1. sd[n].from # s
      BY <1>2, <1>3, NoneApart
    <3>2. CASE d.subs[s] = None
      BY <1>0, <2>4, <3>1, <3>2 DEF Words
    <3>3. CASE d.subs[s] # None
      <4>1. TextIs(d.subs[s].text, D, sd, s)
        BY <1>0, <2>4, <3>3 DEF Words
      <4> QED
        BY <3>1, <3>3, <4>1 DEF TextIs
    <3> QED
      BY <3>2, <3>3
  <2>7. Words(d, D \cup {n}, sd)
    BY <2>4, <2>5, <2>6 DEF Words
  <2>8. CallsFit(d, sd)
    <3>1. \A i : ToolAt(d.segs, i) <=> ToolAt(b.segs, i)
      BY <2>2, <2>4 DEF SegsSaid
    <3>2. \A i : ToolAt(b.segs, i) => d.segs[i] = b.segs[i]
      BY <2>2, <2>4 DEF SegsSaid
    <3> QED
      BY <1>0, <2>4, <3>1, <3>2, CallsStay
  <2> QED
    BY <1>6, <2>4, <2>7, <2>8 DEF Shown
<1>4. CASE who # Main
  <2>0. who \in Subs
    BY <1>4 DEF Voices
  <2>1. PICK r : r = C!Run(b, who)
    OBVIOUS
  <2>2. /\ r \in Runs
        /\ b.subs[who] = None => r.text = <<>> /\ \A c \in Calls : r.calls[c] = None
        /\ b.subs[who] # None => r = b.subs[who]
    BY <1>0, <2>0, <2>1, RunIs
  <2>3. PICK text : IsGrown(text, r.text, n)
    BY DEF IsGrown
  <2>4. PICK x : x = [r EXCEPT !.text = text]
    OBVIOUS
  <2>5. d = C!PatchSub(b, who, x)
    BY <1>1, <1>4, <2>1, <2>3, <2>4 DEF C!Said, IsSaid, IsGrown
  <2>6. TextIs(r.text, D, sd, who) /\ r.text \in Seq(Nat)
    <3>1. CASE b.subs[who] = None
      <4>1. \A m \in D : sd[m].from # who
        BY <1>0, <2>0, <3>1 DEF Words
      <4>2. \A p : p \notin DOMAIN r.text
        BY <2>2, <3>1, Nothing
      <4> QED
        BY <2>2, <4>1, <4>2 DEF TextIs, Runs
    <3>2. CASE b.subs[who] # None
      BY <1>0, <2>0, <2>2, <3>2 DEF Words, Runs
    <3> QED
      BY <3>1, <3>2
  <2>7. text \in Seq(Nat) /\ TextIs(text, D \cup {n}, sd, who)
    <3>1. D \subseteq Nat /\ \A m \in D : sd[m].from = who => m < n
      BY <1>5
    <3>2. n \in Nat /\ SaysAs(sd, n, who, kind)
      BY <1>2
    <3>3. PICK old : old = r.text
      OBVIOUS
    <3>4. IsGrown(text, old, n) /\ old \in Seq(Nat) /\ TextIs(old, D, sd, who)
      BY <2>3, <2>6, <3>3
    <3> QED
      BY <3>1, <3>2, <3>4, TextSaid
  <2>8. x \in Runs /\ x.text = text /\ x.calls = r.calls
    BY <2>2, <2>4, <2>7 DEF Runs
  <2>9. /\ d \in Bubbles /\ d.segs = b.segs /\ d.calls = b.calls /\ d.status = b.status
        /\ d.subs[who] = x /\ x # None
        /\ \A o \in Subs : o # who => d.subs[o] = b.subs[o]
    BY <1>0, <2>0, <2>5, <2>8, PatchIs
  <2>10. MainWords(d.segs, D \cup {n}, sd)
    <3>1. MainWords(b.segs, D, sd) /\ sd[n].from # Main
      BY <1>0, <1>2, <1>4 DEF Words
    <3> QED
      BY <2>9, <3>1 DEF MainWords
  <2>11. ASSUME NEW s \in Subs, s # who
         PROVE  IF d.subs[s] = None THEN \A m \in D \cup {n} : sd[m].from # s ELSE TextIs(d.subs[s].text, D \cup {n}, sd, s)
    <3>1. sd[n].from # s /\ d.subs[s] = b.subs[s]
      BY <1>2, <2>9, <2>11
    <3>2. CASE d.subs[s] = None
      BY <1>0, <3>1, <3>2 DEF Words
    <3>3. CASE d.subs[s] # None
      <4>1. TextIs(d.subs[s].text, D, sd, s)
        BY <1>0, <3>1, <3>3 DEF Words
      <4> QED
        BY <3>1, <3>3, <4>1 DEF TextIs
    <3> QED
      BY <3>2, <3>3
  <2>12. Words(d, D \cup {n}, sd)
    BY <2>7, <2>8, <2>9, <2>10, <2>11 DEF Words
  <2>13. \A s \in Subs : b.subs[s] # None => d.subs[s] # None /\ d.subs[s].calls = b.subs[s].calls
    BY <2>2, <2>8, <2>9
  <2>14. CallsFit(d, sd)
    BY <1>0, <2>9, <2>13, CallsStay
  <2> QED
    BY <1>6, <2>9, <2>12, <2>14 DEF Shown
<1> QED
  BY <1>3, <1>4

\* One round of the loops over a message: the chunks of an agent, the agents, the deltas
\* of the calls, the segments.
Round(loop, of, n, x) ==
  CASE loop = "chunks" -> C!Said(x, of.from, of.chunks[n])
    [] loop = "agents" -> C!EntrySaid(x, of[n])
    [] loop = "calls"  -> C!WithDeltas(x, of.order[n], of.deltas[of.order[n]])
    [] loop = "segs"   -> IF of.segs[n].kind = of.kind THEN x \o of.segs[n].of ELSE x
RoundMade(loop, of, base, n, g) == g[n] = IF n = 0 THEN base ELSE Round(loop, of, n, g[n - 1])

LEMMA RoundsMade ==
  ASSUME NEW loop, NEW of, NEW base, NEW N \in Nat
  PROVE  \E g : \A n \in 0..N : RoundMade(loop, of, base, n, g)
<1> DEFINE bad == {m \in 0..N : ~\E g : \A n \in 0..m : RoundMade(loop, of, base, n, g)}
<1>1. bad = {}
  <2> SUFFICES ASSUME bad # {} PROVE FALSE
    OBVIOUS
  <2>0. bad \subseteq Nat
    OBVIOUS
  <2> HIDE DEF bad
  <2>1. PICK x \in bad : \A y \in bad : x <= y
    BY <2>0, LeastElement
  <2> USE DEF bad
  <2>2. CASE x = 0
    <3>1. \A n \in 0..0 : RoundMade(loop, of, base, n, [k \in {0} |-> base])
      BY DEF RoundMade
    <3> QED
      BY <2>1, <2>2, <3>1
  <2>3. CASE x # 0
    <3>0. x \in Nat /\ x \in 0..N
      OBVIOUS
    <3>1. x \in Nat /\ x - 1 \in 0..N /\ x - 1 \notin bad
      <4> HIDE DEF bad
      <4>1. x - 1 \notin bad
        BY <2>1, <3>0
      <4> QED
        BY <2>3, <3>0, <4>1
    <3>2. PICK g : \A n \in 0..x - 1 : RoundMade(loop, of, base, n, g)
      BY <3>1
    <3>3. PICK newest : newest = Round(loop, of, x, g[x - 1])
      OBVIOUS
    <3> DEFINE h == [n \in 0..x |-> IF n = x THEN newest ELSE g[n]]
    <3>4. ASSUME NEW n \in 0..x PROVE RoundMade(loop, of, base, n, h)
      <4>1. CASE n = x
        <5>1. h[n] = newest /\ h[n - 1] = g[x - 1]
          BY <2>3, <3>1, <4>1
        <5> QED
          BY <2>3, <3>3, <4>1, <5>1 DEF RoundMade
      <4>2. CASE n # x
        <5>1. n \in 0..x - 1 /\ n - 1 # x /\ (n # 0 => n - 1 \in 0..x)
          BY <3>1, <4>2
        <5>2. h[n] = g[n] /\ (n # 0 => h[n - 1] = g[n - 1])
          BY <4>2, <5>1
        <5> QED
          BY <3>2, <5>1, <5>2 DEF RoundMade
      <4> QED
        BY <4>1, <4>2
    <3> QED
      BY <2>1, <3>4
  <2> QED
    BY <2>2, <2>3
<1> QED
  <2>1. N \in 0..N /\ N \notin bad
    BY <1>1
  <2> QED
    BY <2>1

\* A function over the first numbers is determined by its values.
LEMMA SameRounds ==
  ASSUME NEW N \in Nat, NEW g, NEW f, f = [n \in 0..N |-> g[n]], NEW e, DOMAIN e = 0..N, e = [n \in 0..N |-> e[n]],
         \A n \in 0..N : f[n] = e[n]
  PROVE  f = e
OBVIOUS

LEMMA ChunksRounds ==
  ASSUME NEW b, NEW of, Len(of.chunks) \in Nat
  PROVE  \E g : /\ C!EntrySaid(b, of) = g[Len(of.chunks)]
                /\ \A n \in 0..Len(of.chunks) : RoundMade("chunks", of, b, n, g)
<1> DEFINE N == Len(of.chunks)
<1> DEFINE body(g) == [n \in 0..N |-> IF n = 0 THEN b ELSE C!Said(g[n - 1], of.from, of.chunks[n])]
<1> DEFINE made == CHOOSE g : g = body(g)
<1>1. C!EntrySaid(b, of) = made[N]
  BY DEF C!EntrySaid, C!Folded
<1>2. made = body(made)
  <2>1. PICK g : \A n \in 0..N : RoundMade("chunks", of, b, n, g)
    BY RoundsMade
  <2> DEFINE f == [n \in 0..N |-> g[n]]
  <2>2. ASSUME NEW n \in 0..N PROVE f[n] = IF n = 0 THEN b ELSE C!Said(f[n - 1], of.from, of.chunks[n])
    <3>1. n # 0 => n - 1 \in 0..N
      OBVIOUS
    <3> QED
      BY <2>1, <3>1 DEF RoundMade, Round
  <2>3. f = body(f)
    <3> HIDE DEF f, made
    <3>1. PICK e : e = body(f)
      OBVIOUS
    <3>2. f = [n \in 0..N |-> g[n]]
      BY DEF f
    <3>3. \A n \in 0..N : f[n] = e[n]
      BY <2>2, <3>1
    <3>4. DOMAIN e = 0..N /\ e = [n \in 0..N |-> e[n]]
      BY <3>1
    <3>5. f = e
      BY <3>2, <3>3, <3>4, SameRounds
    <3> QED
      BY <3>1, <3>5
  <2> QED
    BY <2>3, Zenon
<1>3. \A n \in 0..N : RoundMade("chunks", of, b, n, made)
  BY <1>2 DEF RoundMade, Round
<1> QED
  BY <1>1, <1>3

LEMMA AgentsRounds ==
  ASSUME NEW b, Len(textBuf) \in Nat
  PROVE  \E g : /\ C!FlushText(b) = g[Len(textBuf)]
                /\ \A n \in 0..Len(textBuf) : RoundMade("agents", textBuf, b, n, g)
<1> DEFINE N == Len(textBuf)
<1> DEFINE body(g) == [n \in 0..N |-> IF n = 0 THEN b ELSE C!EntrySaid(g[n - 1], textBuf[n])]
<1> DEFINE made == CHOOSE g : g = body(g)
<1>1. C!FlushText(b) = made[N]
  BY DEF C!FlushText, C!Folded
<1>2. made = body(made)
  <2>1. PICK g : \A n \in 0..N : RoundMade("agents", textBuf, b, n, g)
    BY RoundsMade
  <2> DEFINE f == [n \in 0..N |-> g[n]]
  <2>2. ASSUME NEW n \in 0..N PROVE f[n] = IF n = 0 THEN b ELSE C!EntrySaid(f[n - 1], textBuf[n])
    <3>1. n # 0 => n - 1 \in 0..N
      OBVIOUS
    <3> QED
      BY <2>1, <3>1 DEF RoundMade, Round
  <2>3. f = body(f)
    <3> HIDE DEF f, made
    <3>1. PICK e : e = body(f)
      OBVIOUS
    <3>2. f = [n \in 0..N |-> g[n]]
      BY DEF f
    <3>3. \A n \in 0..N : f[n] = e[n]
      BY <2>2, <3>1
    <3>4. DOMAIN e = 0..N /\ e = [n \in 0..N |-> e[n]]
      BY <3>1
    <3>5. f = e
      BY <3>2, <3>3, <3>4, SameRounds
    <3> QED
      BY <3>1, <3>5
  <2> QED
    BY <2>3, Zenon
<1>3. \A n \in 0..N : RoundMade("agents", textBuf, b, n, made)
  <2>1. PICK g : g = made
    OBVIOUS
  <2>2. g = body(g)
    BY <1>2, <2>1
  <2> HIDE DEF made
  <2>3. \A n \in 0..N : g[n] = IF n = 0 THEN b ELSE C!EntrySaid(g[n - 1], textBuf[n])
    BY <2>2
  <2>4. \A n \in 0..N : RoundMade("agents", textBuf, b, n, g)
    BY <2>3 DEF RoundMade, Round
  <2> QED
    BY <2>1, <2>4
<1> QED
  BY <1>1, <1>3

LEMMA CallsRounds ==
  ASSUME NEW b, NEW buf, NEW of, of.order = C!SetToSeq(Calls), of.deltas = buf, Len(of.order) \in Nat
  PROVE  \E g : /\ C!FlushDeltas(b, buf) = g[Len(of.order)]
                /\ \A n \in 0..Len(of.order) : RoundMade("calls", of, b, n, g)
<1> DEFINE N == Len(of.order)
<1> DEFINE body(g) == [n \in 0..N |-> IF n = 0 THEN b ELSE C!WithDeltas(g[n - 1], of.order[n], of.deltas[of.order[n]])]
<1> DEFINE made == CHOOSE g : g = body(g)
<1>1. C!FlushDeltas(b, buf) = made[N]
  BY DEF C!FlushDeltas, C!Folded
<1>2. made = body(made)
  <2>1. PICK g : \A n \in 0..N : RoundMade("calls", of, b, n, g)
    BY RoundsMade
  <2> DEFINE f == [n \in 0..N |-> g[n]]
  <2>2. ASSUME NEW n \in 0..N PROVE f[n] = IF n = 0 THEN b ELSE C!WithDeltas(f[n - 1], of.order[n], of.deltas[of.order[n]])
    <3>1. n # 0 => n - 1 \in 0..N
      OBVIOUS
    <3> QED
      BY <2>1, <3>1 DEF RoundMade, Round
  <2>3. f = body(f)
    <3> HIDE DEF f, made
    <3>1. PICK e : e = body(f)
      OBVIOUS
    <3>2. f = [n \in 0..N |-> g[n]]
      BY DEF f
    <3>3. \A n \in 0..N : f[n] = e[n]
      BY <2>2, <3>1
    <3>4. DOMAIN e = 0..N /\ e = [n \in 0..N |-> e[n]]
      BY <3>1
    <3>5. f = e
      BY <3>2, <3>3, <3>4, SameRounds
    <3> QED
      BY <3>1, <3>5
  <2> QED
    BY <2>3, Zenon
<1>3. \A n \in 0..N : RoundMade("calls", of, b, n, made)
  <2>1. PICK g : g = made
    OBVIOUS
  <2>2. g = body(g)
    BY <1>2, <2>1
  <2> HIDE DEF made
  <2>3. \A n \in 0..N : g[n] = IF n = 0 THEN b ELSE C!WithDeltas(g[n - 1], of.order[n], of.deltas[of.order[n]])
    BY <2>2
  <2>4. \A n \in 0..N : RoundMade("calls", of, b, n, g)
    BY <2>3 DEF RoundMade, Round
  <2> QED
    BY <2>1, <2>4
<1> QED
  BY <1>1, <1>3

LEMMA SegsRounds ==
  ASSUME NEW kind, NEW of, of.segs = bubble.segs, of.kind = kind, Len(of.segs) \in Nat
  PROVE  \E g : /\ C!TextOf(kind) = g[Len(of.segs)]
                /\ \A n \in 0..Len(of.segs) : RoundMade("segs", of, <<>>, n, g)
<1> DEFINE N == Len(of.segs)
<1> DEFINE body(g) == [n \in 0..N |-> IF n = 0 THEN <<>> ELSE (IF of.segs[n].kind = of.kind THEN g[n - 1] \o of.segs[n].of ELSE g[n - 1])]
<1> DEFINE made == CHOOSE g : g = body(g)
<1>1. C!TextOf(kind) = made[N]
  BY DEF C!TextOf, C!Folded
<1>2. made = body(made)
  <2>1. PICK g : \A n \in 0..N : RoundMade("segs", of, <<>>, n, g)
    BY RoundsMade
  <2> DEFINE f == [n \in 0..N |-> g[n]]
  <2>2. ASSUME NEW n \in 0..N PROVE f[n] = IF n = 0 THEN <<>> ELSE (IF of.segs[n].kind = of.kind THEN f[n - 1] \o of.segs[n].of ELSE f[n - 1])
    <3>1. n # 0 => n - 1 \in 0..N
      OBVIOUS
    <3> QED
      BY <2>1, <3>1 DEF RoundMade, Round
  <2>3. f = body(f)
    <3> HIDE DEF f, made
    <3>1. PICK e : e = body(f)
      OBVIOUS
    <3>2. f = [n \in 0..N |-> g[n]]
      BY DEF f
    <3>3. \A n \in 0..N : f[n] = e[n]
      BY <2>2, <3>1
    <3>4. DOMAIN e = 0..N /\ e = [n \in 0..N |-> e[n]]
      BY <3>1
    <3>5. f = e
      BY <3>2, <3>3, <3>4, SameRounds
    <3> QED
      BY <3>1, <3>5
  <2> QED
    BY <2>3, Zenon
<1>3. \A n \in 0..N : RoundMade("segs", of, <<>>, n, made)
  <2>1. PICK g : g = made
    OBVIOUS
  <2>2. g = body(g)
    BY <1>2, <2>1
  <2> HIDE DEF made
  <2>3. \A n \in 0..N : g[n] = IF n = 0 THEN <<>> ELSE (IF of.segs[n].kind = of.kind THEN g[n - 1] \o of.segs[n].of ELSE g[n - 1])
    BY <2>2
  <2>4. \A n \in 0..N : RoundMade("segs", of, <<>>, n, g)
    BY <2>3 DEF RoundMade, Round
  <2> QED
    BY <2>1, <2>4
<1> QED
  BY <1>1, <1>3

\* Induction, about a set of numbers.
LEMMA Reached ==
  ASSUME NEW N \in Nat, NEW P, 0 \in P, \A n \in 1..N : n - 1 \in P => n \in P
  PROVE  \A n \in 0..N : n \in P
<1> DEFINE bad == {n \in 0..N : n \notin P}
<1>1. bad = {}
  <2> SUFFICES ASSUME bad # {} PROVE FALSE
    OBVIOUS
  <2>0. bad \subseteq Nat
    OBVIOUS
  <2> HIDE DEF bad
  <2>1. PICK x \in bad : \A y \in bad : x <= y
    BY <2>0, LeastElement
  <2>2. x \in 0..N /\ x \notin P
    BY DEF bad
  <2>3. x \in 1..N /\ x - 1 \in 0..N /\ ~(x <= x - 1)
    BY <2>2
  <2>4. x - 1 \in P
    BY <2>1, <2>3 DEF bad
  <2> QED
    BY <2>2, <2>3, <2>4
<1> QED
  BY <1>1

Chunks == [kind : Chat, n : Nat]
Buffered == [from : Voices, chunks : Seq(Chunks)]

\* The words that wait are the agent's, in order, and later than those shown.
EntryFits(entry, D, sd) ==
  /\ \A k \in DOMAIN entry.chunks : SaysAs(sd, entry.chunks[k].n, entry.from, entry.chunks[k].kind)
  /\ \A k, l \in DOMAIN entry.chunks : k < l => entry.chunks[k].n < entry.chunks[l].n
  /\ \A k \in DOMAIN entry.chunks : \A m \in D : sd[m].from = entry.from => m < entry.chunks[k].n

NumbersUpTo(entry, n) == {entry.chunks[k].n : k \in 1..n}
NumbersOf(entry) == {entry.chunks[k].n : k \in DOMAIN entry.chunks}

LEMMA EntryShown ==
  ASSUME NEW b, NEW D, D \subseteq Nat, NEW sd, Shown(b, D, sd), NEW entry \in Buffered, EntryFits(entry, D, sd),
         NEW d, d = C!EntrySaid(b, entry)
  PROVE  Shown(d, D \cup NumbersOf(entry), sd)
<1>1. PICK N : N = Len(entry.chunks)
  OBVIOUS
<1>2. N \in Nat /\ DOMAIN entry.chunks = 1..N /\ entry.from \in Voices /\ \A k \in 1..N : entry.chunks[k] \in Chunks
  BY <1>1 DEF Buffered
<1>3. PICK g : d = g[N] /\ \A n \in 0..N : RoundMade("chunks", entry, b, n, g)
  BY <1>1, <1>2, ChunksRounds
<1>4. \A n \in 0..N : g[n] = IF n = 0 THEN b ELSE C!Said(g[n - 1], entry.from, entry.chunks[n])
  BY <1>3 DEF RoundMade, Round
<1> DEFINE right(n) == Shown(g[n], D \cup NumbersUpTo(entry, n), sd)
<1> DEFINE P == {n \in 0..N : right(n)}
<1>5. 0 \in P
  <2>1. D \cup NumbersUpTo(entry, 0) = D
    BY DEF NumbersUpTo
  <2>2. g[0] = b /\ 0 \in 0..N
    BY <1>2, <1>4
  <2> QED
    BY <1>2, <2>1, <2>2
<1>6. ASSUME NEW n \in 1..N, n - 1 \in P PROVE n \in P
  <2>1. PICK E : E = D \cup NumbersUpTo(entry, n - 1)
    OBVIOUS
  <2>2. PICK x : x = g[n - 1]
    OBVIOUS
  <2>3. PICK chunk : chunk = entry.chunks[n]
    OBVIOUS
  <2>4. PICK y : y = g[n]
    OBVIOUS
  <2>5. y = C!Said(x, entry.from, chunk)
    BY <1>4, <2>2, <2>3, <2>4
  <2>6. Shown(x, E, sd)
    BY <1>6, <2>1, <2>2
  <2>7. chunk.kind \in Chat /\ chunk.n \in Nat /\ SaysAs(sd, chunk.n, entry.from, chunk.kind)
    BY <1>2, <2>3 DEF EntryFits, Chunks
  <2>8. E \subseteq Nat
    <3>1. \A k \in 1..n - 1 : k \in 1..N
      BY <1>2
    <3>2. \A k \in 1..N : entry.chunks[k].n \in Nat
      BY <1>2 DEF Chunks
    <3> QED
      BY <2>1, <3>1, <3>2 DEF NumbersUpTo
  <2>9. \A m \in E : sd[m].from = entry.from => m < chunk.n
    <3>1. ASSUME NEW k \in 1..n - 1 PROVE entry.chunks[k].n < chunk.n
      <4>1. k \in 1..N /\ k < n /\ n \in 1..N
        BY <1>2
      <4> QED
        BY <1>2, <2>3, <4>1 DEF EntryFits
    <3>2. \A m \in D : sd[m].from = entry.from => m < chunk.n
      BY <1>2, <2>3 DEF EntryFits
    <3> QED
      BY <2>1, <3>1, <3>2 DEF NumbersUpTo
  <2>10. E \cup {chunk.n} = D \cup NumbersUpTo(entry, n)
    <3>1. 1..n = (1..n - 1) \cup {n}
      BY <1>2
    <3> QED
      BY <2>1, <2>3, <3>1 DEF NumbersUpTo
  <2>11. PICK F : HasToo(F, E, chunk)
    BY DEF HasToo
  <2>12. Shown(y, F, sd)
    <3>1. PICK who : who = entry.from
      OBVIOUS
    <3>2. IsSaid(y, x, who, chunk) /\ who \in Voices
      BY <1>2, <2>5, <3>1 DEF IsSaid
    <3>3. IsNext(chunk, E, sd, who)
      BY <2>7, <2>8, <2>9, <3>1 DEF IsNext
    <3> QED
      BY <2>6, <2>11, <3>2, <3>3, SaidShown
  <2>13. F = D \cup NumbersUpTo(entry, n)
    BY <2>10, <2>11 DEF HasToo
  <2>14. right(n)
    BY <2>4, <2>12, <2>13
  <2> QED
    BY <1>2, <2>14
<1>7. N \in P
  <2> HIDE DEF P
  <2>1. \A n \in 0..N : n \in P
    BY <1>2, <1>5, <1>6, Reached
  <2> QED
    BY <1>2, <2>1
<1>8. NumbersUpTo(entry, N) = NumbersOf(entry)
  BY <1>2 DEF NumbersUpTo, NumbersOf
<1> QED
  BY <1>3, <1>7, <1>8

WaitsIn(buf, n) == \E e \in DOMAIN buf : n \in NumbersOf(buf[e])
Heard(sd) == {n \in DOMAIN sd : sd[n].type \in Chat}
Wrote(sd, buf) == {n \in Heard(sd) : ~WaitsIn(buf, n)}

\* Each agent has one entry, whose words come after those written.
BufFits(buf, sd) ==
  /\ buf \in Seq(Buffered)
  /\ \A e, f \in DOMAIN buf : buf[e].from = buf[f].from => e = f
  /\ \A e \in DOMAIN buf : EntryFits(buf[e], Wrote(sd, buf), sd)

WaitUpTo(buf, n) == {m \in Nat : \E e \in 1..n : m \in NumbersOf(buf[e])}

\* flushSseTextBuf: all that was heard is shown.
LEMMA TextShown ==
  ASSUME NEW b, NEW sd, DOMAIN sd \subseteq Nat, BufFits(textBuf, sd), NEW D, D = Wrote(sd, textBuf), Shown(b, D, sd),
         NEW d, d = C!FlushText(b)
  PROVE  Shown(d, Heard(sd), sd)
<1>1. PICK buf, N : buf = textBuf /\ N = Len(textBuf)
  OBVIOUS
<1>2. N \in Nat /\ DOMAIN buf = 1..N /\ \A k \in 1..N : buf[k] \in Buffered
  BY <1>1 DEF BufFits
<1>3. PICK g : d = g[N] /\ \A n \in 0..N : RoundMade("agents", buf, b, n, g)
  BY <1>1, <1>2, AgentsRounds
<1>4. \A n \in 0..N : g[n] = IF n = 0 THEN b ELSE C!EntrySaid(g[n - 1], buf[n])
  BY <1>3 DEF RoundMade, Round
<1>0. D \subseteq Nat
  BY DEF Wrote, Heard
<1>9. /\ \A e, f \in 1..N : buf[e].from = buf[f].from => e = f
      /\ \A e \in 1..N : EntryFits(buf[e], D, sd)
  BY <1>1, <1>2 DEF BufFits
<1>10. \A e \in 1..N : /\ NumbersOf(buf[e]) \subseteq Nat
                       /\ \A m \in NumbersOf(buf[e]) : sd[m].from = buf[e].from /\ m \in Heard(sd)
  <2> SUFFICES ASSUME NEW e \in 1..N, NEW k \in DOMAIN buf[e].chunks
               PROVE  LET m == buf[e].chunks[k].n IN m \in Nat /\ sd[m].from = buf[e].from /\ m \in Heard(sd)
    BY DEF NumbersOf
  <2>1. buf[e].chunks[k] \in Chunks
    BY <1>2 DEF Buffered
  <2>2. SaysAs(sd, buf[e].chunks[k].n, buf[e].from, buf[e].chunks[k].kind)
    BY <1>9 DEF EntryFits
  <2> QED
    BY <2>1, <2>2 DEF Chunks, SaysAs, Heard
<1> DEFINE right(n) == Shown(g[n], D \cup WaitUpTo(buf, n), sd)
<1> DEFINE P == {n \in 0..N : right(n)}
<1>5. 0 \in P
  <2>1. D \cup WaitUpTo(buf, 0) = D
    BY DEF WaitUpTo
  <2>2. g[0] = b /\ 0 \in 0..N
    BY <1>2, <1>4
  <2> QED
    BY <1>2, <2>1, <2>2
<1>6. ASSUME NEW n \in 1..N, n - 1 \in P PROVE n \in P
  <2>1. PICK E : E = D \cup WaitUpTo(buf, n - 1)
    OBVIOUS
  <2>2. PICK x : x = g[n - 1]
    OBVIOUS
  <2>3. PICK entry : entry = buf[n]
    OBVIOUS
  <2>4. PICK y : y = g[n]
    OBVIOUS
  <2>5. y = C!EntrySaid(x, entry)
    BY <1>4, <2>2, <2>3, <2>4
  <2>6. Shown(x, E, sd)
    BY <1>6, <2>1, <2>2
  <2>7. entry \in Buffered
    BY <1>2, <2>3
  <2>8. E \subseteq Nat
    BY <1>0, <2>1 DEF WaitUpTo
  <2>9. EntryFits(entry, E, sd)
    <3>1. EntryFits(entry, D, sd)
      BY <1>9, <2>3
    <3>2. ASSUME NEW m \in WaitUpTo(buf, n - 1) PROVE sd[m].from # entry.from
      <4>1. PICK e \in 1..n - 1 : m \in NumbersOf(buf[e])
        BY DEF WaitUpTo
      <4>2. e \in 1..N /\ e # n /\ n \in 1..N
        BY <1>2
      <4> QED
        BY <1>9, <1>10, <2>3, <4>1, <4>2
    <3> QED
      BY <2>1, <3>1, <3>2 DEF EntryFits
  <2>10. E \cup NumbersOf(entry) = D \cup WaitUpTo(buf, n)
    <3>1. 1..n = (1..n - 1) \cup {n}
      BY <1>2
    <3>2. WaitUpTo(buf, n) = WaitUpTo(buf, n - 1) \cup NumbersOf(entry)
      BY <1>10, <2>3, <3>1 DEF WaitUpTo
    <3> QED
      BY <2>1, <3>2
  <2>11. Shown(y, E \cup NumbersOf(entry), sd)
    BY <2>5, <2>6, <2>7, <2>8, <2>9, EntryShown
  <2>12. right(n)
    BY <2>4, <2>10, <2>11
  <2> QED
    BY <1>2, <2>12
<1>7. N \in P
  <2> HIDE DEF P
  <2>1. \A n \in 0..N : n \in P
    BY <1>2, <1>5, <1>6, Reached
  <2> QED
    BY <1>2, <2>1
<1>8. D \cup WaitUpTo(buf, N) = Heard(sd)
  <2>1. \A m \in WaitUpTo(buf, N) : m \in Heard(sd)
    BY <1>10 DEF WaitUpTo
  <2>2. \A m \in Heard(sd) : m \in Nat /\ (m \notin D => WaitsIn(buf, m))
    BY <1>1 DEF Wrote, Heard
  <2>3. \A m \in Nat : WaitsIn(buf, m) => m \in WaitUpTo(buf, N)
    BY <1>2 DEF WaitsIn, WaitUpTo
  <2> QED
    BY <2>1, <2>2, <2>3 DEF Wrote
<1> QED
  BY <1>3, <1>7, <1>8

\* The words and the calls of the segments stay where they are.
SegsKeep(t, segs) ==
  /\ \A i, p : At(t, i, p) <=> At(segs, i, p)
  /\ \A i, p : At(segs, i, p) => t[i].of[p] = segs[i].of[p] /\ t[i].kind = segs[i].kind
  /\ \A i : ToolAt(segs, i) => ToolAt(t, i) /\ t[i] = segs[i]
  /\ ToolOnce(segs) => ToolOnce(t)

\* No word is written and no call is lost; only c may be at work again.
Mends(d, b, c) ==
  /\ d \in Bubbles
  /\ SegsKeep(d.segs, b.segs)
  /\ \A s \in Subs : IF b.subs[s] = None THEN d.subs[s] = None \/ d.subs[s].text = <<>>
                     ELSE d.subs[s] # None /\ d.subs[s].text = b.subs[s].text
  /\ \A who \in Voices, k \in Calls : Has(b, who, k) => /\ Has(d, who, k)
                                                        /\ k # c /\ Rests(b, who, k) => Rests(d, who, k)

LEMMA MendsShown ==
  ASSUME NEW b, NEW D, NEW sd, Shown(b, D, sd), NEW c, NEW d, Mends(d, b, c),
         c \in Calls => \A who \in Voices : ~FrameOf(sd, "result", who, c)
  PROVE  Shown(d, D, sd)
<1>0. b \in Bubbles /\ Words(b, D, sd) /\ CallsFit(b, sd)
  BY DEF Shown
<1>1. MainWords(d.segs, D, sd)
  <2>1. MainWords(b.segs, D, sd) /\ SegsKeep(d.segs, b.segs)
    BY <1>0 DEF Words, Mends
  <2> QED
    BY <2>1 DEF SegsKeep, MainWords
<1>2. ASSUME NEW s \in Subs
      PROVE  IF d.subs[s] = None THEN \A m \in D : sd[m].from # s ELSE TextIs(d.subs[s].text, D, sd, s)
  <2>1. CASE b.subs[s] = None
    <3>1. \A m \in D : sd[m].from # s
      BY <1>0, <2>1 DEF Words
    <3>2. CASE d.subs[s] = None
      BY <3>1, <3>2
    <3>3. CASE d.subs[s] # None
      <4>1. PICK text : text = d.subs[s].text
        OBVIOUS
      <4>2. text = <<>>
        BY <2>1, <3>3, <4>1 DEF Mends
      <4>3. \A p : p \notin DOMAIN text
        BY <4>2, Nothing
      <4> QED
        BY <3>1, <3>3, <4>1, <4>3 DEF TextIs
    <3> QED
      BY <3>2, <3>3
  <2>2. CASE b.subs[s] # None
    BY <1>0, <2>2 DEF Words, Mends
  <2> QED
    BY <2>1, <2>2
<1>3. CallsFit(d, sd)
  <2>1. ToolOnce(d.segs)
    BY <1>0 DEF CallsFit, Mends, SegsKeep
  <2>2. ASSUME NEW who \in Voices, NEW k \in Calls, FrameOf(sd, "call", who, k) PROVE Has(d, who, k)
    BY <1>0, <2>2 DEF CallsFit, Mends
  <2>3. ASSUME NEW who \in Voices, NEW k \in Calls, FrameOf(sd, "result", who, k) PROVE Has(d, who, k) /\ Rests(d, who, k)
    <3>1. k # c
      BY <2>3
    <3> QED
      BY <1>0, <2>3, <3>1 DEF CallsFit, Mends
  <2> QED
    BY <2>1, <2>2, <2>3 DEF CallsFit
<1> QED
  BY <1>1, <1>2, <1>3 DEF Shown, Mends, Words

LEMMA SameSegs == ASSUME NEW segs PROVE SegsKeep(segs, segs)
BY DEF SegsKeep

\* upsertToolSegment
Listed(segs, c) == \E i : ToolAt(segs, i) /\ segs[i].of = c

LEMMA UpsertIs ==
  ASSUME NEW segs \in Seq(Segs), NEW c \in Calls, NEW t, t = C!UpsertToolSegment(segs, c)
  PROVE  t \in Seq(Segs) /\ SegsKeep(t, segs) /\ Listed(t, c)
<1>1. CASE C!HasSegment(segs, c)
  <2>1. t = segs
    BY <1>1 DEF C!UpsertToolSegment
  <2>2. PICK i \in DOMAIN segs : segs[i] = [kind |-> "tool", of |-> c]
    BY <1>1 DEF C!HasSegment
  <2>3. ToolAt(t, i) /\ t[i].of = c
    BY <2>1, <2>2 DEF ToolAt
  <2> QED
    BY <2>1, <2>3, SameSegs DEF Listed
<1>2. CASE ~C!HasSegment(segs, c)
  <2>1. PICK x : x = [kind |-> "tool", of |-> c]
    OBVIOUS
  <2>2. x \in Segs /\ x.kind = "tool" /\ x.of = c /\ "tool" \notin Chat
    BY <2>1 DEF Segs, Chat
  <2>3. IsGrown(t, segs, x)
    BY <1>2, <2>1 DEF C!UpsertToolSegment, IsGrown
  <2>4. /\ t \in Seq(Segs) /\ Len(t) = Len(segs) + 1 /\ DOMAIN t = 1..Len(segs) + 1
        /\ Len(segs) \in Nat /\ DOMAIN segs = 1..Len(segs)
        /\ t[Len(segs) + 1] = x
        /\ \A i \in DOMAIN segs : t[i] = segs[i] /\ i \in DOMAIN t /\ i < Len(segs) + 1 /\ i \in Nat
    BY <2>2, <2>3, AppendIs
  <2>5. PICK l : l = Len(segs) + 1
    OBVIOUS
  <2>6. /\ l \in DOMAIN t /\ t[l] = x /\ l \notin DOMAIN segs
        /\ \A i : i \in DOMAIN t <=> i \in DOMAIN segs \/ i = l
        /\ \A i \in DOMAIN segs : t[i] = segs[i]
    BY <2>4, <2>5
  <2>7. \A i \in DOMAIN segs : ~(segs[i].kind = "tool" /\ segs[i].of = c)
    <3> SUFFICES ASSUME NEW i \in DOMAIN segs, segs[i].kind = "tool", segs[i].of = c PROVE FALSE
      OBVIOUS
    <3>1. segs[i] \in Segs
      OBVIOUS
    <3>2. segs[i] = [kind |-> "tool", of |-> c]
      BY <3>1, SegForms
    <3> QED
      BY <1>2, <3>2 DEF C!HasSegment
  <2>8. /\ \A i, p : At(t, i, p) <=> At(segs, i, p)
        /\ \A i, p : At(segs, i, p) => t[i].of[p] = segs[i].of[p] /\ t[i].kind = segs[i].kind
    BY <2>2, <2>6 DEF At
  <2>9. /\ \A i : ToolAt(segs, i) => ToolAt(t, i) /\ t[i] = segs[i]
        /\ \A i : ToolAt(t, i) <=> ToolAt(segs, i) \/ i = l
    BY <2>2, <2>6 DEF ToolAt
  <2>10. ASSUME ToolOnce(segs) PROVE ToolOnce(t)
    <3> SUFFICES ASSUME NEW i, NEW j, ToolAt(t, i), ToolAt(t, j), t[i].of = t[j].of PROVE i = j
      BY DEF ToolOnce
    <3>1. \A k : ToolAt(segs, k) => t[k] = segs[k] /\ segs[k].of # c /\ k # l
      BY <2>6, <2>7, <2>9 DEF ToolAt
    <3>2. t[l].of = c
      BY <2>2, <2>6
    <3> QED
      BY <2>9, <2>10, <3>1, <3>2 DEF ToolOnce
  <2> QED
    BY <2>2, <2>4, <2>6, <2>8, <2>9, <2>10 DEF SegsKeep, Listed
<1> QED
  BY <1>1, <1>2

\* The ways a call changes: of the main agent, and in the run of a sub-agent.
CallsTurn(new, old, c) == \A k \in Calls : (old[k] # None => new[k] # None) /\ (k # c => new[k] = old[k])
RunTurns(x, r, c) == x.text = r.text /\ CallsTurn(x.calls, r.calls, c)

LEMMA MendsMain ==
  ASSUME NEW b \in Bubbles, NEW d \in Bubbles, NEW c, d.subs = b.subs, SegsKeep(d.segs, b.segs),
         CallsTurn(d.calls, b.calls, c)
  PROVE  Mends(d, b, c)
<1>1. \A s \in Subs : IF b.subs[s] = None THEN d.subs[s] = None \/ d.subs[s].text = <<>>
                      ELSE d.subs[s] # None /\ d.subs[s].text = b.subs[s].text
  OBVIOUS
<1>2. ASSUME NEW who \in Voices, NEW k \in Calls, Has(b, who, k)
      PROVE  Has(d, who, k) /\ (k # c /\ Rests(b, who, k) => Rests(d, who, k))
  <2>1. CASE who = Main
    <3>1. b.calls[k] # None /\ \E i : ToolAt(b.segs, i) /\ b.segs[i].of = k
      BY <1>2, <2>1 DEF Has
    <3>2. d.calls[k] # None /\ \E i : ToolAt(d.segs, i) /\ d.segs[i].of = k
      BY <3>1 DEF CallsTurn, SegsKeep
    <3>3. k # c => d.calls[k] = b.calls[k]
      BY DEF CallsTurn
    <3> QED
      BY <2>1, <3>2, <3>3 DEF Has, Rests
  <2>2. CASE who # Main
    BY <1>2, <2>2 DEF Has, Rests
  <2> QED
    BY <2>1, <2>2
<1> QED
  BY <1>1, <1>2 DEF Mends

LEMMA MendsSub ==
  ASSUME NEW b \in Bubbles, NEW s \in Subs, NEW r, r = C!Run(b, s), NEW x \in Runs, NEW c,
         RunTurns(x, r, c), NEW d, d = C!PatchSub(b, s, x)
  PROVE  Mends(d, b, c) /\ d.subs[s] = x
<1>1. /\ d \in Bubbles /\ d.segs = b.segs /\ d.calls = b.calls /\ d.status = b.status
      /\ d.subs[s] = x /\ x # None
      /\ \A o \in Subs : o # s => d.subs[o] = b.subs[o]
  BY PatchIs
<1>2. /\ r \in Runs
      /\ b.subs[s] = None => r.text = <<>> /\ \A k \in Calls : r.calls[k] = None
      /\ b.subs[s] # None => r = b.subs[s]
  BY RunIs
<1>3. SegsKeep(d.segs, b.segs)
  BY <1>1, SameSegs
<1>4. \A o \in Subs : IF b.subs[o] = None THEN d.subs[o] = None \/ d.subs[o].text = <<>>
                      ELSE d.subs[o] # None /\ d.subs[o].text = b.subs[o].text
  BY <1>1, <1>2 DEF RunTurns
<1>5. ASSUME NEW who \in Voices, NEW k \in Calls, Has(b, who, k)
      PROVE  Has(d, who, k) /\ (k # c /\ Rests(b, who, k) => Rests(d, who, k))
  <2>1. CASE who = Main
    BY <1>1, <1>5, <2>1 DEF Has, Rests
  <2>2. CASE who # Main /\ who # s
    BY <1>1, <1>5, <2>2 DEF Has, Rests, Voices
  <2>3. CASE who # Main /\ who = s
    <3>1. b.subs[s] # None /\ b.subs[s].calls[k] # None
      BY <1>5, <2>3 DEF Has
    <3>2. r.calls[k] # None /\ r = b.subs[s]
      BY <1>2, <3>1
    <3>3. x.calls[k] # None /\ (k # c => x.calls[k] = r.calls[k])
      BY <3>2 DEF CallsTurn, RunTurns
    <3> QED
      BY <1>1, <2>3, <3>2, <3>3 DEF Has, Rests
  <2> QED
    BY <2>1, <2>2, <2>3
<1> QED
  BY <1>1, <1>3, <1>4, <1>5 DEF Mends

Deltas == [from : Voices, deltas : Seq(Nat)]

LEMMA ToolForms ==
  ASSUME NEW m \in ToolMap, NEW c \in Calls
  PROVE  /\ m[c] \in CliTools \cup {None}
         /\ \A x \in CliTools : [m EXCEPT ![c] = x] \in ToolMap /\ CallsTurn([m EXCEPT ![c] = x], m, c)
BY NoneApart DEF ToolMap, CallsTurn

LEMMA ExtendedIs ==
  ASSUME NEW tool \in CliTools, NEW deltas \in Seq(Nat) PROVE C!Extended(tool, deltas) \in CliTools
<1>1. PICK args : args = (IF tool.args = Final THEN <<>> ELSE tool.args) \o deltas
  OBVIOUS
<1>2. args \in Seq(Nat)
  <2>1. tool.args \in Seq(Nat) \cup {Final}
    BY DEF CliTools
  <2>2. PICK old : old = IF tool.args = Final THEN <<>> ELSE tool.args
    OBVIOUS
  <2>3. old \in Seq(Nat)
    BY <2>1, <2>2
  <2> QED
    BY <1>1, <2>2, <2>3
<1>3. C!Extended(tool, deltas) = [tool EXCEPT !.args = args, !.status = "running"]
  BY <1>1 DEF C!Extended
<1> QED
  BY <1>2, <1>3 DEF CliTools

\* A call of the main agent is written with its segment.
LEMMA MainCallMends ==
  ASSUME NEW b \in Bubbles, NEW c \in Calls, NEW tool \in CliTools, NEW table, table = [b.calls EXCEPT ![c] = tool],
         NEW segs, segs = C!UpsertToolSegment(b.segs, c),
         NEW d, d = [b EXCEPT !.calls = table, !.segs = segs]
  PROVE  Mends(d, b, c) /\ Has(d, Main, c)
<1>1. segs \in Seq(Segs) /\ SegsKeep(segs, b.segs) /\ \E i : ToolAt(segs, i) /\ segs[i].of = c
  <2>1. PICK old : old = b.segs
    OBVIOUS
  <2>2. old \in Seq(Segs) /\ segs = C!UpsertToolSegment(old, c)
    BY <2>1, BubbleForm
  <2>3. segs \in Seq(Segs) /\ SegsKeep(segs, old) /\ Listed(segs, c)
    BY <2>2, UpsertIs
  <2> QED
    BY <2>1, <2>3 DEF Listed
<1>2. table \in ToolMap /\ CallsTurn(table, b.calls, c) /\ table[c] = tool
  <2>1. b.calls \in ToolMap
    BY BubbleForm
  <2> QED
    BY <2>1, ToolForms DEF ToolMap
<1>3. d \in Bubbles /\ d.segs = segs /\ d.calls = table /\ d.subs = b.subs
  BY <1>1, <1>2 DEF Bubbles
<1>4. Mends(d, b, c)
  BY <1>1, <1>2, <1>3, MendsMain
<1>5. Has(d, Main, c)
  BY <1>1, <1>2, <1>3, NoneApart DEF Has
<1> QED
  BY <1>4, <1>5

LEMMA SubCallMends ==
  ASSUME NEW b \in Bubbles, NEW c \in Calls, NEW tool \in CliTools, NEW s \in Subs, NEW r, r = C!Run(b, s),
         NEW x, x = [r EXCEPT !.calls[c] = tool], NEW d, d = C!PatchSub(b, s, x)
  PROVE  Mends(d, b, c) /\ Has(d, s, c) /\ d.subs[s].calls[c] = tool
<1>1. r \in Runs
  BY RunIs
<1>2. PICK table : table = [r.calls EXCEPT ![c] = tool]
  OBVIOUS
<1>3. table \in ToolMap /\ CallsTurn(table, r.calls, c) /\ table[c] = tool
  <2>1. r.calls \in ToolMap
    BY <1>1 DEF Runs
  <2> QED
    BY <1>2, <2>1, ToolForms DEF ToolMap
<1>4. x \in Runs /\ x.text = r.text /\ x.calls = table
  <2>1. x = [r EXCEPT !.calls = table]
    BY <1>2
  <2> QED
    BY <1>1, <1>3, <2>1 DEF Runs, ToolMap
<1>5. Mends(d, b, c) /\ d.subs[s] = x
  <2>1. RunTurns(x, r, c)
    BY <1>3, <1>4 DEF CallsTurn, RunTurns
  <2> QED
    BY <1>4, <2>1, MendsSub
<1>6. Has(d, s, c) /\ d.subs[s].calls[c] = tool
  BY <1>3, <1>4, <1>5, NoneApart DEF Has
<1> QED
  BY <1>5, <1>6

\* The run of a sub-agent is patched with nothing.
LEMMA SameRunMends ==
  ASSUME NEW b \in Bubbles, NEW c, NEW s \in Subs, NEW r, r = C!Run(b, s), NEW x \in Runs, x.text = r.text, x.calls = r.calls,
         NEW d, d = C!PatchSub(b, s, x)
  PROVE  Mends(d, b, c)
<1>1. RunTurns(x, r, c)
  BY DEF CallsTurn, RunTurns
<1> QED
  BY <1>1, MendsSub

LEMMA SameMends ==
  ASSUME NEW b \in Bubbles, NEW c PROVE Mends(b, b, c)
BY SameSegs DEF Mends

LEMMA DeltasMend ==
  ASSUME NEW b \in Bubbles, NEW c \in Calls, NEW e \in Deltas, NEW d, d = C!WithDeltas(b, c, e)
  PROVE  Mends(d, b, c)
<1>0. e # None /\ e.from \in Voices /\ e.deltas \in Seq(Nat)
  BY CliAssumption DEF Deltas, Voices
<1>1. CASE e.from = Main
  <2>1. PICK tool : tool = IF b.calls[c] = None THEN [args |-> e.deltas, status |-> "running"]
                           ELSE C!Extended(b.calls[c], e.deltas)
    OBVIOUS
  <2>2. tool \in CliTools
    <3>1. CASE b.calls[c] = None
      BY <1>0, <2>1, <3>1 DEF CliTools
    <3>2. CASE b.calls[c] # None
      <4>1. b.calls[c] \in CliTools
        BY <3>2, BubbleForm, ToolForms
      <4> QED
        BY <1>0, <2>1, <3>2, <4>1, ExtendedIs
    <3> QED
      BY <3>1, <3>2
  <2>3. PICK table, segs : table = [b.calls EXCEPT ![c] = tool] /\ segs = C!UpsertToolSegment(b.segs, c)
    OBVIOUS
  <2>4. d = [b EXCEPT !.calls = table, !.segs = segs]
    BY <1>0, <1>1, <2>1, <2>3 DEF C!WithDeltas
  <2> QED
    BY <2>2, <2>3, <2>4, MainCallMends
<1>2. CASE e.from # Main
  <2>1. PICK s, r : s = e.from /\ r = C!Run(b, s)
    OBVIOUS
  <2>2. s \in Subs
    BY <1>0, <1>2, <2>1 DEF Voices
  <2>3. r \in Runs /\ r.calls \in ToolMap
    BY <2>1, <2>2, RunIs DEF Runs
  <2>4. CASE r.calls[c] = None
    <3>1. d = C!PatchSub(b, s, r)
      BY <1>0, <1>2, <2>1, <2>4 DEF C!WithDeltas
    <3> QED
      BY <2>1, <2>2, <2>3, <3>1, SameRunMends
  <2>5. CASE r.calls[c] # None
    <3>1. PICK tool : tool = C!Extended(r.calls[c], e.deltas)
      OBVIOUS
    <3>2. tool \in CliTools
      <4>1. r.calls[c] \in CliTools
        BY <2>3, <2>5, ToolForms
      <4> QED
        BY <1>0, <3>1, <4>1, ExtendedIs
    <3>3. PICK x : x = [r EXCEPT !.calls[c] = tool]
      OBVIOUS
    <3>4. d = C!PatchSub(b, s, x)
      BY <1>0, <1>2, <2>1, <2>5, <3>1, <3>3 DEF C!WithDeltas
    <3> QED
      BY <2>1, <2>2, <3>2, <3>3, <3>4, SubCallMends
  <2> QED
    BY <2>4, <2>5
<1> QED
  BY <1>1, <1>2

LEMMA SetCallMends ==
  ASSUME NEW b \in Bubbles, NEW who \in Voices, NEW c \in Calls, NEW tool \in CliTools, NEW d, d = C!SetCall(b, who, c, tool)
  PROVE  Mends(d, b, c) /\ Has(d, who, c)
<1>1. CASE who = Main
  <2>1. PICK table, segs : table = [b.calls EXCEPT ![c] = tool] /\ segs = C!UpsertToolSegment(b.segs, c)
    OBVIOUS
  <2>2. d = [b EXCEPT !.calls = table, !.segs = segs]
    BY <1>1, <2>1 DEF C!SetCall
  <2>3. Mends(d, b, c) /\ Has(d, Main, c)
    BY <2>1, <2>2, MainCallMends
  <2> QED
    BY <1>1, <2>3
<1>2. CASE who # Main
  <2>1. PICK r : r = C!Run(b, who)
    OBVIOUS
  <2>2. PICK x : x = [r EXCEPT !.calls[c] = tool]
    OBVIOUS
  <2>3. who \in Subs /\ d = C!PatchSub(b, who, x)
    BY <1>2, <2>1, <2>2 DEF C!SetCall, Voices
  <2>4. Mends(d, b, c) /\ Has(d, who, c) /\ d.subs[who].calls[c] = tool
    BY <2>1, <2>2, <2>3, SubCallMends
  <2> QED
    BY <2>4
<1> QED
  BY <1>1, <1>2

\* A result: the call is at rest.
LEMMA SettledMends ==
  ASSUME NEW b \in Bubbles, NEW who \in Voices, NEW c \in Calls, NEW status \in {"done", "error"}, Has(b, who, c),
         NEW d, d = C!Settled(b, who, c, status)
  PROVE  Mends(d, b, c) /\ Rests(d, who, c)
<1>1. CASE who = Main
  <2>1. b.calls[c] # None /\ b.calls \in ToolMap /\ b.calls[c] \in CliTools
    BY <1>1, BubbleForm, ToolForms DEF Has
  <2>2. PICK tool : tool = [b.calls[c] EXCEPT !.status = status]
    OBVIOUS
  <2>3. tool \in CliTools /\ tool.status = status
    BY <2>1, <2>2 DEF CliTools
  <2>4. PICK table : table = [b.calls EXCEPT ![c] = tool]
    OBVIOUS
  <2>5. table \in ToolMap /\ CallsTurn(table, b.calls, c) /\ table[c] = tool
    BY <2>1, <2>3, <2>4, ToolForms DEF ToolMap
  <2>6. d = [b EXCEPT !.calls = table]
    BY <1>1, <2>1, <2>2, <2>4 DEF C!Settled
  <2>7. d \in Bubbles /\ d.segs = b.segs /\ d.calls = table /\ d.subs = b.subs
    BY <2>5, <2>6 DEF Bubbles
  <2>8. Mends(d, b, c)
    BY <2>5, <2>7, SameSegs, MendsMain
  <2> QED
    BY <1>1, <2>3, <2>5, <2>7, <2>8 DEF Rests
<1>2. CASE who # Main
  <2>1. PICK r : r = C!Run(b, who)
    OBVIOUS
  <2>2. who \in Subs /\ b.subs[who] # None /\ b.subs[who].calls[c] # None
    BY <1>2 DEF Has, Voices
  <2>3. r \in Runs /\ r = b.subs[who]
    BY <2>1, <2>2, RunIs
  <2>4. r.calls \in ToolMap /\ r.calls[c] \in CliTools /\ r.calls[c] # None
    BY <2>2, <2>3, ToolForms DEF Runs
  <2>5. PICK tool : tool = [r.calls[c] EXCEPT !.status = status]
    OBVIOUS
  <2>6. tool \in CliTools /\ tool.status = status
    BY <2>4, <2>5 DEF CliTools
  <2>7. PICK x : x = [r EXCEPT !.calls[c] = tool]
    OBVIOUS
  <2>8. d = C!PatchSub(b, who, x)
    BY <1>2, <2>1, <2>4, <2>5, <2>7 DEF C!Settled
  <2>9. Mends(d, b, c) /\ Has(d, who, c) /\ d.subs[who].calls[c] = tool
    BY <2>1, <2>2, <2>6, <2>7, <2>8, SubCallMends
  <2> QED
    BY <1>2, <2>6, <2>9 DEF Rests
<1> QED
  BY <1>1, <1>2

LEMMA StatusMends ==
  ASSUME NEW b \in Bubbles, NEW status \in Statuses, NEW d, d = [b EXCEPT !.status = status]
  PROVE  Mends(d, b, None) /\ d.status = status
<1>1. d \in Bubbles /\ d.segs = b.segs /\ d.calls = b.calls /\ d.subs = b.subs /\ d.status = status
  BY DEF Bubbles
<1>2. CallsTurn(d.calls, b.calls, None)
  BY <1>1 DEF CallsTurn
<1> QED
  BY <1>1, <1>2, SameSegs, MendsMain

\* sealAbortedAssistantMessage: a call at work is done, in the message and in each run.
SealedTool(tool) == IF tool # None /\ tool.status = "running" THEN [tool EXCEPT !.status = "done"] ELSE tool
SealedCalls(table) == [c \in Calls |-> SealedTool(table[c])]
SealedRun(run) == IF run # None /\ run.status = "streaming"
                  THEN [run EXCEPT !.status = "done", !.calls = SealedCalls(run.calls)] ELSE run

LEMMA SealedIs ==
  ASSUME NEW m \in ToolMap, NEW t, t = SealedCalls(m)
  PROVE  /\ t \in ToolMap
         /\ \A c \in Calls : m[c] # None => t[c] # None /\ (m[c].status # "running" => t[c].status # "running")
<1>1. ASSUME NEW c \in Calls
      PROVE  /\ SealedTool(m[c]) \in CliTools \cup {None}
             /\ m[c] # None => /\ SealedTool(m[c]) \in CliTools
                               /\ m[c].status # "running" => SealedTool(m[c]).status # "running"
  <2>1. m[c] \in CliTools \cup {None}
    BY DEF ToolMap
  <2> QED
    BY <2>1 DEF SealedTool, CliTools
<1> QED
  BY <1>1, NoneApart DEF ToolMap, SealedCalls

LEMMA SealedMends ==
  ASSUME NEW b \in Bubbles, NEW d, d = C!Sealed(b)
  PROVE  Mends(d, b, None)
<1>1. CASE b.status # "streaming"
  <2>1. d = b
    BY <1>1 DEF C!Sealed
  <2> QED
    BY <2>1, SameMends
<1>2. CASE b.status = "streaming"
  <2>1. PICK table, subs : table = SealedCalls(b.calls) /\ subs = [s \in Subs |-> SealedRun(b.subs[s])]
    OBVIOUS
  <2>2. d = [b EXCEPT !.status = "done", !.calls = table, !.subs = subs]
    BY <1>2, <2>1 DEF C!Sealed, SealedCalls, SealedRun, SealedTool
  <2>3. /\ table \in ToolMap
        /\ \A c \in Calls : b.calls[c] # None => table[c] # None /\ (b.calls[c].status # "running" => table[c].status # "running")
    BY <2>1, BubbleForm, SealedIs
  <2>4. ASSUME NEW s \in Subs
        PROVE  /\ subs[s] \in Runs \cup {None}
               /\ b.subs[s] = None => subs[s] = None
               /\ b.subs[s] # None =>
                    /\ subs[s] # None /\ subs[s].text = b.subs[s].text
                    /\ \A c \in Calls : b.subs[s].calls[c] # None =>
                         /\ subs[s].calls[c] # None
                         /\ b.subs[s].calls[c].status # "running" => subs[s].calls[c].status # "running"
    <3>1. PICK run, x : run = b.subs[s] /\ x = subs[s]
      OBVIOUS
    <3>2. run \in Runs \cup {None} /\ x = SealedRun(run)
      BY <2>1, <3>1, BubbleForm
    <3>3. CASE run # None /\ run.status = "streaming"
      <4>1. PICK t : t = SealedCalls(run.calls)
        OBVIOUS
      <4>2. run \in Runs /\ run.calls \in ToolMap
        BY <3>2, <3>3 DEF Runs
      <4>3. /\ t \in ToolMap
            /\ \A c \in Calls : run.calls[c] # None => t[c] # None /\ (run.calls[c].status # "running" => t[c].status # "running")
        BY <4>1, <4>2, SealedIs
      <4>4. x = [run EXCEPT !.status = "done", !.calls = t]
        BY <3>2, <3>3, <4>1 DEF SealedRun
      <4>5. x \in Runs /\ x.text = run.text /\ x.calls = t
        BY <4>2, <4>3, <4>4 DEF Runs, Statuses
      <4> QED
        BY <3>1, <3>3, <4>3, <4>5, NoneApart
    <3>4. CASE ~(run # None /\ run.status = "streaming")
      <4>1. x = run
        BY <3>2, <3>4 DEF SealedRun
      <4> QED
        BY <3>1, <3>2, <4>1
    <3> QED
      BY <3>3, <3>4
  <2>5. d \in Bubbles /\ d.segs = b.segs /\ d.calls = table /\ d.subs = subs
    <3>1. subs \in [Subs -> Runs \cup {None}]
      BY <2>1, <2>4
    <3> QED
      BY <2>2, <2>3, <3>1 DEF Bubbles, Statuses
  <2>6. ASSUME NEW who \in Voices, NEW k \in Calls, Has(b, who, k)
        PROVE  Has(d, who, k) /\ (Rests(b, who, k) => Rests(d, who, k))
    <3>1. CASE who = Main
      BY <2>3, <2>5, <2>6, <3>1 DEF Has, Rests
    <3>2. CASE who # Main
      <4>1. who \in Subs /\ b.subs[who] # None /\ b.subs[who].calls[k] # None
        BY <2>6, <3>2 DEF Has, Voices
      <4> QED
        BY <2>4, <2>5, <3>2, <4>1 DEF Has, Rests
    <3> QED
      BY <3>1, <3>2
  <2> QED
    BY <2>4, <2>5, <2>6, SameSegs DEF Mends
<1> QED
  BY <1>1, <1>2

\* A buffer of deltas: none waits for a call whose result was read.
DeltasFit(buf, sd) ==
  /\ buf \in [Calls -> Deltas \cup {None}]
  /\ \A c \in Calls, who \in Voices : buf[c] # None => ~FrameOf(sd, "result", who, c)

LEMMA CallOrder ==
  ASSUME NEW s, s = C!SetToSeq(Calls)
  PROVE  Len(s) \in Nat /\ \A n \in 1..Len(s) : s[n] \in Calls
<1>1. PICK N : N = Cardinality(Calls)
  OBVIOUS
<1>2. N \in Nat /\ ExistsBijection(1..N, Calls)
  BY <1>1, CliAssumption, FS_CardinalityType
<1>3. PICK f \in [1..N -> Calls] : IsInjective(f)
  BY <1>2 DEF ExistsBijection, Bijection, Injection
<1>4. C!IsInjective(f)
  BY <1>3 DEF IsInjective, C!IsInjective
<1>5. C!Cardinality(Calls) = N
  BY <1>1 DEF C!Cardinality, Cardinality
<1>6. s = CHOOSE g \in [1..N -> Calls] : C!IsInjective(g)
  BY <1>5 DEF C!SetToSeq
<1>7. s \in [1..N -> Calls]
  BY <1>3, <1>4, <1>6
<1>8. Len(s) = N
  BY <1>2, <1>7
<1> QED
  BY <1>2, <1>7, <1>8

\* flushSseDeltaBuf
LEMMA DeltasShown ==
  ASSUME NEW b, NEW D, NEW sd, Shown(b, D, sd), NEW buf, DeltasFit(buf, sd), NEW d, d = C!FlushDeltas(b, buf)
  PROVE  Shown(d, D, sd)
<1>1. PICK of : of = [order |-> C!SetToSeq(Calls), deltas |-> buf]
  OBVIOUS
<1>2. PICK order, N : order = C!SetToSeq(Calls) /\ N = Len(order)
  OBVIOUS
<1>3. of.order = order /\ of.deltas = buf /\ N \in Nat /\ \A n \in 1..N : order[n] \in Calls
  BY <1>1, <1>2, CallOrder
<1>4. PICK g : d = g[N] /\ \A n \in 0..N : RoundMade("calls", of, b, n, g)
  BY <1>1, <1>2, <1>3, CallsRounds
<1>5. \A n \in 0..N : g[n] = IF n = 0 THEN b ELSE C!WithDeltas(g[n - 1], order[n], buf[order[n]])
  BY <1>3, <1>4 DEF RoundMade, Round
<1> DEFINE P == {n \in 0..N : Shown(g[n], D, sd)}
<1>6. 0 \in P
  BY <1>3, <1>5
<1>7. ASSUME NEW n \in 1..N, n - 1 \in P PROVE n \in P
  <2>1. PICK x, y, c : x = g[n - 1] /\ y = g[n] /\ c = order[n]
    OBVIOUS
  <2>2. Shown(x, D, sd) /\ c \in Calls /\ x \in Bubbles
    BY <1>3, <1>7, <2>1 DEF Shown
  <2>3. PICK e : e = buf[c]
    OBVIOUS
  <2>4. y = C!WithDeltas(x, c, e)
    BY <1>5, <2>1, <2>3
  <2>5. CASE e = None
    <3>1. y = x
      BY <2>4, <2>5 DEF C!WithDeltas
    <3>2. Shown(y, D, sd)
      BY <2>2, <3>1
    <3> QED
      BY <2>1, <3>2
  <2>6. CASE e # None
    <3>1. e \in Deltas /\ \A who \in Voices : ~FrameOf(sd, "result", who, c)
      BY <2>2, <2>3, <2>6 DEF DeltasFit
    <3>2. Mends(y, x, c)
      BY <2>2, <2>4, <3>1, DeltasMend
    <3>3. Shown(y, D, sd)
      BY <2>2, <3>1, <3>2, MendsShown
    <3> QED
      BY <2>1, <3>3
  <2> QED
    BY <2>5, <2>6
<1>8. N \in P
  <2> HIDE DEF P
  <2>1. \A n \in 0..N : n \in P
    BY <1>3, <1>6, <1>7, Reached
  <2> QED
    BY <1>3, <2>1
<1> QED
  BY <1>4, <1>8

CliFrames == [type : Chat \cup {"error", "done"}, from : Voices, call : {None}]
             \cup [type : {"delta", "call", "result"}, from : Voices, call : Calls]

\* A frame more is read: a call or a result only once the message shows it.
LEMMA FrameShown ==
  ASSUME NEW b, NEW D, NEW sd \in Seq(CliFrames), D \subseteq DOMAIN sd, Shown(b, D, sd), NEW frame \in CliFrames,
         NEW more, IsGrown(more, sd, frame),
         frame.type = "call" => Has(b, frame.from, frame.call),
         frame.type = "result" => Has(b, frame.from, frame.call) /\ Rests(b, frame.from, frame.call)
  PROVE  Shown(b, D, more)
<1>1. /\ more \in Seq(CliFrames) /\ Len(more) = Len(sd) + 1 /\ DOMAIN more = 1..Len(sd) + 1
      /\ Len(sd) \in Nat /\ DOMAIN sd = 1..Len(sd)
      /\ more[Len(sd) + 1] = frame
      /\ \A i \in DOMAIN sd : more[i] = sd[i] /\ i \in DOMAIN more /\ i < Len(sd) + 1 /\ i \in Nat
  BY AppendIs
<1>2. \A n \in D : n \in DOMAIN sd /\ more[n] = sd[n]
  BY <1>1
<1>3. Words(b, D, more)
  <2>1. MainWords(b.segs, D, more)
    <3>1. MainWords(b.segs, D, sd)
      BY DEF Shown, Words
    <3>2. \A n, kind : n \in D /\ SaysAs(sd, n, Main, kind) => SaysAs(more, n, Main, kind)
      BY <1>1, <1>2 DEF SaysAs
    <3> QED
      BY <1>2, <3>1, <3>2 DEF MainWords
  <2>2. ASSUME NEW s \in Subs
        PROVE  IF b.subs[s] = None THEN \A n \in D : more[n].from # s ELSE TextIs(b.subs[s].text, D, more, s)
    <3>1. IF b.subs[s] = None THEN \A n \in D : sd[n].from # s ELSE TextIs(b.subs[s].text, D, sd, s)
      BY DEF Shown, Words
    <3> QED
      BY <1>2, <3>1 DEF TextIs
  <2> QED
    BY <2>1, <2>2 DEF Words
<1>4. CallsFit(b, more)
  <2>1. CallsFit(b, sd)
    BY DEF Shown
  <2>2. ASSUME NEW type, NEW who \in Voices, NEW c \in Calls, FrameOf(more, type, who, c)
        PROVE  FrameOf(sd, type, who, c) \/ (frame.type = type /\ frame.from = who /\ frame.call = c)
    <3>1. PICK i \in DOMAIN more : more[i].type = type /\ more[i].call = c /\ more[i].from = who
      BY <2>2 DEF FrameOf
    <3>2. i \in DOMAIN sd \/ i = Len(sd) + 1
      BY <1>1
    <3> QED
      BY <1>1, <3>1, <3>2 DEF FrameOf
  <2>3. \A who \in Voices, c \in Calls : FrameOf(more, "call", who, c) => Has(b, who, c)
    BY <2>1, <2>2 DEF CallsFit
  <2>4. \A who \in Voices, c \in Calls : FrameOf(more, "result", who, c) => Has(b, who, c) /\ Rests(b, who, c)
    BY <2>1, <2>2 DEF CallsFit
  <2> QED
    BY <2>1, <2>3, <2>4 DEF CallsFit
<1> QED
  BY <1>3, <1>4 DEF Shown

\* A call is of one agent, and a result follows its call.
OneOwner(sd) == \A i, j \in DOMAIN sd : sd[i].call \in Calls /\ sd[i].call = sd[j].call => sd[i].from = sd[j].from
ResultsFit(sd) == \A c \in Calls, who \in Voices : FrameOf(sd, "result", who, c) => FrameOf(sd, "call", who, c)

CliFits(sd, b, buf, dbuf, rd) ==
  /\ sd \in Seq(CliFrames) /\ OneOwner(sd) /\ ResultsFit(sd)
  /\ BufFits(buf, sd) /\ DeltasFit(dbuf, sd)
  /\ Shown(b, Wrote(sd, buf), sd)
  /\ rd = "no" => buf = <<>> /\ b.status # "streaming"
CliInv == CliFits(said, bubble, textBuf, deltaBuf, reading)

\* A frame may follow: its call is of its agent, and a result has its call.
MayFollow(frame, sd) ==
  /\ frame \in CliFrames
  /\ frame.call \in Calls => \A i \in DOMAIN sd : sd[i].call = frame.call => sd[i].from = frame.from
  /\ frame.type = "result" => FrameOf(sd, "call", frame.from, frame.call)

LEMMA FramesGrow ==
  ASSUME NEW sd \in Seq(CliFrames), NEW frame, MayFollow(frame, sd), NEW more, IsGrown(more, sd, frame)
  PROVE  /\ more \in Seq(CliFrames) /\ DOMAIN more = 1..Len(sd) + 1 /\ DOMAIN sd = 1..Len(sd) /\ Len(sd) \in Nat
         /\ \A i \in DOMAIN sd : more[i] = sd[i] /\ i \in DOMAIN more /\ i \in Nat /\ i < Len(sd) + 1
         /\ more[Len(sd) + 1] = frame /\ Len(sd) + 1 \notin DOMAIN sd
         /\ \A i \in DOMAIN more : i \in DOMAIN sd \/ i = Len(sd) + 1
         /\ \A type, who, c : FrameOf(more, type, who, c) <=>
              FrameOf(sd, type, who, c) \/ (frame.type = type /\ frame.from = who /\ frame.call = c)
<1>0. frame \in CliFrames
  BY DEF MayFollow
<1>1. /\ more \in Seq(CliFrames) /\ Len(more) = Len(sd) + 1 /\ DOMAIN more = 1..Len(sd) + 1
      /\ Len(sd) \in Nat /\ DOMAIN sd = 1..Len(sd)
      /\ more[Len(sd) + 1] = frame
      /\ \A i \in DOMAIN sd : more[i] = sd[i] /\ i \in DOMAIN more /\ i < Len(sd) + 1 /\ i \in Nat
  BY <1>0, AppendIs
<1>2. \A i \in DOMAIN more : i \in DOMAIN sd \/ i = Len(sd) + 1
  BY <1>1
<1>3. Len(sd) + 1 \notin DOMAIN sd /\ Len(sd) + 1 \in DOMAIN more
  BY <1>1
<1>4. ASSUME NEW type, NEW who, NEW c
      PROVE  FrameOf(more, type, who, c) <=>
               FrameOf(sd, type, who, c) \/ (frame.type = type /\ frame.from = who /\ frame.call = c)
  BY <1>1, <1>2, <1>3 DEF FrameOf
<1> QED
  BY <1>1, <1>2, <1>3, <1>4

LEMMA CallsGrow ==
  ASSUME NEW sd \in Seq(CliFrames), OneOwner(sd), ResultsFit(sd),
         NEW frame, MayFollow(frame, sd), NEW more, IsGrown(more, sd, frame)
  PROVE  more \in Seq(CliFrames) /\ OneOwner(more) /\ ResultsFit(more)
<1>1. /\ more \in Seq(CliFrames) /\ DOMAIN more = 1..Len(sd) + 1 /\ DOMAIN sd = 1..Len(sd) /\ Len(sd) \in Nat
      /\ \A i \in DOMAIN sd : more[i] = sd[i] /\ i \in DOMAIN more /\ i \in Nat /\ i < Len(sd) + 1
      /\ more[Len(sd) + 1] = frame /\ Len(sd) + 1 \notin DOMAIN sd
      /\ \A i \in DOMAIN more : i \in DOMAIN sd \/ i = Len(sd) + 1
      /\ \A type, who, c : FrameOf(more, type, who, c) <=>
           FrameOf(sd, type, who, c) \/ (frame.type = type /\ frame.from = who /\ frame.call = c)
  BY FramesGrow
<1>2. OneOwner(more)
  <2> SUFFICES ASSUME NEW i \in DOMAIN more, NEW j \in DOMAIN more, more[i].call \in Calls, more[i].call = more[j].call
               PROVE  more[i].from = more[j].from
    BY DEF OneOwner
  <2>1. CASE i \in DOMAIN sd /\ j \in DOMAIN sd
    BY <1>1, <2>1 DEF OneOwner
  <2>2. CASE i \in DOMAIN sd /\ j \notin DOMAIN sd
    BY <1>1, <2>2 DEF MayFollow
  <2>3. CASE i \notin DOMAIN sd /\ j \in DOMAIN sd
    BY <1>1, <2>3 DEF MayFollow
  <2>4. CASE i \notin DOMAIN sd /\ j \notin DOMAIN sd
    BY <1>1, <2>4
  <2> QED
    BY <2>1, <2>2, <2>3, <2>4
<1>3. ResultsFit(more)
  BY <1>1 DEF ResultsFit, MayFollow
<1> QED
  BY <1>1, <1>2, <1>3

LEMMA DeltasStay ==
  ASSUME NEW sd \in Seq(CliFrames), NEW buf, DeltasFit(buf, sd), NEW frame, MayFollow(frame, sd), frame.type # "result",
         NEW more, IsGrown(more, sd, frame)
  PROVE  DeltasFit(buf, more)
<1>1. \A type, who, c : FrameOf(more, type, who, c) <=>
        FrameOf(sd, type, who, c) \/ (frame.type = type /\ frame.from = who /\ frame.call = c)
  BY FramesGrow
<1> QED
  BY <1>1 DEF DeltasFit

LEMMA NoDeltasFit == ASSUME NEW sd PROVE DeltasFit(C!NoDeltas, sd)
BY DEF DeltasFit, C!NoDeltas

LEMMA NothingWaits ==
  ASSUME NEW sd PROVE BufFits(<<>>, sd) /\ Wrote(sd, <<>>) = Heard(sd)
<1>1. PICK buf : buf = <<>>
  OBVIOUS
<1>2. buf \in Seq(Buffered) /\ \A e : e \notin DOMAIN buf
  BY <1>1, Nothing
<1>3. BufFits(buf, sd) /\ Wrote(sd, buf) = Heard(sd)
  BY <1>2 DEF BufFits, Wrote, WaitsIn
<1> QED
  BY <1>1, <1>3

\* What a frame that is no word leaves, once the text was written.
LEMMA FlushedFits ==
  ASSUME NEW sd, NEW b, NEW buf, NEW dbuf, NEW rd, CliFits(sd, b, buf, dbuf, rd),
         NEW frame, MayFollow(frame, sd), frame.type \notin Chat, NEW more, IsGrown(more, sd, frame),
         NEW x, Shown(x, Heard(sd), sd),
         frame.type = "call" => Has(x, frame.from, frame.call),
         frame.type = "result" => Has(x, frame.from, frame.call) /\ Rests(x, frame.from, frame.call),
         NEW rest, DeltasFit(rest, more)
  PROVE  CliFits(more, x, <<>>, rest, "yes")
<1>0. sd \in Seq(CliFrames) /\ OneOwner(sd) /\ ResultsFit(sd) /\ frame \in CliFrames
  BY DEF CliFits, MayFollow
<1>1. more \in Seq(CliFrames) /\ OneOwner(more) /\ ResultsFit(more)
  BY <1>0, CallsGrow
<1>2. PICK D : D = Heard(sd)
  OBVIOUS
<1>3. D \subseteq DOMAIN sd
  BY <1>2 DEF Heard
<1>4. Shown(x, D, more)
  BY <1>0, <1>2, <1>3, FrameShown
<1>5. Heard(more) = D
  <2>1. /\ \A i \in DOMAIN sd : more[i] = sd[i] /\ i \in DOMAIN more
        /\ more[Len(sd) + 1] = frame
        /\ \A i \in DOMAIN more : i \in DOMAIN sd \/ i = Len(sd) + 1
    BY <1>0, FramesGrow
  <2> QED
    BY <1>2, <2>1 DEF Heard
<1> QED
  BY <1>1, <1>4, <1>5, NothingWaits DEF CliFits

LEMMA EntryStays ==
  ASSUME NEW sd \in Seq(CliFrames), NEW frame, MayFollow(frame, sd), NEW more, IsGrown(more, sd, frame),
         NEW D, D \subseteq DOMAIN sd, NEW entry, EntryFits(entry, D, sd)
  PROVE  EntryFits(entry, D, more)
<1>1. \A i \in DOMAIN sd : more[i] = sd[i] /\ i \in DOMAIN more
  BY FramesGrow
<1> QED
  BY <1>1 DEF EntryFits, SaysAs

\* The word that is read is the last of its agent's entry.
GrowsBy(new, entry, chunk, frame, sd) ==
  /\ entry \in Buffered /\ new \in Buffered /\ chunk \in Chunks
  /\ entry.from = frame.from /\ new.from = frame.from /\ IsGrown(new.chunks, entry.chunks, chunk)
  /\ chunk.n = Len(sd) + 1 /\ chunk.kind = frame.type

LEMMA EntryGrows ==
  ASSUME NEW sd \in Seq(CliFrames), NEW frame, MayFollow(frame, sd), NEW more, IsGrown(more, sd, frame),
         NEW D, D \subseteq DOMAIN sd, NEW entry, EntryFits(entry, D, sd),
         NEW chunk, NEW new, GrowsBy(new, entry, chunk, frame, sd)
  PROVE  EntryFits(new, D, more) /\ \A m : m \in NumbersOf(new) <=> m \in NumbersOf(entry) \/ m = chunk.n
<1>0. /\ entry \in Buffered /\ new \in Buffered /\ chunk \in Chunks
      /\ entry.from = frame.from /\ new.from = frame.from /\ IsGrown(new.chunks, entry.chunks, chunk)
      /\ chunk.n = Len(sd) + 1 /\ chunk.kind = frame.type
  BY DEF GrowsBy
<1>1. /\ more \in Seq(CliFrames) /\ DOMAIN more = 1..Len(sd) + 1 /\ DOMAIN sd = 1..Len(sd) /\ Len(sd) \in Nat
      /\ \A i \in DOMAIN sd : more[i] = sd[i] /\ i \in DOMAIN more /\ i \in Nat /\ i < Len(sd) + 1
      /\ more[Len(sd) + 1] = frame /\ Len(sd) + 1 \notin DOMAIN sd
  BY FramesGrow
<1>2. PICK old, w, n : old = entry.chunks /\ w = new.chunks /\ n = Len(sd) + 1
  OBVIOUS
<1>3. old \in Seq(Chunks) /\ IsGrown(w, old, chunk) /\ chunk \in Chunks
  BY <1>0, <1>2 DEF Buffered
<1>4. /\ w \in Seq(Chunks) /\ Len(w) = Len(old) + 1 /\ DOMAIN w = 1..Len(old) + 1
      /\ Len(old) \in Nat /\ DOMAIN old = 1..Len(old)
      /\ w[Len(old) + 1] = chunk
      /\ \A i \in DOMAIN old : w[i] = old[i] /\ i \in DOMAIN w /\ i < Len(old) + 1 /\ i \in Nat
  BY <1>3, AppendIs
<1>5. PICK l : l = Len(old) + 1
  OBVIOUS
<1>6. /\ w[l] = chunk /\ l \in DOMAIN w /\ \A k : k \in DOMAIN w <=> k \in DOMAIN old \/ k = l
      /\ \A k \in DOMAIN old : w[k] = old[k] /\ k < l /\ ~(l < k)
      /\ ~(l < l)
  BY <1>4, <1>5
<1>7. SaysAs(more, n, frame.from, frame.type)
  BY <1>1, <1>2 DEF SaysAs
<1>8. \A k \in DOMAIN old : /\ SaysAs(sd, old[k].n, frame.from, old[k].kind)
                            /\ SaysAs(more, old[k].n, frame.from, old[k].kind)
                            /\ old[k].n < n
  <2> SUFFICES ASSUME NEW k \in DOMAIN old
               PROVE  /\ SaysAs(sd, old[k].n, frame.from, old[k].kind)
                      /\ SaysAs(more, old[k].n, frame.from, old[k].kind)
                      /\ old[k].n < n
    OBVIOUS
  <2>1. SaysAs(sd, old[k].n, frame.from, old[k].kind)
    BY <1>0, <1>2 DEF EntryFits
  <2>2. PICK o : o = old[k].n
    OBVIOUS
  <2>3. o \in DOMAIN sd
    BY <2>1, <2>2 DEF SaysAs
  <2>4. more[o] = sd[o] /\ o \in DOMAIN more /\ o < n
    BY <1>1, <1>2, <2>3
  <2> QED
    BY <2>1, <2>2, <2>4 DEF SaysAs
<1>9. \A k \in DOMAIN w : SaysAs(more, w[k].n, frame.from, w[k].kind)
  BY <1>0, <1>2, <1>6, <1>7, <1>8
<1>10. \A k, j \in DOMAIN w : k < j => w[k].n < w[j].n
  <2> SUFFICES ASSUME NEW k \in DOMAIN w, NEW j \in DOMAIN w, k < j PROVE w[k].n < w[j].n
    OBVIOUS
  <2>1. k \in DOMAIN old
    BY <1>6
  <2>2. CASE j \in DOMAIN old
    BY <1>0, <1>2, <1>6, <2>1, <2>2 DEF EntryFits
  <2>3. CASE j = l
    BY <1>0, <1>2, <1>6, <1>8, <2>1, <2>3
  <2> QED
    BY <1>6, <2>2, <2>3
<1>11. \A k \in DOMAIN w : \A m \in D : more[m].from = frame.from => m < w[k].n
  <2> SUFFICES ASSUME NEW k \in DOMAIN w, NEW m \in D, more[m].from = frame.from PROVE m < w[k].n
    OBVIOUS
  <2>1. sd[m].from = frame.from /\ m < n
    BY <1>1, <1>2
  <2>2. CASE k \in DOMAIN old
    BY <1>0, <1>2, <1>6, <2>1, <2>2 DEF EntryFits
  <2>3. CASE k = l
    BY <1>0, <1>2, <1>6, <2>1, <2>3
  <2> QED
    BY <1>6, <2>2, <2>3
<1>12. EntryFits(new, D, more)
  BY <1>0, <1>2, <1>9, <1>10, <1>11 DEF EntryFits
<1>13. \A m : m \in NumbersOf(new) <=> m \in NumbersOf(entry) \/ m = chunk.n
  <2>1. \A m : m \in NumbersOf(new) <=> \E k \in DOMAIN w : w[k].n = m
    BY <1>2 DEF NumbersOf
  <2>2. \A m : m \in NumbersOf(entry) <=> \E k \in DOMAIN old : old[k].n = m
    BY <1>2 DEF NumbersOf
  <2> QED
    BY <1>6, <2>1, <2>2
<1> QED
  BY <1>12, <1>13

\* The entry of an agent before its word is read: a new one has no chunks.
IsTurned(new, buf, l, entry, chunk) ==
  /\ new \in Seq(Buffered) /\ l \in DOMAIN new /\ new[l].from = entry.from /\ IsGrown(new[l].chunks, entry.chunks, chunk)
  /\ entry \in Buffered
  /\ \A e : e \in DOMAIN new <=> e \in DOMAIN buf \/ e = l
  /\ \A e \in DOMAIN buf : e # l => new[e] = buf[e] /\ buf[e].from # entry.from
  /\ IF l \in DOMAIN buf THEN entry = buf[l] ELSE entry.chunks = <<>>

LEMMA BufferedIs ==
  ASSUME NEW sd, BufFits(textBuf, sd), NEW who \in Voices, NEW chunk \in Chunks, NEW new, new = C!Buffered(who, chunk)
  PROVE  \E l, entry : entry.from = who /\ IsTurned(new, textBuf, l, entry, chunk)
<1>1. /\ textBuf \in Seq(Buffered) /\ DOMAIN textBuf = 1..Len(textBuf) /\ Len(textBuf) \in Nat
      /\ \A e, f \in DOMAIN textBuf : textBuf[e].from = textBuf[f].from => e = f
  BY DEF BufFits
<1>2. CASE \E i \in DOMAIN textBuf : textBuf[i].from = who
  <2>1. PICK l \in DOMAIN textBuf : textBuf[l].from = who
    BY <1>2
  <2>2. PICK entry : entry = textBuf[l]
    OBVIOUS
  <2>3. entry \in Buffered /\ entry.from = who /\ entry.chunks \in Seq(Chunks)
    <3>1. textBuf[l] \in Buffered
      BY <1>1, <2>1
    <3> QED
      BY <2>1, <2>2, <3>1 DEF Buffered
  <2>4. PICK w : IsGrown(w, entry.chunks, chunk)
    BY DEF IsGrown
  <2>5. w \in Seq(Chunks)
    BY <2>3, <2>4, AppendIs
  <2>6. PICK x : x = [entry EXCEPT !.chunks = w]
    OBVIOUS
  <2>7. x \in Buffered /\ x.from = who /\ x.chunks = w
    BY <2>3, <2>5, <2>6 DEF Buffered
  <2>8. \A i \in DOMAIN textBuf : i # l => textBuf[i].from # who
    BY <1>1, <2>1
  <2>9. new = [i \in DOMAIN textBuf |-> IF textBuf[i].from = who
                                        THEN [textBuf[i] EXCEPT !.chunks = Append(@, chunk)] ELSE textBuf[i]]
    BY <1>2 DEF C!Buffered
  <2>10. DOMAIN new = DOMAIN textBuf /\ new[l] = x /\ \A i \in DOMAIN textBuf : i # l => new[i] = textBuf[i]
    BY <2>1, <2>2, <2>4, <2>6, <2>8, <2>9 DEF IsGrown
  <2>11. \A i \in DOMAIN textBuf : new[i] \in Buffered
    BY <1>1, <2>7, <2>10
  <2>12. new \in Seq(Buffered)
    <3>1. PICK N : N = Len(textBuf)
      OBVIOUS
    <3>2. new \in [1..N -> Buffered] /\ N \in Nat
      BY <1>1, <2>9, <2>11, <3>1
    <3> QED
      BY <3>2
  <2>13. IsTurned(new, textBuf, l, entry, chunk)
    BY <2>2, <2>3, <2>4, <2>7, <2>8, <2>10, <2>12 DEF IsTurned
  <2> QED
    BY <2>3, <2>13
<1>3. CASE ~\E i \in DOMAIN textBuf : textBuf[i].from = who
  <2>1. PICK none, one : none = <<>> /\ one = <<chunk>>
    OBVIOUS
  <2>2. IsGrown(one, none, chunk) /\ none \in Seq(Chunks) /\ one \in Seq(Chunks)
    BY <2>1 DEF IsGrown
  <2>3. PICK entry, x : entry = [from |-> who, chunks |-> none] /\ x = [from |-> who, chunks |-> one]
    OBVIOUS
  <2>4. entry \in Buffered /\ x \in Buffered /\ x.from = who /\ entry.from = who /\ x.chunks = one /\ entry.chunks = none
    BY <2>2, <2>3 DEF Buffered
  <2>5. IsGrown(new, textBuf, x)
    BY <1>3, <2>1, <2>3 DEF C!Buffered, IsGrown
  <2>6. /\ new \in Seq(Buffered) /\ Len(new) = Len(textBuf) + 1 /\ DOMAIN new = 1..Len(textBuf) + 1
        /\ Len(textBuf) \in Nat /\ DOMAIN textBuf = 1..Len(textBuf)
        /\ new[Len(textBuf) + 1] = x
        /\ \A i \in DOMAIN textBuf : new[i] = textBuf[i] /\ i \in DOMAIN new /\ i < Len(textBuf) + 1 /\ i \in Nat
    BY <1>1, <2>4, <2>5, AppendIs
  <2>7. PICK l : l = Len(textBuf) + 1
    OBVIOUS
  <2>8. /\ new[l] = x /\ l \in DOMAIN new /\ l \notin DOMAIN textBuf
        /\ \A e : e \in DOMAIN new <=> e \in DOMAIN textBuf \/ e = l
    BY <2>6, <2>7
  <2>9. IsTurned(new, textBuf, l, entry, chunk)
    BY <1>3, <2>1, <2>2, <2>4, <2>6, <2>8 DEF IsTurned
  <2> QED
    BY <2>4, <2>9
<1> QED
  BY <1>2, <1>3

\* A word that waits: what was written stays, and the buffer fits.
LEMMA WordWaits ==
  ASSUME NEW sd \in Seq(CliFrames), NEW buf, BufFits(buf, sd), NEW frame, MayFollow(frame, sd), frame.type \in Chat,
         NEW more, IsGrown(more, sd, frame), NEW chunk \in Chunks, chunk.n = Len(sd) + 1, chunk.kind = frame.type,
         NEW new, NEW l, NEW entry, entry.from = frame.from, IsTurned(new, buf, l, entry, chunk)
  PROVE  BufFits(new, more) /\ Wrote(more, new) = Wrote(sd, buf)
<1>1. /\ more \in Seq(CliFrames) /\ DOMAIN more = 1..Len(sd) + 1 /\ DOMAIN sd = 1..Len(sd) /\ Len(sd) \in Nat
      /\ \A i \in DOMAIN sd : more[i] = sd[i] /\ i \in DOMAIN more /\ i \in Nat /\ i < Len(sd) + 1
      /\ more[Len(sd) + 1] = frame /\ Len(sd) + 1 \notin DOMAIN sd
      /\ \A i \in DOMAIN more : i \in DOMAIN sd \/ i = Len(sd) + 1
  BY FramesGrow
<1>2. PICK D, n : D = Wrote(sd, buf) /\ n = Len(sd) + 1
  OBVIOUS
<1>3. D \subseteq DOMAIN sd
  BY <1>2 DEF Wrote, Heard
<1>4. EntryFits(entry, D, sd)
  <2>1. CASE l \in DOMAIN buf
    BY <1>2, <2>1 DEF IsTurned, BufFits
  <2>2. CASE l \notin DOMAIN buf
    <3>1. PICK w : w = entry.chunks
      OBVIOUS
    <3>2. \A k : k \notin DOMAIN w
      BY <2>2, <3>1, Nothing DEF IsTurned
    <3> QED
      BY <3>1, <3>2 DEF EntryFits
  <2> QED
    BY <2>1, <2>2
<1>5. PICK x : x = new[l]
  OBVIOUS
<1>6. x \in Buffered /\ x.from = frame.from /\ IsGrown(x.chunks, entry.chunks, chunk) /\ entry \in Buffered
  BY <1>5 DEF IsTurned
<1>7. EntryFits(x, D, more) /\ \A m : m \in NumbersOf(x) <=> m \in NumbersOf(entry) \/ m = chunk.n
  <2>1. GrowsBy(x, entry, chunk, frame, sd)
    BY <1>6 DEF GrowsBy
  <2> QED
    BY <1>3, <1>4, <2>1, EntryGrows
<1>8. \A m : WaitsIn(new, m) <=> WaitsIn(buf, m) \/ m = n
  <2>1. /\ \A e : e \in DOMAIN new <=> e \in DOMAIN buf \/ e = l
        /\ \A e \in DOMAIN buf : e # l => NumbersOf(new[e]) = NumbersOf(buf[e])
        /\ \A m : m \in NumbersOf(new[l]) <=> m \in NumbersOf(entry) \/ m = n
    BY <1>2, <1>5, <1>7 DEF IsTurned
  <2>2. CASE l \in DOMAIN buf
    <3>1. entry = buf[l]
      BY <2>2 DEF IsTurned
    <3> QED
      BY <2>1, <2>2, <3>1 DEF WaitsIn
  <2>3. CASE l \notin DOMAIN buf
    <3>1. NumbersOf(entry) = {}
      <4>1. PICK w : w = entry.chunks
        OBVIOUS
      <4>2. \A k : k \notin DOMAIN w
        BY <2>3, <4>1, Nothing DEF IsTurned
      <4> QED
        BY <4>1, <4>2 DEF NumbersOf
    <3> QED
      BY <2>1, <2>3, <3>1 DEF WaitsIn
  <2> QED
    BY <2>2, <2>3
<1>9. Wrote(more, new) = D
  <2>1. \A m : m \in Heard(more) <=> m \in Heard(sd) \/ m = n
    BY <1>1, <1>2 DEF Heard
  <2>2. n \notin D
    BY <1>1, <1>2, <1>3
  <2> QED
    BY <1>2, <1>8, <2>1, <2>2 DEF Wrote
<1>10. \A e \in DOMAIN new : EntryFits(new[e], D, more)
  <2> SUFFICES ASSUME NEW e \in DOMAIN new PROVE EntryFits(new[e], D, more)
    OBVIOUS
  <2>1. CASE e = l
    BY <1>5, <1>7, <2>1
  <2>2. CASE e # l
    <3>1. e \in DOMAIN buf /\ new[e] = buf[e]
      BY <2>2 DEF IsTurned
    <3>2. PICK y : y = buf[e]
      OBVIOUS
    <3>3. EntryFits(y, D, sd)
      BY <1>2, <3>1, <3>2 DEF BufFits
    <3>4. EntryFits(y, D, more)
      BY <1>3, <3>3, EntryStays
    <3> QED
      BY <3>1, <3>2, <3>4
  <2> QED
    BY <2>1, <2>2
<1>11. \A e, f \in DOMAIN new : new[e].from = new[f].from => e = f
  BY DEF IsTurned, BufFits
<1> QED
  BY <1>2, <1>9, <1>10, <1>11 DEF BufFits, IsTurned

LEMMA TextFlushed ==
  ASSUME CliInv, NEW b, Shown(b, Wrote(said, textBuf), said), NEW d, d = C!FlushText(b)
  PROVE  Shown(d, Heard(said), said)
<1>1. DOMAIN said \subseteq Nat /\ BufFits(textBuf, said)
  BY DEF CliInv, CliFits
<1>2. PICK D : D = Wrote(said, textBuf)
  OBVIOUS
<1>3. Shown(b, D, said)
  BY <1>2
<1> QED
  BY <1>1, <1>2, <1>3, TextShown

\* What reading a frame of an agent gives.
LEMMA FrameIs ==
  ASSUME CliInv, NEW type, NEW who \in Voices, NEW c,
         NEW frame, frame = C!Frame(type, who, c), C!Reads(frame),
         \/ type \in Chat \cup {"error", "done"} /\ c = None
         \/ type \in {"delta", "call", "result"} /\ c \in Calls /\ C!Of(who, c),
         type = "result" => FrameOf(said, "call", who, c)
  PROVE  /\ MayFollow(frame, said) /\ IsGrown(said', said, frame) /\ reading = "yes" /\ reading' = "yes"
         /\ frame.type = type /\ frame.from = who /\ frame.call = c
<1>1. frame = [type |-> type, from |-> who, call |-> c]
  BY DEF C!Frame
<1>2. frame.type = type /\ frame.from = who /\ frame.call = c
  BY <1>1
<1>3. frame \in CliFrames
  BY <1>1 DEF CliFrames
<1>4. c \in Calls => C!Of(who, c)
  BY CliAssumption
<1>5. MayFollow(frame, said)
  BY <1>2, <1>3, <1>4 DEF MayFollow, C!Of
<1>6. IsGrown(said', said, frame) /\ reading = "yes" /\ reading' = "yes"
  BY DEF C!Reads, IsGrown
<1> QED
  BY <1>2, <1>5, <1>6

LEMMA NotCalled ==
  ASSUME CliInv, NEW c \in Calls, ~C!Sent("call", c)
  PROVE  \A who \in Voices : ~FrameOf(said, "result", who, c)
<1>1. \A who \in Voices : ~FrameOf(said, "call", who, c)
  BY DEF C!Sent, FrameOf
<1> QED
  BY <1>1 DEF CliInv, CliFits, ResultsFit

LEMMA WordKeeps ==
  ASSUME CliInv, NEW who \in Voices, NEW kind \in Chat, C!Words(kind, who)
  PROVE  CliInv'
<1>1. PICK frame : frame = C!Frame(kind, who, None)
  OBVIOUS
<1>2. C!Reads(frame) /\ bubble' = bubble /\ deltaBuf' = deltaBuf
  BY <1>1 DEF C!Words
<1>3. kind # "result" /\ kind # "call"
  BY DEF Chat
<1>4. /\ MayFollow(frame, said) /\ IsGrown(said', said, frame) /\ reading = "yes" /\ reading' = "yes"
      /\ frame.type = kind /\ frame.from = who /\ frame.call = None
  BY <1>1, <1>2, <1>3, FrameIs
<1>5. /\ said \in Seq(CliFrames) /\ OneOwner(said) /\ ResultsFit(said) /\ BufFits(textBuf, said)
      /\ DeltasFit(deltaBuf, said) /\ Shown(bubble, Wrote(said, textBuf), said)
  BY DEF CliInv, CliFits
<1>6. PICK chunk : chunk = [kind |-> kind, n |-> Len(said) + 1]
  OBVIOUS
<1>7. chunk \in Chunks /\ chunk.n = Len(said) + 1 /\ chunk.kind = frame.type
  <2>1. Len(said) + 1 \in Nat
    BY <1>5
  <2> QED
    BY <1>4, <1>6, <2>1 DEF Chunks
<1>8. textBuf' = C!Buffered(who, chunk)
  BY <1>6 DEF C!Words
<1>9. PICK more, new : more = said' /\ new = textBuf'
  OBVIOUS
<1>10. PICK l, entry : entry.from = who /\ IsTurned(new, textBuf, l, entry, chunk)
  BY <1>5, <1>7, <1>8, <1>9, BufferedIs
<1>11. IsGrown(more, said, frame) /\ entry.from = frame.from /\ frame.type \in Chat
  BY <1>4, <1>9, <1>10
<1>12. BufFits(new, more) /\ Wrote(more, new) = Wrote(said, textBuf)
  BY <1>4, <1>5, <1>7, <1>10, <1>11, WordWaits
<1>13. more \in Seq(CliFrames) /\ OneOwner(more) /\ ResultsFit(more)
  BY <1>4, <1>5, <1>11, CallsGrow
<1>14. DeltasFit(deltaBuf, more)
  BY <1>3, <1>4, <1>5, <1>11, DeltasStay
<1>15. Shown(bubble, Wrote(said, textBuf), more)
  <2>1. PICK D : D = Wrote(said, textBuf)
    OBVIOUS
  <2>2. D \subseteq DOMAIN said /\ frame \in CliFrames /\ frame.type # "call" /\ frame.type # "result"
    BY <1>3, <1>4, <2>1 DEF Wrote, Heard, MayFollow
  <2>3. Shown(bubble, D, said)
    BY <1>5, <2>1
  <2>4. Shown(bubble, D, more)
    BY <1>5, <1>11, <2>2, <2>3, FrameShown
  <2> QED
    BY <2>1, <2>4
<1>16. CliFits(more, bubble, new, deltaBuf, "yes")
  BY <1>12, <1>13, <1>14, <1>15 DEF CliFits
<1> QED
  BY <1>2, <1>4, <1>9, <1>16 DEF CliInv

LEMMA FlushKeeps ==
  ASSUME CliInv, C!FlushInTime
  PROVE  CliInv'
<1>1. /\ said' = said /\ deltaBuf' = deltaBuf /\ reading' = reading /\ reading = "yes"
      /\ bubble' = C!FlushText(bubble) /\ textBuf' = <<>>
  BY DEF C!FlushInTime
<1>2. PICK d : d = C!FlushText(bubble)
  OBVIOUS
<1>3. Shown(bubble, Wrote(said, textBuf), said)
  BY DEF CliInv, CliFits
<1>4. Shown(d, Heard(said), said)
  BY <1>2, <1>3, TextFlushed
<1>5. CliFits(said, d, <<>>, deltaBuf, "yes")
  BY <1>4, NothingWaits DEF CliInv, CliFits
<1> QED
  BY <1>1, <1>2, <1>5 DEF CliInv

\* A frame that is no word: the text was written, and x is the message that it leaves.
LEMMA ReadKeeps ==
  ASSUME CliInv, NEW frame, MayFollow(frame, said), frame.type \notin Chat, IsGrown(said', said, frame),
         reading' = "yes", textBuf' = <<>>,
         NEW x, bubble' = x, Shown(x, Heard(said), said),
         frame.type = "call" => Has(x, frame.from, frame.call),
         frame.type = "result" => Has(x, frame.from, frame.call) /\ Rests(x, frame.from, frame.call),
         DeltasFit(deltaBuf', said')
  PROVE  CliInv'
<1>1. PICK more, rest : more = said' /\ rest = deltaBuf'
  OBVIOUS
<1>2. CliFits(said, bubble, textBuf, deltaBuf, reading)
  BY DEF CliInv
<1>3. IsGrown(more, said, frame) /\ DeltasFit(rest, more)
  BY <1>1
<1>4. CliFits(more, x, <<>>, rest, "yes")
  BY <1>2, <1>3, FlushedFits
<1> QED
  BY <1>1, <1>4 DEF CliInv

LEMMA CallKeeps ==
  ASSUME CliInv, NEW who \in Voices, NEW c \in Calls, C!ToolCall(who, c)
  PROVE  CliInv'
<1>1. PICK frame : frame = C!Frame("call", who, c)
  OBVIOUS
<1>2. C!Reads(frame) /\ C!Of(who, c) /\ ~C!Sent("call", c) /\ textBuf' = <<>> /\ deltaBuf' = deltaBuf
  BY <1>1 DEF C!ToolCall
<1>3. /\ MayFollow(frame, said) /\ IsGrown(said', said, frame) /\ reading = "yes" /\ reading' = "yes"
      /\ frame.type = "call" /\ frame.from = who /\ frame.call = c
  BY <1>1, <1>2, FrameIs
<1>4. PICK b, tool : b = C!FlushText(bubble) /\ tool = [args |-> Final, status |-> "running"]
  OBVIOUS
<1>5. Shown(b, Heard(said), said) /\ b \in Bubbles
  <2>1. Shown(bubble, Wrote(said, textBuf), said)
    BY DEF CliInv, CliFits
  <2> QED
    BY <1>4, <2>1, TextFlushed DEF Shown
<1>6. tool \in CliTools
  BY <1>4 DEF CliTools
<1>7. PICK x : x = C!SetCall(b, who, c, tool)
  OBVIOUS
<1>8. bubble' = x
  BY <1>4, <1>7 DEF C!ToolCall
<1>9. Mends(x, b, c) /\ Has(x, who, c)
  BY <1>5, <1>6, <1>7, SetCallMends
<1>10. Shown(x, Heard(said), said)
  <2>1. \A o \in Voices : ~FrameOf(said, "result", o, c)
    BY <1>2, NotCalled
  <2>2. PICK D : D = Heard(said)
    OBVIOUS
  <2>3. Shown(x, D, said)
    BY <1>5, <1>9, <2>1, <2>2, MendsShown
  <2> QED
    BY <2>2, <2>3
<1>11. DeltasFit(deltaBuf', said')
  <2>1. said \in Seq(CliFrames) /\ DeltasFit(deltaBuf, said) /\ frame.type # "result"
    BY <1>3 DEF CliInv, CliFits
  <2>2. DeltasFit(deltaBuf, said')
    BY <1>3, <2>1, DeltasStay
  <2> QED
    BY <1>2, <2>2
<1>12. /\ frame.type \notin Chat /\ Has(x, frame.from, frame.call) /\ frame.type # "result"
  BY <1>3, <1>9 DEF Chat
<1> QED
  BY <1>2, <1>3, <1>8, <1>10, <1>11, <1>12, ReadKeeps

LEMMA DeltaKeeps ==
  ASSUME CliInv, NEW who \in Voices, NEW c \in Calls, NEW now \in BOOLEAN, C!Delta(who, c, now)
  PROVE  CliInv'
<1>1. PICK frame : frame = C!Frame("delta", who, c)
  OBVIOUS
<1>2. PICK e, buf, b : /\ e = [from |-> who, deltas |-> (IF deltaBuf[c] = None THEN <<>> ELSE deltaBuf[c].deltas)
                                                         \o <<Len(said) + 1>>]
                       /\ buf = [deltaBuf EXCEPT ![c] = e] /\ b = C!FlushText(bubble)
  OBVIOUS
<1>3. /\ C!Reads(frame) /\ C!Of(who, c) /\ ~C!Sent("call", c) /\ textBuf' = <<>>
      /\ bubble' = IF now THEN C!FlushDeltas(b, buf) ELSE b
      /\ deltaBuf' = IF now THEN C!NoDeltas ELSE buf
  BY <1>1, <1>2 DEF C!Delta
<1>4. /\ MayFollow(frame, said) /\ IsGrown(said', said, frame) /\ reading = "yes" /\ reading' = "yes"
      /\ frame.type = "delta" /\ frame.from = who /\ frame.call = c
  BY <1>1, <1>3, FrameIs
<1>5. said \in Seq(CliFrames) /\ DeltasFit(deltaBuf, said) /\ Shown(bubble, Wrote(said, textBuf), said)
  BY DEF CliInv, CliFits
<1>6. Shown(b, Heard(said), said)
  BY <1>2, <1>5, TextFlushed
<1>7. e \in Deltas
  <2>1. PICK old : old = IF deltaBuf[c] = None THEN <<>> ELSE deltaBuf[c].deltas
    OBVIOUS
  <2>2. old \in Seq(Nat)
    <3>1. deltaBuf[c] \in Deltas \cup {None}
      BY <1>5 DEF DeltasFit
    <3> QED
      BY <2>1, <3>1 DEF Deltas
  <2>3. PICK more : more = old \o <<Len(said) + 1>>
    OBVIOUS
  <2>4. more \in Seq(Nat)
    <3>1. Len(said) + 1 \in Nat
      BY <1>5
    <3> QED
      BY <2>2, <2>3, <3>1
  <2>5. e = [from |-> who, deltas |-> more]
    BY <1>2, <2>1, <2>3
  <2> QED
    BY <2>4, <2>5 DEF Deltas
<1>8. DeltasFit(buf, said)
  <2>1. \A o \in Voices : ~FrameOf(said, "result", o, c)
    BY <1>3, NotCalled
  <2>2. buf \in [Calls -> Deltas \cup {None}] /\ \A k \in Calls : k # c => buf[k] = deltaBuf[k]
    BY <1>2, <1>5, <1>7 DEF DeltasFit
  <2> QED
    BY <1>5, <2>1, <2>2 DEF DeltasFit
<1>9. PICK x : x = bubble'
  OBVIOUS
<1>10. Shown(x, Heard(said), said)
  <2>1. CASE now
    <3>1. PICK D : D = Heard(said)
      OBVIOUS
    <3>2. Shown(b, D, said) /\ x = C!FlushDeltas(b, buf)
      BY <1>3, <1>6, <1>9, <2>1, <3>1
    <3>3. Shown(x, D, said)
      BY <1>8, <3>2, DeltasShown
    <3> QED
      BY <3>1, <3>3
  <2>2. CASE ~now
    <3>1. x = b
      BY <1>3, <1>9, <2>2
    <3> QED
      BY <1>6, <3>1
  <2> QED
    BY <2>1, <2>2
<1>11. DeltasFit(deltaBuf', said')
  <2>1. DeltasFit(C!NoDeltas, said')
    BY NoDeltasFit
  <2>2. frame.type # "result"
    BY <1>4
  <2>3. DeltasFit(buf, said')
    BY <1>4, <1>5, <1>8, <2>2, DeltasStay
  <2> QED
    BY <1>3, <2>1, <2>3
<1>12. frame.type \notin Chat /\ frame.type # "call" /\ frame.type # "result"
  BY <1>4 DEF Chat
<1>13. bubble' = x
  BY <1>9
<1> QED
  BY <1>3, <1>4, <1>10, <1>11, <1>12, <1>13, ReadKeeps

\* Both buffers are written.
LEMMA AllFlushed ==
  ASSUME CliInv, NEW b, Shown(b, Wrote(said, textBuf), said), NEW x, x = C!FlushDeltas(C!FlushText(b), deltaBuf)
  PROVE  Shown(x, Heard(said), said)
<1>1. PICK y, D : y = C!FlushText(b) /\ D = Heard(said)
  OBVIOUS
<1>2. Shown(y, D, said)
  BY <1>1, TextFlushed
<1>3. x = C!FlushDeltas(y, deltaBuf) /\ DeltasFit(deltaBuf, said)
  BY <1>1 DEF CliInv, CliFits
<1>4. Shown(x, D, said)
  BY <1>2, <1>3, DeltasShown
<1> QED
  BY <1>1, <1>4

LEMMA ResultKeeps ==
  ASSUME CliInv, NEW who \in Voices, NEW c \in Calls, NEW status \in {"done", "error"}, C!ToolResult(who, c, status)
  PROVE  CliInv'
<1>1. PICK frame, b : frame = C!Frame("result", who, c) /\ b = C!FlushDeltas(C!FlushText(bubble), deltaBuf)
  OBVIOUS
<1>2. /\ C!Reads(frame) /\ C!Of(who, c) /\ C!Sent("call", c) /\ ~C!Sent("result", c)
      /\ textBuf' = <<>> /\ deltaBuf' = C!NoDeltas
  BY <1>1 DEF C!ToolResult
<1>3. FrameOf(said, "call", who, c)
  BY <1>2 DEF C!Sent, C!Of, FrameOf
<1>4. /\ MayFollow(frame, said) /\ IsGrown(said', said, frame) /\ reading = "yes" /\ reading' = "yes"
      /\ frame.type = "result" /\ frame.from = who /\ frame.call = c
  BY <1>1, <1>2, <1>3, FrameIs
<1>5. Shown(b, Heard(said), said) /\ b \in Bubbles /\ Has(b, who, c)
  <2>1. Shown(bubble, Wrote(said, textBuf), said)
    BY DEF CliInv, CliFits
  <2>2. Shown(b, Heard(said), said)
    BY <1>1, <2>1, AllFlushed
  <2> QED
    BY <1>3, <2>2 DEF Shown, CallsFit
<1>6. PICK x : x = C!Settled(b, who, c, status)
  OBVIOUS
<1>7. bubble' = x
  BY <1>1, <1>6 DEF C!ToolResult
<1>8. Mends(x, b, c) /\ Rests(x, who, c)
  BY <1>5, <1>6, SettledMends
<1>9. Has(x, who, c)
  BY <1>5, <1>8 DEF Mends
<1>10. Shown(x, Heard(said), said)
  <2>1. \A o \in Voices : ~FrameOf(said, "result", o, c)
    BY <1>2 DEF C!Sent, FrameOf
  <2>2. PICK D : D = Heard(said)
    OBVIOUS
  <2>3. Shown(x, D, said)
    BY <1>5, <1>8, <2>1, <2>2, MendsShown
  <2> QED
    BY <2>2, <2>3
<1>11. DeltasFit(deltaBuf', said')
  BY <1>2, NoDeltasFit
<1>12. frame.type \notin Chat /\ Has(x, frame.from, frame.call) /\ Rests(x, frame.from, frame.call)
  BY <1>4, <1>8, <1>9 DEF Chat
<1> QED
  BY <1>2, <1>4, <1>7, <1>10, <1>11, <1>12, ReadKeeps

\* A write that touches no call.
LEMMA QuietShown ==
  ASSUME NEW b, NEW D, NEW sd, Shown(b, D, sd), NEW d, Mends(d, b, None)
  PROVE  Shown(d, D, sd)
<1>1. None \notin Calls
  BY CliAssumption
<1> QED
  BY <1>1, MendsShown

LEMMA EndFrameKeeps ==
  ASSUME CliInv, NEW who \in Voices, NEW type \in {"error", "done"}, C!ErrorOrDone(type, who)
  PROVE  CliInv'
<1>1. PICK frame, b, D : /\ frame = C!Frame(type, who, None) /\ b = C!FlushDeltas(C!FlushText(bubble), deltaBuf)
                         /\ D = Heard(said)
  OBVIOUS
<1>2. C!Reads(frame) /\ textBuf' = <<>> /\ deltaBuf' = C!NoDeltas
  BY <1>1 DEF C!ErrorOrDone
<1>3. type # "result" /\ type # "call" /\ type \notin Chat
  BY DEF Chat
<1>4. /\ MayFollow(frame, said) /\ IsGrown(said', said, frame) /\ reading = "yes" /\ reading' = "yes"
      /\ frame.type = type /\ frame.from = who /\ frame.call = None
  BY <1>1, <1>2, <1>3, FrameIs
<1>5. Shown(b, D, said) /\ b \in Bubbles
  <2>1. Shown(bubble, Wrote(said, textBuf), said)
    BY DEF CliInv, CliFits
  <2> QED
    BY <1>1, <2>1, AllFlushed DEF Shown
<1>6. PICK x : x = bubble'
  OBVIOUS
<1>7. x = IF type = "done" THEN b
          ELSE IF who = Main THEN [b EXCEPT !.status = "error"]
          ELSE C!PatchSub(b, who, [C!Run(b, who) EXCEPT !.status = "error"])
  BY <1>1, <1>6 DEF C!ErrorOrDone
<1>8. Mends(x, b, None)
  <2>1. CASE type = "done"
    BY <1>5, <1>7, <2>1, SameMends
  <2>2. CASE type # "done" /\ who = Main
    <3>1. PICK status : status = "error"
      OBVIOUS
    <3>2. status \in Statuses /\ x = [b EXCEPT !.status = status]
      BY <1>7, <2>2, <3>1 DEF Statuses
    <3>3. Mends(x, b, None) /\ x.status = status
      BY <1>5, <3>2, StatusMends
    <3> QED
      BY <3>3
  <2>3. CASE type # "done" /\ who # Main
    <3>1. PICK r, y : r = C!Run(b, who) /\ y = [r EXCEPT !.status = "error"]
      OBVIOUS
    <3>2. who \in Subs /\ x = C!PatchSub(b, who, y)
      BY <1>7, <2>3, <3>1 DEF Voices
    <3>3. r \in Runs
      BY <1>5, <3>1, <3>2, RunIs
    <3>4. y \in Runs /\ y.text = r.text /\ y.calls = r.calls
      BY <3>1, <3>3 DEF Runs, Statuses
    <3>5. RunTurns(y, r, None)
      BY <3>4 DEF RunTurns, CallsTurn
    <3>6. Mends(x, b, None) /\ x.subs[who] = y
      BY <1>5, <3>1, <3>2, <3>4, <3>5, MendsSub
    <3> QED
      BY <3>6
  <2> QED
    BY <2>1, <2>2, <2>3
<1>9. Shown(x, Heard(said), said)
  BY <1>1, <1>5, <1>8, QuietShown
<1>10. DeltasFit(deltaBuf', said')
  BY <1>2, NoDeltasFit
<1>11. frame.type \notin Chat /\ frame.type # "call" /\ frame.type # "result" /\ bubble' = x
  BY <1>3, <1>4, <1>6
<1> QED
  BY <1>2, <1>4, <1>9, <1>10, <1>11, ReadKeeps

LEMMA StopKeeps ==
  ASSUME CliInv, C!Stop
  PROVE  CliInv'
<1>1. /\ said' = said /\ textBuf' = textBuf /\ deltaBuf' = deltaBuf /\ reading' = "stopped"
      /\ bubble' = C!Sealed(bubble)
  BY DEF C!Stop
<1>2. PICK d, D : d = C!Sealed(bubble) /\ D = Wrote(said, textBuf)
  OBVIOUS
<1>3. Shown(bubble, D, said) /\ bubble \in Bubbles
  BY <1>2 DEF CliInv, CliFits, Shown
<1>4. Mends(d, bubble, None)
  BY <1>2, <1>3, SealedMends
<1>5. Shown(d, D, said)
  BY <1>3, <1>4, QuietShown
<1>6. CliFits(said, d, textBuf, deltaBuf, "stopped")
  BY <1>2, <1>5 DEF CliInv, CliFits
<1> QED
  BY <1>1, <1>2, <1>6 DEF CliInv

LEMMA EndsKeep ==
  ASSUME CliInv, NEW how \in {"read", "aborted", "broken"}, C!Ends(how)
  PROVE  CliInv'
<1>1. PICK marked : marked = CASE how = "aborted" -> [bubble EXCEPT !.status = "done"]
                               [] how = "broken" -> [bubble EXCEPT !.status = "error"]
                               [] OTHER -> bubble
  OBVIOUS
<1>2. PICK b, x : b = C!FlushDeltas(C!FlushText(marked), deltaBuf) /\ x = bubble'
  OBVIOUS
<1>3. /\ said' = said /\ textBuf' = <<>> /\ deltaBuf' = C!NoDeltas /\ reading' = "no"
      /\ x = IF b.status = "streaming" THEN [b EXCEPT !.status = "done"] ELSE b
  BY <1>1, <1>2 DEF C!Ends
<1>4. PICK D : D = Wrote(said, textBuf)
  OBVIOUS
<1>5. Shown(bubble, D, said) /\ bubble \in Bubbles
  BY <1>4 DEF CliInv, CliFits, Shown
<1>6. Mends(marked, bubble, None)
  <2>1. CASE how = "read"
    <3>1. marked = bubble
      BY <1>1, <2>1
    <3> QED
      BY <1>5, <3>1, SameMends
  <2>2. CASE how # "read"
    <3>1. PICK status : status = IF how = "aborted" THEN "done" ELSE "error"
      OBVIOUS
    <3>2. status \in Statuses /\ marked = [bubble EXCEPT !.status = status]
      BY <1>1, <2>2, <3>1 DEF Statuses
    <3>3. Mends(marked, bubble, None) /\ marked.status = status
      BY <1>5, <3>2, StatusMends
    <3> QED
      BY <3>3
  <2> QED
    BY <2>1, <2>2
<1>7. Shown(marked, Wrote(said, textBuf), said)
  BY <1>4, <1>5, <1>6, QuietShown
<1>8. Shown(b, Heard(said), said) /\ b \in Bubbles
  <2>1. Shown(b, Heard(said), said)
    BY <1>2, <1>7, AllFlushed
  <2> QED
    BY <2>1 DEF Shown
<1>9. Mends(x, b, None) /\ x.status # "streaming"
  <2>1. CASE b.status = "streaming"
    <3>1. PICK status : status = "done"
      OBVIOUS
    <3>2. status \in Statuses /\ x = [b EXCEPT !.status = status]
      BY <1>3, <2>1, <3>1 DEF Statuses
    <3>3. Mends(x, b, None) /\ x.status = status
      BY <1>8, <3>2, StatusMends
    <3> QED
      BY <3>1, <3>3
  <2>2. CASE b.status # "streaming"
    <3>1. x = b
      BY <1>3, <2>2
    <3> QED
      BY <1>8, <2>2, <3>1, SameMends
  <2> QED
    BY <2>1, <2>2
<1>10. Shown(x, Heard(said), said)
  <2>1. PICK E : E = Heard(said)
    OBVIOUS
  <2>2. Shown(b, E, said)
    BY <1>8, <2>1
  <2>3. Shown(x, E, said)
    BY <1>9, <2>2, QuietShown
  <2> QED
    BY <2>1, <2>3
<1>11. CliFits(said, x, <<>>, C!NoDeltas, "no")
  BY <1>9, <1>10, NothingWaits, NoDeltasFit DEF CliInv, CliFits
<1> QED
  BY <1>2, <1>3, <1>11 DEF CliInv

LEMMA CliNext ==
  ASSUME CliInv, [C!Next]_(C!cliVars)
  PROVE  CliInv'
<1>1. CASE C!Next
  BY <1>1, WordKeeps, FlushKeeps, CallKeeps, DeltaKeeps, ResultKeeps, EndFrameKeeps, StopKeeps, EndsKeep DEF C!Next, Voices, Chat
<1>2. CASE UNCHANGED C!cliVars
  BY <1>2 DEF CliInv, C!cliVars
<1> QED
  BY <1>1, <1>2

LEMMA CliStart == ASSUME C!Init PROVE CliInv
<1>1. PICK sd, b, buf : sd = said /\ b = bubble /\ buf = deltaBuf
  OBVIOUS
<1>2. /\ sd = <<>> /\ textBuf = <<>> /\ reading = "yes" /\ buf = [c \in Calls |-> None]
      /\ b = [segs |-> <<>>, calls |-> [c \in Calls |-> None], status |-> "streaming", subs |-> [s \in Subs |-> None]]
  BY <1>1 DEF C!Init
<1>3. sd \in Seq(CliFrames) /\ \A i : i \notin DOMAIN sd
  BY <1>2, Nothing
<1>4. PICK segs : segs = <<>>
  OBVIOUS
<1>5. segs \in Seq(Segs) /\ \A i : i \notin DOMAIN segs
  BY <1>4, Nothing
<1>6. b \in Bubbles /\ b.segs = segs /\ \A s \in Subs : b.subs[s] = None
  BY <1>2, <1>4, <1>5 DEF Bubbles, ToolMap, Statuses
<1>7. Heard(sd) = {}
  BY <1>3 DEF Heard
<1>8. Words(b, Heard(sd), sd)
  BY <1>5, <1>6, <1>7 DEF Words, MainWords, At
<1>9. CallsFit(b, sd)
  BY <1>3, <1>5, <1>6 DEF CallsFit, ToolOnce, ToolAt, FrameOf
<1>10. OneOwner(sd) /\ ResultsFit(sd) /\ DeltasFit(buf, sd)
  BY <1>2, <1>3 DEF OneOwner, ResultsFit, DeltasFit, FrameOf
<1>11. CliFits(sd, b, <<>>, buf, "yes")
  BY <1>3, <1>6, <1>8, <1>9, <1>10, NothingWaits DEF CliFits, Shown
<1> QED
  BY <1>1, <1>2, <1>11 DEF CliInv

Rising(s) == s \in Seq(Nat) /\ \A k, l \in DOMAIN s : k < l => s[k] < s[l]
NumbersIn(s) == {s[k] : k \in DOMAIN s}

LEMMA RisingJoined ==
  ASSUME NEW x, NEW y, Rising(x), Rising(y), \A m \in NumbersIn(x), n \in NumbersIn(y) : m < n, NEW t, t = x \o y
  PROVE  Rising(t) /\ NumbersIn(t) = NumbersIn(x) \cup NumbersIn(y)
<1>0. /\ x \in Seq(Nat) /\ \A k, l \in DOMAIN x : k < l => x[k] < x[l]
      /\ y \in Seq(Nat) /\ \A k, l \in DOMAIN y : k < l => y[k] < y[l]
  BY DEF Rising
<1>1. PICK a, b : a = Len(x) /\ b = Len(y)
  OBVIOUS
<1>2. a \in Nat /\ b \in Nat /\ DOMAIN x = 1..a /\ DOMAIN y = 1..b
  BY <1>0, <1>1
<1>3. t \in Seq(Nat) /\ Len(t) = a + b
  BY <1>0, <1>1
<1>4. DOMAIN t = 1..(a + b)
  BY <1>3
<1>5. \A k \in 1..(a + b) : t[k] = IF k <= a THEN x[k] ELSE y[k - a]
  BY <1>0, <1>1
<1>6. \A k \in 1..(a + b) : /\ k <= a => k \in DOMAIN x /\ t[k] = x[k]
                            /\ ~(k <= a) => k - a \in DOMAIN y /\ t[k] = y[k - a]
  BY <1>2, <1>5
<1>7. ASSUME NEW k \in 1..(a + b), NEW l \in 1..(a + b), k < l PROVE t[k] < t[l]
  <2>1. CASE l <= a
    <3>1. k <= a /\ k \in DOMAIN x /\ l \in DOMAIN x
      BY <1>2, <1>7, <2>1
    <3>2. t[k] = x[k] /\ t[l] = x[l] /\ x[k] < x[l]
      BY <1>0, <1>6, <1>7, <2>1, <3>1
    <3> QED
      BY <3>2
  <2>2. CASE k <= a /\ ~(l <= a)
    <3>1. t[k] \in NumbersIn(x) /\ t[l] \in NumbersIn(y)
      BY <1>6, <2>2 DEF NumbersIn
    <3> QED
      BY <3>1
  <2>3. CASE ~(k <= a)
    <3>1. ~(l <= a) /\ k - a < l - a
      BY <1>2, <1>7, <2>3
    <3> QED
      BY <1>0, <1>6, <2>3, <3>1
  <2> QED
    BY <1>2, <2>1, <2>2, <2>3
<1>8. \A k \in DOMAIN x : k \in 1..(a + b) /\ t[k] = x[k]
  BY <1>2, <1>6
<1>9. \A k \in DOMAIN y : a + k \in 1..(a + b) /\ t[a + k] = y[k]
  <2> SUFFICES ASSUME NEW k \in DOMAIN y PROVE a + k \in 1..(a + b) /\ t[a + k] = y[k]
    OBVIOUS
  <2>1. k \in 1..b
    BY <1>2
  <2>2. a + k \in 1..(a + b) /\ ~(a + k <= a) /\ (a + k) - a = k
    BY <1>2, <2>1
  <2> QED
    BY <1>6, <2>2
<1>10. NumbersIn(t) = NumbersIn(x) \cup NumbersIn(y)
  <2>1. NumbersIn(t) \subseteq NumbersIn(x) \cup NumbersIn(y)
    BY <1>4, <1>6 DEF NumbersIn
  <2>2. NumbersIn(x) \subseteq NumbersIn(t)
    BY <1>4, <1>8 DEF NumbersIn
  <2>3. NumbersIn(y) \subseteq NumbersIn(t)
    BY <1>4, <1>9 DEF NumbersIn
  <2> QED
    BY <2>1, <2>2, <2>3
<1> QED
  BY <1>3, <1>4, <1>7, <1>10 DEF Rising

\* Two rising sequences of the same numbers: no first place tells them apart, and none
\* goes on where the other ends.
LEMMA RisingWithin ==
  ASSUME NEW s, NEW t, Rising(s), Rising(t), NumbersIn(s) = NumbersIn(t)
  PROVE  \A k \in DOMAIN s : k \in DOMAIN t /\ s[k] = t[k]
<1>0. /\ s \in Seq(Nat) /\ \A k, l \in DOMAIN s : k < l => s[k] < s[l]
      /\ t \in Seq(Nat) /\ \A k, l \in DOMAIN t : k < l => t[k] < t[l]
  BY DEF Rising
<1>1. PICK a, b : a = Len(s) /\ b = Len(t)
  OBVIOUS
<1>2. a \in Nat /\ b \in Nat /\ DOMAIN s = 1..a /\ DOMAIN t = 1..b
  BY <1>0, <1>1
<1>3. (\A k \in 1..a : s[k] \in Nat) /\ \A k \in 1..b : t[k] \in Nat
  BY <1>0, <1>2
<1>4. /\ \A k \in 1..a : \E j \in 1..b : t[j] = s[k]
      /\ \A k \in 1..b : \E j \in 1..a : s[j] = t[k]
  BY <1>2 DEF NumbersIn
<1> DEFINE bad == {k \in 1..a : ~(k \in 1..b /\ s[k] = t[k])}
<1>5. bad = {}
  <2> SUFFICES ASSUME bad # {} PROVE FALSE
    OBVIOUS
  <2>0. bad \subseteq Nat
    BY <1>2
  <2> HIDE DEF bad
  <2>1. PICK k \in bad : \A l \in bad : k <= l
    BY <2>0, LeastElement
  <2>2. k \in 1..a /\ ~(k \in 1..b /\ s[k] = t[k])
    BY DEF bad
  <2>3. \A l \in 1..a : l < k => l \in 1..b /\ s[l] = t[l]
    <3> SUFFICES ASSUME NEW l \in 1..a, l < k PROVE l \in 1..b /\ s[l] = t[l]
      OBVIOUS
    <3>1. l \notin bad
      BY <1>2, <2>1, <2>2
    <3> QED
      BY <3>1 DEF bad
  <2>4. PICK j \in 1..b : t[j] = s[k]
    BY <1>4, <2>2
  <2>5. ~(j < k)
    <3> SUFFICES ASSUME j < k PROVE FALSE
      OBVIOUS
    <3>1. j \in 1..a
      BY <1>2, <2>2
    <3>2. s[j] = t[j] /\ s[j] < s[k]
      BY <1>0, <1>2, <2>2, <2>3, <3>1
    <3> QED
      BY <1>3, <2>2, <2>4, <3>1, <3>2
  <2>6. k \in 1..b /\ k < j
    <3>1. k \in 1..b
      BY <1>2, <2>2, <2>5
    <3>2. k # j
      BY <2>2, <2>4, <3>1
    <3> QED
      BY <2>5, <3>1, <3>2
  <2>7. t[k] < s[k]
    BY <1>0, <1>2, <2>4, <2>6
  <2>8. PICK i \in 1..a : s[i] = t[k]
    BY <1>4, <2>6
  <2>9. i < k
    <3>1. ~(k < i)
      <4> SUFFICES ASSUME k < i PROVE FALSE
        OBVIOUS
      <4>1. s[k] < s[i]
        BY <1>0, <1>2, <2>2
      <4> QED
        BY <1>3, <2>2, <2>6, <2>7, <2>8, <4>1
    <3>2. i # k
      BY <2>2, <2>6, <2>8
    <3> QED
      BY <1>2, <2>2, <3>1, <3>2
  <2>10. s[i] = t[i] /\ i \in 1..b
    BY <2>3, <2>9
  <2>11. t[i] < t[k]
    BY <1>0, <1>2, <2>6, <2>9, <2>10
  <2> QED
    BY <1>3, <2>6, <2>8, <2>10, <2>11
<1> QED
  BY <1>2, <1>5

LEMMA RisingSame ==
  ASSUME NEW s, NEW t, Rising(s), Rising(t), NumbersIn(s) = NumbersIn(t)
  PROVE  s = t
<1>1. (\A k \in DOMAIN s : k \in DOMAIN t /\ s[k] = t[k]) /\ \A k \in DOMAIN t : k \in DOMAIN s
  BY RisingWithin
<1>2. s \in Seq(Nat) /\ t \in Seq(Nat)
  BY DEF Rising
<1>3. DOMAIN s = 1..Len(s) /\ Len(s) \in Nat /\ DOMAIN t = 1..Len(t) /\ Len(t) \in Nat
  BY <1>2
<1>4. Len(s) = Len(t)
  <2>1. PICK a, b : a = Len(s) /\ b = Len(t)
    OBVIOUS
  <2>2. a \in Nat /\ b \in Nat /\ (\A k \in 1..a : k \in 1..b) /\ (\A k \in 1..b : k \in 1..a)
    BY <1>1, <1>3, <2>1
  <2>3. ~(a < b)
    <3>1. a < b => b \in 1..b /\ b \notin 1..a
      BY <2>2
    <3> QED
      BY <2>2, <3>1
  <2>4. ~(b < a)
    <3>1. b < a => a \in 1..a /\ a \notin 1..b
      BY <2>2
    <3> QED
      BY <2>2, <3>1
  <2> QED
    BY <2>1, <2>2, <2>3, <2>4
<1>5. \A i \in 1..Len(s) : s[i] = t[i]
  BY <1>1, <1>3
<1> QED
  BY <1>2, <1>4, <1>5, SeqEqual, Zenon

\* The frames that an agent's words are.
Sayings(sd, who, kinds) == {i \in DOMAIN sd : sd[i].from = who /\ sd[i].type \in kinds}

LEMMA FramesOfIs ==
  ASSUME said \in Seq(CliFrames), NEW who, NEW kinds, NEW w, w = C!FramesOf(who, kinds)
  PROVE  Rising(w) /\ NumbersIn(w) = Sayings(said, who, kinds)
<1>1. PICK N : N = Len(said)
  OBVIOUS
<1>2. N \in Nat /\ DOMAIN said = 1..N
  BY <1>1
<1>3. PICK s, items : s = [i \in 1..N |-> i] /\ items = Sayings(said, who, kinds)
  OBVIOUS
<1>4. w = C!Among(s, items)
  BY <1>2, <1>3 DEF C!FramesOf, Sayings
<1>5. w = R!Among(s, items)
  BY <1>4 DEF C!Among, R!Among
<1>6. ArePlaces(s, N)
  BY <1>3 DEF ArePlaces
<1>7. /\ IsSeq(w)
      /\ \A k \in DOMAIN w : w[k] \in 1..N /\ w[k] \in items
      /\ \A i \in 1..N : i \in items => \E k \in DOMAIN w : w[k] = i
      /\ \A k, l \in DOMAIN w : k < l => w[k] < w[l]
  BY <1>2, <1>5, <1>6, PlacesKept
<1>8. w \in Seq(Nat)
  <2>1. Len(w) \in Nat /\ DOMAIN w = 1..Len(w) /\ w = [i \in 1..Len(w) |-> w[i]]
    BY <1>7, SeqIs
  <2>2. \A i \in 1..Len(w) : w[i] \in Nat
    BY <1>2, <1>7, <2>1
  <2> QED
    BY <2>1, <2>2
<1>9. NumbersIn(w) = items
  BY <1>2, <1>3, <1>7 DEF NumbersIn, Sayings
<1> QED
  BY <1>3, <1>7, <1>8, <1>9 DEF Rising

\* The words of one kind in the first n segments.
SpokenUpTo(segs, kind, n) == {m \in Nat : \E i \in 1..n, p \in Nat : At(segs, i, p) /\ segs[i].kind = kind /\ segs[i].of[p] = m}

LEMMA TextOfIs ==
  ASSUME NEW D, NEW sd, bubble.segs \in Seq(Segs), MainWords(bubble.segs, D, sd), NEW kind \in Chat, NEW w, w = C!TextOf(kind)
  PROVE  Rising(w) /\ NumbersIn(w) = {m \in D : sd[m].from = Main /\ sd[m].type = kind}
<1>1. PICK segs, N : segs = bubble.segs /\ N = Len(segs)
  OBVIOUS
<1>2. N \in Nat /\ DOMAIN segs = 1..N /\ \A i \in 1..N : segs[i] \in Segs
  BY <1>1
<1>3. PICK of : of = [segs |-> segs, kind |-> kind]
  OBVIOUS
<1>4. of.segs = segs /\ of.kind = kind
  BY <1>3
<1>5. PICK g : w = g[N] /\ \A n \in 0..N : RoundMade("segs", of, <<>>, n, g)
  BY <1>1, <1>2, <1>4, SegsRounds
<1>6. \A n \in 0..N : g[n] = IF n = 0 THEN <<>> ELSE IF segs[n].kind = kind THEN g[n - 1] \o segs[n].of ELSE g[n - 1]
  BY <1>4, <1>5 DEF RoundMade, Round
<1>7. MainWords(segs, D, sd)
  BY <1>1
<1>8. \A i \in 1..N : segs[i].kind \in Chat => segs[i].of \in Seq(Nat)
  BY <1>2, SegForms
<1>9. \A i, p : At(segs, i, p) => i \in 1..N /\ p \in Nat /\ segs[i].of[p] \in Nat
  <2> SUFFICES ASSUME NEW i, NEW p, At(segs, i, p) PROVE i \in 1..N /\ p \in Nat /\ segs[i].of[p] \in Nat
    OBVIOUS
  <2>1. i \in 1..N /\ segs[i].of \in Seq(Nat) /\ p \in DOMAIN segs[i].of
    BY <1>2, <1>8 DEF At
  <2> QED
    BY <2>1
<1> DEFINE right(n) == Rising(g[n]) /\ NumbersIn(g[n]) = SpokenUpTo(segs, kind, n)
<1> DEFINE P == {n \in 0..N : right(n)}
<1>10. 0 \in P
  <2>1. PICK x : x = g[0]
    OBVIOUS
  <2>2. x = <<>>
    BY <1>2, <1>6, <2>1
  <2>3. x \in Seq(Nat) /\ \A k : k \notin DOMAIN x
    BY <2>2, Nothing
  <2>4. SpokenUpTo(segs, kind, 0) = {}
    BY DEF SpokenUpTo
  <2>5. Rising(x) /\ NumbersIn(x) = SpokenUpTo(segs, kind, 0)
    BY <2>3, <2>4 DEF Rising, NumbersIn
  <2> QED
    BY <1>2, <2>1, <2>5
<1>11. ASSUME NEW n \in 1..N, n - 1 \in P PROVE n \in P
  <2>1. PICK x, y, new : x = g[n - 1] /\ y = segs[n].of /\ new = g[n]
    OBVIOUS
  <2>2. Rising(x) /\ NumbersIn(x) = SpokenUpTo(segs, kind, n - 1)
    BY <1>11, <2>1
  <2>3. 1..n = (1..(n - 1)) \cup {n} /\ n \in Nat
    BY <1>2
  <2>4. CASE segs[n].kind = kind
    <3>1. new = x \o y
      <4>1. n \in 0..N /\ n # 0
        BY <1>2
      <4>2. g[n] = g[n - 1] \o segs[n].of
        BY <1>6, <2>4, <4>1
      <4> QED
        BY <2>1, <4>2
    <3>2. y \in Seq(Nat) /\ \A p \in DOMAIN y : At(segs, n, p) /\ p \in Nat /\ y[p] \in Nat
      BY <1>2, <1>8, <2>1, <2>4 DEF At
    <3>3. Rising(y)
      BY <1>7, <2>1, <3>2 DEF Rising, MainWords
    <3>4. NumbersIn(y) = {m \in Nat : \E p \in Nat : At(segs, n, p) /\ segs[n].kind = kind /\ segs[n].of[p] = m}
      <4>1. \A p : At(segs, n, p) => p \in DOMAIN y
        BY <2>1 DEF At
      <4> QED
        BY <2>1, <2>4, <3>2, <4>1 DEF NumbersIn
    <3>5. NumbersIn(x) \cup NumbersIn(y) = SpokenUpTo(segs, kind, n)
      BY <2>2, <2>3, <3>4 DEF SpokenUpTo
    <3>6. \A m \in NumbersIn(x), o \in NumbersIn(y) : m < o
      <4> SUFFICES ASSUME NEW m \in NumbersIn(x), NEW o \in NumbersIn(y) PROVE m < o
        OBVIOUS
      <4>1. PICK i \in 1..(n - 1), p \in Nat : At(segs, i, p) /\ segs[i].of[p] = m
        BY <2>2 DEF SpokenUpTo
      <4>2. PICK q \in DOMAIN y : y[q] = o
        BY DEF NumbersIn
      <4>3. At(segs, n, q) /\ segs[n].of[q] = o
        BY <2>1, <3>2, <4>2
      <4>4. i < n
        BY <1>2
      <4> QED
        BY <1>7, <4>1, <4>3, <4>4 DEF MainWords
    <3>7. Rising(new) /\ NumbersIn(new) = NumbersIn(x) \cup NumbersIn(y)
      BY <2>2, <3>1, <3>3, <3>6, RisingJoined
    <3>8. right(n)
      BY <2>1, <3>5, <3>7
    <3> QED
      BY <1>2, <3>8
  <2>5. CASE segs[n].kind # kind
    <3>1. new = x
      BY <1>6, <2>1, <2>5
    <3>2. SpokenUpTo(segs, kind, n) = SpokenUpTo(segs, kind, n - 1)
      BY <2>3, <2>5 DEF SpokenUpTo
    <3>3. Rising(new) /\ NumbersIn(new) = SpokenUpTo(segs, kind, n)
      BY <2>2, <3>1, <3>2
    <3>4. right(n)
      BY <2>1, <3>3
    <3> QED
      BY <1>2, <3>4
  <2> QED
    BY <2>4, <2>5
<1>12. N \in P
  <2> HIDE DEF P
  <2>1. \A n \in 0..N : n \in P
    BY <1>2, <1>10, <1>11, Reached
  <2> QED
    BY <1>2, <2>1
<1>13. SpokenUpTo(segs, kind, N) = {m \in D : sd[m].from = Main /\ sd[m].type = kind}
  <2>1. ASSUME NEW m \in SpokenUpTo(segs, kind, N) PROVE m \in D /\ sd[m].from = Main /\ sd[m].type = kind
    <3>1. PICK i, p : At(segs, i, p) /\ segs[i].kind = kind /\ segs[i].of[p] = m
      BY DEF SpokenUpTo
    <3> QED
      BY <1>7, <3>1 DEF MainWords, SaysAs
  <2>2. ASSUME NEW m \in D, sd[m].from = Main, sd[m].type = kind PROVE m \in SpokenUpTo(segs, kind, N)
    <3>1. PICK i, p : At(segs, i, p) /\ segs[i].of[p] = m
      BY <1>7, <2>2 DEF MainWords
    <3>2. segs[i].kind = kind
      BY <1>7, <2>2, <3>1 DEF MainWords, SaysAs
    <3>3. i \in 1..N /\ p \in Nat /\ m \in Nat
      BY <1>9, <3>1
    <3> QED
      BY <3>1, <3>2, <3>3 DEF SpokenUpTo
  <2> QED
    BY <2>1, <2>2
<1> QED
  BY <1>5, <1>12, <1>13

LEMMA OneSegment ==
  ASSUME NEW segs, ToolOnce(segs), NEW c, \E i : ToolAt(segs, i) /\ segs[i].of = c,
         NEW places, places = {i \in DOMAIN segs : segs[i].kind = "tool" /\ segs[i].of = c}
  PROVE  C!Cardinality(places) = 1
<1>1. PICK i : ToolAt(segs, i) /\ segs[i].of = c
  OBVIOUS
<1>2. places = {i}
  BY <1>1 DEF ToolAt, ToolOnce
<1>3. Cardinality(places) = 1
  BY <1>2, FS_Singleton
<1> QED
  BY <1>3 DEF C!Cardinality, Cardinality

LEMMA StreamSafe ==
  ASSUME CliInv
  PROVE  C!StreamKept
<1> SUFFICES ASSUME reading = "no" PROVE C!StreamKept
  BY DEF C!StreamKept
<1>1. said \in Seq(CliFrames) /\ OneOwner(said) /\ textBuf = <<>> /\ bubble.status # "streaming"
  BY DEF CliInv, CliFits
<1>2. PICK D : D = Heard(said)
  OBVIOUS
<1>3. Shown(bubble, D, said)
  <2>1. Shown(bubble, Wrote(said, textBuf), said)
    BY DEF CliInv, CliFits
  <2> QED
    BY <1>1, <1>2, <2>1, NothingWaits
<1>4. bubble \in Bubbles /\ MainWords(bubble.segs, D, said) /\ CallsFit(bubble, said) /\ bubble.segs \in Seq(Segs)
  BY <1>3, BubbleForm DEF Shown, Words
<1>5. ASSUME NEW kind \in Chat PROVE C!TextOf(kind) = C!FramesOf(Main, {kind})
  <2>1. PICK v, w : v = C!TextOf(kind) /\ w = C!FramesOf(Main, {kind})
    OBVIOUS
  <2>2. Rising(v) /\ NumbersIn(v) = {m \in D : said[m].from = Main /\ said[m].type = kind}
    BY <1>4, <2>1, TextOfIs
  <2>3. Rising(w) /\ NumbersIn(w) = Sayings(said, Main, {kind})
    BY <1>1, <2>1, FramesOfIs
  <2>4. NumbersIn(v) = NumbersIn(w)
    BY <1>2, <2>2, <2>3 DEF Heard, Sayings
  <2>5. v = w
    BY <2>2, <2>3, <2>4, RisingSame
  <2> QED
    BY <2>1, <2>5
<1>6. ASSUME NEW s \in Subs, bubble.subs[s] # None PROVE bubble.subs[s].text = C!FramesOf(s, {"text", "thinking"})
  <2>1. PICK v, w : v = bubble.subs[s].text /\ w = C!FramesOf(s, {"text", "thinking"})
    OBVIOUS
  <2>2. TextIs(v, D, said, s) /\ v \in Seq(Nat)
    <3>1. bubble.subs[s] \in Runs
      BY <1>4, <1>6, BubbleForm
    <3> QED
      BY <1>3, <1>6, <2>1, <3>1 DEF Shown, Words, Runs
  <2>3. Rising(v) /\ NumbersIn(v) = {m \in D : said[m].from = s}
    BY <2>2 DEF TextIs, Rising, NumbersIn
  <2>4. Rising(w) /\ NumbersIn(w) = Sayings(said, s, {"text", "thinking"})
    BY <1>1, <2>1, FramesOfIs
  <2>5. NumbersIn(v) = NumbersIn(w)
    BY <1>2, <2>3, <2>4 DEF Heard, Sayings, Chat
  <2>6. v = w
    BY <2>3, <2>4, <2>5, RisingSame
  <2> QED
    BY <2>1, <2>6
<1>7. ASSUME NEW c \in Calls, C!Sent("call", c), C!Of(Main, c)
      PROVE  C!Cardinality({i \in DOMAIN bubble.segs : bubble.segs[i].kind = "tool" /\ bubble.segs[i].of = c}) = 1
  <2>1. FrameOf(said, "call", Main, c)
    BY <1>7 DEF C!Sent, C!Of, FrameOf
  <2>2. Has(bubble, Main, c) /\ ToolOnce(bubble.segs)
    BY <1>4, <2>1 DEF CallsFit, Voices
  <2>3. PICK segs : segs = bubble.segs
    OBVIOUS
  <2>4. ToolOnce(segs) /\ \E i : ToolAt(segs, i) /\ segs[i].of = c
    BY <2>2, <2>3 DEF Has
  <2>5. PICK places : places = {i \in DOMAIN segs : segs[i].kind = "tool" /\ segs[i].of = c}
    OBVIOUS
  <2>6. C!Cardinality(places) = 1
    BY <2>4, <2>5, OneSegment
  <2> QED
    BY <2>3, <2>5, <2>6
<1>8. ASSUME NEW c \in Calls, C!Sent("result", c)
      PROVE  \E who \in Subs \cup {Main} : /\ C!Of(who, c)
               /\ (IF who = Main THEN bubble ELSE bubble.subs[who]).calls[c].status # "running"
  <2>1. PICK i \in DOMAIN said : said[i].type = "result" /\ said[i].call = c
    BY <1>8 DEF C!Sent
  <2>2. PICK who : who = said[i].from
    OBVIOUS
  <2>3. who \in Voices
    <3>1. said[i] \in CliFrames
      BY <1>1
    <3> QED
      BY <2>2, <3>1 DEF CliFrames
  <2>4. C!Of(who, c)
    BY <1>1, <2>1, <2>2 DEF C!Of, OneOwner
  <2>5. Rests(bubble, who, c)
    BY <1>4, <2>1, <2>2, <2>3 DEF CallsFit, FrameOf
  <2>6. (IF who = Main THEN bubble ELSE bubble.subs[who]).calls[c].status # "running"
    BY <2>5 DEF Rests
  <2> QED
    BY <2>3, <2>4, <2>6 DEF Voices
<1>9. "text" \in Chat /\ "thinking" \in Chat
  BY DEF Chat
<1> QED
  BY <1>1, <1>5, <1>6, <1>7, <1>8, <1>9 DEF C!StreamKept

\* When the stream of a CLI reply is left, nothing said is missing or out of order, no
\* agent has words of another, and the calls and the reply are at rest (the buffers of
\* parseSse's loop), for any agents, calls and frames: of the stream alone, and of its
\* instance.
THEOREM RepliesAreKept == (C!Spec => []C!StreamKept) /\ (MCSpec => []StreamKept)
<1>1. CliInv /\ [MCNext]_<<focus, vars, rewindVars, cliVars>> => CliInv'
  <2>1. [MCNext]_<<focus, vars, rewindVars, cliVars>> => [C!Next]_(C!cliVars)
    BY DEF MCNext, C!cliVars, cliVars
  <2> QED
    BY <2>1, CliNext
<1>2. MCInit => CliInv
  BY CliStart DEF MCInit
<1>3. CliInv => C!StreamKept
  BY StreamSafe
<1>4. CliInv => StreamKept
  BY <1>3 DEF StreamKept
<1>5. C!Spec => []C!StreamKept
  BY <1>3, CliStart, CliNext, PTL DEF C!Spec
<1>6. MCSpec => []StreamKept
  BY <1>1, <1>2, <1>4, PTL DEF MCSpec
<1> QED
  BY <1>5, <1>6
================================================================================
