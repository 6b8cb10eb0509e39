--------------------------- MODULE TurnControlProofs ---------------------------
(***************************************************************************)
(* TurnControl proved for every set of agents, messages, calls and foreign  *)
(* turns, every assignment of mentions and every bound on the wire: its type*)
(* invariant, that a stopped agent stays quiet until its next send, that the*)
(* abort controller of the session always has a call in flight to abort,    *)
(* that the count of CLI requests is exact, that no agent is left busy when *)
(* all is quiet, and that a queued message is neither forgotten nor sent    *)
(* twice when no host prepares sends.                                       *)
(***************************************************************************)
EXTENDS TurnControl, SequenceTheorems, FiniteSetTheorems, WellFoundedInduction, TLAPS

USE MentionAssumption, NoneAssumption, KindAssumption
USE DEF MentionAssumption, NoneAssumption, KindAssumption

\* The stages in which a call may own the controller.
Owning == {"native", "cli", "reading"}

IInv == /\ TypeOK
        /\ StopHolds
        /\ OwnerInFlight

-------------------------------------------------------------------------------
\* Sequences.

\* A set of naturals has a least element.
LEMMA LeastElement ==
  ASSUME NEW I, I \subseteq Nat, I # {}
  PROVE  \E x \in I : \A y \in I : x <= y
<1> DEFINE R == OpToRel(<, Nat)
<1>1. \A x, y \in Nat : x < y => <<x, y>> \in R
  BY DEF OpToRel
<1> HIDE DEF R
<1>2. IsWellFoundedOn(R, Nat)
  BY NatLessThanWellFounded DEF R
<1>3. PICK x \in I : \A y \in I : ~ (<<y, x>> \in R)
  BY <1>2, WFMin
<1>4. x \in Nat
  BY <1>3
<1>5. ASSUME NEW y \in I PROVE x <= y
  <2>1. y \in Nat /\ ~ (<<y, x>> \in R)
    BY <1>3
  <2>2. ~ (y < x)
    BY <1>1, <1>4, <2>1
  <2> QED
    BY <1>4, <2>1, <2>2
<1> QED
  BY <1>5

\* What is left of a sequence is a sequence over the same set.
LEMMA RemoveFirstType ==
  ASSUME NEW S, NEW s \in Seq(S), NEW e
  PROVE  RemoveFirst(s, e) \in Seq(S)
<1>1. CASE \A i \in 1..Len(s) : s[i] # e
  BY <1>1 DEF RemoveFirst
<1>2. CASE \E i \in 1..Len(s) : s[i] = e
  <2> DEFINE I == {i \in 1..Len(s) : s[i] = e}
             i0 == Min(I)
  <2>1. I \subseteq Nat /\ I # {}
    BY <1>2, LenProperties
  <2>2. i0 \in 1..Len(s)
    BY <2>1, LeastElement DEF Min
  <2>3. SelectInSeq(s, LAMBDA v : v = e) = i0
    BY <2>1 DEF SelectInSeq
  <2>4. Len(s) \in Nat /\ \A i \in 1..Len(s) : s[i] \in S
    BY LenProperties, ElementOfSeq
  <2> HIDE DEF i0
  <2>5. i0 - 1 \in Int /\ \A i \in 1..(i0 - 1) : s[i] \in S
    BY <2>2, <2>4
  <2>6. i0 + 1 \in Int /\ \A i \in (i0 + 1)..Len(s) : s[i] \in S
    BY <2>2, <2>4
  <2>7. SubSeq(s, 1, i0 - 1) \in Seq(S)
    BY <2>5, SubSeqProperties
  <2>8. SubSeq(s, i0 + 1, Len(s)) \in Seq(S)
    BY <2>4, <2>6, SubSeqProperties
  <2>9. RemoveAt(s, i0) \in Seq(S)
    BY <2>7, <2>8, ConcatProperties DEF RemoveAt
  <2> QED
    BY <1>2, <2>3, <2>9 DEF RemoveFirst
<1> QED
  BY <1>1, <1>2

\* Nothing can be removed from the empty sequence.
LEMMA RemoveFirstEmpty ==
  ASSUME NEW e
  PROVE  RemoveFirst(<<>>, e) = <<>>
<1>1. Len(<<>>) = 0
  OBVIOUS
<1> QED
  BY <1>1 DEF RemoveFirst

LEMMA FrontType ==
  ASSUME NEW S, NEW s \in Seq(S), s # <<>>
  PROVE  Front(s) \in Seq(S)
<1>1. Len(s) \in Nat /\ \A i \in 1..Len(s) : s[i] \in S
  BY LenProperties, ElementOfSeq
<1> QED
  BY <1>1, SubSeqProperties DEF Front

-------------------------------------------------------------------------------
\* The records of the calls.

\* The stage of a call tells which record it is.
LEMMA CallByStage ==
  ASSUME TypeOK, NEW c \in Calls
  PROVE  /\ calls[c].stage = "preparing" => calls[c] \in PreparingCalls
         /\ calls[c].stage \in {"native", "cli", "steer", "reading"}
              => calls[c] \in SentCalls
<1>1. calls[c] \in {Unused} \cup PreparingCalls \cup SentCalls \cup OverCalls
  BY DEF TypeOK, CallStates
<1>2. calls[c] = Unused => calls[c].stage = "unused"
  BY DEF Unused
<1>3. calls[c] \in PreparingCalls => calls[c].stage = "preparing"
  BY DEF PreparingCalls
<1>4. calls[c] \in SentCalls
        => calls[c].stage \in {"native", "cli", "steer", "reading"}
  BY DEF SentCalls
<1>5. calls[c] \in OverCalls => calls[c].stage = "over"
  BY DEF OverCalls
<1> QED
  BY <1>1, <1>2, <1>3, <1>4, <1>5

\* What a call can become while its request is in flight.
LEMMA SentCallSteps ==
  ASSUME NEW r \in SentCalls
  PROVE  /\ r.msg \in Msgs
         /\ r.agent \in Agents
         /\ [stage |-> "over", msg |-> r.msg] \in CallStates
         /\ [r EXCEPT !.aborted = TRUE] \in SentCalls
         /\ [r EXCEPT !.aborted = TRUE].stage = r.stage
         /\ [r EXCEPT !.aborted = TRUE].agent = r.agent
         /\ [r EXCEPT !.aborted = TRUE].aborted
         /\ [r EXCEPT !.stage = "reading"] \in SentCalls
         /\ [r EXCEPT !.stage = "reading"].stage = "reading"
         /\ [r EXCEPT !.stage = "reading"].agent = r.agent
         /\ [r EXCEPT !.stage = "reading"].aborted = r.aborted
BY DEF SentCalls, OverCalls, CallStates

LEMMA SentType ==
  ASSUME TypeOK, NEW c \in Calls, calls[c].stage = "preparing"
  PROVE  /\ Sent(c) \in SentCalls
         /\ Sent(c).stage = calls[c].kind
         /\ calls[c].kind # "steer" => Sent(c).stage \in {"native", "cli"}
<1>1. calls[c] \in PreparingCalls
  BY CallByStage
<1> QED
  BY <1>1 DEF PreparingCalls, SentCalls, Sent

\* The one bubble a call pushed leaves the streaming bubbles of its agent.
LEMMA SettleStep ==
  ASSUME TypeOK, StopHolds, NEW c \in Calls, SettleBubble(c)
  PROVE  /\ bubbles' \in [Agents -> Seq(Calls \cup {None})]
         /\ \A a \in Agents : bubbles[a] = <<>> => bubbles'[a] = <<>>
<1> DEFINE b == calls[c].agent
<1>1. \A a \in Agents : RemoveFirst(bubbles[a], c) \in Seq(Calls \cup {None})
  BY RemoveFirstType DEF TypeOK
<1>2. RemoveFirst(<<>>, c) = <<>>
  BY RemoveFirstEmpty
<1>3. bubbles' = [bubbles EXCEPT ![b] = RemoveFirst(bubbles[b], c)]
  BY DEF SettleBubble, Settled
<1> QED
  BY <1>1, <1>2, <1>3 DEF TypeOK

\* A call begins: it was unused, and now prepares.
LEMMA StartStep ==
  ASSUME TypeOK, NEW c \in Calls, NEW m \in Msgs, NEW target \in Agents,
         NEW kind \in Kinds \cup {"steer"}, NEW from \in Agents \cup {None},
         Start(c, m, target, kind, from)
  PROVE  /\ tabAgent' \in Agents
         /\ calls' \in [Calls -> CallStates]
         /\ \A d \in Calls : \/ calls'[d] = calls[d]
                             \/ /\ calls[d].stage \notin Owning
                                /\ calls'[d].stage \notin Owning
<1> DEFINE a == IF Mention[m] = None THEN target ELSE Mention[m]
           r == [stage |-> "preparing", msg |-> m, kind |-> kind, from |-> from,
                 agent |-> a]
<1>1. a \in Agents
  OBVIOUS
<1>2. r \in PreparingCalls /\ r.stage = "preparing"
  BY <1>1 DEF PreparingCalls
<1>3. calls[c].stage = "unused"
  BY DEF Start, Unused
<1>4. calls' = [calls EXCEPT ![c] = r]
  BY DEF Start
<1>5. tabAgent' \in Agents
  BY <1>1 DEF Start, TypeOK
<1> HIDE DEF r
<1>6. calls' \in [Calls -> CallStates]
  BY <1>2, <1>4 DEF TypeOK, CallStates
<1>7. \A d \in Calls : \/ calls'[d] = calls[d]
                      \/ /\ calls[d].stage \notin Owning
                         /\ calls'[d].stage \notin Owning
  BY <1>2, <1>3, <1>4 DEF TypeOK, Owning
<1> QED
  BY <1>5, <1>6, <1>7

-------------------------------------------------------------------------------
\* The controller.

\* Calls that move between stages that own nothing leave the controller alone.
LEMMA OwnerUntouched ==
  ASSUME TypeOK, OwnerInFlight, owner' = owner,
         \A d \in Calls : \/ calls'[d] = calls[d]
                         \/ /\ calls[d].stage \notin Owning
                            /\ calls'[d].stage \notin Owning
  PROVE  OwnerInFlight'
BY DEF OwnerInFlight, InStage, Owning, TypeOK

\* finishTurn, and the answer to a native request: a call that owns the session
\* gives the controller up, another one is already aborted.
LEMMA OwnerFinishes ==
  ASSUME TypeOK, OwnerInFlight, NEW c \in Calls, calls[c].stage \in Owning,
         calls' = [calls EXCEPT ![c] = Over(c)],
         owner' = IF owner = c THEN None ELSE owner
  PROVE  /\ calls' \in [Calls -> CallStates]
         /\ owner' \in Calls \cup {None}
         /\ OwnerInFlight'
<1>1. Over(c) \in CallStates /\ Over(c).stage = "over"
  BY CallByStage, SentCallSteps DEF Owning, Over
<1>2. calls' \in [Calls -> CallStates] /\ owner' \in Calls \cup {None}
  BY <1>1 DEF TypeOK
<1>3. \A d \in Calls : calls'[d] = IF d = c THEN Over(c) ELSE calls[d]
  BY DEF TypeOK
<1>4. OwnerInFlight'
  BY <1>1, <1>3 DEF OwnerInFlight, InStage, TypeOK
<1> QED
  BY <1>2, <1>4

\* The suppression only loses when its agent is neither marked streaming nor given
\* a streaming bubble.
LEMMA QuietKept ==
  ASSUME TypeOK, StopHolds, suppressed' \subseteq suppressed,
         \A a \in suppressed' : (streaming'[a] => streaming[a])
                               /\ (bubbles[a] = <<>> => bubbles'[a] = <<>>)
  PROVE  StopHolds'
BY DEF StopHolds, Idle

-------------------------------------------------------------------------------
\* The steps of the user.

LEMMA SubmitStep == ASSUME IInv, NEW m \in Msgs, Submit(m) PROVE IInv'
<1> USE DEF IInv
<1>1. queue' \in [Agents -> Seq(Msgs)]
  <2>1. Append(queue[tabAgent], m) \in Seq(Msgs)
    BY AppendProperties DEF TypeOK
  <2> QED
    BY <2>1 DEF Submit, TypeOK
<1>2. /\ tabAgent' \in Agents
      /\ calls' \in [Calls -> CallStates]
      /\ \A d \in Calls : \/ calls'[d] = calls[d]
                          \/ /\ calls[d].stage \notin Owning
                             /\ calls'[d].stage \notin Owning
  <2>1. CASE UNCHANGED <<tabAgent, calls>>
    BY <2>1 DEF TypeOK
  <2>2. CASE \E c \in Calls : Start(c, m, tabAgent, "steer", None)
    BY <2>2, StartStep DEF TypeOK
  <2>3. CASE \E c \in Calls, kind \in Kinds : Start(c, m, tabAgent, kind, None)
    BY <2>3, StartStep DEF TypeOK
  <2> QED
    BY <2>1, <2>2, <2>3 DEF Submit
<1>3. TypeOK'
  BY <1>1, <1>2 DEF Submit, TypeOK, serverVars
<1>4. OwnerInFlight'
  BY <1>2, OwnerUntouched DEF Submit
<1>5. StopHolds'
  BY DEF Submit, StopHolds, Idle
<1> QED
  BY <1>3, <1>4, <1>5

\* An item leaves the queue of the tab's agent.
LEMMA WithoutType ==
  ASSUME TypeOK, NEW m PROVE Without(m) \in [Agents -> Seq(Msgs)]
<1>1. RemoveFirst(queue[tabAgent], m) \in Seq(Msgs)
  BY RemoveFirstType DEF TypeOK
<1> QED
  BY <1>1 DEF Without, TypeOK

LEMMA SendNowStep == ASSUME IInv, NEW m \in Msgs, SendNow(m) PROVE IInv'
<1> USE DEF IInv
<1>1. queue' \in [Agents -> Seq(Msgs)]
  BY WithoutType DEF SendNow
<1>2. PICK c \in Calls, kind \in Kinds :
        Start(c, m, tabAgent,
              IF streaming[tabAgent] /\ kind = "native" THEN "steer" ELSE kind, None)
  BY DEF SendNow
<1>3. /\ tabAgent' \in Agents
      /\ calls' \in [Calls -> CallStates]
      /\ \A d \in Calls : \/ calls'[d] = calls[d]
                          \/ /\ calls[d].stage \notin Owning
                             /\ calls'[d].stage \notin Owning
  BY <1>2, StartStep DEF TypeOK
<1>4. TypeOK'
  BY <1>1, <1>3 DEF SendNow, TypeOK, serverVars
<1>5. OwnerInFlight'
  BY <1>3, OwnerUntouched DEF SendNow
<1>6. StopHolds'
  BY DEF SendNow, StopHolds, Idle
<1> QED
  BY <1>4, <1>5, <1>6

LEMMA EditStep == ASSUME IInv, NEW m \in Msgs, Edit(m) PROVE IInv'
<1> USE DEF IInv
<1>1. TypeOK'
  BY WithoutType DEF Edit, TypeOK, serverVars
<1> QED
  BY <1>1 DEF Edit, OwnerInFlight, InStage, StopHolds, Idle

LEMMA StopStep == ASSUME IInv, Stop PROVE IInv'
<1> USE DEF IInv
<1> DEFINE hit == owner # None /\ calls[owner].agent = tabAgent
           r == [calls[owner] EXCEPT !.aborted = TRUE]
<1>1. hit => /\ r \in CallStates
             /\ r.stage = calls[owner].stage
             /\ r.aborted
             /\ calls' = [calls EXCEPT ![owner] = r]
  BY CallByStage, SentCallSteps DEF Stop, TypeOK, OwnerInFlight, InStage, CallStates
<1>2. ~hit => calls' = calls
  BY DEF Stop
<1> HIDE DEF r, hit
<1>3. calls' \in [Calls -> CallStates]
  BY <1>1, <1>2 DEF TypeOK
<1>4. TypeOK'
  BY <1>3 DEF Stop, TypeOK, serverVars
<1>5. OwnerInFlight'
  BY <1>1, <1>2 DEF Stop, OwnerInFlight, InStage, TypeOK
<1>6. StopHolds'
  BY DEF Stop, StopHolds, Idle, TypeOK
<1> QED
  BY <1>4, <1>5, <1>6

LEMMA SwitchAgentStep == ASSUME IInv, NEW a \in Agents, SwitchAgent(a) PROVE IInv'
BY DEF SwitchAgent, IInv, TypeOK, serverVars, OwnerInFlight, InStage, StopHolds, Idle

-------------------------------------------------------------------------------
\* The steps of a call of sendMessage.

LEMMA PreparationFailsStep ==
  ASSUME IInv, NEW c \in Calls, PreparationFails(c) PROVE IInv'
<1> USE DEF IInv
<1>1. calls[c] \in PreparingCalls /\ calls[c].stage = "preparing"
  BY CallByStage DEF PreparationFails
<1>2. Over(c) \in CallStates /\ Over(c).stage = "over" /\ calls[c].agent \in Agents
  BY <1>1 DEF PreparingCalls, OverCalls, CallStates, Over
<1>3. calls' = [calls EXCEPT ![c] = Over(c)]
  BY DEF PreparationFails
<1>4. TypeOK'
  <2>1. calls' \in [Calls -> CallStates]
    BY <1>2, <1>3 DEF TypeOK
  <2>2. stranded' \subseteq Agents
    BY <1>2 DEF PreparationFails, TypeOK
  <2>3. UNCHANGED <<prepares, tabAgent, unsent, queue, owner, streaming, suppressed, sse,
                    bubbles, serverVars, accepted, viaSse, shownAgain>>
    BY DEF PreparationFails
  <2> QED
    BY <2>1, <2>2, <2>3 DEF TypeOK, serverVars
<1>5. OwnerInFlight'
  BY <1>1, <1>2, <1>3, OwnerUntouched DEF PreparationFails, Owning, TypeOK
<1>6. StopHolds'
  BY DEF PreparationFails, StopHolds, Idle
<1> QED
  BY <1>4, <1>5, <1>6

LEMMA DequeueHeadType ==
  ASSUME TypeOK, NEW c \in Calls PROVE DequeueHead(c) \in [Agents -> Seq(Msgs)]
<1>1. \A a \in Agents : queue[a] # <<>> => Tail(queue[a]) \in Seq(Msgs)
  BY HeadTailProperties DEF TypeOK
<1> QED
  BY <1>1 DEF DequeueHead, TypeOK

LEMMA SteerStep == ASSUME IInv, NEW c \in Calls, Steer(c) PROVE IInv'
<1> USE DEF IInv
<1>1. Sent(c) \in CallStates /\ Sent(c).stage = "steer"
  BY SentType DEF Steer, CallStates
<1>2. calls' = [calls EXCEPT ![c] = Sent(c)]
  BY DEF Steer
<1>3. TypeOK'
  <2>1. calls' \in [Calls -> CallStates]
    BY <1>1, <1>2 DEF TypeOK
  <2>2. queue' \in [Agents -> Seq(Msgs)]
    BY DequeueHeadType DEF Steer
  <2>3. UNCHANGED <<prepares, tabAgent, unsent, owner, streaming, suppressed, sse, bubbles,
                    serverVars, accepted, stranded, viaSse, shownAgain>>
    BY DEF Steer
  <2> QED
    BY <2>1, <2>2, <2>3 DEF TypeOK, serverVars
<1>4. OwnerInFlight'
  BY <1>1, <1>2, OwnerUntouched DEF Steer, Owning, TypeOK
<1>5. StopHolds'
  BY DEF Steer, StopHolds, Idle
<1> QED
  BY <1>3, <1>4, <1>5

LEMMA PreparedStep == ASSUME IInv, NEW c \in Calls, Prepared(c) PROVE IInv'
<1> USE DEF IInv
<1> DEFINE a == calls[c].agent
           r == [calls[owner] EXCEPT !.aborted = TRUE]
           sent == [calls EXCEPT ![c] = Sent(c)]
<1>1. /\ Sent(c) \in CallStates
      /\ Sent(c).stage \in {"native", "cli"}
      /\ a \in Agents
  BY SentType, CallByStage DEF Prepared, CallStates, PreparingCalls
<1>2. owner # None => /\ owner \in Calls \ {c}
                      /\ r \in CallStates
                      /\ r.stage = calls[owner].stage
                      /\ r.aborted
  BY CallByStage, SentCallSteps DEF Prepared, TypeOK, OwnerInFlight, InStage, CallStates
<1>3. owner = None => calls' = sent
  BY DEF Prepared
<1>4. owner # None => calls' = [sent EXCEPT ![owner] = r]
  <2> SUFFICES ASSUME owner # None PROVE calls' = [sent EXCEPT ![owner] = r]
    OBVIOUS
  <2>1. calls' = [sent EXCEPT ![owner] = [sent[owner] EXCEPT !.aborted = TRUE]]
    BY DEF Prepared
  <2>2. sent[owner] = calls[owner]
    BY <1>2 DEF TypeOK
  <2> QED
    BY <2>1, <2>2
<1> HIDE DEF r
<1>5. /\ calls' \in [Calls -> CallStates]
      /\ calls'[c] = Sent(c)
      /\ owner # None => calls'[owner] = r
      /\ \A d \in Calls \ {c, owner} : calls'[d] = calls[d]
  <2>1. /\ sent \in [Calls -> CallStates]
        /\ sent[c] = Sent(c)
        /\ \A d \in Calls \ {c} : sent[d] = calls[d]
    BY <1>1 DEF TypeOK
  <2> HIDE DEF sent
  <2>2. CASE owner = None
    BY <1>3, <2>1, <2>2
  <2>3. CASE owner # None
    BY <1>2, <1>4, <2>1, <2>3
  <2> QED
    BY <2>2, <2>3
<1>6. bubbles' \in [Agents -> Seq(Calls \cup {None})]
  <2>1. Append(bubbles[a], c) \in Seq(Calls \cup {None})
    BY <1>1, AppendProperties DEF TypeOK
  <2> QED
    BY <2>1 DEF Prepared, TypeOK
<1>7. streaming' \in [Agents -> BOOLEAN] /\ sse' \in [Agents -> Nat]
  <2>1. streaming' \in [Agents -> BOOLEAN]
    BY DEF Prepared, TypeOK
  <2>2. sse' = [sse EXCEPT ![a] = @ + 1] \/ sse' = sse
    BY DEF Prepared
  <2>3. sse \in [Agents -> Nat] /\ \A k \in Nat : k + 1 \in Nat
    BY DEF TypeOK
  <2>4. sse' \in [Agents -> Nat]
    BY <2>2, <2>3
  <2> QED
    BY <2>1, <2>4
<1>8. TypeOK'
  BY <1>5, <1>6, <1>7, DequeueHeadType DEF Prepared, TypeOK, serverVars
<1>9. OwnerInFlight'
  BY <1>1, <1>2, <1>5 DEF Prepared, OwnerInFlight, InStage
<1>10. StopHolds'
  BY DEF Prepared, StopHolds, Idle, TypeOK
<1> QED
  BY <1>8, <1>9, <1>10

\* FinishTurn marks at most one agent idle.
LEMMA FinishTurnStep ==
  ASSUME IInv, NEW c \in Calls, calls[c].stage \in Owning, FinishTurn(c)
  PROVE  /\ calls' \in [Calls -> CallStates]
         /\ owner' \in Calls \cup {None}
         /\ OwnerInFlight'
         /\ streaming' \in [Agents -> BOOLEAN]
         /\ \A a \in Agents : streaming'[a] => streaming[a]
<1> USE DEF IInv
<1>1. /\ calls' = [calls EXCEPT ![c] = Over(c)]
      /\ owner' = IF owner = c THEN None ELSE owner
  BY DEF FinishTurn
<1>2. \/ streaming' = streaming
      \/ streaming' = [streaming EXCEPT ![calls[c].agent] = FALSE]
  BY DEF FinishTurn
<1>3. /\ streaming' \in [Agents -> BOOLEAN]
      /\ \A a \in Agents : streaming'[a] => streaming[a]
  BY <1>2 DEF TypeOK
<1> QED
  BY <1>1, <1>3, OwnerFinishes

LEMMA ClearSseType ==
  ASSUME TypeOK, NEW a \in Agents, ClearSse(a) PROVE sse' \in [Agents -> Nat]
BY DEF ClearSse, TypeOK

LEMMA PostAnsweredStep == ASSUME IInv, NEW c \in Calls, PostAnswered(c) PROVE IInv'
<1> USE DEF IInv
<1>1. /\ calls' \in [Calls -> CallStates]
      /\ owner' \in Calls \cup {None}
      /\ OwnerInFlight'
  BY OwnerFinishes DEF PostAnswered, Owning
<1>2. TypeOK'
  BY <1>1 DEF PostAnswered, CallRest, TypeOK, serverVars
<1>3. StopHolds'
  BY DEF PostAnswered, CallRest, StopHolds, Idle
<1> QED
  BY <1>1, <1>2, <1>3

\* The request of a call fails or is aborted, over either transport.
LEMMA GiveUpStep ==
  ASSUME IInv, NEW c \in Calls, calls[c].stage \in Owning, GiveUp(c), CallRest,
         UNCHANGED viaSse, sse' \in [Agents -> Nat]
  PROVE  IInv'
<1> USE DEF IInv
<1>1. /\ bubbles' \in [Agents -> Seq(Calls \cup {None})]
      /\ \A a \in Agents : bubbles[a] = <<>> => bubbles'[a] = <<>>
  BY SettleStep DEF GiveUp
<1>2. /\ calls' \in [Calls -> CallStates]
      /\ owner' \in Calls \cup {None}
      /\ OwnerInFlight'
      /\ streaming' \in [Agents -> BOOLEAN]
      /\ \A a \in Agents : streaming'[a] => streaming[a]
  BY FinishTurnStep DEF GiveUp
<1>3. stranded' \subseteq Agents
  BY CallByStage DEF GiveUp, TypeOK, Owning, SentCalls
<1>4. TypeOK'
  BY <1>1, <1>2, <1>3 DEF CallRest, TypeOK, serverVars
<1>5. StopHolds'
  BY <1>1, <1>2, QuietKept DEF CallRest, TypeOK
<1> QED
  BY <1>2, <1>4, <1>5

LEMMA FailureStep ==
  ASSUME IInv, NEW c \in Calls, PostFails(c) \/ CliFails(c) \/ CliBreaks(c)
  PROVE  IInv'
<1>1. calls[c].stage \in Owning /\ GiveUp(c) /\ CallRest /\ UNCHANGED viaSse
  BY DEF PostFails, CliFails, CliBreaks, Owning
<1>2. calls[c].agent \in Agents
  BY <1>1, CallByStage DEF IInv, Owning, SentCalls
<1>3. sse' \in [Agents -> Nat]
  BY <1>2, ClearSseType DEF PostFails, CliFails, CliBreaks, IInv, TypeOK
<1> QED
  BY <1>1, <1>3, GiveUpStep

LEMMA SteerEndsStep == ASSUME IInv, NEW c \in Calls, SteerEnds(c) PROVE IInv'
<1> USE DEF IInv
<1>1. Over(c) \in CallStates /\ Over(c).stage = "over"
  BY CallByStage, SentCallSteps DEF SteerEnds, Over
<1>2. calls' = [calls EXCEPT ![c] = Over(c)]
  BY DEF SteerEnds
<1>3. TypeOK'
  BY <1>1, <1>2 DEF SteerEnds, CallRest, TypeOK, serverVars
<1>4. OwnerInFlight'
  BY <1>1, <1>2, OwnerUntouched DEF SteerEnds, Owning, TypeOK
<1>5. StopHolds'
  BY DEF SteerEnds, CallRest, StopHolds, Idle
<1> QED
  BY <1>3, <1>4, <1>5

LEMMA CliAnsweredStep == ASSUME IInv, NEW c \in Calls, CliAnswered(c) PROVE IInv'
<1> USE DEF IInv
<1> DEFINE r == [calls[c] EXCEPT !.stage = "reading"]
<1>1. r \in CallStates /\ r.stage = "reading" /\ r.aborted = calls[c].aborted
  BY CallByStage, SentCallSteps DEF CliAnswered, CallStates
<1>2. calls' = [calls EXCEPT ![c] = r]
  BY DEF CliAnswered
<1> HIDE DEF r
<1>3. TypeOK'
  <2>1. calls' \in [Calls -> CallStates]
    BY <1>1, <1>2 DEF TypeOK
  <2> QED
    BY <2>1 DEF CliAnswered, CallRest, TypeOK, serverVars
<1>4. OwnerInFlight'
  BY <1>1, <1>2 DEF CliAnswered, OwnerInFlight, InStage, TypeOK
<1>5. StopHolds'
  BY DEF CliAnswered, CallRest, StopHolds, Idle
<1> QED
  BY <1>3, <1>4, <1>5

LEMMA CliEndsStep == ASSUME IInv, NEW c \in Calls, CliEnds(c) PROVE IInv'
<1> USE DEF IInv
<1>1. /\ bubbles' \in [Agents -> Seq(Calls \cup {None})]
      /\ \A a \in Agents : bubbles[a] = <<>> => bubbles'[a] = <<>>
  BY SettleStep DEF CliEnds
<1>2. /\ calls' \in [Calls -> CallStates]
      /\ owner' \in Calls \cup {None}
      /\ OwnerInFlight'
      /\ streaming' \in [Agents -> BOOLEAN]
      /\ \A a \in Agents : streaming'[a] => streaming[a]
  BY FinishTurnStep DEF CliEnds, Owning
<1>3. sse' \in [Agents -> Nat]
  BY CallByStage, ClearSseType DEF CliEnds, SentCalls
<1>4. TypeOK'
  BY <1>1, <1>2, <1>3 DEF CliEnds, CallRest, TypeOK, serverVars
<1>5. StopHolds'
  BY <1>1, <1>2, QuietKept DEF CliEnds, CallRest, TypeOK
<1> QED
  BY <1>2, <1>4, <1>5

-------------------------------------------------------------------------------
\* The steps of the server, which only touch its own variables.

LEMMA FrameType ==
  ASSUME NEW k \in {"start", "text", "tool", "end"}, NEW a \in Agents,
         NEW t \in Turns, NEW ok \in BOOLEAN, NEW s \in Seq(Frames)
  PROVE  Append(s, Frame(k, a, t, ok)) \in Seq(Frames)
<1>1. Frame(k, a, t, ok) \in Frames
  BY DEF Frame, Frames
<1> QED
  BY <1>1, AppendProperties

\* What the page keeps is not disturbed when its variables do not change.
LEMMA PageUnchanged ==
  ASSUME IInv, UNCHANGED pageVars PROVE StopHolds' /\ OwnerInFlight'
BY DEF IInv, pageVars, StopHolds, Idle, OwnerInFlight, InStage

LEMMA AcceptStep == ASSUME IInv, NEW c \in Calls, Accept(c) PROVE IInv'
<1> USE DEF IInv
<1> DEFINE a == calls[c].agent
           cut == calls[c].stage = "steer" /\ run[a] # None
<1>1. a \in Agents /\ c \in Turns
  BY CallByStage DEF Accept, InFlight, SentCalls, Turns
<1>2. pend' \in [Agents -> Seq(Turns)]
  <2>1. Append(pend[a], c) \in Seq(Turns)
    BY <1>1, AppendProperties DEF TypeOK
  <2>2. <<c>> \in Seq(Turns)
    BY <1>1
  <2>3. <<c>> \o pend[a] \in Seq(Turns)
    BY <1>1, <2>2, ConcatProperties DEF TypeOK
  <2> QED
    BY <2>1, <2>3 DEF Accept, TypeOK
<1>3. /\ run' \in [Agents -> Turns \cup {None}]
      /\ ended' \subseteq Turns
      /\ wire' \in Seq(Frames)
  <2>1. CASE cut
    <3>1. run[a] \in Turns
      BY <1>1, <2>1 DEF TypeOK
    <3>2. Append(wire, Frame("end", a, run[a], FALSE)) \in Seq(Frames)
      BY <1>1, <3>1, FrameType DEF TypeOK
    <3> QED
      BY <2>1, <3>1, <3>2 DEF Accept, TypeOK
  <2>2. CASE ~cut
    BY <2>2 DEF Accept, TypeOK
  <2> QED
    BY <2>1, <2>2
<1>4. TypeOK'
  BY <1>2, <1>3 DEF Accept, TypeOK, pageVars
<1> QED
  BY <1>4, PageUnchanged DEF Accept

LEMMA ForeignTurnStep ==
  ASSUME IInv, NEW a \in Agents, NEW f \in Foreign, ForeignTurn(a, f) PROVE IInv'
<1> USE DEF IInv
<1>1. Append(pend[a], f) \in Seq(Turns)
  BY AppendProperties DEF TypeOK, Turns
<1>2. TypeOK'
  BY <1>1 DEF ForeignTurn, TypeOK, pageVars
<1> QED
  BY <1>2, PageUnchanged DEF ForeignTurn

LEMMA TurnBeginsStep == ASSUME IInv, NEW a \in Agents, TurnBegins(a) PROVE IInv'
<1> USE DEF IInv
<1>1. Head(pend[a]) \in Turns /\ Tail(pend[a]) \in Seq(Turns)
  BY HeadTailProperties DEF TurnBegins, TypeOK
<1>2. wire' \in Seq(Frames)
  BY <1>1, FrameType DEF TurnBegins, TypeOK
<1>3. TypeOK'
  BY <1>1, <1>2 DEF TurnBegins, TypeOK, pageVars
<1> QED
  BY <1>3, PageUnchanged DEF TurnBegins

LEMMA TurnSpeaksStep ==
  ASSUME IInv, NEW a \in Agents, NEW k \in {"text", "tool"}, TurnSpeaks(a, k)
  PROVE  IInv'
<1> USE DEF IInv
<1>1. run[a] \in Turns
  BY DEF TurnSpeaks, TypeOK
<1>2. wire' \in Seq(Frames)
  BY <1>1, FrameType DEF TurnSpeaks, TypeOK
<1>3. TypeOK'
  BY <1>1, <1>2 DEF TurnSpeaks, TypeOK, pageVars
<1> QED
  BY <1>3, PageUnchanged DEF TurnSpeaks

LEMMA TurnEndsStep ==
  ASSUME IInv, NEW a \in Agents, NEW ok \in BOOLEAN, TurnEnds(a, ok) PROVE IInv'
<1> USE DEF IInv
<1>1. run[a] \in Turns
  BY DEF TurnEnds, TypeOK
<1>2. wire' \in Seq(Frames)
  BY <1>1, FrameType DEF TurnEnds, TypeOK
<1>3. TypeOK'
  BY <1>1, <1>2 DEF TurnEnds, TypeOK, pageVars
<1> QED
  BY <1>3, PageUnchanged DEF TurnEnds

-------------------------------------------------------------------------------
\* The frames applied by the page.

LEMMA EnsuredType ==
  ASSUME NEW s \in Seq(Calls \cup {None})
  PROVE  Ensured(s) \in Seq(Calls \cup {None})
<1>1. None \in Calls \cup {None}
  OBVIOUS
<1>2. <<None>> \in Seq(Calls \cup {None})
  BY <1>1
<1> QED
  BY <1>2 DEF Ensured

\* A turnStart, a text and a tool frame: an agent that is not suppressed gets a
\* streaming bubble and is marked streaming.
LEMMA OpeningStep ==
  ASSUME TypeOK, StopHolds, NEW a \in Agents \ suppressed,
         suppressed' = suppressed,
         bubbles' = [bubbles EXCEPT ![a] = Ensured(@)],
         streaming' = [streaming EXCEPT ![a] = TRUE]
  PROVE  /\ bubbles' \in [Agents -> Seq(Calls \cup {None})]
         /\ streaming' \in [Agents -> BOOLEAN]
         /\ StopHolds'
<1>1. bubbles' \in [Agents -> Seq(Calls \cup {None})]
  BY EnsuredType DEF TypeOK
<1>2. \A b \in suppressed : bubbles'[b] = bubbles[b] /\ streaming'[b] = streaming[b]
  BY DEF TypeOK
<1>3. StopHolds'
  BY <1>2 DEF StopHolds, Idle
<1> QED
  BY <1>1, <1>3 DEF TypeOK

LEMMA OpeningFrameStep ==
  ASSUME IInv, NEW f \in Frames, OnStart(f) \/ OnText(f) \/ OnTool(f),
         suppressed' = suppressed, owner' = owner
  PROVE  /\ tabAgent' \in Agents
         /\ calls' \in [Calls -> CallStates]
         /\ bubbles' \in [Agents -> Seq(Calls \cup {None})]
         /\ streaming' \in [Agents -> BOOLEAN]
         /\ stranded' \subseteq Agents
         /\ shownAgain' \in BOOLEAN
         /\ StopHolds' /\ OwnerInFlight'
<1> USE DEF IInv
<1>1. f.agent \in Agents
  BY DEF Frames
<1>2. UNCHANGED <<tabAgent, calls, stranded>> /\ shownAgain' \in BOOLEAN
  BY DEF OnStart, OnText, OnTool, TypeOK
<1>3. OwnerInFlight'
  BY <1>2, OwnerUntouched
<1>4. CASE UNCHANGED <<bubbles, streaming>>
  BY <1>2, <1>3, <1>4 DEF TypeOK, StopHolds, Idle
<1>5. CASE /\ f.agent \notin suppressed
           /\ bubbles' = [bubbles EXCEPT ![f.agent] = Ensured(@)]
           /\ streaming' = [streaming EXCEPT ![f.agent] = TRUE]
  BY <1>1, <1>2, <1>3, <1>5, OpeningStep DEF TypeOK
<1> QED
  BY <1>4, <1>5 DEF OnStart, OnText, OnTool

LEMMA FlushStep ==
  ASSUME TypeOK, NEW a \in Agents, Flush(a)
  PROVE  /\ tabAgent' \in Agents
         /\ calls' \in [Calls -> CallStates]
         /\ \A d \in Calls : \/ calls'[d] = calls[d]
                             \/ /\ calls[d].stage \notin Owning
                                /\ calls'[d].stage \notin Owning
<1>1. CASE UNCHANGED <<tabAgent, calls>>
  BY <1>1 DEF TypeOK
<1>2. CASE /\ queue[a] # <<>>
           /\ \E c \in Calls, kind \in Kinds : Start(c, Head(queue[a]), a, kind, a)
  <2>1. Head(queue[a]) \in Msgs
    BY <1>2, HeadTailProperties DEF TypeOK
  <2> QED
    BY <1>2, <2>1, StartStep
<1> QED
  BY <1>1, <1>2 DEF Flush

LEMMA EndFrameStep ==
  ASSUME IInv, NEW f \in Frames, OnEnd(f), suppressed' = suppressed, owner' = owner
  PROVE  /\ tabAgent' \in Agents
         /\ calls' \in [Calls -> CallStates]
         /\ bubbles' \in [Agents -> Seq(Calls \cup {None})]
         /\ streaming' \in [Agents -> BOOLEAN]
         /\ stranded' \subseteq Agents
         /\ shownAgain' \in BOOLEAN
         /\ StopHolds' /\ OwnerInFlight'
<1> USE DEF IInv
<1>1. f.agent \in Agents
  BY DEF Frames
<1>2. /\ tabAgent' \in Agents
      /\ calls' \in [Calls -> CallStates]
      /\ \A d \in Calls : \/ calls'[d] = calls[d]
                          \/ /\ calls[d].stage \notin Owning
                             /\ calls'[d].stage \notin Owning
  <2>1. CASE Flush(f.agent)
    BY <1>1, <2>1, FlushStep
  <2>2. CASE UNCHANGED <<tabAgent, calls>>
    BY <2>2 DEF TypeOK
  <2> QED
    BY <2>1, <2>2 DEF OnEnd
<1>3. OwnerInFlight'
  BY <1>2, OwnerUntouched
<1>4. /\ bubbles' \in [Agents -> Seq(Calls \cup {None})]
      /\ \A a \in Agents : bubbles[a] = <<>> => bubbles'[a] = <<>>
  <2>1. \A a \in Agents : bubbles[a] # <<>>
          => Front(bubbles[a]) \in Seq(Calls \cup {None})
    BY FrontType DEF TypeOK
  <2> QED
    BY <1>1, <2>1 DEF OnEnd, TypeOK
<1>5. /\ streaming' \in [Agents -> BOOLEAN]
      /\ \A a \in Agents : streaming'[a] => streaming[a]
  BY DEF OnEnd, TypeOK
<1>6. StopHolds'
  BY <1>4, <1>5, QuietKept DEF TypeOK
<1>7. stranded' \subseteq Agents /\ shownAgain' \in BOOLEAN
  BY <1>1 DEF OnEnd, TypeOK
<1> QED
  BY <1>2, <1>3, <1>4, <1>5, <1>6, <1>7

LEMMA DispatchStep == ASSUME IInv, Dispatch PROVE IInv'
<1> DEFINE f == Head(wire)
<1>1. f \in Frames /\ wire' \in Seq(Frames)
  BY HeadTailProperties DEF Dispatch, IInv, TypeOK
<1>2. suppressed' = suppressed /\ owner' = owner
  BY DEF Dispatch
<1>3. OnStart(f) \/ OnText(f) \/ OnTool(f) \/ OnEnd(f)
  BY DEF Dispatch
<1> HIDE DEF f
<1>4. /\ tabAgent' \in Agents
      /\ calls' \in [Calls -> CallStates]
      /\ bubbles' \in [Agents -> Seq(Calls \cup {None})]
      /\ streaming' \in [Agents -> BOOLEAN]
      /\ stranded' \subseteq Agents
      /\ shownAgain' \in BOOLEAN
      /\ StopHolds' /\ OwnerInFlight'
  BY <1>1, <1>2, <1>3, OpeningFrameStep, EndFrameStep
<1>5. TypeOK'
  BY <1>1, <1>4 DEF Dispatch, IInv, TypeOK
<1> QED
  BY <1>4, <1>5 DEF IInv

-------------------------------------------------------------------------------

LEMMA InitIInv == Init => IInv
<1> SUFFICES ASSUME Init PROVE IInv
  OBVIOUS
<1>1. TypeOK
  <2>1. <<>> \in Seq(Msgs) /\ <<>> \in Seq(Turns) /\ <<>> \in Seq(Calls \cup {None})
    BY EmptySeq
  <2>2. wire \in Seq(Frames)
    BY EmptySeq DEF Init
  <2>3. /\ queue \in [Agents -> Seq(Msgs)]
        /\ pend \in [Agents -> Seq(Turns)]
        /\ bubbles \in [Agents -> Seq(Calls \cup {None})]
    BY <2>1 DEF Init
  <2>4. calls \in [Calls -> CallStates]
    BY DEF Init, CallStates
  <2>5. /\ streaming \in [Agents -> BOOLEAN] /\ sse \in [Agents -> Nat]
        /\ run \in [Agents -> Turns \cup {None}]
    BY DEF Init
  <2>6. /\ prepares \in BOOLEAN /\ tabAgent \in Agents /\ unsent \subseteq Msgs
        /\ owner \in Calls \cup {None} /\ shownAgain \in BOOLEAN
        /\ suppressed = {} /\ told = {} /\ ended = {} /\ accepted = {}
        /\ stranded = {} /\ viaSse = {}
    BY DEF Init
  <2> QED
    BY <2>2, <2>3, <2>4, <2>5, <2>6 DEF TypeOK
<1>2. StopHolds
  BY DEF Init, StopHolds
<1>3. OwnerInFlight
  BY DEF Init, OwnerInFlight, InStage, Unused
<1> QED
  BY <1>1, <1>2, <1>3 DEF IInv

LEMMA NextIInv == IInv /\ [Next]_vars => IInv'
<1> SUFFICES ASSUME IInv, [Next]_vars PROVE IInv'
  OBVIOUS
<1>1. CASE UNCHANGED vars
  BY <1>1 DEF vars, IInv, TypeOK, StopHolds, Idle, OwnerInFlight, InStage
<1>2. CASE \/ \E m \in Msgs : Submit(m) \/ SendNow(m) \/ Edit(m)
           \/ Stop
           \/ \E a \in Agents : SwitchAgent(a)
  BY <1>2, SubmitStep, SendNowStep, EditStep, StopStep, SwitchAgentStep
<1>3. CASE \E c \in Calls : \/ PreparationFails(c) \/ Steer(c) \/ Prepared(c)
                           \/ PostAnswered(c) \/ PostFails(c) \/ SteerEnds(c)
                           \/ CliFails(c) \/ CliAnswered(c) \/ CliBreaks(c)
                           \/ CliEnds(c)
  BY <1>3, PreparationFailsStep, SteerStep, PreparedStep, PostAnsweredStep,
     FailureStep, SteerEndsStep, CliAnsweredStep, CliEndsStep
<1>4. CASE \/ \E c \in Calls : Accept(c)
           \/ \E a \in Agents, f \in Foreign : ForeignTurn(a, f)
           \/ \E a \in Agents : TurnBegins(a)
           \/ \E a \in Agents, kind \in {"text", "tool"} : TurnSpeaks(a, kind)
           \/ \E a \in Agents, ok \in BOOLEAN : TurnEnds(a, ok)
  BY <1>4, AcceptStep, ForeignTurnStep, TurnBeginsStep, TurnSpeaksStep, TurnEndsStep
<1> QED
  BY <1>1, <1>2, <1>3, <1>4, DispatchStep DEF Next

\* The invariant of the page's turns: types, the silence of stopped agents and the
\* ownership of the controller hold together in every reachable state.
THEOREM Inductive == Spec => []IInv
BY InitIInv, NextIInv, PTL DEF Spec

\* Every call is in one of its stages with the fields that stage needs, and every
\* queue, slot and frame is well formed.
THEOREM TypeCorrect == Spec => []TypeOK
BY Inductive, PTL DEF IInv

\* However many requests, frames and broken streams of a stopped agent are still on
\* their way, none lights its Stop button or opens a bubble before its next send.
THEOREM StoppedStaysQuiet == Spec => []StopHolds
BY Inductive, PTL DEF IInv

\* The session's controller always belongs to a call in flight, and a call in
\* flight without it was aborted: no call escapes both Stop and the next send.
THEOREM NoCallEscapes == Spec => []OwnerInFlight
BY Inductive, PTL DEF IInv

-------------------------------------------------------------------------------
\* The count of CLI requests.  There may be infinitely many calls, but those in
\* flight are finitely many.

CliStages == {"cli", "reading"}

SseExact == \A a \in Agents : /\ IsFiniteSet(CliCalls(a))
                              /\ sse[a] = Cardinality(CliCalls(a))

\* A call that neither enters nor leaves the CLI stages does not count.
SameCli(d) == \/ calls'[d] = calls[d]
              \/ calls[d].stage \notin CliStages /\ calls'[d].stage \notin CliStages
              \/ /\ calls[d].stage \in CliStages /\ calls'[d].stage \in CliStages
                 /\ calls'[d].agent = calls[d].agent

LEMMA SseUntouched ==
  ASSUME SseExact, sse' = sse, \A d \in Calls : SameCli(d)
  PROVE  SseExact'
<1>1. \A a \in Agents : CliCalls(a)' = CliCalls(a)
  BY DEF SameCli, CliCalls, InStage, CliStages
<1> QED
  BY <1>1 DEF SseExact

\* A CLI request is sent.
LEMMA SseRises ==
  ASSUME TypeOK, SseExact, NEW c \in Calls, NEW a \in Agents,
         sse' = [sse EXCEPT ![a] = @ + 1],
         calls[c].stage \notin CliStages,
         calls'[c].stage \in CliStages, calls'[c].agent = a,
         \A d \in Calls \ {c} : SameCli(d)
  PROVE  SseExact'
<1>1. CliCalls(a)' = CliCalls(a) \cup {c} /\ c \notin CliCalls(a)
  BY DEF SameCli, CliCalls, InStage, CliStages
<1>2. \A b \in Agents \ {a} : CliCalls(b)' = CliCalls(b)
  BY DEF SameCli, CliCalls, InStage, CliStages
<1>3. /\ IsFiniteSet(CliCalls(a)')
      /\ Cardinality(CliCalls(a)') = Cardinality(CliCalls(a)) + 1
  BY <1>1, FS_AddElement DEF SseExact
<1>4. sse'[a] = sse[a] + 1 /\ \A b \in Agents \ {a} : sse'[b] = sse[b]
  BY DEF TypeOK
<1> QED
  BY <1>2, <1>3, <1>4 DEF SseExact

\* A CLI request ends.
LEMMA SseFalls ==
  ASSUME TypeOK, SseExact, NEW c \in Calls, NEW a \in Agents, ClearSse(a),
         calls[c].stage \in CliStages, calls[c].agent = a,
         calls' = [calls EXCEPT ![c] = Over(c)]
  PROVE  SseExact'
<1>1. /\ calls'[c].stage \notin CliStages
      /\ \A d \in Calls \ {c} : calls'[d] = calls[d]
  <2>1. Over(c).stage \notin CliStages
    BY DEF Over, CliStages
  <2> QED
    BY <2>1 DEF TypeOK
<1>2. CliCalls(a)' = CliCalls(a) \ {c} /\ c \in CliCalls(a)
  BY <1>1 DEF CliCalls, InStage, CliStages
<1>3. \A b \in Agents \ {a} : CliCalls(b)' = CliCalls(b)
  BY <1>1 DEF CliCalls, InStage, CliStages
<1>4. /\ IsFiniteSet(CliCalls(a)')
      /\ Cardinality(CliCalls(a)') = Cardinality(CliCalls(a)) - 1
  BY <1>2, FS_RemoveElement DEF SseExact
<1>5. sse[a] = Cardinality(CliCalls(a)) /\ sse[a] > 0
  <2>1. Cardinality(CliCalls(a)) # 0
    BY <1>2, FS_EmptySet DEF SseExact
  <2> QED
    BY <2>1 DEF SseExact, TypeOK
<1>6. sse' = [sse EXCEPT ![a] = @ - 1]
  BY <1>5 DEF ClearSse, TypeOK
<1>7. sse'[a] = sse[a] - 1 /\ \A b \in Agents \ {a} : sse'[b] = sse[b]
  BY <1>6 DEF TypeOK
<1>8. ASSUME NEW b \in Agents
      PROVE  IsFiniteSet(CliCalls(b)') /\ sse'[b] = Cardinality(CliCalls(b)')
  <2>1. CASE b = a
    BY <1>4, <1>5, <1>7, <2>1
  <2>2. CASE b # a
    BY <1>3, <1>7, <2>2 DEF SseExact
  <2> QED
    BY <2>1, <2>2
<1> QED
  BY <1>8 DEF SseExact

\* A call that ends before or beside the CLI leaves the counts alone.
LEMMA SseBeside ==
  ASSUME TypeOK, SseExact, NEW c \in Calls, calls[c].stage \notin CliStages,
         calls' = [calls EXCEPT ![c] = Over(c)], sse' = sse
  PROVE  SseExact'
<1>1. Over(c).stage \notin CliStages
  BY DEF Over, CliStages
<1>2. \A d \in Calls : SameCli(d)
  BY <1>1 DEF SameCli, TypeOK
<1> QED
  BY <1>2, SseUntouched

LEMMA SseStart ==
  ASSUME TypeOK, SseExact, sse' = sse,
         \A d \in Calls : \/ calls'[d] = calls[d]
                         \/ /\ calls[d].stage \notin Owning
                            /\ calls'[d].stage \notin Owning
  PROVE  SseExact'
<1>1. CliStages \subseteq Owning
  BY DEF CliStages, Owning
<1>2. \A d \in Calls : SameCli(d)
  BY <1>1 DEF SameCli
<1> QED
  BY <1>2, SseUntouched

LEMMA SsePrepared ==
  ASSUME IInv, SseExact, NEW c \in Calls, Prepared(c) PROVE SseExact'
<1> USE DEF IInv
<1> DEFINE r == [calls[owner] EXCEPT !.aborted = TRUE]
           sent == [calls EXCEPT ![c] = Sent(c)]
<1>1. PICK a \in Agents : a = calls[c].agent
  BY CallByStage DEF Prepared, PreparingCalls
<1>2. /\ Sent(c).stage = calls[c].kind
      /\ Sent(c).agent = a
      /\ calls[c].stage \notin CliStages
  BY <1>1, SentType DEF Prepared, Sent, CliStages
<1>3. owner # None => /\ owner \in Calls \ {c}
                      /\ r.stage = calls[owner].stage
                      /\ r.agent = calls[owner].agent
  BY CallByStage, SentCallSteps DEF Prepared, TypeOK, OwnerInFlight, InStage
<1>4. /\ calls'[c] = Sent(c)
      /\ owner # None => calls'[owner] = r
      /\ \A d \in Calls \ {c, owner} : calls'[d] = calls[d]
  <2>1. sent[c] = Sent(c) /\ \A d \in Calls \ {c} : sent[d] = calls[d]
    BY DEF TypeOK
  <2>2. CASE owner = None
    BY <2>1, <2>2 DEF Prepared
  <2>3. CASE owner # None
    <3>1. calls' = [sent EXCEPT ![owner] = [sent[owner] EXCEPT !.aborted = TRUE]]
      BY <2>3 DEF Prepared
    <3>2. sent[owner] = calls[owner]
      BY <1>3, <2>1, <2>3
    <3>3. calls' = [sent EXCEPT ![owner] = r]
      BY <3>1, <3>2
    <3> HIDE DEF r
    <3> QED
      BY <1>3, <2>1, <2>3, <3>3 DEF TypeOK
  <2> QED
    BY <2>2, <2>3
<1> HIDE DEF r, sent
<1>5. \A d \in Calls \ {c} : SameCli(d)
  BY <1>3, <1>4 DEF SameCli
<1>6. CASE calls[c].kind = "cli"
  <2>1. sse' = [sse EXCEPT ![a] = @ + 1]
    BY <1>1, <1>6 DEF Prepared
  <2> QED
    BY <1>2, <1>4, <1>5, <1>6, <2>1, SseRises DEF CliStages
<1>7. CASE calls[c].kind # "cli"
  <2>1. calls'[c].stage \notin CliStages
    BY <1>2, <1>4, <1>7, SentType DEF Prepared, CliStages
  <2>2. SameCli(c)
    BY <1>2, <2>1 DEF SameCli
  <2>3. sse' = sse
    BY <1>7 DEF Prepared
  <2> QED
    BY <1>5, <2>2, <2>3, SseUntouched
<1> QED
  BY <1>6, <1>7

LEMMA SseCall ==
  ASSUME IInv, SseExact, NEW c \in Calls,
         \/ PreparationFails(c) \/ Steer(c) \/ PostAnswered(c) \/ PostFails(c)
         \/ SteerEnds(c) \/ CliFails(c) \/ CliAnswered(c) \/ CliBreaks(c) \/ CliEnds(c)
  PROVE  SseExact'
<1> USE DEF IInv
<1>1. CASE PreparationFails(c) \/ PostAnswered(c) \/ PostFails(c) \/ SteerEnds(c)
  <2>1. /\ calls[c].stage \notin CliStages
        /\ calls' = [calls EXCEPT ![c] = Over(c)]
        /\ sse' = sse
    BY <1>1 DEF PreparationFails, PostAnswered, PostFails, GiveUp, FinishTurn,
       SteerEnds, CliStages
  <2> QED
    BY <2>1, SseBeside
<1>2. CASE Steer(c)
  <2>1. Sent(c).stage \notin CliStages /\ calls[c].stage \notin CliStages
    BY <1>2, SentType DEF Steer, CliStages
  <2>2. \A d \in Calls : SameCli(d)
    BY <1>2, <2>1 DEF Steer, SameCli, TypeOK
  <2> QED
    BY <1>2, <2>2, SseUntouched DEF Steer
<1>3. CASE CliFails(c) \/ CliBreaks(c) \/ CliEnds(c)
  <2>1. calls[c].stage \in CliStages
    BY <1>3 DEF CliFails, CliBreaks, CliEnds, CliStages
  <2>2. PICK a \in Agents : a = calls[c].agent
    BY <2>1, CallByStage DEF SentCalls, CliStages
  <2>3. ClearSse(a) /\ calls' = [calls EXCEPT ![c] = Over(c)]
    BY <1>3, <2>2 DEF CliFails, CliBreaks, CliEnds, GiveUp, FinishTurn
  <2> QED
    BY <2>1, <2>2, <2>3, SseFalls
<1>4. CASE CliAnswered(c)
  <2> DEFINE r == [calls[c] EXCEPT !.stage = "reading"]
  <2>1. r.stage = "reading" /\ r.agent = calls[c].agent /\ calls[c].stage = "cli"
    BY <1>4, CallByStage, SentCallSteps DEF CliAnswered
  <2>2. calls' = [calls EXCEPT ![c] = r]
    BY <1>4 DEF CliAnswered
  <2> HIDE DEF r
  <2>3. \A d \in Calls : SameCli(d)
    BY <2>1, <2>2 DEF SameCli, CliStages, TypeOK
  <2> QED
    BY <1>4, <2>3, SseUntouched DEF CliAnswered
<1> QED
  BY <1>1, <1>2, <1>3, <1>4

LEMMA SseUser ==
  ASSUME IInv, SseExact,
         \/ \E m \in Msgs : Submit(m) \/ SendNow(m) \/ Edit(m)
         \/ \E a \in Agents : SwitchAgent(a)
         \/ Stop
         \/ Dispatch
  PROVE  SseExact'
<1> USE DEF IInv
<1> DEFINE Kept == \A d \in Calls : \/ calls'[d] = calls[d]
                                  \/ /\ calls[d].stage \notin Owning
                                     /\ calls'[d].stage \notin Owning
<1>1. CASE \E m \in Msgs : Submit(m)
  <2>1. PICK m \in Msgs : Submit(m)
    BY <1>1
  <2>2. CASE UNCHANGED calls
    BY <2>1, <2>2, SseStart DEF Submit
  <2>3. CASE \E c \in Calls, kind \in Kinds \cup {"steer"} :
               Start(c, m, tabAgent, kind, None)
    BY <2>1, <2>3, StartStep, SseStart DEF Submit, TypeOK
  <2> QED
    BY <2>1, <2>2, <2>3 DEF Submit
<1>2. CASE \E m \in Msgs : SendNow(m)
  <2>1. PICK m \in Msgs : SendNow(m)
    BY <1>2
  <2>2. \E c \in Calls, kind \in Kinds \cup {"steer"} :
          Start(c, m, tabAgent, kind, None)
    BY <2>1 DEF SendNow
  <2> QED
    BY <2>1, <2>2, StartStep, SseStart DEF SendNow, TypeOK
<1>3. CASE (\E m \in Msgs : Edit(m)) \/ \E a \in Agents : SwitchAgent(a)
  BY <1>3, SseStart DEF Edit, SwitchAgent
<1>4. CASE Stop
  <2> DEFINE r == [calls[owner] EXCEPT !.aborted = TRUE]
  <2>1. CASE owner # None /\ calls[owner].agent = tabAgent
    <3>1. r.stage = calls[owner].stage /\ r.agent = calls[owner].agent
      BY <2>1, CallByStage, SentCallSteps DEF TypeOK, OwnerInFlight, InStage
    <3>2. calls' = [calls EXCEPT ![owner] = r]
      BY <1>4, <2>1 DEF Stop
    <3> HIDE DEF r
    <3>3. \A d \in Calls : SameCli(d)
      BY <3>1, <3>2 DEF SameCli, TypeOK
    <3> QED
      BY <1>4, <3>3, SseUntouched DEF Stop
  <2>2. CASE ~(owner # None /\ calls[owner].agent = tabAgent)
    BY <1>4, <2>2, SseStart DEF Stop
  <2> QED
    BY <2>1, <2>2
<1>5. CASE Dispatch
  <2> DEFINE f == Head(wire)
  <2>1. f \in Frames
    BY <1>5, HeadTailProperties DEF Dispatch, TypeOK
  <2>2. sse' = sse /\ (OnStart(f) \/ OnText(f) \/ OnTool(f) \/ OnEnd(f))
    BY <1>5 DEF Dispatch
  <2> HIDE DEF f
  <2>3. Kept
    <3>1. CASE OnStart(f) \/ OnText(f) \/ OnTool(f)
      BY <3>1 DEF OnStart, OnText, OnTool
    <3>2. CASE OnEnd(f)
      <4>1. f.agent \in Agents
        BY <2>1 DEF Frames
      <4>2. Flush(f.agent) \/ UNCHANGED calls
        BY <3>2 DEF OnEnd
      <4> QED
        BY <4>1, <4>2, FlushStep
    <3> QED
      BY <2>2, <3>1, <3>2
  <2> QED
    BY <2>2, <2>3, SseStart
<1> QED
  BY <1>1, <1>2, <1>3, <1>4, <1>5

LEMMA NextSse == IInv /\ SseExact /\ [Next]_vars => SseExact'
<1> SUFFICES ASSUME IInv, SseExact, [Next]_vars PROVE SseExact'
  OBVIOUS
<1>1. CASE UNCHANGED <<calls, sse>>
  BY <1>1, SseStart DEF IInv
<1>2. CASE \/ \E c \in Calls : Accept(c)
           \/ \E a \in Agents, f \in Foreign : ForeignTurn(a, f)
           \/ \E a \in Agents : TurnBegins(a)
           \/ \E a \in Agents, kind \in {"text", "tool"} : TurnSpeaks(a, kind)
           \/ \E a \in Agents, ok \in BOOLEAN : TurnEnds(a, ok)
  BY <1>1, <1>2 DEF Accept, ForeignTurn, TurnBegins, TurnSpeaks, TurnEnds, pageVars
<1>3. CASE UNCHANGED vars
  BY <1>1, <1>3 DEF vars
<1> QED
  BY <1>2, <1>3, SsePrepared, SseCall, SseUser DEF Next

LEMMA InitSse == Init => SseExact
<1> SUFFICES ASSUME Init PROVE SseExact
  OBVIOUS
<1>1. \A a \in Agents : CliCalls(a) = {}
  BY DEF Init, CliCalls, InStage, Unused
<1> QED
  BY <1>1, FS_EmptySet DEF Init, SseExact

\* The count of active CLI streams of an agent is exact after every way a CLI call
\* can end, so its session frames are neither hidden for good nor shown early.
THEOREM CountsCliCalls == Spec => []SseCountsCalls
<1>1. Spec => []SseExact
  BY Inductive, InitSse, NextSse, PTL DEF Spec
<1>2. SseExact => SseCountsCalls
  BY DEF SseExact, SseCountsCalls
<1> QED
  BY <1>1, <1>2, PTL

-------------------------------------------------------------------------------
\* What keeps an agent busy.  A turn that was accepted ends with a frame; a request
\* that was not accepted yet is accepted or gives up.

TurnsIn(s) == {t \in Turns : \E i \in 1..Len(s) : s[i] = t}
EndsIn(w, a) == {t \in Turns : \E i \in 1..Len(w) :
                   w[i].kind = "end" /\ w[i].agent = a /\ w[i].turn = t}

\* The turns of an agent whose end the page will still see.
Turning(a) == TurnsIn(pend[a]) \cup {t \in Turns : run[a] = t} \cup EndsIn(wire, a)

\* The requests of an agent that pushed a bubble and are not accepted.
Asking(a) == {c \in InStage({"native", "cli"}) : calls[c].agent = a /\ c \notin accepted}

Ends(a) == Turning(a) \cup Asking(a)

\* The sends of an agent that are being prepared.
Flushing(a) == {c \in InStage({"preparing"}) : calls[c].kind # "steer" /\ calls[c].agent = a}

\* What the server has was sent.
Reached == /\ \A c \in accepted : calls[c].stage \notin {"unused", "preparing"}
           /\ \A c \in Calls : calls[c].stage = "reading" => c \in accepted
           /\ \A a \in Agents : Turning(a) \cap Calls \subseteq accepted

\* A frame that is no end is followed by one of its agent, or its agent's turn runs.
Followed(w, r) ==
  \A i \in 1..Len(w) : w[i].kind # "end" =>
    \/ r[w[i].agent] # None
    \/ \E j \in 1..Len(w) : j > i /\ w[j].kind = "end" /\ w[j].agent = w[i].agent

Busy == \A a \in Agents : streaming[a] =>
          Turning(a) # {} \/ (owner # None /\ owner \in Asking(a))

Served == \A a \in Agents \ stranded :
            queue[a] # <<>> => Ends(a) \cup Flushing(a) # {}

\* A send that failed before the server had it.
Doomed == \E c \in Calls : calls[c].stage = "over" /\ c \notin accepted

Even == \A a \in Agents : /\ IsFiniteSet(Ends(a))
                          /\ Doomed \/ Len(bubbles[a]) <= Cardinality(Ends(a))

QuietInv == Reached /\ Followed(wire, run) /\ Busy /\ Served /\ Even

LEMMA TurnsInSteps ==
  ASSUME NEW s \in Seq(Turns), NEW t \in Turns
  PROVE  /\ TurnsIn(Append(s, t)) = TurnsIn(s) \cup {t}
         /\ TurnsIn(<<t>> \o s) = TurnsIn(s) \cup {t}
         /\ s # <<>> => TurnsIn(s) = TurnsIn(Tail(s)) \cup {Head(s)}
         /\ TurnsIn(<<>>) = {}
         /\ s # <<>> => TurnsIn(s) # {}
<1>1. Len(s) \in Nat /\ \A i \in 1..Len(s) : s[i] \in Turns
  BY LenProperties, ElementOfSeq
<1>2. TurnsIn(Append(s, t)) = TurnsIn(s) \cup {t}
  <2> DEFINE u == Append(s, t)
  <2>1. /\ Len(u) = Len(s) + 1 /\ u[Len(s) + 1] = t
        /\ \A i \in 1..Len(s) : u[i] = s[i]
    BY AppendProperties, <1>1
  <2> HIDE DEF u
  <2>2. TurnsIn(u) \subseteq TurnsIn(s) \cup {t}
    <3> SUFFICES ASSUME NEW x \in TurnsIn(u), x # t PROVE x \in TurnsIn(s)
      OBVIOUS
    <3>1. PICK i \in 1..Len(u) : u[i] = x
      BY DEF TurnsIn
    <3>2. i \in 1..Len(s)
      BY <1>1, <2>1, <3>1
    <3> QED
      BY <2>1, <3>1, <3>2 DEF TurnsIn
  <2>3. TurnsIn(s) \cup {t} \subseteq TurnsIn(u)
    <3>1. t \in TurnsIn(u)
      BY <1>1, <2>1 DEF TurnsIn
    <3>2. \A i \in 1..Len(s) : i \in 1..Len(u)
      BY <1>1, <2>1
    <3> QED
      BY <2>1, <3>1, <3>2 DEF TurnsIn
  <2> QED
    BY <2>2, <2>3 DEF u
<1>3. TurnsIn(<<t>> \o s) = TurnsIn(s) \cup {t}
  <2> DEFINE u == <<t>> \o s
  <2>1. /\ Len(u) = Len(s) + 1 /\ u[1] = t
        /\ \A i \in 1..Len(s) : u[i + 1] = s[i]
    BY ConcatProperties, <1>1
  <2> HIDE DEF u
  <2>2. TurnsIn(u) \subseteq TurnsIn(s) \cup {t}
    <3> SUFFICES ASSUME NEW x \in TurnsIn(u), x # t PROVE x \in TurnsIn(s)
      OBVIOUS
    <3>1. PICK i \in 1..Len(u) : u[i] = x
      BY DEF TurnsIn
    <3>2. i - 1 \in 1..Len(s) /\ u[(i - 1) + 1] = s[i - 1] /\ (i - 1) + 1 = i
      BY <1>1, <2>1, <3>1
    <3> QED
      BY <3>1, <3>2 DEF TurnsIn
  <2>3. TurnsIn(s) \cup {t} \subseteq TurnsIn(u)
    <3>1. t \in TurnsIn(u)
      BY <1>1, <2>1 DEF TurnsIn
    <3>2. \A i \in 1..Len(s) : i + 1 \in 1..Len(u)
      BY <1>1, <2>1
    <3> QED
      BY <2>1, <3>1, <3>2 DEF TurnsIn
  <2> QED
    BY <2>2, <2>3 DEF u
<1>4. ASSUME s # <<>>
      PROVE  TurnsIn(s) = TurnsIn(Tail(s)) \cup {Head(s)} /\ TurnsIn(s) # {}
  <2> DEFINE u == Tail(s)
             h == Head(s)
  <2>1. /\ Len(s) >= 1 /\ Len(u) = Len(s) - 1 /\ h = s[1]
        /\ \A i \in 1..Len(u) : u[i] = s[i + 1]
    BY HeadTailProperties, LenProperties, EmptySeq, <1>4
  <2> HIDE DEF u, h
  <2>2. h \in TurnsIn(s)
    BY <1>1, <2>1 DEF TurnsIn
  <2>3. TurnsIn(u) \subseteq TurnsIn(s)
    <3>1. \A i \in 1..Len(u) : i + 1 \in 1..Len(s)
      BY <1>1, <2>1
    <3> QED
      BY <2>1, <3>1 DEF TurnsIn
  <2>4. ASSUME NEW x \in TurnsIn(s), x # h PROVE x \in TurnsIn(u)
    <3>1. PICK i \in 1..Len(s) : s[i] = x
      BY <2>4 DEF TurnsIn
    <3>2. i - 1 \in 1..Len(u) /\ u[i - 1] = s[(i - 1) + 1] /\ (i - 1) + 1 = i
      BY <1>1, <2>1, <2>4, <3>1
    <3> QED
      BY <2>4, <3>1, <3>2 DEF TurnsIn
  <2> QED
    BY <2>2, <2>3, <2>4 DEF u, h
<1>5. TurnsIn(<<>>) = {}
  BY DEF TurnsIn
<1> QED
  BY <1>2, <1>3, <1>4, <1>5

LEMMA EndsInAppend ==
  ASSUME NEW w \in Seq(Frames), NEW f \in Frames, NEW a
  PROVE  /\ f.kind = "end" /\ f.agent = a => EndsIn(Append(w, f), a) = EndsIn(w, a) \cup {f.turn}
         /\ ~(f.kind = "end" /\ f.agent = a) => EndsIn(Append(w, f), a) = EndsIn(w, a)
<1> DEFINE u == Append(w, f)
<1>1. /\ Len(w) \in Nat /\ Len(u) = Len(w) + 1 /\ u[Len(w) + 1] = f
      /\ \A i \in 1..Len(w) : u[i] = w[i]
  BY AppendProperties, LenProperties
<1>2. f.turn \in Turns
  BY DEF Frames
<1> HIDE DEF u
<1>3. EndsIn(w, a) \subseteq EndsIn(u, a)
  <2>1. \A i \in 1..Len(w) : i \in 1..Len(u)
    BY <1>1
  <2> QED
    BY <1>1, <2>1 DEF EndsIn
<1>4. \A x \in EndsIn(u, a) : x \in EndsIn(w, a)
                              \/ (f.kind = "end" /\ f.agent = a /\ f.turn = x)
  <2> SUFFICES ASSUME NEW x \in EndsIn(u, a), x \notin EndsIn(w, a)
               PROVE  f.kind = "end" /\ f.agent = a /\ f.turn = x
    OBVIOUS
  <2>1. PICK i \in 1..Len(u) : u[i].kind = "end" /\ u[i].agent = a /\ u[i].turn = x
    BY DEF EndsIn
  <2>2. i \notin 1..Len(w)
    BY <1>1, <2>1 DEF EndsIn
  <2>3. i = Len(w) + 1
    BY <1>1, <2>2
  <2> QED
    BY <1>1, <2>1, <2>3
<1>5. f.kind = "end" /\ f.agent = a => f.turn \in EndsIn(u, a)
  <2>1. Len(w) + 1 \in 1..Len(u)
    BY <1>1
  <2> QED
    BY <1>1, <1>2, <2>1 DEF EndsIn
<1> QED
  BY <1>3, <1>4, <1>5 DEF u

LEMMA EndsInTail ==
  ASSUME NEW w \in Seq(Frames), w # <<>>, NEW a
  PROVE  /\ Head(w) \in Frames
         /\ EndsIn(Tail(w), a) \subseteq EndsIn(w, a)
         /\ ~(Head(w).kind = "end" /\ Head(w).agent = a) => EndsIn(w, a) \subseteq EndsIn(Tail(w), a)
         /\ EndsIn(w, a) \subseteq EndsIn(Tail(w), a) \cup {Head(w).turn}
<1> DEFINE u == Tail(w)
           f == Head(w)
<1>1. /\ Len(w) \in Nat /\ Len(w) >= 1 /\ Len(u) = Len(w) - 1 /\ f = w[1] /\ f \in Frames
      /\ \A i \in 1..Len(u) : u[i] = w[i + 1]
  BY HeadTailProperties, LenProperties, EmptySeq
<1> HIDE DEF u, f
<1>2. EndsIn(u, a) \subseteq EndsIn(w, a)
  <2>1. \A i \in 1..Len(u) : i + 1 \in 1..Len(w)
    BY <1>1
  <2> SUFFICES ASSUME NEW x \in EndsIn(u, a) PROVE x \in EndsIn(w, a)
    OBVIOUS
  <2>2. PICK i \in 1..Len(u) : u[i].kind = "end" /\ u[i].agent = a /\ u[i].turn = x
    BY DEF EndsIn
  <2>3. PICK j : j = i + 1
    OBVIOUS
  <2>4. j \in 1..Len(w) /\ w[j] = u[i]
    BY <1>1, <2>1, <2>3
  <2> QED
    BY <2>2, <2>4 DEF EndsIn
<1>3. \A x \in EndsIn(w, a) : x \in EndsIn(u, a)
                              \/ (f.kind = "end" /\ f.agent = a /\ f.turn = x)
  <2> SUFFICES ASSUME NEW x \in EndsIn(w, a), x \notin EndsIn(u, a)
               PROVE  f.kind = "end" /\ f.agent = a /\ f.turn = x
    OBVIOUS
  <2>1. PICK i \in 1..Len(w) : w[i].kind = "end" /\ w[i].agent = a /\ w[i].turn = x
    BY DEF EndsIn
  <2>2. i = 1
    <3> SUFFICES ASSUME i # 1 PROVE FALSE
      OBVIOUS
    <3>1. i - 1 \in 1..Len(u) /\ u[i - 1] = w[(i - 1) + 1] /\ (i - 1) + 1 = i
      BY <1>1
    <3> QED
      BY <2>1, <3>1 DEF EndsIn
  <2> QED
    BY <1>1, <2>1, <2>2
<1> QED
  BY <1>1, <1>2, <1>3 DEF u, f

\* A frame is sent: an end may end the run of its agent, another one keeps it.
LEMMA FollowedAppend ==
  ASSUME NEW w \in Seq(Frames), NEW f \in Frames, NEW r, NEW r2, Followed(w, r),
         \A b \in Agents : r[b] # None => r2[b] # None \/ (f.kind = "end" /\ f.agent = b),
         f.kind # "end" => r2[f.agent] # None
  PROVE  Followed(Append(w, f), r2)
<1> DEFINE u == Append(w, f)
<1>1. /\ Len(w) \in Nat /\ Len(u) = Len(w) + 1 /\ u[Len(w) + 1] = f
      /\ \A i \in 1..Len(w) : u[i] = w[i]
  BY AppendProperties, LenProperties
<1> HIDE DEF u
<1> SUFFICES ASSUME NEW i \in 1..Len(u), u[i].kind # "end", r2[u[i].agent] = None
             PROVE  \E j \in 1..Len(u) : j > i /\ u[j].kind = "end" /\ u[j].agent = u[i].agent
  BY DEF Followed, u
<1>2. i # Len(w) + 1
  BY <1>1
<1>3. i \in 1..Len(w) /\ u[i] = w[i] /\ w[i].agent \in Agents
  <2>1. i \in 1..Len(w)
    BY <1>1, <1>2
  <2>2. w[i] \in Frames
    BY <2>1, ElementOfSeq
  <2> QED
    BY <1>1, <2>1, <2>2 DEF Frames
<1>4. CASE r[w[i].agent] # None
  <2>1. f.kind = "end" /\ f.agent = w[i].agent
    BY <1>3, <1>4
  <2>2. Len(w) + 1 \in 1..Len(u) /\ Len(w) + 1 > i
    BY <1>1, <1>3
  <2> QED
    BY <1>1, <1>3, <2>1, <2>2
<1>5. CASE ~(r[w[i].agent] # None)
  <2>1. PICK j \in 1..Len(w) : j > i /\ w[j].kind = "end" /\ w[j].agent = w[i].agent
    BY <1>3, <1>5 DEF Followed
  <2>2. j \in 1..Len(u) /\ u[j] = w[j]
    BY <1>1, <2>1
  <2> QED
    BY <1>3, <2>1, <2>2
<1> QED
  BY <1>4, <1>5

LEMMA FollowedTail ==
  ASSUME NEW w \in Seq(Frames), w # <<>>, NEW r \in [Agents -> Turns \cup {None}], Followed(w, r)
  PROVE  /\ Followed(Tail(w), r)
         /\ Head(w).kind # "end" => r[Head(w).agent] # None \/ EndsIn(w, Head(w).agent) # {}
<1> DEFINE u == Tail(w)
           f == Head(w)
<1>1. /\ Len(w) \in Nat /\ Len(w) >= 1 /\ Len(u) = Len(w) - 1 /\ f = w[1]
      /\ \A i \in 1..Len(u) : u[i] = w[i + 1]
  BY HeadTailProperties, LenProperties, EmptySeq
<1> HIDE DEF u, f
<1>2. ASSUME NEW i \in 1..Len(u), u[i].kind # "end", r[u[i].agent] = None
      PROVE  \E j \in 1..Len(u) : j > i /\ u[j].kind = "end" /\ u[j].agent = u[i].agent
  <2>1. i + 1 \in 1..Len(w) /\ u[i] = w[i + 1]
    BY <1>1
  <2>2. PICK j \in 1..Len(w) : j > i + 1 /\ w[j].kind = "end" /\ w[j].agent = w[i + 1].agent
    BY <1>2, <2>1 DEF Followed
  <2>3. j - 1 \in 1..Len(u) /\ u[j - 1] = w[(j - 1) + 1] /\ (j - 1) + 1 = j /\ j - 1 > i
    BY <1>1, <2>2
  <2> QED
    BY <2>1, <2>2, <2>3
<1>3. ASSUME f.kind # "end", r[f.agent] = None PROVE EndsIn(w, f.agent) # {}
  <2>1. 1 \in 1..Len(w) /\ w[1] = f
    BY <1>1
  <2>2. PICK j \in 1..Len(w) : w[j].kind = "end" /\ w[j].agent = f.agent
    BY <1>3, <2>1 DEF Followed
  <2>3. w[j] \in Frames
    BY <2>2, ElementOfSeq
  <2>4. w[j].turn \in Turns
    BY <2>3 DEF Frames
  <2> QED
    BY <2>2, <2>4 DEF EndsIn
<1> QED
  BY <1>2, <1>3 DEF Followed, u, f

-------------------------------------------------------------------------------
\* The steps of the server.

LEMMA NothingIsNoTurn == None \notin Turns
BY DEF Turns

\* A set that gains at most one element, or loses at most one.
LEMMA OneMore ==
  ASSUME NEW S, IsFiniteSet(S), NEW x, NEW T, T \subseteq S \cup {x}
  PROVE  /\ IsFiniteSet(T)
         /\ S \subseteq T => Cardinality(S) <= Cardinality(T)
         /\ S \subseteq T /\ x \in T /\ x \notin S => Cardinality(T) = Cardinality(S) + 1
         /\ S \ {x} \subseteq T => Cardinality(S) - 1 <= Cardinality(T)
         /\ Cardinality(S) \in Nat /\ Cardinality(T) \in Nat
<1>1. IsFiniteSet(S \cup {x}) /\ IsFiniteSet(S \ {x})
  BY FS_AddElement, FS_RemoveElement
<1>2. IsFiniteSet(T)
  BY <1>1, FS_Subset
<1>3. S \subseteq T => Cardinality(S) <= Cardinality(T)
  BY <1>2, FS_Subset
<1>4. S \subseteq T /\ x \in T /\ x \notin S => T = S \cup {x}
  OBVIOUS
<1>5. Cardinality(S) \in Nat /\ Cardinality(T) \in Nat /\ Cardinality(S \ {x}) \in Nat
  BY <1>1, <1>2, FS_CardinalityType
<1>6. S \ {x} \subseteq T => Cardinality(S) - 1 <= Cardinality(T)
  <2>1. S \ {x} \subseteq T => Cardinality(S \ {x}) <= Cardinality(T)
    BY <1>2, FS_Subset
  <2>2. Cardinality(S \ {x}) = Cardinality(S) - 1 \/ Cardinality(S \ {x}) = Cardinality(S)
    BY FS_RemoveElement
  <2> QED
    BY <1>5, <2>1, <2>2
<1> QED
  BY <1>2, <1>3, <1>4, <1>5, <1>6, FS_AddElement

\* No turn of the server is forgotten, and what it accepts becomes one.
LEMMA ServerQuiet ==
  ASSUME IInv, QuietInv, UNCHANGED <<pageVars, stranded>>, Followed(wire', run'), NEW x,
         \A a \in Agents : Turning(a) \subseteq Turning(a)' /\ Turning(a)' \subseteq Turning(a) \cup {x},
         x \in Calls => x \in accepted',
         \A c \in Calls : c \in accepted' =>
           c \in accepted \/ (calls[c].stage \in InFlight /\ c \in Turning(calls[c].agent)'),
         accepted \subseteq accepted', accepted' \subseteq Calls
  PROVE  QuietInv'
<1> USE DEF QuietInv
<1>1. /\ UNCHANGED <<calls, owner, streaming, queue, bubbles>>
  BY DEF pageVars
<1>2. \A a \in Agents : /\ Asking(a)' \subseteq Asking(a)
                        /\ Asking(a) \subseteq Asking(a)' \cup Turning(a)'
                        /\ Flushing(a)' = Flushing(a)
  BY <1>1 DEF Asking, Flushing, InStage
<1>3. Reached'
  <2>1. \A c \in accepted' : calls[c].stage \notin {"unused", "preparing"}
    BY DEF Reached, InFlight
  <2>2. \A a \in Agents : Turning(a)' \cap Calls \subseteq accepted'
    BY DEF Reached
  <2> QED
    BY <1>1, <2>1, <2>2 DEF Reached
<1>4. Busy'
  BY <1>1, <1>2 DEF Busy
<1>5. \A a \in Agents : Ends(a) \subseteq Ends(a)' /\ Ends(a)' \subseteq Ends(a) \cup {x}
  BY <1>2 DEF Ends
<1>6. Served'
  BY <1>1, <1>2, <1>5 DEF Served
<1>7. Doomed => Doomed'
  BY <1>1 DEF Doomed, InFlight
<1>8. ASSUME NEW a \in Agents
      PROVE  /\ IsFiniteSet(Ends(a)')
             /\ Doomed' \/ Len(bubbles'[a]) <= Cardinality(Ends(a)')
  <2>1. /\ IsFiniteSet(Ends(a)') /\ Cardinality(Ends(a)) <= Cardinality(Ends(a)')
        /\ Cardinality(Ends(a)) \in Nat /\ Cardinality(Ends(a)') \in Nat
    BY <1>5, OneMore DEF Even
  <2>2. Len(bubbles[a]) \in Nat
    BY LenProperties DEF IInv, TypeOK
  <2> QED
    BY <1>1, <1>7, <2>1, <2>2 DEF Even
<1>9. Even'
  BY <1>8 DEF Even
<1> QED
  BY <1>3, <1>4, <1>6, <1>9

LEMMA AcceptQuiet == ASSUME IInv, QuietInv, NEW c \in Calls, Accept(c) PROVE QuietInv'
<1> USE DEF IInv, QuietInv
<1> DEFINE a == calls[c].agent
           cut == calls[c].stage = "steer" /\ run[a] # None
           f == Frame("end", a, run[a], FALSE)
<1>1. a \in Agents /\ c \in Turns /\ calls[c].stage \in InFlight
  BY CallByStage DEF Accept, InFlight, SentCalls, Turns
<1>2. /\ accepted' = accepted \cup {c} /\ UNCHANGED <<pageVars, stranded>>
      /\ pend' = [pend EXCEPT ![a] = IF calls[c].stage = "steer"
                                     THEN <<c>> \o pend[a] ELSE Append(pend[a], c)]
      /\ run' = IF cut THEN [run EXCEPT ![a] = None] ELSE run
      /\ wire' = IF cut THEN Append(wire, f) ELSE wire
  BY DEF Accept
<1>3. /\ pend \in [Agents -> Seq(Turns)] /\ run \in [Agents -> Turns \cup {None}]
      /\ wire \in Seq(Frames) /\ accepted \subseteq Calls
  BY DEF TypeOK
<1>4. /\ TurnsIn(pend'[a]) = TurnsIn(pend[a]) \cup {c}
      /\ \A b \in Agents \ {a} : pend'[b] = pend[b]
  BY <1>1, <1>2, <1>3, TurnsInSteps
<1>5. cut => f \in Frames /\ f.kind = "end" /\ f.agent = a /\ f.turn = run[a]
  BY <1>1, <1>3 DEF Frame, Frames
<1> HIDE DEF f, a
<1>6. \A b \in Agents : {t \in Turns : run'[b] = t} \cup EndsIn(wire', b)
                          = {t \in Turns : run[b] = t} \cup EndsIn(wire, b)
  <2>1. CASE cut
    <3>1. EndsIn(wire', a) = EndsIn(wire, a) \cup {run[a]}
      <4>1. EndsIn(Append(wire, f), a) = EndsIn(wire, a) \cup {f.turn}
        <5>1. wire \in Seq(Frames) /\ f \in Frames /\ f.kind = "end" /\ f.agent = a
          BY <1>3, <1>5, <2>1
        <5> QED
          BY <5>1, EndsInAppend
      <4> QED
        BY <1>2, <1>5, <2>1, <4>1
    <3>2. \A b \in Agents \ {a} : EndsIn(wire', b) = EndsIn(wire, b)
      BY <1>2, <1>3, <1>5, <2>1, EndsInAppend
    <3>3. run'[a] = None /\ \A b \in Agents \ {a} : run'[b] = run[b]
      BY <1>1, <1>2, <1>3, <2>1
    <3>4. run[a] \in Turns
      BY <1>1, <1>3, <2>1
    <3>5. {t \in Turns : run[a] = t} = {run[a]} /\ {t \in Turns : run'[a] = t} = {}
      BY <3>3, <3>4, NothingIsNoTurn
    <3> QED
      BY <3>1, <3>2, <3>3, <3>5
  <2>2. CASE ~cut
    BY <1>2, <2>2
  <2> QED
    BY <2>1, <2>2
<1>7. \A b \in Agents : /\ Turning(b) \subseteq Turning(b)'
                        /\ Turning(b)' \subseteq Turning(b) \cup {c}
  BY <1>4, <1>6 DEF Turning
<1>8. c \in Turning(a)'
  <2>1. c \in TurnsIn(pend'[a])
    BY <1>4
  <2>2. a' = a
    BY <1>2 DEF pageVars, a
  <2> QED
    BY <2>1, <2>2 DEF Turning
<1>9. Followed(wire', run')
  <2>1. CASE cut
    <3>1. \A b \in Agents : run[b] # None => run'[b] # None \/ (f.kind = "end" /\ f.agent = b)
      BY <1>1, <1>2, <1>3, <1>5, <2>1
    <3>2. Followed(wire, run)
      OBVIOUS
    <3>3. Followed(Append(wire, f), run')
      BY <1>3, <1>5, <2>1, <3>1, <3>2, FollowedAppend
    <3> QED
      BY <1>2, <2>1, <3>3
  <2>2. CASE ~cut
    BY <1>2, <2>2
  <2> QED
    BY <2>1, <2>2
<1> QED
  BY <1>1, <1>2, <1>3, <1>7, <1>8, <1>9, ServerQuiet DEF a

LEMMA ForeignTurnQuiet ==
  ASSUME IInv, QuietInv, NEW a \in Agents, NEW f \in Foreign, ForeignTurn(a, f) PROVE QuietInv'
<1> USE DEF IInv, QuietInv
<1>1. /\ UNCHANGED <<pageVars, stranded, run, wire, accepted>>
      /\ pend' = [pend EXCEPT ![a] = Append(pend[a], f)]
      /\ f \in Turns /\ f \notin Calls /\ accepted \subseteq Calls
      /\ pend \in [Agents -> Seq(Turns)]
  BY ForeignAssumption DEF ForeignAssumption, ForeignTurn, Turns, TypeOK
<1>2. /\ TurnsIn(pend'[a]) = TurnsIn(pend[a]) \cup {f}
      /\ \A b \in Agents \ {a} : pend'[b] = pend[b]
  BY <1>1, TurnsInSteps
<1>3. \A b \in Agents : /\ Turning(b) \subseteq Turning(b)'
                        /\ Turning(b)' \subseteq Turning(b) \cup {f}
  BY <1>1, <1>2 DEF Turning
<1>4. Followed(wire', run')
  BY <1>1
<1> QED
  BY <1>1, <1>3, <1>4, ServerQuiet

LEMMA TurnBeginsQuiet ==
  ASSUME IInv, QuietInv, NEW a \in Agents, TurnBegins(a) PROVE QuietInv'
<1> USE DEF IInv, QuietInv
<1> DEFINE t == Head(pend[a])
           f == Frame("start", a, t, TRUE)
<1>1. /\ UNCHANGED <<pageVars, stranded, accepted>>
      /\ pend' = [pend EXCEPT ![a] = Tail(pend[a])]
      /\ run' = [run EXCEPT ![a] = t] /\ run[a] = None
      /\ wire' = Append(wire, f)
      /\ pend[a] # <<>>
  BY DEF TurnBegins
<1>2. /\ pend \in [Agents -> Seq(Turns)] /\ run \in [Agents -> Turns \cup {None}]
      /\ wire \in Seq(Frames) /\ accepted \subseteq Calls
  BY DEF TypeOK
<1>3. t \in Turns
  BY <1>1, <1>2, HeadTailProperties
<1>4. f \in Frames /\ f.kind # "end" /\ f.agent = a
  BY <1>3 DEF Frame, Frames
<1>5. TurnsIn(pend[a]) = TurnsIn(pend'[a]) \cup {t}
  BY <1>1, <1>2, <1>3, TurnsInSteps
<1> HIDE DEF f, t
<1>6. \A b \in Agents : EndsIn(wire', b) = EndsIn(wire, b)
  BY <1>1, <1>2, <1>4, EndsInAppend
<1>7. /\ run'[a] = t
      /\ \A b \in Agents \ {a} : run'[b] = run[b] /\ pend'[b] = pend[b]
  BY <1>1, <1>2
<1>8. t # None
  <2>1. ASSUME t = None PROVE FALSE
    BY <1>3, <2>1, NothingIsNoTurn
  <2> QED
    BY <2>1
<1>9. ASSUME NEW b \in Agents PROVE Turning(b)' = Turning(b)
  <2>1. CASE b = a
    <3>1. {x \in Turns : run[a] = x} = {} /\ {x \in Turns : run'[a] = x} = {t}
      BY <1>1, <1>3, <1>7, NothingIsNoTurn
    <3> QED
      BY <1>5, <1>6, <2>1, <3>1 DEF Turning
  <2>2. CASE b # a
    BY <1>6, <1>7, <2>2 DEF Turning
  <2> QED
    BY <2>1, <2>2
<1>10. Followed(wire', run')
  <2>1. \A b \in Agents : run[b] # None => run'[b] # None
    BY <1>7, <1>8
  <2>2. run'[f.agent] # None
    BY <1>4, <1>7, <1>8
  <2>3. Followed(wire, run)
    OBVIOUS
  <2>4. Followed(Append(wire, f), run')
    BY <1>2, <1>4, <2>1, <2>2, <2>3, FollowedAppend
  <2> QED
    BY <1>1, <2>4
<1>11. None \notin Calls
  OBVIOUS
<1> QED
  BY <1>1, <1>2, <1>9, <1>10, <1>11, ServerQuiet

\* What a turn sends while it runs, and its end: the turns do not change.
LEMMA TurnSpeaksQuiet ==
  ASSUME IInv, QuietInv, NEW a \in Agents, NEW k \in {"text", "tool"}, TurnSpeaks(a, k)
  PROVE  QuietInv'
<1> USE DEF IInv, QuietInv
<1> DEFINE f == Frame(k, a, run[a], TRUE)
<1>1. /\ UNCHANGED <<pageVars, stranded, accepted, pend, run>>
      /\ run[a] # None
      /\ wire' = Append(wire, f)
  BY DEF TurnSpeaks
<1>2. /\ run \in [Agents -> Turns \cup {None}] /\ wire \in Seq(Frames) /\ accepted \subseteq Calls
  BY DEF TypeOK
<1>3. f \in Frames /\ f.kind # "end" /\ f.agent = a
  BY <1>1, <1>2 DEF Frame, Frames
<1> HIDE DEF f
<1>4. \A b \in Agents : EndsIn(wire', b) = EndsIn(wire, b)
  BY <1>1, <1>2, <1>3, EndsInAppend
<1>5. \A b \in Agents : Turning(b)' = Turning(b)
  BY <1>1, <1>4 DEF Turning
<1>6. Followed(wire', run')
  <2>1. Followed(wire, run)
    OBVIOUS
  <2>2. Followed(Append(wire, f), run)
    BY <1>1, <1>2, <1>3, <2>1, FollowedAppend
  <2> QED
    BY <1>1, <2>2
<1>7. None \notin Calls
  OBVIOUS
<1> QED
  BY <1>1, <1>2, <1>5, <1>6, <1>7, ServerQuiet

LEMMA TurnEndsQuiet ==
  ASSUME IInv, QuietInv, NEW a \in Agents, NEW ok \in BOOLEAN, TurnEnds(a, ok)
  PROVE  QuietInv'
<1> USE DEF IInv, QuietInv
<1> DEFINE f == Frame("end", a, run[a], ok)
<1>1. /\ UNCHANGED <<pageVars, stranded, accepted, pend>>
      /\ run[a] # None
      /\ run' = [run EXCEPT ![a] = None]
      /\ wire' = Append(wire, f)
  BY DEF TurnEnds
<1>2. /\ run \in [Agents -> Turns \cup {None}] /\ wire \in Seq(Frames) /\ accepted \subseteq Calls
  BY DEF TypeOK
<1>3. f \in Frames /\ f.kind = "end" /\ f.agent = a /\ f.turn = run[a]
  BY <1>1, <1>2 DEF Frame, Frames
<1> HIDE DEF f
<1>4. EndsIn(wire', a) = EndsIn(wire, a) \cup {run[a]}
  <2>1. EndsIn(Append(wire, f), a) = EndsIn(wire, a) \cup {f.turn}
    BY <1>2, <1>3, EndsInAppend
  <2> QED
    BY <1>1, <1>3, <2>1
<1>5. \A b \in Agents \ {a} : EndsIn(wire', b) = EndsIn(wire, b)
  BY <1>1, <1>2, <1>3, EndsInAppend
<1>6. /\ run[a] \in Turns /\ run'[a] = None
      /\ \A b \in Agents \ {a} : run'[b] = run[b]
  BY <1>1, <1>2
<1>7. {t \in Turns : run[a] = t} = {run[a]} /\ {t \in Turns : run'[a] = t} = {}
  BY <1>6, NothingIsNoTurn
<1>8. ASSUME NEW b \in Agents PROVE Turning(b)' = Turning(b)
  <2>1. CASE b = a
    BY <1>1, <1>4, <1>7, <2>1 DEF Turning
  <2>2. CASE b # a
    BY <1>1, <1>5, <1>6, <2>2 DEF Turning
  <2> QED
    BY <2>1, <2>2
<1>9. Followed(wire', run')
  <2>1. Followed(wire, run)
    OBVIOUS
  <2>2. \A b \in Agents : run[b] # None => run'[b] # None \/ (f.kind = "end" /\ f.agent = b)
    BY <1>3, <1>6
  <2>3. Followed(Append(wire, f), run')
    BY <1>2, <1>3, <2>1, <2>2, FollowedAppend
  <2> QED
    BY <1>1, <2>3
<1>10. None \notin Calls
  OBVIOUS
<1> QED
  BY <1>1, <1>2, <1>8, <1>9, <1>10, ServerQuiet

-------------------------------------------------------------------------------
\* The steps of the user and of a call.

\* A call that is neither sent nor accepted by the step asks what it asked before.
SameAsking(d) == \/ calls'[d] = calls[d]
                 \/ d \in accepted
                 \/ /\ calls[d].stage \notin {"native", "cli"}
                    /\ calls'[d].stage \notin {"native", "cli"}
                 \/ calls'[d].stage = calls[d].stage /\ calls'[d].agent = calls[d].agent

\* A page step that sends nothing: it marks no agent streaming and pushes no bubble;
\* a call that gives up before it is accepted is doomed and strands its agent.
LEMMA PageQuiet ==
  ASSUME IInv, QuietInv, UNCHANGED <<pend, run, wire, accepted>>,
         \A c \in accepted : calls'[c].stage \notin {"unused", "preparing"},
         \A c \in Calls : calls'[c].stage = "reading" => c \in accepted,
         Doomed => Doomed',
         \A a \in Agents : streaming'[a] => streaming[a],
         \A a \in Agents : streaming'[a] /\ owner # None /\ owner \in Asking(a)
                             => owner' = owner /\ owner \in Asking(a)',
         stranded \subseteq stranded',
         \A a \in Agents \ stranded' : /\ queue'[a] # <<>> => queue[a] # <<>> \/ streaming[a]
                                       /\ Asking(a) \cup Flushing(a)
                                            \subseteq Asking(a)' \cup Flushing(a)',
         \A a \in Agents :
           /\ Asking(a)' \subseteq Asking(a)
           /\ Doomed' \/ (Asking(a)' = Asking(a) /\ Len(bubbles'[a]) <= Len(bubbles[a])),
         \A a \in Agents : Len(bubbles[a]) \in Nat /\ Len(bubbles'[a]) \in Nat
  PROVE  QuietInv'
<1> USE DEF QuietInv
<1>1. \A a \in Agents : Turning(a)' = Turning(a)
  BY DEF Turning
<1>2. Reached'
  BY <1>1 DEF Reached
<1>3. Followed(wire, run)'
  OBVIOUS
<1>4. Busy'
  BY <1>1 DEF Busy
<1>5. ASSUME NEW a \in Agents \ stranded', queue'[a] # <<>>
      PROVE  Ends(a)' \cup Flushing(a)' # {}
  <2>1. Ends(a) \cup Flushing(a) # {}
    <3>1. CASE queue[a] # <<>>
      BY <3>1 DEF Served
    <3>2. CASE streaming[a]
      BY <3>2 DEF Busy, Ends
    <3> QED
      BY <1>5, <3>1, <3>2
  <2> QED
    BY <1>1, <2>1 DEF Ends
<1>6. Served'
  BY <1>5 DEF Served
<1>7. ASSUME NEW a \in Agents
      PROVE  /\ IsFiniteSet(Ends(a)')
             /\ Doomed' \/ Len(bubbles'[a]) <= Cardinality(Ends(a)')
  <2>1. Ends(a)' \subseteq Ends(a) /\ (Asking(a)' = Asking(a) => Ends(a)' = Ends(a))
    BY <1>1 DEF Ends
  <2>2. IsFiniteSet(Ends(a)') /\ IsFiniteSet(Ends(a))
    BY <2>1, FS_Subset DEF Even
  <2>3. Cardinality(Ends(a)) \in Nat
    BY <2>2, FS_CardinalityType
  <2> QED
    BY <2>1, <2>2, <2>3 DEF Even
<1>8. Even'
  BY <1>7 DEF Even
<1> QED
  BY <1>2, <1>3, <1>4, <1>6, <1>8

\* What is left when an element leaves a sequence.
Loses(s, e, r) ==
  \/ r = s /\ \A i \in 1..Len(s) : s[i] # e
  \/ \E k \in 1..Len(s) :
       /\ s[k] = e /\ Len(r) = Len(s) - 1
       /\ \A i \in 1..Len(r) : r[i] = IF i < k THEN s[i] ELSE s[i + 1]

LEMMA RemoveFirstLooks ==
  ASSUME NEW S, NEW s \in Seq(S), NEW e, NEW r, r = RemoveFirst(s, e)
  PROVE  Loses(s, e, r)
<1> USE DEF Loses
<1>1. CASE \A i \in 1..Len(s) : s[i] # e
  BY <1>1 DEF RemoveFirst
<1>2. CASE \E i \in 1..Len(s) : s[i] = e
  <2> DEFINE I == {i \in 1..Len(s) : s[i] = e}
             k == Min(I)
             u == SubSeq(s, 1, k - 1)
             v == SubSeq(s, k + 1, Len(s))
  <2>1. I \subseteq Nat /\ I # {}
    BY <1>2, LenProperties
  <2>2. k \in I
    BY <2>1, LeastElement DEF Min
  <2>3. SelectInSeq(s, LAMBDA x : x = e) = k
    BY <2>1 DEF SelectInSeq
  <2>4. r = u \o v
    BY <1>2, <2>3 DEF RemoveFirst, RemoveAt
  <2>5. Len(s) \in Nat /\ k \in 1..Len(s) /\ s[k] = e
    BY <2>2, LenProperties
  <2>6. \A i \in 1..Len(s) : s[i] \in S
    BY ElementOfSeq
  <2> HIDE DEF k
  <2>7. u \in Seq(S) /\ Len(u) = k - 1 /\ \A i \in 1..Len(u) : u[i] = s[i]
    <3>1. k - 1 \in Int /\ k - 1 >= 0 /\ \A i \in 1..(k - 1) : s[i] \in S
      BY <2>5, <2>6
    <3>2. \A i \in 1..(k - 1) : 1 + i - 1 = i
      BY <2>5
    <3> QED
      BY <2>5, <3>1, <3>2, SubSeqProperties
  <2>8. v \in Seq(S) /\ Len(v) = Len(s) - k /\ \A i \in 1..Len(v) : v[i] = s[k + i]
    <3>1. k + 1 \in Int /\ Len(s) \in Int /\ \A i \in (k + 1)..Len(s) : s[i] \in S
      BY <2>5, <2>6
    <3>2. \A i \in 1..(Len(s) - k) : (k + 1) + i - 1 = k + i
      BY <2>5
    <3>3. v \in Seq(S) /\ Len(v) = IF k + 1 <= Len(s) + 1 THEN Len(s) - (k + 1) + 1 ELSE 0
      BY <3>1, SubSeqProperties
    <3>4. Len(v) = Len(s) - k
      BY <2>5, <3>3
    <3> QED
      BY <2>5, <3>1, <3>2, <3>3, <3>4, SubSeqProperties
  <2> HIDE DEF u, v
  <2>9. /\ Len(r) = Len(u) + Len(v)
        /\ \A i \in 1..(Len(u) + Len(v)) : r[i] = IF i <= Len(u) THEN u[i] ELSE v[i - Len(u)]
    <3>1. u \in Seq(S) /\ v \in Seq(S)
      BY <2>7, <2>8
    <3> QED
      BY <2>4, <3>1, ConcatProperties
  <2>10. Len(r) = Len(s) - 1
    BY <2>5, <2>7, <2>8, <2>9
  <2>11. ASSUME NEW i \in 1..Len(r) PROVE r[i] = IF i < k THEN s[i] ELSE s[i + 1]
    <3>1. CASE i < k
      <4>1. i \in 1..Len(u) /\ i \in 1..(Len(u) + Len(v)) /\ i <= Len(u)
        BY <2>5, <2>7, <2>8, <2>10, <3>1
      <4> QED
        BY <2>7, <2>9, <3>1, <4>1
    <3>2. CASE ~(i < k)
      <4>1. /\ i \in 1..(Len(u) + Len(v)) /\ ~(i <= Len(u)) /\ i - Len(u) \in 1..Len(v)
            /\ k + (i - Len(u)) = i + 1
        <5>1. PICK x, y, z : x = Len(u) /\ y = Len(v) /\ z = Len(s)
          OBVIOUS
        <5>2. x = k - 1 /\ y = z - k /\ z \in Nat /\ k \in 1..z /\ i \in 1..z - 1
          BY <2>5, <2>7, <2>8, <2>10, <5>1
        <5>3. i \in 1..x + y /\ ~(i <= x) /\ i - x \in 1..y /\ k + (i - x) = i + 1
          BY <3>2, <5>2
        <5> QED
          BY <5>1, <5>3
      <4> QED
        BY <2>8, <2>9, <3>2, <4>1
    <3> QED
      BY <3>1, <3>2
  <2> QED
    BY <2>5, <2>10, <2>11
<1> QED
  BY <1>1, <1>2

LEMMA RemoveFirstShorter ==
  ASSUME NEW S, NEW s \in Seq(S), NEW e
  PROVE  /\ Len(RemoveFirst(s, e)) \in Nat
         /\ Len(RemoveFirst(s, e)) <= Len(s)
<1>1. Len(s) \in Nat /\ RemoveFirst(s, e) \in Seq(S)
  BY LenProperties, RemoveFirstType
<1>2. Len(RemoveFirst(s, e)) \in Nat
  BY <1>1, LenProperties
<1>3. PICK r : r = RemoveFirst(s, e)
  OBVIOUS
<1>4. r = s \/ Len(r) = Len(s) - 1
  BY <1>3, RemoveFirstLooks DEF Loses
<1> QED
  BY <1>1, <1>2, <1>3, <1>4

\* A step of the calls that sends, accepts and gives up nothing.
Calm == /\ \A c \in accepted : calls'[c].stage \notin {"unused", "preparing"}
        /\ \A c \in Calls : calls'[c].stage = "reading" => c \in accepted
        /\ \A a \in Agents : Asking(a)' = Asking(a) /\ Flushing(a) \subseteq Flushing(a)'
        /\ Doomed => Doomed'

LEMMA CalmQuiet ==
  ASSUME IInv, IInv', QuietInv, Calm, UNCHANGED <<pend, run, wire, accepted>>,
         \A a \in Agents : streaming'[a] => streaming[a],
         \A a \in Agents : owner # None /\ owner \in Asking(a) => owner' = owner,
         stranded \subseteq stranded',
         \A a \in Agents : queue'[a] # <<>> => queue[a] # <<>> \/ streaming[a],
         \A a \in Agents : Len(bubbles'[a]) <= Len(bubbles[a])
  PROVE  QuietInv'
<1>1. \A a \in Agents : Len(bubbles[a]) \in Nat
  BY LenProperties DEF IInv, TypeOK
<1>2. \A a \in Agents : Len(bubbles'[a]) \in Nat
  BY LenProperties DEF IInv, TypeOK
<1>3. \A a \in Agents : owner \in Asking(a) => owner \in Asking(a)'
  BY DEF Calm
<1>4. /\ \A c \in accepted : calls'[c].stage \notin {"unused", "preparing"}
      /\ \A c \in Calls : calls'[c].stage = "reading" => c \in accepted
      /\ Doomed => Doomed'
  BY DEF Calm
<1>5. \A a \in Agents : streaming'[a] /\ owner # None /\ owner \in Asking(a)
                             => owner' = owner /\ owner \in Asking(a)'
  BY <1>3
<1>6. \A a \in Agents \ stranded' : /\ queue'[a] # <<>> => queue[a] # <<>> \/ streaming[a]
                                   /\ Asking(a) \cup Flushing(a)
                                            \subseteq Asking(a)' \cup Flushing(a)'
  BY DEF Calm
<1>7. \A a \in Agents :
           /\ Asking(a)' \subseteq Asking(a)
           /\ Doomed' \/ (Asking(a)' = Asking(a) /\ Len(bubbles'[a]) <= Len(bubbles[a]))
  BY DEF Calm
<1>8. \A a \in Agents : Len(bubbles[a]) \in Nat /\ Len(bubbles'[a]) \in Nat
  BY <1>1, <1>2
<1> QED
  BY <1>4, <1>5, <1>6, <1>7, <1>8, PageQuiet

\* The calls do not change.
LEMMA SameCallsCalm == ASSUME Reached, UNCHANGED <<calls, accepted>> PROVE Calm
BY DEF Reached, Calm, Asking, Flushing, Doomed, InStage

\* One call moves, keeping what it asks and what it flushes.
LEMMA OneCallCalm ==
  ASSUME TypeOK, Reached, UNCHANGED accepted, NEW c \in Calls, NEW r,
         calls' = [calls EXCEPT ![c] = r],
         c \in accepted => r.stage \notin {"unused", "preparing"},
         r.stage = "reading" => c \in accepted,
         \/ c \in accepted
         \/ calls[c].stage \notin {"native", "cli"} /\ r.stage \notin {"native", "cli"}
         \/ r.stage = calls[c].stage /\ r.agent = calls[c].agent,
         calls[c].stage # "preparing" \/ calls[c].kind = "steer",
         calls[c].stage # "over"
  PROVE  Calm
<1>1. calls'[c] = r /\ \A d \in Calls \ {c} : calls'[d] = calls[d]
  BY DEF TypeOK
<1>2. \A a \in Agents : Asking(a)' = Asking(a)
  BY <1>1 DEF Asking, InStage
<1>3. \A a \in Agents : Flushing(a) \subseteq Flushing(a)'
  BY <1>1 DEF Flushing, InStage
<1>4. Doomed => Doomed'
  BY <1>1 DEF Doomed
<1>5. accepted \subseteq Calls
  BY DEF TypeOK
<1>6. /\ \A d \in accepted : calls'[d].stage \notin {"unused", "preparing"}
      /\ \A d \in Calls : calls'[d].stage = "reading" => d \in accepted
  BY <1>1, <1>5 DEF Reached
<1> QED
  BY <1>2, <1>3, <1>4, <1>6 DEF Calm

\* A call begins: nothing is asked, one send more is prepared.
LEMMA StartCalm ==
  ASSUME TypeOK, Reached, UNCHANGED accepted, NEW c \in Calls, NEW m \in Msgs,
         NEW target \in Agents, NEW kind \in Kinds \cup {"steer"}, NEW from \in Agents \cup {None},
         Start(c, m, target, kind, from)
  PROVE  /\ Calm
         /\ kind # "steer" /\ Mention[m] = None => c \in Flushing(target)'
<1> DEFINE a == IF Mention[m] = None THEN target ELSE Mention[m]
           r == [stage |-> "preparing", msg |-> m, kind |-> kind, from |-> from,
                 agent |-> a]
<1>1. /\ r.stage = "preparing" /\ r.kind = kind /\ r.agent = a
      /\ calls[c].stage = "unused"
      /\ calls' = [calls EXCEPT ![c] = r]
  BY DEF Start, Unused
<1> HIDE DEF r
<1>2. /\ calls'[c] = r /\ \A d \in Calls \ {c} : calls'[d] = calls[d]
      /\ c \notin accepted
  BY <1>1 DEF TypeOK, Reached
<1>3. Calm
  BY <1>1, <1>2, OneCallCalm
<1>4. kind # "steer" /\ Mention[m] = None => c \in Flushing(target)'
  BY <1>1, <1>2 DEF Flushing, InStage
<1> QED
  BY <1>3, <1>4

LEMMA SubmitQuiet ==
  ASSUME IInv, IInv', QuietInv, NEW m \in Msgs, Submit(m) PROVE QuietInv'
<1> USE DEF IInv
<1>1. /\ UNCHANGED <<pend, run, wire, accepted, owner, streaming, stranded, bubbles>>
      /\ \A a \in Agents : queue'[a] # <<>> => queue[a] # <<>> \/ streaming[a]
  BY DEF Submit, serverVars, TypeOK
<1>2. TypeOK /\ Reached
  BY DEF QuietInv
<1>3. Calm
  <2>1. CASE UNCHANGED <<tabAgent, calls>>
    BY <1>1, <1>2, <2>1, SameCallsCalm
  <2>2. CASE \E c \in Calls : Start(c, m, tabAgent, "steer", None)
    BY <1>1, <1>2, <2>2, StartCalm DEF TypeOK
  <2>3. CASE \E c \in Calls, kind \in Kinds : Start(c, m, tabAgent, kind, None)
    BY <1>1, <1>2, <2>3, StartCalm DEF TypeOK
  <2> QED
    BY <2>1, <2>2, <2>3 DEF Submit
<1>4. \A a \in Agents : Len(bubbles'[a]) <= Len(bubbles[a])
  BY <1>1, LenProperties DEF TypeOK
<1> QED
  BY <1>1, <1>3, <1>4, CalmQuiet

\* An item can only leave a queue that holds one.
LEMMA WithoutFrom ==
  ASSUME TypeOK, NEW m, NEW a \in Agents, Without(m)[a] # <<>>
  PROVE  queue[a] # <<>>
<1>1. Without(m)[a] = IF a = tabAgent THEN RemoveFirst(queue[a], m) ELSE queue[a]
  BY DEF Without, TypeOK
<1> QED
  BY <1>1, RemoveFirstEmpty

LEMMA SendNowQuiet ==
  ASSUME IInv, IInv', QuietInv, NEW m \in Msgs, SendNow(m) PROVE QuietInv'
<1> USE DEF IInv
<1>1. /\ UNCHANGED <<pend, run, wire, accepted, owner, streaming, stranded, bubbles>>
      /\ queue' = Without(m)
  BY DEF SendNow, serverVars
<1>2. TypeOK /\ Reached
  BY DEF QuietInv
<1>3. Calm
  <2>1. PICK c \in Calls, kind \in Kinds :
          Start(c, m, tabAgent,
                IF streaming[tabAgent] /\ kind = "native" THEN "steer" ELSE kind, None)
    BY DEF SendNow
  <2> QED
    BY <1>1, <1>2, <2>1, StartCalm DEF TypeOK
<1>4. \A a \in Agents : Len(bubbles'[a]) <= Len(bubbles[a])
  BY <1>1, LenProperties DEF TypeOK
<1>5. \A a \in Agents : queue'[a] # <<>> => queue[a] # <<>> \/ streaming[a]
  BY <1>1, WithoutFrom
<1> QED
  BY <1>1, <1>3, <1>4, <1>5, CalmQuiet

LEMMA EditQuiet ==
  ASSUME IInv, IInv', QuietInv, NEW m \in Msgs, Edit(m) PROVE QuietInv'
<1> USE DEF IInv
<1>1. /\ UNCHANGED <<pend, run, wire, accepted, owner, streaming, stranded, bubbles, calls>>
      /\ queue' = Without(m)
  BY DEF Edit, serverVars
<1>2. Calm
  BY <1>1, SameCallsCalm DEF QuietInv
<1>3. \A a \in Agents : Len(bubbles'[a]) <= Len(bubbles[a])
  BY <1>1, LenProperties DEF TypeOK
<1>4. \A a \in Agents : queue'[a] # <<>> => queue[a] # <<>> \/ streaming[a]
  BY <1>1, WithoutFrom
<1> QED
  BY <1>1, <1>2, <1>3, <1>4, CalmQuiet

\* Nothing of a turn changes.
LEMMA StillQuiet ==
  ASSUME IInv, IInv', QuietInv,
         UNCHANGED <<pend, run, wire, accepted, owner, streaming, stranded, bubbles, calls, queue>>
  PROVE  QuietInv'
<1> USE DEF IInv
<1>1. Calm
  BY SameCallsCalm DEF QuietInv
<1>2. \A a \in Agents : Len(bubbles'[a]) <= Len(bubbles[a])
  BY LenProperties DEF TypeOK
<1> QED
  BY <1>1, <1>2, CalmQuiet

LEMMA StopQuiet ==
  ASSUME IInv, IInv', QuietInv, Stop PROVE QuietInv'
<1> USE DEF IInv
<1> DEFINE hit == owner # None /\ calls[owner].agent = tabAgent
           r == [calls[owner] EXCEPT !.aborted = TRUE]
<1>1. /\ UNCHANGED <<pend, run, wire, accepted, owner, queue>>
      /\ stranded \subseteq stranded'
      /\ streaming' = [streaming EXCEPT ![tabAgent] = FALSE]
      /\ bubbles' = [bubbles EXCEPT ![tabAgent] = <<>>]
  BY DEF Stop, serverVars
<1>2. TypeOK /\ Reached
  BY DEF QuietInv
<1>3. Calm
  <2>1. CASE hit
    <3>1. /\ owner \in Calls /\ calls[owner].stage \in {"native", "cli", "reading"}
          /\ calls[owner] \in SentCalls
      BY <2>1, CallByStage DEF TypeOK, OwnerInFlight, InStage
    <3>2. /\ r.stage = calls[owner].stage /\ r.agent = calls[owner].agent
          /\ calls' = [calls EXCEPT ![owner] = r]
      BY <2>1, <3>1, SentCallSteps DEF Stop
    <3> HIDE DEF r
    <3>3. r.stage = "reading" => owner \in accepted
      BY <1>2, <3>1, <3>2 DEF Reached
    <3> QED
      BY <1>1, <1>2, <3>1, <3>2, <3>3, OneCallCalm
  <2>2. CASE ~hit
    BY <1>1, <1>2, <2>2, SameCallsCalm DEF Stop
  <2> QED
    BY <2>1, <2>2
<1>4. \A a \in Agents : Len(bubbles'[a]) <= Len(bubbles[a])
  <2>1. \A a \in Agents : Len(bubbles[a]) \in Nat /\ Len(<<>>) = 0
    BY <1>2, LenProperties DEF TypeOK
  <2> QED
    BY <1>1, <1>2, <2>1 DEF TypeOK
<1>5. \A a \in Agents : streaming'[a] => streaming[a]
  BY <1>1, <1>2 DEF TypeOK
<1> QED
  BY <1>1, <1>3, <1>4, <1>5, CalmQuiet

LEMMA SteerQuiet ==
  ASSUME IInv, IInv', QuietInv, NEW c \in Calls, Steer(c) PROVE QuietInv'
<1> USE DEF IInv
<1>1. /\ UNCHANGED <<pend, run, wire, accepted, owner, streaming, stranded, bubbles>>
      /\ queue' = DequeueHead(c)
      /\ calls' = [calls EXCEPT ![c] = Sent(c)]
      /\ calls[c].stage = "preparing" /\ calls[c].kind = "steer"
      /\ Sent(c).stage = "steer"
  BY DEF Steer, serverVars, Sent
<1>2. TypeOK /\ Reached
  BY DEF QuietInv
<1>3. Calm
  BY <1>1, <1>2, OneCallCalm
<1>4. \A a \in Agents : queue'[a] # <<>> => queue[a] # <<>>
  BY <1>1, <1>2 DEF DequeueHead, TypeOK
<1>5. \A a \in Agents : Len(bubbles'[a]) <= Len(bubbles[a])
  BY <1>1, <1>2, LenProperties DEF TypeOK
<1> QED
  BY <1>1, <1>3, <1>4, <1>5, CalmQuiet

\* The answer to a request, and the end of a steer.
LEMMA AnswerQuiet ==
  ASSUME IInv, IInv', QuietInv, NEW c \in Calls,
         PostAnswered(c) \/ SteerEnds(c) \/ CliAnswered(c)
  PROVE  QuietInv'
<1> USE DEF IInv
<1>1. /\ UNCHANGED <<pend, run, wire, accepted, streaming, stranded, bubbles, queue>>
      /\ calls[c].stage \in {"native", "cli", "steer"}
      /\ owner' = owner \/ (owner = c /\ c \in accepted)
  BY DEF PostAnswered, SteerEnds, CliAnswered, CallRest, serverVars
<1>2. TypeOK /\ Reached
  BY DEF QuietInv
<1>3. Calm
  <2>1. CASE PostAnswered(c) \/ SteerEnds(c)
    <3>1. /\ calls' = [calls EXCEPT ![c] = Over(c)] /\ Over(c).stage = "over"
          /\ c \in accepted \/ calls[c].stage \notin {"native", "cli"}
      BY <2>1 DEF PostAnswered, SteerEnds, Over
    <3> QED
      BY <1>1, <1>2, <3>1, OneCallCalm
  <2>2. CASE CliAnswered(c)
    <3> DEFINE r == [calls[c] EXCEPT !.stage = "reading"]
    <3>1. r.stage = "reading" /\ calls' = [calls EXCEPT ![c] = r] /\ c \in accepted
      BY <1>1, <1>2, <2>2, CallByStage, SentCallSteps DEF CliAnswered
    <3> HIDE DEF r
    <3> QED
      BY <1>1, <1>2, <3>1, OneCallCalm
  <2> QED
    BY <2>1, <2>2
<1>4. \A a \in Agents : owner # None /\ owner \in Asking(a) => owner' = owner
  BY <1>1 DEF Asking
<1>5. \A a \in Agents : Len(bubbles'[a]) <= Len(bubbles[a])
  BY <1>1, <1>2, LenProperties DEF TypeOK
<1> QED
  BY <1>1, <1>3, <1>4, <1>5, CalmQuiet

LEMMA SettleShorter ==
  ASSUME TypeOK, NEW c \in Calls, SettleBubble(c)
  PROVE  \A a \in Agents : Len(bubbles'[a]) <= Len(bubbles[a])
<1> DEFINE b == calls[c].agent
<1>1. \A a \in Agents : /\ Len(RemoveFirst(bubbles[a], c)) <= Len(bubbles[a])
                        /\ Len(bubbles[a]) \in Nat
  BY RemoveFirstShorter, LenProperties DEF TypeOK
<1>2. bubbles' = [bubbles EXCEPT ![b] = RemoveFirst(bubbles[b], c)]
  BY DEF SettleBubble, Settled
<1> HIDE DEF b
<1>3. \A a \in Agents : bubbles'[a] = bubbles[a] \/ bubbles'[a] = RemoveFirst(bubbles[a], c)
  BY <1>2 DEF TypeOK
<1> QED
  BY <1>1, <1>3

LEMMA CliEndsQuiet ==
  ASSUME IInv, IInv', QuietInv, NEW c \in Calls, CliEnds(c) PROVE QuietInv'
<1> USE DEF IInv
<1>1. /\ UNCHANGED <<pend, run, wire, accepted, stranded, queue>>
      /\ calls[c].stage = "reading"
      /\ owner' = owner \/ owner = c
      /\ calls' = [calls EXCEPT ![c] = Over(c)] /\ Over(c).stage = "over"
      /\ SettleBubble(c)
  BY DEF CliEnds, FinishTurn, CallRest, serverVars, Over
<1>2. TypeOK /\ Reached /\ c \in accepted
  BY <1>1 DEF QuietInv, Reached
<1>3. Calm
  BY <1>1, <1>2, OneCallCalm
<1>4. \A a \in Agents : owner # None /\ owner \in Asking(a) => owner' = owner
  BY <1>1, <1>2 DEF Asking
<1>5. \A a \in Agents : Len(bubbles'[a]) <= Len(bubbles[a])
  BY <1>1, <1>2, SettleShorter
<1>6. \A a \in Agents : streaming'[a] => streaming[a]
  BY <1>2 DEF CliEnds, FinishTurn, TypeOK
<1> QED
  BY <1>1, <1>3, <1>4, <1>5, <1>6, CalmQuiet

\* A call is over before the server accepted it: it is doomed, and its agent stranded.
LEMMA PreparationFailsQuiet ==
  ASSUME IInv, IInv', QuietInv, NEW c \in Calls, PreparationFails(c) PROVE QuietInv'
<1> USE DEF IInv
<1>1. /\ UNCHANGED <<pend, run, wire, accepted, owner, streaming, bubbles, queue>>
      /\ calls[c].stage = "preparing"
      /\ stranded' = stranded \cup {calls[c].agent}
      /\ calls' = [calls EXCEPT ![c] = Over(c)] /\ Over(c).stage = "over"
  BY DEF PreparationFails, serverVars, Over
<1>2. TypeOK /\ Reached /\ c \notin accepted
  BY <1>1 DEF QuietInv, Reached
<1>3. /\ calls'[c] = Over(c) /\ \A d \in Calls \ {c} : calls'[d] = calls[d]
      /\ accepted \subseteq Calls
  BY <1>1, <1>2 DEF TypeOK
<1>4. Doomed'
  BY <1>1, <1>2, <1>3 DEF Doomed
<1>5. \A a \in Agents : Asking(a)' = Asking(a)
  BY <1>1, <1>3 DEF Asking, InStage
<1>6. \A a \in Agents \ stranded' : Flushing(a) \subseteq Flushing(a)'
  BY <1>1, <1>3 DEF Flushing, InStage
<1>7. /\ \A d \in accepted : calls'[d].stage \notin {"unused", "preparing"}
      /\ \A d \in Calls : calls'[d].stage = "reading" => d \in accepted
  BY <1>1, <1>2, <1>3 DEF Reached
<1>8. \A a \in Agents : Len(bubbles[a]) \in Nat /\ Len(bubbles'[a]) \in Nat
  BY <1>1, <1>2, LenProperties DEF TypeOK
<1> QED
  BY <1>1, <1>4, <1>5, <1>6, <1>7, <1>8, PageQuiet

LEMMA GiveUpQuiet ==
  ASSUME IInv, IInv', QuietInv, NEW c \in Calls,
         PostFails(c) \/ CliFails(c) \/ CliBreaks(c)
  PROVE  QuietInv'
<1> USE DEF IInv
<1>1. /\ UNCHANGED <<pend, run, wire, accepted, queue>>
      /\ calls[c].stage \in {"native", "cli", "reading"}
      /\ stranded' = stranded \cup {calls[c].agent}
      /\ calls' = [calls EXCEPT ![c] = Over(c)] /\ Over(c).stage = "over"
      /\ owner' = IF owner = c THEN None ELSE owner
      /\ streaming' = IF owner = c THEN [streaming EXCEPT ![calls[c].agent] = FALSE]
                      ELSE streaming
      /\ SettleBubble(c)
  BY DEF PostFails, CliFails, CliBreaks, GiveUp, FinishTurn, CallRest, serverVars, Over
<1>2. TypeOK /\ Reached
  BY DEF QuietInv
<1>3. /\ calls'[c] = Over(c) /\ \A d \in Calls \ {c} : calls'[d] = calls[d]
      /\ accepted \subseteq Calls
  BY <1>1, <1>2 DEF TypeOK
<1>4. Doomed => Doomed'
  BY <1>1, <1>3 DEF Doomed
<1>5. c \notin accepted => Doomed'
  BY <1>1, <1>3 DEF Doomed
<1>6. \A a \in Agents : /\ Asking(a)' \subseteq Asking(a)
                        /\ Asking(a) \subseteq Asking(a)' \cup {c}
                        /\ c \in accepted \/ a # calls[c].agent => c \notin Asking(a)
  BY <1>1, <1>3 DEF Asking, InStage
<1>7. \A a \in Agents : Flushing(a) \subseteq Flushing(a)'
  BY <1>1, <1>3 DEF Flushing, InStage
<1>8. /\ \A d \in accepted : calls'[d].stage \notin {"unused", "preparing"}
      /\ \A d \in Calls : calls'[d].stage = "reading" => d \in accepted
  BY <1>1, <1>2, <1>3 DEF Reached
<1>9. \A a \in Agents : Len(bubbles'[a]) <= Len(bubbles[a])
  BY <1>1, <1>2, SettleShorter
<1>10. \A a \in Agents : Len(bubbles[a]) \in Nat /\ Len(bubbles'[a]) \in Nat
  <2>1. \A a \in Agents : Len(bubbles[a]) \in Nat
    BY LenProperties DEF TypeOK
  <2>2. \A a \in Agents : Len(bubbles'[a]) \in Nat
    BY LenProperties DEF TypeOK
  <2> QED
    BY <2>1, <2>2
<1>11. \A a \in Agents : streaming'[a] => streaming[a]
  BY <1>1, <1>2 DEF TypeOK
<1>12. ASSUME NEW a \in Agents, streaming'[a], owner # None, owner \in Asking(a)
       PROVE  owner' = owner /\ owner \in Asking(a)'
  <2>1. owner # c
    <3> SUFFICES ASSUME owner = c PROVE FALSE
      OBVIOUS
    <3>1. a = calls[c].agent
      BY <1>6, <1>12
    <3>2. ~streaming'[a]
      BY <1>1, <1>2, <3>1 DEF TypeOK
    <3> QED
      BY <1>12, <3>2
  <2> QED
    BY <1>1, <1>6, <1>12, <2>1
<1>13. \A a \in Agents \ stranded' : /\ queue'[a] # <<>> => queue[a] # <<>> \/ streaming[a]
                                    /\ Asking(a) \cup Flushing(a)
                                         \subseteq Asking(a)' \cup Flushing(a)'
  BY <1>1, <1>6, <1>7
<1>14. \A a \in Agents :
         /\ Asking(a)' \subseteq Asking(a)
         /\ Doomed' \/ (Asking(a)' = Asking(a) /\ Len(bubbles'[a]) <= Len(bubbles[a]))
  BY <1>5, <1>6, <1>9
<1> QED
  BY <1>1, <1>4, <1>8, <1>10, <1>11, <1>12, <1>13, <1>14, PageQuiet

\* A send: its request becomes what its agent waits for, and its bubble is counted.
LEMMA PreparedQuiet ==
  ASSUME IInv, IInv', QuietInv, NEW c \in Calls, Prepared(c) PROVE QuietInv'
<1> USE DEF IInv
<1> DEFINE a == calls[c].agent
           r == [calls[owner] EXCEPT !.aborted = TRUE]
           sent == [calls EXCEPT ![c] = Sent(c)]
<1>1. /\ UNCHANGED <<pend, run, wire, accepted, stranded>>
      /\ queue' = DequeueHead(c) /\ owner' = c
      /\ calls[c].stage = "preparing"
      /\ streaming' = [x \in Agents |->
             x = a \/ (streaming[x] /\ (owner # None => calls[owner].agent # x))]
      /\ bubbles' = [bubbles EXCEPT ![a] = Append(bubbles[a], c)]
  BY DEF Prepared, serverVars
<1>2. TypeOK /\ Reached /\ c \notin accepted
  BY <1>1 DEF QuietInv, Reached
<1>3. /\ Sent(c).stage \in {"native", "cli"} /\ Sent(c).agent = a
      /\ a \in Agents
  BY <1>2, SentType, CallByStage DEF Prepared, PreparingCalls, Sent
<1>4. owner # None => /\ owner \in Calls \ {c}
                      /\ r.stage = calls[owner].stage
                      /\ r.agent = calls[owner].agent
  BY <1>2, CallByStage, SentCallSteps DEF Prepared, TypeOK, OwnerInFlight, InStage
<1>5. /\ calls'[c] = Sent(c)
      /\ owner # None => calls'[owner] = r
      /\ \A d \in Calls \ {c, owner} : calls'[d] = calls[d]
  <2>1. sent[c] = Sent(c) /\ \A d \in Calls \ {c} : sent[d] = calls[d]
    BY <1>2 DEF TypeOK
  <2>2. CASE owner = None
    BY <2>1, <2>2 DEF Prepared
  <2>3. CASE owner # None
    <3>1. calls' = [sent EXCEPT ![owner] = [sent[owner] EXCEPT !.aborted = TRUE]]
      BY <2>3 DEF Prepared
    <3>2. sent[owner] = calls[owner]
      BY <1>4, <2>1, <2>3
    <3>3. calls' = [sent EXCEPT ![owner] = r]
      BY <3>1, <3>2
    <3>4. sent \in [Calls -> CallStates]
      <4>1. Sent(c) \in CallStates
        BY <1>1, <1>2, SentType DEF CallStates
      <4> QED
        BY <1>2, <4>1 DEF TypeOK
    <3> HIDE DEF r, sent
    <3> QED
      BY <1>4, <2>1, <2>3, <3>3, <3>4
  <2> QED
    BY <2>1, <2>2, <2>3
<1> HIDE DEF r, sent
<1>6. \A d \in Calls \ {c} : calls'[d].stage = calls[d].stage
                             /\ calls'[d].agent = calls[d].agent
                             /\ (calls[d].stage = "preparing" => calls'[d] = calls[d])
  <2> SUFFICES ASSUME NEW d \in Calls \ {c}
               PROVE  /\ calls'[d].stage = calls[d].stage
                      /\ calls'[d].agent = calls[d].agent
                      /\ (calls[d].stage = "preparing" => calls'[d] = calls[d])
    OBVIOUS
  <2>1. CASE d = owner /\ owner # None
    <3>1. calls[d].stage # "preparing"
      BY <2>1 DEF OwnerInFlight, InStage
    <3> QED
      BY <1>4, <1>5, <2>1, <3>1
  <2>2. CASE ~(d = owner /\ owner # None)
    <3>1. d # owner
      BY <2>2
    <3> QED
      BY <1>5, <3>1
  <2> QED
    BY <2>1, <2>2
<1>7. PICK b \in Agents : b = a
  BY <1>3
<1>8. /\ Asking(b)' = Asking(b) \cup {c}
      /\ \A x \in Agents \ {b} : Asking(x)' = Asking(x)
      /\ c \notin Asking(b)
  BY <1>1, <1>2, <1>3, <1>5, <1>6, <1>7 DEF Asking, InStage, InFlight
<1>9. \A x \in Agents \ {b} : Flushing(x) \subseteq Flushing(x)'
  BY <1>6, <1>7 DEF Flushing, InStage
<1>10. \A x \in Agents : Turning(x)' = Turning(x)
  BY <1>1 DEF Turning
<1>11. c \notin Turning(b)
  BY <1>2 DEF Reached
<1>12. Reached'
  <2>1. \A d \in accepted : calls'[d].stage \notin {"unused", "preparing"}
    BY <1>2, <1>6 DEF Reached, TypeOK
  <2>2. \A d \in Calls : calls'[d].stage = "reading" => d \in accepted
    BY <1>2, <1>3, <1>5, <1>6 DEF Reached
  <2>3. \A x \in Agents : Turning(x)' \cap Calls \subseteq accepted
    BY <1>2, <1>10 DEF Reached
  <2> QED
    BY <1>1, <2>1, <2>2, <2>3 DEF Reached
<1>13. Followed(wire, run)'
  BY <1>1 DEF QuietInv
<1>14. Busy'
  <2> SUFFICES ASSUME NEW x \in Agents, streaming'[x]
               PROVE  Turning(x)' # {} \/ (owner' # None /\ owner' \in Asking(x)')
    BY DEF Busy
  <2>1. CASE x = b
    <3>1. owner' # None
      BY <1>1
    <3> QED
      BY <1>1, <1>8, <2>1, <3>1
  <2>2. CASE x # b
    <3>1. streaming[x] /\ (owner # None => calls[owner].agent # x)
      BY <1>1, <1>7, <2>2
    <3>2. owner # None => owner \notin Asking(x)
      BY <3>1 DEF Asking
    <3> QED
      BY <1>10, <3>1, <3>2 DEF Busy, QuietInv
  <2> QED
    BY <2>1, <2>2
<1>15. Served'
  <2> SUFFICES ASSUME NEW x \in Agents \ stranded, queue'[x] # <<>>
               PROVE  Ends(x)' \cup Flushing(x)' # {}
    BY <1>1 DEF Served
  <2>1. CASE x = b
    BY <1>8, <2>1 DEF Ends
  <2>2. CASE x # b
    <3>1. queue[x] # <<>>
      BY <1>1, <1>2 DEF DequeueHead, TypeOK
    <3> QED
      BY <1>8, <1>9, <1>10, <2>2, <3>1 DEF Served, QuietInv, Ends
  <2> QED
    BY <2>1, <2>2
<1>16. Doomed => Doomed'
  BY <1>1, <1>2, <1>6 DEF Doomed
<1>17. ASSUME NEW x \in Agents
       PROVE  /\ IsFiniteSet(Ends(x)')
              /\ Doomed' \/ Len(bubbles'[x]) <= Cardinality(Ends(x)')
  <2>1. IsFiniteSet(Ends(x)) /\ (Doomed \/ Len(bubbles[x]) <= Cardinality(Ends(x)))
    BY DEF QuietInv, Even
  <2>2. Len(bubbles[x]) \in Nat
    BY LenProperties DEF TypeOK
  <2>3. CASE x = b
    <3>1. Ends(x)' = Ends(x) \cup {c} /\ c \notin Ends(x)
      BY <1>8, <1>10, <1>11, <2>3 DEF Ends
    <3>2. Len(bubbles'[x]) = Len(bubbles[x]) + 1
      <4>1. bubbles[x] \in Seq(Calls \cup {None})
        BY DEF TypeOK
      <4>2. bubbles'[x] = Append(bubbles[x], c)
        BY <1>1, <1>7, <2>3 DEF TypeOK
      <4>3. c \in Calls \cup {None}
        OBVIOUS
      <4> QED
        BY <4>1, <4>2, <4>3, AppendProperties
    <3>3. /\ IsFiniteSet(Ends(x)') /\ Cardinality(Ends(x)') = Cardinality(Ends(x)) + 1
          /\ Cardinality(Ends(x)) \in Nat
      BY <2>1, <3>1, FS_AddElement, FS_CardinalityType
    <3> QED
      BY <1>16, <2>1, <2>2, <3>2, <3>3
  <2>4. CASE x # b
    <3>1. Ends(x)' = Ends(x)
      BY <1>8, <1>10, <2>4 DEF Ends
    <3>2. bubbles'[x] = bubbles[x]
      BY <1>1, <1>2, <1>7, <2>4 DEF TypeOK
    <3> QED
      BY <1>16, <2>1, <3>1, <3>2
  <2> QED
    BY <2>3, <2>4
<1>18. Even'
  BY <1>17 DEF Even
<1> QED
  BY <1>12, <1>13, <1>14, <1>15, <1>18 DEF QuietInv

-------------------------------------------------------------------------------
\* The frames applied by the page.

\* A frame of a turn lights its agent up: the end of that turn is still to come.
LEMMA OpeningQuiet ==
  ASSUME IInv, IInv', QuietInv, wire # <<>>, wire' = Tail(wire), NEW f, f = Head(wire),
         OnStart(f) \/ OnText(f) \/ OnTool(f),
         UNCHANGED <<pend, run, accepted, owner, queue>>
  PROVE  QuietInv'
<1> USE DEF IInv
<1>1. TypeOK /\ Reached /\ Followed(wire, run)
  BY DEF QuietInv
<1>2. f \in Frames /\ f.kind # "end" /\ UNCHANGED <<calls, stranded>>
  BY <1>1, EndsInTail DEF OnStart, OnText, OnTool, TypeOK
<1>3. PICK b \in Agents : b = f.agent
  BY <1>2 DEF Frames
<1>4. \/ UNCHANGED <<bubbles, streaming>>
      \/ /\ bubbles' = [bubbles EXCEPT ![b] = Ensured(bubbles[b])]
         /\ streaming' = [streaming EXCEPT ![b] = TRUE]
  BY <1>3 DEF OnStart, OnText, OnTool
<1>5. \A a \in Agents : EndsIn(wire', a) = EndsIn(wire, a)
  <2>1. wire \in Seq(Frames)
    BY <1>1 DEF TypeOK
  <2> SUFFICES ASSUME NEW a \in Agents PROVE EndsIn(wire', a) = EndsIn(wire, a)
    OBVIOUS
  <2>2. EndsIn(Tail(wire), a) \subseteq EndsIn(wire, a)
    BY <2>1, EndsInTail
  <2>3. EndsIn(wire, a) \subseteq EndsIn(Tail(wire), a)
    BY <1>2, <2>1, EndsInTail
  <2> QED
    BY <2>2, <2>3
<1>6. \A a \in Agents : /\ Turning(a)' = Turning(a) /\ Asking(a)' = Asking(a)
                        /\ Flushing(a)' = Flushing(a)
  BY <1>2, <1>5 DEF Turning, Asking, Flushing, InStage
<1>7. Turning(b) # {}
  <2>1. run[f.agent] # None \/ EndsIn(wire, f.agent) # {}
    BY <1>1, <1>2, FollowedTail DEF TypeOK
  <2>2. run[b] # None => run[b] \in Turns
    BY <1>1 DEF TypeOK
  <2> QED
    BY <1>3, <2>1, <2>2 DEF Turning
<1>8. Followed(wire, run)'
  <2>1. Followed(Tail(wire), run)
    BY <1>1, FollowedTail DEF TypeOK
  <2> QED
    BY <2>1
<1>9. Reached'
  BY <1>1, <1>2, <1>6 DEF Reached
<1>10. Busy'
  <2>1. \A a \in Agents \ {b} : streaming'[a] = streaming[a]
    BY <1>1, <1>4 DEF TypeOK
  <2>2. Busy
    BY DEF QuietInv
  <2> QED
    BY <1>6, <1>7, <2>1, <2>2 DEF Busy
<1>11. Served'
  BY <1>2, <1>6 DEF QuietInv, Served, Ends
<1>12. ASSUME NEW a \in Agents
       PROVE  /\ IsFiniteSet(Ends(a)')
              /\ Doomed' \/ Len(bubbles'[a]) <= Cardinality(Ends(a)')
  <2>1. Ends(a)' = Ends(a) /\ (Doomed => Doomed')
    BY <1>2, <1>6 DEF Ends, Doomed
  <2>2. IsFiniteSet(Ends(a)) /\ (Doomed \/ Len(bubbles[a]) <= Cardinality(Ends(a)))
    BY DEF QuietInv, Even
  <2>3. CASE bubbles'[a] = bubbles[a]
    BY <2>1, <2>2, <2>3
  <2>4. CASE bubbles'[a] # bubbles[a]
    <3>1. a = b /\ bubbles'[a] = <<None>>
      <4>1. a = b
        BY <1>1, <1>4, <2>4 DEF TypeOK
      <4>2. bubbles'[a] = Ensured(bubbles[a])
        BY <1>1, <1>4, <2>4, <4>1 DEF TypeOK
      <4> QED
        BY <2>4, <4>1, <4>2 DEF Ensured
    <3>2. Cardinality(Ends(a)) \in Nat /\ Cardinality(Ends(a)) # 0
      BY <1>7, <2>2, <3>1, FS_CardinalityType, FS_EmptySet DEF Ends
    <3>3. Len(bubbles'[a]) = 1
      BY <3>1
    <3> QED
      BY <2>1, <2>2, <3>2, <3>3
  <2> QED
    BY <2>3, <2>4
<1>13. Even'
  BY <1>12 DEF Even
<1> QED
  BY <1>8, <1>9, <1>10, <1>11, <1>13 DEF QuietInv

\* The end of a turn: one bubble is closed, and the queue is flushed or stranded.
LEMMA EndFrameQuiet ==
  ASSUME IInv, IInv', QuietInv, wire # <<>>, wire' = Tail(wire), NEW f, f = Head(wire), OnEnd(f),
         UNCHANGED <<pend, run, accepted, owner, queue>>
  PROVE  QuietInv'
<1> USE DEF IInv
<1>1. TypeOK /\ Reached /\ Followed(wire, run)
  BY DEF QuietInv
<1>2. f \in Frames
  BY <1>1, EndsInTail DEF TypeOK
<1>3. PICK b \in Agents : b = f.agent
  BY <1>2 DEF Frames
<1>4. /\ bubbles' = [bubbles EXCEPT ![b] = IF bubbles[b] = <<>> THEN bubbles[b] ELSE Front(bubbles[b])]
      /\ streaming' = [streaming EXCEPT ![b] = FALSE]
      /\ IF f.ok THEN Flush(b) ELSE UNCHANGED <<tabAgent, calls>>
      /\ stranded' = IF FlushGoesOn(f) THEN stranded \ {b} ELSE stranded \cup {b}
  BY <1>3 DEF OnEnd
<1>5. Calm /\ (FlushGoesOn(f) /\ queue[b] # <<>> => Flushing(b)' # {})
  <2>1. CASE f.ok /\ tabAgent = b /\ queue[b] # <<>>
    <3>1. PICK c \in Calls, kind \in Kinds : Start(c, Head(queue[b]), b, kind, b)
      BY <1>4, <2>1 DEF Flush
    <3>2. Head(queue[b]) \in Msgs
      BY <1>1, <2>1, HeadTailProperties DEF TypeOK
    <3>3. kind # "steer"
      OBVIOUS
    <3>4. Calm /\ (Mention[Head(queue[b])] = None => c \in Flushing(b)')
      BY <1>1, <3>1, <3>2, <3>3, StartCalm
    <3> QED
      BY <1>3, <2>1, <3>4 DEF FlushGoesOn
  <2>2. CASE ~(f.ok /\ tabAgent = b /\ queue[b] # <<>>)
    <3>1. UNCHANGED calls
      BY <1>4, <2>2 DEF Flush
    <3>2. ~(FlushGoesOn(f) /\ queue[b] # <<>>)
      BY <1>3, <2>2 DEF FlushGoesOn
    <3> QED
      BY <1>1, <3>1, <3>2, SameCallsCalm
  <2> QED
    BY <2>1, <2>2
<1>6. \A a \in Agents : Asking(a)' = Asking(a) /\ Flushing(a) \subseteq Flushing(a)'
  BY <1>5 DEF Calm
<1>7. /\ \A a \in Agents \ {b} : EndsIn(wire', a) = EndsIn(wire, a)
      /\ EndsIn(wire', b) \subseteq EndsIn(wire, b)
      /\ EndsIn(wire, b) \subseteq EndsIn(wire', b) \cup {f.turn}
  <2>1. wire \in Seq(Frames)
    BY <1>1 DEF TypeOK
  <2>2. /\ \A a \in Agents \ {b} : EndsIn(wire, a) \subseteq EndsIn(Tail(wire), a)
        /\ \A a : EndsIn(Tail(wire), a) \subseteq EndsIn(wire, a)
        /\ EndsIn(wire, b) \subseteq EndsIn(Tail(wire), b) \cup {f.turn}
    BY <1>3, <2>1, EndsInTail
  <2> QED
    BY <2>2
<1>8. /\ \A a \in Agents \ {b} : Turning(a)' = Turning(a)
      /\ Turning(b)' \subseteq Turning(b)
      /\ Turning(b) \subseteq Turning(b)' \cup {f.turn}
  BY <1>7 DEF Turning
<1>9. Reached'
  <2>1. \A a \in Agents : Turning(a)' \subseteq Turning(a)
    BY <1>8
  <2> QED
    BY <1>1, <1>5, <2>1 DEF Reached, Calm
<1>10. Followed(wire, run)'
  <2>1. Followed(Tail(wire), run)
    BY <1>1, FollowedTail DEF TypeOK
  <2> QED
    BY <2>1
<1>11. Busy'
  <2>1. ~streaming'[b] /\ \A a \in Agents \ {b} : streaming'[a] = streaming[a]
    BY <1>1, <1>4 DEF TypeOK
  <2>2. Busy
    BY DEF QuietInv
  <2> QED
    BY <1>6, <1>8, <2>1, <2>2 DEF Busy
<1>12. Served'
  <2> SUFFICES ASSUME NEW a \in Agents \ stranded', queue[a] # <<>>
               PROVE  Ends(a)' \cup Flushing(a)' # {}
    BY DEF Served
  <2>1. CASE a = b
    BY <1>4, <1>5, <2>1
  <2>2. CASE a # b
    <3>1. a \notin stranded
      BY <1>4, <2>2
    <3> QED
      BY <1>6, <1>8, <2>2, <3>1 DEF QuietInv, Served, Ends
  <2> QED
    BY <2>1, <2>2
<1>13. ASSUME NEW a \in Agents
       PROVE  /\ IsFiniteSet(Ends(a)')
              /\ Doomed' \/ Len(bubbles'[a]) <= Cardinality(Ends(a)')
  <2>1. Doomed => Doomed'
    BY <1>5 DEF Calm
  <2>2. IsFiniteSet(Ends(a)) /\ (Doomed \/ Len(bubbles[a]) <= Cardinality(Ends(a)))
    BY DEF QuietInv, Even
  <2>3. CASE a # b
    <3>1. Ends(a)' = Ends(a) /\ bubbles'[a] = bubbles[a]
      BY <1>1, <1>4, <1>6, <1>8, <2>3 DEF Ends, TypeOK
    <3> QED
      BY <2>1, <2>2, <3>1
  <2>4. CASE a = b
    <3>1. Ends(a)' \subseteq Ends(a) \cup {f.turn} /\ Ends(a) \ {f.turn} \subseteq Ends(a)'
      BY <1>6, <1>8, <2>4 DEF Ends
    <3>2. PICK T : T = Ends(a)'
      OBVIOUS
    <3>3. /\ IsFiniteSet(T) /\ Cardinality(T) \in Nat /\ Cardinality(Ends(a)) \in Nat
          /\ Cardinality(Ends(a)) - 1 <= Cardinality(T)
      BY <2>2, <3>1, <3>2, OneMore
    <3>4. Len(bubbles'[a]) \in Nat /\ (Len(bubbles'[a]) = 0 \/ Len(bubbles'[a]) = Len(bubbles[a]) - 1)
      <4>1. bubbles'[a] = IF bubbles[a] = <<>> THEN <<>> ELSE Front(bubbles[a])
        BY <1>1, <1>4, <2>4 DEF TypeOK
      <4>2. Len(bubbles[a]) \in Nat /\ (bubbles[a] # <<>> => Len(bubbles[a]) > 0)
        BY <1>1, LenProperties, EmptySeq DEF TypeOK
      <4>3. bubbles[a] # <<>> => Len(Front(bubbles[a])) = Len(bubbles[a]) - 1
        <5> SUFFICES ASSUME bubbles[a] # <<>> PROVE Len(Front(bubbles[a])) = Len(bubbles[a]) - 1
          OBVIOUS
        <5>1. bubbles[a] \in Seq(Calls \cup {None})
          BY <1>1 DEF TypeOK
        <5>2. \A i \in 1..(Len(bubbles[a]) - 1) : bubbles[a][i] \in Calls \cup {None}
          BY <4>2, <5>1, ElementOfSeq
        <5> QED
          BY <4>2, <5>1, <5>2, SubSeqProperties DEF Front
      <4>4. Len(<<>>) = 0
        OBVIOUS
      <4> QED
        BY <4>1, <4>2, <4>3, <4>4
    <3>5. Len(bubbles[a]) \in Nat
      BY <1>1, LenProperties DEF TypeOK
    <3> QED
      BY <2>1, <2>2, <3>2, <3>3, <3>4, <3>5
  <2> QED
    BY <2>3, <2>4
<1>14. Even'
  BY <1>13 DEF Even
<1> QED
  BY <1>9, <1>10, <1>11, <1>12, <1>14 DEF QuietInv

LEMMA DispatchQuiet == ASSUME IInv, IInv', QuietInv, Dispatch PROVE QuietInv'
<1>1. PICK f : f = Head(wire)
  OBVIOUS
<1>2. /\ wire # <<>> /\ wire' = Tail(wire)
      /\ OnStart(f) \/ OnText(f) \/ OnTool(f) \/ OnEnd(f)
      /\ UNCHANGED <<pend, run, accepted, owner, queue>>
  BY <1>1 DEF Dispatch
<1> QED
  BY <1>1, <1>2, OpeningQuiet, EndFrameQuiet

LEMMA InitQuiet == Init => QuietInv
<1> SUFFICES ASSUME Init PROVE QuietInv
  OBVIOUS
<1>1. \A c \in Calls : calls[c].stage = "unused"
  BY DEF Init, Unused
<1>2. \A a \in Agents : Turning(a) = {} /\ Asking(a) = {}
  <2>1. \A a \in Agents : pend[a] = <<>> /\ run[a] = None
    BY DEF Init
  <2>2. Len(<<>>) = 0 /\ wire = <<>>
    BY DEF Init
  <2>3. \A a \in Agents : EndsIn(wire, a) = {}
    BY <2>2 DEF EndsIn
  <2>4. \A a \in Agents : TurnsIn(pend[a]) = {}
    BY <2>1, <2>2 DEF TurnsIn
  <2> QED
    BY <1>1, <2>1, <2>3, <2>4, NothingIsNoTurn DEF Turning, Asking, InStage
<1>3. Reached
  BY <1>1, <1>2 DEF Init, Reached
<1>4. Followed(wire, run)
  BY DEF Init, Followed
<1>5. Busy /\ Served
  BY DEF Init, Busy, Served
<1>6. Even
  <2>1. \A a \in Agents : Ends(a) = {} /\ bubbles[a] = <<>>
    BY <1>2 DEF Init, Ends
  <2>2. Len(<<>>) = 0
    OBVIOUS
  <2>3. IsFiniteSet({}) /\ Cardinality({}) = 0
    BY FS_EmptySet
  <2>4. \A a \in Agents : /\ IsFiniteSet(Ends(a)) /\ Cardinality(Ends(a)) = 0
                          /\ Len(bubbles[a]) = 0
    BY <2>1, <2>2, <2>3
  <2> QED
    BY <2>4 DEF Even
<1> QED
  BY <1>3, <1>4, <1>5, <1>6 DEF QuietInv

LEMMA NextQuiet == IInv /\ IInv' /\ QuietInv /\ [Next]_vars => QuietInv'
<1> SUFFICES ASSUME IInv, IInv', QuietInv, [Next]_vars PROVE QuietInv'
  OBVIOUS
<1>1. CASE UNCHANGED vars \/ \E a \in Agents : SwitchAgent(a)
  BY <1>1, StillQuiet DEF vars, SwitchAgent, serverVars
<1>2. CASE \/ \E m \in Msgs : Submit(m) \/ SendNow(m) \/ Edit(m)
           \/ Stop
  BY <1>2, SubmitQuiet, SendNowQuiet, EditQuiet, StopQuiet
<1>3. CASE \E c \in Calls : \/ PreparationFails(c) \/ Steer(c) \/ Prepared(c)
                           \/ PostAnswered(c) \/ PostFails(c) \/ SteerEnds(c)
                           \/ CliFails(c) \/ CliAnswered(c) \/ CliBreaks(c)
                           \/ CliEnds(c)
  BY <1>3, PreparationFailsQuiet, SteerQuiet, PreparedQuiet, AnswerQuiet, GiveUpQuiet,
     CliEndsQuiet
<1>4. CASE \/ \E c \in Calls : Accept(c)
           \/ \E a \in Agents, f \in Foreign : ForeignTurn(a, f)
           \/ \E a \in Agents : TurnBegins(a)
           \/ \E a \in Agents, kind \in {"text", "tool"} : TurnSpeaks(a, kind)
           \/ \E a \in Agents, ok \in BOOLEAN : TurnEnds(a, ok)
  BY <1>4, AcceptQuiet, ForeignTurnQuiet, TurnBeginsQuiet, TurnSpeaksQuiet, TurnEndsQuiet
<1> QED
  BY <1>1, <1>2, <1>3, <1>4, DispatchQuiet DEF Next

\* What keeps an agent busy, in every reachable state.
THEOREM BusyForAReason == Spec => []QuietInv
BY Inductive, InitQuiet, NextQuiet, PTL DEF Spec

\* When every request is answered and every frame applied nothing is to come.
LEMMA QuietIsEmpty ==
  ASSUME IInv, Quiet, NEW a \in Agents
  PROVE  Turning(a) = {} /\ Asking(a) = {} /\ Flushing(a) = {}
<1>1. \A c \in Calls : calls[c] = Unused \/ calls[c].stage = "over"
  BY DEF Quiet, Started
<1>2. \A c \in Calls : calls[c].stage \in {"unused", "over"}
  BY <1>1 DEF Unused
<1>3. pend[a] = <<>> /\ run[a] = None /\ wire = <<>> /\ Len(<<>>) = 0
  BY DEF Quiet
<1> QED
  BY <1>2, <1>3, NothingIsNoTurn DEF Turning, Asking, Flushing, InStage, TurnsIn, EndsIn

\* However requests are answered, fail or are stopped and whatever turn ends first,
\* when all is quiet no agent looks busy and, when no send was lost, no bubble streams.
THEOREM SettlesInTheEnd == Spec => []QuietMeansSettled
<1>1. IInv /\ QuietInv => QuietMeansSettled
  <2> SUFFICES ASSUME IInv, QuietInv, Quiet, NEW a \in Agents
               PROVE  Idle(a) /\ (Started \subseteq accepted => bubbles[a] = <<>>)
    BY DEF QuietMeansSettled
  <2>1. Turning(a) = {} /\ Asking(a) = {}
    BY QuietIsEmpty
  <2>2. Idle(a)
    BY <2>1 DEF QuietInv, Busy, Idle
  <2>3. ASSUME Started \subseteq accepted PROVE bubbles[a] = <<>>
    <3>1. ~Doomed
      BY <2>3 DEF Doomed, Started, Unused
    <3>2. Ends(a) = {}
      BY <2>1 DEF Ends
    <3>3. Len(bubbles[a]) <= 0
      BY <3>1, <3>2, FS_EmptySet DEF QuietInv, Even
    <3>4. bubbles[a] \in Seq(Calls \cup {None})
      BY DEF IInv, TypeOK
    <3> QED
      BY <3>3, <3>4, LenProperties, EmptySeq
  <2> QED
    BY <2>2, <2>3
<1> QED
  BY <1>1, Inductive, BusyForAReason, PTL

-------------------------------------------------------------------------------
\* Where a message is.  Without a registered preparation it is in one place: not typed
\* yet, an entry of one queue, or the message of one call, which holds the head of a
\* queue while it prepares the flush of that queue.

Begun == {c \in Calls : calls[c].stage # "unused"}

\* A message is in no queue; no message is in two places of the queues.
Off(q, m) == \A a \in Agents : \A i \in 1..Len(q[a]) : q[a][i] # m
Apart(q) == \A a, b \in Agents : \A i \in 1..Len(q[a]), j \in 1..Len(q[b]) :
              q[a][i] = q[b][j] => a = b /\ i = j

Placed ==
  /\ \A c, d \in InStage({"preparing"}) : c = d
  /\ \A c, d \in Begun : calls[c].msg = calls[d].msg => c = d
  /\ \A c \in Begun : calls[c].msg \notin unsent
  /\ \A m \in unsent : Off(queue, m)
  /\ Apart(queue)
  /\ \A c \in Begun : calls[c].stage # "preparing" => Off(queue, calls[c].msg)
  /\ \A c \in InStage({"preparing"}), a \in Agents : \A i \in 1..Len(queue[a]) :
       queue[a][i] = calls[c].msg => calls[c].from = a /\ i = 1

PlacedInv == ~prepares => Placed

\* One entry of a sequence is gone, or none.
Cut(s, r) == \/ r = s
             \/ \E k \in 1..Len(s) :
                  /\ Len(r) = Len(s) - 1
                  /\ \A i \in 1..Len(r) : r[i] = IF i < k THEN s[i] ELSE s[i + 1]

LEMMA CutFrom ==
  ASSUME NEW s \in Seq(Msgs), NEW r \in Seq(Msgs), Cut(s, r), NEW i \in 1..Len(r)
  PROVE  \E p \in 1..Len(s) : r[i] = s[p]
<1>1. Len(s) \in Nat /\ Len(r) \in Nat
  BY LenProperties
<1>2. CASE r = s
  BY <1>2
<1>3. CASE r # s
  <2>1. PICK k \in 1..Len(s) : Len(r) = Len(s) - 1 /\ r[i] = IF i < k THEN s[i] ELSE s[i + 1]
    BY <1>3 DEF Cut
  <2>2. i \in 1..Len(s) /\ i + 1 \in 1..Len(s)
    BY <1>1, <2>1
  <2> QED
    BY <2>1, <2>2
<1> QED
  BY <1>2, <1>3

LEMMA CutApart ==
  ASSUME NEW s \in Seq(Msgs), NEW r \in Seq(Msgs), Cut(s, r),
         NEW i \in 1..Len(r), NEW j \in 1..Len(r), i # j
  PROVE  \E x, y \in 1..Len(s) : x # y /\ r[i] = s[x] /\ r[j] = s[y]
<1>1. Len(s) \in Nat /\ Len(r) \in Nat
  BY LenProperties
<1>2. CASE r = s
  BY <1>2
<1>3. CASE r # s
  <2>1. PICK k \in 1..Len(s) :
          /\ Len(r) = Len(s) - 1
          /\ \A n \in 1..Len(r) : r[n] = IF n < k THEN s[n] ELSE s[n + 1]
    BY <1>3 DEF Cut
  <2> DEFINE g(n) == IF n < k THEN n ELSE n + 1
  <2>2. \A n \in 1..Len(r) : g(n) \in 1..Len(s) /\ r[n] = s[g(n)]
    BY <1>1, <2>1
  <2>3. g(i) # g(j)
    BY <1>1, <2>1
  <2> HIDE DEF g
  <2> QED
    BY <2>2, <2>3
<1> QED
  BY <1>2, <1>3

\* Queues from which entries are taken stay apart, and gain nothing.
LEMMA CutQueues ==
  ASSUME NEW q \in [Agents -> Seq(Msgs)], NEW r \in [Agents -> Seq(Msgs)],
         \A a \in Agents : Cut(q[a], r[a])
  PROVE  /\ Apart(q) => Apart(r)
         /\ \A m : Off(q, m) => Off(r, m)
<1>1. ASSUME NEW a \in Agents, NEW i \in 1..Len(r[a])
      PROVE  \E p \in 1..Len(q[a]) : r[a][i] = q[a][p]
  BY CutFrom
<1>2. ASSUME Apart(q), NEW a \in Agents, NEW b \in Agents,
             NEW i \in 1..Len(r[a]), NEW j \in 1..Len(r[b]), r[a][i] = r[b][j]
      PROVE  a = b /\ i = j
  <2>1. PICK p \in 1..Len(q[a]) : r[a][i] = q[a][p]
    BY <1>1
  <2>2. PICK t \in 1..Len(q[b]) : r[b][j] = q[b][t]
    BY <1>1
  <2>3. a = b
    <3>1. q[a][p] = q[b][t] /\ \A x, y \in Agents : \A k \in 1..Len(q[x]), l \in 1..Len(q[y]) :
            q[x][k] = q[y][l] => x = y
      BY <1>2, <2>1, <2>2, Zenon DEF Apart
    <3> QED
      BY <2>1, <2>2, <3>1, Zenon
  <2>4. i = j
    <3> SUFFICES ASSUME i # j PROVE FALSE
      OBVIOUS
    <3>1. q[a] \in Seq(Msgs) /\ r[a] \in Seq(Msgs) /\ Cut(q[a], r[a]) /\ j \in 1..Len(r[a])
      BY <2>3
    <3>2. PICK u \in Seq(Msgs), v \in Seq(Msgs) : u = q[a] /\ v = r[a]
      BY <3>1
    <3>3. Cut(u, v) /\ i \in 1..Len(v) /\ j \in 1..Len(v)
      BY <3>1, <3>2
    <3>4. PICK x, y \in 1..Len(u) : x # y /\ v[i] = u[x] /\ v[j] = u[y]
      BY <3>3, CutApart
    <3> QED
      BY <1>2, <2>3, <3>2, <3>4 DEF Apart
  <2> QED
    BY <2>3, <2>4
<1>3. ASSUME NEW m, Off(q, m) PROVE Off(r, m)
  <2> SUFFICES ASSUME NEW a \in Agents, NEW i \in 1..Len(r[a]) PROVE r[a][i] # m
    BY DEF Off
  <2>1. PICK p \in 1..Len(q[a]) : r[a][i] = q[a][p]
    BY <1>1
  <2> QED
    BY <1>3, <2>1 DEF Off
<1>4. Apart(q) => Apart(r)
  BY <1>2 DEF Apart
<1> QED
  BY <1>3, <1>4

LEMMA WithoutCut ==
  ASSUME TypeOK, NEW m, Apart(queue), m \in ToSet(queue[tabAgent])
  PROVE  /\ \A a \in Agents : Cut(queue[a], Without(m)[a])
         /\ Off(Without(m), m)
<1>1. PICK s \in Seq(Msgs) : s = queue[tabAgent] /\ tabAgent \in Agents
  BY DEF TypeOK
<1>2. PICK r : r = RemoveFirst(s, m)
  OBVIOUS
<1>3. /\ Without(m)[tabAgent] = r
      /\ \A a \in Agents \ {tabAgent} : Without(m)[a] = queue[a]
  BY <1>1, <1>2 DEF Without, TypeOK
<1>4. PICK x \in 1..Len(s) : s[x] = m
  BY <1>1 DEF ToSet
<1>5. PICK k \in 1..Len(s) :
        /\ s[k] = m /\ Len(r) = Len(s) - 1
        /\ \A i \in 1..Len(r) : r[i] = IF i < k THEN s[i] ELSE s[i + 1]
  <2>1. ~(\A i \in 1..Len(s) : s[i] # m)
    BY <1>4
  <2> QED
    <3>1. Loses(s, m, r)
      BY <1>2, RemoveFirstLooks
    <3> QED
      BY <2>1, <3>1 DEF Loses
<1>6. \A a \in Agents : Cut(queue[a], Without(m)[a])
  <2>1. Cut(s, r)
    BY <1>5 DEF Cut
  <2>2. \A a \in Agents : Cut(queue[a], queue[a])
    BY DEF Cut
  <2> QED
    BY <1>1, <1>3, <2>1, <2>2
<1>7. ASSUME NEW a \in Agents, NEW i \in 1..Len(Without(m)[a])
      PROVE  Without(m)[a][i] # m
  <2>1. CASE a = tabAgent
    <3>1. Len(s) \in Nat
      BY <1>1, LenProperties
    <3>2. i \in 1..Len(r)
      BY <1>3, <2>1
    <3>3. \E p \in 1..Len(s) : p # k /\ r[i] = s[p]
      <4>1. CASE i < k
        BY <1>5, <3>1, <3>2, <4>1
      <4>2. CASE ~(i < k)
        <5>1. i + 1 \in 1..Len(s) /\ i + 1 # k
          BY <1>5, <3>1, <3>2, <4>2
        <5> QED
          BY <1>5, <3>2, <4>2, <5>1
      <4> QED
        BY <4>1, <4>2
    <3> QED
      BY <1>1, <1>3, <1>5, <2>1, <3>3 DEF Apart
  <2>2. CASE a # tabAgent
    <3>1. Without(m)[a] = queue[a]
      BY <1>3, <2>2
    <3> QED
      BY <1>1, <1>4, <2>2, <3>1 DEF Apart
  <2> QED
    BY <2>1, <2>2
<1>8. Off(Without(m), m)
  BY <1>7 DEF Off
<1> QED
  BY <1>6, <1>8

\* The accepted flush leaves its message nowhere in the queues.
LEMMA DequeueCut ==
  ASSUME TypeOK, Placed, NEW c \in Calls, calls[c].stage = "preparing"
  PROVE  /\ \A a \in Agents : Cut(queue[a], DequeueHead(c)[a])
         /\ Off(DequeueHead(c), calls[c].msg)
<1> DEFINE b == calls[c].from
           hit == b # None /\ queue[b] # <<>> /\ Head(queue[b]) = calls[c].msg
<1>1. calls[c] \in PreparingCalls /\ c \in InStage({"preparing"})
  BY CallByStage DEF InStage
<1>2. b \in Agents \cup {None}
  BY <1>1 DEF PreparingCalls
<1>3. \A a \in Agents : \A i \in 1..Len(queue[a]) : queue[a][i] = calls[c].msg => b = a /\ i = 1
  BY <1>1 DEF Placed
<1>4. CASE hit
  <2>1. b \in Agents
    BY <1>2, <1>4
  <2>2. PICK s \in Seq(Msgs) : s = queue[b]
    BY <2>1 DEF TypeOK
  <2>3. PICK r : r = Tail(s)
    OBVIOUS
  <2>4. /\ Len(s) \in Nat /\ Len(s) >= 1 /\ Len(r) = Len(s) - 1
        /\ \A i \in 1..Len(r) : r[i] = s[i + 1]
    BY <1>4, <2>2, <2>3, HeadTailProperties, LenProperties, EmptySeq
  <2>5. DequeueHead(c)[b] = r /\ \A a \in Agents \ {b} : DequeueHead(c)[a] = queue[a]
    BY <1>4, <2>1, <2>2, <2>3 DEF DequeueHead, TypeOK
  <2>6. Cut(s, r)
    <3>1. 1 \in 1..Len(s) /\ \A i \in 1..Len(r) : ~(i < 1)
      BY <2>4
    <3> QED
      BY <2>4, <3>1 DEF Cut
  <2>7. \A a \in Agents : Cut(queue[a], DequeueHead(c)[a])
    <3>1. \A a \in Agents : Cut(queue[a], queue[a])
      BY DEF Cut
    <3> QED
      BY <2>2, <2>5, <2>6, <3>1
  <2>8. ASSUME NEW a \in Agents, NEW i \in 1..Len(DequeueHead(c)[a])
        PROVE  DequeueHead(c)[a][i] # calls[c].msg
    <3>1. CASE a = b
      <4>1. i \in 1..Len(r) /\ DequeueHead(c)[a][i] = s[i + 1]
        BY <2>4, <2>5, <3>1
      <4>2. i + 1 \in 1..Len(s) /\ i + 1 # 1
        BY <2>4, <4>1
      <4> QED
        BY <1>3, <2>1, <2>2, <4>1, <4>2
    <3>2. CASE a # b
      BY <1>3, <2>5, <3>2
    <3> QED
      BY <3>1, <3>2
  <2> QED
    BY <2>7, <2>8 DEF Off
<1>5. CASE ~hit
  <2>1. DequeueHead(c) = queue
    BY <1>5 DEF DequeueHead
  <2>2. ASSUME NEW a \in Agents, NEW i \in 1..Len(queue[a]), queue[a][i] = calls[c].msg
        PROVE  FALSE
    <3>1. b = a /\ i = 1
      BY <1>3, <2>2
    <3>2. queue[a] \in Seq(Msgs)
      BY DEF TypeOK
    <3>3. queue[a] # <<>> /\ Head(queue[a]) = queue[a][1]
      <4>1. Len(queue[a]) # 0
        BY <2>2, <3>1, <3>2, LenProperties
      <4> QED
        BY <3>2, <4>1, EmptySeq, HeadTailProperties
    <3>4. b # None
      BY <3>1
    <3> QED
      BY <1>5, <2>2, <3>1, <3>3, <3>4
  <2> QED
    BY <2>1, <2>2 DEF Cut, Off
<1> QED
  BY <1>4, <1>5

\* A call that had begun keeps its message, and no call begins.
LEMMA KeepPlaced ==
  ASSUME Placed, UNCHANGED <<queue, unsent>>,
         \A d \in Calls : \/ calls'[d] = calls[d]
                         \/ /\ calls[d].stage \notin {"unused", "preparing"}
                            /\ calls'[d].stage \notin {"unused", "preparing"}
                            /\ calls'[d].msg = calls[d].msg
  PROVE  Placed'
<1>1. /\ Begun' = Begun /\ InStage({"preparing"})' = InStage({"preparing"})
      /\ \A d \in Begun : calls'[d].msg = calls[d].msg
      /\ \A d \in InStage({"preparing"}) : calls'[d] = calls[d]
      /\ \A d \in Begun : calls'[d].stage # "preparing" => calls[d].stage # "preparing"
  BY DEF Begun, InStage
<1>2. /\ \A m \in unsent' : Off(queue, m)'
      /\ Apart(queue)'
      /\ \A d \in Begun : calls'[d].stage # "preparing" => Off(queue', calls'[d].msg)
  BY <1>1 DEF Placed
<1> QED
  BY <1>1, <1>2 DEF Placed

\* The only call that prepares is sent: its message leaves the queues.
LEMMA SendPlaced ==
  ASSUME TypeOK, TypeOK', Placed, unsent' = unsent, NEW c \in Calls, calls[c].stage = "preparing",
         queue' = DequeueHead(c), calls'[c].stage \notin {"unused", "preparing"},
         calls'[c].msg = calls[c].msg,
         \A d \in Calls \ {c} : /\ calls'[d].stage = calls[d].stage
                                /\ calls'[d].msg = calls[d].msg
  PROVE  Placed'
<1>1. /\ Begun' = Begun /\ c \in Begun /\ InStage({"preparing"})' = {}
      /\ \A d \in Begun : calls'[d].msg = calls[d].msg
  BY DEF Begun, InStage, Placed
<1>2. queue \in [Agents -> Seq(Msgs)] /\ queue' \in [Agents -> Seq(Msgs)]
  BY DEF TypeOK
<1>3. (\A a \in Agents : Cut(queue[a], queue'[a])) /\ Off(queue', calls[c].msg)
  BY DequeueCut
<1>4. Apart(queue') /\ \A m : Off(queue, m) => Off(queue', m)
  BY <1>2, <1>3, CutQueues DEF Placed
<1>5. \A d \in Begun : Off(queue', calls'[d].msg)
  <2> SUFFICES ASSUME NEW d \in Begun PROVE Off(queue', calls[d].msg)
    BY <1>1
  <2>1. CASE d = c
    BY <1>3, <2>1
  <2>2. CASE d # c
    <3>1. calls[d].stage # "preparing"
      BY <2>2 DEF Placed, InStage, Begun
    <3> QED
      BY <1>4, <3>1 DEF Placed
  <2> QED
    BY <2>1, <2>2
<1>6. \A m \in unsent' : Off(queue', m)
  BY <1>4 DEF Placed
<1> QED
  BY <1>1, <1>4, <1>5, <1>6 DEF Placed

\* A call begins while none prepares, with a message no call has.
LEMMA StartPlaced ==
  ASSUME TypeOK, Placed, InStage({"preparing"}) = {},
         NEW c \in Calls, NEW m \in Msgs, NEW target, NEW kind, NEW from,
         Start(c, m, target, kind, from),
         unsent' \subseteq unsent, m \notin unsent',
         \A d \in Begun : calls[d].msg # m,
         Apart(queue'), \A x : Off(queue, x) => Off(queue', x),
         \A a \in Agents : \A i \in 1..Len(queue'[a]) : queue'[a][i] = m => from = a /\ i = 1
  PROVE  Placed'
<1> DEFINE r == [stage |-> "preparing", msg |-> m, kind |-> kind, from |-> from,
                 agent |-> IF Mention[m] = None THEN target ELSE Mention[m]]
<1>1. /\ r.stage = "preparing" /\ r.msg = m /\ r.from = from
      /\ calls' = [calls EXCEPT ![c] = r]
      /\ calls[c].stage = "unused"
  BY DEF Start, Unused
<1> HIDE DEF r
<1>2. calls'[c] = r /\ \A d \in Calls \ {c} : calls'[d] = calls[d]
  BY <1>1 DEF TypeOK
<1>3. /\ Begun' = Begun \cup {c} /\ c \notin Begun
      /\ InStage({"preparing"})' = {c}
      /\ \A d \in Begun : calls'[d] = calls[d] /\ calls[d].stage # "preparing"
  BY <1>1, <1>2 DEF Begun, InStage
<1>4. /\ \A x, y \in InStage({"preparing"})' : x = y
      /\ \A x \in unsent' : Off(queue', x)
      /\ \A x \in InStage({"preparing"})', a \in Agents : \A i \in 1..Len(queue'[a]) :
           queue'[a][i] = calls'[x].msg => calls'[x].from = a /\ i = 1
  BY <1>1, <1>2, <1>3 DEF Placed
<1>5. \A x, y \in Begun' : calls'[x].msg = calls'[y].msg => x = y
  <2> SUFFICES ASSUME NEW x \in Begun', NEW y \in Begun', calls'[x].msg = calls'[y].msg
               PROVE  x = y
    OBVIOUS
  <2>1. CASE x \in Begun /\ y \in Begun
    BY <1>3, <2>1 DEF Placed
  <2>2. CASE ~(x \in Begun /\ y \in Begun)
    BY <1>1, <1>2, <1>3, <2>2
  <2> QED
    BY <2>1, <2>2
<1>6. \A x \in Begun' : calls'[x].msg \notin unsent'
  BY <1>1, <1>2, <1>3 DEF Placed
<1>7. \A x \in Begun' : calls'[x].stage # "preparing" => Off(queue', calls'[x].msg)
  BY <1>1, <1>2, <1>3 DEF Placed
<1> QED
  BY <1>4, <1>5, <1>6, <1>7 DEF Placed

\* A message of a queue is of no call, while none prepares.
LEMMA QueuedIsFree ==
  ASSUME Placed, InStage({"preparing"}) = {}, NEW a \in Agents, NEW i \in 1..Len(queue[a])
  PROVE  /\ \A d \in Begun : calls[d].msg # queue[a][i]
         /\ queue[a][i] \notin unsent
<1>1. \A d \in Begun : calls[d].stage # "preparing"
  BY DEF Begun, InStage
<1> QED
  BY <1>1 DEF Placed, Off

LEMMA SubmitPlaced ==
  ASSUME TypeOK, TypeOK', Placed, ~prepares, NEW m \in Msgs, Submit(m) PROVE Placed'
<1>1. /\ InStage({"preparing"}) = {} /\ m \in unsent /\ unsent' = unsent \ {m}
      /\ tabAgent \in Agents
  BY DEF Submit, Yielded, TypeOK
<1>2. /\ \A d \in Begun : calls[d].msg # m
      /\ \A a \in Agents : \A i \in 1..Len(queue[a]) : queue[a][i] # m
  BY <1>1 DEF Placed, Off
<1>3. CASE /\ queue' = [queue EXCEPT ![tabAgent] = Append(queue[tabAgent], m)]
           /\ UNCHANGED calls
  <2> PICK s \in Seq(Msgs), n \in Nat : s = queue[tabAgent] /\ n = Len(s)
    BY <1>1, LenProperties DEF TypeOK
  <2> PICK r : r = Append(s, m)
    OBVIOUS
  <2>1. s = queue[tabAgent] /\ n = Len(s) /\ r = Append(s, m)
    OBVIOUS
  <2>2. Len(r) = n + 1 /\ r[n + 1] = m /\ \A i \in 1..n : r[i] = s[i]
    BY <2>1, AppendProperties
  <2>3. queue'[tabAgent] = r /\ \A a \in Agents \ {tabAgent} : queue'[a] = queue[a]
    BY <1>1, <1>3, <2>1 DEF TypeOK
  <2>4. ASSUME NEW a \in Agents, NEW i \in 1..Len(queue'[a])
        PROVE  \/ i \in 1..Len(queue[a]) /\ queue'[a][i] = queue[a][i]
               \/ a = tabAgent /\ i = n + 1 /\ queue'[a][i] = m
    <3>1. CASE a = tabAgent
      BY <2>1, <2>2, <2>3, <3>1
    <3>2. CASE a # tabAgent
      BY <2>3, <3>2
    <3> QED
      BY <3>1, <3>2
  <2>5. Apart(queue')
    <3> SUFFICES ASSUME NEW a \in Agents, NEW b \in Agents,
                        NEW i \in 1..Len(queue'[a]), NEW j \in 1..Len(queue'[b]),
                        queue'[a][i] = queue'[b][j]
                 PROVE  a = b /\ i = j
      BY DEF Apart
    <3>1. /\ \/ i \in 1..Len(queue[a]) /\ queue'[a][i] = queue[a][i] /\ queue'[a][i] # m
             \/ a = tabAgent /\ i = n + 1 /\ queue'[a][i] = m
          /\ \/ j \in 1..Len(queue[b]) /\ queue'[b][j] = queue[b][j] /\ queue'[b][j] # m
             \/ b = tabAgent /\ j = n + 1 /\ queue'[b][j] = m
      BY <1>2, <2>4
    <3> QED
      BY <3>1 DEF Apart, Placed
  <2>6. \A x : x # m /\ Off(queue, x) => Off(queue', x)
    BY <2>4 DEF Off
  <2>7. /\ Begun' = Begun /\ InStage({"preparing"})' = {}
        /\ \A x \in unsent' : Off(queue', x)
        /\ \A d \in Begun : calls[d].stage # "preparing" => Off(queue', calls[d].msg)
    BY <1>1, <1>2, <1>3, <2>6 DEF Placed, Begun, InStage
  <2>8. /\ \A x, y \in Begun : calls[x].msg = calls[y].msg => x = y
        /\ \A x \in Begun : calls[x].msg \notin unsent'
    BY <1>1 DEF Placed
  <2> QED
    BY <1>3, <2>5, <2>7, <2>8 DEF Placed
<1>4. CASE /\ \E c \in Calls, kind \in Kinds \cup {"steer"} : Start(c, m, tabAgent, kind, None)
           /\ UNCHANGED queue
  <2>1. Apart(queue') /\ \A x : Off(queue, x) => Off(queue', x)
    BY <1>4 DEF Placed
  <2>2. \A a \in Agents : \A i \in 1..Len(queue'[a]) : queue'[a][i] # m
    BY <1>2, <1>4
  <2> QED
    BY <1>1, <1>2, <1>4, <2>1, <2>2, StartPlaced
<1> QED
  BY <1>3, <1>4 DEF Submit

LEMMA SendNowPlaced ==
  ASSUME TypeOK, TypeOK', Placed, ~prepares, NEW m \in Msgs, SendNow(m) PROVE Placed'
<1>1. /\ InStage({"preparing"}) = {} /\ unsent' = unsent /\ queue' = Without(m)
      /\ m \in ToSet(queue[tabAgent]) /\ tabAgent \in Agents
      /\ queue \in [Agents -> Seq(Msgs)] /\ queue' \in [Agents -> Seq(Msgs)]
  BY DEF SendNow, Yielded, TypeOK
<1>2. (\A a \in Agents : Cut(queue[a], queue'[a])) /\ Off(queue', m)
  BY <1>1, WithoutCut DEF Placed
<1>3. Apart(queue') /\ \A x : Off(queue, x) => Off(queue', x)
  BY <1>1, <1>2, CutQueues DEF Placed
<1>4. PICK i \in 1..Len(queue[tabAgent]) : queue[tabAgent][i] = m
  <2>1. PICK s \in Seq(Msgs) : s = queue[tabAgent]
    BY <1>1
  <2>2. \E i \in 1..Len(s) : s[i] = m
    BY <1>1, <2>1 DEF ToSet
  <2> QED
    BY <2>1, <2>2
<1>5. m \notin unsent /\ \A d \in Begun : calls[d].msg # m
  BY <1>1, <1>4, QueuedIsFree
<1>6. PICK c \in Calls, kind \in Kinds :
        Start(c, m, tabAgent,
              IF streaming[tabAgent] /\ kind = "native" THEN "steer" ELSE kind, None)
  BY DEF SendNow
<1>7. \A a \in Agents : \A j \in 1..Len(queue'[a]) : queue'[a][j] # m
  BY <1>2 DEF Off
<1> QED
  BY <1>1, <1>3, <1>5, <1>6, <1>7, StartPlaced

LEMMA EditPlaced ==
  ASSUME TypeOK, TypeOK', Placed, ~prepares, NEW m \in Msgs, Edit(m) PROVE Placed'
<1>1. /\ InStage({"preparing"}) = {} /\ UNCHANGED <<unsent, calls>> /\ queue' = Without(m)
      /\ m \in ToSet(queue[tabAgent])
      /\ queue \in [Agents -> Seq(Msgs)] /\ queue' \in [Agents -> Seq(Msgs)]
  BY DEF Edit, Yielded, TypeOK
<1>2. \A a \in Agents : Cut(queue[a], queue'[a])
  BY <1>1, WithoutCut DEF Placed
<1>3. Apart(queue') /\ \A x : Off(queue, x) => Off(queue', x)
  BY <1>1, <1>2, CutQueues DEF Placed
<1>4. Begun' = Begun /\ InStage({"preparing"})' = {}
  BY <1>1 DEF Begun, InStage
<1>5. /\ \A x \in unsent' : Off(queue', x)
      /\ \A d \in Begun : calls'[d].stage # "preparing" => Off(queue', calls'[d].msg)
  BY <1>1, <1>3 DEF Placed
<1>6. /\ \A x, y \in Begun : calls'[x].msg = calls'[y].msg => x = y
      /\ \A x \in Begun : calls'[x].msg \notin unsent'
  BY <1>1 DEF Placed
<1> QED
  BY <1>3, <1>4, <1>5, <1>6 DEF Placed

LEMMA DispatchPlaced ==
  ASSUME TypeOK, TypeOK', Placed, ~prepares, Dispatch PROVE Placed'
<1>1. PICK f : f = Head(wire)
  OBVIOUS
<1>2. /\ InStage({"preparing"}) = {} /\ UNCHANGED <<unsent, queue>> /\ wire # <<>>
      /\ OnStart(f) \/ OnText(f) \/ OnTool(f) \/ OnEnd(f)
  BY <1>1 DEF Dispatch, Yielded
<1>3. f.agent \in Agents
  BY <1>1, <1>2, EndsInTail DEF TypeOK, Frames
<1>4. CASE UNCHANGED calls
  BY <1>2, <1>4, KeepPlaced
<1>5. CASE calls' # calls
  <2>1. Flush(f.agent) /\ queue[f.agent] # <<>>
    BY <1>2, <1>5 DEF OnStart, OnText, OnTool, OnEnd, Flush
  <2>2. PICK a \in Agents : a = f.agent
    BY <1>3
  <2>3. PICK c \in Calls, kind \in Kinds : Start(c, Head(queue[a]), a, kind, a)
    BY <1>5, <2>1, <2>2 DEF Flush
  <2>4. /\ Head(queue[a]) \in Msgs /\ Head(queue[a]) = queue[a][1] /\ 1 \in 1..Len(queue[a])
    <3>1. PICK s \in Seq(Msgs) : s = queue[a]
      BY DEF TypeOK
    <3>2. Head(s) \in Msgs /\ Head(s) = s[1] /\ 1 \in 1..Len(s)
      BY <2>1, <2>2, <3>1, HeadTailProperties, LenProperties, EmptySeq
    <3> QED
      BY <3>1, <3>2
  <2>5. PICK m \in Msgs : m = queue[a][1] /\ Start(c, m, a, kind, a)
    BY <2>3, <2>4
  <2>6. m \notin unsent /\ \A d \in Begun : calls[d].msg # m
    BY <1>2, <2>4, <2>5, QueuedIsFree
  <2>7. \A b \in Agents : \A i \in 1..Len(queue'[b]) : queue'[b][i] = m => a = b /\ i = 1
    BY <1>2, <2>4, <2>5 DEF Placed, Apart
  <2>8. Apart(queue') /\ \A x : Off(queue, x) => Off(queue', x)
    BY <1>2 DEF Placed
  <2> QED
    BY <1>2, <2>5, <2>6, <2>7, <2>8, StartPlaced
<1> QED
  BY <1>4, <1>5

LEMMA PreparedPlaced ==
  ASSUME IInv, TypeOK', Placed, NEW c \in Calls, Steer(c) \/ Prepared(c) PROVE Placed'
<1> USE DEF IInv
<1> DEFINE r == [calls[owner] EXCEPT !.aborted = TRUE]
           sent == [calls EXCEPT ![c] = Sent(c)]
<1>1. /\ unsent' = unsent /\ queue' = DequeueHead(c) /\ calls[c].stage = "preparing"
      /\ Sent(c).msg = calls[c].msg
  BY DEF Steer, Prepared, Sent
<1>2. TypeOK
  OBVIOUS
<1>3. Sent(c).stage \in InFlight
  BY <1>1, <1>2, SentType, CallByStage DEF Steer, Prepared, InFlight
<1>4. owner # None => /\ owner \in Calls
                      /\ calls[owner] \in SentCalls
                      /\ r.stage = calls[owner].stage /\ r.msg = calls[owner].msg
  <2> SUFFICES ASSUME owner # None
               PROVE  /\ owner \in Calls
                      /\ calls[owner] \in SentCalls
                      /\ r.stage = calls[owner].stage /\ r.msg = calls[owner].msg
    OBVIOUS
  <2>1. owner \in Calls /\ calls[owner] \in SentCalls
    BY <1>2, CallByStage DEF TypeOK, OwnerInFlight, InStage
  <2> QED
    BY <2>1 DEF SentCalls
<1>5. /\ calls'[c] = Sent(c)
      /\ \A d \in Calls \ {c} : /\ calls'[d].stage = calls[d].stage
                                /\ calls'[d].msg = calls[d].msg
  <2>1. sent[c] = Sent(c) /\ \A d \in Calls \ {c} : sent[d] = calls[d]
    BY <1>2 DEF TypeOK
  <2>2. CASE Steer(c) \/ owner = None
    BY <2>1, <2>2 DEF Prepared, Steer
  <2>3. CASE Prepared(c) /\ owner # None
    <3>1. calls' = [sent EXCEPT ![owner] = [sent[owner] EXCEPT !.aborted = TRUE]]
      BY <2>3 DEF Prepared
    <3>2. owner # c
      BY <1>1, <2>3 DEF OwnerInFlight, InStage
    <3>3. sent[owner] = calls[owner]
      BY <1>4, <2>1, <2>3, <3>2
    <3>4. calls' = [sent EXCEPT ![owner] = r]
      BY <3>1, <3>3
    <3>5. sent \in [Calls -> CallStates]
      <4>1. Sent(c) \in CallStates
        BY <1>1, <1>2, SentType DEF CallStates
      <4> QED
        BY <1>2, <4>1 DEF TypeOK
    <3> HIDE DEF r, sent
    <3> QED
      BY <1>4, <2>1, <2>3, <3>2, <3>4, <3>5
  <2> QED
    BY <2>2, <2>3
<1> HIDE DEF r, sent
<1>6. calls'[c].stage \notin {"unused", "preparing"} /\ calls'[c].msg = calls[c].msg
  BY <1>1, <1>3, <1>5 DEF InFlight
<1> QED
  BY <1>1, <1>2, <1>5, <1>6, SendPlaced

\* A request is answered or fails, or Stop aborts it: its call keeps its message.
LEMMA CallPlaced ==
  ASSUME IInv, Placed,
         \/ Stop
         \/ \E c \in Calls : \/ PostAnswered(c) \/ PostFails(c) \/ SteerEnds(c)
                             \/ CliFails(c) \/ CliAnswered(c) \/ CliBreaks(c) \/ CliEnds(c)
  PROVE  Placed'
<1> USE DEF IInv
<1>1. UNCHANGED <<queue, unsent>> /\ TypeOK
  BY DEF Stop, PostAnswered, PostFails, SteerEnds, CliFails, CliAnswered, CliBreaks, CliEnds, CallRest
<1>2. \/ UNCHANGED calls
      \/ \E c \in Calls : \E r : /\ calls[c].stage \notin {"unused", "preparing"}
                                 /\ r.stage \notin {"unused", "preparing"}
                                 /\ r.msg = calls[c].msg
                                 /\ calls' = [calls EXCEPT ![c] = r]
  <2>1. CASE Stop
    <3>1. CASE owner # None /\ calls[owner].agent = tabAgent
      <4>1. /\ owner \in Calls /\ calls[owner].stage \in {"native", "cli", "reading"}
            /\ calls[owner] \in SentCalls
        BY <1>1, <3>1, CallByStage DEF TypeOK, OwnerInFlight, InStage
      <4>2. PICK r : r = [calls[owner] EXCEPT !.aborted = TRUE]
        OBVIOUS
      <4>3. r.stage = calls[owner].stage /\ r.msg = calls[owner].msg
        BY <4>1, <4>2 DEF SentCalls
      <4>4. calls' = [calls EXCEPT ![owner] = r]
        BY <2>1, <3>1, <4>2 DEF Stop
      <4> QED
        BY <4>1, <4>3, <4>4
    <3>2. CASE ~(owner # None /\ calls[owner].agent = tabAgent)
      BY <2>1, <3>2 DEF Stop
    <3> QED
      BY <3>1, <3>2
  <2>2. CASE \E c \in Calls : \/ PostAnswered(c) \/ PostFails(c) \/ SteerEnds(c)
                              \/ CliFails(c) \/ CliBreaks(c) \/ CliEnds(c)
    <3>1. PICK c \in Calls : /\ calls[c].stage \in {"native", "cli", "steer", "reading"}
                             /\ calls' = [calls EXCEPT ![c] = Over(c)]
      BY <2>2 DEF PostAnswered, PostFails, SteerEnds, CliFails, CliBreaks, CliEnds, GiveUp, FinishTurn
    <3>2. PICK r : r = Over(c)
      OBVIOUS
    <3>3. r.stage = "over" /\ r.msg = calls[c].msg
      BY <3>2 DEF Over
    <3> QED
      BY <3>1, <3>2, <3>3
  <2>3. CASE \E c \in Calls : CliAnswered(c)
    <3>1. PICK c \in Calls : CliAnswered(c)
      BY <2>3
    <3>2. PICK r : r = [calls[c] EXCEPT !.stage = "reading"]
      OBVIOUS
    <3>3. calls[c].stage = "cli" /\ calls[c] \in SentCalls /\ calls' = [calls EXCEPT ![c] = r]
      BY <1>1, <3>1, <3>2, CallByStage DEF CliAnswered
    <3>4. r.stage = "reading" /\ r.msg = calls[c].msg
      BY <3>2, <3>3 DEF SentCalls
    <3> QED
      BY <3>3, <3>4
  <2> QED
    BY <2>1, <2>2, <2>3
<1>3. CASE UNCHANGED calls
  BY <1>1, <1>3, KeepPlaced
<1>4. ASSUME NEW c \in Calls, NEW r, calls[c].stage \notin {"unused", "preparing"},
             r.stage \notin {"unused", "preparing"}, r.msg = calls[c].msg,
             calls' = [calls EXCEPT ![c] = r]
      PROVE  Placed'
  <2>1. calls'[c] = r /\ \A d \in Calls \ {c} : calls'[d] = calls[d]
    BY <1>1, <1>4 DEF TypeOK
  <2>2. \A d \in Calls : \/ calls'[d] = calls[d]
                         \/ /\ calls[d].stage \notin {"unused", "preparing"}
                            /\ calls'[d].stage \notin {"unused", "preparing"}
                            /\ calls'[d].msg = calls[d].msg
    BY <1>4, <2>1
  <2> QED
    BY <1>1, <2>2, KeepPlaced
<1> QED
  BY <1>2, <1>3, <1>4

LEMMA NextPlaced == IInv /\ IInv' /\ PlacedInv /\ [Next]_vars => PlacedInv'
<1> SUFFICES ASSUME IInv, IInv', ~prepares', ~prepares => Placed, [Next]_vars PROVE Placed'
  BY DEF PlacedInv
<1>1. prepares' = prepares
  BY DEF Next, vars, Submit, SendNow, Edit, PreparationFails, Steer, Prepared, PostAnswered,
     PostFails, SteerEnds, CliFails, CliAnswered, CliBreaks, CliEnds, Stop, SwitchAgent,
     Accept, ForeignTurn, TurnBegins, TurnSpeaks, TurnEnds, Dispatch, CallRest, pageVars
<1>2. ~prepares /\ Placed /\ TypeOK /\ TypeOK'
  BY <1>1 DEF IInv
<1>3. CASE UNCHANGED <<queue, unsent, calls>>
  BY <1>2, <1>3, KeepPlaced
<1>4. CASE \/ UNCHANGED vars
           \/ \E a \in Agents : SwitchAgent(a)
           \/ \E c \in Calls : Accept(c)
           \/ \E a \in Agents, f \in Foreign : ForeignTurn(a, f)
           \/ \E a \in Agents : TurnBegins(a)
           \/ \E a \in Agents, kind \in {"text", "tool"} : TurnSpeaks(a, kind)
           \/ \E a \in Agents, ok \in BOOLEAN : TurnEnds(a, ok)
  BY <1>3, <1>4 DEF vars, SwitchAgent, Accept, ForeignTurn, TurnBegins, TurnSpeaks,
     TurnEnds, pageVars
<1>5. CASE \E m \in Msgs : Submit(m) \/ SendNow(m) \/ Edit(m)
  BY <1>2, <1>5, SubmitPlaced, SendNowPlaced, EditPlaced
<1>6. CASE \E c \in Calls : PreparationFails(c) \/ Steer(c) \/ Prepared(c)
  BY <1>2, <1>6, PreparedPlaced DEF PreparationFails
<1>7. CASE \/ Stop
           \/ \E c \in Calls : \/ PostAnswered(c) \/ PostFails(c) \/ SteerEnds(c)
                               \/ CliFails(c) \/ CliAnswered(c) \/ CliBreaks(c)
                               \/ CliEnds(c)
  BY <1>2, <1>7, CallPlaced
<1>8. CASE Dispatch
  BY <1>2, <1>8, DispatchPlaced
<1> QED
  BY <1>4, <1>5, <1>6, <1>7, <1>8 DEF Next

LEMMA InitPlaced == Init => PlacedInv
<1> SUFFICES ASSUME Init PROVE Placed
  BY DEF PlacedInv
<1>1. /\ Begun = {} /\ InStage({"preparing"}) = {}
  BY DEF Init, Unused, Begun, InStage
<1>2. \A a \in Agents : queue[a] = <<>> /\ Len(<<>>) = 0
  BY DEF Init
<1>3. \A a \in Agents : \A i \in 1..Len(queue[a]) : FALSE
  BY <1>2
<1> QED
  BY <1>1, <1>3 DEF Placed, Apart, Off

\* Without a registered preparation every message is in one place, in every reachable
\* state.
THEOREM MessagesInOnePlace == Spec => []PlacedInv
BY Inductive, InitPlaced, NextPlaced, PTL DEF Spec

\* A queued message waits for a turn end that flushes it, unless its agent was stopped,
\* failed or lost the tab, and, without a preparation, no way out of the queue or
\* around it sends a message twice.
THEOREM QueuesAreServed == Spec => []QueueServed
<1>1. IInv /\ QuietInv /\ PlacedInv => QueueServed
  <2> SUFFICES ASSUME IInv, QuietInv, PlacedInv
               PROVE  /\ Quiet => \A a \in Agents \ stranded : queue[a] = <<>>
                      /\ ~prepares => SentOnce
    BY DEF QueueServed
  <2>1. ASSUME Quiet, NEW a \in Agents \ stranded PROVE queue[a] = <<>>
    <3>1. Turning(a) = {} /\ Asking(a) = {} /\ Flushing(a) = {}
      BY <2>1, QuietIsEmpty
    <3> QED
      BY <3>1 DEF QuietInv, Served, Ends
  <2>2. ASSUME ~prepares PROVE SentOnce
    <3>1. accepted \subseteq Begun
      BY DEF IInv, TypeOK, QuietInv, Reached, Begun
    <3> QED
      BY <2>2, <3>1 DEF PlacedInv, Placed, SentOnce
  <2> QED
    BY <2>1, <2>2
<1> QED
  BY <1>1, Inductive, BusyForAReason, MessagesInOnePlace, PTL
================================================================================
