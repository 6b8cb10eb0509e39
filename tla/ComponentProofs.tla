---------------------------- MODULE ComponentProofs ----------------------------
(***************************************************************************)
(* Three components that share nothing, each proved for every value of its   *)
(* constants.                                                               *)
(*                                                                         *)
(* BridgeSocket: its type invariant, its safety invariants from one          *)
(* inductive invariant, and the implementation of BridgeLink, for every set  *)
(* of sessions, sockets and transports and every pair of delays.             *)
(*                                                                         *)
(* TurnTrace, the instance T of MCFlows: TraceSafe, for every set of         *)
(* agents and sessions and any number of turns, stalls and timer             *)
(* generations, from one inductive invariant that says why a reported        *)
(* incident is recovered.                                                   *)
(*                                                                         *)
(* SystemRows, the instance SR of MCFlows: RowsLikeReload, for any agents    *)
(* and a log of any length.  RowsInv says that a slot shows, of the events   *)
(* both ways tell alike, what a reload at the cursor would show; Pushed is   *)
(* what one row makes of that, however the row comes.                       *)
(***************************************************************************)
EXTENDS BridgeSocket, WorkProofs

-------------------------------------------------------------------------------
\* The socket of the bridge.

USE SidAssumption, SockAssumption, HostAssumption, DelayAssumption
USE DEF SidAssumption, SockAssumption, HostAssumption, DelayAssumption

\* What ties _attachedSid and _connected to the socket.  The converse of the
\* last conjunct fails: _connected survives a switch to another session.
Attachment ==
  /\ attached = desired
  /\ desired = NoSid => ~connected
  /\ ws # NoSock /\ net[ws] = "open" => connected

IInv == /\ TypeOK
        /\ NeverStuckNeverDoubled
        /\ OneLiveSocket
        /\ BackoffRestarts
        /\ Attachment

\* Doubling a delay and capping it stays between the two bounds.
LEMMA BackoffBounded ==
  ASSUME NEW d \in InitialDelay..MaxDelay
  PROVE  Backoff(d) \in InitialDelay..MaxDelay
BY DEF Backoff

\* Closing the current socket keeps the browser's sockets well typed.
LEMMA NetAfterCloseType ==
  ASSUME TypeOK
  PROVE  /\ NetAfterClose \in [Socks -> NetStates]
         /\ OneLiveSocket => \A k \in Socks :
              NetAfterClose[k] \notin {"connecting", "open"}
BY DEF TypeOK, NetAfterClose, NetStates, OneLiveSocket

LEMMA InitIInv == Init => IInv
<1> SUFFICES ASSUME Init PROVE IInv
  OBVIOUS
<1>1. connected \in BOOLEAN /\ (desired = NoSid => ~connected)
  BY DEF Init
<1>2. TypeOK
  BY <1>1 DEF Init, TypeOK, NetStates
<1>3. NeverStuckNeverDoubled /\ OneLiveSocket /\ BackoffRestarts /\ Attachment
  BY <1>1 DEF Init, NeverStuckNeverDoubled, OneLiveSocket, BackoffRestarts,
     Attachment
<1> QED
  BY <1>2, <1>3 DEF IInv

\* A socket created for the wanted session becomes the one live socket.
LEMMA OpensStep ==
  ASSUME IInv, NEW s \in Sids, NEW k \in Socks, Opens(s, k),
         desired' = s, attached' = s, timer' = 0, host' = host, routed' = routed,
         delay' \in InitialDelay..MaxDelay, connected' = connected
  PROVE  IInv'
<1>1. /\ ws' = k
      /\ net' \in [Socks -> NetStates]
      /\ net'[k] = "connecting"
      /\ \A j \in Socks \ {k} : net'[j] \notin {"connecting", "open"}
      /\ sockSid' \in [Socks -> Sids] /\ sockSid'[k] = s
      /\ sockHost' \in [Socks -> Hosts] /\ sockHost'[k] = host
  BY NetAfterCloseType DEF Opens, IInv, TypeOK, NetStates
<1>2. TypeOK'
  BY <1>1 DEF IInv, TypeOK
<1>3. OneLiveSocket'
  BY <1>1 DEF OneLiveSocket, IInv, TypeOK
<1>4. NeverStuckNeverDoubled' /\ BackoffRestarts' /\ Attachment'
  BY <1>1 DEF NeverStuckNeverDoubled, BackoffRestarts, Attachment
<1> QED
  BY <1>2, <1>3, <1>4 DEF IInv

\* A constructor that throws leaves an armed timer and no socket.
LEMMA ThrowsStep ==
  ASSUME IInv, NEW s \in Sids, NEW d \in InitialDelay..MaxDelay, Throws(d),
         desired' = s, attached' = s, host' = host, routed' = routed,
         delay' \in InitialDelay..MaxDelay, connected' = connected
  PROVE  IInv'
<1>1. TypeOK'
  BY NetAfterCloseType DEF Throws, IInv, TypeOK
<1>2. OneLiveSocket' /\ NeverStuckNeverDoubled' /\ BackoffRestarts' /\ Attachment'
  BY NetAfterCloseType DEF Throws, IInv, TypeOK, OneLiveSocket,
     NeverStuckNeverDoubled, BackoffRestarts, Attachment
<1> QED
  BY <1>1, <1>2 DEF IInv

LEMMA ConnectStep ==
  ASSUME IInv, NEW s \in Sids, Connect(s)
  PROVE  IInv'
<1>1. CASE AlreadyAttached(s)
  BY <1>1 DEF Connect, AlreadyAttached, IInv, TypeOK, NeverStuckNeverDoubled,
     OneLiveSocket, BackoffRestarts, Attachment
<1>2. CASE ~AlreadyAttached(s)
  <2>1. InitialDelay \in InitialDelay..MaxDelay
    OBVIOUS
  <2>2. /\ desired' = s /\ attached' = s /\ host' = host /\ routed' = routed
        /\ connected' = connected /\ delay' = InitialDelay
    BY <1>2 DEF Connect
  <2>3. CASE timer' = 0 /\ \E k \in Socks : Opens(s, k)
    BY <2>1, <2>2, <2>3, OpensStep
  <2>4. CASE Throws(InitialDelay)
    BY <2>1, <2>2, <2>4, ThrowsStep
  <2> QED
    BY <1>2, <2>3, <2>4 DEF Connect
<1> QED
  BY <1>1, <1>2

\* Closing everything: the transport after it may be any of the hosts'.
LEMMA CloseAllStep ==
  ASSUME IInv, CloseAll, host' \in Hosts
  PROVE  IInv'
<1>0. connected' \in BOOLEAN
  BY DEF CloseAll
<1>1. TypeOK'
  BY <1>0, NetAfterCloseType DEF CloseAll, IInv, TypeOK
<1>2. OneLiveSocket' /\ NeverStuckNeverDoubled' /\ BackoffRestarts' /\ Attachment'
  BY NetAfterCloseType DEF CloseAll, IInv, OneLiveSocket,
     NeverStuckNeverDoubled, BackoffRestarts, Attachment
<1> QED
  BY <1>1, <1>2 DEF IInv

LEMMA TimerStep ==
  ASSUME IInv, NEW s \in Sids, Reconnect(s) \/ ReconnectFails(s)
  PROVE  IInv'
<1>1. Backoff(delay) \in InitialDelay..MaxDelay
  BY BackoffBounded DEF IInv, TypeOK
<1>2. /\ desired' = s /\ attached' = s /\ host' = host /\ routed' = routed
      /\ connected' = connected /\ delay' = Backoff(delay)
  BY DEF Reconnect, ReconnectFails, TimerFires
<1>3. CASE Reconnect(s)
  BY <1>1, <1>2, <1>3, OpensStep DEF Reconnect
<1>4. CASE ReconnectFails(s)
  BY <1>1, <1>2, <1>4, ThrowsStep DEF ReconnectFails
<1> QED
  BY <1>3, <1>4

LEMMA OpenEventStep ==
  ASSUME IInv, NEW k \in Socks, OpenEvent(k)
  PROVE  IInv'
<1>0. connected' \in BOOLEAN
  BY DEF OpenEvent, IInv, TypeOK
<1>1. TypeOK'
  BY <1>0 DEF OpenEvent, IInv, TypeOK, NetStates
<1>2. ws = k
  BY DEF OpenEvent, IInv, OneLiveSocket
<1>3. OneLiveSocket'
  BY <1>2 DEF OpenEvent, IInv, TypeOK, OneLiveSocket
<1>4. NeverStuckNeverDoubled' /\ BackoffRestarts' /\ Attachment'
  BY <1>2 DEF OpenEvent, IInv, NeverStuckNeverDoubled, OneLiveSocket,
     BackoffRestarts, Attachment
<1> QED
  BY <1>1, <1>3, <1>4 DEF IInv

LEMMA MessageEventStep ==
  ASSUME IInv, NEW k \in Socks, MessageEvent(k)
  PROVE  IInv'
<1>1. routed' \in (Sids \cup {NoSid}) \X {0, 1}
  BY DEF MessageEvent, IInv, TypeOK
<1> QED
  BY <1>1 DEF MessageEvent, pageVars, netVars, IInv, TypeOK, OneLiveSocket,
     NeverStuckNeverDoubled, BackoffRestarts, Attachment

LEMMA CloseEventStep ==
  ASSUME IInv, NEW k \in Socks, CloseEvent(k)
  PROVE  IInv'
<1>0. connected' \in BOOLEAN
  BY DEF CloseEvent, IInv, TypeOK
<1>1. TypeOK'
  BY <1>0 DEF CloseEvent, IInv, TypeOK, NetStates
<1>2. OneLiveSocket'
  BY DEF CloseEvent, IInv, TypeOK, OneLiveSocket
<1>3. NeverStuckNeverDoubled'
  BY DEF CloseEvent, IInv, TypeOK, NeverStuckNeverDoubled, OneLiveSocket
<1>4. BackoffRestarts' /\ Attachment'
  BY DEF CloseEvent, IInv, TypeOK, OneLiveSocket, BackoffRestarts, Attachment
<1> QED
  BY <1>1, <1>2, <1>3, <1>4 DEF IInv

LEMMA NextIInv == IInv /\ [Next]_vars => IInv'
<1> SUFFICES ASSUME IInv, [Next]_vars PROVE IInv'
  OBVIOUS
<1>1. CASE UNCHANGED vars
  BY <1>1 DEF vars, IInv, TypeOK, NeverStuckNeverDoubled, OneLiveSocket,
     BackoffRestarts, Attachment
<1>2. CASE Disconnect \/ Dispose \/ \E h \in Hosts : SetConnection(h)
  BY <1>2, CloseAllStep DEF Disconnect, Dispose, SetConnection, IInv, TypeOK
<1> QED
  BY <1>1, <1>2, ConnectStep, TimerStep, OpenEventStep, MessageEventStep,
     CloseEventStep DEF Next

\* The inductive invariant holds in every behaviour of the bridge.
THEOREM Inductive == Spec => []IInv
BY InitIInv, NextIInv, PTL DEF Spec

\* Every variable of the bridge keeps its type, the armed delay included: it
\* never exceeds RECONNECT_MAX_MS.
THEOREM TypeCorrect == Spec => []TypeOK
BY Inductive, PTL DEF IInv

\* While a session is wanted there is exactly one of a socket and a timer.
THEOREM NeverStuck == Spec => []NeverStuckNeverDoubled
BY Inductive, PTL DEF IInv

\* At most one socket is alive, on the wanted session and installed transport.
THEOREM SingleSocket == Spec => []OneLiveSocket
BY Inductive, PTL DEF IInv

\* The backoff never leaks through a connection that opened.
THEOREM BackoffResets == Spec => []BackoffRestarts
BY Inductive, PTL DEF IInv

-------------------------------------------------------------------------------

LEMMA InitLink == Init => Link!Init
BY DEF Init, Link!Init, IsLive

\* Every step of the bridge is a step of the link or leaves it unchanged.
LEMMA NextLink == IInv /\ [Next]_vars => [Link!Next]_(Link!linkVars)
<1> SUFFICES ASSUME IInv, [Next]_vars
             PROVE  Link!Next \/ UNCHANGED Link!linkVars
  OBVIOUS
<1> USE DEF Link!Next, Link!linkVars, IsLive
<1>1. CASE UNCHANGED vars
  BY <1>1 DEF vars
<1>2. ASSUME NEW s \in Sids, Connect(s) PROVE Link!Choose(s)
  <2>1. CASE AlreadyAttached(s)
    BY <1>2, <2>1 DEF Connect, AlreadyAttached, Link!Choose, IInv, Attachment
  <2>2. CASE ~AlreadyAttached(s)
    <3>1. ~(IsLive /\ s = desired)
      BY <2>2 DEF AlreadyAttached, IInv, Attachment
    <3>2. ~IsLive'
      <4>1. ASSUME NEW k \in Socks, Opens(s, k) PROVE ~IsLive'
        BY <4>1, NetAfterCloseType DEF Opens, IInv, TypeOK
      <4> QED
        BY <1>2, <2>2, <4>1 DEF Connect, Throws
    <3> QED
      BY <1>2, <3>1, <3>2 DEF Connect, Link!Choose
  <2> QED
    BY <2>1, <2>2
<1>3. CASE Disconnect \/ Dispose \/ \E h \in Hosts : SetConnection(h)
  <2>1. CloseAll
    BY <1>3 DEF Disconnect, Dispose, SetConnection
  <2> QED
    BY <2>1 DEF CloseAll, Link!Release
<1>4. ASSUME NEW s \in Sids, Reconnect(s) \/ ReconnectFails(s)
      PROVE  UNCHANGED Link!linkVars
  <2>1. ws = NoSock
    BY <1>4 DEF Reconnect, ReconnectFails, TimerFires, IInv,
       NeverStuckNeverDoubled
  <2>2. ~IsLive'
    <3>1. ASSUME NEW k \in Socks, Opens(s, k) PROVE ~IsLive'
      BY <3>1, NetAfterCloseType DEF Opens, IInv, TypeOK
    <3> QED
      BY <1>4, <3>1 DEF Reconnect, ReconnectFails, Throws
  <2> QED
    BY <1>4, <2>1, <2>2 DEF Reconnect, ReconnectFails, TimerFires
<1>5. ASSUME NEW k \in Socks, OpenEvent(k) PROVE Link!Attach
  <2>1. ws = k /\ desired # NoSid
    BY <1>5 DEF OpenEvent, IInv, OneLiveSocket, TypeOK
  <2> QED
    BY <1>5, <2>1 DEF OpenEvent, Link!Attach, IInv, TypeOK
<1>6. ASSUME NEW k \in Socks, MessageEvent(k)
      PROVE  Link!Route \/ UNCHANGED Link!linkVars
  <2>1. CASE ws = k
    BY <1>6, <2>1 DEF MessageEvent, pageVars, netVars, Link!Route, IInv,
       OneLiveSocket, NetStates
  <2>2. CASE ws # k
    BY <1>6, <2>2 DEF MessageEvent, pageVars, netVars
  <2> QED
    BY <2>1, <2>2
<1>7. ASSUME NEW k \in Socks, CloseEvent(k)
      PROVE  Link!Lose \/ UNCHANGED Link!linkVars
  <2>1. CASE ws = k
    BY <1>7, <2>1 DEF CloseEvent, Link!Lose
  <2>2. CASE ws # k
    BY <1>7, <2>2 DEF CloseEvent, IInv, TypeOK
  <2> QED
    BY <2>1, <2>2
<1> QED
  BY <1>1, <1>2, <1>3, <1>4, <1>5, <1>6, <1>7 DEF Next

\* The bridge implements the link: whatever sockets fail, close late or are
\* replaced, a frame reaches the handlers only over the wanted session's open
\* socket.
THEOREM Implementation == Spec => ImplementsLink
<1>1. Spec => []IInv
  BY Inductive
<1> QED
  BY <1>1, InitLink, NextLink, PTL DEF Spec, ImplementsLink, Link!Spec

-------------------------------------------------------------------------------
\* TurnTrace.

Spans == {"send", "request", "stream", "render"}
Turn == [agent : Agents, sid : TraceSids, open : SUBSET Spans, first : BOOLEAN, ended : BOOLEAN,
         gen : Nat, timer : BOOLEAN, stalls : Nat]

TurnsOK == /\ turns \in Seq(Turn)
           /\ active \in [Agents -> Nat]
           /\ disposed \in BOOLEAN

\* An agent's active turn is one of its own; a turn that waits for a frame has ended.
Placed == /\ \A a \in Agents : active[a] # 0 =>
               active[a] \in DOMAIN turns /\ turns[active[a]].agent = a
          /\ \A t \in frames : t \in DOMAIN turns /\ turns[t].ended

\* The turn of an incident: resolveStall recovers it only if the turn counted the stall.
Waits(i, a) == /\ active[a] # 0 /\ i = T!Scope(active[a])
               /\ ~turns[active[a]].first /\ ~turns[active[a]].ended
               /\ turns[active[a]].stalls > 0

Owned == \A i \in incidents : disposed \/ \E a \in Agents : Waits(i, a)

TraceInv == TurnsOK /\ Placed /\ Owned /\ T!TreesClosed /\ T!LatestActive

\* What clearing and arming the timer leave alone.
Alike(r, s) == /\ s \in Turn
               /\ s.agent = r.agent /\ s.sid = r.sid /\ s.open = r.open
               /\ s.first = r.first /\ s.ended = r.ended /\ s.stalls = r.stalls

LEMMA ClearedAlike ==
  ASSUME NEW r \in Turn
  PROVE  Alike(r, T!Cleared(r))
<1>1. [r EXCEPT !.gen = @ + 1] \in Turn
  BY DEF Turn
<1>2. [[r EXCEPT !.gen = @ + 1] EXCEPT !.timer = FALSE] \in Turn
  BY <1>1 DEF Turn
<1>3. T!Cleared(r) \in Turn
  BY <1>2 DEF T!Cleared
<1> QED
  BY <1>3 DEF Alike, T!Cleared, Turn

LEMMA ArmedAlike ==
  ASSUME NEW r \in Turn, NEW thrown \in BOOLEAN
  PROVE  Alike(r, T!Armed(r, thrown))
<1> DEFINE n == IF thrown THEN 2 ELSE 1
<1>1. [r EXCEPT !.gen = @ + n] \in Turn
  BY DEF Turn
<1>2. [[r EXCEPT !.gen = @ + n] EXCEPT !.timer = ~thrown] \in Turn
  BY <1>1 DEF Turn
<1>3. T!Armed(r, thrown) \in Turn
  BY <1>2 DEF T!Armed
<1> QED
  BY <1>3 DEF Alike, T!Armed, Turn

LEMMA TurnsTyped ==
  ASSUME TurnsOK
  PROVE  /\ Len(turns) \in Nat /\ DOMAIN turns = 1..Len(turns)
         /\ \A t \in DOMAIN turns : turns[t] \in Turn
BY DEF TurnsOK

\* A change of one turn keeps the others.
LEMMA TurnReplaced ==
  ASSUME TurnsOK, NEW t \in DOMAIN turns, NEW r \in Turn, turns' = [turns EXCEPT ![t] = r]
  PROVE  /\ turns' \in Seq(Turn) /\ DOMAIN turns' = DOMAIN turns
         /\ turns'[t] = r
         /\ \A u \in DOMAIN turns : u # t => turns'[u] = turns[u]
BY DEF TurnsOK

LEMMA InitTrace == T!Init => TraceInv
<1> SUFFICES ASSUME T!Init PROVE TraceInv
  OBVIOUS
<1>1. turns = <<>> /\ DOMAIN turns = {}
  BY DEF T!Init
<1>2. TurnsOK
  BY <1>1, EmptySeq DEF T!Init, TurnsOK
<1>4. Placed /\ Owned
  BY <1>1 DEF T!Init, Placed, Owned
<1>3. T!TreesClosed /\ T!LatestActive
  BY <1>1 DEF T!TreesClosed, T!LatestActive
<1> QED
  BY <1>2, <1>3, <1>4 DEF TraceInv

\* After resolveStall of an agent's active turn, what is left belongs to other agents.
LEMMA OthersWait ==
  ASSUME TraceInv, ~disposed, NEW a \in Agents,
         NEW i \in IF active[a] = 0 THEN incidents ELSE T!Recovered(active[a])
  PROVE  \E b \in Agents \ {a} : Waits(i, b)
<1>1. i \in incidents
  BY DEF T!Recovered
<1>2. PICK b \in Agents : Waits(i, b)
  BY <1>1 DEF TraceInv, Owned
<1>3. b # a
  BY <1>2 DEF Waits, T!Recovered, T!Scope
<1> QED
  BY <1>2, <1>3

\* A turn of another agent goes on waiting when its own record is kept.
LEMMA WaitsOn ==
  ASSUME NEW i, NEW b \in Agents, Waits(i, b), active'[b] = active[b],
         turns'[active[b]] = turns[active[b]] \/ Alike(turns[active[b]], turns'[active[b]])
  PROVE  Waits(i, b)'
BY DEF Waits, T!Scope, Alike

LEMMA BeginStep ==
  ASSUME TraceInv, NEW a \in Agents, NEW sid \in TraceSids, NEW thrown \in BOOLEAN,
         T!BeginChatTurn(a, sid, thrown)
  PROVE  TraceInv'
<1> DEFINE n == Len(turns) + 1
           old == [t \in DOMAIN turns |-> IF t = active[a] THEN T!Cleared(turns[t]) ELSE turns[t]]
           new == T!Armed(T!NewTurn(a, sid), thrown)
<1>1. /\ Len(turns) \in Nat /\ DOMAIN turns = 1..Len(turns)
      /\ \A t \in DOMAIN turns : turns[t] \in Turn
  BY TurnsTyped DEF TraceInv
<1>2. /\ T!NewTurn(a, sid) \in Turn
      /\ T!NewTurn(a, sid).agent = a /\ T!NewTurn(a, sid).open = {"send", "request"}
      /\ ~T!NewTurn(a, sid).first /\ ~T!NewTurn(a, sid).ended
  BY DEF T!NewTurn, Turn, Spans
<1>3. /\ new \in Turn /\ new.agent = a /\ ~new.first /\ ~new.ended
  BY <1>2, ArmedAlike DEF Alike
<1>4. \A t \in DOMAIN turns : old[t] = turns[t] \/ Alike(turns[t], old[t])
  BY <1>1, ClearedAlike
<1>5. \A t \in 1..Len(turns) : old[t] \in Turn
  BY <1>1, <1>4 DEF Alike
<1>6. old \in Seq(Turn) /\ Len(old) = Len(turns)
  <2>1. old \in [1..Len(turns) -> Turn]
    BY <1>1, <1>5
  <2> QED
    BY <1>1, <2>1, SeqDef, LenProperties
<1>7. /\ turns' = Append(old, new) /\ active' = [active EXCEPT ![a] = n]
      /\ incidents' = IF active[a] = 0 THEN incidents ELSE T!Recovered(active[a])
      /\ UNCHANGED <<frames, disposed>>
  BY DEF T!BeginChatTurn, T!Begun
<1> HIDE DEF old, new
<1>8. /\ turns' \in Seq(Turn) /\ DOMAIN turns' = 1..n /\ turns'[n] = new
      /\ \A t \in DOMAIN turns : turns'[t] = old[t]
  BY <1>1, <1>3, <1>6, <1>7, AppendProperties
<1>9. \A t \in DOMAIN turns : turns'[t] = turns[t] \/ Alike(turns[t], turns'[t])
  BY <1>4, <1>8
<1>10. \A t \in DOMAIN turns : /\ turns'[t].agent = turns[t].agent /\ turns'[t].open = turns[t].open
                               /\ turns'[t].ended = turns[t].ended
  BY <1>9 DEF Alike
<1>11. active'[a] = n /\ \A b \in Agents \ {a} : active'[b] = active[b]
  BY <1>7 DEF TraceInv, TurnsOK
<1>12. TurnsOK'
  BY <1>1, <1>7, <1>8 DEF TraceInv, TurnsOK
<1>13. Placed'
  <2>1. \A b \in Agents : active'[b] # 0 => active'[b] \in DOMAIN turns' /\ turns'[active'[b]].agent = b
    <3> SUFFICES ASSUME NEW b \in Agents, active'[b] # 0
                 PROVE  active'[b] \in DOMAIN turns' /\ turns'[active'[b]].agent = b
      OBVIOUS
    <3>1. CASE b = a
      BY <3>1, <1>1, <1>3, <1>8, <1>11
    <3>2. CASE b # a
      BY <3>2, <1>1, <1>8, <1>10, <1>11 DEF TraceInv, Placed
    <3> QED
      BY <3>1, <3>2
  <2>2. \A t \in frames' : t \in DOMAIN turns' /\ turns'[t].ended
    BY <1>1, <1>7, <1>8, <1>10 DEF TraceInv, Placed
  <2> QED
    BY <2>1, <2>2 DEF Placed
<1>14. Owned'
  <2> SUFFICES ASSUME NEW i \in incidents', ~disposed'
               PROVE  \E b \in Agents : Waits(i, b)'
    BY DEF Owned
  <2>1. PICK b \in Agents \ {a} : Waits(i, b)
    BY <1>7, OthersWait
  <2>2. active[b] \in DOMAIN turns
    BY <2>1 DEF TraceInv, Placed, Waits
  <2> QED
    BY <2>1, <2>2, <1>9, <1>11, WaitsOn
<1>15. T!TreesClosed'
  <2> SUFFICES ASSUME NEW t \in DOMAIN turns', turns'[t].ended, ~disposed'
               PROVE  \/ turns'[t].open = {} /\ t \notin frames'
                      \/ turns'[t].open = {"send", "render"} /\ t \in frames'
    BY DEF T!TreesClosed
  <2>1. t \in DOMAIN turns
    BY <1>1, <1>3, <1>8
  <2> QED
    BY <2>1, <1>7, <1>10 DEF TraceInv, T!TreesClosed
<1>16. T!LatestActive'
  <2> SUFFICES ASSUME NEW t \in DOMAIN turns',
                      \A u \in DOMAIN turns' : turns'[u].agent = turns'[t].agent => u <= t,
                      "send" \in turns'[t].open, ~disposed'
               PROVE  active'[turns'[t].agent] = t
    BY DEF T!LatestActive
  <2>1. CASE t = n
    BY <2>1, <1>3, <1>8, <1>11
  <2>2. CASE t # n
    <3>1. t \in DOMAIN turns /\ t < n
      BY <2>2, <1>1, <1>8
    <3>2. turns'[t].agent # a
      BY <3>1, <1>1, <1>3, <1>8
    <3>3. active[turns[t].agent] = t
      BY <3>1, <1>1, <1>7, <1>8, <1>10 DEF TraceInv, T!LatestActive
    <3>4. turns[t].agent \in Agents
      BY <3>1, <1>1 DEF Turn
    <3> QED
      BY <3>1, <3>2, <3>3, <3>4, <1>10, <1>11
  <2> QED
    BY <2>1, <2>2
<1> QED
  BY <1>12, <1>13, <1>14, <1>15, <1>16 DEF TraceInv
\* What is heard of an agent's active turn: it keeps its agent and its session, and its
\* incident is recovered.
LEMMA HeardOf ==
  ASSUME TraceInv, NEW a \in Agents, active[a] # 0, NEW r \in Turn,
         r.agent = a, r.sid = turns[active[a]].sid,
         turns' = [turns EXCEPT ![active[a]] = r], incidents' = T!Recovered(active[a]),
         active' \in [Agents -> Nat], active'[a] \in {0, active[a]},
         \A b \in Agents \ {a} : active'[b] = active[b], disposed' = disposed
  PROVE  /\ TurnsOK' /\ Owned'
         /\ \A b \in Agents : active'[b] # 0 =>
              active'[b] \in DOMAIN turns' /\ turns'[active'[b]].agent = b
         /\ active[a] \in DOMAIN turns /\ turns'[active[a]] = r /\ DOMAIN turns' = DOMAIN turns
         /\ \A u \in DOMAIN turns : u # active[a] => turns'[u] = turns[u]
         /\ turns[active[a]].agent = a
<1>1. active[a] \in DOMAIN turns /\ turns[active[a]].agent = a
  BY DEF TraceInv, Placed
<1>2. /\ turns' \in Seq(Turn) /\ DOMAIN turns' = DOMAIN turns /\ turns'[active[a]] = r
      /\ \A u \in DOMAIN turns : u # active[a] => turns'[u] = turns[u]
  BY <1>1, TurnReplaced DEF TraceInv
<1>3. TurnsOK'
  BY <1>2 DEF TraceInv, TurnsOK
<1>4. \A b \in Agents \ {a} : active[b] # 0 => active[b] \in DOMAIN turns /\ active[b] # active[a]
  BY <1>1 DEF TraceInv, Placed
<1>5. Owned'
  <2> SUFFICES ASSUME NEW i \in incidents', ~disposed'
               PROVE  \E b \in Agents : Waits(i, b)'
    BY DEF Owned
  <2>1. PICK b \in Agents \ {a} : Waits(i, b)
    BY OthersWait
  <2>2. turns'[active[b]] = turns[active[b]]
    BY <2>1, <1>2, <1>4 DEF Waits
  <2> QED
    BY <2>1, <2>2, WaitsOn
<1>6. \A b \in Agents : active'[b] # 0 =>
        active'[b] \in DOMAIN turns' /\ turns'[active'[b]].agent = b
  BY <1>1, <1>2, <1>4 DEF TraceInv, Placed
<1> QED
  BY <1>1, <1>2, <1>3, <1>5, <1>6

\* A token or a tool result: the turn goes on, with its root span open or not as before.
LEMMA GoesOnStep ==
  ASSUME TraceInv, NEW a \in Agents, active[a] # 0, ~turns[active[a]].ended, NEW r \in Turn,
         r.agent = a, r.sid = turns[active[a]].sid, ~r.ended,
         "send" \in r.open => "send" \in turns[active[a]].open,
         turns' = [turns EXCEPT ![active[a]] = r], incidents' = T!Recovered(active[a]),
         UNCHANGED <<active, frames, disposed>>
  PROVE  TraceInv'
<1> DEFINE t == active[a]
<1>1. active \in [Agents -> Nat]
  BY DEF TraceInv, TurnsOK
<1>2. /\ TurnsOK' /\ Owned'
      /\ \A b \in Agents : active'[b] # 0 =>
           active'[b] \in DOMAIN turns' /\ turns'[active'[b]].agent = b
      /\ t \in DOMAIN turns /\ turns'[t] = r /\ DOMAIN turns' = DOMAIN turns
      /\ \A u \in DOMAIN turns : u # t => turns'[u] = turns[u]
      /\ turns[t].agent = a
  BY <1>1, HeardOf
<1>3. \A u \in DOMAIN turns : turns'[u].agent = turns[u].agent
  BY <1>2
<1>4. t \notin frames
  BY DEF TraceInv, Placed
<1>5. Placed'
  BY <1>2, <1>4 DEF TraceInv, Placed
<1>6. T!TreesClosed'
  BY <1>2 DEF TraceInv, T!TreesClosed
<1>7. T!LatestActive'
  BY <1>2, <1>3 DEF TraceInv, T!LatestActive
<1> QED
  BY <1>2, <1>5, <1>6, <1>7 DEF TraceInv

LEMMA FirstTokenStep ==
  ASSUME TraceInv, NEW a \in Agents, T!ChatFirstToken(a)
  PROVE  TraceInv'
<1> DEFINE t == active[a]
           o == (turns[t].open \ {"request"}) \cup {"stream"}
           c == T!Cleared(turns[t])
           r == [c EXCEPT !.first = TRUE, !.open = o]
<1>1. t # 0 /\ ~turns[t].ended /\ t \in DOMAIN turns /\ turns[t].agent = a
  BY DEF T!ChatFirstToken, TraceInv, Placed
<1>2. turns[t] \in Turn
  BY <1>1, TurnsTyped DEF TraceInv
<1>3. Alike(turns[t], c)
  BY <1>2, ClearedAlike
<1>14. incidents' = T!Recovered(t) /\ UNCHANGED <<active, frames, disposed>>
  BY DEF T!ChatFirstToken
<1>6. c \in Turn /\ c.agent = a /\ c.sid = turns[t].sid /\ ~c.ended
  BY <1>1, <1>3 DEF Alike
<1>5. turns' = [turns EXCEPT ![t] = r]
  BY DEF T!ChatFirstToken
<1> HIDE DEF c
<1>7. o \in SUBSET Spans
  BY <1>2 DEF Turn, Spans
<1> HIDE DEF o
<1>8. [c EXCEPT !.first = TRUE] \in Turn
  BY <1>6 DEF Turn
<1>9. [[c EXCEPT !.first = TRUE] EXCEPT !.open = o] \in Turn
  BY <1>7, <1>8 DEF Turn
<1>10. r \in Turn
  BY <1>9
<1>11. r.agent = a /\ r.sid = turns[t].sid /\ ~r.ended /\ r.open = o
  BY <1>6 DEF Turn
<1>12. "send" \in o => "send" \in turns[t].open
  BY DEF o
<1> HIDE DEF r
<1> QED
  BY <1>1, <1>5, <1>10, <1>11, <1>12, <1>14, GoesOnStep

LEMMA ToolResultStep ==
  ASSUME TraceInv, NEW a \in Agents, T!ChatToolResult(a)
  PROVE  TraceInv'
<1> DEFINE t == active[a]
           c == T!Cleared(turns[t])
<1>1. t # 0 /\ ~turns[t].ended /\ t \in DOMAIN turns /\ turns[t].agent = a
  BY DEF T!ChatToolResult, TraceInv, Placed
<1>2. turns[t] \in Turn
  BY <1>1, TurnsTyped DEF TraceInv
<1>3. Alike(turns[t], c)
  BY <1>2, ClearedAlike
<1>4. turns' = [turns EXCEPT ![t] = c] /\ incidents' = T!Recovered(t) /\ UNCHANGED <<active, frames, disposed>>
  BY DEF T!ChatToolResult
<1>5. c \in Turn /\ c.agent = a /\ c.sid = turns[t].sid /\ ~c.ended /\ c.open = turns[t].open
  BY <1>1, <1>3 DEF Alike
<1> HIDE DEF c
<1> QED
  BY <1>1, <1>4, <1>5, GoesOnStep

LEMMA TurnEndStep ==
  ASSUME TraceInv, NEW a \in Agents, NEW hidden \in BOOLEAN, T!ChatTurnEnd(a, hidden)
  PROVE  TraceInv'
<1> DEFINE t == active[a]
           o == IF hidden /\ ~disposed THEN {} ELSE {"send", "render"}
           c == T!Cleared(turns[t])
           r == [c EXCEPT !.ended = TRUE, !.open = o]
<1>1. t # 0 /\ ~turns[t].ended /\ t \in DOMAIN turns /\ turns[t].agent = a
  BY DEF T!ChatTurnEnd, TraceInv, Placed
<1>2. turns[t] \in Turn
  BY <1>1, TurnsTyped DEF TraceInv
<1>3. c \in Turn /\ c.agent = a /\ c.sid = turns[t].sid
  BY <1>1, <1>2, ClearedAlike DEF Alike
<1>4. /\ turns' = [turns EXCEPT ![t] = r] /\ incidents' = T!Recovered(t) /\ disposed' = disposed
      /\ frames' = IF hidden THEN frames ELSE frames \cup {t}
      /\ active' = IF hidden /\ ~disposed THEN T!Without(active, t) ELSE active
  BY DEF T!ChatTurnEnd
<1> HIDE DEF c
<1>5. o \in SUBSET Spans
  BY DEF Spans
<1> HIDE DEF o
<1>6. [c EXCEPT !.ended = TRUE] \in Turn
  BY <1>3 DEF Turn
<1>7. [[c EXCEPT !.ended = TRUE] EXCEPT !.open = o] \in Turn
  BY <1>5, <1>6 DEF Turn
<1>8. r \in Turn
  BY <1>7
<1>9. r.agent = a /\ r.sid = turns[t].sid /\ r.ended /\ r.open = o
  BY <1>3 DEF Turn
<1> HIDE DEF r
<1>10. \A b \in Agents \ {a} : active[b] # t
  BY <1>1 DEF TraceInv, Placed
<1>11. /\ active' \in [Agents -> Nat] /\ active'[a] \in {0, t}
       /\ \A b \in Agents \ {a} : active'[b] = active[b]
  BY <1>4, <1>10 DEF TraceInv, TurnsOK, T!Without
<1>12. /\ TurnsOK' /\ Owned'
       /\ \A b \in Agents : active'[b] # 0 =>
            active'[b] \in DOMAIN turns' /\ turns'[active'[b]].agent = b
       /\ turns'[t] = r /\ DOMAIN turns' = DOMAIN turns
       /\ \A u \in DOMAIN turns : u # t => turns'[u] = turns[u]
  BY <1>1, <1>4, <1>8, <1>9, <1>11, HeardOf
<1>13. t \notin frames
  BY <1>1 DEF TraceInv, Placed
<1>14. Placed'
  BY <1>1, <1>4, <1>9, <1>12 DEF TraceInv, Placed
<1>15. T!TreesClosed'
  <2> SUFFICES ASSUME NEW u \in DOMAIN turns', turns'[u].ended, ~disposed'
               PROVE  \/ turns'[u].open = {} /\ u \notin frames'
                      \/ turns'[u].open = {"send", "render"} /\ u \in frames'
    BY DEF T!TreesClosed
  <2>1. CASE u = t
    BY <2>1, <1>4, <1>9, <1>12, <1>13 DEF o
  <2>2. CASE u # t
    BY <2>2, <1>4, <1>12 DEF TraceInv, T!TreesClosed
  <2> QED
    BY <2>1, <2>2
<1>16. \A u \in DOMAIN turns : turns'[u].agent = turns[u].agent
  BY <1>1, <1>9, <1>12
<1>17. T!LatestActive'
  <2> SUFFICES ASSUME NEW u \in DOMAIN turns',
                      \A v \in DOMAIN turns' : turns'[v].agent = turns'[u].agent => v <= u,
                      "send" \in turns'[u].open, ~disposed'
               PROVE  active'[turns'[u].agent] = u
    BY DEF T!LatestActive
  <2>1. CASE u = t
    BY <2>1, <1>1, <1>4, <1>9, <1>12 DEF o
  <2>2. CASE u # t
    <3>1. active[turns[u].agent] = u /\ u \in DOMAIN turns
      BY <2>2, <1>4, <1>12, <1>16 DEF TraceInv, T!LatestActive
    <3>2. turns[u].agent \in Agents
      BY <3>1, TurnsTyped DEF TraceInv, Turn
    <3>3. turns[u].agent # a
      BY <2>2, <3>1
    <3> QED
      BY <3>1, <3>2, <3>3, <1>11, <1>16
  <2> QED
    BY <2>1, <2>2
<1> QED
  BY <1>12, <1>14, <1>15, <1>17 DEF TraceInv

LEMMA FrameStep ==
  ASSUME TraceInv, NEW t \in frames, T!FrameFires(t)
  PROVE  TraceInv'
<1>1. t \in DOMAIN turns /\ turns[t].ended
  BY DEF TraceInv, Placed
<1>2. CASE disposed
  <2>1. UNCHANGED <<turns, active, incidents, disposed>> /\ frames' = frames \ {t}
    BY <1>2 DEF T!FrameFires
  <2>2. TurnsOK' /\ Placed' /\ Owned'
    BY <2>1, <1>2 DEF TraceInv, TurnsOK, Placed, Owned
  <2>3. T!TreesClosed' /\ T!LatestActive'
    BY <2>1, <1>2 DEF T!TreesClosed, T!LatestActive
  <2> QED
    BY <2>2, <2>3 DEF TraceInv
<1>3. CASE ~disposed
  <2> DEFINE r == [turns[t] EXCEPT !.open = @ \ {"render", "send"}]
  <2>1. turns[t] \in Turn
    BY <1>1, TurnsTyped DEF TraceInv
  <2>2. r \in Turn /\ r.agent = turns[t].agent /\ r.ended /\ r.open = turns[t].open \ {"render", "send"}
    BY <1>1, <2>1 DEF Turn
  <2>3. /\ turns' = [turns EXCEPT ![t] = r] /\ active' = T!Without(active, t)
        /\ UNCHANGED <<incidents, disposed>> /\ frames' = frames \ {t}
    BY <1>3 DEF T!FrameFires
  <2> HIDE DEF r
  <2>4. /\ turns' \in Seq(Turn) /\ DOMAIN turns' = DOMAIN turns /\ turns'[t] = r
        /\ \A u \in DOMAIN turns : u # t => turns'[u] = turns[u]
    BY <1>1, <2>2, <2>3, TurnReplaced DEF TraceInv
  <2>5. /\ active' \in [Agents -> Nat]
        /\ \A b \in Agents : active'[b] = IF active[b] = t THEN 0 ELSE active[b]
    BY <2>3 DEF TraceInv, TurnsOK, T!Without
  <2>6. TurnsOK'
    BY <2>3, <2>4, <2>5 DEF TraceInv, TurnsOK
  <2>7. Placed'
    BY <2>2, <2>3, <2>4, <2>5 DEF TraceInv, Placed
  <2>8. Owned'
    <3> SUFFICES ASSUME NEW i \in incidents', ~disposed'
                 PROVE  \E b \in Agents : Waits(i, b)'
      BY DEF Owned
    <3>1. PICK b \in Agents : Waits(i, b)
      BY <1>3, <2>3 DEF TraceInv, Owned
    <3>2. active[b] \in DOMAIN turns /\ active[b] # t
      BY <3>1, <1>1 DEF TraceInv, Placed, Waits
    <3> QED
      BY <3>1, <3>2, <2>4, <2>5, WaitsOn
  <2>9. r.open = {}
    BY <1>1, <1>3, <2>2 DEF TraceInv, T!TreesClosed
  <2>10. T!TreesClosed'
    <3> SUFFICES ASSUME NEW u \in DOMAIN turns', turns'[u].ended, ~disposed'
                 PROVE  \/ turns'[u].open = {} /\ u \notin frames'
                        \/ turns'[u].open = {"send", "render"} /\ u \in frames'
      BY DEF T!TreesClosed
    <3> QED
      BY <2>3, <2>4, <2>9 DEF TraceInv, T!TreesClosed
  <2>11. \A u \in DOMAIN turns : turns'[u].agent = turns[u].agent
    BY <2>2, <2>4
  <2>12. T!LatestActive'
    <3> SUFFICES ASSUME NEW u \in DOMAIN turns',
                        \A v \in DOMAIN turns' : turns'[v].agent = turns'[u].agent => v <= u,
                        "send" \in turns'[u].open, ~disposed'
                 PROVE  active'[turns'[u].agent] = u
      BY DEF T!LatestActive
    <3>1. u # t
      BY <2>4, <2>9
    <3>2. active[turns[u].agent] = u /\ u \in DOMAIN turns
      BY <3>1, <2>3, <2>4, <2>11 DEF TraceInv, T!LatestActive
    <3>3. turns[u].agent \in Agents
      BY <3>2, TurnsTyped DEF TraceInv, Turn
    <3> QED
      BY <3>1, <3>2, <3>3, <2>5, <2>11
  <2> QED
    BY <2>6, <2>7, <2>8, <2>10, <2>12 DEF TraceInv
<1> QED
  BY <1>2, <1>3

LEMMA StallStep ==
  ASSUME TraceInv, NEW t \in DOMAIN turns, NEW g, NEW thrown \in BOOLEAN, T!StallFires(t, g, thrown)
  PROVE  TraceInv'
<1>1. CASE T!Live(t, g)
  <2> DEFINE s == [turns[t] EXCEPT !.stalls = @ + 1]
             r == T!Armed(s, thrown)
             a == turns[t].agent
  <2>1. turns[t] \in Turn /\ a \in Agents
    BY TurnsTyped DEF TraceInv, Turn
  <2>2. s \in Turn /\ s.agent = a /\ s.sid = turns[t].sid /\ s.open = turns[t].open
        /\ s.first = turns[t].first /\ s.ended = turns[t].ended /\ s.stalls = turns[t].stalls + 1
    BY <2>1 DEF Turn
  <2>3. turns[t].stalls \in Nat
    BY <2>1 DEF Turn
  <2>4. incidents' = incidents \cup {T!Scope(t)} /\ UNCHANGED <<active, frames, disposed>>
    BY <1>1 DEF T!StallFires
  <2>17. turns' = [turns EXCEPT ![t] = r]
    BY <1>1 DEF T!StallFires
  <2>5. ~disposed /\ active[a] = t /\ ~turns[t].first /\ ~turns[t].ended
    BY <1>1 DEF T!Live
  <2> HIDE DEF s
  <2>6. Alike(s, r)
    BY <2>2, ArmedAlike
  <2>7. /\ r \in Turn /\ r.agent = a /\ r.sid = turns[t].sid /\ r.open = turns[t].open
        /\ ~r.first /\ ~r.ended /\ r.stalls > 0
    BY <2>2, <2>3, <2>5, <2>6 DEF Alike
  <2> HIDE DEF r
  <2>8. /\ turns' \in Seq(Turn) /\ DOMAIN turns' = DOMAIN turns /\ turns'[t] = r
        /\ \A u \in DOMAIN turns : u # t => turns'[u] = turns[u]
    BY <2>7, <2>17, TurnReplaced DEF TraceInv
  <2>18. r.ended = turns[t].ended
    <3>1. turns[t].ended \in BOOLEAN /\ r.ended \in BOOLEAN
      BY <2>1, <2>7 DEF Turn
    <3> QED
      BY <3>1, <2>5, <2>7
  <2>19. r.agent = turns[t].agent
    BY <2>7
  <2>9. \A u \in DOMAIN turns : /\ turns'[u].agent = turns[u].agent /\ turns'[u].open = turns[u].open
                                 /\ turns'[u].ended = turns[u].ended /\ turns'[u].sid = turns[u].sid
    <3> SUFFICES ASSUME NEW u \in DOMAIN turns
                 PROVE  /\ turns'[u].agent = turns[u].agent /\ turns'[u].open = turns[u].open
                        /\ turns'[u].ended = turns[u].ended /\ turns'[u].sid = turns[u].sid
      OBVIOUS
    <3>1. CASE u = t
      BY <3>1, <2>7, <2>8, <2>18, <2>19
    <3>2. CASE u # t
      BY <3>2, <2>8
    <3> QED
      BY <3>1, <3>2
  <2>10. TurnsOK'
    BY <2>4, <2>8 DEF TraceInv, TurnsOK
  <2>11. Placed'
    BY <2>4, <2>8, <2>9 DEF TraceInv, Placed
  <2>12. t # 0
    BY TurnsTyped DEF TraceInv
  <2>14. Owned'
    <3> SUFFICES ASSUME NEW i \in incidents'
                 PROVE  \E b \in Agents : Waits(i, b)'
      BY DEF Owned
    <3>1. CASE i = T!Scope(t)
      <4>1. PICK b \in Agents : b = turns[t].agent
        BY <2>1
      <4>2. Waits(i, b)'
        BY <3>1, <4>1, <2>4, <2>5, <2>7, <2>8, <2>9, <2>12 DEF Waits, T!Scope
      <4> QED
        BY <4>2
    <3>2. CASE i # T!Scope(t)
      <4>1. PICK b \in Agents : Waits(i, b)
        BY <3>2, <2>4, <2>5 DEF TraceInv, Owned
      <4>2. active[b] \in DOMAIN turns /\ active[b] # t
        BY <4>1, <3>2 DEF TraceInv, Placed, Waits
      <4> QED
        BY <4>1, <4>2, <2>4, <2>8, WaitsOn
    <3> QED
      BY <3>1, <3>2
  <2>15. T!TreesClosed'
    BY <2>4, <2>8, <2>9 DEF TraceInv, T!TreesClosed
  <2>16. T!LatestActive'
    BY <2>4, <2>8, <2>9 DEF TraceInv, T!LatestActive
  <2> QED
    BY <2>10, <2>11, <2>14, <2>15, <2>16 DEF TraceInv
<1>2. CASE ~T!Live(t, g)
  <2>1. UNCHANGED <<turns, active, frames, incidents, disposed>>
    BY <1>2 DEF T!StallFires
  <2>2. TurnsOK' /\ Placed' /\ Owned'
    BY <2>1 DEF TraceInv, TurnsOK, Placed, Owned, Waits, T!Scope
  <2>3. T!TreesClosed' /\ T!LatestActive'
    BY <2>1 DEF TraceInv, T!TreesClosed, T!LatestActive
  <2> QED
    BY <2>2, <2>3 DEF TraceInv
<1> QED
  BY <1>1, <1>2

LEMMA DisposeStep ==
  ASSUME TraceInv, T!Dispose
  PROVE  TraceInv'
<1>1. /\ Len(turns) \in Nat /\ DOMAIN turns = 1..Len(turns)
      /\ \A t \in DOMAIN turns : turns[t] \in Turn
  BY TurnsTyped DEF TraceInv
<1>2. /\ DOMAIN turns' = DOMAIN turns
      /\ \A t \in DOMAIN turns : turns'[t] = turns[t] \/ Alike(turns[t], turns'[t])
  BY <1>1, ClearedAlike DEF T!Dispose
<1>3. \A t \in DOMAIN turns : turns'[t] \in Turn /\ turns'[t].ended = turns[t].ended
  BY <1>1, <1>2 DEF Alike
<1>4. turns' \in Seq(Turn)
  <2>1. turns' \in [1..Len(turns) -> Turn]
    BY <1>1, <1>3 DEF T!Dispose
  <2> QED
    BY <1>1, <2>1, SeqDef
<1>5. disposed' /\ disposed' \in BOOLEAN /\ active' = [a \in Agents |-> 0] /\ frames' = frames
  BY DEF T!Dispose
<1>6. TurnsOK'
  BY <1>4, <1>5 DEF TurnsOK
<1>7. Placed' /\ Owned'
  BY <1>2, <1>3, <1>5 DEF TraceInv, Placed, Owned
<1>8. T!TreesClosed' /\ T!LatestActive'
  BY <1>5 DEF T!TreesClosed, T!LatestActive
<1> QED
  BY <1>6, <1>7, <1>8 DEF TraceInv

LEMMA StepTrace ==
  ASSUME TraceInv, [T!Next]_(T!traceVars)
  PROVE  TraceInv'
<1>1. ASSUME NEW a \in Agents, NEW sid \in TraceSids, NEW thrown \in BOOLEAN, T!BeginChatTurn(a, sid, thrown)
      PROVE  TraceInv'
  BY <1>1, BeginStep
<1>2. ASSUME NEW a \in Agents, T!ChatFirstToken(a) \/ T!ChatToolResult(a) PROVE TraceInv'
  BY <1>2, FirstTokenStep, ToolResultStep
<1>3. ASSUME NEW a \in Agents, NEW hidden \in BOOLEAN, T!ChatTurnEnd(a, hidden) PROVE TraceInv'
  BY <1>3, TurnEndStep
<1>4. ASSUME NEW t \in frames, T!FrameFires(t) PROVE TraceInv'
  BY <1>4, FrameStep
<1>5. ASSUME NEW t \in DOMAIN turns, T!Timer(t) PROVE TraceInv'
  BY <1>5, StallStep DEF T!Timer
<1>6. CASE T!Dispose
  BY <1>6, DisposeStep
<1>7. CASE UNCHANGED T!traceVars
  BY <1>7 DEF TraceInv, TurnsOK, Placed, Owned, Waits, T!Scope, T!TreesClosed, T!LatestActive, T!traceVars
<1> QED
  BY <1>1, <1>2, <1>3, <1>4, <1>5, <1>6, <1>7 DEF T!Next

\* Incidents belong to the turn their agent waits for, ended turns close their spans, and
\* the latest turn of an agent stays active until it is painted (chat-turn-trace.ts:
\* resolveStall, armStall, chatTurnEnd), for any agents, sessions and bounds, of the recorder
\* alone and beside the stream.
THEOREM TraceIsSafe == (T!Spec => []TraceSafe) /\ (MCSpec => []TraceSafe)
<1>1. T!Init => TraceInv
  BY InitTrace
<1>2. TraceInv /\ [T!Next]_(T!traceVars) => TraceInv'
  BY StepTrace
<1>3. TraceInv => TraceSafe
  BY DEF TraceInv, TraceSafe, T!TraceSafe, Owned, T!IncidentsOwned, Waits
<1>4. T!Spec => []TraceSafe
  BY <1>1, <1>2, <1>3, PTL DEF T!Spec
<1>5. MCInit => TraceInv
  BY <1>1 DEF MCInit
<1>6. TraceInv /\ [MCNext]_mcVars => TraceInv'
  <2>1. [MCNext]_mcVars => [T!Next]_(T!traceVars)
    BY DEF MCNext, Stream, Trace, Work, Rows, mcVars, traceVars, T!traceVars
  <2> QED
    BY <2>1, <1>2
<1>7. MCSpec => []TraceSafe
  BY <1>5, <1>6, <1>3, PTL DEF MCSpec
<1> QED
  BY <1>4, <1>7

-------------------------------------------------------------------------------
\* The system rows: what an event says.

EventFits(e) ==
  /\ e = [type |-> e.type, from |-> e.from, to |-> e.to, arg |-> e.arg, ts |-> e.ts]
  /\ e.from \in RowAgents
  /\ \/ e.type = "delegation" /\ e.to = Viewer /\ e.from # e.to /\ e.arg \in {"running", "returned", "unknown"}
     \/ e.type = "message" /\ e.to = Viewer /\ e.from # e.to /\ e.arg = "resume"
     \/ e.type = "message" /\ e.to \in RowAgents /\ e.from # e.to /\ e.arg = "word"
     \/ e.type = "mail" /\ e.to \in RowAgents /\ e.from # e.to /\ e.arg = "prompt"
     \/ /\ e.to = None
        /\ \/ e.type = "compaction" /\ e.arg \in {"started", "failed"}
           \/ e.type = "error" /\ e.arg \in {"error", "private"}
           \/ e.type = "warning" /\ e.arg = "warning"
           \/ e.type = "retry" /\ e.arg \in {"again", None}
           \/ e.type = "crash" /\ e.arg \in {"error", "message"}
           \/ e.type = "media" /\ e.arg = "file"
           \/ e.type \in {"start", "step", "end"} /\ e.arg = None

\* The row an event has in the slot of x as it comes, None when it has none.
LiveAt(x, e) ==
  IF e.type = "mail"
  THEN IF x \in {e.from, e.to} THEN SR!Row(None, e, None, IF x = e.to THEN "incoming" ELSE "outgoing") ELSE None
  ELSE IF x = SR!Target(e) THEN SR!LiveRow(e) ELSE None

RowOf(x, e, row) == row # None /\ row \in {LiveAt(x, e), SR!FormatEvent(x, e)}

\* An event that is told alike has one row.
LEMMA ToldAlike ==
  ASSUME NEW e, EventFits(e), NEW x \in RowAgents, SR!Alike(x, e), x \in SR!Concerns(e)
  PROVE  LiveAt(x, e) = SR!FormatEvent(x, e)
<1>0. Viewer \in RowAgents /\ None \notin RowAgents /\ None # "warning" /\ e.arg # "file"
  BY RowAssumption DEF SR!Alike, EventFits
<1>1. CASE e.type \in {"delegation", "message", "mail"}
  BY <1>0, <1>1, RowAssumption
  DEF EventFits, LiveAt, SR!Alike, SR!Concerns, SR!FormatEvent, SR!LiveRow, SR!Target, SR!IsCard,
     SR!DelegationRow, SR!Visible
<1>2. CASE e.type \notin {"delegation", "message", "mail"}
  <2>1. e.to = None /\ x = e.from /\ ~SR!IsCard(e) /\ SR!Target(e) = e.from
    BY <1>0, <1>2, RowAssumption DEF EventFits, SR!Concerns, SR!IsCard, SR!Target
  <2> QED
    BY <1>0, <1>2, <2>1, RowAssumption DEF EventFits, LiveAt, SR!Alike, SR!FormatEvent, SR!LiveRow, SR!Visible
<1> QED
  BY <1>1, <1>2

LEMMA NotConcerned ==
  ASSUME NEW e, EventFits(e), NEW x \in RowAgents, x \notin SR!Concerns(e)
  PROVE  LiveAt(x, e) = None /\ x # e.from
<1>1. x # e.from /\ x # e.to
  BY DEF SR!Concerns
<1>2. x # SR!Target(e)
  BY <1>1 DEF SR!Target
<1> QED
  BY <1>1, <1>2 DEF LiveAt

LEMMA NotShown ==
  ASSUME NEW e, EventFits(e), NEW x \in RowAgents, SR!Alike(x, e), x \in SR!Concerns(e), x \notin SR!Shown(e)
  PROVE  SR!FormatEvent(x, e) = None
<1>1. e.type # "mail"
  BY DEF SR!Shown
<1>2. LiveAt(x, e) = None
  BY <1>1 DEF SR!Shown, LiveAt
<1> QED
  BY <1>2, ToldAlike

\* What a row shows of its event.
RowIdentity(e) == IF e.type = "delegation" THEN <<"delegation", Viewer>>
                  ELSE IF e.type = "compaction" THEN <<"compaction", e.from>> ELSE None

LEMMA RowForm ==
  ASSUME NEW e, EventFits(e), NEW x \in RowAgents, NEW row, RowOf(x, e, row)
  PROVE  /\ row = [id |-> row.id, text |-> <<e.from, e.arg>>, level |-> row.level, dir |-> row.dir]
         /\ row.id = RowIdentity(e)
         /\ SR!Visible(e) /\ e.type \notin {"start", "step", "end"}
         /\ e.type = "delegation" => e.arg # "unknown"
<1>1. /\ SR!Visible(e) /\ e.type \notin {"start", "step", "end"}
      /\ e.type = "delegation" => e.arg # "unknown"
  <2>1. CASE e.type \in {"start", "step", "end"}
    <3>1. ~SR!IsCard(e)
      BY <2>1, RowAssumption DEF EventFits, SR!IsCard
    <3>2. LiveAt(x, e) = None /\ SR!FormatEvent(x, e) = None
      BY <2>1, <3>1 DEF LiveAt, SR!FormatEvent, SR!LiveRow
    <3> QED
      BY <3>2 DEF RowOf
  <2>2. CASE e.type = "mail"
    BY <2>2, RowAssumption DEF EventFits, SR!Visible
  <2>3. CASE e.type \notin {"mail", "start", "step", "end"}
    <3>1. ~SR!Visible(e) => LiveAt(x, e) = None /\ SR!FormatEvent(x, e) = None
      <4> SUFFICES ASSUME ~SR!Visible(e) PROVE LiveAt(x, e) = None /\ SR!FormatEvent(x, e) = None
        OBVIOUS
      <4>1. e.arg = "private"
        BY DEF SR!Visible
      <4>2. SR!LiveRow(e) = None
        BY <4>1 DEF SR!Visible, SR!LiveRow, SR!IsCard
      <4>3. SR!FormatEvent(x, e) = None
        BY <4>1 DEF SR!Visible, SR!FormatEvent, SR!IsCard
      <4> QED
        BY <2>3, <4>2, <4>3 DEF LiveAt
    <3>2. ASSUME e.type = "delegation", e.arg = "unknown", SR!Visible(e)
          PROVE  LiveAt(x, e) = None /\ SR!FormatEvent(x, e) = None
      <4>1. SR!IsCard(e) /\ SR!DelegationRow(e) = None
        BY <3>2 DEF SR!IsCard, SR!DelegationRow
      <4> QED
        BY <2>3, <3>2, <4>1 DEF LiveAt, SR!FormatEvent, SR!LiveRow
    <3> QED
      BY <2>3, <3>1, <3>2 DEF RowOf
  <2> QED
    BY <2>1, <2>2, <2>3
<1>2. \E level, dir : row = [id |-> RowIdentity(e), text |-> <<e.from, e.arg>>, level |-> level, dir |-> dir]
  <2>1. CASE e.type = "delegation"
    BY <1>1, <2>1, RowAssumption
    DEF EventFits, RowOf, LiveAt, SR!FormatEvent, SR!LiveRow, SR!Visible, SR!IsCard, SR!DelegationRow, SR!Row, RowIdentity
  <2>2. CASE e.type \in {"message", "mail"}
    BY <1>1, <2>2, RowAssumption
    DEF EventFits, RowOf, LiveAt, SR!FormatEvent, SR!LiveRow, SR!Visible, SR!IsCard, SR!DelegationRow, SR!Row, RowIdentity
  <2>3. CASE e.type \notin {"delegation", "message", "mail"}
    <3>1. e.to = None /\ ~SR!IsCard(e)
      BY <2>3, RowAssumption DEF EventFits, SR!IsCard
    <3>2. row \in {SR!LiveRow(e), SR!FormatEvent(x, e)} /\ row # None
      BY <2>3 DEF RowOf, LiveAt
    <3>3. CASE e.type = "compaction"
      <4>1. RowIdentity(e) = <<"compaction", e.from>>
        BY <3>3 DEF RowIdentity
      <4>2. row = SR!CompactionRow(e)
        BY <1>1, <3>1, <3>2, <3>3 DEF SR!LiveRow, SR!FormatEvent
      <4> QED
        BY <4>1, <4>2 DEF SR!CompactionRow, SR!Row
    <3>4. CASE e.type # "compaction"
      <4>1. RowIdentity(e) = None
        BY <2>3, <3>4 DEF RowIdentity
      <4> QED
        BY <1>1, <2>3, <3>1, <3>2, <3>4, <4>1, RowAssumption DEF EventFits, SR!LiveRow, SR!FormatEvent, SR!Row
    <3> QED
      BY <3>3, <3>4
  <2> QED
    BY <2>1, <2>2, <2>3
<1> QED
  BY <1>1, <1>2

\* The text of a row tells whether it is compared, and whether it is a card.
LEMMA SameText ==
  ASSUME NEW x \in RowAgents, NEW e, EventFits(e), NEW row, RowOf(x, e, row),
         NEW f, EventFits(f), NEW other, RowOf(x, f, other), row.text = other.text
  PROVE  (SR!Alike(x, e) <=> SR!Alike(x, f)) /\ row.id = other.id
<1>1. /\ row.text = <<e.from, e.arg>> /\ row.id = RowIdentity(e)
      /\ e.type \notin {"start", "step", "end"}
      /\ e.type = "delegation" => e.arg # "unknown"
  BY RowForm
<1>2. /\ other.text = <<f.from, f.arg>> /\ other.id = RowIdentity(f)
      /\ f.type \notin {"start", "step", "end"}
      /\ f.type = "delegation" => f.arg # "unknown"
  BY RowForm
<1>3. e.from = f.from /\ e.arg = f.arg
  <2>1. <<e.from, e.arg>>[1] = e.from /\ <<f.from, f.arg>>[1] = f.from
    OBVIOUS
  <2>2. <<e.from, e.arg>>[2] = e.arg /\ <<f.from, f.arg>>[2] = f.arg
    OBVIOUS
  <2>3. <<e.from, e.arg>> = <<f.from, f.arg>>
    BY <1>1, <1>2
  <2> QED
    BY <2>1, <2>2, <2>3
<1>4. e.type = f.type \/ (e.type \in {"error", "crash"} /\ f.type \in {"error", "crash"} /\ e.arg = "error")
  <2>1. /\ \/ e.type = "delegation" /\ e.arg \in {"running", "returned"}
           \/ e.type = "message" /\ e.arg \in {"resume", "word"}
           \/ e.type = "mail" /\ e.arg = "prompt"
           \/ e.type = "compaction" /\ e.arg \in {"started", "failed"}
           \/ e.type = "error" /\ e.arg \in {"error", "private"}
           \/ e.type = "warning" /\ e.arg = "warning"
           \/ e.type = "retry" /\ e.arg \in {"again", None}
           \/ e.type = "crash" /\ e.arg \in {"error", "message"}
           \/ e.type = "media" /\ e.arg = "file"
    BY <1>1 DEF EventFits
  <2>2. /\ \/ f.type = "delegation" /\ e.arg \in {"running", "returned"}
           \/ f.type = "message" /\ e.arg \in {"resume", "word"}
           \/ f.type = "mail" /\ e.arg = "prompt"
           \/ f.type = "compaction" /\ e.arg \in {"started", "failed"}
           \/ f.type = "error" /\ e.arg \in {"error", "private"}
           \/ f.type = "warning" /\ e.arg = "warning"
           \/ f.type = "retry" /\ e.arg \in {"again", None}
           \/ f.type = "crash" /\ e.arg \in {"error", "message"}
           \/ f.type = "media" /\ e.arg = "file"
    BY <1>2, <1>3 DEF EventFits
  <2> QED
    BY <2>1, <2>2, RowAssumption
<1>5. CASE e.type = f.type
  <2>1. SR!IsCard(e) <=> SR!IsCard(f)
    BY <1>3, <1>5 DEF SR!IsCard
  <2>2. SR!IsCard(e) => e.to = f.to
    BY <1>3, <1>5, RowAssumption DEF SR!IsCard, EventFits
  <2> QED
    BY <1>1, <1>2, <1>3, <1>5, <2>1, <2>2 DEF SR!Alike, RowIdentity
<1>6. CASE e.type \in {"error", "crash"} /\ f.type \in {"error", "crash"} /\ e.arg = "error"
  BY <1>1, <1>2, <1>3, <1>6 DEF SR!Alike, SR!IsCard, RowIdentity
<1> QED
  BY <1>4, <1>5, <1>6

LEMMA SameCard ==
  ASSUME NEW x \in RowAgents, NEW e, EventFits(e), NEW row, RowOf(x, e, row),
         NEW f, EventFits(f), NEW other, RowOf(x, f, other), row.id = other.id, row.id # None
  PROVE  SR!Alike(x, e) <=> SR!Alike(x, f)
<1>1. row.id = RowIdentity(e) /\ other.id = RowIdentity(f)
  BY RowForm
<1>2. e.type \in {"delegation", "compaction"} /\ f.type = e.type
  <2>1. e.type \in {"delegation", "compaction"} /\ f.type \in {"delegation", "compaction"}
    BY <1>1 DEF RowIdentity
  <2>2. <<"delegation", Viewer>> # <<"compaction", e.from>> /\ <<"delegation", Viewer>> # <<"compaction", f.from>>
    OBVIOUS
  <2> QED
    BY <1>1, <2>1, <2>2 DEF RowIdentity
<1>3. CASE e.type = "delegation"
  BY <1>2, <1>3, RowAssumption DEF EventFits, SR!Alike, SR!IsCard
<1>4. CASE e.type = "compaction"
  BY <1>2, <1>4, RowAssumption DEF EventFits, SR!Alike, SR!IsCard
<1> QED
  BY <1>2, <1>3, <1>4

LEMMA DistilRounds ==
  ASSUME NEW x, NEW rows, Len(rows) \in Nat, NEW of, of = [agent |-> x, rows |-> rows]
  PROVE  \E g : /\ SR!Distilled(x, rows) = g[Len(rows)]
                /\ \A n \in 0..Len(rows) : RoundMade("distil", of, <<>>, n, g)
<1> DEFINE N == Len(rows)
<1> DEFINE body(g) == [n \in 0..N |-> IF n = 0 THEN <<>>
                                     ELSE IF SR!Compared(x, rows[n]) /\ (g[n - 1] # <<>> => SR!Last(g[n - 1]) # rows[n].row)
                                          THEN Append(g[n - 1], rows[n].row) ELSE g[n - 1]]
<1> DEFINE made == CHOOSE g : g = body(g)
<1>1. SR!Distilled(x, rows) = made[N]
  BY DEF SR!Distilled
<1>2. made = body(made)
  <2>1. PICK g : \A n \in 0..N : RoundMade("distil", of, <<>>, n, g)
    BY RoundsMade
  <2> DEFINE f == [n \in 0..N |-> g[n]]
  <2>2. ASSUME NEW n \in 0..N
        PROVE  f[n] = IF n = 0 THEN <<>>
                      ELSE IF SR!Compared(x, rows[n]) /\ (f[n - 1] # <<>> => SR!Last(f[n - 1]) # rows[n].row)
                           THEN Append(f[n - 1], rows[n].row) ELSE f[n - 1]
    <3>1. n # 0 => n - 1 \in 0..N
      OBVIOUS
    <3> QED
      BY <2>1, <3>1 DEF RoundMade, Round, Heard
  <2>3. f = body(f)
    <3> HIDE DEF f, made
    <3>1. PICK e : e = body(f)
      OBVIOUS
    <3>2. f = [n \in 0..N |-> g[n]]
      BY DEF f
    <3>3. \A n \in 0..N : f[n] = e[n]
      BY <2>2, <3>1
    <3>4. DOMAIN e = 0..N /\ e = [n \in 0..N |-> e[n]]
      BY <3>1
    <3>5. f = e
      BY <3>2, <3>3, <3>4, SameRounds
    <3> QED
      BY <3>1, <3>5
  <2> QED
    BY <2>3, Zenon
<1>3. \A n \in 0..N : RoundMade("distil", of, <<>>, n, made)
  <2>1. PICK g : g = made
    OBVIOUS
  <2>2. g = body(g)
    BY <1>2, <2>1
  <2> HIDE DEF made
  <2>3. \A n \in 0..N : g[n] = IF n = 0 THEN <<>>
                               ELSE IF SR!Compared(x, rows[n]) /\ (g[n - 1] # <<>> => SR!Last(g[n - 1]) # rows[n].row)
                                    THEN Append(g[n - 1], rows[n].row) ELSE g[n - 1]
    BY <2>2
  <2>4. \A n \in 0..N : RoundMade("distil", of, <<>>, n, g)
    BY <2>3 DEF RoundMade, Round, Heard
  <2> QED
    BY <2>1, <2>4
<1> QED
  BY <1>1, <1>3

ReplayOf(x, lg, n) ==
  LET at[k \in 0..n] == IF k = 0 THEN SR!NothingFed
                        ELSE IF x \in SR!Concerns(lg[k]) THEN SR!Fed(x, at[k - 1], lg[k]) ELSE at[k - 1]
  IN  at[n]

LEMMA ReplayRounds ==
  ASSUME NEW x, NEW lg, NEW N \in Nat, NEW of, of = [agent |-> x, log |-> lg]
  PROVE  \E g : /\ ReplayOf(x, lg, N) = g[N]
                /\ \A n \in 0..N : RoundMade("replay", of, SR!NothingFed, n, g)
<1> DEFINE body(g) == [n \in 0..N |-> IF n = 0 THEN SR!NothingFed
                                     ELSE IF x \in SR!Concerns(lg[n]) THEN SR!Fed(x, g[n - 1], lg[n]) ELSE g[n - 1]]
<1> DEFINE made == CHOOSE g : g = body(g)
<1>1. ReplayOf(x, lg, N) = made[N]
  BY DEF ReplayOf
<1>2. made = body(made)
  <2>1. PICK g : \A n \in 0..N : RoundMade("replay", of, SR!NothingFed, n, g)
    BY RoundsMade
  <2> DEFINE f == [n \in 0..N |-> g[n]]
  <2>2. ASSUME NEW n \in 0..N
        PROVE  f[n] = IF n = 0 THEN SR!NothingFed
                      ELSE IF x \in SR!Concerns(lg[n]) THEN SR!Fed(x, f[n - 1], lg[n]) ELSE f[n - 1]
    <3>1. n # 0 => n - 1 \in 0..N
      OBVIOUS
    <3> QED
      BY <2>1, <3>1 DEF RoundMade, Round
  <2>3. f = body(f)
    <3> HIDE DEF f, made
    <3>1. PICK e : e = body(f)
      OBVIOUS
    <3>2. f = [n \in 0..N |-> g[n]]
      BY DEF f
    <3>3. \A n \in 0..N : f[n] = e[n]
      BY <2>2, <3>1
    <3>4. DOMAIN e = 0..N /\ e = [n \in 0..N |-> e[n]]
      BY <3>1
    <3>5. f = e
      BY <3>2, <3>3, <3>4, SameRounds
    <3> QED
      BY <3>1, <3>5
  <2> QED
    BY <2>3, Zenon
<1>3. \A n \in 0..N : RoundMade("replay", of, SR!NothingFed, n, made)
  <2>1. PICK g : g = made
    OBVIOUS
  <2>2. g = body(g)
    BY <1>2, <2>1
  <2> HIDE DEF made
  <2>3. \A n \in 0..N : g[n] = IF n = 0 THEN SR!NothingFed
                               ELSE IF x \in SR!Concerns(lg[n]) THEN SR!Fed(x, g[n - 1], lg[n]) ELSE g[n - 1]
    BY <2>2
  <2>4. \A n \in 0..N : RoundMade("replay", of, SR!NothingFed, n, g)
    BY <2>3 DEF RoundMade, Round
  <2> QED
    BY <2>1, <2>4
<1> QED
  BY <1>1, <1>3

\* Rounds that do the same make the same.
AllMade(loop, of, base, N, g) == \A n \in 0..N : RoundMade(loop, of, base, n, g)
RoundsAgree(loop, of, of2, N) == \A n \in 1..N : \A v : Round(loop, of, n, v) = Round(loop, of2, n, v)

LEMMA MadeAlike ==
  ASSUME NEW loop, NEW of, NEW of2, NEW base, NEW N \in Nat, NEW g, NEW h,
         AllMade(loop, of, base, N, g), AllMade(loop, of2, base, N, h), RoundsAgree(loop, of, of2, N)
  PROVE  g[N] = h[N]
<1> DEFINE P == {n \in 0..N : g[n] = h[n]}
<1>1. 0 \in P
  BY DEF AllMade, RoundMade
<1>2. ASSUME NEW n \in 1..N, n - 1 \in P PROVE n \in P
  <2>1. n \in 0..N /\ n # 0 /\ g[n - 1] = h[n - 1]
    BY <1>2
  <2>2. g[n] = Round(loop, of, n, g[n - 1]) /\ h[n] = Round(loop, of2, n, h[n - 1])
    BY <2>1 DEF AllMade, RoundMade
  <2> QED
    BY <2>1, <2>2 DEF RoundsAgree
<1>3. \A n \in 0..N : n \in P
  <2> HIDE DEF P
  <2> QED
    BY <1>1, <1>2, Reached
<1> QED
  BY <1>3

LEMMA ReplaySame ==
  ASSUME NEW x, NEW lg, NEW lg2, NEW N \in Nat, \A n \in 1..N : lg[n] = lg2[n]
  PROVE  ReplayOf(x, lg, N) = ReplayOf(x, lg2, N)
<1>1. PICK of : of = [agent |-> x, log |-> lg]
  OBVIOUS
<1>2. PICK of2 : of2 = [agent |-> x, log |-> lg2]
  OBVIOUS
<1>3. PICK g : ReplayOf(x, lg, N) = g[N] /\ \A n \in 0..N : RoundMade("replay", of, SR!NothingFed, n, g)
  BY <1>1, ReplayRounds
<1>4. PICK h : ReplayOf(x, lg2, N) = h[N] /\ \A n \in 0..N : RoundMade("replay", of2, SR!NothingFed, n, h)
  BY <1>2, ReplayRounds
<1>5. RoundsAgree("replay", of, of2, N)
  BY <1>1, <1>2 DEF Round, RoundsAgree
<1>6. g[N] = h[N]
  <2>1. AllMade("replay", of, SR!NothingFed, N, g) /\ AllMade("replay", of2, SR!NothingFed, N, h)
    BY <1>3, <1>4 DEF AllMade
  <2> QED
    BY <1>5, <2>1, MadeAlike
<1> QED
  BY <1>3, <1>4, <1>6

LEMMA ReplayStep ==
  ASSUME NEW x, NEW lg, NEW N \in Nat
  PROVE  /\ ReplayOf(x, lg, 0) = SR!NothingFed
         /\ ReplayOf(x, lg, N + 1) = IF x \in SR!Concerns(lg[N + 1]) THEN SR!Fed(x, ReplayOf(x, lg, N), lg[N + 1])
                                     ELSE ReplayOf(x, lg, N)
<1>1. PICK of : of = [agent |-> x, log |-> lg]
  OBVIOUS
<1>2. PICK M : M = N + 1
  OBVIOUS
<1>3. M \in Nat /\ M \in 0..M /\ N \in 0..M /\ M # 0 /\ M - 1 = N /\ \A n \in 0..N : n \in 0..M
  BY <1>2
<1>4. PICK g : ReplayOf(x, lg, M) = g[M] /\ \A n \in 0..M : RoundMade("replay", of, SR!NothingFed, n, g)
  BY <1>1, <1>3, ReplayRounds
<1>5. PICK h : ReplayOf(x, lg, N) = h[N] /\ \A n \in 0..N : RoundMade("replay", of, SR!NothingFed, n, h)
  BY <1>1, ReplayRounds
<1>6. g[N] = h[N]
  <2>1. AllMade("replay", of, SR!NothingFed, N, g) /\ AllMade("replay", of, SR!NothingFed, N, h)
    BY <1>3, <1>4, <1>5 DEF AllMade
  <2>2. RoundsAgree("replay", of, of, N)
    BY DEF RoundsAgree
  <2> QED
    BY <2>1, <2>2, MadeAlike
<1>7. g[M] = Round("replay", of, M, g[N])
  BY <1>3, <1>4 DEF RoundMade
<1>8. ReplayOf(x, lg, M) = IF x \in SR!Concerns(lg[M]) THEN SR!Fed(x, ReplayOf(x, lg, N), lg[M]) ELSE ReplayOf(x, lg, N)
  BY <1>1, <1>4, <1>5, <1>6, <1>7 DEF Round
<1>9. ReplayOf(x, lg, 0) = SR!NothingFed
  <2>1. PICK f : ReplayOf(x, lg, 0) = f[0] /\ \A n \in 0..0 : RoundMade("replay", of, SR!NothingFed, n, f)
    BY <1>1, ReplayRounds
  <2> QED
    BY <2>1 DEF RoundMade
<1> QED
  BY <1>2, <1>8, <1>9

LEMMA DistilSame ==
  ASSUME NEW x, NEW s, NEW t, Len(s) \in Nat, Len(t) = Len(s),
         \A n \in 1..Len(s) : /\ SR!Compared(x, s[n]) <=> SR!Compared(x, t[n])
                              /\ SR!Compared(x, s[n]) => s[n].row = t[n].row
  PROVE  SR!Distilled(x, s) = SR!Distilled(x, t)
<1>0. PICK N : N = Len(s)
  OBVIOUS
<1>1. PICK of : of = [agent |-> x, rows |-> s]
  OBVIOUS
<1>2. PICK of2 : of2 = [agent |-> x, rows |-> t]
  OBVIOUS
<1>3. PICK g : SR!Distilled(x, s) = g[N] /\ \A n \in 0..N : RoundMade("distil", of, <<>>, n, g)
  BY <1>0, <1>1, DistilRounds
<1>4. PICK h : SR!Distilled(x, t) = h[N] /\ \A n \in 0..N : RoundMade("distil", of2, <<>>, n, h)
  BY <1>0, <1>2, DistilRounds
<1>5. RoundsAgree("distil", of, of2, N)
  BY <1>0, <1>1, <1>2 DEF Round, Heard, RoundsAgree
<1>6. g[N] = h[N]
  <2>1. AllMade("distil", of, <<>>, N, g) /\ AllMade("distil", of2, <<>>, N, h)
    BY <1>3, <1>4 DEF AllMade
  <2> QED
    BY <1>0, <1>5, <2>1, MadeAlike
<1> QED
  BY <1>3, <1>4, <1>6

LEMMA DistilGrown ==
  ASSUME NEW x, NEW s, IsSeq(s), NEW m, NEW t, IsGrown(t, s, m)
  PROVE  SR!Distilled(x, t) = Heard(x, SR!Distilled(x, s), m)
<1>0. PICK N : N = Len(s)
  OBVIOUS
<1>1. /\ Len(t) = N + 1 /\ N \in Nat /\ t[N + 1] = m /\ \A n \in 1..N : t[n] = s[n]
  BY <1>0, Grown
<1>2. PICK M : M = N + 1
  OBVIOUS
<1>3. M \in Nat /\ M \in 0..M /\ N \in 0..M /\ M # 0 /\ M - 1 = N /\ \A n \in 0..N : n \in 0..M
  BY <1>1, <1>2
<1>4. PICK of : of = [agent |-> x, rows |-> s]
  OBVIOUS
<1>5. PICK of2 : of2 = [agent |-> x, rows |-> t]
  OBVIOUS
<1>6. PICK g : SR!Distilled(x, s) = g[N] /\ \A n \in 0..N : RoundMade("distil", of, <<>>, n, g)
  BY <1>0, <1>1, <1>4, DistilRounds
<1>7. PICK h : SR!Distilled(x, t) = h[M] /\ \A n \in 0..M : RoundMade("distil", of2, <<>>, n, h)
  BY <1>1, <1>2, <1>3, <1>5, DistilRounds
<1>8. RoundsAgree("distil", of, of2, N)
  BY <1>1, <1>4, <1>5 DEF Round, RoundsAgree
<1>9. g[N] = h[N]
  <2>1. AllMade("distil", of, <<>>, N, g) /\ AllMade("distil", of2, <<>>, N, h)
    BY <1>3, <1>6, <1>7 DEF AllMade
  <2> QED
    BY <1>1, <1>8, <2>1, MadeAlike
<1>10. h[M] = Round("distil", of2, M, h[N])
  BY <1>3, <1>7 DEF RoundMade
<1> QED
  BY <1>1, <1>2, <1>5, <1>6, <1>7, <1>9, <1>10 DEF Round

LEMMA DistilNothing == ASSUME NEW x PROVE SR!Distilled(x, <<>>) = <<>>
<1>1. PICK s : s = <<>>
  OBVIOUS
<1>2. Len(s) = 0
  BY <1>1
<1>3. PICK of : of = [agent |-> x, rows |-> s]
  OBVIOUS
<1>4. PICK g : SR!Distilled(x, s) = g[0] /\ \A n \in 0..0 : RoundMade("distil", of, <<>>, n, g)
  BY <1>2, <1>3, DistilRounds
<1> QED
  BY <1>1, <1>4 DEF RoundMade

LEMMA RowMaxIs ==
  ASSUME NEW n \in Nat, NEW I, I \subseteq 1..n, I # {}
  PROVE  SR!Max(I) \in I /\ \A y \in I : SR!Max(I) >= y
<1>1. SR!Max(I) = V!Max(I)
  BY DEF SR!Max, V!Max
<1> QED
  BY <1>1, MaxIs

LEMMA SeqsEqual ==
  ASSUME NEW s, IsSeq(s), NEW t, IsSeq(t), Len(t) = Len(s), \A n \in DOMAIN s : t[n] = s[n]
  PROVE  t = s
<1>1. PICK N : N = Len(s)
  OBVIOUS
<1>2. N \in Nat /\ DOMAIN s = 1..N /\ s = [n \in 1..N |-> s[n]] /\ t = [n \in 1..N |-> t[n]]
  BY <1>1, SeqIs
<1> QED
  BY <1>2

LEMMA EmptyIs == ASSUME NEW s, IsSeq(s) PROVE s = <<>> <=> Len(s) = 0
<1>1. s = <<>> => Len(s) = 0
  BY Nothing
<1>2. ASSUME Len(s) = 0 PROVE s = <<>>
  <2>1. PICK t : t = <<>>
    OBVIOUS
  <2>2. IsSeq(t) /\ Len(t) = 0
    BY <2>1, Nothing
  <2>3. DOMAIN t = {}
    BY <2>1, Nothing
  <2> QED
    BY <1>2, <2>1, <2>2, <2>3, SeqsEqual
<1> QED
  BY <1>1, <1>2

LEMMA LastIs ==
  ASSUME NEW s, IsSeq(s), s # <<>>
  PROVE  Len(s) \in DOMAIN s /\ SR!Last(s) = s[Len(s)] /\ Len(s) - 1 \in Nat
<1>1. Len(s) \in Nat /\ DOMAIN s = 1..Len(s) /\ Len(s) # 0
  BY SeqIs, EmptyIs
<1> QED
  BY <1>1 DEF SR!Last

IsHeard(t, x, d, m) == t = Heard(x, d, m)

WellHeard(t, x, d, m) ==
  /\ IsSeq(t)
  /\ ~SR!Compared(x, m) => t = d
  /\ SR!Compared(x, m) => t # <<>> /\ SR!Last(t) = m.row
  /\ \A k \in DOMAIN t : (SR!Compared(x, m) /\ t[k] = m.row) \/ \E j \in DOMAIN d : t[k] = d[j]
  /\ \A j \in DOMAIN d : \E k \in DOMAIN t : t[k] = d[j]

LEMMA HeardIs ==
  ASSUME NEW x, NEW d, IsSeq(d), NEW m, NEW t, IsHeard(t, x, d, m)
  PROVE  WellHeard(t, x, d, m)
<1> USE DEF WellHeard
<1>1. CASE ~(SR!Compared(x, m) /\ (d # <<>> => SR!Last(d) # m.row))
  BY <1>1 DEF Heard, IsHeard
<1>2. CASE SR!Compared(x, m) /\ (d # <<>> => SR!Last(d) # m.row)
  <2>1. IsGrown(t, d, m.row)
    BY <1>2 DEF Heard, IsHeard, IsGrown
  <2>2. /\ IsSeq(t) /\ Len(t) = Len(d) + 1 /\ DOMAIN t = 1..Len(d) + 1
        /\ Len(d) \in Nat /\ DOMAIN d = 1..Len(d)
        /\ t[Len(d) + 1] = m.row
        /\ \A i \in DOMAIN d : t[i] = d[i]
    BY <2>1, Grown
  <2>3. t # <<>>
    BY <2>2, EmptyIs
  <2>4. SR!Last(t) = m.row
    BY <2>2 DEF SR!Last
  <2>5. \A k \in DOMAIN t : k = Len(d) + 1 \/ k \in DOMAIN d
    BY <2>2
  <2>6. \A j \in DOMAIN d : j \in DOMAIN t
    BY <2>2
  <2> QED
    BY <1>2, <2>2, <2>3, <2>4, <2>5, <2>6
<1> QED
  BY <1>1, <1>2

\* What is compared of the rows is in the list, and nothing else.
LEMMA DistilIs ==
  ASSUME NEW x, NEW s, IsSeq(s), NEW d, d = SR!Distilled(x, s)
  PROVE  /\ IsSeq(d)
         /\ \A k \in DOMAIN d : \E n \in DOMAIN s : SR!Compared(x, s[n]) /\ d[k] = s[n].row
         /\ \A n \in DOMAIN s : SR!Compared(x, s[n]) => \E k \in DOMAIN d : d[k] = s[n].row
         /\ s # <<>> /\ SR!Compared(x, SR!Last(s)) => d # <<>> /\ SR!Last(d) = SR!Last(s).row
<1>0. PICK N : N = Len(s)
  OBVIOUS
<1>1. N \in Nat /\ DOMAIN s = 1..N
  BY <1>0, SeqIs
<1>2. PICK of : of = [agent |-> x, rows |-> s]
  OBVIOUS
<1>3. PICK g : d = g[N] /\ \A n \in 0..N : RoundMade("distil", of, <<>>, n, g)
  BY <1>0, <1>1, <1>2, DistilRounds
<1>4. g[0] = <<>> /\ \A n \in 1..N : g[n] = Heard(x, g[n - 1], s[n])
  <2>1. g[0] = <<>>
    BY <1>1, <1>3 DEF RoundMade
  <2>2. ASSUME NEW n \in 1..N PROVE g[n] = Heard(x, g[n - 1], s[n])
    BY <1>1, <1>2, <1>3 DEF RoundMade, Round
  <2> QED
    BY <2>1, <2>2
<1> DEFINE right(n) ==
      /\ IsSeq(g[n])
      /\ \A k \in DOMAIN g[n] : \E i \in 1..n : SR!Compared(x, s[i]) /\ g[n][k] = s[i].row
      /\ \A i \in 1..n : SR!Compared(x, s[i]) => \E k \in DOMAIN g[n] : g[n][k] = s[i].row
      /\ n # 0 /\ SR!Compared(x, s[n]) => g[n] # <<>> /\ SR!Last(g[n]) = s[n].row
<1> DEFINE P == {n \in 0..N : right(n)}
<1>5. right(0)
  <2>1. PICK v : v = g[0]
    OBVIOUS
  <2>2. IsSeq(v) /\ \A k : k \notin DOMAIN v
    BY <1>4, <2>1, Nothing
  <2> QED
    BY <2>1, <2>2
<1>6. ASSUME NEW n \in 1..N, right(n - 1) PROVE right(n)
  <2>1. /\ n \in 1..n /\ \A i \in 1..n - 1 : i \in 1..n
        /\ \A i \in 1..n : i = n \/ i \in 1..n - 1
    BY <1>1
  <2>2. PICK v : v = g[n - 1]
    OBVIOUS
  <2>3. PICK t : t = g[n]
    OBVIOUS
  <2>4. PICK m : m = s[n]
    OBVIOUS
  <2>5. /\ IsSeq(v)
        /\ \A k \in DOMAIN v : \E i \in 1..n - 1 : SR!Compared(x, s[i]) /\ v[k] = s[i].row
        /\ \A i \in 1..n - 1 : SR!Compared(x, s[i]) => \E k \in DOMAIN v : v[k] = s[i].row
    BY <1>6, <2>2
  <2>6. IsHeard(t, x, v, m)
    BY <1>4, <2>2, <2>3, <2>4 DEF IsHeard
  <2>10. IsSeq(v)
    BY <2>5
  <2>7. /\ IsSeq(t)
        /\ ~SR!Compared(x, m) => t = v
        /\ SR!Compared(x, m) => t # <<>> /\ SR!Last(t) = m.row
        /\ \A k \in DOMAIN t : (SR!Compared(x, m) /\ t[k] = m.row) \/ \E j \in DOMAIN v : t[k] = v[j]
        /\ \A j \in DOMAIN v : \E k \in DOMAIN t : t[k] = v[j]
    <3>1. WellHeard(t, x, v, m)
      BY <2>6, <2>10, HeardIs
    <3> QED
      BY <3>1 DEF WellHeard
  <2>8. ASSUME NEW k \in DOMAIN t PROVE \E i \in 1..n : SR!Compared(x, s[i]) /\ t[k] = s[i].row
    <3>1. CASE SR!Compared(x, m) /\ t[k] = m.row
      BY <2>1, <2>4, <3>1
    <3>2. CASE \E j \in DOMAIN v : t[k] = v[j]
      <4>1. PICK j \in DOMAIN v : t[k] = v[j]
        BY <3>2
      <4>2. PICK i \in 1..n - 1 : SR!Compared(x, s[i]) /\ v[j] = s[i].row
        BY <2>5
      <4> QED
        BY <2>1, <4>1, <4>2
    <3> QED
      BY <2>7, <3>1, <3>2
  <2>9. ASSUME NEW i \in 1..n, SR!Compared(x, s[i]) PROVE \E k \in DOMAIN t : t[k] = s[i].row
    <3>1. CASE i = n
      <4>1. Len(t) \in DOMAIN t /\ SR!Last(t) = t[Len(t)]
        BY <2>4, <2>7, <2>9, <3>1, LastIs
      <4> QED
        BY <2>4, <2>7, <2>9, <3>1, <4>1
    <3>2. CASE i # n
      <4>1. PICK j \in DOMAIN v : v[j] = s[i].row
        BY <2>1, <2>5, <2>9, <3>2
      <4> QED
        BY <2>7, <4>1
    <3> QED
      BY <3>1, <3>2
  <2> QED
    BY <2>3, <2>4, <2>7, <2>8, <2>9
<1>7. \A n \in 0..N : n \in P
  <2> HIDE DEF right
  <2>1. 0 \in P
    BY <1>1, <1>5
  <2>2. \A n \in 1..N : n - 1 \in P => n \in P
    BY <1>1, <1>6
  <2> HIDE DEF P
  <2> QED
    BY <1>1, <2>1, <2>2, Reached
<1>8. right(N)
  <2> HIDE DEF right
  <2> QED
    BY <1>1, <1>7
<1>9. s # <<>> => N # 0 /\ SR!Last(s) = s[N]
  BY <1>0, <1>1, EmptyIs, LastIs
<1> QED
  BY <1>1, <1>3, <1>8, <1>9

-------------------------------------------------------------------------------
\* A card is replaced.

Recarded(d, row) == [j \in DOMAIN d |-> IF d[j].id = row.id THEN row ELSE d[j]]

IsRecarded(t, d, row) == t = Recarded(d, row)

LEMMA RecardedIs ==
  ASSUME NEW d, IsSeq(d), NEW row, NEW t, IsRecarded(t, d, row)
  PROVE  /\ IsSeq(t) /\ Len(t) = Len(d) /\ DOMAIN t = DOMAIN d
         /\ \A j \in DOMAIN d : t[j] = IF d[j].id = row.id THEN row ELSE d[j]
         /\ t = <<>> <=> d = <<>>
<1>1. Len(d) \in Nat /\ DOMAIN d = 1..Len(d)
  BY SeqIs
<1>2. DOMAIN t = 1..Len(d) /\ \A j \in DOMAIN d : t[j] = IF d[j].id = row.id THEN row ELSE d[j]
  BY <1>1 DEF Recarded, IsRecarded
<1>3. IsSeq(t) /\ Len(t) = Len(d)
  <2>1. PICK E : E = {t[j] : j \in DOMAIN t}
    OBVIOUS
  <2>2. t \in [1..Len(d) -> E]
    BY <1>1, <1>2, <2>1 DEF Recarded, IsRecarded
  <2>3. t \in Seq(E) /\ Len(t) = Len(d)
    BY <1>1, <2>2
  <2> QED
    BY <2>1, <2>3 DEF IsSeq
<1>4. t = <<>> <=> d = <<>>
  BY <1>3, EmptyIs
<1> QED
  BY <1>1, <1>2, <1>3, <1>4

LEMMA RecardedGrown ==
  ASSUME NEW d, IsSeq(d), NEW r, NEW row, NEW t, IsGrown(t, d, r)
  PROVE  Recarded(t, row) = Append(Recarded(d, row), IF r.id = row.id THEN row ELSE r)
<1>1. PICK a : a = Recarded(t, row)
  OBVIOUS
<1>2. PICK b : b = Recarded(d, row)
  OBVIOUS
<1>3. PICK z : z = IF r.id = row.id THEN row ELSE r
  OBVIOUS
<1>4. PICK c : c = Append(b, z)
  OBVIOUS
<1>5. /\ IsSeq(t) /\ Len(t) = Len(d) + 1 /\ DOMAIN t = 1..Len(d) + 1
      /\ Len(d) \in Nat /\ DOMAIN d = 1..Len(d)
      /\ t[Len(d) + 1] = r
      /\ \A i \in DOMAIN d : t[i] = d[i]
  BY Grown
<1>6. /\ IsSeq(b) /\ Len(b) = Len(d) /\ DOMAIN b = DOMAIN d
      /\ \A j \in DOMAIN d : b[j] = IF d[j].id = row.id THEN row ELSE d[j]
  <2>1. IsRecarded(b, d, row)
    BY <1>2 DEF IsRecarded
  <2> QED
    BY <2>1, RecardedIs
<1>7. /\ IsSeq(a) /\ Len(a) = Len(t) /\ DOMAIN a = DOMAIN t
      /\ \A j \in DOMAIN t : a[j] = IF t[j].id = row.id THEN row ELSE t[j]
  <2>1. IsSeq(t) /\ IsRecarded(a, t, row)
    BY <1>1, <1>5 DEF IsRecarded
  <2> QED
    BY <2>1, RecardedIs
<1>8. /\ IsSeq(c) /\ Len(c) = Len(b) + 1 /\ DOMAIN c = 1..Len(b) + 1
      /\ c[Len(b) + 1] = z
      /\ \A i \in DOMAIN b : c[i] = b[i]
  <2>1. IsGrown(c, b, z)
    BY <1>4 DEF IsGrown
  <2> QED
    BY <1>6, <2>1, Grown
<1>9. ASSUME NEW j \in DOMAIN a PROVE c[j] = a[j]
  <2>1. CASE j = Len(d) + 1
    BY <1>3, <1>5, <1>6, <1>7, <1>8, <2>1
  <2>2. CASE j # Len(d) + 1
    <3>1. j \in DOMAIN d
      BY <1>5, <1>7, <2>2
    <3> QED
      BY <1>5, <1>6, <1>7, <1>8, <3>1
  <2> QED
    BY <2>1, <2>2
<1>10. c = a
  <2>1. IsSeq(a) /\ IsSeq(c) /\ Len(c) = Len(a)
    BY <1>5, <1>6, <1>7, <1>8
  <2> QED
    BY <1>9, <2>1, SeqsEqual
<1> QED
  BY <1>1, <1>2, <1>3, <1>4, <1>10

\* In the list of the rows before a card is replaced, the row is the new one.
IsCardOf(x, s, t, i, row) ==
  /\ Len(t) = Len(s) /\ row.id # None
  /\ SR!Compared(x, s[i]) /\ SR!Compared(x, t[i]) /\ s[i].row.id = row.id /\ t[i].row = row
  /\ \A n \in DOMAIN s : n # i => t[n] = s[n] /\ (SR!Compared(x, s[n]) => s[n].row.id # row.id)

LEMMA CardReplaced ==
  ASSUME NEW x, NEW s, IsSeq(s), NEW t, NEW i \in DOMAIN s, NEW row, IsCardOf(x, s, t, i, row)
  PROVE  SR!Distilled(x, t) = Recarded(SR!Distilled(x, s), row)
<1> USE DEF IsCardOf
<1>0. PICK N : N = Len(s)
  OBVIOUS
<1>1. N \in Nat /\ DOMAIN s = 1..N
  BY <1>0, SeqIs
<1>2. PICK of : of = [agent |-> x, rows |-> s]
  OBVIOUS
<1>3. PICK of2 : of2 = [agent |-> x, rows |-> t]
  OBVIOUS
<1>4. PICK g : SR!Distilled(x, s) = g[N] /\ \A n \in 0..N : RoundMade("distil", of, <<>>, n, g)
  BY <1>0, <1>1, <1>2, DistilRounds
<1>5. PICK h : SR!Distilled(x, t) = h[N] /\ \A n \in 0..N : RoundMade("distil", of2, <<>>, n, h)
  BY <1>0, <1>1, <1>3, DistilRounds
<1>6. g[0] = <<>> /\ h[0] = <<>>
  BY <1>1, <1>4, <1>5 DEF RoundMade
<1>7. ASSUME NEW n \in 1..N PROVE g[n] = Heard(x, g[n - 1], s[n]) /\ h[n] = Heard(x, h[n - 1], t[n])
  BY <1>1, <1>2, <1>3, <1>4, <1>5 DEF RoundMade, Round
<1> DEFINE right(n) ==
      /\ IsSeq(g[n])
      /\ h[n] = Recarded(g[n], row)
      /\ n < i => \A k \in DOMAIN g[n] : g[n][k].id # row.id
<1> DEFINE P == {n \in 0..N : right(n)}
<1>8. right(0)
  <2>1. PICK v : v = g[0]
    OBVIOUS
  <2>2. IsSeq(v) /\ (\A k : k \notin DOMAIN v) /\ v = <<>>
    BY <1>6, <2>1, Nothing
  <2>3. Recarded(v, row) = <<>>
    <3>1. PICK w : IsRecarded(w, v, row)
      BY DEF IsRecarded
    <3>2. w = <<>>
      BY <2>2, <3>1, RecardedIs
    <3> QED
      BY <3>1, <3>2 DEF IsRecarded
  <2> QED
    BY <1>6, <2>1, <2>2, <2>3
<1>9. ASSUME NEW n \in 1..N, right(n - 1) PROVE right(n)
  <2>1. PICK v : v = g[n - 1]
    OBVIOUS
  <2>2. PICK w : w = Recarded(v, row)
    OBVIOUS
  <2>3. PICK r : r = s[n].row
    OBVIOUS
  <2>4. IsSeq(v) /\ (n - 1 < i => \A k \in DOMAIN v : v[k].id # row.id)
    BY <1>9, <2>1
  <2>0. IsSeq(v)
    BY <2>4
  <2>5. g[n] = Heard(x, v, s[n]) /\ h[n] = Heard(x, w, t[n])
    BY <1>7, <1>9, <2>1, <2>2
  <2>6. /\ IsSeq(w) /\ Len(w) = Len(v) /\ DOMAIN w = DOMAIN v
        /\ \A j \in DOMAIN v : w[j] = IF v[j].id = row.id THEN row ELSE v[j]
        /\ w = <<>> <=> v = <<>>
    <3>1. /\ IsSeq(w) /\ Len(w) = Len(v) /\ DOMAIN w = DOMAIN v
          /\ \A j \in DOMAIN v : w[j] = IF v[j].id = row.id THEN row ELSE v[j]
      <4>1. IsRecarded(w, v, row)
        BY <2>2 DEF IsRecarded
      <4> QED
        BY <2>0, <4>1, RecardedIs
    <3> QED
      BY <2>0, <3>1, EmptyIs
  <2>7. PICK u : IsGrown(u, v, r)
    BY DEF IsGrown
  <2>14. /\ IsSeq(u) /\ Len(u) = Len(v) + 1 /\ DOMAIN u = 1..Len(v) + 1
         /\ Len(v) \in Nat /\ DOMAIN v = 1..Len(v)
         /\ u[Len(v) + 1] = r
         /\ \A k \in DOMAIN v : u[k] = v[k]
    BY <2>0, <2>7, Grown
  <2>8. u = Append(v, r) /\ IsSeq(u) /\ DOMAIN u = 1..Len(v) + 1 /\ DOMAIN v = 1..Len(v) /\ u[Len(v) + 1] = r /\ Len(v) \in Nat
        /\ \A k \in DOMAIN v : u[k] = v[k]
    BY <2>7, <2>14 DEF IsGrown
  <2>9. Recarded(u, row) = Append(w, IF r.id = row.id THEN row ELSE r)
    BY <2>0, <2>2, <2>7, RecardedGrown
  <2>10. v # <<>> => /\ Len(v) \in DOMAIN v /\ SR!Last(v) = v[Len(v)] /\ SR!Last(w) = w[Len(v)]
    BY <2>0, <2>6, LastIs
  <2>11. CASE n = i
    <3>1. i - 1 < i /\ n \in Nat
      BY <1>1, <2>11
    <3>2. \A k \in DOMAIN v : v[k].id # row.id /\ w[k].id # row.id
      BY <2>4, <2>6, <2>11, <3>1
    <3>3. (v # <<>> => SR!Last(v) # r) /\ (w # <<>> => SR!Last(w) # row)
      BY <2>3, <2>6, <2>10, <2>11, <3>2
    <3>4. g[n] = u /\ h[n] = Append(w, row)
      BY <2>3, <2>5, <2>8, <2>11, <3>3 DEF Heard
    <3> QED
      BY <2>3, <2>8, <2>9, <2>11, <3>4
  <2>12. CASE n # i /\ SR!Compared(x, s[n])
    <3>1. n \in DOMAIN s /\ t[n] = s[n] /\ r.id # row.id
      BY <1>1, <2>3, <2>12
    <3>2. ASSUME v # <<>> PROVE SR!Last(w) # r <=> SR!Last(v) # r
      BY <2>6, <2>10, <3>1, <3>2
    <3>3. CASE v # <<>> /\ SR!Last(v) = r
      <4>1. g[n] = v /\ h[n] = w
        BY <2>3, <2>5, <2>6, <3>1, <3>2, <3>3 DEF Heard
      <4>2. n < i => n - 1 < i
        BY <1>1
      <4> QED
        BY <2>2, <2>4, <4>1, <4>2
    <3>4. CASE v # <<>> => SR!Last(v) # r
      <4>1. g[n] = u /\ h[n] = Append(w, r)
        BY <2>3, <2>5, <2>6, <2>8, <2>12, <3>1, <3>2, <3>4 DEF Heard
      <4>2. n < i => n - 1 < i
        BY <1>1
      <4>3. \A k \in DOMAIN u : k \in DOMAIN v \/ k = Len(v) + 1
        BY <2>8
      <4> QED
        BY <2>4, <2>8, <2>9, <3>1, <4>1, <4>2, <4>3
    <3> QED
      BY <3>3, <3>4
  <2>13. CASE n # i /\ ~SR!Compared(x, s[n])
    <3>1. t[n] = s[n]
      BY <1>1, <2>13
    <3>2. g[n] = v /\ h[n] = w
      BY <2>5, <2>13, <3>1 DEF Heard
    <3>3. n < i => n - 1 < i
      BY <1>1
    <3> QED
      BY <2>2, <2>4, <3>2, <3>3
  <2> QED
    BY <2>11, <2>12, <2>13
<1>10. \A n \in 0..N : n \in P
  <2> HIDE DEF right
  <2>1. 0 \in P
    BY <1>1, <1>8
  <2>2. \A n \in 1..N : n - 1 \in P => n \in P
    BY <1>1, <1>9
  <2> HIDE DEF P
  <2> QED
    BY <1>1, <2>1, <2>2, Reached
<1>11. right(N)
  <2> HIDE DEF right
  <2> QED
    BY <1>1, <1>10
<1> QED
  BY <1>4, <1>5, <1>11

-------------------------------------------------------------------------------
\* The rows of a slot.

RowFits(x, m) ==
  \/ m = SR!Bubble(m.status, m.anchor, m.ts)
  \/ /\ m = SR!Notice(m.row, m.of) /\ EventFits(m.of) /\ RowOf(x, m.of, m.row)
     /\ x \in SR!Concerns(m.of)

OneCard(a, b) == a.role = "system" /\ b.role = "system" /\ a.row.id = b.row.id /\ a.row.id # None
CardsDiffer(rows) == \A k, l \in DOMAIN rows : OneCard(rows[k], rows[l]) => k = l

RowsFit(x, rows) ==
  /\ IsSeq(rows)
  /\ \A k \in DOMAIN rows : RowFits(x, rows[k])
  /\ CardsDiffer(rows)

LEMMA NoticeIs ==
  ASSUME NEW x \in RowAgents, NEW e, EventFits(e), NEW row, RowOf(x, e, row), x \in SR!Concerns(e), NEW m, m = SR!Notice(row, e)
  PROVE  /\ m.role = "system" /\ m.of = e /\ m.row = row /\ RowFits(x, m)
         /\ SR!Compared(x, m) <=> SR!Alike(x, e)
<1>1. m.role = "system" /\ m.of = e /\ m.row = row
  BY DEF SR!Notice
<1> QED
  BY <1>1 DEF RowFits, SR!Compared

LEMMA SystemRow ==
  ASSUME NEW x, NEW m, RowFits(x, m), m.role = "system"
  PROVE  /\ EventFits(m.of) /\ RowOf(x, m.of, m.row) /\ x \in SR!Concerns(m.of) /\ m = SR!Notice(m.row, m.of)
         /\ SR!Compared(x, m) <=> SR!Alike(x, m.of)
<1>1. m # SR!Bubble(m.status, m.anchor, m.ts)
  BY DEF SR!Bubble
<1> QED
  BY <1>1 DEF RowFits, SR!Compared

\* What a pushed row makes of the list.
Pushed(d, row) ==
  IF row = None THEN d
  ELSE IF row.id # None /\ \E j \in DOMAIN d : d[j].id = row.id THEN Recarded(d, row)
  ELSE IF d # <<>> /\ SR!Last(d) = row THEN d ELSE Append(d, row)

\* The row repeats the last.
LEMMA Repeated ==
  ASSUME NEW x \in RowAgents, NEW rows, RowsFit(x, rows), NEW e, EventFits(e), NEW row, RowOf(x, e, row),
         SR!Repeats(rows, row), SR!Alike(x, e)
  PROVE  Pushed(SR!Distilled(x, rows), row) = SR!Distilled(x, rows)
<1>1. PICK m : m = SR!Last(rows)
  OBVIOUS
<1>2. rows # <<>> /\ m.role = "system" /\ [m.row EXCEPT !.id = row.id] = row /\ (row.id # None => m.row.id = row.id)
  BY <1>1 DEF SR!Repeats
<1>3. RowFits(x, m)
  <2>1. Len(rows) \in DOMAIN rows /\ m = rows[Len(rows)]
    BY <1>1, <1>2, LastIs DEF RowsFit
  <2> QED
    BY <2>1 DEF RowsFit
<1>4. EventFits(m.of) /\ RowOf(x, m.of, m.row) /\ (SR!Compared(x, m) <=> SR!Alike(x, m.of))
  BY <1>2, <1>3, SystemRow
<1>5. /\ m.row = [id |-> m.row.id, text |-> m.row.text, level |-> m.row.level, dir |-> m.row.dir]
      /\ row = [id |-> row.id, text |-> row.text, level |-> row.level, dir |-> row.dir]
  <2>1. m.row = [id |-> m.row.id, text |-> <<m.of.from, m.of.arg>>, level |-> m.row.level, dir |-> m.row.dir]
    BY <1>4, RowForm
  <2>2. row = [id |-> row.id, text |-> <<e.from, e.arg>>, level |-> row.level, dir |-> row.dir]
    BY RowForm
  <2> QED
    BY <2>1, <2>2
<1>6. m.row.text = row.text /\ m.row.level = row.level /\ m.row.dir = row.dir
  BY <1>2, <1>5
<1>7. m.row = row /\ SR!Compared(x, m)
  <2>1. (SR!Alike(x, e) <=> SR!Alike(x, m.of)) /\ row.id = m.row.id
    BY <1>4, <1>6, SameText
  <2> QED
    BY <1>4, <1>5, <1>6, <2>1
<1>8. PICK d : d = SR!Distilled(x, rows)
  OBVIOUS
<1>9. /\ IsSeq(d) /\ d # <<>> /\ SR!Last(d) = row
      /\ \A k \in DOMAIN d : \E n \in DOMAIN rows : SR!Compared(x, rows[n]) /\ d[k] = rows[n].row
  BY <1>1, <1>2, <1>7, <1>8, DistilIs DEF RowsFit
<1>10. CASE row.id # None
  <2>1. ASSUME NEW k \in DOMAIN d, d[k].id = row.id PROVE d[k] = row
    <3>1. PICK n \in DOMAIN rows : SR!Compared(x, rows[n]) /\ d[k] = rows[n].row
      BY <1>9
    <3>2. Len(rows) \in DOMAIN rows /\ m = rows[Len(rows)]
      BY <1>1, <1>2, LastIs DEF RowsFit
    <3>3. OneCard(rows[n], rows[Len(rows)])
      BY <1>2, <1>7, <1>10, <2>1, <3>1, <3>2 DEF OneCard, SR!Compared
    <3>4. n = Len(rows)
      BY <3>2, <3>3 DEF RowsFit, CardsDiffer
    <3> QED
      BY <1>7, <3>1, <3>2, <3>4
  <2>2. PICK w : w = Recarded(d, row)
    OBVIOUS
  <2>3. IsSeq(w) /\ Len(w) = Len(d) /\ \A j \in DOMAIN d : w[j] = IF d[j].id = row.id THEN row ELSE d[j]
    <3>1. IsRecarded(w, d, row)
      BY <2>2 DEF IsRecarded
    <3> QED
      BY <1>9, <3>1, RecardedIs
  <2>4. w = d
    BY <1>9, <2>1, <2>3, SeqsEqual
  <2> QED
    BY <1>8, <1>9, <2>2, <2>4 DEF Pushed
<1>11. CASE row.id = None
  BY <1>8, <1>9, <1>11 DEF Pushed
<1> QED
  BY <1>10, <1>11

IsPushed(t, rows, row, e) == t = SR!PushRow(rows, row, e)

\* A row that is no repetition and no card of the slot is appended.
LEMMA RowAppended ==
  ASSUME NEW x \in RowAgents, NEW rows, RowsFit(x, rows), NEW e, EventFits(e), x \in SR!Concerns(e),
         NEW row, RowOf(x, e, row), SR!Card(rows, row) = {}, NEW m, m = SR!Notice(row, e), NEW t, IsGrown(t, rows, m)
  PROVE  /\ RowsFit(x, t)
         /\ SR!Alike(x, e) => SR!Distilled(x, t) = Pushed(SR!Distilled(x, rows), row)
         /\ ~SR!Alike(x, e) => SR!Distilled(x, t) = SR!Distilled(x, rows)
<1>0. IsSeq(rows)
  BY DEF RowsFit
<1>1. /\ IsSeq(t) /\ Len(t) = Len(rows) + 1 /\ DOMAIN t = 1..Len(rows) + 1
      /\ Len(rows) \in Nat /\ DOMAIN rows = 1..Len(rows)
      /\ t[Len(rows) + 1] = m
      /\ \A i \in DOMAIN rows : t[i] = rows[i]
  BY <1>0, Grown
<1>2. m.role = "system" /\ m.of = e /\ m.row = row /\ RowFits(x, m) /\ (SR!Compared(x, m) <=> SR!Alike(x, e))
  BY NoticeIs
<1>3. ASSUME NEW k \in DOMAIN rows, rows[k].role = "system", row.id # None PROVE rows[k].row.id # row.id
  BY <1>3 DEF SR!Card
<1>4. PICK z : z = Len(rows) + 1
  OBVIOUS
<1>5. \A k \in DOMAIN t : k = z \/ (k \in DOMAIN rows /\ t[k] = rows[k])
  BY <1>1, <1>4
<1>6. \A k \in DOMAIN t : RowFits(x, t[k])
  BY <1>1, <1>2, <1>4, <1>5 DEF RowsFit
<1>7. CardsDiffer(t)
  <2> SUFFICES ASSUME NEW k \in DOMAIN t, NEW l \in DOMAIN t, OneCard(t[k], t[l]) PROVE k = l
    BY DEF CardsDiffer
  <2>1. CASE k \in DOMAIN rows /\ l \in DOMAIN rows
    BY <1>1, <2>1 DEF RowsFit, CardsDiffer
  <2>2. CASE k = z /\ l \in DOMAIN rows
    BY <1>1, <1>2, <1>3, <1>4, <2>2 DEF OneCard
  <2>3. CASE k \in DOMAIN rows /\ l = z
    BY <1>1, <1>2, <1>3, <1>4, <2>3 DEF OneCard
  <2> QED
    BY <1>5, <2>1, <2>2, <2>3
<1>8. PICK d : d = SR!Distilled(x, rows)
  OBVIOUS
<1>9. SR!Distilled(x, t) = Heard(x, d, m)
  BY <1>0, <1>8, DistilGrown
<1>10. ASSUME ~SR!Alike(x, e) PROVE SR!Distilled(x, t) = SR!Distilled(x, rows)
  <2>1. ~SR!Compared(x, m)
    BY <1>2, <1>10
  <2> QED
    BY <1>8, <1>9, <2>1 DEF Heard
<1>11. ASSUME SR!Alike(x, e) PROVE SR!Distilled(x, t) = Pushed(SR!Distilled(x, rows), row)
  <2>1. \A k \in DOMAIN d : \E n \in DOMAIN rows : SR!Compared(x, rows[n]) /\ d[k] = rows[n].row
    BY <1>0, <1>8, DistilIs
  <2>2. row.id # None => \A k \in DOMAIN d : d[k].id # row.id
    BY <1>3, <2>1 DEF SR!Compared
  <2>3. row # None
    BY DEF RowOf
  <2>4. SR!Distilled(x, t) = Pushed(d, row)
    BY <1>2, <1>9, <1>11, <2>2, <2>3 DEF Heard, Pushed
  <2> QED
    BY <1>8, <2>4
<1>12. RowsFit(x, t)
  BY <1>1, <1>6, <1>7 DEF RowsFit
<1> QED
  BY <1>10, <1>11, <1>12

LEMMA DistilHolds ==
  ASSUME NEW x, NEW s, IsSeq(s), NEW i \in DOMAIN s, SR!Compared(x, s[i]), NEW d, d = SR!Distilled(x, s)
  PROVE  \E k \in DOMAIN d : d[k] = s[i].row
BY DistilIs

\* A card takes the place of the one before.
LEMMA RowReplaced ==
  ASSUME NEW x \in RowAgents, NEW rows, RowsFit(x, rows), NEW e, EventFits(e), x \in SR!Concerns(e),
         NEW row, RowOf(x, e, row), NEW i, i \in SR!Card(rows, row), NEW m, m = SR!Notice(row, e),
         NEW t, t = [n \in DOMAIN rows |-> IF n \in SR!Card(rows, row) THEN m ELSE rows[n]]
  PROVE  /\ RowsFit(x, t)
         /\ SR!Alike(x, e) => SR!Distilled(x, t) = Pushed(SR!Distilled(x, rows), row)
         /\ ~SR!Alike(x, e) => SR!Distilled(x, t) = SR!Distilled(x, rows)
<1>0. IsSeq(rows) /\ Len(rows) \in Nat /\ DOMAIN rows = 1..Len(rows)
  BY SeqIs DEF RowsFit
<1>1. i \in DOMAIN rows /\ row.id # None /\ rows[i].role = "system" /\ rows[i].row.id = row.id
  BY DEF SR!Card
<1>2. m.role = "system" /\ m.of = e /\ m.row = row /\ RowFits(x, m) /\ (SR!Compared(x, m) <=> SR!Alike(x, e))
  BY NoticeIs
<1>3. ASSUME NEW n \in DOMAIN rows, rows[n].role = "system", rows[n].row.id = row.id PROVE n = i
  <2>1. OneCard(rows[n], rows[i])
    BY <1>1, <1>3 DEF OneCard
  <2> QED
    BY <1>1, <2>1 DEF RowsFit, CardsDiffer
<1>4. \A n \in DOMAIN rows : n \in SR!Card(rows, row) <=> n = i
  BY <1>1, <1>3 DEF SR!Card
<1>5. DOMAIN t = DOMAIN rows /\ t[i] = m /\ \A n \in DOMAIN rows : n # i => t[n] = rows[n]
  BY <1>1, <1>4
<1>6. IsSeq(t) /\ Len(t) = Len(rows)
  <2>1. PICK B : B = {t[j] : j \in DOMAIN t}
    OBVIOUS
  <2>2. t \in [1..Len(rows) -> B]
    BY <1>0, <2>1
  <2>3. t \in Seq(B) /\ Len(t) = Len(rows)
    BY <1>0, <2>2
  <2> QED
    BY <2>1, <2>3 DEF IsSeq
<1>7. \A k \in DOMAIN t : RowFits(x, t[k])
  BY <1>2, <1>5 DEF RowsFit
<1>8. CardsDiffer(t)
  <2> SUFFICES ASSUME NEW k \in DOMAIN t, NEW l \in DOMAIN t, OneCard(t[k], t[l]) PROVE k = l
    BY DEF CardsDiffer
  <2>1. CASE k # i /\ l # i
    BY <1>5, <2>1 DEF RowsFit, CardsDiffer
  <2>2. CASE k = i
    BY <1>2, <1>3, <1>5, <2>2 DEF OneCard
  <2>3. CASE l = i
    BY <1>2, <1>3, <1>5, <2>3 DEF OneCard
  <2> QED
    BY <2>1, <2>2, <2>3
<1>9. PICK o : o = rows[i]
  OBVIOUS
<1>10. /\ EventFits(o.of) /\ RowOf(x, o.of, o.row)
       /\ SR!Compared(x, o) <=> SR!Alike(x, o.of)
  <2>1. RowFits(x, o) /\ o.role = "system"
    BY <1>1, <1>9 DEF RowsFit
  <2> QED
    BY <2>1, SystemRow
<1>11. SR!Alike(x, o.of) <=> SR!Alike(x, e)
  <2>1. o.row.id = row.id
    BY <1>1, <1>9
  <2> QED
    BY <1>1, <1>10, <2>1, SameCard
<1>12. ASSUME ~SR!Alike(x, e) PROVE SR!Distilled(x, t) = SR!Distilled(x, rows)
  <2>1. ~SR!Compared(x, rows[i]) /\ ~SR!Compared(x, t[i])
    BY <1>2, <1>5, <1>9, <1>10, <1>11, <1>12
  <2>2. \A n \in 1..Len(rows) : /\ SR!Compared(x, rows[n]) <=> SR!Compared(x, t[n])
                                /\ SR!Compared(x, rows[n]) => rows[n].row = t[n].row
    BY <1>0, <1>5, <2>1
  <2>3. SR!Distilled(x, rows) = SR!Distilled(x, t)
    BY <1>0, <1>6, <2>2, DistilSame
  <2> QED
    BY <2>3
<1>13. ASSUME SR!Alike(x, e) PROVE SR!Distilled(x, t) = Pushed(SR!Distilled(x, rows), row)
  <2>1. SR!Compared(x, rows[i]) /\ SR!Compared(x, t[i]) /\ t[i].row = row
    BY <1>2, <1>5, <1>9, <1>10, <1>11, <1>13
  <2>2. \A n \in DOMAIN rows : n # i => t[n] = rows[n] /\ (SR!Compared(x, rows[n]) => rows[n].row.id # row.id)
    BY <1>3, <1>5 DEF SR!Compared
  <2>3. SR!Distilled(x, t) = Recarded(SR!Distilled(x, rows), row)
    <3>1. IsSeq(rows) /\ i \in DOMAIN rows /\ row.id # None /\ rows[i].row.id = row.id /\ Len(t) = Len(rows)
      BY <1>0, <1>1, <1>6
    <3>2. IsCardOf(x, rows, t, i, row)
      BY <1>5, <2>1, <2>2, <3>1 DEF IsCardOf
    <3>3. IsSeq(rows)
      BY <3>1
    <3>4. i \in DOMAIN rows
      BY <3>1
    <3>5. \A a, s, u, r : \A j \in DOMAIN s :
            IsSeq(s) /\ IsCardOf(a, s, u, j, r) => SR!Distilled(a, u) = Recarded(SR!Distilled(a, s), r)
      BY CardReplaced
    <3> QED
      BY <3>2, <3>3, <3>4, <3>5
  <2>4. \E j \in DOMAIN SR!Distilled(x, rows) : SR!Distilled(x, rows)[j].id = row.id
    <3>1. PICK d : d = SR!Distilled(x, rows)
      OBVIOUS
    <3>2. PICK k \in DOMAIN d : d[k] = rows[i].row
      BY <1>0, <1>1, <2>1, <3>1, DistilHolds
    <3> QED
      BY <1>1, <3>1, <3>2
  <2>5. row # None
    BY DEF RowOf
  <2>6. SR!Distilled(x, t) = Pushed(SR!Distilled(x, rows), row)
    BY <1>1, <2>3, <2>4, <2>5 DEF Pushed
  <2> QED
    BY <2>6
<1>14. RowsFit(x, t)
  BY <1>6, <1>7, <1>8 DEF RowsFit
<1> QED
  BY <1>12, <1>13, <1>14

\* A row pushed to a slot, and what it makes of the list.
LEMMA PushIs ==
  ASSUME NEW x \in RowAgents, NEW rows, RowsFit(x, rows), NEW e, EventFits(e), x \in SR!Concerns(e),
         NEW row, row = None \/ RowOf(x, e, row), NEW t, IsPushed(t, rows, row, e)
  PROVE  /\ RowsFit(x, t)
         /\ SR!Alike(x, e) => SR!Distilled(x, t) = Pushed(SR!Distilled(x, rows), row)
         /\ ~SR!Alike(x, e) => SR!Distilled(x, t) = SR!Distilled(x, rows)
<1>1. CASE row = None
  BY <1>1 DEF IsPushed, SR!PushRow, Pushed
<1>2. CASE row # None /\ SR!Repeats(rows, row)
  <2>1. t = rows /\ RowOf(x, e, row)
    BY <1>2 DEF IsPushed, SR!PushRow
  <2>2. SR!Alike(x, e) => Pushed(SR!Distilled(x, rows), row) = SR!Distilled(x, rows)
    BY <1>2, <2>1, Repeated
  <2> QED
    BY <2>1, <2>2
<1>3. CASE row # None /\ ~SR!Repeats(rows, row)
  <2>0. RowOf(x, e, row)
    BY <1>3
  <2>1. PICK m : m = SR!Notice(row, e)
    OBVIOUS
  <2>2. CASE SR!Card(rows, row) = {}
    <3>1. IsGrown(t, rows, m)
      BY <1>3, <2>1, <2>2 DEF IsPushed, SR!PushRow, IsGrown
    <3> QED
      BY <2>0, <2>1, <2>2, <3>1, RowAppended
  <2>3. CASE SR!Card(rows, row) # {}
    <3>1. PICK i : i \in SR!Card(rows, row)
      BY <2>3
    <3>2. t = [n \in DOMAIN rows |-> IF n \in SR!Card(rows, row) THEN m ELSE rows[n]]
      BY <1>3, <2>1, <2>3 DEF IsPushed, SR!PushRow
    <3> QED
      BY <2>0, <2>1, <3>1, <3>2, RowReplaced
  <2> QED
    BY <2>2, <2>3
<1> QED
  BY <1>1, <1>2, <1>3

\* A bubble is no row of the list.
LEMMA BubbleIs ==
  ASSUME NEW x, NEW status, NEW anchor, NEW ts, NEW m, m = SR!Bubble(status, anchor, ts)
  PROVE  m.role = "assistant" /\ RowFits(x, m) /\ ~SR!Compared(x, m)
<1>1. m.role = "assistant" /\ m.status = status /\ m.anchor = anchor /\ m.ts = ts
  BY DEF SR!Bubble
<1> QED
  BY <1>1 DEF RowFits, SR!Compared

LEMMA OneBubble ==
  ASSUME NEW x, NEW m, RowFits(x, m), m.role = "assistant"
  PROVE  m = SR!Bubble(m.status, m.anchor, m.ts) /\ ~SR!Compared(x, m)
<1>1. m # SR!Notice(m.row, m.of)
  BY DEF SR!Notice
<1> QED
  BY <1>1 DEF RowFits, SR!Compared

LEMMA BubbleAppended ==
  ASSUME NEW x, NEW rows, RowsFit(x, rows), NEW m, RowFits(x, m), m.role = "assistant", NEW t, IsGrown(t, rows, m)
  PROVE  RowsFit(x, t) /\ SR!Distilled(x, t) = SR!Distilled(x, rows)
<1>0. IsSeq(rows)
  BY DEF RowsFit
<1>1. /\ IsSeq(t) /\ Len(t) = Len(rows) + 1 /\ DOMAIN t = 1..Len(rows) + 1
      /\ Len(rows) \in Nat /\ DOMAIN rows = 1..Len(rows)
      /\ t[Len(rows) + 1] = m
      /\ \A i \in DOMAIN rows : t[i] = rows[i]
  BY <1>0, Grown
<1>2. ~SR!Compared(x, m)
  BY OneBubble
<1>3. PICK z : z = Len(rows) + 1
  OBVIOUS
<1>4. \A k \in DOMAIN t : (k = z /\ t[k] = m) \/ (k \in DOMAIN rows /\ t[k] = rows[k])
  BY <1>1, <1>3
<1>5. \A k \in DOMAIN t : RowFits(x, t[k])
  BY <1>4 DEF RowsFit
<1>6. CardsDiffer(t)
  <2> SUFFICES ASSUME NEW k \in DOMAIN t, NEW l \in DOMAIN t, OneCard(t[k], t[l]) PROVE k = l
    BY DEF CardsDiffer
  <2>1. t[k] # m /\ t[l] # m
    BY DEF OneCard
  <2> QED
    BY <1>4, <2>1 DEF RowsFit, CardsDiffer
<1>7. SR!Distilled(x, t) = Heard(x, SR!Distilled(x, rows), m)
  BY <1>0, DistilGrown
<1>8. SR!Distilled(x, t) = SR!Distilled(x, rows)
  BY <1>2, <1>7 DEF Heard
<1> QED
  BY <1>1, <1>5, <1>6, <1>8 DEF RowsFit

\* Bubbles take the place of bubbles.
Reshaped(x, rows, t) ==
  /\ IsSeq(t) /\ Len(t) = Len(rows)
  /\ \A k \in DOMAIN rows : t[k] = rows[k] \/ (rows[k].role = "assistant" /\ t[k].role = "assistant" /\ RowFits(x, t[k]))

LEMMA ReshapedKeeps ==
  ASSUME NEW x, NEW rows, RowsFit(x, rows), NEW t, Reshaped(x, rows, t)
  PROVE  RowsFit(x, t) /\ SR!Distilled(x, t) = SR!Distilled(x, rows)
<1>0. IsSeq(rows) /\ IsSeq(t) /\ Len(t) = Len(rows)
  BY DEF RowsFit, Reshaped
<1>1. Len(rows) \in Nat /\ DOMAIN rows = 1..Len(rows) /\ DOMAIN t = DOMAIN rows
  BY <1>0, SeqIs
<1>2. \A k \in DOMAIN rows : t[k] = rows[k] \/ (rows[k].role = "assistant" /\ t[k].role = "assistant" /\ RowFits(x, t[k]))
  BY DEF Reshaped
<1>3. \A k \in DOMAIN t : RowFits(x, t[k])
  BY <1>1, <1>2 DEF RowsFit
<1>4. CardsDiffer(t)
  <2> SUFFICES ASSUME NEW k \in DOMAIN t, NEW l \in DOMAIN t, OneCard(t[k], t[l]) PROVE k = l
    BY DEF CardsDiffer
  <2>1. t[k] = rows[k] /\ t[l] = rows[l]
    BY <1>1, <1>2 DEF OneCard
  <2> QED
    BY <1>1, <2>1 DEF RowsFit, CardsDiffer
<1>5. \A n \in 1..Len(rows) : /\ SR!Compared(x, rows[n]) <=> SR!Compared(x, t[n])
                              /\ SR!Compared(x, rows[n]) => rows[n].row = t[n].row
  BY <1>1, <1>2 DEF SR!Compared
<1>6. SR!Distilled(x, rows) = SR!Distilled(x, t)
  BY <1>0, <1>1, <1>5, DistilSame
<1> QED
  BY <1>0, <1>3, <1>4, <1>6 DEF RowsFit

LEMMA EnsuredKeeps ==
  ASSUME NEW x, NEW rows, RowsFit(x, rows), NEW anchor, NEW ts, NEW t, t = SR!Ensured(rows, anchor, ts)
  PROVE  RowsFit(x, t) /\ SR!Distilled(x, t) = SR!Distilled(x, rows)
<1>0. IsSeq(rows)
  BY DEF RowsFit
<1>1. Len(rows) \in Nat /\ DOMAIN rows = 1..Len(rows)
  BY <1>0, SeqIs
<1>2. PICK adopted : adopted = SR!Adopted(rows, anchor)
  OBVIOUS
<1>3. adopted \subseteq 1..Len(rows) /\ \A k \in adopted : rows[k].role = "assistant"
  BY <1>1, <1>2 DEF SR!Adopted, SR!Streams
<1>4. CASE adopted = {}
  <2>1. PICK m : m = SR!Bubble("streaming", anchor, ts)
    OBVIOUS
  <2>2. IsGrown(t, rows, m)
    BY <1>2, <1>4, <2>1 DEF SR!Ensured, IsGrown
  <2>3. m.role = "assistant" /\ RowFits(x, m)
    BY <2>1, BubbleIs
  <2> QED
    BY <2>2, <2>3, BubbleAppended
<1>5. CASE adopted # {}
  <2>1. PICK k : k = SR!Max(adopted)
    OBVIOUS
  <2>2. k \in adopted
    BY <1>1, <1>3, <1>5, <2>1, RowMaxIs
  <2>3. PICK m : m = SR!Bubble("streaming", IF anchor = None THEN rows[k].anchor ELSE anchor, rows[k].ts)
    OBVIOUS
  <2>4. t = [rows EXCEPT ![k] = m]
    BY <1>2, <1>5, <2>1, <2>3 DEF SR!Ensured
  <2>5. k \in DOMAIN rows /\ rows[k].role = "assistant"
    BY <1>1, <1>3, <2>2
  <2>8. m.role = "assistant" /\ RowFits(x, m)
    BY <2>3, BubbleIs
  <2>9. IsSeq(t) /\ Len(t) = Len(rows)
    <3>1. PICK B : B = {rows[i] : i \in DOMAIN rows} \cup {m}
      OBVIOUS
    <3>2. rows \in Seq(B)
      BY <1>0, <3>1 DEF IsSeq
    <3>3. t \in Seq(B) /\ Len(t) = Len(rows)
      BY <2>4, <2>5, <3>1, <3>2
    <3>4. t \in Seq({t[i] : i \in DOMAIN t})
      BY <3>3, OwnElements
    <3> QED
      BY <3>3, <3>4 DEF IsSeq
  <2>10. Reshaped(x, rows, t)
    BY <2>4, <2>5, <2>8, <2>9 DEF Reshaped
  <2> QED
    BY <2>10, ReshapedKeeps
<1> QED
  BY <1>4, <1>5

LEMMA CloseKeeps ==
  ASSUME NEW x, NEW rows, RowsFit(x, rows), NEW status, NEW t, t = SR!Close(rows, status)
  PROVE  RowsFit(x, t) /\ SR!Distilled(x, t) = SR!Distilled(x, rows)
<1>0. IsSeq(rows)
  BY DEF RowsFit
<1>1. Len(rows) \in Nat /\ DOMAIN rows = 1..Len(rows)
  BY <1>0, SeqIs
<1>2. DOMAIN t = DOMAIN rows /\ \A k \in DOMAIN rows :
        t[k] = IF SR!Streams(rows[k]) THEN [rows[k] EXCEPT !.status = status] ELSE rows[k]
  BY DEF SR!Close
<1>3. IsSeq(t) /\ Len(t) = Len(rows)
  <2>1. PICK B : B = {t[j] : j \in DOMAIN t}
    OBVIOUS
  <2>2. t \in [1..Len(rows) -> B]
    BY <1>1, <2>1 DEF SR!Close
  <2>3. t \in Seq(B) /\ Len(t) = Len(rows)
    BY <1>1, <2>2
  <2> QED
    BY <2>1, <2>3 DEF IsSeq
<1>4. ASSUME NEW k \in DOMAIN rows, t[k] # rows[k]
      PROVE  rows[k].role = "assistant" /\ t[k].role = "assistant" /\ RowFits(x, t[k])
  <2>1. rows[k].role = "assistant" /\ t[k] = [rows[k] EXCEPT !.status = status]
    BY <1>2, <1>4 DEF SR!Streams
  <2>2. RowFits(x, rows[k])
    BY DEF RowsFit
  <2>3. rows[k] = SR!Bubble(rows[k].status, rows[k].anchor, rows[k].ts)
    BY <2>1, <2>2, OneBubble
  <2>4. t[k] = SR!Bubble(status, rows[k].anchor, rows[k].ts)
    BY <2>1, <2>3 DEF SR!Bubble
  <2>5. t[k].role = "assistant" /\ RowFits(x, t[k])
    BY <2>4, BubbleIs
  <2> QED
    BY <2>1, <2>5
<1>5. Reshaped(x, rows, t)
  BY <1>3, <1>4 DEF Reshaped
<1> QED
  BY <1>5, ReshapedKeeps

LEMMA BubbledKeeps ==
  ASSUME NEW x, NEW rows, RowsFit(x, rows), NEW e, NEW t, t = SR!Bubbled(rows, e)
  PROVE  RowsFit(x, t) /\ SR!Distilled(x, t) = SR!Distilled(x, rows)
<1>1. CASE e.type \in {"start", "step"}
  <2>1. \E anchor : t = SR!Ensured(rows, anchor, e.ts)
    BY <1>1 DEF SR!Bubbled
  <2> QED
    BY <2>1, EnsuredKeeps
<1>2. CASE e.type \in {"end", "crash"}
  <2>1. \E status : t = SR!Close(rows, status)
    BY <1>2 DEF SR!Bubbled
  <2> QED
    BY <2>1, CloseKeeps
<1>3. CASE e.type \notin {"start", "step", "end", "crash"}
  <2>1. t = rows
    BY <1>3 DEF SR!Bubbled
  <2> QED
    BY <2>1
<1> QED
  BY <1>1, <1>2, <1>3

-------------------------------------------------------------------------------
\* An event comes, and a reload takes it.

LEMMA DispatchIs ==
  ASSUME NEW at, DOMAIN at = RowAgents, NEW e, EventFits(e), NEW x \in RowAgents, RowsFit(x, at[x]),
         NEW t, t = SR!Dispatch(at, e)[x]
  PROVE  /\ RowsFit(x, t)
         /\ x \notin SR!Concerns(e) => t = at[x]
         /\ x \in SR!Concerns(e) /\ SR!Alike(x, e)  => SR!Distilled(x, t) = Pushed(SR!Distilled(x, at[x]), LiveAt(x, e))
         /\ x \in SR!Concerns(e) /\ ~SR!Alike(x, e) => SR!Distilled(x, t) = SR!Distilled(x, at[x])
<1>1. PICK b : b = IF e.type # "mail" /\ x = e.from THEN SR!Bubbled(at[x], e) ELSE at[x]
  OBVIOUS
<1>2. RowsFit(x, b) /\ SR!Distilled(x, b) = SR!Distilled(x, at[x])
  <2>1. CASE e.type # "mail" /\ x = e.from
    <3>1. b = SR!Bubbled(at[x], e)
      BY <1>1, <2>1
    <3> QED
      BY <3>1, BubbledKeeps
  <2>2. CASE ~(e.type # "mail" /\ x = e.from)
    BY <1>1, <2>2
  <2> QED
    BY <2>1, <2>2
<1>3. PICK row : row = LiveAt(x, e)
  OBVIOUS
<1>4. IsPushed(t, b, row, e)
  <2>1. CASE e.type = "mail"
    <3>1. t = IF x \notin {e.from, e.to} THEN at[x]
              ELSE SR!PushRow(at[x], SR!Row(None, e, None, IF x = e.to THEN "incoming" ELSE "outgoing"), e)
      BY <2>1 DEF SR!Dispatch, SR!Mailed
    <3>2. CASE x \in {e.from, e.to}
      <4>1. row = SR!Row(None, e, None, IF x = e.to THEN "incoming" ELSE "outgoing")
        BY <1>3, <2>1, <3>2 DEF LiveAt
      <4> QED
        BY <1>1, <2>1, <3>1, <3>2, <4>1 DEF IsPushed
    <3>3. CASE x \notin {e.from, e.to}
      <4>1. row = None
        BY <1>3, <2>1, <3>3 DEF LiveAt
      <4> QED
        BY <1>1, <2>1, <3>1, <3>3, <4>1 DEF IsPushed, SR!PushRow
    <3> QED
      BY <3>2, <3>3
  <2>2. CASE e.type # "mail"
    <3>1. PICK bubbled : bubbled = [at EXCEPT ![e.from] = SR!Bubbled(@, e)]
      OBVIOUS
    <3>2. DOMAIN bubbled = RowAgents /\ bubbled[x] = b
      BY <1>1, <2>2, <3>1
    <3>3. t = [bubbled EXCEPT ![SR!Target(e)] = SR!PushRow(@, SR!LiveRow(e), e)][x]
      BY <2>2, <3>1 DEF SR!Dispatch
    <3>4. CASE x = SR!Target(e)
      <4>1. t = SR!PushRow(b, SR!LiveRow(e), e)
        BY <3>2, <3>3, <3>4
      <4> QED
        BY <1>3, <2>2, <3>4, <4>1 DEF IsPushed, LiveAt
    <3>5. CASE x # SR!Target(e)
      <4>1. t = b
        BY <3>2, <3>3, <3>5
      <4>2. row = None
        BY <1>3, <2>2, <3>5 DEF LiveAt
      <4> QED
        BY <4>1, <4>2 DEF IsPushed, SR!PushRow
    <3> QED
      BY <3>4, <3>5
  <2> QED
    BY <2>1, <2>2
<1>5. CASE x \notin SR!Concerns(e)
  <2>1. row = None /\ x # e.from
    BY <1>3, <1>5, NotConcerned
  <2>2. t = at[x]
    BY <1>1, <1>4, <2>1 DEF IsPushed, SR!PushRow
  <2> QED
    BY <1>5, <2>2
<1>6. CASE x \in SR!Concerns(e)
  <2>1. row = None \/ RowOf(x, e, row)
    BY <1>3 DEF RowOf
  <2>2. /\ RowsFit(x, t)
        /\ SR!Alike(x, e) => SR!Distilled(x, t) = Pushed(SR!Distilled(x, b), row)
        /\ ~SR!Alike(x, e) => SR!Distilled(x, t) = SR!Distilled(x, b)
    BY <1>2, <1>4, <1>6, <2>1, PushIs
  <2> QED
    BY <1>2, <1>3, <1>6, <2>2
<1> QED
  BY <1>5, <1>6

LEMMA FedIs ==
  ASSUME NEW x \in RowAgents, NEW r, RowsFit(x, r.rows), NEW e, EventFits(e), x \in SR!Concerns(e),
         NEW t, t = SR!Fed(x, r, e).rows
  PROVE  /\ RowsFit(x, t)
         /\ SR!Alike(x, e) => SR!Distilled(x, t) = Pushed(SR!Distilled(x, r.rows), SR!FormatEvent(x, e))
         /\ ~SR!Alike(x, e) => SR!Distilled(x, t) = SR!Distilled(x, r.rows)
<1>1. PICK row : row = SR!FormatEvent(x, e)
  OBVIOUS
<1>2. PICK m : m = SR!Bubble("done", r.open, e.ts)
  OBVIOUS
<1>3. PICK b : /\ b = r.rows \/ IsGrown(b, r.rows, m)
               /\ t = SR!PushRow(b, row, e)
  BY <1>1, <1>2 DEF SR!Fed, IsGrown
<1>4. RowsFit(x, b) /\ SR!Distilled(x, b) = SR!Distilled(x, r.rows)
  <2>1. CASE b = r.rows
    BY <2>1
  <2>2. CASE IsGrown(b, r.rows, m)
    <3>1. m.role = "assistant" /\ RowFits(x, m)
      BY <1>2, BubbleIs
    <3> QED
      BY <2>2, <3>1, BubbleAppended
  <2> QED
    BY <1>3, <2>1, <2>2
<1>5. IsPushed(t, b, row, e)
  BY <1>3 DEF IsPushed
<1>6. row = None \/ RowOf(x, e, row)
  BY <1>1 DEF RowOf
<1>7. /\ RowsFit(x, t)
      /\ SR!Alike(x, e) => SR!Distilled(x, t) = Pushed(SR!Distilled(x, b), row)
      /\ ~SR!Alike(x, e) => SR!Distilled(x, t) = SR!Distilled(x, b)
  BY <1>4, <1>5, <1>6, PushIs
<1> QED
  BY <1>1, <1>4, <1>7

LEMMA ReplayFits ==
  ASSUME NEW x \in RowAgents, NEW lg, NEW N \in Nat, \A i \in 1..N : EventFits(lg[i])
  PROVE  \A n \in 0..N : RowsFit(x, ReplayOf(x, lg, n).rows)
<1> DEFINE P == {n \in 0..N : RowsFit(x, ReplayOf(x, lg, n).rows)}
<1>1. 0 \in P
  <2>1. PICK v : v = <<>>
    OBVIOUS
  <2>2. ReplayOf(x, lg, 0).rows = v
    BY <2>1, ReplayStep DEF SR!NothingFed
  <2>3. IsSeq(v) /\ \A k : k \notin DOMAIN v
    BY <2>1, Nothing
  <2>4. RowsFit(x, v)
    BY <2>3 DEF RowsFit, CardsDiffer
  <2> QED
    BY <2>2, <2>4
<1>2. ASSUME NEW n \in 1..N, n - 1 \in P PROVE n \in P
  <2>1. PICK k : k = n - 1
    OBVIOUS
  <2>2. k \in Nat /\ k + 1 = n
    BY <2>1
  <2>3. PICK r : r = ReplayOf(x, lg, k)
    OBVIOUS
  <2>4. PICK q : q = ReplayOf(x, lg, n)
    OBVIOUS
  <2>5. q = IF x \in SR!Concerns(lg[n]) THEN SR!Fed(x, r, lg[n]) ELSE r
    BY <2>2, <2>3, <2>4, ReplayStep
  <2>6. RowsFit(x, r.rows)
    BY <1>2, <2>1, <2>3
  <2>7. RowsFit(x, q.rows)
    <3>1. CASE x \in SR!Concerns(lg[n])
      <4>1. EventFits(lg[n])
        OBVIOUS
      <4>2. q.rows = SR!Fed(x, r, lg[n]).rows
        BY <2>5, <3>1
      <4> QED
        BY <2>6, <3>1, <4>1, <4>2, FedIs
    <3>2. CASE x \notin SR!Concerns(lg[n])
      BY <2>5, <2>6, <3>2
    <3> QED
      BY <3>1, <3>2
  <2> QED
    BY <2>4, <2>7
<1>3. \A n \in 0..N : n \in P
  <2> HIDE DEF P
  <2> QED
    BY <1>1, <1>2, Reached
<1> QED
  BY <1>3

\* What a reload shows of x after one more event.
LEMMA ReplayedNext ==
  ASSUME NEW x \in RowAgents, NEW lg, NEW n \in Nat, NEW e, e = lg[n + 1], EventFits(e),
         RowsFit(x, ReplayOf(x, lg, n).rows),
         NEW d, d = SR!Distilled(x, ReplayOf(x, lg, n).rows),
         NEW d2, d2 = SR!Distilled(x, ReplayOf(x, lg, n + 1).rows)
  PROVE  /\ x \notin SR!Concerns(e) => d2 = d
         /\ x \in SR!Concerns(e) /\ SR!Alike(x, e)  => d2 = Pushed(d, LiveAt(x, e))
         /\ x \in SR!Concerns(e) /\ ~SR!Alike(x, e) => d2 = d
<1>1. PICK r : r = ReplayOf(x, lg, n)
  OBVIOUS
<1>2. PICK q : q = ReplayOf(x, lg, n + 1)
  OBVIOUS
<1>3. q = IF x \in SR!Concerns(e) THEN SR!Fed(x, r, e) ELSE r
  BY <1>1, <1>2, ReplayStep
<1>4. RowsFit(x, r.rows) /\ d = SR!Distilled(x, r.rows) /\ d2 = SR!Distilled(x, q.rows)
  BY <1>1, <1>2
<1>5. CASE x \notin SR!Concerns(e)
  BY <1>3, <1>4, <1>5
<1>6. CASE x \in SR!Concerns(e)
  <2>1. q.rows = SR!Fed(x, r, e).rows
    BY <1>3, <1>6
  <2>2. /\ SR!Alike(x, e) => SR!Distilled(x, q.rows) = Pushed(SR!Distilled(x, r.rows), SR!FormatEvent(x, e))
        /\ ~SR!Alike(x, e) => SR!Distilled(x, q.rows) = SR!Distilled(x, r.rows)
    BY <1>4, <1>6, <2>1, FedIs
  <2>3. SR!Alike(x, e) => LiveAt(x, e) = SR!FormatEvent(x, e)
    BY <1>6, ToldAlike
  <2> QED
    BY <1>4, <1>6, <2>2, <2>3
<1> QED
  BY <1>5, <1>6

-------------------------------------------------------------------------------
\* Two lists are the same, or hold the same when rows were sorted.

Held(d) == {d[k] : k \in DOMAIN d}
Same(sets, d, d2) == IF sets THEN Held(d) = Held(d2) ELSE d = d2

\* A card in a set of rows takes the place of the one before.
Swapped(D, row) == {IF a.id = row.id THEN row ELSE a : a \in D}

LEMMA HeldPushed ==
  ASSUME NEW d, IsSeq(d), NEW row
  PROVE  Held(Pushed(d, row)) = IF row = None THEN Held(d)
                                ELSE IF row.id # None /\ \E a \in Held(d) : a.id = row.id THEN Swapped(Held(d), row)
                                ELSE Held(d) \cup {row}
<1>0. PICK t : t = Pushed(d, row)
  OBVIOUS
<1>1. (\E a \in Held(d) : a.id = row.id) <=> (\E j \in DOMAIN d : d[j].id = row.id)
  BY DEF Held
<1>2. CASE row = None
  BY <1>2 DEF Pushed
<1>3. CASE row # None /\ row.id # None /\ \E j \in DOMAIN d : d[j].id = row.id
  <2>1. IsRecarded(t, d, row)
    BY <1>0, <1>3 DEF Pushed, IsRecarded
  <2>2. DOMAIN t = DOMAIN d /\ \A j \in DOMAIN d : t[j] = IF d[j].id = row.id THEN row ELSE d[j]
    BY <2>1, RecardedIs
  <2>3. PICK D : D = Held(d)
    OBVIOUS
  <2>4. \A j \in DOMAIN d : d[j] \in D
    BY <2>3 DEF Held
  <2>5. \A a \in D : \E j \in DOMAIN d : a = d[j]
    BY <2>3 DEF Held
  <2>6. \A a : a \in Held(t) => a \in Swapped(D, row)
    BY <2>2, <2>4 DEF Held, Swapped
  <2>7. \A a : a \in Swapped(D, row) => a \in Held(t)
    <3>1. SUFFICES ASSUME NEW b \in D PROVE (IF b.id = row.id THEN row ELSE b) \in Held(t)
      BY DEF Swapped
    <3>2. PICK j \in DOMAIN d : b = d[j]
      BY <2>5
    <3>3. j \in DOMAIN t /\ t[j] = IF b.id = row.id THEN row ELSE b
      BY <2>2, <3>2
    <3> QED
      BY <3>3 DEF Held
  <2>8. Held(t) = Swapped(Held(d), row)
    BY <2>3, <2>6, <2>7
  <2> QED
    BY <1>0, <1>1, <1>3, <2>8
<1>4. CASE row # None /\ ~(row.id # None /\ \E j \in DOMAIN d : d[j].id = row.id)
  <2>1. Held(t) = Held(d) \cup {row}
    <3>1. CASE d # <<>> /\ SR!Last(d) = row
      <4>1. t = d
        BY <1>0, <1>4, <3>1 DEF Pushed
      <4>2. Len(d) \in DOMAIN d /\ SR!Last(d) = d[Len(d)]
        BY <3>1, LastIs
      <4>3. row \in Held(d)
        BY <3>1, <4>2 DEF Held
      <4> QED
        BY <4>1, <4>3
    <3>2. CASE ~(d # <<>> /\ SR!Last(d) = row)
      <4>1. IsGrown(t, d, row)
        BY <1>0, <1>4, <3>2 DEF Pushed, IsGrown
      <4>2. /\ DOMAIN t = 1..Len(d) + 1 /\ Len(d) \in Nat /\ DOMAIN d = 1..Len(d)
            /\ t[Len(d) + 1] = row
            /\ \A i \in DOMAIN d : t[i] = d[i]
        BY <4>1, Grown
      <4>3. PICK z : z = Len(d) + 1
        OBVIOUS
      <4>4. DOMAIN t = DOMAIN d \cup {z} /\ t[z] = row
        BY <4>2, <4>3
      <4> QED
        BY <4>2, <4>4 DEF Held
    <3> QED
      BY <3>1, <3>2
  <2> QED
    BY <1>0, <1>1, <1>4, <2>1
<1> QED
  BY <1>2, <1>3, <1>4

LEMMA SamePushed ==
  ASSUME NEW sets, NEW d, IsSeq(d), NEW d2, IsSeq(d2), Same(sets, d, d2), NEW row
  PROVE  Same(sets, Pushed(d, row), Pushed(d2, row))
<1>1. CASE sets
  <2>1. Held(d) = Held(d2)
    BY <1>1 DEF Same
  <2>2. PICK D : D = Held(d)
    OBVIOUS
  <2>3. PICK h : h = Held(Pushed(d, row))
    OBVIOUS
  <2>4. PICK h2 : h2 = Held(Pushed(d2, row))
    OBVIOUS
  <2>5. h = IF row = None THEN D ELSE IF row.id # None /\ \E a \in D : a.id = row.id THEN Swapped(D, row)
            ELSE D \cup {row}
    BY <2>2, <2>3, HeldPushed
  <2>6. h2 = IF row = None THEN D ELSE IF row.id # None /\ \E a \in D : a.id = row.id THEN Swapped(D, row)
             ELSE D \cup {row}
    BY <2>1, <2>2, <2>4, HeldPushed
  <2>7. h = h2
    BY <2>5, <2>6
  <2> QED
    BY <1>1, <2>3, <2>4, <2>7 DEF Same
<1>2. CASE ~sets
  BY <1>2 DEF Same
<1> QED
  BY <1>1, <1>2

\* The rows of the replay and the bubbles that stay, sorted by time.
LEMMA AmongCards ==
  ASSUME NEW s, IsSeq(s), NEW items, NEW w, w = V!Among(s, items), CardsDiffer(s)
  PROVE  CardsDiffer(w)
<1>2. Len(s) \in Nat /\ DOMAIN s = 1..Len(s)
  BY DEF IsSeq
<1>1. PICK kept : /\ w = kept[Len(s)]
                  /\ \A n \in 0..Len(s) : KeptUpTo(s, items, n, kept)
  BY <1>2, AmongUnfold
<1>4. \A n \in 0..Len(s) : kept[n] = IF n = 0 THEN <<>> ELSE IF s[n] \in items THEN Append(kept[n - 1], s[n])
                                     ELSE kept[n - 1]
  BY <1>1 DEF KeptUpTo
<1> DEFINE right(n) ==
      /\ IsSeq(kept[n])
      /\ \A k \in DOMAIN kept[n] : \E i \in 1..n : kept[n][k] = s[i]
      /\ CardsDiffer(kept[n])
<1> DEFINE P == {n \in 0..Len(s) : right(n)}
<1>5. right(0)
  <2>1. PICK v : v = kept[0]
    OBVIOUS
  <2>2. v = <<>>
    BY <1>2, <1>4, <2>1
  <2>3. IsSeq(v) /\ \A k : k \notin DOMAIN v
    BY <2>2, Nothing
  <2> QED
    BY <2>1, <2>3 DEF CardsDiffer
<1>6. ASSUME NEW n \in 1..Len(s), right(n - 1) PROVE right(n)
  <2>1. /\ n \in 0..Len(s) /\ n # 0 /\ n \in Nat /\ n \in DOMAIN s /\ n \in 1..n
        /\ \A i \in 1..n - 1 : i \in 1..n /\ i # n /\ i \in DOMAIN s
    BY <1>2
  <2>2. PICK v : v = kept[n - 1]
    OBVIOUS
  <2>3. /\ IsSeq(v)
        /\ \A k \in DOMAIN v : \E i \in 1..n - 1 : v[k] = s[i]
        /\ CardsDiffer(v)
    BY <1>6, <2>2
  <2>4. CASE s[n] \notin items
    <3>1. kept[n] = v
      BY <1>4, <2>1, <2>2, <2>4
    <3> QED
      BY <2>1, <2>3, <3>1
  <2>5. CASE s[n] \in items
    <3>1. PICK x : x = Append(v, s[n])
      OBVIOUS
    <3>2. kept[n] = x
      BY <1>4, <2>1, <2>2, <2>5, <3>1
    <3>3. PICK z : z = Len(v) + 1
      OBVIOUS
    <3>4. /\ IsSeq(x) /\ x[z] = s[n]
          /\ \A k \in DOMAIN x : k = z \/ (k \in DOMAIN v /\ x[k] = v[k])
      <4>1. IsGrown(x, v, s[n])
        BY <3>1 DEF IsGrown
      <4>2. /\ IsSeq(x) /\ Len(x) = Len(v) + 1 /\ DOMAIN x = 1..Len(v) + 1
            /\ Len(v) \in Nat /\ DOMAIN v = 1..Len(v)
            /\ x[Len(v) + 1] = s[n]
            /\ \A i \in DOMAIN v : x[i] = v[i]
        BY <2>3, <4>1, Grown
      <4> QED
        BY <3>3, <4>2
    <3>5. \A k \in DOMAIN v : ~OneCard(v[k], s[n]) /\ ~OneCard(s[n], v[k])
      <4> SUFFICES ASSUME NEW k \in DOMAIN v PROVE ~OneCard(v[k], s[n]) /\ ~OneCard(s[n], v[k])
        OBVIOUS
      <4>1. PICK i \in 1..n - 1 : v[k] = s[i]
        BY <2>3
      <4>2. i \in DOMAIN s /\ i # n
        BY <2>1
      <4> QED
        BY <2>1, <4>1, <4>2 DEF CardsDiffer
    <3>6. CardsDiffer(x)
      BY <2>3, <3>4, <3>5 DEF CardsDiffer
    <3>7. \A k \in DOMAIN x : \E i \in 1..n : x[k] = s[i]
      BY <2>1, <2>3, <3>4
    <3> QED
      BY <3>2, <3>4, <3>6, <3>7
  <2> QED
    BY <2>4, <2>5
<1>7. \A n \in 0..Len(s) : n \in P
  <2> HIDE DEF right
  <2>1. 0 \in P
    BY <1>2, <1>5
  <2>2. \A n \in 1..Len(s) : n - 1 \in P => n \in P
    BY <1>2, <1>6
  <2> HIDE DEF P
  <2> QED
    BY <1>2, <2>1, <2>2, Reached
<1>8. right(Len(s))
  <2> HIDE DEF right
  <2> QED
    BY <1>2, <1>7
<1> QED
  BY <1>1, <1>8

IsPutIn(t, s, e) == t = V!Inserted(s, e)

LEMMA CardsPutIn ==
  ASSUME NEW s, IsSeq(s), NEW e, NEW t, IsPutIn(t, s, e)
  PROVE  /\ IsSeq(t)
         /\ \A k \in DOMAIN t : t[k] = e \/ \E i \in DOMAIN s : t[k] = s[i]
         /\ \A i \in DOMAIN s : \E k \in DOMAIN t : t[k] = s[i]
         /\ \E k \in DOMAIN t : t[k] = e
         /\ CardsDiffer(s) /\ (\A i \in DOMAIN s : ~OneCard(s[i], e)) => CardsDiffer(t)
<1>1. PICK after : after = {k \in DOMAIN s : s[k].ts > e.ts}
  OBVIOUS
<1>2. Len(s) \in Nat /\ DOMAIN s = 1..Len(s)
  BY SeqIs
<1>3. PICK N : N = Len(s)
  OBVIOUS
<1>6. (\A i \in DOMAIN s : ~OneCard(s[i], e)) => \A i \in DOMAIN s : ~OneCard(e, s[i])
  BY DEF OneCard
<1>4. CASE after = {}
  <2>1. IsGrown(t, s, e)
    BY <1>1, <1>4 DEF V!Inserted, IsGrown, IsPutIn
  <2>2. /\ IsSeq(t) /\ Len(t) = Len(s) + 1 /\ DOMAIN t = 1..Len(s) + 1
        /\ t[Len(s) + 1] = e
        /\ \A i \in DOMAIN s : t[i] = s[i]
    BY <2>1, Grown
  <2>3. PICK z : z = N + 1
    OBVIOUS
  <2>4. /\ z \in DOMAIN t /\ t[z] = e /\ DOMAIN s \subseteq DOMAIN t
        /\ \A k \in DOMAIN t : k = z \/ (k \in DOMAIN s /\ t[k] = s[k])
    BY <1>2, <1>3, <2>2, <2>3
  <2>5. CardsDiffer(s) /\ (\A i \in DOMAIN s : ~OneCard(s[i], e)) => CardsDiffer(t)
    BY <1>6, <2>4 DEF CardsDiffer
  <2> QED
    BY <2>2, <2>4, <2>5
<1>5. CASE after # {}
  <2>1. PICK m : m = V!Min(after)
    OBVIOUS
  <2>2. m \in DOMAIN s
    <3>1. after \subseteq Nat
      BY <1>1, <1>2
    <3> QED
      BY <1>1, <1>5, <2>1, <3>1, MinIs
  <2>3. t = V!InsertAt(s, m, e)
    BY <1>1, <1>5, <2>1 DEF V!Inserted, IsPutIn
  <2>4. /\ IsSeq(t) /\ Len(t) = Len(s) + 1 /\ DOMAIN t = 1..Len(s) + 1
        /\ \A k \in DOMAIN t : t[k] = IF k < m THEN s[k] ELSE IF k = m THEN e ELSE s[k - 1]
    BY <2>2, <2>3, PutIn
  <2>5. m \in 1..N /\ N \in Nat /\ DOMAIN t = 1..N + 1
    BY <1>2, <1>3, <2>2, <2>4
  <2>6. \A k \in DOMAIN t : \/ k < m /\ k \in DOMAIN s /\ t[k] = s[k]
                            \/ k = m /\ t[k] = e
                            \/ k > m /\ k - 1 \in DOMAIN s /\ t[k] = s[k - 1]
    BY <1>2, <1>3, <2>4, <2>5
  <2>7. ASSUME NEW i \in DOMAIN s PROVE \E k \in DOMAIN t : t[k] = s[i]
    <3>1. CASE i < m
      <4>1. i \in DOMAIN t
        BY <1>2, <1>3, <2>5
      <4> QED
        BY <2>4, <3>1, <4>1
    <3>2. CASE ~(i < m)
      <4>1. i + 1 \in DOMAIN t /\ ~(i + 1 < m) /\ i + 1 # m /\ (i + 1) - 1 = i
        BY <1>2, <1>3, <2>5, <3>2
      <4> QED
        BY <2>4, <4>1
    <3> QED
      BY <3>1, <3>2
  <2>8. m \in DOMAIN t /\ t[m] = e
    BY <2>4, <2>5
  <2>9. ASSUME CardsDiffer(s), \A i \in DOMAIN s : ~OneCard(s[i], e),
               NEW k \in DOMAIN t, NEW l \in DOMAIN t, OneCard(t[k], t[l])
        PROVE  k = l
    <3>1. k \in Nat /\ l \in Nat /\ m \in Nat
      BY <2>5
    <3>2. CASE k = m
      BY <1>6, <2>6, <2>9, <3>1, <3>2
    <3>4. CASE l = m
      BY <2>6, <2>9, <3>1, <3>4
    <3>3. CASE k # m /\ l # m
      <4>1. PICK i : i = IF k < m THEN k ELSE k - 1
        OBVIOUS
      <4>2. PICK j : j = IF l < m THEN l ELSE l - 1
        OBVIOUS
      <4>3. i \in DOMAIN s /\ t[k] = s[i] /\ j \in DOMAIN s /\ t[l] = s[j]
        BY <2>6, <3>1, <3>3, <4>1, <4>2
      <4>4. i = j
        BY <2>9, <4>3 DEF CardsDiffer
      <4> QED
        BY <3>1, <3>3, <4>1, <4>2, <4>4
    <3> QED
      BY <3>2, <3>3, <3>4
  <2>10. \A k \in DOMAIN t : t[k] = e \/ \E i \in DOMAIN s : t[k] = s[i]
    BY <2>6
  <2>11. CardsDiffer(s) /\ (\A i \in DOMAIN s : ~OneCard(s[i], e)) => CardsDiffer(t)
    BY <2>9 DEF CardsDiffer
  <2> QED
    BY <2>4, <2>7, <2>8, <2>10, <2>11
<1> QED
  BY <1>4, <1>5

LEMMA CardsSorted ==
  ASSUME NEW all, IsSeq(all), CardsDiffer(all), NEW w, w = SR!ByTime(all)
  PROVE  /\ IsSeq(w) /\ CardsDiffer(w)
         /\ \A k \in DOMAIN w : \E i \in DOMAIN all : w[k] = all[i]
         /\ \A i \in DOMAIN all : \E k \in DOMAIN w : w[k] = all[i]
<1>1. PICK N : N = Len(all)
  OBVIOUS
<1>2. N \in Nat /\ DOMAIN all = 1..N
  BY <1>1, SeqIs
<1>8. w = V!Folded(V!Inserted, <<>>, all)
  BY DEF SR!ByTime, SR!Folded, V!Folded, SR!Inserted, V!Inserted, SR!InsertAt, V!InsertAt, SR!Min, V!Min
<1>3. PICK g : w = g[N] /\ \A n \in 0..N : RoundMade("insert", all, <<>>, n, g)
  BY <1>1, <1>2, <1>8, InsertRounds
<1> DEFINE right(n) ==
      /\ IsSeq(g[n]) /\ CardsDiffer(g[n])
      /\ \A k \in DOMAIN g[n] : \E i \in 1..n : g[n][k] = all[i]
      /\ \A i \in 1..n : \E k \in DOMAIN g[n] : g[n][k] = all[i]
<1> DEFINE P == {n \in 0..N : right(n)}
<1>4. right(0)
  <2>1. PICK v : v = g[0]
    OBVIOUS
  <2>2. v = <<>>
    BY <1>2, <1>3, <2>1 DEF RoundMade
  <2>3. IsSeq(v) /\ \A k : k \notin DOMAIN v
    BY <2>2, Nothing
  <2> QED
    BY <2>1, <2>3 DEF CardsDiffer
<1>5. ASSUME NEW n \in 1..N, right(n - 1) PROVE right(n)
  <2>1. /\ n \in 0..N /\ n # 0 /\ n \in DOMAIN all /\ n \in 1..n
        /\ \A i \in 1..n - 1 : i \in 1..n /\ i # n /\ i \in DOMAIN all
        /\ \A i \in 1..n : i = n \/ i \in 1..n - 1
    BY <1>2
  <2>2. PICK s : s = g[n - 1]
    OBVIOUS
  <2>3. PICK e : e = all[n]
    OBVIOUS
  <2>4. PICK t : t = g[n]
    OBVIOUS
  <2>5. IsPutIn(t, s, e)
    BY <1>3, <2>1, <2>2, <2>3, <2>4 DEF RoundMade, Round, IsPutIn
  <2>6. /\ IsSeq(s) /\ CardsDiffer(s)
        /\ \A k \in DOMAIN s : \E i \in 1..n - 1 : s[k] = all[i]
        /\ \A i \in 1..n - 1 : \E k \in DOMAIN s : s[k] = all[i]
    BY <1>5, <2>2
  <2>7. /\ IsSeq(t)
        /\ \A k \in DOMAIN t : t[k] = e \/ \E i \in DOMAIN s : t[k] = s[i]
        /\ \A i \in DOMAIN s : \E k \in DOMAIN t : t[k] = s[i]
        /\ \E k \in DOMAIN t : t[k] = e
        /\ CardsDiffer(s) /\ (\A i \in DOMAIN s : ~OneCard(s[i], e)) => CardsDiffer(t)
    BY <2>5, <2>6, CardsPutIn
  <2>8. \A k \in DOMAIN s : ~OneCard(s[k], e)
    <3> SUFFICES ASSUME NEW k \in DOMAIN s PROVE ~OneCard(s[k], e)
      OBVIOUS
    <3>1. PICK i \in 1..n - 1 : s[k] = all[i]
      BY <2>6
    <3>2. i \in DOMAIN all /\ i # n
      BY <2>1
    <3> QED
      BY <2>1, <2>3, <3>1, <3>2 DEF CardsDiffer
  <2>9. CardsDiffer(t)
    BY <2>6, <2>7, <2>8
  <2>10. \A k \in DOMAIN t : \E i \in 1..n : t[k] = all[i]
    BY <2>1, <2>3, <2>6, <2>7
  <2>11. \A i \in 1..n : \E k \in DOMAIN t : t[k] = all[i]
    BY <2>1, <2>3, <2>6, <2>7
  <2> QED
    BY <2>4, <2>7, <2>9, <2>10, <2>11
<1>6. \A n \in 0..N : n \in P
  <2> HIDE DEF right
  <2>1. 0 \in P
    BY <1>2, <1>4
  <2>2. \A n \in 1..N : n - 1 \in P => n \in P
    BY <1>2, <1>5
  <2> HIDE DEF P
  <2> QED
    BY <1>2, <2>1, <2>2, Reached
<1>7. right(N)
  <2> HIDE DEF right
  <2> QED
    BY <1>2, <1>6
<1> QED
  BY <1>2, <1>3, <1>7

LEMMA KeptIs ==
  ASSUME NEW x \in RowAgents, RowsFit(x, slots[x]), NEW r, NEW w, w = SR!Kept(x, r)
  PROVE  IsSeq(w) /\ \A k \in DOMAIN w : RowFits(x, w[k]) /\ w[k].role = "assistant"
<1>1. PICK items : items = {m \in SR!ToSet(slots[x]) :
                              SR!Streams(m) /\ m.anchor # None /\ (load.changed \/ m.anchor \notin r.settled)}
  OBVIOUS
<1>2. PICK s : s = slots[x]
  OBVIOUS
<1>3. IsSeq(s)
  BY <1>2 DEF RowsFit
<1>4. w = V!Among(s, items)
  BY <1>1, <1>2 DEF SR!Kept, SR!Among, V!Among
<1>5. /\ IsSeq(w)
      /\ \A k \in DOMAIN w : \E i \in DOMAIN s : w[k] = s[i] /\ s[i] \in items
  BY <1>3, <1>4, AmongThem
<1>6. ASSUME NEW k \in DOMAIN w PROVE RowFits(x, w[k]) /\ w[k].role = "assistant"
  <2>1. PICK i \in DOMAIN s : w[k] = s[i] /\ s[i] \in items
    BY <1>5
  <2>2. SR!Streams(s[i])
    BY <1>1, <2>1
  <2> QED
    BY <1>2, <2>1, <2>2 DEF RowsFit, SR!Streams
<1> QED
  BY <1>5, <1>6

\* What is loaded of x: the rows of the log, and bubbles.
LEMMA MergedRows ==
  ASSUME NEW x \in RowAgents, RowsFit(x, slots[x]), NEW r, RowsFit(x, r.rows), NEW t, t = SR!Merged(x, r)
  PROVE  /\ RowsFit(x, t)
         /\ SR!Kept(x, r) = <<>> => t = r.rows
         /\ Held(SR!Distilled(x, t)) = Held(SR!Distilled(x, r.rows))
<1>1. PICK rows : rows = r.rows
  OBVIOUS
<1>2. PICK kept : kept = SR!Kept(x, r)
  OBVIOUS
<1>3. PICK items : items = {m \in SR!ToSet(rows) : \/ m.role = "system"
                                                  \/ \A i \in DOMAIN kept : kept[i].anchor # m.anchor}
  OBVIOUS
<1>4. PICK wal : wal = V!Among(rows, items)
  OBVIOUS
<1>5. PICK all : IsJoined(all, wal, kept)
  BY DEF IsJoined
<1>6. t = IF kept = <<>> THEN rows ELSE SR!ByTime(all)
  <2>1. wal = SR!Among(rows, items)
    BY <1>4 DEF SR!Among, V!Among
  <2>2. all = SR!Among(rows, items) \o kept
    BY <1>5, <2>1 DEF IsJoined
  <2> QED
    BY <1>1, <1>2, <1>3, <2>2, Zenon DEF SR!Merged
<1>7. CASE kept = <<>>
  <2>1. t = r.rows
    BY <1>1, <1>6, <1>7
  <2>2. RowsFit(x, t)
    BY <2>1
  <2>3. Held(SR!Distilled(x, t)) = Held(SR!Distilled(x, r.rows))
    BY <2>1
  <2> QED
    BY <2>1, <2>2, <2>3
<1>8. CASE kept # <<>>
  <2>0. IsSeq(rows) /\ CardsDiffer(rows) /\ \A k \in DOMAIN rows : RowFits(x, rows[k])
    BY <1>1 DEF RowsFit
  <2>1. /\ IsSeq(wal)
        /\ \A k \in DOMAIN wal : \E i \in DOMAIN rows : wal[k] = rows[i] /\ rows[i] \in items
        /\ \A i \in DOMAIN rows : rows[i] \in items => \E k \in DOMAIN wal : wal[k] = rows[i]
    BY <1>4, <2>0, AmongThem
  <2>2. CardsDiffer(wal)
    BY <1>4, <2>0, AmongCards
  <2>3. IsSeq(kept) /\ \A k \in DOMAIN kept : RowFits(x, kept[k]) /\ kept[k].role = "assistant"
    BY <1>2, KeptIs
  <2>4. PICK L : L = Len(wal)
    OBVIOUS
  <2>5. /\ IsSeq(all)
        /\ \A i \in DOMAIN wal : i \in DOMAIN all /\ all[i] = wal[i]
        /\ \A i \in DOMAIN kept : L + i \in DOMAIN all /\ all[L + i] = kept[i]
        /\ \A i \in DOMAIN all : i \in DOMAIN wal \/ (i - L \in DOMAIN kept /\ i > L)
    BY <1>5, <2>1, <2>3, <2>4, ConcatIs
  <2>6. L \in Nat /\ DOMAIN all \subseteq Nat
    <3>1. DOMAIN all = 1..Len(all) /\ Len(all) \in Nat
      BY <2>5, SeqIs
    <3> QED
      BY <2>1, <2>4, <3>1, SeqIs
  <2>7. ASSUME NEW i \in DOMAIN all
        PROVE  (i \in DOMAIN wal /\ all[i] = wal[i]) \/ \E k \in DOMAIN kept : all[i] = kept[k]
    <3>1. CASE i \in DOMAIN wal
      BY <2>5, <3>1
    <3>2. CASE i - L \in DOMAIN kept
      <4>1. L + (i - L) = i
        BY <2>6
      <4> QED
        BY <2>5, <3>2, <4>1
    <3> QED
      BY <2>5, <3>1, <3>2
  <2>8. CardsDiffer(all)
    <3> SUFFICES ASSUME NEW k \in DOMAIN all, NEW l \in DOMAIN all, OneCard(all[k], all[l]) PROVE k = l
      BY DEF CardsDiffer
    <3>1. all[k].role = "system" /\ all[l].role = "system"
      BY DEF OneCard
    <3>2. k \in DOMAIN wal /\ all[k] = wal[k] /\ l \in DOMAIN wal /\ all[l] = wal[l]
      BY <2>3, <2>7, <3>1
    <3> QED
      BY <2>2, <3>2 DEF CardsDiffer
  <2>9. /\ IsSeq(t) /\ CardsDiffer(t)
        /\ \A k \in DOMAIN t : \E i \in DOMAIN all : t[k] = all[i]
        /\ \A i \in DOMAIN all : \E k \in DOMAIN t : t[k] = all[i]
    <3>1. t = SR!ByTime(all)
      BY <1>6, <1>8
    <3> QED
      BY <2>5, <2>8, <3>1, CardsSorted
  <2>10. ASSUME NEW k \in DOMAIN t
         PROVE  RowFits(x, t[k]) /\ (t[k].role = "assistant" \/ \E n \in DOMAIN rows : t[k] = rows[n])
    <3>1. PICK i \in DOMAIN all : t[k] = all[i]
      BY <2>9
    <3> QED
      BY <2>0, <2>1, <2>3, <2>7, <3>1
  <2>11. ASSUME NEW n \in DOMAIN rows, rows[n].role = "system" PROVE \E k \in DOMAIN t : t[k] = rows[n]
    <3>1. rows[n] \in items
      BY <1>3, <2>11 DEF SR!ToSet
    <3>2. PICK i \in DOMAIN wal : wal[i] = rows[n]
      BY <2>1, <3>1
    <3> QED
      BY <2>5, <2>9, <3>2
  <2>12. RowsFit(x, t)
    BY <2>9, <2>10 DEF RowsFit
  <2>13. PICK d : d = SR!Distilled(x, t)
    OBVIOUS
  <2>14. PICK d2 : d2 = SR!Distilled(x, rows)
    OBVIOUS
  <2>15. /\ \A k \in DOMAIN d : \E n \in DOMAIN t : SR!Compared(x, t[n]) /\ d[k] = t[n].row
         /\ \A n \in DOMAIN t : SR!Compared(x, t[n]) => \E k \in DOMAIN d : d[k] = t[n].row
    BY <2>9, <2>13, DistilIs
  <2>16. /\ \A k \in DOMAIN d2 : \E n \in DOMAIN rows : SR!Compared(x, rows[n]) /\ d2[k] = rows[n].row
         /\ \A n \in DOMAIN rows : SR!Compared(x, rows[n]) => \E k \in DOMAIN d2 : d2[k] = rows[n].row
    BY <2>0, <2>14, DistilIs
  <2>17. ASSUME NEW k \in DOMAIN d PROVE \E l \in DOMAIN d2 : d[k] = d2[l]
    <3>1. PICK n \in DOMAIN t : SR!Compared(x, t[n]) /\ d[k] = t[n].row
      BY <2>15
    <3>2. t[n].role # "assistant"
      BY <3>1 DEF SR!Compared
    <3> QED
      BY <2>10, <2>16, <3>1, <3>2
  <2>18. ASSUME NEW l \in DOMAIN d2 PROVE \E k \in DOMAIN d : d[k] = d2[l]
    <3>1. PICK n \in DOMAIN rows : SR!Compared(x, rows[n]) /\ d2[l] = rows[n].row
      BY <2>16
    <3>2. rows[n].role = "system"
      BY <3>1 DEF SR!Compared
    <3>3. PICK k \in DOMAIN t : t[k] = rows[n]
      BY <2>11, <3>2
    <3> QED
      BY <2>15, <3>1, <3>3
  <2>19. Held(d) = Held(d2)
    BY <2>17, <2>18 DEF Held
  <2> QED
    BY <1>1, <1>2, <1>8, <2>12, <2>13, <2>14, <2>19
<1> QED
  BY <1>7, <1>8

-------------------------------------------------------------------------------
\* The log goes on without events of an agent, or without events its slot shows.

LEMMA ReplaySkips ==
  ASSUME NEW x \in RowAgents, NEW lg, NEW a \in Nat, NEW b \in Nat, a <= b,
         \A i \in a + 1..b : x \notin SR!Concerns(lg[i])
  PROVE  ReplayOf(x, lg, b) = ReplayOf(x, lg, a)
<1>1. PICK N : N = b - a
  OBVIOUS
<1>2. N \in Nat /\ a + N = b
  BY <1>1
<1> DEFINE P == {k \in 0..N : ReplayOf(x, lg, a + k) = ReplayOf(x, lg, a)}
<1>3. 0 \in P
  <2>1. a + 0 = a /\ 0 \in 0..N
    BY <1>2
  <2> QED
    BY <2>1
<1>4. ASSUME NEW k \in 1..N, k - 1 \in P PROVE k \in P
  <2>1. PICK n : n = a + (k - 1)
    OBVIOUS
  <2>2. n \in Nat /\ n + 1 = a + k /\ n + 1 \in a + 1..b /\ k \in 0..N
    BY <1>2, <2>1
  <2>3. ReplayOf(x, lg, n + 1) = ReplayOf(x, lg, n)
    <3>1. x \notin SR!Concerns(lg[n + 1])
      BY <2>2
    <3> QED
      BY <2>2, <3>1, ReplayStep
  <2>4. ReplayOf(x, lg, n) = ReplayOf(x, lg, a)
    BY <1>4, <2>1
  <2> QED
    BY <2>2, <2>3, <2>4
<1>5. \A k \in 0..N : k \in P
  <2> HIDE DEF P
  <2> QED
    BY <1>2, <1>3, <1>4, Reached
<1>6. N \in P
  <2>1. N \in 0..N
    BY <1>2
  <2> QED
    BY <1>5, <2>1
<1> QED
  BY <1>2, <1>6

ReplayedRows(x, lg, n) == SR!Distilled(x, ReplayOf(x, lg, n).rows)

LEMMA ShownSkips ==
  ASSUME NEW x \in RowAgents, NEW lg, NEW a \in Nat, NEW b \in Nat, a <= b,
         \A i \in 1..b : EventFits(lg[i]),
         \A i \in a + 1..b : x \notin SR!Shown(lg[i])
  PROVE  ReplayedRows(x, lg, b) = ReplayedRows(x, lg, a)
<1>1. PICK N : N = b - a
  OBVIOUS
<1>2. N \in Nat /\ a + N = b
  BY <1>1
<1> DEFINE P == {k \in 0..N : ReplayedRows(x, lg, a + k) = ReplayedRows(x, lg, a)}
<1>3. 0 \in P
  <2>1. a + 0 = a /\ 0 \in 0..N
    BY <1>2
  <2> QED
    BY <2>1
<1>4. ASSUME NEW k \in 1..N, k - 1 \in P PROVE k \in P
  <2>1. PICK n : n = a + (k - 1)
    OBVIOUS
  <2>2. n \in Nat /\ n \in 0..b /\ n + 1 = a + k /\ n + 1 \in a + 1..b /\ n + 1 \in 1..b /\ k \in 0..N
    BY <1>2, <2>1
  <2>3. PICK e : e = lg[n + 1]
    OBVIOUS
  <2>4. EventFits(e) /\ x \notin SR!Shown(e)
    BY <2>2, <2>3
  <2>5. RowsFit(x, ReplayOf(x, lg, n).rows)
    BY <2>2, ReplayFits
  <2>6. PICK d : d = SR!Distilled(x, ReplayOf(x, lg, n).rows)
    OBVIOUS
  <2>7. PICK d2 : d2 = SR!Distilled(x, ReplayOf(x, lg, n + 1).rows)
    OBVIOUS
  <2>8. /\ x \notin SR!Concerns(e) => d2 = d
        /\ x \in SR!Concerns(e) /\ SR!Alike(x, e)  => d2 = Pushed(d, LiveAt(x, e))
        /\ x \in SR!Concerns(e) /\ ~SR!Alike(x, e) => d2 = d
    BY <2>2, <2>3, <2>4, <2>5, <2>6, <2>7, ReplayedNext
  <2>9. x \in SR!Concerns(e) /\ SR!Alike(x, e) => LiveAt(x, e) = None
    BY <2>4, NotShown, ToldAlike
  <2>10. d2 = d
    BY <2>8, <2>9 DEF Pushed
  <2>11. ReplayedRows(x, lg, n + 1) = ReplayedRows(x, lg, n)
    BY <2>6, <2>7, <2>10 DEF ReplayedRows
  <2>12. ReplayedRows(x, lg, n) = ReplayedRows(x, lg, a)
    BY <1>4, <2>1
  <2> QED
    BY <2>2, <2>11, <2>12
<1>5. \A k \in 0..N : k \in P
  <2> HIDE DEF P
  <2> QED
    BY <1>2, <1>3, <1>4, Reached
<1>6. N \in P
  <2>1. N \in 0..N
    BY <1>2
  <2> QED
    BY <1>5, <2>1
<1> QED
  BY <1>2, <1>6

-------------------------------------------------------------------------------
\* The invariant of the system rows.

LoadFits ==
  load # None =>
    /\ load = [agent |-> load.agent, n |-> load.n, snap |-> load.snap, changed |-> load.changed]
    /\ load.agent \in RowAgents
    /\ load.n # None => load.n \in 0..Len(log)

\* A slot that no load has set back or passed by shows what the log up to the cursor shows.
Shows(x) == Same(x \in sorted, SR!Distilled(x, slots[x]), ReplayedRows(x, log, rowCursor))

RowsInv ==
  /\ IsSeq(log) /\ \A i \in DOMAIN log : EventFits(log[i])
  /\ got \in Nat /\ rowCursor \in Nat /\ got <= rowCursor /\ rowCursor <= Len(log)
  /\ DOMAIN slots = RowAgents /\ \A x \in RowAgents : RowsFit(x, slots[x])
  /\ LoadFits
  /\ \A x \in RowAgents \ (behind \cup passed) : Shows(x)

LEMMA RowsBegin == ASSUME SR!Init PROVE RowsInv
<1>1. /\ log = <<>> /\ got = 0 /\ rowCursor = 0 /\ load = None
      /\ slots = [x \in RowAgents |-> <<>>]
  BY DEF SR!Init
<1>2. PICK v : v = <<>>
  OBVIOUS
<1>3. IsSeq(v) /\ Len(v) = 0 /\ \A k : k \notin DOMAIN v
  BY <1>2, Nothing
<1>4. \A x : RowsFit(x, v)
  BY <1>3 DEF RowsFit, CardsDiffer
<1>5. DOMAIN slots = RowAgents /\ \A x \in RowAgents : slots[x] = v
  BY <1>1, <1>2
<1>6. ASSUME NEW x \in RowAgents PROVE Shows(x)
  <2>1. ReplayOf(x, log, rowCursor).rows = v
    BY <1>1, <1>2, ReplayStep DEF SR!NothingFed
  <2> QED
    BY <1>5, <2>1 DEF Shows, Same, ReplayedRows
<1> QED
  BY <1>1, <1>2, <1>3, <1>4, <1>5, <1>6 DEF RowsInv, LoadFits

LEMMA LogIs ==
  ASSUME RowsInv
  PROVE  /\ Len(log) \in Nat /\ DOMAIN log = 1..Len(log)
         /\ \A i \in 1..rowCursor : i \in DOMAIN log
         /\ \A i \in 1..Len(log) : EventFits(log[i])
<1>1. Len(log) \in Nat /\ DOMAIN log = 1..Len(log)
  BY SeqIs DEF RowsInv
<1> QED
  BY <1>1 DEF RowsInv

\* What the server logs.
Logged == /\ \E e : EventFits(e) /\ IsGrown(log', log, e)
          /\ UNCHANGED <<got, rowCursor, slots, load, rowLoads, behind, passed, sorted>>

EventOf(type, from, to, arg) == [type |-> type, from |-> from, to |-> to, arg |-> arg, ts |-> Len(log) + 1]

LEMMA EmitIs ==
  ASSUME NEW type, NEW from, NEW to, NEW arg, SR!Emit(type, from, to, arg), EventFits(EventOf(type, from, to, arg))
  PROVE  Logged
BY DEF SR!Emit, EventOf, Logged, IsGrown

LEMMA ToldFits ==
  ASSUME NEW type, NEW from \in RowAgents, NEW to, NEW arg,
         \/ type = "delegation" /\ to = Viewer /\ from # to /\ arg \in {"running", "returned", "unknown"}
         \/ type = "message" /\ to = Viewer /\ from # to /\ arg = "resume"
         \/ type = "message" /\ to \in RowAgents /\ from # to /\ arg = "word"
         \/ type = "mail" /\ to \in RowAgents /\ from # to /\ arg = "prompt"
         \/ /\ to = None
            /\ \/ type = "compaction" /\ arg \in {"started", "failed"}
               \/ type = "error" /\ arg \in {"error", "private"}
               \/ type = "warning" /\ arg = "warning"
               \/ type = "retry" /\ arg \in {"again", None}
               \/ type = "crash" /\ arg \in {"error", "message"}
               \/ type = "media" /\ arg = "file"
               \/ type \in {"start", "step", "end"} /\ arg = None
  PROVE  EventFits(EventOf(type, from, to, arg))
<1>1. PICK e : e = EventOf(type, from, to, arg)
  OBVIOUS
<1>2. /\ e = [type |-> e.type, from |-> e.from, to |-> e.to, arg |-> e.arg, ts |-> e.ts]
      /\ e.type = type /\ e.from = from /\ e.to = to /\ e.arg = arg
  BY <1>1 DEF EventOf
<1>3. EventFits(e)
  BY <1>2 DEF EventFits
<1> QED
  BY <1>1, <1>3

LEMMA Emitted == ASSUME SR!Server PROVE Logged
<1>0. Viewer \in RowAgents
  BY RowAssumption
<1>1. CASE SR!EmitTurn(Viewer)
  <2>1. CASE SR!Emit("start", Viewer, None, None)
    BY <1>0, <2>1, ToldFits, EmitIs
  <2>2. CASE \E type \in {"step", "end"} : SR!Emit(type, Viewer, None, None)
    BY <1>0, <2>2, ToldFits, EmitIs
  <2> QED
    BY <1>1, <2>1, <2>2 DEF SR!EmitTurn
<1>2. CASE SR!EmitPrivate(Viewer)
  BY <1>0, <1>2, ToldFits, EmitIs DEF SR!EmitPrivate
<1>3. CASE SR!EmitMedia(Viewer)
  BY <1>0, <1>3, ToldFits, EmitIs DEF SR!EmitMedia
<1>4. CASE \E phase \in {"started", "failed"} : SR!EmitCompaction(Viewer, phase)
  BY <1>0, <1>4, ToldFits, EmitIs DEF SR!EmitCompaction
<1>5. CASE \E warning \in {"again", None} : SR!EmitRetry(Viewer, warning)
  BY <1>0, <1>5, ToldFits, EmitIs DEF SR!EmitRetry
<1>6. CASE \E how \in {"error", "message"} : SR!EmitCrash(Viewer, how)
  BY <1>0, <1>6, ToldFits, EmitIs DEF SR!EmitCrash
<1>7. ASSUME NEW y \in SR!Others(Viewer), NEW status \in {"running", "returned", "unknown"}, SR!EmitDelegation(Viewer, y, status)
      PROVE  Logged
  <2>1. y \in RowAgents /\ y # Viewer
    BY DEF SR!Others
  <2>2. SR!Emit("delegation", y, Viewer, status)
    BY <1>7 DEF SR!EmitDelegation
  <2>3. EventFits(EventOf("delegation", y, Viewer, status))
    BY <2>1, ToldFits
  <2> QED
    BY <2>2, <2>3, EmitIs
<1>8. ASSUME NEW y \in SR!Others(Viewer), SR!EmitReturn(Viewer, y) PROVE Logged
  <2>1. y \in RowAgents /\ y # Viewer
    BY DEF SR!Others
  <2>2. SR!Emit("message", y, Viewer, "resume")
    BY <1>8 DEF SR!EmitReturn
  <2>3. EventFits(EventOf("message", y, Viewer, "resume"))
    BY <2>1, ToldFits
  <2> QED
    BY <2>2, <2>3, EmitIs
<1>9. ASSUME NEW x \in RowAgents, SR!EmitDiagnosis(x) PROVE Logged
  <2>1. PICK type \in {"error", "warning"} : SR!Emit(type, x, None, type)
    BY <1>9 DEF SR!EmitDiagnosis
  <2>2. EventFits(EventOf(type, x, None, type))
    BY <2>1, ToldFits
  <2> QED
    BY <2>1, <2>2, EmitIs
<1>10. ASSUME NEW x \in RowAgents, NEW y \in SR!Others(x), SR!EmitMail(x, y) \/ SR!EmitWord(x, y) PROVE Logged
  <2>1. y \in RowAgents /\ y # x
    BY DEF SR!Others
  <2>2. EventFits(EventOf("mail", x, y, "prompt")) /\ EventFits(EventOf("message", x, y, "word"))
    BY <2>1, ToldFits
  <2>3. SR!Emit("mail", x, y, "prompt") \/ SR!Emit("message", x, y, "word")
    BY <1>10 DEF SR!EmitMail, SR!EmitWord
  <2> QED
    BY <2>2, <2>3, EmitIs
<1> QED
  BY <1>1, <1>2, <1>3, <1>4, <1>5, <1>6, <1>7, <1>8, <1>9, <1>10 DEF SR!Server

LEMMA AtCursor ==
  ASSUME RowsInv, NEW x \in RowAgents
  PROVE  /\ RowsFit(x, slots[x]) /\ IsSeq(SR!Distilled(x, slots[x]))
         /\ RowsFit(x, ReplayOf(x, log, rowCursor).rows) /\ IsSeq(ReplayedRows(x, log, rowCursor))
<1>1. Len(log) \in Nat /\ \A i \in 1..Len(log) : EventFits(log[i])
  BY LogIs
<1>2. rowCursor \in 0..Len(log)
  BY <1>1 DEF RowsInv
<1>3. RowsFit(x, slots[x])
  BY DEF RowsInv
<1>4. RowsFit(x, ReplayOf(x, log, rowCursor).rows)
  BY <1>1, <1>2, ReplayFits
<1>5. IsSeq(slots[x]) /\ IsSeq(ReplayOf(x, log, rowCursor).rows)
  BY <1>3, <1>4 DEF RowsFit
<1>6. IsSeq(SR!Distilled(x, slots[x]))
  BY <1>5, DistilIs
<1>7. IsSeq(ReplayedRows(x, log, rowCursor))
  BY <1>5, DistilIs DEF ReplayedRows
<1> QED
  BY <1>3, <1>4, <1>6, <1>7

LEMMA LoggedKeeps == ASSUME RowsInv, Logged PROVE RowsInv'
<1>1. PICK e : EventFits(e) /\ IsGrown(log', log, e)
  BY DEF Logged
<1>2. UNCHANGED <<got, rowCursor, slots, load, rowLoads, behind, passed, sorted>>
  BY DEF Logged
<1>3. /\ IsSeq(log') /\ Len(log') = Len(log) + 1 /\ DOMAIN log' = 1..Len(log) + 1
      /\ Len(log) \in Nat /\ DOMAIN log = 1..Len(log)
      /\ log'[Len(log) + 1] = e
      /\ \A i \in DOMAIN log : log'[i] = log[i]
  <2>1. IsSeq(log)
    BY DEF RowsInv
  <2> QED
    BY <1>1, <2>1, Grown
<1>4. \A i \in DOMAIN log' : EventFits(log'[i])
  <2>1. \A i \in DOMAIN log' : i = Len(log) + 1 \/ i \in DOMAIN log
    BY <1>3
  <2> QED
    BY <1>1, <1>3, <2>1 DEF RowsInv
<1>5. LoadFits'
  <2>1. 0..Len(log) \subseteq 0..Len(log')
    BY <1>3
  <2> QED
    BY <1>2, <2>1 DEF RowsInv, LoadFits
<1>6. ASSUME NEW x \in RowAgents \ (behind \cup passed) PROVE Shows(x)'
  <2>1. \A n \in 1..rowCursor : log[n] = log'[n]
    BY <1>3, LogIs
  <2>2. ReplayOf(x, log, rowCursor) = ReplayOf(x, log', rowCursor)
    BY <2>1, ReplaySame DEF RowsInv
  <2>3. Shows(x)
    BY DEF RowsInv
  <2> QED
    BY <1>2, <2>2, <2>3 DEF Shows, ReplayedRows
<1>7. rowCursor' <= Len(log')
  BY <1>2, <1>3 DEF RowsInv
<1>8. got' \in Nat /\ rowCursor' \in Nat /\ got' <= rowCursor'
  BY <1>2 DEF RowsInv
<1>9. DOMAIN slots' = RowAgents /\ \A x \in RowAgents : RowsFit(x, slots'[x])
  BY <1>2 DEF RowsInv
<1>10. \A x \in RowAgents \ (behind' \cup passed') : Shows(x)'
  BY <1>2, <1>6
<1> QED
  BY <1>3, <1>4, <1>5, <1>7, <1>8, <1>9, <1>10 DEF RowsInv

LEMMA ReceiveKeeps == ASSUME RowsInv, SR!Receive PROVE RowsInv'
<1>1. /\ got < Len(log) /\ got' = got + 1
      /\ UNCHANGED <<log, rowLoads, behind, passed, sorted>>
  BY DEF SR!Receive
<1>2. Len(log) \in Nat /\ got \in Nat /\ rowCursor \in Nat /\ got <= rowCursor /\ rowCursor <= Len(log)
  BY LogIs DEF RowsInv
<1>3. CASE ~(got + 1 > rowCursor)
  <2>1. UNCHANGED <<rowCursor, slots, load>>
    BY <1>3 DEF SR!Receive
  <2>2. got' \in Nat /\ got' <= rowCursor
    BY <1>1, <1>2, <1>3
  <2>3. \A x \in RowAgents \ (behind' \cup passed') : Shows(x)'
    BY <1>1, <2>1 DEF RowsInv, Shows
  <2>4. LoadFits'
    BY <1>1, <2>1 DEF RowsInv, LoadFits
  <2> QED
    BY <1>1, <2>1, <2>2, <2>3, <2>4 DEF RowsInv
<1>4. CASE got + 1 > rowCursor
  <2>1. got = rowCursor
    BY <1>2, <1>4
  <2>2. PICK e : e = log[got + 1]
    OBVIOUS
  <2>3. /\ rowCursor' = got + 1
        /\ slots' = SR!Dispatch(slots, e)
        /\ load' = load \/ (load # None /\ load' = [load EXCEPT !.changed = TRUE])
    BY <1>4, <2>2 DEF SR!Receive
  <2>4. EventFits(e)
    <3>1. got + 1 \in 1..Len(log)
      BY <1>1, <1>2
    <3> QED
      BY <2>2, <3>1, LogIs
  <2>5. got' \in Nat /\ rowCursor' \in Nat /\ got' <= rowCursor' /\ rowCursor' <= Len(log')
    BY <1>1, <1>2, <2>3
  <2>6. DOMAIN slots' = RowAgents
    <3>1. DOMAIN slots = RowAgents
      BY DEF RowsInv
    <3> QED
      BY <2>3, <3>1 DEF SR!Dispatch, SR!Mailed
  <2>7. ASSUME NEW x \in RowAgents
        PROVE  /\ RowsFit(x, slots'[x])
               /\ Shows(x) => Shows(x)'
    <3>1. PICK t : t = slots'[x]
      OBVIOUS
    <3>2. t = SR!Dispatch(slots, e)[x] /\ DOMAIN slots = RowAgents
      BY <2>3, <3>1 DEF RowsInv
    <3>3. PICK s : s = slots[x]
      OBVIOUS
    <3>4. /\ RowsFit(x, s) /\ IsSeq(SR!Distilled(x, s))
          /\ RowsFit(x, ReplayOf(x, log, rowCursor).rows) /\ IsSeq(ReplayedRows(x, log, rowCursor))
      BY <3>3, AtCursor
    <3>5. /\ RowsFit(x, t)
          /\ x \notin SR!Concerns(e) => t = s
          /\ x \in SR!Concerns(e) /\ SR!Alike(x, e)  => SR!Distilled(x, t) = Pushed(SR!Distilled(x, s), LiveAt(x, e))
          /\ x \in SR!Concerns(e) /\ ~SR!Alike(x, e) => SR!Distilled(x, t) = SR!Distilled(x, s)
      BY <2>4, <3>2, <3>3, <3>4, DispatchIs
    <3>6. PICK d : d = SR!Distilled(x, ReplayOf(x, log, rowCursor).rows)
      OBVIOUS
    <3>7. PICK d2 : d2 = SR!Distilled(x, ReplayOf(x, log, rowCursor + 1).rows)
      OBVIOUS
    <3>8. /\ x \notin SR!Concerns(e) => d2 = d
          /\ x \in SR!Concerns(e) /\ SR!Alike(x, e)  => d2 = Pushed(d, LiveAt(x, e))
          /\ x \in SR!Concerns(e) /\ ~SR!Alike(x, e) => d2 = d
      BY <1>2, <2>1, <2>2, <2>4, <3>4, <3>6, <3>7, ReplayedNext
    <3>9. IsSeq(d)
      BY <3>4, <3>6 DEF ReplayedRows
    <3>10. PICK sets : sets = (x \in sorted)
      OBVIOUS
    <3>11. ASSUME Same(sets, SR!Distilled(x, s), d) PROVE Same(sets, SR!Distilled(x, t), d2)
      <4>1. CASE x \in SR!Concerns(e) /\ SR!Alike(x, e)
        <5>1. PICK row : row = LiveAt(x, e)
          OBVIOUS
        <5>2. PICK c : c = SR!Distilled(x, s)
          OBVIOUS
        <5>3. IsSeq(c) /\ Same(sets, c, d)
          BY <3>4, <3>11, <5>2
        <5>4. Same(sets, Pushed(c, row), Pushed(d, row))
          BY <3>9, <5>3, SamePushed
        <5>5. SR!Distilled(x, t) = Pushed(c, row) /\ d2 = Pushed(d, row)
          BY <3>5, <3>8, <4>1, <5>1, <5>2
        <5> QED
          BY <5>4, <5>5
      <4>2. CASE ~(x \in SR!Concerns(e) /\ SR!Alike(x, e))
        <5>1. SR!Distilled(x, t) = SR!Distilled(x, s) /\ d2 = d
          BY <3>5, <3>8, <4>2
        <5> QED
          BY <3>11, <5>1
      <4> QED
        BY <4>1, <4>2
    <3>12. Shows(x) => Same(sets, SR!Distilled(x, s), d)
      BY <3>3, <3>6, <3>10 DEF Shows, ReplayedRows
    <3>13. Same(sets, SR!Distilled(x, t), d2) => Shows(x)'
      BY <1>1, <2>1, <2>3, <3>1, <3>7, <3>10 DEF Shows, ReplayedRows
    <3> QED
      BY <3>1, <3>5, <3>11, <3>12, <3>13
  <2>8. LoadFits'
    <3>1. LoadFits
      BY DEF RowsInv
    <3> QED
      BY <1>1, <2>3, <3>1 DEF LoadFits
  <2>9. \A x \in RowAgents \ (behind' \cup passed') : Shows(x)'
    BY <1>1, <2>7 DEF RowsInv
  <2>10. IsSeq(log') /\ \A i \in DOMAIN log' : EventFits(log'[i])
    BY <1>1 DEF RowsInv
  <2> QED
    BY <2>5, <2>6, <2>7, <2>8, <2>9, <2>10 DEF RowsInv
<1> QED
  BY <1>3, <1>4

LEMMA LoadKeeps == ASSUME RowsInv, NEW y \in RowAgents, NEW forced, SR!Load(y, forced) PROVE RowsInv'
<1>1. /\ load' = [agent |-> y, n |-> None, snap |-> slots[y], changed |-> FALSE]
      /\ UNCHANGED <<log, got, rowCursor, slots, behind, passed, sorted>>
  BY DEF SR!Load
<1>2. LoadFits'
  BY <1>1 DEF LoadFits
<1>3. \A x \in RowAgents \ (behind' \cup passed') : Shows(x)'
  BY <1>1 DEF RowsInv, Shows
<1> QED
  BY <1>1, <1>2, <1>3 DEF RowsInv

LEMMA ReadLogKeeps == ASSUME RowsInv, SR!ReadLog PROVE RowsInv'
<1>1. /\ load # None /\ load' = [load EXCEPT !.n = Len(log)]
      /\ UNCHANGED <<log, got, rowCursor, slots, behind, passed, sorted>>
  BY DEF SR!ReadLog
<1>2. LoadFits'
  <2>1. Len(log) \in 0..Len(log)
    BY LogIs
  <2> QED
    BY <1>1, <2>1 DEF RowsInv, LoadFits
<1>3. \A x \in RowAgents \ (behind' \cup passed') : Shows(x)'
  BY <1>1 DEF RowsInv, Shows
<1> QED
  BY <1>1, <1>2, <1>3 DEF RowsInv

LEMMA LoadsNothingKeeps == ASSUME RowsInv, SR!LoadsNothing PROVE RowsInv'
<1>1. load # None /\ load' = None /\ UNCHANGED <<log, got, rowCursor, passed, sorted>>
  BY DEF SR!LoadsNothing
<1>2. LoadFits'
  BY <1>1 DEF LoadFits
<1>3. CASE UNCHANGED <<slots, behind>>
  <2>1. \A x \in RowAgents \ (behind' \cup passed') : Shows(x)'
    BY <1>1, <1>3 DEF RowsInv, Shows
  <2> QED
    BY <1>1, <1>2, <1>3, <2>1 DEF RowsInv
<1>4. CASE /\ slots' = [slots EXCEPT ![load.agent] = <<>>]
           /\ behind' = behind \cup {y \in {load.agent} : slots[y] # <<>>}
  <2>1. PICK v : v = <<>>
    OBVIOUS
  <2>2. IsSeq(v) /\ \A k : k \notin DOMAIN v
    BY <2>1, Nothing
  <2>3. \A x : RowsFit(x, v)
    BY <2>2 DEF RowsFit, CardsDiffer
  <2>4. DOMAIN slots = RowAgents /\ \A x \in RowAgents : RowsFit(x, slots[x])
    BY DEF RowsInv
  <2>5. DOMAIN slots' = RowAgents /\ \A x \in RowAgents : slots'[x] = IF x = load.agent THEN v ELSE slots[x]
    BY <1>4, <2>1, <2>4
  <2>6. \A x \in RowAgents : RowsFit(x, slots'[x])
    BY <2>3, <2>4, <2>5
  <2>7. ASSUME NEW x \in RowAgents \ (behind' \cup passed') PROVE Shows(x)'
    <3>1. x \in RowAgents \ (behind \cup passed)
      BY <1>1, <1>4
    <3>2. x = load.agent => slots[x] = v
      BY <1>4, <2>1
    <3>3. slots'[x] = slots[x]
      BY <2>5, <3>2
    <3>4. Shows(x)
      BY <3>1 DEF RowsInv
    <3> QED
      BY <1>1, <3>3, <3>4 DEF Shows
  <2> QED
    BY <1>1, <1>2, <2>5, <2>6, <2>7 DEF RowsInv
<1> QED
  BY <1>3, <1>4 DEF SR!LoadsNothing

\* The load is committed: of its agent the log read says what the log up to the
\* cursor says, unless the agent is set back; of the others the cursor passes no row.
LEMMA CommitLoadKeeps == ASSUME RowsInv, SR!CommitLoad PROVE RowsInv'
<1>1. PICK x : x = load.agent
  OBVIOUS
<1>2. PICK n : n = load.n
  OBVIOUS
<1>3. PICK r : r = SR!Replay(x, n)
  OBVIOUS
<1>4. PICK I : I = SR!LedgerOf(x, n) \cup {rowCursor}
  OBVIOUS
<1>5. PICK seen : seen = SR!Max(I)
  OBVIOUS
<1>6. /\ load # None /\ n # None
      /\ slots' = [slots EXCEPT ![x] = SR!Merged(x, r)]
      /\ rowCursor' = seen
      /\ SR!Judged(x, r, n, seen)
      /\ load' = None
      /\ UNCHANGED <<log, got, rowLoads>>
  BY <1>1, <1>2, <1>3, <1>4, <1>5 DEF SR!CommitLoad
<1>7. x \in RowAgents /\ n \in 0..Len(log)
  BY <1>1, <1>2, <1>6 DEF RowsInv, LoadFits
<1>8. /\ Len(log) \in Nat /\ \A i \in 1..Len(log) : EventFits(log[i])
      /\ got \in Nat /\ rowCursor \in Nat /\ got <= rowCursor /\ rowCursor <= Len(log)
  BY LogIs DEF RowsInv
<1>9. /\ seen \in Nat /\ rowCursor <= seen /\ seen <= Len(log)
      /\ \A i \in 1..n : x \in SR!Concerns(log[i]) => i <= seen
      /\ seen = rowCursor \/ seen <= n
  <2>1. PICK J : J = {i + 1 : i \in I}
    OBVIOUS
  <2>2. I \subseteq 0..Len(log) /\ I # {}
    BY <1>4, <1>7, <1>8 DEF SR!LedgerOf
  <2>3. seen \in I /\ \A i \in I : seen >= i
    <3>1. seen = V!Max(I)
      BY <1>5 DEF SR!Max, V!Max
    <3>2. PICK m \in J : \A j \in J : m >= j
      <4>1. J \subseteq 1..Len(log) + 1 /\ J # {} /\ Len(log) + 1 \in Nat
        <5>1. \A i \in I : i + 1 \in 1..Len(log) + 1
          BY <1>8, <2>2
        <5>2. \E i \in I : i + 1 \in J
          BY <2>1, <2>2
        <5> QED
          BY <1>8, <2>1, <5>1, <5>2
      <4>2. V!Max(J) \in J /\ \A j \in J : V!Max(J) >= j
        BY <4>1, MaxIs
      <4> QED
        BY <4>2
    <3>3. PICK i \in I : m = i + 1
      BY <2>1, <3>2
    <3>4. \A k \in I : i >= k
      <4> SUFFICES ASSUME NEW k \in I PROVE i >= k
        OBVIOUS
      <4>1. m >= k + 1
        BY <2>1, <3>2
      <4> QED
        BY <1>8, <2>2, <3>3, <4>1
    <3>5. \E v \in I : \A k \in I : v >= k
      BY <3>4
    <3> QED
      BY <1>5, <3>5 DEF SR!Max
  <2>4. seen = rowCursor \/ seen \in SR!LedgerOf(x, n)
    BY <1>4, <2>3
  <2>5. \A i \in 1..n : x \in SR!Concerns(log[i]) => i \in I
    BY <1>4 DEF SR!LedgerOf
  <2>6. seen \in SR!LedgerOf(x, n) => seen <= n
    BY <1>7 DEF SR!LedgerOf
  <2>7. seen \in 0..Len(log) /\ rowCursor <= seen
    BY <1>4, <1>8, <2>2, <2>3
  <2>8. \A i \in 1..n : x \in SR!Concerns(log[i]) => i <= seen
    BY <1>7, <1>8, <2>2, <2>3, <2>5, <2>7
  <2> QED
    BY <1>8, <2>4, <2>6, <2>7, <2>8
<1>10. r = ReplayOf(x, log, n)
  BY <1>3 DEF SR!Replay, ReplayOf
<1>11. RowsFit(x, slots[x]) /\ RowsFit(x, r.rows)
  <2>1. RowsFit(x, ReplayOf(x, log, n).rows)
    BY <1>7, <1>8, ReplayFits
  <2> QED
    BY <1>7, <1>10, <2>1 DEF RowsInv
<1>12. PICK t : t = SR!Merged(x, r)
  OBVIOUS
<1>13. /\ RowsFit(x, t)
       /\ SR!Kept(x, r) = <<>> => t = r.rows
       /\ Held(SR!Distilled(x, t)) = Held(SR!Distilled(x, r.rows))
  BY <1>7, <1>11, <1>12, MergedRows
<1>14. /\ DOMAIN slots' = RowAgents
       /\ \A y \in RowAgents : slots'[y] = IF y = x THEN t ELSE slots[y]
  BY <1>6, <1>12 DEF RowsInv
<1>15. \A y \in RowAgents : RowsFit(y, slots'[y])
  BY <1>13, <1>14 DEF RowsInv
<1>16. /\ behind' = IF \E i \in n + 1..rowCursor : x \in SR!Concerns(log[i]) THEN behind \cup {x} ELSE behind \ {x}
       /\ passed' = (IF \E i \in n + 1..seen : x \in SR!Concerns(log[i]) THEN passed ELSE passed \ {x})
                    \cup UNION {SR!Shown(log[i]) \ {x} : i \in rowCursor + 1..seen}
       /\ sorted' = IF SR!Kept(x, r) = <<>> THEN sorted \ {x} ELSE sorted \cup {x}
  BY <1>6 DEF SR!Judged
<1>17. ASSUME x \notin behind' PROVE Shows(x)'
  <2>1. \A i \in n + 1..rowCursor : x \notin SR!Concerns(log[i])
    BY <1>16, <1>17
  <2>2. ReplayOf(x, log, seen) = ReplayOf(x, log, n)
    <3>1. CASE n <= seen
      <4>1. \A i \in n + 1..seen : x \notin SR!Concerns(log[i])
        BY <1>7, <1>9, <2>1, <3>1
      <4> QED
        BY <1>7, <1>9, <3>1, <4>1, ReplaySkips
    <3>2. CASE ~(n <= seen)
      <4>1. seen <= n
        BY <1>7, <1>9, <3>2
      <4>2. \A i \in seen + 1..n : x \notin SR!Concerns(log[i])
        <5> SUFFICES ASSUME NEW i \in seen + 1..n PROVE x \notin SR!Concerns(log[i])
          OBVIOUS
        <5>1. i \in 1..n /\ ~(i <= seen)
          BY <1>7, <1>9
        <5> QED
          BY <1>9, <5>1
      <4>3. ReplayOf(x, log, n) = ReplayOf(x, log, seen)
        BY <1>7, <1>9, <4>1, <4>2, ReplaySkips
      <4> QED
        BY <4>3
    <3> QED
      BY <3>1, <3>2
  <2>3. ReplayedRows(x, log, seen) = SR!Distilled(x, r.rows)
    BY <1>10, <2>2 DEF ReplayedRows
  <2>4. Same(x \in sorted', SR!Distilled(x, t), SR!Distilled(x, r.rows))
    BY <1>13, <1>16 DEF Same
  <2>5. slots'[x] = t /\ log' = log /\ rowCursor' = seen
    BY <1>6, <1>7, <1>14
  <2> QED
    BY <2>3, <2>4, <2>5 DEF Shows
<1>18. ASSUME NEW y \in RowAgents, y # x, y \notin behind', y \notin passed' PROVE Shows(y)'
  <2>1. y \notin behind /\ y \notin passed /\ (y \in sorted' <=> y \in sorted)
    BY <1>16, <1>18
  <2>2. \A i \in rowCursor + 1..seen : y \notin SR!Shown(log[i])
    BY <1>16, <1>18
  <2>3. Shows(y)
    BY <2>1 DEF RowsInv
  <2>4. ReplayedRows(y, log, seen) = ReplayedRows(y, log, rowCursor)
    <3>1. \A i \in 1..seen : EventFits(log[i])
      BY <1>8, <1>9
    <3> QED
      BY <1>8, <1>9, <2>2, <3>1, ShownSkips
  <2>5. slots'[y] = slots[y] /\ log' = log /\ rowCursor' = seen
    BY <1>6, <1>14, <1>18
  <2> QED
    BY <2>1, <2>3, <2>4, <2>5 DEF Shows, Same
<1>19. \A y \in RowAgents \ (behind' \cup passed') : Shows(y)'
  BY <1>17, <1>18
<1>20. LoadFits'
  BY <1>6 DEF LoadFits
<1>21. got' \in Nat /\ rowCursor' \in Nat /\ got' <= rowCursor' /\ rowCursor' <= Len(log')
  BY <1>6, <1>8, <1>9
<1>22. IsSeq(log') /\ \A i \in DOMAIN log' : EventFits(log'[i])
  BY <1>6 DEF RowsInv
<1> QED
  BY <1>14, <1>15, <1>19, <1>20, <1>21, <1>22 DEF RowsInv

LEMMA RowsStep == ASSUME RowsInv, SR!Next PROVE RowsInv'
<1>1. CASE SR!Server
  BY <1>1, Emitted, LoggedKeeps
<1>2. CASE \E y \in RowAgents, forced \in BOOLEAN : SR!Load(y, forced)
  BY <1>2, LoadKeeps
<1> QED
  BY <1>1, <1>2, ReceiveKeeps, ReadLogKeeps, CommitLoadKeeps, LoadsNothingKeeps DEF SR!Next

LEMMA RowsRest == ASSUME RowsInv, UNCHANGED SR!rowVars PROVE RowsInv'
<1>1. UNCHANGED <<log, got, rowCursor, slots, load, rowLoads, behind, passed, sorted>>
  BY DEF SR!rowVars
<1>2. \A x \in RowAgents \ (behind' \cup passed') : Shows(x)'
  BY <1>1 DEF RowsInv, Shows
<1>3. LoadFits'
  BY <1>1 DEF RowsInv, LoadFits
<1> QED
  BY <1>1, <1>2, <1>3 DEF RowsInv

LEMMA RowsAgree == ASSUME RowsInv PROVE RowsLikeReload
<1>1. ASSUME got = Len(log), NEW x \in RowAgents \ (behind \cup passed) PROVE SR!Agrees(x)
  <2>1. rowCursor = Len(log)
    BY <1>1, LogIs DEF RowsInv
  <2>2. Shows(x)
    BY DEF RowsInv
  <2>3. PICK d : d = SR!Distilled(x, slots[x])
    OBVIOUS
  <2>4. PICK d2 : d2 = SR!Distilled(x, SR!Replay(x, Len(log)).rows)
    OBVIOUS
  <2>5. SR!Replay(x, Len(log)) = ReplayOf(x, log, Len(log))
    BY DEF SR!Replay, ReplayOf
  <2>6. d2 = ReplayedRows(x, log, rowCursor)
    BY <2>1, <2>4, <2>5 DEF ReplayedRows
  <2>7. Same(x \in sorted, d, d2)
    BY <2>2, <2>3, <2>6 DEF Shows
  <2>8. SR!ToSet(d) = Held(d) /\ SR!ToSet(d2) = Held(d2)
    BY DEF SR!ToSet, Held
  <2>9. IF x \in sorted THEN SR!ToSet(d) = SR!ToSet(d2) ELSE d = d2
    BY <2>7, <2>8 DEF Same
  <2> QED
    BY <2>3, <2>4, <2>9 DEF SR!Agrees
<1>2. ASSUME NEW x \in RowAgents, NEW i \in DOMAIN slots[x], slots[x][i].role = "system"
      PROVE  SR!Visible(slots[x][i].of) /\ SR!Cardinality(SR!Card(slots[x], slots[x][i].row)) <= 1
  <2>1. PICK rows : rows = slots[x]
    OBVIOUS
  <2>2. RowsFit(x, rows)
    BY <2>1 DEF RowsInv
  <2>3. PICK m : m = rows[i]
    OBVIOUS
  <2>4. RowFits(x, m) /\ m.role = "system"
    BY <1>2, <2>1, <2>2, <2>3 DEF RowsFit
  <2>5. EventFits(m.of) /\ RowOf(x, m.of, m.row)
    BY <2>4, SystemRow
  <2>6. SR!Visible(m.of)
    BY <2>5, RowForm
  <2>7. PICK C : C = SR!Card(rows, m.row)
    OBVIOUS
  <2>8. \A k \in C : k = i
    <3> SUFFICES ASSUME NEW k \in C PROVE k = i
      OBVIOUS
    <3>1. k \in DOMAIN rows /\ OneCard(rows[k], rows[i])
      BY <2>3, <2>4, <2>7 DEF SR!Card, OneCard
    <3> QED
      BY <2>1, <2>2, <3>1 DEF RowsFit, CardsDiffer
  <2>9. C = {} \/ C = {i}
    BY <2>8
  <2>10. Cardinality(C) <= 1
    <3>1. Cardinality({}) = 0 /\ Cardinality({i}) = 1
      BY FS_EmptySet, FS_Singleton
    <3>2. Cardinality(C) \in {0, 1}
      BY <2>9, <3>1
    <3> QED
      BY <3>2
  <2>11. SR!Cardinality(C) = Cardinality(C)
    BY DEF SR!Cardinality, Cardinality
  <2> QED
    BY <2>1, <2>3, <2>6, <2>7, <2>10, <2>11
<1> QED
  BY <1>1, <1>2 DEF RowsLikeReload, SR!RowsLikeReload

\* A slot shows the rows a reload of it would show, whatever frames, loads and failed
\* loads came in between, unless a load set it back or passed it by; a delegation and
\* a compaction have one card, and what is private has none.
THEOREM RowsAreLikeReload == (SR!Spec => []RowsLikeReload) /\ (MCSpec => []RowsLikeReload)
<1>1. SR!Init => RowsInv
  BY RowsBegin
<1>2. RowsInv /\ [SR!Next]_(SR!rowVars) => RowsInv'
  BY RowsStep, RowsRest
<1>3. RowsInv => RowsLikeReload
  BY RowsAgree
<1>4. SR!Spec => []RowsLikeReload
  BY <1>1, <1>2, <1>3, PTL DEF SR!Spec
<1>5. MCSpec => []RowsLikeReload
  <2>1. [MCNext]_mcVars => [SR!Next]_(SR!rowVars)
    BY DEF MCNext, Stream, Trace, Work, Rows, mcVars, rowVars, SR!rowVars
  <2>2. MCInit => SR!Init
    BY DEF MCInit
  <2> QED
    BY <1>1, <1>2, <1>3, <2>1, <2>2, PTL DEF MCSpec
<1> QED
  BY <1>4, <1>5
================================================================================
