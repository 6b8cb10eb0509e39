----------------------------- MODULE BridgeSocket -----------------------------
(***************************************************************************)
(* The life of the WebSocket of session-bridge.ts: connectForgeaXWs, the    *)
(* listeners _connectOnce attaches to every socket it creates, the reconnect*)
(* timer with its exponential backoff, and the replacement of the transport *)
(* by the host (connection.ts).  The browser's sockets are external: `net`  *)
(* is the state of each one, and a socket told to close may still deliver   *)
(* frames until its close event arrives.                                    *)
(***************************************************************************)
EXTENDS Naturals

CONSTANTS Sids,          \* session ids
          NoSid,         \* null
          Socks,         \* socket objects; an id is reused once its socket is closed
          NoSock,        \* null
          Hosts,         \* transports an embedding host may install
          Browser,       \* the default transport, browserConnection
          InitialDelay,  \* 1000 ms
          MaxDelay       \* RECONNECT_MAX_MS

ASSUME SidAssumption  == NoSid \notin Sids
ASSUME SockAssumption == NoSock \notin Socks
ASSUME HostAssumption == Browser \in Hosts
ASSUME DelayAssumption ==
  /\ InitialDelay \in Nat \ {0}
  /\ MaxDelay \in Nat
  /\ InitialDelay <= MaxDelay

VARIABLES
  desired,    \* _desiredSid
  attached,   \* _attachedSid
  ws,         \* _ws
  connected,  \* _connected
  timer,      \* the delay _reconnectTimer was armed with, 0 when it is null
  delay,      \* _reconnectDelay
  host,       \* connection (connection.ts)
  net,        \* browser: state of each socket object
  sockSid,    \* the session in the URL of each socket
  sockHost,   \* the transport that opened each socket
  routed      \* <<session of the last frame given to the handlers, parity>>

pageVars == <<desired, attached, ws, connected, timer, delay, host>>
netVars  == <<net, sockSid, sockHost>>
vars     == <<desired, attached, ws, connected, timer, delay, host,
              net, sockSid, sockHost, routed>>

NetStates == {"connecting", "open", "closing", "closed"}

Init == /\ desired = NoSid
        /\ attached = NoSid
        /\ ws = NoSock
        /\ connected = FALSE
        /\ timer = 0
        /\ delay = InitialDelay
        /\ host = Browser
        /\ net = [k \in Socks |-> "closed"]
        /\ sockSid \in [Socks -> Sids]
        /\ sockHost = [k \in Socks |-> Browser]
        /\ routed = <<NoSid, 0>>

-------------------------------------------------------------------------------

MutNetAfterClose == net
NetAfterClose == [k \in Socks |-> IF k = ws THEN "closing" ELSE net[k]]

MutBackoff(d) == 2 * d
Backoff(d) == IF 2 * d < MaxDelay THEN 2 * d ELSE MaxDelay

\* _connectOnce with a working constructor: the previous socket is closed, the
\* new one becomes current.  The guard net[k] = "closed" bounds the number of
\* sockets alive at once by the number of ids.
Opens(s, k) == /\ net[k] = "closed"
               /\ ws' = k
               /\ net' = [NetAfterClose EXCEPT ![k] = "connecting"]
               /\ sockSid' = [sockSid EXCEPT ![k] = s]
               /\ sockHost' = [sockHost EXCEPT ![k] = host]

MutThrows(d) == /\ ws' = NoSock
                /\ net' = NetAfterClose
                /\ timer' = 0
                /\ UNCHANGED <<sockSid, sockHost>>

\* _connectOnce whose constructor throws: no socket, _scheduleReconnect arms the
\* timer its callers have just cleared, with the delay d they have just set.
Throws(d) == /\ ws' = NoSock
             /\ net' = NetAfterClose
             /\ timer' = d
             /\ UNCHANGED <<sockSid, sockHost>>

\* The early return of connectForgeaXWs.
AlreadyAttached(s) == s = attached /\ ws # NoSock /\ connected

\* connectForgeaXWs(s) for a session; _connected keeps the value it had.
Connect(s) ==
  /\ desired' = s
  /\ UNCHANGED <<connected, host, routed>>
  /\ IF AlreadyAttached(s)
     THEN UNCHANGED <<attached, ws, timer, delay, net, sockSid, sockHost>>
     ELSE /\ delay' = InitialDelay
          /\ attached' = s
          /\ \/ timer' = 0 /\ \E k \in Socks : Opens(s, k)
             \/ Throws(InitialDelay)

MutCloseAll == /\ desired' = NoSid
               /\ attached' = NoSid
               /\ ws' = NoSock
               /\ connected' = FALSE
               /\ net' = NetAfterClose
               /\ UNCHANGED <<timer, delay, sockSid, sockHost, routed>>

\* connectForgeaXWs(null), also the cleanup registered with connection.ts.
CloseAll == /\ desired' = NoSid
            /\ attached' = NoSid
            /\ ws' = NoSock
            /\ connected' = FALSE
            /\ timer' = 0
            /\ net' = NetAfterClose
            /\ UNCHANGED <<delay, sockSid, sockHost, routed>>

Disconnect == CloseAll /\ UNCHANGED host

\* setChatConnection(h): the cleanups run before the transport changes.
SetConnection(h) == h # host /\ CloseAll /\ host' = h

\* disposeChatConnection.
Dispose == CloseAll /\ host' = Browser

\* The reconnect timer fires: the backoff doubles, then _connectOnce(desired).
TimerFires(s) ==
  /\ timer # 0
  /\ s = desired
  /\ delay' = Backoff(delay)
  /\ attached' = s
  /\ UNCHANGED <<desired, connected, host, routed>>

Reconnect(s) == TimerFires(s) /\ timer' = 0 /\ \E k \in Socks : Opens(s, k)

ReconnectFails(s) == TimerFires(s) /\ Throws(Backoff(delay))

MutOpenEvent(k) ==
  /\ net[k] = "connecting"
  /\ net' = [net EXCEPT ![k] = "open"]
  /\ connected' = (connected \/ ws = k)
  /\ UNCHANGED <<desired, attached, ws, timer, delay, host, sockSid, sockHost, routed>>

\* "open": ignored by a socket that is no longer the current one.
OpenEvent(k) ==
  /\ net[k] = "connecting"
  /\ net' = [net EXCEPT ![k] = "open"]
  /\ IF ws = k THEN connected' = TRUE /\ delay' = InitialDelay
               ELSE UNCHANGED <<connected, delay>>
  /\ UNCHANGED <<desired, attached, ws, timer, host, sockSid, sockHost, routed>>

MutMessageEvent(k) ==
  /\ net[k] \in {"open", "closing"}
  /\ routed' = <<sockSid[k], 1 - routed[2]>>
  /\ UNCHANGED <<pageVars, netVars>>

\* "message": a late frame of an orphaned socket is dropped.
MessageEvent(k) ==
  /\ net[k] \in {"open", "closing"}
  /\ routed' = IF ws = k THEN <<sockSid[k], 1 - routed[2]>> ELSE routed
  /\ UNCHANGED <<pageVars, netVars>>

\* "close": only the current socket clears the state and schedules.
CloseEvent(k) ==
  /\ net[k] # "closed"
  /\ net' = [net EXCEPT ![k] = "closed"]
  /\ IF ws = k
     THEN /\ connected' = FALSE
          /\ ws' = NoSock
          /\ timer' = IF timer = 0 /\ desired # NoSid THEN delay ELSE timer
     ELSE UNCHANGED <<connected, ws, timer>>
  /\ UNCHANGED <<desired, attached, delay, host, sockSid, sockHost, routed>>

Next == \/ \E s \in Sids : Connect(s)
        \/ Disconnect
        \/ \E h \in Hosts : SetConnection(h)
        \/ Dispose
        \/ \E s \in Sids : Reconnect(s)
        \/ \E s \in Sids : ReconnectFails(s)
        \/ \E k \in Socks : OpenEvent(k)
        \/ \E k \in Socks : MessageEvent(k)
        \/ \E k \in Socks : CloseEvent(k)

Spec == Init /\ [][Next]_vars

\* The browser fires an armed timer and delivers the close event of a closing
\* socket; a transport that keeps being tried lets a constructor and then a
\* handshake succeed again and again.
Fairness == /\ \A s \in Sids : SF_vars(Reconnect(s))
            /\ \A k \in Socks : SF_vars(OpenEvent(k) /\ k = ws)
            /\ \A k \in Socks : WF_vars(CloseEvent(k) /\ k # ws)

FairSpec == Spec /\ Fairness

-------------------------------------------------------------------------------

TypeOK == /\ desired \in Sids \cup {NoSid}
          /\ attached \in Sids \cup {NoSid}
          /\ ws \in Socks \cup {NoSock}
          /\ connected \in BOOLEAN
          /\ timer \in 0..MaxDelay
          /\ delay \in InitialDelay..MaxDelay
          /\ host \in Hosts
          /\ net \in [Socks -> NetStates]
          /\ sockSid \in [Socks -> Sids]
          /\ sockHost \in [Socks -> Hosts]
          /\ routed \in (Sids \cup {NoSid}) \X {0, 1}

\* While a session is wanted there is exactly one of a socket and an armed
\* timer, so the bridge is neither stuck nor about to open a second socket;
\* while none is wanted there is neither (session-bridge.ts, _scheduleReconnect
\* and connectForgeaXWs).
NeverStuckNeverDoubled ==
  /\ desired = NoSid => ws = NoSock /\ timer = 0
  /\ desired # NoSid => (ws # NoSock <=> timer = 0)

\* The current socket carries the wanted session over the installed transport
\* and was not told to close; every other socket is closing or closed, so no
\* frame can be dispatched twice (the comment at the head of _connectOnce).
OneLiveSocket ==
  /\ \A k \in Socks : net[k] \in {"connecting", "open"} => k = ws
  /\ ws # NoSock => /\ net[ws] \in {"connecting", "open"}
                    /\ sockSid[ws] = desired
                    /\ sockHost[ws] = host

\* A connection that opened starts the next series of retries from the initial
\* delay: an open current socket means the backoff was reset.
BackoffRestarts == ws # NoSock /\ net[ws] = "open" => delay = InitialDelay

IsLive == ws # NoSock /\ net[ws] = "open"

Link == INSTANCE BridgeLink WITH want <- desired, live <- IsLive

\* The socket, timer and backoff implement the link of BridgeLink: a frame
\* reaches the handlers only from the open current socket of the wanted session.
ImplementsLink == Link!Spec

\* A page that keeps wanting one session is connected to it again and again,
\* whatever constructors throw and handshakes fail in between.
Recovers == Link!Recovers
================================================================================
