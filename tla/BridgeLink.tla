------------------------------ MODULE BridgeLink ------------------------------
(***************************************************************************)
(* What the WebSocket bridge of the chat page promises to its callers, with *)
(* no socket, timer or backoff in it: the page wants the frames of at most  *)
(* one session, the link to that session is live or not, and a frame        *)
(* reaches the handlers only over the live link of the wanted session.      *)
(* BridgeSocket is shown to implement this module.                          *)
(***************************************************************************)
EXTENDS Naturals

CONSTANTS Sids,   \* the session ids
          NoSid   \* null: no session is wanted

VARIABLES
  want,    \* _desiredSid: the session connectForgeaXWs was last given
  live,    \* an open socket for `want` is the current one
  routed   \* <<session of the last frame given to the handlers, parity>>

linkVars == <<want, live, routed>>

Init == /\ want = NoSid
        /\ live = FALSE
        /\ routed = <<NoSid, 0>>

\* connectForgeaXWs: asking again for the session of a live link keeps the link.
Choose(s) == /\ want' = s
             /\ live' = (live /\ s = want)
             /\ UNCHANGED routed

\* The page's host disposes or replaces the connection: every link is closed.
Release == /\ want' = NoSid
           /\ live' = FALSE
           /\ UNCHANGED routed

Attach == /\ want # NoSid
          /\ ~live
          /\ live' = TRUE
          /\ UNCHANGED <<want, routed>>

Lose == /\ live
        /\ live' = FALSE
        /\ UNCHANGED <<want, routed>>

\* The parity makes two frames of one session two distinct steps.
Route == /\ live
         /\ routed' = <<want, 1 - routed[2]>>
         /\ UNCHANGED <<want, live>>

Next == \/ \E s \in Sids : Choose(s)
        \/ Release
        \/ Attach
        \/ Lose
        \/ Route

Spec == Init /\ [][Next]_linkVars

\* A page that keeps wanting one session is connected to it again and again.
Recovers == \A s \in Sids : <>[](want = s) => []<>live
================================================================================
