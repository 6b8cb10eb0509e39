----------------------------- MODULE ThreadFocus -----------------------------
(***************************************************************************)
(* Which thread the panel shows and whether its log was asked for.          *)
(* Handoffs park a teammate (handoff-focus.ts), an ask of a teammate pulls   *)
(* the focus to its thread (use-agent-thread.ts), the panel loads the log of *)
(* each thread once while its tab is open (ChatPanel.tsx), and closing a tab *)
(* takes the session's messages away (store.ts).                            *)
(*                                                                         *)
(* The shell renders a change before anything else runs, so the effects of   *)
(* the panel (Effects) belong to the step that changed the shell.           *)
(***************************************************************************)
EXTENDS Naturals, FiniteSets, FiniteSetsExt

CONSTANTS
  Sids, Agents, None,
  Root,        \* the root of each session's agents
  Main,        \* the agent the product catalog calls main
  Calls,       \* asks of agents
  CallSid, CallAgent,   \* the session and the agent of an ask
  MaxMoves,    \* moves of the user, of the tree and of the panel's mount
  MaxPulls     \* times an ask pulls the focus

Threads == Sids \X Agents

VARIABLES
  open,      \* the sessions that have a tab
  active,    \* the active session
  bound,     \* the agent of each tab
  tree,      \* the sessions whose agents, as known, include the root
  main,      \* the catalog's answer
  parked,    \* lastSubBySid
  jumped,    \* lastAskJumpRef
  loaded,    \* loadedKeysRef
  reading,   \* requests for logs in flight
  settled,   \* threads whose log came, or could not be had, since their tab opened
  misled,    \* sessions shown while the catalog stood in for another root
  pulls,     \* how often each ask pulled the focus
  mounts, moves

vars == <<open, active, bound, tree, main, parked, jumped, loaded, reading, settled,
          misled, pulls, mounts, moves>>

shell == <<open, active, bound, tree, main>>

---------------------------------------------------------------------------
(* pickLiveRootAgentId and resolveSessionRootAgentId: the tree, else the      *)
(* catalog.                                                                 *)
RootIn(sid, rows, catalog) ==
  IF sid # None /\ sid \in rows THEN Root[sid] ELSE catalog

RootAgent == RootIn(active, tree, main)

Shown == IF active # None /\ active \in open /\ bound[active] # None
         THEN {<<active, bound[active]>>} ELSE {}

(* rememberLastSubAgent *)
Remembered(last, sid, agent, root) ==
  IF None \in {sid, agent, root} \/ agent = root THEN last
  ELSE [last EXCEPT ![sid] = agent]

\* Mutant: no effect forgets the keys of closed tabs.
MutKept(keys) == keys

(* Keys of sessions without a tab are forgotten. *)
Kept(keys) == {key \in keys : key[1] \in open'}

Counted(key) == [reading EXCEPT ![key] = @ + 1]

(* The effects of a render, in the order of the hooks: the thread shown is     *)
(* remembered, its log is asked for once, keys of closed tabs are forgotten.   *)
EffectsOn(last, asked) ==
  LET agent == IF active' = None THEN None ELSE bound'[active']
      root == RootIn(active', tree', main')
      fresh == Shown' \ asked
  IN /\ parked' = Remembered(last, active', agent, root)
     /\ misled' = IF active' # None /\ root \notin {None, Root[active']}
                  THEN misled \cup {active'} ELSE misled
     /\ loaded' = Kept(asked \cup Shown')
     /\ reading' = IF fresh = {} THEN reading ELSE Counted(CHOOSE key \in fresh : TRUE)

Effects == EffectsOn(parked, loaded)

---------------------------------------------------------------------------
(* The shell. *)

Moves == moves < MaxMoves /\ moves' = moves + 1

OpenTab ==
  \E sid \in Sids \ open, agent \in Agents \cup {None} :
    /\ Moves
    /\ open' = open \cup {sid}
    /\ bound' = [bound EXCEPT ![sid] = agent]
    /\ UNCHANGED <<active, tree, main, jumped, settled, pulls, mounts>>
    /\ Effects

(* The registry drops the messages of a session whose tab is gone; another tab *)
(* may become the active one.                                                *)
CloseTab ==
  \E sid \in open :
    /\ Moves
    /\ open' = open \ {sid}
    /\ bound' = [bound EXCEPT ![sid] = None]
    /\ active' \in IF active = sid THEN (open \ {sid}) \cup {None} ELSE {active}
    /\ settled' = {key \in settled : key[1] # sid}
    /\ UNCHANGED <<tree, main, jumped, pulls, mounts>>
    /\ Effects

SelectSession ==
  \E sid \in open \ {active} :
    /\ Moves
    /\ active' = sid
    /\ UNCHANGED <<open, bound, tree, main, jumped, settled, pulls, mounts>>
    /\ Effects

SetTabAgent(sid, agent) ==
  /\ bound' = IF sid \in open THEN [bound EXCEPT ![sid] = agent] ELSE bound
  /\ UNCHANGED <<open, active, tree, main>>
  /\ Effects

(* The user opens the thread of an agent, goes back to the root, or returns to *)
(* the parked teammate.                                                      *)
OpenAgent ==
  \E agent \in Agents :
    /\ Moves
    /\ active # None
    /\ SetTabAgent(active, agent)
    /\ UNCHANGED <<jumped, settled, pulls, mounts>>

BackToMain ==
  /\ Moves
  /\ active # None
  /\ SetTabAgent(active, RootAgent)
  /\ UNCHANGED <<jumped, settled, pulls, mounts>>

ReturnToSub ==
  /\ Moves
  /\ active # None
  /\ parked[active] # None
  /\ SetTabAgent(active, parked[active])
  /\ UNCHANGED <<jumped, settled, pulls, mounts>>

(* agent_added and agent_removed events of any session; only the root's matter. *)
TreeChanges ==
  \E sid \in Sids :
    /\ Moves
    /\ tree' = IF sid \in tree THEN tree \ {sid} ELSE tree \cup {sid}
    /\ UNCHANGED <<open, active, bound, main, jumped, settled, pulls, mounts>>
    /\ Effects

CatalogAnswers ==
  /\ main = None
  /\ main' = Main
  /\ UNCHANGED <<open, active, bound, tree, jumped, settled, pulls, mounts, moves>>
  /\ Effects

(* The panel is mounted anew. *)
Remount ==
  /\ Moves
  /\ mounts = 1
  /\ mounts' = 2
  /\ main' = None
  /\ jumped' = None
  /\ UNCHANGED <<open, active, bound, tree, settled, pulls>>
  /\ EffectsOn([sid \in Sids |-> None], {})

---------------------------------------------------------------------------
(* Events of the session stream. *)

(* parkedAgentIdFromInterAgentHandoff: an agent of the active session hands     *)
(* over to another one, which is parked.                                     *)
Handoff ==
  \E from, to \in Agents :
    /\ active # None
    /\ from # to
    /\ parked' = Remembered(parked, active, to, RootAgent)
    /\ UNCHANGED <<shell, jumped, loaded, reading, settled, misled, pulls, mounts, moves>>

(* focusAgentIdFromAskUser: an ask of a teammate of the active session.         *)
Pulls(call) ==
  /\ CallSid[call] = active
  /\ RootAgent # None
  /\ CallAgent[call] # RootAgent

(* A frame of an ask, live (there are several) or in a snapshot. *)
AskFrame ==
  \E call \in Calls :
    /\ Pulls(call)
    /\ jumped # call
    /\ pulls[call] < MaxPulls
    /\ jumped' = call
    /\ pulls' = [pulls EXCEPT ![call] = @ + 1]
    /\ SetTabAgent(active, CallAgent[call])
    /\ UNCHANGED <<settled, mounts, moves>>

---------------------------------------------------------------------------
(* Logs. *)

(* loadSession commits the replay, also when its tab was closed meanwhile, or    *)
(* fails, or meets a bubble that streams without anchor and keeps the slot.      *)
LogSettled ==
  \E key \in Threads :
    /\ reading[key] > 0
    /\ reading' = [reading EXCEPT ![key] = @ - 1]
    /\ settled' = settled \cup {key}
    /\ UNCHANGED <<shell, parked, jumped, loaded, misled, pulls, mounts, moves>>

---------------------------------------------------------------------------
Init ==
  /\ open = {}
  /\ active = None
  /\ bound = [sid \in Sids |-> None]
  /\ tree = {}
  /\ main = None
  /\ parked = [sid \in Sids |-> None]
  /\ jumped = None
  /\ loaded = {}
  /\ reading = [key \in Threads |-> 0]
  /\ settled = {}
  /\ misled = {}
  /\ pulls = [call \in Calls |-> 0]
  /\ mounts = 1
  /\ moves = 0

Next ==
  \/ OpenTab \/ CloseTab \/ SelectSession
  \/ OpenAgent \/ BackToMain \/ ReturnToSub
  \/ TreeChanges \/ CatalogAnswers \/ Remount
  \/ Handoff \/ AskFrame
  \/ LogSettled

Spec == Init /\ [][Next]_vars

---------------------------------------------------------------------------
(* The log of the thread on screen is in the store, on its way, or could not   *)
(* be had, however often its tab was closed, opened again and switched.       *)
ShownIsLoaded ==
  \A key \in Shown : key \in settled \/ reading[key] > 0

(* A parked agent is a teammate, never the root the user would be leaving,     *)
(* except where the catalog once stood in for a root the tree did not tell.    *)
ParkedIsTeammate ==
  \A sid \in Sids \ misled : parked[sid] # Root[sid]

(* The frames of one ask pull the user to its thread once per mounted panel;    *)
(* she is not pulled back unless another ask pulled in between.               *)
PulledOnce ==
  \A call \in Calls :
    pulls[call] <= mounts + MapThenSumSet(LAMBDA other : pulls[other], Calls \ {call})

FocusKept == ShownIsLoaded /\ ParkedIsTeammate /\ PulledOnce
=============================================================================
