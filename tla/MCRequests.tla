------------------------------- MODULE MCRequests -------------------------------
(* Model-checking instance of three parts that ask and are answered, and share   *)
(* no variable: the permission cards, with one session, a question and an        *)
(* approval, the checkpoint rewind, and the reading of a CLI reply.  One of them *)
(* (focus) takes the steps.                                                      *)
EXTENDS PermissionStream

CONSTANTS MaxMsgs, MaxRewinds, MaxFrames, MaxReads,
          Final, Main, Subs, Calls, MaxStream

ASSUME RewindAssumption ==
  /\ MaxMsgs \in Nat /\ MaxRewinds \in Nat
  /\ None \notin {"ok", "refused"}
  /\ \A b \in 1..MaxRewinds, msg \in 1..MaxMsgs : None # <<b, msg>>

CliTools == [args : Seq(Nat) \cup {Final}, status : {"running", "done", "error"}]

\* The agent of a reply is no sub-agent, and None is no call and nothing that is kept of one.
ASSUME CliAssumption ==
  /\ Main \notin Subs /\ IsFiniteSet(Calls)
  /\ None \notin Calls \cup CliTools \cup [from : Subs \cup {Main}, deltas : Seq(Nat)]
  /\ None \notin [text : Seq(Nat), calls : [Calls -> CliTools \cup {None}],
                  status : {"streaming", "done", "error"}]

VARIABLES focus, ledger, wire, sent, rows, pend, dialog, edit, calls, reads, muddled,
          said, bubble, textBuf, deltaBuf, reading, cut

rewindVars == <<ledger, wire, sent, rows, pend, dialog, edit, calls, reads, muddled>>
cliVars == <<said, bubble, textBuf, deltaBuf, reading, cut>>

R == INSTANCE Rewind
C == INSTANCE CliStream

MCInit == focus \in {"cards", "rewind", "cli"} /\ Init /\ R!Init /\ C!Init

MCNext == /\ UNCHANGED focus
          /\ \/ focus = "cards" /\ Next /\ UNCHANGED <<rewindVars, cliVars>>
             \/ focus = "rewind" /\ R!Next /\ UNCHANGED <<vars, cliVars>>
             \/ focus = "cli" /\ C!Next /\ UNCHANGED <<vars, rewindVars>>

MCSpec == MCInit /\ [][MCNext]_<<focus, vars, rewindVars, cliVars>>

\* The properties of Rewind and CliStream, stated there.
RewindAgrees == R!RewindAgrees
StreamKept == C!StreamKept
================================================================================
