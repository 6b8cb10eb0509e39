----------------------------- MODULE ResumeStream -----------------------------
(***************************************************************************)
(* How one session's event stream survives disconnections: the cursor and   *)
(* the sequence gate, the since= of the reconnect URL, the resume-gap buffer*)
(* of session-bridge.ts, and the recovery session-stream.ts starts for a    *)
(* gap.  The link goes up and down as in BridgeLink.  The server is external*)
(* and reconstructed from the comments and frames of the page's code: it    *)
(* numbers the events of each of its generations from 1, keeps them all in  *)
(* the durable log (WAL) and, on a reconnection, either replays its ring    *)
(* buffer after `since` or declares a gap.                                  *)
(*                                                                          *)
(* A browser task runs to completion with its microtasks, so every action   *)
(* of the page waits until pendingSessionWork is drained.                   *)
(***************************************************************************)
EXTENDS Naturals, Sequences

CONSTANTS MaxGen,    \* bound on the server's restarts
          MaxSeq,    \* bound on the events of one generation
          MaxHeld,   \* bound on the frames buffered during a gap
          GapLoads,  \* recoveries that may be in flight at once
          OpenLoad,  \* the history load of an opened tab
          None       \* undefined, null

ASSUME NoneAssumption == None \notin Nat \cup [gen : Nat, seq : Nat]
ASSUME BoundAssumption ==
  MaxGen \in Nat \ {0} /\ MaxSeq \in Nat /\ MaxHeld \in Nat

Gens  == 1..MaxGen
Seqs  == 1..MaxSeq
Loads == GapLoads \cup {OpenLoad}

VARIABLES
  gen,       \* server: the generation (sgen) running now
  last,      \* server: the last sequence number of each generation
  link,      \* "down", "dialing" (URL built) or "up"
  since,     \* the cursor in the URL of the current socket
  chan,      \* the frames of the current socket not yet received
  hello,     \* _helloSgen of the session
  cursor,    \* _cursors of the session
  gapBuf,    \* _gapBuffers of the session
  work,      \* pendingSessionWork
  loads,     \* calls of loadSession in flight
  applied,   \* history: events dispatched from the wire
  replayed,  \* history: events shown by a WAL replay, a snapshot or page load
  twice,     \* history: events dispatched from the wire twice
  echoed,    \* history: events dispatched after a WAL replay had shown them
  joined,    \* history: the page was attached once
  lost       \* history: a recovery failed, or a reconnection carried no cursor

serverVars  == <<gen, last>>
linkVars    == <<link, since, chan>>
pageVars    == <<hello, cursor, gapBuf, work, loads>>
historyVars == <<applied, replayed, twice, echoed>>
vars == <<gen, last, link, since, chan, hello, cursor, gapBuf, work, loads,
          applied, replayed, twice, echoed, joined, lost>>

Event(g, n)       == [kind |-> "event", gen |-> g, seq |-> n]
Snapshot(g, m, n) == [kind |-> "snapshot", gen |-> g, from |-> m, seq |-> n]
Hello(g)          == [kind |-> "hello", gen |-> g]
Gap(g)            == [kind |-> "gap", gen |-> g]

Frames == [kind : {"event"}, gen : Gens, seq : Seqs]
            \cup [kind : {"snapshot"}, gen : Gens, from : Seqs, seq : Seqs]
            \cup [kind : {"hello", "gap"}, gen : Gens]

\* A buffer is never taken for a missing one: _gapBuffers.has decides.
ASSUME BufferAssumption == None \notin Seq(Frames)

Idle      == [stage |-> "idle"]
Fetching  == [stage |-> "fetching"]
Read(wal) == [stage |-> "read", wal |-> wal]

Init == /\ gen = 1
        /\ last \in {[g \in Gens |-> IF g = 1 THEN n ELSE 0] : n \in 0..MaxSeq}
        /\ link = "down"
        /\ since = None
        /\ chan = <<>>
        /\ hello = None
        /\ cursor = None
        /\ gapBuf = None
        /\ work = <<>>
        /\ loads = [i \in Loads |-> Idle]
        /\ applied = {} /\ replayed = {} /\ twice = {} /\ echoed = {}
        /\ joined = FALSE
        /\ lost = FALSE

-------------------------------------------------------------------------------
\* The server (external).

\* An event is logged, and sent when a socket is attached.
Emit == /\ last[gen] < MaxSeq
        /\ last' = [last EXCEPT ![gen] = @ + 1]
        /\ chan' = IF link = "up" THEN Append(chan, Event(gen, last[gen] + 1))
                                  ELSE chan
        /\ UNCHANGED <<gen, link, since, pageVars, historyVars, joined, lost>>

\* A restart closes the sockets and begins a new generation.
Restart == /\ gen < MaxGen
           /\ gen' = gen + 1
           /\ link' = "down" /\ chan' = <<>>
           /\ UNCHANGED <<last, since, pageVars, historyVars, joined, lost>>

RingReplay == [n \in 1..(last[gen] - since.seq) |-> Event(gen, since.seq + n)]

\* A running turn that began at event m, snapshot up to the last event.
RunningTurn == {<<>>} \cup {<<Snapshot(gen, m, last[gen])>> : m \in 1..last[gen]}

\* Without a cursor: hello and the running turn.  The first time, the history
\* before it is what the page loads itself.
AcceptFresh ==
  /\ since = None
  /\ \E turn \in RunningTurn : chan' = <<Hello(gen)>> \o turn
  /\ joined' = TRUE
  /\ replayed' = IF joined THEN replayed
                 ELSE replayed \cup {<<gen, n>> : n \in 1..last[gen]}
  /\ lost' = (lost \/ joined)

\* The ring buffer still holds everything after the cursor.
AcceptResume ==
  /\ since # None
  /\ since.gen = gen
  /\ chan' = <<Hello(gen)>> \o RingReplay
  /\ UNCHANGED <<replayed, joined, lost>>

\* Another generation, or a cursor older than the ring buffer.
AcceptGap ==
  /\ since # None
  /\ since.gen # gen \/ since.seq < last[gen]
  /\ \E i \in GapLoads : loads[i] = Idle   \* bound on overlapping recoveries
  /\ \E turn \in RunningTurn : chan' = <<Hello(gen), Gap(gen)>> \o turn
  /\ UNCHANGED <<replayed, joined, lost>>

Accept == /\ link = "dialing"
          /\ link' = "up"
          /\ AcceptFresh \/ AcceptResume \/ AcceptGap
          /\ UNCHANGED <<serverVars, since, pageVars, applied, twice, echoed>>

\* The server answers the WAL request of a load.
ReadWal(i) == /\ loads[i] = Fetching
              /\ loads' = [loads EXCEPT ![i] = Read(last)]
              /\ UNCHANGED <<serverVars, linkVars, hello, cursor, gapBuf, work,
                             historyVars, joined, lost>>

-------------------------------------------------------------------------------
\* The page.

Drained == work = <<>>

\* wsUrl and the socket it opens.
Dial == /\ Drained
        /\ link = "down"
        /\ link' = "dialing"
        /\ since' = cursor
        /\ UNCHANGED <<serverVars, chan, pageVars, historyVars, joined, lost>>

\* The socket closes or is replaced: what it still carried is dropped.
Lose == /\ Drained
        /\ link # "down"
        /\ link' = "down" /\ chan' = <<>>
        /\ UNCHANGED <<serverVars, since, pageVars, historyVars, joined, lost>>

\* The message listener: hello is recorded, a gap starts an empty buffer and
\* queues handleResumeGap, other frames are buffered during a gap or queued.
Receive ==
  /\ Drained
  /\ chan # <<>>
  /\ chan' = Tail(chan)
  /\ LET f == Head(chan) IN
       \/ /\ f.kind = "hello"
          /\ hello' = f.gen
          /\ UNCHANGED <<gapBuf, work>>
       \/ /\ f.kind = "gap"
          /\ gapBuf' = <<>>
          /\ work' = <<f>>
          /\ UNCHANGED hello
       \/ /\ f.kind \in {"event", "snapshot"}
          /\ gapBuf # None /\ Len(gapBuf) < MaxHeld
          /\ gapBuf' = Append(gapBuf, f)
          /\ UNCHANGED <<hello, work>>
       \/ /\ f.kind \in {"event", "snapshot"}
          /\ gapBuf = None
          /\ work' = <<f>>
          /\ UNCHANGED <<hello, gapBuf>>
  /\ UNCHANGED <<serverVars, link, since, cursor, loads, historyVars, joined, lost>>

MutGate(g, n) == cursor = None \/ cursor.gen # g \/ n >= cursor.seq

\* gateSessionEvent: whether an event is new, which also makes it the cursor.
Gate(g, n) == cursor = None \/ cursor.gen # g \/ n > cursor.seq

MutNoted(g, n) == [gen |-> g, seq |-> n]

\* noteAppliedSeq: raises the cursor, or replaces that of another generation.
Noted(g, n) == IF cursor # None /\ cursor.gen = g /\ n <= cursor.seq
               THEN cursor ELSE [gen |-> g, seq |-> n]

\* dispatchSessionEvent on the head of pendingSessionWork.
ApplyEvent(f) ==
  /\ f.kind = "event"
  /\ work' = Tail(work)
  /\ LET e == <<f.gen, f.seq>> IN
       IF Gate(f.gen, f.seq)
       THEN /\ cursor' = [gen |-> f.gen, seq |-> f.seq]
            /\ applied' = applied \cup {e}
            /\ twice' = IF e \in applied THEN twice \cup {e} ELSE twice
            /\ echoed' = IF e \in replayed THEN echoed \cup {e} ELSE echoed
       ELSE UNCHANGED <<cursor, applied, twice, echoed>>
  /\ UNCHANGED <<gapBuf, loads, replayed, lost>>

\* applyTurnSnapshot: the turn is shown whole and the cursor noted.
ApplySnapshot(f) ==
  /\ f.kind = "snapshot"
  /\ work' = Tail(work)
  /\ cursor' = Noted(f.gen, f.seq)
  /\ replayed' = replayed \cup {<<f.gen, n>> : n \in f.from..f.seq}
  /\ UNCHANGED <<gapBuf, loads, applied, twice, echoed, lost>>

MutStartRecovery(f) ==
  /\ f.kind = "gap"
  /\ gapBuf' = None
  /\ work' = Tail(work) \o (IF gapBuf = None THEN <<>> ELSE gapBuf)
  /\ UNCHANGED <<loads, cursor, applied, replayed, twice, echoed, lost>>

\* handleResumeGap: a forced loadSession of the active agent.
StartRecovery(f) ==
  /\ f.kind = "gap"
  /\ work' = Tail(work)
  /\ \E i \in GapLoads : /\ loads[i] = Idle
                         /\ loads' = [loads EXCEPT ![i] = Fetching]
  /\ UNCHANGED <<cursor, gapBuf, applied, replayed, twice, echoed, lost>>

\* releaseGapBuffer: the frames are queued again, the buffer is deleted.
Released == IF gapBuf = None THEN <<>> ELSE gapBuf

\* handleResumeGap without an active agent: nothing is recovered.
SkipRecovery(f) ==
  /\ f.kind = "gap"
  /\ gapBuf' = None
  /\ work' = Tail(work) \o Released
  /\ lost' = TRUE
  /\ UNCHANGED <<cursor, loads, applied, replayed, twice, echoed>>

Drain == /\ ~Drained
         /\ LET f == Head(work) IN \/ ApplyEvent(f)
                                   \/ ApplySnapshot(f)
                                   \/ StartRecovery(f)
                                   \/ SkipRecovery(f)
         /\ UNCHANGED <<serverVars, linkVars, hello, joined>>

\* A tab is opened or switched to: loadSession without force.
OpenTab == /\ Drained
           /\ loads[OpenLoad] = Idle
           /\ loads' = [loads EXCEPT ![OpenLoad] = Fetching]
           /\ UNCHANGED <<serverVars, linkVars, hello, cursor, gapBuf, work,
                          historyVars, joined, lost>>

\* The end of loadSession; for a recovery `.then(done, done)` releases.
Finish(i) == /\ loads' = [loads EXCEPT ![i] = Idle]
             /\ IF i \in GapLoads
                THEN /\ gapBuf' = None
                     /\ work' = Released
                ELSE UNCHANGED <<gapBuf, work>>

WalEvents(wal) == {e \in Gens \X Seqs : e[2] <= wal[e[1]]}

\* The cursor noted from the rows of the generation the last hello announced.
MutReplayCursor(wal) == IF hello # None THEN Noted(hello, wal[hello]) ELSE cursor
ReplayCursor(wal) == IF hello # None /\ wal[hello] > 0
                     THEN Noted(hello, wal[hello]) ELSE cursor

\* The replay is committed.  The import of the bridge module before the cursor is
\* noted resolves in microtasks, so no frame comes between the two.
CommitLoad(i) ==
  /\ Drained
  /\ loads[i].stage = "read"
  /\ WalEvents(loads[i].wal) # {}
  /\ replayed' = replayed \cup WalEvents(loads[i].wal)
  /\ cursor' = ReplayCursor(loads[i].wal)
  /\ Finish(i)
  /\ UNCHANGED <<serverVars, linkVars, hello, applied, twice, echoed, joined, lost>>

MutFailLoad(i) ==
  /\ Drained
  /\ loads[i] = Fetching \/ (loads[i].stage = "read" /\ WalEvents(loads[i].wal) = {})
  /\ lost' = (lost \/ i \in GapLoads)
  /\ loads' = [loads EXCEPT ![i] = Idle]
  /\ UNCHANGED <<gapBuf, work, serverVars, linkVars, hello, cursor, historyVars, joined>>

\* The request failed or answered nothing: loadSession returns early.
FailLoad(i) ==
  /\ Drained
  /\ loads[i] = Fetching \/ (loads[i].stage = "read" /\ WalEvents(loads[i].wal) = {})
  /\ lost' = (lost \/ i \in GapLoads)
  /\ Finish(i)
  /\ UNCHANGED <<serverVars, linkVars, hello, cursor, historyVars, joined>>

Next == \/ Emit \/ Restart \/ Accept
        \/ \E i \in Loads : ReadWal(i)
        \/ Dial \/ Lose \/ Receive \/ Drain \/ OpenTab
        \/ \E i \in Loads : CommitLoad(i)
        \/ \E i \in Loads : FailLoad(i)

Spec == Init /\ [][Next]_vars

\* Microtasks run, and a request in flight is answered or fails.
Fairness == /\ WF_vars(Drain)
            /\ \A i \in Loads : WF_vars(ReadWal(i) \/ CommitLoad(i) \/ FailLoad(i))

FairSpec == Spec /\ Fairness

-------------------------------------------------------------------------------

LoadStates == {Idle, Fetching} \cup {Read(wal) : wal \in [Gens -> 0..MaxSeq]}

Cursors == [gen : Gens, seq : Seqs] \cup {None}

TypeOK == /\ gen \in Gens
          /\ last \in [Gens -> 0..MaxSeq]
          /\ link \in {"down", "dialing", "up"}
          /\ since \in Cursors
          /\ chan \in Seq(Frames)
          /\ hello \in Gens \cup {None}
          /\ cursor \in Cursors
          /\ gapBuf = None \/ gapBuf \in Seq(Frames)
          /\ work \in Seq(Frames)
          /\ loads \in [Loads -> LoadStates]
          /\ applied \subseteq Gens \X Seqs
          /\ replayed \subseteq Gens \X Seqs
          /\ twice \subseteq Gens \X Seqs
          /\ echoed \subseteq Gens \X Seqs
          /\ joined \in BOOLEAN
          /\ lost \in BOOLEAN

\* The gate lets every event of every generation through at most once, however
\* reconnections, ring replays and released buffers repeat it
\* (gateSessionEvent).
DispatchedOnce == twice = {}

\* Within a generation the cursor never goes back, whichever of the wire, a
\* snapshot, a late recovery or a released buffer moved it last, so a
\* reconnection never asks again for what was applied (noteAppliedSeq).
CursorForward ==
  [][ cursor # None =>
        /\ cursor' # None
        /\ cursor'.gen = cursor.gen => cursor'.seq >= cursor.seq ]_vars

Settled == /\ link = "up" /\ chan = <<>> /\ Drained /\ gapBuf = None
           /\ \A i \in GapLoads : loads[i] = Idle

Shown == \A n \in 1..last[gen] : <<gen, n>> \in applied \cup replayed

CursorHasNoHoles ==
  cursor # None /\ ~lost /\ (\A i \in GapLoads : loads[i] = Idle)
    => \A n \in 1..cursor.seq :
         <<cursor.gen, n>> \in applied \cup replayed

\* Once everything received was processed and every recovery finished, an
\* attached page has shown every event of the server's generation: no event is
\* lost between a cursor, a ring replay, a dropped buffer and a WAL read.  And
\* at no time does the cursor run ahead of what was shown, except while a
\* recovery is in flight: the gate drops only what is already there.  Two
\* histories are excused by `lost`: a recovery that failed or had no agent to
\* load, and a reconnection without a cursor.
NothingMissed == /\ Settled /\ ~lost => Shown
                 /\ CursorHasNoHoles

\* Frames held back during a gap are always released: a recovery that fails, or
\* finds no agent, cannot freeze the session (handleResumeGap).
GapReleased == gapBuf # None ~> gapBuf = None

\* The comment of _gapBuffers: no frame is applied until the full recovery is
\* complete.  The completion of an earlier recovery releases the buffer of a
\* later one, so it is, even when no recovery fails.
HeldDuringRecovery ==
  [][ ~lost' /\ (\E i \in GapLoads : loads[i] # Idle /\ loads'[i] # Idle)
        => applied' = applied ]_vars

\* The comment of loadSession: the live frames that overlap a replay are dropped
\* by the gate.  A replay that ends before the hello of the connection notes no
\* cursor, so they are not.
OverlapDropped == echoed = {}
================================================================================
