-------------------------- MODULE ResumeStreamProofs --------------------------
(***************************************************************************)
(* ResumeStream proved for every number of generations, events, buffered    *)
(* frames and overlapping recoveries: its type invariant, that the cursor   *)
(* never goes back within a generation, that no event is dispatched twice,  *)
(* and that none is missed.                                                 *)
(***************************************************************************)
EXTENDS ResumeStream, SequenceTheorems, TLAPS

USE BoundAssumption, NoneAssumption
USE DEF BoundAssumption, NoneAssumption


LEMMA FrameKinds ==
  ASSUME NEW f \in Frames
  PROVE  /\ f.gen \in Gens
         /\ f.kind = "event" => f.seq \in Seqs
         /\ f.kind = "snapshot" => f.from \in Seqs /\ f.seq \in Seqs
BY DEF Frames

LEMMA FramesMade ==
  ASSUME NEW g \in Gens
  PROVE  /\ Hello(g) \in Frames /\ Gap(g) \in Frames
         /\ \A n \in Seqs : Event(g, n) \in Frames
         /\ \A m, n \in Seqs : Snapshot(g, m, n) \in Frames
BY DEF Frames, Hello, Gap, Event, Snapshot

-------------------------------------------------------------------------------
\* The cursor.

LEMMA CursorsAreSome == \A r \in [gen : Gens, seq : Seqs] : r # None
BY DEF Gens, Seqs

\* noteAppliedSeq yields a cursor, at least the one it was given.
LEMMA NotedForward ==
  ASSUME cursor \in Cursors, NEW g \in Gens, NEW n \in Seqs
  PROVE  /\ Noted(g, n) \in [gen : Gens, seq : Seqs]
         /\ cursor # None /\ Noted(g, n).gen = cursor.gen
              => Noted(g, n).seq >= cursor.seq
BY DEF Noted, Cursors, Seqs, Gens

\* What gateSessionEvent lets through lies past the cursor of its generation.
LEMMA GateForward ==
  ASSUME cursor \in Cursors, NEW g \in Gens, NEW n \in Seqs, Gate(g, n)
  PROVE  /\ [gen |-> g, seq |-> n] \in Cursors
         /\ cursor # None /\ cursor.gen = g => n >= cursor.seq
BY DEF Gate, Cursors, Seqs, Gens

-------------------------------------------------------------------------------
\* Types.

\* The last event of a generation that has events is one of them.
LEMMA LastIsSeq ==
  ASSUME NEW wal \in [Gens -> 0..MaxSeq], NEW g \in Gens, wal[g] > 0
  PROVE  wal[g] \in Seqs
BY DEF Seqs

\* Everything a fresh socket carries after its hello is a frame.
LEMMA RunningTurnType ==
  ASSUME TypeOK, NEW turn \in RunningTurn PROVE turn \in Seq(Frames)
<1>1. CASE turn = <<>>
  BY <1>1, EmptySeq
<1>2. CASE turn # <<>>
  <2>1. PICK m \in 1..last[gen] : turn = <<Snapshot(gen, m, last[gen])>>
    BY <1>2 DEF RunningTurn
  <2>2. last[gen] \in 0..MaxSeq /\ gen \in Gens
    BY DEF TypeOK
  <2>3. m \in Seqs /\ last[gen] \in Seqs
    BY <2>1, <2>2 DEF Seqs
  <2>4. Snapshot(gen, m, last[gen]) \in Frames
    BY <2>2, <2>3, FramesMade
  <2> QED
    BY <2>1, <2>4
<1> QED
  BY <1>1, <1>2

LEMMA RingReplayType ==
  ASSUME TypeOK, since # None, since.gen = gen PROVE RingReplay \in Seq(Frames)
<1> DEFINE k == last[gen] - since.seq
<1>1. /\ since.seq \in Seqs /\ gen \in Gens /\ last[gen] \in 0..MaxSeq
  BY DEF TypeOK, Cursors
<1>2. \A n \in 1..k : Event(gen, since.seq + n) \in Frames
  <2> SUFFICES ASSUME NEW n \in 1..k PROVE since.seq + n \in Seqs
    BY <1>1, FramesMade
  <2> QED
    BY <1>1 DEF Seqs
<1>3. RingReplay = [n \in 1..k |-> Event(gen, since.seq + n)]
  BY DEF RingReplay
<1>4. CASE k \in Nat
  BY <1>2, <1>3, <1>4
<1>5. CASE k \notin Nat
  <2>1. 1..k = {}
    BY <1>1, <1>5 DEF Seqs
  <2>2. RingReplay = <<>>
    BY <1>3, <2>1
  <2> QED
    BY <2>2, EmptySeq
<1> QED
  BY <1>4, <1>5

LEMMA EmitType == ASSUME TypeOK, Emit PROVE TypeOK'
<1>1. gen \in Gens /\ last[gen] + 1 \in Seqs
  BY DEF Emit, TypeOK, Seqs
<1>2. chan' \in Seq(Frames)
  BY <1>1, FramesMade, AppendProperties DEF Emit, TypeOK
<1>3. last' \in [Gens -> 0..MaxSeq]
  BY <1>1 DEF Emit, TypeOK, Seqs
<1> QED
  BY <1>2, <1>3 DEF Emit, TypeOK, pageVars, historyVars

LEMMA RestartType == ASSUME TypeOK, Restart PROVE TypeOK'
<1>1. gen' \in Gens
  BY DEF Restart, TypeOK, Gens
<1>2. chan' \in Seq(Frames)
  BY EmptySeq DEF Restart
<1> QED
  BY <1>1, <1>2 DEF Restart, TypeOK, pageVars, historyVars

LEMMA AcceptType == ASSUME TypeOK, Accept PROVE TypeOK'
<1>0. gen \in Gens /\ <<Hello(gen)>> \in Seq(Frames)
      /\ <<Hello(gen), Gap(gen)>> \in Seq(Frames)
  BY FramesMade DEF TypeOK
<1>1. CASE AcceptFresh
  <2>1. PICK turn \in RunningTurn : chan' = <<Hello(gen)>> \o turn
    BY <1>1 DEF AcceptFresh
  <2>2. chan' \in Seq(Frames)
    BY <1>0, <2>1, RunningTurnType, ConcatProperties
  <2>3. replayed' \subseteq Gens \X Seqs
    <3>1. \A n \in 1..last[gen] : n \in Seqs
      BY <1>0 DEF TypeOK, Seqs
    <3> QED
      BY <1>0, <1>1, <3>1 DEF AcceptFresh, TypeOK
  <2>4. joined' \in BOOLEAN /\ lost' \in BOOLEAN
    BY <1>1 DEF AcceptFresh, TypeOK
  <2> QED
    BY <2>2, <2>3, <2>4 DEF Accept, TypeOK, serverVars, pageVars
<1>2. CASE AcceptResume
  <2>1. chan' \in Seq(Frames)
    BY <1>0, <1>2, RingReplayType, ConcatProperties DEF AcceptResume
  <2> QED
    BY <1>2, <2>1 DEF Accept, AcceptResume, TypeOK, serverVars, pageVars
<1>3. CASE AcceptGap
  <2>1. PICK turn \in RunningTurn : chan' = <<Hello(gen), Gap(gen)>> \o turn
    BY <1>3 DEF AcceptGap
  <2>2. chan' \in Seq(Frames)
    BY <1>0, <2>1, RunningTurnType, ConcatProperties
  <2> QED
    BY <1>3, <2>2 DEF Accept, AcceptGap, TypeOK, serverVars, pageVars
<1> QED
  BY <1>1, <1>2, <1>3 DEF Accept

LEMMA ReadWalType == ASSUME TypeOK, NEW i \in Loads, ReadWal(i) PROVE TypeOK'
<1>1. Read(last) \in LoadStates
  BY DEF TypeOK, LoadStates
<1>2. loads' \in [Loads -> LoadStates]
  BY <1>1 DEF ReadWal, TypeOK
<1> QED
  BY <1>2 DEF ReadWal, TypeOK, serverVars, linkVars, historyVars

LEMMA DialLoseType == ASSUME TypeOK, Dial \/ Lose PROVE TypeOK'
<1>1. <<>> \in Seq(Frames)
  BY EmptySeq
<1>2. CASE Dial
  BY <1>2 DEF Dial, TypeOK, serverVars, pageVars, historyVars
<1>3. CASE Lose
  BY <1>1, <1>3 DEF Lose, TypeOK, serverVars, pageVars, historyVars
<1> QED
  BY <1>2, <1>3

LEMMA ReceiveType == ASSUME TypeOK, Receive PROVE TypeOK'
<1> DEFINE f == Head(chan)
<1>1. f \in Frames /\ Tail(chan) \in Seq(Frames)
  BY HeadTailProperties DEF Receive, TypeOK
<1>2. f.gen \in Gens /\ <<f>> \in Seq(Frames) /\ <<>> \in Seq(Frames)
  BY <1>1, FrameKinds, EmptySeq
<1>3. gapBuf # None => Append(gapBuf, f) \in Seq(Frames)
  BY <1>1, AppendProperties DEF TypeOK
<1>4. /\ hello' \in Gens \cup {None}
      /\ gapBuf' = None \/ gapBuf' \in Seq(Frames)
      /\ work' \in Seq(Frames)
  BY <1>1, <1>2, <1>3 DEF Receive, TypeOK
<1> QED
  BY <1>1, <1>4 DEF Receive, TypeOK, serverVars, historyVars

LEMMA ReleasedType == ASSUME TypeOK PROVE Released \in Seq(Frames)
BY EmptySeq DEF Released, TypeOK

LEMMA DrainType == ASSUME TypeOK, Drain PROVE TypeOK'
<1> DEFINE f == Head(work)
<1>1. f \in Frames /\ Tail(work) \in Seq(Frames)
  BY HeadTailProperties DEF Drain, Drained, TypeOK
<1>2. f.gen \in Gens
  BY <1>1, FrameKinds
<1>3. ApplyEvent(f) \/ ApplySnapshot(f) \/ StartRecovery(f) \/ SkipRecovery(f)
  BY DEF Drain
<1>4. /\ work' = Tail(work) \/ work' = Tail(work) \o Released
      /\ UNCHANGED <<serverVars, linkVars, hello, joined>>
  BY DEF Drain, ApplyEvent, ApplySnapshot, StartRecovery, SkipRecovery
<1>5. work' \in Seq(Frames)
  <2>1. Tail(work) \o Released \in Seq(Frames)
    BY <1>1, ReleasedType, ConcatProperties
  <2> QED
    BY <1>1, <1>4, <2>1
<1> HIDE DEF f
<1>6. CASE ApplyEvent(f)
  <2>1. f.seq \in Seqs
    BY <1>1, <1>6, FrameKinds DEF ApplyEvent
  <2>2. cursor' \in Cursors
    BY <1>2, <1>6, <2>1, GateForward DEF ApplyEvent, TypeOK
  <2>3. /\ applied' \subseteq Gens \X Seqs
        /\ twice' \subseteq Gens \X Seqs
        /\ echoed' \subseteq Gens \X Seqs
    BY <1>2, <1>6, <2>1 DEF ApplyEvent, TypeOK
  <2> QED
    BY <1>4, <1>5, <1>6, <2>2, <2>3 DEF ApplyEvent, TypeOK, serverVars, linkVars
<1>7. CASE ApplySnapshot(f)
  <2>1. f.from \in Seqs /\ f.seq \in Seqs
    BY <1>1, <1>7, FrameKinds DEF ApplySnapshot
  <2>2. cursor' \in Cursors
    BY <1>2, <1>7, <2>1, NotedForward DEF ApplySnapshot, TypeOK, Cursors
  <2>3. replayed' \subseteq Gens \X Seqs
    <3>1. \A n \in f.from..f.seq : n \in Seqs
      BY <2>1 DEF Seqs
    <3> QED
      BY <1>2, <1>7, <3>1 DEF ApplySnapshot, TypeOK
  <2> QED
    BY <1>4, <1>5, <1>7, <2>2, <2>3 DEF ApplySnapshot, TypeOK, serverVars, linkVars
<1>8. CASE StartRecovery(f)
  <2>1. loads' \in [Loads -> LoadStates]
    BY <1>8 DEF StartRecovery, TypeOK, LoadStates
  <2> QED
    BY <1>4, <1>5, <1>8, <2>1 DEF StartRecovery, TypeOK, serverVars, linkVars
<1>9. CASE SkipRecovery(f)
  BY <1>4, <1>5, <1>9 DEF SkipRecovery, TypeOK, serverVars, linkVars
<1> QED
  BY <1>3, <1>6, <1>7, <1>8, <1>9

LEMMA OpenTabType == ASSUME TypeOK, OpenTab PROVE TypeOK'
<1>1. loads' \in [Loads -> LoadStates]
  BY DEF OpenTab, TypeOK, LoadStates
<1> QED
  BY <1>1 DEF OpenTab, TypeOK, serverVars, linkVars, historyVars

LEMMA FinishType ==
  ASSUME TypeOK, NEW i \in Loads, Finish(i)
  PROVE  /\ loads' \in [Loads -> LoadStates]
         /\ gapBuf' = None \/ gapBuf' \in Seq(Frames)
         /\ work' \in Seq(Frames)
<1>1. loads' \in [Loads -> LoadStates]
  BY DEF Finish, TypeOK, LoadStates
<1> QED
  BY <1>1, ReleasedType DEF Finish, TypeOK

\* The log a load read tells up to which event of each generation.
LEMMA ReadLog ==
  ASSUME TypeOK, NEW i \in Loads, loads[i].stage = "read"
  PROVE  loads[i].wal \in [Gens -> 0..MaxSeq]
<1>1. loads[i] \in LoadStates
  BY DEF TypeOK
<1>2. loads[i] # Idle /\ loads[i] # Fetching
  BY DEF Idle, Fetching
<1>3. PICK wal \in [Gens -> 0..MaxSeq] : loads[i] = Read(wal)
  BY <1>1, <1>2 DEF LoadStates
<1> QED
  BY <1>3 DEF Read

\* The cursor noted after a replay is a cursor, at least the one before.
LEMMA ReplayCursorForward ==
  ASSUME TypeOK, NEW wal \in [Gens -> 0..MaxSeq]
  PROVE  \/ ReplayCursor(wal) = cursor
         \/ /\ ReplayCursor(wal) \in [gen : Gens, seq : Seqs]
            /\ cursor # None /\ ReplayCursor(wal).gen = cursor.gen
                 => ReplayCursor(wal).seq >= cursor.seq
<1>1. CASE hello # None /\ wal[hello] > 0
  <2>1. hello \in Gens /\ wal[hello] \in Seqs /\ cursor \in Cursors
    BY <1>1, LastIsSeq DEF TypeOK
  <2> QED
    BY <1>1, <2>1, NotedForward DEF ReplayCursor
<1>2. CASE ~(hello # None /\ wal[hello] > 0)
  BY <1>2 DEF ReplayCursor
<1> QED
  BY <1>1, <1>2

LEMMA CommitLoadType == ASSUME TypeOK, NEW i \in Loads, CommitLoad(i) PROVE TypeOK'
<1>1. /\ loads' \in [Loads -> LoadStates]
      /\ gapBuf' = None \/ gapBuf' \in Seq(Frames)
      /\ work' \in Seq(Frames)
  BY FinishType DEF CommitLoad
<1>2. cursor' \in Cursors
  BY ReadLog, ReplayCursorForward DEF CommitLoad, TypeOK, Cursors
<1>3. replayed' \subseteq Gens \X Seqs
  BY DEF CommitLoad, WalEvents, TypeOK
<1> QED
  BY <1>1, <1>2, <1>3 DEF CommitLoad, TypeOK, serverVars, linkVars

LEMMA FailLoadType == ASSUME TypeOK, NEW i \in Loads, FailLoad(i) PROVE TypeOK'
<1>1. /\ loads' \in [Loads -> LoadStates]
      /\ gapBuf' = None \/ gapBuf' \in Seq(Frames)
      /\ work' \in Seq(Frames)
  BY FinishType DEF FailLoad
<1>2. lost' \in BOOLEAN
  BY DEF FailLoad, TypeOK
<1> QED
  BY <1>1, <1>2 DEF FailLoad, TypeOK, serverVars, linkVars, historyVars

LEMMA InitType == Init => TypeOK
<1> SUFFICES ASSUME Init PROVE TypeOK
  OBVIOUS
<1>1. <<>> \in Seq(Frames)
  BY EmptySeq
<1>2. last \in [Gens -> 0..MaxSeq] /\ gen \in Gens
  BY DEF Init, Gens
<1>3. loads \in [Loads -> LoadStates]
  BY DEF Init, LoadStates
<1> QED
  BY <1>1, <1>2, <1>3 DEF Init, TypeOK, Cursors

LEMMA NextType == TypeOK /\ [Next]_vars => TypeOK'
<1> SUFFICES ASSUME TypeOK, [Next]_vars PROVE TypeOK'
  OBVIOUS
<1>1. CASE UNCHANGED vars
  BY <1>1 DEF vars, TypeOK
<1> QED
  BY <1>1, EmitType, RestartType, AcceptType, ReadWalType, DialLoseType, ReceiveType,
     DrainType, OpenTabType, CommitLoadType, FailLoadType DEF Next

\* Cursors, frames, buffers and loads are well formed, the ring replay after a
\* cursor and the rows of a recovery included.
THEOREM TypeCorrect == Spec => []TypeOK
BY InitType, NextType, PTL DEF Spec

-------------------------------------------------------------------------------
\* The cursor never goes back.

Forward == cursor # None =>
             /\ cursor' # None
             /\ cursor'.gen = cursor.gen => cursor'.seq >= cursor.seq

LEMMA CursorKept == ASSUME TypeOK, cursor' = cursor PROVE Forward
<1> SUFFICES ASSUME cursor # None PROVE cursor.seq >= cursor.seq
  BY DEF Forward
<1> QED
  BY DEF TypeOK, Cursors, Seqs

LEMMA DrainForward == ASSUME TypeOK, Drain PROVE Forward
<1> DEFINE f == Head(work)
<1>1. f \in Frames
  BY HeadTailProperties DEF Drain, Drained, TypeOK
<1>2. f.gen \in Gens /\ cursor \in Cursors
  BY <1>1, FrameKinds DEF TypeOK
<1>3. ApplyEvent(f) \/ ApplySnapshot(f) \/ StartRecovery(f) \/ SkipRecovery(f)
  BY DEF Drain
<1> HIDE DEF f
<1>4. CASE ApplyEvent(f)
  <2>1. f.seq \in Seqs
    BY <1>1, <1>4, FrameKinds DEF ApplyEvent
  <2>2. CASE Gate(f.gen, f.seq)
    <3>1. cursor' = [gen |-> f.gen, seq |-> f.seq]
      BY <1>4, <2>2 DEF ApplyEvent
    <3>2. cursor' # None
      BY <1>2, <2>1, <3>1 DEF Gens, Seqs
    <3> QED
      BY <1>2, <2>1, <2>2, <3>1, <3>2, GateForward DEF Forward
  <2>3. CASE ~Gate(f.gen, f.seq)
    BY <1>4, <2>3, CursorKept DEF ApplyEvent
  <2> QED
    BY <2>2, <2>3
<1>5. CASE ApplySnapshot(f)
  <2>1. f.seq \in Seqs
    BY <1>1, <1>5, FrameKinds DEF ApplySnapshot
  <2>2. cursor' = Noted(f.gen, f.seq)
    BY <1>5 DEF ApplySnapshot
  <2>3. Noted(f.gen, f.seq) # None
    BY <1>2, <2>1, NotedForward, CursorsAreSome
  <2> QED
    BY <1>2, <2>1, <2>2, <2>3, NotedForward DEF Forward
<1>6. CASE StartRecovery(f) \/ SkipRecovery(f)
  BY <1>6, CursorKept DEF StartRecovery, SkipRecovery
<1> QED
  BY <1>3, <1>4, <1>5, <1>6

LEMMA CommitForward == ASSUME TypeOK, NEW i \in Loads, CommitLoad(i) PROVE Forward
<1> DEFINE wal == loads[i].wal
<1>1. wal \in [Gens -> 0..MaxSeq] /\ cursor' = ReplayCursor(wal)
  BY ReadLog DEF CommitLoad
<1> HIDE DEF wal
<1>2. CASE ReplayCursor(wal) = cursor
  BY <1>1, <1>2, CursorKept
<1>3. CASE /\ ReplayCursor(wal) \in [gen : Gens, seq : Seqs]
           /\ cursor # None /\ ReplayCursor(wal).gen = cursor.gen
                => ReplayCursor(wal).seq >= cursor.seq
  <2>1. ReplayCursor(wal) # None
    BY <1>3, CursorsAreSome
  <2> QED
    BY <1>1, <1>3, <2>1 DEF Forward
<1> QED
  BY <1>1, <1>2, <1>3, ReplayCursorForward

LEMMA NextForward == ASSUME TypeOK, [Next]_vars PROVE Forward
<1>1. CASE Drain
  BY <1>1, DrainForward
<1>2. CASE \E i \in Loads : CommitLoad(i)
  BY <1>2, CommitForward
<1>3. CASE UNCHANGED cursor
  BY <1>3, CursorKept
<1> QED
  BY <1>1, <1>2, <1>3 DEF Next, vars, Emit, Restart, Accept, ReadWal, Dial, Lose,
     Receive, OpenTab, FailLoad, pageVars

\* Within a generation the cursor is monotone over the wire, snapshots, released
\* buffers and recoveries that end in any order.
THEOREM CursorMonotone == Spec => CursorForward
<1>1. TypeOK /\ [Next]_vars => [Forward]_vars
  BY NextForward DEF Forward
<1>2. Spec => [][Forward]_vars
  BY <1>1, TypeCorrect, PTL DEF Spec
<1> QED
  BY <1>2 DEF CursorForward, Forward

-------------------------------------------------------------------------------
\* Every event is dispatched once.  A frame waits in the channel, the gap buffer or
\* the queue of session work, in which the events of one generation may be repeated
\* and out of order; the gate alone does not drop a repetition once the cursor has
\* moved to another generation.  The invariant says why none is left by then.

FramesOf(s) == {s[i] : i \in 1..Len(s)}
EventsOf(s) == {f \in FramesOf(s) : f.kind = "event"}

\* The event, or a later one of its generation, was dispatched.
Overtaken(f) == \E n \in Seqs : n >= f.seq /\ <<f.gen, n>> \in applied

\* Frames wait in the order of their generations.
Sorted(s) == \A i, j \in 1..Len(s) : i < j => s[i].gen <= s[j].gen

\* A socket carries events in the order of their numbers.
Rising(s) == \A i, j \in 1..Len(s) :
               i < j /\ s[i].kind = "event" /\ s[j].kind = "event"
                 => s[i].seq < s[j].seq

GapAhead == \E f \in FramesOf(chan) : f.kind = "gap"

\* No generation is known before the server began it, no event before its number.
Known == /\ hello # None => hello <= gen
         /\ cursor # None => cursor.gen <= gen
         /\ \A f \in FramesOf(work) \cup FramesOf(Released) : f.gen <= gen
         /\ \A f \in FramesOf(chan) : f.gen = gen
         /\ \A f \in EventsOf(work) \cup EventsOf(Released) \cup EventsOf(chan) :
              f.seq <= last[f.gen]
         /\ \A g \in Gens, n \in Seqs : <<g, n>> \in applied => g <= gen /\ n <= last[g]

Ordered == Sorted(work) /\ Sorted(Released) /\ Rising(chan)

\* A resume-gap is alone in its task, and is never held back.
GapAlone == /\ \A f \in FramesOf(work) : f.kind = "gap" => Len(work) = 1
            /\ \A f \in FramesOf(Released) : f.kind \in {"event", "snapshot"}

\* The cursor is at or past everything dispatched.
Behind == \A g \in Gens, n \in Seqs :
            <<g, n>> \in applied =>
              /\ cursor # None
              /\ cursor.gen >= g
              /\ cursor.gen = g => cursor.seq >= n

\* What waits is not older than what was dispatched.
NoneOlder == \A g \in Gens, n \in Seqs, f \in FramesOf(work) \cup FramesOf(Released) :
               <<g, n>> \in applied => g <= f.gen

\* Nothing is dispatched while frames are held, and no held event was overtaken.
HeldFresh == /\ gapBuf # None => EventsOf(work) = {}
             /\ \A f \in EventsOf(Released) : ~Overtaken(f)

\* A queued repetition meets the cursor of its own generation.
WorkGated == \A f \in EventsOf(work) : Overtaken(f) => cursor.gen = f.gen

\* The events that will be held are past those dispatched, queued or held before.
ChanFresh == /\ link # "up" => chan = <<>>
             /\ GapAhead \/ gapBuf # None => \A f \in EventsOf(chan) : ~Overtaken(f)
             /\ GapAhead =>
                  \A f \in EventsOf(chan), h \in EventsOf(work) \cup EventsOf(Released) :
                    h.gen = f.gen => h.seq < f.seq

\* A cursor sent while frames are held is at or past everything dispatched.
DialFresh == link = "dialing" /\ gapBuf # None /\ since # None /\ since.gen = gen =>
               \A n \in Seqs : <<gen, n>> \in applied => n <= since.seq

\* Nothing of a generation reaches the page before its hello.
Greeted == /\ link = "up" => \/ hello = gen
                             \/ chan # <<>> /\ Head(chan).kind = "hello"
           /\ cursor # None => hello # None /\ cursor.gen <= hello
           /\ \A f \in FramesOf(work) \cup FramesOf(Released) :
                hello # None /\ f.gen <= hello

SnapshotsOf(s) == {f \in FramesOf(s) : f.kind = "snapshot"}

\* A snapshot is at or past every event of its generation that comes before it.
Crested(s) == \A i, j \in 1..Len(s) :
                i < j /\ s[i].kind = "event" /\ s[j].kind = "snapshot"
                      /\ s[i].gen = s[j].gen
                  => s[i].seq <= s[j].seq

\* No snapshot comes after an event.
SnapshotFirst(s) == \A i, j \in 1..Len(s) :
                      i < j /\ s[i].kind = "event" => s[j].kind # "snapshot"

Snapshots ==
  /\ Crested(work) /\ Crested(Released) /\ SnapshotFirst(chan)
  /\ \A f \in SnapshotsOf(chan), h \in EventsOf(work) \cup EventsOf(Released) :
       h.gen = f.gen => h.seq <= f.seq
  /\ \A f \in SnapshotsOf(work) \cup SnapshotsOf(Released) \cup SnapshotsOf(chan), n \in Seqs :
       <<f.gen, n>> \in applied => n <= f.seq

OnceInv == /\ Known /\ Ordered /\ GapAlone /\ Behind /\ NoneOlder
           /\ HeldFresh /\ WorkGated /\ ChanFresh /\ DialFresh
           /\ Greeted /\ Snapshots
           /\ DispatchedOnce

LEMMA FramesOfEmpty == FramesOf(<<>>) = {} /\ EventsOf(<<>>) = {}
                       /\ Sorted(<<>>) /\ Rising(<<>>)
                       /\ Crested(<<>>) /\ SnapshotFirst(<<>>)
<1>1. Len(<<>>) = 0
  OBVIOUS
<1> QED
  BY <1>1 DEF FramesOf, EventsOf, Sorted, Rising, Crested, SnapshotFirst

LEMMA FramesOfOne ==
  ASSUME NEW f
  PROVE  FramesOf(<<f>>) = {f} /\ Sorted(<<f>>) /\ Crested(<<f>>)
BY DEF FramesOf, Sorted, Crested

LEMMA FramesOfAppend ==
  ASSUME NEW s \in Seq(Frames), NEW f \in Frames
  PROVE  /\ FramesOf(Append(s, f)) = FramesOf(s) \cup {f}
         /\ Sorted(s) /\ (\A h \in FramesOf(s) : h.gen <= f.gen)
              => Sorted(Append(s, f))
         /\ Rising(s) /\ (\A h \in EventsOf(s) : h.seq < f.seq)
              => Rising(Append(s, f))
         /\ (Crested(s) /\ (f.kind = "snapshot" =>
                              \A h \in EventsOf(s) : h.gen = f.gen => h.seq <= f.seq))
              => Crested(Append(s, f))
         /\ SnapshotFirst(s) /\ f.kind # "snapshot" => SnapshotFirst(Append(s, f))
<1> DEFINE t == Append(s, f)
<1>1. /\ Len(s) \in Nat /\ Len(t) = Len(s) + 1
      /\ \A i \in 1..Len(s) : t[i] = s[i] /\ s[i] \in FramesOf(s)
      /\ t[Len(s) + 1] = f
  BY AppendProperties, LenProperties DEF FramesOf
<1> HIDE DEF t
<1>2. FramesOf(t) = FramesOf(s) \cup {f}
  <2>1. FramesOf(t) \subseteq FramesOf(s) \cup {f}
    BY <1>1 DEF FramesOf
  <2>2. FramesOf(s) \cup {f} \subseteq FramesOf(t)
    BY <1>1 DEF FramesOf
  <2> QED
    BY <2>1, <2>2
<1>3. Sorted(s) /\ (\A h \in FramesOf(s) : h.gen <= f.gen) => Sorted(t)
  BY <1>1 DEF Sorted
<1>4. Rising(s) /\ (\A h \in EventsOf(s) : h.seq < f.seq) => Rising(t)
  BY <1>1 DEF Rising, EventsOf
<1>5. (Crested(s) /\ (f.kind = "snapshot" =>
                        \A h \in EventsOf(s) : h.gen = f.gen => h.seq <= f.seq))
        => Crested(t)
  BY <1>1 DEF Crested, EventsOf
<1>6. SnapshotFirst(s) /\ f.kind # "snapshot" => SnapshotFirst(t)
  BY <1>1 DEF SnapshotFirst
<1> QED
  BY <1>2, <1>3, <1>4, <1>5, <1>6 DEF t

LEMMA FramesOfTail ==
  ASSUME NEW s \in Seq(Frames), s # <<>>
  PROVE  /\ Head(s) \in FramesOf(s)
         /\ FramesOf(Tail(s)) \subseteq FramesOf(s)
         /\ EventsOf(Tail(s)) \subseteq EventsOf(s)
         /\ Sorted(s) => /\ Sorted(Tail(s))
                         /\ \A h \in FramesOf(Tail(s)) : Head(s).gen <= h.gen
         /\ Rising(s) => /\ Rising(Tail(s))
                         /\ Head(s).kind = "event" =>
                              \A h \in EventsOf(Tail(s)) : Head(s).seq < h.seq
         /\ Crested(s) => /\ Crested(Tail(s))
                          /\ Head(s).kind = "event" =>
                               \A h \in SnapshotsOf(Tail(s)) :
                                 h.gen = Head(s).gen => Head(s).seq <= h.seq
         /\ SnapshotFirst(s) => /\ SnapshotFirst(Tail(s))
                                /\ Head(s).kind = "event" => SnapshotsOf(s) = {}
         /\ Len(s) = 1 => Tail(s) = <<>>
<1> DEFINE t == Tail(s)
<1>1. /\ Len(s) \in Nat \ {0} /\ Len(t) = Len(s) - 1
      /\ Head(s) = s[1]
      /\ \A i \in 1..Len(t) : t[i] = s[i + 1] /\ i + 1 \in 1..Len(s)
      /\ t \in Seq(Frames)
  BY HeadTailProperties, EmptySeq, LenProperties
<1>2. Len(s) = 1 => t = <<>>
  BY <1>1, EmptySeq
<1> HIDE DEF t
<1>3. Head(s) \in FramesOf(s) /\ FramesOf(t) \subseteq FramesOf(s)
  BY <1>1 DEF FramesOf
<1>4. Sorted(s) => Sorted(t) /\ \A h \in FramesOf(t) : Head(s).gen <= h.gen
  <2> SUFFICES ASSUME Sorted(s) PROVE Sorted(t) /\ \A h \in FramesOf(t) : Head(s).gen <= h.gen
    OBVIOUS
  <2>1. ASSUME NEW i \in 1..Len(t), NEW j \in 1..Len(t), i < j PROVE t[i].gen <= t[j].gen
    <3>1. PICK k, l : k = i + 1 /\ l = j + 1
      OBVIOUS
    <3>2. k \in 1..Len(s) /\ l \in 1..Len(s) /\ k < l /\ t[i] = s[k] /\ t[j] = s[l]
      BY <1>1, <2>1, <3>1
    <3> QED
      BY <3>2 DEF Sorted
  <2>2. ASSUME NEW i \in 1..Len(t) PROVE Head(s).gen <= t[i].gen
    <3>1. PICK k : k = i + 1
      OBVIOUS
    <3>2. 1 \in 1..Len(s) /\ k \in 1..Len(s) /\ 1 < k /\ Head(s) = s[1] /\ t[i] = s[k]
      BY <1>1, <3>1
    <3> QED
      BY <3>2 DEF Sorted
  <2> QED
    BY <2>1, <2>2 DEF Sorted, FramesOf
<1>5. Rising(s) => /\ Rising(t)
                   /\ Head(s).kind = "event" =>
                        \A h \in EventsOf(t) : Head(s).seq < h.seq
  <2> SUFFICES ASSUME Rising(s)
               PROVE  /\ Rising(t)
                      /\ Head(s).kind = "event" =>
                           \A h \in EventsOf(t) : Head(s).seq < h.seq
    OBVIOUS
  <2>1. ASSUME NEW i \in 1..Len(t), NEW j \in 1..Len(t), i < j,
               t[i].kind = "event", t[j].kind = "event"
        PROVE  t[i].seq < t[j].seq
    <3>1. /\ t[i] = s[i + 1] /\ t[j] = s[j + 1]
          /\ i + 1 \in 1..Len(s) /\ j + 1 \in 1..Len(s) /\ i + 1 < j + 1
      BY <1>1, <2>1
    <3> QED
      BY <2>1, <3>1 DEF Rising
  <2>2. ASSUME Head(s).kind = "event", NEW h \in EventsOf(t) PROVE Head(s).seq < h.seq
    <3>1. PICK i \in 1..Len(t) : h = t[i] /\ h.kind = "event"
      BY <2>2 DEF EventsOf, FramesOf
    <3>2. h = s[i + 1] /\ 1 < i + 1 /\ 1 \in 1..Len(s) /\ i + 1 \in 1..Len(s)
      BY <1>1, <3>1
    <3> QED
      BY <1>1, <2>2, <3>1, <3>2 DEF Rising
  <2>3. Rising(t)
    BY <2>1 DEF Rising
  <2> QED
    BY <2>2, <2>3
<1>6. Crested(s) => /\ Crested(t)
                    /\ Head(s).kind = "event" =>
                         \A h \in SnapshotsOf(t) :
                           h.gen = Head(s).gen => Head(s).seq <= h.seq
  <2> SUFFICES ASSUME Crested(s)
               PROVE  /\ Crested(t)
                      /\ Head(s).kind = "event" =>
                           \A h \in SnapshotsOf(t) :
                             h.gen = Head(s).gen => Head(s).seq <= h.seq
    OBVIOUS
  <2>1. ASSUME NEW i \in 1..Len(t), NEW j \in 1..Len(t), i < j,
               t[i].kind = "event", t[j].kind = "snapshot", t[i].gen = t[j].gen
        PROVE  t[i].seq <= t[j].seq
    <3>1. /\ t[i] = s[i + 1] /\ t[j] = s[j + 1]
          /\ i + 1 \in 1..Len(s) /\ j + 1 \in 1..Len(s) /\ i + 1 < j + 1
      BY <1>1, <2>1
    <3> QED
      BY <2>1, <3>1 DEF Crested
  <2>2. ASSUME Head(s).kind = "event", NEW h \in SnapshotsOf(t), h.gen = Head(s).gen
        PROVE  Head(s).seq <= h.seq
    <3>1. PICK i \in 1..Len(t) : h = t[i] /\ h.kind = "snapshot"
      BY <2>2 DEF SnapshotsOf, FramesOf
    <3>2. h = s[i + 1] /\ 1 < i + 1 /\ 1 \in 1..Len(s) /\ i + 1 \in 1..Len(s)
      BY <1>1, <3>1
    <3> QED
      BY <1>1, <2>2, <3>1, <3>2 DEF Crested
  <2>3. Crested(t)
    BY <2>1 DEF Crested
  <2> QED
    BY <2>2, <2>3
<1>7. SnapshotFirst(s) => /\ SnapshotFirst(t)
                          /\ Head(s).kind = "event" => SnapshotsOf(s) = {}
  <2> SUFFICES ASSUME SnapshotFirst(s)
               PROVE  /\ SnapshotFirst(t)
                      /\ Head(s).kind = "event" => SnapshotsOf(s) = {}
    OBVIOUS
  <2>1. SnapshotFirst(t)
    <3> SUFFICES ASSUME NEW i \in 1..Len(t), NEW j \in 1..Len(t), i < j,
                        t[i].kind = "event"
                 PROVE  t[j].kind # "snapshot"
      BY DEF SnapshotFirst
    <3>1. /\ t[i] = s[i + 1] /\ t[j] = s[j + 1]
          /\ i + 1 \in 1..Len(s) /\ j + 1 \in 1..Len(s) /\ i + 1 < j + 1
      BY <1>1
    <3> QED
      BY <3>1 DEF SnapshotFirst
  <2>2. ASSUME Head(s).kind = "event", NEW i \in 1..Len(s) PROVE s[i].kind # "snapshot"
    <3>1. CASE i = 1
      BY <1>1, <2>2, <3>1
    <3>2. CASE i # 1
      BY <1>1, <2>2, <3>2 DEF SnapshotFirst
    <3> QED
      BY <3>1, <3>2
  <2> QED
    BY <2>1, <2>2 DEF SnapshotsOf, FramesOf
<1> QED
  BY <1>2, <1>3, <1>4, <1>5, <1>6, <1>7 DEF t, EventsOf, SnapshotsOf

LEMMA FramesOfAlone ==
  ASSUME NEW s \in Seq(Frames), s # <<>>, Tail(s) = <<>>, Head(s).kind # "event"
  PROVE  EventsOf(s) = {}
<1> DEFINE t == Tail(s)
<1>1. Len(s) \in Nat /\ Len(t) = Len(s) - 1 /\ Head(s) = s[1] /\ t = <<>>
  BY HeadTailProperties, LenProperties
<1> HIDE DEF t
<1>2. Len(t) = 0
  BY <1>1
<1>3. Len(s) = 1
  BY <1>1, <1>2
<1> QED
  BY <1>1, <1>3 DEF EventsOf, FramesOf

LEMMA FramesKnown ==
  ASSUME NEW s \in Seq(Frames), NEW f \in FramesOf(s)
  PROVE  /\ f \in Frames
         /\ f.gen \in Gens
         /\ f.kind = "event" => f.seq \in Seqs
<1>1. f \in Frames
  BY ElementOfSeq DEF FramesOf
<1> QED
  BY <1>1, FrameKinds

LEMMA WaitingKnown ==
  ASSUME TypeOK
  PROVE  \A f \in FramesOf(work) \cup FramesOf(Released) \cup FramesOf(chan) :
           /\ f \in Frames
           /\ f.gen \in Gens
           /\ f.kind = "event" => f.seq \in Seqs
<1>1. work \in Seq(Frames) /\ Released \in Seq(Frames) /\ chan \in Seq(Frames)
  BY ReleasedType DEF TypeOK
<1>2. ASSUME NEW s \in Seq(Frames), NEW f \in FramesOf(s)
      PROVE  f \in Frames /\ f.gen \in Gens /\ (f.kind = "event" => f.seq \in Seqs)
  BY FramesKnown
<1> QED
  BY <1>1, <1>2

\* What is released depends on the buffer only.
LEMMA ReleasedSteps ==
  ASSUME TypeOK, TypeOK'
  PROVE  /\ gapBuf' = gapBuf => Released' = Released
         /\ gapBuf' = None \/ gapBuf' = <<>> => Released' = <<>>
         /\ \A f : gapBuf # None /\ gapBuf' = Append(gapBuf, f) /\ gapBuf' # None
              => Released' = Append(Released, f)
BY DEF Released

\* Steps that touch neither the log, the link, the cursor nor a frame.
LEMMA OnceUntouched ==
  ASSUME OnceInv,
         UNCHANGED <<gen, last, link, since, chan, hello, cursor, gapBuf, work,
                     applied, twice>>
  PROVE  OnceInv'
<1>1. Released' = Released
  BY DEF Released
<1>2. Known' /\ Ordered' /\ GapAlone' /\ Behind' /\ NoneOlder' /\ HeldFresh' /\ WorkGated'
  BY <1>1 DEF OnceInv, Known, Ordered, GapAlone, Behind, NoneOlder, HeldFresh,
     WorkGated, Overtaken
<1>3. ChanFresh' /\ DialFresh' /\ Greeted' /\ Snapshots' /\ DispatchedOnce'
  BY <1>1 DEF OnceInv, ChanFresh, DialFresh, GapAhead, Overtaken, Greeted, Snapshots,
     DispatchedOnce
<1> QED
  BY <1>2, <1>3 DEF OnceInv

LEMMA EmitOnce == ASSUME TypeOK, TypeOK', OnceInv, Emit PROVE OnceInv'
<1> USE DEF OnceInv
<1> DEFINE e == Event(gen, last[gen] + 1)
<1>1. /\ UNCHANGED <<gen, link, since, hello, cursor, gapBuf, work, applied, twice>>
      /\ Released' = Released
  BY DEF Emit, pageVars, historyVars, Released
<1>2. /\ gen \in Gens /\ last[gen] \in Nat /\ last[gen] + 1 \in Seqs
      /\ \A g \in Gens : last[g] \in Nat /\ last'[g] \in Nat /\ last[g] <= last'[g]
      /\ last'[gen] = last[gen] + 1
  <2>1. gen \in Gens /\ last \in [Gens -> 0..MaxSeq] /\ last[gen] < MaxSeq
    BY DEF Emit, TypeOK
  <2>2. last' = [last EXCEPT ![gen] = last[gen] + 1]
    BY DEF Emit
  <2>3. \A g \in Gens : last'[g] = IF g = gen THEN last[gen] + 1 ELSE last[g]
    BY <2>1, <2>2
  <2> QED
    BY <2>1, <2>3 DEF Seqs
<1>3. e \in Frames /\ e.kind = "event" /\ e.gen = gen /\ e.seq = last[gen] + 1
  BY <1>2, FramesMade DEF Event
<1>4. \A f \in FramesOf(work) \cup FramesOf(Released) \cup FramesOf(chan) :
        f.gen \in Gens /\ (f.kind = "event" => f.seq \in Nat)
  BY WaitingKnown DEF Seqs
<1> HIDE DEF e
<1>5. /\ FramesOf(chan') \subseteq FramesOf(chan) \cup {e}
      /\ EventsOf(chan') \subseteq EventsOf(chan) \cup {e}
      /\ SnapshotsOf(chan') \subseteq SnapshotsOf(chan)
      /\ Rising(chan') /\ SnapshotFirst(chan')
      /\ chan # <<>> => chan' # <<>> /\ Head(chan') = Head(chan)
  <2>1. CASE chan' = chan
    BY <2>1 DEF Ordered, Snapshots
  <2>2. CASE chan' = Append(chan, e)
    <3>1. \A h \in EventsOf(chan) : h.seq < e.seq
      BY <1>2, <1>3, <1>4 DEF Known, EventsOf
    <3>2. chan # <<>> => chan' # <<>> /\ Head(chan') = Head(chan)
      <4> SUFFICES ASSUME chan # <<>> PROVE chan' # <<>> /\ Head(chan') = Head(chan)
        OBVIOUS
      <4>1. chan \in Seq(Frames) /\ e \in Frames
        BY <1>3 DEF TypeOK
      <4>2. /\ chan' \in Seq(Frames) /\ chan' # <<>>
            /\ \A i \in 1..Len(chan) : chan'[i] = chan[i]
        BY <2>2, <4>1, AppendProperties
      <4>3. 1 \in 1..Len(chan) /\ Head(chan) = chan[1] /\ Head(chan') = chan'[1]
        BY <4>1, <4>2, EmptySeq, LenProperties, HeadTailProperties
      <4> QED
        BY <4>2, <4>3
    <3>3. chan \in Seq(Frames) /\ e \in Frames /\ Rising(chan) /\ SnapshotFirst(chan)
      BY <1>3 DEF TypeOK, Ordered, Snapshots
    <3>4. e.kind = "event"
      BY <1>3
    <3>5. FramesOf(chan') = FramesOf(chan) \cup {e} /\ Rising(chan') /\ SnapshotFirst(chan')
      BY <2>2, <3>1, <3>3, <3>4, FramesOfAppend
    <3> QED
      BY <3>2, <3>4, <3>5 DEF EventsOf, SnapshotsOf
  <2> QED
    BY <2>1, <2>2 DEF Emit, e
<1>6. \A f \in EventsOf(work) \cup EventsOf(Released) : f.gen = e.gen => f.seq < e.seq
  BY <1>2, <1>3, <1>4 DEF Known, EventsOf
<1>7. ~ Overtaken(e)
  <2> SUFFICES ASSUME NEW n \in Seqs, n >= e.seq, <<e.gen, n>> \in applied
               PROVE  FALSE
    BY DEF Overtaken
  <2>1. n <= last[gen]
    BY <1>2, <1>3 DEF Known
  <2>2. n \in Nat /\ last[gen] \in Nat /\ n >= last[gen] + 1
    BY <1>2, <1>3 DEF Seqs
  <2> QED
    BY <2>1, <2>2
<1>8. Known'
  <2>1. \A f \in FramesOf(chan') : f.gen = gen
    BY <1>3, <1>5 DEF Known
  <2>2. \A f \in EventsOf(work) \cup EventsOf(Released) \cup EventsOf(chan') :
          f.seq <= last'[f.gen]
    <3>1. ASSUME NEW f \in EventsOf(work) \cup EventsOf(Released) \cup EventsOf(chan)
          PROVE  f.seq <= last'[f.gen]
      <4>1. f.seq <= last[f.gen] /\ f.gen \in Gens /\ f.seq \in Nat
        BY <1>4 DEF Known, EventsOf
      <4>2. last[f.gen] \in Nat /\ last'[f.gen] \in Nat /\ last[f.gen] <= last'[f.gen]
        BY <1>2, <4>1
      <4> QED
        BY <4>1, <4>2
    <3>2. e.seq <= last'[e.gen]
      BY <1>2, <1>3
    <3> QED
      BY <1>5, <3>1, <3>2
  <2>3. \A g \in Gens, n \in Seqs : <<g, n>> \in applied => g <= gen /\ n <= last'[g]
    BY <1>2 DEF Known, Seqs, TypeOK
  <2> QED
    BY <1>1, <2>1, <2>2, <2>3 DEF Known
<1>9. Ordered' /\ GapAlone' /\ Behind' /\ NoneOlder' /\ HeldFresh' /\ WorkGated'
      /\ DialFresh' /\ DispatchedOnce'
  BY <1>1, <1>5 DEF Ordered, GapAlone, Behind, NoneOlder, HeldFresh, WorkGated,
     DialFresh, DispatchedOnce, Overtaken
<1>10. ChanFresh'
  <2>1. GapAhead' => GapAhead
    BY <1>3, <1>5 DEF GapAhead
  <2>2. link' # "up" => chan' = <<>>
    BY <1>1 DEF Emit, ChanFresh
  <2>3. GapAhead' \/ gapBuf' # None => \A f \in EventsOf(chan') : ~ Overtaken(f)
    BY <1>1, <1>5, <1>7, <2>1 DEF ChanFresh
  <2>4. GapAhead' =>
          \A f \in EventsOf(chan'), h \in EventsOf(work) \cup EventsOf(Released) :
            h.gen = f.gen => h.seq < f.seq
    BY <1>5, <1>6, <2>1 DEF ChanFresh
  <2> QED
    BY <1>1, <2>2, <2>3, <2>4 DEF ChanFresh, Overtaken
<1>11. Greeted'
  BY <1>1, <1>5 DEF Greeted, ChanFresh
<1>12. Snapshots'
  BY <1>1, <1>5 DEF Snapshots
<1> QED
  BY <1>8, <1>9, <1>10, <1>11, <1>12

\* The channel is emptied.
LEMMA CutOnce ==
  ASSUME TypeOK, OnceInv, Restart \/ Lose PROVE OnceInv'
<1>1. /\ UNCHANGED <<last, since, hello, cursor, gapBuf, work, applied, twice>>
      /\ Released' = Released /\ chan' = <<>> /\ link' = "down"
  <2>1. CASE Restart
    BY <2>1 DEF Restart, pageVars, historyVars, Released
  <2>2. CASE Lose
    BY <2>2 DEF Lose, serverVars, pageVars, historyVars, Released
  <2> QED
    BY <2>1, <2>2
<1> USE DEF OnceInv
<1>2. gen \in Nat /\ gen' \in Nat /\ gen <= gen'
  BY DEF Restart, Lose, serverVars, TypeOK, Gens
<1>3. /\ hello # None => hello \in Nat
      /\ cursor # None => cursor.gen \in Nat
      /\ \A f \in FramesOf(work) \cup FramesOf(Released) : f.gen \in Nat
  <2>1. (hello # None => hello \in Nat) /\ (cursor # None => cursor.gen \in Nat)
    BY DEF TypeOK, Cursors, Gens
  <2>2. \A f \in FramesOf(work) \cup FramesOf(Released) : f.gen \in Nat
    BY WaitingKnown DEF Gens
  <2> QED
    BY <2>1, <2>2
<1>4. Known'
  <2>1. /\ hello # None => hello <= gen'
        /\ cursor # None => cursor.gen <= gen'
        /\ \A f \in FramesOf(work) \cup FramesOf(Released) : f.gen <= gen'
    BY <1>2, <1>3 DEF Known
  <2>2. \A g \in Gens, n \in Seqs : <<g, n>> \in applied => g <= gen' /\ n <= last[g]
    BY <1>2 DEF Known, Gens
  <2> QED
    BY <1>1, <2>1, <2>2, FramesOfEmpty DEF Known
<1>5. Ordered' /\ GapAlone' /\ Behind' /\ NoneOlder' /\ HeldFresh' /\ WorkGated'
      /\ DialFresh' /\ DispatchedOnce'
  BY <1>1, FramesOfEmpty DEF Ordered, GapAlone, Behind, NoneOlder, HeldFresh,
     WorkGated, DialFresh, DispatchedOnce, Overtaken
<1>6. ChanFresh'
  BY <1>1, FramesOfEmpty DEF ChanFresh, GapAhead
<1>7. Greeted' /\ Snapshots'
  BY <1>1, FramesOfEmpty DEF Greeted, Snapshots, SnapshotsOf
<1> QED
  BY <1>4, <1>5, <1>6, <1>7

LEMMA DialOnce == ASSUME TypeOK, OnceInv, Dial PROVE OnceInv'
<1> USE DEF OnceInv
<1>1. /\ UNCHANGED <<gen, last, chan, hello, cursor, gapBuf, work, applied, twice>>
      /\ Released' = Released /\ link = "down" /\ link' = "dialing" /\ since' = cursor
  BY DEF Dial, serverVars, pageVars, historyVars, Released
<1>2. Known' /\ Ordered' /\ GapAlone' /\ Behind' /\ NoneOlder' /\ HeldFresh'
      /\ WorkGated' /\ DispatchedOnce'
  BY <1>1 DEF Known, Ordered, GapAlone, Behind, NoneOlder, HeldFresh, WorkGated,
     DispatchedOnce, Overtaken
<1>3. ChanFresh'
  BY <1>1, FramesOfEmpty DEF ChanFresh, GapAhead
<1>4. DialFresh'
  BY <1>1 DEF DialFresh, Behind, TypeOK
<1>5. Greeted' /\ Snapshots'
  BY <1>1 DEF Greeted, Snapshots
<1> QED
  BY <1>2, <1>3, <1>4, <1>5

LEMMA FramesOfConcat ==
  ASSUME NEW s \in Seq(Frames), NEW t \in Seq(Frames)
  PROVE  /\ FramesOf(s \o t) = FramesOf(s) \cup FramesOf(t)
         /\ EventsOf(s) = {} /\ Rising(t) => Rising(s \o t)
<1> DEFINE u == s \o t
           m == Len(s)
           k == Len(t)
<1>1. /\ m \in Nat /\ k \in Nat /\ Len(u) = m + k
      /\ \A i \in 1..(m + k) : u[i] = IF i <= m THEN s[i] ELSE t[i - m]
  BY ConcatProperties, LenProperties
<1> HIDE DEF u
<1>2. /\ \A i \in 1..m : i \in 1..Len(u) /\ u[i] = s[i]
      /\ \A i \in 1..k : m + i \in 1..Len(u) /\ u[m + i] = t[i]
  BY <1>1
<1>3. \A i \in 1..Len(u) : \/ (i \in 1..m /\ u[i] = s[i])
                            \/ (i - m \in 1..k /\ u[i] = t[i - m])
  BY <1>1
<1>4. FramesOf(u) \subseteq FramesOf(s) \cup FramesOf(t)
  BY <1>3 DEF FramesOf
<1>5. FramesOf(s) \cup FramesOf(t) \subseteq FramesOf(u)
  BY <1>2 DEF FramesOf
<1>6. ASSUME EventsOf(s) = {}, Rising(t) PROVE Rising(u)
  <2> SUFFICES ASSUME NEW i \in 1..Len(u), NEW j \in 1..Len(u), i < j,
                      u[i].kind = "event", u[j].kind = "event"
               PROVE  u[i].seq < u[j].seq
    BY DEF Rising
  <2>1. \A n \in 1..m : s[n].kind # "event"
    BY <1>6 DEF EventsOf, FramesOf
  <2>2. /\ i - m \in 1..k /\ u[i] = t[i - m]
        /\ j - m \in 1..k /\ u[j] = t[j - m]
        /\ i - m < j - m
    BY <1>1, <1>3, <2>1
  <2> QED
    BY <1>6, <2>2 DEF Rising
<1> QED
  BY <1>4, <1>5, <1>6 DEF u

LEMMA NoEventsRising ==
  ASSUME NEW s
  PROVE  /\ EventsOf(s) = {} => Rising(s) /\ SnapshotFirst(s)
         /\ SnapshotsOf(s) = {} => SnapshotFirst(s)
BY DEF EventsOf, SnapshotsOf, FramesOf, Rising, SnapshotFirst

\* A running turn comes as one snapshot, not as events.
LEMMA RunningTurnFrames ==
  ASSUME TypeOK, NEW turn \in RunningTurn
  PROVE  /\ EventsOf(turn) = {}
         /\ \A f \in FramesOf(turn) : f.gen = gen /\ f.seq = last[gen]
<1>1. CASE turn = <<>>
  BY <1>1, FramesOfEmpty
<1>2. CASE turn # <<>>
  <2>1. PICK m \in 1..last[gen] : turn = <<Snapshot(gen, m, last[gen])>>
    BY <1>2 DEF RunningTurn
  <2>2. FramesOf(turn) = {Snapshot(gen, m, last[gen])}
    BY <2>1, FramesOfOne
  <2> QED
    BY <2>2 DEF EventsOf, Snapshot
<1> QED
  BY <1>1, <1>2

\* The replayed ring holds the events after the cursor, in order.
LEMMA RingReplayFrames ==
  ASSUME TypeOK, since # None, since.gen = gen
  PROVE  /\ Rising(RingReplay)
         /\ \A f \in FramesOf(RingReplay) :
              /\ f.kind = "event" /\ f.gen = gen
              /\ since.seq < f.seq /\ f.seq <= last[gen]
<1> DEFINE k == last[gen] - since.seq
           ring == [n \in 1..k |-> Event(gen, since.seq + n)]
<1>1. /\ since.seq \in Nat /\ last[gen] \in Nat /\ k \in Int
  BY DEF TypeOK, Cursors, Seqs
<1>2. RingReplay = ring
  BY DEF RingReplay
<1>3. CASE k \in Nat
  <2>1. Len(ring) = k
    <3>1. ring \in Seq(Frames)
      BY <1>2, RingReplayType
    <3>2. DOMAIN ring = 1..k /\ DOMAIN ring = 1..Len(ring) /\ Len(ring) \in Nat
      BY <3>1, LenProperties
    <3> HIDE DEF ring, k
    <3> QED
      BY <1>3, <3>2
  <2>2. \A n \in 1..k : /\ ring[n].kind = "event" /\ ring[n].gen = gen
                        /\ ring[n].seq = since.seq + n
    BY DEF Event
  <2> HIDE DEF ring
  <2>3. Rising(ring)
    BY <1>1, <2>1, <2>2 DEF Rising
  <2>4. \A f \in FramesOf(ring) : /\ f.kind = "event" /\ f.gen = gen
                                  /\ since.seq < f.seq /\ f.seq <= last[gen]
    BY <1>1, <2>1, <2>2 DEF FramesOf
  <2> QED
    BY <1>2, <2>3, <2>4
<1>4. CASE k \notin Nat
  <2>1. 1..k = {}
    BY <1>1, <1>4
  <2>2. RingReplay = <<>>
    BY <1>2, <2>1
  <2> QED
    BY <2>2, FramesOfEmpty
<1> QED
  BY <1>3, <1>4

\* What an accepted socket carries: no event, or those after the cursor it was
\* dialed with and no gap.
LEMMA AcceptFrames ==
  ASSUME TypeOK, Accept
  PROVE  /\ \A f \in FramesOf(chan') : f.gen = gen
         /\ Rising(chan') /\ SnapshotFirst(chan')
         /\ \A f \in SnapshotsOf(chan') : f.seq = last[gen]
         /\ chan' # <<>> /\ Head(chan').kind = "hello"
         /\ \/ EventsOf(chan') = {}
            \/ /\ since # None /\ since.gen = gen
               /\ \A f \in FramesOf(chan') : f.kind # "gap"
               /\ \A f \in EventsOf(chan') : since.seq < f.seq /\ f.seq <= last[gen]
<1> DEFINE one == <<Hello(gen)>>
           two == <<Hello(gen), Gap(gen)>>
<1>1. one \in Seq(Frames) /\ two \in Seq(Frames)
  BY FramesMade DEF TypeOK
<1>2. /\ FramesOf(one) = {Hello(gen)} /\ FramesOf(two) = {Hello(gen), Gap(gen)}
      /\ Hello(gen).kind = "hello" /\ Hello(gen).gen = gen
      /\ Gap(gen).kind = "gap" /\ Gap(gen).gen = gen
  BY DEF FramesOf, Hello, Gap
<1>3. EventsOf(one) = {} /\ EventsOf(two) = {}
  BY <1>2 DEF EventsOf
<1>6. \A turn \in Seq(Frames) :
        /\ one \o turn # <<>> /\ Head(one \o turn) = Hello(gen)
        /\ two \o turn # <<>> /\ Head(two \o turn) = Hello(gen)
  BY <1>1, ConcatProperties, EmptySeq
<1> HIDE DEF one, two
<1>4. CASE AcceptFresh \/ AcceptGap
  <2>1. PICK turn \in RunningTurn : chan' = one \o turn \/ chan' = two \o turn
    BY <1>4 DEF AcceptFresh, AcceptGap, one, two
  <2>2. FramesOf(chan') \subseteq FramesOf(two) \cup FramesOf(one) \cup FramesOf(turn)
    BY <1>1, <2>1, RunningTurnType, FramesOfConcat
  <2>3. EventsOf(chan') = {}
    BY <1>3, <2>2, RunningTurnFrames DEF EventsOf
  <2>4. \A f \in FramesOf(chan') : f.gen = gen
    BY <1>2, <2>2, RunningTurnFrames
  <2>5. \A f \in SnapshotsOf(chan') : f.seq = last[gen]
    BY <1>2, <2>2, RunningTurnFrames DEF SnapshotsOf
  <2>6. chan' # <<>> /\ Head(chan').kind = "hello"
    BY <1>2, <1>6, <2>1, RunningTurnType
  <2> QED
    BY <2>3, <2>4, <2>5, <2>6, NoEventsRising
<1>5. CASE AcceptResume
  <2>1. chan' = one \o RingReplay /\ since # None /\ since.gen = gen
    BY <1>5 DEF AcceptResume, one
  <2>2. /\ FramesOf(chan') = FramesOf(one) \cup FramesOf(RingReplay)
        /\ Rising(chan')
    BY <1>1, <1>3, <2>1, RingReplayType, RingReplayFrames, FramesOfConcat
  <2>3. SnapshotsOf(chan') = {}
    BY <1>2, <2>1, <2>2, RingReplayFrames DEF SnapshotsOf
  <2>4. chan' # <<>> /\ Head(chan').kind = "hello"
    BY <1>2, <1>6, <2>1, RingReplayType
  <2> QED
    BY <1>2, <2>1, <2>2, <2>3, <2>4, RingReplayFrames, NoEventsRising DEF EventsOf
<1> QED
  BY <1>4, <1>5 DEF Accept

LEMMA AcceptOnce == ASSUME TypeOK, OnceInv, Accept PROVE OnceInv'
<1> USE DEF OnceInv
<1>1. /\ UNCHANGED <<gen, last, since, hello, cursor, gapBuf, work, applied, twice>>
      /\ Released' = Released /\ link = "dialing" /\ link' = "up"
  BY DEF Accept, serverVars, pageVars, Released
<1>2. /\ \A f \in EventsOf(chan') : f.seq <= last[f.gen]
      /\ \A f \in FramesOf(chan') : f.gen = gen
      /\ Rising(chan')
  BY AcceptFrames DEF EventsOf
<1>3. Known' /\ Ordered' /\ GapAlone' /\ Behind' /\ NoneOlder' /\ HeldFresh'
      /\ WorkGated' /\ DialFresh' /\ DispatchedOnce'
  BY <1>1, <1>2 DEF Known, Ordered, GapAlone, Behind, NoneOlder, HeldFresh, WorkGated,
     DialFresh, DispatchedOnce, Overtaken
<1>4. ChanFresh'
  <2>1. CASE EventsOf(chan') = {}
    BY <1>1, <2>1 DEF ChanFresh
  <2>2. CASE /\ since # None /\ since.gen = gen
             /\ \A f \in FramesOf(chan') : f.kind # "gap"
             /\ \A f \in EventsOf(chan') : since.seq < f.seq /\ f.seq <= last[gen]
    <3>1. ~GapAhead'
      BY <2>2 DEF GapAhead
    <3>2. ASSUME gapBuf # None, NEW f \in EventsOf(chan') PROVE ~ Overtaken(f)
      <4>1. f.gen = gen /\ since.seq < f.seq
        BY <1>2, <2>2, <3>2 DEF EventsOf
      <4>2. f.seq \in Seqs /\ since.seq \in Seqs
        <5>1. chan' \in Seq(Frames)
          BY AcceptType DEF TypeOK
        <5>2. f.seq \in Seqs
          BY <3>2, <5>1, FramesKnown DEF EventsOf
        <5> QED
          BY <2>2, <5>2 DEF TypeOK, Cursors
      <4>3. \A n \in Seqs : <<gen, n>> \in applied => n <= since.seq
        BY <1>1, <2>2, <3>2 DEF DialFresh
      <4> SUFFICES ASSUME NEW n \in Seqs, n >= f.seq, <<f.gen, n>> \in applied
                   PROVE  FALSE
        BY DEF Overtaken
      <4>4. n <= since.seq /\ since.seq < f.seq /\ n >= f.seq
        BY <4>1, <4>3
      <4> QED
        BY <4>2, <4>4 DEF Seqs
    <3> QED
      BY <1>1, <3>1, <3>2 DEF ChanFresh, Overtaken
  <2> QED
    BY <2>1, <2>2, AcceptFrames
<1>5. Greeted'
  BY <1>1, AcceptFrames DEF Greeted
<1>6. Snapshots'
  <2>1. /\ SnapshotFirst(chan')
        /\ \A f \in SnapshotsOf(chan') : f.gen = gen /\ f.seq = last[gen]
    BY AcceptFrames DEF SnapshotsOf
  <2>2. \A f \in SnapshotsOf(chan'), h \in EventsOf(work) \cup EventsOf(Released) :
          h.gen = f.gen => h.seq <= f.seq
    BY <2>1 DEF Known
  <2>3. \A f \in SnapshotsOf(chan'), n \in Seqs : <<f.gen, n>> \in applied => n <= f.seq
    BY <2>1 DEF Known, TypeOK
  <2> QED
    BY <1>1, <2>1, <2>2, <2>3 DEF Snapshots
<1> QED
  BY <1>3, <1>4, <1>5, <1>6

\* What a frame of the channel and those behind it are known to be.
LEMMA ReceiveFrames ==
  ASSUME TypeOK, OnceInv, Receive, NEW f, f = Head(chan)
  PROVE  /\ f \in FramesOf(chan) /\ f \in Frames
         /\ f.gen = gen /\ gen \in Gens
         /\ f.kind = "event" => f.seq \in Seqs /\ f.seq <= last[gen] /\ f \in EventsOf(chan)
         /\ f.kind = "snapshot" => f \in SnapshotsOf(chan)
         /\ FramesOf(chan') \subseteq FramesOf(chan)
         /\ EventsOf(chan') \subseteq EventsOf(chan)
         /\ SnapshotsOf(chan') \subseteq SnapshotsOf(chan)
         /\ Rising(chan') /\ SnapshotFirst(chan')
         /\ f.kind = "event" => /\ \A h \in EventsOf(chan') : f.seq < h.seq
                                /\ SnapshotsOf(chan) = {}
         /\ FramesOf(work) = {} /\ EventsOf(work) = {} /\ SnapshotsOf(work) = {}
         /\ link = "up"
         /\ UNCHANGED <<gen, last, link, since, cursor, applied, twice>>
<1> USE DEF OnceInv
<1>1. chan # <<>> /\ chan \in Seq(Frames) /\ chan' = Tail(chan) /\ work = <<>>
  BY DEF Receive, Drained, TypeOK
<1>2. f \in FramesOf(chan)
  BY <1>1, FramesOfTail
<1>3. f \in Frames /\ (f.kind = "event" => f.seq \in Seqs)
  BY <1>1, <1>2, FramesKnown
<1>4. f.gen = gen
  BY <1>2 DEF Known
<1>5. f.kind = "event" => f.seq <= last[gen] /\ f \in EventsOf(chan)
  <2> SUFFICES ASSUME f.kind = "event" PROVE f.seq <= last[gen] /\ f \in EventsOf(chan)
    OBVIOUS
  <2>1. f \in EventsOf(chan)
    BY <1>2 DEF EventsOf
  <2> QED
    BY <1>4, <2>1 DEF Known
<1>6. f.kind = "snapshot" => f \in SnapshotsOf(chan)
  BY <1>2 DEF SnapshotsOf
<1>7. /\ FramesOf(chan') \subseteq FramesOf(chan)
      /\ EventsOf(chan') \subseteq EventsOf(chan)
      /\ SnapshotsOf(chan') \subseteq SnapshotsOf(chan)
      /\ Rising(chan') /\ SnapshotFirst(chan')
      /\ f.kind = "event" => /\ \A h \in EventsOf(chan') : f.seq < h.seq
                             /\ SnapshotsOf(chan) = {}
  BY <1>1, FramesOfTail DEF Ordered, Snapshots, SnapshotsOf
<1>8. FramesOf(work) = {} /\ EventsOf(work) = {} /\ SnapshotsOf(work) = {}
  BY <1>1, FramesOfEmpty DEF SnapshotsOf
<1>9. /\ link = "up" /\ gen \in Gens
      /\ UNCHANGED <<gen, last, link, since, cursor, applied, twice>>
  BY <1>1 DEF ChanFresh, Receive, serverVars, historyVars, TypeOK
<1> QED
  BY <1>2, <1>3, <1>4, <1>5, <1>6, <1>7, <1>8, <1>9

\* A hello is received.
LEMMA HelloOnce ==
  ASSUME TypeOK, TypeOK', OnceInv, Receive, NEW f, f = Head(chan),
         hello' = f.gen, UNCHANGED <<gapBuf, work>>
  PROVE  OnceInv'
<1> USE DEF OnceInv
<1>1. Released' = Released
  BY DEF Released
<1>2. Known'
  BY <1>1, ReceiveFrames DEF Known, Gens
<1>5. Ordered' /\ GapAlone' /\ Behind' /\ NoneOlder' /\ HeldFresh' /\ WorkGated'
  BY <1>1, ReceiveFrames DEF Ordered, GapAlone, Behind, NoneOlder, HeldFresh,
     WorkGated, Overtaken
<1>3. ChanFresh' /\ DialFresh' /\ DispatchedOnce'
  <2>1. GapAhead' => GapAhead
    BY ReceiveFrames DEF GapAhead
  <2> QED
    BY <1>1, <2>1, ReceiveFrames DEF ChanFresh, DialFresh, DispatchedOnce, Overtaken
<1>4. Greeted'
  BY <1>1, ReceiveFrames DEF Greeted, Known, Gens
<1>6. Snapshots'
  BY <1>1, ReceiveFrames DEF Snapshots
<1> QED
  BY <1>2, <1>3, <1>4, <1>5, <1>6

\* A resume-gap is received: frames are held from now on.
LEMMA GapOnce ==
  ASSUME TypeOK, TypeOK', OnceInv, Receive, NEW f, f = Head(chan), f.kind = "gap",
         gapBuf' = <<>>, work' = <<f>>, UNCHANGED hello
  PROVE  OnceInv'
<1> USE DEF OnceInv
<1>1. /\ Released' = <<>> /\ FramesOf(Released') = {} /\ EventsOf(Released') = {}
      /\ FramesOf(work') = {f} /\ EventsOf(work') = {}
      /\ Len(work') = 1
      /\ SnapshotsOf(work') = {} /\ SnapshotsOf(Released') = {}
  BY ReleasedSteps, FramesOfOne, FramesOfEmpty DEF EventsOf, SnapshotsOf
<1>2. Sorted(work') /\ Sorted(Released') /\ Crested(work') /\ Crested(Released')
  BY <1>1, FramesOfOne, FramesOfEmpty
<1>3. GapAhead /\ hello = gen
  BY ReceiveFrames DEF GapAhead, Greeted
<1>4. Known'
  BY <1>1, ReceiveFrames DEF Known, Gens
<1>5. Ordered' /\ GapAlone' /\ Behind' /\ HeldFresh' /\ WorkGated' /\ DispatchedOnce'
  BY <1>1, <1>2, ReceiveFrames DEF Ordered, GapAlone, Behind, HeldFresh, WorkGated,
     DispatchedOnce
<1>6. NoneOlder'
  BY <1>1, ReceiveFrames DEF NoneOlder, Known
<1>7. ChanFresh' /\ DialFresh'
  BY <1>1, <1>3, ReceiveFrames DEF ChanFresh, DialFresh, Overtaken
<1>8. Greeted'
  BY <1>1, <1>3, ReceiveFrames DEF Greeted, Gens
<1>9. Snapshots'
  BY <1>1, <1>2, ReceiveFrames DEF Snapshots
<1> QED
  BY <1>4, <1>5, <1>6, <1>7, <1>8, <1>9

\* A frame is held back.
LEMMA HeldOnce ==
  ASSUME TypeOK, TypeOK', OnceInv, Receive, NEW f, f = Head(chan),
         f.kind \in {"event", "snapshot"},
         gapBuf # None, gapBuf' = Append(gapBuf, f), UNCHANGED <<hello, work>>
  PROVE  OnceInv'
<1> USE DEF OnceInv
<1>1. Released \in Seq(Frames)
  BY ReleasedType
<1>2. Released' = Append(Released, f) \/ Released' = <<>>
  BY ReleasedSteps
<1>3. /\ FramesOf(Released') \subseteq FramesOf(Released) \cup {f}
      /\ Sorted(Released') /\ Crested(Released')
  <2>1. CASE Released' = <<>>
    BY <2>1, FramesOfEmpty
  <2>2. CASE Released' = Append(Released, f)
    <3>1. \A h \in FramesOf(Released) : h.gen <= f.gen
      BY ReceiveFrames DEF Known
    <3>2. f.kind = "snapshot" => \A h \in EventsOf(Released) : h.gen = f.gen => h.seq <= f.seq
      BY ReceiveFrames DEF Snapshots
    <3> QED
      BY <1>1, <2>2, <3>1, <3>2, ReceiveFrames, FramesOfAppend DEF Ordered, Snapshots
  <2> QED
    BY <1>2, <2>1, <2>2
<1>4. /\ \A h \in EventsOf(Released') : h \in EventsOf(Released) \/ (h = f /\ f.kind = "event")
      /\ \A h \in SnapshotsOf(Released') :
           h \in SnapshotsOf(Released) \/ (h = f /\ f.kind = "snapshot")
  BY <1>3 DEF EventsOf, SnapshotsOf
<1>5. f.kind = "event" => ~Overtaken(f)
  BY ReceiveFrames DEF ChanFresh
<1>6. Known'
  BY <1>3, <1>4, ReceiveFrames DEF Known, Gens
<1>7. Ordered' /\ GapAlone' /\ Behind' /\ HeldFresh' /\ WorkGated' /\ DispatchedOnce'
  BY <1>3, <1>4, <1>5, ReceiveFrames DEF Ordered, GapAlone, Behind, HeldFresh, WorkGated,
     DispatchedOnce, Overtaken
<1>8. NoneOlder'
  BY <1>3, ReceiveFrames DEF NoneOlder, Known
<1>9. ChanFresh' /\ DialFresh'
  <2>1. GapAhead' => GapAhead
    BY ReceiveFrames DEF GapAhead
  <2>2. f.kind = "event" => \A h \in EventsOf(chan') : f.seq < h.seq
    BY ReceiveFrames
  <2>3. GapAhead' =>
          \A g \in EventsOf(chan'), h \in EventsOf(work) \cup EventsOf(Released') :
            h.gen = g.gen => h.seq < g.seq
    BY <1>4, <2>1, <2>2, ReceiveFrames DEF ChanFresh
  <2>4. \A g \in EventsOf(chan') : ~Overtaken(g)
    BY ReceiveFrames DEF ChanFresh
  <2> QED
    BY <2>3, <2>4, ReceiveFrames DEF ChanFresh, DialFresh, Overtaken
<1>10. Greeted'
  <2>1. hello = gen
    BY ReceiveFrames DEF Greeted
  <2> QED
    BY <1>3, <2>1, ReceiveFrames DEF Greeted, Gens
<1>11. Snapshots'
  BY <1>3, <1>4, ReceiveFrames DEF Snapshots
<1> QED
  BY <1>6, <1>7, <1>8, <1>9, <1>10, <1>11

\* A frame is queued as session work.
LEMMA QueuedOnce ==
  ASSUME TypeOK, TypeOK', OnceInv, Receive, NEW f, f = Head(chan),
         f.kind \in {"event", "snapshot"},
         gapBuf = None, work' = <<f>>, UNCHANGED <<hello, gapBuf>>
  PROVE  OnceInv'
<1> USE DEF OnceInv
<1>1. /\ Released' = <<>> /\ FramesOf(Released') = {} /\ EventsOf(Released') = {}
      /\ FramesOf(work') = {f} /\ SnapshotsOf(Released') = {}
  BY ReleasedSteps, FramesOfOne, FramesOfEmpty DEF SnapshotsOf
<1>2. /\ \A h \in EventsOf(work') : h = f /\ f.kind = "event"
      /\ \A h \in SnapshotsOf(work') : h = f /\ f.kind = "snapshot"
  BY <1>1 DEF EventsOf, SnapshotsOf
<1>3. Sorted(work') /\ Sorted(Released') /\ Crested(work') /\ Crested(Released')
  BY <1>1, FramesOfOne, FramesOfEmpty
<1>4. Known'
  BY <1>1, <1>2, ReceiveFrames DEF Known, Gens
<1>5. Ordered' /\ GapAlone' /\ Behind' /\ HeldFresh' /\ DispatchedOnce'
  BY <1>1, <1>3, ReceiveFrames DEF Ordered, GapAlone, Behind, HeldFresh, DispatchedOnce
<1>6. NoneOlder'
  BY <1>1, ReceiveFrames DEF NoneOlder, Known
<1>7. WorkGated'
  <2> SUFFICES ASSUME f.kind = "event", Overtaken(f) PROVE cursor.gen = f.gen
    BY <1>2, ReceiveFrames DEF WorkGated, Overtaken
  <2>1. f.gen = gen /\ gen \in Gens /\ f.seq \in Seqs
    BY ReceiveFrames
  <2>2. cursor # None /\ cursor.gen >= gen /\ cursor.gen <= gen
    BY <2>1 DEF Behind, Known, Overtaken
  <2> QED
    BY <2>1, <2>2 DEF TypeOK, Cursors, Gens
<1>8. ChanFresh' /\ DialFresh'
  <2>1. GapAhead' => GapAhead
    BY ReceiveFrames DEF GapAhead
  <2>2. f.kind = "event" => \A h \in EventsOf(chan') : f.seq < h.seq
    BY ReceiveFrames
  <2> QED
    BY <1>1, <1>2, <2>1, <2>2, ReceiveFrames DEF ChanFresh, DialFresh, Overtaken
<1>9. Greeted'
  <2>1. hello = gen
    BY ReceiveFrames DEF Greeted
  <2> QED
    BY <1>1, <2>1, ReceiveFrames DEF Greeted, Gens
<1>10. Snapshots'
  <2>1. \A h \in SnapshotsOf(chan'), g \in EventsOf(work') \cup EventsOf(Released') :
          g.gen = h.gen => g.seq <= h.seq
    BY <1>1, <1>2, ReceiveFrames
  <2>2. \A h \in SnapshotsOf(work') \cup SnapshotsOf(Released') \cup SnapshotsOf(chan'),
           n \in Seqs : <<h.gen, n>> \in applied => n <= h.seq
    BY <1>1, <1>2, ReceiveFrames DEF Snapshots
  <2> QED
    BY <1>3, <2>1, <2>2, ReceiveFrames DEF Snapshots
<1> QED
  BY <1>4, <1>5, <1>6, <1>7, <1>8, <1>9, <1>10

LEMMA ReceiveOnce == ASSUME TypeOK, TypeOK', OnceInv, Receive PROVE OnceInv'
<1> DEFINE f == Head(chan)
<1>1. CASE f.kind = "hello" /\ hello' = f.gen /\ UNCHANGED <<gapBuf, work>>
  BY <1>1, HelloOnce
<1>2. CASE f.kind = "gap" /\ gapBuf' = <<>> /\ work' = <<f>> /\ UNCHANGED hello
  BY <1>2, GapOnce
<1>3. CASE /\ f.kind \in {"event", "snapshot"} /\ gapBuf # None
           /\ gapBuf' = Append(gapBuf, f) /\ UNCHANGED <<hello, work>>
  BY <1>3, HeldOnce
<1>4. CASE /\ f.kind \in {"event", "snapshot"} /\ gapBuf = None
           /\ work' = <<f>> /\ UNCHANGED <<hello, gapBuf>>
  BY <1>4, QueuedOnce
<1> QED
  BY <1>1, <1>2, <1>3, <1>4 DEF Receive

\* What the head of the session work and the frames after it are known to be.
LEMMA DrainFrames ==
  ASSUME TypeOK, OnceInv, work # <<>>, NEW f, f = Head(work),
         NEW rest, rest = Tail(work)
  PROVE  /\ f \in FramesOf(work) /\ f \in Frames /\ f.gen \in Gens
         /\ f.kind = "event" =>
              /\ f.seq \in Seqs /\ f \in EventsOf(work)
              /\ gapBuf = None /\ Released = <<>>
         /\ f.kind = "snapshot" => f.seq \in Seqs /\ f \in SnapshotsOf(work)
         /\ f.kind = "gap" => rest = <<>>
         /\ FramesOf(rest) \subseteq FramesOf(work)
         /\ EventsOf(rest) \subseteq EventsOf(work)
         /\ SnapshotsOf(rest) \subseteq SnapshotsOf(work)
         /\ \A h \in FramesOf(rest) : h.kind # "gap" /\ f.gen <= h.gen /\ h.gen \in Gens
         /\ Sorted(rest) /\ Crested(rest)
         /\ f.kind = "event" =>
              \A h \in SnapshotsOf(rest) : h.gen = f.gen => f.seq <= h.seq
<1> USE DEF OnceInv
<1>1. work \in Seq(Frames)
  BY DEF TypeOK
<1>2. /\ f \in FramesOf(work)
      /\ FramesOf(rest) \subseteq FramesOf(work)
      /\ EventsOf(rest) \subseteq EventsOf(work)
      /\ SnapshotsOf(rest) \subseteq SnapshotsOf(work)
      /\ \A h \in FramesOf(rest) : f.gen <= h.gen
      /\ Sorted(rest) /\ Crested(rest)
      /\ f.kind = "event" =>
           \A h \in SnapshotsOf(rest) : h.gen = f.gen => f.seq <= h.seq
      /\ Len(work) = 1 => rest = <<>>
  BY <1>1, FramesOfTail DEF Ordered, Snapshots, SnapshotsOf
<1>3. f \in Frames
  BY <1>1, <1>2, FramesKnown
<1>4. /\ f.gen \in Gens
      /\ f.kind = "event" => f.seq \in Seqs
      /\ f.kind = "snapshot" => f.seq \in Seqs
  BY <1>3, FrameKinds
<1>5. f.kind = "event" => f \in EventsOf(work) /\ gapBuf = None /\ Released = <<>>
  BY <1>2 DEF EventsOf, HeldFresh, Released
<1>6. f.kind = "snapshot" => f \in SnapshotsOf(work)
  BY <1>2 DEF SnapshotsOf
<1>7. f.kind = "gap" => rest = <<>>
  BY <1>2 DEF GapAlone
<1>8. \A h \in FramesOf(rest) : h.kind # "gap" /\ h.gen \in Gens
  BY <1>1, <1>2, FramesOfEmpty, FramesKnown DEF GapAlone
<1> QED
  BY <1>2, <1>3, <1>4, <1>5, <1>6, <1>7, <1>8

\* The head of the session work leaves it; the cursor is untouched.
LEMMA DroppedOnce ==
  ASSUME TypeOK, OnceInv, work # <<>>, work' = Tail(work),
         UNCHANGED <<gen, last, link, since, chan, hello, cursor, gapBuf, applied, twice>>
  PROVE  OnceInv'
<1> USE DEF OnceInv
<1>1. Released' = Released
  BY DEF Released
<1>2. /\ FramesOf(work') \subseteq FramesOf(work)
      /\ EventsOf(work') \subseteq EventsOf(work)
      /\ SnapshotsOf(work') \subseteq SnapshotsOf(work)
      /\ \A h \in FramesOf(work') : h.kind # "gap"
      /\ Sorted(work') /\ Crested(work')
  BY DrainFrames
<1>3. Known' /\ Ordered' /\ GapAlone' /\ Behind'
  BY <1>1, <1>2 DEF Known, Ordered, GapAlone, Behind
<1>4. NoneOlder' /\ HeldFresh' /\ WorkGated'
  BY <1>1, <1>2 DEF NoneOlder, HeldFresh, WorkGated, Overtaken
<1>5. ChanFresh' /\ DialFresh' /\ DispatchedOnce'
  BY <1>1, <1>2 DEF ChanFresh, DialFresh, DispatchedOnce, GapAhead, Overtaken
<1>6. Greeted' /\ Snapshots'
  BY <1>1, <1>2 DEF Greeted, Snapshots
<1> QED
  BY <1>3, <1>4, <1>5, <1>6

\* An event the gate lets through: it was not dispatched, and nothing later was.
LEMMA PassedOnce ==
  ASSUME TypeOK, OnceInv, work # <<>>, NEW f, f = Head(work), ApplyEvent(f),
         Gate(f.gen, f.seq), UNCHANGED <<gen, last, link, since, chan, hello>>
  PROVE  OnceInv'
<1> USE DEF OnceInv
<1>1. /\ f.kind = "event" /\ f.gen \in Gens /\ f.seq \in Seqs
      /\ f \in FramesOf(work) /\ f \in EventsOf(work)
      /\ gapBuf = None /\ Released = <<>>
  BY DrainFrames DEF ApplyEvent
<1>2. /\ work' = Tail(work) /\ gapBuf' = gapBuf /\ Released' = Released
      /\ cursor' = [gen |-> f.gen, seq |-> f.seq]
      /\ applied' = applied \cup {<<f.gen, f.seq>>}
      /\ twice' = IF <<f.gen, f.seq>> \in applied
                  THEN twice \cup {<<f.gen, f.seq>>} ELSE twice
  BY DEF ApplyEvent, Released
<1>3. /\ FramesOf(work') \subseteq FramesOf(work)
      /\ EventsOf(work') \subseteq EventsOf(work)
      /\ SnapshotsOf(work') \subseteq SnapshotsOf(work)
      /\ \A h \in FramesOf(work') : h.kind # "gap" /\ f.gen <= h.gen /\ h.gen \in Gens
      /\ Sorted(work') /\ Crested(work')
      /\ \A h \in SnapshotsOf(work') : h.gen = f.gen => f.seq <= h.seq
  BY <1>1, <1>2, DrainFrames
<1>4. FramesOf(Released') = {} /\ EventsOf(Released') = {} /\ SnapshotsOf(Released') = {}
  BY <1>1, <1>2, FramesOfEmpty DEF SnapshotsOf
<1>5. \A g \in Gens, n \in Seqs : <<g, n>> \in applied' <=>
        <<g, n>> \in applied \/ (g = f.gen /\ n = f.seq)
  BY <1>2
<1>6. \A n \in Seqs : <<f.gen, n>> \in applied => n < f.seq
  <2> SUFFICES ASSUME NEW n \in Seqs, <<f.gen, n>> \in applied, ~(n < f.seq)
               PROVE  FALSE
    OBVIOUS
  <2>1. n \in Nat /\ f.seq \in Nat /\ n >= f.seq
    BY <1>1 DEF Seqs
  <2>2. cursor.gen = f.gen
    BY <1>1, <2>1 DEF WorkGated, Overtaken
  <2>3. cursor # None /\ cursor.seq >= n
    BY <1>1, <2>2 DEF Behind
  <2>4. cursor.seq \in Nat
    BY <2>3 DEF TypeOK, Cursors, Seqs
  <2> QED
    BY <2>1, <2>2, <2>3, <2>4 DEF Gate
<1>7. DispatchedOnce'
  <2>1. <<f.gen, f.seq>> \notin applied
    BY <1>1, <1>6 DEF Seqs
  <2> QED
    BY <1>2, <2>1 DEF DispatchedOnce
<1>8. Known'
  <2>1. f.gen <= gen /\ f.seq <= last[f.gen]
    BY <1>1 DEF Known
  <2>2. \A g \in Gens, n \in Seqs : <<g, n>> \in applied' => g <= gen /\ n <= last[g]
    BY <1>5, <2>1 DEF Known
  <2>3. cursor'.gen <= gen
    BY <1>2, <2>1
  <2> QED
    BY <1>3, <1>4, <2>2, <2>3 DEF Known
<1>9. Ordered' /\ GapAlone' /\ HeldFresh'
  BY <1>1, <1>2, <1>3, <1>4, FramesOfEmpty DEF Ordered, GapAlone, HeldFresh
<1>10. Behind'
  <2> SUFFICES ASSUME NEW g \in Gens, NEW n \in Seqs, <<g, n>> \in applied'
               PROVE  /\ cursor' # None
                      /\ cursor'.gen >= g
                      /\ cursor'.gen = g => cursor'.seq >= n
    BY DEF Behind
  <2>1. cursor' # None /\ cursor'.gen = f.gen /\ cursor'.seq = f.seq
    BY <1>1, <1>2, CursorsAreSome
  <2>2. g <= f.gen
    BY <1>1, <1>5 DEF NoneOlder, Gens
  <2>3. g = f.gen => n <= f.seq
    BY <1>1, <1>5, <1>6 DEF Seqs
  <2> QED
    BY <1>1, <2>1, <2>2, <2>3 DEF Gens, Seqs
<1>11. NoneOlder'
  BY <1>3, <1>4, <1>5 DEF NoneOlder
<1>12. WorkGated'
  <2> SUFFICES ASSUME NEW h \in EventsOf(work'), NEW n \in Seqs,
                      n >= h.seq, <<h.gen, n>> \in applied'
               PROVE  cursor'.gen = h.gen
    BY DEF WorkGated, Overtaken
  <2>1. h \in FramesOf(work') /\ h.gen \in Gens /\ f.gen <= h.gen
    BY <1>3 DEF EventsOf
  <2>2. h.gen <= f.gen
    BY <1>1, <1>5, <2>1 DEF NoneOlder, Gens
  <2> QED
    BY <1>1, <1>2, <2>1, <2>2 DEF Gens
<1>13. ChanFresh' /\ DialFresh'
  <2>1. GapAhead' = GapAhead
    BY DEF GapAhead
  <2>2. ASSUME GapAhead, NEW h \in EventsOf(chan) PROVE ~Overtaken(h)'
    <3> SUFFICES ASSUME NEW n \in Seqs, n >= h.seq, <<h.gen, n>> \in applied'
                 PROVE  FALSE
      BY DEF Overtaken
    <3>1. h.gen \in Gens /\ h.seq \in Nat
      BY WaitingKnown DEF EventsOf, Seqs
    <3>2. <<h.gen, n>> \notin applied
      BY <2>2 DEF ChanFresh, Overtaken
    <3>3. h.gen = f.gen /\ n = f.seq
      BY <1>5, <3>1, <3>2
    <3>4. f.seq < h.seq
      BY <1>1, <2>2, <3>3 DEF ChanFresh
    <3> QED
      BY <1>1, <3>1, <3>3, <3>4 DEF Seqs
  <2> QED
    BY <1>1, <1>2, <1>3, <1>4, <2>1, <2>2 DEF ChanFresh, DialFresh
<1>14. Greeted'
  <2>1. cursor'.gen = f.gen /\ hello # None /\ f.gen <= hello
    BY <1>1, <1>2 DEF Greeted
  <2> QED
    BY <1>3, <1>4, <2>1 DEF Greeted
<1>15. Snapshots'
  <2>1. \A h \in SnapshotsOf(work') \cup SnapshotsOf(chan) :
          h.gen = f.gen => f.seq <= h.seq
    BY <1>1, <1>3 DEF Snapshots
  <2>2. ASSUME NEW h \in SnapshotsOf(work') \cup SnapshotsOf(chan), NEW n \in Seqs,
               <<h.gen, n>> \in applied'
        PROVE  n <= h.seq
    <3>1. CASE <<h.gen, n>> \in applied
      BY <1>3, <2>2, <3>1 DEF Snapshots
    <3>2. CASE <<h.gen, n>> \notin applied
      <4>1. <<h.gen, n>> = <<f.gen, f.seq>>
        BY <1>2, <2>2, <3>2
      <4>2. h.gen = f.gen /\ n = f.seq
        BY <4>1
      <4> QED
        BY <2>1, <2>2, <4>2
    <3> QED
      BY <3>1, <3>2
  <2> QED
    BY <1>3, <1>4, <2>2, FramesOfEmpty, <1>1, <1>2 DEF Snapshots
<1> QED
  BY <1>7, <1>8, <1>9, <1>10, <1>11, <1>12, <1>13, <1>14, <1>15

\* A snapshot is applied: only the cursor moves.
LEMMA ShownOnce ==
  ASSUME TypeOK, OnceInv, work # <<>>, NEW f, f = Head(work), ApplySnapshot(f),
         UNCHANGED <<gen, last, link, since, chan, hello>>
  PROVE  OnceInv'
<1> USE DEF OnceInv
<1>1. /\ f.gen \in Gens /\ f.seq \in Seqs
      /\ f \in FramesOf(work) /\ f \in SnapshotsOf(work)
  BY DrainFrames DEF ApplySnapshot
<1>2. /\ work' = Tail(work) /\ cursor' = Noted(f.gen, f.seq) /\ Released' = Released
      /\ UNCHANGED <<gapBuf, applied, twice>>
  BY DEF ApplySnapshot, Released
<1>3. /\ FramesOf(work') \subseteq FramesOf(work)
      /\ EventsOf(work') \subseteq EventsOf(work)
      /\ SnapshotsOf(work') \subseteq SnapshotsOf(work)
      /\ \A h \in FramesOf(work') : h.kind # "gap" /\ f.gen <= h.gen /\ h.gen \in Gens
      /\ Sorted(work') /\ Crested(work')
  BY <1>2, DrainFrames
<1>4. /\ cursor' # None /\ cursor'.gen = f.gen
      /\ cursor'.seq \in Nat /\ cursor'.seq >= f.seq
  <2>1. CASE cursor # None /\ cursor.gen = f.gen /\ f.seq <= cursor.seq
    BY <1>1, <1>2, <2>1 DEF Noted, TypeOK, Cursors, Seqs
  <2>2. CASE ~(cursor # None /\ cursor.gen = f.gen /\ f.seq <= cursor.seq)
    BY <1>1, <1>2, <2>2, CursorsAreSome DEF Noted, Seqs
  <2> QED
    BY <2>1, <2>2
<1>5. Known'
  BY <1>1, <1>2, <1>3, <1>4 DEF Known
<1>6. Ordered' /\ GapAlone' /\ NoneOlder' /\ HeldFresh' /\ DispatchedOnce'
  BY <1>2, <1>3 DEF Ordered, GapAlone, NoneOlder, HeldFresh, DispatchedOnce, Overtaken
<1>7. Behind'
  <2> SUFFICES ASSUME NEW g \in Gens, NEW n \in Seqs, <<g, n>> \in applied
               PROVE  cursor'.gen >= g /\ (cursor'.gen = g => cursor'.seq >= n)
    BY <1>2, <1>4 DEF Behind
  <2>1. g <= f.gen
    BY <1>1 DEF NoneOlder
  <2>2. f.gen = g => n <= f.seq
    BY <1>1 DEF Snapshots
  <2> QED
    BY <1>1, <1>4, <2>1, <2>2 DEF Gens, Seqs
<1>8. WorkGated'
  <2> SUFFICES ASSUME NEW h \in EventsOf(work'), NEW n \in Seqs, <<h.gen, n>> \in applied
               PROVE  cursor'.gen = h.gen
    BY <1>2 DEF WorkGated, Overtaken
  <2>1. h.gen \in Gens /\ f.gen <= h.gen
    BY <1>3 DEF EventsOf
  <2>2. h.gen <= f.gen
    BY <1>1, <2>1 DEF NoneOlder
  <2> QED
    BY <1>1, <1>4, <2>1, <2>2 DEF Gens
<1>9. ChanFresh' /\ DialFresh'
  BY <1>2, <1>3 DEF ChanFresh, DialFresh, GapAhead, Overtaken
<1>10. Greeted'
  BY <1>1, <1>2, <1>3, <1>4 DEF Greeted
<1>11. Snapshots'
  BY <1>2, <1>3 DEF Snapshots
<1> QED
  BY <1>5, <1>6, <1>7, <1>8, <1>9, <1>10, <1>11

\* A recovery ends, or is skipped: what was held is queued, and the cursor may
\* move on to the generation of the last hello.
LEMMA ReleasedOnce ==
  ASSUME TypeOK, TypeOK', OnceInv, EventsOf(work) = {},
         (gapBuf' = None /\ work' = Released) \/ UNCHANGED <<gapBuf, work>>,
         cursor' = cursor \/ (hello # None /\ \E n \in Seqs : cursor' = Noted(hello, n)),
         UNCHANGED <<gen, last, link, since, chan, hello, applied, twice>>
  PROVE  OnceInv'
<1> USE DEF OnceInv
<1>1. \/ /\ gapBuf' = None /\ work' = Released
         /\ Released' = <<>>
      \/ /\ UNCHANGED <<gapBuf, work>>
         /\ Released' = Released
  BY DEF Released
<1>2. /\ FramesOf(work') \cup FramesOf(Released') \subseteq FramesOf(work) \cup FramesOf(Released)
      /\ FramesOf(Released') \subseteq FramesOf(Released)
      /\ Sorted(work') /\ Sorted(Released') /\ Crested(work') /\ Crested(Released')
  BY <1>1, FramesOfEmpty DEF Ordered, Snapshots
<1>3. /\ EventsOf(work') \cup EventsOf(Released') \subseteq EventsOf(Released)
      /\ EventsOf(Released') \subseteq EventsOf(Released)
      /\ SnapshotsOf(work') \cup SnapshotsOf(Released')
           \subseteq SnapshotsOf(work) \cup SnapshotsOf(Released)
  BY <1>2 DEF EventsOf, SnapshotsOf
<1>4. gapBuf' # None => gapBuf # None /\ EventsOf(work') = {}
  BY <1>1
<1>5. \/ cursor' = cursor
      \/ /\ hello \in Gens /\ cursor' # None /\ cursor'.gen = hello
         /\ cursor'.seq \in Nat
         /\ cursor # None /\ cursor.gen = hello => cursor'.seq >= cursor.seq
  <2>1. CASE cursor' = cursor
    BY <2>1
  <2>2. CASE cursor' # cursor
    <3>1. PICK n \in Seqs : hello # None /\ cursor' = Noted(hello, n)
      BY <2>2
    <3>2. hello \in Gens /\ cursor \in Cursors
      BY <3>1 DEF TypeOK
    <3>3. cursor' = [gen |-> hello, seq |-> n]
      BY <2>2, <3>1 DEF Noted
    <3>4. cursor' # None /\ cursor'.gen = hello /\ cursor'.seq = n /\ n \in Nat
      BY <3>2, <3>3, CursorsAreSome DEF Seqs
    <3>5. cursor # None /\ cursor.gen = hello => n >= cursor.seq
      BY <3>1, <3>2, <3>4, NotedForward DEF TypeOK
    <3> QED
      BY <3>2, <3>4, <3>5
  <2> QED
    BY <2>1, <2>2
<1>6. Known'
  BY <1>2, <1>3, <1>5 DEF Known
<1>7. Ordered' /\ HeldFresh' /\ DispatchedOnce'
  BY <1>2, <1>3, <1>4 DEF Ordered, HeldFresh, DispatchedOnce, Overtaken
<1>8. GapAlone'
  BY <1>1, FramesOfEmpty DEF GapAlone
<1>9. Behind'
  <2> SUFFICES ASSUME NEW g \in Gens, NEW n \in Seqs, <<g, n>> \in applied
               PROVE  /\ cursor' # None
                      /\ cursor'.gen >= g
                      /\ cursor'.gen = g => cursor'.seq >= n
    BY DEF Behind
  <2>1. cursor # None /\ cursor.gen >= g /\ (cursor.gen = g => cursor.seq >= n)
    BY DEF Behind
  <2>2. CASE cursor' = cursor
    BY <2>1, <2>2
  <2>3. CASE cursor' # cursor
    <3>1. cursor.gen <= hello
      BY <2>1 DEF Greeted
    <3>2. cursor \in [gen : Gens, seq : Seqs]
      BY <2>1 DEF TypeOK, Cursors
    <3>3. cursor.gen \in Nat /\ cursor.seq \in Nat
      BY <3>2 DEF Gens, Seqs
    <3>4. /\ hello \in Nat /\ cursor' # None /\ cursor'.gen = hello
          /\ cursor'.seq \in Nat
          /\ cursor.gen = hello => cursor'.seq >= cursor.seq
      BY <1>5, <2>1, <2>3 DEF Gens
    <3> QED
      BY <2>1, <3>1, <3>3, <3>4 DEF Gens, Seqs
  <2> QED
    BY <2>2, <2>3
<1>10. NoneOlder'
  BY <1>2 DEF NoneOlder
<1>11. WorkGated'
  BY <1>3 DEF WorkGated, HeldFresh, Overtaken
<1>12. ChanFresh' /\ DialFresh'
  BY <1>3, <1>4 DEF ChanFresh, DialFresh, GapAhead, Overtaken
<1>13. Greeted'
  BY <1>2, <1>5 DEF Greeted, Gens
<1>14. Snapshots'
  BY <1>2, <1>3 DEF Snapshots
<1> QED
  BY <1>6, <1>7, <1>8, <1>9, <1>10, <1>11, <1>12, <1>13, <1>14

LEMMA DrainOnce == ASSUME TypeOK, TypeOK', OnceInv, Drain PROVE OnceInv'
<1> DEFINE f == Head(work)
<1>1. /\ work # <<>>
      /\ UNCHANGED <<gen, last, link, since, chan, hello>>
      /\ ApplyEvent(f) \/ ApplySnapshot(f) \/ StartRecovery(f) \/ SkipRecovery(f)
  BY DEF Drain, Drained, serverVars, linkVars
<1>2. CASE ApplyEvent(f)
  <2>1. CASE Gate(f.gen, f.seq)
    BY <1>1, <1>2, <2>1, PassedOnce
  <2>2. CASE ~Gate(f.gen, f.seq)
    <3>1. work' = Tail(work) /\ UNCHANGED <<cursor, gapBuf, applied, twice>>
      BY <1>2, <2>2 DEF ApplyEvent
    <3> QED
      BY <1>1, <3>1, DroppedOnce
  <2> QED
    BY <2>1, <2>2
<1>3. CASE ApplySnapshot(f)
  BY <1>1, <1>3, ShownOnce
<1>4. CASE StartRecovery(f)
  <2>1. work' = Tail(work) /\ UNCHANGED <<cursor, gapBuf, applied, twice>>
    BY <1>4 DEF StartRecovery
  <2> QED
    BY <1>1, <2>1, DroppedOnce
<1>5. CASE SkipRecovery(f)
  <2>1. f.kind = "gap" /\ Tail(work) = <<>>
    BY <1>1, <1>5, DrainFrames DEF SkipRecovery
  <2>2. /\ work' = <<>> \o Released
        /\ gapBuf' = None /\ UNCHANGED <<cursor, applied, twice>>
    BY <1>5, <2>1 DEF SkipRecovery
  <2>3. work' = Released
    BY <2>2, ReleasedType, ConcatEmptySeq
  <2>4. EventsOf(work) = {}
    BY <1>1, <2>1, FramesOfAlone DEF TypeOK
  <2> QED
    BY <1>1, <2>2, <2>3, <2>4, ReleasedOnce
<1> QED
  BY <1>1, <1>2, <1>3, <1>4, <1>5

LEMMA LoadOnce ==
  ASSUME TypeOK, TypeOK', OnceInv, NEW i \in Loads, CommitLoad(i) \/ FailLoad(i)
  PROVE  OnceInv'
<1>1. work = <<>> /\ FramesOf(work) = {} /\ EventsOf(work) = {}
  BY FramesOfEmpty DEF CommitLoad, FailLoad, Drained
<1>2. /\ (gapBuf' = None /\ work' = Released) \/ UNCHANGED <<gapBuf, work>>
      /\ UNCHANGED <<gen, last, link, since, chan, hello, applied, twice>>
  BY DEF CommitLoad, FailLoad, Finish, serverVars, linkVars, historyVars
<1>3. cursor' = cursor \/ (hello # None /\ \E n \in Seqs : cursor' = Noted(hello, n))
  <2>1. CASE CommitLoad(i)
    <3>1. loads[i].wal \in [Gens -> 0..MaxSeq]
      BY <2>1, ReadLog DEF CommitLoad
    <3>2. hello # None /\ loads[i].wal[hello] > 0 => loads[i].wal[hello] \in Seqs
      BY <3>1, LastIsSeq DEF TypeOK
    <3> QED
      BY <2>1, <3>2 DEF CommitLoad, ReplayCursor
  <2>2. CASE FailLoad(i)
    BY <2>2 DEF FailLoad
  <2> QED
    BY <2>1, <2>2
<1> QED
  BY <1>1, <1>2, <1>3, ReleasedOnce

LEMMA InitOnce == Init => OnceInv
<1> SUFFICES ASSUME Init PROVE OnceInv
  OBVIOUS
<1>1. /\ chan = <<>> /\ work = <<>> /\ Released = <<>> /\ applied = {} /\ twice = {}
      /\ hello = None /\ cursor = None /\ gapBuf = None /\ link = "down"
  BY DEF Init, Released
<1>2. /\ FramesOf(work) = {} /\ FramesOf(Released) = {} /\ FramesOf(chan) = {}
      /\ EventsOf(work) = {} /\ EventsOf(Released) = {} /\ EventsOf(chan) = {}
      /\ SnapshotsOf(work) = {} /\ SnapshotsOf(Released) = {} /\ SnapshotsOf(chan) = {}
  BY <1>1, FramesOfEmpty DEF SnapshotsOf
<1>3. Ordered /\ Snapshots
  BY <1>1, <1>2, FramesOfEmpty DEF Ordered, Snapshots
<1> QED
  BY <1>1, <1>2, <1>3 DEF OnceInv, Known, GapAlone, Behind, NoneOlder, HeldFresh,
     WorkGated, ChanFresh, DialFresh, Greeted, DispatchedOnce, GapAhead

LEMMA NextOnce == TypeOK /\ OnceInv /\ [Next]_vars => OnceInv'
<1> SUFFICES ASSUME TypeOK, OnceInv, [Next]_vars PROVE OnceInv'
  OBVIOUS
<1>1. TypeOK'
  BY NextType
<1>2. CASE UNCHANGED vars
  BY <1>2, OnceUntouched DEF vars
<1>3. CASE \E i \in Loads : ReadWal(i)
  BY <1>3, OnceUntouched DEF ReadWal, serverVars, linkVars, historyVars
<1>4. CASE OpenTab
  BY <1>4, OnceUntouched DEF OpenTab, serverVars, linkVars, historyVars
<1>5. CASE \E i \in Loads : CommitLoad(i) \/ FailLoad(i)
  BY <1>1, <1>5, LoadOnce
<1> QED
  BY <1>1, <1>2, <1>3, <1>4, <1>5, EmitOnce, CutOnce, AcceptOnce, DialOnce, ReceiveOnce,
     DrainOnce DEF Next

\* gateSessionEvent lets every event through at most once, for any number of
\* restarts, reconnections, overlapping recoveries and held frames.
THEOREM EventsOnce == Spec => []DispatchedOnce
<1>1. Spec => []OnceInv
  <2>1. Init => OnceInv
    BY InitOnce
  <2>2. TypeOK /\ TypeOK' /\ OnceInv /\ [Next]_vars => OnceInv'
    BY NextOnce
  <2> QED
    BY <2>1, <2>2, TypeCorrect, PTL DEF Spec
<1>2. OnceInv => DispatchedOnce
  BY DEF OnceInv
<1> QED
  BY <1>1, <1>2, PTL

-------------------------------------------------------------------------------
\* Nothing is missed.  An event that was not shown yet is on its way: a frame that
\* waits brings it, or a read of the log by a recovery in flight.  Frames wait in
\* the order work, gap buffer, channel, and whatever the cursor passes when one of them
\* is applied has been shown by then or is brought before it.

Emitted == Gens \X Seqs
Logged == {e \in Emitted : e[2] <= last[e[1]]}

\* A resume-gap brings the whole log: handleResumeGap reads it.
Brings(f, e, log) ==
  \/ f.kind = "event" /\ e[1] = f.gen /\ e[2] = f.seq
  \/ f.kind = "snapshot" /\ e[1] = f.gen /\ f.from <= e[2] /\ e[2] <= f.seq
  \/ f.kind = "gap" /\ e \in log

\* What lies before a frame in its generation.
Passes(f, e) == /\ e[1] = f.gen
                /\ \/ f.kind = "event" /\ e[2] < f.seq
                   \/ f.kind = "snapshot" /\ e[2] < f.from

Of(f, log) == {e \in Emitted : Brings(f, e, log)}
Brought(s, log) == {e \in Emitted : \E i \in 1..Len(s) : Brings(s[i], e, log)}

Led(s, have, log) == \A i \in 1..Len(s), e \in Emitted :
  Passes(s[i], e) => e \in have \/ \E j \in 1..(i - 1) : Brings(s[j], e, log)

\* Shown, or sure to be shown by a recovery in flight.
Recovering(e) == \E i \in GapLoads : \/ loads[i] = Fetching
                                     \/ loads[i].stage = "read" /\ e[2] <= loads[i].wal[e[1]]
Had == applied \cup replayed \cup {e \in Logged : Recovering(e)}

UpTo(c) == {e \in Emitted : c # None /\ e[1] = c.gen /\ e[2] <= c.seq}

Waiting == Brought(work, Logged) \cup Brought(Released, Logged)

\* The cursor, and the one the socket was dialed with, pass nothing that is not had.
CursorBacked == /\ UpTo(cursor) \subseteq Had
                /\ link # "down" => UpTo(since) \subseteq Had

Chained == /\ Led(work, Had, Logged)
           /\ Led(Released, Had \cup Brought(work, Logged), Logged)
           /\ Led(chan, Had \cup Waiting, Logged)

\* What waits was logged; an open socket owes nothing it does not carry.
Carried == /\ Waiting \cup Brought(chan, Logged) \subseteq Logged
           /\ link = "up" =>
                {e \in Logged : e[1] = gen} \subseteq Had \cup Waiting \cup Brought(chan, Logged)
           /\ link # "up" => chan = <<>>

OnItsWay == CursorBacked /\ Chained /\ Carried
MissInv == lost \/ OnItsWay

\* More shown and a longer log only help.
LEMMA LedMore ==
  ASSUME NEW s, NEW A, NEW B, A \subseteq B, NEW log, NEW more, log \subseteq more
  PROVE  /\ Led(s, A, log) => Led(s, B, more)
         /\ Brought(s, log) \subseteq Brought(s, more)
         /\ Brought(s, more) \subseteq Brought(s, log) \cup more
<1>1. \A f, e : Brings(f, e, log) => Brings(f, e, more)
  BY DEF Brings
<1>2. \A f, e : Brings(f, e, more) => Brings(f, e, log) \/ e \in more
  BY DEF Brings
<1>3. Led(s, A, log) => Led(s, B, more)
  BY <1>1 DEF Led
<1> QED
  BY <1>1, <1>2, <1>3 DEF Brought

LEMMA LedNone == \A A, log : Led(<<>>, A, log) /\ Brought(<<>>, log) = {}
<1>1. Len(<<>>) = 0
  OBVIOUS
<1> QED
  BY <1>1 DEF Led, Brought

LEMMA LedOne ==
  ASSUME NEW f, NEW A, NEW log, \A e \in Emitted : Passes(f, e) => e \in A
  PROVE  Led(<<f>>, A, log) /\ Brought(<<f>>, log) = Of(f, log)
BY DEF Led, Brought, Of

LEMMA LedAppend ==
  ASSUME NEW s \in Seq(Frames), NEW f \in Frames, NEW A, NEW log
  PROVE  /\ Brought(Append(s, f), log) = Brought(s, log) \cup Of(f, log)
         /\ Led(s, A, log) /\ (\A e \in Emitted : Passes(f, e) => e \in A \cup Brought(s, log))
              => Led(Append(s, f), A, log)
<1> DEFINE t == Append(s, f)
<1>1. /\ Len(s) \in Nat /\ Len(t) = Len(s) + 1
      /\ \A i \in 1..Len(s) : t[i] = s[i]
      /\ t[Len(s) + 1] = f
  BY AppendProperties, LenProperties
<1> HIDE DEF t
<1>2. Brought(t, log) = Brought(s, log) \cup Of(f, log)
  BY <1>1 DEF Brought, Of
<1>3. ASSUME Led(s, A, log), \A e \in Emitted : Passes(f, e) => e \in A \cup Brought(s, log)
      PROVE  Led(t, A, log)
  <2> SUFFICES ASSUME NEW i \in 1..Len(t), NEW e \in Emitted, Passes(t[i], e), e \notin A
               PROVE  \E j \in 1..(i - 1) : Brings(t[j], e, log)
    BY DEF Led
  <2>1. CASE i \in 1..Len(s)
    <3>1. PICK j \in 1..(i - 1) : Brings(s[j], e, log)
      BY <1>1, <1>3, <2>1 DEF Led
    <3> QED
      BY <1>1, <2>1, <3>1
  <2>2. CASE i = Len(s) + 1
    <3>1. PICK j \in 1..Len(s) : Brings(s[j], e, log)
      BY <1>1, <1>3, <2>2 DEF Brought
    <3> QED
      BY <1>1, <2>2, <3>1
  <2> QED
    BY <1>1, <2>1, <2>2
<1> QED
  BY <1>2, <1>3 DEF t

LEMMA LedTail ==
  ASSUME NEW s \in Seq(Frames), s # <<>>, NEW A, NEW log
  PROVE  /\ Brought(s, log) = Of(Head(s), log) \cup Brought(Tail(s), log)
         /\ Led(s, A, log) => /\ \A e \in Emitted : Passes(Head(s), e) => e \in A
                              /\ Led(Tail(s), A \cup Of(Head(s), log), log)
<1> DEFINE t == Tail(s)
           h == Head(s)
<1>1. /\ Len(s) \in Nat /\ Len(s) >= 1 /\ Len(t) = Len(s) - 1 /\ h = s[1]
      /\ \A i \in 1..Len(t) : t[i] = s[i + 1]
  BY HeadTailProperties, LenProperties, EmptySeq
<1> HIDE DEF t, h
<1>2. Brought(s, log) = Of(h, log) \cup Brought(t, log)
  <2>1. ASSUME NEW e \in Brought(s, log) PROVE e \in Of(h, log) \cup Brought(t, log)
    <3>1. PICK i \in 1..Len(s) : Brings(s[i], e, log)
      BY <2>1 DEF Brought
    <3>2. CASE i = 1
      BY <1>1, <2>1, <3>1, <3>2 DEF Of, Brought
    <3>3. CASE i # 1
      <4>1. i - 1 \in 1..Len(t) /\ t[i - 1] = s[i]
        BY <1>1, <3>3
      <4> QED
        BY <2>1, <3>1, <4>1 DEF Brought
    <3> QED
      BY <3>2, <3>3
  <2>2. Of(h, log) \cup Brought(t, log) \subseteq Brought(s, log)
    <3>1. \A i \in 1..Len(t) : i + 1 \in 1..Len(s)
      BY <1>1
    <3>2. 1 \in 1..Len(s)
      BY <1>1
    <3> QED
      BY <1>1, <3>1, <3>2 DEF Brought, Of
  <2> QED
    BY <2>1, <2>2
<1>3. ASSUME Led(s, A, log)
      PROVE  /\ \A e \in Emitted : Passes(h, e) => e \in A
             /\ Led(t, A \cup Of(h, log), log)
  <2>1. \A e \in Emitted : Passes(h, e) => e \in A
    <3>1. 1 \in 1..Len(s) /\ 1..(1 - 1) = {}
      BY <1>1
    <3> QED
      BY <1>1, <1>3, <3>1 DEF Led
  <2>2. ASSUME NEW i \in 1..Len(t), NEW e \in Emitted, Passes(t[i], e), e \notin A \cup Of(h, log)
        PROVE  \E j \in 1..(i - 1) : Brings(t[j], e, log)
    <3>1. i + 1 \in 1..Len(s) /\ Passes(s[i + 1], e)
      BY <1>1, <2>2
    <3>2. PICK j \in 1..((i + 1) - 1) : Brings(s[j], e, log)
      BY <1>3, <2>2, <3>1 DEF Led
    <3>3. j # 1
      BY <1>1, <2>2, <3>2 DEF Of
    <3>4. j - 1 \in 1..(i - 1) /\ t[j - 1] = s[j]
      BY <1>1, <3>1, <3>2, <3>3
    <3> QED
      BY <3>2, <3>4
  <2> QED
    BY <2>1, <2>2 DEF Led
<1> QED
  BY <1>2, <1>3 DEF t, h

LEMMA LedConcat ==
  ASSUME NEW s \in Seq(Frames), NEW t \in Seq(Frames), NEW A, NEW log
  PROVE  /\ Brought(s \o t, log) = Brought(s, log) \cup Brought(t, log)
         /\ Led(s, A, log) /\ Led(t, A \cup Brought(s, log), log) => Led(s \o t, A, log)
<1> DEFINE u == s \o t
           m == Len(s)
           k == Len(t)
<1>1. /\ m \in Nat /\ k \in Nat /\ Len(u) = m + k
      /\ \A i \in 1..(m + k) : u[i] = IF i <= m THEN s[i] ELSE t[i - m]
  BY ConcatProperties, LenProperties
<1> HIDE DEF u
<1>2. /\ \A i \in 1..m : i \in 1..Len(u) /\ u[i] = s[i]
      /\ \A i \in 1..k : m + i \in 1..Len(u) /\ u[m + i] = t[i]
  BY <1>1
<1>3. \A i \in 1..Len(u) : \/ (i \in 1..m /\ u[i] = s[i])
                            \/ (i - m \in 1..k /\ u[i] = t[i - m])
  BY <1>1
<1>4. Brought(u, log) \subseteq Brought(s, log) \cup Brought(t, log)
  BY <1>3 DEF Brought
<1>5. Brought(s, log) \cup Brought(t, log) \subseteq Brought(u, log)
  BY <1>2 DEF Brought
<1>6. ASSUME Led(s, A, log), Led(t, A \cup Brought(s, log), log) PROVE Led(u, A, log)
  <2> SUFFICES ASSUME NEW i \in 1..Len(u), NEW e \in Emitted, Passes(u[i], e), e \notin A
               PROVE  \E j \in 1..(i - 1) : Brings(u[j], e, log)
    BY DEF Led
  <2>1. CASE i \in 1..m /\ u[i] = s[i]
    <3>1. PICK j \in 1..(i - 1) : Brings(s[j], e, log)
      BY <1>6, <2>1 DEF Led
    <3>2. u[j] = s[j]
      BY <1>1, <1>2, <2>1, <3>1
    <3> QED
      BY <3>1, <3>2
  <2>2. CASE i - m \in 1..k /\ u[i] = t[i - m]
    <3>1. CASE e \in Brought(s, log)
      <4>1. PICK j \in 1..m : Brings(s[j], e, log)
        BY <3>1 DEF Brought
      <4> QED
        BY <1>1, <1>2, <2>2, <4>1
    <3>2. CASE e \notin Brought(s, log)
      <4>1. PICK j \in 1..((i - m) - 1) : Brings(t[j], e, log)
        BY <1>6, <2>2, <3>2 DEF Led
      <4>2. m + j \in 1..(i - 1) /\ u[m + j] = t[j]
        BY <1>1, <1>2, <2>2, <4>1
      <4> QED
        BY <4>1, <4>2
    <3> QED
      BY <3>1, <3>2
  <2> QED
    BY <1>3, <2>1, <2>2
<1> QED
  BY <1>4, <1>5, <1>6 DEF u

LEMMA ChannelsTyped ==
  ASSUME TypeOK
  PROVE  /\ work \in Seq(Frames) /\ Released \in Seq(Frames) /\ chan \in Seq(Frames)
         /\ last \in [Gens -> 0..MaxSeq] /\ gen \in Gens
         /\ Logged \subseteq Emitted
BY ReleasedType DEF TypeOK, Logged

\* A recovery that was asked for has the whole log; one that was read has what it read.
LEMMA StagesTold ==
  ASSUME TypeOK, NEW i \in Loads
  PROVE  /\ loads[i] = Idle => loads[i] # Fetching /\ loads[i].stage # "read"
         /\ loads[i].stage = "read" => loads[i] # Fetching /\ loads[i] # Idle
BY DEF TypeOK, LoadStates, Idle, Fetching, Read

LEMMA EventBrings ==
  ASSUME NEW f, f.kind = "event", NEW e, NEW log
  PROVE  Brings(f, e, log) <=> e[1] = f.gen /\ e[2] = f.seq
<1>1. f.kind # "snapshot" /\ f.kind # "gap"
  OBVIOUS
<1> QED
  BY <1>1, Zenon DEF Brings

\* A step that adds to the log or to what is shown, and moves no frame that waits.
LEMMA WayGrows ==
  ASSUME OnItsWay, Had \subseteq Had', Logged \subseteq Logged', UNCHANGED <<work, gapBuf>>
  PROVE  /\ Led(work, Had, Logged)' /\ Led(Released, Had \cup Brought(work, Logged), Logged)'
         /\ Waiting \subseteq Waiting' /\ Waiting' \subseteq Logged'
         /\ \A s : Led(s, Had \cup Waiting, Logged) => Led(s, Had' \cup Waiting', Logged')
<1>1. Released' = Released
  BY DEF Released
<1>2. Brought(work, Logged) \subseteq Brought(work, Logged)'
  BY LedMore
<1>3. Waiting \subseteq Waiting'
  <2>1. \A s : Brought(s, Logged) \subseteq Brought(s, Logged')
    BY LedMore
  <2> QED
    BY <1>1, <2>1 DEF Waiting
<1>4. Waiting' \subseteq Logged'
  <2>1. Brought(work, Logged) \subseteq Logged /\ Brought(Released, Logged) \subseteq Logged
    BY DEF OnItsWay, Carried, Waiting
  <2>2. \A s : Brought(s, Logged) \subseteq Logged => Brought(s, Logged') \subseteq Logged'
    BY LedMore
  <2> QED
    BY <1>1, <2>1, <2>2 DEF Waiting
<1>5. Led(work, Had, Logged)'
  BY LedMore DEF OnItsWay, Chained
<1>6. Led(Released, Had \cup Brought(work, Logged), Logged)'
  BY <1>1, <1>2, LedMore DEF OnItsWay, Chained
<1>7. ASSUME NEW s, Led(s, Had \cup Waiting, Logged)
      PROVE  Led(s, Had' \cup Waiting', Logged')
  BY <1>3, <1>7, LedMore
<1> QED
  BY <1>3, <1>4, <1>5, <1>6, <1>7

LEMMA EmitWay == ASSUME TypeOK, TypeOK', OnItsWay, Emit PROVE OnItsWay'
<1> DEFINE new == Event(gen, last[gen] + 1)
<1>1. /\ last \in [Gens -> 0..MaxSeq] /\ gen \in Gens /\ last[gen] \in Nat /\ last[gen] + 1 \in Seqs
      /\ last' = [last EXCEPT ![gen] = @ + 1]
      /\ UNCHANGED <<gen, link, since, cursor, gapBuf, work, loads, applied, replayed>>
  BY DEF Emit, TypeOK, Seqs, pageVars, historyVars
<1>2. \A g \in Gens : last'[g] = IF g = gen THEN last[g] + 1 ELSE last[g]
  BY <1>1
<1>3. \A e \in Emitted : e[1] \in Gens /\ e[2] \in Seqs /\ e[2] \in Nat /\ last[e[1]] \in Nat
  BY <1>1 DEF Emitted, Seqs
<1>4. Logged \subseteq Logged'
  BY <1>2, <1>3 DEF Logged
<1>5. \A e \in Logged' : e \in Logged \/ (e[1] = gen /\ e[2] = last[gen] + 1)
  BY <1>1, <1>2, <1>3 DEF Logged
<1>6. Had \subseteq Had'
  BY <1>1, <1>4 DEF Had, Recovering
<1>7. CursorBacked'
  BY <1>1, <1>6 DEF OnItsWay, CursorBacked, UpTo
<1>8. /\ Led(work, Had, Logged)' /\ Led(Released, Had \cup Brought(work, Logged), Logged)'
      /\ Waiting \subseteq Waiting' /\ Waiting' \subseteq Logged'
      /\ Led(chan, Had' \cup Waiting', Logged')
  BY <1>1, <1>4, <1>6, WayGrows DEF OnItsWay, Chained
<1>9. /\ Brought(chan, Logged) \subseteq Brought(chan, Logged')
      /\ Brought(chan, Logged') \subseteq Logged'
  BY <1>4, LedMore DEF OnItsWay, Carried
<1>10. CASE link = "up"
  <2>1. chan' = Append(chan, new) /\ new \in Frames /\ chan \in Seq(Frames)
    BY <1>1, <1>10, FramesMade DEF Emit, TypeOK
  <2>2. new.kind = "event" /\ new.gen = gen /\ new.seq = last[gen] + 1
    BY DEF Event
  <2> HIDE DEF new
  <2>3. \A e \in Emitted : /\ \A log : Brings(new, e, log) <=> (e[1] = gen /\ e[2] = last[gen] + 1)
                           /\ Passes(new, e) <=> (e[1] = gen /\ e[2] < last[gen] + 1)
    <3> SUFFICES ASSUME NEW e \in Emitted, NEW log
                 PROVE  /\ Brings(new, e, log) <=> (e[1] = gen /\ e[2] = last[gen] + 1)
                        /\ Passes(new, e) <=> (e[1] = gen /\ e[2] < last[gen] + 1)
      OBVIOUS
    <3>1. Brings(new, e, log) <=> (e[1] = gen /\ e[2] = last[gen] + 1)
      BY <2>2, EventBrings
    <3>2. Passes(new, e) <=> (e[1] = gen /\ e[2] < last[gen] + 1)
      BY <2>2 DEF Passes
    <3> QED
      BY <3>1, <3>2
  <2>4. \A e \in Logged : e[1] = gen => e \in Had \cup Waiting \cup Brought(chan, Logged)
    BY <1>10 DEF OnItsWay, Carried
  <2>5. \A e \in Emitted : Passes(new, e) => e \in (Had' \cup Waiting') \cup Brought(chan, Logged')
    <3> SUFFICES ASSUME NEW e \in Emitted, Passes(new, e)
                 PROVE  e \in (Had' \cup Waiting') \cup Brought(chan, Logged')
      OBVIOUS
    <3>1. e \in Logged /\ e[1] = gen
      BY <1>1, <1>3, <2>3 DEF Logged
    <3> QED
      BY <1>6, <1>8, <1>9, <2>4, <3>1
  <2>6. /\ Brought(chan, Logged)' = Brought(chan, Logged') \cup Of(new, Logged')
        /\ Led(chan, Had \cup Waiting, Logged)'
    BY <1>8, <2>1, <2>5, LedAppend
  <2>7. Of(new, Logged') \subseteq Logged'
    BY <1>1, <1>2, <1>3, <2>3 DEF Logged, Of
  <2>8. ASSUME NEW e \in Logged', e[1] = gen
        PROVE  e \in Had' \cup Waiting' \cup Brought(chan, Logged)'
    <3>1. CASE e \in Logged
      BY <1>6, <1>8, <1>9, <2>4, <2>6, <2>8, <3>1
    <3>2. CASE e \notin Logged
      BY <1>5, <2>3, <2>6, <2>8, <3>2 DEF Logged, Of
    <3> QED
      BY <3>1, <3>2
  <2>9. Carried'
    BY <1>1, <1>8, <1>9, <1>10, <2>6, <2>7, <2>8 DEF Carried
  <2> QED
    BY <1>7, <1>8, <2>6, <2>9 DEF OnItsWay, Chained
<1>11. CASE link # "up"
  <2>1. chan' = chan /\ chan = <<>>
    BY <1>11 DEF Emit, OnItsWay, Carried
  <2>2. Carried'
    BY <1>1, <1>8, <1>9, <1>11, <2>1 DEF Carried
  <2> QED
    BY <1>7, <1>8, <2>1, <2>2 DEF OnItsWay, Chained
<1> QED
  BY <1>10, <1>11

\* A cut drops the channel: the next socket asks for what it carried.
LEMMA CutWay == ASSUME TypeOK, OnItsWay, Restart \/ Lose PROVE OnItsWay'
<1>1. /\ link' = "down" /\ chan' = <<>>
      /\ UNCHANGED <<last, since, cursor, gapBuf, work, loads, applied, replayed>>
  BY DEF Restart, Lose, serverVars, pageVars, historyVars
<1>2. Logged' = Logged /\ Had' = Had
  BY <1>1 DEF Logged, Had, Recovering
<1>3. /\ Led(work, Had, Logged)' /\ Led(Released, Had \cup Brought(work, Logged), Logged)'
      /\ Waiting' \subseteq Logged'
  BY <1>1, <1>2, WayGrows
<1>4. CursorBacked'
  BY <1>1, <1>2 DEF OnItsWay, CursorBacked, UpTo
<1>5. Led(chan, Had \cup Waiting, Logged)' /\ Brought(chan, Logged)' = {}
  BY <1>1, LedNone
<1>6. Carried'
  BY <1>1, <1>3, <1>5 DEF Carried
<1> QED
  BY <1>3, <1>4, <1>5, <1>6 DEF OnItsWay, Chained

LEMMA DialWay == ASSUME TypeOK, OnItsWay, Dial PROVE OnItsWay'
<1>1. /\ link' = "dialing" /\ since' = cursor /\ link = "down"
      /\ UNCHANGED <<last, chan, cursor, gapBuf, work, loads, applied, replayed>>
  BY DEF Dial, serverVars, pageVars, historyVars
<1>2. Logged' = Logged /\ Had' = Had
  BY <1>1 DEF Logged, Had, Recovering
<1>3. /\ Led(work, Had, Logged)' /\ Led(Released, Had \cup Brought(work, Logged), Logged)'
      /\ Waiting' \subseteq Logged'
  BY <1>1, <1>2, WayGrows
<1>4. CursorBacked'
  BY <1>1, <1>2 DEF OnItsWay, CursorBacked, UpTo
<1>5. chan' = <<>>
  BY <1>1 DEF OnItsWay, Carried
<1>6. Led(chan, Had \cup Waiting, Logged)' /\ Brought(chan, Logged)' = {}
  BY <1>5, LedNone
<1>7. Carried'
  BY <1>1, <1>3, <1>5, <1>6 DEF Carried
<1> QED
  BY <1>3, <1>4, <1>6, <1>7 DEF OnItsWay, Chained

\* The events of the generation that runs.
LEMMA OwnLog ==
  ASSUME TypeOK
  PROVE  /\ gen \in Gens /\ last[gen] \in Nat /\ last[gen] \in 0..MaxSeq
         /\ \A e \in Emitted : e[1] \in Gens /\ e[2] \in Seqs /\ e[2] \in Nat /\ e = <<e[1], e[2]>>
         /\ \A e \in Emitted : e[1] = gen => (e \in Logged <=> e[2] <= last[gen])
BY DEF TypeOK, Emitted, Logged, Seqs

LEMMA HelloBrings ==
  ASSUME NEW g, NEW log
  PROVE  /\ Of(Hello(g), log) = {} /\ Of(Gap(g), log) = log \cap Emitted
         /\ \A e : ~Passes(Hello(g), e) /\ ~Passes(Gap(g), e)
BY DEF Of, Brings, Passes, Hello, Gap

\* A snapshot brings what it shows, and passes what was logged before.
LEMMA RunningTurnLed ==
  ASSUME TypeOK, NEW turn \in RunningTurn, NEW log
  PROVE  /\ Led(turn, {e \in Logged : e[1] = gen}, log)
         /\ Brought(turn, log) \subseteq Logged
<1>1. CASE turn = <<>>
  BY <1>1, LedNone
<1>2. CASE turn # <<>>
  <2>1. PICK m \in 1..last[gen] : turn = <<Snapshot(gen, m, last[gen])>>
    BY <1>2 DEF RunningTurn
  <2> DEFINE f == Snapshot(gen, m, last[gen])
  <2>2. f.kind = "snapshot" /\ f.gen = gen /\ f.from = m /\ f.seq = last[gen]
    BY DEF Snapshot
  <2> HIDE DEF f
  <2>3. \A e \in Emitted : Passes(f, e) => e \in {x \in Logged : x[1] = gen}
    BY <2>2, OwnLog DEF Passes
  <2>4. Of(f, log) \subseteq Logged
    BY <2>2, OwnLog DEF Of, Brings
  <2> QED
    BY <2>1, <2>3, <2>4, LedOne DEF f
<1> QED
  BY <1>1, <1>2

\* The ring brings what lies after the cursor it was asked for with.
LEMMA RingReplayLed ==
  ASSUME TypeOK, since # None, since.gen = gen, NEW log
  PROVE  /\ Led(RingReplay, UpTo(since), log)
         /\ Brought(RingReplay, log) \subseteq Logged
         /\ \A e \in Logged : e[1] = gen => e \in UpTo(since) \cup Brought(RingReplay, log)
<1> DEFINE k == last[gen] - since.seq
           ring == [n \in 1..k |-> Event(gen, since.seq + n)]
<1>1. /\ since.seq \in Nat /\ last[gen] \in Nat /\ k \in Int
  BY DEF TypeOK, Cursors, Seqs
<1>2. RingReplay = ring
  BY DEF RingReplay
<1>3. CASE k \in Nat
  <2>1. Len(ring) = k
    <3>1. ring \in Seq(Frames)
      BY <1>2, RingReplayType
    <3>2. DOMAIN ring = 1..k /\ DOMAIN ring = 1..Len(ring) /\ Len(ring) \in Nat
      BY <3>1, LenProperties
    <3> HIDE DEF ring, k
    <3> QED
      BY <1>3, <3>2
  <2>2. \A n \in 1..k : /\ ring[n].kind = "event" /\ ring[n].gen = gen
                        /\ ring[n].seq = since.seq + n
    BY DEF Event
  <2> HIDE DEF ring
  <2>3. \A n \in 1..k, e \in Emitted :
          /\ Brings(ring[n], e, log) <=> e[1] = gen /\ e[2] = since.seq + n
          /\ Passes(ring[n], e) <=> e[1] = gen /\ e[2] < since.seq + n
    <3> SUFFICES ASSUME NEW n \in 1..k, NEW e \in Emitted
                 PROVE  /\ Brings(ring[n], e, log) <=> e[1] = gen /\ e[2] = since.seq + n
                        /\ Passes(ring[n], e) <=> e[1] = gen /\ e[2] < since.seq + n
      OBVIOUS
    <3>1. Brings(ring[n], e, log) <=> e[1] = gen /\ e[2] = since.seq + n
      BY <2>2, EventBrings
    <3>2. Passes(ring[n], e) <=> e[1] = gen /\ e[2] < since.seq + n
      BY <2>2 DEF Passes
    <3> QED
      BY <3>1, <3>2
  <2>4. Led(ring, UpTo(since), log)
    <3> SUFFICES ASSUME NEW n \in 1..k, NEW e \in Emitted, Passes(ring[n], e), e \notin UpTo(since)
                 PROVE  \E j \in 1..(n - 1) : Brings(ring[j], e, log)
      BY <2>1 DEF Led
    <3>1. e[1] = gen /\ e[2] < since.seq + n /\ e[2] \in Nat /\ ~(e[2] <= since.seq)
      BY <2>3, OwnLog DEF UpTo
    <3>2. e[2] - since.seq \in 1..(n - 1) /\ e[2] - since.seq \in 1..k
          /\ since.seq + (e[2] - since.seq) = e[2]
      BY <1>1, <3>1
    <3> QED
      BY <2>3, <3>1, <3>2
  <2>5. ASSUME NEW e \in Brought(ring, log) PROVE e \in Logged
    <3>1. PICK n \in 1..k : e \in Emitted /\ Brings(ring[n], e, log)
      BY <2>1, <2>5 DEF Brought
    <3>2. e[1] = gen /\ e[2] = since.seq + n
      BY <2>3, <3>1
    <3>3. e[2] <= last[gen]
      BY <1>1, <3>1, <3>2
    <3> QED
      BY <3>1, <3>2, <3>3, OwnLog
  <2>6. ASSUME NEW e \in Logged, e[1] = gen PROVE e \in UpTo(since) \cup Brought(ring, log)
    <3>1. e \in Emitted /\ e[2] \in Nat /\ e[2] <= last[gen]
      BY <2>6, OwnLog DEF Logged
    <3>2. CASE e[2] <= since.seq
      BY <2>6, <3>1, <3>2 DEF UpTo
    <3>3. CASE ~(e[2] <= since.seq)
      <4>1. e[2] - since.seq \in 1..k /\ since.seq + (e[2] - since.seq) = e[2]
        BY <1>1, <3>1, <3>3
      <4> QED
        BY <2>1, <2>3, <2>6, <3>1, <4>1 DEF Brought
    <3> QED
      BY <3>2, <3>3
  <2> QED
    BY <1>2, <2>4, <2>5, <2>6
<1>4. CASE k \notin Nat
  <2>1. 1..k = {} /\ last[gen] < since.seq
    BY <1>1, <1>4
  <2>2. RingReplay = <<>>
    BY <1>2, <2>1
  <2>3. \A e \in Logged : e[1] = gen => e \in UpTo(since)
    <3> SUFFICES ASSUME NEW e \in Logged, e[1] = gen PROVE e \in UpTo(since)
      OBVIOUS
    <3>1. e \in Emitted /\ e[2] \in Nat /\ e[2] <= last[gen]
      BY OwnLog DEF Logged
    <3> QED
      BY <1>1, <2>1, <3>1 DEF UpTo
  <2> QED
    BY <2>2, <2>3, LedNone
<1> QED
  BY <1>3, <1>4

\* A new socket carries what lies after the page's cursor, or a gap.
LEMMA AcceptLed ==
  ASSUME TypeOK, OnItsWay, Accept, ~lost', Had \subseteq Had'
  PROVE  /\ Led(chan', Had', Logged) /\ Brought(chan', Logged) \subseteq Logged
         /\ \A e \in Logged : e[1] = gen => e \in Had' \cup Brought(chan', Logged)
<1> DEFINE one == <<Hello(gen)>>
           two == <<Hello(gen), Gap(gen)>>
           own == {e \in Logged : e[1] = gen}
<1>1. one \in Seq(Frames) /\ two \in Seq(Frames)
  BY FramesMade DEF TypeOK
<1>2. \A A : Led(one, A, Logged)
  BY LedOne, HelloBrings
<1>3. Brought(one, Logged) = {}
  BY LedOne, HelloBrings
<1>4. /\ \A A : Led(two, A, Logged)
      /\ Brought(two, Logged) = Logged
  <2>1. two = Append(one, Gap(gen)) /\ Gap(gen) \in Frames
    BY FramesMade DEF TypeOK
  <2>2. Of(Gap(gen), Logged) = Logged
    BY HelloBrings DEF Logged
  <2> HIDE DEF one, two
  <2>3. Brought(two, Logged) = Brought(one, Logged) \cup Of(Gap(gen), Logged)
    BY <1>1, <2>1, LedAppend
  <2>4. \A A : Led(two, A, Logged)
    BY <1>1, <1>2, <2>1, LedAppend, HelloBrings
  <2> QED
    BY <1>3, <2>2, <2>3, <2>4
<1> HIDE DEF one, two
<1>5. CASE AcceptFresh
  <2>1. PICK turn \in RunningTurn : chan' = one \o turn
    BY <1>5 DEF AcceptFresh, one
  <2>2. own \subseteq Had'
    <3>1. ~joined /\ replayed' = replayed \cup {<<gen, n>> : n \in 1..last[gen]}
      BY <1>5 DEF AcceptFresh
    <3>2. \A e \in own : e[2] \in 1..last[gen] /\ e = <<gen, e[2]>>
      BY OwnLog DEF Logged, Seqs
    <3> QED
      BY <3>1, <3>2 DEF Had
  <2>3. turn \in Seq(Frames) /\ Led(turn, Had' \cup Brought(one, Logged), Logged)
        /\ Brought(turn, Logged) \subseteq Logged
    BY <2>2, RunningTurnType, RunningTurnLed, LedMore
  <2>4. PICK A : A = Had'
    OBVIOUS
  <2>5. Led(one \o turn, A, Logged) /\ Brought(one \o turn, Logged) = Brought(turn, Logged)
    <3>1. Led(one, A, Logged) /\ Led(turn, A \cup Brought(one, Logged), Logged)
      BY <1>2, <2>3, <2>4
    <3>2. /\ Led(one \o turn, A, Logged)
          /\ Brought(one \o turn, Logged) = Brought(one, Logged) \cup Brought(turn, Logged)
      BY <1>1, <2>3, <3>1, LedConcat
    <3> QED
      BY <1>3, <3>2
  <2>6. Led(chan', Had', Logged) /\ Brought(chan', Logged) = Brought(turn, Logged)
    BY <2>1, <2>4, <2>5
  <2> QED
    BY <2>2, <2>3, <2>6
<1>6. CASE AcceptResume
  <2>1. chan' = one \o RingReplay /\ since # None /\ since.gen = gen
    BY <1>6 DEF AcceptResume, one
  <2>2. UpTo(since) \subseteq Had'
    BY DEF OnItsWay, CursorBacked, Accept
  <2>3. RingReplay \in Seq(Frames) /\ Led(RingReplay, Had' \cup Brought(one, Logged), Logged)
    BY <2>1, <2>2, RingReplayType, RingReplayLed, LedMore
  <2>4. PICK A : A = Had'
    OBVIOUS
  <2>5. Led(one \o RingReplay, A, Logged)
        /\ Brought(one \o RingReplay, Logged) = Brought(RingReplay, Logged)
    <3>1. Led(one, A, Logged) /\ Led(RingReplay, A \cup Brought(one, Logged), Logged)
      BY <1>2, <2>3, <2>4
    <3>2. /\ Led(one \o RingReplay, A, Logged)
          /\ Brought(one \o RingReplay, Logged) = Brought(one, Logged) \cup Brought(RingReplay, Logged)
      BY <1>1, <2>3, <3>1, LedConcat
    <3> QED
      BY <1>3, <3>2
  <2>6. Led(chan', Had', Logged) /\ Brought(chan', Logged) = Brought(RingReplay, Logged)
    BY <2>1, <2>4, <2>5
  <2> QED
    BY <2>1, <2>2, <2>6, RingReplayLed
<1>7. CASE AcceptGap
  <2>1. PICK turn \in RunningTurn : chan' = two \o turn
    BY <1>7 DEF AcceptGap, two
  <2>2. turn \in Seq(Frames) /\ Led(turn, Had' \cup Brought(two, Logged), Logged)
        /\ Brought(turn, Logged) \subseteq Logged
    BY <1>4, RunningTurnType, RunningTurnLed, LedMore
  <2>3. PICK A : A = Had'
    OBVIOUS
  <2>4. Led(two \o turn, A, Logged)
        /\ Brought(two \o turn, Logged) = Logged \cup Brought(turn, Logged)
    <3>1. Led(two, A, Logged) /\ Led(turn, A \cup Brought(two, Logged), Logged)
      BY <1>4, <2>2, <2>3
    <3> QED
      BY <1>1, <1>4, <2>2, <3>1, LedConcat
  <2>5. Led(chan', Had', Logged)
        /\ Brought(chan', Logged) = Logged \cup Brought(turn, Logged)
    BY <2>1, <2>3, <2>4
  <2> QED
    BY <2>2, <2>5
<1> QED
  BY <1>5, <1>6, <1>7 DEF Accept

LEMMA AcceptWay == ASSUME TypeOK, OnItsWay, Accept, ~lost' PROVE OnItsWay'
<1>1. /\ link' = "up" /\ replayed \subseteq replayed' /\ link = "dialing"
      /\ UNCHANGED <<gen, last, since, cursor, gapBuf, work, loads, applied>>
  BY DEF Accept, AcceptFresh, AcceptResume, AcceptGap, serverVars, pageVars
<1>2. Logged' = Logged
  BY <1>1 DEF Logged
<1>3. Had \subseteq Had'
  BY <1>1, <1>2 DEF Had, Recovering
<1>4. /\ Led(work, Had, Logged)' /\ Led(Released, Had \cup Brought(work, Logged), Logged)'
      /\ Waiting' \subseteq Logged'
  BY <1>1, <1>2, <1>3, WayGrows
<1>5. CursorBacked'
  BY <1>1, <1>3 DEF OnItsWay, CursorBacked, UpTo
<1>6. /\ Led(chan', Had', Logged) /\ Brought(chan', Logged) \subseteq Logged
      /\ \A e \in Logged : e[1] = gen => e \in Had' \cup Brought(chan', Logged)
  BY <1>3, AcceptLed
<1>7. Led(chan, Had \cup Waiting, Logged)'
  BY <1>2, <1>6, LedMore
<1>8. Carried'
  BY <1>1, <1>2, <1>4, <1>6 DEF Carried
<1> QED
  BY <1>4, <1>5, <1>7, <1>8 DEF OnItsWay, Chained

\* A frame that is received goes where it waits behind what passes before it.
LEMMA ReceiveWay == ASSUME TypeOK, TypeOK', OnItsWay, Receive PROVE OnItsWay'
<1> DEFINE f == Head(chan)
<1>1. /\ chan # <<>> /\ chan' = Tail(chan) /\ chan \in Seq(Frames) /\ work = <<>>
      /\ UNCHANGED <<gen, last, link, since, cursor, loads, applied, replayed>>
  BY DEF Receive, Drained, serverVars, historyVars, TypeOK
<1>2. Logged' = Logged /\ Had' = Had
  BY <1>1 DEF Logged, Had, Recovering
<1>3. /\ Led(chan, Had \cup Waiting, Logged)
      /\ Waiting \subseteq Logged /\ Brought(chan, Logged) \subseteq Logged
      /\ link = "up"
      /\ {e \in Logged : e[1] = gen} \subseteq Had \cup Waiting \cup Brought(chan, Logged)
      /\ Led(Released, Had \cup Brought(work, Logged), Logged)
  BY <1>1 DEF OnItsWay, Chained, Carried
<1>4. /\ Brought(chan, Logged) = Of(f, Logged) \cup Brought(chan', Logged)
      /\ \A e \in Emitted : Passes(f, e) => e \in Had \cup Waiting
      /\ Led(chan', (Had \cup Waiting) \cup Of(f, Logged), Logged)
  BY <1>1, <1>3, LedTail
<1>5. Brought(work, Logged) = {}
  BY <1>1, LedNone
<1>6. f \in Frames /\ work \in Seq(Frames) /\ Released \in Seq(Frames)
  BY <1>1, HeadTailProperties, ChannelsTyped
<1> HIDE DEF f
<1>7. /\ Led(work', Had, Logged)
      /\ Led(Released', Had \cup Brought(work', Logged), Logged)
      /\ Waiting \cup Of(f, Logged)
           \subseteq Brought(work', Logged) \cup Brought(Released', Logged)
      /\ Brought(work', Logged) \cup Brought(Released', Logged) \subseteq Logged
  <2>1. CASE f.kind = "hello" /\ UNCHANGED <<gapBuf, work>>
    <3>1. Of(f, Logged) = {}
      BY <2>1 DEF Of, Brings
    <3>2. Released' = Released /\ work' = work
      BY <2>1 DEF Released
    <3> QED
      BY <1>1, <1>3, <1>5, <3>1, <3>2, LedNone DEF Waiting
  <2>2. CASE f.kind = "gap" /\ gapBuf' = <<>> /\ work' = <<f>>
    <3>1. Released' = <<>>
      BY <2>2, ReleasedSteps
    <3>2. Of(f, Logged) = Logged
      BY <2>2 DEF Of, Brings, Logged
    <3>3. \A e \in Emitted : ~Passes(f, e)
      BY <2>2 DEF Passes
    <3>4. Led(<<f>>, Had, Logged) /\ Brought(<<f>>, Logged) = Logged
      BY <3>2, <3>3, LedOne
    <3> QED
      BY <1>3, <2>2, <3>1, <3>2, <3>4, LedNone
  <2>3. CASE gapBuf # None /\ gapBuf' = Append(gapBuf, f) /\ UNCHANGED work
    <3>1. Append(gapBuf, f) # None
      <4>1. Append(gapBuf, f) \in Seq(Frames)
        BY <1>6, <2>3, AppendProperties DEF TypeOK
      <4>2. \A s \in Seq(Frames) : s # None
        BY BufferAssumption DEF BufferAssumption
      <4> QED
        BY <4>1, <4>2, Zenon
    <3>2. Released' = Append(Released, f) /\ work' = work
      BY <2>3, <3>1, ReleasedSteps
    <3>3. Waiting = Brought(Released, Logged)
      BY <1>5 DEF Waiting
    <3>4. PICK A : A = Had \cup Brought(work, Logged)
      OBVIOUS
    <3>5. /\ Brought(Append(Released, f), Logged) = Brought(Released, Logged) \cup Of(f, Logged)
          /\ Led(Append(Released, f), A, Logged)
      BY <1>3, <1>4, <1>5, <1>6, <3>3, <3>4, LedAppend
    <3>6. Of(f, Logged) \subseteq Logged
      BY <1>3, <1>4
    <3>7. Led(work, Had, Logged)
      BY <1>1, LedNone
    <3> QED
      BY <1>3, <1>5, <3>2, <3>3, <3>4, <3>5, <3>6, <3>7
  <2>4. CASE gapBuf = None /\ work' = <<f>> /\ UNCHANGED gapBuf
    <3>1. Released = <<>> /\ Released' = <<>>
      BY <2>4 DEF Released
    <3>2. Waiting = {}
      BY <1>5, <3>1, LedNone DEF Waiting
    <3>3. Led(<<f>>, Had, Logged) /\ Brought(<<f>>, Logged) = Of(f, Logged)
      BY <1>4, <3>2, LedOne
    <3>4. Of(f, Logged) \subseteq Logged
      BY <1>3, <1>4
    <3> QED
      BY <2>4, <3>1, <3>2, <3>3, <3>4, LedNone
  <2> QED
    BY <2>1, <2>2, <2>3, <2>4 DEF Receive, f
<1>8. Waiting' = Brought(work', Logged) \cup Brought(Released', Logged)
  BY <1>2 DEF Waiting
<1>9. Led(chan', Had \cup Waiting', Logged)
  BY <1>4, <1>7, <1>8, LedMore
<1>10. Carried'
  <2>1. {e \in Logged : e[1] = gen}
          \subseteq Had \cup Waiting' \cup Brought(chan', Logged)
    BY <1>3, <1>4, <1>7, <1>8
  <2>2. Waiting' \cup Brought(chan', Logged) \subseteq Logged
    BY <1>3, <1>4, <1>7, <1>8
  <2> QED
    BY <1>1, <1>2, <1>3, <2>1, <2>2 DEF Carried
<1>11. Chained'
  BY <1>2, <1>7, <1>9 DEF Chained
<1>12. CursorBacked'
  BY <1>1, <1>2 DEF OnItsWay, CursorBacked, UpTo
<1> QED
  BY <1>10, <1>11, <1>12 DEF OnItsWay

LEMMA LedFrom ==
  ASSUME NEW s, NEW log, NEW A, NEW B, A \subseteq B, Led(s, A, log)
  PROVE  Led(s, B, log)
BY DEF Led

\* The head of the session work is done with, and what it brings is had.
LEMMA DoneWay ==
  ASSUME TypeOK, TypeOK', OnItsWay, work # <<>>, work' = Tail(work),
         UNCHANGED <<gen, last, link, since, chan, gapBuf>>,
         Had \cup Of(Head(work), Logged) \subseteq Had', UpTo(cursor)' \subseteq Had'
  PROVE  OnItsWay'
<1>1. Logged' = Logged /\ Released' = Released
  BY DEF Logged, Released
<1>2. /\ Led(work, Had, Logged) /\ work \in Seq(Frames)
      /\ Led(Released, Had \cup Brought(work, Logged), Logged)
      /\ Led(chan, Had \cup Waiting, Logged)
      /\ Waiting \cup Brought(chan, Logged) \subseteq Logged
  BY ChannelsTyped DEF OnItsWay, Chained, Carried
<1>3. /\ Brought(work, Logged) = Of(Head(work), Logged) \cup Brought(work', Logged)
      /\ Led(work', Had \cup Of(Head(work), Logged), Logged)
  BY <1>2, LedTail
<1>4. Waiting' = Brought(work', Logged) \cup Brought(Released, Logged)
  BY <1>1 DEF Waiting
<1>5. /\ Had \cup Waiting \subseteq Had' \cup Waiting'
      /\ Waiting' \subseteq Waiting
      /\ Had \cup Brought(work, Logged) \subseteq Had' \cup Brought(work', Logged)
  BY <1>3, <1>4 DEF Waiting
<1>6. /\ Led(work', Had', Logged)
      /\ Led(Released, Had' \cup Brought(work', Logged), Logged)
      /\ Led(chan, Had' \cup Waiting', Logged)
  <2>1. PICK A, B, w : A = Had' /\ B = Waiting' /\ w = work'
    OBVIOUS
  <2>2. /\ Led(w, Had \cup Of(Head(work), Logged), Logged)
        /\ Led(Released, Had \cup Brought(work, Logged), Logged)
        /\ Led(chan, Had \cup Waiting, Logged)
    BY <1>2, <1>3, <2>1
  <2>3. /\ Had \cup Of(Head(work), Logged) \subseteq A
        /\ Had \cup Brought(work, Logged) \subseteq A \cup Brought(w, Logged)
        /\ Had \cup Waiting \subseteq A \cup B
    BY <1>5, <2>1
  <2>4. Led(w, A, Logged)
    BY <2>2, <2>3, LedFrom
  <2>5. Led(Released, A \cup Brought(w, Logged), Logged)
    BY <2>2, <2>3, LedFrom
  <2>6. Led(chan, A \cup B, Logged)
    BY <2>2, <2>3, LedFrom
  <2> QED
    BY <2>1, <2>4, <2>5, <2>6
<1>7. Chained'
  BY <1>1, <1>6 DEF Chained
<1>8. Carried'
  BY <1>1, <1>2, <1>5 DEF OnItsWay, Carried
<1>9. CursorBacked'
  BY DEF OnItsWay, CursorBacked, UpTo
<1> QED
  BY <1>7, <1>8, <1>9 DEF OnItsWay

\* What was shown stays shown, and so does what a recovery in flight will show.
LEMMA HadKept ==
  ASSUME UNCHANGED <<last, loads>>, applied \subseteq applied', replayed \subseteq replayed'
  PROVE  Had \subseteq Had'
BY DEF Had, Recovering, Logged

LEMMA UpToEvent ==
  ASSUME NEW f, NEW c, c # None, c.gen = f.gen, c.seq = f.seq, f.seq \in Nat, NEW e \in UpTo(c)
  PROVE  /\ e \in Emitted /\ e[1] \in Gens /\ e[2] \in Nat
         /\ f.kind = "event" => Passes(f, e) \/ e = <<f.gen, f.seq>>
         /\ f.kind = "snapshot" /\ f.from \in Nat =>
              Passes(f, e) \/ (e = <<f.gen, e[2]>> /\ e[2] \in f.from..f.seq)
<1>1. /\ e \in Emitted /\ e[1] \in Gens /\ e[2] \in Nat /\ e = <<e[1], e[2]>>
      /\ e[1] = f.gen /\ e[2] <= f.seq
  BY DEF UpTo, Emitted, Seqs
<1>2. ASSUME f.kind = "event", ~Passes(f, e) PROVE e = <<f.gen, f.seq>>
  <2>1. ~(e[2] < f.seq)
    BY <1>1, <1>2 DEF Passes
  <2>2. e[2] = f.seq
    BY <1>1, <2>1
  <2> QED
    BY <1>1, <2>2
<1>3. ASSUME f.kind = "snapshot", f.from \in Nat, ~Passes(f, e)
      PROVE  e = <<f.gen, e[2]>> /\ e[2] \in f.from..f.seq
  BY <1>1, <1>3 DEF Passes
<1> QED
  BY <1>1, <1>2, <1>3

LEMMA ApplyEventWay ==
  ASSUME TypeOK, TypeOK', OnItsWay, work # <<>>, NEW f, f = Head(work), ApplyEvent(f),
         UNCHANGED <<gen, last, link, since, chan>>
  PROVE  OnItsWay'
<1> DEFINE e == <<f.gen, f.seq>>
<1>1. f \in Frames /\ f.kind = "event"
  BY HeadTailProperties DEF TypeOK, ApplyEvent
<1>2. f.gen \in Gens /\ f.seq \in Seqs /\ f.seq \in Nat
  BY <1>1, FrameKinds DEF Seqs
<1>3. /\ work' = Tail(work) /\ UNCHANGED <<gapBuf, loads, replayed>>
      /\ applied \subseteq applied'
  BY DEF ApplyEvent
<1>4. Had \subseteq Had'
  BY <1>3, HadKept
<1>5. \A x \in Emitted : Passes(f, x) => x \in Had
  BY ChannelsTyped, LedTail DEF OnItsWay, Chained
<1>6. Of(f, Logged) \subseteq {e}
  <2> SUFFICES ASSUME NEW x \in Of(f, Logged) PROVE x = e
    OBVIOUS
  <2>1. x \in Emitted /\ Brings(f, x, Logged)
    BY DEF Of
  <2>2. x[1] = f.gen /\ x[2] = f.seq
    BY <1>1, <2>1, EventBrings
  <2> QED
    BY <2>1, <2>2 DEF Emitted
<1>7. CASE Gate(f.gen, f.seq)
  <2>1. cursor' = [gen |-> f.gen, seq |-> f.seq] /\ e \in applied'
    BY <1>7 DEF ApplyEvent
  <2>2. e \in Had'
    BY <2>1 DEF Had
  <2>3. cursor' # None /\ cursor'.gen = f.gen /\ cursor'.seq = f.seq
    BY <1>2, <2>1, CursorsAreSome
  <2>4. PICK c : c = cursor'
    OBVIOUS
  <2>5. \A x \in UpTo(c) : x \in Emitted /\ (Passes(f, x) \/ x = e)
    BY <1>1, <1>2, <2>3, <2>4, UpToEvent
  <2>6. UpTo(c) \subseteq Had'
    BY <1>4, <1>5, <2>2, <2>5
  <2>7. UpTo(cursor)' = UpTo(c)
    BY <2>4 DEF UpTo
  <2> QED
    BY <1>3, <1>4, <1>6, <2>2, <2>6, <2>7, DoneWay
<1>8. CASE ~Gate(f.gen, f.seq)
  <2>1. cursor' = cursor /\ cursor # None /\ cursor.gen = f.gen /\ cursor \in Cursors
        /\ ~(f.seq > cursor.seq)
    BY <1>8 DEF ApplyEvent, Gate, TypeOK
  <2>2. f.seq <= cursor.seq
    BY <1>2, <2>1 DEF Cursors, Seqs
  <2>3. e \in UpTo(cursor)
    BY <1>2, <2>1, <2>2 DEF UpTo, Emitted
  <2>4. UpTo(cursor)' = UpTo(cursor) /\ UpTo(cursor) \subseteq Had
    BY <2>1 DEF UpTo, OnItsWay, CursorBacked
  <2> QED
    BY <1>3, <1>4, <1>6, <2>3, <2>4, DoneWay
<1> QED
  BY <1>7, <1>8

LEMMA ApplySnapshotWay ==
  ASSUME TypeOK, TypeOK', OnItsWay, work # <<>>, NEW f, f = Head(work), ApplySnapshot(f),
         UNCHANGED <<gen, last, link, since, chan>>
  PROVE  OnItsWay'
<1>1. f \in Frames /\ f.kind = "snapshot"
  BY HeadTailProperties DEF TypeOK, ApplySnapshot
<1>2. f.gen \in Gens /\ f.seq \in Seqs /\ f.from \in Nat /\ f.seq \in Nat
  BY <1>1, FrameKinds DEF Seqs
<1>3. /\ work' = Tail(work) /\ UNCHANGED <<gapBuf, loads, applied>>
      /\ replayed' = replayed \cup {<<f.gen, n>> : n \in f.from..f.seq}
      /\ cursor' = Noted(f.gen, f.seq)
  BY DEF ApplySnapshot
<1>4. Had \subseteq Had'
  BY <1>3, HadKept
<1>5. \A x \in Emitted : Passes(f, x) => x \in Had
  BY ChannelsTyped, LedTail DEF OnItsWay, Chained
<1>6. {<<f.gen, n>> : n \in f.from..f.seq} \subseteq Had'
  BY <1>3 DEF Had
<1>7. Of(f, Logged) \subseteq {<<f.gen, n>> : n \in f.from..f.seq}
  <2> SUFFICES ASSUME NEW x \in Of(f, Logged)
               PROVE  x \in {<<f.gen, n>> : n \in f.from..f.seq}
    OBVIOUS
  <2>1. x \in Emitted /\ Brings(f, x, Logged)
    BY DEF Of
  <2>2. x[1] = f.gen /\ f.from <= x[2] /\ x[2] <= f.seq
    BY <1>1, <2>1 DEF Brings
  <2>3. x = <<x[1], x[2]>> /\ x[2] \in Nat
    BY <2>1 DEF Emitted, Seqs
  <2>4. x[2] \in f.from..f.seq
    BY <1>2, <2>2, <2>3
  <2> QED
    BY <2>2, <2>3, <2>4
<1>8. CASE cursor' = cursor
  <2>1. UpTo(cursor)' = UpTo(cursor) /\ UpTo(cursor) \subseteq Had
    BY <1>8 DEF UpTo, OnItsWay, CursorBacked
  <2> QED
    BY <1>3, <1>4, <1>6, <1>7, <2>1, DoneWay
<1>9. CASE cursor' # cursor
  <2>1. cursor' = [gen |-> f.gen, seq |-> f.seq]
    BY <1>3, <1>9 DEF Noted
  <2>2. cursor' # None /\ cursor'.gen = f.gen /\ cursor'.seq = f.seq
    BY <1>2, <2>1, CursorsAreSome
  <2>3. PICK c : c = cursor'
    OBVIOUS
  <2>4. \A x \in UpTo(c) : x \in Emitted
          /\ (Passes(f, x) \/ (x = <<f.gen, x[2]>> /\ x[2] \in f.from..f.seq))
    BY <1>1, <1>2, <2>2, <2>3, UpToEvent
  <2>5. UpTo(c) \subseteq Had'
    BY <1>4, <1>5, <1>6, <2>4
  <2>6. UpTo(cursor)' = UpTo(c)
    BY <2>3 DEF UpTo
  <2> QED
    BY <1>3, <1>4, <1>6, <1>7, <2>5, <2>6, DoneWay
<1> QED
  BY <1>8, <1>9

LEMMA StartRecoveryWay ==
  ASSUME TypeOK, TypeOK', OnItsWay, work # <<>>, NEW f, f = Head(work), StartRecovery(f),
         UNCHANGED <<gen, last, link, since, chan>>
  PROVE  OnItsWay'
<1>1. PICK i \in GapLoads : loads[i] = Idle /\ loads' = [loads EXCEPT ![i] = Fetching]
  BY DEF StartRecovery
<1>2. /\ work' = Tail(work) /\ f.kind = "gap"
      /\ UNCHANGED <<cursor, gapBuf, applied, replayed>>
  BY DEF StartRecovery
<1>3. loads'[i] = Fetching
  BY <1>1 DEF TypeOK, Loads
<1>4. Logged \subseteq Had'
  BY <1>3 DEF Had, Recovering, Logged
<1>5. Had \subseteq Had'
  BY <1>2, <1>4 DEF Had
<1>6. Of(f, Logged) \subseteq Logged
  BY <1>2 DEF Of, Brings
<1>7. UpTo(cursor)' = UpTo(cursor) /\ UpTo(cursor) \subseteq Had
  BY <1>2 DEF UpTo, OnItsWay, CursorBacked
<1> QED
  BY <1>2, <1>4, <1>5, <1>6, <1>7, DoneWay

LEMMA DrainWay == ASSUME TypeOK, TypeOK', OnItsWay, Drain, ~lost' PROVE OnItsWay'
<1> DEFINE f == Head(work)
<1>1. /\ work # <<>> /\ UNCHANGED <<gen, last, link, since, chan>>
      /\ ApplyEvent(f) \/ ApplySnapshot(f) \/ StartRecovery(f) \/ SkipRecovery(f)
  BY DEF Drain, Drained, serverVars, linkVars
<1>2. ~SkipRecovery(f)
  BY DEF SkipRecovery
<1> QED
  BY <1>1, <1>2, ApplyEventWay, ApplySnapshotWay, StartRecoveryWay

\* Frames are released into the session work, or nothing moves; what is had stays had.
LEMMA ReleasedWay ==
  ASSUME TypeOK, TypeOK', OnItsWay, Had \subseteq Had', UpTo(cursor)' \subseteq Had',
         (work = <<>> /\ gapBuf' = None /\ work' = Released) \/ UNCHANGED <<gapBuf, work>>,
         UNCHANGED <<gen, last, link, since, chan>>
  PROVE  OnItsWay'
<1>1. Logged' = Logged
  BY DEF Logged
<1>2. /\ Led(work, Had, Logged)
      /\ Led(Released, Had \cup Brought(work, Logged), Logged)
      /\ Led(chan, Had \cup Waiting, Logged)
      /\ Waiting \cup Brought(chan, Logged) \subseteq Logged
  BY DEF OnItsWay, Chained, Carried
<1>3. /\ Led(work', Had, Logged)
      /\ Led(Released', Had \cup Brought(work', Logged), Logged)
      /\ Waiting' = Waiting
  <2>1. CASE work = <<>> /\ gapBuf' = None /\ work' = Released
    <3>1. Brought(work, Logged) = {} /\ Released' = <<>>
      BY <2>1, LedNone DEF Released
    <3>2. Brought(Released', Logged) = {}
          /\ Led(Released', Had \cup Brought(work', Logged), Logged)
      BY <3>1, LedNone
    <3>3. Had \cup Brought(work, Logged) = Had
      BY <3>1
    <3> QED
      BY <1>1, <1>2, <2>1, <3>1, <3>2, <3>3 DEF Waiting
  <2>2. CASE UNCHANGED <<gapBuf, work>>
    <3>1. Released' = Released
      BY <2>2 DEF Released
    <3> QED
      BY <1>1, <1>2, <2>2, <3>1 DEF Waiting
  <2> QED
    BY <2>1, <2>2
<1>4. Chained'
  <2>1. PICK A, w, r : A = Had' /\ w = work' /\ r = Released'
    OBVIOUS
  <2>2. Led(w, Had, Logged) /\ Led(r, Had \cup Brought(w, Logged), Logged)
    BY <1>3, <2>1
  <2>3. Led(w, A, Logged)
    BY <2>1, <2>2, LedFrom
  <2>4. Had \cup Brought(w, Logged) \subseteq A \cup Brought(w, Logged)
        /\ Had \cup Waiting \subseteq A \cup Waiting
    BY <2>1
  <2>5. Led(r, A \cup Brought(w, Logged), Logged)
    BY <2>2, <2>4, LedFrom
  <2>6. Led(chan, A \cup Waiting, Logged)
    BY <1>2, <2>4, LedFrom
  <2> QED
    BY <1>1, <1>3, <2>1, <2>3, <2>5, <2>6 DEF Chained
<1>5. Carried'
  BY <1>1, <1>2, <1>3 DEF OnItsWay, Carried
<1>6. CursorBacked'
  BY DEF OnItsWay, CursorBacked, UpTo
<1> QED
  BY <1>4, <1>5, <1>6 DEF OnItsWay

\* The request of a load starts, or its answer is read.
LEMMA AskWay ==
  ASSUME TypeOK, TypeOK', OnItsWay, OpenTab \/ \E i \in Loads : ReadWal(i)
  PROVE  OnItsWay'
<1>1. UNCHANGED <<gen, last, link, since, chan, cursor, gapBuf, work, applied, replayed>>
  BY DEF OpenTab, ReadWal, serverVars, linkVars, historyVars
<1>2. PICK i \in Loads : \/ loads[i] = Idle /\ loads' = [loads EXCEPT ![i] = Fetching]
                         \/ loads[i] = Fetching /\ loads' = [loads EXCEPT ![i] = Read(last)]
  BY DEF OpenTab, ReadWal, Loads
<1>3. ASSUME NEW e \in Logged, Recovering(e) PROVE Recovering(e)'
  <2>1. PICK j \in GapLoads : loads[j] = Fetching
                              \/ (loads[j].stage = "read" /\ e[2] <= loads[j].wal[e[1]])
    BY <1>3 DEF Recovering
  <2>2. CASE j # i
    BY <1>2, <2>1, <2>2 DEF Recovering, TypeOK, Loads
  <2>3. CASE j = i
    <3>1. loads'[i] = Fetching \/ loads'[i] = Read(last)
      BY <1>2 DEF TypeOK
    <3>2. e[2] <= last[e[1]]
      BY DEF Logged
    <3> QED
      BY <1>1, <2>3, <3>1, <3>2 DEF Recovering, Read
  <2> QED
    BY <2>2, <2>3
<1>4. Had \subseteq Had'
  BY <1>1, <1>3 DEF Had, Logged
<1>5. UpTo(cursor)' \subseteq Had'
  BY <1>1, <1>4 DEF UpTo, OnItsWay, CursorBacked
<1> QED
  BY <1>1, <1>4, <1>5, ReleasedWay

\* A load that ends still covers what it was to show.
LEMMA EndedLoad ==
  ASSUME TypeOK, NEW i \in Loads, loads' = [loads EXCEPT ![i] = Idle],
         UNCHANGED last, applied \subseteq applied', replayed \subseteq replayed',
         i \in GapLoads => loads[i].stage = "read" /\ WalEvents(loads[i].wal) \subseteq replayed'
  PROVE  Had \subseteq Had'
<1>1. ASSUME NEW e \in Logged, Recovering(e) PROVE e \in replayed' \/ Recovering(e)'
  <2>1. PICK j \in GapLoads : loads[j] = Fetching
                              \/ (loads[j].stage = "read" /\ e[2] <= loads[j].wal[e[1]])
    BY <1>1 DEF Recovering
  <2>2. CASE j # i
    BY <2>1, <2>2 DEF Recovering, TypeOK, Loads
  <2>3. CASE j = i
    <3>1. loads[i].stage = "read" /\ loads[i] # Fetching
      BY <2>3, StagesTold
    <3> QED
      BY <2>1, <2>3, <3>1 DEF WalEvents, Logged, Emitted
  <2> QED
    BY <2>2, <2>3
<1> QED
  BY <1>1 DEF Had, Logged

LEMMA CommitWay ==
  ASSUME TypeOK, TypeOK', OnItsWay, NEW i \in Loads, CommitLoad(i) PROVE OnItsWay'
<1> DEFINE wal == loads[i].wal
<1>1. /\ work = <<>> /\ loads[i].stage = "read" /\ replayed' = replayed \cup WalEvents(wal)
      /\ cursor' = ReplayCursor(wal)
      /\ loads' = [loads EXCEPT ![i] = Idle]
      /\ (gapBuf' = None /\ work' = Released) \/ UNCHANGED <<gapBuf, work>>
      /\ UNCHANGED <<gen, last, link, since, chan, hello, applied>>
  BY DEF CommitLoad, Drained, Finish, serverVars, linkVars
<1>2. wal \in [Gens -> 0..MaxSeq]
  BY <1>1, ReadLog
<1> HIDE DEF wal
<1>3. Had \subseteq Had'
  BY <1>1, EndedLoad DEF wal
<1>4. CASE cursor' = cursor
  <2>1. UpTo(cursor)' \subseteq Had'
    BY <1>3, <1>4 DEF UpTo, OnItsWay, CursorBacked
  <2> QED
    BY <1>1, <1>3, <2>1, ReleasedWay
<1>5. CASE cursor' # cursor
  <2>1. /\ hello \in Gens /\ wal[hello] \in Seqs
        /\ cursor' = [gen |-> hello, seq |-> wal[hello]]
    BY <1>1, <1>2, <1>5, LastIsSeq DEF ReplayCursor, Noted, TypeOK
  <2>2. PICK c : c = cursor'
    OBVIOUS
  <2>3. c # None /\ c.gen = hello /\ c.seq = wal[hello]
    BY <2>1, <2>2, CursorsAreSome
  <2>4. UpTo(c) \subseteq WalEvents(wal)
    BY <2>3 DEF UpTo, WalEvents, Emitted
  <2>5. UpTo(cursor)' = UpTo(c)
    BY <2>2 DEF UpTo
  <2>6. UpTo(cursor)' \subseteq Had'
    BY <1>1, <2>4, <2>5 DEF Had
  <2> QED
    BY <1>1, <1>3, <2>6, ReleasedWay
<1> QED
  BY <1>4, <1>5

LEMMA FailWay ==
  ASSUME TypeOK, TypeOK', OnItsWay, NEW i \in Loads, FailLoad(i), ~lost' PROVE OnItsWay'
<1>1. /\ i \notin GapLoads /\ loads' = [loads EXCEPT ![i] = Idle]
      /\ UNCHANGED <<gen, last, link, since, chan, cursor, gapBuf, work, applied, replayed>>
  BY DEF FailLoad, Finish, serverVars, linkVars, historyVars
<1>2. Had \subseteq Had'
  BY <1>1, EndedLoad
<1>3. UpTo(cursor)' \subseteq Had'
  BY <1>1, <1>2 DEF UpTo, OnItsWay, CursorBacked
<1> QED
  BY <1>1, <1>2, <1>3, ReleasedWay

LEMMA InitWay == Init => OnItsWay
<1> SUFFICES ASSUME Init PROVE OnItsWay
  OBVIOUS
<1>1. /\ chan = <<>> /\ work = <<>> /\ Released = <<>> /\ cursor = None /\ link = "down"
  BY DEF Init, Released
<1>2. Waiting = {} /\ Brought(chan, Logged) = {}
  BY <1>1, LedNone DEF Waiting
<1>3. CursorBacked /\ Carried
  BY <1>1, <1>2 DEF CursorBacked, Carried, UpTo
<1> QED
  BY <1>1, <1>3, LedNone DEF OnItsWay, Chained

\* What was lost stays lost.
LEMMA LostStays == ASSUME TypeOK, lost, [Next]_vars PROVE lost'
<1>1. CASE UNCHANGED vars
  BY <1>1 DEF vars
<1>2. CASE Accept
  BY <1>2 DEF Accept, AcceptFresh, AcceptResume, AcceptGap
<1>3. CASE Drain
  BY <1>3 DEF Drain, ApplyEvent, ApplySnapshot, StartRecovery, SkipRecovery
<1>4. CASE \E i \in Loads : ReadWal(i) \/ CommitLoad(i) \/ FailLoad(i)
  BY <1>4 DEF ReadWal, CommitLoad, FailLoad
<1>5. CASE Emit \/ Restart \/ Dial \/ Lose \/ Receive \/ OpenTab
  BY <1>5 DEF Emit, Restart, Dial, Lose, Receive, OpenTab
<1> QED
  BY <1>1, <1>2, <1>3, <1>4, <1>5 DEF Next

LEMMA NextWay == TypeOK /\ TypeOK' /\ MissInv /\ [Next]_vars => MissInv'
<1> SUFFICES ASSUME TypeOK, TypeOK', MissInv, [Next]_vars, ~lost' PROVE OnItsWay'
  BY DEF MissInv
<1>1. OnItsWay
  BY LostStays DEF MissInv
<1>2. CASE UNCHANGED vars
  <2>1. Had' = Had /\ UNCHANGED <<gen, last, link, since, chan, cursor, gapBuf, work>>
    BY <1>2 DEF vars, Had, Recovering, Logged
  <2>2. UpTo(cursor)' \subseteq Had'
    BY <1>1, <2>1 DEF UpTo, OnItsWay, CursorBacked
  <2> QED
    BY <1>1, <2>1, <2>2, ReleasedWay
<1> QED
  BY <1>1, <1>2, EmitWay, CutWay, AcceptWay, AskWay, DialWay, ReceiveWay, DrainWay,
     CommitWay, FailWay DEF Next

\* When nothing waits and no recovery is in flight, what is had was shown.
LEMMA WayEnds == ASSUME TypeOK, MissInv PROVE NothingMissed
<1>1. ASSUME \A i \in GapLoads : loads[i] = Idle
      PROVE  Had = applied \cup replayed
  <2>1. \A i \in GapLoads : loads[i] # Fetching /\ loads[i].stage # "read"
    BY <1>1, StagesTold DEF Loads
  <2> QED
    BY <2>1 DEF Had, Recovering
<1>2. ASSUME Settled, ~lost PROVE Shown
  <2>1. /\ link = "up" /\ Released = <<>> /\ OnItsWay
        /\ work = <<>> /\ chan = <<>>
        /\ \A i \in GapLoads : loads[i] = Idle
    BY <1>2 DEF Settled, Drained, Released, MissInv
  <2>2. Waiting = {} /\ Brought(chan, Logged) = {}
    BY <2>1, LedNone DEF Waiting
  <2>3. {e \in Logged : e[1] = gen} \subseteq applied \cup replayed
    BY <1>1, <2>1, <2>2 DEF OnItsWay, Carried
  <2>4. \A n \in 1..last[gen] : <<gen, n>> \in Logged
    BY DEF Logged, Emitted, Seqs, TypeOK
  <2> QED
    BY <2>3, <2>4 DEF Shown
<1>3. CursorHasNoHoles
  <2> SUFFICES ASSUME cursor # None, ~lost, \A i \in GapLoads : loads[i] = Idle,
                      NEW n \in 1..cursor.seq
               PROVE  <<cursor.gen, n>> \in applied \cup replayed
    BY DEF CursorHasNoHoles
  <2>1. UpTo(cursor) \subseteq applied \cup replayed
    BY <1>1 DEF MissInv, OnItsWay, CursorBacked
  <2>2. cursor.gen \in Gens /\ cursor.seq \in Seqs
    BY DEF TypeOK, Cursors
  <2>3. <<cursor.gen, n>> \in UpTo(cursor)
    BY <2>2 DEF UpTo, Emitted, Seqs
  <2> QED
    BY <2>1, <2>3
<1> QED
  BY <1>2, <1>3 DEF NothingMissed

\* Unless a recovery failed or a reconnection carried no cursor, no event is lost between
\* a cursor, a ring replay, a dropped buffer and a read of the log, and the cursor never
\* runs ahead of what was shown once the recoveries are over.
THEOREM NoEventMissed == Spec => []NothingMissed
<1>1. Init => MissInv
  BY InitWay DEF MissInv
<1>2. TypeOK /\ TypeOK' /\ MissInv /\ [Next]_vars => MissInv'
  BY NextWay
<1>3. TypeOK /\ MissInv => NothingMissed
  BY WayEnds
<1> QED
  BY <1>1, <1>2, <1>3, TypeCorrect, PTL DEF Spec

================================================================================
