--------------------------------- MODULE RowsProofs ---------------------------------
(***************************************************************************)
(* Three parts that MCThread checks side by side: the history of a CLI      *)
(* thread, what waits for its turn or runs as a command, and the composer, *)
(* where what the user enters for a thread is to reach that thread. The    *)
(* parts share no variable, so each has an inductive invariant of its own   *)
(* and every step of the run either is one of the part or leaves its        *)
(* variables alone. No bound is used; of the scripts of the runs it is used *)
(* that they are sequences.                                                 *)
(***************************************************************************)
EXTENDS MCThread, FiniteSetTheorems, WellFoundedInduction, TLAPS

Crew == {forge, mochi}

IsSeq(s) == s \in Seq({s[i] : i \in DOMAIN s})

LEMMA OwnElements ==
  ASSUME NEW T, NEW s \in Seq(T) PROVE s \in Seq({s[i] : i \in DOMAIN s})
<1>1. Len(s) \in Nat /\ DOMAIN s = 1..Len(s) /\ s = [i \in 1..Len(s) |-> s[i]]
  OBVIOUS
<1> QED
  BY <1>1

-------------------------------------------------------------------------------
\* The history of a CLI thread.

NoneIsNoList == None \notin Seq(Nat)

\* A run as the server keeps it: what it said is over with a terminal event.
IsRun(run) ==
  /\ run = [events |-> run.events, script |-> run.script, over |-> run.over]
  /\ IsSeq(run.events) /\ IsSeq(run.script)
  /\ ~run.over => H!Status(run.events) = "streaming"
  /\ \A k \in 0..Len(run.events) - 1 : H!Status(SubSeq(run.events, 1, k)) = "streaming"

RunsTyped == IsSeq(runs) /\ \A r \in DOMAIN runs : IsRun(runs[r])

Heard(r, events) ==
  /\ r \in DOMAIN runs
  /\ Len(events) \in 0..Len(runs[r].events)
  /\ events = SubSeq(runs[r].events, 1, Len(events))

\* What a load has read of a run.
IsRead(got) ==
  /\ Heard(got.run, got.events)
  /\ IF got.live THEN H!Status(got.events) = "streaming"
     ELSE runs[got.run].over /\ got.events = runs[got.run].events

GotOnce(got) == /\ IsSeq(got)
                /\ \A i \in DOMAIN got : IsRead(got[i])
                /\ \A i, j \in DOMAIN got : got[i].run = got[j].run => i = j

IsLoad(l) ==
  /\ l = [id |-> l.id, agent |-> l.agent, todo |-> l.todo, got |-> l.got]
  /\ l.agent \in Crew
  /\ GotOnce(l.got)
  /\ IF l.todo = None THEN l.got = <<>>
     ELSE /\ IsSeq(l.todo) /\ l.todo # <<>>
          /\ \A i \in DOMAIN l.todo : l.todo[i] \in DOMAIN runs
          /\ \A i, j \in DOMAIN l.todo : l.todo[i] = l.todo[j] => i = j
          /\ \A i \in DOMAIN l.todo, j \in DOMAIN l.got : l.todo[i] # l.got[j].run

IsTail(t) ==
  /\ t = [agent |-> t.agent, run |-> t.run, read |-> t.read]
  /\ t.agent \in Crew /\ t.run \in DOMAIN runs
  /\ t.read \in 0..Len(runs[t.run].events)
  /\ H!Status(SubSeq(runs[t.run].events, 1, t.read)) = "streaming"
  /\ H!Bubble(t.run, SubSeq(runs[t.run].events, 1, t.read), FALSE) \in rows[t.agent]

TailsTyped == /\ \A t \in tails : IsTail(t)
              /\ \A t, u \in tails : t.run = u.run => t = u

IsTrue(x, m) ==
  \/ <<x, m.run>> \in lost \/ H!Dead(m.run)
  \/ m.status = "streaming" /\ \E t \in tails : t.agent = x /\ t.run = m.run
  \/ m.status # "streaming" /\ m = H!Bubble(m.run, runs[m.run].events, FALSE)

RowsTrue ==
  /\ DOMAIN rows = Crew
  /\ \A x \in Crew : \A m \in rows[x] :
       /\ m = [run |-> m.run, segments |-> m.segments, status |-> m.status]
       /\ m.run \in DOMAIN runs
       /\ IsTrue(x, m)
  /\ \A x \in Crew : \A m, n \in rows[x] : m.run = n.run => m = n

StopsTheRight ==
  runId # None => (\E t \in tails : t.run = runId) \/ (\E x \in Crew : <<x, runId>> \in lost)

HistoryInv ==
  /\ slotAgent \in Crew
  /\ RunsTyped /\ (\A l \in loads : IsLoad(l)) /\ TailsTyped /\ RowsTrue /\ StopsTheRight

-------------------------------------------------------------------------------
\* Sequences.

LEMMA Grown ==
  ASSUME NEW s, IsSeq(s), NEW e
  PROVE  /\ IsSeq(Append(s, e))
         /\ Len(s) \in Nat /\ DOMAIN s = 1..Len(s)
         /\ Len(Append(s, e)) = Len(s) + 1
         /\ DOMAIN Append(s, e) = 1..Len(s) + 1
         /\ \A i \in DOMAIN s : Append(s, e)[i] = s[i]
         /\ Append(s, e)[Len(s) + 1] = e
         /\ \A k \in 0..Len(s) : SubSeq(Append(s, e), 1, k) = SubSeq(s, 1, k)
<1> DEFINE T == {s[i] : i \in DOMAIN s} \cup {e}
<1>1. s \in Seq(T)
  BY DEF IsSeq
<1>2. e \in T
  OBVIOUS
<1> HIDE DEF T
<1>3. Append(s, e) \in Seq(T)
  BY <1>1, <1>2
<1>4. IsSeq(Append(s, e))
  BY <1>3, OwnElements DEF IsSeq
<1>5. ASSUME NEW k \in 0..Len(s) PROVE SubSeq(Append(s, e), 1, k) = SubSeq(s, 1, k)
  <2>1. Len(s) \in Nat /\ k \in Nat /\ k <= Len(s) /\ Len(Append(s, e)) = Len(s) + 1
    BY <1>1
  <2>2. SubSeq(s, 1, k) = [i \in 1..k |-> s[i]]
    BY <1>1, <2>1
  <2>3. SubSeq(Append(s, e), 1, k) = [i \in 1..k |-> Append(s, e)[i]]
    BY <1>3, <2>1
  <2>4. \A i \in 1..k : Append(s, e)[i] = s[i]
    BY <1>1, <2>1
  <2> QED
    BY <2>2, <2>3, <2>4
<1> QED
  BY <1>1, <1>2, <1>4, <1>5

LEMMA Shortened ==
  ASSUME NEW s, IsSeq(s), s # <<>>
  PROVE  /\ IsSeq(Tail(s)) /\ Len(s) \in Nat \ {0} /\ DOMAIN s = 1..Len(s)
         /\ Len(Tail(s)) = Len(s) - 1 /\ DOMAIN Tail(s) = 1..Len(s) - 1
         /\ \A i \in DOMAIN Tail(s) : Tail(s)[i] = s[i + 1] /\ i + 1 \in DOMAIN s
         /\ Head(s) = s[1] /\ 1 \in DOMAIN s
<1> DEFINE T == {s[i] : i \in DOMAIN s}
<1>1. s \in Seq(T)
  BY DEF IsSeq
<1> HIDE DEF T
<1>2. Tail(s) \in Seq(T) /\ Len(s) \in Nat \ {0}
  BY <1>1
<1>3. IsSeq(Tail(s))
  <2> DEFINE t == Tail(s)
  <2>1. t \in Seq(T)
    BY <1>2
  <2> HIDE DEF t
  <2>2. IsSeq(t)
    BY <2>1, OwnElements DEF IsSeq
  <2> QED
    BY <2>2 DEF t
<1> QED
  BY <1>1, <1>2, <1>3

LEMMA Shortcut ==
  ASSUME NEW s, IsSeq(s), NEW k \in 0..Len(s)
  PROVE  /\ IsSeq(SubSeq(s, 1, k)) /\ Len(SubSeq(s, 1, k)) = k
         /\ k = Len(s) => SubSeq(s, 1, k) = s
<1> DEFINE T == {s[i] : i \in DOMAIN s}
<1>1. s \in Seq(T)
  BY DEF IsSeq
<1> HIDE DEF T
<1>2. Len(s) \in Nat /\ k \in Nat /\ k <= Len(s)
  BY <1>1
<1>3. SubSeq(s, 1, k) \in Seq(T) /\ Len(SubSeq(s, 1, k)) = k
  BY <1>1, <1>2
<1>4. IsSeq(SubSeq(s, 1, k))
  BY <1>3, OwnElements DEF IsSeq
<1>5. k = Len(s) => SubSeq(s, 1, k) = s
  BY <1>1, <1>2
<1> QED
  BY <1>3, <1>4, <1>5

LEMMA TopOf ==
  ASSUME NEW n \in Nat, NEW set, set \subseteq 1..n, set # {}
  PROVE  H!Max(set) \in set
<1> DEFINE below == {n - i : i \in set}
<1>1. below \in SUBSET Nat /\ below # {}
  <2>1. \A i \in set : n - i \in Nat
    BY SMT
  <2> QED
    BY <2>1
<1>2. PICK least \in below : \A y \in below : ~(y < least)
  <2>1. IsWellFoundedOn(OpToRel(<, Nat), Nat)
    BY NatLessThanWellFounded
  <2>2. \E x \in below : \A y \in below : ~(<<y, x>> \in OpToRel(<, Nat))
    BY <1>1, <2>1, WFMin
  <2> QED
    BY <1>1, <2>2 DEF OpToRel
<1>3. PICK i \in set : least = n - i
  BY <1>2
<1>4. \A j \in set : i >= j
  BY <1>2, <1>3
<1>5. \E x \in set : \A y \in set : x >= y
  BY <1>4
<1> QED
  BY <1>5 DEF H!Max

-------------------------------------------------------------------------------
\* What a bubble and the state of its run are.

LEMMA Bubbles ==
  ASSUME NEW r, NEW events, NEW live
  PROVE  /\ H!Bubble(r, events, live) = [run |-> H!Bubble(r, events, live).run,
                                        segments |-> H!Bubble(r, events, live).segments,
                                        status |-> H!Bubble(r, events, live).status]
         /\ H!Bubble(r, events, live).run = r
         /\ H!Bubble(r, events, FALSE).status = H!Status(events)
         /\ H!Bubble(r, events, TRUE).status = "streaming"
BY DEF H!Bubble

LEMMA StatusGrows ==
  ASSUME NEW s, IsSeq(s), NEW e, H!Status(s) = "streaming", e.type \notin H!Terminal
  PROVE  H!Status(Append(s, e)) = "streaming"
<1>1. \A i \in DOMAIN Append(s, e) : Append(s, e)[i] = e \/ (i \in DOMAIN s /\ Append(s, e)[i] = s[i])
  <2>1. /\ Len(s) \in Nat /\ DOMAIN s = 1..Len(s) /\ DOMAIN Append(s, e) = 1..Len(s) + 1
        /\ \A i \in DOMAIN s : Append(s, e)[i] = s[i]
        /\ Append(s, e)[Len(s) + 1] = e
    BY Grown
  <2>2. \A i \in 1..Len(s) + 1 : i \in 1..Len(s) \/ i = Len(s) + 1
    BY <2>1
  <2> QED
    BY <2>1, <2>2
<1>2. \A i \in DOMAIN s : s[i].type # "RUN_ERROR" /\ s[i].type # "RUN_FINISHED"
  BY DEF H!Status
<1> QED
  BY <1>1, <1>2 DEF H!Status, H!Terminal

LEMMA StatusOfNothing == H!Status(<<>>) = "streaming"
BY DEF H!Status

-------------------------------------------------------------------------------
LEMMA HistoryInitKeeps == ASSUME H!Init PROVE HistoryInv
<1> USE DEF H!Init
<1>1. RunsTyped
  <2>1. <<>> \in Seq({runs[i] : i \in DOMAIN runs})
    OBVIOUS
  <2>2. DOMAIN runs = {}
    OBVIOUS
  <2> QED
    BY <2>1, <2>2 DEF RunsTyped, IsSeq
<1>2. slotAgent \in Crew /\ RowsTrue
  BY DEF RowsTrue, Crew
<1>3. (\A l \in loads : IsLoad(l)) /\ TailsTyped /\ StopsTheRight
  BY DEF TailsTyped, StopsTheRight
<1> QED
  BY <1>1, <1>2, <1>3 DEF HistoryInv

\* The server goes on: what was read stays a beginning of what is there.
LEMMA RunsGrow ==
  ASSUME HistoryInv, RunsTyped', UNCHANGED <<slotAgent, loads, rows, runId, tails, lost>>,
         \A r \in DOMAIN runs :
           /\ r \in DOMAIN runs'
           /\ Len(runs[r].events) <= Len(runs'[r].events)
           /\ \A k \in 0..Len(runs[r].events) :
                SubSeq(runs'[r].events, 1, k) = SubSeq(runs[r].events, 1, k)
           /\ runs[r].over => runs'[r] = runs[r]
  PROVE  HistoryInv'
<1> USE DEF HistoryInv
<1>1. \A r \in DOMAIN runs : Len(runs[r].events) \in Nat /\ Len(runs'[r].events) \in Nat
  BY DEF RunsTyped, IsRun, IsSeq
<1>2. ASSUME NEW got, IsRead(got) PROVE IsRead(got)'
  BY <1>1, <1>2 DEF IsRead, Heard
<1>3. ASSUME NEW l \in loads PROVE IsLoad(l)'
  <2>1. GotOnce(l.got)'
    BY <1>2, <1>3 DEF IsLoad, GotOnce
  <2> QED
    BY <1>3, <2>1 DEF IsLoad
<1>4. ASSUME NEW t \in tails PROVE IsTail(t)'
  <2>1. IsTail(t)
    BY DEF TailsTyped
  <2> QED
    <3>1. t.run \in DOMAIN runs' /\ t.read \in 0..Len(runs'[t.run].events)
      BY <1>1, <2>1 DEF IsTail
    <3>2. SubSeq(runs'[t.run].events, 1, t.read) = SubSeq(runs[t.run].events, 1, t.read)
      BY <2>1 DEF IsTail
    <3> QED
      BY <2>1, <3>1, <3>2 DEF IsTail
<1>5. TailsTyped'
  BY <1>4 DEF TailsTyped
<1>6. ASSUME NEW r \in DOMAIN runs, ~runs[r].over PROVE H!Status(runs[r].events) = "streaming"
  BY <1>6 DEF RunsTyped, IsRun
<1>7. ASSUME NEW x \in Crew, NEW m \in rows[x] PROVE IsTrue(x, m)'
  <2>1. IsTrue(x, m) /\ m.run \in DOMAIN runs
    BY DEF RowsTrue
  <2>2. CASE H!Dead(m.run)
    BY <2>1, <2>2 DEF H!Dead, IsTrue
  <2>3. CASE m.status # "streaming" /\ m = H!Bubble(m.run, runs[m.run].events, FALSE)
    <3>1. m.status = H!Status(runs[m.run].events)
      <4>1. H!Bubble(m.run, runs[m.run].events, FALSE).status = H!Status(runs[m.run].events)
        BY DEF H!Bubble
      <4> QED
        BY <2>3, <4>1
    <3>2. runs'[m.run] = runs[m.run]
      BY <1>6, <2>1, <2>3, <3>1
    <3> QED
      BY <2>3, <3>2 DEF IsTrue
  <2> QED
    BY <2>1, <2>2, <2>3 DEF IsTrue
<1>8. RowsTrue'
  BY <1>7 DEF RowsTrue
<1>9. StopsTheRight'
  BY DEF StopsTheRight
<1> QED
  BY <1>3, <1>5, <1>8, <1>9

LEMMA RunStartsKeeps ==
  ASSUME HistoryInv, NEW script, IsSeq(script), H!RunStarts(script) PROVE HistoryInv'
<1> DEFINE run == [events |-> <<>>, script |-> script, over |-> FALSE]
<1>1. IsRun(run)
  <2>1. <<>> \in Seq({}) /\ Len(<<>>) = 0
    OBVIOUS
  <2>2. IsSeq(<<>>)
    BY <2>1, OwnElements DEF IsSeq
  <2> QED
    BY <2>1, <2>2, StatusOfNothing DEF IsRun
<1>2. runs' = Append(runs, run)
  BY DEF H!RunStarts
<1> HIDE DEF run
<1>3. /\ IsSeq(runs') /\ Len(runs) \in Nat /\ DOMAIN runs = 1..Len(runs)
      /\ DOMAIN runs' = 1..Len(runs) + 1
      /\ \A r \in DOMAIN runs : runs'[r] = runs[r]
      /\ runs'[Len(runs) + 1] = run
  BY <1>2, Grown DEF HistoryInv, RunsTyped
<1>4. \A r \in DOMAIN runs' : r \in DOMAIN runs \/ r = Len(runs) + 1
  BY <1>3
<1>5. RunsTyped'
  <2>1. \A r \in DOMAIN runs' : IsRun(runs'[r])
    BY <1>1, <1>3, <1>4 DEF HistoryInv, RunsTyped
  <2> QED
    BY <1>3, <2>1 DEF RunsTyped
<1>6. \A r \in DOMAIN runs : r \in DOMAIN runs' /\ runs'[r] = runs[r] /\ Len(runs[r].events) \in Nat
  BY <1>3 DEF HistoryInv, RunsTyped, IsRun, IsSeq
<1> QED
  BY <1>5, <1>6, RunsGrow DEF H!RunStarts

LEMMA RunGoesOnKeeps ==
  ASSUME HistoryInv, NEW r \in DOMAIN runs, H!RunGoesOn(r) PROVE HistoryInv'
<1> DEFINE run == runs[r]
<1> DEFINE next == IF run.script = <<>> THEN [run EXCEPT !.over = TRUE]
                   ELSE [events |-> Append(run.events, Head(run.script)), script |-> Tail(run.script),
                         over |-> Head(run.script).type \in H!Terminal]
<1>1. IsRun(run) /\ ~run.over
  BY DEF HistoryInv, RunsTyped, H!RunGoesOn
<1>2. runs' = [runs EXCEPT ![r] = next]
  BY DEF H!RunGoesOn
<1>3. IsSeq(run.events) /\ Len(run.events) \in Nat
  BY <1>1 DEF IsRun, IsSeq
<1>4. /\ IsRun(next)
      /\ Len(run.events) <= Len(next.events)
      /\ \A k \in 0..Len(run.events) : SubSeq(next.events, 1, k) = SubSeq(run.events, 1, k)
  <2>1. CASE run.script = <<>>
    <3>1. next = [events |-> run.events, script |-> run.script, over |-> TRUE]
      BY <1>1, <2>1 DEF IsRun
    <3> HIDE DEF next
    <3> QED
      BY <1>1, <1>3, <3>1 DEF IsRun
  <2>2. CASE run.script # <<>>
    <3> DEFINE e == Head(run.script)
    <3>1. next = [events |-> Append(run.events, e), script |-> Tail(run.script), over |-> e.type \in H!Terminal]
      BY <2>2
    <3> HIDE DEF next, e
    <3>2. IsSeq(Tail(run.script))
      BY <1>1, <2>2, Shortened DEF IsRun
    <3>3. /\ IsSeq(next.events) /\ Len(next.events) = Len(run.events) + 1
          /\ \A k \in 0..Len(run.events) : SubSeq(next.events, 1, k) = SubSeq(run.events, 1, k)
      BY <1>3, <3>1, Grown
    <3>4. ~next.over => H!Status(next.events) = "streaming"
      BY <1>1, <1>3, <3>1, StatusGrows DEF IsRun
    <3>5. ASSUME NEW k \in 0..Len(next.events) - 1 PROVE H!Status(SubSeq(next.events, 1, k)) = "streaming"
      <4>1. k \in 0..Len(run.events) /\ SubSeq(next.events, 1, k) = SubSeq(run.events, 1, k)
        BY <1>3, <3>3
      <4>2. CASE k = Len(run.events)
        <5>1. SubSeq(run.events, 1, k) = run.events
          BY <1>3, <4>1, <4>2, Shortcut
        <5> QED
          BY <1>1, <4>1, <5>1 DEF IsRun
      <4>3. CASE k # Len(run.events)
        <5>1. k \in 0..Len(run.events) - 1
          BY <1>3, <4>1, <4>3
        <5> QED
          BY <1>1, <4>1, <5>1 DEF IsRun
      <4> QED
        BY <4>2, <4>3
    <3> QED
      BY <1>3, <3>1, <3>2, <3>3, <3>4, <3>5 DEF IsRun
  <2> QED
    BY <2>1, <2>2
<1> HIDE DEF next
<1>5. DOMAIN runs' = DOMAIN runs /\ runs'[r] = next /\ \A other \in DOMAIN runs \ {r} : runs'[other] = runs[other]
  BY <1>2
<1>6. RunsTyped'
  <2>1. \A other \in DOMAIN runs' : IsRun(runs'[other])
    BY <1>4, <1>5 DEF HistoryInv, RunsTyped
  <2>2. IsSeq(runs')
    <3>1. runs \in Seq({runs[i] : i \in DOMAIN runs} \cup {next})
      BY DEF HistoryInv, RunsTyped, IsSeq
    <3>2. runs' \in Seq({runs[i] : i \in DOMAIN runs} \cup {next})
      BY <1>2, <3>1
    <3> QED
      BY <3>2, OwnElements DEF IsSeq
  <2> QED
    BY <2>1, <2>2 DEF RunsTyped
<1>7. ASSUME NEW other \in DOMAIN runs
      PROVE  /\ other \in DOMAIN runs'
             /\ Len(runs[other].events) <= Len(runs'[other].events)
             /\ \A k \in 0..Len(runs[other].events) :
                  SubSeq(runs'[other].events, 1, k) = SubSeq(runs[other].events, 1, k)
             /\ runs[other].over => runs'[other] = runs[other]
  <2>1. CASE other = r
    BY <1>1, <1>4, <1>5, <2>1
  <2>2. CASE other # r
    <3>1. Len(runs[other].events) \in Nat
      BY DEF HistoryInv, RunsTyped, IsRun, IsSeq
    <3> QED
      BY <1>5, <2>2, <3>1
  <2> QED
    BY <2>1, <2>2
<1> QED
  BY <1>6, <1>7, RunsGrow DEF H!RunGoesOn

-------------------------------------------------------------------------------
\* The loads.

LEMMA LoadsChange ==
  ASSUME HistoryInv, UNCHANGED <<runs, slotAgent, rows, runId, tails, lost>>,
         \A l \in loads' : IsLoad(l)
  PROVE  HistoryInv'
<1>1. \A l \in loads' : IsLoad(l)'
  BY DEF IsLoad, GotOnce, IsRead, Heard
<1>2. RunsTyped' /\ TailsTyped'
  BY DEF HistoryInv, RunsTyped, TailsTyped, IsTail
<1>3. RowsTrue' /\ StopsTheRight'
  BY DEF HistoryInv, RowsTrue, IsTrue, H!Dead, StopsTheRight
<1> QED
  BY <1>1, <1>2, <1>3 DEF HistoryInv

\* The indices of a list that is not empty, in order, are such a list.
LEMMA InOrder ==
  ASSUME NEW n \in Nat \ {0}, NEW d, d = [r \in 1..n |-> r]
  PROVE  d \in Seq(1..n) /\ DOMAIN d = 1..n /\ d # <<>>
<1>1. d \in [1..n -> 1..n] /\ DOMAIN d = 1..n
  OBVIOUS
<1>2. 1 \in DOMAIN d
  BY <1>1
<1>3. d # <<>>
  BY <1>2
<1> QED
  BY <1>1, <1>3

LEMMA NothingRead == GotOnce(<<>>)
<1>1. <<>> \in Seq({<<>>[i] : i \in DOMAIN <<>>}) /\ DOMAIN <<>> = {}
  OBVIOUS
<1> QED
  BY <1>1 DEF GotOnce, IsSeq

LEMMA LoadKeeps ==
  ASSUME HistoryInv, H!Load \/ \E l \in loads : H!Listed(l) \/ H!LoadFails(l) PROVE HistoryInv'
<1>1. UNCHANGED <<runs, slotAgent, rows, runId, tails, lost>>
  BY DEF H!Load, H!Listed, H!LoadFails
<1>2. ASSUME NEW l \in loads' PROVE IsLoad(l)
  <2>1. CASE l \in loads
    BY <2>1 DEF HistoryInv
  <2>2. CASE H!Load /\ l \notin loads
    <3>1. l = [id |-> begun', agent |-> slotAgent, todo |-> None, got |-> <<>>]
      BY <2>2 DEF H!Load
    <3> QED
      BY <3>1, NothingRead DEF IsLoad, HistoryInv
  <2>3. ASSUME NEW was \in loads, H!Listed(was), l \notin loads PROVE IsLoad(l)
    <3>1. IsLoad(was) /\ was.todo = None /\ runs # <<>> /\ l = [was EXCEPT !.todo = [r \in DOMAIN runs |-> r]]
      BY <2>3 DEF HistoryInv, H!Listed
    <3>2. l = [id |-> was.id, agent |-> was.agent, todo |-> [r \in DOMAIN runs |-> r], got |-> <<>>]
      BY <3>1 DEF IsLoad
    <3>3. Len(runs) \in Nat \ {0} /\ DOMAIN runs = 1..Len(runs)
      BY <3>1 DEF HistoryInv, RunsTyped, IsSeq
    <3>4. /\ [r \in DOMAIN runs |-> r] \in Seq(1..Len(runs)) /\ DOMAIN [r \in DOMAIN runs |-> r] = DOMAIN runs
          /\ [r \in DOMAIN runs |-> r] # <<>>
      <4>1. PICK n, d : n = Len(runs) /\ d = [r \in 1..n |-> r]
        OBVIOUS
      <4>2. n \in Nat \ {0} /\ DOMAIN runs = 1..n
        BY <3>3, <4>1
      <4>3. d \in Seq(1..n) /\ DOMAIN d = 1..n /\ d # <<>>
        BY <4>1, <4>2, InOrder
      <4> QED
        BY <4>1, <4>2, <4>3
    <3>5. IsSeq([r \in DOMAIN runs |-> r])
      BY <3>4, OwnElements DEF IsSeq
    <3> QED
      BY <3>1, <3>2, <3>4, <3>5, NothingRead DEF IsLoad
  <2> QED
    BY <2>1, <2>2, <2>3 DEF H!Listed, H!LoadFails
<1> QED
  BY <1>1, <1>2, LoadsChange

\* A run is read: what the load has is still of runs each read once.
LEMMA ReadMore ==
  ASSUME HistoryInv, NEW l \in loads, l.todo # None,
         NEW got, got = l.got \/ got = Append(l.got, [run |-> Head(l.todo), events |-> runs[Head(l.todo)].events,
                                                    live |-> ~runs[Head(l.todo)].over])
  PROVE  /\ GotOnce(got)
         /\ \A i \in DOMAIN got : \/ \E j \in DOMAIN l.got : got[i] = l.got[j]
                                  \/ got[i].run = Head(l.todo)
<1> DEFINE r == Head(l.todo)
<1> DEFINE new == [run |-> r, events |-> runs[r].events, live |-> ~runs[r].over]
<1>1. IsLoad(l)
  BY DEF HistoryInv
<1>2. r = l.todo[1] /\ 1 \in DOMAIN l.todo /\ r \in DOMAIN runs
  BY <1>1, Shortened DEF IsLoad
<1>3. IsRun(runs[r]) /\ Len(runs[r].events) \in Nat
  <2>1. IsRun(runs[r])
    BY <1>2 DEF HistoryInv, RunsTyped
  <2>2. PICK e : e = runs[r].events
    OBVIOUS
  <2>3. IsSeq(e)
    BY <2>1, <2>2 DEF IsRun
  <2>4. Len(e) \in Nat
    BY <2>3 DEF IsSeq
  <2> QED
    BY <2>1, <2>2, <2>4
<1>4. runs[r].events = SubSeq(runs[r].events, 1, Len(runs[r].events))
  BY <1>3, Shortcut DEF IsRun
<1>5. new.run = r /\ new.events = runs[r].events /\ new.live = ~runs[r].over
  OBVIOUS
<1> HIDE DEF new
<1>6. IsRead(new)
  <2>1. Heard(new.run, new.events)
    BY <1>2, <1>3, <1>4, <1>5 DEF Heard
  <2>2. new.live => H!Status(new.events) = "streaming"
    BY <1>3, <1>5 DEF IsRun
  <2> QED
    BY <1>5, <2>1, <2>2 DEF IsRead
<1>7. CASE got = l.got
  BY <1>1, <1>7 DEF IsLoad
<1>8. CASE got = Append(l.got, new)
  <2>1. /\ IsSeq(got) /\ Len(l.got) \in Nat /\ DOMAIN l.got = 1..Len(l.got) /\ DOMAIN got = 1..Len(l.got) + 1
        /\ \A i \in DOMAIN l.got : got[i] = l.got[i]
        /\ got[Len(l.got) + 1] = new
    BY <1>1, <1>8, Grown DEF IsLoad, GotOnce
  <2>2. \A i \in DOMAIN got : (i \in DOMAIN l.got /\ got[i] = l.got[i]) \/ (i = Len(l.got) + 1 /\ got[i] = new)
    BY <2>1
  <2>3. \A i \in DOMAIN l.got : l.got[i].run # r
    BY <1>1, <1>2 DEF IsLoad
  <2>4. \A i, j \in DOMAIN l.got : l.got[i].run = l.got[j].run => i = j
    BY <1>1 DEF IsLoad, GotOnce
  <2>5. \A i \in DOMAIN l.got : IsRead(l.got[i])
    BY <1>1 DEF IsLoad, GotOnce
  <2>6. \A i \in DOMAIN got : IsRead(got[i])
    BY <1>6, <2>2, <2>5
  <2>7. ASSUME NEW i \in DOMAIN got, NEW j \in DOMAIN got, got[i].run = got[j].run PROVE i = j
    BY <1>5, <2>2, <2>3, <2>4, <2>7
  <2> QED
    BY <1>5, <2>1, <2>2, <2>6, <2>7 DEF GotOnce
<1> QED
  BY <1>7, <1>8 DEF new

LEMMA CommittedKeeps ==
  ASSUME HistoryInv, NEW x \in Crew, NEW got, GotOnce(got), H!Committed(x, got),
         UNCHANGED <<runs, slotAgent>>, loads' \subseteq loads
  PROVE  HistoryInv'
<1> DEFINE reads == H!ToSet(got)
<1> DEFINE live == {r \in reads : r.live}
<1> DEFINE bubble(r) == H!Bubble(r.run, r.events, r.live)
<1> DEFINE tail(r) == [agent |-> x, run |-> r.run, read |-> Len(r.events)]
<1>1. /\ \A r \in reads : IsRead(r)
      /\ \A r, q \in reads : r.run = q.run => r = q
  BY DEF GotOnce, H!ToSet
<1>2. /\ rows' = [rows EXCEPT ![x] = {bubble(r) : r \in reads}]
      /\ runId' = IF live = {} THEN None ELSE H!Max({r.run : r \in live})
      /\ tails' = {tail(r) : r \in live}
      /\ lost' = {p \in lost \cup H!Cut : p[1] # x}
  BY DEF H!Committed
<1>3. \A r \in reads : ~r.live \/ H!Status(r.events) = "streaming"
  BY <1>1 DEF IsRead
<1>4. ASSUME NEW r \in reads
      PROVE  /\ bubble(r) = H!Bubble(r.run, r.events, FALSE)
             /\ bubble(r).status = H!Status(r.events)
             /\ bubble(r).run = r.run
             /\ bubble(r) = [run |-> bubble(r).run, segments |-> bubble(r).segments, status |-> bubble(r).status]
  BY <1>3 DEF H!Bubble
<1> HIDE DEF reads, bubble
<1>5. rows'[x] = {bubble(r) : r \in reads} /\ DOMAIN rows' = Crew
      /\ \A y \in Crew \ {x} : rows'[y] = rows[y]
  BY <1>2 DEF HistoryInv, RowsTrue
<1>6. ASSUME NEW r \in live PROVE IsTail(tail(r))'
  <2>1. IsRead(r) /\ H!Status(r.events) = "streaming"
    BY <1>1, <1>3
  <2>2. H!Bubble(r.run, r.events, FALSE) \in rows'[x]
    BY <1>4, <1>5
  <2>3. /\ tail(r).agent = x /\ tail(r).run = r.run /\ tail(r).read = Len(r.events)
        /\ tail(r) = [agent |-> tail(r).agent, run |-> tail(r).run, read |-> tail(r).read]
    OBVIOUS
  <2> HIDE DEF tail
  <2> QED
    BY <2>1, <2>2, <2>3 DEF IsTail, IsRead, Heard
<1>7. TailsTyped'
  <2>1. \A t \in tails' : IsTail(t)'
    BY <1>2, <1>6
  <2>2. \A t, u \in tails' : t.run = u.run => t = u
    BY <1>1, <1>2
  <2> QED
    BY <2>1, <2>2 DEF TailsTyped
<1>8. ASSUME NEW m \in rows'[x]
      PROVE  /\ m = [run |-> m.run, segments |-> m.segments, status |-> m.status]
             /\ m.run \in DOMAIN runs' /\ IsTrue(x, m)'
  <2>1. PICK r \in reads : m = bubble(r)
    BY <1>5
  <2>2. m.run = r.run /\ m.status = H!Status(r.events) /\ m = H!Bubble(r.run, r.events, FALSE)
    BY <1>4, <2>1
  <2>3. IsRead(r)
    BY <1>1
  <2>4. CASE r.live
    <3>1. tail(r) \in tails' /\ tail(r).agent = x /\ tail(r).run = m.run
      BY <1>2, <2>2, <2>4
    <3>2. m.status = "streaming"
      BY <2>2, <2>3, <2>4 DEF IsRead
    <3> QED
      BY <1>4, <2>1, <2>2, <2>3, <3>1, <3>2 DEF IsTrue, IsRead, Heard
  <2>5. CASE ~r.live
    <3>1. runs[m.run].over /\ r.events = runs[m.run].events
      BY <2>2, <2>3, <2>5 DEF IsRead
    <3>2. m.status = "streaming" => H!Dead(m.run)'
      BY <2>2, <3>1 DEF H!Dead
    <3>3. m = H!Bubble(m.run, runs'[m.run].events, FALSE)
      BY <2>2, <3>1
    <3> QED
      BY <1>4, <2>1, <2>2, <2>3, <3>2, <3>3 DEF IsTrue, IsRead, Heard
  <2> QED
    BY <2>4, <2>5
<1>9. ASSUME NEW y \in Crew \ {x}, NEW m \in rows[y] PROVE IsTrue(y, m)'
  <2>1. IsTrue(y, m)
    BY DEF HistoryInv, RowsTrue
  <2>2. <<y, m.run>>[1] = y
    OBVIOUS
  <2>3. CASE <<y, m.run>> \in lost
    BY <1>2, <2>2, <2>3 DEF IsTrue
  <2>4. CASE \E t \in tails : t.agent = y /\ t.run = m.run
    <3>1. <<y, m.run>> \in H!Cut
      BY <2>4 DEF H!Cut
    <3> QED
      BY <1>2, <2>2, <3>1 DEF IsTrue
  <2> QED
    BY <2>1, <2>3, <2>4 DEF IsTrue, H!Dead
<1>10. RowsTrue'
  <2>1. \A m, n \in rows'[x] : m.run = n.run => m = n
    <3> SUFFICES ASSUME NEW m \in rows'[x], NEW n \in rows'[x], m.run = n.run PROVE m = n
      OBVIOUS
    <3>1. PICK r \in reads : m = bubble(r)
      BY <1>5
    <3>2. PICK q \in reads : n = bubble(q)
      BY <1>5
    <3>3. r.run = q.run
      BY <1>4, <3>1, <3>2
    <3>4. r = q
      BY <1>1, <3>3
    <3> QED
      BY <3>1, <3>2, <3>4
  <2> QED
    BY <1>5, <1>8, <1>9, <2>1 DEF RowsTrue, HistoryInv
<1>11. StopsTheRight'
  <2>1. CASE live = {}
    BY <1>2, <2>1 DEF StopsTheRight
  <2>2. CASE live # {}
    <3> DEFINE ids == {r.run : r \in live}
    <3>1. ids \subseteq 1..Len(runs) /\ ids # {} /\ Len(runs) \in Nat
      BY <1>1, <2>2 DEF IsRead, Heard, HistoryInv, RunsTyped, IsSeq
    <3>2. runId' \in ids
      <4> HIDE DEF ids
      <4>1. H!Max(ids) \in ids
        BY <3>1, TopOf
      <4> QED
        BY <1>2, <2>2, <4>1 DEF ids
    <3>3. PICK r \in live : runId' = r.run
      BY <3>2
    <3>4. tail(r) \in tails' /\ tail(r).run = runId'
      BY <1>2, <3>3
    <3> QED
      BY <3>4 DEF StopsTheRight
  <2> QED
    BY <2>1, <2>2
<1>12. RunsTyped' /\ \A l \in loads' : IsLoad(l)'
  BY DEF HistoryInv, RunsTyped, IsLoad, GotOnce, IsRead, Heard
<1> QED
  BY <1>7, <1>10, <1>11, <1>12 DEF HistoryInv

LEMMA PolledKeeps ==
  ASSUME NoneIsNoList, HistoryInv, NEW l \in loads, H!Polled(l) PROVE HistoryInv'
<1>1. IsLoad(l) /\ l.todo # None
  BY DEF HistoryInv, H!Polled
<1>2. PICK got :
        /\ got = l.got \/ got = Append(l.got, [run |-> Head(l.todo), events |-> runs[Head(l.todo)].events,
                                              live |-> ~runs[Head(l.todo)].over])
        /\ IF Len(l.todo) > 1
           THEN /\ loads' = (loads \ {l}) \cup {[l EXCEPT !.todo = Tail(@), !.got = got]}
                /\ UNCHANGED <<rows, runId, tails, lost>>
           ELSE loads' = loads \ {l} /\ H!Committed(l.agent, got)
  BY DEF H!Polled
<1>3. /\ GotOnce(got)
      /\ \A i \in DOMAIN got : (\E j \in DOMAIN l.got : got[i] = l.got[j]) \/ got[i].run = Head(l.todo)
  BY <1>1, <1>2, ReadMore
<1>4. UNCHANGED <<runs, slotAgent>>
  BY DEF H!Polled
<1>5. CASE Len(l.todo) > 1
  <2> DEFINE next == [id |-> l.id, agent |-> l.agent, todo |-> Tail(l.todo), got |-> got]
  <2>1. loads' = (loads \ {l}) \cup {next}
    <3>1. [l EXCEPT !.todo = Tail(@), !.got = got] = next
      <4>1. PICK id, agent1, todo, got1 : l = [id |-> id, agent |-> agent1, todo |-> todo, got |-> got1]
        BY <1>1 DEF IsLoad
      <4>2. PICK rest : rest = Tail(l.todo)
        OBVIOUS
      <4> HIDE DEF next
      <4>a. id = l.id /\ agent1 = l.agent
        BY <4>1
      <4>b. PICK k : k = [l EXCEPT !.todo = rest]
        OBVIOUS
      <4>c. k = [id |-> id, agent |-> agent1, todo |-> rest, got |-> got1]
        BY <4>1, <4>b
      <4>d. [k EXCEPT !.got = got] = [id |-> id, agent |-> agent1, todo |-> rest, got |-> got]
        BY <4>c
      <4>3. [l EXCEPT !.todo = rest, !.got = got] = [id |-> l.id, agent |-> l.agent, todo |-> rest, got |-> got]
        BY <4>a, <4>b, <4>d
      <4>4. [l EXCEPT !.todo = Tail(@), !.got = got] = [l EXCEPT !.todo = rest, !.got = got]
        BY <4>2
      <4> QED
        BY <4>2, <4>3, <4>4 DEF next
    <3> QED
      BY <1>2, <1>5, <3>1
  <2>2. /\ IsSeq(Tail(l.todo)) /\ Len(l.todo) \in Nat \ {0} /\ DOMAIN l.todo = 1..Len(l.todo)
        /\ Len(Tail(l.todo)) = Len(l.todo) - 1 /\ DOMAIN Tail(l.todo) = 1..Len(l.todo) - 1
        /\ \A i \in DOMAIN Tail(l.todo) : Tail(l.todo)[i] = l.todo[i + 1] /\ i + 1 \in DOMAIN l.todo
        /\ Head(l.todo) = l.todo[1] /\ 1 \in DOMAIN l.todo
    BY <1>1, Shortened DEF IsLoad
  <2>3. Tail(l.todo) # <<>>
    BY <1>5, <2>2
  <2>4. \A i \in DOMAIN l.todo : l.todo[i] \in Nat
    BY <1>1 DEF IsLoad, HistoryInv, RunsTyped, IsSeq
  <2>5. Tail(l.todo) # None
    <3>1. Tail(l.todo) \in Seq(Nat)
      <4>1. l.todo \in Seq(Nat)
        BY <1>1, <2>4 DEF IsLoad, IsSeq
      <4> QED
        BY <2>2, <4>1
    <3> QED
      BY <3>1 DEF NoneIsNoList
  <2>6. IsLoad(next)
    <3> DEFINE rest == Tail(l.todo)
    <3>1. \A i \in DOMAIN rest : rest[i] \in DOMAIN runs /\ rest[i] # Head(l.todo)
      BY <1>1, <2>2 DEF IsLoad
    <3>2. \A i, j \in DOMAIN rest : rest[i] = rest[j] => i = j
      BY <1>1, <2>2 DEF IsLoad
    <3>3. \A i \in DOMAIN rest, j \in DOMAIN l.got : rest[i] # l.got[j].run
      BY <1>1, <2>2 DEF IsLoad
    <3>4. \A i \in DOMAIN rest, j \in DOMAIN got : rest[i] # got[j].run
      BY <1>3, <3>1, <3>3
    <3> HIDE DEF rest
    <3> QED
      BY <1>1, <1>3, <2>2, <2>3, <2>5, <3>1, <3>2, <3>4 DEF IsLoad, rest
  <2> QED
    BY <1>2, <1>4, <1>5, <2>1, <2>6, LoadsChange DEF HistoryInv
<1>6. CASE ~(Len(l.todo) > 1)
  BY <1>1, <1>2, <1>3, <1>4, <1>6, CommittedKeeps DEF IsLoad
<1> QED
  BY <1>5, <1>6

-------------------------------------------------------------------------------
\* The tails.

LEMMA TailFrameKeeps == ASSUME HistoryInv, NEW t \in tails, H!TailFrame(t) PROVE HistoryInv'
<1> DEFINE all == runs[t.run].events
<1> DEFINE events == SubSeq(all, 1, t.read + 1)
<1> DEFINE live == H!Status(events) = "streaming"
<1> DEFINE next == [agent |-> t.agent, run |-> t.run, read |-> t.read + 1]
<1>1. IsTail(t) /\ t.read < Len(all)
  BY DEF HistoryInv, TailsTyped, H!TailFrame
<1>2. IsRun(runs[t.run]) /\ Len(all) \in Nat
  <2>1. IsRun(runs[t.run])
    BY <1>1 DEF IsTail, HistoryInv, RunsTyped
  <2> QED
    BY <2>1 DEF IsRun, IsSeq
<1>3. t.read + 1 \in 0..Len(all)
  BY <1>1, <1>2 DEF IsTail
<1>b. PICK bubble : bubble = H!Bubble(t.run, events, FALSE)
  OBVIOUS
<1>4. [t EXCEPT !.read = @ + 1] = next
  <2>1. PICK ag, ru, re : t = [agent |-> ag, run |-> ru, read |-> re]
    BY <1>1 DEF IsTail
  <2> QED
    BY <2>1
<1>5. /\ rows' = [rows EXCEPT ![t.agent] = {IF m.run = t.run THEN bubble ELSE m : m \in @}]
      /\ runId' = IF ~live /\ runId = t.run THEN None ELSE runId
      /\ tails' = (tails \ {t}) \cup (IF live THEN {next} ELSE {})
      /\ UNCHANGED <<runs, slotAgent, loads, lost>>
  BY <1>4, <1>b DEF H!TailFrame
<1>6. /\ bubble = [run |-> bubble.run, segments |-> bubble.segments, status |-> bubble.status]
      /\ bubble.run = t.run /\ bubble.status = H!Status(events)
  BY <1>b DEF H!Bubble
\* An event that ends the run is its last.
<1>7. ~live => events = all
  <2>1. t.read + 1 < Len(all) => live
    <3>1. t.read + 1 < Len(all) => t.read + 1 \in 0..Len(all) - 1
      BY <1>2, <1>3
    <3> QED
      BY <1>2, <3>1 DEF IsRun
  <2>2. t.read + 1 = Len(all) => events = all
    BY <1>2, <1>3, Shortcut DEF IsRun
  <2> QED
    BY <1>2, <1>3, <2>1, <2>2
<1> HIDE DEF all, events
<1>8. /\ t.agent \in Crew /\ DOMAIN rows' = Crew
      /\ rows'[t.agent] = {IF m.run = t.run THEN bubble ELSE m : m \in rows[t.agent]}
      /\ \A y \in Crew \ {t.agent} : rows'[y] = rows[y]
  BY <1>1, <1>5 DEF IsTail, HistoryInv, RowsTrue
<1>9. \E m \in rows[t.agent] : m.run = t.run
  <2>1. H!Bubble(t.run, SubSeq(runs[t.run].events, 1, t.read), FALSE).run = t.run
    BY DEF H!Bubble
  <2> QED
    BY <1>1, <2>1 DEF IsTail
<1>10. bubble \in rows'[t.agent]
  BY <1>8, <1>9
<1>11. next.agent = t.agent /\ next.run = t.run /\ next.read = t.read + 1
       /\ next = [agent |-> next.agent, run |-> next.run, read |-> next.read]
  OBVIOUS
<1> HIDE DEF next
<1>12. live => IsTail(next)'
  BY <1>1, <1>3, <1>5, <1>10, <1>11, <1>b DEF IsTail, all, events
<1>13. ASSUME NEW u \in tails \ {t} PROVE IsTail(u)' /\ u.run # t.run
  <2>1. IsTail(u) /\ u.run # t.run
    BY DEF HistoryInv, TailsTyped
  <2> DEFINE m == H!Bubble(u.run, SubSeq(runs[u.run].events, 1, u.read), FALSE)
  <2>2. m.run = u.run /\ m \in rows[u.agent] /\ u.agent \in Crew
    BY <2>1 DEF H!Bubble, IsTail
  <2> HIDE DEF m
  <2>3. m \in rows'[u.agent]
    BY <1>8, <2>1, <2>2
  <2> QED
    BY <1>5, <2>1, <2>3 DEF IsTail, m
<1>14. TailsTyped'
  <2>1. \A u \in tails' : IsTail(u)'
    BY <1>5, <1>12, <1>13
  <2>2. \A u, v \in tails' : u.run = v.run => u = v
    BY <1>5, <1>11, <1>13 DEF HistoryInv, TailsTyped
  <2> QED
    BY <2>1, <2>2 DEF TailsTyped
<1>15. IsTrue(t.agent, bubble)'
  <2>1. CASE live
    <3>1. next \in tails'
      BY <1>5, <2>1
    <3> QED
      BY <1>6, <1>11, <2>1, <3>1 DEF IsTrue
  <2>2. CASE ~live
    <3>1. bubble = H!Bubble(bubble.run, runs'[bubble.run].events, FALSE)
      BY <1>5, <1>6, <1>7, <1>b, <2>2 DEF all
    <3> QED
      BY <1>6, <2>2, <3>1 DEF IsTrue
  <2> QED
    BY <2>1, <2>2
<1>16. ASSUME NEW x \in Crew, NEW m \in rows[x], x # t.agent \/ m.run # t.run PROVE IsTrue(x, m)'
  <2>1. IsTrue(x, m)
    BY DEF HistoryInv, RowsTrue
  <2>2. ASSUME NEW u \in tails, u.agent = x, u.run = m.run PROVE u \in tails'
    BY <1>5, <1>16, <2>2
  <2> QED
    BY <1>5, <2>1, <2>2 DEF IsTrue, H!Dead
<1>17. RowsTrue'
  <2>1. \A m \in rows'[t.agent] : m = bubble \/ (m \in rows[t.agent] /\ m.run # t.run)
    BY <1>8
  <2>2. \A m, n \in rows'[t.agent] : m.run = n.run => m = n
    BY <1>6, <1>8, <2>1 DEF HistoryInv, RowsTrue
  <2>3. t.run \in DOMAIN runs
    BY <1>1 DEF IsTail
  <2>4. \A m \in rows'[t.agent] :
          /\ m = [run |-> m.run, segments |-> m.segments, status |-> m.status]
          /\ m.run \in DOMAIN runs' /\ IsTrue(t.agent, m)'
    <3> SUFFICES ASSUME NEW m \in rows'[t.agent]
                 PROVE  /\ m = [run |-> m.run, segments |-> m.segments, status |-> m.status]
                        /\ m.run \in DOMAIN runs' /\ IsTrue(t.agent, m)'
      OBVIOUS
    <3>1. CASE m = bubble
      BY <1>5, <1>6, <1>15, <2>3, <3>1
    <3>2. CASE m \in rows[t.agent] /\ m.run # t.run
      BY <1>5, <1>8, <1>16, <3>2 DEF HistoryInv, RowsTrue
    <3> QED
      BY <2>1, <3>1, <3>2
  <2>5. ASSUME NEW y \in Crew \ {t.agent}
        PROVE  /\ \A m \in rows'[y] : /\ m = [run |-> m.run, segments |-> m.segments, status |-> m.status]
                                       /\ m.run \in DOMAIN runs' /\ IsTrue(y, m)'
               /\ \A m, n \in rows'[y] : m.run = n.run => m = n
    BY <1>5, <1>8, <1>16 DEF HistoryInv, RowsTrue
  <2> QED
    BY <1>8, <2>2, <2>4, <2>5 DEF RowsTrue
<1>18. StopsTheRight'
  <2>1. \A u \in tails : u \in tails' \/ (u = t /\ (live => next \in tails'))
    BY <1>5
  <2> QED
    BY <1>5, <1>11, <2>1 DEF HistoryInv, StopsTheRight
<1>19. RunsTyped' /\ \A l \in loads' : IsLoad(l)'
  BY <1>5 DEF HistoryInv, RunsTyped, IsLoad, GotOnce, IsRead, Heard
<1> QED
  BY <1>5, <1>14, <1>17, <1>18, <1>19 DEF HistoryInv

\* Tails are closed, and the bubbles they fed are known to be cut.
LEMMA CutSomeKeeps ==
  ASSUME HistoryInv, NEW some, tails' = tails \ some,
         UNCHANGED <<runs, slotAgent, loads, rows, runId>>,
         lost \subseteq lost', \A t \in some \cap tails : <<t.agent, t.run>> \in lost'
  PROVE  HistoryInv'
<1>1. RunsTyped' /\ \A l \in loads' : IsLoad(l)'
  BY DEF HistoryInv, RunsTyped, IsLoad, GotOnce, IsRead, Heard
<1>2. TailsTyped'
  BY DEF HistoryInv, TailsTyped, IsTail
<1>3. \A x \in Crew : \A m \in rows[x] : IsTrue(x, m) => IsTrue(x, m)'
  BY DEF IsTrue, H!Dead
<1>4. RowsTrue'
  BY <1>3 DEF HistoryInv, RowsTrue
<1>5. StopsTheRight'
  <2>1. \A t \in tails : t.agent \in Crew
    BY DEF HistoryInv, TailsTyped, IsTail
  <2> QED
    BY <2>1 DEF HistoryInv, StopsTheRight
<1> QED
  BY <1>1, <1>2, <1>4, <1>5 DEF HistoryInv

LEMMA SealedTrue ==
  ASSUME NEW m, m = [run |-> m.run, segments |-> m.segments, status |-> m.status]
  PROVE  /\ H!Sealed(m) = [run |-> H!Sealed(m).run, segments |-> H!Sealed(m).segments, status |-> H!Sealed(m).status]
         /\ H!Sealed(m).run = m.run
         /\ m.status # "streaming" => H!Sealed(m) = m
         /\ m.status = "streaming" => H!Sealed(m).status = "done"
<1>1. CASE m.status # "streaming"
  BY <1>1 DEF H!Sealed
<1>2. CASE m.status = "streaming"
  <2>1. PICK r, segments, status : m = [run |-> r, segments |-> segments, status |-> status]
    OBVIOUS
  <2>2. PICK done : H!Sealed(m) = [m EXCEPT !.status = "done", !.segments = done]
    BY <1>2 DEF H!Sealed
  <2>3. PICK k : k = [m EXCEPT !.status = "done"]
    OBVIOUS
  <2>4. k = [run |-> r, segments |-> segments, status |-> "done"]
    BY <2>1, <2>3
  <2>5. H!Sealed(m) = [k EXCEPT !.segments = done]
    BY <2>2, <2>3
  <2>6. H!Sealed(m) = [run |-> r, segments |-> done, status |-> "done"]
    BY <2>4, <2>5
  <2> QED
    BY <1>2, <2>1, <2>6
<1> QED
  BY <1>1, <1>2

LEMMA StopKeeps == ASSUME HistoryInv, H!Stop PROVE HistoryInv'
<1>0. PICK z : z = slotAgent
  OBVIOUS
<1>1. /\ tails' = {} /\ UNCHANGED <<runs, slotAgent, loads, runId>>
      /\ rows' = [rows EXCEPT ![slotAgent] = {H!Sealed(m) : m \in @}]
      /\ lost' = lost \cup H!Cut
  BY DEF H!Stop, H!CutSome
<1>2. /\ z \in Crew /\ DOMAIN rows' = Crew
      /\ rows'[z] = {H!Sealed(m) : m \in rows[z]}
      /\ \A y \in Crew \ {z} : rows'[y] = rows[y]
  BY <1>0, <1>1 DEF HistoryInv, RowsTrue
<1>3. \A t \in tails : <<t.agent, t.run>> \in lost'
  BY <1>1 DEF H!Cut
<1>4. ASSUME NEW x \in Crew, NEW m \in rows[x]
      PROVE  /\ IsTrue(x, m)'
             /\ m.status = "streaming" => <<x, m.run>> \in lost' \/ H!Dead(m.run)'
  <2>1. IsTrue(x, m)
    BY DEF HistoryInv, RowsTrue
  <2> QED
    BY <1>1, <1>3, <2>1 DEF IsTrue, H!Dead
<1>5. RowsTrue'
  <2>1. ASSUME NEW n \in rows'[z]
        PROVE  /\ n = [run |-> n.run, segments |-> n.segments, status |-> n.status]
               /\ n.run \in DOMAIN runs' /\ IsTrue(z, n)'
    <3>1. PICK m \in rows[z] : n = H!Sealed(m)
      BY <1>2
    <3>2. m = [run |-> m.run, segments |-> m.segments, status |-> m.status] /\ m.run \in DOMAIN runs
      BY <1>2 DEF HistoryInv, RowsTrue
    <3>3. /\ n = [run |-> n.run, segments |-> n.segments, status |-> n.status]
          /\ n.run = m.run
          /\ m.status # "streaming" => n = m
      BY <3>1, <3>2, SealedTrue
    <3>4. IsTrue(z, n)'
      <4>1. CASE m.status # "streaming"
        BY <1>2, <1>4, <3>3, <4>1
      <4>2. CASE m.status = "streaming"
        BY <1>2, <1>4, <3>3, <4>2 DEF IsTrue
      <4> QED
        BY <4>1, <4>2
    <3> QED
      BY <1>1, <3>2, <3>3, <3>4
  <2>2. ASSUME NEW n \in rows'[z], NEW k \in rows'[z], n.run = k.run PROVE n = k
    <3>1. PICK m \in rows[z] : n = H!Sealed(m)
      BY <1>2
    <3>2. PICK j \in rows[z] : k = H!Sealed(j)
      BY <1>2
    <3>3. n.run = m.run /\ k.run = j.run
      BY <1>2, <3>1, <3>2, SealedTrue DEF HistoryInv, RowsTrue
    <3>4. m = j
      BY <1>2, <2>2, <3>3 DEF HistoryInv, RowsTrue
    <3> QED
      BY <3>1, <3>2, <3>4
  <2>3. ASSUME NEW y \in Crew \ {z}
        PROVE  /\ \A m \in rows'[y] : /\ m = [run |-> m.run, segments |-> m.segments, status |-> m.status]
                                       /\ m.run \in DOMAIN runs' /\ IsTrue(y, m)'
               /\ \A m, n \in rows'[y] : m.run = n.run => m = n
    BY <1>1, <1>2, <1>4 DEF HistoryInv, RowsTrue
  <2> QED
    BY <1>2, <2>1, <2>2, <2>3 DEF RowsTrue
<1>6. StopsTheRight'
  <2>1. \A t \in tails : t.agent \in Crew
    BY DEF HistoryInv, TailsTyped, IsTail
  <2> QED
    BY <1>1, <1>3, <2>1 DEF HistoryInv, StopsTheRight
<1>7. RunsTyped' /\ TailsTyped' /\ \A l \in loads' : IsLoad(l)'
  BY <1>1 DEF HistoryInv, RunsTyped, TailsTyped, IsLoad, GotOnce, IsRead, Heard
<1> QED
  BY <1>1, <1>5, <1>6, <1>7 DEF HistoryInv

LEMMA DropKeepsHistory == ASSUME HistoryInv, H!Drop PROVE HistoryInv'
<1>1. /\ tails' = {} /\ UNCHANGED <<runs, slotAgent, loads>>
      /\ rows' = [x \in Crew |-> {}] /\ runId' = None
  BY DEF H!Drop, H!CutSome, Crew
<1>2. RowsTrue' /\ StopsTheRight' /\ TailsTyped'
  BY <1>1 DEF RowsTrue, StopsTheRight, TailsTyped
<1>3. RunsTyped' /\ \A l \in loads' : IsLoad(l)'
  BY <1>1 DEF HistoryInv, RunsTyped, IsLoad, GotOnce, IsRead, Heard
<1> QED
  BY <1>1, <1>2, <1>3 DEF HistoryInv

LEMMA ShowKeeps ==
  ASSUME HistoryInv, UNCHANGED <<runs, loads, rows, runId, tails, lost>>, slotAgent' \in Crew
  PROVE  HistoryInv'
<1>1. RunsTyped' /\ \A l \in loads' : IsLoad(l)'
  BY DEF HistoryInv, RunsTyped, IsLoad, GotOnce, IsRead, Heard
<1>2. TailsTyped' /\ StopsTheRight'
  BY DEF HistoryInv, TailsTyped, IsTail, StopsTheRight
<1>3. RowsTrue'
  BY DEF HistoryInv, RowsTrue, IsTrue, H!Dead
<1> QED
  BY <1>1, <1>2, <1>3 DEF HistoryInv

LEMMA CutKeeps ==
  ASSUME HistoryInv, H!Cleanup \/ \E t \in tails : H!TailBreaks(t) PROVE HistoryInv'
<1>1. PICK some : /\ H!CutSome(some) /\ UNCHANGED <<rows, runId>>
                  /\ lost' = lost \cup {<<t.agent, t.run>> : t \in some}
  BY DEF H!Cleanup, H!TailBreaks, H!Cut
<1> QED
  BY <1>1, CutSomeKeeps DEF H!CutSome

LEMMA ScriptsAreSeqs ==
  ASSUME NEW a, NEW b, NEW c, NEW d
  PROVE  IsSeq(<<a, b, c, d>>) /\ IsSeq(<<a, b, c>>)
<1>1. <<a, b, c, d>> \in Seq({a, b, c, d}) /\ <<a, b, c>> \in Seq({a, b, c})
  OBVIOUS
<1> QED
  BY <1>1, OwnElements DEF IsSeq

LEMMA HistoryNextKeeps == ASSUME NoneIsNoList, HistoryInv, H!Next PROVE HistoryInv'
<1>1. ASSUME NEW script, H!RunStarts(script), IsSeq(script) PROVE HistoryInv'
  BY <1>1, RunStartsKeeps
<1>2. ASSUME NEW r \in DOMAIN runs, H!RunGoesOn(r) PROVE HistoryInv'
  BY <1>2, RunGoesOnKeeps
<1>3. ASSUME NEW l \in loads, H!Polled(l) PROVE HistoryInv'
  BY <1>3, PolledKeeps
<1>4. ASSUME NEW t \in tails, H!TailFrame(t) PROVE HistoryInv'
  BY <1>4, TailFrameKeeps
<1>5. ASSUME NEW x \in {forge, mochi}, H!Show(x) PROVE HistoryInv'
  BY <1>5, ShowKeeps DEF H!Show, Crew
<1> QED
  BY <1>1, <1>2, <1>3, <1>4, <1>5, ScriptsAreSeqs, LoadKeeps, CutKeeps, StopKeeps, DropKeepsHistory DEF H!Next

LEMMA HistoryStepKeeps ==
  ASSUME NoneIsNoList, HistoryInv, [MCNext]_mcVars
  PROVE  HistoryInv'
<1>1. H!Next \/ UNCHANGED historyVars
  BY DEF MCNext, Text, History, Waiting, mcVars
<1>2. CASE UNCHANGED historyVars
  <2>1. UNCHANGED <<runs, loads, rows, runId, tails, lost, slotAgent>>
    BY <1>2 DEF historyVars
  <2> QED
    BY <2>1, ShowKeeps DEF HistoryInv
<1> QED
  BY <1>1, <1>2, HistoryNextKeeps

\* However loads overlap: a run has one tail and its bubble shows what the tail has read; a
\* bubble streams only while its run is followed, and one that does not shows all of it; the
\* run that Stop would cancel is followed (loadThreadHistory), unless the tail was cut or
\* the run died without a word.
THEOREM HistoryIsShown == MCSpec => []HistoryShown
<1> USE ThreadAssumption DEF ThreadAssumption, NoneIsNoList
<1>1. MCInit => HistoryInv
  BY HistoryInitKeeps DEF MCInit
<1>2. HistoryInv /\ [MCNext]_mcVars => HistoryInv'
  BY HistoryStepKeeps
<1>3. HistoryInv => HistoryShown
  BY DEF HistoryInv, TailsTyped, IsTail, RowsTrue, IsTrue, StopsTheRight, HistoryShown, H!HistoryShown, Crew
<1> QED
  BY <1>1, <1>2, <1>3, PTL DEF MCSpec

-------------------------------------------------------------------------------
\* What waits, and the commands.

NoneIsNoId == None \notin Nat

\* The parts of the invariant, of rows r, queues q, calls cs, what left ac, commands ex, wiped
\* rows wi, logs lg and ids up to n.
IsRow(row, n) == row = [role |-> row.role, msg |-> row.msg, id |-> row.id] /\ row.id \in 0..n

IsItem(item, n) == item = [msg |-> item.msg, row |-> item.row] /\ item.row \in 1..n

IsCall(c, n) ==
  /\ c = [id |-> c.id, stage |-> c.stage, msg |-> c.msg, agent |-> c.agent, from |-> c.from,
          steer |-> c.steer, row |-> c.row]
  /\ c.agent \in Crew /\ c.from \in {None} \cup 1..n /\ c.row \in {None} \cup 1..n
  /\ c.stage = "execute" <=> c.row # None

RowsTyped(r, n) == /\ DOMAIN r = Crew
                   /\ \A a \in Crew : IsSeq(r[a]) /\ \A i \in DOMAIN r[a] : IsRow(r[a][i], n)

ItemsTyped(q, n) == /\ DOMAIN q = Crew
                    /\ \A a \in Crew : IsSeq(q[a]) /\ \A i \in DOMAIN q[a] : IsItem(q[a][i], n)

LogTyped(lg) == DOMAIN lg = Crew /\ \A a \in Crew : IsSeq(lg[a])

\* A row that is in no log is the only one with its id, an item the only one with its row.
RowsApart(r) ==
  \A a \in Crew : \A i, j \in DOMAIN r[a] : r[a][i].id = r[a][j].id /\ r[a][i].id # 0 => i = j

ItemsApart(q) == \A a \in Crew : \A i, j \in DOMAIN q[a] : q[a][i].row = q[a][j].row => i = j

\* The row of an item has its message, and is there unless a load took it away.
ItemsShown(q, r, wi) ==
  \A a \in Crew : \A j \in DOMAIN q[a] :
    /\ \A i \in DOMAIN r[a] : r[a][i].id = q[a][j].row => r[a][i].msg = q[a][j].msg
    /\ q[a][j].row \notin wi => \E i \in DOMAIN r[a] : r[a][i].id = q[a][j].row

UsersLeft(q, r, ac) ==
  \A a \in Crew : \A i \in DOMAIN r[a] :
    r[a][i].role = "user" => \/ \E j \in DOMAIN q[a] : q[a][j].row = r[a][i].id
                             \/ <<a, r[a][i].msg>> \in ac

LogLeft(lg, ac) == \A a \in Crew : \A i \in DOMAIN lg[a] : <<a, lg[a][i]>> \in ac

\* The item that a send is of.
OfItem(q, a, m, from) == \A j \in DOMAIN q[a] : q[a][j].row = from => q[a][j].msg = m

CallsTyped(q, cs, n) == \A c \in cs : IsCall(c, n) /\ OfItem(q, c.agent, c.msg, c.from)

\* A command has a row of its own, one call, and is told where it was entered.
CommandsApart(q, cs, ex, n) ==
  /\ \A x \in ex : /\ x.agent \in Crew /\ x.row \in 1..n
                   /\ \A a \in Crew : \A j \in DOMAIN q[a] : q[a][j].row # x.row
                   /\ \A c \in cs : c.row = x.row => c.agent = x.agent
  /\ \A c, d \in cs : c.row = d.row /\ c.row # None => c = d

CommandsShown(r, cs, ex, wi) ==
  \A x \in ex : x.row \notin wi =>
    \E i \in DOMAIN r[x.agent] :
      /\ r[x.agent][i].id = x.row
      /\ r[x.agent][i].role = IF \E c \in cs : c.row = x.row THEN "pending" ELSE "result"

\* What the rows and the queues show.
OutboxRight(q, r, cs, ac, ex, wi, n) ==
  /\ RowsTyped(r, n) /\ ItemsTyped(q, n) /\ CallsTyped(q, cs, n)
  /\ RowsApart(r) /\ ItemsApart(q) /\ ItemsShown(q, r, wi) /\ UsersLeft(q, r, ac)
  /\ CommandsApart(q, cs, ex, n) /\ CommandsShown(r, cs, ex, wi)

Outboxed(q, r, cs, ac, ex, wi, lg, n) ==
  n \in Nat /\ LogTyped(lg) /\ LogLeft(lg, ac) /\ OutboxRight(q, r, cs, ac, ex, wi, n)

OutboxInv == /\ tab \in Crew
             /\ Outboxed(queues, slots, awaiting, accepted, executed, wiped, log, made)

\* What Without makes of the first rows of a slot.
Kept(s, ids, n, g) == g[n] = IF n = 0 THEN <<>> ELSE IF s[n].id \in ids THEN g[n - 1] ELSE Append(g[n - 1], s[n])

LEMMA LeastElement ==
  ASSUME NEW I, I \subseteq Nat, I # {}
  PROVE  \E x \in I : \A y \in I : x <= y
<1> DEFINE R == OpToRel(<, Nat)
<1>1. \A x, y \in Nat : x < y => <<x, y>> \in R
  BY DEF OpToRel
<1> HIDE DEF R
<1>2. IsWellFoundedOn(R, Nat)
  BY NatLessThanWellFounded DEF R
<1>3. PICK x \in I : \A y \in I : ~ (<<y, x>> \in R)
  BY <1>2, WFMin
<1>4. x \in Nat
  BY <1>3
<1>5. ASSUME NEW y \in I PROVE x <= y
  <2>1. y \in Nat /\ ~ (<<y, x>> \in R)
    BY <1>3
  <2>2. ~ (y < x)
    BY <1>1, <1>4, <2>1
  <2> QED
    BY <1>4, <2>1, <2>2
<1> QED
  BY <1>5

LEMMA WithoutThem ==
  ASSUME NEW s, IsSeq(s), NEW ids
  PROVE  LET w == O!Without(s, ids)
         IN  /\ IsSeq(w)
             /\ \A k \in DOMAIN w : \E i \in DOMAIN s : w[k] = s[i] /\ s[i].id \notin ids
             /\ \A i \in DOMAIN s : s[i].id \notin ids => \E k \in DOMAIN w : w[k] = s[i]
             /\ (\A i, j \in DOMAIN s : s[i].id = s[j].id /\ s[i].id # 0 => i = j)
                  => \A k, l \in DOMAIN w : w[k].id = w[l].id /\ w[k].id # 0 => k = l
<1> DEFINE body(g) == [n \in 0..Len(s) |-> IF n = 0 THEN <<>> ELSE IF s[n].id \in ids THEN g[n - 1]
                                           ELSE Append(g[n - 1], s[n])]
<1> DEFINE kept == CHOOSE g : g = body(g)
<1> DEFINE one == \A i, j \in DOMAIN s : s[i].id = s[j].id /\ s[i].id # 0 => i = j
<1>1. O!Without(s, ids) = kept[Len(s)]
  BY DEF O!Without
<1>2. Len(s) \in Nat /\ DOMAIN s = 1..Len(s)
  BY DEF IsSeq
<1>3. kept = body(kept)
  <2> DEFINE bad == {m \in 0..Len(s) : ~\E g : \A n \in 0..m : Kept(s, ids, n, g)}
  <2>1. bad = {}
    <3> SUFFICES ASSUME bad # {} PROVE FALSE
      OBVIOUS
    <3>0. bad \subseteq Nat
      OBVIOUS
    <3> HIDE DEF bad
    <3>1. PICK x \in bad : \A y \in bad : x <= y
      BY <3>0, LeastElement
    <3> USE DEF bad
    <3>2. CASE x = 0
      <4>1. \A n \in 0..0 : Kept(s, ids, n, [k \in {0} |-> <<>>])
        BY DEF Kept
      <4> QED
        BY <3>1, <3>2, <4>1
    <3>3. CASE x # 0
      <4>1. x \in Nat /\ x - 1 \in 0..Len(s) /\ x - 1 \notin bad
        BY <1>2, <3>1, <3>3
      <4>2. PICK g : \A n \in 0..x - 1 : Kept(s, ids, n, g)
        BY <4>1
      <4>3. PICK newest : newest = IF s[x].id \in ids THEN g[x - 1] ELSE Append(g[x - 1], s[x])
        OBVIOUS
      <4> DEFINE h == [n \in 0..x |-> IF n = x THEN newest ELSE g[n]]
      <4>4. ASSUME NEW n \in 0..x PROVE Kept(s, ids, n, h)
        <5>1. CASE n = x
          BY <3>3, <4>1, <4>3, <5>1 DEF Kept
        <5>2. CASE n # x
          <6>1. n \in 0..x - 1 /\ n - 1 # x /\ (n # 0 => n - 1 \in 0..x)
            BY <4>1, <5>2
          <6>2. h[n] = g[n] /\ (n # 0 => h[n - 1] = g[n - 1])
            BY <5>2, <6>1
          <6> QED
            BY <4>2, <6>1, <6>2 DEF Kept
        <5> QED
          BY <5>1, <5>2
      <4> QED
        BY <3>1, <4>4
    <3> QED
      BY <3>2, <3>3
  <2>2. PICK g : \A n \in 0..Len(s) : Kept(s, ids, n, g)
    <3>1. Len(s) \in 0..Len(s) /\ Len(s) \notin bad
      BY <1>2, <2>1
    <3> QED
      BY <3>1
  <2> DEFINE f == [n \in 0..Len(s) |-> g[n]]
  <2>3. ASSUME NEW n \in 0..Len(s) PROVE f[n] = IF n = 0 THEN <<>> ELSE IF s[n].id \in ids THEN f[n - 1]
                                             ELSE Append(f[n - 1], s[n])
    <3>1. n # 0 => n - 1 \in 0..Len(s)
      OBVIOUS
    <3> QED
      BY <2>2, <3>1 DEF Kept
  <2>4. f = body(f)
    <3> HIDE DEF f, kept
    <3>1. PICK e : e = body(f)
      OBVIOUS
    <3>2. f = [n \in 0..Len(s) |-> f[n]]
      BY DEF f
    <3>3. \A n \in 0..Len(s) : f[n] = e[n]
      BY <2>3, <3>1
    <3>4. DOMAIN e = 0..Len(s) /\ e = [n \in 0..Len(s) |-> e[n]]
      BY <3>1
    <3> QED
      BY <3>1, <3>2, <3>3, <3>4
  <2> QED
    BY <2>4, Zenon
<1>4. \A n \in 0..Len(s) : kept[n] = IF n = 0 THEN <<>> ELSE IF s[n].id \in ids THEN kept[n - 1]
                                     ELSE Append(kept[n - 1], s[n])
  BY <1>3
<1> HIDE DEF kept, body
<1> DEFINE right(n) ==
      /\ IsSeq(kept[n])
      /\ \A k \in DOMAIN kept[n] : \E i \in 1..n : kept[n][k] = s[i] /\ s[i].id \notin ids
      /\ \A i \in 1..n : s[i].id \notin ids => \E k \in DOMAIN kept[n] : kept[n][k] = s[i]
      /\ one => \A k, l \in DOMAIN kept[n] : kept[n][k].id = kept[n][l].id /\ kept[n][k].id # 0 => k = l
<1> DEFINE bad == {n \in 0..Len(s) : ~right(n)}
<1>5. right(0)
  <2>1. kept[0] = <<>>
    BY <1>2, <1>4
  <2> QED
    BY <2>1 DEF IsSeq
<1>6. ASSUME NEW n \in 1..Len(s), right(n - 1) PROVE right(n)
  <2>1. n \in 0..Len(s) /\ n # 0 /\ n \in Nat /\ 1..n = (1..n - 1) \cup {n} /\ n \in DOMAIN s /\ n \notin 1..n - 1
        /\ 1..n - 1 \subseteq DOMAIN s
    BY <1>2
  <2>2. CASE s[n].id \in ids
    <3>1. kept[n] = kept[n - 1]
      BY <1>4, <2>1, <2>2
    <3> QED
      BY <1>6, <2>1, <2>2, <3>1
  <2>3. CASE s[n].id \notin ids
    <3>1. PICK w : w = kept[n - 1]
      OBVIOUS
    <3>2. kept[n] = Append(w, s[n])
      BY <1>4, <2>1, <2>3, <3>1
    <3>3. /\ IsSeq(w)
          /\ \A k \in DOMAIN w : \E i \in 1..n - 1 : w[k] = s[i] /\ s[i].id \notin ids
          /\ \A i \in 1..n - 1 : s[i].id \notin ids => \E k \in DOMAIN w : w[k] = s[i]
          /\ one => \A k, l \in DOMAIN w : w[k].id = w[l].id /\ w[k].id # 0 => k = l
      BY <1>6, <3>1
    <3> HIDE DEF one
    <3>4. PICK v : v = Append(w, s[n])
      OBVIOUS
    <3>5. /\ IsSeq(v) /\ DOMAIN v = DOMAIN w \cup {Len(w) + 1} /\ Len(w) + 1 \notin DOMAIN w
          /\ v[Len(w) + 1] = s[n] /\ \A k \in DOMAIN w : v[k] = w[k]
      BY <3>3, <3>4, Grown
    <3>6. \A k \in DOMAIN v : \E i \in 1..n : v[k] = s[i] /\ s[i].id \notin ids
      BY <2>1, <2>3, <3>3, <3>5
    <3>7. \A i \in 1..n : s[i].id \notin ids => \E k \in DOMAIN v : v[k] = s[i]
      BY <2>1, <3>3, <3>5
    <3>8. ASSUME one, NEW k \in DOMAIN v, NEW l \in DOMAIN v, v[k].id = v[l].id, v[k].id # 0 PROVE k = l
      <4>1. ASSUME NEW j \in DOMAIN w, v[j].id = s[n].id, s[n].id # 0 PROVE FALSE
        <5>1. PICK i \in 1..n - 1 : w[j] = s[i]
          BY <3>3, <4>1
        <5>2. i = n
          BY <2>1, <3>5, <3>8, <4>1, <5>1 DEF one
        <5> QED
          BY <2>1, <5>2
      <4>2. CASE k \in DOMAIN w /\ l \in DOMAIN w
        BY <3>3, <3>5, <3>8, <4>2
      <4>3. CASE k \notin DOMAIN w \/ l \notin DOMAIN w
        BY <3>5, <3>8, <4>1, <4>3
      <4> QED
        BY <4>2, <4>3
    <3> QED
      BY <3>2, <3>4, <3>5, <3>6, <3>7, <3>8
  <2> QED
    BY <2>2, <2>3
<1> HIDE DEF right
<1>7. bad = {}
  <2> SUFFICES ASSUME bad # {} PROVE FALSE
    OBVIOUS
  <2>0. bad \subseteq Nat
    BY <1>2
  <2> HIDE DEF bad
  <2>1. PICK x \in bad : \A y \in bad : x <= y
    BY <2>0, LeastElement
  <2> USE DEF bad
  <2>2. x \in 1..Len(s) /\ x - 1 \in 0..Len(s) /\ x - 1 \notin bad
    BY <1>2, <1>5, <2>1
  <2>3. right(x - 1)
    BY <2>2
  <2> QED
    BY <1>6, <2>1, <2>2, <2>3
<1>8. right(Len(s))
  BY <1>2, <1>7
<1> QED
  BY <1>1, <1>2, <1>8 DEF right

EachOnce(s) == \A k, l \in DOMAIN s : s[k].row = s[l].row => k = l

\* Beyond the first of two lists that are joined stands the second.
LEMMA JoinedAt ==
  ASSUME NEW T, NEW a \in Seq(T), NEW b \in Seq(T), NEW j \in 1..Len(a) + Len(b), j > Len(a)
  PROVE  (a \o b)[j] = b[j - Len(a)]
  OBVIOUS

LEMMA Dropped ==
  ASSUME NEW s, IsSeq(s), NEW i \in DOMAIN s
  PROVE  LET w == O!RemoveAt(s, i)
         IN  /\ IsSeq(w)
             /\ \A j \in DOMAIN w : \E k \in DOMAIN s : k # i /\ w[j] = s[k]
             /\ \A k \in DOMAIN s : k # i => \E j \in DOMAIN w : w[j] = s[k]
             /\ EachOnce(s) => EachOnce(w)
<1> DEFINE T == {s[k] : k \in DOMAIN s}
<1> DEFINE a == SubSeq(s, 1, i - 1)
<1> DEFINE b == SubSeq(s, i + 1, Len(s))
<1>0. s \in Seq(T)
  BY DEF IsSeq
<1>1. Len(s) \in Nat /\ i \in 1..Len(s) /\ DOMAIN s = 1..Len(s)
  BY <1>0
<1> HIDE DEF T
<1>2. a \in Seq(T) /\ Len(a) = i - 1 /\ \A j \in 1..i - 1 : a[j] = s[j]
  BY <1>0, <1>1
<1>3. b \in Seq(T) /\ Len(b) = Len(s) - i /\ \A j \in 1..Len(s) - i : b[j] = s[i + j]
  BY <1>0, <1>1
<1> HIDE DEF a, b
<1>4. PICK w : w = a \o b
  OBVIOUS
<1>5. w \in Seq(T) /\ DOMAIN w = 1..Len(s) - 1
  <2>a. a \in Seq(T) /\ b \in Seq(T)
    BY <1>2, <1>3
  <2>b. w \in Seq(T)
    BY <1>4, <2>a
  <2>c. Len(w) = Len(a) + Len(b)
    BY <1>4, <2>a
  <2>1. Len(w) = Len(a) + Len(b) /\ DOMAIN w = 1..Len(w)
    BY <2>b, <2>c
  <2>2. Len(w) = Len(s) - 1
    BY <1>1, <1>2, <1>3, <2>1
  <2> QED
    BY <2>b, <2>1, <2>2
<1>6. \A j \in 1..Len(s) - 1 : j < i => w[j] = s[j] /\ j \in DOMAIN s
  BY <1>1, <1>2, <1>3, <1>4
<1>7. ASSUME NEW j \in 1..Len(s) - 1, j >= i PROVE w[j] = s[j + 1] /\ j + 1 \in DOMAIN s
  <2>1. w[j] = b[j - (i - 1)]
    <3>1. j \in 1..Len(a) + Len(b) /\ j > Len(a) /\ Len(a) \in Nat /\ Len(b) \in Nat
      BY <1>1, <1>2, <1>3, <1>7
    <3>2. a \in Seq(T) /\ b \in Seq(T)
      BY <1>2, <1>3
    <3>3. (a \o b)[j] = b[j - Len(a)]
      BY <3>1, <3>2, JoinedAt
    <3> QED
      BY <1>2, <1>4, <3>3
  <2>2. PICK k : k = j - (i - 1)
    OBVIOUS
  <2>3. k \in 1..Len(s) - i /\ i + k = j + 1 /\ j + 1 \in 1..Len(s)
    BY <1>1, <1>7, <2>2
  <2>4. b[k] = s[i + k]
    BY <1>3, <2>3
  <2> QED
    BY <1>1, <2>1, <2>2, <2>3, <2>4
<1>8. O!RemoveAt(s, i) = w
  BY <1>4 DEF O!RemoveAt, a, b
<1>9. IsSeq(w)
  BY <1>5, OwnElements DEF IsSeq
<1>10. \A j \in DOMAIN w : \E k \in DOMAIN s : k # i /\ w[j] = s[k]
  <2> SUFFICES ASSUME NEW j \in DOMAIN w PROVE \E k \in DOMAIN s : k # i /\ w[j] = s[k]
    OBVIOUS
  <2>1. CASE j < i
    BY <1>1, <1>5, <1>6, <2>1
  <2>2. CASE j >= i
    BY <1>1, <1>5, <1>7, <2>2
  <2> QED
    BY <1>1, <1>5, <2>1, <2>2
<1>11. \A k \in DOMAIN s : k # i => \E j \in DOMAIN w : w[j] = s[k]
  <2> SUFFICES ASSUME NEW k \in DOMAIN s, k # i PROVE \E j \in DOMAIN w : w[j] = s[k]
    OBVIOUS
  <2>1. CASE k < i
    BY <1>1, <1>5, <1>6, <2>1
  <2>2. CASE k > i
    <3>1. k - 1 \in 1..Len(s) - 1 /\ k - 1 >= i /\ (k - 1) + 1 = k
      BY <1>1, <2>2
    <3> QED
      BY <1>5, <1>7, <3>1
  <2> QED
    BY <1>1, <2>1, <2>2
<1>12. ASSUME EachOnce(s) PROVE EachOnce(w)
  <2> DEFINE at(j) == IF j < i THEN j ELSE j + 1
  <2>1. \A j \in DOMAIN w : at(j) \in DOMAIN s /\ w[j] = s[at(j)]
    BY <1>1, <1>5, <1>6, <1>7
  <2>2. \A k, l \in DOMAIN w : at(k) = at(l) => k = l
    BY <1>1, <1>5
  <2> HIDE DEF at
  <2> QED
    BY <1>12, <2>1, <2>2 DEF EachOnce
<1> QED
  BY <1>8, <1>9, <1>10, <1>11, <1>12

-------------------------------------------------------------------------------
\* What becomes of the rows and the queues, one change after the other.

LEMMA IdsGrow ==
  ASSUME NEW q, NEW r, NEW cs, NEW ac, NEW ex, NEW wi, NEW n \in Nat, NEW k \in Nat, n <= k,
         OutboxRight(q, r, cs, ac, ex, wi, n)
  PROVE  OutboxRight(q, r, cs, ac, ex, wi, k)
<1>0. 0..n \subseteq 0..k /\ 1..n \subseteq 1..k
  OBVIOUS
<1>1. RowsTyped(r, k)
  BY <1>0 DEF OutboxRight, RowsTyped, IsRow
<1>2. ItemsTyped(q, k)
  BY <1>0 DEF OutboxRight, ItemsTyped, IsItem
<1>3. CallsTyped(q, cs, k)
  BY <1>0 DEF OutboxRight, CallsTyped, IsCall
<1>4. CommandsApart(q, cs, ex, k)
  BY <1>0 DEF OutboxRight, CommandsApart
<1> QED
  BY <1>1, <1>2, <1>3, <1>4 DEF OutboxRight

\* Items only leave.
Fewer(q, p) ==
  /\ DOMAIN p = Crew /\ ItemsApart(p)
  /\ \A a \in Crew : IsSeq(p[a]) /\ \A j \in DOMAIN p[a] : \E k \in DOMAIN q[a] : p[a][j] = q[a][k]

LEMMA FewerItems ==
  ASSUME NEW q, NEW p, NEW r, NEW cs, NEW ac, NEW ex, NEW wi, NEW n,
         OutboxRight(q, r, cs, ac, ex, wi, n), Fewer(q, p)
  PROVE  /\ ItemsTyped(p, n) /\ ItemsShown(p, r, wi) /\ CallsTyped(p, cs, n) /\ CommandsApart(p, cs, ex, n)
         /\ \A a \in Crew : \A m, from : OfItem(q, a, m, from) => OfItem(p, a, m, from)
<1>1. ItemsTyped(p, n)
  BY DEF OutboxRight, ItemsTyped, Fewer
<1>2. ItemsShown(p, r, wi)
  BY DEF OutboxRight, ItemsShown, Fewer
<1>3. \A a \in Crew : \A m, from : OfItem(q, a, m, from) => OfItem(p, a, m, from)
  BY DEF OfItem, Fewer
<1>4. CallsTyped(p, cs, n)
  BY <1>3 DEF OutboxRight, CallsTyped, IsCall
<1>5. CommandsApart(p, cs, ex, n)
  BY DEF OutboxRight, CommandsApart, Fewer
<1> QED
  BY <1>1, <1>2, <1>3, <1>4, <1>5

\* onAccepted.
LEMMA MessageLeaves ==
  ASSUME NEW q, NEW r, NEW cs, NEW ac, NEW ex, NEW wi, NEW n,
         OutboxRight(q, r, cs, ac, ex, wi, n),
         NEW a \in Crew, NEW m, NEW from, OfItem(q, a, m, from)
  PROVE  LET p == O!HeadLeaves(q, a, from)
         IN  OutboxRight(p, r, cs, ac \cup {<<a, m>>}, ex, wi, n) /\ OfItem(p, a, m, from)
<1> DEFINE some == ac \cup {<<a, m>>}
<1>0. UsersLeft(q, r, some)
  BY DEF OutboxRight, UsersLeft
<1>1. CASE from # None /\ q[a] # <<>> /\ Head(q[a]).row = from
  <2>1. PICK p : p = [q EXCEPT ![a] = Tail(@)]
    OBVIOUS
  <2>2. O!HeadLeaves(q, a, from) = p
    BY <1>1, <2>1 DEF O!HeadLeaves
  <2>3. /\ DOMAIN p = Crew /\ p[a] = Tail(q[a]) /\ \A x \in Crew \ {a} : p[x] = q[x]
    BY <2>1 DEF OutboxRight, ItemsTyped
  <2>4. \A x \in Crew : IsSeq(q[x])
    BY DEF OutboxRight, ItemsTyped
  <2>5. /\ IsSeq(p[a]) /\ 1 \in DOMAIN q[a] /\ q[a][1].row = from
        /\ DOMAIN q[a] = 1..Len(q[a]) /\ Len(q[a]) \in Nat /\ DOMAIN p[a] = 1..Len(q[a]) - 1
        /\ \A j \in DOMAIN p[a] : p[a][j] = q[a][j + 1] /\ j + 1 \in DOMAIN q[a]
    BY <1>1, <2>3, <2>4, Shortened
  <2>6. ItemsApart(p)
    <3>1. \A i, j \in DOMAIN p[a] : p[a][i].row = p[a][j].row => i = j
      <4> SUFFICES ASSUME NEW i \in DOMAIN p[a], NEW j \in DOMAIN p[a], p[a][i].row = p[a][j].row PROVE i = j
        OBVIOUS
      <4>1. i + 1 = j + 1
        BY <2>5 DEF OutboxRight, ItemsApart
      <4>2. i \in Nat /\ j \in Nat
        BY <2>5
      <4> QED
        BY <4>1, <4>2
    <3> QED
      BY <2>3, <3>1 DEF OutboxRight, ItemsApart
  <2>7. Fewer(q, p)
    BY <2>3, <2>4, <2>5, <2>6 DEF Fewer
  <2>8. UsersLeft(p, r, some)
    <3> SUFFICES ASSUME NEW x \in Crew, NEW i \in DOMAIN r[x], r[x][i].role = "user"
                 PROVE  (\E j \in DOMAIN p[x] : p[x][j].row = r[x][i].id) \/ <<x, r[x][i].msg>> \in some
      BY DEF UsersLeft
    <3>1. CASE <<x, r[x][i].msg>> \in some
      BY <3>1
    <3>2. CASE \E j \in DOMAIN q[x] : q[x][j].row = r[x][i].id
      <4>1. PICK j \in DOMAIN q[x] : q[x][j].row = r[x][i].id
        BY <3>2
      <4>2. CASE x # a
        BY <2>3, <4>1, <4>2
      <4>3. CASE x = a /\ j = 1
        <5>1. r[x][i].msg = q[x][j].msg
          BY <4>1 DEF OutboxRight, ItemsShown
        <5>2. q[x][j].msg = m
          BY <2>5, <4>3 DEF OfItem
        <5> QED
          BY <4>3, <5>1, <5>2
      <4>4. CASE x = a /\ j # 1
        <5>1. j - 1 \in DOMAIN p[a] /\ (j - 1) + 1 = j
          BY <2>5, <4>4
        <5> QED
          BY <2>5, <4>1, <4>4, <5>1
      <4> QED
        BY <4>2, <4>3, <4>4
    <3> QED
      BY <1>0, <3>1, <3>2 DEF UsersLeft
  <2>9. /\ ItemsTyped(p, n) /\ ItemsShown(p, r, wi) /\ CallsTyped(p, cs, n) /\ CommandsApart(p, cs, ex, n)
        /\ OfItem(p, a, m, from)
    BY <2>7, FewerItems
  <2> QED
    BY <2>2, <2>6, <2>8, <2>9 DEF OutboxRight
<1>2. CASE ~(from # None /\ q[a] # <<>> /\ Head(q[a]).row = from)
  BY <1>0, <1>2 DEF O!HeadLeaves, OutboxRight
<1> QED
  BY <1>1, <1>2

\* A row is added to the slot of an agent.
Put(r, a, slot, next) == DOMAIN next = Crew /\ next[a] = slot /\ \A x \in Crew \ {a} : next[x] = r[x]

Told(r, a, row, next) == Put(r, a, Append(r[a], row), next)

NewRow(r, a, row, n) == IsRow(row, n) /\ \A i \in DOMAIN r[a] : r[a][i].id # row.id

RowIn(r, a, row) == \E i \in DOMAIN r[a] : r[a][i] = row

LEMMA RowTold ==
  ASSUME NoneIsNoId, NEW q, NEW r, NEW cs, NEW ac, NEW ex, NEW wi, NEW n \in Nat, NEW k \in Nat, n <= k,
         OutboxRight(q, r, cs, ac, ex, wi, n),
         NEW a \in Crew, NEW row, NewRow(r, a, row, k), OfItem(q, a, row.msg, row.id),
         NEW next, Told(r, a, row, next)
  PROVE  /\ RowsTyped(next, k) /\ RowsApart(next) /\ ItemsShown(q, next, wi)
         /\ CommandsShown(next, cs, ex, wi) /\ RowIn(next, a, row)
         /\ \A x \in Crew : \A i \in DOMAIN next[x] :
              (x = a /\ next[x][i] = row) \/ RowIn(r, x, next[x][i])
<1>0. IsRow(row, k) /\ \A i \in DOMAIN r[a] : r[a][i].id # row.id
  BY DEF NewRow
<1>1. DOMAIN next = Crew /\ next[a] = Append(r[a], row) /\ \A x \in Crew \ {a} : next[x] = r[x]
  BY DEF Told, Put
<1>2. /\ IsSeq(next[a]) /\ DOMAIN next[a] = DOMAIN r[a] \cup {Len(r[a]) + 1}
      /\ \A i \in DOMAIN r[a] : next[a][i] = r[a][i]
      /\ next[a][Len(r[a]) + 1] = row
  <2>1. IsSeq(r[a])
    BY DEF OutboxRight, RowsTyped
  <2>2. /\ IsSeq(Append(r[a], row)) /\ Len(r[a]) \in Nat /\ DOMAIN r[a] = 1..Len(r[a])
        /\ DOMAIN Append(r[a], row) = 1..Len(r[a]) + 1
        /\ \A i \in DOMAIN r[a] : Append(r[a], row)[i] = r[a][i]
        /\ Append(r[a], row)[Len(r[a]) + 1] = row
    BY <2>1, Grown
  <2> QED
    BY <1>1, <2>2
<1>3. RowsTyped(next, k)
  <2>1. ASSUME NEW x \in Crew, NEW i \in DOMAIN r[x] PROVE IsRow(r[x][i], k)
    <3>1. IsRow(r[x][i], n)
      BY DEF OutboxRight, RowsTyped
    <3> QED
      BY <3>1 DEF IsRow
  <2>2. \A i \in DOMAIN next[a] : IsRow(next[a][i], k)
    BY <1>0, <1>2, <2>1
  <2>3. \A x \in Crew \ {a} : IsSeq(next[x]) /\ \A i \in DOMAIN next[x] : IsRow(next[x][i], k)
    BY <1>1, <2>1 DEF OutboxRight, RowsTyped
  <2> QED
    BY <1>1, <1>2, <2>2, <2>3 DEF RowsTyped
<1>4. RowsApart(next)
  <2>1. \A i, j \in DOMAIN next[a] : next[a][i].id = next[a][j].id /\ next[a][i].id # 0 => i = j
    BY <1>0, <1>2 DEF OutboxRight, RowsApart
  <2>2. \A x \in Crew \ {a} : \A i, j \in DOMAIN next[x] :
          next[x][i].id = next[x][j].id /\ next[x][i].id # 0 => i = j
    BY <1>1 DEF OutboxRight, RowsApart
  <2> QED
    BY <2>1, <2>2 DEF RowsApart
<1>5. ItemsShown(q, next, wi)
  <2> SUFFICES ASSUME NEW x \in Crew, NEW j \in DOMAIN q[x]
               PROVE  /\ \A i \in DOMAIN next[x] : next[x][i].id = q[x][j].row => next[x][i].msg = q[x][j].msg
                      /\ q[x][j].row \notin wi => \E i \in DOMAIN next[x] : next[x][i].id = q[x][j].row
    BY DEF ItemsShown
  <2>1. /\ \A i \in DOMAIN r[x] : r[x][i].id = q[x][j].row => r[x][i].msg = q[x][j].msg
        /\ q[x][j].row \notin wi => \E i \in DOMAIN r[x] : r[x][i].id = q[x][j].row
    BY DEF OutboxRight, ItemsShown
  <2>2. CASE x # a
    BY <1>1, <2>1, <2>2
  <2>3. CASE x = a
    <3>1. row.id = q[a][j].row => row.msg = q[a][j].msg
      BY <2>3 DEF OfItem
    <3> QED
      BY <1>2, <2>1, <2>3, <3>1
  <2> QED
    BY <2>2, <2>3
<1>6. CommandsShown(next, cs, ex, wi)
  <2> SUFFICES ASSUME NEW x \in ex, x.row \notin wi
               PROVE  \E i \in DOMAIN next[x.agent] :
                        /\ next[x.agent][i].id = x.row
                        /\ next[x.agent][i].role = IF \E c \in cs : c.row = x.row THEN "pending" ELSE "result"
    BY DEF CommandsShown
  <2>1. x.agent \in Crew
    BY DEF OutboxRight, CommandsApart
  <2>2. PICK i \in DOMAIN r[x.agent] :
          /\ r[x.agent][i].id = x.row
          /\ r[x.agent][i].role = IF \E c \in cs : c.row = x.row THEN "pending" ELSE "result"
    BY DEF OutboxRight, CommandsShown
  <2>3. i \in DOMAIN next[x.agent] /\ next[x.agent][i] = r[x.agent][i]
    BY <1>1, <1>2, <2>1
  <2> QED
    BY <2>2, <2>3
<1>7. ASSUME NEW x \in Crew, NEW i \in DOMAIN next[x]
      PROVE  (x = a /\ next[x][i] = row) \/ RowIn(r, x, next[x][i])
  <2>1. CASE x = a
    BY <1>2, <2>1 DEF RowIn
  <2>2. CASE x # a
    BY <1>1, <2>2 DEF RowIn
  <2> QED
    BY <2>1, <2>2
<1>8. RowIn(next, a, row)
  BY <1>2 DEF RowIn
<1> QED
  BY <1>3, <1>4, <1>5, <1>6, <1>7, <1>8

LEMMA RowTells ==
  ASSUME NoneIsNoId, NEW q, NEW r, NEW cs, NEW ac, NEW ex, NEW wi, NEW n \in Nat, NEW k \in Nat, n <= k,
         OutboxRight(q, r, cs, ac, ex, wi, n),
         NEW a \in Crew, NEW row, NewRow(r, a, row, k), OfItem(q, a, row.msg, row.id),
         row.role = "user" => <<a, row.msg>> \in ac,
         NEW next, Told(r, a, row, next)
  PROVE  OutboxRight(q, next, cs, ac, ex, wi, k)
<1>1. /\ RowsTyped(next, k) /\ RowsApart(next) /\ ItemsShown(q, next, wi) /\ CommandsShown(next, cs, ex, wi)
      /\ \A x \in Crew : \A i \in DOMAIN next[x] : (x = a /\ next[x][i] = row) \/ RowIn(r, x, next[x][i])
  BY RowTold
<1>2. OutboxRight(q, r, cs, ac, ex, wi, k)
  BY IdsGrow
<1>3. UsersLeft(q, next, ac)
  <2> SUFFICES ASSUME NEW x \in Crew, NEW i \in DOMAIN next[x], next[x][i].role = "user"
               PROVE  (\E j \in DOMAIN q[x] : q[x][j].row = next[x][i].id) \/ <<x, next[x][i].msg>> \in ac
    BY DEF UsersLeft
  <2>1. CASE x = a /\ next[x][i] = row
    BY <2>1
  <2>2. CASE RowIn(r, x, next[x][i])
    BY <2>2 DEF OutboxRight, UsersLeft, RowIn
  <2> QED
    BY <1>1, <2>1, <2>2
<1> QED
  BY <1>1, <1>2, <1>3 DEF OutboxRight

\* A call begins to wait, or is answered, for something else than a command.
LEMMA CallBegins ==
  ASSUME NoneIsNoId, NEW q, NEW r, NEW cs, NEW ac, NEW ex, NEW wi, NEW n,
         OutboxRight(q, r, cs, ac, ex, wi, n),
         NEW c, IsCall(c, n), c.row = None, OfItem(q, c.agent, c.msg, c.from)
  PROVE  OutboxRight(q, r, cs \cup {c}, ac, ex, wi, n)
<1>1. \A x \in ex : x.row # None
  BY DEF OutboxRight, CommandsApart, NoneIsNoId
<1>2. CommandsApart(q, cs \cup {c}, ex, n)
  BY <1>1 DEF OutboxRight, CommandsApart
<1>3. CallsTyped(q, cs \cup {c}, n)
  BY DEF OutboxRight, CallsTyped
<1>4. CommandsShown(r, cs \cup {c}, ex, wi)
  BY <1>1 DEF OutboxRight, CommandsShown
<1> QED
  BY <1>2, <1>3, <1>4 DEF OutboxRight

LEMMA CallEnds ==
  ASSUME NoneIsNoId, NEW q, NEW r, NEW cs, NEW ac, NEW ex, NEW wi, NEW n,
         OutboxRight(q, r, cs, ac, ex, wi, n), NEW c \in cs, c.row = None
  PROVE  OutboxRight(q, r, cs \ {c}, ac, ex, wi, n)
<1>1. \A x \in ex : x.row # None
  BY DEF OutboxRight, CommandsApart, NoneIsNoId
<1>2. CommandsApart(q, cs \ {c}, ex, n)
  BY DEF OutboxRight, CommandsApart
<1>3. CallsTyped(q, cs \ {c}, n)
  BY DEF OutboxRight, CallsTyped
<1>4. CommandsShown(r, cs \ {c}, ex, wi)
  BY <1>1 DEF OutboxRight, CommandsShown
<1> QED
  BY <1>2, <1>3, <1>4 DEF OutboxRight

\* The server is asked to run a command, and has answered.
LEMMA CommandBegins ==
  ASSUME NoneIsNoId, NEW q, NEW r, NEW cs, NEW ac, NEW ex, NEW wi, NEW n \in Nat, NEW k, k = n + 1,
         OutboxRight(q, r, cs, ac, ex, wi, n), NEW m,
         NEW c, IsCall(c, k), c.row = k, OfItem(q, c.agent, c.msg, c.from),
         NEW row, row = O!Row("pending", m, k), NEW next, Told(r, c.agent, row, next),
         NEW x, x = [agent |-> c.agent, row |-> k]
  PROVE  OutboxRight(q, next, cs \cup {c}, ac, ex \cup {x}, wi, k)
<1>1. PICK a : a = c.agent
  OBVIOUS
<1>2. /\ a \in Crew /\ k \in Nat /\ n <= k /\ k # 0 /\ k \notin 0..n /\ k \in 1..k
      /\ IsRow(row, k) /\ row.id = k /\ row.msg = m /\ row.role = "pending"
      /\ x.agent = a /\ x.row = k
  BY <1>1 DEF IsCall, IsRow, O!Row
<1>3. OutboxRight(q, r, cs, ac, ex, wi, k)
  BY <1>2, IdsGrow
<1>4. /\ \A y \in Crew : \A i \in DOMAIN r[y] : r[y][i].id # k
      /\ \A y \in Crew : \A j \in DOMAIN q[y] : q[y][j].row # k
      /\ \A d \in cs : d.row # k
      /\ \A y \in ex : y.row # k
  <2>1. 1..n \subseteq 0..n
    BY <1>2
  <2>2. k # None
    BY <1>2 DEF NoneIsNoId
  <2> QED
    BY <1>2, <2>1, <2>2
    DEF OutboxRight, RowsTyped, IsRow, ItemsTyped, IsItem, CallsTyped, IsCall, CommandsApart
<1>5. OfItem(q, a, row.msg, row.id)
  BY <1>2, <1>4 DEF OfItem
<1>6. NewRow(r, a, row, k)
  BY <1>2, <1>4 DEF NewRow
<1>7. /\ RowsTyped(next, k) /\ RowsApart(next) /\ ItemsShown(q, next, wi) /\ CommandsShown(next, cs, ex, wi)
      /\ RowIn(next, a, row)
      /\ \A y \in Crew : \A i \in DOMAIN next[y] : (y = a /\ next[y][i] = row) \/ RowIn(r, y, next[y][i])
  BY <1>1, <1>2, <1>5, <1>6, RowTold
<1>8. UsersLeft(q, next, ac)
  <2> SUFFICES ASSUME NEW y \in Crew, NEW i \in DOMAIN next[y], next[y][i].role = "user"
               PROVE  (\E j \in DOMAIN q[y] : q[y][j].row = next[y][i].id) \/ <<y, next[y][i].msg>> \in ac
    BY DEF UsersLeft
  <2>1. RowIn(r, y, next[y][i])
    BY <1>2, <1>7
  <2> QED
    BY <2>1 DEF OutboxRight, UsersLeft, RowIn
<1>9. CommandsShown(next, cs \cup {c}, ex \cup {x}, wi)
  <2> SUFFICES ASSUME NEW y \in ex \cup {x}, y.row \notin wi
               PROVE  \E i \in DOMAIN next[y.agent] :
                        /\ next[y.agent][i].id = y.row
                        /\ next[y.agent][i].role =
                             IF \E d \in cs \cup {c} : d.row = y.row THEN "pending" ELSE "result"
    BY DEF CommandsShown
  <2>1. CASE y = x
    BY <1>2, <1>7, <2>1 DEF RowIn
  <2>2. CASE y \in ex
    <3>1. (\E d \in cs \cup {c} : d.row = y.row) <=> \E d \in cs : d.row = y.row
      BY <1>4, <2>2
    <3> QED
      BY <1>7, <2>2, <3>1 DEF CommandsShown
  <2> QED
    BY <2>1, <2>2
<1>10. CallsTyped(q, cs \cup {c}, k)
  BY <1>3 DEF OutboxRight, CallsTyped
<1>11. CommandsApart(q, cs \cup {c}, ex \cup {x}, k)
  BY <1>1, <1>2, <1>3, <1>4 DEF OutboxRight, CommandsApart
<1> QED
  BY <1>3, <1>7, <1>8, <1>9, <1>10, <1>11 DEF OutboxRight

Results(slot, id) == [i \in DOMAIN slot |-> IF slot[i].id = id THEN [slot[i] EXCEPT !.role = "result"] ELSE slot[i]]

LEMMA CommandEnds ==
  ASSUME NoneIsNoId, NEW q, NEW r, NEW cs, NEW ac, NEW ex, NEW wi, NEW n,
         OutboxRight(q, r, cs, ac, ex, wi, n), NEW c \in cs, c.stage = "execute",
         NEW next, Put(r, c.agent, Results(r[c.agent], c.row), next)
  PROVE  OutboxRight(q, next, cs \ {c}, ac, ex, wi, n)
<1>1. PICK a, k : a = c.agent /\ k = c.row
  OBVIOUS
<1>0. /\ DOMAIN next = Crew /\ \A x \in Crew \ {a} : next[x] = r[x]
      /\ next[a] = [i \in DOMAIN r[a] |-> IF r[a][i].id = k THEN [r[a][i] EXCEPT !.role = "result"] ELSE r[a][i]]
  BY <1>1 DEF Put, Results
<1>2. a \in Crew /\ k # None /\ IsCall(c, n)
  BY <1>1 DEF OutboxRight, CallsTyped, IsCall
<1>3. /\ IsSeq(r[a]) /\ DOMAIN next[a] = DOMAIN r[a]
      /\ \A i \in DOMAIN r[a] : IsRow(next[a][i], n)
      /\ \A i \in DOMAIN r[a] : next[a][i].id = r[a][i].id
      /\ \A i \in DOMAIN r[a] : next[a][i].msg = r[a][i].msg
      /\ \A i \in DOMAIN r[a] : r[a][i].id = k => next[a][i].role = "result"
      /\ \A i \in DOMAIN r[a] : r[a][i].id # k => next[a][i].role = r[a][i].role
  <2>1. IsSeq(r[a]) /\ DOMAIN next[a] = DOMAIN r[a]
    BY <1>0, <1>2 DEF OutboxRight, RowsTyped
  <2>2. ASSUME NEW i \in DOMAIN r[a]
        PROVE  /\ IsRow(next[a][i], n) /\ next[a][i].id = r[a][i].id /\ next[a][i].msg = r[a][i].msg
               /\ r[a][i].id = k => next[a][i].role = "result"
               /\ r[a][i].id # k => next[a][i].role = r[a][i].role
    <3>1. IsRow(r[a][i], n)
      BY <1>2 DEF OutboxRight, RowsTyped
    <3>2. PICK role, msg, id : r[a][i] = [role |-> role, msg |-> msg, id |-> id] /\ id \in 0..n
      BY <3>1 DEF IsRow
    <3>3. CASE r[a][i].id = k
      <4>1. next[a][i] = [r[a][i] EXCEPT !.role = "result"]
        BY <1>0, <3>3
      <4>2. next[a][i] = [role |-> "result", msg |-> msg, id |-> id]
        BY <3>2, <4>1
      <4> QED
        BY <3>2, <3>3, <4>2 DEF IsRow
    <3>4. CASE r[a][i].id # k
      <4>1. next[a][i] = r[a][i]
        BY <1>0, <3>4
      <4> QED
        BY <3>1, <3>4, <4>1
    <3> QED
      BY <3>3, <3>4
  <2> QED
    BY <2>1, <2>2
<1>4. DOMAIN next = Crew /\ \A x \in Crew \ {a} : next[x] = r[x]
  BY <1>0
<1>5. RowsTyped(next, n)
  <2>1. IsSeq(next[a])
    <3>1. Len(r[a]) \in Nat /\ DOMAIN r[a] = 1..Len(r[a])
      BY <1>3 DEF IsSeq
    <3>2. PICK v : v = next[a]
      OBVIOUS
    <3>3. v = [i \in 1..Len(r[a]) |-> v[i]]
      BY <1>0, <3>1, <3>2
    <3>4. v \in Seq({v[i] : i \in 1..Len(r[a])})
      BY <3>1, <3>3
    <3> QED
      BY <3>2, <3>3, <3>4 DEF IsSeq
  <2>2. \A i \in DOMAIN next[a] : IsRow(next[a][i], n)
    BY <1>3
  <2> QED
    BY <1>4, <2>1, <2>2 DEF OutboxRight, RowsTyped
<1>6. RowsApart(next)
  <2>1. \A i, j \in DOMAIN next[a] : next[a][i].id = next[a][j].id /\ next[a][i].id # 0 => i = j
    BY <1>2, <1>3 DEF OutboxRight, RowsApart
  <2> QED
    BY <1>4, <2>1 DEF OutboxRight, RowsApart
<1>7. ItemsShown(q, next, wi)
  <2>1. \A j \in DOMAIN q[a] :
          /\ \A i \in DOMAIN next[a] : next[a][i].id = q[a][j].row => next[a][i].msg = q[a][j].msg
          /\ q[a][j].row \notin wi => \E i \in DOMAIN next[a] : next[a][i].id = q[a][j].row
    BY <1>2, <1>3 DEF OutboxRight, ItemsShown
  <2> QED
    BY <1>4, <2>1 DEF OutboxRight, ItemsShown
<1>8. UsersLeft(q, next, ac)
  <2>1. \A i \in DOMAIN next[a] :
          next[a][i].role = "user" => \/ \E j \in DOMAIN q[a] : q[a][j].row = next[a][i].id
                                      \/ <<a, next[a][i].msg>> \in ac
    BY <1>2, <1>3 DEF OutboxRight, UsersLeft
  <2> QED
    BY <1>4, <2>1 DEF OutboxRight, UsersLeft
<1>9. CommandsShown(next, cs \ {c}, ex, wi)
  <2> SUFFICES ASSUME NEW x \in ex, x.row \notin wi
               PROVE  \E i \in DOMAIN next[x.agent] :
                        /\ next[x.agent][i].id = x.row
                        /\ next[x.agent][i].role =
                             IF \E d \in cs \ {c} : d.row = x.row THEN "pending" ELSE "result"
    BY DEF CommandsShown
  <2>1. PICK y, z : y = x.agent /\ z = x.row
    OBVIOUS
  <2>2. PICK i \in DOMAIN r[y] : /\ r[y][i].id = z
                                 /\ r[y][i].role = IF \E d \in cs : d.row = z THEN "pending" ELSE "result"
    BY <2>1 DEF OutboxRight, CommandsShown
  <2>3. y \in Crew /\ (k = z => y = a)
    BY <1>1, <2>1 DEF OutboxRight, CommandsApart
  <2>4. CASE z = k
    <3>1. ~\E d \in cs \ {c} : d.row = z
      BY <1>1, <1>2, <2>4 DEF OutboxRight, CommandsApart
    <3>2. i \in DOMAIN next[y] /\ next[y][i].id = z /\ next[y][i].role = "result"
      BY <1>3, <2>2, <2>3, <2>4
    <3> QED
      BY <2>1, <3>1, <3>2
  <2>5. CASE z # k
    <3>1. (\E d \in cs \ {c} : d.row = z) <=> \E d \in cs : d.row = z
      BY <1>1, <2>5
    <3>2. i \in DOMAIN next[y] /\ next[y][i].id = z /\ next[y][i].role = r[y][i].role
      <4>1. CASE y = a
        BY <1>3, <2>2, <2>5, <4>1
      <4>2. CASE y # a
        BY <1>4, <2>2, <2>3, <4>2
      <4> QED
        BY <4>1, <4>2
    <3> QED
      BY <2>1, <2>2, <3>1, <3>2
  <2> QED
    BY <2>4, <2>5
<1>10. CommandsApart(q, cs \ {c}, ex, n) /\ CallsTyped(q, cs \ {c}, n)
  BY DEF OutboxRight, CommandsApart, CallsTyped
<1> QED
  BY <1>5, <1>6, <1>7, <1>8, <1>9, <1>10 DEF OutboxRight

\* Items are taken back with their rows.
LEMMA ItemsTaken ==
  ASSUME NEW q, NEW r, NEW cs, NEW ac, NEW ex, NEW wi, NEW n,
         OutboxRight(q, r, cs, ac, ex, wi, n),
         NEW a \in Crew, NEW ids, \A id \in ids : \E j \in DOMAIN q[a] : q[a][j].row = id,
         NEW p, Fewer(q, p), \A x \in Crew \ {a} : p[x] = q[x],
         \A j \in DOMAIN q[a] : q[a][j].row \notin ids => \E k \in DOMAIN p[a] : p[a][k] = q[a][j],
         \A j \in DOMAIN p[a] : p[a][j].row \notin ids,
         NEW w, w = O!Without(r[a], ids), NEW next, Put(r, a, w, next)
  PROVE  OutboxRight(p, next, cs, ac, ex, wi, n)
<1>2. IsSeq(r[a])
  BY DEF OutboxRight, RowsTyped
<1>3. /\ IsSeq(w)
      /\ \A k \in DOMAIN w : \E i \in DOMAIN r[a] : w[k] = r[a][i] /\ r[a][i].id \notin ids
      /\ \A i \in DOMAIN r[a] : r[a][i].id \notin ids => \E k \in DOMAIN w : w[k] = r[a][i]
  BY <1>2, WithoutThem
<1>4. \A k, l \in DOMAIN w : w[k].id = w[l].id /\ w[k].id # 0 => k = l
  <2>1. \A i, j \in DOMAIN r[a] : r[a][i].id = r[a][j].id /\ r[a][i].id # 0 => i = j
    BY DEF OutboxRight, RowsApart
  <2> QED
    BY <1>2, <2>1, WithoutThem
<1>5. DOMAIN next = Crew /\ next[a] = w /\ \A x \in Crew \ {a} : next[x] = r[x]
  BY DEF Put
<1>6. /\ ItemsTyped(p, n) /\ ItemsShown(p, r, wi) /\ CallsTyped(p, cs, n) /\ CommandsApart(p, cs, ex, n)
      /\ ItemsApart(p)
  <2>1. ItemsApart(p)
    BY DEF Fewer
  <2> QED
    BY <2>1, FewerItems
<1>7. RowsTyped(next, n)
  <2>1. \A i \in DOMAIN w : IsRow(w[i], n)
    BY <1>3 DEF OutboxRight, RowsTyped
  <2> QED
    BY <1>3, <1>5, <2>1 DEF OutboxRight, RowsTyped
<1>8. RowsApart(next)
  BY <1>4, <1>5 DEF OutboxRight, RowsApart
<1>9. ItemsShown(p, next, wi)
  <2>1. ASSUME NEW j \in DOMAIN p[a]
        PROVE  /\ \A i \in DOMAIN w : w[i].id = p[a][j].row => w[i].msg = p[a][j].msg
               /\ p[a][j].row \notin wi => \E i \in DOMAIN w : w[i].id = p[a][j].row
    <3>1. /\ \A i \in DOMAIN r[a] : r[a][i].id = p[a][j].row => r[a][i].msg = p[a][j].msg
          /\ p[a][j].row \notin wi => \E i \in DOMAIN r[a] : r[a][i].id = p[a][j].row
          /\ p[a][j].row \notin ids
      BY <1>6 DEF ItemsShown
    <3> QED
      BY <1>3, <3>1
  <2> QED
    BY <1>5, <1>6, <2>1 DEF ItemsShown
<1>10. UsersLeft(p, next, ac)
  <2>1. ASSUME NEW i \in DOMAIN w, w[i].role = "user"
        PROVE  (\E j \in DOMAIN p[a] : p[a][j].row = w[i].id) \/ <<a, w[i].msg>> \in ac
    <3>1. PICK k \in DOMAIN r[a] : w[i] = r[a][k] /\ r[a][k].id \notin ids
      BY <1>3
    <3>2. (\E j \in DOMAIN q[a] : q[a][j].row = w[i].id) \/ <<a, w[i].msg>> \in ac
      BY <2>1, <3>1 DEF OutboxRight, UsersLeft
    <3> QED
      BY <3>1, <3>2
  <2> QED
    BY <1>5, <2>1 DEF OutboxRight, UsersLeft
<1>11. CommandsShown(next, cs, ex, wi)
  <2> SUFFICES ASSUME NEW x \in ex, x.row \notin wi
               PROVE  \E i \in DOMAIN next[x.agent] :
                        /\ next[x.agent][i].id = x.row
                        /\ next[x.agent][i].role = IF \E d \in cs : d.row = x.row THEN "pending" ELSE "result"
    BY DEF CommandsShown
  <2>1. PICK y, z : y = x.agent /\ z = x.row
    OBVIOUS
  <2>2. PICK i \in DOMAIN r[y] : /\ r[y][i].id = z
                                 /\ r[y][i].role = IF \E d \in cs : d.row = z THEN "pending" ELSE "result"
    BY <2>1 DEF OutboxRight, CommandsShown
  <2>3. y \in Crew /\ z \notin ids
    BY <2>1 DEF OutboxRight, CommandsApart
  <2>4. \E k \in DOMAIN next[y] : next[y][k] = r[y][i]
    BY <1>3, <1>5, <2>2, <2>3
  <2> QED
    BY <2>1, <2>2, <2>4
<1> QED
  BY <1>6, <1>7, <1>8, <1>9, <1>10, <1>11 DEF OutboxRight

\* The commit of a load.
OfLog(slot) == [i \in DOMAIN slot |-> O!Row("user", slot[i], 0)]

LEMMA SlotReloaded ==
  ASSUME NEW q, NEW r, NEW cs, NEW ac, NEW ex, NEW wi, NEW n \in Nat, NEW lg,
         OutboxRight(q, r, cs, ac, ex, wi, n), LogTyped(lg), LogLeft(lg, ac), NEW a \in Crew,
         NEW next, Put(r, a, OfLog(lg[a]), next)
  PROVE  OutboxRight(q, next, cs, ac, ex, wi \cup {r[a][i].id : i \in DOMAIN r[a]}, n)
<1>0. /\ DOMAIN next = Crew /\ \A x \in Crew \ {a} : next[x] = r[x]
      /\ next[a] = [i \in DOMAIN lg[a] |-> O!Row("user", lg[a][i], 0)]
  BY DEF Put, OfLog
<1>1. PICK w, away : w = next[a] /\ away = wi \cup {r[a][i].id : i \in DOMAIN r[a]}
  OBVIOUS
<1>2. /\ DOMAIN w = DOMAIN lg[a]
      /\ \A i \in DOMAIN w : IsRow(w[i], n)
      /\ \A i \in DOMAIN w : w[i].id = 0
      /\ \A i \in DOMAIN w : w[i].msg = lg[a][i]
  <2> DEFINE told == [i \in DOMAIN lg[a] |-> O!Row("user", lg[a][i], 0)]
  <2>1. w = told
    BY <1>0, <1>1
  <2>2. ASSUME NEW i \in DOMAIN lg[a]
        PROVE  IsRow(told[i], n) /\ told[i].id = 0 /\ told[i].msg = lg[a][i]
    <3>1. told[i] = [role |-> "user", msg |-> lg[a][i], id |-> 0]
      BY DEF O!Row
    <3> HIDE DEF told
    <3> QED
      BY <3>1 DEF IsRow
  <2>3. DOMAIN told = DOMAIN lg[a]
    OBVIOUS
  <2> HIDE DEF told
  <2> QED
    BY <2>1, <2>2, <2>3
<1>3. IsSeq(w)
  <2>1. Len(lg[a]) \in Nat /\ DOMAIN lg[a] = 1..Len(lg[a])
    BY DEF LogTyped, IsSeq
  <2>2. w = [i \in 1..Len(lg[a]) |-> w[i]]
    BY <1>0, <1>1, <2>1
  <2>3. w \in Seq({w[i] : i \in 1..Len(lg[a])})
    BY <2>1, <2>2
  <2> QED
    BY <2>2, <2>3 DEF IsSeq
<1>4. DOMAIN next = Crew /\ next[a] = w /\ \A x \in Crew \ {a} : next[x] = r[x]
  BY <1>0, <1>1
<1>5. RowsTyped(next, n)
  <2>1. \A i \in DOMAIN w : IsRow(w[i], n)
    BY <1>2
  <2> QED
    BY <1>3, <1>4, <2>1 DEF OutboxRight, RowsTyped
<1>6. RowsApart(next)
  BY <1>2, <1>4 DEF OutboxRight, RowsApart
<1>7. \A x \in Crew : \A j \in DOMAIN q[x] : q[x][j].row \in 1..n /\ q[x][j].row # 0
  BY DEF OutboxRight, ItemsTyped, IsItem
<1>8. ItemsShown(q, next, away)
  <2>1. \A j \in DOMAIN q[a] : q[a][j].row \in away
    BY <1>1 DEF OutboxRight, ItemsShown
  <2>2. \A i \in DOMAIN w : w[i].id = 0
    BY <1>2
  <2>3. wi \subseteq away
    BY <1>1
  <2> QED
    BY <1>4, <1>7, <2>1, <2>2, <2>3 DEF OutboxRight, ItemsShown
<1>9. UsersLeft(q, next, ac)
  <2>1. \A i \in DOMAIN w : <<a, w[i].msg>> \in ac
    BY <1>2 DEF LogLeft
  <2> QED
    BY <1>4, <2>1 DEF OutboxRight, UsersLeft
<1>10. CommandsShown(next, cs, ex, away)
  <2> SUFFICES ASSUME NEW x \in ex, x.row \notin away
               PROVE  \E i \in DOMAIN next[x.agent] :
                        /\ next[x.agent][i].id = x.row
                        /\ next[x.agent][i].role = IF \E d \in cs : d.row = x.row THEN "pending" ELSE "result"
    BY DEF CommandsShown
  <2>1. PICK y, z : y = x.agent /\ z = x.row
    OBVIOUS
  <2>2. PICK i \in DOMAIN r[y] : /\ r[y][i].id = z
                                 /\ r[y][i].role = IF \E d \in cs : d.row = z THEN "pending" ELSE "result"
    BY <1>1, <2>1 DEF OutboxRight, CommandsShown
  <2>3. y \in Crew /\ y # a
    BY <1>1, <2>1, <2>2 DEF OutboxRight, CommandsApart
  <2> QED
    BY <1>4, <2>1, <2>2, <2>3
<1>11. OutboxRight(q, next, cs, ac, ex, away, n)
  BY <1>5, <1>6, <1>8, <1>9, <1>10 DEF OutboxRight
<1> QED
  BY <1>1, <1>11

\* A message waits: its item and its row are new.
LEMMA MessageWaits ==
  ASSUME NoneIsNoId, NEW q, NEW r, NEW cs, NEW ac, NEW ex, NEW wi, NEW n \in Nat, NEW k, k = n + 1,
         OutboxRight(q, r, cs, ac, ex, wi, n), NEW a \in Crew, NEW m,
         NEW row, row = O!Row("user", m, k), NEW next, Told(r, a, row, next),
         NEW item, item = [msg |-> m, row |-> k],
         NEW p, Told(q, a, item, p)
  PROVE  OutboxRight(p, next, cs, ac, ex, wi, k)
<1>1. DOMAIN p = Crew /\ p[a] = Append(q[a], item) /\ \A x \in Crew \ {a} : p[x] = q[x]
  BY DEF Told, Put
<1>2. /\ k \in Nat /\ n <= k /\ k \in 1..k /\ k # 0 /\ k \notin 0..n /\ k \notin 1..n
      /\ IsRow(row, k) /\ row.id = k /\ row.msg = m
      /\ IsItem(item, k) /\ item.row = k /\ item.msg = m
  BY DEF IsRow, IsItem, O!Row
<1>3. OutboxRight(q, r, cs, ac, ex, wi, k)
  BY <1>2, IdsGrow
<1>4. /\ \A y \in Crew : \A i \in DOMAIN r[y] : r[y][i].id # k
      /\ \A y \in Crew : \A j \in DOMAIN q[y] : q[y][j].row # k
      /\ \A y \in ex : y.row # k
      /\ \A c \in cs : c.from # k
  <2>1. k # None
    BY <1>2 DEF NoneIsNoId
  <2> QED
    BY <1>2, <2>1 DEF OutboxRight, RowsTyped, IsRow, ItemsTyped, IsItem, CommandsApart, CallsTyped, IsCall
<1>5. OfItem(q, a, row.msg, row.id)
  BY <1>2, <1>4 DEF OfItem
<1>6. NewRow(r, a, row, k)
  BY <1>2, <1>4 DEF NewRow
<1>7. /\ RowsTyped(next, k) /\ RowsApart(next) /\ ItemsShown(q, next, wi) /\ CommandsShown(next, cs, ex, wi)
      /\ RowIn(next, a, row)
      /\ \A y \in Crew : \A i \in DOMAIN next[y] : (y = a /\ next[y][i] = row) \/ RowIn(r, y, next[y][i])
  BY <1>2, <1>5, <1>6, RowTold
<1>8. /\ p[a] = Append(q[a], item) /\ \A y \in Crew \ {a} : p[y] = q[y]
      /\ IsSeq(p[a]) /\ DOMAIN p[a] = DOMAIN q[a] \cup {Len(q[a]) + 1} /\ Len(q[a]) + 1 \notin DOMAIN q[a]
      /\ \A j \in DOMAIN q[a] : p[a][j] = q[a][j]
      /\ p[a][Len(q[a]) + 1] = item
  <2>1. p[a] = Append(q[a], item) /\ IsSeq(q[a])
    BY <1>1 DEF OutboxRight, ItemsTyped
  <2>2. /\ IsSeq(Append(q[a], item)) /\ Len(q[a]) \in Nat /\ DOMAIN q[a] = 1..Len(q[a])
        /\ DOMAIN Append(q[a], item) = 1..Len(q[a]) + 1
        /\ \A i \in DOMAIN q[a] : Append(q[a], item)[i] = q[a][i]
        /\ Append(q[a], item)[Len(q[a]) + 1] = item
    BY <2>1, Grown
  <2> QED
    BY <1>1, <2>1, <2>2
<1>9. \A y \in Crew : \A j \in DOMAIN p[y] : (j \in DOMAIN q[y] /\ p[y][j] = q[y][j]) \/ (y = a /\ p[y][j] = item)
  <2>1. \A j \in DOMAIN p[a] : (j \in DOMAIN q[a] /\ p[a][j] = q[a][j]) \/ p[a][j] = item
    BY <1>8
  <2> QED
    BY <1>8, <2>1
<1>10. ItemsTyped(p, k)
  <2>1. \A y \in Crew : IsSeq(p[y])
    BY <1>3, <1>8 DEF OutboxRight, ItemsTyped
  <2> QED
    BY <1>1, <1>2, <1>3, <1>9, <2>1 DEF OutboxRight, ItemsTyped
<1>11. ItemsApart(p)
  <2>1. \A i, j \in DOMAIN p[a] : p[a][i].row = p[a][j].row => i = j
    BY <1>2, <1>4, <1>8 DEF OutboxRight, ItemsApart
  <2> QED
    BY <1>8, <2>1 DEF OutboxRight, ItemsApart
<1>12. ItemsShown(p, next, wi)
  <2> SUFFICES ASSUME NEW y \in Crew, NEW j \in DOMAIN p[y]
               PROVE  /\ \A i \in DOMAIN next[y] : next[y][i].id = p[y][j].row => next[y][i].msg = p[y][j].msg
                      /\ p[y][j].row \notin wi => \E i \in DOMAIN next[y] : next[y][i].id = p[y][j].row
    BY DEF ItemsShown
  <2>1. CASE j \in DOMAIN q[y] /\ p[y][j] = q[y][j]
    BY <1>7, <2>1 DEF ItemsShown
  <2>2. CASE y = a /\ p[y][j] = item
    <3>1. \A i \in DOMAIN next[a] : next[a][i].id = k => next[a][i] = row
      BY <1>4, <1>7 DEF RowIn
    <3> QED
      BY <1>2, <1>7, <2>2, <3>1 DEF RowIn
  <2> QED
    BY <1>9, <2>1, <2>2
<1>13. UsersLeft(p, next, ac)
  <2> SUFFICES ASSUME NEW y \in Crew, NEW i \in DOMAIN next[y], next[y][i].role = "user"
               PROVE  (\E j \in DOMAIN p[y] : p[y][j].row = next[y][i].id) \/ <<y, next[y][i].msg>> \in ac
    BY DEF UsersLeft
  <2>1. CASE y = a /\ next[y][i] = row
    BY <1>2, <1>8, <2>1
  <2>2. CASE RowIn(r, y, next[y][i])
    <3>1. (\E j \in DOMAIN q[y] : q[y][j].row = next[y][i].id) \/ <<y, next[y][i].msg>> \in ac
      BY <2>1, <2>2 DEF OutboxRight, UsersLeft, RowIn
    <3>2. \A j \in DOMAIN q[y] : j \in DOMAIN p[y] /\ p[y][j] = q[y][j]
      <4>1. CASE y = a
        BY <1>8, <4>1
      <4>2. CASE y # a
        BY <1>8, <4>2
      <4> QED
        BY <4>1, <4>2
    <3> QED
      BY <3>1, <3>2
  <2> QED
    BY <1>7, <2>1, <2>2
<1>14. \A y \in Crew : \A z, from : OfItem(q, y, z, from) /\ from # k => OfItem(p, y, z, from)
  BY <1>2, <1>9 DEF OfItem
<1>15. CallsTyped(p, cs, k)
  BY <1>3, <1>4, <1>14 DEF OutboxRight, CallsTyped, IsCall
<1>16. CommandsApart(p, cs, ex, k)
  <2>1. ASSUME NEW x \in ex, NEW y \in Crew, NEW j \in DOMAIN p[y] PROVE p[y][j].row # x.row
    <3>1. x.row # k /\ \A i \in DOMAIN q[y] : q[y][i].row # x.row
      BY <1>4 DEF OutboxRight, CommandsApart
    <3> QED
      BY <1>2, <1>9, <3>1
  <2>2. \A x \in ex : x.agent \in Crew /\ x.row \in 1..k /\ \A c \in cs : c.row = x.row => c.agent = x.agent
    BY <1>3 DEF OutboxRight, CommandsApart
  <2>3. \A c, d \in cs : c.row = d.row /\ c.row # None => c = d
    BY <1>3 DEF OutboxRight, CommandsApart
  <2> QED
    BY <2>1, <2>2, <2>3 DEF CommandsApart
<1> QED
  BY <1>7, <1>10, <1>11, <1>12, <1>13, <1>15, <1>16 DEF OutboxRight

-------------------------------------------------------------------------------
\* What the handlers do.

\* A turn that begins: its message leaves, and is shown.
LEMMA LogGrows ==
  ASSUME NEW lg, NEW ac, LogTyped(lg), LogLeft(lg, ac), NEW a \in Crew, NEW m, NEW some,
         some = ac \cup {<<a, m>>},
         NEW next, next = lg \/ Told(lg, a, m, next)
  PROVE  LogTyped(next) /\ LogLeft(next, some)
<1>1. CASE next = lg
  BY <1>1 DEF LogLeft
<1>2. CASE Told(lg, a, m, next)
  <2>1. DOMAIN next = Crew /\ next[a] = Append(lg[a], m) /\ \A x \in Crew \ {a} : next[x] = lg[x]
    BY <1>2 DEF Told, Put
  <2>2. \A x \in Crew : IsSeq(lg[x])
    BY DEF LogTyped
  <2>3. /\ IsSeq(next[a]) /\ DOMAIN next[a] = DOMAIN lg[a] \cup {Len(lg[a]) + 1}
        /\ \A i \in DOMAIN lg[a] : next[a][i] = lg[a][i]
        /\ next[a][Len(lg[a]) + 1] = m
    <3>1. /\ IsSeq(Append(lg[a], m)) /\ Len(lg[a]) \in Nat /\ DOMAIN lg[a] = 1..Len(lg[a])
          /\ DOMAIN Append(lg[a], m) = 1..Len(lg[a]) + 1
          /\ \A i \in DOMAIN lg[a] : Append(lg[a], m)[i] = lg[a][i]
          /\ Append(lg[a], m)[Len(lg[a]) + 1] = m
      BY <2>2, Grown
    <3> QED
      BY <2>1, <3>1
  <2>4. \A i \in DOMAIN next[a] : <<a, next[a][i]>> \in some
    BY <2>3 DEF LogLeft
  <2>5. \A x \in Crew \ {a} : \A i \in DOMAIN next[x] : <<x, next[x][i]>> \in some
    BY <2>1 DEF LogLeft
  <2> QED
    BY <2>1, <2>2, <2>3, <2>4, <2>5 DEF LogTyped, LogLeft
<1> QED
  BY <1>1, <1>2

LEMMA TurnKeeps ==
  ASSUME NoneIsNoId, NEW cs, NEW a \in Crew, NEW m, NEW from \in {None} \cup 1..made, NEW steer,
         NEW now, Outboxed(now.queue, now.rows, cs, accepted, executed, wiped, log, made),
         OfItem(now.queue, a, m, from), O!Turn(m, a, from, steer, now)
  PROVE  Outboxed(queues', slots', cs, accepted', executed, wiped, log', made + 1)
<1>1. PICK q, r, n, ac, ex, wi, lg :
        q = now.queue /\ r = now.rows /\ n = made /\ ac = accepted /\ ex = executed /\ wi = wiped /\ lg = log
  OBVIOUS
<1>2. PICK p, some, k : p = O!HeadLeaves(q, a, from) /\ some = ac \cup {<<a, m>>} /\ k = n + 1
  OBVIOUS
<1>3. queues' = p /\ accepted' = some
  BY <1>1, <1>2 DEF O!Turn, O!Accept
<1>4. /\ n \in Nat /\ k \in Nat /\ n <= k /\ OutboxRight(q, r, cs, ac, ex, wi, n) /\ OfItem(q, a, m, from)
      /\ LogTyped(lg) /\ LogLeft(lg, ac)
  BY <1>1, <1>2 DEF Outboxed
<1>5. OutboxRight(p, r, cs, some, ex, wi, n) /\ OfItem(p, a, m, from)
  BY <1>2, <1>4, MessageLeaves
<1>6. LogTyped(log') /\ LogLeft(log', some)
  <2>0. log' \in {log, [log EXCEPT ![a] = Append(@, m)]}
    BY DEF O!Turn
  <2>1. PICK after : after = log'
    OBVIOUS
  <2>2. after = lg \/ Told(lg, a, m, after)
    BY <1>1, <1>4, <2>0, <2>1 DEF Told, Put, LogTyped
  <2>3. LogTyped(after) /\ LogLeft(after, some)
    BY <1>2, <1>4, <2>2, LogGrows
  <2> QED
    BY <2>1, <2>3
<1>7. OutboxRight(p, slots', cs, some, ex, wi, k)
  <2>1. CASE ~steer /\ from # None /\ \E i \in DOMAIN r[a] : r[a][i].id = from
    <3>1. slots' = r
      BY <1>1, <2>1 DEF O!Turn
    <3> QED
      BY <1>4, <1>5, <3>1, IdsGrow
  <2>2. CASE ~(~steer /\ from # None /\ \E i \in DOMAIN r[a] : r[a][i].id = from)
    <3>1. PICK id, row, next : id = (IF steer \/ from = None THEN k ELSE from) /\ row = O!Row("user", m, id)
                               /\ next = slots'
      OBVIOUS
    <3>2. next = [r EXCEPT ![a] = Append(@, row)]
      <4>1. slots' = IF ~steer /\ from # None /\ \E i \in DOMAIN now.rows[a] : now.rows[a][i].id = from THEN now.rows
                     ELSE [now.rows EXCEPT ![a] =
                             Append(@, O!Row("user", m, IF steer \/ from = None THEN made + 1 ELSE from))]
        BY DEF O!Turn
      <4>2. slots' = [now.rows EXCEPT ![a] =
                             Append(@, O!Row("user", m, IF steer \/ from = None THEN made + 1 ELSE from))]
        <5>1. ~(~steer /\ from # None /\ \E i \in DOMAIN now.rows[a] : now.rows[a][i].id = from)
          BY <1>1, <2>2
        <5> QED
          BY <4>1, <5>1, Zenon
      <4>3. O!Row("user", m, IF steer \/ from = None THEN made + 1 ELSE from) = row
        BY <1>1, <1>2, <3>1
      <4> QED
        BY <1>1, <3>1, <4>2, <4>3
    <3>3. DOMAIN r = Crew
      BY <1>4 DEF OutboxRight, RowsTyped
    <3>4. Told(r, a, row, next)
      BY <3>2, <3>3 DEF Told, Put
    <3>5. row.role = "user" /\ row.msg = m /\ row.id = id /\ id \in 0..k /\ IsRow(row, k)
      <4>1. from = None \/ from \in 1..n
        BY <1>1
      <4>2. id \in 0..k
        <5>1. id = k \/ id \in 1..n
          BY <3>1, <4>1
        <5> QED
          BY <1>2, <1>4, <5>1
      <4> QED
        BY <3>1, <4>2 DEF IsRow, O!Row
    <3>6. \A i \in DOMAIN r[a] : r[a][i].id # id
      <4>1. CASE id = k
        <5>1. k \notin 0..n
          BY <1>2, <1>4
        <5> QED
          BY <1>4, <4>1, <5>1 DEF OutboxRight, RowsTyped, IsRow
      <4>2. CASE id # k
        BY <2>2, <3>1, <4>2
      <4> QED
        BY <4>1, <4>2
    <3>7. OfItem(p, a, m, id)
      <4>1. CASE id = k
        <5>1. k \notin 1..n
          BY <1>2, <1>4
        <5> QED
          BY <1>5, <4>1, <5>1 DEF OutboxRight, ItemsTyped, IsItem, OfItem
      <4>2. CASE id # k
        BY <1>5, <3>1, <4>2
      <4> QED
        BY <4>1, <4>2
    <3>8. NewRow(r, a, row, k) /\ OfItem(p, a, row.msg, row.id) /\ <<a, row.msg>> \in some
      BY <1>2, <3>5, <3>6, <3>7 DEF NewRow
    <3>9. OutboxRight(p, next, cs, some, ex, wi, k)
      BY <1>4, <1>5, <3>4, <3>8, RowTells
    <3> QED
      BY <3>1, <3>9
  <2> QED
    BY <2>1, <2>2
<1> QED
  BY <1>1, <1>2, <1>3, <1>4, <1>6, <1>7 DEF Outboxed

\* A note, or another row with an id of its own, that shows no message that waits.
LEMMA RowNoted ==
  ASSUME NoneIsNoId, NEW q, NEW r, NEW cs, NEW ac, NEW ex, NEW wi, NEW n \in Nat, NEW k, k = n + 1,
         OutboxRight(q, r, cs, ac, ex, wi, n),
         NEW a \in Crew, NEW role, NEW m, role = "user" => <<a, m>> \in ac,
         NEW row, row = O!Row(role, m, k), NEW next, Told(r, a, row, next)
  PROVE  OutboxRight(q, next, cs, ac, ex, wi, k)
<1>1. k \in Nat /\ n <= k /\ k \notin 0..n /\ k \notin 1..n
  OBVIOUS
<1>2. row.role = role /\ row.msg = m /\ row.id = k /\ IsRow(row, k)
  BY <1>1 DEF IsRow, O!Row
<1>3. \A i \in DOMAIN r[a] : r[a][i].id # k
  BY <1>1 DEF OutboxRight, RowsTyped, IsRow
<1>4. OfItem(q, a, m, k)
  BY <1>1 DEF OutboxRight, ItemsTyped, IsItem, OfItem
<1>5. NewRow(r, a, row, k) /\ OfItem(q, a, row.msg, row.id) /\ (row.role = "user" => <<a, row.msg>> \in ac)
  BY <1>2, <1>3, <1>4 DEF NewRow
<1> QED
  BY <1>1, <1>5, RowTells

\* sendMessage, from the store that its caller has changed.
LEMMA StartKeeps ==
  ASSUME NoneIsNoId, NEW a \in Crew, NEW m, NEW from \in {None} \cup 1..made, NEW steer,
         NEW now, Outboxed(now.queue, now.rows, awaiting, accepted, executed, wiped, log, made),
         OfItem(now.queue, a, m, from), O!Start(m, a, from, steer, now)
  PROVE  Outboxed(queues', slots', awaiting', accepted', executed', wiped, log', made')
<1>1. PICK q, r, n, cs, ac, ex, wi, lg :
        /\ q = now.queue /\ r = now.rows /\ n = made /\ cs = awaiting /\ ac = accepted /\ ex = executed
        /\ wi = wiped /\ lg = log
  OBVIOUS
<1>2. PICK p, some, k, j : /\ p = O!HeadLeaves(q, a, from) /\ some = ac \cup {<<a, m>>}
                           /\ k = n + 1 /\ j = n + 2
  OBVIOUS
<1>3. /\ n \in Nat /\ k \in Nat /\ j \in Nat /\ n <= k /\ k <= j
      /\ OutboxRight(q, r, cs, ac, ex, wi, n) /\ OfItem(q, a, m, from)
      /\ LogTyped(lg) /\ LogLeft(lg, ac) /\ DOMAIN r = Crew
  BY <1>1, <1>2 DEF Outboxed, OutboxRight, RowsTyped
<1>4. /\ made' = j /\ executed' = ex
  BY <1>1, <1>2 DEF O!Start
<1>5. OutboxRight(p, r, cs, some, ex, wi, n) /\ OfItem(p, a, m, from)
  BY <1>2, <1>3, MessageLeaves
<1>6. LogLeft(lg, some)
  BY <1>2, <1>3 DEF LogLeft
<1>7. CASE O!Turn(m, a, from, steer, now) /\ awaiting' = awaiting
  <2>1. Outboxed(queues', slots', cs, accepted', executed, wiped, log', made + 1)
    BY <1>1, <1>7, TurnKeeps
  <2>2. PICK qq, rr, aa, ll : qq = queues' /\ rr = slots' /\ aa = accepted' /\ ll = log'
    OBVIOUS
  <2>3. OutboxRight(qq, rr, cs, aa, ex, wi, k) /\ LogTyped(ll) /\ LogLeft(ll, aa)
    BY <1>1, <1>2, <2>1, <2>2 DEF Outboxed
  <2>4. OutboxRight(qq, rr, cs, aa, ex, wi, j)
    BY <1>3, <2>3, IdsGrow
  <2> QED
    BY <1>1, <1>3, <1>4, <1>7, <2>2, <2>3, <2>4 DEF Outboxed
<1>8. ASSUME NEW c, NEW stage \in {"server", "catalog"}, c = O!Call(stage, m, a, from, steer)
      PROVE  IsCall(c, n) /\ c.row = None /\ c.agent = a /\ c.msg = m /\ c.from = from
  <2>1. c = [id |-> k, stage |-> stage, msg |-> m, agent |-> a, from |-> from, steer |-> steer, row |-> None]
    BY <1>1, <1>2, <1>8 DEF O!Call
  <2>2. from \in {None} \cup 1..n
    BY <1>1
  <2> QED
    BY <1>8, <2>1, <2>2 DEF IsCall
<1>9. CASE /\ O!Accept(m, a, from, now.queue) /\ O!Awaits(O!Call("server", m, a, from, steer))
           /\ slots' = now.rows /\ log' = log
  <2>1. PICK c : c = O!Call("server", m, a, from, steer)
    OBVIOUS
  <2>2. queues' = p /\ accepted' = some /\ awaiting' = cs \cup {c} /\ slots' = r /\ log' = lg
    BY <1>1, <1>2, <1>9, <2>1 DEF O!Accept, O!Awaits
  <2>3. IsCall(c, n) /\ c.row = None /\ c.agent = a /\ c.msg = m /\ c.from = from
    BY <1>8, <2>1
  <2>4. OutboxRight(p, r, cs \cup {c}, some, ex, wi, n)
    BY <1>5, <2>3, CallBegins
  <2>5. n <= j /\ OutboxRight(p, r, cs \cup {c}, some, ex, wi, j)
    BY <1>2, <1>3, <2>4, IdsGrow
  <2> QED
    BY <1>1, <1>3, <1>4, <1>6, <2>2, <2>5 DEF Outboxed
<1>10. CASE /\ O!Accept(m, a, from, now.queue)
            /\ \/ /\ slots' = [now.rows EXCEPT ![a] = Append(@, O!Row("note", m, made + 1))]
                  /\ awaiting' = awaiting
               \/ /\ slots' = [now.rows EXCEPT ![a] = Append(@, O!Row("user", m, made + 1))]
                  /\ O!Awaits(O!Call("server", m, a, from, steer))
            /\ log' = log
  <2>1. queues' = p /\ accepted' = some /\ log' = lg
    BY <1>1, <1>2, <1>10 DEF O!Accept
  <2>2. PICK c, role, row, next :
          /\ c = O!Call("server", m, a, from, steer)
          /\ role = (IF slots' = [now.rows EXCEPT ![a] = Append(@, O!Row("note", m, made + 1))]
                        /\ awaiting' = awaiting THEN "note" ELSE "user")
          /\ row = O!Row(role, m, k) /\ next = slots'
    OBVIOUS
  <2>3. next = [r EXCEPT ![a] = Append(@, row)] /\ (awaiting' = cs \/ awaiting' = cs \cup {c})
    <3>1. CASE slots' = [now.rows EXCEPT ![a] = Append(@, O!Row("note", m, made + 1))] /\ awaiting' = awaiting
      BY <1>1, <1>2, <2>2, <3>1
    <3>2. CASE ~(slots' = [now.rows EXCEPT ![a] = Append(@, O!Row("note", m, made + 1))] /\ awaiting' = awaiting)
      BY <1>1, <1>2, <1>10, <2>2, <3>2 DEF O!Awaits
    <3> QED
      BY <3>1, <3>2
  <2>4. Told(r, a, row, next)
    BY <1>3, <2>3 DEF Told, Put
  <2>5. <<a, m>> \in some
    BY <1>2
  <2>6. OutboxRight(p, next, cs, some, ex, wi, k)
    BY <1>2, <1>3, <1>5, <2>2, <2>4, <2>5, RowNoted
  <2>7. OutboxRight(p, next, cs, some, ex, wi, j)
    BY <1>3, <2>6, IdsGrow
  <2>8. IsCall(c, j) /\ c.row = None /\ c.agent = a /\ c.msg = m /\ c.from = from
    <3>1. IsCall(c, n) /\ c.row = None /\ c.agent = a /\ c.msg = m /\ c.from = from
      BY <1>8, <2>2
    <3>2. 1..n \subseteq 1..j
      BY <1>2, <1>3
    <3> QED
      BY <3>1, <3>2 DEF IsCall
  <2>9. OutboxRight(p, next, cs \cup {c}, some, ex, wi, j)
    BY <1>5, <2>7, <2>8, CallBegins
  <2> QED
    BY <1>1, <1>3, <1>4, <1>6, <2>1, <2>2, <2>3, <2>7, <2>9 DEF Outboxed
<1>11. CASE /\ O!Awaits(O!Call("catalog", m, a, from, steer)) /\ queues' = now.queue /\ slots' = now.rows
            /\ accepted' = accepted /\ log' = log
  <2>1. PICK c : c = O!Call("catalog", m, a, from, steer)
    OBVIOUS
  <2>2. queues' = q /\ accepted' = ac /\ awaiting' = cs \cup {c} /\ slots' = r /\ log' = lg
    BY <1>1, <1>11, <2>1 DEF O!Awaits
  <2>3. IsCall(c, n) /\ c.row = None /\ c.agent = a /\ c.msg = m /\ c.from = from
    BY <1>8, <2>1
  <2>4. OutboxRight(q, r, cs \cup {c}, ac, ex, wi, n)
    BY <1>3, <2>3, CallBegins
  <2>5. n <= j /\ OutboxRight(q, r, cs \cup {c}, ac, ex, wi, j)
    BY <1>2, <1>3, <2>4, IdsGrow
  <2> QED
    BY <1>1, <1>3, <1>4, <2>2, <2>5 DEF Outboxed
<1> QED
  BY <1>7, <1>9, <1>10, <1>11 DEF O!Start

LEMMA ItemTaken ==
  ASSUME NEW q, NEW r, NEW cs, NEW ac, NEW ex, NEW wi, NEW n,
         OutboxRight(q, r, cs, ac, ex, wi, n), NEW a \in Crew, NEW i \in DOMAIN q[a],
         NEW ids, ids = {q[a][i].row}, NEW v, v = O!RemoveAt(q[a], i), NEW p, Put(q, a, v, p),
         NEW w, w = O!Without(r[a], ids), NEW next, Put(r, a, w, next)
  PROVE  OutboxRight(p, next, cs, ac, ex, wi, n)
<1>1. IsSeq(q[a]) /\ EachOnce(q[a])
  BY DEF OutboxRight, ItemsTyped, ItemsApart, EachOnce
<1>2. /\ IsSeq(v)
      /\ \A j \in DOMAIN v : \E k \in DOMAIN q[a] : k # i /\ v[j] = q[a][k]
      /\ \A k \in DOMAIN q[a] : k # i => \E j \in DOMAIN v : v[j] = q[a][k]
  BY <1>1, Dropped
<1>3. EachOnce(v)
  BY <1>1, Dropped
<1>4. DOMAIN p = Crew /\ p[a] = v /\ \A x \in Crew \ {a} : p[x] = q[x]
  BY DEF Put
<1>5. Fewer(q, p)
  <2>1. \A x \in Crew : IsSeq(p[x])
    BY <1>2, <1>3, <1>4 DEF OutboxRight, ItemsTyped
  <2>2. ItemsApart(p)
    BY <1>2, <1>3, <1>4 DEF OutboxRight, ItemsApart, EachOnce
  <2>3. \A x \in Crew : \A j \in DOMAIN p[x] : \E k \in DOMAIN q[x] : p[x][j] = q[x][k]
    BY <1>2, <1>3, <1>4
  <2> QED
    BY <1>4, <2>1, <2>2, <2>3 DEF Fewer
<1>6. /\ \A j \in DOMAIN q[a] : q[a][j].row \notin ids => \E k \in DOMAIN p[a] : p[a][k] = q[a][j]
      /\ \A j \in DOMAIN p[a] : p[a][j].row \notin ids
      /\ \A id \in ids : \E j \in DOMAIN q[a] : q[a][j].row = id
  BY <1>1, <1>2, <1>3, <1>4 DEF EachOnce
<1> QED
  BY <1>4, <1>5, <1>6, ItemsTaken

LEMMA SubmitKeeps ==
  ASSUME NoneIsNoId, OutboxInv, NEW m \in unsent, O!Submit(m)
  PROVE  OutboxInv'
<1>1. PICK q, r, n, cs, ac, ex, wi, lg, a :
        /\ q = queues /\ r = slots /\ n = made /\ cs = awaiting /\ ac = accepted /\ ex = executed
        /\ wi = wiped /\ lg = log /\ a = tab
  OBVIOUS
<1>2. /\ a \in Crew /\ n \in Nat /\ LogTyped(lg) /\ LogLeft(lg, ac) /\ OutboxRight(q, r, cs, ac, ex, wi, n)
      /\ DOMAIN q = Crew /\ DOMAIN r = Crew
  BY <1>1 DEF OutboxInv, Outboxed, OutboxRight, RowsTyped, ItemsTyped
<1>3. tab' = a /\ wiped' = wi
  BY <1>1 DEF O!Submit
<1>4. CASE O!Enqueue(m)
  <2>1. PICK k, row, item, next, p : /\ k = n + 1 /\ row = O!Row("user", m, k) /\ item = [msg |-> m, row |-> k]
                                     /\ next = slots' /\ p = queues'
    OBVIOUS
  <2>2. /\ made' = k /\ next = [r EXCEPT ![a] = Append(@, row)] /\ p = [q EXCEPT ![a] = Append(@, item)]
        /\ awaiting' = cs /\ log' = lg /\ accepted' = ac /\ executed' = ex
    BY <1>1, <1>4, <2>1 DEF O!Enqueue
  <2>3. Told(r, a, row, next) /\ Told(q, a, item, p)
    BY <1>2, <2>2 DEF Told, Put
  <2>4. OutboxRight(p, next, cs, ac, ex, wi, k)
    BY <1>2, <2>1, <2>3, MessageWaits
  <2> QED
    BY <1>2, <1>3, <2>1, <2>2, <2>4 DEF OutboxInv, Outboxed
<1>5. CASE O!Start(m, tab, None, FALSE, O!Now)
  <2>1. PICK now : now = O!Now
    OBVIOUS
  <2>2. now.queue = queues /\ now.rows = slots
    BY <2>1 DEF O!Now
  <2>3. OfItem(queues, tab, m, None)
    BY <1>1, <1>2 DEF OutboxRight, ItemsTyped, IsItem, OfItem, NoneIsNoId
  <2>4. /\ Outboxed(now.queue, now.rows, awaiting, accepted, executed, wiped, log, made)
        /\ OfItem(now.queue, tab, m, None) /\ O!Start(m, tab, None, FALSE, now) /\ tab \in Crew
    BY <1>5, <2>1, <2>2, <2>3 DEF OutboxInv
  <2>5. Outboxed(queues', slots', awaiting', accepted', executed', wiped, log', made')
    BY <2>4, StartKeeps
  <2> QED
    BY <1>1, <1>2, <1>3, <2>5 DEF OutboxInv
<1> QED
  BY <1>4, <1>5 DEF O!Submit

LEMMA TakeKeeps ==
  ASSUME NoneIsNoId, OutboxInv, NEW i \in DOMAIN queues[tab], O!Take(i) \/ O!SendNow(i)
  PROVE  OutboxInv'
<1>1. PICK q, r, n, cs, ac, ex, wi, lg, a :
        /\ q = queues /\ r = slots /\ n = made /\ cs = awaiting /\ ac = accepted /\ ex = executed
        /\ wi = wiped /\ lg = log /\ a = tab
  OBVIOUS
<1>2. /\ a \in Crew /\ n \in Nat /\ LogTyped(lg) /\ LogLeft(lg, ac) /\ OutboxRight(q, r, cs, ac, ex, wi, n)
      /\ DOMAIN q = Crew /\ DOMAIN r = Crew
  BY <1>1 DEF OutboxInv, Outboxed, OutboxRight, RowsTyped, ItemsTyped
<1>3. PICK p, ids, v, w, next : /\ p = O!WithoutItem(i) /\ ids = {queues[tab][i].row}
                             /\ v = O!RemoveAt(q[a], i) /\ w = O!Without(r[a], ids) /\ next = O!WithoutRows({queues[tab][i].row})
  OBVIOUS
<1>4. p = [q EXCEPT ![a] = O!RemoveAt(@, i)] /\ next = [r EXCEPT ![a] = w] /\ ids = {q[a][i].row}
  BY <1>1, <1>3 DEF O!WithoutItem, O!WithoutRows
<1>5. Put(q, a, v, p) /\ Put(r, a, w, next)
  BY <1>2, <1>3, <1>4 DEF Put
<1>6. OutboxRight(p, next, cs, ac, ex, wi, n)
  BY <1>1, <1>2, <1>3, <1>4, <1>5, ItemTaken
<1>7. CASE O!Take(i)
  <2>1. /\ queues' = p /\ slots' = next /\ tab' = a /\ awaiting' = cs /\ log' = lg /\ accepted' = ac
        /\ executed' = ex /\ wiped' = wi /\ made' = n
    BY <1>1, <1>3, <1>7 DEF O!Take
  <2> QED
    BY <1>2, <1>6, <2>1 DEF OutboxInv, Outboxed
<1>8. CASE O!SendNow(i)
  <2>1. PICK now, steer : /\ O!Start(queues[tab][i].msg, tab, None, steer, now)
                          /\ now = [O!Now EXCEPT !.queue = O!WithoutItem(i),
                                                 !.rows = O!WithoutRows({queues[tab][i].row})]
    BY <1>8 DEF O!SendNow
  <2>2. now.queue = p /\ now.rows = next
    BY <1>3, <2>1 DEF O!Now
  <2>3. OfItem(p, tab, queues[tab][i].msg, None)
    BY <1>1, <1>2, <1>6 DEF OutboxRight, ItemsTyped, IsItem, OfItem, NoneIsNoId
  <2>4. /\ Outboxed(now.queue, now.rows, awaiting, accepted, executed, wiped, log, made)
        /\ OfItem(now.queue, tab, queues[tab][i].msg, None) /\ tab \in Crew
    BY <1>1, <1>2, <1>6, <2>2, <2>3 DEF Outboxed
  <2>5. Outboxed(queues', slots', awaiting', accepted', executed', wiped, log', made')
    BY <2>1, <2>4, StartKeeps
  <2>6. tab' = tab /\ wiped' = wiped
    BY <1>8 DEF O!SendNow
  <2> QED
    BY <2>4, <2>5, <2>6 DEF OutboxInv
<1> QED
  BY <1>7, <1>8

LEMMA ClearKeeps ==
  ASSUME NoneIsNoId, OutboxInv, O!ClearQueue
  PROVE  OutboxInv'
<1>1. PICK q, r, n, cs, ac, ex, wi, lg, a :
        /\ q = queues /\ r = slots /\ n = made /\ cs = awaiting /\ ac = accepted /\ ex = executed
        /\ wi = wiped /\ lg = log /\ a = tab
  OBVIOUS
<1>2. /\ a \in Crew /\ n \in Nat /\ LogTyped(lg) /\ LogLeft(lg, ac) /\ OutboxRight(q, r, cs, ac, ex, wi, n)
      /\ DOMAIN q = Crew /\ DOMAIN r = Crew
  BY <1>1 DEF OutboxInv, Outboxed, OutboxRight, RowsTyped, ItemsTyped
<1>3. PICK p, ids, w, next : /\ p = queues' /\ ids = {item.row : item \in O!ToSet(queues[tab])}
                             /\ w = O!Without(r[a], ids) /\ next = slots'
  OBVIOUS
<1>4. /\ p = [q EXCEPT ![a] = <<>>] /\ next = [r EXCEPT ![a] = w]
      /\ tab' = a /\ awaiting' = cs /\ log' = lg /\ accepted' = ac /\ executed' = ex /\ wiped' = wi /\ made' = n
  BY <1>1, <1>3 DEF O!ClearQueue, O!WithoutRows
<1>5. DOMAIN p = Crew /\ p[a] = <<>> /\ \A x \in Crew \ {a} : p[x] = q[x]
  BY <1>2, <1>4
<1>6. Put(r, a, w, next)
  BY <1>2, <1>4 DEF Put
<1>7. /\ \A id \in ids : \E j \in DOMAIN q[a] : q[a][j].row = id
      /\ \A j \in DOMAIN q[a] : q[a][j].row \in ids
  BY <1>1, <1>3 DEF O!ToSet
<1>8. DOMAIN p[a] = {} /\ IsSeq(p[a])
  BY <1>5 DEF IsSeq
<1>9. Fewer(q, p)
  <2>1. \A x \in Crew : IsSeq(p[x])
    BY <1>2, <1>5, <1>8 DEF OutboxRight, ItemsTyped
  <2>2. ItemsApart(p)
    BY <1>2, <1>5, <1>8 DEF OutboxRight, ItemsApart
  <2>3. \A x \in Crew : \A j \in DOMAIN p[x] : \E k \in DOMAIN q[x] : p[x][j] = q[x][k]
    BY <1>5, <1>8
  <2> QED
    BY <1>5, <2>1, <2>2, <2>3 DEF Fewer
<1>10. OutboxRight(p, next, cs, ac, ex, wi, n)
  BY <1>2, <1>3, <1>5, <1>6, <1>7, <1>8, <1>9, ItemsTaken
<1> QED
  BY <1>2, <1>3, <1>4, <1>10 DEF OutboxInv, Outboxed

\* The calls that end without a command.
LEMMA ServerKeeps ==
  ASSUME NoneIsNoId, OutboxInv, NEW c \in awaiting, O!ServerAnswers(c)
  PROVE  OutboxInv'
<1>1. PICK q, r, n, cs, ac, ex, wi, lg, a :
        /\ q = queues /\ r = slots /\ n = made /\ cs = awaiting /\ ac = accepted /\ ex = executed
        /\ wi = wiped /\ lg = log /\ a = c.agent
  OBVIOUS
<1>2. /\ tab \in Crew /\ n \in Nat /\ LogTyped(lg) /\ LogLeft(lg, ac) /\ OutboxRight(q, r, cs, ac, ex, wi, n)
      /\ DOMAIN r = Crew /\ c \in cs /\ IsCall(c, n)
  BY <1>1 DEF OutboxInv, Outboxed, OutboxRight, RowsTyped, CallsTyped
<1>3. c.stage = "server" /\ c.row = None /\ a \in Crew
  BY <1>1, <1>2 DEF O!ServerAnswers, IsCall
<1>4. OutboxRight(q, r, cs \ {c}, ac, ex, wi, n)
  BY <1>2, <1>3, CallEnds
<1>5. PICK k, row, next : k = n + 1 /\ row = O!Row("note", c.msg, k) /\ next = slots'
  OBVIOUS
<1>6. /\ next = [r EXCEPT ![a] = Append(@, row)] /\ awaiting' = cs \ {c} /\ made' = k
      /\ tab' = tab /\ queues' = q /\ log' = lg /\ accepted' = ac /\ executed' = ex /\ wiped' = wi
  BY <1>1, <1>5 DEF O!ServerAnswers, O!Answered, O!Noted
<1>7. Told(r, a, row, next)
  BY <1>2, <1>3, <1>6 DEF Told, Put
<1>8. "note" # "user" /\ k \in Nat
  BY <1>2, <1>5
<1>9. OutboxRight(q, next, cs \ {c}, ac, ex, wi, k)
  BY <1>2, <1>3, <1>4, <1>5, <1>7, <1>8, RowNoted
<1> QED
  BY <1>2, <1>5, <1>6, <1>8, <1>9 DEF OutboxInv, Outboxed

LEMMA SkillKeeps ==
  ASSUME NoneIsNoId, OutboxInv, NEW c \in awaiting, O!SkillAnswers(c)
  PROVE  OutboxInv'
<1>1. PICK q, r, n, cs, ac, ex, wi, lg, a :
        /\ q = queues /\ r = slots /\ n = made /\ cs = awaiting /\ ac = accepted /\ ex = executed
        /\ wi = wiped /\ lg = log /\ a = c.agent
  OBVIOUS
<1>2. /\ tab \in Crew /\ n \in Nat /\ LogTyped(lg) /\ LogLeft(lg, ac) /\ OutboxRight(q, r, cs, ac, ex, wi, n)
      /\ DOMAIN r = Crew /\ c \in cs /\ IsCall(c, n) /\ OfItem(q, a, c.msg, c.from)
  BY <1>1 DEF OutboxInv, Outboxed, OutboxRight, RowsTyped, CallsTyped
<1>3. c.stage = "skill" /\ c.row = None /\ a \in Crew
  BY <1>1, <1>2 DEF O!SkillAnswers, IsCall
<1>4. OutboxRight(q, r, cs \ {c}, ac, ex, wi, n)
  BY <1>2, <1>3, CallEnds
<1>5. PICK k, row, next : k = n + 1 /\ row = O!Row("note", c.msg, k) /\ next = slots'
  OBVIOUS
<1>6. /\ awaiting' = cs \ {c} /\ made' = k /\ tab' = tab /\ executed' = ex /\ wiped' = wi
  BY <1>1, <1>5 DEF O!SkillAnswers, O!Answered
<1>7. CASE O!Turn(c.msg, c.agent, c.from, c.steer, O!Now)
  <2>1. PICK now, rest, m, from, steer : /\ now = O!Now /\ rest = cs \ {c} /\ m = c.msg /\ from = c.from
                                         /\ steer = c.steer
    OBVIOUS
  <2>2. now.queue = queues /\ now.rows = slots
    BY <2>1 DEF O!Now
  <2>3. O!Turn(m, a, from, steer, now)
    BY <1>1, <1>7, <2>1
  <2>4. Outboxed(now.queue, now.rows, rest, accepted, executed, wiped, log, made)
    BY <1>1, <1>2, <1>4, <2>1, <2>2 DEF Outboxed
  <2>5. OfItem(now.queue, a, m, from) /\ from \in {None} \cup 1..made
    BY <1>1, <1>2, <2>1, <2>2 DEF IsCall
  <2>6. Outboxed(queues', slots', rest, accepted', executed, wiped, log', made + 1)
    BY <1>3, <2>3, <2>4, <2>5, TurnKeeps
  <2> QED
    BY <1>1, <1>2, <1>5, <1>6, <2>1, <2>6 DEF OutboxInv
<1>8. CASE O!Noted(c) /\ UNCHANGED <<queues, busy, log, accepted>>
  <2>1. /\ next = [r EXCEPT ![a] = Append(@, row)] /\ queues' = q /\ log' = lg /\ accepted' = ac
    BY <1>1, <1>5, <1>8 DEF O!Noted
  <2>2. Told(r, a, row, next)
    BY <1>2, <1>3, <2>1 DEF Told, Put
  <2>3. "note" # "user" /\ k \in Nat
    BY <1>2, <1>5
  <2>4. OutboxRight(q, next, cs \ {c}, ac, ex, wi, k)
    BY <1>2, <1>3, <1>4, <1>5, <2>2, <2>3, RowNoted
  <2> QED
    BY <1>2, <1>5, <1>6, <2>1, <2>3, <2>4 DEF OutboxInv, Outboxed
<1> QED
  BY <1>7, <1>8 DEF O!SkillAnswers

\* The catalog answers: the name of a skill, or a command.
LEMMA SkillFound ==
  ASSUME NoneIsNoId, NEW q, NEW r, NEW cs, NEW ac, NEW ex, NEW wi, NEW n,
         OutboxRight(q, r, cs, ac, ex, wi, n), NEW c \in cs, c.stage = "catalog",
         NEW d, d = [c EXCEPT !.stage = "skill"]
  PROVE  OutboxRight(q, r, (cs \ {c}) \cup {d}, ac, ex, wi, n)
<1>1. IsCall(c, n) /\ OfItem(q, c.agent, c.msg, c.from) /\ c.row = None
  BY DEF OutboxRight, CallsTyped, IsCall
<1>2. d.agent = c.agent /\ d.msg = c.msg /\ d.from = c.from /\ d.row = None /\ IsCall(d, n)
  <2>1. PICK id, m, a, from, steer, row :
          c = [id |-> id, stage |-> "catalog", msg |-> m, agent |-> a, from |-> from, steer |-> steer, row |-> row]
    BY <1>1 DEF IsCall
  <2>2. d = [id |-> id, stage |-> "skill", msg |-> m, agent |-> a, from |-> from, steer |-> steer, row |-> row]
    BY <2>1
  <2> QED
    BY <1>1, <2>1, <2>2 DEF IsCall
<1>3. OutboxRight(q, r, cs \ {c}, ac, ex, wi, n)
  BY <1>1, CallEnds
<1>4. PICK rest : rest = cs \ {c}
  OBVIOUS
<1>5. OutboxRight(q, r, rest \cup {d}, ac, ex, wi, n)
  BY <1>1, <1>2, <1>3, <1>4, CallBegins
<1> QED
  BY <1>4, <1>5

LEMMA TwoRows ==
  ASSUME NEW s, IsSeq(s), NEW x, NEW y
  PROVE  s \o <<x, y>> = Append(Append(s, x), y)
<1> DEFINE T == {s[i] : i \in DOMAIN s} \cup {x, y}
<1>1. s \in Seq(T) /\ x \in T /\ y \in T
  BY DEF IsSeq
<1> HIDE DEF T
<1>2. PICK v, w : v = s \o <<x, y>> /\ w = Append(Append(s, x), y)
  OBVIOUS
<1>3. Append(s, x) \in Seq(T) /\ <<x, y>> \in Seq(T)
  BY <1>1
<1>4. v \in Seq(T) /\ w \in Seq(T) /\ Len(v) = Len(s) + 2 /\ Len(w) = Len(s) + 2 /\ Len(s) \in Nat
  BY <1>1, <1>2, <1>3
<1>5. ASSUME NEW i \in 1..Len(s) + 2 PROVE v[i] = w[i]
  <2>1. CASE i \in 1..Len(s)
    BY <1>1, <1>2, <1>3, <1>4, <2>1
  <2>2. CASE i = Len(s) + 1
    BY <1>1, <1>2, <1>3, <1>4, <2>2
  <2>3. CASE i = Len(s) + 2
    BY <1>1, <1>2, <1>3, <1>4, <2>3
  <2> QED
    BY <1>4, <2>1, <2>2, <2>3
<1> QED
  BY <1>2, <1>4, <1>5

RunsAs(c, j) == [c EXCEPT !.stage = "execute", !.row = j]

RunIn(a, j) == [agent |-> a, row |-> j]

LEMMA CommandRuns ==
  ASSUME NoneIsNoId, NEW q, NEW r, NEW cs, NEW ac, NEW ex, NEW wi, NEW n \in Nat, NEW k, k = n + 1, NEW j, j = n + 2,
         OutboxRight(q, r, cs, ac, ex, wi, n), NEW c \in cs, c.stage = "catalog",
         NEW a, a = c.agent, NEW p, p = O!HeadLeaves(q, a, c.from), NEW some, some = ac \cup {<<a, c.msg>>},
         NEW d, d = RunsAs(c, j), NEW x, x = RunIn(a, j),
         NEW entry, entry = O!Row("user", c.msg, k), NEW row, row = O!Row("pending", c.msg, j),
         NEW slot, slot = r[a] \o <<entry, row>>, NEW next, Put(r, a, slot, next)
  PROVE  OutboxRight(p, next, (cs \ {c}) \cup {d}, some, ex \cup {x}, wi, j)
<1>1. /\ IsCall(c, n) /\ OfItem(q, a, c.msg, c.from) /\ c.row = None /\ a \in Crew /\ IsSeq(r[a]) /\ DOMAIN r = Crew
      /\ k \in Nat /\ j \in Nat /\ j = k + 1 /\ 1..n \subseteq 1..j /\ j \in 1..j
  BY DEF OutboxRight, CallsTyped, IsCall, RowsTyped
<1>2. j # None
  BY <1>1 DEF NoneIsNoId
<1>3. d.agent = a /\ d.msg = c.msg /\ d.from = c.from /\ d.row = j /\ IsCall(d, j)
  <2>1. PICK id, m, from, steer, old :
          /\ c = [id |-> id, stage |-> "catalog", msg |-> m, agent |-> a, from |-> from, steer |-> steer, row |-> old]
          /\ from \in {None} \cup 1..n
    BY <1>1 DEF IsCall
  <2>2. PICK e : e = [c EXCEPT !.stage = "execute"]
    OBVIOUS
  <2>3. e = [id |-> id, stage |-> "execute", msg |-> m, agent |-> a, from |-> from, steer |-> steer, row |-> old]
    BY <2>1, <2>2
  <2>4. d = [e EXCEPT !.row = j]
    BY <2>1, <2>2 DEF RunsAs
  <2>5. d = [id |-> id, stage |-> "execute", msg |-> m, agent |-> a, from |-> from, steer |-> steer, row |-> j]
    BY <2>3, <2>4
  <2>6. from \in {None} \cup 1..j
    BY <1>1, <2>1
  <2> QED
    BY <1>1, <1>2, <2>1, <2>5, <2>6 DEF IsCall
<1>4. PICK rest : rest = cs \ {c}
  OBVIOUS
<1>5. OutboxRight(p, r, cs, some, ex, wi, n) /\ OfItem(p, a, c.msg, c.from)
  BY <1>1, MessageLeaves
<1>6. OutboxRight(p, r, rest, some, ex, wi, n)
  BY <1>1, <1>4, <1>5, CallEnds
<1>7. PICK mid : mid = [r EXCEPT ![a] = Append(@, entry)]
  OBVIOUS
<1>8. Told(r, a, entry, mid)
  BY <1>1, <1>7 DEF Told, Put
<1>9. OutboxRight(p, mid, rest, some, ex, wi, k)
  <2>1. <<a, c.msg>> \in some
    OBVIOUS
  <2> QED
    BY <1>1, <1>6, <1>8, <2>1, RowNoted
<1>10. Told(mid, a, row, next)
  <2>1. PICK s : s = r[a]
    OBVIOUS
  <2>2. IsSeq(s)
    BY <1>1, <2>1
  <2>3. s \o <<entry, row>> = Append(Append(s, entry), row)
    BY <2>2, TwoRows
  <2>4. slot = Append(Append(r[a], entry), row)
    BY <2>1, <2>3
  <2> QED
    BY <1>8, <2>4 DEF Told, Put
<1>11. OutboxRight(p, next, rest \cup {d}, some, ex \cup {x}, wi, j)
  <2>1. Told(mid, d.agent, row, next) /\ OfItem(p, d.agent, d.msg, d.from)
    BY <1>3, <1>5, <1>10
  <2>2. x = [agent |-> d.agent, row |-> j]
    BY <1>3 DEF RunIn
  <2> QED
    BY <1>1, <1>3, <1>9, <2>1, <2>2, CommandBegins
<1> QED
  BY <1>4, <1>11

LEMMA CatalogKeeps ==
  ASSUME NoneIsNoId, OutboxInv, NEW c \in awaiting, O!CatalogAnswers(c)
  PROVE  OutboxInv'
<1>1. PICK q, r, n, cs, ac, ex, wi, lg, a :
        /\ q = queues /\ r = slots /\ n = made /\ cs = awaiting /\ ac = accepted /\ ex = executed
        /\ wi = wiped /\ lg = log /\ a = c.agent
  OBVIOUS
<1>2. /\ tab \in Crew /\ n \in Nat /\ LogTyped(lg) /\ LogLeft(lg, ac) /\ OutboxRight(q, r, cs, ac, ex, wi, n)
      /\ DOMAIN r = Crew /\ c \in cs /\ IsCall(c, n) /\ a \in Crew
  BY <1>1 DEF OutboxInv, Outboxed, OutboxRight, RowsTyped, CallsTyped, IsCall
<1>3. c.stage = "catalog" /\ tab' = tab /\ log' = lg /\ wiped' = wi
  BY <1>1 DEF O!CatalogAnswers
<1>4. CASE /\ awaiting' = (awaiting \ {c}) \cup {[c EXCEPT !.stage = "skill"]}
           /\ UNCHANGED <<slots, queues, accepted, executed, made>>
  <2>1. PICK d : d = [c EXCEPT !.stage = "skill"]
    OBVIOUS
  <2>2. OutboxRight(q, r, (cs \ {c}) \cup {d}, ac, ex, wi, n)
    BY <1>2, <1>3, <2>1, SkillFound
  <2>3. awaiting' = (cs \ {c}) \cup {d}
    BY <1>1, <1>4, <2>1
  <2> QED
    BY <1>1, <1>2, <1>3, <1>4, <2>2, <2>3 DEF OutboxInv, Outboxed
<1>5. CASE /\ O!Accept(c.msg, c.agent, c.from, queues)
           /\ made' = made + 2
           /\ slots' = [slots EXCEPT ![c.agent] =
                          @ \o <<O!Row("user", c.msg, made + 1), O!Row("pending", c.msg, made + 2)>>]
           /\ awaiting' = (awaiting \ {c}) \cup {[c EXCEPT !.stage = "execute", !.row = made + 2]}
           /\ executed' = executed \cup {[agent |-> c.agent, row |-> made + 2]}
  <2>0. PICK k, j : k = n + 1 /\ j = n + 2
    OBVIOUS
  <2>a. PICK p, some, d, x, entry, row, next :
          /\ p = O!HeadLeaves(q, a, c.from) /\ some = ac \cup {<<a, c.msg>>}
          /\ d = RunsAs(c, j) /\ x = RunIn(a, j)
          /\ entry = O!Row("user", c.msg, k) /\ row = O!Row("pending", c.msg, j) /\ next = slots'
    OBVIOUS
  <2>1. PICK slot : slot = r[a] \o <<entry, row>>
    OBVIOUS
  <2>2. queues' = p /\ accepted' = some /\ made' = j
    BY <1>1, <1>5, <2>0, <2>a DEF O!Accept
  <2>3. awaiting' = (cs \ {c}) \cup {d} /\ executed' = ex \cup {x}
    BY <1>1, <1>5, <2>0, <2>a DEF RunsAs, RunIn
  <2>4. next = [r EXCEPT ![a] = slot]
    BY <1>1, <1>5, <2>0, <2>a, <2>1
  <2>5. Put(r, a, slot, next)
    BY <1>2, <2>4 DEF Put
  <2>6. OutboxRight(p, next, (cs \ {c}) \cup {d}, some, ex \cup {x}, wi, j)
    BY <1>1, <1>2, <1>3, <2>0, <2>a, <2>1, <2>5, CommandRuns
  <2>7. LogLeft(lg, some) /\ j \in Nat
    BY <1>2, <2>0, <2>a DEF LogLeft
  <2> QED
    BY <1>2, <1>3, <2>a, <2>2, <2>3, <2>6, <2>7 DEF OutboxInv, Outboxed
<1> QED
  BY <1>4, <1>5 DEF O!CatalogAnswers

LEMMA CommandKeeps ==
  ASSUME NoneIsNoId, OutboxInv, NEW c \in awaiting, O!CommandAnswers(c)
  PROVE  OutboxInv'
<1>1. PICK q, r, n, cs, ac, ex, wi, lg, a, next, slot :
        /\ q = queues /\ r = slots /\ n = made /\ cs = awaiting /\ ac = accepted /\ ex = executed
        /\ wi = wiped /\ lg = log /\ a = c.agent /\ next = slots' /\ slot = Results(slots[c.agent], c.row)
  OBVIOUS
<1>2. /\ tab \in Crew /\ n \in Nat /\ LogTyped(lg) /\ LogLeft(lg, ac) /\ OutboxRight(q, r, cs, ac, ex, wi, n)
      /\ DOMAIN r = Crew /\ c \in cs /\ IsCall(c, n) /\ a \in Crew
  BY <1>1 DEF OutboxInv, Outboxed, OutboxRight, RowsTyped, CallsTyped, IsCall
<1>3. /\ c.stage = "execute" /\ tab' = tab /\ log' = lg /\ wiped' = wi /\ queues' = q /\ accepted' = ac
      /\ executed' = ex /\ made' = n /\ awaiting' = cs \ {c}
  BY <1>1 DEF O!CommandAnswers, O!Answered
<1>4. next = [r EXCEPT ![a] = slot]
  BY <1>1 DEF O!CommandAnswers, Results
<1>5. Put(r, a, slot, next)
  BY <1>2, <1>4 DEF Put
<1>6. OutboxRight(q, next, cs \ {c}, ac, ex, wi, n)
  BY <1>1, <1>2, <1>3, <1>5, CommandEnds
<1> QED
  BY <1>1, <1>2, <1>3, <1>6 DEF OutboxInv, Outboxed

LEMMA ReloadKeeps ==
  ASSUME OutboxInv, NEW a \in Crew, O!Reload(a)
  PROVE  OutboxInv'
<1>1. PICK q, r, n, cs, ac, ex, wi, lg, next, slot :
        /\ q = queues /\ r = slots /\ n = made /\ cs = awaiting /\ ac = accepted /\ ex = executed
        /\ wi = wiped /\ lg = log /\ next = slots' /\ slot = OfLog(log[a])
  OBVIOUS
<1>2. /\ tab \in Crew /\ n \in Nat /\ LogTyped(lg) /\ LogLeft(lg, ac) /\ OutboxRight(q, r, cs, ac, ex, wi, n)
      /\ DOMAIN r = Crew
  BY <1>1 DEF OutboxInv, Outboxed, OutboxRight, RowsTyped
<1>3. /\ tab' = tab /\ log' = lg /\ queues' = q /\ accepted' = ac /\ executed' = ex /\ made' = n /\ awaiting' = cs
      /\ wiped' = wi \cup {r[a][i].id : i \in DOMAIN r[a]}
  BY <1>1 DEF O!Reload
<1>4. next = [r EXCEPT ![a] = slot]
  BY <1>1 DEF O!Reload, OfLog
<1>5. Put(r, a, OfLog(lg[a]), next)
  BY <1>1, <1>2, <1>4 DEF Put
<1>6. OutboxRight(q, next, cs, ac, ex, wi \cup {r[a][i].id : i \in DOMAIN r[a]}, n)
  BY <1>2, <1>5, SlotReloaded
<1> QED
  BY <1>1, <1>2, <1>3, <1>6 DEF OutboxInv, Outboxed

\* A turn that ends sends the head of the queue.
LEMMA TurnEndsKeeps ==
  ASSUME NoneIsNoId, OutboxInv, NEW a \in Crew, O!TurnEnds(a)
  PROVE  OutboxInv'
<1>1. PICK now : now = [O!Now EXCEPT !.busy[a] = FALSE]
  OBVIOUS
<1>2. now.queue = queues /\ now.rows = slots
  BY <1>1 DEF O!Now
<1>3. tab' = tab /\ wiped' = wiped
  BY DEF O!TurnEnds
<1>4. CASE UNCHANGED <<slots, queues, awaiting, log, accepted, executed, made>>
  BY <1>3, <1>4 DEF OutboxInv
<1>5. CASE queues[a] # <<>> /\ O!Start(Head(queues[a]).msg, a, Head(queues[a]).row, FALSE, now)
  <2>1. PICK m, from, first : first = queues[a][1] /\ m = first.msg /\ from = first.row
    OBVIOUS
  <2>2. IsSeq(queues[a])
    BY DEF OutboxInv, Outboxed, OutboxRight, ItemsTyped
  <2>3. Head(queues[a]) = first /\ 1 \in DOMAIN queues[a]
    BY <1>5, <2>1, <2>2, Shortened
  <2>4. O!Start(m, a, from, FALSE, now)
    BY <1>5, <2>1, <2>3
  <2>5. from \in {None} \cup 1..made
    BY <2>1, <2>3 DEF OutboxInv, Outboxed, OutboxRight, ItemsTyped, IsItem
  <2>6. OfItem(queues, a, m, from)
    BY <2>1, <2>3 DEF OutboxInv, Outboxed, OutboxRight, ItemsApart, OfItem
  <2>7. Outboxed(now.queue, now.rows, awaiting, accepted, executed, wiped, log, made) /\ OfItem(now.queue, a, m, from)
    BY <1>2, <2>6 DEF OutboxInv
  <2>8. Outboxed(queues', slots', awaiting', accepted', executed', wiped, log', made')
    BY <2>4, <2>5, <2>7, StartKeeps
  <2> QED
    BY <1>3, <2>8 DEF OutboxInv
<1> QED
  BY <1>1, <1>4, <1>5 DEF O!TurnEnds

LEMMA OutboxInitKeeps == ASSUME O!Init PROVE OutboxInv
<1>1. /\ tab \in Crew /\ made = 0 /\ awaiting = {} /\ executed = {}
      /\ slots = [a \in Crew |-> <<>>] /\ queues = [a \in Crew |-> <<>>] /\ log = [a \in Crew |-> <<>>]
  BY DEF O!Init, Crew
<1>2. IsSeq(<<>>) /\ DOMAIN <<>> = {}
  BY DEF IsSeq
<1>3. LogTyped(log) /\ LogLeft(log, accepted)
  BY <1>1, <1>2 DEF LogTyped, LogLeft
<1>4. RowsTyped(slots, 0) /\ ItemsTyped(queues, 0) /\ CallsTyped(queues, {}, 0)
  BY <1>1, <1>2 DEF RowsTyped, ItemsTyped, CallsTyped
<1>5. /\ RowsApart(slots) /\ ItemsApart(queues) /\ ItemsShown(queues, slots, wiped)
      /\ UsersLeft(queues, slots, accepted)
  BY <1>1, <1>2 DEF RowsApart, ItemsApart, ItemsShown, UsersLeft
<1>6. CommandsApart(queues, {}, {}, 0) /\ CommandsShown(slots, {}, {}, wiped)
  BY DEF CommandsApart, CommandsShown
<1> QED
  BY <1>1, <1>3, <1>4, <1>5, <1>6 DEF OutboxInv, Outboxed, OutboxRight

LEMMA OutboxNextKeeps == ASSUME NoneIsNoId, OutboxInv, O!Next PROVE OutboxInv'
<1>1. ASSUME NEW m \in unsent, O!Submit(m) PROVE OutboxInv'
  BY <1>1, SubmitKeeps
<1>2. ASSUME NEW i \in DOMAIN queues[tab], O!Take(i) \/ O!SendNow(i) PROVE OutboxInv'
  BY <1>2, TakeKeeps
<1>3. ASSUME NEW a \in Crew, O!Show(a) \/ O!ForeignTurn(a) PROVE OutboxInv'
  <2>1. tab' \in Crew
    BY <1>3 DEF O!Show, O!ForeignTurn, OutboxInv
  <2>2. UNCHANGED <<slots, queues, awaiting, log, accepted, executed, wiped, made>>
    BY <1>3 DEF O!Show, O!ForeignTurn
  <2> QED
    BY <2>1, <2>2 DEF OutboxInv
<1>4. ASSUME NEW a \in Crew, O!TurnEnds(a) \/ O!Reload(a) PROVE OutboxInv'
  BY <1>4, TurnEndsKeeps, ReloadKeeps
<1>5. ASSUME NEW c \in awaiting, O!ServerAnswers(c) \/ O!CatalogAnswers(c) \/ O!SkillAnswers(c) \/ O!CommandAnswers(c)
      PROVE  OutboxInv'
  BY <1>5, ServerKeeps, CatalogKeeps, SkillKeeps, CommandKeeps
<1> QED
  BY <1>1, <1>2, <1>3, <1>4, <1>5, ClearKeeps DEF O!Next, Crew

LEMMA OutboxStepKeeps ==
  ASSUME NoneIsNoId, OutboxInv, [MCNext]_mcVars
  PROVE  OutboxInv'
<1>1. O!Next \/ UNCHANGED outboxVars
  BY DEF MCNext, Text, History, Waiting, mcVars
<1>2. CASE UNCHANGED outboxVars
  <2>1. UNCHANGED <<tab, slots, queues, awaiting, log, accepted, executed, wiped, made>>
    BY <1>2 DEF outboxVars
  <2> QED
    BY <2>1 DEF OutboxInv
<1> QED
  BY <1>1, <1>2, OutboxNextKeeps

LEMMA OneRow ==
  ASSUME OutboxInv, NEW a \in Crew, NEW i \in DOMAIN slots[a], slots[a][i].id # 0
  PROVE  O!At(a, slots[a][i].id) = {i} /\ O!Cardinality(O!At(a, slots[a][i].id)) = 1
<1>1. O!At(a, slots[a][i].id) = {i}
  BY DEF OutboxInv, Outboxed, OutboxRight, RowsApart, O!At
<1>2. Cardinality({i}) = 1
  BY FS_Singleton
<1>3. O!Cardinality({i}) = 1
  BY <1>2 DEF O!Cardinality, Cardinality
<1> QED
  BY <1>1, <1>3

LEMMA RightIsShown == OutboxInv => OutboxShown
<1> SUFFICES ASSUME OutboxInv, NEW a \in {forge, mochi}
             PROVE  /\ \A id \in O!Waiting(a) \ wiped : O!Cardinality(O!At(a, id)) = 1
                    /\ \A i \in DOMAIN slots[a] :
                         slots[a][i].role = "user" =>
                           slots[a][i].id \in O!Waiting(a) \/ <<a, slots[a][i].msg>> \in accepted
                    /\ \A x \in executed : x.agent = a /\ x.row \notin wiped =>
                         \E i \in O!At(a, x.row) :
                           /\ O!At(a, x.row) = {i}
                           /\ slots[a][i].role = IF \E c \in awaiting : c.row = x.row THEN "pending" ELSE "result"
  BY DEF OutboxShown, O!OutboxShown
<1>1. a \in Crew /\ made \in Nat
  BY DEF Crew, OutboxInv, Outboxed
<1>2. O!Waiting(a) = {queues[a][j].row : j \in DOMAIN queues[a]}
  BY DEF O!Waiting, O!ToSet
<1>3. ASSUME NEW id \in O!Waiting(a) \ wiped PROVE O!Cardinality(O!At(a, id)) = 1
  <2>1. PICK j \in DOMAIN queues[a] : id = queues[a][j].row
    BY <1>2
  <2>2. id \in 1..made
    BY <1>1, <2>1 DEF OutboxInv, Outboxed, OutboxRight, ItemsTyped, IsItem
  <2>3. PICK i \in DOMAIN slots[a] : slots[a][i].id = id
    BY <1>1, <2>1 DEF OutboxInv, Outboxed, OutboxRight, ItemsShown
  <2>4. slots[a][i].id # 0
    BY <1>1, <2>2, <2>3
  <2> QED
    BY <1>1, <2>3, <2>4, OneRow
<1>4. ASSUME NEW i \in DOMAIN slots[a], slots[a][i].role = "user"
      PROVE  slots[a][i].id \in O!Waiting(a) \/ <<a, slots[a][i].msg>> \in accepted
  BY <1>1, <1>2, <1>4 DEF OutboxInv, Outboxed, OutboxRight, UsersLeft
<1>5. ASSUME NEW x \in executed, x.agent = a, x.row \notin wiped
      PROVE  \E i \in O!At(a, x.row) :
               /\ O!At(a, x.row) = {i}
               /\ slots[a][i].role = IF \E c \in awaiting : c.row = x.row THEN "pending" ELSE "result"
  <2>1. PICK i \in DOMAIN slots[a] :
          /\ slots[a][i].id = x.row
          /\ slots[a][i].role = IF \E c \in awaiting : c.row = x.row THEN "pending" ELSE "result"
    BY <1>5 DEF OutboxInv, Outboxed, OutboxRight, CommandsShown
  <2>2. x.row # 0
    BY <1>1 DEF OutboxInv, Outboxed, OutboxRight, CommandsApart
  <2>3. O!At(a, x.row) = {i}
    BY <1>1, <2>1, <2>2, OneRow
  <2> QED
    BY <2>1, <2>3
<1> QED
  BY <1>3, <1>4, <1>5

\* Whatever waits is shown once, in the slot it waits for, until a load takes its row away;
\* every other row of the user is of a message that left; a command is told where it was
\* entered, as running for as long as it does and then as what came of it (enqueueMessage,
\* dequeueMessage, clearQueue, sendMessage), wherever the tab went meanwhile.
THEOREM RowsAreShown == MCSpec => []OutboxShown
<1> USE ThreadAssumption DEF ThreadAssumption, NoneIsNoId
<1>1. MCInit => OutboxInv
  BY OutboxInitKeeps DEF MCInit
<1>2. OutboxInv /\ [MCNext]_mcVars => OutboxInv'
  BY OutboxStepKeeps
<1>3. OutboxInv => OutboxShown
  BY RightIsShown
<1> QED
  BY <1>1, <1>2, <1>3, PTL DEF MCSpec

-------------------------------------------------------------------------------
\* The composer: what becomes of a sequence.

Apart(s) == \A k, l \in DOMAIN s : s[k] = s[l] => k = l

\* What Among makes of the first elements.
Taken(s, items, n, g) == g[n] = IF n = 0 THEN <<>> ELSE IF s[n] \in items THEN Append(g[n - 1], s[n]) ELSE g[n - 1]

LEMMA AmongUnfold ==
  ASSUME NEW s, Len(s) \in Nat, NEW items
  PROVE  \E g : C!Among(s, items) = g[Len(s)] /\ \A n \in 0..Len(s) : Taken(s, items, n, g)
<1> DEFINE body(g) == [n \in 0..Len(s) |-> IF n = 0 THEN <<>> ELSE IF s[n] \in items THEN Append(g[n - 1], s[n])
                                           ELSE g[n - 1]]
<1> DEFINE kept == CHOOSE g : g = body(g)
<1>1. C!Among(s, items) = kept[Len(s)]
  BY DEF C!Among
<1>2. kept = body(kept)
  <2> DEFINE bad == {m \in 0..Len(s) : ~\E g : \A n \in 0..m : Taken(s, items, n, g)}
  <2>1. bad = {}
    <3> SUFFICES ASSUME bad # {} PROVE FALSE
      OBVIOUS
    <3>0. bad \subseteq Nat
      OBVIOUS
    <3> HIDE DEF bad
    <3>1. PICK x \in bad : \A y \in bad : x <= y
      BY <3>0, LeastElement
    <3> USE DEF bad
    <3>2. CASE x = 0
      <4>1. \A n \in 0..0 : Taken(s, items, n, [k \in {0} |-> <<>>])
        BY DEF Taken
      <4> QED
        BY <3>1, <3>2, <4>1
    <3>3. CASE x # 0
      <4>0. x \in Nat /\ x \in 0..Len(s)
        OBVIOUS
      <4>1. x \in Nat /\ x - 1 \in 0..Len(s) /\ x - 1 \notin bad
        <5> HIDE DEF bad
        <5>1. x - 1 \notin bad
          BY <3>1, <4>0
        <5> QED
          BY <3>3, <4>0, <5>1
      <4>2. PICK g : \A n \in 0..x - 1 : Taken(s, items, n, g)
        BY <4>1
      <4>3. PICK newest : newest = IF s[x] \in items THEN Append(g[x - 1], s[x]) ELSE g[x - 1]
        OBVIOUS
      <4> DEFINE h == [n \in 0..x |-> IF n = x THEN newest ELSE g[n]]
      <4>4. ASSUME NEW n \in 0..x PROVE Taken(s, items, n, h)
        <5>1. CASE n = x
          BY <3>3, <4>1, <4>3, <5>1 DEF Taken
        <5>2. CASE n # x
          <6>1. n \in 0..x - 1 /\ n - 1 # x /\ (n # 0 => n - 1 \in 0..x)
            BY <4>1, <5>2
          <6>2. h[n] = g[n] /\ (n # 0 => h[n - 1] = g[n - 1])
            BY <5>2, <6>1
          <6> QED
            BY <4>2, <6>1, <6>2 DEF Taken
        <5> QED
          BY <5>1, <5>2
      <4> QED
        BY <3>1, <4>4
    <3> QED
      BY <3>2, <3>3
  <2>2. PICK g : \A n \in 0..Len(s) : Taken(s, items, n, g)
    <3>1. Len(s) \in 0..Len(s) /\ Len(s) \notin bad
      BY <2>1
    <3> QED
      BY <3>1
  <2> DEFINE f == [n \in 0..Len(s) |-> g[n]]
  <2>3. ASSUME NEW n \in 0..Len(s)
        PROVE  f[n] = IF n = 0 THEN <<>> ELSE IF s[n] \in items THEN Append(f[n - 1], s[n]) ELSE f[n - 1]
    <3>1. n # 0 => n - 1 \in 0..Len(s)
      OBVIOUS
    <3> QED
      BY <2>2, <3>1 DEF Taken
  <2>4. f = body(f)
    <3> HIDE DEF f, kept
    <3>1. PICK e : e = body(f)
      OBVIOUS
    <3>2. f = [n \in 0..Len(s) |-> f[n]]
      BY DEF f
    <3>3. \A n \in 0..Len(s) : f[n] = e[n]
      BY <2>3, <3>1
    <3>4. DOMAIN e = 0..Len(s) /\ e = [n \in 0..Len(s) |-> e[n]]
      BY <3>1
    <3> QED
      BY <3>1, <3>2, <3>3, <3>4
  <2> QED
    BY <2>4, Zenon
<1>3. \A n \in 0..Len(s) : Taken(s, items, n, kept)
  BY <1>2 DEF Taken
<1> QED
  BY <1>1, <1>3

\* Among keeps what is among the items, each as often as it was there once.
LEMMA AmongThem ==
  ASSUME NEW s, IsSeq(s), NEW items
  PROVE  LET w == C!Among(s, items)
         IN  /\ IsSeq(w)
             /\ \A k \in DOMAIN w : \E i \in DOMAIN s : w[k] = s[i] /\ s[i] \in items
             /\ \A i \in DOMAIN s : s[i] \in items => \E k \in DOMAIN w : w[k] = s[i]
             /\ Apart(s) => Apart(w)
<1>2. Len(s) \in Nat /\ DOMAIN s = 1..Len(s)
  BY DEF IsSeq
<1>1. PICK kept : /\ C!Among(s, items) = kept[Len(s)]
                  /\ \A n \in 0..Len(s) : Taken(s, items, n, kept)
  BY <1>2, AmongUnfold
<1>4. \A n \in 0..Len(s) : kept[n] = IF n = 0 THEN <<>> ELSE IF s[n] \in items THEN Append(kept[n - 1], s[n])
                                     ELSE kept[n - 1]
  BY <1>1 DEF Taken
<1> DEFINE right(n) ==
      /\ IsSeq(kept[n])
      /\ \A k \in DOMAIN kept[n] : \E i \in 1..n : kept[n][k] = s[i] /\ s[i] \in items
      /\ \A i \in 1..n : s[i] \in items => \E k \in DOMAIN kept[n] : kept[n][k] = s[i]
      /\ Apart(s) => Apart(kept[n])
<1> DEFINE bad == {n \in 0..Len(s) : ~right(n)}
<1>5. right(0)
  <2>1. kept[0] = <<>>
    BY <1>2, <1>4
  <2> QED
    BY <2>1 DEF IsSeq, Apart
<1>6. ASSUME NEW n \in 1..Len(s), right(n - 1) PROVE right(n)
  <2>1. n \in 0..Len(s) /\ n # 0 /\ n \in Nat /\ 1..n = (1..n - 1) \cup {n} /\ n \in DOMAIN s /\ n \notin 1..n - 1
        /\ 1..n - 1 \subseteq DOMAIN s
    BY <1>2
  <2>2. CASE s[n] \notin items
    <3>1. kept[n] = kept[n - 1]
      BY <1>4, <2>1, <2>2
    <3> QED
      BY <1>6, <2>1, <2>2, <3>1
  <2>3. CASE s[n] \in items
    <3>1. PICK w : w = kept[n - 1]
      OBVIOUS
    <3>2. kept[n] = Append(w, s[n])
      BY <1>4, <2>1, <2>3, <3>1
    <3>3. /\ IsSeq(w)
          /\ \A k \in DOMAIN w : \E i \in 1..n - 1 : w[k] = s[i] /\ s[i] \in items
          /\ \A i \in 1..n - 1 : s[i] \in items => \E k \in DOMAIN w : w[k] = s[i]
          /\ Apart(s) => Apart(w)
      BY <1>6, <3>1
    <3>4. PICK v : v = Append(w, s[n])
      OBVIOUS
    <3>5. /\ IsSeq(v) /\ DOMAIN v = DOMAIN w \cup {Len(w) + 1} /\ Len(w) + 1 \notin DOMAIN w
          /\ v[Len(w) + 1] = s[n] /\ \A k \in DOMAIN w : v[k] = w[k]
      BY <3>3, <3>4, Grown
    <3>6. \A k \in DOMAIN v : \E i \in 1..n : v[k] = s[i] /\ s[i] \in items
      BY <2>1, <2>3, <3>3, <3>5
    <3>7. \A i \in 1..n : s[i] \in items => \E k \in DOMAIN v : v[k] = s[i]
      BY <2>1, <3>3, <3>5
    <3>8. ASSUME Apart(s), NEW k \in DOMAIN v, NEW l \in DOMAIN v, v[k] = v[l] PROVE k = l
      <4>1. ASSUME NEW j \in DOMAIN w, v[j] = s[n] PROVE FALSE
        <5>1. PICK i \in 1..n - 1 : w[j] = s[i]
          BY <3>3, <4>1
        <5>2. i = n
          BY <2>1, <3>5, <3>8, <4>1, <5>1 DEF Apart
        <5> QED
          BY <2>1, <5>2
      <4>2. CASE k \in DOMAIN w /\ l \in DOMAIN w
        BY <3>3, <3>5, <3>8, <4>2 DEF Apart
      <4>3. CASE k \notin DOMAIN w \/ l \notin DOMAIN w
        BY <3>5, <3>8, <4>1, <4>3
      <4> QED
        BY <4>2, <4>3
    <3>9. Apart(s) => Apart(v)
      BY <3>8 DEF Apart
    <3> QED
      BY <3>2, <3>4, <3>5, <3>6, <3>7, <3>9
  <2> QED
    BY <2>2, <2>3
<1> HIDE DEF right
<1>7. bad = {}
  <2> SUFFICES ASSUME bad # {} PROVE FALSE
    OBVIOUS
  <2>0. bad \subseteq Nat
    BY <1>2
  <2> HIDE DEF bad
  <2>1. PICK x \in bad : \A y \in bad : x <= y
    BY <2>0, LeastElement
  <2> USE DEF bad
  <2>2. x \in 1..Len(s) /\ x - 1 \in 0..Len(s) /\ x - 1 \notin bad
    BY <1>2, <1>5, <2>1
  <2>3. right(x - 1)
    BY <2>2
  <2> QED
    BY <1>6, <2>1, <2>2, <2>3
<1>8. right(Len(s))
  BY <1>2, <1>7
<1> QED
  BY <1>1, <1>2, <1>8 DEF right

LEMMA RemovedAt ==
  ASSUME NEW s, IsSeq(s), NEW i \in DOMAIN s
  PROVE  LET w == C!RemoveAt(s, i)
         IN  /\ IsSeq(w) /\ Len(s) \in Nat /\ DOMAIN s = 1..Len(s)
             /\ Len(w) = Len(s) - 1 /\ DOMAIN w = 1..Len(s) - 1
             /\ \A k \in DOMAIN w : w[k] = s[IF k < i THEN k ELSE k + 1]
<1> DEFINE T == {s[k] : k \in DOMAIN s}
<1> DEFINE a == SubSeq(s, 1, i - 1)
<1> DEFINE b == SubSeq(s, i + 1, Len(s))
<1>0. s \in Seq(T)
  BY DEF IsSeq
<1>1. Len(s) \in Nat /\ i \in 1..Len(s) /\ DOMAIN s = 1..Len(s)
  BY <1>0
<1> HIDE DEF T
<1>2. a \in Seq(T) /\ Len(a) = i - 1 /\ \A j \in 1..i - 1 : a[j] = s[j]
  BY <1>0, <1>1
<1>3. b \in Seq(T) /\ Len(b) = Len(s) - i /\ \A j \in 1..Len(s) - i : b[j] = s[i + j]
  BY <1>0, <1>1
<1> HIDE DEF a, b
<1>4. PICK w : w = a \o b
  OBVIOUS
<1>5. w \in Seq(T) /\ Len(w) = Len(a) + Len(b) /\ DOMAIN w = 1..Len(w)
  <2>a. a \in Seq(T) /\ b \in Seq(T)
    BY <1>2, <1>3
  <2>1. w \in Seq(T)
    BY <1>4, <2>a
  <2>2. Len(w) = Len(a) + Len(b)
    BY <1>4, <2>a
  <2> QED
    BY <2>1, <2>2
<1>6. Len(w) = Len(s) - 1
  BY <1>1, <1>2, <1>3, <1>5
<1>7. ASSUME NEW j \in DOMAIN w PROVE w[j] = s[IF j < i THEN j ELSE j + 1]
  <2>1. CASE j < i
    BY <1>1, <1>2, <1>3, <1>4, <1>5, <1>6, <2>1
  <2>2. CASE ~ (j < i)
    <3>1. PICK k : k = j - (i - 1)
      OBVIOUS
    <3>2. k \in 1..Len(s) - i /\ i + k = j + 1
      BY <1>1, <1>5, <1>6, <2>2, <3>1
    <3>3. w[j] = b[k]
      <4>1. j \in 1..Len(a) + Len(b) /\ j > Len(a) /\ Len(a) \in Nat /\ Len(b) \in Nat
        BY <1>1, <1>2, <1>3, <1>5, <2>2
      <4>2. w[j] = b[j - Len(a)]
        BY <1>2, <1>3, <1>4, <4>1
      <4> QED
        BY <1>2, <3>1, <4>2
    <3> QED
      BY <1>3, <2>2, <3>2, <3>3
  <2> QED
    BY <2>1, <2>2
<1>8. C!RemoveAt(s, i) = w
  BY <1>4 DEF C!RemoveAt, a, b
<1>9. IsSeq(w)
  BY <1>5, OwnElements DEF IsSeq
<1> QED
  BY <1>1, <1>5, <1>6, <1>7, <1>8, <1>9

IsJoined(w, s, t) == w = s \o t

LEMMA Joined ==
  ASSUME NEW s, IsSeq(s), NEW t, IsSeq(t), NEW w, IsJoined(w, s, t)
  PROVE  /\ IsSeq(w) /\ Len(s) \in Nat /\ DOMAIN s = 1..Len(s)
         /\ \A k \in DOMAIN s : k \in DOMAIN w /\ w[k] = s[k]
         /\ \A k \in DOMAIN t : Len(s) + k \in DOMAIN w /\ w[Len(s) + k] = t[k]
         /\ \A k \in DOMAIN w \ DOMAIN s : \E l \in DOMAIN t : k = Len(s) + l /\ w[k] = t[l]
<1> DEFINE T == {s[k] : k \in DOMAIN s} \cup {t[k] : k \in DOMAIN t}
<1>0. w = s \o t
  BY DEF IsJoined
<1>1. s \in Seq(T) /\ t \in Seq(T)
  BY DEF IsSeq
<1> HIDE DEF T
<1>2. w \in Seq(T) /\ Len(w) = Len(s) + Len(t) /\ Len(s) \in Nat /\ Len(t) \in Nat
  BY <1>0, <1>1
<1>3. DOMAIN w = 1..Len(s) + Len(t) /\ DOMAIN s = 1..Len(s) /\ DOMAIN t = 1..Len(t)
  BY <1>1, <1>2
<1>4. IsSeq(w)
  <2>1. w \in Seq(T)
    BY <1>2
  <2>2. w \in Seq({w[i] : i \in DOMAIN w})
    BY <2>1, OwnElements
  <2> QED
    BY <2>2 DEF IsSeq
<1>5. ASSUME NEW k \in DOMAIN s PROVE k \in DOMAIN w /\ w[k] = s[k]
  BY <1>0, <1>1, <1>2, <1>3, <1>5
<1>6. ASSUME NEW k \in DOMAIN t PROVE Len(s) + k \in DOMAIN w /\ w[Len(s) + k] = t[k]
  <2>1. PICK j : j = Len(s) + k
    OBVIOUS
  <2>2. j \in 1..Len(s) + Len(t) /\ j > Len(s) /\ k = j - Len(s)
    BY <1>2, <1>3, <1>6, <2>1
  <2> QED
    BY <1>0, <1>1, <1>3, <2>1, <2>2
<1>7. ASSUME NEW k \in DOMAIN w \ DOMAIN s PROVE \E l \in DOMAIN t : k = Len(s) + l /\ w[k] = t[l]
  <2>1. PICK l : l = k - Len(s)
    OBVIOUS
  <2>2. l \in DOMAIN t /\ k = Len(s) + l
    BY <1>2, <1>3, <1>7, <2>1
  <2> QED
    BY <1>6, <2>2
<1> QED
  BY <1>2, <1>3, <1>4, <1>5, <1>6, <1>7

LEMMA TailOf ==
  ASSUME NEW s, IsSeq(s), s # <<>>
  PROVE  /\ IsSeq(Tail(s)) /\ Len(s) \in Nat /\ DOMAIN s = 1..Len(s) /\ 1 \in DOMAIN s /\ Head(s) = s[1]
         /\ DOMAIN Tail(s) = 1..Len(s) - 1
         /\ \A k \in DOMAIN Tail(s) : k + 1 \in DOMAIN s /\ Tail(s)[k] = s[k + 1]
<1> DEFINE T == {s[k] : k \in DOMAIN s}
<1>1. s \in Seq(T) /\ Len(s) \in Nat \ {0} /\ DOMAIN s = 1..Len(s)
  BY DEF IsSeq
<1> HIDE DEF T
<1>2. Tail(s) \in Seq(T) /\ Len(Tail(s)) = Len(s) - 1
  BY <1>1
<1>3. IsSeq(Tail(s))
  BY <1>2, OwnElements DEF IsSeq
<1>4. DOMAIN Tail(s) = 1..Len(s) - 1
  BY <1>1, <1>2
<1> QED
  BY <1>1, <1>2, <1>3, <1>4

-------------------------------------------------------------------------------
\* What was entered is in one place. Words are in a text, which is also the draft of its thread,
\* or in a message; files are being read, attached, or in a message.

Tabs == {t1, t2}

Mine(x, st) == x.kind # "advice" /\ x \notin st

In(bs, x) == \E j \in DOMAIN bs : \E k \in DOMAIN bs[j].items : bs[j].items[k] = x
Said(ms, x) == \E i \in DOMAIN ms : \E k \in DOMAIN ms[i].words : ms[i].words[k] = x
Brought(ms, x) == \E i \in DOMAIN ms : \E k \in DOMAIN ms[i].files : ms[i].files[k] = x

Upto(s, e) == IsSeq(s) /\ \A k \in DOMAIN s : s[k].n \in Nat /\ s[k].n <= e

\* The text s of the thread t.
Fits(s, t, bs, ms, st, e) ==
  /\ Upto(s, e)
  /\ \A k \in DOMAIN s : Mine(s[k], st) =>
       /\ s[k].kind # "file" /\ s[k].thread = t /\ ~In(bs, s[k]) /\ ~Said(ms, s[k])
       /\ \A l \in DOMAIN s : s[l] = s[k] => l = k

TextsFit(h, on, s, ds, bs, ms, st, e) ==
  /\ h \in Tabs \cup {NoThread} /\ DOMAIN ds = Tabs
  /\ Fits(s, h, bs, ms, st, e)
  /\ \A t \in Tabs : Fits(ds[t], t, bs, ms, st, e)
  /\ on /\ h # NoThread => ds[h] = s
  /\ ~on => s = <<>>

BatchFits(b, e) ==
  /\ b = [owner |-> b.owner, read |-> b.read, items |-> b.items]
  /\ Upto(b.items, e)
  /\ \A k \in DOMAIN b.items : /\ b.items[k].kind \in {"file", "pill"}
                               /\ b.items[k].thread = b.owner.thread
                               /\ b.items[k].gen = b.owner.gen

BatchesFit(bs, e) ==
  /\ IsSeq(bs)
  /\ \A j \in DOMAIN bs : BatchFits(bs[j], e) /\ Apart(bs[j].items)
  /\ \A i, j \in DOMAIN bs : i # j =>
       \A k \in DOMAIN bs[i].items : \A l \in DOMAIN bs[j].items : bs[i].items[k] # bs[j].items[l]

\* What is attached: what was chosen in the visit that the owner stands for is of its thread.
FilesFit(f, o, bs, ms, e) ==
  /\ o = [thread |-> o.thread, gen |-> o.gen] /\ o.thread \in Tabs \cup {NoThread} /\ o.gen \in Nat
  /\ Upto(f, e) /\ Apart(f)
  /\ \A k \in DOMAIN f : /\ f[k].kind = "file" /\ f[k].gen \in Nat /\ f[k].gen <= o.gen
                         /\ f[k].gen = o.gen => f[k].thread = o.thread
                         /\ ~In(bs, f[k]) /\ ~Brought(ms, f[k])

MessageFits(m, bs, st, e) ==
  /\ Upto(m.words, e) /\ Upto(m.files, e)
  /\ \A k \in DOMAIN m.words : Mine(m.words[k], st) =>
       /\ m.words[k].kind # "file" /\ m.words[k].thread = m.to /\ ~In(bs, m.words[k])
       /\ \A l \in DOMAIN m.words : m.words[l] = m.words[k] => l = k
  /\ Apart(m.files)
  /\ \A k \in DOMAIN m.files :
       m.files[k].kind = "file" /\ m.files[k].thread = m.to /\ ~In(bs, m.files[k])

Disjoint(m, p, st) ==
  /\ \A k \in DOMAIN m.words : \A l \in DOMAIN p.words : Mine(m.words[k], st) => m.words[k] # p.words[l]
  /\ \A k \in DOMAIN m.files : \A l \in DOMAIN p.files : m.files[k] # p.files[l]

MessagesFit(bs, ms, st, e) ==
  /\ IsSeq(ms)
  /\ \A i \in DOMAIN ms : MessageFits(ms[i], bs, st, e)
  /\ \A i, j \in DOMAIN ms : i # j => Disjoint(ms[i], ms[j], st)

\* No file chosen before a word in the same visit stays behind the message with that word.
Behind(f, bs, ms, i, x) ==
  \/ \E k \in DOMAIN f : f[k] = x
  \/ In(bs, x)
  \/ \E j \in i + 1 .. Len(ms) : \E k \in DOMAIN ms[j].files : ms[j].files[k] = x

Together(f, bs, ms) ==
  \A i \in DOMAIN ms : ms[i].how = "send" =>
    \A k \in DOMAIN ms[i].words : ms[i].words[k].kind = "word" =>
      \A x : Behind(f, bs, ms, i, x) /\ x.thread = ms[i].to /\ x.gen = ms[i].gen => x.n > ms[i].words[k].n

Composed(h, on, s, o, ds, f, bs, ms, st, e) ==
  /\ e \in Nat /\ on \in BOOLEAN
  /\ TextsFit(h, on, s, ds, bs, ms, st, e)
  /\ BatchesFit(bs, e)
  /\ FilesFit(f, o, bs, ms, e)
  /\ MessagesFit(bs, ms, st, e)
  /\ Together(f, bs, ms)

ComposeInv == /\ mounted = [on |-> mounted.on, count |-> mounted.count]
              /\ Composed(here, mounted.on, text, owner, drafts, attached, batches, sent, strays, entered)

LEMMA ComposeInitKeeps == ASSUME C!Init PROVE ComposeInv
<1>1. /\ here \in Tabs /\ mounted.on = TRUE /\ mounted = [on |-> mounted.on, count |-> mounted.count]
      /\ text = <<>> /\ attached = <<>> /\ batches = <<>> /\ sent = <<>> /\ strays = {} /\ entered = 0
      /\ owner = [thread |-> here, gen |-> 1] /\ drafts = [t \in Tabs |-> <<>>]
  BY DEF C!Init, Tabs
<1>2. IsSeq(<<>>) /\ DOMAIN <<>> = {}
  BY DEF IsSeq
<1>3. owner.thread = here /\ owner.gen = 1 /\ DOMAIN drafts = Tabs /\ \A t \in Tabs : drafts[t] = <<>>
  BY <1>1
<1>4. TextsFit(here, TRUE, text, drafts, batches, sent, strays, entered)
  BY <1>1, <1>2, <1>3 DEF TextsFit, Fits, Upto
<1>5. BatchesFit(batches, entered)
  BY <1>1, <1>2 DEF BatchesFit
<1>6. FilesFit(attached, owner, batches, sent, entered)
  BY <1>1, <1>2, <1>3 DEF FilesFit, Upto, Apart
<1>7. MessagesFit(batches, sent, strays, entered) /\ Together(attached, batches, sent)
  BY <1>1, <1>2 DEF MessagesFit, Together
<1> QED
  BY <1>1, <1>4, <1>5, <1>6, <1>7 DEF ComposeInv, Composed

\* The invariant is what the property says and more.
LEMMA ComposedIs == ComposeInv => ComposedMessages
<1> SUFFICES ASSUME ComposeInv PROVE C!SentWhereWritten /\ C!FilesLeaveTogether
  BY DEF ComposedMessages, C!ComposedMessages
<1>0. MessagesFit(batches, sent, strays, entered) /\ Together(attached, batches, sent)
  BY DEF ComposeInv, Composed
<1>1. ASSUME NEW i \in DOMAIN sent, NEW p \in C!Places(sent[i]), C!At(sent[i], p) \notin strays
      PROVE  /\ C!At(sent[i], p).thread = sent[i].to
             /\ \A j \in DOMAIN sent : \A q \in C!Places(sent[j]) :
                  C!At(sent[j], q) = C!At(sent[i], p) => j = i /\ q = p
  <2>1. \A j \in DOMAIN sent : \A q \in C!Places(sent[j]) :
          \/ \E k \in DOMAIN sent[j].words : /\ sent[j].words[k].kind # "advice" /\ q = <<"words", k>>
                                             /\ C!At(sent[j], q) = sent[j].words[k]
          \/ \E k \in DOMAIN sent[j].files : q = <<"files", k>> /\ C!At(sent[j], q) = sent[j].files[k]
    BY DEF C!Places, C!At
  <2>2. CASE \E k \in DOMAIN sent[i].words : /\ sent[i].words[k].kind # "advice" /\ p = <<"words", k>>
                                             /\ C!At(sent[i], p) = sent[i].words[k]
    <3>1. PICK k \in DOMAIN sent[i].words : /\ sent[i].words[k].kind # "advice" /\ p = <<"words", k>>
                                            /\ C!At(sent[i], p) = sent[i].words[k]
      BY <2>2
    <3>2. Mine(sent[i].words[k], strays) /\ MessageFits(sent[i], batches, strays, entered)
      BY <1>0, <1>1, <3>1 DEF Mine, MessagesFit
    <3>3. /\ sent[i].words[k].kind # "file" /\ sent[i].words[k].thread = sent[i].to
          /\ \A l \in DOMAIN sent[i].words : sent[i].words[l] = sent[i].words[k] => l = k
      BY <3>2 DEF MessageFits
    <3>4. ASSUME NEW j \in DOMAIN sent, NEW q \in C!Places(sent[j]), C!At(sent[j], q) = C!At(sent[i], p)
          PROVE  j = i /\ q = p
      <4>1. CASE \E l \in DOMAIN sent[j].words : q = <<"words", l>> /\ C!At(sent[j], q) = sent[j].words[l]
        <5>1. PICK l \in DOMAIN sent[j].words : q = <<"words", l>> /\ sent[j].words[l] = sent[i].words[k]
          BY <3>1, <3>4, <4>1
        <5>2. j = i
          BY <1>0, <3>2, <5>1 DEF MessagesFit, Disjoint
        <5> QED
          BY <3>1, <3>3, <5>1, <5>2
      <4>2. CASE \E l \in DOMAIN sent[j].files : C!At(sent[j], q) = sent[j].files[l]
        <5>1. PICK l \in DOMAIN sent[j].files : sent[j].files[l] = sent[i].words[k]
          BY <3>1, <3>4, <4>2
        <5>2. sent[j].files[l].kind = "file"
          BY <1>0 DEF MessagesFit, MessageFits
        <5> QED
          BY <3>3, <5>1, <5>2
      <4> QED
        BY <2>1, <4>1, <4>2
    <3> QED
      BY <3>1, <3>3, <3>4
  <2>3. CASE \E k \in DOMAIN sent[i].files : p = <<"files", k>> /\ C!At(sent[i], p) = sent[i].files[k]
    <3>1. PICK k \in DOMAIN sent[i].files : p = <<"files", k>> /\ C!At(sent[i], p) = sent[i].files[k]
      BY <2>3
    <3>2. MessageFits(sent[i], batches, strays, entered)
      BY <1>0 DEF MessagesFit
    <3>3. sent[i].files[k].kind = "file" /\ sent[i].files[k].thread = sent[i].to /\ Apart(sent[i].files)
      BY <3>2 DEF MessageFits
    <3>4. ASSUME NEW j \in DOMAIN sent, NEW q \in C!Places(sent[j]), C!At(sent[j], q) = C!At(sent[i], p)
          PROVE  j = i /\ q = p
      <4>1. CASE \E l \in DOMAIN sent[j].words : /\ sent[j].words[l].kind # "advice"
                                                 /\ C!At(sent[j], q) = sent[j].words[l]
        <5>1. PICK l \in DOMAIN sent[j].words : /\ sent[j].words[l].kind # "advice"
                                                /\ sent[j].words[l] = sent[i].files[k]
          BY <3>1, <3>4, <4>1
        <5>2. Mine(sent[j].words[l], strays)
          BY <1>1, <3>1, <5>1 DEF Mine
        <5>3. sent[j].words[l].kind # "file"
          BY <1>0, <5>2 DEF MessagesFit, MessageFits
        <5> QED
          BY <3>3, <5>1, <5>3
      <4>2. CASE \E l \in DOMAIN sent[j].files : q = <<"files", l>> /\ C!At(sent[j], q) = sent[j].files[l]
        <5>1. PICK l \in DOMAIN sent[j].files : q = <<"files", l>> /\ sent[j].files[l] = sent[i].files[k]
          BY <3>1, <3>4, <4>2
        <5>2. j = i
          BY <1>0, <5>1 DEF MessagesFit, Disjoint
        <5> QED
          BY <3>1, <3>3, <5>1, <5>2 DEF Apart
      <4> QED
        BY <2>1, <4>1, <4>2
    <3> QED
      BY <3>1, <3>3, <3>4
  <2> QED
    BY <2>1, <2>2, <2>3
<1>2. C!SentWhereWritten
  BY <1>1 DEF C!SentWhereWritten
<1>3. C!FilesLeaveTogether
  <2> SUFFICES ASSUME NEW i \in DOMAIN sent, NEW word \in C!ToSet(sent[i].words), sent[i].how = "send",
                      word.kind = "word",
                      NEW x \in C!ToSet(attached)
                                  \cup (UNION {C!ToSet(batches[j].items) : j \in DOMAIN batches})
                                  \cup (UNION {C!ToSet(sent[j].files) : j \in i + 1 .. Len(sent)}),
                      x.thread = sent[i].to, x.gen = sent[i].gen
               PROVE  x.n > word.n
    BY DEF C!FilesLeaveTogether
  <2>1. PICK k \in DOMAIN sent[i].words : sent[i].words[k] = word
    BY DEF C!ToSet
  <2>2. Behind(attached, batches, sent, i, x)
    <3>1. CASE x \in C!ToSet(attached)
      BY <3>1 DEF C!ToSet, Behind
    <3>2. CASE \E j \in DOMAIN batches : x \in C!ToSet(batches[j].items)
      BY <3>2 DEF C!ToSet, Behind, In
    <3>3. CASE \E j \in i + 1 .. Len(sent) : x \in C!ToSet(sent[j].files)
      BY <3>3 DEF C!ToSet, Behind
    <3> QED
      BY <3>1, <3>2, <3>3
  <2> QED
    BY <1>0, <2>1, <2>2 DEF Together
<1> QED
  BY <1>2, <1>3

-------------------------------------------------------------------------------
\* What a change of one place does to the others.

\* The batches ds and the messages ns have no more of what was entered up to e.
NoMore(bs, ms, ds, ns, st, e) ==
  \A x : x.n \in Nat /\ x.n <= e =>
    /\ In(ds, x) => In(bs, x)
    /\ Said(ns, x) => Said(ms, x) \/ x \in st
    /\ Brought(ns, x) => Brought(ms, x)

LEMMA FitsMove ==
  ASSUME NEW s, NEW t, NEW bs, NEW ms, NEW st, NEW e \in Nat, Fits(s, t, bs, ms, st, e),
         NEW ds, NEW ns, NEW sp, NEW k \in Nat, e <= k, st \subseteq sp, NoMore(bs, ms, ds, ns, sp, e)
  PROVE  Fits(s, t, ds, ns, sp, k)
<1>1. Upto(s, e)
  BY DEF Fits
<1>2. Upto(s, k)
  BY <1>1 DEF Upto
<1>3. ASSUME NEW i \in DOMAIN s, Mine(s[i], sp)
      PROVE  /\ s[i].kind # "file" /\ s[i].thread = t /\ ~In(ds, s[i]) /\ ~Said(ns, s[i])
             /\ \A l \in DOMAIN s : s[l] = s[i] => l = i
  <2>1. PICK x : x = s[i]
    OBVIOUS
  <2>2. Mine(x, st) /\ x \notin sp
    BY <1>3, <2>1 DEF Mine
  <2>3. /\ x.kind # "file" /\ x.thread = t /\ ~In(bs, x) /\ ~Said(ms, x)
        /\ \A l \in DOMAIN s : s[l] = s[i] => l = i
    BY <2>1, <2>2 DEF Fits
  <2>4. x.n \in Nat /\ x.n <= e
    BY <1>1, <2>1 DEF Upto
  <2>5. ~In(ds, x) /\ ~Said(ns, x)
    BY <2>2, <2>3, <2>4 DEF NoMore
  <2> QED
    BY <2>1, <2>3, <2>5
<1> QED
  BY <1>2, <1>3 DEF Fits

LEMMA TextsMove ==
  ASSUME NEW h, NEW on, NEW s, NEW dr, NEW bs, NEW ms, NEW st, NEW e \in Nat, TextsFit(h, on, s, dr, bs, ms, st, e),
         NEW ds, NEW ns, NEW sp, NEW k \in Nat, e <= k, st \subseteq sp, NoMore(bs, ms, ds, ns, sp, e)
  PROVE  TextsFit(h, on, s, dr, ds, ns, sp, k)
<1>1. Fits(s, h, ds, ns, sp, k)
  BY FitsMove DEF TextsFit
<1>2. ASSUME NEW t \in Tabs PROVE Fits(dr[t], t, ds, ns, sp, k)
  <2>1. PICK d : d = dr[t]
    OBVIOUS
  <2>2. Fits(d, t, bs, ms, st, e)
    BY <2>1 DEF TextsFit
  <2>3. Fits(d, t, ds, ns, sp, k)
    BY <2>2, FitsMove
  <2> QED
    BY <2>1, <2>3
<1> QED
  BY <1>1, <1>2 DEF TextsFit

LEMMA FilesMove ==
  ASSUME NEW f, NEW o, NEW bs, NEW ms, NEW e \in Nat, FilesFit(f, o, bs, ms, e),
         NEW ds, NEW ns, NEW sp, NEW k \in Nat, e <= k, NoMore(bs, ms, ds, ns, sp, e)
  PROVE  FilesFit(f, o, ds, ns, k)
<1>1. Upto(f, e) /\ Upto(f, k)
  BY DEF FilesFit, Upto
<1>2. ASSUME NEW i \in DOMAIN f PROVE ~In(ds, f[i]) /\ ~Brought(ns, f[i])
  <2>1. PICK x : x = f[i]
    OBVIOUS
  <2>2. x.n \in Nat /\ x.n <= e /\ ~In(bs, x) /\ ~Brought(ms, x)
    BY <1>1, <2>1 DEF FilesFit, Upto
  <2>3. ~In(ds, x) /\ ~Brought(ns, x)
    BY <2>2 DEF NoMore
  <2> QED
    BY <2>1, <2>3
<1> QED
  BY <1>1, <1>2 DEF FilesFit

LEMMA MessagesMove ==
  ASSUME NEW bs, NEW ms, NEW st, NEW e \in Nat, MessagesFit(bs, ms, st, e),
         NEW ds, NEW sp, NEW k \in Nat, e <= k, st \subseteq sp, NoMore(bs, ms, ds, ms, sp, e)
  PROVE  MessagesFit(ds, ms, sp, k)
<1>1. ASSUME NEW i \in DOMAIN ms PROVE MessageFits(ms[i], ds, sp, k)
  <2>1. PICK w, f, to : w = ms[i].words /\ f = ms[i].files /\ to = ms[i].to
    OBVIOUS
  <2>2. MessageFits(ms[i], bs, st, e)
    BY DEF MessagesFit
  <2>3. Upto(w, e) /\ Upto(f, e) /\ Upto(w, k) /\ Upto(f, k)
    BY <2>1, <2>2 DEF MessageFits, Upto
  <2>4. ASSUME NEW j \in DOMAIN w, Mine(w[j], sp)
        PROVE  /\ w[j].kind # "file" /\ w[j].thread = to /\ ~In(ds, w[j])
               /\ \A l \in DOMAIN w : w[l] = w[j] => l = j
    <3>1. PICK x : x = w[j]
      OBVIOUS
    <3>2. Mine(x, st) /\ x.n \in Nat /\ x.n <= e
      BY <2>3, <2>4, <3>1 DEF Mine, Upto
    <3>3. /\ x.kind # "file" /\ x.thread = to /\ ~In(bs, x)
          /\ \A l \in DOMAIN w : w[l] = x => l = j
      BY <2>1, <2>2, <3>1, <3>2 DEF MessageFits
    <3>4. ~In(ds, x)
      BY <3>2, <3>3 DEF NoMore
    <3> QED
      BY <3>1, <3>3, <3>4
  <2>5. ASSUME NEW j \in DOMAIN f PROVE f[j].kind = "file" /\ f[j].thread = to /\ ~In(ds, f[j])
    <3>1. PICK x : x = f[j]
      OBVIOUS
    <3>2. x.kind = "file" /\ x.thread = to /\ ~In(bs, x) /\ x.n \in Nat /\ x.n <= e
      BY <2>1, <2>2, <2>3, <3>1 DEF MessageFits, Upto
    <3>3. ~In(ds, x)
      BY <3>2 DEF NoMore
    <3> QED
      BY <3>1, <3>2, <3>3
  <2>6. Apart(f)
    BY <2>1, <2>2 DEF MessageFits
  <2> QED
    BY <2>1, <2>3, <2>4, <2>5, <2>6 DEF MessageFits
<1>2. \A i, j \in DOMAIN ms : i # j => Disjoint(ms[i], ms[j], sp)
  BY DEF MessagesFit, Disjoint, Mine
<1> QED
  BY <1>1, <1>2 DEF MessagesFit

\* Files that came after the words do not matter to them.
LEMMA TogetherMove ==
  ASSUME NEW bs, NEW ms, NEW st, NEW e \in Nat, MessagesFit(bs, ms, st, e), NEW f, Together(f, bs, ms),
         NEW g, NEW ds,
         \A x : (\E k \in DOMAIN g : g[k] = x) \/ In(ds, x) =>
                (\E k \in DOMAIN f : f[k] = x) \/ In(bs, x) \/ (x.n \in Nat /\ x.n > e)
  PROVE  Together(g, ds, ms)
<1> SUFFICES ASSUME NEW i \in DOMAIN ms, ms[i].how = "send", NEW k \in DOMAIN ms[i].words,
                    ms[i].words[k].kind = "word",
                    NEW x, Behind(g, ds, ms, i, x), x.thread = ms[i].to, x.gen = ms[i].gen
             PROVE  x.n > ms[i].words[k].n
  BY DEF Together
<1>1. CASE Behind(f, bs, ms, i, x)
  BY <1>1 DEF Together
<1>2. CASE x.n \in Nat /\ x.n > e
  <2>1. Upto(ms[i].words, e)
    BY DEF MessagesFit, MessageFits
  <2>2. PICK n : n = ms[i].words[k].n
    OBVIOUS
  <2>3. n \in Nat /\ n <= e
    BY <2>1, <2>2 DEF Upto
  <2>4. x.n > n
    BY <1>2, <2>3
  <2> QED
    BY <2>2, <2>4
<1> QED
  BY <1>1, <1>2 DEF Behind

\* The input and the draft of its thread get the text v.
LEMMA TextWritten ==
  ASSUME NEW h, NEW on, NEW s, NEW dr, NEW bs, NEW ms, NEW st, NEW e, TextsFit(h, on, s, dr, bs, ms, st, e), on,
         NEW v, Fits(v, h, bs, ms, st, e), NEW d, d = C!Write(dr, h, v)
  PROVE  TextsFit(h, on, v, d, bs, ms, st, e)
<1>1. CASE h = NoThread
  BY <1>1 DEF TextsFit, C!Write
<1>2. CASE h # NoThread
  <2>1. h \in Tabs /\ DOMAIN dr = Tabs /\ d = [dr EXCEPT ![h] = v]
    BY <1>2 DEF TextsFit, C!Write
  <2>2. DOMAIN d = Tabs /\ d[h] = v /\ \A t \in Tabs : t # h => d[t] = dr[t]
    BY <2>1
  <2> QED
    BY <1>2, <2>1, <2>2 DEF TextsFit
<1> QED
  BY <1>1, <1>2

LEMMA NothingFits == \A t, bs, ms, st, e : Fits(<<>>, t, bs, ms, st, e)
<1>1. IsSeq(<<>>) /\ DOMAIN <<>> = {}
  BY DEF IsSeq
<1> QED
  BY <1>1 DEF Fits, Upto

LEMMA NothingLost == ASSUME NEW bs, NEW ms, NEW st, NEW e PROVE NoMore(bs, ms, bs, ms, st, e)
  BY DEF NoMore

\* Of the attached files f some leave with the message m, the others are g.
Leaves(f, m, g, bs, e) ==
  /\ Upto(m.files, e) /\ Apart(m.files)
  /\ \A k \in DOMAIN m.files : m.files[k].thread = m.to /\ \E l \in DOMAIN f : f[l] = m.files[k]
  /\ Upto(g, e) /\ Apart(g)
  /\ \A k \in DOMAIN g : (\E l \in DOMAIN f : f[l] = g[k]) /\ \A l \in DOMAIN m.files : m.files[l] # g[k]
  /\ m.how = "send" => \A x : (\E k \in DOMAIN g : g[k] = x) \/ In(bs, x) => x.gen # m.gen

\* The text of the input becomes a message; with it go some of the files.
LEMMA MessageSent ==
  ASSUME NEW h, NEW on, NEW s, NEW o, NEW dr, NEW f, NEW bs, NEW ms, NEW st, NEW e,
         Composed(h, on, s, o, dr, f, bs, ms, st, e), on, h # NoThread,
         NEW m, m.words = s, m.to = h,
         NEW g, Leaves(f, m, g, bs, e),
         NEW d, d = C!Write(dr, h, <<>>), NEW ns, ns = Append(ms, m)
  PROVE  Composed(h, on, <<>>, o, d, g, bs, ns, st, e)
<1>1. /\ e \in Nat /\ TextsFit(h, on, s, dr, bs, ms, st, e) /\ BatchesFit(bs, e)
      /\ FilesFit(f, o, bs, ms, e) /\ MessagesFit(bs, ms, st, e) /\ Together(f, bs, ms)
  BY DEF Composed
<1>0. /\ Upto(m.files, e) /\ Apart(m.files)
      /\ \A k \in DOMAIN m.files : m.files[k].thread = h /\ \E l \in DOMAIN f : f[l] = m.files[k]
      /\ Upto(g, e) /\ Apart(g)
      /\ \A k \in DOMAIN g : (\E l \in DOMAIN f : f[l] = g[k]) /\ \A l \in DOMAIN m.files : m.files[l] # g[k]
      /\ m.how = "send" => \A x : (\E k \in DOMAIN g : g[k] = x) \/ In(bs, x) => x.gen # m.gen
  BY DEF Leaves
<1>2. /\ IsSeq(ns) /\ Len(ms) \in Nat /\ DOMAIN ms = 1..Len(ms) /\ DOMAIN ns = DOMAIN ms \cup {Len(ms) + 1}
      /\ Len(ns) = Len(ms) + 1 /\ Len(ms) + 1 \notin DOMAIN ms
      /\ ns[Len(ms) + 1] = m /\ \A i \in DOMAIN ms : ns[i] = ms[i]
  BY <1>1, Grown DEF MessagesFit
<1>3. Fits(s, h, bs, ms, st, e)
  BY <1>1 DEF TextsFit
<1>4. \A x : /\ Said(ns, x) => Said(ms, x) \/ \E k \in DOMAIN s : s[k] = x
             /\ Brought(ns, x) => Brought(ms, x) \/ \E k \in DOMAIN m.files : m.files[k] = x
  BY <1>2 DEF Said, Brought
<1>5. TextsFit(h, on, <<>>, d, bs, ns, st, e)
  <2>1. h \in Tabs /\ DOMAIN dr = Tabs /\ d = [dr EXCEPT ![h] = <<>>] /\ h \in Tabs \cup {NoThread}
    BY <1>1 DEF TextsFit, C!Write
  <2>2. DOMAIN d = Tabs /\ d[h] = <<>> /\ \A t \in Tabs : t # h => d[t] = dr[t]
    BY <2>1
  <2>3. ASSUME NEW t \in Tabs PROVE Fits(d[t], t, bs, ns, st, e)
    <3>1. CASE t = h
      BY <2>2, <3>1, NothingFits
    <3>2. CASE t # h
      <4>1. PICK v : v = d[t]
        OBVIOUS
      <4>2. Fits(v, t, bs, ms, st, e)
        BY <1>1, <2>2, <3>2, <4>1 DEF TextsFit
      <4>3. ASSUME NEW k \in DOMAIN v, Mine(v[k], st) PROVE ~Said(ns, v[k])
        <5>1. v[k].thread = t /\ ~Said(ms, v[k])
          BY <4>2, <4>3 DEF Fits
        <5>2. ASSUME NEW j \in DOMAIN s, s[j] = v[k] PROVE FALSE
          <6>1. s[j].thread = h
            BY <1>3, <4>3, <5>2 DEF Fits
          <6> QED
            BY <3>2, <5>1, <5>2, <6>1
        <5> QED
          BY <1>4, <5>1, <5>2
      <4>4. Fits(v, t, bs, ns, st, e)
        BY <4>2, <4>3 DEF Fits
      <4> QED
        BY <4>1, <4>4
    <3> QED
      BY <3>1, <3>2
  <2> QED
    BY <2>1, <2>2, <2>3, NothingFits DEF TextsFit
<1>6. FilesFit(g, o, bs, ns, e)
  <2>1. ASSUME NEW k \in DOMAIN g
        PROVE  /\ g[k].kind = "file" /\ g[k].gen \in Nat /\ g[k].gen <= o.gen
               /\ g[k].gen = o.gen => g[k].thread = o.thread
               /\ ~In(bs, g[k]) /\ ~Brought(ns, g[k])
    <3>1. PICK l \in DOMAIN f : f[l] = g[k]
      BY <1>0
    <3>2. /\ f[l].kind = "file" /\ f[l].gen \in Nat /\ f[l].gen <= o.gen
          /\ f[l].gen = o.gen => f[l].thread = o.thread
          /\ ~In(bs, f[l]) /\ ~Brought(ms, f[l])
      BY <1>1 DEF FilesFit
    <3>3. ~Brought(ns, g[k])
      BY <1>0, <1>4, <3>1, <3>2
    <3> QED
      BY <3>1, <3>2, <3>3
  <2> QED
    BY <1>0, <1>1, <2>1 DEF FilesFit
<1>7. MessageFits(m, bs, st, e)
  <2>1. \A k \in DOMAIN m.files : m.files[k].kind = "file" /\ ~In(bs, m.files[k]) /\ ~Brought(ms, m.files[k])
    BY <1>0, <1>1 DEF FilesFit
  <2> QED
    BY <1>0, <1>3, <2>1 DEF MessageFits, Fits
<1>8. \A i \in DOMAIN ms : Disjoint(ms[i], m, st) /\ Disjoint(m, ms[i], st)
  <2> SUFFICES ASSUME NEW i \in DOMAIN ms PROVE Disjoint(ms[i], m, st) /\ Disjoint(m, ms[i], st)
    OBVIOUS
  <2>1. ASSUME NEW k \in DOMAIN m.words, NEW l \in DOMAIN ms[i].words, m.words[k] = ms[i].words[l],
               Mine(m.words[k], st)
        PROVE  FALSE
    <3>1. Said(ms, m.words[k])
      BY <2>1 DEF Said
    <3> QED
      BY <1>3, <2>1, <3>1 DEF Fits
  <2>2. ASSUME NEW k \in DOMAIN m.files, NEW l \in DOMAIN ms[i].files, m.files[k] = ms[i].files[l] PROVE FALSE
    <3>1. PICK j \in DOMAIN f : f[j] = m.files[k]
      BY <1>0
    <3>2. ~Brought(ms, f[j])
      BY <1>1 DEF FilesFit
    <3> QED
      BY <2>2, <3>1, <3>2 DEF Brought
  <2>3. ASSUME NEW k \in DOMAIN m.words, NEW l \in DOMAIN ms[i].words, m.words[k] = ms[i].words[l],
               Mine(ms[i].words[l], st)
        PROVE  FALSE
    BY <2>1, <2>3
  <2> QED
    BY <2>1, <2>2, <2>3 DEF Disjoint
<1>9. MessagesFit(bs, ns, st, e)
  <2>1. \A i \in DOMAIN ns : MessageFits(ns[i], bs, st, e)
    BY <1>1, <1>2, <1>7 DEF MessagesFit
  <2>2. ASSUME NEW i \in DOMAIN ns, NEW j \in DOMAIN ns, i # j PROVE Disjoint(ns[i], ns[j], st)
    <3>1. CASE i \in DOMAIN ms /\ j \in DOMAIN ms
      BY <1>1, <1>2, <2>2, <3>1 DEF MessagesFit
    <3>2. CASE i \in DOMAIN ms /\ j = Len(ms) + 1
      BY <1>2, <1>8, <3>2
    <3>3. CASE i = Len(ms) + 1 /\ j \in DOMAIN ms
      BY <1>2, <1>8, <3>3
    <3> QED
      BY <1>2, <2>2, <3>1, <3>2, <3>3
  <2> QED
    BY <1>2, <2>1, <2>2 DEF MessagesFit
<1>10. Together(g, bs, ns)
  <2> SUFFICES ASSUME NEW i \in DOMAIN ns, ns[i].how = "send", NEW k \in DOMAIN ns[i].words,
                      ns[i].words[k].kind = "word",
                      NEW x, Behind(g, bs, ns, i, x), x.thread = ns[i].to, x.gen = ns[i].gen
               PROVE  x.n > ns[i].words[k].n
    BY DEF Together
  <2>1. CASE i \in DOMAIN ms
    <3>1. ns[i] = ms[i]
      BY <1>2, <2>1
    <3>2. Behind(f, bs, ms, i, x)
      <4>1. CASE (\E l \in DOMAIN g : g[l] = x) \/ In(bs, x)
        BY <1>0, <4>1 DEF Behind
      <4>2. CASE \E j \in i + 1 .. Len(ns) : \E l \in DOMAIN ns[j].files : ns[j].files[l] = x
        <5>1. PICK j \in i + 1 .. Len(ns) : \E l \in DOMAIN ns[j].files : ns[j].files[l] = x
          BY <4>2
        <5>2. CASE j = Len(ms) + 1
          BY <1>0, <1>2, <5>1, <5>2 DEF Behind
        <5>3. CASE j # Len(ms) + 1
          <6>1. j \in i + 1 .. Len(ms) /\ j \in DOMAIN ms
            BY <1>2, <2>1, <5>1, <5>3
          <6> QED
            BY <1>2, <5>1, <6>1 DEF Behind
        <5> QED
          BY <5>2, <5>3
      <4> QED
        BY <4>1, <4>2 DEF Behind
    <3> QED
      BY <1>1, <2>1, <3>1, <3>2 DEF Together
  <2>2. CASE i = Len(ms) + 1
    <3>1. ns[i] = m /\ i + 1 .. Len(ns) = {}
      BY <1>2, <2>2
    <3>2. (\E l \in DOMAIN g : g[l] = x) \/ In(bs, x)
      BY <3>1 DEF Behind
    <3> QED
      BY <1>0, <3>1, <3>2
  <2> QED
    BY <1>2, <2>1, <2>2
<1> QED
  BY <1>1, <1>5, <1>6, <1>9, <1>10 DEF Composed

-------------------------------------------------------------------------------
\* The steps that look up the owner or change the text only.

LEMMA OwnerMoves ==
  ASSUME NEW f, NEW o, NEW bs, NEW ms, NEW e, FilesFit(f, o, bs, ms, e), NEW h \in Tabs \cup {NoThread},
         NEW p, p = IF h = NoThread \/ o.thread = h THEN o ELSE [thread |-> h, gen |-> o.gen + 1]
  PROVE  /\ FilesFit(f, p, bs, ms, e)
         /\ h # NoThread => p.thread = h
         /\ \A k \in DOMAIN f : h # NoThread /\ f[k].gen = p.gen => f[k].thread = h
<1>1. CASE p = o
  BY <1>1 DEF FilesFit
<1>2. CASE p # o
  <2>1. p = [thread |-> h, gen |-> o.gen + 1] /\ h # NoThread
    BY <1>2
  <2>2. p.thread = h /\ p.gen = o.gen + 1 /\ p = [thread |-> p.thread, gen |-> p.gen] /\ o.gen \in Nat
    BY <2>1 DEF FilesFit
  <2>3. ASSUME NEW k \in DOMAIN f PROVE f[k].gen \in Nat /\ f[k].gen <= p.gen /\ f[k].gen # p.gen
    <3>1. PICK g, m : g = f[k].gen /\ m = o.gen
      OBVIOUS
    <3>2. g \in Nat /\ m \in Nat /\ g <= m
      BY <3>1 DEF FilesFit
    <3> QED
      BY <2>2, <3>1, <3>2
  <2> QED
    BY <2>1, <2>2, <2>3 DEF FilesFit
<1> QED
  BY <1>1, <1>2

OwnerThen(o, h) == IF h = NoThread \/ o.thread = h THEN o ELSE [thread |-> h, gen |-> o.gen + 1]

LEMMA OwnerIs ==
  /\ C!Looked => owner' = OwnerThen(owner, here)
  /\ here # NoThread => C!OwnerNow = OwnerThen(owner, here)
  BY DEF C!Looked, C!OwnerNow, OwnerThen

LEMMA OwnerFits ==
  ASSUME NEW h, NEW on, NEW s, NEW o, NEW dr, NEW f, NEW bs, NEW ms, NEW st, NEW e,
         Composed(h, on, s, o, dr, f, bs, ms, st, e)
  PROVE  Composed(h, on, s, OwnerThen(o, h), dr, f, bs, ms, st, e)
<1>1. PICK p : p = OwnerThen(o, h)
  OBVIOUS
<1>2. p = IF h = NoThread \/ o.thread = h THEN o ELSE [thread |-> h, gen |-> o.gen + 1]
  BY <1>1 DEF OwnerThen
<1>3. h \in Tabs \cup {NoThread} /\ FilesFit(f, o, bs, ms, e)
  BY DEF Composed, TextsFit
<1>4. FilesFit(f, p, bs, ms, e)
  BY <1>2, <1>3, OwnerMoves
<1>5. Composed(h, on, s, p, dr, f, bs, ms, st, e)
  BY <1>4 DEF Composed
<1> QED
  BY <1>1, <1>5

LEMMA LooksKeeps ==
  ASSUME ComposeInv, owner' = owner \/ C!Looked,
         UNCHANGED <<here, mounted, text, drafts, attached, batches, sent, strays, entered>>
  PROVE  ComposeInv'
<1>1. Composed(here, mounted.on, text, owner', drafts, attached, batches, sent, strays, entered)
  <2>1. CASE owner' = owner
    BY <2>1 DEF ComposeInv
  <2>2. CASE C!Looked
    BY <2>2, OwnerIs, OwnerFits DEF ComposeInv
  <2> QED
    BY <2>1, <2>2
<1> QED
  BY <1>1 DEF ComposeInv

LEMMA TextFits ==
  ASSUME NEW h, NEW on, NEW s, NEW o, NEW dr, NEW f, NEW bs, NEW ms, NEW st, NEW e,
         Composed(h, on, s, o, dr, f, bs, ms, st, e), on,
         NEW v, Fits(v, h, bs, ms, st, e), NEW d, d = C!Write(dr, h, v)
  PROVE  Composed(h, on, v, OwnerThen(o, h), d, f, bs, ms, st, e)
<1>1. TextsFit(h, on, s, dr, bs, ms, st, e)
  BY DEF Composed
<1>2. TextsFit(h, on, v, d, bs, ms, st, e)
  BY <1>1, TextWritten
<1>3. Composed(h, on, v, o, d, f, bs, ms, st, e)
  BY <1>2 DEF Composed
<1> QED
  BY <1>3, OwnerFits

LEMMA BindIs ==
  ASSUME NEW v, C!Bind(v)
  PROVE  owner' = OwnerThen(owner, here) /\ text' = v /\ drafts' = C!Write(drafts, here, v)
  BY OwnerIs DEF C!Bind

\* A step that puts a text into the input and may have changed the other places before.
LEMMA BoundKeeps ==
  ASSUME ComposeInv, mounted.on, NEW v, C!Bind(v), UNCHANGED <<here, mounted>>,
         Composed(here, mounted.on, text, owner, drafts, attached', batches', sent', strays', entered'),
         Fits(v, here, batches', sent', strays', entered')
  PROVE  ComposeInv'
<1>1. PICK h, on, s, o, dr, f, bs, ms, st, e, d :
        /\ h = here /\ on = mounted.on /\ s = text /\ o = owner /\ dr = drafts /\ f = attached' /\ bs = batches'
        /\ ms = sent' /\ st = strays' /\ e = entered' /\ d = C!Write(drafts, here, v)
  OBVIOUS
<1>2. Composed(h, on, v, OwnerThen(o, h), d, f, bs, ms, st, e)
  BY <1>1, TextFits
<1>3. owner' = OwnerThen(o, h) /\ text' = v /\ drafts' = d
  BY <1>1, BindIs
<1> QED
  BY <1>1, <1>2, <1>3 DEF ComposeInv

LEMMA RewritesKeeps ==
  ASSUME ComposeInv, mounted.on, NEW v, C!Bind(v), Fits(v, here, batches, sent, strays, entered),
         UNCHANGED <<here, mounted, attached, batches, sent, strays, entered>>
  PROVE  ComposeInv'
  BY BoundKeeps DEF ComposeInv

LEMMA EraseKeeps == ASSUME ComposeInv, C!Erase PROVE ComposeInv'
<1>1. C!Bind(<<>>) /\ mounted.on
  BY DEF C!Erase, C!Edit, C!AtInput
<1>2. UNCHANGED <<here, mounted, attached, batches, sent, strays, entered>>
  BY DEF C!Erase
<1>3. Fits(<<>>, here, batches, sent, strays, entered)
  BY NothingFits
<1> QED
  BY <1>1, <1>2, <1>3, RewritesKeeps

LEMMA DrainedKeeps == ASSUME ComposeInv, C!Drained PROVE ComposeInv'
<1>1. /\ C!Bind(<<>>) \/ (C!Looked /\ UNCHANGED <<text, drafts>>)
      /\ mounted.on
      /\ UNCHANGED <<here, mounted, attached, batches, sent, strays, entered>>
  BY DEF C!Drained, C!Edit, C!Owns
<1>2. Fits(<<>>, here, batches, sent, strays, entered)
  BY NothingFits
<1> QED
  BY <1>1, <1>2, RewritesKeeps, LooksKeeps

LEMMA TakeRequestKeeps == ASSUME ComposeInv, C!TakeRequest PROVE ComposeInv'
<1> DEFINE id == Head(bridge.queue)[1]
<1>1. PICK added, v : /\ added = C!AdviceMark(id)
                      /\ v \in {<<added>>, text, Append(text, added)}
                      /\ \/ C!Bind(v)
                         \/ UNCHANGED <<text, owner, drafts>>
  <2>1. PICK v : /\ v = IF Head(bridge.queue)[2] = "replace" THEN <<C!AdviceMark(id)>>
                        ELSE IF id = Plain /\ C!AdviceMark(id) \in C!ToSet(text) THEN text
                        ELSE Append(text, C!AdviceMark(id))
                 /\ IF v # text THEN C!Bind(v) ELSE UNCHANGED <<text, textOwner, owner, drafts>>
    BY DEF C!TakeRequest
  <2>2. v \in {<<C!AdviceMark(id)>>, text, Append(text, C!AdviceMark(id))}
    BY <2>1
  <2> QED
    BY <2>1, <2>2
<1>2. mounted.on /\ UNCHANGED <<here, mounted, attached, batches, sent, strays, entered>>
  BY DEF C!TakeRequest, C!AtInput
<1>3. added.kind = "advice" /\ added.n = 0 /\ ~Mine(added, strays)
  BY <1>1 DEF C!AdviceMark, Mine
<1>4. entered \in Nat /\ Fits(text, here, batches, sent, strays, entered)
  BY DEF ComposeInv, Composed, TextsFit
<1>5. Fits(<<added>>, here, batches, sent, strays, entered)
  <2>1. IsSeq(<<added>>) /\ DOMAIN <<added>> = {1} /\ <<added>>[1] = added
    BY DEF IsSeq
  <2> QED
    BY <1>3, <1>4, <2>1 DEF Fits, Upto
<1>6. Fits(Append(text, added), here, batches, sent, strays, entered)
  <2>1. PICK w : w = Append(text, added)
    OBVIOUS
  <2>2. Upto(text, entered)
    BY <1>4 DEF Fits
  <2>3. /\ IsSeq(w) /\ Len(text) \in Nat /\ DOMAIN text = 1..Len(text) /\ DOMAIN w = 1..Len(text) + 1
        /\ w[Len(text) + 1] = added /\ \A k \in DOMAIN text : w[k] = text[k]
    BY <2>1, <2>2, Grown DEF Upto
  <2>4. ASSUME NEW k \in DOMAIN w PROVE k \in DOMAIN text \/ w[k] = added
    BY <2>3
  <2>5. Upto(w, entered)
    BY <1>3, <1>4, <2>2, <2>3, <2>4 DEF Upto
  <2>6. ASSUME NEW k \in DOMAIN w, Mine(w[k], strays)
        PROVE  /\ w[k].kind # "file" /\ w[k].thread = here /\ ~In(batches, w[k]) /\ ~Said(sent, w[k])
               /\ \A l \in DOMAIN w : w[l] = w[k] => l = k
    <3>1. k \in DOMAIN text /\ w[k] = text[k] /\ w[k] # added
      BY <1>3, <2>3, <2>4, <2>6
    <3>2. /\ text[k].kind # "file" /\ text[k].thread = here /\ ~In(batches, text[k]) /\ ~Said(sent, text[k])
          /\ \A l \in DOMAIN text : text[l] = text[k] => l = k
      BY <1>4, <2>6, <3>1 DEF Fits
    <3>3. ASSUME NEW l \in DOMAIN w, w[l] = w[k] PROVE l = k
      <4>1. l \in DOMAIN text /\ w[l] = text[l]
        BY <2>3, <2>4, <3>1, <3>3
      <4> QED
        BY <3>1, <3>2, <3>3, <4>1
    <3> QED
      BY <3>1, <3>2, <3>3
  <2> QED
    BY <2>1, <2>5, <2>6 DEF Fits
<1>7. Fits(v, here, batches, sent, strays, entered)
  BY <1>1, <1>4, <1>5, <1>6
<1>8. CASE C!Bind(v)
  BY <1>2, <1>7, <1>8, RewritesKeeps
<1>9. CASE UNCHANGED <<text, owner, drafts>>
  BY <1>2, <1>9, LooksKeeps
<1> QED
  BY <1>1, <1>8, <1>9

\* More is entered, elsewhere.
LEMMA CountGrows ==
  ASSUME NEW h, NEW on, NEW s, NEW o, NEW dr, NEW f, NEW bs, NEW ms, NEW st, NEW e,
         Composed(h, on, s, o, dr, f, bs, ms, st, e), NEW k \in Nat, e <= k
  PROVE  Composed(h, on, s, o, dr, f, bs, ms, st, k)
<1>1. /\ e \in Nat /\ on \in BOOLEAN /\ TextsFit(h, on, s, dr, bs, ms, st, e) /\ BatchesFit(bs, e)
      /\ FilesFit(f, o, bs, ms, e) /\ MessagesFit(bs, ms, st, e) /\ Together(f, bs, ms)
  BY DEF Composed
<1>2. NoMore(bs, ms, bs, ms, st, e)
  BY NothingLost
<1>3. TextsFit(h, on, s, dr, bs, ms, st, k)
  BY <1>1, <1>2, TextsMove
<1>4. FilesFit(f, o, bs, ms, k)
  BY <1>1, <1>2, FilesMove
<1>5. MessagesFit(bs, ms, st, k)
  BY <1>1, <1>2, MessagesMove
<1>6. BatchesFit(bs, k)
  <2>1. \A j \in DOMAIN bs : BatchFits(bs[j], k)
    BY <1>1 DEF BatchesFit, BatchFits, Upto
  <2> QED
    BY <1>1, <2>1 DEF BatchesFit
<1> QED
  BY <1>1, <1>3, <1>4, <1>5, <1>6 DEF Composed

LEMMA RequestKeeps == ASSUME ComposeInv, C!Request PROVE ComposeInv'
<1>1. /\ entered' = entered + 1
      /\ UNCHANGED <<here, mounted, text, owner, drafts, attached, batches, sent, strays>>
  BY DEF C!Request
<1>2. entered \in Nat /\ entered' \in Nat /\ entered <= entered'
  BY <1>1 DEF ComposeInv, Composed
<1>3. Composed(here, mounted.on, text, owner, drafts, attached, batches, sent, strays, entered')
  BY <1>2, CountGrows DEF ComposeInv
<1> QED
  BY <1>1, <1>3 DEF ComposeInv

LEMMA TypeKeeps == ASSUME ComposeInv, C!Type PROVE ComposeInv'
<1>1. PICK word : word = C!Mark("word", entered + 1)
  OBVIOUS
<1>2. /\ mounted.on /\ entered' = entered + 1 /\ C!Bind(Append(text, word))
      /\ UNCHANGED <<here, mounted, attached, batches, sent, strays>>
  BY <1>1 DEF C!Type, C!Edit, C!AtInput
<1>3. word.kind = "word" /\ word.thread = here /\ word.n = entered + 1
  BY <1>1 DEF C!Mark
<1>4. /\ entered \in Nat /\ entered' \in Nat /\ entered <= entered'
      /\ TextsFit(here, mounted.on, text, drafts, batches, sent, strays, entered)
      /\ BatchesFit(batches, entered) /\ MessagesFit(batches, sent, strays, entered)
  BY <1>2 DEF ComposeInv, Composed
<1>5. Composed(here, mounted.on, text, owner, drafts, attached', batches', sent', strays', entered')
  <2>1. Composed(here, mounted.on, text, owner, drafts, attached, batches, sent, strays, entered')
    BY <1>4, CountGrows DEF ComposeInv
  <2> QED
    BY <1>2, <2>1
<1>6. PICK w : w = Append(text, word)
  OBVIOUS
<1>7. Fits(w, here, batches, sent, strays, entered')
  <2>1. Fits(text, here, batches, sent, strays, entered) /\ Upto(text, entered)
    BY <1>4 DEF TextsFit, Fits
  <2>2. /\ IsSeq(w) /\ Len(text) \in Nat /\ DOMAIN text = 1..Len(text) /\ DOMAIN w = 1..Len(text) + 1
        /\ w[Len(text) + 1] = word /\ \A k \in DOMAIN text : w[k] = text[k]
    BY <1>6, <2>1, Grown DEF Upto
  <2>3. ASSUME NEW k \in DOMAIN w PROVE (k \in DOMAIN text /\ w[k] = text[k]) \/ k = Len(text) + 1
    BY <2>2
  <2>4. Upto(w, entered')
    BY <1>2, <1>3, <1>4, <2>1, <2>2, <2>3 DEF Upto
  <2>5. \A k \in DOMAIN text : text[k] # word
    BY <1>3, <1>4, <2>1 DEF Upto
  <2>6. ~In(batches, word)
    <3> SUFFICES ASSUME NEW j \in DOMAIN batches, NEW k \in DOMAIN batches[j].items, batches[j].items[k] = word
                 PROVE  FALSE
      BY DEF In
    <3>1. BatchFits(batches[j], entered)
      BY <1>4 DEF BatchesFit
    <3> QED
      BY <1>3, <1>4, <3>1 DEF BatchFits, Upto
  <2>7. ~Said(sent, word)
    <3> SUFFICES ASSUME NEW i \in DOMAIN sent, NEW k \in DOMAIN sent[i].words, sent[i].words[k] = word
                 PROVE  FALSE
      BY DEF Said
    <3>1. MessageFits(sent[i], batches, strays, entered)
      BY <1>4 DEF MessagesFit
    <3> QED
      BY <1>3, <1>4, <3>1 DEF MessageFits, Upto
  <2>8. ASSUME NEW k \in DOMAIN w, Mine(w[k], strays)
        PROVE  /\ w[k].kind # "file" /\ w[k].thread = here /\ ~In(batches, w[k]) /\ ~Said(sent, w[k])
               /\ \A l \in DOMAIN w : w[l] = w[k] => l = k
    <3>1. CASE k \in DOMAIN text /\ w[k] = text[k]
      <4>1. /\ text[k].kind # "file" /\ text[k].thread = here /\ ~In(batches, text[k]) /\ ~Said(sent, text[k])
            /\ \A l \in DOMAIN text : text[l] = text[k] => l = k
        BY <2>1, <2>8, <3>1 DEF Fits
      <4>2. ASSUME NEW l \in DOMAIN w, w[l] = w[k] PROVE l = k
        BY <2>2, <2>3, <2>5, <3>1, <4>1, <4>2
      <4> QED
        BY <3>1, <4>1, <4>2
    <3>2. CASE k = Len(text) + 1
      <4>1. w[k] = word
        BY <2>2, <3>2
      <4>2. ASSUME NEW l \in DOMAIN w, w[l] = w[k] PROVE l = k
        BY <2>3, <2>5, <3>2, <4>1, <4>2
      <4> QED
        BY <1>3, <2>6, <2>7, <4>1, <4>2
    <3> QED
      BY <2>3, <3>1, <3>2
  <2> QED
    BY <2>4, <2>8 DEF Fits
<1>8. Fits(w, here, batches', sent', strays', entered')
  BY <1>2, <1>7
<1> QED
  BY <1>2, <1>5, <1>6, <1>8, BoundKeeps

-------------------------------------------------------------------------------
\* The files.

ChoiceIs == {<<"file">>, <<"pill">>, <<"file", "pill">>}

LEMMA ChoiceOf ==
  ASSUME NEW ch \in ChoiceIs
  PROVE  /\ IsSeq(ch) /\ Len(ch) \in Nat /\ DOMAIN ch = 1..Len(ch)
         /\ \A i \in DOMAIN ch : ch[i] \in {"file", "pill"}
<1>1. CASE ch = <<"file">>
  BY <1>1 DEF IsSeq
<1>2. CASE ch = <<"pill">>
  BY <1>2 DEF IsSeq
<1>3. CASE ch = <<"file", "pill">>
  BY <1>3 DEF IsSeq
<1> QED
  BY <1>1, <1>2, <1>3 DEF ChoiceIs

\* A batch of what was entered after e.
LEMMA BatchAdded ==
  ASSUME NEW h, NEW on, NEW s, NEW o, NEW dr, NEW f, NEW bs, NEW ms, NEW st, NEW e,
         Composed(h, on, s, o, dr, f, bs, ms, st, e), NEW k \in Nat, e <= k,
         NEW b, BatchFits(b, k), \A i \in DOMAIN b.items : b.items[i].n > e, Apart(b.items),
         NEW ds, ds = Append(bs, b)
  PROVE  Composed(h, on, s, o, dr, f, ds, ms, st, k)
<1>1. /\ e \in Nat /\ on \in BOOLEAN /\ TextsFit(h, on, s, dr, bs, ms, st, e) /\ BatchesFit(bs, e)
      /\ FilesFit(f, o, bs, ms, e) /\ MessagesFit(bs, ms, st, e) /\ Together(f, bs, ms)
  BY DEF Composed
<1>2. /\ IsSeq(ds) /\ Len(bs) \in Nat /\ DOMAIN bs = 1..Len(bs) /\ DOMAIN ds = DOMAIN bs \cup {Len(bs) + 1}
      /\ Len(bs) + 1 \notin DOMAIN bs
      /\ ds[Len(bs) + 1] = b /\ \A i \in DOMAIN bs : ds[i] = bs[i]
  BY <1>1, Grown DEF BatchesFit
<1>3. \A x : In(ds, x) => In(bs, x) \/ \E i \in DOMAIN b.items : b.items[i] = x
  BY <1>2 DEF In
<1>4. \A x : In(ds, x) => In(bs, x) \/ (x.n \in Nat /\ x.n > e)
  BY <1>3 DEF BatchFits, Upto
<1>5. NoMore(bs, ms, ds, ms, st, e)
  <2> SUFFICES ASSUME NEW x, x.n \in Nat, x.n <= e, In(ds, x) PROVE In(bs, x)
    BY DEF NoMore
  <2>1. PICK n : n = x.n
    OBVIOUS
  <2>2. n \in Nat /\ ~ (n > e)
    BY <1>1, <2>1
  <2> QED
    BY <1>4, <2>1, <2>2
<1>6. TextsFit(h, on, s, dr, ds, ms, st, k)
  BY <1>1, <1>5, TextsMove
<1>7. FilesFit(f, o, ds, ms, k)
  BY <1>1, <1>5, FilesMove
<1>8. MessagesFit(ds, ms, st, k)
  BY <1>1, <1>5, MessagesMove
<1>9. Together(f, ds, ms)
  BY <1>1, <1>4, TogetherMove
<1>10. BatchesFit(ds, k)
  <2>1. ASSUME NEW j \in DOMAIN ds PROVE BatchFits(ds[j], k) /\ Apart(ds[j].items)
    <3>1. CASE j \in DOMAIN bs
      <4>1. BatchFits(bs[j], e) /\ Apart(bs[j].items)
        BY <1>1, <3>1 DEF BatchesFit
      <4>2. BatchFits(bs[j], k)
        BY <1>1, <4>1 DEF BatchFits, Upto
      <4> QED
        BY <1>2, <3>1, <4>1, <4>2
    <3>2. CASE j = Len(bs) + 1
      BY <1>2, <3>2
    <3> QED
      BY <1>2, <3>1, <3>2
  <2>2. ASSUME NEW i \in DOMAIN bs, NEW l \in DOMAIN bs[i].items, NEW m \in DOMAIN b.items
        PROVE  bs[i].items[l] # b.items[m]
    <3>1. BatchFits(bs[i], e)
      BY <1>1 DEF BatchesFit
    <3>2. bs[i].items[l].n \in Nat /\ bs[i].items[l].n <= e /\ b.items[m].n > e
      BY <3>1 DEF BatchFits, Upto
    <3> QED
      BY <1>1, <3>2
  <2>3. ASSUME NEW i \in DOMAIN ds, NEW j \in DOMAIN ds, i # j, NEW l \in DOMAIN ds[i].items,
               NEW m \in DOMAIN ds[j].items
        PROVE  ds[i].items[l] # ds[j].items[m]
    <3>1. CASE i \in DOMAIN bs /\ j \in DOMAIN bs
      BY <1>1, <1>2, <2>3, <3>1 DEF BatchesFit
    <3>2. CASE i \in DOMAIN bs /\ j = Len(bs) + 1
      BY <1>2, <2>2, <2>3, <3>2
    <3>3. CASE i = Len(bs) + 1 /\ j \in DOMAIN bs
      BY <1>2, <2>2, <2>3, <3>3
    <3> QED
      BY <1>2, <2>3, <3>1, <3>2, <3>3
  <2> QED
    BY <1>2, <2>1, <2>3 DEF BatchesFit
<1> QED
  BY <1>1, <1>6, <1>7, <1>8, <1>9, <1>10 DEF Composed

LEMMA AddFilesKeeps == ASSUME ComposeInv, C!AddFiles PROVE ComposeInv'
<1>1. PICK ch \in ChoiceIs :
        /\ here # NoThread /\ C!Looked /\ entered' = entered + Len(ch)
        /\ batches' = Append(batches, [owner |-> C!OwnerNow, read |-> FALSE,
                                       items |-> [i \in DOMAIN ch |-> C!Mark(ch[i], entered + i)]])
        /\ UNCHANGED <<here, mounted, text, drafts, attached, sent, strays>>
  BY DEF C!AddFiles, ChoiceIs
<1>2. PICK b, p, items : /\ b = [owner |-> p, read |-> FALSE, items |-> items] /\ p = C!OwnerNow
                         /\ items = [i \in DOMAIN ch |-> C!Mark(ch[i], entered + i)]
  OBVIOUS
<1>3. /\ IsSeq(ch) /\ Len(ch) \in Nat /\ DOMAIN ch = 1..Len(ch)
      /\ \A i \in DOMAIN ch : ch[i] \in {"file", "pill"}
  BY ChoiceOf
<1>4. /\ entered \in Nat /\ entered' \in Nat /\ entered <= entered'
      /\ FilesFit(attached, owner, batches, sent, entered) /\ here \in Tabs
  BY <1>1, <1>3 DEF ComposeInv, Composed, TextsFit
<1>5. p = OwnerThen(owner, here) /\ owner' = OwnerThen(owner, here)
  BY <1>1, <1>2, OwnerIs
<1>6. p.thread = here
  BY <1>1, <1>5 DEF OwnerThen
<1>7. ASSUME NEW i \in DOMAIN ch
      PROVE  /\ items[i].kind = ch[i] /\ items[i].thread = here /\ items[i].n = entered + i
             /\ items[i].gen = p.gen
  <2>1. items[i] = C!Mark(ch[i], entered + i)
    BY <1>2
  <2>2. C!Mark(ch[i], entered + i) = [kind |-> ch[i], thread |-> here, n |-> entered + i, gen |-> p.gen]
    BY <1>1, <1>2 DEF C!Mark
  <2> QED
    BY <2>1, <2>2
<1>8. DOMAIN items = 1..Len(ch) /\ IsSeq(items)
  <2>1. DOMAIN items = 1..Len(ch)
    BY <1>2, <1>3
  <2>2. \E m \in Nat : DOMAIN items = 1..m
    BY <1>3, <2>1
  <2>3. items = [i \in 1..Len(ch) |-> items[i]]
    BY <1>2, <2>1
  <2> QED
    BY <1>3, <2>1, <2>3 DEF IsSeq
<1>9. Apart(items) /\ \A i \in DOMAIN items : items[i].n \in Nat /\ items[i].n <= entered' /\ items[i].n > entered
  <2>1. \A i \in DOMAIN items : items[i].n = entered + i /\ i \in 1..Len(ch)
    BY <1>3, <1>7, <1>8
  <2> QED
    BY <1>1, <1>3, <1>4, <2>1 DEF Apart
<1>10. BatchFits(b, entered') /\ b.items = items
  <2>1. b.items = items /\ b.owner = p /\ b.read = FALSE /\ b = [owner |-> b.owner, read |-> b.read, items |-> b.items]
    BY <1>2
  <2>2. \A i \in DOMAIN items : /\ items[i].kind \in {"file", "pill"} /\ items[i].thread = p.thread
                                /\ items[i].gen = p.gen
    BY <1>3, <1>6, <1>7, <1>8
  <2> QED
    BY <1>8, <1>9, <2>1, <2>2 DEF BatchFits, Upto
<1>11. Composed(here, mounted.on, text, OwnerThen(owner, here), drafts, attached, batches, sent, strays, entered)
  BY OwnerFits DEF ComposeInv
<1>12. PICK ds, k, q : ds = batches' /\ k = entered' /\ q = OwnerThen(owner, here)
  OBVIOUS
<1>13. ds = Append(batches, b)
  BY <1>1, <1>2, <1>12
<1>14. Composed(here, mounted.on, text, q, drafts, attached, ds, sent, strays, k)
  BY <1>4, <1>9, <1>10, <1>11, <1>12, <1>13, BatchAdded
<1> QED
  BY <1>1, <1>5, <1>12, <1>14 DEF ComposeInv

\* Fewer files are being read.
LEMMA BatchesShrink ==
  ASSUME NEW h, NEW on, NEW s, NEW o, NEW dr, NEW f, NEW bs, NEW ms, NEW st, NEW e,
         Composed(h, on, s, o, dr, f, bs, ms, st, e),
         NEW ds, BatchesFit(ds, e), \A x : In(ds, x) => In(bs, x)
  PROVE  Composed(h, on, s, o, dr, f, ds, ms, st, e)
<1>1. /\ e \in Nat /\ on \in BOOLEAN /\ TextsFit(h, on, s, dr, bs, ms, st, e)
      /\ FilesFit(f, o, bs, ms, e) /\ MessagesFit(bs, ms, st, e) /\ Together(f, bs, ms)
  BY DEF Composed
<1>2. NoMore(bs, ms, ds, ms, st, e) /\ e <= e
  BY <1>1 DEF NoMore
<1>3. TextsFit(h, on, s, dr, ds, ms, st, e)
  BY <1>1, <1>2, TextsMove
<1>4. FilesFit(f, o, ds, ms, e)
  BY <1>1, <1>2, FilesMove
<1>5. MessagesFit(ds, ms, st, e)
  BY <1>1, <1>2, MessagesMove
<1>6. Together(f, ds, ms)
  BY <1>1, TogetherMove
<1> QED
  BY <1>1, <1>3, <1>4, <1>5, <1>6 DEF Composed

LEMMA ReadBatchKeeps == ASSUME ComposeInv, C!ReadBatch PROVE ComposeInv'
<1>0. PICK i \in DOMAIN batches : \E wanted :
        /\ batches' = [batches EXCEPT ![i] =
                        [owner |-> @.owner, read |-> TRUE, items |-> C!Among(@.items, wanted)]]
        /\ UNCHANGED <<here, mounted, text, owner, drafts, attached, sent, strays, entered>>
  BY DEF C!ReadBatch
<1>1. PICK wanted : /\ batches' = [batches EXCEPT ![i] =
                        [owner |-> @.owner, read |-> TRUE, items |-> C!Among(@.items, wanted)]]
                    /\ UNCHANGED <<here, mounted, text, owner, drafts, attached, sent, strays, entered>>
  BY <1>0
<1>2. PICK bs, ds, e : bs = batches /\ ds = batches' /\ e = entered
  OBVIOUS
<1>3. BatchesFit(bs, e) /\ e \in Nat
  BY <1>2 DEF ComposeInv, Composed
<1>4. BatchFits(bs[i], e) /\ Apart(bs[i].items) /\ IsSeq(bs[i].items)
  BY <1>2, <1>3 DEF BatchesFit, BatchFits, Upto
<1>5. PICK w : w = C!Among(bs[i].items, wanted)
  OBVIOUS
<1>6. /\ IsSeq(w) /\ Apart(w)
      /\ \A k \in DOMAIN w : \E l \in DOMAIN bs[i].items : w[k] = bs[i].items[l]
  BY <1>4, <1>5, AmongThem
<1>7. PICK own, now : own = bs[i].owner /\ now = [owner |-> own, read |-> TRUE, items |-> w]
  OBVIOUS
<1>8. ds = [bs EXCEPT ![i] = now]
  BY <1>1, <1>2, <1>5, <1>7
<1>9. DOMAIN ds = DOMAIN bs /\ ds[i] = now /\ \A j \in DOMAIN bs : j # i => ds[j] = bs[j]
  BY <1>2, <1>8
<1>10. now.items = w /\ now.owner = own /\ now = [owner |-> now.owner, read |-> now.read, items |-> now.items]
  BY <1>7
<1>11. BatchesFit(ds, e)
  <2>1. IsSeq(ds)
    <3>1. Len(bs) \in Nat /\ DOMAIN bs = 1..Len(bs)
      BY <1>3 DEF BatchesFit, IsSeq
    <3>2. ds = [j \in 1..Len(bs) |-> ds[j]]
      BY <1>8, <1>9, <3>1
    <3> QED
      BY <1>9, <3>1, <3>2 DEF IsSeq
  <2>2. BatchFits(now, e) /\ Apart(now.items)
    BY <1>4, <1>6, <1>7, <1>10 DEF BatchFits, Upto
  <2>3. \A j \in DOMAIN ds : \A k \in DOMAIN ds[j].items : \E l \in DOMAIN bs[j].items : ds[j].items[k] = bs[j].items[l]
    BY <1>6, <1>9, <1>10
  <2>4. \A j \in DOMAIN ds : BatchFits(ds[j], e) /\ Apart(ds[j].items)
    BY <1>3, <1>9, <2>2 DEF BatchesFit
  <2>5. ASSUME NEW j \in DOMAIN ds, NEW m \in DOMAIN ds, j # m, NEW k \in DOMAIN ds[j].items,
               NEW l \in DOMAIN ds[m].items
        PROVE  ds[j].items[k] # ds[m].items[l]
    BY <1>3, <1>9, <2>3, <2>5 DEF BatchesFit
  <2> QED
    BY <2>1, <2>4, <2>5 DEF BatchesFit
<1>12. \A x : In(ds, x) => In(bs, x)
  <2>1. \A j \in DOMAIN ds : \A k \in DOMAIN ds[j].items : \E l \in DOMAIN bs[j].items : ds[j].items[k] = bs[j].items[l]
    BY <1>6, <1>9, <1>10
  <2> QED
    BY <1>9, <2>1 DEF In
<1>13. Composed(here, mounted.on, text, owner, drafts, attached, ds, sent, strays, e)
  BY <1>2, <1>11, <1>12, BatchesShrink DEF ComposeInv
<1> QED
  BY <1>1, <1>2, <1>13 DEF ComposeInv

LEMMA RemoveFileKeeps == ASSUME ComposeInv, C!RemoveFile PROVE ComposeInv'
<1>1. PICK i \in DOMAIN attached :
        /\ attached' = C!RemoveAt(attached, i)
        /\ UNCHANGED <<here, mounted, text, owner, drafts, batches, sent, strays, entered>>
  BY DEF C!RemoveFile
<1>2. PICK f, w : f = attached /\ w = attached'
  OBVIOUS
<1>3. FilesFit(f, owner, batches, sent, entered) /\ Upto(f, entered) /\ IsSeq(f)
  BY <1>2 DEF ComposeInv, Composed, FilesFit, Upto
<1>4. w = C!RemoveAt(f, i) /\ i \in DOMAIN f
  BY <1>1, <1>2
<1>5. PICK at : at = [k \in DOMAIN w |-> IF k < i THEN k ELSE k + 1]
  OBVIOUS
<1>6. /\ IsSeq(w)
      /\ \A k \in DOMAIN w : at[k] \in DOMAIN f /\ w[k] = f[at[k]]
      /\ \A k, l \in DOMAIN w : at[k] = at[l] => k = l
  <2>1. /\ IsSeq(w) /\ Len(f) \in Nat /\ DOMAIN f = 1..Len(f) /\ DOMAIN w = 1..Len(f) - 1
        /\ \A k \in DOMAIN w : w[k] = f[IF k < i THEN k ELSE k + 1]
    BY <1>3, <1>4, RemovedAt
  <2> QED
    BY <1>4, <1>5, <2>1
<1>7. FilesFit(w, owner, batches, sent, entered)
  <2>1. Apart(w)
    BY <1>3, <1>6 DEF FilesFit, Apart
  <2>2. Upto(w, entered)
    BY <1>3, <1>6 DEF Upto
  <2> QED
    BY <1>3, <1>6, <2>1, <2>2 DEF FilesFit
<1>8. Together(w, batches, sent)
  <2>1. \A x : (\E k \in DOMAIN w : w[k] = x) => \E k \in DOMAIN f : f[k] = x
    BY <1>6
  <2>2. entered \in Nat /\ MessagesFit(batches, sent, strays, entered) /\ Together(f, batches, sent)
    BY <1>2 DEF ComposeInv, Composed
  <2> QED
    BY <2>1, <2>2, TogetherMove
<1>9. Composed(here, mounted.on, text, owner, drafts, w, batches, sent, strays, entered)
  BY <1>7, <1>8 DEF ComposeInv, Composed
<1> QED
  BY <1>1, <1>2, <1>9 DEF ComposeInv

\* The first batch is gone.
LEMMA FirstGone ==
  ASSUME NEW bs, NEW e, BatchesFit(bs, e), bs # <<>>
  PROVE  /\ BatchesFit(Tail(bs), e) /\ BatchFits(Head(bs), e) /\ Apart(Head(bs).items)
         /\ \A x : In(Tail(bs), x) => In(bs, x)
         /\ \A k \in DOMAIN Head(bs).items : In(bs, Head(bs).items[k]) /\ ~In(Tail(bs), Head(bs).items[k])
<1>1. PICK ds, b : ds = Tail(bs) /\ b = Head(bs)
  OBVIOUS
<1>2. /\ IsSeq(ds) /\ Len(bs) \in Nat /\ DOMAIN bs = 1..Len(bs) /\ 1 \in DOMAIN bs /\ b = bs[1]
      /\ DOMAIN ds = 1..Len(bs) - 1
      /\ \A k \in DOMAIN ds : k + 1 \in DOMAIN bs /\ ds[k] = bs[k + 1]
  BY <1>1, TailOf DEF BatchesFit
<1>3. \A i, j \in DOMAIN ds : i # j => i + 1 # j + 1
  BY <1>2
<1>4. \A i \in DOMAIN ds : i + 1 # 1
  BY <1>2
<1>5. BatchesFit(ds, e)
  BY <1>2, <1>3 DEF BatchesFit
<1>6. BatchFits(b, e) /\ Apart(b.items)
  BY <1>2 DEF BatchesFit
<1>7. \A x : In(ds, x) => In(bs, x)
  BY <1>2 DEF In
<1>8. ASSUME NEW k \in DOMAIN b.items PROVE In(bs, b.items[k]) /\ ~In(ds, b.items[k])
  <2>1. In(bs, b.items[k])
    BY <1>2 DEF In
  <2>2. ~In(ds, b.items[k])
    <3> SUFFICES ASSUME NEW j \in DOMAIN ds, NEW l \in DOMAIN ds[j].items, ds[j].items[l] = b.items[k] PROVE FALSE
      BY DEF In
    <3> QED
      BY <1>2, <1>4 DEF BatchesFit
  <2> QED
    BY <2>1, <2>2
<1> QED
  BY <1>1, <1>5, <1>6, <1>7, <1>8

LEMMA OfKindIs ==
  ASSUME NEW s, IsSeq(s), NEW kind
  PROVE  LET w == C!OfKind(s, kind)
         IN  /\ IsSeq(w)
             /\ \A k \in DOMAIN w : w[k].kind = kind /\ \E i \in DOMAIN s : w[k] = s[i]
             /\ Apart(s) => Apart(w)
<1>1. PICK items : items = {item \in C!ToSet(s) : item.kind = kind}
  OBVIOUS
<1>2. C!OfKind(s, kind) = C!Among(s, items)
  BY <1>1 DEF C!OfKind
<1>3. LET w == C!Among(s, items)
      IN  /\ IsSeq(w)
          /\ \A k \in DOMAIN w : \E i \in DOMAIN s : w[k] = s[i] /\ s[i] \in items
          /\ Apart(s) => Apart(w)
  BY AmongThem
<1> QED
  BY <1>1, <1>2, <1>3

\* Files of the batch become attached.
LEMMA FilesCome ==
  ASSUME NEW h, NEW on, NEW s, NEW o, NEW dr, NEW f, NEW bs, NEW ms, NEW st, NEW e,
         Composed(h, on, s, o, dr, f, bs, ms, st, e),
         NEW ds, Composed(h, on, s, o, dr, f, ds, ms, st, e),
         NEW fs, IsSeq(fs), Apart(fs),
         \A k \in DOMAIN fs : /\ fs[k].kind = "file" /\ fs[k].thread = o.thread /\ fs[k].gen = o.gen
                              /\ fs[k].n \in Nat /\ fs[k].n <= e
                              /\ In(bs, fs[k]) /\ ~In(ds, fs[k]),
         NEW g, IsJoined(g, f, fs)
  PROVE  Composed(h, on, s, o, dr, g, ds, ms, st, e)
<1>1. FilesFit(f, o, bs, ms, e) /\ FilesFit(f, o, ds, ms, e) /\ MessagesFit(bs, ms, st, e) /\ Together(f, bs, ms)
      /\ e \in Nat
  BY DEF Composed
<1>2. Upto(f, e) /\ IsSeq(f) /\ Apart(f)
  BY <1>1 DEF FilesFit, Upto
<1>3. /\ IsSeq(g) /\ Len(f) \in Nat /\ DOMAIN f = 1..Len(f)
      /\ \A k \in DOMAIN f : k \in DOMAIN g /\ g[k] = f[k]
      /\ \A k \in DOMAIN fs : Len(f) + k \in DOMAIN g /\ g[Len(f) + k] = fs[k]
      /\ \A k \in DOMAIN g \ DOMAIN f : \E l \in DOMAIN fs : k = Len(f) + l /\ g[k] = fs[l]
  BY <1>2, Joined
<1>4. \A k \in DOMAIN g \ DOMAIN f : \E l \in DOMAIN fs : k = Len(f) + l /\ g[k] = fs[l]
  BY <1>3, Zenon
<1>5. Upto(g, e)
  BY <1>2, <1>3, <1>4 DEF Upto
<1>6. \A k \in DOMAIN f : \A l \in DOMAIN fs : f[k] # fs[l]
  BY <1>1 DEF FilesFit
<1>7. Apart(g)
  <2> SUFFICES ASSUME NEW k \in DOMAIN g, NEW l \in DOMAIN g, g[k] = g[l] PROVE k = l
    BY DEF Apart
  <2>1. CASE k \in DOMAIN f /\ l \in DOMAIN f
    BY <1>2, <1>3, <2>1 DEF Apart
  <2>2. CASE k \in DOMAIN f /\ l \notin DOMAIN f
    BY <1>3, <1>4, <1>6, <2>2
  <2>3. CASE k \notin DOMAIN f /\ l \in DOMAIN f
    BY <1>3, <1>4, <1>6, <2>3
  <2>4. CASE k \notin DOMAIN f /\ l \notin DOMAIN f
    BY <1>4, <2>4 DEF Apart
  <2> QED
    BY <2>1, <2>2, <2>3, <2>4
<1>8. ASSUME NEW l \in DOMAIN fs PROVE ~Brought(ms, fs[l])
  <2> SUFFICES ASSUME NEW i \in DOMAIN ms, NEW k \in DOMAIN ms[i].files, ms[i].files[k] = fs[l] PROVE FALSE
    BY DEF Brought
  <2>1. MessageFits(ms[i], bs, st, e)
    BY <1>1 DEF MessagesFit
  <2> QED
    BY <2>1 DEF MessageFits
<1>9. ASSUME NEW k \in DOMAIN g
      PROVE  /\ g[k].kind = "file" /\ g[k].gen \in Nat /\ g[k].gen <= o.gen
             /\ g[k].gen = o.gen => g[k].thread = o.thread
             /\ ~In(ds, g[k]) /\ ~Brought(ms, g[k])
  <2>1. CASE k \in DOMAIN f
    BY <1>1, <1>3, <2>1 DEF FilesFit
  <2>2. CASE k \notin DOMAIN f
    <3>1. PICK l \in DOMAIN fs : g[k] = fs[l]
      BY <1>4, <2>2
    <3>2. o.gen \in Nat
      BY <1>1 DEF FilesFit
    <3> QED
      BY <1>8, <3>1, <3>2
  <2> QED
    BY <2>1, <2>2
<1>10. FilesFit(g, o, ds, ms, e)
  BY <1>1, <1>5, <1>7, <1>9 DEF FilesFit
<1>11. Together(g, ds, ms)
  <2>1. \A x : In(ds, x) => In(ds, x)
    OBVIOUS
  <2>2. \A x : (\E k \in DOMAIN g : g[k] = x) => (\E k \in DOMAIN f : f[k] = x) \/ In(bs, x)
    BY <1>3, <1>4
  <2>3. Together(f, ds, ms) /\ MessagesFit(ds, ms, st, e)
    BY DEF Composed
  <2> SUFFICES ASSUME NEW i \in DOMAIN ms, ms[i].how = "send", NEW k \in DOMAIN ms[i].words,
                      ms[i].words[k].kind = "word",
                      NEW x, Behind(g, ds, ms, i, x), x.thread = ms[i].to, x.gen = ms[i].gen
               PROVE  x.n > ms[i].words[k].n
    BY DEF Together
  <2>4. CASE Behind(f, ds, ms, i, x)
    BY <2>3, <2>4 DEF Together
  <2>5. CASE Behind(f, bs, ms, i, x)
    BY <1>1, <2>5 DEF Together
  <2>6. Behind(f, ds, ms, i, x) \/ Behind(f, bs, ms, i, x)
    BY <2>2 DEF Behind
  <2> QED
    BY <2>4, <2>5, <2>6
<1> QED
  BY <1>10, <1>11 DEF Composed

\* Pills of the batch come to the end of the text.
LEMMA PillsFit ==
  ASSUME NEW h, NEW on, NEW s, NEW o, NEW dr, NEW f, NEW bs, NEW ms, NEW st, NEW e,
         Composed(h, on, s, o, dr, f, bs, ms, st, e),
         NEW ds, Composed(h, on, s, o, dr, f, ds, ms, st, e),
         NEW ps, IsSeq(ps), Apart(ps),
         \A k \in DOMAIN ps : /\ ps[k].kind = "pill" /\ ps[k].thread = h
                              /\ ps[k].n \in Nat /\ ps[k].n <= e
                              /\ In(bs, ps[k]) /\ ~In(ds, ps[k]),
         NEW v, IsJoined(v, s, ps)
  PROVE  Fits(v, h, ds, ms, st, e)
<1>1. /\ Fits(s, h, bs, ms, st, e) /\ Fits(s, h, ds, ms, st, e) /\ MessagesFit(bs, ms, st, e) /\ e \in Nat
  BY DEF Composed, TextsFit
<1>2. Upto(s, e) /\ IsSeq(s)
  BY <1>1 DEF Fits, Upto
<1>3. /\ IsSeq(v) /\ Len(s) \in Nat /\ DOMAIN s = 1..Len(s)
      /\ \A k \in DOMAIN s : k \in DOMAIN v /\ v[k] = s[k]
      /\ \A k \in DOMAIN ps : Len(s) + k \in DOMAIN v /\ v[Len(s) + k] = ps[k]
      /\ \A k \in DOMAIN v \ DOMAIN s : \E l \in DOMAIN ps : k = Len(s) + l /\ v[k] = ps[l]
  BY <1>2, Joined
<1>4. \A k \in DOMAIN v \ DOMAIN s : \E l \in DOMAIN ps : k = Len(s) + l /\ v[k] = ps[l]
  BY <1>3, Zenon
<1>5. Upto(v, e)
  BY <1>2, <1>3, <1>4 DEF Upto
<1>6. \A k \in DOMAIN s : \A l \in DOMAIN ps : Mine(s[k], st) => s[k] # ps[l]
  BY <1>1 DEF Fits
<1>7. ASSUME NEW l \in DOMAIN ps, Mine(ps[l], st) PROVE ~Said(ms, ps[l])
  <2> SUFFICES ASSUME NEW i \in DOMAIN ms, NEW k \in DOMAIN ms[i].words, ms[i].words[k] = ps[l] PROVE FALSE
    BY DEF Said
  <2>1. MessageFits(ms[i], bs, st, e)
    BY <1>1 DEF MessagesFit
  <2> QED
    BY <1>7, <2>1 DEF MessageFits
<1>8. ASSUME NEW k \in DOMAIN v, Mine(v[k], st)
      PROVE  /\ v[k].kind # "file" /\ v[k].thread = h /\ ~In(ds, v[k]) /\ ~Said(ms, v[k])
             /\ \A l \in DOMAIN v : v[l] = v[k] => l = k
  <2>1. CASE k \in DOMAIN s
    <3>1. v[k] = s[k]
      BY <1>3, <2>1
    <3>2. /\ s[k].kind # "file" /\ s[k].thread = h /\ ~In(ds, s[k]) /\ ~Said(ms, s[k])
          /\ \A l \in DOMAIN s : s[l] = s[k] => l = k
      BY <1>1, <1>8, <2>1, <3>1 DEF Fits
    <3>3. ASSUME NEW l \in DOMAIN v, v[l] = v[k] PROVE l = k
      <4>1. l \in DOMAIN s
        BY <1>4, <1>6, <1>8, <2>1, <3>1, <3>3
      <4> QED
        BY <1>3, <3>1, <3>2, <3>3, <4>1
    <3> QED
      BY <3>1, <3>2, <3>3
  <2>2. CASE k \notin DOMAIN s
    <3>1. PICK j \in DOMAIN ps : k = Len(s) + j /\ v[k] = ps[j]
      BY <1>4, <2>2
    <3>2. ASSUME NEW l \in DOMAIN v, v[l] = v[k] PROVE l = k
      <4>1. l \notin DOMAIN s
        BY <1>3, <1>6, <1>8, <3>1, <3>2
      <4>2. PICK m \in DOMAIN ps : l = Len(s) + m /\ v[l] = ps[m]
        BY <1>4, <4>1
      <4>3. m = j
        BY <3>1, <3>2, <4>2 DEF Apart
      <4> QED
        BY <3>1, <4>2, <4>3
    <3> QED
      BY <1>7, <1>8, <3>1, <3>2
  <2> QED
    BY <2>1, <2>2
<1> QED
  BY <1>5, <1>8 DEF Fits

LEMMA CommitBatchKeeps == ASSUME ComposeInv, C!CommitBatch PROVE ComposeInv'
<1>1. PICK b, fs, ps : b = Head(batches) /\ fs = C!OfKind(b.items, "file") /\ ps = C!OfKind(b.items, "pill")
  OBVIOUS
<1>2. /\ batches # <<>> /\ batches' = Tail(batches)
      /\ IF C!Owns(b.owner)
         THEN /\ attached' = attached \o fs
              /\ IF ps # <<>> THEN C!Bind(text \o ps) ELSE C!Looked /\ UNCHANGED <<text, drafts>>
         ELSE C!Looked /\ UNCHANGED <<attached, text, drafts>>
      /\ UNCHANGED <<here, mounted, sent, strays, entered>>
  BY <1>1 DEF C!CommitBatch, C!Edit
<1>3. PICK h, on, s, o, dr, f, bs, ms, st, e, ds, p :
        /\ h = here /\ on = mounted.on /\ s = text /\ o = owner /\ dr = drafts /\ f = attached /\ bs = batches
        /\ ms = sent /\ st = strays /\ e = entered /\ ds = batches' /\ p = OwnerThen(owner, here)
  OBVIOUS
<1>4. Composed(h, on, s, o, dr, f, bs, ms, st, e) /\ BatchesFit(bs, e) /\ bs # <<>> /\ ds = Tail(bs) /\ b = Head(bs)
  BY <1>1, <1>2, <1>3 DEF ComposeInv, Composed
<1>5. /\ BatchesFit(ds, e) /\ BatchFits(b, e) /\ Apart(b.items) /\ IsSeq(b.items)
      /\ \A x : In(ds, x) => In(bs, x)
      /\ \A k \in DOMAIN b.items : In(bs, b.items[k]) /\ ~In(ds, b.items[k])
  BY <1>4, FirstGone DEF BatchFits, Upto
<1>6. Composed(h, on, s, o, dr, f, ds, ms, st, e)
  BY <1>4, <1>5, BatchesShrink
<1>7. Composed(h, on, s, p, dr, f, ds, ms, st, e) /\ Composed(h, on, s, p, dr, f, bs, ms, st, e)
  <2>1. p = OwnerThen(o, h)
    BY <1>3
  <2> QED
    BY <1>4, <1>6, <2>1, OwnerFits
<1>8. CASE ~C!Owns(b.owner)
  <2>1. /\ C!Looked /\ owner' = p /\ UNCHANGED <<attached, text, drafts>>
    BY <1>2, <1>3, <1>8, OwnerIs
  <2> QED
    BY <1>2, <1>3, <1>7, <2>1 DEF ComposeInv
<1>9. CASE C!Owns(b.owner)
  <2>1. on /\ h # NoThread /\ b.owner = p /\ p.thread = h
    <3>1. mounted.on /\ here # NoThread /\ C!OwnerNow = b.owner
      BY <1>9 DEF C!Owns
    <3>2. b.owner = OwnerThen(owner, here)
      BY <3>1, OwnerIs
    <3> QED
      BY <1>3, <3>1, <3>2 DEF OwnerThen
  <2>2. PICK g, v : g = f \o fs /\ v = s \o ps /\ IsJoined(g, f, fs) /\ IsJoined(v, s, ps)
    BY DEF IsJoined
  <2>3. /\ IsSeq(fs) /\ Apart(fs) /\ IsSeq(ps) /\ Apart(ps)
        /\ \A k \in DOMAIN fs : fs[k].kind = "file" /\ \E i \in DOMAIN b.items : fs[k] = b.items[i]
        /\ \A k \in DOMAIN ps : ps[k].kind = "pill" /\ \E i \in DOMAIN b.items : ps[k] = b.items[i]
    BY <1>1, <1>5, OfKindIs
  <2>4. \A i \in DOMAIN b.items : /\ b.items[i].thread = h /\ b.items[i].gen = p.gen
                                  /\ b.items[i].n \in Nat /\ b.items[i].n <= e
    BY <1>5, <2>1 DEF BatchFits, Upto
  <2>5. \A k \in DOMAIN fs : /\ fs[k].kind = "file" /\ fs[k].thread = p.thread /\ fs[k].gen = p.gen
                             /\ fs[k].n \in Nat /\ fs[k].n <= e /\ In(bs, fs[k]) /\ ~In(ds, fs[k])
    BY <1>5, <2>1, <2>3, <2>4
  <2>6. \A k \in DOMAIN ps : /\ ps[k].kind = "pill" /\ ps[k].thread = h
                             /\ ps[k].n \in Nat /\ ps[k].n <= e /\ In(bs, ps[k]) /\ ~In(ds, ps[k])
    BY <1>5, <2>3, <2>4
  <2>7. Composed(h, on, s, p, dr, g, ds, ms, st, e)
    BY <1>7, <2>2, <2>3, <2>5, FilesCome
  <2>8. Fits(v, h, ds, ms, st, e)
    BY <1>7, <2>2, <2>3, <2>6, PillsFit
  <2>9. attached' = g /\ h = here /\ h = here' /\ mounted' = mounted /\ sent' = ms /\ strays' = st /\ entered' = e
    BY <1>2, <1>3, <1>9, <2>2
  <2>10. CASE ps # <<>>
    <3>1. owner' = OwnerThen(p, h) /\ text' = v /\ drafts' = C!Write(dr, h, v)
      <4>1. C!Bind(v)
        BY <1>2, <1>3, <1>9, <2>2, <2>10
      <4>2. owner' = p /\ text' = v /\ drafts' = C!Write(dr, h, v)
        BY <1>3, <4>1, BindIs
      <4> QED
        BY <2>1, <4>2 DEF OwnerThen
    <3>2. PICK d : d = C!Write(dr, h, v)
      OBVIOUS
    <3>3. Composed(h, on, v, OwnerThen(p, h), d, g, ds, ms, st, e)
      BY <2>1, <2>7, <2>8, <3>2, TextFits
    <3> QED
      BY <1>3, <2>9, <3>1, <3>2, <3>3 DEF ComposeInv
  <2>11. CASE ps = <<>>
    <3>1. owner' = p /\ text' = s /\ drafts' = dr
      BY <1>2, <1>3, <1>9, <2>11, OwnerIs
    <3> QED
      BY <1>3, <2>7, <2>9, <3>1 DEF ComposeInv
  <2> QED
    BY <2>10, <2>11
<1> QED
  BY <1>8, <1>9

-------------------------------------------------------------------------------
\* The messages.

\* The owner that a submission found is the owner still.
LEMMA DispatchIs ==
  ASSUME ComposeInv, C!MayDispatch
  PROVE  /\ mounted.on /\ here \in Tabs /\ here # NoThread
         /\ submit.owner = OwnerThen(owner, here) /\ submit.owner.thread = here
         /\ \A k \in DOMAIN attached : attached[k].gen = submit.owner.gen => attached[k].thread = here
         /\ \A x : In(batches, x) => x.gen # submit.owner.gen
<1>1. mounted.on /\ here # NoThread /\ C!OwnerNow = submit.owner /\ ~C!Reading(submit.owner.gen)
  BY DEF C!MayDispatch, C!Owns
<1>2. submit.owner = OwnerThen(owner, here) /\ submit.owner.thread = here
  <2>1. submit.owner = OwnerThen(owner, here)
    BY <1>1, OwnerIs
  <2> QED
    BY <1>1, <2>1 DEF OwnerThen
<1>3. here \in Tabs /\ FilesFit(attached, owner, batches, sent, entered) /\ BatchesFit(batches, entered)
  BY <1>1 DEF ComposeInv, Composed, TextsFit
<1>4. ASSUME NEW k \in DOMAIN attached, attached[k].gen = submit.owner.gen PROVE attached[k].thread = here
  <2>1. PICK p, h, o, f : p = submit.owner /\ h = here /\ o = owner /\ f = attached
    OBVIOUS
  <2>2. p = IF h = NoThread \/ o.thread = h THEN o ELSE [thread |-> h, gen |-> o.gen + 1]
    BY <1>2, <2>1 DEF OwnerThen
  <2>3. \A j \in DOMAIN f : h # NoThread /\ f[j].gen = p.gen => f[j].thread = h
    BY <1>3, <2>1, <2>2, OwnerMoves
  <2> QED
    BY <1>1, <1>4, <2>1, <2>3
<1>5. ASSUME NEW x, In(batches, x) PROVE x.gen # submit.owner.gen
  <2>1. PICK j \in DOMAIN batches : \E k \in DOMAIN batches[j].items : batches[j].items[k] = x
    BY <1>5 DEF In
  <2>2. x.gen = batches[j].owner.gen
    BY <1>3, <2>1 DEF BatchesFit, BatchFits
  <2> QED
    BY <1>1, <2>1, <2>2 DEF C!Reading
<1> QED
  BY <1>1, <1>2, <1>3, <1>4, <1>5

\* A text leaves alone.
LEMMA TextSent ==
  ASSUME ComposeInv, mounted.on, here # NoThread,
         NEW gen, NEW how, how # "send",
         sent' = Append(sent, C!Message(here, gen, <<>>, how)),
         drafts' = C!Write(drafts, here, <<>>), text' = <<>>,
         UNCHANGED <<here, mounted, owner, attached, batches, strays, entered>>
  PROVE  ComposeInv'
<1>1. PICK m, d, ns, e, f, s, h : /\ m = C!Message(here, gen, <<>>, how) /\ d = drafts' /\ ns = sent' /\ e = entered
                                  /\ f = attached /\ s = text /\ h = here
  OBVIOUS
<1>2. m.words = s /\ m.to = h /\ m.files = <<>> /\ m.how = how
  BY <1>1 DEF C!Message
<1>3. IsSeq(<<>>) /\ DOMAIN <<>> = {}
  BY DEF IsSeq
<1>4. Upto(m.files, e) /\ Apart(m.files) /\ DOMAIN m.files = {}
  BY <1>2, <1>3 DEF Upto, Apart
<1>5. Composed(h, mounted.on, s, owner, drafts, f, batches, sent, strays, e)
  BY <1>1 DEF ComposeInv
<1>6. Upto(f, e) /\ Apart(f)
  BY <1>5 DEF Composed, FilesFit
<1>7. d = C!Write(drafts, h, <<>>) /\ ns = Append(sent, m)
  BY <1>1
<1>8. Composed(h, mounted.on, <<>>, owner, d, f, batches, ns, strays, e)
  <2>1. Leaves(f, m, f, batches, e)
    BY <1>2, <1>4, <1>6 DEF Leaves
  <2>2. mounted.on /\ h # NoThread /\ m.words = s /\ m.to = h
    BY <1>1, <1>2
  <2> QED
    BY <1>5, <1>7, <2>1, <2>2, MessageSent
<1> QED
  BY <1>1, <1>8 DEF ComposeInv

LEMMA EnqueueKeeps == ASSUME ComposeInv, C!Enqueue PROVE ComposeInv'
<1>1. mounted.on /\ here # NoThread /\ submit.owner.thread = here
  BY DispatchIs DEF C!Enqueue
<1>2. /\ sent' = Append(sent, C!Message(here, submit.owner.gen, <<>>, "queue"))
      /\ drafts' = C!Write(drafts, here, <<>>) /\ text' = <<>>
      /\ UNCHANGED <<here, mounted, owner, attached, batches, strays, entered>>
  BY <1>1 DEF C!Enqueue
<1> QED
  BY <1>1, <1>2, TextSent

LEMMA InterruptKeeps == ASSUME ComposeInv, C!Interrupt PROVE ComposeInv'
<1>1. /\ mounted.on /\ here # NoThread
      /\ sent' = Append(sent, C!Message(here, 0, <<>>, "interrupt"))
      /\ drafts' = C!Write(drafts, here, <<>>) /\ text' = <<>>
      /\ UNCHANGED <<here, mounted, owner, attached, batches, strays, entered>>
  BY DEF C!Interrupt, C!AtInput
<1> QED
  BY <1>1, TextSent

LEMMA SendKeeps == ASSUME ComposeInv, C!Send PROVE ComposeInv'
<1>1. PICK h, on, s, o, dr, f, bs, ms, st, e :
        /\ h = here /\ on = mounted.on /\ s = text /\ o = owner /\ dr = drafts /\ f = attached /\ bs = batches
        /\ ms = sent /\ st = strays /\ e = entered
  OBVIOUS
<1>2. PICK gen, files, m, g, d, ns : /\ gen = submit.owner.gen /\ files = C!Owned(gen)
                                     /\ m = C!Message(submit.owner.thread, gen, files, "send")
                                     /\ g = attached' /\ d = drafts' /\ ns = sent'
  OBVIOUS
<1>3. /\ on /\ h \in Tabs /\ h # NoThread /\ submit.owner.thread = h
      /\ \A k \in DOMAIN f : f[k].gen = gen => f[k].thread = h
      /\ \A x : In(bs, x) => x.gen # gen
  BY <1>1, <1>2, DispatchIs DEF C!Send
<1>4. /\ C!Bind(<<>>) /\ ns = Append(ms, m) /\ g = C!Among(f, C!ToSet(f) \ C!ToSet(files))
      /\ UNCHANGED <<here, mounted, batches, strays, entered>>
  BY <1>1, <1>2 DEF C!Send, C!Edit
<1>5. owner' = OwnerThen(o, h) /\ text' = <<>> /\ d = C!Write(dr, h, <<>>)
  BY <1>1, <1>2, <1>4, BindIs
<1>6. Composed(h, on, s, o, dr, f, bs, ms, st, e)
  BY <1>1 DEF ComposeInv
<1>7. Upto(f, e) /\ Apart(f) /\ IsSeq(f)
  BY <1>6 DEF Composed, FilesFit, Upto
<1>8. m.words = s /\ m.to = h /\ m.files = files /\ m.how = "send" /\ m.gen = gen
  BY <1>1, <1>2, <1>3 DEF C!Message
<1>9. /\ IsSeq(files) /\ Apart(files)
      /\ \A k \in DOMAIN files : \E i \in DOMAIN f : files[k] = f[i] /\ f[i].gen = gen
      /\ \A i \in DOMAIN f : f[i].gen = gen => \E k \in DOMAIN files : files[k] = f[i]
  <2>1. PICK items : items = {file \in C!ToSet(f) : file.gen = gen}
    OBVIOUS
  <2>2. files = C!Among(f, items)
    BY <1>1, <1>2, <2>1 DEF C!Owned
  <2>3. \A i \in DOMAIN f : f[i] \in items <=> f[i].gen = gen
    BY <2>1 DEF C!ToSet
  <2>4. /\ IsSeq(files) /\ Apart(files)
        /\ \A k \in DOMAIN files : \E i \in DOMAIN f : files[k] = f[i] /\ f[i] \in items
        /\ \A i \in DOMAIN f : f[i] \in items => \E k \in DOMAIN files : files[k] = f[i]
    BY <1>7, <2>2, AmongThem
  <2> QED
    BY <2>3, <2>4
<1>10. /\ IsSeq(g) /\ Apart(g)
       /\ \A k \in DOMAIN g : /\ \E i \in DOMAIN f : f[i] = g[k]
                              /\ \A l \in DOMAIN files : files[l] # g[k]
  <2>1. PICK items : items = C!ToSet(f) \ C!ToSet(files)
    OBVIOUS
  <2>2. g = C!Among(f, items)
    BY <1>4, <2>1
  <2>3. /\ IsSeq(g) /\ Apart(g)
        /\ \A k \in DOMAIN g : \E i \in DOMAIN f : g[k] = f[i] /\ f[i] \in items
    BY <1>7, <2>2, AmongThem
  <2> QED
    BY <2>1, <2>3 DEF C!ToSet
<1>11. Upto(g, e) /\ Upto(files, e)
  BY <1>7, <1>9, <1>10 DEF Upto
<1>12. \A k \in DOMAIN m.files : m.files[k].thread = h /\ \E l \in DOMAIN f : f[l] = m.files[k]
  BY <1>3, <1>8, <1>9
<1>13. \A x : (\E k \in DOMAIN g : g[k] = x) \/ In(bs, x) => x.gen # m.gen
  BY <1>3, <1>8, <1>9, <1>10
<1>14. Composed(h, on, <<>>, o, d, g, bs, ns, st, e)
  <2>1. Upto(m.files, e) /\ Apart(m.files)
    BY <1>8, <1>9, <1>11
  <2>2. \A k \in DOMAIN g : (\E l \in DOMAIN f : f[l] = g[k]) /\ \A l \in DOMAIN m.files : m.files[l] # g[k]
    BY <1>8, <1>10
  <2>3. Upto(g, e) /\ Apart(g)
    BY <1>10, <1>11
  <2>4. m.how = "send" => \A x : (\E k \in DOMAIN g : g[k] = x) \/ In(bs, x) => x.gen # m.gen
    BY <1>13
  <2>5. on /\ h # NoThread /\ m.words = s /\ m.to = h /\ d = C!Write(dr, h, <<>>) /\ ns = Append(ms, m)
    BY <1>3, <1>4, <1>5, <1>8
  <2>6. Leaves(f, m, g, bs, e)
    BY <1>12, <2>1, <2>2, <2>3, <2>4, <2>5 DEF Leaves
  <2> QED
    BY <1>6, <2>5, <2>6, MessageSent
<1>15. Composed(h, on, <<>>, OwnerThen(o, h), d, g, bs, ns, st, e)
  BY <1>14, OwnerFits
<1> QED
  BY <1>1, <1>2, <1>4, <1>5, <1>15 DEF ComposeInv

\* A message is taken back.
LEMMA MessageGone ==
  ASSUME NEW h, NEW on, NEW s, NEW o, NEW dr, NEW f, NEW bs, NEW ms, NEW st, NEW e,
         Composed(h, on, s, o, dr, f, bs, ms, st, e), NEW i \in DOMAIN ms,
         NEW ns, ns = C!RemoveAt(ms, i)
  PROVE  /\ Composed(h, on, s, o, dr, f, bs, ns, st, e)
         /\ Fits(ms[i].words, ms[i].to, bs, ns, st, e)
<1>1. /\ e \in Nat /\ on \in BOOLEAN /\ TextsFit(h, on, s, dr, bs, ms, st, e) /\ BatchesFit(bs, e)
      /\ FilesFit(f, o, bs, ms, e) /\ MessagesFit(bs, ms, st, e) /\ Together(f, bs, ms) /\ IsSeq(ms)
  BY DEF Composed, MessagesFit
<1>2. PICK at : at = [k \in DOMAIN ns |-> IF k < i THEN k ELSE k + 1]
  OBVIOUS
<1>3. /\ IsSeq(ns) /\ Len(ms) \in Nat /\ DOMAIN ms = 1..Len(ms) /\ Len(ns) = Len(ms) - 1 /\ DOMAIN ns = 1..Len(ms) - 1
      /\ \A k \in DOMAIN ns : at[k] \in DOMAIN ms /\ at[k] # i /\ ns[k] = ms[at[k]]
      /\ \A k, l \in DOMAIN ns : /\ k # l => at[k] # at[l]
                                 /\ k < l => at[k] < at[l]
  <2>1. /\ IsSeq(ns) /\ Len(ms) \in Nat /\ DOMAIN ms = 1..Len(ms) /\ Len(ns) = Len(ms) - 1 /\ DOMAIN ns = 1..Len(ms) - 1
        /\ \A k \in DOMAIN ns : ns[k] = ms[IF k < i THEN k ELSE k + 1]
    BY <1>1, RemovedAt
  <2> QED
    BY <1>2, <2>1
<1>4. \A x : (Said(ns, x) => Said(ms, x)) /\ (Brought(ns, x) => Brought(ms, x))
  BY <1>3 DEF Said, Brought
<1>5. NoMore(bs, ms, bs, ns, st, e) /\ e <= e
  BY <1>1, <1>4 DEF NoMore
<1>6. TextsFit(h, on, s, dr, bs, ns, st, e)
  BY <1>1, <1>5, TextsMove
<1>7. FilesFit(f, o, bs, ns, e)
  BY <1>1, <1>5, FilesMove
<1>8. MessagesFit(bs, ns, st, e)
  <2>1. \A k \in DOMAIN ns : MessageFits(ns[k], bs, st, e)
    BY <1>1, <1>3 DEF MessagesFit
  <2>2. \A k, l \in DOMAIN ns : k # l => Disjoint(ns[k], ns[l], st)
    BY <1>1, <1>3 DEF MessagesFit
  <2> QED
    BY <1>3, <2>1, <2>2 DEF MessagesFit
<1>9. Together(f, bs, ns)
  <2> SUFFICES ASSUME NEW k \in DOMAIN ns, ns[k].how = "send", NEW w \in DOMAIN ns[k].words,
                      ns[k].words[w].kind = "word",
                      NEW x, Behind(f, bs, ns, k, x), x.thread = ns[k].to, x.gen = ns[k].gen
               PROVE  x.n > ns[k].words[w].n
    BY DEF Together
  <2>1. PICK j : j = at[k]
    OBVIOUS
  <2>2. j \in DOMAIN ms /\ ns[k] = ms[j]
    BY <1>3, <2>1
  <2>3. Behind(f, bs, ms, j, x)
    <3>1. CASE (\E l \in DOMAIN f : f[l] = x) \/ In(bs, x)
      BY <3>1 DEF Behind
    <3>2. CASE \E l \in k + 1 .. Len(ns) : \E q \in DOMAIN ns[l].files : ns[l].files[q] = x
      <4>1. PICK l \in k + 1 .. Len(ns) : \E q \in DOMAIN ns[l].files : ns[l].files[q] = x
        BY <3>2
      <4>2. l \in DOMAIN ns /\ k < l
        BY <1>3, <4>1
      <4>3. at[l] \in DOMAIN ms /\ j < at[l] /\ ns[l] = ms[at[l]]
        BY <1>3, <2>1, <4>2
      <4>4. at[l] \in j + 1 .. Len(ms)
        BY <1>3, <2>2, <4>3
      <4> QED
        BY <4>1, <4>3, <4>4 DEF Behind
    <3> QED
      BY <3>1, <3>2 DEF Behind
  <2> QED
    BY <1>1, <2>2, <2>3 DEF Together
<1>10. Fits(ms[i].words, ms[i].to, bs, ns, st, e)
  <2>1. PICK w, to : w = ms[i].words /\ to = ms[i].to
    OBVIOUS
  <2>2. /\ Upto(w, e)
        /\ \A k \in DOMAIN w : Mine(w[k], st) =>
             /\ w[k].kind # "file" /\ w[k].thread = to /\ ~In(bs, w[k])
             /\ \A l \in DOMAIN w : w[l] = w[k] => l = k
    BY <1>1, <2>1 DEF MessagesFit, MessageFits
  <2>3. ASSUME NEW k \in DOMAIN w, Mine(w[k], st) PROVE ~Said(ns, w[k])
    <3> SUFFICES ASSUME NEW j \in DOMAIN ns, NEW l \in DOMAIN ns[j].words, ns[j].words[l] = w[k] PROVE FALSE
      BY DEF Said
    <3>1. at[j] \in DOMAIN ms /\ at[j] # i /\ ns[j] = ms[at[j]]
      BY <1>3
    <3>2. Disjoint(ms[i], ms[at[j]], st)
      BY <1>1, <3>1 DEF MessagesFit
    <3> QED
      BY <2>1, <2>3, <3>1, <3>2 DEF Disjoint
  <2>4. Fits(w, to, bs, ns, st, e)
    BY <2>2, <2>3 DEF Fits
  <2> QED
    BY <2>1, <2>4
<1> QED
  BY <1>1, <1>6, <1>7, <1>8, <1>9, <1>10 DEF Composed

LEMMA EditQueuedKeeps == ASSUME ComposeInv, C!EditQueued PROVE ComposeInv'
<1>1. PICK i \in DOMAIN sent : /\ mounted.on /\ sent[i].to = here /\ sent' = C!RemoveAt(sent, i)
                               /\ C!Bind(sent[i].words)
                               /\ UNCHANGED <<here, mounted, attached, batches, strays, entered>>
  BY DEF C!EditQueued, C!Edit, C!AtInput
<1>2. PICK ns, v : ns = sent' /\ v = sent[i].words
  OBVIOUS
<1>3. ns = C!RemoveAt(sent, i)
  BY <1>1, <1>2
<1>4. /\ Composed(here, mounted.on, text, owner, drafts, attached, batches, ns, strays, entered)
      /\ Fits(v, here, batches, ns, strays, entered)
  BY <1>1, <1>2, <1>3, MessageGone DEF ComposeInv
<1> QED
  BY <1>1, <1>2, <1>4, BoundKeeps

-------------------------------------------------------------------------------
\* The panel and the active thread, and the whole.

LEMMA SwitchKeeps == ASSUME ComposeInv, C!Switch PROVE ComposeInv'
<1>1. PICK t \in Tabs \cup {NoThread} :
        /\ here' = t
        /\ IF mounted.on THEN text' = C!Read(t) /\ drafts' = C!Write(drafts, here, text)
           ELSE UNCHANGED <<text, drafts>>
        /\ UNCHANGED <<mounted, owner, attached, batches, sent, strays, entered>>
  BY DEF C!Switch, Tabs
<1>2. TextsFit(here, mounted.on, text, drafts, batches, sent, strays, entered)
  BY DEF ComposeInv, Composed
<1>3. \A x \in Tabs : drafts'[x] = drafts[x]
  <2>1. CASE mounted.on /\ here # NoThread
    <3>1. drafts' = [drafts EXCEPT ![here] = text] /\ drafts[here] = text /\ here \in Tabs /\ DOMAIN drafts = Tabs
      BY <1>1, <1>2, <2>1 DEF C!Write, TextsFit
    <3> QED
      BY <3>1
  <2>2. CASE ~ (mounted.on /\ here # NoThread)
    <3>1. drafts' = drafts
      BY <1>1, <2>2 DEF C!Write
    <3> QED
      BY <3>1
  <2> QED
    BY <2>1, <2>2
<1>4. DOMAIN drafts' = Tabs
  BY <1>1, <1>2 DEF C!Write, TextsFit
<1>5. text' = IF mounted.on /\ t # NoThread THEN drafts[t] ELSE <<>>
  BY <1>1, <1>2 DEF C!Read, TextsFit
<1>6. Fits(text', t, batches, sent, strays, entered)
  <2>1. CASE mounted.on /\ t # NoThread
    BY <1>2, <1>5, <2>1 DEF TextsFit
  <2>2. CASE ~ (mounted.on /\ t # NoThread)
    BY <1>5, <2>2, NothingFits
  <2> QED
    BY <2>1, <2>2
<1>7. TextsFit(here', mounted.on, text', drafts', batches, sent, strays, entered)
  <2>1. \A x \in Tabs : Fits(drafts'[x], x, batches, sent, strays, entered)
    BY <1>2, <1>3 DEF TextsFit
  <2>2. mounted.on /\ here' # NoThread => drafts'[here'] = text'
    BY <1>1, <1>3, <1>5
  <2>3. ~mounted.on => text' = <<>>
    BY <1>5
  <2> QED
    BY <1>1, <1>4, <1>6, <2>1, <2>2, <2>3 DEF TextsFit
<1> QED
  BY <1>1, <1>7 DEF ComposeInv, Composed

LEMMA MountKeeps == ASSUME ComposeInv, C!Mount PROVE ComposeInv'
<1>1. /\ mounted' = [on |-> TRUE, count |-> mounted.count + 1] /\ text' = C!Read(here) /\ C!Looked
      /\ UNCHANGED <<here, drafts, attached, batches, sent, strays, entered>>
  BY DEF C!Mount
<1>2. mounted'.on = TRUE /\ mounted' = [on |-> mounted'.on, count |-> mounted'.count]
  BY <1>1
<1>3. Composed(here, mounted.on, text, owner, drafts, attached, batches, sent, strays, entered)
      /\ owner' = OwnerThen(owner, here)
  BY <1>1, OwnerIs DEF ComposeInv
<1>4. Composed(here, mounted.on, text, owner', drafts, attached, batches, sent, strays, entered)
  BY <1>3, OwnerFits
<1>5. TextsFit(here, TRUE, text', drafts, batches, sent, strays, entered)
  <2>1. TextsFit(here, mounted.on, text, drafts, batches, sent, strays, entered)
    BY <1>3 DEF Composed
  <2>2. CASE here = NoThread
    <3>1. text' = <<>>
      BY <1>1, <2>2 DEF C!Read
    <3> QED
      BY <2>1, <2>2, <3>1, NothingFits DEF TextsFit
  <2>3. CASE here # NoThread
    <3>1. text' = drafts[here] /\ here \in Tabs
      BY <1>1, <2>1, <2>3 DEF C!Read, TextsFit
    <3> QED
      BY <2>1, <2>3, <3>1 DEF TextsFit
  <2> QED
    BY <2>2, <2>3
<1>6. Composed(here, TRUE, text', owner', drafts, attached, batches, sent, strays, entered)
  BY <1>4, <1>5 DEF Composed
<1> QED
  BY <1>1, <1>2, <1>6 DEF ComposeInv

LEMMA UnmountKeeps == ASSUME ComposeInv, C!Unmount PROVE ComposeInv'
<1>1. /\ mounted.on /\ mounted' = [mounted EXCEPT !.on = FALSE]
      /\ drafts' = C!Write(drafts, owner.thread, text)
      /\ strays' = IF owner.thread = here THEN strays ELSE strays \cup C!ToSet(text)
      /\ text' = <<>> /\ owner' = [thread |-> NoThread, gen |-> 0] /\ attached' = <<>> /\ batches' = <<>>
      /\ UNCHANGED <<here, sent, entered>>
  BY DEF C!Unmount, C!AtInput, C!NoOwner
<1>2. PICK h, s, dr, bs, ms, st, e, o, d, sp :
        /\ h = here /\ s = text /\ dr = drafts /\ bs = batches /\ ms = sent /\ st = strays /\ e = entered
        /\ o = owner.thread /\ d = drafts' /\ sp = strays'
  OBVIOUS
<1>3. mounted'.on = FALSE /\ mounted' = [on |-> mounted'.on, count |-> mounted'.count]
  <2>1. PICK x, y : mounted = [on |-> x, count |-> y]
    BY DEF ComposeInv
  <2>2. mounted' = [on |-> FALSE, count |-> y]
    BY <1>1, <2>1
  <2> QED
    BY <2>2
<1>4. /\ TextsFit(h, TRUE, s, dr, bs, ms, st, e) /\ e \in Nat /\ MessagesFit(bs, ms, st, e)
      /\ FilesFit(attached, owner, bs, ms, e) /\ Together(attached, bs, ms)
  BY <1>1, <1>2 DEF ComposeInv, Composed
<1>5. /\ d = C!Write(dr, o, s) /\ st \subseteq sp /\ o \in Tabs \cup {NoThread}
      /\ o = h \/ \A k \in DOMAIN s : s[k] \in sp
  <2>1. o \in Tabs \cup {NoThread}
    BY <1>2, <1>4 DEF FilesFit
  <2> QED
    BY <1>1, <1>2, <2>1 DEF C!ToSet
<1>6. DOMAIN <<>> = {} /\ IsSeq(<<>>) /\ \A x : ~In(<<>>, x)
  BY DEF IsSeq, In
<1>7. NoMore(bs, ms, <<>>, ms, sp, e) /\ e <= e
  BY <1>4, <1>6 DEF NoMore
<1>8. TextsFit(h, TRUE, s, dr, <<>>, ms, sp, e)
  BY <1>4, <1>5, <1>7, TextsMove
<1>9. Fits(s, o, <<>>, ms, sp, e)
  <2>1. Fits(s, h, <<>>, ms, sp, e)
    BY <1>8 DEF TextsFit
  <2>2. CASE o = h
    BY <2>1, <2>2
  <2>3. CASE \A k \in DOMAIN s : s[k] \in sp
    BY <2>1, <2>3 DEF Fits, Mine
  <2> QED
    BY <1>5, <2>2, <2>3
<1>10. TextsFit(h, FALSE, <<>>, d, <<>>, ms, sp, e)
  <2>1. \A t \in Tabs : Fits(dr[t], t, <<>>, ms, sp, e)
    BY <1>8 DEF TextsFit
  <2>2. DOMAIN dr = Tabs /\ h \in Tabs \cup {NoThread}
    BY <1>8 DEF TextsFit
  <2>3. DOMAIN d = Tabs /\ \A t \in Tabs : Fits(d[t], t, <<>>, ms, sp, e)
    <3>1. CASE o = NoThread
      BY <1>5, <2>1, <2>2, <3>1 DEF C!Write
    <3>2. CASE o # NoThread
      <4>1. d = [dr EXCEPT ![o] = s] /\ o \in Tabs
        BY <1>5, <3>2 DEF C!Write
      <4>2. DOMAIN d = Tabs /\ d[o] = s /\ \A t \in Tabs : t # o => d[t] = dr[t]
        BY <2>2, <4>1
      <4> QED
        BY <1>9, <2>1, <4>2
    <3> QED
      BY <3>1, <3>2
  <2> QED
    BY <2>2, <2>3, NothingFits DEF TextsFit
<1>11. FilesFit(<<>>, owner', <<>>, ms, e)
  <2>1. owner'.thread = NoThread /\ owner'.gen = 0 /\ owner' = [thread |-> owner'.thread, gen |-> owner'.gen]
    BY <1>1
  <2> QED
    BY <1>6, <2>1 DEF FilesFit, Upto, Apart
<1>12. MessagesFit(<<>>, ms, sp, e)
  BY <1>4, <1>5, <1>7, MessagesMove
<1>13. Together(<<>>, <<>>, ms)
  <2>1. \A x : ~ ((\E k \in DOMAIN <<>> : <<>>[k] = x) \/ In(<<>>, x))
    BY <1>6
  <2> QED
    BY <1>4, <2>1, TogetherMove
<1>14. BatchesFit(<<>>, e)
  BY <1>6 DEF BatchesFit
<1>15. Composed(h, FALSE, <<>>, owner', d, <<>>, <<>>, ms, sp, e)
  BY <1>4, <1>10, <1>11, <1>12, <1>13, <1>14 DEF Composed
<1> QED
  BY <1>1, <1>2, <1>3, <1>15 DEF ComposeInv

LEMMA ComposeNextKeeps == ASSUME ComposeInv, C!Next PROVE ComposeInv'
<1>1. CASE C!Switch \/ C!Unmount \/ C!Mount
  BY <1>1, SwitchKeeps, UnmountKeeps, MountKeeps
<1>2. CASE C!Type \/ C!Erase \/ C!AddFiles \/ C!ReadBatch \/ C!CommitBatch \/ C!RemoveFile
  BY <1>2, TypeKeeps, EraseKeeps, AddFilesKeeps, ReadBatchKeeps, CommitBatchKeeps, RemoveFileKeeps
<1>3. CASE C!Request \/ C!TakeRequest \/ C!Drained
  BY <1>3, RequestKeeps, TakeRequestKeeps, DrainedKeeps
<1>4. CASE C!Submit \/ C!ResumeSend \/ C!OwnerGone \/ C!ModelReady \/ C!ModelMissing \/ C!ModelUnknown
           \/ C!NothingToSend
  <2>1. /\ owner' = owner \/ C!Looked
        /\ UNCHANGED <<here, mounted, text, drafts, attached, batches, sent, strays, entered>>
    BY <1>4 DEF C!Submit, C!ResumeSend, C!OwnerGone, C!ModelReady, C!ModelMissing, C!ModelUnknown,
                C!NothingToSend
  <2> QED
    BY <2>1, LooksKeeps
<1>5. CASE C!Enqueue \/ C!Send \/ C!Interrupt \/ C!EditQueued
  BY <1>5, EnqueueKeeps, SendKeeps, InterruptKeeps, EditQueuedKeeps
<1> QED
  BY <1>1, <1>2, <1>3, <1>4, <1>5 DEF C!Next

LEMMA ComposeStepKeeps ==
  ASSUME ComposeInv, [MCNext]_mcVars
  PROVE  ComposeInv'
<1>1. CASE C!Next
  BY <1>1, ComposeNextKeeps
<1>2. CASE UNCHANGED textVars
  BY <1>2 DEF textVars, ComposeInv
<1>3. C!Next \/ UNCHANGED textVars
  BY DEF MCNext, Text, History, Waiting, mcVars
<1> QED
  BY <1>1, <1>2, <1>3

\* What leaves the input for a thread was entered there, nothing leaves twice, and the files chosen
\* before a submitted word in the same visit leave with it (Composer.tsx: owners, generations,
\* takeAttachments, the queue of file reads), for any number of words, files, switches and messages.
THEOREM MessagesAreComposed == MCSpec => []ComposedMessages
<1>1. MCInit => ComposeInv
  BY ComposeInitKeeps DEF MCInit
<1>2. ComposeInv /\ [MCNext]_mcVars => ComposeInv'
  BY ComposeStepKeeps
<1>3. ComposeInv => ComposedMessages
  BY ComposedIs
<1> QED
  BY <1>1, <1>2, <1>3, PTL DEF MCSpec

==============================================================================
