---------------------------- MODULE SlotStreamProofs ----------------------------
(***************************************************************************)
(* SlotStream proved for every set of calls, every sequence of events the   *)
(* server may send, every lag of the link and any number of moves of the    *)
(* page: TicksKept, the bubble of a daemon tick survives whatever is        *)
(* dispatched, snapshotted, flushed, replayed or merged.                    *)
(*                                                                          *)
(* The invariant SlotInv types the log, the frames, the loads and the page, *)
(* and says of each tick that a row which is a message has its id.  It is   *)
(* kept because every handler of the page leads to a page with at least the *)
(* rows it had (After), and every load to one with at least the rows of     *)
(* ticks (TicksStay).  None of the recursive functions of the model is      *)
(* computed: what Among, ByTime, Replayed and Released make of a sequence   *)
(* follows from their equations by the least index at which it would fail.  *)
(***************************************************************************)
EXTENDS SlotStream, SequenceTheorems, WellFoundedInduction, TLAPS

IsSeq(s) == s \in Seq({s[i] : i \in DOMAIN s})

IsMessage(m) ==
  m \in [role : {m.role}, id : {m.id}, key : {m.key}, status : {m.status}, ts : {m.ts},
         text : {m.text}, calls : {m.calls}]

\* A row with this id is there.
Has(s, id) == \E i \in DOMAIN s : s[i].id = id /\ IsMessage(s[i])
Keeps(s, t) == \A id : Has(s, id) => Has(t, id)

IsPage(p) ==
  /\ p \in [slot : {p.slot}, streaming : {p.streaming}, buf : {p.buf}, deltas : {p.deltas},
            seals : {p.seals}, fresh : {p.fresh}, ticks : {p.ticks}]
  /\ IsSeq(p.slot)

\* The page q has the rows of p.
After(p, q) == IsPage(q) /\ q.ticks = p.ticks /\ Keeps(p.slot, q.slot)

Types == {"own", "user", "mail", "start", "chunk", "delta", "call", "result", "step", "end"}

-------------------------------------------------------------------------------
\* Sequences.

LEMMA SeqIs ==
  ASSUME NEW s
  PROVE  IsSeq(s) <=> Len(s) \in Nat /\ DOMAIN s = 1..Len(s) /\ s = [i \in 1..Len(s) |-> s[i]]
<1>1. ASSUME IsSeq(s) PROVE Len(s) \in Nat /\ DOMAIN s = 1..Len(s) /\ s = [i \in 1..Len(s) |-> s[i]]
  BY <1>1 DEF IsSeq
<1>2. ASSUME Len(s) \in Nat, DOMAIN s = 1..Len(s), s = [i \in 1..Len(s) |-> s[i]] PROVE IsSeq(s)
  BY <1>2 DEF IsSeq
<1> QED
  BY <1>1, <1>2

LEMMA OwnElements ==
  ASSUME NEW T, NEW s \in Seq(T) PROVE s \in Seq({s[i] : i \in DOMAIN s})
<1>1. Len(s) \in Nat /\ DOMAIN s = 1..Len(s) /\ s = [i \in 1..Len(s) |-> s[i]]
  OBVIOUS
<1> QED
  BY <1>1

LEMMA AnySeq == ASSUME NEW T, NEW s \in Seq(T) PROVE IsSeq(s)
BY OwnElements DEF IsSeq

LEMMA LikeSeq ==
  ASSUME NEW s, IsSeq(s), NEW t, DOMAIN t = DOMAIN s, t = [i \in DOMAIN t |-> t[i]]
  PROVE  IsSeq(t) /\ Len(t) = Len(s)
<1>1. Len(s) \in Nat /\ DOMAIN t = 1..Len(s)
  BY DEF IsSeq
<1>2. t \in Seq({t[i] : i \in DOMAIN t}) /\ Len(t) = Len(s)
  <2>1. t \in [1..Len(s) -> {t[i] : i \in DOMAIN t}]
    BY <1>1
  <2> QED
    BY <1>1, <2>1
<1> QED
  BY <1>2 DEF IsSeq

IsGrown(t, s, e) == t = Append(s, e)

LEMMA Grown ==
  ASSUME NEW s, IsSeq(s), NEW e, NEW t, IsGrown(t, s, e)
  PROVE  /\ IsSeq(t)
         /\ \A k \in DOMAIN t : k \in DOMAIN s \/ t[k] = e
         /\ Len(s) + 1 \in DOMAIN t /\ t[Len(s) + 1] = e
         /\ \A i \in DOMAIN s : i \in DOMAIN t /\ t[i] = s[i]
<1> DEFINE T == {s[i] : i \in DOMAIN s} \cup {e}
<1>0. t = Append(s, e)
  BY DEF IsGrown
<1>1. s \in Seq(T) /\ e \in T
  BY DEF IsSeq
<1> HIDE DEF T
<1>2. t \in Seq(T) /\ Len(t) = Len(s) + 1 /\ Len(s) \in Nat
  BY <1>0, <1>1
<1>3. t[Len(s) + 1] = e /\ \A i \in 1..Len(s) : t[i] = s[i]
  BY <1>0, <1>1
<1>4. DOMAIN s = 1..Len(s) /\ DOMAIN t = 1..Len(s) + 1
  BY <1>1, <1>2
<1>5. IsSeq(t)
  <2>1. t \in Seq({t[i] : i \in DOMAIN t})
    BY <1>2, OwnElements
  <2> QED
    BY <2>1 DEF IsSeq
<1> QED
  BY <1>2, <1>3, <1>4, <1>5

LEMMA GrownHas ==
  ASSUME NEW s, IsSeq(s), NEW e, NEW t, IsGrown(t, s, e)
  PROVE  /\ IsSeq(t)
         /\ \A k \in DOMAIN s : \E j \in DOMAIN t : t[j] = s[k]
         /\ \E j \in DOMAIN t : t[j] = e
<1>1. IsSeq(t)
  BY Grown
<1>2. Len(s) + 1 \in DOMAIN t /\ t[Len(s) + 1] = e
  BY Grown
<1>3. ASSUME NEW k \in DOMAIN s PROVE k \in DOMAIN t /\ t[k] = s[k]
  BY Grown
<1> QED
  BY <1>1, <1>2, <1>3

IsLink(t, s, u) == t = s \o u

LEMMA Linked ==
  ASSUME NEW s, IsSeq(s), NEW u, IsSeq(u), NEW t, IsLink(t, s, u)
  PROVE  /\ IsSeq(t) /\ Len(t) = Len(s) + Len(u)
         /\ \A i \in DOMAIN s : i \in DOMAIN t /\ t[i] = s[i]
         /\ \A i \in DOMAIN u : Len(s) + i \in DOMAIN t /\ t[Len(s) + i] = u[i]
<1> DEFINE T == {s[i] : i \in DOMAIN s} \cup {u[i] : i \in DOMAIN u}
<1>0. t = s \o u
  BY DEF IsLink
<1>1. s \in Seq(T) /\ u \in Seq(T)
  BY DEF IsSeq
<1> HIDE DEF T
<1>2. t \in Seq(T) /\ Len(t) = Len(s) + Len(u) /\ Len(s) \in Nat /\ Len(u) \in Nat
  BY <1>0, <1>1
<1>3. DOMAIN t = 1..Len(s) + Len(u) /\ DOMAIN s = 1..Len(s) /\ DOMAIN u = 1..Len(u)
  BY <1>1, <1>2
<1>4. IsSeq(t)
  <2>1. t \in Seq(T)
    BY <1>2
  <2>2. t \in Seq({t[i] : i \in DOMAIN t})
    BY <2>1, OwnElements
  <2> QED
    BY <2>2 DEF IsSeq
<1>5. ASSUME NEW k \in DOMAIN s PROVE k \in DOMAIN t /\ t[k] = s[k]
  BY <1>0, <1>1, <1>2, <1>3, <1>5
<1>6. ASSUME NEW k \in DOMAIN u PROVE Len(s) + k \in DOMAIN t /\ t[Len(s) + k] = u[k]
  <2>1. PICK j : j = Len(s) + k
    OBVIOUS
  <2>2. j \in 1..Len(s) + Len(u) /\ j > Len(s) /\ k = j - Len(s)
    BY <1>2, <1>3, <1>6, <2>1
  <2> QED
    BY <1>0, <1>1, <1>2, <1>3, <2>1, <2>2
<1> QED
  BY <1>2, <1>4, <1>5, <1>6

LEMMA LeastElement ==
  ASSUME NEW I, I \subseteq Nat, I # {}
  PROVE  \E x \in I : \A y \in I : x <= y
<1> DEFINE R == OpToRel(<, Nat)
<1>1. \A x, y \in Nat : x < y => <<x, y>> \in R
  BY DEF OpToRel
<1> HIDE DEF R
<1>2. IsWellFoundedOn(R, Nat)
  BY NatLessThanWellFounded DEF R
<1>3. PICK x \in I : \A y \in I : ~ (<<y, x>> \in R)
  BY <1>2, WFMin
<1>4. x \in Nat
  BY <1>3
<1>5. ASSUME NEW y \in I PROVE x <= y
  <2>1. y \in Nat /\ ~ (<<y, x>> \in R)
    BY <1>3
  <2>2. ~ (y < x)
    BY <1>1, <1>4, <2>1
  <2> QED
    BY <1>4, <2>1, <2>2
<1> QED
  BY <1>5

LEMMA MinIs ==
  ASSUME NEW I, I \subseteq Nat, I # {}
  PROVE  Min(I) \in I
<1>1. \E x \in I : \A y \in I : x <= y
  BY LeastElement
<1> QED
  BY <1>1 DEF Min

\* An element put before the i-th.
LEMMA PutIn ==
  ASSUME NEW s, IsSeq(s), NEW i \in DOMAIN s, NEW e, NEW t, t = InsertAt(s, i, e)
  PROVE  /\ IsSeq(t)
         /\ \A k \in DOMAIN s : \E j \in DOMAIN t : t[j] = s[k]
         /\ \E j \in DOMAIN t : t[j] = e
<1>0. Len(s) \in Nat /\ DOMAIN s = 1..Len(s) /\ i \in 1..Len(s)
  BY DEF IsSeq
<1>1. PICK a : a = SubSeq(s, 1, i - 1)
  OBVIOUS
<1>2. PICK b : b = SubSeq(s, i, Len(s))
  OBVIOUS
<1>3. IsSeq(a) /\ Len(a) = i - 1 /\ \A k \in 1..i - 1 : k \in DOMAIN a /\ a[k] = s[k]
  <2>1. a = [k \in 1..i - 1 |-> s[k]]
    BY <1>0, <1>1 DEF IsSeq
  <2>2. DOMAIN a = 1..i - 1 /\ a \in Seq({a[k] : k \in DOMAIN a}) /\ Len(a) = i - 1
    BY <1>0, <2>1
  <2> QED
    BY <2>1, <2>2 DEF IsSeq
<1>4. IsSeq(b) /\ \A k \in i..Len(s) : k - i + 1 \in DOMAIN b /\ b[k - i + 1] = s[k]
  <2> PICK S : S = {s[k] : k \in DOMAIN s}
    OBVIOUS
  <2>1. /\ b \in Seq(S) /\ Len(b) = Len(s) - i + 1
        /\ \A k \in 1..Len(s) - i + 1 : b[k] = s[i + k - 1]
    <3>1. \A k \in i..Len(s) : s[k] \in S
      BY <1>0
    <3>2. i \in Int /\ Len(s) \in Int /\ i <= Len(s)
      BY <1>0
    <3> QED
      BY <1>2, <3>1, <3>2, SubSeqProperties
  <2>2. DOMAIN b = 1..Len(s) - i + 1 /\ IsSeq(b)
    <3>1. b \in Seq(S)
      BY <2>1
    <3>2. IsSeq(b)
      BY <3>1, AnySeq
    <3>3. DOMAIN b = 1..Len(b)
      BY <3>1
    <3> QED
      BY <2>1, <3>2, <3>3
  <2>3. ASSUME NEW k \in i..Len(s) PROVE k - i + 1 \in DOMAIN b /\ b[k - i + 1] = s[k]
    <3>1. PICK j : j = k - i + 1
      OBVIOUS
    <3>2. j \in 1..Len(s) - i + 1 /\ i + j - 1 = k
      BY <1>0, <3>1
    <3> QED
      BY <2>1, <2>2, <3>1, <3>2
  <2> QED
    BY <2>2, <2>3
<1>5. PICK c : c = <<e>>
  OBVIOUS
<1>6. IsSeq(c) /\ Len(c) = 1 /\ 1 \in DOMAIN c /\ c[1] = e
  BY <1>5 DEF IsSeq
<1>7. PICK d : IsLink(d, a, c)
  BY DEF IsLink
<1>8. IsSeq(d) /\ (\A k \in DOMAIN a : k \in DOMAIN d /\ d[k] = a[k]) /\ Len(a) + 1 \in DOMAIN d /\ d[Len(a) + 1] = e
  BY <1>3, <1>6, <1>7, Linked
<1>9. IsLink(t, d, b)
  BY <1>1, <1>2, <1>5, <1>7 DEF InsertAt, IsLink
<1>10. /\ IsSeq(t)
       /\ \A k \in DOMAIN d : k \in DOMAIN t /\ t[k] = d[k]
       /\ \A k \in DOMAIN b : Len(d) + k \in DOMAIN t /\ t[Len(d) + k] = b[k]
  BY <1>4, <1>8, <1>9, Linked
<1>11. ASSUME NEW k \in DOMAIN s PROVE \E j \in DOMAIN t : t[j] = s[k]
  <2>1. CASE k \in 1..i - 1
    BY <1>3, <1>8, <1>10, <2>1
  <2>2. CASE k \in i..Len(s)
    BY <1>4, <1>10, <2>2
  <2> QED
    BY <1>0, <2>1, <2>2
<1>12. \E j \in DOMAIN t : t[j] = e
  BY <1>8, <1>10
<1> QED
  BY <1>10, <1>11, <1>12

\* What Among makes of the first elements.
Taken(s, items, n, g) == g[n] = IF n = 0 THEN <<>> ELSE IF s[n] \in items THEN Append(g[n - 1], s[n]) ELSE g[n - 1]

LEMMA AmongUnfold ==
  ASSUME NEW s, NEW items, Len(s) \in Nat
  PROVE  \E g : Among(s, items) = g[Len(s)] /\ \A n \in 0..Len(s) : Taken(s, items, n, g)
<1> DEFINE body(g) == [n \in 0..Len(s) |-> IF n = 0 THEN <<>>
                                             ELSE IF s[n] \in items THEN Append(g[n - 1], s[n]) ELSE g[n - 1]]
<1> DEFINE kept == CHOOSE g : g = body(g)
<1>1. Among(s, items) = kept[Len(s)]
  BY DEF Among
<1>2. kept = body(kept)
  <2> DEFINE bad == {m \in 0..Len(s) : ~\E g : \A n \in 0..m : Taken(s, items, n, g)}
  <2>1. bad = {}
    <3> SUFFICES ASSUME bad # {} PROVE FALSE
      OBVIOUS
    <3>0. bad \subseteq Nat
      OBVIOUS
    <3> HIDE DEF bad
    <3>1. PICK x \in bad : \A y \in bad : x <= y
      BY <3>0, LeastElement
    <3> USE DEF bad
    <3>2. CASE x = 0
      <4>1. \A n \in 0..0 : Taken(s, items, n, [k \in {0} |-> <<>>])
        BY DEF Taken
      <4> QED
        BY <3>1, <3>2, <4>1
    <3>3. CASE x # 0
      <4>0. x \in Nat /\ x \in 0..Len(s)
        OBVIOUS
      <4>1. x \in Nat /\ x - 1 \in 0..Len(s) /\ x - 1 \notin bad
        <5> HIDE DEF bad
        <5>1. x - 1 \notin bad
          BY <3>1, <4>0
        <5> QED
          BY <3>3, <4>0, <5>1
      <4>2. PICK g : \A n \in 0..x - 1 : Taken(s, items, n, g)
        BY <4>1
      <4>3. PICK newest : newest = IF s[x] \in items THEN Append(g[x - 1], s[x]) ELSE g[x - 1]
        OBVIOUS
      <4> DEFINE h == [n \in 0..x |-> IF n = x THEN newest ELSE g[n]]
      <4>4. ASSUME NEW n \in 0..x PROVE Taken(s, items, n, h)
        <5>1. CASE n = x
          BY <3>3, <4>1, <4>3, <5>1 DEF Taken
        <5>2. CASE n # x
          <6>1. n \in 0..x - 1 /\ n - 1 # x /\ (n # 0 => n - 1 \in 0..x)
            BY <4>1, <5>2
          <6>2. h[n] = g[n] /\ (n # 0 => h[n - 1] = g[n - 1])
            BY <5>2, <6>1
          <6> QED
            BY <4>2, <6>1, <6>2 DEF Taken
        <5> QED
          BY <5>1, <5>2
      <4> QED
        BY <3>1, <4>4
    <3> QED
      BY <3>2, <3>3
  <2>2. PICK g : \A n \in 0..Len(s) : Taken(s, items, n, g)
    <3>1. Len(s) \in 0..Len(s) /\ Len(s) \notin bad
      BY <2>1
    <3> QED
      BY <3>1
  <2> DEFINE f == [n \in 0..Len(s) |-> g[n]]
  <2>3. ASSUME NEW n \in 0..Len(s)
        PROVE  f[n] = IF n = 0 THEN <<>> ELSE IF s[n] \in items THEN Append(f[n - 1], s[n]) ELSE f[n - 1]
    <3>1. n # 0 => n - 1 \in 0..Len(s)
      OBVIOUS
    <3> QED
      BY <2>2, <3>1 DEF Taken
  <2>4. f = body(f)
    <3> HIDE DEF f, kept
    <3>1. PICK e : e = body(f)
      OBVIOUS
    <3>2. f = [n \in 0..Len(s) |-> f[n]]
      BY DEF f
    <3>3. \A n \in 0..Len(s) : f[n] = e[n]
      BY <2>3, <3>1
    <3>4. DOMAIN e = 0..Len(s) /\ e = [n \in 0..Len(s) |-> e[n]]
      BY <3>1
    <3> QED
      BY <3>1, <3>2, <3>3, <3>4
  <2> QED
    BY <2>4, Zenon
<1>3. \A n \in 0..Len(s) : Taken(s, items, n, kept)
  BY <1>2 DEF Taken
<1> QED
  BY <1>1, <1>3

\* Among keeps what is among the items.
LEMMA AmongThem ==
  ASSUME NEW s, IsSeq(s), NEW items, NEW w, w = Among(s, items)
  PROVE  /\ IsSeq(w)
         /\ \A k \in DOMAIN w : \E i \in DOMAIN s : w[k] = s[i] /\ s[i] \in items
         /\ \A i \in DOMAIN s : s[i] \in items => \E k \in DOMAIN w : w[k] = s[i]
<1>2. Len(s) \in Nat /\ DOMAIN s = 1..Len(s)
  BY DEF IsSeq
<1>1. PICK kept : /\ Among(s, items) = kept[Len(s)]
                  /\ \A n \in 0..Len(s) : Taken(s, items, n, kept)
  BY <1>2, AmongUnfold
<1>4. \A n \in 0..Len(s) : kept[n] = IF n = 0 THEN <<>> ELSE IF s[n] \in items THEN Append(kept[n - 1], s[n])
                                     ELSE kept[n - 1]
  BY <1>1 DEF Taken
<1> DEFINE right(n) ==
      /\ IsSeq(kept[n])
      /\ \A k \in DOMAIN kept[n] : \E i \in 1..n : kept[n][k] = s[i] /\ s[i] \in items
      /\ \A i \in 1..n : s[i] \in items => \E k \in DOMAIN kept[n] : kept[n][k] = s[i]
<1> DEFINE bad == {n \in 0..Len(s) : ~right(n)}
<1>5. right(0)
  <2>1. kept[0] = <<>>
    BY <1>2, <1>4
  <2> QED
    BY <2>1 DEF IsSeq
<1>6. ASSUME NEW n \in 1..Len(s), right(n - 1) PROVE right(n)
  <2>1. n \in 0..Len(s) /\ n # 0 /\ n \in Nat /\ 1..n = (1..n - 1) \cup {n} /\ n \in DOMAIN s /\ n \notin 1..n - 1
        /\ 1..n - 1 \subseteq DOMAIN s
    BY <1>2
  <2>2. CASE s[n] \notin items
    <3>1. kept[n] = kept[n - 1]
      BY <1>4, <2>1, <2>2
    <3> QED
      BY <1>6, <2>1, <2>2, <3>1
  <2>3. CASE s[n] \in items
    <3>1. PICK v : v = kept[n - 1]
      OBVIOUS
    <3>2. PICK x : x = Append(v, s[n])
      OBVIOUS
    <3>3. kept[n] = x
      BY <1>4, <2>1, <2>3, <3>1, <3>2
    <3>4. /\ IsSeq(v)
          /\ \A k \in DOMAIN v : \E i \in 1..n - 1 : v[k] = s[i] /\ s[i] \in items
          /\ \A i \in 1..n - 1 : s[i] \in items => \E k \in DOMAIN v : v[k] = s[i]
      BY <1>6, <3>1
    <3>5. /\ IsSeq(x)
          /\ \A k \in DOMAIN x : k \in DOMAIN v \/ x[k] = s[n]
          /\ Len(v) + 1 \in DOMAIN x /\ x[Len(v) + 1] = s[n]
          /\ \A k \in DOMAIN v : k \in DOMAIN x /\ x[k] = v[k]
      <4>1. IsGrown(x, v, s[n])
        BY <3>2 DEF IsGrown
      <4> QED
        BY <3>4, <4>1, Grown
    <3>6. \A k \in DOMAIN x : \E i \in 1..n : x[k] = s[i] /\ s[i] \in items
      BY <2>1, <2>3, <3>4, <3>5
    <3>7. \A i \in 1..n : s[i] \in items => \E k \in DOMAIN x : x[k] = s[i]
      BY <2>1, <3>4, <3>5
    <3> QED
      BY <3>3, <3>5, <3>6, <3>7
  <2> QED
    BY <2>2, <2>3
<1>7. bad = {}
  <2> SUFFICES ASSUME bad # {} PROVE FALSE
    OBVIOUS
  <2>0. bad \subseteq Nat
    OBVIOUS
  <2> HIDE DEF bad
  <2>1. PICK x \in bad : \A y \in bad : x <= y
    BY <2>0, LeastElement
  <2>2. x \in 0..Len(s) /\ ~right(x)
    BY DEF bad
  <2> HIDE DEF right
  <2>3. x # 0
    BY <1>5, <2>2
  <2>4. x \in 1..Len(s) /\ x - 1 \in 0..Len(s) /\ x - 1 < x
    BY <1>2, <2>2, <2>3
  <2>5. right(x - 1)
    BY <2>0, <2>1, <2>4 DEF bad
  <2> QED
    BY <1>6, <2>2, <2>4, <2>5
<1>8. right(Len(s))
  <2> HIDE DEF right
  <2> QED
    BY <1>2, <1>7
<1> QED
  BY <1>1, <1>2, <1>8

\* What ByTime makes of the first rows.
Sorted(msgs, n, g) == g[n] = IF n = 0 THEN <<>> ELSE Inserted(g[n - 1], msgs[n])

LEMMA ByTimeUnfold ==
  ASSUME NEW msgs, Len(msgs) \in Nat
  PROVE  \E g : ByTime(msgs) = g[Len(msgs)] /\ \A n \in 0..Len(msgs) : Sorted(msgs, n, g)
<1> DEFINE body(g) == [n \in 0..Len(msgs) |-> IF n = 0 THEN <<>> ELSE Inserted(g[n - 1], msgs[n])]
<1> DEFINE sorted == CHOOSE g : g = body(g)
<1>1. ByTime(msgs) = sorted[Len(msgs)]
  BY DEF ByTime
<1>2. sorted = body(sorted)
  <2> DEFINE bad == {m \in 0..Len(msgs) : ~\E g : \A n \in 0..m : Sorted(msgs, n, g)}
  <2>1. bad = {}
    <3> SUFFICES ASSUME bad # {} PROVE FALSE
      OBVIOUS
    <3>0. bad \subseteq Nat
      OBVIOUS
    <3> HIDE DEF bad
    <3>1. PICK x \in bad : \A y \in bad : x <= y
      BY <3>0, LeastElement
    <3> USE DEF bad
    <3>2. CASE x = 0
      <4>1. \A n \in 0..0 : Sorted(msgs, n, [k \in {0} |-> <<>>])
        BY DEF Sorted
      <4> QED
        BY <3>1, <3>2, <4>1
    <3>3. CASE x # 0
      <4>0. x \in Nat /\ x \in 0..Len(msgs)
        OBVIOUS
      <4>1. x \in Nat /\ x - 1 \in 0..Len(msgs) /\ x - 1 \notin bad
        <5> HIDE DEF bad
        <5>1. x - 1 \notin bad
          BY <3>1, <4>0
        <5> QED
          BY <3>3, <4>0, <5>1
      <4>2. PICK g : \A n \in 0..x - 1 : Sorted(msgs, n, g)
        BY <4>1
      <4>3. PICK newest : newest = Inserted(g[x - 1], msgs[x])
        OBVIOUS
      <4> DEFINE h == [n \in 0..x |-> IF n = x THEN newest ELSE g[n]]
      <4>4. ASSUME NEW n \in 0..x PROVE Sorted(msgs, n, h)
        <5>1. CASE n = x
          BY <3>3, <4>1, <4>3, <5>1 DEF Sorted
        <5>2. CASE n # x
          <6>1. n \in 0..x - 1 /\ n - 1 # x /\ (n # 0 => n - 1 \in 0..x)
            BY <4>1, <5>2
          <6>2. h[n] = g[n] /\ (n # 0 => h[n - 1] = g[n - 1])
            BY <5>2, <6>1
          <6> QED
            BY <4>2, <6>1, <6>2 DEF Sorted
        <5> QED
          BY <5>1, <5>2
      <4> QED
        BY <3>1, <4>4
    <3> QED
      BY <3>2, <3>3
  <2>2. PICK g : \A n \in 0..Len(msgs) : Sorted(msgs, n, g)
    <3>1. Len(msgs) \in 0..Len(msgs) /\ Len(msgs) \notin bad
      BY <2>1
    <3> QED
      BY <3>1
  <2> DEFINE f == [n \in 0..Len(msgs) |-> g[n]]
  <2>3. ASSUME NEW n \in 0..Len(msgs)
        PROVE  f[n] = IF n = 0 THEN <<>> ELSE Inserted(f[n - 1], msgs[n])
    <3>1. n # 0 => n - 1 \in 0..Len(msgs)
      OBVIOUS
    <3> QED
      BY <2>2, <3>1 DEF Sorted
  <2>4. f = body(f)
    <3> HIDE DEF f, sorted
    <3>1. PICK e : e = body(f)
      OBVIOUS
    <3>2. f = [n \in 0..Len(msgs) |-> f[n]]
      BY DEF f
    <3>3. \A n \in 0..Len(msgs) : f[n] = e[n]
      BY <2>3, <3>1
    <3>4. DOMAIN e = 0..Len(msgs) /\ e = [n \in 0..Len(msgs) |-> e[n]]
      BY <3>1
    <3> QED
      BY <3>1, <3>2, <3>3, <3>4
  <2> QED
    BY <2>4, Zenon
<1>3. \A n \in 0..Len(msgs) : Sorted(msgs, n, sorted)
  BY <1>2 DEF Sorted
<1> QED
  BY <1>1, <1>3

LEMMA InsertedIs ==
  ASSUME NEW s, IsSeq(s), NEW m, NEW t, t = Inserted(s, m)
  PROVE  /\ IsSeq(t)
         /\ \A k \in DOMAIN s : \E j \in DOMAIN t : t[j] = s[k]
         /\ \E j \in DOMAIN t : t[j] = m
<1>0. DOMAIN s \subseteq Nat
  BY DEF IsSeq
<1>1. PICK after : after = {i \in DOMAIN s : s[i].ts > m.ts}
  OBVIOUS
<1>2. t = IF after = {} THEN Append(s, m) ELSE InsertAt(s, Min(after), m)
  BY <1>1 DEF Inserted
<1>3. CASE after = {}
  <2>1. IsGrown(t, s, m)
    BY <1>2, <1>3 DEF IsGrown
  <2> QED
    BY <2>1, GrownHas
<1>4. CASE after # {}
  <2>1. Min(after) \in after
    BY <1>0, <1>1, <1>4, MinIs
  <2>2. PICK i : i = Min(after)
    OBVIOUS
  <2>3. i \in DOMAIN s /\ t = InsertAt(s, i, m)
    BY <1>1, <1>2, <1>4, <2>1, <2>2
  <2> QED
    BY <2>3, PutIn
<1> QED
  BY <1>3, <1>4

\* ByTime loses no row.
LEMMA ByTimeAll ==
  ASSUME NEW s, IsSeq(s), NEW w, w = ByTime(s)
  PROVE  IsSeq(w) /\ \A i \in DOMAIN s : \E k \in DOMAIN w : w[k] = s[i]
<1>2. Len(s) \in Nat /\ DOMAIN s = 1..Len(s)
  BY DEF IsSeq
<1>1. PICK sorted : ByTime(s) = sorted[Len(s)] /\ \A n \in 0..Len(s) : Sorted(s, n, sorted)
  BY <1>2, ByTimeUnfold
<1>4. \A n \in 0..Len(s) : sorted[n] = IF n = 0 THEN <<>> ELSE Inserted(sorted[n - 1], s[n])
  BY <1>1 DEF Sorted
<1> DEFINE right(n) == IsSeq(sorted[n]) /\ \A i \in 1..n : \E k \in DOMAIN sorted[n] : sorted[n][k] = s[i]
<1> DEFINE bad == {n \in 0..Len(s) : ~right(n)}
<1>5. right(0)
  <2>1. sorted[0] = <<>>
    BY <1>2, <1>4
  <2> QED
    BY <2>1 DEF IsSeq
<1>6. ASSUME NEW n \in 1..Len(s), right(n - 1) PROVE right(n)
  <2>1. n \in 0..Len(s) /\ n # 0 /\ n \in Nat /\ 1..n = (1..n - 1) \cup {n}
    BY <1>2
  <2>2. PICK v : v = sorted[n - 1]
    OBVIOUS
  <2>3. PICK x : x = Inserted(v, s[n])
    OBVIOUS
  <2>4. sorted[n] = x
    BY <1>4, <2>1, <2>2, <2>3
  <2>5. IsSeq(v) /\ \A i \in 1..n - 1 : \E k \in DOMAIN v : v[k] = s[i]
    BY <1>6, <2>2
  <2>6. /\ IsSeq(x)
        /\ \A k \in DOMAIN v : \E j \in DOMAIN x : x[j] = v[k]
        /\ \E j \in DOMAIN x : x[j] = s[n]
    BY <2>3, <2>5, InsertedIs
  <2>7. ASSUME NEW i \in 1..n PROVE \E k \in DOMAIN x : x[k] = s[i]
    <3>1. CASE i = n
      BY <2>6, <3>1
    <3>2. CASE i # n
      <4>1. PICK k \in DOMAIN v : v[k] = s[i]
        BY <2>1, <2>5, <3>2
      <4> QED
        BY <2>6, <4>1
    <3> QED
      BY <3>1, <3>2
  <2> QED
    BY <2>4, <2>6, <2>7
<1>7. bad = {}
  <2> SUFFICES ASSUME bad # {} PROVE FALSE
    OBVIOUS
  <2>0. bad \subseteq Nat
    OBVIOUS
  <2> HIDE DEF bad
  <2>1. PICK x \in bad : \A y \in bad : x <= y
    BY <2>0, LeastElement
  <2>2. x \in 0..Len(s) /\ ~right(x)
    BY DEF bad
  <2> HIDE DEF right
  <2>3. x # 0
    BY <1>5, <2>2
  <2>4. x \in 1..Len(s) /\ x - 1 \in 0..Len(s) /\ x - 1 < x
    BY <1>2, <2>2, <2>3
  <2>5. right(x - 1)
    BY <2>0, <2>1, <2>4 DEF bad
  <2> QED
    BY <1>6, <2>2, <2>4, <2>5
<1>8. right(Len(s))
  <2> HIDE DEF right
  <2> QED
    BY <1>2, <1>7
<1> QED
  BY <1>1, <1>2, <1>8

-------------------------------------------------------------------------------
\* The slot.

\* The row x is the row m, changed or not.
Same(m, x) == IsMessage(m) => IsMessage(x) /\ x.id = m.id

IsOver(t, s) == t = [i \in DOMAIN s |-> t[i]] /\ \A i \in DOMAIN s : Same(s[i], t[i])

LEMMA OverKeeps ==
  ASSUME NEW s, IsSeq(s), NEW t, IsOver(t, s)
  PROVE  IsSeq(t) /\ Keeps(s, t)
<1>1. DOMAIN t = DOMAIN s /\ t = [i \in DOMAIN t |-> t[i]]
  BY DEF IsOver
<1>2. IsSeq(t)
  BY <1>1, LikeSeq
<1>3. ASSUME NEW id, Has(s, id) PROVE Has(t, id)
  <2>1. PICK i \in DOMAIN s : s[i].id = id /\ IsMessage(s[i])
    BY <1>3 DEF Has
  <2>2. IsMessage(t[i]) /\ t[i].id = id /\ i \in DOMAIN t
    BY <1>1, <2>1 DEF IsOver, Same
  <2> QED
    BY <2>2 DEF Has
<1> QED
  BY <1>2, <1>3 DEF Keeps

LEMMA MoreKeeps ==
  ASSUME NEW s, IsSeq(s), NEW t, IsSeq(t), \A k \in DOMAIN s : \E j \in DOMAIN t : t[j] = s[k]
  PROVE  Keeps(s, t)
BY DEF Keeps, Has

LEMMA MessageIs ==
  ASSUME NEW role, NEW id, NEW key, NEW status, NEW ts, NEW m, m = Message(role, id, key, status, ts)
  PROVE  IsMessage(m) /\ m.id = id
BY DEF Message, IsMessage

LEMMA KeepsOn == ASSUME NEW r, NEW s, NEW t, Keeps(r, s), Keeps(s, t) PROVE Keeps(r, t)
BY DEF Keeps

LEMMA AfterOn == ASSUME NEW o, NEW p, NEW q, After(o, p), After(p, q) PROVE After(o, q)
BY KeepsOn DEF After

LEMMA AfterSelf == ASSUME NEW p, IsPage(p) PROVE After(p, p)
BY DEF After, Keeps

-------------------------------------------------------------------------------
\* What an event does to the page.

LEMMA FlushTextAfter ==
  ASSUME NEW p, IsPage(p), NEW q, q = FlushText(p)
  PROVE  After(p, q)
<1>1. PICK t : t = [i \in DOMAIN p.slot |->
                        IF p.slot[i].id \in DOMAIN p.buf
                        THEN [p.slot[i] EXCEPT !.text = @ \o p.buf[p.slot[i].id],
                                          !.status = "streaming"]
                        ELSE p.slot[i]]
  OBVIOUS
<1>2. q = [p EXCEPT !.slot = t, !.buf = NoEntries]
  BY <1>1 DEF FlushText
<1>3. IsOver(t, p.slot)
  <2>1. ASSUME NEW i \in DOMAIN p.slot PROVE Same(p.slot[i], t[i])
    BY <1>1 DEF Same, IsMessage
  <2> QED
    BY <1>1, <2>1 DEF IsOver
<1>4. IsSeq(t) /\ Keeps(p.slot, t)
  BY <1>3, OverKeeps DEF IsPage
<1>5. q.slot = t /\ q.ticks = p.ticks
  BY <1>2 DEF IsPage
<1>6. IsPage(q)
  BY <1>2, <1>4, <1>5 DEF IsPage
<1> QED
  BY <1>4, <1>5, <1>6 DEF After

LEMMA PutCallSame ==
  ASSUME NEW m, NEW c, NEW partial, NEW x, x = PutCall(m, c, partial)
  PROVE  Same(m, x)
BY DEF Same, IsMessage, PutCall

LEMMA SetCallSame ==
  ASSUME NEW m, NEW c, NEW status, NEW x, x = SetCall(m, c, status)
  PROVE  Same(m, x)
BY DEF Same, IsMessage, SetCall

LEMMA FlushDeltasAfter ==
  ASSUME NEW p, IsPage(p), NEW q, q = FlushDeltas(p)
  PROVE  After(p, q)
<1> DEFINE New(m) == {c \in DOMAIN p.deltas : p.deltas[c] = m.id /\ ~HasCall(m, c)}
           More(m) == {c \in DOMAIN p.deltas : /\ p.deltas[c] = m.id
                                               /\ \E i \in DOMAIN m.calls : /\ m.calls[i].id = c
                                                                            /\ m.calls[i].partial
                                                                            /\ m.calls[i].status = "running"}
           Flushed1(m) == IF New(m) \cup More(m) = {} THEN m
                         ELSE [m EXCEPT !.calls = @ \o Partial(SetToSeq(New(m))), !.status = "streaming"]
<1>1. PICK t : t = [i \in DOMAIN p.slot |-> Flushed1(p.slot[i])]
  OBVIOUS
<1>2. q = [p EXCEPT !.slot = t, !.deltas = NoEntries]
  BY <1>1 DEF FlushDeltas
<1>3. IsOver(t, p.slot)
  <2>1. ASSUME NEW m PROVE Same(m, Flushed1(m))
    BY DEF Same, IsMessage
  <2> HIDE DEF Flushed1
  <2> QED
    BY <1>1, <2>1 DEF IsOver
<1>4. IsSeq(t) /\ Keeps(p.slot, t)
  BY <1>3, OverKeeps DEF IsPage
<1>5. q.slot = t /\ q.ticks = p.ticks
  BY <1>2 DEF IsPage
<1>6. IsPage(q)
  BY <1>2, <1>4, <1>5 DEF IsPage
<1> QED
  BY <1>4, <1>5, <1>6 DEF After

LEMMA EnsuredAfter ==
  ASSUME NEW p, IsPage(p), NEW ts, NEW anchor, NEW q, q = Ensured(p, ts, anchor)
  PROVE  After(p, q)
<1>1. PICK id : id = Context(p, anchor)
  OBVIOUS
<1>2. CASE id = p.fresh
  <2>1. PICK t : t = Append(p.slot, Message("assistant", id, anchor, "streaming", ts))
    OBVIOUS
  <2>2. q = [p EXCEPT !.slot = t, !.fresh = @ + 1, !.streaming = TRUE]
    BY <1>1, <1>2, <2>1 DEF Ensured
  <2>3. IsSeq(t) /\ \A k \in DOMAIN p.slot : \E j \in DOMAIN t : t[j] = p.slot[k]
    <3>1. IsGrown(t, p.slot, Message("assistant", id, anchor, "streaming", ts)) /\ IsSeq(p.slot)
      BY <2>1 DEF IsGrown, IsPage
    <3> QED
      BY <3>1, GrownHas
  <2>4. Keeps(p.slot, t)
    BY <2>3, MoreKeeps DEF IsPage
  <2>5. q.slot = t /\ q.ticks = p.ticks
    BY <2>2 DEF IsPage
  <2>6. IsPage(q)
    BY <2>2, <2>3, <2>5 DEF IsPage
  <2> QED
    BY <2>4, <2>5, <2>6 DEF After
<1>3. CASE id # p.fresh
  <2>1. PICK t : t = [i \in DOMAIN p.slot |->
                        IF p.slot[i].id = id
                        THEN [p.slot[i] EXCEPT !.status = "streaming", !.key = IF anchor = None THEN @ ELSE anchor]
                        ELSE p.slot[i]]
    OBVIOUS
  <2>2. q = [p EXCEPT !.slot = t, !.streaming = TRUE]
    BY <1>1, <1>3, <2>1 DEF Ensured, Patch
  <2>3. IsOver(t, p.slot)
    <3>1. ASSUME NEW i \in DOMAIN p.slot PROVE Same(p.slot[i], t[i])
      BY <2>1 DEF Same, IsMessage
    <3> QED
      BY <2>1, <3>1 DEF IsOver
  <2>4. IsSeq(t) /\ Keeps(p.slot, t)
    BY <2>3, OverKeeps DEF IsPage
  <2>5. q.slot = t /\ q.ticks = p.ticks
    BY <2>2 DEF IsPage
  <2>6. IsPage(q)
    BY <2>2, <2>4, <2>5 DEF IsPage
  <2> QED
    BY <2>4, <2>5, <2>6 DEF After
<1> QED
  BY <1>2, <1>3

IsRecord(q) ==
  q \in [slot : {q.slot}, streaming : {q.streaming}, buf : {q.buf}, deltas : {q.deltas},
         seals : {q.seals}, fresh : {q.fresh}, ticks : {q.ticks}]

LEMMA OverAfter ==
  ASSUME NEW p, IsPage(p), NEW q, IsRecord(q), q.ticks = p.ticks, IsOver(q.slot, p.slot)
  PROVE  After(p, q)
<1>1. IsSeq(q.slot) /\ Keeps(p.slot, q.slot)
  BY OverKeeps DEF IsPage
<1> QED
  BY <1>1 DEF After, IsPage, IsRecord

LEMMA MoreAfter ==
  ASSUME NEW p, IsPage(p), NEW q, IsRecord(q), q.ticks = p.ticks, IsSeq(q.slot),
         \A k \in DOMAIN p.slot : \E j \in DOMAIN q.slot : q.slot[j] = p.slot[k]
  PROVE  After(p, q)
<1>1. Keeps(p.slot, q.slot)
  BY MoreKeeps DEF IsPage
<1> QED
  BY <1>1 DEF After, IsPage, IsRecord

\* The slot is as it was.
LEMMA BesideAfter ==
  ASSUME NEW p, IsPage(p), NEW q, IsRecord(q), q.ticks = p.ticks, q.slot = p.slot
  PROVE  After(p, q)
BY DEF After, IsPage, IsRecord, Keeps

LEMMA WithoutDeltaAfter == ASSUME NEW p, IsPage(p), NEW c, NEW q, q = WithoutDelta(p, c) PROVE After(p, q)
<1>1. PICK d : d = F!RestrictDomain(p.deltas, LAMBDA x : x # c)
  OBVIOUS
<1>2. q = [p EXCEPT !.deltas = d]
  BY <1>1 DEF WithoutDelta
<1>3. IsRecord(q) /\ q.slot = p.slot /\ q.ticks = p.ticks
  BY <1>2 DEF IsPage, IsRecord
<1> QED
  BY <1>3, BesideAfter

LEMMA OnCallAfter == ASSUME NEW p, IsPage(p), NEW e, NEW q, q = OnCall(p, e) PROVE After(p, q)
<1>1. PICK w : w = WithoutDelta(p, e.arg)
  OBVIOUS
<1>2. After(p, w) /\ IsPage(w)
  BY <1>1, WithoutDeltaAfter DEF After
<1>3. PICK r : r = Ensured(w, e.ts, None)
  OBVIOUS
<1>4. After(w, r) /\ IsPage(r)
  BY <1>2, <1>3, EnsuredAfter DEF After
<1>5. PICK id : id = Context(w, None)
  OBVIOUS
<1>6. PICK t : t = [i \in DOMAIN r.slot |-> IF r.slot[i].id = id THEN PutCall(r.slot[i], e.arg, FALSE) ELSE r.slot[i]]
  OBVIOUS
<1>7. q = [r EXCEPT !.slot = t]
  BY <1>1, <1>3, <1>5, <1>6 DEF OnCall, InBubble, Patch
<1>8. IsOver(t, r.slot)
  <2>1. ASSUME NEW m PROVE Same(m, PutCall(m, e.arg, FALSE)) /\ Same(m, m)
    <3>1. Same(m, PutCall(m, e.arg, FALSE))
      BY PutCallSame
    <3> QED
      BY <3>1 DEF Same
  <2>2. \A i \in DOMAIN r.slot : Same(r.slot[i], t[i])
    BY <1>6, <2>1
  <2> QED
    BY <1>6, <2>2 DEF IsOver
<1>9. q.slot = t /\ q.ticks = r.ticks /\ IsRecord(q)
  BY <1>4, <1>7 DEF IsPage, IsRecord
<1>10. After(r, q)
  BY <1>4, <1>8, <1>9, OverAfter
<1> QED
  BY <1>2, <1>4, <1>10, AfterOn

LEMMA OnResultAfter == ASSUME NEW p, IsPage(p), NEW e, NEW q, q = OnResult(p, e) PROVE After(p, q)
<1>3. PICK r : r = Ensured(p, e.ts, None)
  OBVIOUS
<1>4. After(p, r) /\ IsPage(r)
  BY <1>3, EnsuredAfter DEF After
<1>5. PICK id : id = Context(p, None)
  OBVIOUS
<1>6. PICK t : t = [i \in DOMAIN r.slot |-> IF r.slot[i].id = id THEN SetCall(r.slot[i], e.arg[1], e.arg[2])
                                            ELSE r.slot[i]]
  OBVIOUS
<1>7. q = [r EXCEPT !.slot = t]
  BY <1>3, <1>5, <1>6 DEF OnResult, InBubble, Patch
<1>8. IsOver(t, r.slot)
  <2>1. \A m : Same(m, SetCall(m, e.arg[1], e.arg[2])) /\ Same(m, m)
    BY SetCallSame DEF Same
  <2>2. \A i \in DOMAIN r.slot : Same(r.slot[i], t[i])
    BY <1>6, <2>1
  <2> QED
    BY <1>6, <2>2 DEF IsOver
<1>9. q.slot = t /\ q.ticks = r.ticks /\ IsRecord(q)
  BY <1>4, <1>7 DEF IsPage, IsRecord
<1>10. After(r, q)
  BY <1>4, <1>8, <1>9, OverAfter
<1> QED
  BY <1>4, <1>10, AfterOn

LEMMA ReconciledAfter == ASSUME NEW p, IsPage(p), NEW ts, NEW step, NEW q, q = Reconciled(p, ts, step) PROVE After(p, q)
<1> DEFINE id == Context(p, None)
           seal == IF id \in DOMAIN p.seals THEN p.seals[id] ELSE 0
           words(m) == SubSeq(m.text, 1, IF seal < Len(m.text) THEN seal ELSE Len(m.text)) \o step
<1>3. PICK r : r = Ensured(p, ts, None)
  OBVIOUS
<1>4. After(p, r) /\ IsPage(r)
  BY <1>3, EnsuredAfter DEF After
<1>5. PICK d : d = InBubble(p, ts, LAMBDA m : [m EXCEPT !.text = words(m)])
  OBVIOUS
<1>6. PICK t : t = [i \in DOMAIN r.slot |-> IF r.slot[i].id = id THEN [r.slot[i] EXCEPT !.text = words(r.slot[i])]
                                            ELSE r.slot[i]]
  OBVIOUS
<1>7. d = [r EXCEPT !.slot = t]
  BY <1>3, <1>5, <1>6 DEF InBubble, Patch
<1>8. IsOver(t, r.slot)
  <2> HIDE DEF words
  <2>1. \A i \in DOMAIN r.slot : Same(r.slot[i], t[i])
    BY <1>6 DEF Same, IsMessage
  <2> QED
    BY <1>6, <2>1 DEF IsOver
<1>9. d.slot = t /\ d.ticks = r.ticks /\ IsRecord(d)
  BY <1>4, <1>7 DEF IsPage, IsRecord
<1>10. After(r, d)
  BY <1>4, <1>8, <1>9, OverAfter
<1>11. After(p, d) /\ IsPage(d)
  BY <1>4, <1>10, AfterOn DEF After
<1>12. PICK seals : seals = (id :> Len(d.slot[CHOOSE i \in DOMAIN d.slot : d.slot[i].id = id].text)) @@ d.seals
  OBVIOUS
<1>13. q = [d EXCEPT !.seals = seals]
  BY <1>5, <1>12 DEF Reconciled
<1>14. q.slot = d.slot /\ q.ticks = d.ticks /\ IsRecord(q)
  BY <1>11, <1>13 DEF IsPage, IsRecord
<1>15. After(d, q)
  BY <1>11, <1>14, BesideAfter
<1> QED
  BY <1>11, <1>15, AfterOn

LEMMA InsertRequestAfter == ASSUME NEW p, IsPage(p), NEW e, NEW q, q = InsertRequest(p, e) PROVE After(p, q)
<1>1. PICK later : later = {i \in DOMAIN p.slot : \/ p.slot[i].ts > e.ts
                                                  \/ p.slot[i].ts = e.ts /\ IsAssistant(p.slot[i])}
  OBVIOUS
<1>2. PICK row : row = Message("user", p.fresh, Request(e.ts), "done", e.ts)
  OBVIOUS
<1>3. PICK t : t = IF later = {} THEN Append(p.slot, row) ELSE InsertAt(p.slot, Min(later), row)
  OBVIOUS
<1>4. q = p \/ q = [p EXCEPT !.slot = t, !.fresh = @ + 1]
  BY <1>1, <1>2, <1>3 DEF InsertRequest
<1>5. IsSeq(t) /\ \A k \in DOMAIN p.slot : \E j \in DOMAIN t : t[j] = p.slot[k]
  <2>1. CASE later = {}
    <3>1. IsGrown(t, p.slot, row) /\ IsSeq(p.slot)
      BY <1>3, <2>1 DEF IsGrown, IsPage
    <3> QED
      BY <3>1, GrownHas
  <2>2. CASE later # {}
    <3>0. IsSeq(p.slot) /\ DOMAIN p.slot \subseteq Nat
      BY DEF IsPage, IsSeq
    <3>1. Min(later) \in later
      BY <1>1, <2>2, <3>0, MinIs
    <3>2. PICK i : i = Min(later)
      OBVIOUS
    <3>3. i \in DOMAIN p.slot /\ t = InsertAt(p.slot, i, row)
      BY <1>1, <1>3, <2>2, <3>1, <3>2
    <3> QED
      BY <3>0, <3>3, PutIn
  <2> QED
    BY <2>1, <2>2
<1>6. CASE q = p
  BY <1>6, AfterSelf
<1>7. CASE q = [p EXCEPT !.slot = t, !.fresh = @ + 1]
  <2>1. q.slot = t /\ q.ticks = p.ticks /\ IsRecord(q)
    BY <1>7 DEF IsPage, IsRecord
  <2> QED
    BY <1>5, <2>1, MoreAfter
<1> QED
  BY <1>4, <1>6, <1>7

LEMMA EndedAfter == ASSUME NEW p, IsPage(p), NEW e, NEW q, q = Ended(p, e) PROVE After(p, q)
<1>1. PICK ctx : ctx = LastWith(p.slot, IsStreaming)
  OBVIOUS
<1>2. PICK status : status = IF Interrupted(e.arg) THEN "error" ELSE "done"
  OBVIOUS
<1>3. PICK t : t = [i \in DOMAIN p.slot |-> IF i \in ctx THEN [p.slot[i] EXCEPT !.status = status] ELSE p.slot[i]]
  OBVIOUS
<1>4. q = p \/ q = [p EXCEPT !.slot = t, !.streaming = FALSE, !.seals = NoEntries]
  BY <1>1, <1>2, <1>3 DEF Ended
<1>5. IsOver(t, p.slot)
  <2>1. \A i \in DOMAIN p.slot : Same(p.slot[i], t[i])
    BY <1>3 DEF Same, IsMessage
  <2> QED
    BY <1>3, <2>1 DEF IsOver
<1>6. CASE q = p
  BY <1>6, AfterSelf
<1>7. CASE q = [p EXCEPT !.slot = t, !.streaming = FALSE, !.seals = NoEntries]
  <2>1. q.slot = t /\ q.ticks = p.ticks /\ IsRecord(q)
    BY <1>7 DEF IsPage, IsRecord
  <2> QED
    BY <1>5, <2>1, OverAfter
<1> QED
  BY <1>4, <1>6, <1>7

LEMMA BufferedAfter == ASSUME NEW p, IsPage(p), NEW ts, NEW word, NEW q, q = Buffered(p, ts, word) PROVE After(p, q)
<1>1. PICK r : r = Ensured(p, ts, None)
  OBVIOUS
<1>2. After(p, r) /\ IsPage(r)
  BY <1>1, EnsuredAfter DEF After
<1>3. PICK buf : buf = EnqueueText(r.buf, Context(p, None), word)
  OBVIOUS
<1>4. q = [r EXCEPT !.buf = buf]
  BY <1>1, <1>3 DEF Buffered
<1>5. q.slot = r.slot /\ q.ticks = r.ticks /\ IsRecord(q)
  BY <1>2, <1>4 DEF IsPage, IsRecord
<1>6. After(r, q)
  BY <1>2, <1>5, BesideAfter
<1> QED
  BY <1>2, <1>6, AfterOn

LEMMA DelayedAfter == ASSUME NEW p, IsPage(p), NEW ts, NEW c, NEW q, q = Delayed(p, ts, c) PROVE After(p, q)
<1>1. PICK r : r = Ensured(p, ts, None)
  OBVIOUS
<1>2. After(p, r) /\ IsPage(r)
  BY <1>1, EnsuredAfter DEF After
<1>3. PICK deltas : deltas = EnqueueDelta(r.deltas, Context(p, None), c)
  OBVIOUS
<1>4. q = [r EXCEPT !.deltas = deltas]
  BY <1>1, <1>3 DEF Delayed
<1>5. q.slot = r.slot /\ q.ticks = r.ticks /\ IsRecord(q)
  BY <1>2, <1>4 DEF IsPage, IsRecord
<1>6. After(r, q)
  BY <1>2, <1>5, BesideAfter
<1> QED
  BY <1>2, <1>6, AfterOn

LEMMA OnStartAfter == ASSUME NEW p, IsPage(p), NEW e, NEW q, q = OnStart(p, e) PROVE After(p, q)
<1>1. PICK r : r = Ensured(p, e.ts, Live(e.ts))
  OBVIOUS
<1>2. After(p, r) /\ IsPage(r)
  BY <1>1, EnsuredAfter DEF After
<1>3. PICK seals : seals = (Context(p, Live(e.ts)) :> 0) @@ r.seals
  OBVIOUS
<1>4. q = [r EXCEPT !.seals = seals]
  BY <1>1, <1>3 DEF OnStart
<1>5. q.slot = r.slot /\ q.ticks = r.ticks /\ IsRecord(q)
  BY <1>2, <1>4 DEF IsPage, IsRecord
<1>6. After(r, q)
  BY <1>2, <1>5, BesideAfter
<1> QED
  BY <1>2, <1>6, AfterOn

LEMMA OnMailAfter == ASSUME NEW p, IsPage(p), NEW e, NEW q, q = OnMail(p, e) PROVE After(p, q)
<1>1. PICK t : t = PushSystem(p.slot, p.fresh, <<e.arg>>, e.ts)
  OBVIOUS
<1>2. q = [p EXCEPT !.slot = t, !.fresh = @ + 1]
  BY <1>1 DEF OnMail
<1>3. IsSeq(t) /\ \A k \in DOMAIN p.slot : \E j \in DOMAIN t : t[j] = p.slot[k]
  <2>0. IsSeq(p.slot)
    BY DEF IsPage
  <2>1. PICK row : row = [Message("system", p.fresh, None, "done", e.ts) EXCEPT !.text = <<e.arg>>]
    OBVIOUS
  <2>2. t = p.slot \/ IsGrown(t, p.slot, row)
    BY <1>1, <2>1 DEF PushSystem, IsGrown
  <2>3. CASE t = p.slot
    BY <2>0, <2>3
  <2>4. CASE IsGrown(t, p.slot, row)
    BY <2>0, <2>4, GrownHas
  <2> QED
    BY <2>2, <2>3, <2>4
<1>4. q.slot = t /\ q.ticks = p.ticks /\ IsRecord(q)
  BY <1>2 DEF IsPage, IsRecord
<1> QED
  BY <1>3, <1>4, MoreAfter

LEMMA SnapshotAfter == ASSUME NEW p, IsPage(p), NEW es, NEW q, q = Snapshot(p, es) PROVE After(p, q)
<1>0. PICK start : start = es[1].ts
  OBVIOUS
<1>1. PICK id : id = Context(p, Live(start))
  OBVIOUS
<1>2. PICK r : r = Ensured(p, start, Live(start))
  OBVIOUS
<1>3. After(p, r) /\ IsPage(r)
  BY <1>2, EnsuredAfter DEF After
<1>4. PICK t : t = [i \in DOMAIN r.slot |->
                      IF r.slot[i].id = id
                      THEN [r.slot[i] EXCEPT !.key = Live(start), !.ts = start, !.text = TextOf(es),
                                             !.calls = CallsOf(es), !.status = "streaming"]
                      ELSE r.slot[i]]
  OBVIOUS
<1>5. PICK seals : seals = (id :> Len(SealedOf(es))) @@ r.seals
  OBVIOUS
<1>6. q = p \/ q = [r EXCEPT !.slot = t, !.seals = seals]
  BY <1>0, <1>1, <1>2, <1>4, <1>5 DEF Snapshot, Patch
<1>7. IsOver(t, r.slot)
  <2>1. \A i \in DOMAIN r.slot : Same(r.slot[i], t[i])
    BY <1>4 DEF Same, IsMessage
  <2> QED
    BY <1>4, <2>1 DEF IsOver
<1>8. CASE q = p
  BY <1>8, AfterSelf
<1>9. CASE q = [r EXCEPT !.slot = t, !.seals = seals]
  <2>1. q.slot = t /\ q.ticks = r.ticks /\ IsRecord(q)
    BY <1>3, <1>9 DEF IsPage, IsRecord
  <2>2. After(r, q)
    BY <1>3, <1>7, <2>1, OverAfter
  <2> QED
    BY <1>3, <2>2, AfterOn
<1> QED
  BY <1>6, <1>8, <1>9

LEMMA DispatchAfter ==
  ASSUME NEW p, IsPage(p), NEW e, e.type \in Types, NEW q, q = Dispatch(p, e)
  PROVE  After(p, q)
<1>1. CASE e.type = "chunk"
  <2>1. q = Buffered(p, e.ts, e.arg)
    BY <1>1 DEF Dispatch
  <2> QED
    BY <2>1, BufferedAfter
<1>2. CASE e.type # "chunk"
  <2>1. PICK f : f = FlushText(p)
    OBVIOUS
  <2>2. After(p, f) /\ IsPage(f)
    BY <2>1, FlushTextAfter DEF After
  <2>3. q = Flushed(f, e)
    BY <1>2, <2>1 DEF Dispatch
  <2>4. After(f, q)
    <3>1. CASE e.type = "own"
      BY <2>2, <2>3, <3>1, AfterSelf DEF Flushed
    <3>2. CASE e.type = "user"
      BY <2>2, <2>3, <3>2, InsertRequestAfter DEF Flushed
    <3>3. CASE e.type = "mail"
      BY <2>2, <2>3, <3>3, OnMailAfter DEF Flushed
    <3>4. CASE e.type = "start"
      BY <2>2, <2>3, <3>4, OnStartAfter DEF Flushed
    <3>5. CASE e.type = "delta"
      BY <2>2, <2>3, <3>5, DelayedAfter DEF Flushed
    <3>6. CASE e.type = "call"
      BY <2>2, <2>3, <3>6, OnCallAfter DEF Flushed
    <3>7. CASE e.type = "result"
      BY <2>2, <2>3, <3>7, OnResultAfter DEF Flushed
    <3>8. CASE e.type = "step"
      BY <2>2, <2>3, <3>8, ReconciledAfter DEF Flushed
    <3>9. CASE e.type = "end"
      BY <2>2, <2>3, <3>9, EndedAfter DEF Flushed
    <3> QED
      BY <1>2, <3>1, <3>2, <3>3, <3>4, <3>5, <3>6, <3>7, <3>8, <3>9 DEF Types
  <2> QED
    BY <2>2, <2>4, AfterOn
<1> QED
  BY <1>1, <1>2

LogTyped ==
  /\ IsSeq(log)
  /\ \A i \in DOMAIN log : log[i].ts = i /\ log[i].type \in Types

IsFrame(f) ==
  /\ f.kind \in {"event", "snapshot", "gap"}
  /\ f.n \in 0..Len(log)
  /\ f.kind = "event" => f.n # 0

\* The page and the cursor of x are those of st, later.
Later(st, x) == After(st.page, x.page) /\ x.cursor \in 0..Len(log)

LEMMA AppliedLater ==
  ASSUME LogTyped, NEW st, IsPage(st.page), st.cursor \in 0..Len(log),
         NEW f, IsFrame(f), f.kind # "gap", NEW x, x = Applied(st, f)
  PROVE  Later(st, x)
<1>0. f.kind \in {"event", "snapshot"} /\ f.n \in 0..Len(log)
  BY DEF IsFrame
<1>1. CASE f.kind = "snapshot"
  <2>1. PICK q : q = Snapshot(st.page, TurnOf(SubSeq(log, 1, f.n)))
    OBVIOUS
  <2>2. x.page = q /\ x.cursor \in {f.n, st.cursor}
    BY <1>1, <2>1 DEF Applied
  <2>3. After(st.page, q)
    BY <2>1, SnapshotAfter
  <2> QED
    BY <1>0, <2>2, <2>3 DEF Later
<1>2. CASE f.kind = "event" /\ f.n > st.cursor
  <2>1. PICK q : q = Dispatch(st.page, log[f.n])
    OBVIOUS
  <2>2. x.page = q /\ x.cursor = f.n
    BY <1>2, <2>1 DEF Applied
  <2>3. log[f.n].type \in Types
    BY <1>0, <1>2 DEF LogTyped, IsFrame, IsSeq
  <2>4. After(st.page, q)
    BY <2>1, <2>3, DispatchAfter
  <2> QED
    BY <1>0, <2>2, <2>4 DEF Later
<1>3. CASE f.kind = "event" /\ ~(f.n > st.cursor)
  <2>1. x = st
    BY <1>3 DEF Applied
  <2> QED
    BY <2>1, AfterSelf DEF Later
<1> QED
  BY <1>0, <1>1, <1>2, <1>3

HeldTyped == held # None => IsSeq(held) /\ \A i \in DOMAIN held : IsFrame(held[i]) /\ held[i].kind # "gap"

\* What the frames held make of the page, up to the n-th.
Freed(st, n, g) == g[n] = IF n = 0 THEN st ELSE Applied(g[n - 1], held[n])

LEMMA ReleasedUnfold ==
  ASSUME NEW st, NEW l, l = "gap", held # None, Len(held) \in Nat
  PROVE  \E g : Released(st, l) = g[Len(held)] /\ \A n \in 0..Len(held) : Freed(st, n, g)
<1> DEFINE body(g) == [n \in 0..Len(held) |-> IF n = 0 THEN st ELSE Applied(g[n - 1], held[n])]
<1> DEFINE after == CHOOSE g : g = body(g)
<1>1. Released(st, l) = after[Len(held)]
  BY DEF Released
<1>2. after = body(after)
  <2> DEFINE bad == {m \in 0..Len(held) : ~\E g : \A n \in 0..m : Freed(st, n, g)}
  <2>1. bad = {}
    <3> SUFFICES ASSUME bad # {} PROVE FALSE
      OBVIOUS
    <3>0. bad \subseteq Nat
      OBVIOUS
    <3> HIDE DEF bad
    <3>1. PICK x \in bad : \A y \in bad : x <= y
      BY <3>0, LeastElement
    <3> USE DEF bad
    <3>2. CASE x = 0
      <4>1. \A n \in 0..0 : Freed(st, n, [k \in {0} |-> st])
        BY DEF Freed
      <4> QED
        BY <3>1, <3>2, <4>1
    <3>3. CASE x # 0
      <4>0. x \in Nat /\ x \in 0..Len(held)
        OBVIOUS
      <4>1. x \in Nat /\ x - 1 \in 0..Len(held) /\ x - 1 \notin bad
        <5> HIDE DEF bad
        <5>1. x - 1 \notin bad
          BY <3>1, <4>0
        <5> QED
          BY <3>3, <4>0, <5>1
      <4>2. PICK g : \A n \in 0..x - 1 : Freed(st, n, g)
        BY <4>1
      <4>3. PICK newest : newest = Applied(g[x - 1], held[x])
        OBVIOUS
      <4> DEFINE h == [n \in 0..x |-> IF n = x THEN newest ELSE g[n]]
      <4>4. ASSUME NEW n \in 0..x PROVE Freed(st, n, h)
        <5>1. CASE n = x
          BY <3>3, <4>1, <4>3, <5>1 DEF Freed
        <5>2. CASE n # x
          <6>1. n \in 0..x - 1 /\ n - 1 # x /\ (n # 0 => n - 1 \in 0..x)
            BY <4>1, <5>2
          <6>2. h[n] = g[n] /\ (n # 0 => h[n - 1] = g[n - 1])
            BY <5>2, <6>1
          <6> QED
            BY <4>2, <6>1, <6>2 DEF Freed
        <5> QED
          BY <5>1, <5>2
      <4> QED
        BY <3>1, <4>4
    <3> QED
      BY <3>2, <3>3
  <2>2. PICK g : \A n \in 0..Len(held) : Freed(st, n, g)
    <3>1. Len(held) \in 0..Len(held) /\ Len(held) \notin bad
      BY <2>1
    <3> QED
      BY <3>1
  <2> DEFINE f == [n \in 0..Len(held) |-> g[n]]
  <2>3. ASSUME NEW n \in 0..Len(held)
        PROVE  f[n] = IF n = 0 THEN st ELSE Applied(f[n - 1], held[n])
    <3>1. n # 0 => n - 1 \in 0..Len(held)
      OBVIOUS
    <3> QED
      BY <2>2, <3>1 DEF Freed
  <2>4. f = body(f)
    <3> HIDE DEF f, after
    <3>1. PICK e : e = body(f)
      OBVIOUS
    <3>2. f = [n \in 0..Len(held) |-> f[n]]
      BY DEF f
    <3>3. \A n \in 0..Len(held) : f[n] = e[n]
      BY <2>3, <3>1
    <3>4. DOMAIN e = 0..Len(held) /\ e = [n \in 0..Len(held) |-> e[n]]
      BY <3>1
    <3> QED
      BY <3>1, <3>2, <3>3, <3>4
  <2> QED
    BY <2>4, Zenon
<1>3. \A n \in 0..Len(held) : Freed(st, n, after)
  BY <1>2 DEF Freed
<1> QED
  BY <1>1, <1>3

LEMMA ReleasedLater ==
  ASSUME LogTyped, HeldTyped, NEW st, IsPage(st.page), st.cursor \in 0..Len(log),
         NEW l, NEW x, x = Released(st, l)
  PROVE  Later(st, x)
<1>1. CASE l # "gap" \/ held = None
  <2>1. x = st
    BY <1>1 DEF Released
  <2> QED
    BY <2>1, AfterSelf DEF Later
<1>2. CASE l = "gap" /\ held # None
  <2>1. /\ Len(held) \in Nat /\ DOMAIN held = 1..Len(held)
        /\ \A i \in DOMAIN held : IsFrame(held[i]) /\ held[i].kind # "gap"
    BY <1>2 DEF HeldTyped, IsSeq
  <2>2. PICK g : Released(st, l) = g[Len(held)] /\ \A n \in 0..Len(held) : Freed(st, n, g)
    BY <1>2, <2>1, ReleasedUnfold
  <2>3. \A n \in 0..Len(held) : g[n] = IF n = 0 THEN st ELSE Applied(g[n - 1], held[n])
    BY <2>2 DEF Freed
  <2> DEFINE bad == {n \in 0..Len(held) : ~Later(st, g[n])}
  <2>4. Later(st, g[0])
    <3>1. g[0] = st
      BY <2>1, <2>3
    <3> QED
      BY <3>1, AfterSelf DEF Later
  <2>5. ASSUME NEW n \in 1..Len(held), Later(st, g[n - 1]) PROVE Later(st, g[n])
    <3>1. PICK y : y = g[n - 1]
      OBVIOUS
    <3>2. PICK z : z = Applied(y, held[n])
      OBVIOUS
    <3>3. g[n] = z
      BY <2>1, <2>3, <3>1, <3>2
    <3>4. IsPage(y.page) /\ y.cursor \in 0..Len(log) /\ After(st.page, y.page)
      BY <2>5, <3>1 DEF Later, After
    <3>5. IsFrame(held[n]) /\ held[n].kind # "gap"
      BY <2>1
    <3>6. Later(y, z)
      BY <3>2, <3>4, <3>5, AppliedLater
    <3> QED
      BY <3>3, <3>4, <3>6, AfterOn DEF Later
  <2>6. bad = {}
    <3> SUFFICES ASSUME bad # {} PROVE FALSE
      OBVIOUS
    <3>0. bad \subseteq Nat
      OBVIOUS
    <3> HIDE DEF bad
    <3>1. PICK m \in bad : \A y \in bad : m <= y
      BY <3>0, LeastElement
    <3>2. m \in 0..Len(held) /\ ~Later(st, g[m])
      BY DEF bad
    <3>3. m # 0
      BY <2>4, <3>2
    <3>4. m \in 1..Len(held) /\ m - 1 \in 0..Len(held) /\ m - 1 < m
      BY <2>1, <3>2, <3>3
    <3>5. Later(st, g[m - 1])
      BY <3>0, <3>1, <3>4 DEF bad
    <3> QED
      BY <2>5, <3>2, <3>4, <3>5
  <2>7. Later(st, g[Len(held)])
    BY <2>1, <2>6
  <2> QED
    BY <2>2, <2>7
<1> QED
  BY <1>1, <1>2

-------------------------------------------------------------------------------
\* The replay of a log.

IsReplay(r) ==
  /\ r \in [msgs : {r.msgs}, fresh : {r.fresh}, sealed : {r.sealed}, busy : {r.busy}, pending : {r.pending},
            agent : {r.agent}, open : {r.open}, bubble : {r.bubble}, reply : {r.reply}, settled : {r.settled}]
  /\ IsSeq(r.msgs)

IsMap(t, s) == t = [i \in DOMAIN s |-> t[i]]

LEMMA MapSeq == ASSUME NEW s, IsSeq(s), NEW t, IsMap(t, s) PROVE IsSeq(t)
<1>1. DOMAIN t = DOMAIN s /\ t = [i \in DOMAIN t |-> t[i]]
  BY DEF IsMap
<1> QED
  BY <1>1, LikeSeq

LEMMA GrownSeq == ASSUME NEW s, IsSeq(s), NEW e PROVE IsSeq(Append(s, e))
<1>1. PICK t : t = Append(s, e)
  OBVIOUS
<1>2. IsGrown(t, s, e)
  BY <1>1 DEF IsGrown
<1>3. IsSeq(t)
  BY <1>2, GrownHas
<1> QED
  BY <1>1, <1>3

LEMMA OpenedIs == ASSUME NEW r, IsReplay(r), NEW ts, NEW q, q = Opened(r, ts) PROVE IsReplay(q)
<1>1. PICK t : t = Append(r.msgs, Message("assistant", r.fresh, None, "streaming", ts))
  OBVIOUS
<1>2. q = [r EXCEPT !.msgs = t, !.fresh = @ + 1, !.sealed = FALSE]
  BY <1>1 DEF Opened
<1>3. IsSeq(t)
  BY <1>1, GrownSeq DEF IsReplay
<1>4. q.msgs = t
  BY <1>2 DEF IsReplay
<1> QED
  BY <1>2, <1>3, <1>4 DEF IsReplay

\* The rows that ApplyMain patches.
LEMMA MainIs ==
  ASSUME NEW r, IsReplay(r), NEW ts,
         NEW q, q = IF r.sealed \/ LastAssistant(r.msgs) = None THEN Opened(r, ts) ELSE r
  PROVE  IsReplay(q)
BY OpenedIs

\* A replay with other rows in the place of its own.
LEMMA WithRows ==
  ASSUME NEW r, IsReplay(r), NEW t, IsMap(t, r.msgs), NEW q, q = [r EXCEPT !.msgs = t]
  PROVE  IsReplay(q)
<1>1. IsSeq(t)
  BY MapSeq DEF IsReplay
<1>2. q.msgs = t
  BY DEF IsReplay
<1> QED
  BY <1>1, <1>2 DEF IsReplay

LEMMA CommitPendingIs == ASSUME NEW r, IsReplay(r), NEW q, q = CommitPending(r) PROVE IsReplay(q)
<1>1. q = r \/ q = [r EXCEPT !.busy = FALSE, !.pending = {}, !.sealed = @ \/ r.agent]
  BY DEF CommitPending
<1>2. CASE q = [r EXCEPT !.busy = FALSE, !.pending = {}, !.sealed = @ \/ r.agent]
  <2>1. q.msgs = r.msgs
    BY <1>2 DEF IsReplay
  <2> QED
    BY <1>2, <2>1 DEF IsReplay
<1> QED
  BY <1>1, <1>2

LEMMA OnUserInputIs ==
  ASSUME NEW r, IsReplay(r), NEW ts, NEW key, NEW q, q = OnUserInput(r, ts, key)
  PROVE  IsReplay(q)
<1>1. PICK id : id = LastAssistant(r.msgs)
  OBVIOUS
<1>2. PICK t : t = [i \in DOMAIN r.msgs |->
                     IF r.msgs[i].id = id
                     THEN IF r.msgs[i].status = "streaming" THEN [r.msgs[i] EXCEPT !.status = "done"] ELSE r.msgs[i]
                     ELSE r.msgs[i]]
  OBVIOUS
<1>3. PICK x : x = [r EXCEPT !.msgs = t]
  OBVIOUS
<1>4. IsMap(t, r.msgs)
  BY <1>2 DEF IsMap
<1>5. IsReplay(x)
  BY <1>3, <1>4, WithRows
<1>6. PICK y : y = [x EXCEPT !.msgs = Append(@, Message("user", x.fresh, key, "done", ts)), !.fresh = @ + 1]
  OBVIOUS
<1>7. q = Opened(y, ts)
  BY <1>1, <1>2, <1>3, <1>6 DEF OnUserInput, Patch
<1>8. IsReplay(y)
  <2>1. PICK u : u = Append(x.msgs, Message("user", x.fresh, key, "done", ts))
    OBVIOUS
  <2>2. IsSeq(u)
    BY <1>5, <2>1, GrownSeq DEF IsReplay
  <2>3. y = [x EXCEPT !.msgs = u, !.fresh = @ + 1]
    BY <1>6, <2>1
  <2>4. y.msgs = u
    BY <1>5, <2>3 DEF IsReplay
  <2> QED
    BY <1>5, <2>2, <2>3, <2>4 DEF IsReplay
<1> QED
  BY <1>7, <1>8, OpenedIs

LEMMA FinalizeTurnIs == ASSUME NEW r, IsReplay(r), NEW e, NEW q, q = FinalizeTurn(r, e) PROVE IsReplay(q)
<1>1. PICK x : x = IF Interrupted(e.arg)
                   THEN ApplyMain(r, e.ts, LAMBDA m : [m EXCEPT !.status = "error"]) ELSE r
  OBVIOUS
<1>2. IsReplay(x)
  <2>1. CASE ~Interrupted(e.arg)
    BY <1>1, <2>1
  <2>2. CASE Interrupted(e.arg)
    <3>1. PICK y : y = IF r.sealed \/ LastAssistant(r.msgs) = None THEN Opened(r, e.ts) ELSE r
      OBVIOUS
    <3>2. IsReplay(y)
      BY <3>1, MainIs
    <3>3. PICK id : id = LastAssistant(y.msgs)
      OBVIOUS
    <3>4. PICK t : t = [i \in DOMAIN y.msgs |-> IF y.msgs[i].id = id THEN [y.msgs[i] EXCEPT !.status = "error"]
                                               ELSE y.msgs[i]]
      OBVIOUS
    <3>5. x = [y EXCEPT !.msgs = t]
      BY <1>1, <2>2, <3>1, <3>3, <3>4 DEF ApplyMain, Patch
    <3>6. IsMap(t, y.msgs)
      BY <3>4 DEF IsMap
    <3> QED
      BY <3>2, <3>5, <3>6, WithRows
  <2> QED
    BY <2>1, <2>2
<1>3. q = [x EXCEPT !.sealed = @ \/ r.busy \/ Interrupted(e.arg), !.busy = FALSE, !.pending = {}]
  BY <1>1 DEF FinalizeTurn
<1>4. q.msgs = x.msgs
  BY <1>2, <1>3 DEF IsReplay
<1> QED
  BY <1>2, <1>3, <1>4 DEF IsReplay

LEMMA MergeResultIs == ASSUME NEW r, IsReplay(r), NEW e, NEW q, q = MergeResult(r, e) PROVE IsReplay(q)
<1>1. CASE e.arg[1] \notin r.pending
  BY <1>1 DEF MergeResult
<1>2. CASE e.arg[1] \in r.pending
  <2>1. PICK y : y = IF r.sealed \/ LastAssistant(r.msgs) = None THEN Opened(r, e.ts) ELSE r
    OBVIOUS
  <2>2. IsReplay(y)
    BY <2>1, MainIs
  <2>3. PICK id : id = LastAssistant(y.msgs)
    OBVIOUS
  <2>4. PICK t : t = [i \in DOMAIN y.msgs |-> IF y.msgs[i].id = id THEN SetCall(y.msgs[i], e.arg[1], e.arg[2])
                                             ELSE y.msgs[i]]
    OBVIOUS
  <2>5. PICK x : x = [y EXCEPT !.msgs = t]
    OBVIOUS
  <2>6. q = [x EXCEPT !.pending = @ \ {e.arg[1]}]
    BY <1>2, <2>1, <2>3, <2>4, <2>5 DEF MergeResult, ApplyMain, Patch
  <2>7. IsMap(t, y.msgs)
    BY <2>4 DEF IsMap
  <2>8. IsReplay(x)
    BY <2>2, <2>5, <2>7, WithRows
  <2>9. q.msgs = x.msgs
    BY <2>6, <2>8 DEF IsReplay
  <2> QED
    BY <2>6, <2>8, <2>9 DEF IsReplay
<1> QED
  BY <1>1, <1>2

\* A step and a call, in the bubble that ApplyMain finds.
LEMMA FeedStepIs == ASSUME NEW r, IsReplay(r), NEW e, e.type = "step", NEW q, q = Feed(r, e) PROVE IsReplay(q)
<1>1. PICK y : y = IF r.sealed \/ LastAssistant(r.msgs) = None THEN Opened(r, e.ts) ELSE r
  OBVIOUS
<1>2. IsReplay(y)
  BY <1>1, MainIs
<1>3. PICK id : id = LastAssistant(y.msgs)
  OBVIOUS
<1>4. PICK t : t = [i \in DOMAIN y.msgs |-> IF y.msgs[i].id = id
                                           THEN [y.msgs[i] EXCEPT !.text = AppendStep(@, e.arg)]
                                           ELSE y.msgs[i]]
  OBVIOUS
<1>5. PICK x : x = [y EXCEPT !.msgs = t]
  OBVIOUS
<1>6. q = [x EXCEPT !.busy = TRUE]
  BY <1>1, <1>3, <1>4, <1>5 DEF Feed, ApplyMain, Patch
<1>7. IsMap(t, y.msgs)
  BY <1>4 DEF IsMap
<1>8. IsReplay(x)
  BY <1>2, <1>5, <1>7, WithRows
<1>9. q.msgs = x.msgs
  BY <1>6, <1>8 DEF IsReplay
<1> QED
  BY <1>6, <1>8, <1>9 DEF IsReplay

LEMMA FeedCallIs == ASSUME NEW r, IsReplay(r), NEW e, e.type = "call", NEW q, q = Feed(r, e) PROVE IsReplay(q)
<1>1. PICK y : y = IF r.sealed \/ LastAssistant(r.msgs) = None THEN Opened(r, e.ts) ELSE r
  OBVIOUS
<1>2. IsReplay(y)
  BY <1>1, MainIs
<1>3. PICK id : id = LastAssistant(y.msgs)
  OBVIOUS
<1>4. PICK t : t = [i \in DOMAIN y.msgs |-> IF y.msgs[i].id = id THEN PutCall(y.msgs[i], e.arg, FALSE)
                                           ELSE y.msgs[i]]
  OBVIOUS
<1>5. PICK x : x = [y EXCEPT !.msgs = t]
  OBVIOUS
<1>6. q = [x EXCEPT !.busy = TRUE, !.pending = @ \cup {e.arg}]
  BY <1>1, <1>3, <1>4, <1>5 DEF Feed, ApplyMain, Patch
<1>7. IsMap(t, y.msgs)
  BY <1>4 DEF IsMap
<1>8. IsReplay(x)
  BY <1>2, <1>5, <1>7, WithRows
<1>9. q.msgs = x.msgs
  BY <1>6, <1>8 DEF IsReplay
<1> QED
  BY <1>6, <1>8, <1>9 DEF IsReplay

Logs == {"own", "user", "mail", "start", "call", "result", "step", "end"}

LEMMA FeedIs ==
  ASSUME NEW r, IsReplay(r), NEW e, e.type \in Logs, NEW q, q = Feed(r, e)
  PROVE  IsReplay(q)
<1>1. CASE e.type \in {"user", "own"}
  <2>1. PICK x : x = CommitPending(r)
    OBVIOUS
  <2>2. IsReplay(x)
    BY <2>1, CommitPendingIs
  <2>3. q = OnUserInput(x, e.ts, Request(e.ts))
    BY <1>1, <2>1 DEF Feed
  <2> QED
    BY <2>2, <2>3, OnUserInputIs
<1>2. CASE e.type = "mail"
  <2>1. PICK t : t = PushSystem(r.msgs, r.fresh, <<e.arg>>, e.ts)
    OBVIOUS
  <2>2. q = [r EXCEPT !.msgs = t, !.fresh = @ + 1]
    BY <1>2, <2>1 DEF Feed
  <2>3. IsSeq(t)
    BY <2>1, GrownSeq DEF PushSystem, IsReplay
  <2>4. q.msgs = t
    BY <2>2 DEF IsReplay
  <2> QED
    BY <2>2, <2>3, <2>4 DEF IsReplay
<1>3. CASE e.type = "start"
  <2>1. PICK x : x = CommitPending(r)
    OBVIOUS
  <2>2. IsReplay(x)
    BY <2>1, CommitPendingIs
  <2>3. q = [x EXCEPT !.agent = TRUE]
    BY <1>3, <2>1 DEF Feed
  <2>4. q.msgs = x.msgs
    BY <2>2, <2>3 DEF IsReplay
  <2> QED
    BY <2>2, <2>3, <2>4 DEF IsReplay
<1>4. CASE e.type = "step"
  BY <1>4, FeedStepIs
<1>5. CASE e.type = "call"
  BY <1>5, FeedCallIs
<1>6. CASE e.type = "result"
  BY <1>6, MergeResultIs DEF Feed
<1>7. CASE e.type = "end"
  BY <1>7, FinalizeTurnIs DEF Feed
<1> QED
  BY <1>1, <1>2, <1>3, <1>4, <1>5, <1>6, <1>7 DEF Logs

LEMMA IdentifyIs ==
  ASSUME NEW r, NEW q, IsReplay(q), NEW e, NEW x, x = Identify(r, q, e)
  PROVE  IsReplay(x)
<1>1. PICK tail : tail = LastAssistant(q.msgs)
  OBVIOUS
<1>2. PICK u : u = IF e.type \in {"user", "own"} /\ tail # LastAssistant(r.msgs)
                   THEN [q EXCEPT !.open = None, !.bubble = None, !.reply = tail] ELSE q
  OBVIOUS
<1>3. IsReplay(u)
  <2>1. CASE u = q
    BY <2>1
  <2>2. CASE u = [q EXCEPT !.open = None, !.bubble = None, !.reply = tail]
    <3>1. u.msgs = q.msgs
      BY <2>2 DEF IsReplay
    <3> QED
      BY <2>2, <3>1 DEF IsReplay
  <2> QED
    BY <1>2, <2>1, <2>2
<1>4. x = u \/ x = [u EXCEPT !.bubble = tail]
  BY <1>1, <1>2 DEF Identify
<1>5. CASE x = [u EXCEPT !.bubble = tail]
  <2>1. x.msgs = u.msgs
    BY <1>3, <1>5 DEF IsReplay
  <2> QED
    BY <1>3, <1>5, <2>1 DEF IsReplay
<1> QED
  BY <1>3, <1>4, <1>5

LEMMA SettleTurnIs == ASSUME NEW r, IsReplay(r), NEW e, NEW q, q = SettleTurn(r, e) PROVE IsReplay(q)
<1>1. PICK target : target = IF r.bubble # None THEN r.bubble ELSE LastAssistant(r.msgs)
  OBVIOUS
<1>2. PICK status : status = IF Interrupted(e.arg) THEN "error" ELSE "done"
  OBVIOUS
<1>3. PICK t : t = [i \in DOMAIN r.msgs |->
                      IF r.msgs[i].id = target
                      THEN [r.msgs[i] EXCEPT !.status = status,
                                             !.key = IF r.open = None THEN @ ELSE Live(r.open)]
                      ELSE r.msgs[i]]
  OBVIOUS
<1>4. PICK settled : settled = IF r.open = None THEN r.settled ELSE r.settled \cup {Live(r.open)}
  OBVIOUS
<1>5. q = [r EXCEPT !.msgs = t, !.settled = settled, !.open = None, !.bubble = None]
  BY <1>1, <1>2, <1>3, <1>4 DEF SettleTurn, Patch
<1>6. IsSeq(t)
  <2>1. IsMap(t, r.msgs)
    BY <1>3 DEF IsMap
  <2> QED
    BY <2>1, MapSeq DEF IsReplay
<1>7. q.msgs = t
  BY <1>5 DEF IsReplay
<1> QED
  BY <1>5, <1>6, <1>7 DEF IsReplay

LEMMA ReplayEventIs ==
  ASSUME NEW r, IsReplay(r), NEW e, e.type \in Logs, NEW q, q = ReplayEvent(r, e)
  PROVE  IsReplay(q)
<1>1. CASE Waits(r, e)
  BY <1>1 DEF ReplayEvent
<1>2. CASE ~Waits(r, e)
  <2>1. PICK b : b = BeginTurn(r, e)
    OBVIOUS
  <2>2. IsReplay(b)
    <3>1. CASE b = r
      BY <3>1
    <3>2. CASE b = [r EXCEPT !.open = e.ts, !.bubble = r.reply, !.reply = None]
      <4>1. b.msgs = r.msgs
        BY <3>2 DEF IsReplay
      <4> QED
        BY <3>2, <4>1 DEF IsReplay
    <3> QED
      BY <2>1, <3>1, <3>2 DEF BeginTurn
  <2>3. PICK f : f = Feed(b, e)
    OBVIOUS
  <2>4. IsReplay(f)
    BY <2>2, <2>3, FeedIs
  <2>5. PICK d : d = Identify(b, f, e)
    OBVIOUS
  <2>6. IsReplay(d)
    BY <2>4, <2>5, IdentifyIs
  <2>7. q = IF e.type = "end" THEN SettleTurn(d, e) ELSE d
    BY <1>2, <2>1, <2>3, <2>5 DEF ReplayEvent, Fed, Settled
  <2> QED
    BY <2>6, <2>7, SettleTurnIs
<1> QED
  BY <1>1, <1>2

\* What the replay has made of the first rows.
Gone(rows, fresh, n, g) == g[n] = IF n = 0 THEN Blank(fresh) ELSE ReplayEvent(g[n - 1], rows[n])

LEMMA ReplayedUnfold ==
  ASSUME NEW rows, NEW fresh, Len(rows) \in Nat
  PROVE  \E g : Replayed(rows, fresh) = g[Len(rows)] /\ \A n \in 0..Len(rows) : Gone(rows, fresh, n, g)
<1> DEFINE body(g) == [n \in 0..Len(rows) |-> IF n = 0 THEN Blank(fresh) ELSE ReplayEvent(g[n - 1], rows[n])]
<1> DEFINE after == CHOOSE g : g = body(g)
<1>1. Replayed(rows, fresh) = after[Len(rows)]
  BY DEF Replayed
<1>2. after = body(after)
  <2> DEFINE bad == {m \in 0..Len(rows) : ~\E g : \A n \in 0..m : Gone(rows, fresh, n, g)}
  <2>1. bad = {}
    <3> SUFFICES ASSUME bad # {} PROVE FALSE
      OBVIOUS
    <3>0. bad \subseteq Nat
      OBVIOUS
    <3> HIDE DEF bad
    <3>1. PICK x \in bad : \A y \in bad : x <= y
      BY <3>0, LeastElement
    <3> USE DEF bad
    <3>2. CASE x = 0
      <4>1. \A n \in 0..0 : Gone(rows, fresh, n, [k \in {0} |-> Blank(fresh)])
        BY DEF Gone
      <4> QED
        BY <3>1, <3>2, <4>1
    <3>3. CASE x # 0
      <4>0. x \in Nat /\ x \in 0..Len(rows)
        OBVIOUS
      <4>1. x \in Nat /\ x - 1 \in 0..Len(rows) /\ x - 1 \notin bad
        <5> HIDE DEF bad
        <5>1. x - 1 \notin bad
          BY <3>1, <4>0
        <5> QED
          BY <3>3, <4>0, <5>1
      <4>2. PICK g : \A n \in 0..x - 1 : Gone(rows, fresh, n, g)
        BY <4>1
      <4>3. PICK newest : newest = ReplayEvent(g[x - 1], rows[x])
        OBVIOUS
      <4> DEFINE h == [n \in 0..x |-> IF n = x THEN newest ELSE g[n]]
      <4>4. ASSUME NEW n \in 0..x PROVE Gone(rows, fresh, n, h)
        <5>1. CASE n = x
          BY <3>3, <4>1, <4>3, <5>1 DEF Gone
        <5>2. CASE n # x
          <6>1. n \in 0..x - 1 /\ n - 1 # x /\ (n # 0 => n - 1 \in 0..x)
            BY <4>1, <5>2
          <6>2. h[n] = g[n] /\ (n # 0 => h[n - 1] = g[n - 1])
            BY <5>2, <6>1
          <6> QED
            BY <4>2, <6>1, <6>2 DEF Gone
        <5> QED
          BY <5>1, <5>2
      <4> QED
        BY <3>1, <4>4
    <3> QED
      BY <3>2, <3>3
  <2>2. PICK g : \A n \in 0..Len(rows) : Gone(rows, fresh, n, g)
    <3>1. Len(rows) \in 0..Len(rows) /\ Len(rows) \notin bad
      BY <2>1
    <3> QED
      BY <3>1
  <2> DEFINE f == [n \in 0..Len(rows) |-> g[n]]
  <2>3. ASSUME NEW n \in 0..Len(rows)
        PROVE  f[n] = IF n = 0 THEN Blank(fresh) ELSE ReplayEvent(f[n - 1], rows[n])
    <3>1. n # 0 => n - 1 \in 0..Len(rows)
      OBVIOUS
    <3> QED
      BY <2>2, <3>1 DEF Gone
  <2>4. f = body(f)
    <3> HIDE DEF f, after
    <3>1. PICK e : e = body(f)
      OBVIOUS
    <3>2. f = [n \in 0..Len(rows) |-> f[n]]
      BY DEF f
    <3>3. \A n \in 0..Len(rows) : f[n] = e[n]
      BY <2>3, <3>1
    <3>4. DOMAIN e = 0..Len(rows) /\ e = [n \in 0..Len(rows) |-> e[n]]
      BY <3>1
    <3> QED
      BY <3>1, <3>2, <3>3, <3>4
  <2> QED
    BY <2>4, Zenon
<1>3. \A n \in 0..Len(rows) : Gone(rows, fresh, n, after)
  BY <1>2 DEF Gone
<1> QED
  BY <1>1, <1>3

LEMMA ReplayIs ==
  ASSUME NEW rows, IsSeq(rows), \A i \in DOMAIN rows : rows[i].type \in Logs, NEW fresh,
         NEW q, q = Replay(rows, fresh)
  PROVE  IsReplay(q)
<1>0. Len(rows) \in Nat /\ DOMAIN rows = 1..Len(rows)
  BY DEF IsSeq
<1>1. PICK g : Replayed(rows, fresh) = g[Len(rows)] /\ \A n \in 0..Len(rows) : Gone(rows, fresh, n, g)
  BY <1>0, ReplayedUnfold
<1>2. \A n \in 0..Len(rows) : g[n] = IF n = 0 THEN Blank(fresh) ELSE ReplayEvent(g[n - 1], rows[n])
  BY <1>1 DEF Gone
<1> DEFINE bad == {n \in 0..Len(rows) : ~IsReplay(g[n])}
<1>3. IsReplay(g[0])
  <2>1. g[0] = Blank(fresh)
    BY <1>0, <1>2
  <2>2. IsReplay(Blank(fresh))
    BY DEF Blank, IsReplay, IsSeq
  <2> QED
    BY <2>1, <2>2
<1>4. ASSUME NEW n \in 1..Len(rows), IsReplay(g[n - 1]) PROVE IsReplay(g[n])
  <2>1. PICK y : y = g[n - 1]
    OBVIOUS
  <2>2. g[n] = ReplayEvent(y, rows[n]) /\ rows[n].type \in Logs
    BY <1>0, <1>2, <2>1
  <2>3. IsReplay(y)
    BY <1>4, <2>1
  <2> QED
    BY <2>2, <2>3, ReplayEventIs
<1>5. bad = {}
  <2> SUFFICES ASSUME bad # {} PROVE FALSE
    OBVIOUS
  <2>0. bad \subseteq Nat
    OBVIOUS
  <2> HIDE DEF bad
  <2>1. PICK m \in bad : \A y \in bad : m <= y
    BY <2>0, LeastElement
  <2>2. m \in 0..Len(rows) /\ ~IsReplay(g[m])
    BY DEF bad
  <2>3. m # 0
    BY <1>3, <2>2
  <2>4. m \in 1..Len(rows) /\ m - 1 \in 0..Len(rows) /\ m - 1 < m
    BY <1>0, <2>2, <2>3
  <2>5. IsReplay(g[m - 1])
    BY <2>0, <2>1, <2>4 DEF bad
  <2> QED
    BY <1>4, <2>2, <2>4, <2>5
<1>6. PICK r : r = Replayed(rows, fresh)
  OBVIOUS
<1>7. IsReplay(r)
  BY <1>0, <1>1, <1>5, <1>6
<1>8. PICK t : t = IF r.open = None \/ r.bubble = None THEN r.msgs
                   ELSE [i \in DOMAIN r.msgs |-> IF r.msgs[i].id = r.bubble
                                                THEN [r.msgs[i] EXCEPT !.key = Live(r.open)] ELSE r.msgs[i]]
  OBVIOUS
<1>9. IsSeq(t)
  <2>1. CASE t = r.msgs
    BY <1>7, <2>1 DEF IsReplay
  <2>2. CASE t # r.msgs
    <3>1. IsMap(t, r.msgs)
      BY <1>8, <2>2 DEF IsMap
    <3> QED
      BY <1>7, <3>1, MapSeq DEF IsReplay
  <2> QED
    BY <2>1, <2>2
<1>10. PICK u : u = Finalized(t)
  OBVIOUS
<1>11. IsSeq(u)
  <2>1. IsMap(u, t)
    BY <1>10 DEF IsMap, Finalized
  <2> QED
    BY <1>9, <2>1, MapSeq
<1>12. q = [r EXCEPT !.msgs = u]
  BY <1>6, <1>8, <1>10 DEF Replay, Patch
<1>13. q.msgs = u
  BY <1>7, <1>12 DEF IsReplay
<1> QED
  BY <1>7, <1>11, <1>12, <1>13 DEF IsReplay

-------------------------------------------------------------------------------
\* What a load makes of the page.

IsFirst(t, s, n) == t = SubSeq(s, 1, n)

LEMMA FirstOf ==
  ASSUME NEW s, IsSeq(s), NEW n \in 0..Len(s), NEW t, IsFirst(t, s, n)
  PROVE  IsSeq(t) /\ \A i \in DOMAIN t : \E k \in DOMAIN s : t[i] = s[k]
<1> DEFINE S == {s[k] : k \in DOMAIN s}
<1>0. Len(s) \in Nat /\ DOMAIN s = 1..Len(s) /\ n \in Nat /\ 1..n \subseteq 1..Len(s)
  BY DEF IsSeq
<1>1. t = [k \in 1..n |-> s[k]]
  BY <1>0 DEF IsSeq, IsFirst
<1>2. t \in Seq(S)
  <2>1. t \in [1..n -> S]
    BY <1>0, <1>1
  <2> QED
    BY <1>0, <2>1
<1>3. IsSeq(t)
  <2>1. t \in Seq({t[i] : i \in DOMAIN t})
    BY <1>2, OwnElements
  <2> QED
    BY <2>1 DEF IsSeq
<1> QED
  BY <1>0, <1>1, <1>3

LEMMA NotEmpty == ASSUME NEW s, IsSeq(s), s # <<>> PROVE Len(s) \in DOMAIN s
<1>1. Len(s) \in Nat /\ DOMAIN s = 1..Len(s) /\ s = [i \in 1..Len(s) |-> s[i]]
  BY SeqIs
<1>2. Len(s) # 0
  BY <1>1
<1> QED
  BY <1>1, <1>2

LEMMA RowsAre ==
  ASSUME LogTyped, NEW l, loads[l].n \in 0..Len(log), NEW t, t = Rows(l)
  PROVE  IsSeq(t) /\ \A i \in DOMAIN t : t[i].type \in Logs /\ t[i].ts \in 0..Len(log)
<1>1. PICK s : s = SubSeq(log, 1, loads[l].n)
  OBVIOUS
<1>2. PICK items : items = {e \in ToSet(s) : Durable(e)}
  OBVIOUS
<1>3. t = Among(s, items)
  BY <1>1, <1>2 DEF Rows, Logged
<1>4. IsSeq(s) /\ \A i \in DOMAIN s : \E k \in DOMAIN log : s[i] = log[k]
  <2>1. IsFirst(s, log, loads[l].n)
    BY <1>1 DEF IsFirst
  <2> QED
    BY <2>1, FirstOf DEF LogTyped
<1>5. IsSeq(t) /\ \A k \in DOMAIN t : \E i \in DOMAIN s : t[k] = s[i] /\ s[i] \in items
  BY <1>3, <1>4, AmongThem
<1>6. ASSUME NEW i \in DOMAIN t PROVE t[i].type \in Logs /\ t[i].ts \in 0..Len(log)
  <2>1. PICK k \in DOMAIN s : t[i] = s[k] /\ s[k] \in items
    BY <1>5
  <2>2. PICK j \in DOMAIN log : s[k] = log[j]
    BY <1>4
  <2>3. t[i].type \in Types /\ t[i].ts = j
    BY <2>1, <2>2 DEF LogTyped
  <2>4. t[i].type \notin {"chunk", "delta"}
    BY <1>2, <2>1 DEF Durable
  <2>5. j \in 0..Len(log)
    BY DEF LogTyped, IsSeq
  <2> QED
    BY <2>3, <2>4, <2>5 DEF Types, Logs
<1> QED
  BY <1>5, <1>6

\* The bubbles of ticks that p has are those that q has.
TicksStay(p, q) ==
  /\ IsPage(q) /\ q.ticks = p.ticks
  /\ \A id \in p.ticks : Has(p.slot, id) => Has(q.slot, id)

LEMMA AnyStay ==
  ASSUME NEW p, IsPage(p), NEW t, IsSeq(t),
         \A i \in DOMAIN p.slot : p.slot[i] \in Daemons(p) => \E k \in DOMAIN t : t[k] = p.slot[i]
  PROVE  \A id \in p.ticks : Has(p.slot, id) => Has(t, id)
<1> SUFFICES ASSUME NEW id \in p.ticks, Has(p.slot, id) PROVE Has(t, id)
  OBVIOUS
<1>1. PICK i \in DOMAIN p.slot : p.slot[i].id = id /\ IsMessage(p.slot[i])
  BY DEF Has
<1>2. p.slot[i] \in Daemons(p)
  BY <1>1 DEF Daemons, Daemon, ToSet
<1> QED
  BY <1>1, <1>2 DEF Has

LEMMA MergedStay ==
  ASSUME NEW p, IsPage(p), NEW r, IsReplay(r), NEW unchanged, NEW t, t = Merged(p, r, unchanged)
  PROVE  IsSeq(t) /\ \A id \in p.ticks : Has(p.slot, id) => Has(t, id)
<1>0. IsSeq(p.slot) /\ IsSeq(r.msgs)
  BY DEF IsPage, IsReplay
<1>1. PICK live : live = LiveBubbles(p, r, unchanged)
  OBVIOUS
<1>2. PICK a : a = Among(p.slot, Daemons(p))
  OBVIOUS
<1>3. PICK b : b = Among(p.slot, live)
  OBVIOUS
<1>4. PICK o : o = OtherRows(r, live)
  OBVIOUS
<1>5. PICK keep : keep = a \o b
  OBVIOUS
<1>6. PICK u : u = o \o keep
  OBVIOUS
<1>7. t = IF keep = <<>> THEN o ELSE ByTime(u)
  BY <1>1, <1>2, <1>3, <1>4, <1>5, <1>6 DEF Merged
<1>8. IsSeq(a) /\ \A i \in DOMAIN p.slot : p.slot[i] \in Daemons(p) => \E k \in DOMAIN a : a[k] = p.slot[i]
  BY <1>0, <1>2, AmongThem
<1>9. IsSeq(b)
  BY <1>0, <1>3, AmongThem
<1>10. IsSeq(o)
  BY <1>0, <1>4, AmongThem DEF OtherRows
<1>11. IsSeq(keep) /\ \A i \in DOMAIN a : i \in DOMAIN keep /\ keep[i] = a[i]
  <2>1. IsLink(keep, a, b)
    BY <1>5 DEF IsLink
  <2> QED
    BY <1>8, <1>9, <2>1, Linked
<1>12. IsSeq(u) /\ \A i \in DOMAIN keep : Len(o) + i \in DOMAIN u /\ u[Len(o) + i] = keep[i]
  <2>1. IsLink(u, o, keep)
    BY <1>6 DEF IsLink
  <2> QED
    BY <1>10, <1>11, <2>1, Linked
<1>13. CASE keep = <<>>
  <2>1. DOMAIN a = {}
    <3>1. DOMAIN keep = {}
      BY <1>13
    <3> QED
      BY <1>11, <3>1
  <2>2. \A i \in DOMAIN p.slot : p.slot[i] \notin Daemons(p)
    BY <1>8, <2>1
  <2> QED
    BY <1>7, <1>10, <1>13, <2>2, AnyStay
<1>14. CASE keep # <<>>
  <2>1. t = ByTime(u)
    BY <1>7, <1>14
  <2>2. IsSeq(t) /\ \A i \in DOMAIN u : \E k \in DOMAIN t : t[k] = u[i]
    BY <1>12, <2>1, ByTimeAll
  <2>3. ASSUME NEW i \in DOMAIN p.slot, p.slot[i] \in Daemons(p) PROVE \E k \in DOMAIN t : t[k] = p.slot[i]
    <3>1. PICK k \in DOMAIN a : a[k] = p.slot[i]
      BY <1>8, <2>3
    <3>2. Len(o) + k \in DOMAIN u /\ u[Len(o) + k] = p.slot[i]
      BY <1>11, <1>12, <3>1
    <3> QED
      BY <2>2, <3>2
  <2> QED
    BY <2>2, <2>3, AnyStay
<1> QED
  BY <1>13, <1>14

LEMMA NothingLoggedStay ==
  ASSUME NEW p, IsPage(p), NEW snap, NEW q, q = NothingLogged(p, snap)
  PROVE  TicksStay(p, q)
<1>1. CASE q = p
  BY <1>1 DEF TicksStay
<1>2. CASE q # p
  <2>1. PICK t : t = Among(p.slot, Daemons(p))
    OBVIOUS
  <2>2. q = [p EXCEPT !.slot = t]
    BY <1>2, <2>1 DEF NothingLogged
  <2>3. IsSeq(t) /\ \A i \in DOMAIN p.slot : p.slot[i] \in Daemons(p) => \E k \in DOMAIN t : t[k] = p.slot[i]
    BY <2>1, AmongThem DEF IsPage
  <2>4. \A id \in p.ticks : Has(p.slot, id) => Has(t, id)
    BY <2>3, AnyStay
  <2>5. q.slot = t /\ q.ticks = p.ticks
    BY <2>2 DEF IsPage
  <2>6. IsPage(q)
    BY <2>2, <2>3, <2>5 DEF IsPage
  <2> QED
    BY <2>4, <2>5, <2>6 DEF TicksStay
<1> QED
  BY <1>1, <1>2

LEMMA CommittedStay ==
  ASSUME LogTyped, cursor \in 0..Len(log), IsPage(page), NEW l, loads[l].n \in 0..Len(log),
         NEW st, st = Committed(l)
  PROVE  TicksStay(page, st.page) /\ st.cursor \in 0..Len(log)
<1>1. PICK rows : rows = Rows(l)
  OBVIOUS
<1>2. IsSeq(rows) /\ \A i \in DOMAIN rows : rows[i].type \in Logs /\ rows[i].ts \in 0..Len(log)
  BY <1>1, RowsAre
<1>3. CASE rows = <<>>
  <2>1. PICK q : q = NothingLogged(page, loads[l].snap)
    OBVIOUS
  <2>2. st.page = q /\ st.cursor = cursor
    BY <1>1, <1>3, <2>1 DEF Committed
  <2> QED
    BY <2>1, <2>2, NothingLoggedStay
<1>4. CASE rows # <<>>
  <2>1. PICK r : r = Replay(rows, page.fresh)
    OBVIOUS
  <2>2. IsReplay(r)
    BY <1>2, <2>1, ReplayIs
  <2>3. PICK t : t = Merged(page, r, page.slot = loads[l].snap)
    OBVIOUS
  <2>4. IsSeq(t) /\ \A id \in page.ticks : Has(page.slot, id) => Has(t, id)
    BY <2>2, <2>3, MergedStay
  <2>5. PICK streaming : st.page = [page EXCEPT !.slot = t, !.fresh = r.fresh, !.streaming = streaming]
    BY <1>1, <1>4, <2>1, <2>3 DEF Committed, CommittedReplay, CommittedAs
  <2>6. st.page.slot = t /\ st.page.ticks = page.ticks
    BY <2>5 DEF IsPage
  <2>7. IsPage(st.page)
    BY <2>4, <2>5, <2>6 DEF IsPage
  <2>8. st.cursor \in {Last(rows).ts, cursor}
    BY <1>1, <1>4, <2>1 DEF Committed, CommittedReplay, CommittedAs
  <2>9. Last(rows).ts \in 0..Len(log)
    BY <1>2, <1>4, NotEmpty DEF Last
  <2> QED
    BY <2>4, <2>6, <2>7, <2>8, <2>9 DEF TicksStay
<1> QED
  BY <1>3, <1>4

LEMMA LaterStay ==
  ASSUME NEW p, NEW st, TicksStay(p, st.page), NEW x, Later(st, x)
  PROVE  TicksStay(p, x.page) /\ x.cursor \in 0..Len(log)
BY DEF TicksStay, Later, After, Keeps

-------------------------------------------------------------------------------
\* The invariant.

ChanTyped == IsSeq(chan) /\ \A i \in DOMAIN chan : IsFrame(chan[i])

LoadsTyped ==
  /\ loads = [l \in Loads |-> loads[l]]
  /\ \A l \in Loads : loads[l] # None =>
       /\ loads[l] \in [snap : {loads[l].snap}, n : {loads[l].n}]
       /\ loads[l].n = None \/ loads[l].n \in 0..Len(log)

PageTyped == IsPage(page) /\ \A id \in page.ticks : Has(page.slot, id)

CursorTyped == cursor \in 0..Len(log)

SlotInv == LogTyped /\ ChanTyped /\ HeldTyped /\ LoadsTyped /\ CursorTyped /\ PageTyped

IsTail(t, s) == t = Tail(s)

LEMMA TailOf ==
  ASSUME NEW s, IsSeq(s), s # <<>>, NEW t, IsTail(t, s)
  PROVE  IsSeq(t) /\ \A i \in DOMAIN t : \E k \in DOMAIN s : t[i] = s[k]
<1> DEFINE S == {s[k] : k \in DOMAIN s}
<1>1. s \in Seq(S)
  BY DEF IsSeq
<1>2. t \in Seq(S)
  <2> HIDE DEF S
  <2>1. Tail(s) \in Seq(S)
    BY <1>1, HeadTailProperties, Zenon
  <2> QED
    BY <2>1, Zenon DEF IsTail
<1>3. IsSeq(t)
  <2>1. t \in Seq({t[i] : i \in DOMAIN t})
    BY <1>2, OwnElements
  <2> QED
    BY <2>1 DEF IsSeq
<1>4. \A i \in DOMAIN t : t[i] \in S
  <2> HIDE DEF S
  <2> QED
    BY <1>2
<1> QED
  BY <1>3, <1>4

LEMMA HeadOf == ASSUME NEW s, IsSeq(s), s # <<>> PROVE 1 \in DOMAIN s
<1>1. Len(s) \in Nat /\ DOMAIN s = 1..Len(s) /\ s = [i \in 1..Len(s) |-> s[i]]
  BY SeqIs
<1> QED
  BY <1>1

\* The page changed by an action.
LEMMA PageStays == ASSUME PageTyped, TicksStay(page, page') PROVE PageTyped'
BY DEF PageTyped, TicksStay

LEMMA PageAfter == ASSUME PageTyped, After(page, page') PROVE PageTyped'
BY DEF PageTyped, After, Keeps

\* What does not see the log grow.
LEMMA SameLog ==
  ASSUME LogTyped, log' = log
  PROVE  /\ LogTyped'
         /\ ChanTyped /\ chan' = chan => ChanTyped'
         /\ HeldTyped /\ held' = held => HeldTyped'
         /\ LoadsTyped /\ loads' = loads => LoadsTyped'
         /\ CursorTyped /\ cursor' = cursor => CursorTyped'
         /\ PageTyped /\ page' = page => PageTyped'
BY DEF LogTyped, ChanTyped, HeldTyped, LoadsTyped, CursorTyped, PageTyped, IsFrame

-------------------------------------------------------------------------------
\* The server.

LEMMA Sends ==
  ASSUME SlotInv, NEW type \in Types, NEW arg, Send(type, arg)
  PROVE  LogTyped' /\ ChanTyped' /\ Len(log) \in Nat /\ Len(log') = Len(log) + 1
<1>0. IsSeq(log) /\ Len(log) \in Nat /\ DOMAIN log = 1..Len(log)
  BY DEF SlotInv, LogTyped, IsSeq
<1>1. PICK e : e = Ev(type, Len(log) + 1, arg)
  OBVIOUS
<1>2. e.type = type /\ e.ts = Len(log) + 1
  BY <1>1 DEF Ev
<1>3. PICK t : t = Append(log, e)
  OBVIOUS
<1>4. log' = t
  BY <1>1, <1>3 DEF Send
<1>5. /\ IsSeq(t)
      /\ \A k \in DOMAIN t : k \in DOMAIN log \/ t[k] = e
      /\ Len(log) + 1 \in DOMAIN t /\ t[Len(log) + 1] = e
      /\ \A i \in DOMAIN log : i \in DOMAIN t /\ t[i] = log[i]
  <2>1. IsGrown(t, log, e)
    BY <1>3 DEF IsGrown
  <2> QED
    BY <1>0, <2>1, Grown
<1>6. Len(t) = Len(log) + 1
  <2> DEFINE T == {log[i] : i \in DOMAIN log} \cup {e}
  <2>1. log \in Seq(T) /\ e \in T
    BY <1>0 DEF IsSeq
  <2> HIDE DEF T
  <2> QED
    BY <1>3, <2>1
<1>7. LogTyped'
  <2>1. \A i \in DOMAIN t : i \in DOMAIN log \/ i = Len(log) + 1
    BY <1>0, <1>5, <1>6 DEF IsSeq
  <2>2. \A i \in DOMAIN t : t[i].ts = i /\ t[i].type \in Types
    BY <1>2, <1>5, <2>1 DEF SlotInv, LogTyped
  <2> QED
    BY <1>4, <1>5, <2>2 DEF LogTyped
<1>8. ChanTyped'
  <2>0. IsSeq(chan) /\ \A i \in DOMAIN chan : /\ chan[i].kind \in {"event", "snapshot", "gap"}
                                              /\ chan[i].n \in 0..Len(log) + 1
                                              /\ chan[i].kind = "event" => chan[i].n # 0
    BY <1>0 DEF SlotInv, ChanTyped, IsFrame
  <2>1. PICK f : f = [kind |-> "event", n |-> Len(log) + 1]
    OBVIOUS
  <2>2. PICK c : c = Append(chan, f)
    OBVIOUS
  <2>3. chan' = chan \/ chan' = c
    BY <2>1, <2>2 DEF Send
  <2>4. IsSeq(c) /\ \A k \in DOMAIN c : k \in DOMAIN chan \/ c[k] = f
    <3>1. IsGrown(c, chan, f)
      BY <2>2 DEF IsGrown
    <3> QED
      BY <2>0, <3>1, Grown
  <2>5. \A k \in DOMAIN chan : c[k] = chan[k]
    <3>1. IsGrown(c, chan, f)
      BY <2>2 DEF IsGrown
    <3>2. ASSUME NEW k \in DOMAIN chan PROVE k \in DOMAIN c /\ c[k] = chan[k]
      BY <2>0, <3>1, Grown
    <3> QED
      BY <3>2
  <2>6. \A k \in DOMAIN c : /\ c[k].kind \in {"event", "snapshot", "gap"}
                            /\ c[k].n \in 0..Len(log) + 1
                            /\ c[k].kind = "event" => c[k].n # 0
    BY <1>0, <2>0, <2>1, <2>4, <2>5
  <2>7. CASE chan' = chan
    BY <1>4, <1>6, <2>0, <2>7 DEF ChanTyped, IsFrame
  <2>8. CASE chan' = c
    BY <1>4, <1>6, <2>4, <2>6, <2>8 DEF ChanTyped, IsFrame
  <2> QED
    BY <2>3, <2>7, <2>8
<1> QED
  BY <1>0, <1>4, <1>6, <1>7, <1>8

LEMMA SendKeeps ==
  ASSUME SlotInv, NEW type \in Types, NEW arg, Send(type, arg), UNCHANGED <<page, cursor, held, loads>>
  PROVE  SlotInv'
<1>1. LogTyped' /\ ChanTyped' /\ Len(log) \in Nat /\ Len(log') = Len(log) + 1
  BY Sends
<1>2. HeldTyped'
  BY <1>1 DEF SlotInv, HeldTyped, IsFrame
<1>3. LoadsTyped'
  BY <1>1 DEF SlotInv, LoadsTyped
<1>4. CursorTyped' /\ PageTyped'
  BY <1>1 DEF SlotInv, CursorTyped, PageTyped
<1> QED
  BY <1>1, <1>2, <1>3, <1>4 DEF SlotInv

LEMMA EmitKeeps == ASSUME SlotInv, NEW type \in Types, NEW arg, Emit(type, arg) PROVE SlotInv'
BY SendKeeps DEF Emit

LEMMA ServerKeeps == ASSUME SlotInv, Server PROVE SlotInv'
<1>1. CASE EmitRequest \/ EmitMail \/ EmitStart \/ EmitChunk \/ EmitStep \/ EmitEnd \/ EmitAbort
  BY <1>1, EmitKeeps DEF EmitRequest, EmitMail, EmitStart, EmitChunk, EmitStep, EmitEnd, EmitAbort, Types
<1>2. CASE EmitOwn
  BY <1>2, SendKeeps DEF EmitOwn, Types
<1>3. ASSUME NEW c \in Calls, EmitDelta(c) \/ EmitCall(c) \/ EmitCheckpoint(c) PROVE SlotInv'
  BY <1>3, EmitKeeps DEF EmitDelta, EmitCall, EmitCheckpoint, Types
<1>4. ASSUME NEW c \in Calls, NEW status \in {"done", "error"}, EmitResult(c, status) PROVE SlotInv'
  BY <1>4, EmitKeeps DEF EmitResult, Types
<1>5. ASSUME NEW l \in Loads, ReadLog(l) PROVE SlotInv'
  <2>1. LogTyped' /\ ChanTyped' /\ HeldTyped' /\ CursorTyped' /\ PageTyped'
    BY <1>5, SameLog DEF ReadLog, SlotInv
  <2>2. Len(log) \in 0..Len(log)
    BY DEF SlotInv, LogTyped, IsSeq
  <2>3. LoadsTyped'
    BY <1>5, <2>2 DEF ReadLog, SlotInv, LoadsTyped
  <2> QED
    BY <2>1, <2>3 DEF SlotInv
<1> QED
  BY <1>1, <1>2, <1>3, <1>4, <1>5 DEF Server

-------------------------------------------------------------------------------
\* The page and its link.

LEMMA ReceiveKeeps == ASSUME SlotInv, Receive PROVE SlotInv'
<1>0. log' = log /\ IsSeq(chan) /\ chan # <<>> /\ \A i \in DOMAIN chan : IsFrame(chan[i])
  BY DEF Receive, Rest, SlotInv, ChanTyped
<1>1. PICK f : f = Head(chan)
  OBVIOUS
<1>2. IsFrame(f)
  <2>1. 1 \in DOMAIN chan
    BY <1>0, HeadOf
  <2>2. f = chan[1]
    BY <1>1
  <2> QED
    BY <1>0, <2>1, <2>2
<1>3. ChanTyped'
  <2>1. PICK t : IsTail(t, chan)
    BY DEF IsTail
  <2>2. IsSeq(t) /\ \A i \in DOMAIN t : \E k \in DOMAIN chan : t[i] = chan[k]
    BY <1>0, <2>1, TailOf
  <2>3. chan' = t
    BY <2>1 DEF Receive, IsTail
  <2>4. \A i \in DOMAIN t : IsFrame(t[i])
    BY <1>0, <2>2
  <2> QED
    BY <1>0, <2>2, <2>3, <2>4 DEF ChanTyped, IsFrame
<1>4. LogTyped'
  BY <1>0, SameLog DEF SlotInv
<1>5. CASE f.kind # "gap" /\ held = None /\ Becomes(Applied(Now, f)) /\ UNCHANGED <<held, loads>>
  <2>1. PICK st : st = Now
    OBVIOUS
  <2>2. st.page = page /\ st.cursor = cursor
    BY <2>1 DEF Now
  <2>3. PICK x : x = Applied(st, f)
    OBVIOUS
  <2>4. IsPage(st.page) /\ st.cursor \in 0..Len(log) /\ LogTyped
    BY <2>2 DEF SlotInv, PageTyped, CursorTyped
  <2>5. Later(st, x)
    BY <1>2, <1>5, <2>3, <2>4, AppliedLater
  <2>6. page' = x.page /\ cursor' = x.cursor
    BY <1>5, <2>1, <2>3 DEF Becomes
  <2>7. PageTyped'
    BY <2>2, <2>5, <2>6, PageAfter DEF Later, SlotInv
  <2>8. CursorTyped'
    BY <1>0, <2>5, <2>6 DEF Later, CursorTyped
  <2>9. HeldTyped' /\ LoadsTyped'
    BY <1>0, <1>5, SameLog DEF SlotInv
  <2> QED
    BY <1>3, <1>4, <2>7, <2>8, <2>9 DEF SlotInv
<1>6. CASE f.kind # "gap" /\ held # None /\ held' = Append(held, f) /\ UNCHANGED <<page, cursor, loads>>
  <2>1. PICK h : IsGrown(h, held, f)
    BY DEF IsGrown
  <2>2. IsSeq(held) /\ \A i \in DOMAIN held : IsFrame(held[i]) /\ held[i].kind # "gap"
    BY <1>6 DEF SlotInv, HeldTyped
  <2>3. IsSeq(h) /\ \A k \in DOMAIN h : k \in DOMAIN held \/ h[k] = f
    BY <2>1, <2>2, Grown
  <2>4. ASSUME NEW k \in DOMAIN held PROVE k \in DOMAIN h /\ h[k] = held[k]
    BY <2>1, <2>2, Grown
  <2>5. \A k \in DOMAIN h : IsFrame(h[k]) /\ h[k].kind # "gap"
    BY <1>2, <1>6, <2>2, <2>3, <2>4
  <2>6. held' = h
    BY <1>6, <2>1 DEF IsGrown
  <2>7. HeldTyped'
    BY <1>0, <2>3, <2>5, <2>6 DEF HeldTyped, IsFrame
  <2>8. LoadsTyped' /\ CursorTyped' /\ PageTyped'
    BY <1>0, <1>6, SameLog DEF SlotInv
  <2> QED
    BY <1>3, <1>4, <2>7, <2>8 DEF SlotInv
<1>7. CASE /\ held' = <<>>
           /\ loads' = [loads EXCEPT !["gap"] = [snap |-> page.slot, n |-> None]]
           /\ UNCHANGED <<page, cursor>>
  <2>1. HeldTyped'
    BY <1>7 DEF HeldTyped, IsSeq
  <2>2. LoadsTyped'
    BY <1>0, <1>7 DEF SlotInv, LoadsTyped
  <2>3. CursorTyped' /\ PageTyped'
    BY <1>0, <1>7, SameLog DEF SlotInv
  <2> QED
    BY <1>3, <1>4, <2>1, <2>2, <2>3 DEF SlotInv
<1> QED
  BY <1>1, <1>5, <1>6, <1>7 DEF Receive

LEMMA FrameKeeps == ASSUME SlotInv, Frame PROVE SlotInv'
<1>1. PICK p : p = page
  OBVIOUS
<1>2. PICK q : q = FlushDeltas(p)
  OBVIOUS
<1>3. PICK x : x = FlushText(q)
  OBVIOUS
<1>4. After(p, q) /\ IsPage(q)
  BY <1>1, <1>2, FlushDeltasAfter DEF SlotInv, PageTyped, After
<1>5. After(q, x)
  BY <1>3, <1>4, FlushTextAfter
<1>6. After(p, x)
  BY <1>4, <1>5, AfterOn
<1>7. page' = x
  BY <1>1, <1>2, <1>3 DEF Frame
<1>8. PageTyped'
  BY <1>1, <1>6, <1>7, PageAfter DEF SlotInv
<1> QED
  BY <1>8, SameLog DEF SlotInv, Frame, Rest

LEMMA DropKeeps == ASSUME SlotInv, Drop PROVE SlotInv'
<1>1. ChanTyped'
  BY DEF Drop, ChanTyped, IsSeq
<1> QED
  BY <1>1, SameLog DEF SlotInv, Drop

LEMMA ReconnectKeeps == ASSUME SlotInv, Reconnect PROVE SlotInv'
<1>0. log' = log /\ Len(log) \in Nat /\ cursor \in 0..Len(log)
  BY DEF Reconnect, SlotInv, CursorTyped, LogTyped, IsSeq
<1>1. CASE chan' = [i \in 1..(Len(log) - cursor) |-> [kind |-> "event", n |-> cursor + i]]
  <2>1. PICK k : k = Len(log) - cursor
    OBVIOUS
  <2>2. k \in Nat
    BY <1>0, <2>1
  <2>3. PICK c : c = [i \in 1..k |-> [kind |-> "event", n |-> cursor + i]]
    OBVIOUS
  <2>4. chan' = c
    BY <1>1, <2>1, <2>3
  <2>5. IsSeq(c) /\ DOMAIN c = 1..k
    BY <2>2, <2>3 DEF IsSeq
  <2>6. \A i \in DOMAIN c : IsFrame(c[i])
    BY <1>0, <2>1, <2>2, <2>3 DEF IsFrame
  <2> QED
    BY <1>0, <2>4, <2>5, <2>6, SameLog DEF SlotInv, Reconnect, ChanTyped, IsFrame
<1>2. CASE chan' = <<[kind |-> "gap", n |-> 0]>> \o RunningTurn
  <2>1. PICK a : a = <<[kind |-> "gap", n |-> 0]>>
    OBVIOUS
  <2>2. IsSeq(a) /\ \A i \in DOMAIN a : IsFrame(a[i])
    BY <1>0, <2>1 DEF IsSeq, IsFrame
  <2>3. PICK b : b = RunningTurn
    OBVIOUS
  <2>4. IsSeq(b) /\ \A i \in DOMAIN b : IsFrame(b[i])
    <3>1. CASE Running
      <4>1. b = <<[kind |-> "snapshot", n |-> Len(log)]>>
        BY <2>3, <3>1 DEF RunningTurn
      <4> QED
        BY <1>0, <4>1 DEF IsSeq, IsFrame
    <3>2. CASE ~Running
      <4>1. b = <<>>
        BY <2>3, <3>2 DEF RunningTurn
      <4> QED
        BY <4>1 DEF IsSeq
    <3> QED
      BY <3>1, <3>2
  <2>5. PICK c : IsLink(c, a, b)
    BY DEF IsLink
  <2>6. chan' = c
    BY <1>2, <2>1, <2>3, <2>5 DEF IsLink
  <2>7. IsSeq(c) /\ \A i \in DOMAIN c : IsFrame(c[i])
    <3> DEFINE T == {f \in {a[i] : i \in DOMAIN a} \cup {b[i] : i \in DOMAIN b} : IsFrame(f)}
    <3>1. a \in Seq(T) /\ b \in Seq(T)
      BY <2>2, <2>4 DEF IsSeq
    <3>2. \A f \in T : IsFrame(f)
      OBVIOUS
    <3> HIDE DEF T
    <3>3. c \in Seq(T)
      BY <2>5, <3>1 DEF IsLink
    <3>4. IsSeq(c)
      BY <2>2, <2>4, <2>5, Linked
    <3> QED
      BY <3>2, <3>3, <3>4
  <2> QED
    BY <1>0, <2>6, <2>7, SameLog DEF SlotInv, Reconnect, ChanTyped, IsFrame
<1> QED
  BY <1>1, <1>2 DEF Reconnect

LEMMA OpenTabKeeps == ASSUME SlotInv, OpenTab PROVE SlotInv'
<1>1. LoadsTyped'
  BY DEF SlotInv, OpenTab, LoadsTyped
<1> QED
  BY <1>1, SameLog DEF SlotInv, OpenTab

\* A load over: the frames held are applied to what it made of the page.
LEMMA ReleaseKeeps ==
  ASSUME SlotInv, NEW st, TicksStay(page, st.page), st.cursor \in 0..Len(log),
         NEW l \in Loads, Becomes(Released(st, l)),
         loads' = [loads EXCEPT ![l] = None], held' = IF l = "gap" THEN None ELSE held,
         UNCHANGED <<log, chan>>
  PROVE  SlotInv'
<1>1. PICK x : x = Released(st, l)
  OBVIOUS
<1>2. Later(st, x)
  BY <1>1, ReleasedLater DEF SlotInv, TicksStay
<1>3. TicksStay(page, x.page) /\ x.cursor \in 0..Len(log)
  BY <1>2, LaterStay
<1>4. page' = x.page /\ cursor' = x.cursor
  BY <1>1 DEF Becomes
<1>5. PageTyped'
  BY <1>3, <1>4, PageStays DEF SlotInv
<1>6. CursorTyped'
  BY <1>3, <1>4 DEF CursorTyped
<1>7. HeldTyped'
  BY DEF SlotInv, HeldTyped, IsFrame
<1>8. LoadsTyped'
  BY DEF SlotInv, LoadsTyped
<1> QED
  BY <1>5, <1>6, <1>7, <1>8, SameLog DEF SlotInv

LEMMA CommitLoadKeeps == ASSUME SlotInv, NEW l \in Loads, CommitLoad(l) PROVE SlotInv'
<1>1. PICK st : st = Committed(l)
  OBVIOUS
<1>2. loads[l].n \in 0..Len(log)
  BY DEF CommitLoad, SlotInv, LoadsTyped
<1>3. TicksStay(page, st.page) /\ st.cursor \in 0..Len(log)
  BY <1>1, <1>2, CommittedStay DEF SlotInv, PageTyped, CursorTyped
<1>4. Becomes(Released(st, l))
  BY <1>1 DEF CommitLoad
<1> QED
  BY <1>3, <1>4, ReleaseKeeps DEF CommitLoad, Rest

LEMMA FailLoadKeeps == ASSUME SlotInv, NEW l \in Loads, FailLoad(l) PROVE SlotInv'
<1>1. PICK q : q = NothingLogged(page, loads[l].snap)
  OBVIOUS
<1>2. TicksStay(page, q)
  BY <1>1, NothingLoggedStay DEF SlotInv, PageTyped
<1>3. PICK st : st = [Now EXCEPT !.page = q]
  OBVIOUS
<1>4. st.page = q /\ st.cursor = cursor
  BY <1>3 DEF Now
<1>5. Becomes(Released(st, l))
  BY <1>1, <1>3 DEF FailLoad
<1> QED
  BY <1>2, <1>4, <1>5, ReleaseKeeps DEF FailLoad, Rest, SlotInv, CursorTyped

-------------------------------------------------------------------------------
\* Sends and ticks.

LEMMA PageOnly ==
  ASSUME SlotInv, UNCHANGED <<log, chan, cursor, held, loads>>, After(page, page')
  PROVE  SlotInv'
BY SameLog, PageAfter DEF SlotInv

LEMMA SendMessageKeeps == ASSUME SlotInv, SendMessage PROVE SlotInv'
<1>1. PICK p : p = page
  OBVIOUS
<1>2. IsPage(p) /\ IsSeq(p.slot)
  BY <1>1 DEF SlotInv, PageTyped, IsPage
<1>3. PICK rows : rows = <<Message("user", p.fresh, None, "done", Len(log)),
                           Message("assistant", p.fresh + 1, None, "streaming", Len(log))>>
  OBVIOUS
<1>4. PICK t : IsLink(t, p.slot, rows)
  BY DEF IsLink
<1>5. IsSeq(rows)
  BY <1>3 DEF IsSeq
<1>6. IsSeq(t) /\ \A i \in DOMAIN p.slot : i \in DOMAIN t /\ t[i] = p.slot[i]
  BY <1>2, <1>4, <1>5, Linked
<1>7. PICK q : q = [p EXCEPT !.slot = t, !.fresh = @ + 2, !.streaming = TRUE]
  OBVIOUS
<1>8. page' = q
  BY <1>1, <1>3, <1>4, <1>7 DEF SendMessage, IsLink
<1>9. q.slot = t /\ q.ticks = p.ticks /\ IsRecord(q)
  BY <1>2, <1>7 DEF IsPage, IsRecord
<1>10. After(p, q)
  BY <1>2, <1>6, <1>9, MoreAfter
<1> QED
  BY <1>1, <1>8, <1>10, PageOnly DEF SendMessage

\* One row of the page is changed.
LEMMA PatchedKeeps ==
  ASSUME SlotInv, UNCHANGED <<log, chan, cursor, held, loads>>,
         NEW t, page' = [page EXCEPT !.slot = t], IsOver(t, page.slot)
  PROVE  SlotInv'
<1>1. PICK p : p = page
  OBVIOUS
<1>2. PICK q : q = [p EXCEPT !.slot = t]
  OBVIOUS
<1>3. IsPage(p)
  BY <1>1 DEF SlotInv, PageTyped
<1>4. q.slot = t /\ q.ticks = p.ticks /\ IsRecord(q)
  BY <1>2, <1>3 DEF IsPage, IsRecord
<1>5. After(p, q)
  BY <1>1, <1>3, <1>4, OverAfter
<1> QED
  BY <1>1, <1>2, <1>5, PageOnly

LEMMA PostAnsweredKeeps == ASSUME SlotInv, NEW post, PostAnswered(post) PROVE SlotInv'
<1>1. PICK t : t = [i \in DOMAIN page.slot |-> IF page.slot[i].id = post[1]
                                              THEN [page.slot[i] EXCEPT !.key = Request(post[2])]
                                              ELSE page.slot[i]]
  OBVIOUS
<1>2. page' = [page EXCEPT !.slot = t]
  BY <1>1 DEF PostAnswered, Patch
<1>3. IsOver(t, page.slot)
  <2>1. \A i \in DOMAIN page.slot : Same(page.slot[i], t[i])
    BY <1>1 DEF Same, IsMessage
  <2> QED
    BY <1>1, <2>1 DEF IsOver
<1> QED
  BY <1>2, <1>3, PatchedKeeps DEF PostAnswered

LEMMA TickEventKeeps == ASSUME SlotInv, NEW id, TickEvent(id) PROVE SlotInv'
<1>1. PICK t : t = [i \in DOMAIN page.slot |-> IF page.slot[i].id = id
                                              THEN [page.slot[i] EXCEPT !.text = Append(@, 0)]
                                              ELSE page.slot[i]]
  OBVIOUS
<1>2. page' = [page EXCEPT !.slot = t]
  BY <1>1 DEF TickEvent, Patch
<1>3. IsOver(t, page.slot)
  <2>1. \A i \in DOMAIN page.slot : Same(page.slot[i], t[i])
    BY <1>1 DEF Same, IsMessage
  <2> QED
    BY <1>1, <2>1 DEF IsOver
<1> QED
  BY <1>2, <1>3, PatchedKeeps DEF TickEvent

LEMMA TickEndKeeps == ASSUME SlotInv, NEW id, TickEnd(id) PROVE SlotInv'
<1>1. PICK t : t = [i \in DOMAIN page.slot |-> IF page.slot[i].id = id
                                              THEN [page.slot[i] EXCEPT !.status = "done"]
                                              ELSE page.slot[i]]
  OBVIOUS
<1>2. page' = [page EXCEPT !.slot = t]
  BY <1>1 DEF TickEnd, Patch
<1>3. IsOver(t, page.slot)
  <2>1. \A i \in DOMAIN page.slot : Same(page.slot[i], t[i])
    BY <1>1 DEF Same, IsMessage
  <2> QED
    BY <1>1, <2>1 DEF IsOver
<1> QED
  BY <1>2, <1>3, PatchedKeeps DEF TickEnd

LEMMA TickStartKeeps == ASSUME SlotInv, TickStart PROVE SlotInv'
<1>1. PICK p : p = page
  OBVIOUS
<1>2. IsPage(p) /\ IsSeq(p.slot)
  BY <1>1 DEF SlotInv, PageTyped, IsPage
<1>3. PICK m : m = Message("assistant", p.fresh, None, "streaming", Len(log))
  OBVIOUS
<1>4. PICK t : IsGrown(t, p.slot, m)
  BY DEF IsGrown
<1>5. PICK q : q = [p EXCEPT !.slot = t, !.fresh = @ + 1, !.ticks = {p.fresh}]
  OBVIOUS
<1>6. page' = q
  BY <1>1, <1>3, <1>4, <1>5 DEF TickStart, IsGrown
<1>7. IsSeq(t) /\ \E j \in DOMAIN t : t[j] = m
  BY <1>2, <1>4, GrownHas
<1>8. q.slot = t /\ q.ticks = {p.fresh}
  BY <1>2, <1>5 DEF IsPage
<1>9. Has(t, p.fresh)
  BY <1>3, <1>7, MessageIs DEF Has
<1>10. PageTyped'
  <2>1. IsPage(q)
    BY <1>2, <1>5, <1>7, <1>8 DEF IsPage
  <2> QED
    BY <1>6, <1>8, <1>9, <2>1 DEF PageTyped
<1> QED
  BY <1>10, SameLog DEF SlotInv, TickStart

-------------------------------------------------------------------------------

LEMMA InitSlot == Init => SlotInv
<1> SUFFICES ASSUME Init PROVE SlotInv
  OBVIOUS
<1>1. LogTyped /\ ChanTyped /\ HeldTyped /\ CursorTyped
  BY DEF Init, LogTyped, ChanTyped, HeldTyped, CursorTyped, IsSeq
<1>2. LoadsTyped
  BY DEF Init, LoadsTyped
<1>3. PageTyped
  BY DEF Init, PageTyped, IsPage, IsSeq
<1> QED
  BY <1>1, <1>2, <1>3 DEF SlotInv

LEMMA NextSlot == SlotInv /\ [Next]_vars => SlotInv'
<1> SUFFICES ASSUME SlotInv, [Next]_vars PROVE SlotInv'
  OBVIOUS
<1>1. CASE Server
  BY <1>1, ServerKeeps
<1>2. CASE Receive
  BY <1>2, ReceiveKeeps
<1>3. CASE Frame
  BY <1>3, FrameKeeps
<1>4. CASE Drop
  BY <1>4, DropKeeps
<1>5. CASE Reconnect
  BY <1>5, ReconnectKeeps
<1>6. CASE OpenTab
  BY <1>6, OpenTabKeeps
<1>7. ASSUME NEW l \in Loads, CommitLoad(l) \/ FailLoad(l) PROVE SlotInv'
  BY <1>7, CommitLoadKeeps, FailLoadKeeps
<1>8. CASE SendMessage
  BY <1>8, SendMessageKeeps
<1>9. ASSUME NEW post \in posts, PostAnswered(post) PROVE SlotInv'
  BY <1>9, PostAnsweredKeeps
<1>10. CASE TickStart
  BY <1>10, TickStartKeeps
<1>11. ASSUME NEW id \in page.ticks, TickEvent(id) \/ TickEnd(id) PROVE SlotInv'
  BY <1>11, TickEventKeeps, TickEndKeeps
<1>12. CASE UNCHANGED vars
  BY <1>12, SameLog DEF SlotInv, vars
<1> QED
  BY <1>1, <1>2, <1>3, <1>4, <1>5, <1>6, <1>7, <1>8, <1>9, <1>10, <1>11, <1>12 DEF Next

\* A bubble of a daemon tick is not lost, whatever is loaded, merged or dispatched while
\* the tick runs or after (daemon-tick.ts; the daemon rows that loadSession keeps,
\* store.ts), for any constants.
THEOREM TicksAreKept == Spec => []TicksKept
<1>1. SlotInv => TicksKept
  BY DEF SlotInv, PageTyped, TicksKept, Has
<1> QED
  BY <1>1, InitSlot, NextSlot, PTL DEF Spec
================================================================================
