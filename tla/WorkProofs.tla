------------------------------ MODULE WorkProofs ------------------------------
(***************************************************************************)
(* WorkTimeline, the instance V of MCFlows: WorkShown, what the chat panel   *)
(* renders of a conversation, for any turns, agents and todo lists and a     *)
(* transcript of any length.  TalkInv says what a transcript is;             *)
(* ProjectionFits what the projection of its first n messages is, proved     *)
(* along the fold; Spread and Sits how the steps of a process are laid out   *)
(* under the tasks of its list.                                             *)
(*                                                                         *)
(* The lemmas about sequences and loops are also used by ComponentProofs.    *)
(***************************************************************************)
EXTENDS MCFlows, SequenceTheorems, FiniteSetTheorems, WellFoundedInduction, TLAPS

-------------------------------------------------------------------------------
\* Sequences.

IsSeq(s) == s \in Seq({s[i] : i \in DOMAIN s})

LEMMA SeqIs ==
  ASSUME NEW s
  PROVE  IsSeq(s) <=> Len(s) \in Nat /\ DOMAIN s = 1..Len(s) /\ s = [i \in 1..Len(s) |-> s[i]]
<1>1. ASSUME IsSeq(s) PROVE Len(s) \in Nat /\ DOMAIN s = 1..Len(s) /\ s = [i \in 1..Len(s) |-> s[i]]
  BY <1>1 DEF IsSeq
<1>2. ASSUME Len(s) \in Nat, DOMAIN s = 1..Len(s), s = [i \in 1..Len(s) |-> s[i]] PROVE IsSeq(s)
  BY <1>2 DEF IsSeq
<1> QED
  BY <1>1, <1>2

LEMMA OwnElements ==
  ASSUME NEW E, NEW s \in Seq(E) PROVE s \in Seq({s[i] : i \in DOMAIN s})
<1>1. Len(s) \in Nat /\ DOMAIN s = 1..Len(s) /\ s = [i \in 1..Len(s) |-> s[i]]
  OBVIOUS
<1> QED
  BY <1>1

LEMMA Nothing ==
  ASSUME NEW s, s = <<>>
  PROVE  IsSeq(s) /\ Len(s) = 0 /\ \A x : x \notin DOMAIN s
<1>1. s \in Seq({}) /\ Len(s) = 0
  OBVIOUS
<1>2. DOMAIN s = 1..0
  BY <1>1
<1>3. IsSeq(s)
  <2>1. s \in Seq({s[i] : i \in DOMAIN s})
    BY <1>1, OwnElements
  <2> QED
    BY <2>1 DEF IsSeq
<1> QED
  BY <1>1, <1>2, <1>3

IsGrown(t, s, e) == t = Append(s, e)

LEMMA Grown ==
  ASSUME NEW s, IsSeq(s), NEW e, NEW t, IsGrown(t, s, e)
  PROVE  /\ IsSeq(t) /\ Len(t) = Len(s) + 1 /\ DOMAIN t = 1..Len(s) + 1
         /\ Len(s) \in Nat /\ DOMAIN s = 1..Len(s)
         /\ t[Len(s) + 1] = e
         /\ \A i \in DOMAIN s : t[i] = s[i]
<1> DEFINE E == {s[i] : i \in DOMAIN s} \cup {e}
<1>0. t = Append(s, e)
  BY DEF IsGrown
<1>1. s \in Seq(E) /\ e \in E
  BY DEF IsSeq
<1> HIDE DEF E
<1>2. t \in Seq(E) /\ Len(t) = Len(s) + 1 /\ Len(s) \in Nat
  BY <1>0, <1>1
<1>3. t[Len(s) + 1] = e /\ \A i \in 1..Len(s) : t[i] = s[i]
  BY <1>0, <1>1
<1>4. DOMAIN s = 1..Len(s) /\ DOMAIN t = 1..Len(s) + 1
  BY <1>1, <1>2
<1>5. IsSeq(t)
  <2>1. t \in Seq({t[i] : i \in DOMAIN t})
    BY <1>2, OwnElements
  <2> QED
    BY <2>1 DEF IsSeq
<1> QED
  BY <1>2, <1>3, <1>4, <1>5

LEMMA LeastElement ==
  ASSUME NEW I, I \subseteq Nat, I # {}
  PROVE  \E x \in I : \A y \in I : x <= y
<1> DEFINE W == OpToRel(<, Nat)
<1>1. \A x, y \in Nat : x < y => <<x, y>> \in W
  BY DEF OpToRel
<1> HIDE DEF W
<1>2. IsWellFoundedOn(W, Nat)
  BY NatLessThanWellFounded DEF W
<1>3. PICK x \in I : \A y \in I : ~ (<<y, x>> \in W)
  BY <1>2, WFMin
<1>4. x \in Nat
  BY <1>3
<1>5. ASSUME NEW y \in I PROVE x <= y
  <2>1. y \in Nat /\ ~ (<<y, x>> \in W)
    BY <1>3
  <2>2. ~ (y < x)
    BY <1>1, <1>4, <2>1
  <2> QED
    BY <1>4, <2>1, <2>2
<1> QED
  BY <1>5

LEMMA MinIs ==
  ASSUME NEW I, I \subseteq Nat, I # {}
  PROVE  V!Min(I) \in I /\ \A y \in I : V!Min(I) <= y
<1>1. \E x \in I : \A y \in I : x <= y
  BY LeastElement
<1> QED
  BY <1>1 DEF V!Min

LEMMA MaxIs ==
  ASSUME NEW n \in Nat, NEW I, I \subseteq 1..n, I # {}
  PROVE  V!Max(I) \in I /\ \A y \in I : V!Max(I) >= y
<1> DEFINE J == {n - x : x \in I}
<1>1. J \subseteq Nat /\ J # {}
  <2>1. \A x \in I : n - x \in Nat
    OBVIOUS
  <2> QED
    BY <2>1
<1> HIDE DEF J
<1>2. PICK z \in J : \A y \in J : z <= y
  BY <1>1, LeastElement
<1>3. PICK x \in I : z = n - x
  BY <1>2 DEF J
<1>4. ASSUME NEW y \in I PROVE x >= y
  <2>1. n - y \in J
    BY DEF J
  <2>2. n - x <= n - y
    BY <1>2, <1>3, <2>1
  <2>3. x \in Nat /\ y \in Nat
    OBVIOUS
  <2> QED
    BY <2>2, <2>3
<1>5. \E v \in I : \A y \in I : v >= y
  BY <1>4
<1> QED
  BY <1>5 DEF V!Max

LEMMA PutIn ==
  ASSUME NEW s, IsSeq(s), NEW m \in DOMAIN s, NEW e, NEW t, t = V!InsertAt(s, m, e)
  PROVE  /\ IsSeq(t) /\ Len(t) = Len(s) + 1 /\ DOMAIN t = 1..Len(s) + 1
         /\ \A k \in DOMAIN t : t[k] = IF k < m THEN s[k] ELSE IF k = m THEN e ELSE s[k - 1]
<1> DEFINE S == {s[i] : i \in DOMAIN s} \cup {e}
<1>0. Len(s) \in Nat /\ DOMAIN s = 1..Len(s) /\ m \in 1..Len(s) /\ s \in Seq(S) /\ e \in S
  BY DEF IsSeq
<1> HIDE DEF S
<1>1. PICK a : a = SubSeq(s, 1, m - 1)
  OBVIOUS
<1>2. PICK b : b = SubSeq(s, m, Len(s))
  OBVIOUS
<1>3. PICK c : c = a \o <<e>>
  OBVIOUS
<1>4. t = c \o b
  BY <1>1, <1>2, <1>3 DEF V!InsertAt
<1>5. a \in Seq(S) /\ Len(a) = m - 1 /\ \A k \in 1..m - 1 : a[k] = s[k]
  BY <1>0, <1>1
<1>6. b \in Seq(S) /\ Len(b) = Len(s) - m + 1 /\ \A k \in 1..Len(s) - m + 1 : b[k] = s[m + k - 1]
  BY <1>0, <1>2
<1>7. c \in Seq(S) /\ Len(c) = m /\ c[m] = e /\ \A k \in 1..m - 1 : c[k] = s[k]
  BY <1>0, <1>3, <1>5
<1>8. t \in Seq(S) /\ Len(t) = Len(s) + 1
  <2>1. c \o b \in Seq(S) /\ Len(c \o b) = Len(c) + Len(b)
    BY <1>6, <1>7, ConcatProperties, Zenon
  <2>2. t \in Seq(S) /\ Len(t) = Len(c) + Len(b)
    BY <1>4, <2>1, Zenon
  <2> QED
    BY <1>0, <1>6, <1>7, <2>2
<1>9. ASSUME NEW k \in 1..Len(s) + 1 PROVE t[k] = IF k < m THEN s[k] ELSE IF k = m THEN e ELSE s[k - 1]
  <2>0. t[k] = IF k <= m THEN c[k] ELSE b[k - m]
    <3>1. k \in 1..Len(c) + Len(b)
      BY <1>0, <1>6, <1>7
    <3>2. (c \o b)[k] = IF k <= Len(c) THEN c[k] ELSE b[k - Len(c)]
      BY <1>6, <1>7, <3>1, ConcatProperties, Zenon
    <3> QED
      BY <1>4, <1>7, <3>2
  <2>1. CASE k < m
    <3>1. k \in 1..m - 1 /\ k <= m
      BY <1>0, <2>1
    <3>2. c[k] = s[k] /\ t[k] = c[k]
      BY <1>7, <2>0, <3>1
    <3> QED
      BY <2>1, <3>2
  <2>2. CASE k = m
    <3>1. t[k] = c[m]
      BY <1>0, <2>0, <2>2
    <3> QED
      BY <1>0, <1>7, <2>2, <3>1
  <2>3. CASE k > m
    <3>1. t[k] = b[k - m]
      BY <1>0, <2>0, <2>3
    <3>2. k - m \in 1..Len(s) - m + 1 /\ m + (k - m) - 1 = k - 1
      BY <1>0, <2>3
    <3> QED
      BY <1>0, <1>6, <2>3, <3>1, <3>2
  <2> QED
    BY <1>0, <2>1, <2>2, <2>3
<1>10. IsSeq(t) /\ DOMAIN t = 1..Len(s) + 1
  <2>1. t \in Seq({t[i] : i \in DOMAIN t})
    BY <1>8, OwnElements
  <2> QED
    BY <1>8, <2>1 DEF IsSeq
<1> QED
  BY <1>8, <1>9, <1>10

KeptUpTo(s, items, n, g) == g[n] = IF n = 0 THEN <<>> ELSE IF s[n] \in items THEN Append(g[n - 1], s[n]) ELSE g[n - 1]

LEMMA AmongUnfold ==
  ASSUME NEW s, NEW items, Len(s) \in Nat
  PROVE  \E g : V!Among(s, items) = g[Len(s)] /\ \A n \in 0..Len(s) : KeptUpTo(s, items, n, g)
<1> DEFINE body(g) == [n \in 0..Len(s) |-> IF n = 0 THEN <<>>
                                             ELSE IF s[n] \in items THEN Append(g[n - 1], s[n]) ELSE g[n - 1]]
<1> DEFINE kept == CHOOSE g : g = body(g)
<1>1. V!Among(s, items) = kept[Len(s)]
  BY DEF V!Among
<1>2. kept = body(kept)
  <2> DEFINE bad == {m \in 0..Len(s) : ~\E g : \A n \in 0..m : KeptUpTo(s, items, n, g)}
  <2>1. bad = {}
    <3> SUFFICES ASSUME bad # {} PROVE FALSE
      OBVIOUS
    <3>0. bad \subseteq Nat
      OBVIOUS
    <3> HIDE DEF bad
    <3>1. PICK x \in bad : \A y \in bad : x <= y
      BY <3>0, LeastElement
    <3> USE DEF bad
    <3>2. CASE x = 0
      <4>1. \A n \in 0..0 : KeptUpTo(s, items, n, [k \in {0} |-> <<>>])
        BY DEF KeptUpTo
      <4> QED
        BY <3>1, <3>2, <4>1
    <3>3. CASE x # 0
      <4>0. x \in Nat /\ x \in 0..Len(s)
        OBVIOUS
      <4>1. x \in Nat /\ x - 1 \in 0..Len(s) /\ x - 1 \notin bad
        <5> HIDE DEF bad
        <5>1. x - 1 \notin bad
          BY <3>1, <4>0
        <5> QED
          BY <3>3, <4>0, <5>1
      <4>2. PICK g : \A n \in 0..x - 1 : KeptUpTo(s, items, n, g)
        BY <4>1
      <4>3. PICK newest : newest = IF s[x] \in items THEN Append(g[x - 1], s[x]) ELSE g[x - 1]
        OBVIOUS
      <4> DEFINE h == [n \in 0..x |-> IF n = x THEN newest ELSE g[n]]
      <4>4. ASSUME NEW n \in 0..x PROVE KeptUpTo(s, items, n, h)
        <5>1. CASE n = x
          BY <3>3, <4>1, <4>3, <5>1 DEF KeptUpTo
        <5>2. CASE n # x
          <6>1. n \in 0..x - 1 /\ n - 1 # x /\ (n # 0 => n - 1 \in 0..x)
            BY <4>1, <5>2
          <6>2. h[n] = g[n] /\ (n # 0 => h[n - 1] = g[n - 1])
            BY <5>2, <6>1
          <6> QED
            BY <4>2, <6>1, <6>2 DEF KeptUpTo
        <5> QED
          BY <5>1, <5>2
      <4> QED
        BY <3>1, <4>4
    <3> QED
      BY <3>2, <3>3
  <2>2. PICK g : \A n \in 0..Len(s) : KeptUpTo(s, items, n, g)
    <3>1. Len(s) \in 0..Len(s) /\ Len(s) \notin bad
      BY <2>1
    <3> QED
      BY <3>1
  <2> DEFINE f == [n \in 0..Len(s) |-> g[n]]
  <2>3. ASSUME NEW n \in 0..Len(s)
        PROVE  f[n] = IF n = 0 THEN <<>> ELSE IF s[n] \in items THEN Append(f[n - 1], s[n]) ELSE f[n - 1]
    <3>1. n # 0 => n - 1 \in 0..Len(s)
      OBVIOUS
    <3> QED
      BY <2>2, <3>1 DEF KeptUpTo
  <2>4. f = body(f)
    <3> HIDE DEF f, kept
    <3>1. PICK e : e = body(f)
      OBVIOUS
    <3>2. f = [n \in 0..Len(s) |-> f[n]]
      BY DEF f
    <3>3. \A n \in 0..Len(s) : f[n] = e[n]
      BY <2>3, <3>1
    <3>4. DOMAIN e = 0..Len(s) /\ e = [n \in 0..Len(s) |-> e[n]]
      BY <3>1
    <3> QED
      BY <3>1, <3>2, <3>3, <3>4
  <2> QED
    BY <2>4, Zenon
<1>3. \A n \in 0..Len(s) : KeptUpTo(s, items, n, kept)
  BY <1>2 DEF KeptUpTo
<1> QED
  BY <1>1, <1>3

ArePlaces(s, N) == s = [i \in 1..N |-> i]

LEMMA AmongThem ==
  ASSUME NEW s, IsSeq(s), NEW items, NEW w, w = V!Among(s, items)
  PROVE  /\ IsSeq(w)
         /\ \A k \in DOMAIN w : \E i \in DOMAIN s : w[k] = s[i] /\ s[i] \in items
         /\ \A i \in DOMAIN s : s[i] \in items => \E k \in DOMAIN w : w[k] = s[i]
<1>2. Len(s) \in Nat /\ DOMAIN s = 1..Len(s)
  BY DEF IsSeq
<1>1. PICK kept : /\ V!Among(s, items) = kept[Len(s)]
                  /\ \A n \in 0..Len(s) : KeptUpTo(s, items, n, kept)
  BY <1>2, AmongUnfold
<1>4. \A n \in 0..Len(s) : kept[n] = IF n = 0 THEN <<>> ELSE IF s[n] \in items THEN Append(kept[n - 1], s[n])
                                     ELSE kept[n - 1]
  BY <1>1 DEF KeptUpTo
<1> DEFINE right(n) ==
      /\ IsSeq(kept[n])
      /\ \A k \in DOMAIN kept[n] : \E i \in 1..n : kept[n][k] = s[i] /\ s[i] \in items
      /\ \A i \in 1..n : s[i] \in items => \E k \in DOMAIN kept[n] : kept[n][k] = s[i]
<1> DEFINE bad == {n \in 0..Len(s) : ~right(n)}
<1>5. right(0)
  <2>1. kept[0] = <<>>
    BY <1>2, <1>4
  <2> QED
    BY <2>1 DEF IsSeq
<1>6. ASSUME NEW n \in 1..Len(s), right(n - 1) PROVE right(n)
  <2>1. n \in 0..Len(s) /\ n # 0 /\ n \in Nat /\ 1..n = (1..n - 1) \cup {n} /\ n \in DOMAIN s /\ n \notin 1..n - 1
        /\ 1..n - 1 \subseteq DOMAIN s
    BY <1>2
  <2>2. CASE s[n] \notin items
    <3>1. kept[n] = kept[n - 1]
      BY <1>4, <2>1, <2>2
    <3> QED
      BY <1>6, <2>1, <2>2, <3>1
  <2>3. CASE s[n] \in items
    <3>1. PICK v : v = kept[n - 1]
      OBVIOUS
    <3>2. PICK x : x = Append(v, s[n])
      OBVIOUS
    <3>3. kept[n] = x
      BY <1>4, <2>1, <2>3, <3>1, <3>2
    <3>4. /\ IsSeq(v)
          /\ \A k \in DOMAIN v : \E i \in 1..n - 1 : v[k] = s[i] /\ s[i] \in items
          /\ \A i \in 1..n - 1 : s[i] \in items => \E k \in DOMAIN v : v[k] = s[i]
      BY <1>6, <3>1
    <3>5. /\ IsSeq(x)
          /\ \A k \in DOMAIN x : k \in DOMAIN v \/ x[k] = s[n]
          /\ Len(v) + 1 \in DOMAIN x /\ x[Len(v) + 1] = s[n]
          /\ \A k \in DOMAIN v : k \in DOMAIN x /\ x[k] = v[k]
      <4>1. IsGrown(x, v, s[n])
        BY <3>2 DEF IsGrown
      <4> QED
        BY <3>4, <4>1, Grown
    <3>6. \A k \in DOMAIN x : \E i \in 1..n : x[k] = s[i] /\ s[i] \in items
      BY <2>1, <2>3, <3>4, <3>5
    <3>7. \A i \in 1..n : s[i] \in items => \E k \in DOMAIN x : x[k] = s[i]
      BY <2>1, <3>4, <3>5
    <3> QED
      BY <3>3, <3>5, <3>6, <3>7
  <2> QED
    BY <2>2, <2>3
<1>7. bad = {}
  <2> SUFFICES ASSUME bad # {} PROVE FALSE
    OBVIOUS
  <2>0. bad \subseteq Nat
    OBVIOUS
  <2> HIDE DEF bad
  <2>1. PICK x \in bad : \A y \in bad : x <= y
    BY <2>0, LeastElement
  <2>2. x \in 0..Len(s) /\ ~right(x)
    BY DEF bad
  <2> HIDE DEF right
  <2>3. x # 0
    BY <1>5, <2>2
  <2>4. x \in 1..Len(s) /\ x - 1 \in 0..Len(s) /\ x - 1 < x
    BY <1>2, <2>2, <2>3
  <2>5. right(x - 1)
    BY <2>0, <2>1, <2>4 DEF bad
  <2> QED
    BY <1>6, <2>2, <2>4, <2>5
<1>8. right(Len(s))
  <2> HIDE DEF right
  <2> QED
    BY <1>2, <1>7
<1> QED
  BY <1>1, <1>2, <1>8

LEMMA PlacesKept ==
  ASSUME NEW N \in Nat, NEW s, ArePlaces(s, N), NEW items, NEW w, w = V!Among(s, items)
  PROVE  /\ IsSeq(w)
         /\ \A k \in DOMAIN w : w[k] \in 1..N /\ w[k] \in items
         /\ \A i \in 1..N : i \in items => \E k \in DOMAIN w : w[k] = i
         /\ \A k, l \in DOMAIN w : k < l => w[k] < w[l]
<1>2. Len(s) = N /\ \A i \in 1..N : s[i] = i
  BY DEF ArePlaces
<1>1. PICK kept : /\ w = kept[N]
                  /\ \A n \in 0..N : KeptUpTo(s, items, n, kept)
  BY <1>2, AmongUnfold
<1>4. \A n \in 0..N : kept[n] = IF n = 0 THEN <<>> ELSE IF n \in items THEN Append(kept[n - 1], n)
                                ELSE kept[n - 1]
  BY <1>1, <1>2 DEF KeptUpTo
<1> DEFINE right(n) ==
      /\ IsSeq(kept[n])
      /\ \A k \in DOMAIN kept[n] : kept[n][k] \in 1..n /\ kept[n][k] \in items
      /\ \A i \in 1..n : i \in items => \E k \in DOMAIN kept[n] : kept[n][k] = i
      /\ \A k, l \in DOMAIN kept[n] : k < l => kept[n][k] < kept[n][l]
<1> DEFINE bad == {n \in 0..N : ~right(n)}
<1>5. right(0)
  <2>1. kept[0] = <<>>
    BY <1>4
  <2>2. PICK v : v = kept[0]
    OBVIOUS
  <2>3. IsSeq(v) /\ \A k : k \notin DOMAIN v
    BY <2>1, <2>2, Nothing
  <2> QED
    BY <2>2, <2>3
<1>6. ASSUME NEW n \in 1..N, right(n - 1) PROVE right(n)
  <2>1. n \in 0..N /\ n # 0 /\ n \in Nat /\ 1..n = (1..n - 1) \cup {n} /\ n \notin 1..n - 1
        /\ (\A i \in 1..n - 1 : i < n)
    OBVIOUS
  <2>2. CASE n \notin items
    <3>1. kept[n] = kept[n - 1]
      BY <1>4, <2>1, <2>2
    <3> QED
      BY <1>6, <2>1, <2>2, <3>1
  <2>3. CASE n \in items
    <3>1. PICK v : v = kept[n - 1]
      OBVIOUS
    <3>2. PICK x : x = Append(v, n)
      OBVIOUS
    <3>3. kept[n] = x
      BY <1>4, <2>1, <2>3, <3>1, <3>2
    <3>4. /\ IsSeq(v)
          /\ \A k \in DOMAIN v : v[k] \in 1..n - 1 /\ v[k] \in items
          /\ \A i \in 1..n - 1 : i \in items => \E k \in DOMAIN v : v[k] = i
          /\ \A k, l \in DOMAIN v : k < l => v[k] < v[l]
      BY <1>6, <3>1
    <3>5. PICK z : z = Len(v) + 1
      OBVIOUS
    <3>6. /\ IsSeq(x)
          /\ \A k \in DOMAIN x : k \in DOMAIN v \/ k = z
          /\ z \in DOMAIN x /\ x[z] = n /\ z \in Nat
          /\ \A k \in DOMAIN v : k \in DOMAIN x /\ x[k] = v[k] /\ k < z
      <4>1. IsGrown(x, v, n)
        BY <3>2 DEF IsGrown
      <4>2. /\ IsSeq(x) /\ Len(x) = Len(v) + 1 /\ DOMAIN x = 1..Len(v) + 1
            /\ Len(v) \in Nat /\ DOMAIN v = 1..Len(v)
            /\ x[Len(v) + 1] = n
            /\ \A i \in DOMAIN v : x[i] = v[i]
        BY <3>4, <4>1, Grown
      <4> QED
        BY <3>5, <4>2
    <3>7. \A k \in DOMAIN x : x[k] \in 1..n /\ x[k] \in items
      BY <2>1, <2>3, <3>4, <3>6
    <3>8. \A i \in 1..n : i \in items => \E k \in DOMAIN x : x[k] = i
      BY <2>1, <3>4, <3>6
    <3>9. ASSUME NEW k \in DOMAIN x, NEW l \in DOMAIN x, k < l PROVE x[k] < x[l]
      <4>1. k \in DOMAIN v
        <5>1. ASSUME k = z PROVE FALSE
          <6>1. l \in DOMAIN v => l < z /\ l \in Nat
            BY <3>4, <3>6, SeqIs
          <6> QED
            BY <3>6, <3>9, <5>1, <6>1
        <5> QED
          BY <3>6, <5>1
      <4>2. CASE l = z
        BY <2>1, <3>4, <3>6, <4>1, <4>2
      <4>3. CASE l \in DOMAIN v
        BY <3>4, <3>6, <3>9, <4>1, <4>3
      <4> QED
        BY <3>6, <4>2, <4>3
    <3> QED
      BY <3>3, <3>6, <3>7, <3>8, <3>9
  <2> QED
    BY <2>2, <2>3
<1>7. bad = {}
  <2> SUFFICES ASSUME bad # {} PROVE FALSE
    OBVIOUS
  <2>0. bad \subseteq Nat
    OBVIOUS
  <2> HIDE DEF bad
  <2>1. PICK x \in bad : \A y \in bad : x <= y
    BY <2>0, LeastElement
  <2>2. x \in 0..N /\ ~right(x)
    BY DEF bad
  <2> HIDE DEF right
  <2>3. x # 0
    BY <1>5, <2>2
  <2>4. x \in 1..N /\ x - 1 \in 0..N /\ x - 1 < x
    BY <2>2, <2>3
  <2>5. right(x - 1)
    BY <2>0, <2>1, <2>4 DEF bad
  <2> QED
    BY <1>6, <2>2, <2>4, <2>5
<1>8. right(N)
  <2> HIDE DEF right
  <2> QED
    BY <1>7
<1> QED
  BY <1>1, <1>8

LEMMA SameRounds ==
  ASSUME NEW N \in Nat, NEW g, NEW f, f = [n \in 0..N |-> g[n]], NEW e, DOMAIN e = 0..N, e = [n \in 0..N |-> e[n]],
         \A n \in 0..N : f[n] = e[n]
  PROVE  f = e
OBVIOUS

LEMMA Reached ==
  ASSUME NEW N \in Nat, NEW P, 0 \in P, \A n \in 1..N : n - 1 \in P => n \in P
  PROVE  \A n \in 0..N : n \in P
<1> DEFINE bad == {n \in 0..N : n \notin P}
<1>1. bad = {}
  <2> SUFFICES ASSUME bad # {} PROVE FALSE
    OBVIOUS
  <2>0. bad \subseteq Nat
    OBVIOUS
  <2> HIDE DEF bad
  <2>1. PICK x \in bad : \A y \in bad : x <= y
    BY <2>0, LeastElement
  <2>2. x \in 0..N /\ x \notin P
    BY DEF bad
  <2>3. x \in 1..N /\ x - 1 \in 0..N /\ ~(x <= x - 1)
    BY <2>2
  <2>4. x - 1 \in P
    BY <2>1, <2>3 DEF bad
  <2> QED
    BY <2>2, <2>3, <2>4
<1> QED
  BY <1>1

-------------------------------------------------------------------------------
\* The transcript.

WordKinds == {"private", "summary", "text"}
ToolNames == {"work", "todo", "ask", "cliAsk", "deliver"}
IsTool(c) == /\ c = [name |-> c.name, call |-> c.call, status |-> c.status, data |-> c.data]
             /\ c.name \in ToolNames /\ c.call \in Nat /\ IsSeq(c.data)
             /\ c.name # "todo" => c.data = <<>>
IsSegment(s) == \/ s = [kind |-> s.kind, tool |-> None] /\ s.kind \in WordKinds
                \/ s = [kind |-> "tool", tool |-> s.tool] /\ IsTool(s.tool)

CallIn(m, c) == \E k \in DOMAIN m.calls : m.calls[k].call = c
SegmentOf(m, c) == \E i \in DOMAIN m.segs : m.segs[i].kind = "tool" /\ m.segs[i].tool.call = c

IsMessage(m, n) ==
  m \in [id : {n}, role : {"user", "assistant"}, turn : {m.turn}, status : {"streaming", "done", "error"},
         aborted : {m.aborted}, segs : {m.segs}, calls : {m.calls}, agents : {m.agents},
         artifact : {m.artifact}, plain : BOOLEAN]

\* A call is in the flat list once, and in the segments.
CallsFit(m) ==
  /\ \A k \in DOMAIN m.calls : IsTool(m.calls[k])
  /\ \A k, l \in DOMAIN m.calls : m.calls[k].call = m.calls[l].call => k = l
  /\ \A c : CallIn(m, c) <=> SegmentOf(m, c)

MessageFits(m, n) ==
  /\ IsMessage(m, n)
  /\ IsSeq(m.segs) /\ IsSeq(m.calls) /\ IsFiniteSet(m.agents)
  /\ \A i \in DOMAIN m.segs : IsSegment(m.segs[i])
  /\ CallsFit(m)
  /\ m.plain => m.segs = <<>> /\ m.calls = <<>> /\ m.agents = {} /\ m.status = "done"
  /\ m.role = "user" => m.plain

\* Only a call of work comes again, in a message of its turn.
Shared(m, x) ==
  \A k \in DOMAIN m.calls, l \in DOMAIN x.calls : m.calls[k].call = x.calls[l].call =>
    m.calls[k].name = "work" /\ x.calls[l].name = "work" /\ m.turn = x.turn /\ m.turn # None

\* The calls are numbered as they come.
Numbered(t) == \E top \in Nat : \A c : (\E n \in DOMAIN t : CallIn(t[n], c)) <=> c \in 1..top

TalkFits(t) ==
  /\ IsSeq(t)
  /\ \A n \in DOMAIN t : MessageFits(t[n], n)
  /\ \A n, j \in DOMAIN t : n # j => Shared(t[n], t[j])
  /\ Numbered(t)
TalkInv == TalkFits(talk)

LEMMA TalkStart == ASSUME V!Init PROVE TalkInv
<1>1. talk = <<>>
  BY DEF V!Init
<1>2. IsSeq(talk) /\ \A x : x \notin DOMAIN talk
  BY <1>1, Nothing
<1>3. \A c : (\E n \in DOMAIN talk : CallIn(talk[n], c)) <=> c \in 1..0
  BY <1>2
<1>4. Numbered(talk)
  BY <1>3 DEF Numbered
<1> QED
  BY <1>2, <1>4 DEF TalkInv, TalkFits

\* The last message is replaced.
Replaces(t, m) == t = [talk EXCEPT ![Len(talk)] = m]

LEMMA ReplacedIs ==
  ASSUME IsSeq(talk), NEW n, n = Len(talk), n \in DOMAIN talk, NEW m, NEW t, Replaces(t, m)
  PROVE  IsSeq(t) /\ DOMAIN t = DOMAIN talk /\ t[n] = m /\ \A j \in DOMAIN talk : j # n => t[j] = talk[j]
<1>1. t = [talk EXCEPT ![n] = m]
  BY DEF Replaces
<1>2. DOMAIN t = DOMAIN talk /\ t[n] = m /\ \A j \in DOMAIN talk : j # n => t[j] = talk[j]
  BY <1>1
<1>3. PICK S : S = {talk[i] : i \in DOMAIN talk} \cup {m}
  OBVIOUS
<1>4. talk \in Seq(S)
  <2>1. Len(talk) \in Nat /\ DOMAIN talk = 1..Len(talk) /\ talk = [i \in 1..Len(talk) |-> talk[i]]
    BY SeqIs
  <2>2. \A i \in 1..Len(talk) : talk[i] \in S
    BY <1>3, <2>1
  <2> QED
    BY <2>1, <2>2
<1>5. t \in Seq(S)
  BY <1>1, <1>3, <1>4
<1>6. IsSeq(t)
  BY <1>5, OwnElements DEF IsSeq
<1> QED
  BY <1>2, <1>6

LEMMA SharedBoth == ASSUME NEW m, NEW x, Shared(m, x) PROVE Shared(x, m)
BY DEF Shared

LEMMA GrownFits ==
  ASSUME TalkInv, NEW n, n = Len(talk), n \in DOMAIN talk, NEW m, NEW t, Replaces(t, m), MessageFits(m, n),
         \A j \in DOMAIN talk : j # n => Shared(m, talk[j]), Numbered(t)
  PROVE  TalkFits(t)
<1>1. IsSeq(talk) /\ (\A j \in DOMAIN talk : MessageFits(talk[j], j))
      /\ \A i, j \in DOMAIN talk : i # j => Shared(talk[i], talk[j])
  BY DEF TalkInv, TalkFits
<1>2. IsSeq(t) /\ DOMAIN t = DOMAIN talk /\ t[n] = m /\ \A j \in DOMAIN talk : j # n => t[j] = talk[j]
  BY <1>1, ReplacedIs
<1>3. \A j \in DOMAIN t : MessageFits(t[j], j)
  BY <1>1, <1>2
<1>4. ASSUME NEW i \in DOMAIN t, NEW j \in DOMAIN t, i # j PROVE Shared(t[i], t[j])
  <2>1. CASE i = n
    BY <1>2, <1>4, <2>1
  <2>2. CASE j = n
    BY <1>2, <1>4, <2>2, SharedBoth
  <2>3. CASE i # n /\ j # n
    BY <1>1, <1>2, <1>4, <2>3
  <2> QED
    BY <2>1, <2>2, <2>3
<1> QED
  BY <1>2, <1>3, <1>4 DEF TalkFits

\* A change of the last message that brings no call.
SameCalls(m, old) ==
  /\ m.turn = old.turn /\ DOMAIN m.calls = DOMAIN old.calls
  /\ \A k \in DOMAIN m.calls : m.calls[k].call = old.calls[k].call /\ m.calls[k].name = old.calls[k].name

LEMMA SameFits ==
  ASSUME TalkInv, NEW n, n = Len(talk), n \in DOMAIN talk, NEW m, NEW t, Replaces(t, m), MessageFits(m, n),
         SameCalls(m, talk[n])
  PROVE  TalkFits(t)
<1>1. IsSeq(talk) /\ (\A i, j \in DOMAIN talk : i # j => Shared(talk[i], talk[j])) /\ Numbered(talk)
  BY DEF TalkInv, TalkFits
<1>2. DOMAIN t = DOMAIN talk /\ t[n] = m /\ \A j \in DOMAIN talk : j # n => t[j] = talk[j]
  BY <1>1, ReplacedIs
<1>3. \A j \in DOMAIN talk : j # n => Shared(m, talk[j])
  <2> SUFFICES ASSUME NEW j \in DOMAIN talk, j # n PROVE Shared(m, talk[j])
    OBVIOUS
  <2>1. Shared(talk[n], talk[j])
    BY <1>1
  <2> QED
    BY <2>1 DEF Shared, SameCalls
<1>4. \A c : CallIn(m, c) <=> CallIn(talk[n], c)
  BY DEF CallIn, SameCalls
<1>5. \A c : (\E j \in DOMAIN t : CallIn(t[j], c)) <=> (\E j \in DOMAIN talk : CallIn(talk[j], c))
  BY <1>2, <1>4
<1>6. Numbered(t)
  BY <1>1, <1>5 DEF Numbered
<1> QED
  BY <1>3, <1>6, GrownFits

\* What the last message becomes.
Longer(x, m, s) == x = [m EXCEPT !.segs = Append(@, s)]

LEMMA WordFits ==
  ASSUME NEW n, NEW m, MessageFits(m, n), ~m.plain, NEW s, IsSegment(s), s.kind # "tool", NEW x, Longer(x, m, s)
  PROVE  MessageFits(x, n) /\ SameCalls(x, m)
<1>1. /\ IsMessage(m, n) /\ IsSeq(m.segs) /\ IsSeq(m.calls) /\ IsFiniteSet(m.agents)
      /\ (\A i \in DOMAIN m.segs : IsSegment(m.segs[i])) /\ CallsFit(m) /\ m.role # "user"
  BY DEF MessageFits
<1>2. PICK segs : segs = Append(m.segs, s)
  OBVIOUS
<1>3. x = [m EXCEPT !.segs = segs]
  BY <1>2 DEF Longer
<1>4. /\ IsMessage(x, n) /\ x.segs = segs /\ x.calls = m.calls /\ x.agents = m.agents /\ x.plain = m.plain
      /\ x.role = m.role /\ x.turn = m.turn
  BY <1>1, <1>3 DEF IsMessage
<1>5. IsGrown(segs, m.segs, s)
  BY <1>2 DEF IsGrown
<1>6. /\ IsSeq(segs) /\ DOMAIN segs = 1..Len(m.segs) + 1 /\ Len(m.segs) \in Nat /\ DOMAIN m.segs = 1..Len(m.segs)
      /\ segs[Len(m.segs) + 1] = s /\ \A i \in DOMAIN m.segs : segs[i] = m.segs[i]
  BY <1>1, <1>5, Grown
<1>7. \A i \in DOMAIN segs : (i \in DOMAIN m.segs /\ segs[i] = m.segs[i]) \/ segs[i] = s
  BY <1>6
<1>8. \A i \in DOMAIN segs : IsSegment(segs[i])
  BY <1>1, <1>7
<1>9. ASSUME NEW c PROVE SegmentOf(x, c) <=> SegmentOf(m, c)
  <2>1. DOMAIN m.segs \subseteq DOMAIN segs
    BY <1>6
  <2> QED
    BY <1>4, <1>6, <1>7, <2>1 DEF SegmentOf
<1>10. CallsFit(x)
  BY <1>1, <1>4, <1>9 DEF CallsFit, CallIn
<1> QED
  BY <1>1, <1>4, <1>6, <1>8, <1>10 DEF MessageFits, SameCalls

LEMMA FinishedFits ==
  ASSUME NEW n, NEW m, MessageFits(m, n), ~m.plain, NEW k \in DOMAIN m.calls, NEW x,
         x = [m EXCEPT !.calls[k].status = "done"]
  PROVE  MessageFits(x, n) /\ SameCalls(x, m)
<1>1. /\ IsMessage(m, n) /\ IsSeq(m.segs) /\ IsSeq(m.calls) /\ IsFiniteSet(m.agents)
      /\ (\A i \in DOMAIN m.segs : IsSegment(m.segs[i])) /\ CallsFit(m) /\ m.role # "user"
  BY DEF MessageFits
<1>2. PICK call : call = [m.calls[k] EXCEPT !.status = "done"]
  OBVIOUS
<1>3. PICK calls : calls = [m.calls EXCEPT ![k] = call]
  OBVIOUS
<1>4. x = [m EXCEPT !.calls = calls]
  BY <1>2, <1>3
<1>5. /\ IsMessage(x, n) /\ x.segs = m.segs /\ x.calls = calls /\ x.agents = m.agents /\ x.plain = m.plain
      /\ x.role = m.role /\ x.turn = m.turn
  BY <1>1, <1>4 DEF IsMessage
<1>6. IsTool(m.calls[k])
  BY <1>1 DEF CallsFit
<1>7. IsTool(call) /\ call.call = m.calls[k].call /\ call.name = m.calls[k].name
  BY <1>2, <1>6 DEF IsTool
<1>8. DOMAIN calls = DOMAIN m.calls /\ calls[k] = call /\ \A l \in DOMAIN m.calls : l # k => calls[l] = m.calls[l]
  BY <1>3
<1>9. IsSeq(calls)
  <2>1. /\ Len(m.calls) \in Nat /\ DOMAIN m.calls = 1..Len(m.calls)
        /\ m.calls = [i \in 1..Len(m.calls) |-> m.calls[i]]
    BY <1>1, SeqIs
  <2>2. PICK S : S = {m.calls[i] : i \in DOMAIN m.calls} \cup {call}
    OBVIOUS
  <2>3. m.calls \in Seq(S)
    <3>1. \A i \in 1..Len(m.calls) : m.calls[i] \in S
      BY <2>1, <2>2
    <3> QED
      BY <2>1, <3>1
  <2>4. calls \in Seq(S)
    BY <1>3, <2>2, <2>3
  <2> QED
    BY <2>4, OwnElements DEF IsSeq
<1>10. \A l \in DOMAIN calls : IsTool(calls[l]) /\ calls[l].call = m.calls[l].call /\ calls[l].name = m.calls[l].name
  BY <1>1, <1>7, <1>8 DEF CallsFit
<1>11. CallsFit(x)
  <2>1. \A i, l \in DOMAIN calls : calls[i].call = calls[l].call => i = l
    BY <1>1, <1>8, <1>10 DEF CallsFit
  <2>2. ASSUME NEW c PROVE CallIn(x, c) <=> SegmentOf(x, c)
    <3>1. CallIn(x, c) <=> CallIn(m, c)
      BY <1>5, <1>8, <1>10 DEF CallIn
    <3>2. SegmentOf(x, c) <=> SegmentOf(m, c)
      BY <1>5 DEF SegmentOf
    <3> QED
      BY <1>1, <3>1, <3>2 DEF CallsFit
  <2>3. (\A l \in DOMAIN x.calls : IsTool(x.calls[l]))
        /\ \A i, l \in DOMAIN x.calls : x.calls[i].call = x.calls[l].call => i = l
    BY <1>5, <1>10, <2>1
  <2> QED
    BY <2>2, <2>3 DEF CallsFit
<1> QED
  BY <1>1, <1>5, <1>8, <1>9, <1>10, <1>11 DEF MessageFits, SameCalls

LEMMA DelegatedFits ==
  ASSUME NEW n, NEW m, MessageFits(m, n), ~m.plain, NEW a, NEW x, x = [m EXCEPT !.agents = @ \cup {a}]
  PROVE  MessageFits(x, n) /\ SameCalls(x, m)
<1>1. /\ IsMessage(m, n) /\ IsSeq(m.segs) /\ IsSeq(m.calls) /\ IsFiniteSet(m.agents)
      /\ (\A i \in DOMAIN m.segs : IsSegment(m.segs[i])) /\ CallsFit(m) /\ m.role # "user"
  BY DEF MessageFits
<1>2. /\ IsMessage(x, n) /\ x.segs = m.segs /\ x.calls = m.calls /\ x.agents = m.agents \cup {a}
      /\ x.plain = m.plain /\ x.role = m.role /\ x.turn = m.turn
  BY <1>1 DEF IsMessage
<1>3. IsFiniteSet(x.agents)
  BY <1>1, <1>2, FS_AddElement
<1>4. CallsFit(x)
  BY <1>1, <1>2 DEF CallsFit, CallIn, SegmentOf
<1> QED
  BY <1>1, <1>2, <1>3, <1>4 DEF MessageFits, SameCalls

LEMMA SealedFits ==
  ASSUME NEW n, NEW m, MessageFits(m, n), ~m.plain, NEW end \in {"done", "error", "aborted"}, NEW artifact, NEW x,
         x = [m EXCEPT !.status = IF end = "error" THEN "error" ELSE "done", !.aborted = end = "aborted",
                       !.artifact = artifact]
  PROVE  MessageFits(x, n) /\ SameCalls(x, m)
<1>1. /\ IsMessage(m, n) /\ IsSeq(m.segs) /\ IsSeq(m.calls) /\ IsFiniteSet(m.agents)
      /\ (\A i \in DOMAIN m.segs : IsSegment(m.segs[i])) /\ CallsFit(m) /\ m.role # "user"
  BY DEF MessageFits
<1>2. /\ IsMessage(x, n) /\ x.segs = m.segs /\ x.calls = m.calls /\ x.agents = m.agents
      /\ x.plain = m.plain /\ x.role = m.role /\ x.turn = m.turn
  BY <1>1 DEF IsMessage
<1>3. CallsFit(x)
  BY <1>1, <1>2 DEF CallsFit, CallIn, SegmentOf
<1> QED
  BY <1>1, <1>2, <1>3 DEF MessageFits, SameCalls

\* The message that grows.
LEMMA GrowingIs ==
  ASSUME TalkInv, V!Growing
  PROVE  /\ Len(talk) \in Nat /\ Len(talk) \in DOMAIN talk /\ V!Last(talk) = talk[Len(talk)]
         /\ MessageFits(talk[Len(talk)], Len(talk)) /\ ~talk[Len(talk)].plain
         /\ \A m : V!Grow(m) => Replaces(talk', m)
<1>1. IsSeq(talk) /\ \A j \in DOMAIN talk : MessageFits(talk[j], j)
  BY DEF TalkInv, TalkFits
<1>2. Len(talk) \in Nat /\ DOMAIN talk = 1..Len(talk) /\ talk # <<>>
  BY <1>1, SeqIs DEF V!Growing
<1>3. Len(talk) # 0
  <2>1. talk \in Seq({talk[i] : i \in DOMAIN talk})
    BY <1>1 DEF IsSeq
  <2> QED
    BY <1>2, <2>1, EmptySeq
<1>4. Len(talk) \in DOMAIN talk
  BY <1>2, <1>3
<1>5. V!Last(talk) = talk[Len(talk)]
  BY DEF V!Last
<1>6. talk[Len(talk)].status = "streaming"
  BY <1>5 DEF V!Growing
<1>7. ~talk[Len(talk)].plain
  BY <1>1, <1>4, <1>6 DEF MessageFits
<1> QED
  BY <1>1, <1>2, <1>4, <1>5, <1>7 DEF V!Grow, Replaces

\* A call that comes.
LEMMA CallSegment ==
  ASSUME NEW n, NEW m, MessageFits(m, n), ~m.plain, NEW tool, IsTool(tool), NEW s, s = [kind |-> "tool", tool |-> tool],
         NEW segs, IsGrown(segs, m.segs, s)
  PROVE  /\ IsSeq(segs) /\ \A i \in DOMAIN segs : IsSegment(segs[i])
         /\ \A c : (\E i \in DOMAIN segs : segs[i].kind = "tool" /\ segs[i].tool.call = c)
                     <=> SegmentOf(m, c) \/ c = tool.call
<1>1. IsSeq(m.segs) /\ \A i \in DOMAIN m.segs : IsSegment(m.segs[i])
  BY DEF MessageFits
<1>2. /\ IsSeq(segs) /\ DOMAIN segs = 1..Len(m.segs) + 1 /\ Len(m.segs) \in Nat /\ DOMAIN m.segs = 1..Len(m.segs)
      /\ segs[Len(m.segs) + 1] = s /\ \A i \in DOMAIN m.segs : segs[i] = m.segs[i]
  BY <1>1, Grown
<1>3. PICK z : z = Len(m.segs) + 1
  OBVIOUS
<1>4. /\ z \in DOMAIN segs /\ segs[z] = s /\ DOMAIN m.segs \subseteq DOMAIN segs
      /\ \A i \in DOMAIN segs : (i \in DOMAIN m.segs /\ segs[i] = m.segs[i]) \/ segs[i] = s
  BY <1>2, <1>3
<1>5. s.kind = "tool" /\ s.tool = tool
  OBVIOUS
<1>6. IsSegment(s)
  BY <1>5 DEF IsSegment
<1>7. ASSUME NEW c
      PROVE  (\E i \in DOMAIN segs : segs[i].kind = "tool" /\ segs[i].tool.call = c) <=> SegmentOf(m, c) \/ c = tool.call
  BY <1>2, <1>4, <1>5 DEF SegmentOf
<1>8. \A i \in DOMAIN segs : IsSegment(segs[i])
  BY <1>1, <1>4, <1>6
<1> QED
  BY <1>2, <1>7, <1>8

LEMMA SeenFits ==
  ASSUME NEW n, NEW m, MessageFits(m, n), ~m.plain, NEW tool, IsTool(tool), CallIn(m, tool.call), NEW s,
         s = [kind |-> "tool", tool |-> tool], NEW x, Longer(x, m, s)
  PROVE  MessageFits(x, n) /\ SameCalls(x, m)
<1>1. /\ IsMessage(m, n) /\ IsSeq(m.segs) /\ IsSeq(m.calls) /\ IsFiniteSet(m.agents) /\ CallsFit(m) /\ m.role # "user"
  BY DEF MessageFits
<1>2. PICK segs : segs = Append(m.segs, s)
  OBVIOUS
<1>3. x = [m EXCEPT !.segs = segs]
  BY <1>2 DEF Longer
<1>4. /\ IsMessage(x, n) /\ x.segs = segs /\ x.calls = m.calls /\ x.agents = m.agents /\ x.plain = m.plain
      /\ x.role = m.role /\ x.turn = m.turn
  BY <1>1, <1>3 DEF IsMessage
<1>5. IsGrown(segs, m.segs, s)
  BY <1>2 DEF IsGrown
<1>6. /\ IsSeq(segs) /\ \A i \in DOMAIN segs : IsSegment(segs[i])
      /\ \A c : (\E i \in DOMAIN segs : segs[i].kind = "tool" /\ segs[i].tool.call = c)
                     <=> SegmentOf(m, c) \/ c = tool.call
  BY <1>5, CallSegment
<1>7. \A c : SegmentOf(x, c) <=> SegmentOf(m, c) \/ c = tool.call
  BY <1>4, <1>6 DEF SegmentOf
<1>8. \A c : CallIn(x, c) <=> CallIn(m, c)
  BY <1>4 DEF CallIn
<1>9. CallsFit(x)
  BY <1>1, <1>4, <1>7, <1>8 DEF CallsFit
<1> QED
  BY <1>1, <1>4, <1>6, <1>9 DEF MessageFits, SameCalls

Called(x, m, s, tool) == x = [m EXCEPT !.segs = Append(@, s), !.calls = Append(@, tool)]

LEMMA CalledFits ==
  ASSUME NEW n, NEW m, MessageFits(m, n), ~m.plain, NEW tool, IsTool(tool), ~CallIn(m, tool.call), NEW s,
         s = [kind |-> "tool", tool |-> tool], NEW x, Called(x, m, s, tool)
  PROVE  /\ MessageFits(x, n) /\ x.turn = m.turn
         /\ \A k \in DOMAIN x.calls : x.calls[k] = tool \/ (k \in DOMAIN m.calls /\ x.calls[k] = m.calls[k])
         /\ \A c : CallIn(x, c) <=> CallIn(m, c) \/ c = tool.call
<1>1. /\ IsMessage(m, n) /\ IsSeq(m.segs) /\ IsSeq(m.calls) /\ IsFiniteSet(m.agents) /\ CallsFit(m) /\ m.role # "user"
  BY DEF MessageFits
<1>2. PICK segs : segs = Append(m.segs, s)
  OBVIOUS
<1>3. PICK calls : calls = Append(m.calls, tool)
  OBVIOUS
<1>4. x = [m EXCEPT !.segs = segs, !.calls = calls]
  BY <1>2, <1>3 DEF Called
<1>5. /\ IsMessage(x, n) /\ x.segs = segs /\ x.calls = calls /\ x.agents = m.agents /\ x.plain = m.plain
      /\ x.role = m.role /\ x.turn = m.turn
  BY <1>1, <1>4 DEF IsMessage
<1>6. IsGrown(segs, m.segs, s) /\ IsGrown(calls, m.calls, tool)
  BY <1>2, <1>3 DEF IsGrown
<1>7. /\ IsSeq(segs) /\ \A i \in DOMAIN segs : IsSegment(segs[i])
      /\ \A c : (\E i \in DOMAIN segs : segs[i].kind = "tool" /\ segs[i].tool.call = c)
                     <=> SegmentOf(m, c) \/ c = tool.call
  BY <1>6, CallSegment
<1>8. \A c : SegmentOf(x, c) <=> SegmentOf(m, c) \/ c = tool.call
  BY <1>5, <1>7 DEF SegmentOf
<1>9. PICK z : z = Len(m.calls) + 1
  OBVIOUS
<1>10. /\ IsSeq(calls) /\ z \in DOMAIN calls /\ calls[z] = tool /\ DOMAIN m.calls \subseteq DOMAIN calls
       /\ (\A k \in DOMAIN m.calls : calls[k] = m.calls[k])
       /\ \A k \in DOMAIN calls : k \in DOMAIN m.calls \/ k = z
  <2>1. /\ IsSeq(calls) /\ DOMAIN calls = 1..Len(m.calls) + 1 /\ Len(m.calls) \in Nat
        /\ DOMAIN m.calls = 1..Len(m.calls)
        /\ calls[Len(m.calls) + 1] = tool /\ \A i \in DOMAIN m.calls : calls[i] = m.calls[i]
    BY <1>1, <1>6, Grown
  <2> QED
    BY <1>9, <2>1
<1>11. ASSUME NEW c PROVE CallIn(x, c) <=> CallIn(m, c) \/ c = tool.call
  BY <1>5, <1>10 DEF CallIn
<1>12. \A k \in DOMAIN calls : IsTool(calls[k])
  BY <1>1, <1>10 DEF CallsFit
<1>13. ASSUME NEW k \in DOMAIN calls, NEW l \in DOMAIN calls, calls[k].call = calls[l].call PROVE k = l
  <2>1. \A i \in DOMAIN m.calls : calls[i].call # tool.call
    BY <1>10 DEF CallIn
  <2>2. CASE k = z \/ l = z
    BY <1>10, <1>13, <2>1, <2>2
  <2>3. CASE k # z /\ l # z
    BY <1>1, <1>10, <1>13, <2>3 DEF CallsFit
  <2> QED
    BY <2>2, <2>3
<1>14. CallsFit(x)
  <2>1. \A c : CallIn(x, c) <=> SegmentOf(x, c)
    BY <1>1, <1>8, <1>11 DEF CallsFit
  <2> QED
    BY <1>5, <1>12, <1>13, <2>1 DEF CallsFit
<1>15. \A k \in DOMAIN calls : calls[k] = tool \/ (k \in DOMAIN m.calls /\ calls[k] = m.calls[k])
  BY <1>10
<1> QED
  BY <1>1, <1>5, <1>7, <1>10, <1>11, <1>14, <1>15 DEF MessageFits

LEMMA NextIs ==
  ASSUME TalkInv, NEW top \in Nat, \A c : (\E n \in DOMAIN talk : CallIn(talk[n], c)) <=> c \in 1..top
  PROVE  V!NextCall = top + 1
<1>1. PICK calls : calls = {x.call : x \in V!Made}
  OBVIOUS
<1>2. ASSUME NEW c PROVE c \in calls <=> \E n \in DOMAIN talk : CallIn(talk[n], c)
  <2>1. \A x : x \in V!Made <=> \E j \in DOMAIN talk : \E i \in DOMAIN talk[j].calls :
            x = [call |-> talk[j].calls[i].call, name |-> talk[j].calls[i].name, turn |-> talk[j].turn]
    BY DEF V!Made
  <2>2. ASSUME c \in calls PROVE \E n \in DOMAIN talk : CallIn(talk[n], c)
    <3>1. PICK x \in V!Made : c = x.call
      BY <1>1, <2>2
    <3>2. \E j \in DOMAIN talk : \E i \in DOMAIN talk[j].calls : c = talk[j].calls[i].call
      BY <2>1, <3>1
    <3> QED
      BY <3>2 DEF CallIn
  <2>3. ASSUME NEW n \in DOMAIN talk, CallIn(talk[n], c) PROVE c \in calls
    <3>1. PICK i \in DOMAIN talk[n].calls : talk[n].calls[i].call = c
      BY <2>3 DEF CallIn
    <3>2. PICK x : x = [call |-> talk[n].calls[i].call, name |-> talk[n].calls[i].name, turn |-> talk[n].turn]
      OBVIOUS
    <3>3. x \in V!Made /\ x.call = c
      BY <2>1, <3>1, <3>2
    <3> QED
      BY <1>1, <3>3
  <2> QED
    BY <2>2, <2>3
<1>3. calls = 1..top
  BY <1>2
<1>4. Cardinality(calls) = top
  BY <1>3, FS_Interval
<1>5. V!Cardinality(calls) = Cardinality(calls)
  BY DEF V!Cardinality, Cardinality
<1> QED
  BY <1>1, <1>4, <1>5 DEF V!NextCall

\* All that is asked of the constants: a todo list is a sequence.
TodosAreLists == \A list \in Todos : IsSeq(list)

LEMMA Comes ==
  ASSUME TalkInv, TodosAreLists, NEW call \in Nat, NEW name \in ToolNames, NEW data \in Todos \cup {<<>>}, V!Comes(name, call, data)
  PROVE  TalkInv'
<1>1. PICK n : n = Len(talk)
  OBVIOUS
<1>2. PICK m : m = talk[n]
  OBVIOUS
<1>3. PICK tool : tool = V!Tool(name, call, "running", data)
  OBVIOUS
<1>4. PICK s : s = [kind |-> "tool", tool |-> tool]
  OBVIOUS
<1>5. /\ n \in Nat /\ n \in DOMAIN talk /\ V!Last(talk) = m /\ MessageFits(m, n) /\ ~m.plain
      /\ \A x : V!Grow(x) => Replaces(talk', x)
  BY <1>1, <1>2, GrowingIs DEF V!Comes, V!Room
<1>6. /\ IsSeq(talk) /\ (\A j \in DOMAIN talk : MessageFits(talk[j], j))
      /\ (\A i, j \in DOMAIN talk : i # j => Shared(talk[i], talk[j])) /\ Numbered(talk)
  BY DEF TalkInv, TalkFits
<1>7. PICK top \in Nat : \A c : (\E j \in DOMAIN talk : CallIn(talk[j], c)) <=> c \in 1..top
  BY <1>6 DEF Numbered
<1>8. V!NextCall = top + 1
  BY <1>7, NextIs
<1>9. tool.call = call /\ tool.name = name /\ IsTool(tool)
  <2>1. tool = [name |-> name, call |-> call, status |-> "running", data |-> data]
    BY <1>3 DEF V!Tool
  <2>2. IsSeq(data)
    <3>1. CASE data \in Todos
      BY <3>1 DEF TodosAreLists
    <3>2. CASE data = <<>>
      BY <3>2, Nothing
    <3> QED
      BY <3>1, <3>2
  <2>3. name # "todo" => data = <<>>
    BY DEF V!Comes
  <2> QED
    BY <2>1, <2>2, <2>3 DEF IsTool
<1>10. CASE CallIn(m, call)
  <2>1. PICK x : x = [m EXCEPT !.segs = Append(@, s)]
    OBVIOUS
  <2>2. \E i \in DOMAIN m.calls : m.calls[i].call = call
    BY <1>10 DEF CallIn
  <2>3. V!Grow([m EXCEPT !.segs = Append(@, [kind |-> "tool", tool |-> tool]),
                         !.calls = IF \E i \in DOMAIN m.calls : m.calls[i].call = call THEN @ ELSE Append(@, tool)])
    BY <1>3, <1>5 DEF V!Comes
  <2>4. V!Grow(x)
    <3>1. PICK y : y = [m EXCEPT !.segs = Append(@, [kind |-> "tool", tool |-> tool]),
                                 !.calls = IF \E i \in DOMAIN m.calls : m.calls[i].call = call THEN @ ELSE Append(@, tool)]
      OBVIOUS
    <3>2. y = x
      <4>1. IsMessage(m, n)
        BY <1>5 DEF MessageFits
      <4> QED
        BY <1>4, <2>1, <2>2, <3>1, <4>1 DEF IsMessage
    <3> QED
      BY <2>3, <3>1, <3>2
  <2>5. Replaces(talk', x) /\ Longer(x, m, s)
    BY <1>5, <2>1, <2>4 DEF Longer
  <2>6. MessageFits(x, n) /\ SameCalls(x, m)
    BY <1>4, <1>5, <1>9, <1>10, <2>5, SeenFits
  <2>7. TalkFits(talk')
    BY <1>1, <1>2, <1>5, <2>5, <2>6, SameFits
  <2> QED
    BY <2>7 DEF TalkInv, TalkFits, Numbered
<1>11. CASE ~CallIn(m, call)
  <2>1. PICK x : x = [m EXCEPT !.segs = Append(@, s), !.calls = Append(@, tool)]
    OBVIOUS
  <2>2. ~\E i \in DOMAIN m.calls : m.calls[i].call = call
    BY <1>11 DEF CallIn
  <2>3. V!Grow([m EXCEPT !.segs = Append(@, [kind |-> "tool", tool |-> tool]),
                         !.calls = IF \E i \in DOMAIN m.calls : m.calls[i].call = call THEN @ ELSE Append(@, tool)])
    BY <1>3, <1>5 DEF V!Comes
  <2>4. V!Grow(x)
    <3>1. [m EXCEPT !.segs = Append(@, [kind |-> "tool", tool |-> tool]),
                    !.calls = IF \E i \in DOMAIN m.calls : m.calls[i].call = call THEN @ ELSE Append(@, tool)] = x
      BY <1>4, <2>1, <2>2
    <3> QED
      BY <2>3, <3>1
  <2>5. Replaces(talk', x) /\ Called(x, m, s, tool)
    BY <1>5, <2>1, <2>4 DEF Called
  <2>6. /\ MessageFits(x, n) /\ x.turn = m.turn
        /\ \A k \in DOMAIN x.calls : x.calls[k] = tool \/ (k \in DOMAIN m.calls /\ x.calls[k] = m.calls[k])
        /\ \A c : CallIn(x, c) <=> CallIn(m, c) \/ c = tool.call
    BY <1>4, <1>5, <1>9, <1>11, <2>5, CalledFits
  <2>7. \/ call = top + 1
        \/ name = "work" /\ m.turn # None /\ [call |-> call, name |-> name, turn |-> m.turn] \in V!Made
    BY <1>5, <1>8 DEF V!Comes
  <2>8. ASSUME NEW j \in DOMAIN talk, NEW l \in DOMAIN talk[j].calls, talk[j].calls[l].call = call
        PROVE  name = "work" /\ talk[j].calls[l].name = "work" /\ m.turn = talk[j].turn /\ m.turn # None
    <3>1. call \in 1..top
      BY <1>7, <2>8 DEF CallIn
    <3>2. name = "work" /\ m.turn # None /\ [call |-> call, name |-> name, turn |-> m.turn] \in V!Made
      BY <2>7, <3>1
    <3>a. PICK i \in DOMAIN talk : \E k \in DOMAIN talk[i].calls :
            /\ talk[i].calls[k].call = call /\ talk[i].calls[k].name = name /\ talk[i].turn = m.turn
      <4>1. \E i \in DOMAIN talk : \E k \in DOMAIN talk[i].calls :
              [call |-> call, name |-> name, turn |-> m.turn]
                = [call |-> talk[i].calls[k].call, name |-> talk[i].calls[k].name, turn |-> talk[i].turn]
        BY <3>2 DEF V!Made
      <4> QED
        BY <4>1
    <3>3. PICK k \in DOMAIN talk[i].calls :
            /\ talk[i].calls[k].call = call /\ talk[i].calls[k].name = name /\ talk[i].turn = m.turn
      BY <3>a
    <3>4. CASE i = j
      <4>1. CallsFit(talk[j])
        BY <1>6 DEF MessageFits
      <4>2. k = l
        BY <2>8, <3>3, <3>4, <4>1 DEF CallsFit
      <4> QED
        BY <3>2, <3>3, <3>4, <4>2
    <3>5. CASE i # j
      <4>1. Shared(talk[i], talk[j])
        BY <1>6, <3>5
      <4>2. talk[i].calls[k].name = "work" /\ talk[j].calls[l].name = "work" /\ talk[i].turn = talk[j].turn
        BY <2>8, <3>3, <4>1 DEF Shared
      <4> QED
        BY <3>2, <3>3, <4>2
    <3> QED
      BY <3>4, <3>5
  <2>9. ASSUME NEW j \in DOMAIN talk, j # n PROVE Shared(x, talk[j])
    <3>1. Shared(m, talk[j])
      BY <1>2, <1>5, <1>6, <2>9
    <3> SUFFICES ASSUME NEW k \in DOMAIN x.calls, NEW l \in DOMAIN talk[j].calls,
                        x.calls[k].call = talk[j].calls[l].call
                 PROVE  x.calls[k].name = "work" /\ talk[j].calls[l].name = "work" /\ x.turn = talk[j].turn /\ x.turn # None
      BY DEF Shared
    <3>2. CASE x.calls[k] = tool
      BY <1>9, <2>6, <2>8, <3>2
    <3>3. CASE k \in DOMAIN m.calls /\ x.calls[k] = m.calls[k]
      BY <2>6, <3>1, <3>3 DEF Shared
    <3> QED
      BY <2>6, <3>2, <3>3
  <2>10. PICK t : t = talk'
    OBVIOUS
  <2>11. Replaces(t, x)
    BY <2>5, <2>10
  <2>12. DOMAIN t = DOMAIN talk /\ t[n] = x /\ \A j \in DOMAIN talk : j # n => t[j] = talk[j]
    BY <1>1, <1>5, <1>6, <2>11, ReplacedIs
  <2>13. ASSUME NEW c
         PROVE  (\E j \in DOMAIN t : CallIn(t[j], c)) <=> (\E j \in DOMAIN talk : CallIn(talk[j], c)) \/ c = call
    BY <1>2, <1>5, <1>9, <2>6, <2>12
  <2>14. Numbered(t)
    <3>1. CASE call = top + 1
      <4>1. \A c : (\E j \in DOMAIN t : CallIn(t[j], c)) <=> c \in 1..top + 1
        <5>1. \A c : c \in 1..top + 1 <=> c \in 1..top \/ c = top + 1
          OBVIOUS
        <5> QED
          BY <1>7, <2>13, <3>1, <5>1
      <4> QED
        BY <4>1 DEF Numbered
    <3>2. CASE call # top + 1
      <4>1. \E i \in DOMAIN talk : CallIn(talk[i], call)
        <5>1. \E i \in DOMAIN talk : \E k \in DOMAIN talk[i].calls :
                [call |-> call, name |-> name, turn |-> m.turn]
                  = [call |-> talk[i].calls[k].call, name |-> talk[i].calls[k].name, turn |-> talk[i].turn]
          BY <2>7, <3>2 DEF V!Made
        <5> QED
          BY <5>1 DEF CallIn
      <4>2. \A c : (\E j \in DOMAIN t : CallIn(t[j], c)) <=> c \in 1..top
        BY <1>7, <2>13, <4>1
      <4> QED
        BY <4>2 DEF Numbered
    <3> QED
      BY <3>1, <3>2
  <2>15. TalkFits(t)
    BY <1>1, <1>5, <2>6, <2>9, <2>11, <2>14, GrownFits
  <2> QED
    BY <2>10, <2>15 DEF TalkInv, TalkFits, Numbered
<1> QED
  BY <1>10, <1>11

\* A message that begins.
LEMMA NewMessage ==
  ASSUME TalkInv, NEW role \in {"user", "assistant"}, NEW turn, NEW plain \in BOOLEAN, V!NewMessage(role, turn, plain)
  PROVE  TalkInv'
<1>1. /\ IsSeq(talk) /\ (\A j \in DOMAIN talk : MessageFits(talk[j], j))
      /\ (\A i, j \in DOMAIN talk : i # j => Shared(talk[i], talk[j])) /\ Numbered(talk)
  BY DEF TalkInv, TalkFits
<1>2. PICK m : m = V!Blank(role, turn, plain)
  OBVIOUS
<1>3. PICK t : t = talk'
  OBVIOUS
<1>4. IsGrown(t, talk, m)
  BY <1>2, <1>3 DEF V!NewMessage, IsGrown
<1>5. PICK n : n = Len(talk) + 1
  OBVIOUS
<1>6. /\ IsSeq(t) /\ n \in Nat /\ n \in DOMAIN t /\ t[n] = m /\ n \notin DOMAIN talk
      /\ \A j \in DOMAIN t : j = n \/ (j \in DOMAIN talk /\ t[j] = talk[j])
      /\ DOMAIN talk \subseteq DOMAIN t
  <2>1. /\ IsSeq(t) /\ Len(t) = Len(talk) + 1 /\ DOMAIN t = 1..Len(talk) + 1
        /\ Len(talk) \in Nat /\ DOMAIN talk = 1..Len(talk)
        /\ t[Len(talk) + 1] = m
        /\ \A i \in DOMAIN talk : t[i] = talk[i]
    BY <1>1, <1>4, Grown
  <2> QED
    BY <1>5, <2>1
<1>7. m = [id |-> n, role |-> role, turn |-> turn, status |-> IF plain THEN "done" ELSE "streaming", aborted |-> FALSE,
           segs |-> <<>>, calls |-> <<>>, agents |-> {}, artifact |-> FALSE, plain |-> plain]
  BY <1>2, <1>5 DEF V!Blank
<1>8. PICK none : none = <<>>
  OBVIOUS
<1>9. IsSeq(none) /\ \A x : x \notin DOMAIN none
  BY <1>8, Nothing
<1>10. /\ m.segs = none /\ m.calls = none /\ m.agents = {} /\ m.plain = plain /\ m.role = role /\ m.turn = turn
       /\ m.status = (IF plain THEN "done" ELSE "streaming") /\ IsMessage(m, n)
  BY <1>7, <1>8 DEF IsMessage
<1>11. MessageFits(m, n)
  <2>1. CallsFit(m)
    BY <1>9, <1>10 DEF CallsFit, CallIn, SegmentOf
  <2>2. IsFiniteSet(m.agents)
    BY <1>10, FS_EmptySet
  <2>3. role = "user" => plain
    BY DEF V!NewMessage
  <2> QED
    BY <1>8, <1>9, <1>10, <2>1, <2>2, <2>3 DEF MessageFits
<1>12. \A x : Shared(m, x) /\ Shared(x, m)
  BY <1>9, <1>10 DEF Shared
<1>13. \A j \in DOMAIN t : MessageFits(t[j], j)
  BY <1>1, <1>6, <1>11
<1>14. ASSUME NEW i \in DOMAIN t, NEW j \in DOMAIN t, i # j PROVE Shared(t[i], t[j])
  BY <1>1, <1>6, <1>12, <1>14
<1>15. ASSUME NEW c PROVE (\E j \in DOMAIN t : CallIn(t[j], c)) <=> (\E j \in DOMAIN talk : CallIn(talk[j], c))
  <2>1. ~CallIn(m, c)
    BY <1>9, <1>10 DEF CallIn
  <2> QED
    BY <1>6, <2>1
<1>16. Numbered(t)
  BY <1>1, <1>15 DEF Numbered
<1>17. TalkFits(t)
  BY <1>6, <1>13, <1>14, <1>16 DEF TalkFits
<1> QED
  BY <1>3, <1>17 DEF TalkInv, TalkFits, Numbered

LEMMA Changed ==
  ASSUME TalkInv, V!Growing, NEW x, V!Grow(x), MessageFits(x, Len(talk)), SameCalls(x, V!Last(talk))
  PROVE  TalkInv'
<1>1. PICK n : n = Len(talk)
  OBVIOUS
<1>2. n \in DOMAIN talk /\ V!Last(talk) = talk[n] /\ Replaces(talk', x) /\ MessageFits(x, n) /\ SameCalls(x, talk[n])
  BY <1>1, GrowingIs
<1>3. PICK t : t = talk'
  OBVIOUS
<1>4. Replaces(t, x)
  BY <1>2, <1>3
<1>5. TalkFits(t)
  BY <1>1, <1>2, <1>4, SameFits
<1> QED
  BY <1>3, <1>5 DEF TalkInv, TalkFits, Numbered

LEMMA TalkStep == ASSUME TalkInv, TodosAreLists, V!Next PROVE TalkInv'
<1>1. ASSUME NEW turn, NEW plain \in BOOLEAN, NEW role \in {"user", "assistant"}, V!NewMessage(role, turn, plain)
      PROVE  TalkInv'
  BY <1>1, NewMessage
<1>2. ASSUME NEW kind \in {"private", "summary", "text"}, V!Says(kind) PROVE TalkInv'
  <2>1. PICK m : m = V!Last(talk)
    OBVIOUS
  <2>2. PICK s : s = V!Segment(kind)
    OBVIOUS
  <2>3. PICK x : x = [m EXCEPT !.segs = Append(@, s)]
    OBVIOUS
  <2>4. V!Growing /\ V!Grow(x) /\ Longer(x, m, s)
    BY <1>2, <2>1, <2>2, <2>3 DEF V!Says, V!Room, Longer
  <2>5. MessageFits(m, Len(talk)) /\ ~m.plain
    BY <2>1, <2>4, GrowingIs
  <2>6. IsSegment(s) /\ s.kind # "tool"
    <3>1. s = [kind |-> kind, tool |-> None]
      BY <2>2 DEF V!Segment
    <3> QED
      BY <3>1 DEF IsSegment, WordKinds
  <2>7. MessageFits(x, Len(talk)) /\ SameCalls(x, m)
    BY <2>4, <2>5, <2>6, WordFits
  <2> QED
    BY <2>1, <2>4, <2>7, Changed
<1>3. ASSUME NEW call \in 1..MaxSegs, NEW name \in {"work", "todo", "ask", "cliAsk", "deliver"},
             NEW data \in Todos \cup {<<>>}, V!Comes(name, call, data)
      PROVE  TalkInv'
  <2>1. call \in Nat /\ name \in ToolNames
    BY DEF ToolNames
  <2> QED
    BY <1>3, <2>1, Comes
<1>4. ASSUME NEW k \in 1..MaxSegs, V!Finishes(k) PROVE TalkInv'
  <2>1. PICK m : m = V!Last(talk)
    OBVIOUS
  <2>2. PICK x : x = [m EXCEPT !.calls[k].status = "done"]
    OBVIOUS
  <2>3. V!Growing /\ V!Grow(x) /\ k \in DOMAIN m.calls
    BY <1>4, <2>1, <2>2 DEF V!Finishes
  <2>4. MessageFits(m, Len(talk)) /\ ~m.plain
    BY <2>1, <2>3, GrowingIs
  <2>5. MessageFits(x, Len(talk)) /\ SameCalls(x, m)
    BY <2>2, <2>3, <2>4, FinishedFits
  <2> QED
    BY <2>1, <2>3, <2>5, Changed
<1>5. ASSUME NEW a \in Agents, V!Delegates(a) PROVE TalkInv'
  <2>1. PICK m : m = V!Last(talk)
    OBVIOUS
  <2>2. PICK x : x = [m EXCEPT !.agents = @ \cup {a}]
    OBVIOUS
  <2>3. V!Growing /\ V!Grow(x)
    BY <1>5, <2>1, <2>2 DEF V!Delegates, V!Room
  <2>4. MessageFits(m, Len(talk)) /\ ~m.plain
    BY <2>1, <2>3, GrowingIs
  <2>5. MessageFits(x, Len(talk)) /\ SameCalls(x, m)
    BY <2>2, <2>4, DelegatedFits
  <2> QED
    BY <2>1, <2>3, <2>5, Changed
<1>6. ASSUME NEW end \in {"done", "error", "aborted"}, NEW artifact \in BOOLEAN, V!Seals(end, artifact) PROVE TalkInv'
  <2>1. PICK m : m = V!Last(talk)
    OBVIOUS
  <2>2. PICK x : x = [m EXCEPT !.status = IF end = "error" THEN "error" ELSE "done", !.aborted = end = "aborted",
                               !.artifact = artifact]
    OBVIOUS
  <2>3. V!Growing /\ V!Grow(x)
    BY <1>6, <2>1, <2>2 DEF V!Seals
  <2>4. MessageFits(m, Len(talk)) /\ ~m.plain
    BY <2>1, <2>3, GrowingIs
  <2>5. MessageFits(x, Len(talk)) /\ SameCalls(x, m)
    BY <2>2, <2>4, SealedFits
  <2> QED
    BY <2>1, <2>3, <2>5, Changed
<1> QED
  BY <1>1, <1>2, <1>3, <1>4, <1>5, <1>6 DEF V!Next

-------------------------------------------------------------------------------
\* A message: its segments and its entries.

SegsFit(m, segs) ==
  /\ IsSeq(segs)
  /\ \A i \in DOMAIN segs : \/ segs[i].kind \in WordKinds
                            \/ segs[i].kind = "tool" /\ \E k \in DOMAIN m.calls : segs[i].tool = m.calls[k]
  /\ \A k \in DOMAIN m.calls : \E i \in DOMAIN segs : segs[i].kind = "tool" /\ segs[i].tool = m.calls[k]

\* Functions over the first numbers.
LEMMA Listed ==
  ASSUME NEW N \in Nat, NEW s, DOMAIN s = 1..N, s = [i \in 1..N |-> s[i]]
  PROVE  IsSeq(s) /\ Len(s) = N
<1>1. s \in Seq({s[i] : i \in 1..N})
  OBVIOUS
<1>2. IsSeq(s)
  BY <1>1, OwnElements DEF IsSeq
<1> QED
  BY <1>1, <1>2

LEMMA AnySeq == \A S, u : u \in Seq(S) => IsSeq(u)
BY OwnElements DEF IsSeq

IsJoined(u, s, t) == u = s \o t

LEMMA ConcatIs ==
  ASSUME NEW s, NEW t, IsSeq(s), IsSeq(t), NEW u, IsJoined(u, s, t)
  PROVE  /\ IsSeq(u) /\ Len(u) = Len(s) + Len(t) /\ DOMAIN u = 1..Len(s) + Len(t)
         /\ \A i \in DOMAIN s : i \in DOMAIN u /\ u[i] = s[i]
         /\ \A i \in DOMAIN t : Len(s) + i \in DOMAIN u /\ u[Len(s) + i] = t[i]
         /\ \A i \in DOMAIN u : i \in DOMAIN s \/ (i - Len(s) \in DOMAIN t /\ i > Len(s))
<1> DEFINE S == {s[i] : i \in DOMAIN s} \cup {t[i] : i \in DOMAIN t}
<1>0. s \in Seq(S) /\ t \in Seq(S) /\ Len(s) \in Nat /\ Len(t) \in Nat /\ DOMAIN s = 1..Len(s) /\ DOMAIN t = 1..Len(t)
  BY DEF IsSeq
<1> HIDE DEF S
<1>1. s \o t \in Seq(S) /\ Len(s \o t) = Len(s) + Len(t)
      /\ \A i \in 1..Len(s) + Len(t) : (s \o t)[i] = IF i <= Len(s) THEN s[i] ELSE t[i - Len(s)]
  BY <1>0, ConcatProperties, Zenon
<1>2. u \in Seq(S) /\ Len(u) = Len(s) + Len(t)
      /\ \A i \in 1..Len(s) + Len(t) : u[i] = IF i <= Len(s) THEN s[i] ELSE t[i - Len(s)]
  BY <1>1, Zenon DEF IsJoined
<1>3. DOMAIN u = 1..Len(s) + Len(t)
  BY <1>2
<1>4. IsSeq(u)
  <2>1. u \in Seq(S)
    BY <1>2
  <2> QED
    BY <2>1, AnySeq, Zenon
<1>5. ASSUME NEW i \in DOMAIN s PROVE i \in DOMAIN u /\ u[i] = s[i]
  <2>1. i \in 1..Len(s) + Len(t) /\ i <= Len(s)
    BY <1>0
  <2> QED
    BY <1>2, <1>3, <2>1
<1>6. ASSUME NEW i \in DOMAIN t PROVE Len(s) + i \in DOMAIN u /\ u[Len(s) + i] = t[i]
  <2>1. Len(s) + i \in 1..Len(s) + Len(t) /\ ~(Len(s) + i <= Len(s)) /\ Len(s) + i - Len(s) = i
    BY <1>0
  <2> QED
    BY <1>2, <1>3, <2>1
<1>7. ASSUME NEW i \in DOMAIN u PROVE i \in DOMAIN s \/ (i - Len(s) \in DOMAIN t /\ i > Len(s))
  BY <1>0, <1>3
<1> QED
  BY <1>2, <1>3, <1>4, <1>5, <1>6, <1>7

LEMMA AmongNone ==
  ASSUME NEW s, IsSeq(s), NEW w, w = V!Among(s, {})
  PROVE  w = <<>>
<1>1. PICK none : none = {}
  OBVIOUS
<1>2. w = V!Among(s, none)
  BY <1>1
<1>3. IsSeq(w) /\ \A k \in DOMAIN w : \E i \in DOMAIN s : w[k] = s[i] /\ s[i] \in none
  BY <1>2, AmongThem
<1>4. \A k : k \notin DOMAIN w
  BY <1>1, <1>3
<1>5. Len(w) \in Nat /\ DOMAIN w = 1..Len(w) /\ w \in Seq({w[i] : i \in DOMAIN w})
  BY <1>3, SeqIs DEF IsSeq
<1>6. Len(w) = 0
  <2>1. ASSUME Len(w) # 0 PROVE FALSE
    <3>1. 1 \in 1..Len(w)
      BY <1>5, <2>1
    <3> QED
      BY <1>4, <1>5, <3>1
  <2> QED
    BY <2>1
<1> QED
  BY <1>5, <1>6, EmptySeq

LEMMA SegmentsFit ==
  ASSUME NEW n, NEW m, MessageFits(m, n)
  PROVE  SegsFit(m, V!SegmentsOf(m))
<1> DEFINE Latest(s) == LET flat == {k \in DOMAIN m.calls : s.kind = "tool" /\ m.calls[k].call = s.tool.call}
                        IN  IF flat = {} THEN s ELSE [s EXCEPT !.tool = m.calls[V!Max(flat)]]
           own == IF m.segs = <<>> /\ m.plain THEN <<V!Segment("text")>>
                  ELSE [i \in DOMAIN m.segs |-> Latest(m.segs[i])]
           Unseen(c) == \A i \in DOMAIN own : own[i].kind = "tool" => own[i].tool.call # c.call
           rest == V!Among(m.calls, {c \in V!ToSet(m.calls) : Unseen(c)})
<1>1. V!SegmentsOf(m) = own \o [i \in DOMAIN rest |-> [kind |-> "tool", tool |-> rest[i]]]
  BY DEF V!SegmentsOf
<1>2. /\ IsSeq(m.segs) /\ IsSeq(m.calls) /\ (\A i \in DOMAIN m.segs : IsSegment(m.segs[i])) /\ CallsFit(m)
      /\ m.plain => m.segs = <<>> /\ m.calls = <<>>
  BY DEF MessageFits
<1>3. SegsFit(m, own)
  <2>1. CASE m.segs = <<>> /\ m.plain
    <3>1. PICK s : s = own
      OBVIOUS
    <3>2. s = <<[kind |-> "text", tool |-> None]>>
      BY <2>1, <3>1 DEF V!Segment
    <3>3. DOMAIN s = 1..1 /\ s[1].kind = "text" /\ s = [i \in 1..1 |-> s[i]]
      BY <3>2
    <3>4. IsSeq(s)
      BY <3>3, Listed
    <3>5. \A k : k \notin DOMAIN m.calls
      <4>1. PICK c : c = m.calls
        OBVIOUS
      <4>2. \A k : k \notin DOMAIN c
        BY <1>2, <2>1, <4>1, Nothing
      <4> QED
        BY <4>1, <4>2
    <3>6. SegsFit(m, s)
      BY <3>3, <3>4, <3>5 DEF SegsFit, WordKinds
    <3> QED
      BY <3>1, <3>6
  <2>2. CASE ~(m.segs = <<>> /\ m.plain)
    <3>0. PICK s : s = own
      OBVIOUS
    <3>1. DOMAIN s = DOMAIN m.segs /\ \A i \in DOMAIN m.segs : s[i] = Latest(m.segs[i])
      BY <2>2, <3>0
    <3>2. ASSUME NEW i \in DOMAIN m.segs
          PROVE  \/ m.segs[i].kind \in WordKinds /\ s[i] = m.segs[i]
                 \/ /\ m.segs[i].kind = "tool" /\ s[i].kind = "tool"
                    /\ \E k \in DOMAIN m.calls : s[i].tool = m.calls[k] /\ m.calls[k].call = m.segs[i].tool.call
      <4>1. IsSegment(m.segs[i])
        BY <1>2
      <4>2. PICK x : x = m.segs[i]
        OBVIOUS
      <4>3. PICK flat : flat = {k \in DOMAIN m.calls : x.kind = "tool" /\ m.calls[k].call = x.tool.call}
        OBVIOUS
      <4>4. s[i] = IF flat = {} THEN x ELSE [x EXCEPT !.tool = m.calls[V!Max(flat)]]
        BY <3>1, <4>2, <4>3
      <4>5. CASE x.kind # "tool"
        <5>1. flat = {}
          BY <4>3, <4>5
        <5>2. x.kind \in WordKinds
          BY <4>1, <4>2, <4>5 DEF IsSegment
        <5> QED
          BY <4>2, <4>4, <5>1, <5>2
      <4>6. CASE x.kind = "tool"
        <5>1. CallIn(m, x.tool.call)
          <6>1. SegmentOf(m, x.tool.call)
            BY <4>2, <4>6 DEF SegmentOf
          <6> QED
            BY <1>2, <6>1 DEF CallsFit
        <5>2. flat # {} /\ flat \subseteq 1..Len(m.calls) /\ Len(m.calls) \in Nat
          <6>1. Len(m.calls) \in Nat /\ DOMAIN m.calls = 1..Len(m.calls)
            BY <1>2, SeqIs
          <6>2. PICK k \in DOMAIN m.calls : m.calls[k].call = x.tool.call
            BY <5>1 DEF CallIn
          <6>3. k \in flat
            BY <4>3, <4>6, <6>2
          <6> QED
            BY <4>3, <6>1, <6>3
        <5>3. PICK k : k = V!Max(flat)
          OBVIOUS
        <5>4. k \in flat
          BY <5>2, <5>3, MaxIs
        <5>5. s[i] = [x EXCEPT !.tool = m.calls[k]]
          BY <4>4, <5>2, <5>3
        <5>6. x = [kind |-> "tool", tool |-> x.tool]
          BY <4>1, <4>2, <4>6 DEF IsSegment, WordKinds
        <5>7. s[i].kind = "tool" /\ s[i].tool = m.calls[k]
          BY <5>5, <5>6
        <5> QED
          BY <4>2, <4>3, <4>6, <5>4, <5>7
      <4> QED
        BY <4>5, <4>6
    <3>3. IsSeq(s)
      <4>1. Len(m.segs) \in Nat /\ DOMAIN m.segs = 1..Len(m.segs)
        BY <1>2, SeqIs
      <4>2. s = [i \in 1..Len(m.segs) |-> s[i]]
        BY <2>2, <3>0, <4>1
      <4> QED
        BY <3>1, <4>1, <4>2, Listed
    <3>4. ASSUME NEW k \in DOMAIN m.calls PROVE \E i \in DOMAIN s : s[i].kind = "tool" /\ s[i].tool = m.calls[k]
      <4>1. SegmentOf(m, m.calls[k].call)
        BY <1>2 DEF CallsFit, CallIn
      <4>2. PICK i \in DOMAIN m.segs : m.segs[i].kind = "tool" /\ m.segs[i].tool.call = m.calls[k].call
        BY <4>1 DEF SegmentOf
      <4>3. PICK l \in DOMAIN m.calls : s[i].kind = "tool" /\ s[i].tool = m.calls[l] /\ m.calls[l].call = m.segs[i].tool.call
        BY <3>2, <4>2 DEF WordKinds
      <4>4. l = k
        BY <1>2, <4>2, <4>3 DEF CallsFit
      <4> QED
        BY <3>1, <4>3, <4>4
    <3>5. SegsFit(m, s)
      BY <3>1, <3>2, <3>3, <3>4 DEF SegsFit
    <3> QED
      BY <3>0, <3>5
  <2> QED
    BY <2>1, <2>2
<1> HIDE DEF own
<1>4. \A c : c \notin {x \in V!ToSet(m.calls) : Unseen(x)}
  <2> SUFFICES ASSUME NEW c \in V!ToSet(m.calls) PROVE ~Unseen(c)
    OBVIOUS
  <2>1. PICK k \in DOMAIN m.calls : c = m.calls[k]
    BY DEF V!ToSet
  <2>2. PICK i \in DOMAIN own : own[i].kind = "tool" /\ own[i].tool = m.calls[k]
    BY <1>3 DEF SegsFit
  <2> QED
    BY <2>1, <2>2
<1>5. {x \in V!ToSet(m.calls) : Unseen(x)} = {}
  BY <1>4
<1>6. rest = <<>>
  <2>1. rest = V!Among(m.calls, {})
    BY <1>5
  <2> HIDE DEF rest
  <2> QED
    BY <1>2, <2>1, AmongNone
<1> HIDE DEF rest
<1>7. PICK tail : tail = [i \in DOMAIN rest |-> [kind |-> "tool", tool |-> rest[i]]]
  OBVIOUS
<1>8. tail = <<>>
  BY <1>6, <1>7
<1>9. PICK s : s = own
  OBVIOUS
<1>10. s \o tail = s
  <2>1. s \in Seq({s[i] : i \in DOMAIN s})
    BY <1>3, <1>9 DEF SegsFit, IsSeq
  <2> QED
    BY <1>8, <2>1
<1> QED
  BY <1>1, <1>3, <1>7, <1>9, <1>10

LEMMA PlacesAre ==
  ASSUME NEW segs, IsSeq(segs), NEW items, NEW w, w = V!Among(V!Numbers(segs), items)
  PROVE  /\ IsSeq(w)
         /\ \A k \in DOMAIN w : w[k] \in DOMAIN segs /\ w[k] \in items
         /\ \A i \in DOMAIN segs : i \in items => \E k \in DOMAIN w : w[k] = i
         /\ \A k, l \in DOMAIN w : k < l => w[k] < w[l]
<1>1. PICK s : s = V!Numbers(segs)
  OBVIOUS
<1>2. PICK N : N = Len(segs)
  OBVIOUS
<1>3. N \in Nat /\ DOMAIN segs = 1..N
  BY <1>2, SeqIs
<1>4. ArePlaces(s, N)
  BY <1>1, <1>3 DEF ArePlaces, V!Numbers
<1>5. w = V!Among(s, items)
  BY <1>1
<1>6. /\ IsSeq(w)
      /\ \A k \in DOMAIN w : w[k] \in 1..N /\ w[k] \in items
      /\ \A i \in 1..N : i \in items => \E k \in DOMAIN w : w[k] = i
      /\ \A k, l \in DOMAIN w : k < l => w[k] < w[l]
  BY <1>3, <1>4, <1>5, PlacesKept
<1> QED
  BY <1>3, <1>6

LEMMA Different ==
  ASSUME NEW w, IsSeq(w), NEW N \in Nat, \A k \in DOMAIN w : w[k] \in 1..N, \A k, l \in DOMAIN w : k < l => w[k] < w[l]
  PROVE  \A k, l \in DOMAIN w : w[k] = w[l] => k = l
<1>1. DOMAIN w = 1..Len(w) /\ Len(w) \in Nat
  BY SeqIs
<1>2. ASSUME NEW k \in DOMAIN w, NEW l \in DOMAIN w, w[k] = w[l] PROVE k = l
  <2>1. k \in Nat /\ l \in Nat /\ w[k] \in Nat /\ w[l] \in Nat
    BY <1>1
  <2>2. ~(k < l) /\ ~(l < k)
    BY <1>2, <2>1
  <2> QED
    BY <2>1, <2>2
<1> QED
  BY <1>2

\* What an entry tells of its message.
ToldBy(m, e) ==
  \/ /\ e.kind \in {"summary", "text"} /\ \E i \in DOMAIN V!SegmentsOf(m) : e.id = <<e.kind, m.id, i>>
  \/ e.kind = "tool" /\ \E k \in DOMAIN m.calls : /\ m.calls[k].name = "work" /\ e.id = <<"tool", m.calls[k].call>>
                                                  /\ e.step = m.calls[k].status
  \/ e.kind = "todo" /\ IsSeq(e.items) /\ \E k \in DOMAIN m.calls : m.calls[k].name = "todo" /\ e.id = <<"todo", m.calls[k].call>>
  \/ e.kind = "subagent" /\ \E a : e.id = <<"subagent", a>>

EntryFits(m, e) ==
  /\ ToldBy(m, e) /\ e.id[1] = e.kind
  /\ e = [kind |-> e.kind, id |-> e.id, ts |-> e.ts, step |-> e.step, items |-> e.items]

LEMMA EntryIs ==
  ASSUME NEW n, NEW m, MessageFits(m, n), NEW segs, segs = V!SegmentsOf(m), NEW i \in DOMAIN segs, V!Entered(m, segs, i)
  PROVE  EntryFits(m, V!Entry(m, segs, i))
<1>1. SegsFit(m, segs) /\ CallsFit(m)
  BY SegmentsFit DEF MessageFits
<1>2. PICK s : s = segs[i]
  OBVIOUS
<1>3. PICK e : e = V!Entry(m, segs, i)
  OBVIOUS
<1>4. CASE s.kind # "tool"
  <2>1. s.kind \in {"summary", "text"}
    BY <1>2, <1>4 DEF V!Entered
  <2>2. e = [kind |-> s.kind, id |-> <<s.kind, m.id, i>>, ts |-> m.id, step |-> None, items |-> <<>>]
    BY <1>2, <1>3, <1>4, <2>1 DEF V!Entry
  <2>3. e.kind = s.kind /\ e.id = <<s.kind, m.id, i>> /\ e.id[1] = e.kind
    BY <2>2
  <2>4. ToldBy(m, e)
    BY <2>1, <2>3 DEF ToldBy
  <2>5. e = [kind |-> e.kind, id |-> e.id, ts |-> e.ts, step |-> e.step, items |-> e.items]
    BY <2>2
  <2> QED
    BY <1>3, <2>3, <2>4, <2>5 DEF EntryFits
<1>5. CASE s.kind = "tool"
  <2>1. PICK k \in DOMAIN m.calls : s.tool = m.calls[k]
    BY <1>1, <1>2, <1>5 DEF SegsFit, WordKinds
  <2>2. PICK c : c = m.calls[k]
    OBVIOUS
  <2>3. IsTool(c)
    BY <1>1, <2>2 DEF CallsFit
  <2>4. c.name \in {"work", "todo"}
    <3>1. ~V!Kept(m, segs, i) /\ ~V!Repeated(segs, i) /\ ~V!Names(s, {"cliAsk", "deliver"})
      BY <1>2, <1>5 DEF V!Entered
    <3>2. ~V!Names(s, {"ask", "todo"}) \/ c.data # <<>>
      BY <1>2, <2>1, <2>2, <3>1 DEF V!Kept
    <3> QED
      BY <1>5, <2>1, <2>2, <2>3, <3>1, <3>2 DEF V!Names, IsTool, ToolNames
  <2>5. PICK kind : kind = IF c.name = "todo" THEN "todo" ELSE "tool"
    OBVIOUS
  <2>6. e = [kind |-> kind, id |-> <<kind, c.call>>, ts |-> m.id, step |-> c.status,
             items |-> IF kind = "todo" THEN c.data ELSE <<>>]
    BY <1>2, <1>3, <1>5, <2>1, <2>2, <2>5 DEF V!Entry
  <2>7. e.kind = kind /\ e.id = <<kind, c.call>> /\ e.id[1] = e.kind /\ e.step = c.status
        /\ (kind = "todo" => e.items = c.data)
    BY <2>6
  <2>8. ToldBy(m, e)
    <3>1. CASE c.name = "todo"
      <4>1. e.kind = "todo" /\ IsSeq(e.items) /\ m.calls[k].name = "todo" /\ e.id = <<"todo", m.calls[k].call>>
        BY <2>2, <2>3, <2>5, <2>7, <3>1 DEF IsTool
      <4> QED
        BY <4>1 DEF ToldBy
    <3>2. CASE c.name = "work"
      <4>1. e.kind = "tool" /\ m.calls[k].name = "work" /\ e.id = <<"tool", m.calls[k].call>> /\ e.step = m.calls[k].status
        BY <2>2, <2>5, <2>7, <3>2
      <4> QED
        BY <4>1 DEF ToldBy
    <3> QED
      BY <2>4, <3>1, <3>2
  <2>9. e = [kind |-> e.kind, id |-> e.id, ts |-> e.ts, step |-> e.step, items |-> e.items]
    BY <2>6
  <2> QED
    BY <1>3, <2>7, <2>8, <2>9 DEF EntryFits
<1> QED
  BY <1>4, <1>5

LEMMA RunIs ==
  ASSUME NEW m, NEW a
  PROVE  EntryFits(m, V!RunEntry(m, a)) /\ V!RunEntry(m, a).id = <<"subagent", a>> /\ V!RunEntry(m, a).kind = "subagent"
<1>1. PICK e : e = V!RunEntry(m, a)
  OBVIOUS
<1>2. e = [kind |-> "subagent", id |-> <<"subagent", a>>, ts |-> m.id, step |-> None, items |-> <<>>]
  BY <1>1 DEF V!RunEntry
<1>3. e.kind = "subagent" /\ e.id = <<"subagent", a>> /\ e.id[1] = "subagent"
  BY <1>2
<1>4. e = [kind |-> e.kind, id |-> e.id, ts |-> e.ts, step |-> e.step, items |-> e.items]
  BY <1>2
<1>5. ToldBy(m, e)
  BY <1>3 DEF ToldBy
<1>6. EntryFits(m, e)
  BY <1>3, <1>4, <1>5 DEF EntryFits
<1> QED
  BY <1>1, <1>3, <1>6

\* Two segments have two entries.
LEMMA EntriesDiffer ==
  ASSUME NEW n, NEW m, MessageFits(m, n), NEW segs, segs = V!SegmentsOf(m), NEW i \in DOMAIN segs, NEW j \in DOMAIN segs,
         V!Entered(m, segs, i), V!Entered(m, segs, j), V!Entry(m, segs, i).id = V!Entry(m, segs, j).id
  PROVE  i = j
<1>1. SegsFit(m, segs) /\ CallsFit(m)
  BY SegmentsFit DEF MessageFits
<1>2. PICK kinds : kinds = [k \in DOMAIN segs |-> IF segs[k].kind = "tool" /\ segs[k].tool.name # "todo" THEN "tool"
                                                   ELSE IF segs[k].kind = "tool" THEN "todo" ELSE segs[k].kind]
  OBVIOUS
<1>3. ASSUME NEW k \in DOMAIN segs, V!Entered(m, segs, k)
      PROVE  /\ V!Entry(m, segs, k).id[1] = kinds[k]
             /\ segs[k].kind = "tool" => V!Entry(m, segs, k).id[2] = segs[k].tool.call /\ kinds[k] \in {"tool", "todo"}
             /\ segs[k].kind # "tool" => V!Entry(m, segs, k).id[3] = k /\ kinds[k] \in {"text", "summary"}
  <2>1. kinds[k] = IF segs[k].kind = "tool" /\ segs[k].tool.name # "todo" THEN "tool"
                   ELSE IF segs[k].kind = "tool" THEN "todo" ELSE segs[k].kind
    BY <1>2
  <2>2. V!Entry(m, segs, k).id = IF segs[k].kind = "tool" THEN <<kinds[k], segs[k].tool.call>> ELSE <<kinds[k], m.id, k>>
    BY <2>1 DEF V!Entry
  <2>3. segs[k].kind # "tool" => segs[k].kind \in {"text", "summary"}
    BY <1>3 DEF V!Entered
  <2>4. CASE segs[k].kind = "tool"
    BY <2>1, <2>2, <2>4
  <2>5. CASE segs[k].kind # "tool"
    BY <2>1, <2>2, <2>3, <2>5
  <2> QED
    BY <2>4, <2>5
<1>4. kinds[i] = kinds[j]
  BY <1>3
<1>5. CASE segs[i].kind # "tool"
  <2>1. segs[j].kind # "tool"
    BY <1>3, <1>4, <1>5
  <2> QED
    BY <1>3, <1>5, <2>1
<1>6. CASE segs[i].kind = "tool"
  <2>1. segs[j].kind = "tool"
    BY <1>3, <1>4, <1>6
  <2>2. segs[i].tool.call = segs[j].tool.call
    BY <1>3, <1>6, <2>1
  <2>3. ~V!Repeated(segs, i) /\ ~V!Repeated(segs, j)
    BY <1>6, <2>1 DEF V!Entered
  <2>4. i \in Nat /\ j \in Nat /\ i >= 1 /\ j >= 1
    BY <1>1, SeqIs DEF SegsFit
  <2>5. ~(i < j) /\ ~(j < i)
    BY <1>6, <2>1, <2>2, <2>3, <2>4 DEF V!Repeated
  <2> QED
    BY <2>4, <2>5
<1> QED
  BY <1>5, <1>6

LEMMA OrderedIs ==
  ASSUME NEW S, IsFiniteSet(S), NEW f, f = V!SetToSeq(S)
  PROVE  IsSeq(f) /\ (\A k \in DOMAIN f : f[k] \in S) /\ \A k, l \in DOMAIN f : f[k] = f[l] => k = l
<1>1. PICK N : N = Cardinality(S)
  OBVIOUS
<1>2. N \in Nat /\ V!Cardinality(S) = N
  BY <1>1, FS_CardinalityType DEF V!Cardinality, Cardinality
<1>3. ExistsBijection(1..N, S)
  BY <1>1, FS_CardinalityType
<1>4. PICK g \in Bijection(1..N, S) : TRUE
  BY <1>3 DEF ExistsBijection
<1>5. g \in [1..N -> S] /\ \A k, l \in 1..N : g[k] = g[l] => k = l
  BY <1>4 DEF Bijection, Injection, IsInjective
<1>6. V!IsInjective(g)
  BY <1>5 DEF V!IsInjective
<1>7. f \in [1..N -> S] /\ V!IsInjective(f)
  <2>1. f = CHOOSE h \in [1..N -> S] : V!IsInjective(h)
    BY <1>2 DEF V!SetToSeq
  <2> QED
    BY <1>5, <1>6, <2>1
<1>8. \A k, l \in DOMAIN f : f[k] = f[l] => k = l
  BY <1>7 DEF V!IsInjective
<1>9. IsSeq(f)
  <2>1. f \in Seq(S)
    BY <1>2, <1>7
  <2> QED
    BY <2>1, AnySeq
<1> QED
  BY <1>7, <1>8, <1>9

EntriesFit(m, es) ==
  /\ IsSeq(es)
  /\ \A k \in DOMAIN es : EntryFits(m, es[k])
  /\ \A k \in DOMAIN es : es[k].kind # "subagent" =>
       \E i \in DOMAIN V!SegmentsOf(m) : V!Entered(m, V!SegmentsOf(m), i) /\ es[k].id = V!Entry(m, V!SegmentsOf(m), i).id
  /\ \A i \in DOMAIN V!SegmentsOf(m) : V!Entered(m, V!SegmentsOf(m), i) =>
       \E k \in DOMAIN es : es[k].id = V!Entry(m, V!SegmentsOf(m), i).id
  /\ \A k, l \in DOMAIN es : es[k].id = es[l].id => k = l
  /\ \A c \in DOMAIN m.calls : m.calls[c].name = "work" =>
       \E k \in DOMAIN es : es[k].kind = "tool" /\ es[k].id = <<"tool", m.calls[c].call>>

\* A call of work is entered, where it comes first.
LEMMA WorkEntered ==
  ASSUME NEW n, NEW m, MessageFits(m, n), NEW segs, segs = V!SegmentsOf(m), NEW c \in DOMAIN m.calls, m.calls[c].name = "work"
  PROVE  \E i \in DOMAIN segs : /\ V!Entered(m, segs, i) /\ V!Entry(m, segs, i).kind = "tool"
                                /\ V!Entry(m, segs, i).id = <<"tool", m.calls[c].call>>
<1>1. SegsFit(m, segs) /\ CallsFit(m)
  BY SegmentsFit DEF MessageFits
<1>2. PICK I : I = {i \in DOMAIN segs : segs[i].kind = "tool" /\ segs[i].tool.call = m.calls[c].call}
  OBVIOUS
<1>3. Len(segs) \in Nat /\ DOMAIN segs = 1..Len(segs)
  BY <1>1, SeqIs DEF SegsFit
<1>4. I # {} /\ I \subseteq Nat
  <2>1. PICK i \in DOMAIN segs : segs[i].kind = "tool" /\ segs[i].tool = m.calls[c]
    BY <1>1 DEF SegsFit
  <2>2. i \in I
    BY <1>2, <2>1
  <2> QED
    BY <1>2, <1>3, <2>2
<1>5. PICK i \in I : \A y \in I : i <= y
  BY <1>4, LeastElement
<1>6. i \in DOMAIN segs /\ segs[i].kind = "tool" /\ segs[i].tool.call = m.calls[c].call
  BY <1>2
<1>7. segs[i].tool = m.calls[c]
  <2>1. PICK k \in DOMAIN m.calls : segs[i].tool = m.calls[k]
    BY <1>1, <1>6 DEF SegsFit, WordKinds
  <2>2. k = c
    BY <1>1, <1>6, <2>1 DEF CallsFit
  <2> QED
    BY <2>1, <2>2
<1>8. ~V!Repeated(segs, i)
  <2> SUFFICES ASSUME NEW j \in 1..(i - 1), segs[j].kind = "tool", segs[j].tool.call = segs[i].tool.call PROVE FALSE
    BY DEF V!Repeated
  <2>1. j \in DOMAIN segs /\ j \in Nat /\ i \in Nat /\ j < i
    BY <1>3, <1>6
  <2>2. j \in I
    BY <1>2, <1>6, <2>1
  <2> QED
    BY <1>5, <2>1, <2>2
<1>9. V!Entered(m, segs, i)
  BY <1>6, <1>7, <1>8 DEF V!Entered, V!Kept, V!Names
<1>10. V!Entry(m, segs, i).kind = "tool" /\ V!Entry(m, segs, i).id = <<"tool", m.calls[c].call>>
  BY <1>6, <1>7 DEF V!Entry
<1> QED
  BY <1>6, <1>9, <1>10

LEMMA EntriesAre ==
  ASSUME NEW n, NEW m, MessageFits(m, n)
  PROVE  EntriesFit(m, V!Entries(m))
<1>1. PICK segs : segs = V!SegmentsOf(m)
  OBVIOUS
<1>2. PICK at : at = V!Places(m, V!Entered)
  OBVIOUS
<1>3. PICK runs : runs = V!SetToSeq(m.agents)
  OBVIOUS
<1>4. PICK a : a = [k \in DOMAIN at |-> V!Entry(m, segs, at[k])]
  OBVIOUS
<1>5. PICK b : b = [k \in DOMAIN runs |-> V!RunEntry(m, runs[k])]
  OBVIOUS
<1>6. PICK es : es = a \o b
  OBVIOUS
<1>7. V!Entries(m) = es
  BY <1>1, <1>2, <1>3, <1>4, <1>5, <1>6 DEF V!Entries
<1>8. SegsFit(m, segs) /\ IsFiniteSet(m.agents)
  BY <1>1, SegmentsFit DEF MessageFits
<1>9. /\ IsSeq(at)
      /\ \A k \in DOMAIN at : at[k] \in DOMAIN segs /\ V!Entered(m, segs, at[k])
      /\ \A i \in DOMAIN segs : V!Entered(m, segs, i) => \E k \in DOMAIN at : at[k] = i
      /\ \A k, l \in DOMAIN at : at[k] = at[l] => k = l
  <2>1. PICK items : items = {i \in DOMAIN segs : V!Entered(m, segs, i)}
    OBVIOUS
  <2>2. at = V!Among(V!Numbers(segs), items)
    BY <1>1, <1>2, <2>1 DEF V!Places
  <2>3. IsSeq(segs)
    BY <1>8 DEF SegsFit
  <2>4. /\ IsSeq(at)
        /\ \A k \in DOMAIN at : at[k] \in DOMAIN segs /\ at[k] \in items
        /\ \A i \in DOMAIN segs : i \in items => \E k \in DOMAIN at : at[k] = i
        /\ \A k, l \in DOMAIN at : k < l => at[k] < at[l]
    BY <2>2, <2>3, PlacesAre
  <2>5. Len(segs) \in Nat /\ DOMAIN segs = 1..Len(segs)
    BY <2>3, SeqIs
  <2>6. \A k, l \in DOMAIN at : at[k] = at[l] => k = l
    BY <2>4, <2>5, Different
  <2> QED
    BY <2>1, <2>4, <2>6
<1>10. IsSeq(runs) /\ (\A k \in DOMAIN runs : runs[k] \in m.agents) /\ \A k, l \in DOMAIN runs : runs[k] = runs[l] => k = l
  BY <1>3, <1>8, OrderedIs
<1>11. IsSeq(a) /\ DOMAIN a = DOMAIN at /\ \A k \in DOMAIN at : a[k] = V!Entry(m, segs, at[k])
  <2>1. Len(at) \in Nat /\ DOMAIN at = 1..Len(at)
    BY <1>9, SeqIs
  <2>2. DOMAIN a = 1..Len(at) /\ a = [k \in 1..Len(at) |-> a[k]] /\ \A k \in DOMAIN at : a[k] = V!Entry(m, segs, at[k])
    BY <1>4, <2>1
  <2> QED
    BY <2>1, <2>2, Listed
<1>12. IsSeq(b) /\ DOMAIN b = DOMAIN runs /\ \A k \in DOMAIN runs : b[k] = V!RunEntry(m, runs[k])
  <2>1. Len(runs) \in Nat /\ DOMAIN runs = 1..Len(runs)
    BY <1>10, SeqIs
  <2>2. DOMAIN b = 1..Len(runs) /\ b = [k \in 1..Len(runs) |-> b[k]] /\ \A k \in DOMAIN runs : b[k] = V!RunEntry(m, runs[k])
    BY <1>5, <2>1
  <2> QED
    BY <2>1, <2>2, Listed
<1>13. /\ IsSeq(es)
       /\ \A i \in DOMAIN a : i \in DOMAIN es /\ es[i] = a[i]
       /\ \A i \in DOMAIN b : Len(a) + i \in DOMAIN es /\ es[Len(a) + i] = b[i]
       /\ \A i \in DOMAIN es : i \in DOMAIN a \/ (i - Len(a) \in DOMAIN b /\ i > Len(a))
  <2>1. IsJoined(es, a, b)
    BY <1>6 DEF IsJoined
  <2> QED
    BY <1>11, <1>12, <2>1, ConcatIs
<1>14. PICK L : L = Len(a)
  OBVIOUS
<1>15. L \in Nat /\ DOMAIN a = 1..L /\ DOMAIN es \subseteq Nat
  <2>1. DOMAIN es = 1..Len(es) /\ Len(es) \in Nat
    BY <1>13, SeqIs
  <2> QED
    BY <1>11, <1>14, <2>1, SeqIs
<1>16. ASSUME NEW k \in DOMAIN es
       PROVE  \/ k \in DOMAIN at /\ k <= L /\ es[k] = V!Entry(m, segs, at[k])
              \/ k > L /\ k - L \in DOMAIN runs /\ es[k] = V!RunEntry(m, runs[k - L])
  <2>1. CASE k \in DOMAIN a
    BY <1>11, <1>13, <1>15, <2>1
  <2>2. CASE k - L \in DOMAIN b /\ k > L
    <3>1. L + (k - L) = k
      BY <1>15
    <3>2. es[k] = b[k - L]
      BY <1>13, <1>14, <2>2, <3>1
    <3> QED
      BY <1>12, <2>2, <3>2
  <2> QED
    BY <1>13, <1>14, <2>1, <2>2
<1>17. \A k \in DOMAIN es : EntryFits(m, es[k])
  <2> SUFFICES ASSUME NEW k \in DOMAIN es PROVE EntryFits(m, es[k])
    OBVIOUS
  <2>1. CASE k \in DOMAIN at /\ k <= L /\ es[k] = V!Entry(m, segs, at[k])
    <3>1. PICK i : i = at[k]
      OBVIOUS
    <3>2. i \in DOMAIN segs /\ V!Entered(m, segs, i) /\ es[k] = V!Entry(m, segs, i)
      BY <1>9, <2>1, <3>1
    <3> QED
      BY <1>1, <3>2, EntryIs
  <2>2. CASE k > L /\ k - L \in DOMAIN runs /\ es[k] = V!RunEntry(m, runs[k - L])
    BY <2>2, RunIs
  <2> QED
    BY <1>16, <2>1, <2>2
<1>18. \A k \in DOMAIN es : es[k].kind # "subagent" =>
         \E i \in DOMAIN segs : V!Entered(m, segs, i) /\ es[k].id = V!Entry(m, segs, i).id
  <2> SUFFICES ASSUME NEW k \in DOMAIN es, es[k].kind # "subagent"
               PROVE  \E i \in DOMAIN segs : V!Entered(m, segs, i) /\ es[k].id = V!Entry(m, segs, i).id
    OBVIOUS
  <2>1. k \in DOMAIN at /\ es[k] = V!Entry(m, segs, at[k])
    BY <1>16, RunIs
  <2> QED
    BY <1>9, <2>1
<1>19. \A i \in DOMAIN segs : V!Entered(m, segs, i) => \E k \in DOMAIN es : es[k] = V!Entry(m, segs, i)
  <2> SUFFICES ASSUME NEW i \in DOMAIN segs, V!Entered(m, segs, i) PROVE \E k \in DOMAIN es : es[k] = V!Entry(m, segs, i)
    OBVIOUS
  <2>1. PICK k \in DOMAIN at : at[k] = i
    BY <1>9
  <2> QED
    BY <1>11, <1>13, <2>1
<1>20. ASSUME NEW k \in DOMAIN es, NEW l \in DOMAIN es, es[k].id = es[l].id PROVE k = l
  <2>1. es[k].kind = es[l].kind
    BY <1>17, <1>20 DEF EntryFits
  <2>2. CASE k <= L /\ l <= L
    <3>1. k \in DOMAIN at /\ l \in DOMAIN at /\ es[k] = V!Entry(m, segs, at[k]) /\ es[l] = V!Entry(m, segs, at[l])
      BY <1>15, <1>16, <2>2
    <3>2. PICK i : i = at[k]
      OBVIOUS
    <3>3. PICK j : j = at[l]
      OBVIOUS
    <3>4. /\ i \in DOMAIN segs /\ V!Entered(m, segs, i) /\ j \in DOMAIN segs /\ V!Entered(m, segs, j)
          /\ V!Entry(m, segs, i).id = V!Entry(m, segs, j).id
      BY <1>9, <1>20, <3>1, <3>2, <3>3
    <3>5. i = j
      BY <1>1, <3>4, EntriesDiffer
    <3> QED
      BY <1>9, <3>1, <3>2, <3>3, <3>5
  <2>3. CASE k > L /\ l > L
    <3>1. /\ k - L \in DOMAIN runs /\ es[k] = V!RunEntry(m, runs[k - L])
          /\ l - L \in DOMAIN runs /\ es[l] = V!RunEntry(m, runs[l - L])
      BY <1>15, <1>16, <2>3
    <3>2. <<"subagent", runs[k - L]>> = <<"subagent", runs[l - L]>>
      BY <1>20, <3>1, RunIs
    <3>3. runs[k - L] = runs[l - L]
      BY <3>2
    <3>4. k - L = l - L
      BY <1>10, <3>1, <3>3
    <3> QED
      BY <1>15, <3>4
  <2>4. \A i \in DOMAIN es : i <= L => es[i].kind # "subagent"
    <3> SUFFICES ASSUME NEW i \in DOMAIN es, i <= L PROVE es[i].kind # "subagent"
      OBVIOUS
    <3>1. i \in DOMAIN at /\ es[i] = V!Entry(m, segs, at[i])
      BY <1>15, <1>16
    <3>2. at[i] \in DOMAIN segs /\ V!Entered(m, segs, at[i])
      BY <1>9, <3>1
    <3>3. V!Entry(m, segs, at[i]).kind \in {"tool", "todo", "summary", "text"}
      BY <3>2 DEF V!Entry, V!Entered
    <3> QED
      BY <3>1, <3>3
  <2>5. \A i \in DOMAIN es : i > L => es[i].kind = "subagent"
    <3> SUFFICES ASSUME NEW i \in DOMAIN es, i > L PROVE es[i].kind = "subagent"
      OBVIOUS
    <3>1. es[i] = V!RunEntry(m, runs[i - L])
      BY <1>15, <1>16
    <3> QED
      BY <3>1, RunIs
  <2> QED
    BY <1>15, <2>1, <2>2, <2>3, <2>4, <2>5
<1>21. \A c \in DOMAIN m.calls : m.calls[c].name = "work" =>
         \E k \in DOMAIN es : es[k].kind = "tool" /\ es[k].id = <<"tool", m.calls[c].call>>
  <2> SUFFICES ASSUME NEW c \in DOMAIN m.calls, m.calls[c].name = "work"
               PROVE  \E k \in DOMAIN es : es[k].kind = "tool" /\ es[k].id = <<"tool", m.calls[c].call>>
    OBVIOUS
  <2>1. PICK i \in DOMAIN segs : /\ V!Entered(m, segs, i) /\ V!Entry(m, segs, i).kind = "tool"
                                 /\ V!Entry(m, segs, i).id = <<"tool", m.calls[c].call>>
    BY <1>1, WorkEntered
  <2> QED
    BY <1>19, <2>1
<1>22. \A i \in DOMAIN segs : V!Entered(m, segs, i) => \E k \in DOMAIN es : es[k].id = V!Entry(m, segs, i).id
  BY <1>19
<1>23. EntriesFit(m, es)
  BY <1>1, <1>13, <1>17, <1>18, <1>20, <1>21, <1>22 DEF EntriesFit
<1> QED
  BY <1>7, <1>23

-------------------------------------------------------------------------------
\* The loops of the projection.

\* A system row is compared with what a reload shows, unless it repeats the one before.
Heard(x, d, m) == IF SR!Compared(x, m) /\ (d # <<>> => SR!Last(d) # m.row) THEN Append(d, m.row) ELSE d

\* One round of the loops: the sort of the entries, the messages, the steps of a window,
\* the system rows that are compared, and the log an agent is replayed from.
Round(loop, of, n, x) ==
  CASE loop = "insert"  -> V!Inserted(x, of[n])
    [] loop = "project" -> V!Projected(x, of[n])
    [] loop = "take"    -> IF of.es[n].kind = "todo" THEN x ELSE V!Took(x, of.es[n], V!Owner(of.es, n, of.todo))
    [] loop = "distil"  -> Heard(of.agent, x, of.rows[n])
    [] loop = "replay"  -> IF of.agent \in SR!Concerns(of.log[n]) THEN SR!Fed(of.agent, x, of.log[n]) ELSE x
RoundMade(loop, of, base, n, g) == g[n] = IF n = 0 THEN base ELSE Round(loop, of, n, g[n - 1])

LEMMA RoundsMade ==
  ASSUME NEW loop, NEW of, NEW base, NEW N \in Nat
  PROVE  \E g : \A n \in 0..N : RoundMade(loop, of, base, n, g)
<1> DEFINE bad == {m \in 0..N : ~\E g : \A n \in 0..m : RoundMade(loop, of, base, n, g)}
<1>1. bad = {}
  <2> SUFFICES ASSUME bad # {} PROVE FALSE
    OBVIOUS
  <2>0. bad \subseteq Nat
    OBVIOUS
  <2> HIDE DEF bad
  <2>1. PICK x \in bad : \A y \in bad : x <= y
    BY <2>0, LeastElement
  <2> USE DEF bad
  <2>2. CASE x = 0
    <3>1. \A n \in 0..0 : RoundMade(loop, of, base, n, [k \in {0} |-> base])
      BY DEF RoundMade
    <3> QED
      BY <2>1, <2>2, <3>1
  <2>3. CASE x # 0
    <3>0. x \in Nat /\ x \in 0..N
      OBVIOUS
    <3>1. x \in Nat /\ x - 1 \in 0..N /\ x - 1 \notin bad
      <4> HIDE DEF bad
      <4>1. x - 1 \notin bad
        BY <2>1, <3>0
      <4> QED
        BY <2>3, <3>0, <4>1
    <3>2. PICK g : \A n \in 0..x - 1 : RoundMade(loop, of, base, n, g)
      BY <3>1
    <3>3. PICK newest : newest = Round(loop, of, x, g[x - 1])
      OBVIOUS
    <3> DEFINE h == [n \in 0..x |-> IF n = x THEN newest ELSE g[n]]
    <3>4. ASSUME NEW n \in 0..x PROVE RoundMade(loop, of, base, n, h)
      <4>1. CASE n = x
        <5>1. h[n] = newest /\ h[n - 1] = g[x - 1]
          BY <2>3, <3>1, <4>1
        <5> QED
          BY <2>3, <3>3, <4>1, <5>1 DEF RoundMade
      <4>2. CASE n # x
        <5>1. n \in 0..x - 1 /\ n - 1 # x /\ (n # 0 => n - 1 \in 0..x)
          BY <3>1, <4>2
        <5>2. h[n] = g[n] /\ (n # 0 => h[n - 1] = g[n - 1])
          BY <4>2, <5>1
        <5> QED
          BY <3>2, <5>1, <5>2 DEF RoundMade
      <4> QED
        BY <4>1, <4>2
    <3> QED
      BY <2>1, <3>4
  <2> QED
    BY <2>2, <2>3
<1> QED
  <2>1. N \in 0..N /\ N \notin bad
    BY <1>1
  <2> QED
    BY <2>1

LEMMA InsertRounds ==
  ASSUME NEW base, NEW of, Len(of) \in Nat
  PROVE  \E g : /\ V!Folded(V!Inserted, base, of) = g[Len(of)]
                /\ \A n \in 0..Len(of) : RoundMade("insert", of, base, n, g)
<1> DEFINE N == Len(of)
<1> DEFINE body(g) == [n \in 0..N |-> IF n = 0 THEN base ELSE V!Inserted(g[n - 1], of[n])]
<1> DEFINE made == CHOOSE g : g = body(g)
<1>1. V!Folded(V!Inserted, base, of) = made[N]
  BY DEF V!Folded
<1>2. made = body(made)
  <2>1. PICK g : \A n \in 0..N : RoundMade("insert", of, base, n, g)
    BY RoundsMade
  <2> DEFINE f == [n \in 0..N |-> g[n]]
  <2>2. ASSUME NEW n \in 0..N PROVE f[n] = IF n = 0 THEN base ELSE V!Inserted(f[n - 1], of[n])
    <3>1. n # 0 => n - 1 \in 0..N
      OBVIOUS
    <3> QED
      BY <2>1, <3>1 DEF RoundMade, Round
  <2>3. f = body(f)
    <3> HIDE DEF f, made
    <3>1. PICK e : e = body(f)
      OBVIOUS
    <3>2. f = [n \in 0..N |-> g[n]]
      BY DEF f
    <3>3. \A n \in 0..N : f[n] = e[n]
      BY <2>2, <3>1
    <3>4. DOMAIN e = 0..N /\ e = [n \in 0..N |-> e[n]]
      BY <3>1
    <3>5. f = e
      BY <3>2, <3>3, <3>4, SameRounds
    <3> QED
      BY <3>1, <3>5
  <2> QED
    BY <2>3, Zenon
<1>3. \A n \in 0..N : RoundMade("insert", of, base, n, made)
  <2>1. PICK g : g = made
    OBVIOUS
  <2>2. g = body(g)
    BY <1>2, <2>1
  <2> HIDE DEF made
  <2>3. \A n \in 0..N : g[n] = IF n = 0 THEN base ELSE V!Inserted(g[n - 1], of[n])
    BY <2>2
  <2>4. \A n \in 0..N : RoundMade("insert", of, base, n, g)
    BY <2>3 DEF RoundMade, Round
  <2> QED
    BY <2>1, <2>4
<1> QED
  BY <1>1, <1>3

LEMMA ProjectRounds ==
  ASSUME NEW base, NEW of, Len(of) \in Nat
  PROVE  \E g : /\ V!Folded(V!Projected, base, of) = g[Len(of)]
                /\ \A n \in 0..Len(of) : RoundMade("project", of, base, n, g)
<1> DEFINE N == Len(of)
<1> DEFINE body(g) == [n \in 0..N |-> IF n = 0 THEN base ELSE V!Projected(g[n - 1], of[n])]
<1> DEFINE made == CHOOSE g : g = body(g)
<1>1. V!Folded(V!Projected, base, of) = made[N]
  BY DEF V!Folded
<1>2. made = body(made)
  <2>1. PICK g : \A n \in 0..N : RoundMade("project", of, base, n, g)
    BY RoundsMade
  <2> DEFINE f == [n \in 0..N |-> g[n]]
  <2>2. ASSUME NEW n \in 0..N PROVE f[n] = IF n = 0 THEN base ELSE V!Projected(f[n - 1], of[n])
    <3>1. n # 0 => n - 1 \in 0..N
      OBVIOUS
    <3> QED
      BY <2>1, <3>1 DEF RoundMade, Round
  <2>3. f = body(f)
    <3> HIDE DEF f, made
    <3>1. PICK e : e = body(f)
      OBVIOUS
    <3>2. f = [n \in 0..N |-> g[n]]
      BY DEF f
    <3>3. \A n \in 0..N : f[n] = e[n]
      BY <2>2, <3>1
    <3>4. DOMAIN e = 0..N /\ e = [n \in 0..N |-> e[n]]
      BY <3>1
    <3>5. f = e
      BY <3>2, <3>3, <3>4, SameRounds
    <3> QED
      BY <3>1, <3>5
  <2> QED
    BY <2>3, Zenon
<1>3. \A n \in 0..N : RoundMade("project", of, base, n, made)
  <2>1. PICK g : g = made
    OBVIOUS
  <2>2. g = body(g)
    BY <1>2, <2>1
  <2> HIDE DEF made
  <2>3. \A n \in 0..N : g[n] = IF n = 0 THEN base ELSE V!Projected(g[n - 1], of[n])
    BY <2>2
  <2>4. \A n \in 0..N : RoundMade("project", of, base, n, g)
    BY <2>3 DEF RoundMade, Round
  <2> QED
    BY <2>1, <2>4
<1> QED
  BY <1>1, <1>3

\* What is filtered from distinct elements is distinct.
LEMMA AmongDistinct ==
  ASSUME NEW s, IsSeq(s), NEW items, NEW w, w = V!Among(s, items), \A i, j \in DOMAIN s : s[i] = s[j] => i = j
  PROVE  \A k, l \in DOMAIN w : w[k] = w[l] => k = l
<1>2. Len(s) \in Nat /\ DOMAIN s = 1..Len(s)
  BY DEF IsSeq
<1>1. PICK kept : /\ w = kept[Len(s)]
                  /\ \A n \in 0..Len(s) : KeptUpTo(s, items, n, kept)
  BY <1>2, AmongUnfold
<1>4. \A n \in 0..Len(s) : kept[n] = IF n = 0 THEN <<>> ELSE IF s[n] \in items THEN Append(kept[n - 1], s[n])
                                     ELSE kept[n - 1]
  BY <1>1 DEF KeptUpTo
<1> DEFINE right(n) ==
      /\ IsSeq(kept[n])
      /\ \A k \in DOMAIN kept[n] : \E i \in 1..n : kept[n][k] = s[i]
      /\ \A k, l \in DOMAIN kept[n] : kept[n][k] = kept[n][l] => k = l
<1> DEFINE P == {n \in 0..Len(s) : right(n)}
<1>5. right(0)
  <2>1. PICK v : v = kept[0]
    OBVIOUS
  <2>2. v = <<>>
    BY <1>2, <1>4, <2>1
  <2>3. IsSeq(v) /\ \A k : k \notin DOMAIN v
    BY <2>2, Nothing
  <2> QED
    BY <2>1, <2>3
<1>6. ASSUME NEW n \in 1..Len(s), right(n - 1) PROVE right(n)
  <2>1. /\ n \in 0..Len(s) /\ n # 0 /\ n \in Nat /\ n \in DOMAIN s /\ n \in 1..n
        /\ \A i \in 1..n - 1 : i \in 1..n /\ i # n /\ i \in DOMAIN s
    BY <1>2
  <2>2. PICK v : v = kept[n - 1]
    OBVIOUS
  <2>3. /\ IsSeq(v)
        /\ \A k \in DOMAIN v : \E i \in 1..n - 1 : v[k] = s[i]
        /\ \A k, l \in DOMAIN v : v[k] = v[l] => k = l
    BY <1>6, <2>2
  <2>4. CASE s[n] \notin items
    <3>1. kept[n] = v
      BY <1>4, <2>1, <2>2, <2>4
    <3> QED
      BY <2>1, <2>3, <3>1
  <2>5. CASE s[n] \in items
    <3>1. PICK x : x = Append(v, s[n])
      OBVIOUS
    <3>2. kept[n] = x
      BY <1>4, <2>1, <2>2, <2>5, <3>1
    <3>3. PICK z : z = Len(v) + 1
      OBVIOUS
    <3>4. /\ IsSeq(x) /\ x[z] = s[n]
          /\ \A k \in DOMAIN x : k = z \/ (k \in DOMAIN v /\ x[k] = v[k])
      <4>1. IsGrown(x, v, s[n])
        BY <3>1 DEF IsGrown
      <4>2. /\ IsSeq(x) /\ Len(x) = Len(v) + 1 /\ DOMAIN x = 1..Len(v) + 1
            /\ Len(v) \in Nat /\ DOMAIN v = 1..Len(v)
            /\ x[Len(v) + 1] = s[n]
            /\ \A i \in DOMAIN v : x[i] = v[i]
        BY <2>3, <4>1, Grown
      <4> QED
        BY <3>3, <4>2
    <3>5. \A k \in DOMAIN v : v[k] # s[n]
      BY <2>1, <2>3
    <3>6. \A k, l \in DOMAIN x : x[k] = x[l] => k = l
      BY <2>3, <3>4, <3>5
    <3>7. \A k \in DOMAIN x : \E i \in 1..n : x[k] = s[i]
      BY <2>1, <2>3, <3>4
    <3> QED
      BY <3>2, <3>4, <3>6, <3>7
  <2> QED
    BY <2>4, <2>5
<1>7. \A n \in 0..Len(s) : n \in P
  <2> HIDE DEF right
  <2>1. 0 \in P
    BY <1>2, <1>5
  <2>2. \A n \in 1..Len(s) : n - 1 \in P => n \in P
    BY <1>2, <1>6
  <2> HIDE DEF P
  <2> QED
    BY <1>2, <2>1, <2>2, Reached
<1>8. right(Len(s))
  <2> HIDE DEF right
  <2> QED
    BY <1>2, <1>7
<1> QED
  BY <1>1, <1>8

\* An entry is inserted.
IsInserted(t, s, e) == t = V!Inserted(s, e)

LEMMA InsertedIs ==
  ASSUME NEW s, IsSeq(s), NEW e, NEW t, IsInserted(t, s, e)
  PROVE  /\ IsSeq(t)
         /\ \A k \in DOMAIN t : t[k] = e \/ \E i \in DOMAIN s : t[k] = s[i]
         /\ \A i \in DOMAIN s : \E k \in DOMAIN t : t[k] = s[i]
         /\ \E k \in DOMAIN t : t[k] = e
         /\ (\A i, j \in DOMAIN s : s[i].id = s[j].id => i = j) /\ (\A i \in DOMAIN s : s[i].id # e.id)
              => \A k, l \in DOMAIN t : t[k].id = t[l].id => k = l
<1>1. PICK after : after = {k \in DOMAIN s : s[k].ts > e.ts}
  OBVIOUS
<1>2. Len(s) \in Nat /\ DOMAIN s = 1..Len(s)
  BY SeqIs
<1>3. PICK N : N = Len(s)
  OBVIOUS
<1>4. CASE after = {}
  <2>1. IsGrown(t, s, e)
    BY <1>1, <1>4 DEF V!Inserted, IsGrown, IsInserted
  <2>2. /\ IsSeq(t) /\ Len(t) = Len(s) + 1 /\ DOMAIN t = 1..Len(s) + 1
        /\ t[Len(s) + 1] = e
        /\ \A i \in DOMAIN s : t[i] = s[i]
    BY <2>1, Grown
  <2>3. PICK z : z = N + 1
    OBVIOUS
  <2>4. /\ z \in DOMAIN t /\ t[z] = e /\ DOMAIN s \subseteq DOMAIN t
        /\ \A k \in DOMAIN t : k = z \/ (k \in DOMAIN s /\ t[k] = s[k])
    BY <1>2, <1>3, <2>2, <2>3
  <2> QED
    BY <2>2, <2>4
<1>5. CASE after # {}
  <2>1. PICK m : m = V!Min(after)
    OBVIOUS
  <2>2. m \in DOMAIN s
    <3>1. after \subseteq Nat
      BY <1>1, <1>2
    <3> QED
      BY <1>1, <1>5, <2>1, <3>1, MinIs
  <2>3. t = V!InsertAt(s, m, e)
    BY <1>1, <1>5, <2>1 DEF V!Inserted, IsInserted
  <2>4. /\ IsSeq(t) /\ Len(t) = Len(s) + 1 /\ DOMAIN t = 1..Len(s) + 1
        /\ \A k \in DOMAIN t : t[k] = IF k < m THEN s[k] ELSE IF k = m THEN e ELSE s[k - 1]
    BY <2>2, <2>3, PutIn
  <2>5. m \in 1..N /\ N \in Nat /\ DOMAIN t = 1..N + 1
    BY <1>2, <1>3, <2>2, <2>4
  <2>6. \A k \in DOMAIN t : \/ k < m /\ k \in DOMAIN s /\ t[k] = s[k]
                            \/ k = m /\ t[k] = e
                            \/ k > m /\ k - 1 \in DOMAIN s /\ t[k] = s[k - 1]
    BY <1>2, <1>3, <2>4, <2>5
  <2>7. ASSUME NEW i \in DOMAIN s PROVE \E k \in DOMAIN t : t[k] = s[i]
    <3>1. CASE i < m
      <4>1. i \in DOMAIN t
        BY <1>2, <1>3, <2>5
      <4> QED
        BY <2>4, <3>1, <4>1
    <3>2. CASE ~(i < m)
      <4>1. i + 1 \in DOMAIN t /\ ~(i + 1 < m) /\ i + 1 # m /\ (i + 1) - 1 = i
        BY <1>2, <1>3, <2>5, <3>2
      <4> QED
        BY <2>4, <4>1
    <3> QED
      BY <3>1, <3>2
  <2>8. m \in DOMAIN t /\ t[m] = e
    BY <2>4, <2>5
  <2>9. ASSUME \A i, j \in DOMAIN s : s[i].id = s[j].id => i = j, \A i \in DOMAIN s : s[i].id # e.id,
               NEW k \in DOMAIN t, NEW l \in DOMAIN t, t[k].id = t[l].id
        PROVE  k = l
    <3>1. k \in Nat /\ l \in Nat /\ m \in Nat
      BY <2>5
    <3>2. CASE k = m \/ l = m
      BY <2>6, <2>9, <3>1, <3>2
    <3>3. CASE k # m /\ l # m
      <4>1. PICK i : i = IF k < m THEN k ELSE k - 1
        OBVIOUS
      <4>2. PICK j : j = IF l < m THEN l ELSE l - 1
        OBVIOUS
      <4>3. i \in DOMAIN s /\ t[k] = s[i] /\ j \in DOMAIN s /\ t[l] = s[j]
        BY <2>6, <3>1, <3>3, <4>1, <4>2
      <4>4. i = j
        BY <2>9, <4>3
      <4> QED
        BY <3>1, <3>3, <4>1, <4>2, <4>4
    <3> QED
      BY <3>2, <3>3
  <2>10. \A k \in DOMAIN t : t[k] = e \/ \E i \in DOMAIN s : t[k] = s[i]
    BY <2>6
  <2> QED
    BY <2>4, <2>7, <2>8, <2>9, <2>10
<1> QED
  BY <1>4, <1>5

DistinctIds(s) == \A k, l \in DOMAIN s : s[k].id = s[l].id => k = l

\* The entries are sorted: none is lost or repeated.
LEMMA SortedIs ==
  ASSUME NEW all, IsSeq(all), DistinctIds(all), NEW w, w = V!Folded(V!Inserted, <<>>, all)
  PROVE  /\ IsSeq(w) /\ DistinctIds(w)
         /\ \A k \in DOMAIN w : \E i \in DOMAIN all : w[k] = all[i]
         /\ \A i \in DOMAIN all : \E k \in DOMAIN w : w[k] = all[i]
<1>1. PICK N : N = Len(all)
  OBVIOUS
<1>2. N \in Nat /\ DOMAIN all = 1..N
  BY <1>1, SeqIs
<1>3. PICK g : w = g[N] /\ \A n \in 0..N : RoundMade("insert", all, <<>>, n, g)
  BY <1>1, <1>2, InsertRounds
<1> DEFINE right(n) ==
      /\ IsSeq(g[n]) /\ DistinctIds(g[n])
      /\ \A k \in DOMAIN g[n] : \E i \in 1..n : g[n][k] = all[i]
      /\ \A i \in 1..n : \E k \in DOMAIN g[n] : g[n][k] = all[i]
<1> DEFINE P == {n \in 0..N : right(n)}
<1>4. right(0)
  <2>1. PICK v : v = g[0]
    OBVIOUS
  <2>2. v = <<>>
    BY <1>2, <1>3, <2>1 DEF RoundMade
  <2>3. IsSeq(v) /\ \A k : k \notin DOMAIN v
    BY <2>2, Nothing
  <2> QED
    BY <2>1, <2>3 DEF DistinctIds
<1>5. ASSUME NEW n \in 1..N, right(n - 1) PROVE right(n)
  <2>1. /\ n \in 0..N /\ n # 0 /\ n \in DOMAIN all /\ n \in 1..n
        /\ \A i \in 1..n - 1 : i \in 1..n /\ i # n /\ i \in DOMAIN all
        /\ \A i \in 1..n : i = n \/ i \in 1..n - 1
    BY <1>2
  <2>2. PICK s : s = g[n - 1]
    OBVIOUS
  <2>3. PICK e : e = all[n]
    OBVIOUS
  <2>4. PICK t : t = g[n]
    OBVIOUS
  <2>5. IsInserted(t, s, e)
    BY <1>3, <2>1, <2>2, <2>3, <2>4 DEF RoundMade, Round, IsInserted
  <2>6. /\ IsSeq(s) /\ DistinctIds(s)
        /\ \A k \in DOMAIN s : \E i \in 1..n - 1 : s[k] = all[i]
        /\ \A i \in 1..n - 1 : \E k \in DOMAIN s : s[k] = all[i]
    BY <1>5, <2>2
  <2>7. /\ IsSeq(t)
        /\ \A k \in DOMAIN t : t[k] = e \/ \E i \in DOMAIN s : t[k] = s[i]
        /\ \A i \in DOMAIN s : \E k \in DOMAIN t : t[k] = s[i]
        /\ \E k \in DOMAIN t : t[k] = e
        /\ (\A i, j \in DOMAIN s : s[i].id = s[j].id => i = j) /\ (\A i \in DOMAIN s : s[i].id # e.id)
             => \A k, l \in DOMAIN t : t[k].id = t[l].id => k = l
    BY <2>5, <2>6, InsertedIs
  <2>8. \A i \in DOMAIN s : s[i].id # e.id
    BY <2>1, <2>3, <2>6 DEF DistinctIds
  <2>9. DistinctIds(t)
    BY <2>6, <2>7, <2>8 DEF DistinctIds
  <2>10. \A k \in DOMAIN t : \E i \in 1..n : t[k] = all[i]
    BY <2>1, <2>3, <2>6, <2>7
  <2>11. \A i \in 1..n : \E k \in DOMAIN t : t[k] = all[i]
    BY <2>1, <2>3, <2>6, <2>7
  <2> QED
    BY <2>4, <2>7, <2>9, <2>10, <2>11
<1>6. \A n \in 0..N : n \in P
  <2> HIDE DEF right
  <2>1. 0 \in P
    BY <1>2, <1>4
  <2>2. \A n \in 1..N : n - 1 \in P => n \in P
    BY <1>2, <1>5
  <2> HIDE DEF P
  <2> QED
    BY <1>2, <2>1, <2>2, Reached
<1>7. right(N)
  <2> HIDE DEF right
  <2> QED
    BY <1>2, <1>6
<1> QED
  BY <1>2, <1>3, <1>7

Replaced(x, incoming) == \E l \in DOMAIN incoming : incoming[l].id = x.id /\ incoming[l].kind \in {"tool", "subagent"}

\* mergeProcessEntries loses and repeats nothing, and what comes again is the latest.
LEMMA MergedIs ==
  ASSUME NEW existing, IsSeq(existing), DistinctIds(existing), NEW incoming, IsSeq(incoming), DistinctIds(incoming),
         NEW w, w = V!MergeProcessEntries(existing, incoming)
  PROVE  /\ IsSeq(w) /\ DistinctIds(w)
         /\ \A k \in DOMAIN w : \/ \E i \in DOMAIN existing : w[k] = existing[i] /\ ~Replaced(existing[i], incoming)
                                \/ \E l \in DOMAIN incoming : w[k] = incoming[l]
         /\ \A i \in DOMAIN existing : \E k \in DOMAIN w : w[k].id = existing[i].id
         /\ \A l \in DOMAIN incoming : \E k \in DOMAIN w : w[k].id = incoming[l].id
<1> DEFINE Again(e) == {k \in DOMAIN incoming : incoming[k].id = e.id /\ incoming[k].kind \in {"tool", "subagent"}}
           New(x) == \A k \in DOMAIN existing : existing[k].id # x.id
<1>1. PICK kept : kept = [k \in DOMAIN existing |-> IF Again(existing[k]) = {} THEN existing[k]
                                                    ELSE incoming[V!Max(Again(existing[k]))]]
  OBVIOUS
<1>2. PICK items : items = {x \in V!ToSet(incoming) : New(x)}
  OBVIOUS
<1>3. PICK fresh : fresh = V!Among(incoming, items)
  OBVIOUS
<1>4. PICK all : all = kept \o fresh
  OBVIOUS
<1>5. w = V!Folded(V!Inserted, <<>>, all)
  BY <1>1, <1>2, <1>3, <1>4 DEF V!MergeProcessEntries
<1>6. Len(existing) \in Nat /\ DOMAIN existing = 1..Len(existing) /\ Len(incoming) \in Nat /\ DOMAIN incoming = 1..Len(incoming)
  BY SeqIs
<1>7. ASSUME NEW k \in DOMAIN existing
      PROVE  /\ kept[k].id = existing[k].id
             /\ \/ kept[k] = existing[k] /\ ~Replaced(existing[k], incoming)
                \/ \E l \in DOMAIN incoming : kept[k] = incoming[l]
  <2>1. PICK x : x = existing[k]
    OBVIOUS
  <2>2. PICK again : again = Again(x)
    OBVIOUS
  <2>3. kept[k] = IF again = {} THEN x ELSE incoming[V!Max(again)]
    BY <1>1, <2>1, <2>2
  <2>4. CASE again = {}
    <3>1. ~Replaced(x, incoming)
      BY <2>2, <2>4 DEF Replaced
    <3> QED
      BY <2>1, <2>3, <2>4, <3>1
  <2>5. CASE again # {}
    <3>1. PICK l : l = V!Max(again)
      OBVIOUS
    <3>2. l \in again
      <4>1. again \subseteq 1..Len(incoming)
        BY <1>6, <2>2
      <4> QED
        BY <1>6, <2>5, <3>1, <4>1, MaxIs
    <3>3. kept[k] = incoming[l] /\ l \in DOMAIN incoming /\ incoming[l].id = x.id
      BY <2>2, <2>3, <2>5, <3>1, <3>2
    <3> QED
      BY <2>1, <3>3
  <2> QED
    BY <2>4, <2>5
<1>8. IsSeq(kept) /\ DOMAIN kept = DOMAIN existing
  <2>1. DOMAIN kept = 1..Len(existing) /\ kept = [k \in 1..Len(existing) |-> kept[k]]
    BY <1>1, <1>6
  <2> QED
    BY <1>6, <2>1, Listed
<1>9. /\ IsSeq(fresh)
      /\ \A k \in DOMAIN fresh : \E i \in DOMAIN incoming : fresh[k] = incoming[i] /\ incoming[i] \in items
      /\ \A i \in DOMAIN incoming : incoming[i] \in items => \E k \in DOMAIN fresh : fresh[k] = incoming[i]
  BY <1>3, AmongThem
<1>10. \A k, l \in DOMAIN fresh : fresh[k] = fresh[l] => k = l
  <2>1. \A i, j \in DOMAIN incoming : incoming[i] = incoming[j] => i = j
    BY DEF DistinctIds
  <2> QED
    BY <1>3, <2>1, AmongDistinct
<1>11. \A i \in DOMAIN incoming : incoming[i] \in items <=> New(incoming[i])
  BY <1>2 DEF V!ToSet
<1>12. DistinctIds(fresh)
  <2> SUFFICES ASSUME NEW k \in DOMAIN fresh, NEW l \in DOMAIN fresh, fresh[k].id = fresh[l].id PROVE k = l
    BY DEF DistinctIds
  <2>1. PICK i \in DOMAIN incoming : fresh[k] = incoming[i]
    BY <1>9
  <2>2. PICK j \in DOMAIN incoming : fresh[l] = incoming[j]
    BY <1>9
  <2>3. i = j
    BY <2>1, <2>2 DEF DistinctIds
  <2> QED
    BY <1>10, <2>1, <2>2, <2>3
<1>13. PICK L : L = Len(kept)
  OBVIOUS
<1>14. /\ IsSeq(all)
       /\ \A i \in DOMAIN kept : i \in DOMAIN all /\ all[i] = kept[i]
       /\ \A i \in DOMAIN fresh : L + i \in DOMAIN all /\ all[L + i] = fresh[i]
       /\ \A i \in DOMAIN all : i \in DOMAIN kept \/ (i - L \in DOMAIN fresh /\ i > L)
  <2>1. IsJoined(all, kept, fresh)
    BY <1>4 DEF IsJoined
  <2> QED
    BY <1>8, <1>9, <1>13, <2>1, ConcatIs
<1>15. L \in Nat /\ DOMAIN kept = 1..L /\ DOMAIN all \subseteq Nat
  <2>1. DOMAIN all = 1..Len(all) /\ Len(all) \in Nat
    BY <1>14, SeqIs
  <2> QED
    BY <1>8, <1>13, <2>1, SeqIs
<1>16. ASSUME NEW i \in DOMAIN all
       PROVE  \/ i \in DOMAIN kept /\ i <= L /\ all[i] = kept[i]
              \/ i > L /\ i - L \in DOMAIN fresh /\ all[i] = fresh[i - L]
  <2>1. CASE i \in DOMAIN kept
    BY <1>14, <1>15, <2>1
  <2>2. CASE i - L \in DOMAIN fresh /\ i > L
    <3>1. L + (i - L) = i
      BY <1>15
    <3> QED
      BY <1>14, <2>2, <3>1
  <2> QED
    BY <1>14, <2>1, <2>2
<1>17. \A i \in DOMAIN kept, j \in DOMAIN fresh : kept[i].id # fresh[j].id
  <2> SUFFICES ASSUME NEW i \in DOMAIN kept, NEW j \in DOMAIN fresh PROVE kept[i].id # fresh[j].id
    OBVIOUS
  <2>1. New(fresh[j])
    BY <1>9, <1>11
  <2> QED
    BY <1>7, <1>8, <2>1
<1>18. DistinctIds(all)
  <2> SUFFICES ASSUME NEW i \in DOMAIN all, NEW j \in DOMAIN all, all[i].id = all[j].id PROVE i = j
    BY DEF DistinctIds
  <2> HIDE DEF New, Again
  <2>1. CASE i <= L /\ j <= L
    <3>1. i \in DOMAIN existing /\ j \in DOMAIN existing /\ existing[i].id = existing[j].id
      BY <1>7, <1>8, <1>15, <1>16, <2>1
    <3> QED
      BY <3>1 DEF DistinctIds
  <2>2. CASE i > L /\ j > L
    <3>1. i - L \in DOMAIN fresh /\ j - L \in DOMAIN fresh /\ fresh[i - L].id = fresh[j - L].id
      BY <1>15, <1>16, <2>2
    <3>2. i - L = j - L
      BY <1>12, <3>1 DEF DistinctIds
    <3> QED
      BY <1>15, <3>2
  <2>3. CASE (i <= L /\ j > L) \/ (j <= L /\ i > L)
    BY <1>15, <1>16, <1>17, <2>3
  <2> QED
    BY <1>15, <2>1, <2>2, <2>3
<1>19. /\ IsSeq(w) /\ DistinctIds(w)
       /\ \A k \in DOMAIN w : \E i \in DOMAIN all : w[k] = all[i]
       /\ \A i \in DOMAIN all : \E k \in DOMAIN w : w[k] = all[i]
  BY <1>5, <1>14, <1>18, SortedIs
<1>20. ASSUME NEW k \in DOMAIN w
       PROVE  \/ \E i \in DOMAIN existing : w[k] = existing[i] /\ ~Replaced(existing[i], incoming)
              \/ \E l \in DOMAIN incoming : w[k] = incoming[l]
  <2> HIDE DEF New, Again
  <2>1. PICK i \in DOMAIN all : w[k] = all[i]
    BY <1>19
  <2>2. CASE i \in DOMAIN kept /\ all[i] = kept[i]
    BY <1>7, <1>8, <2>1, <2>2
  <2>3. CASE i - L \in DOMAIN fresh /\ all[i] = fresh[i - L]
    BY <1>9, <2>1, <2>3
  <2> QED
    BY <1>16, <2>2, <2>3
<1>21. ASSUME NEW i \in DOMAIN existing PROVE \E k \in DOMAIN w : w[k].id = existing[i].id
  <2> HIDE DEF New, Again
  <2>1. i \in DOMAIN all /\ all[i].id = existing[i].id
    BY <1>7, <1>8, <1>14
  <2> QED
    BY <1>19, <2>1
<1>22. ASSUME NEW l \in DOMAIN incoming PROVE \E k \in DOMAIN w : w[k].id = incoming[l].id
  <2>1. CASE New(incoming[l])
    <3>1. PICK i \in DOMAIN fresh : fresh[i] = incoming[l]
      BY <1>9, <1>11, <2>1
    <3> QED
      BY <1>14, <1>19, <3>1
  <2>2. CASE ~New(incoming[l])
    <3>1. PICK i \in DOMAIN existing : existing[i].id = incoming[l].id
      BY <2>2
    <3> QED
      BY <1>21, <3>1
  <2> QED
    BY <2>1, <2>2
<1> QED
  BY <1>19, <1>20, <1>21, <1>22

-------------------------------------------------------------------------------
\* The timeline: what it has, once each.

Has(s, x) == \E k \in DOMAIN s : s[k] = x
Distinct(s) == \A k, l \in DOMAIN s : s[k] = s[l] => k = l

LEMMA Joins ==
  ASSUME NEW s, NEW t, IsSeq(s), IsSeq(t), NEW u, IsJoined(u, s, t)
  PROVE  /\ IsSeq(u)
         /\ \A x : Has(u, x) <=> Has(s, x) \/ Has(t, x)
         /\ Distinct(s) /\ Distinct(t) /\ (\A x : ~(Has(s, x) /\ Has(t, x))) => Distinct(u)
<1>1. PICK L : L = Len(s)
  OBVIOUS
<1>2. /\ IsSeq(u)
      /\ \A i \in DOMAIN s : i \in DOMAIN u /\ u[i] = s[i]
      /\ \A i \in DOMAIN t : L + i \in DOMAIN u /\ u[L + i] = t[i]
      /\ \A i \in DOMAIN u : i \in DOMAIN s \/ (i - L \in DOMAIN t /\ i > L)
  BY <1>1, ConcatIs
<1>3. L \in Nat /\ DOMAIN s = 1..L /\ DOMAIN u \subseteq Nat
  <2>1. DOMAIN u = 1..Len(u) /\ Len(u) \in Nat
    BY <1>2, SeqIs
  <2> QED
    BY <1>1, <2>1, SeqIs
<1>4. ASSUME NEW i \in DOMAIN u
      PROVE  \/ i \in DOMAIN s /\ i <= L /\ u[i] = s[i]
             \/ i > L /\ i - L \in DOMAIN t /\ u[i] = t[i - L]
  <2>1. CASE i \in DOMAIN s
    BY <1>2, <1>3, <2>1
  <2>2. CASE i - L \in DOMAIN t /\ i > L
    <3>1. L + (i - L) = i
      BY <1>3
    <3> QED
      BY <1>2, <2>2, <3>1
  <2> QED
    BY <1>2, <2>1, <2>2
<1>5. \A x : Has(u, x) <=> Has(s, x) \/ Has(t, x)
  BY <1>2, <1>4 DEF Has
<1>6. ASSUME Distinct(s), Distinct(t), \A x : ~(Has(s, x) /\ Has(t, x)) PROVE Distinct(u)
  <2> SUFFICES ASSUME NEW k \in DOMAIN u, NEW l \in DOMAIN u, u[k] = u[l] PROVE k = l
    BY DEF Distinct
  <2>1. CASE k <= L /\ l <= L
    BY <1>3, <1>4, <1>6, <2>1 DEF Distinct
  <2>2. CASE k > L /\ l > L
    <3>1. k - L \in DOMAIN t /\ l - L \in DOMAIN t /\ t[k - L] = t[l - L]
      BY <1>3, <1>4, <2>2
    <3>2. k - L = l - L
      BY <1>6, <3>1 DEF Distinct
    <3> QED
      BY <1>3, <3>2
  <2>3. CASE (k <= L /\ l > L) \/ (l <= L /\ k > L)
    <3>1. ASSUME NEW i \in DOMAIN u, NEW j \in DOMAIN u, i <= L, j > L, u[i] = u[j] PROVE FALSE
      <4>1. Has(s, u[i])
        BY <1>3, <1>4, <3>1 DEF Has
      <4>2. Has(t, u[j])
        BY <1>3, <1>4, <3>1 DEF Has
      <4> QED
        BY <1>6, <3>1, <4>1, <4>2
    <3> QED
      BY <2>3, <3>1
  <2> QED
    BY <1>3, <2>1, <2>2, <2>3
<1> QED
  BY <1>2, <1>5, <1>6

LEMMA Single ==
  ASSUME NEW e, NEW s, s = <<e>>
  PROVE  IsSeq(s) /\ Distinct(s) /\ \A x : Has(s, x) <=> x = e
<1>1. DOMAIN s = 1..1 /\ s[1] = e /\ s = [i \in 1..1 |-> s[i]]
  OBVIOUS
<1>2. IsSeq(s)
  BY <1>1, Listed
<1>3. Distinct(s)
  BY <1>1 DEF Distinct
<1>4. \A x : Has(s, x) <=> x = e
  BY <1>1 DEF Has
<1> QED
  BY <1>2, <1>3, <1>4

LEMMA NoneHas ==
  ASSUME NEW s, s = <<>>
  PROVE  IsSeq(s) /\ Distinct(s) /\ \A x : ~Has(s, x)
<1>1. IsSeq(s) /\ \A x : x \notin DOMAIN s
  BY Nothing
<1> QED
  BY <1>1 DEF Distinct, Has

\* The cards of a message that are not on the timeline yet.
NewCards(m, tl) == V!Among(V!Artifacts(m), {a \in V!ToSet(V!Artifacts(m)) : V!Item("artifact", a) \notin V!ToSet(tl)})
AreCards(items, cards) == items = [k \in DOMAIN cards |-> V!Item("artifact", cards[k])]

LEMMA CardsAre ==
  ASSUME NEW m, NEW tl, NEW items, AreCards(items, NewCards(m, tl))
  PROVE  IsSeq(items) /\ Distinct(items) /\ \A x : Has(items, x) => ~Has(tl, x) /\ \E a : x = V!Item("artifact", a)
<1>1. PICK all : all = V!Artifacts(m)
  OBVIOUS
<1>2. PICK fromHost : fromHost = IF m.artifact THEN <<<<"host", V!ProcessId(m)>>>> ELSE <<>>
  OBVIOUS
<1>3. PICK legacy : legacy = IF V!Delivered(m) /\ m.turn = None THEN <<<<"legacy", V!ProcessId(m)>>>> ELSE <<>>
  OBVIOUS
<1>4. IsJoined(all, fromHost, legacy)
  BY <1>1, <1>2, <1>3 DEF V!Artifacts, IsJoined
<1>5. IsSeq(fromHost) /\ Distinct(fromHost) /\ \A x : Has(fromHost, x) => x = <<"host", V!ProcessId(m)>>
  <2>1. CASE m.artifact
    BY <1>2, <2>1, Single
  <2>2. CASE ~m.artifact
    <3>1. fromHost = <<>>
      BY <1>2, <2>2
    <3> QED
      BY <3>1, NoneHas
  <2> QED
    BY <2>1, <2>2
<1>6. IsSeq(legacy) /\ Distinct(legacy) /\ \A x : Has(legacy, x) => x = <<"legacy", V!ProcessId(m)>>
  <2>1. CASE V!Delivered(m) /\ m.turn = None
    BY <1>3, <2>1, Single
  <2>2. CASE ~(V!Delivered(m) /\ m.turn = None)
    <3>1. legacy = <<>>
      BY <1>3, <2>2
    <3> QED
      BY <3>1, NoneHas
  <2> QED
    BY <2>1, <2>2
<1>7. IsSeq(all) /\ Distinct(all)
  <2>1. \A x : ~(Has(fromHost, x) /\ Has(legacy, x))
    BY <1>5, <1>6
  <2> QED
    BY <1>4, <1>5, <1>6, <2>1, Joins
<1>8. PICK new : new = {a \in V!ToSet(all) : V!Item("artifact", a) \notin V!ToSet(tl)}
  OBVIOUS
<1>0. PICK cards : cards = V!Among(all, new)
  OBVIOUS
<1>9. cards = V!Among(all, new) /\ AreCards(items, cards)
  BY <1>0, <1>1, <1>8 DEF NewCards
<1>10. IsSeq(cards) /\ \A k \in DOMAIN cards : cards[k] \in new
  <2>1. /\ IsSeq(cards)
        /\ \A k \in DOMAIN cards : \E i \in DOMAIN all : cards[k] = all[i] /\ all[i] \in new
        /\ \A i \in DOMAIN all : all[i] \in new => \E k \in DOMAIN cards : cards[k] = all[i]
    BY <1>7, <1>9, AmongThem
  <2> QED
    BY <2>1
<1>11. \A k, l \in DOMAIN cards : cards[k] = cards[l] => k = l
  BY <1>7, <1>9, AmongDistinct DEF Distinct
<1>12. DOMAIN items = DOMAIN cards /\ \A k \in DOMAIN cards : items[k] = <<"artifact", cards[k]>>
  BY <1>9 DEF V!Item, AreCards
<1>13. IsSeq(items)
  <2>1. Len(cards) \in Nat /\ DOMAIN cards = 1..Len(cards)
    BY <1>10, SeqIs
  <2>2. DOMAIN items = 1..Len(cards) /\ items = [k \in 1..Len(cards) |-> items[k]]
    BY <1>9, <2>1 DEF AreCards
  <2> QED
    BY <2>1, <2>2, Listed
<1>14. Distinct(items)
  BY <1>11, <1>12 DEF Distinct
<1>15. ASSUME NEW x, Has(items, x) PROVE ~Has(tl, x) /\ \E a : x = V!Item("artifact", a)
  <2>1. PICK k \in DOMAIN cards : x = V!Item("artifact", cards[k])
    BY <1>12, <1>15 DEF Has, V!Item
  <2>2. V!Item("artifact", cards[k]) \notin V!ToSet(tl)
    BY <1>8, <1>10, <2>1
  <2> QED
    BY <2>1, <2>2 DEF V!ToSet, Has
<1> QED
  BY <1>13, <1>14, <1>15

-------------------------------------------------------------------------------
\* The processes.

Source(p, j) == talk[j].role = "assistant" /\ V!ProcessId(talk[j]) = p

\* An entry of a process comes from one of its messages, and a step from the last that
\* has its call.
FromSource(e, p, n) ==
  \E j \in 1..n : /\ Source(p, j)
                  /\ \E l \in DOMAIN V!Entries(talk[j]) : e = V!Entries(talk[j])[l]
                  /\ e.kind = "tool" => CallIn(talk[j], e.id[2]) /\ \A i \in j + 1..n : ~CallIn(talk[i], e.id[2])

ProcessFits(pr, p, n) ==
  /\ pr = [anchor |-> pr.anchor, sources |-> pr.sources, phase |-> pr.phase, entries |-> pr.entries, todo |-> pr.todo]
  /\ pr.anchor \in 1..n /\ Source(p, pr.anchor) /\ V!Entries(talk[pr.anchor]) # <<>>
  /\ IsSeq(pr.entries) /\ DistinctIds(pr.entries) /\ IsSeq(pr.todo)
  /\ \A k \in DOMAIN pr.entries : FromSource(pr.entries[k], p, n)
  /\ \A j \in 1..n : Source(p, j) => \A l \in DOMAIN V!Entries(talk[j]) :
       \E k \in DOMAIN pr.entries : pr.entries[k].id = V!Entries(talk[j])[l].id

LEMMA EntriesOf ==
  ASSUME TalkInv, NEW j \in DOMAIN talk
  PROVE  MessageFits(talk[j], j) /\ EntriesFit(talk[j], V!Entries(talk[j]))
<1>1. MessageFits(talk[j], j)
  BY DEF TalkInv, TalkFits
<1> QED
  BY <1>1, EntriesAre

LEMMA TalkIs == ASSUME TalkInv PROVE Len(talk) \in Nat /\ DOMAIN talk = 1..Len(talk)
BY SeqIs DEF TalkInv, TalkFits

\* The call of a step is a call of work of its message.
LEMMA StepCall ==
  ASSUME TalkInv, NEW j \in DOMAIN talk, NEW l \in DOMAIN V!Entries(talk[j]), V!Entries(talk[j])[l].kind = "tool"
  PROVE  \E k \in DOMAIN talk[j].calls : /\ talk[j].calls[k].name = "work"
                                         /\ V!Entries(talk[j])[l].id = <<"tool", talk[j].calls[k].call>>
                                         /\ V!Entries(talk[j])[l].id[2] = talk[j].calls[k].call
                                         /\ V!Entries(talk[j])[l].step = talk[j].calls[k].status
<1>1. PICK e : e = V!Entries(talk[j])[l]
  OBVIOUS
<1>2. EntryFits(talk[j], e)
  BY <1>1, EntriesOf DEF EntriesFit
<1>3. PICK k \in DOMAIN talk[j].calls : /\ talk[j].calls[k].name = "work" /\ e.id = <<"tool", talk[j].calls[k].call>>
                                        /\ e.step = talk[j].calls[k].status
  BY <1>1, <1>2 DEF EntryFits, ToldBy
<1>4. e.id[2] = talk[j].calls[k].call
  BY <1>3
<1> QED
  BY <1>1, <1>3, <1>4

\* A call that two messages have is work, and makes them messages of one process.
LEMMA OneProcess ==
  ASSUME TalkInv, NEW i \in DOMAIN talk, NEW j \in DOMAIN talk, i # j, NEW c, CallIn(talk[i], c), CallIn(talk[j], c)
  PROVE  /\ talk[i].role = "assistant" /\ talk[j].role = "assistant"
         /\ V!ProcessId(talk[i]) = V!ProcessId(talk[j])
         /\ \A k \in DOMAIN talk[i].calls : talk[i].calls[k].call = c => talk[i].calls[k].name = "work"
<1>1. Shared(talk[i], talk[j]) /\ MessageFits(talk[i], i) /\ MessageFits(talk[j], j)
  BY DEF TalkInv, TalkFits
<1>2. PICK l \in DOMAIN talk[j].calls : talk[j].calls[l].call = c
  BY DEF CallIn
<1>3. \A k \in DOMAIN talk[i].calls : talk[i].calls[k].call = c =>
        talk[i].calls[k].name = "work" /\ talk[i].turn = talk[j].turn /\ talk[i].turn # None
  BY <1>1, <1>2 DEF Shared
<1>4. talk[i].turn = talk[j].turn /\ talk[i].turn # None
  BY <1>3 DEF CallIn
<1>5. V!ProcessId(talk[i]) = V!ProcessId(talk[j])
  BY <1>4 DEF V!ProcessId
<1>6. ASSUME NEW x \in DOMAIN talk, CallIn(talk[x], c), MessageFits(talk[x], x) PROVE talk[x].role = "assistant"
  <2>1. ASSUME talk[x].role # "assistant" PROVE FALSE
    <3>1. talk[x].role = "user"
      BY <1>6, <2>1 DEF MessageFits, IsMessage
    <3>2. PICK none : none = talk[x].calls
      OBVIOUS
    <3>3. none = <<>>
      BY <1>6, <3>1, <3>2 DEF MessageFits
    <3>4. \A k : k \notin DOMAIN none
      BY <3>3, Nothing
    <3> QED
      BY <1>6, <3>2, <3>4 DEF CallIn
  <2> QED
    BY <2>1
<1> QED
  BY <1>1, <1>3, <1>5, <1>6

\* A message of another process changes nothing.
LEMMA StillFits ==
  ASSUME TalkInv, NEW n \in DOMAIN talk, NEW p, ~Source(p, n), NEW pr, ProcessFits(pr, p, n - 1)
  PROVE  ProcessFits(pr, p, n)
<1>1. n \in Nat /\ n >= 1 /\ DOMAIN talk = 1..Len(talk) /\ n <= Len(talk) /\ Len(talk) \in Nat
  BY TalkIs
<1>2. /\ \A j \in 1..n - 1 : j \in 1..n /\ j \in DOMAIN talk /\ j # n
      /\ \A j \in 1..n : j = n \/ j \in 1..n - 1
  BY <1>1
<1>3. ASSUME NEW k \in DOMAIN pr.entries PROVE FromSource(pr.entries[k], p, n)
  <2>1. PICK e : e = pr.entries[k]
    OBVIOUS
  <2>2. PICK j \in 1..n - 1 :
           /\ Source(p, j)
           /\ \E l \in DOMAIN V!Entries(talk[j]) : e = V!Entries(talk[j])[l]
           /\ e.kind = "tool" => CallIn(talk[j], e.id[2]) /\ \A i \in j + 1..n - 1 : ~CallIn(talk[i], e.id[2])
    BY <2>1 DEF ProcessFits, FromSource
  <2>3. ASSUME e.kind = "tool" PROVE ~CallIn(talk[n], e.id[2])
    <3>1. CallIn(talk[j], e.id[2])
      BY <2>2, <2>3
    <3>2. ASSUME CallIn(talk[n], e.id[2]) PROVE FALSE
      <4>1. talk[n].role = "assistant" /\ V!ProcessId(talk[n]) = V!ProcessId(talk[j])
        BY <1>2, <3>1, <3>2, OneProcess
      <4> QED
        BY <2>2, <4>1 DEF Source
    <3> QED
      BY <3>2
  <2>4. \A i \in j + 1..n : i = n \/ i \in j + 1..n - 1
    BY <1>1
  <2>5. e.kind = "tool" => CallIn(talk[j], e.id[2]) /\ \A i \in j + 1..n : ~CallIn(talk[i], e.id[2])
    BY <2>2, <2>3, <2>4
  <2> QED
    BY <1>2, <2>1, <2>2, <2>5 DEF FromSource
<1>4. ASSUME NEW j \in 1..n, Source(p, j), NEW l \in DOMAIN V!Entries(talk[j])
      PROVE  \E k \in DOMAIN pr.entries : pr.entries[k].id = V!Entries(talk[j])[l].id
  <2>1. j \in 1..n - 1
    BY <1>2, <1>4
  <2> QED
    BY <1>4, <2>1 DEF ProcessFits
<1> QED
  BY <1>2, <1>3, <1>4 DEF ProcessFits

LEMMA LastTodoIs ==
  ASSUME NEW m, NEW es, EntriesFit(m, es)
  PROVE  IsSeq(V!LastTodo(es))
<1>1. PICK todos : todos = {k \in DOMAIN es : es[k].kind = "todo"}
  OBVIOUS
<1>2. V!LastTodo(es) = IF todos = {} THEN <<>> ELSE es[V!Max(todos)].items
  BY <1>1 DEF V!LastTodo
<1>3. CASE todos = {}
  <2>1. PICK s : s = <<>>
    OBVIOUS
  <2> QED
    BY <1>2, <1>3, <2>1, Nothing
<1>4. CASE todos # {}
  <2>1. PICK k : k = V!Max(todos)
    OBVIOUS
  <2>2. Len(es) \in Nat /\ DOMAIN es = 1..Len(es)
    BY SeqIs DEF EntriesFit
  <2>3. k \in todos
    <3>1. todos \subseteq 1..Len(es)
      BY <1>1, <2>2
    <3> QED
      BY <1>4, <2>1, <2>2, <3>1, MaxIs
  <2>4. k \in DOMAIN es /\ es[k].kind = "todo"
    BY <1>1, <2>3
  <2>5. EntryFits(m, es[k])
    BY <2>4 DEF EntriesFit
  <2>6. IsSeq(es[k].items)
    BY <2>4, <2>5 DEF EntryFits, ToldBy
  <2> QED
    BY <1>2, <1>4, <2>1, <2>6
<1> QED
  BY <1>3, <1>4

\* A new entry is from the latest message.
LEMMA NewFromSource ==
  ASSUME TalkInv, NEW n \in DOMAIN talk, NEW p, Source(p, n), NEW l \in DOMAIN V!Entries(talk[n])
  PROVE  FromSource(V!Entries(talk[n])[l], p, n)
<1>1. PICK e : e = V!Entries(talk[n])[l]
  OBVIOUS
<1>2. n \in Nat /\ n \in 1..n
  BY TalkIs
<1>3. \A i : i \notin n + 1..n
  BY <1>2
<1>4. e.kind = "tool" => CallIn(talk[n], e.id[2])
  <2> SUFFICES ASSUME e.kind = "tool" PROVE CallIn(talk[n], e.id[2])
    OBVIOUS
  <2>1. PICK k \in DOMAIN talk[n].calls : V!Entries(talk[n])[l].id[2] = talk[n].calls[k].call
    BY <1>1, StepCall
  <2> QED
    BY <1>1, <2>1 DEF CallIn
<1> QED
  BY <1>1, <1>2, <1>3, <1>4 DEF FromSource

LEMMA BegunFits ==
  ASSUME TalkInv, NEW n \in DOMAIN talk, NEW p, Source(p, n), V!Entries(talk[n]) # <<>>,
         \A j \in 1..n - 1 : Source(p, j) => V!Entries(talk[j]) = <<>>
  PROVE  ProcessFits(V!Begun(talk[n]), p, n)
<1>1. PICK m : m = talk[n]
  OBVIOUS
<1>2. PICK es : es = V!Entries(m)
  OBVIOUS
<1>3. MessageFits(m, n) /\ EntriesFit(m, es)
  BY <1>1, <1>2, EntriesOf
<1>4. PICK pr : pr = V!Begun(m)
  OBVIOUS
<1>5. pr = [anchor |-> m.id, sources |-> <<m.id>>, phase |-> V!ProcessPhase(m), entries |-> es, todo |-> V!LastTodo(es)]
  BY <1>2, <1>4 DEF V!Begun
<1>6. m.id = n
  BY <1>3 DEF MessageFits, IsMessage
<1>7. /\ pr = [anchor |-> pr.anchor, sources |-> pr.sources, phase |-> pr.phase, entries |-> pr.entries, todo |-> pr.todo]
      /\ pr.anchor = n /\ pr.entries = es /\ pr.todo = V!LastTodo(es)
  BY <1>5, <1>6
<1>8. IsSeq(pr.todo)
  BY <1>3, <1>7, LastTodoIs
<1>9. IsSeq(es) /\ DistinctIds(es)
  BY <1>3 DEF EntriesFit, DistinctIds
<1>10. n \in Nat /\ n \in 1..n /\ \A j \in 1..n : j = n \/ j \in 1..n - 1
  BY TalkIs
<1>11. \A k \in DOMAIN es : FromSource(es[k], p, n)
  BY <1>1, <1>2, NewFromSource
<1>12. ASSUME NEW j \in 1..n, Source(p, j), NEW l \in DOMAIN V!Entries(talk[j])
       PROVE  \E k \in DOMAIN es : es[k].id = V!Entries(talk[j])[l].id
  <2>1. CASE j = n
    BY <1>1, <1>2, <1>12, <2>1
  <2>2. CASE j # n
    <3>1. PICK none : none = V!Entries(talk[j])
      OBVIOUS
    <3>2. none = <<>>
      BY <1>10, <1>12, <2>2, <3>1
    <3>3. \A x : x \notin DOMAIN none
      BY <3>2, Nothing
    <3> QED
      BY <1>12, <3>1, <3>3
  <2> QED
    BY <2>1, <2>2
<1>13. ProcessFits(pr, p, n)
  BY <1>1, <1>2, <1>7, <1>8, <1>9, <1>10, <1>11, <1>12 DEF ProcessFits
<1> QED
  BY <1>1, <1>4, <1>13

LEMMA ContinuedFits ==
  ASSUME TalkInv, NEW n \in DOMAIN talk, NEW p, Source(p, n), NEW old, ProcessFits(old, p, n - 1)
  PROVE  ProcessFits(V!Continued(old, talk[n]), p, n)
<1>1. PICK m : m = talk[n]
  OBVIOUS
<1>2. PICK es : es = V!Entries(m)
  OBVIOUS
<1>3. MessageFits(m, n) /\ EntriesFit(m, es)
  BY <1>1, <1>2, EntriesOf
<1>4. PICK pr : pr = V!Continued(old, m)
  OBVIOUS
<1>5. PICK merged : merged = V!MergeProcessEntries(old.entries, es)
  OBVIOUS
<1>6. /\ old = [anchor |-> old.anchor, sources |-> old.sources, phase |-> old.phase, entries |-> old.entries,
                todo |-> old.todo]
      /\ old.anchor \in 1..n - 1 /\ Source(p, old.anchor) /\ V!Entries(talk[old.anchor]) # <<>>
      /\ IsSeq(old.entries) /\ DistinctIds(old.entries) /\ IsSeq(old.todo)
      /\ \A k \in DOMAIN old.entries : FromSource(old.entries[k], p, n - 1)
  BY DEF ProcessFits
<1>7. PICK todo : todo = V!LastTodo(es)
  OBVIOUS
<1>8. PICK kept : kept = IF todo = <<>> THEN old.todo ELSE todo
  OBVIOUS
<1>9. pr = [old EXCEPT !.phase = V!ProcessPhase(m), !.sources = Append(@, m.id), !.entries = merged, !.todo = kept]
  BY <1>2, <1>4, <1>5, <1>7, <1>8 DEF V!Continued
<1>10. /\ pr = [anchor |-> pr.anchor, sources |-> pr.sources, phase |-> pr.phase, entries |-> pr.entries, todo |-> pr.todo]
       /\ pr.anchor = old.anchor /\ pr.entries = merged /\ pr.todo = kept
  <2>1. PICK phase : phase = V!ProcessPhase(m)
    OBVIOUS
  <2>2. PICK sources : sources = Append(old.sources, m.id)
    OBVIOUS
  <2>3. pr = [old EXCEPT !.phase = phase, !.sources = sources, !.entries = merged, !.todo = kept]
    BY <1>9, <2>1, <2>2
  <2> QED
    BY <1>6, <2>3
<1>11. IsSeq(kept)
  <2>1. IsSeq(todo)
    BY <1>3, <1>7, LastTodoIs
  <2> QED
    BY <1>6, <1>8, <2>1
<1>12. IsSeq(es) /\ DistinctIds(es)
  BY <1>3 DEF EntriesFit, DistinctIds
<1>13. PICK existing : existing = old.entries
  OBVIOUS
<1>14. /\ IsSeq(merged) /\ DistinctIds(merged)
       /\ \A k \in DOMAIN merged : \/ \E i \in DOMAIN existing : merged[k] = existing[i] /\ ~Replaced(existing[i], es)
                                   \/ \E l \in DOMAIN es : merged[k] = es[l]
       /\ \A i \in DOMAIN existing : \E k \in DOMAIN merged : merged[k].id = existing[i].id
       /\ \A l \in DOMAIN es : \E k \in DOMAIN merged : merged[k].id = es[l].id
  <2>1. merged = V!MergeProcessEntries(existing, es)
    BY <1>5, <1>13
  <2>2. IsSeq(existing) /\ DistinctIds(existing)
    BY <1>6, <1>13
  <2> QED
    BY <1>12, <2>1, <2>2, MergedIs
<1>15. /\ n \in Nat /\ n \in 1..n /\ \A j \in 1..n : j = n \/ j \in 1..n - 1
       /\ \A j \in 1..n - 1 : j \in 1..n /\ j \in DOMAIN talk /\ j # n
  BY TalkIs
<1>16. ASSUME NEW i \in DOMAIN existing, ~Replaced(existing[i], es) PROVE FromSource(existing[i], p, n)
  <2>1. PICK e : e = existing[i]
    OBVIOUS
  <2>2. PICK j \in 1..n - 1 :
           /\ Source(p, j)
           /\ \E l \in DOMAIN V!Entries(talk[j]) : e = V!Entries(talk[j])[l]
           /\ e.kind = "tool" => CallIn(talk[j], e.id[2]) /\ \A x \in j + 1..n - 1 : ~CallIn(talk[x], e.id[2])
    BY <1>6, <1>13, <2>1 DEF FromSource
  <2>3. ASSUME e.kind = "tool" PROVE ~CallIn(talk[n], e.id[2])
    <3> SUFFICES ASSUME CallIn(talk[n], e.id[2]) PROVE FALSE
      OBVIOUS
    <3>1. CallIn(talk[j], e.id[2])
      BY <2>2, <2>3
    <3>2. PICK c \in DOMAIN m.calls : m.calls[c].call = e.id[2]
      BY <1>1 DEF CallIn
    <3>3. m.calls[c].name = "work"
      <4>1. \A k \in DOMAIN talk[n].calls : talk[n].calls[k].call = e.id[2] => talk[n].calls[k].name = "work"
        BY <1>15, <3>1, OneProcess
      <4> QED
        BY <1>1, <3>2, <4>1
    <3>4. PICK l \in DOMAIN es : es[l].kind = "tool" /\ es[l].id = <<"tool", m.calls[c].call>>
      BY <1>3, <3>3 DEF EntriesFit
    <3>5. e.id = <<"tool", e.id[2]>>
      <4>1. PICK x \in DOMAIN V!Entries(talk[j]) : e = V!Entries(talk[j])[x]
        BY <2>2
      <4>2. \E k \in DOMAIN talk[j].calls : /\ V!Entries(talk[j])[x].id = <<"tool", talk[j].calls[k].call>>
                                            /\ V!Entries(talk[j])[x].id[2] = talk[j].calls[k].call
        BY <1>15, <2>3, <4>1, StepCall
      <4> QED
        BY <4>1, <4>2
    <3>6. Replaced(e, es)
      BY <3>2, <3>4, <3>5 DEF Replaced
    <3> QED
      BY <1>16, <2>1, <3>6
  <2>4. \A x \in j + 1..n : x = n \/ x \in j + 1..n - 1
    BY <1>15
  <2>5. e.kind = "tool" => CallIn(talk[j], e.id[2]) /\ \A x \in j + 1..n : ~CallIn(talk[x], e.id[2])
    BY <2>2, <2>3, <2>4
  <2> QED
    BY <1>15, <2>1, <2>2, <2>5 DEF FromSource
<1>17. ASSUME NEW k \in DOMAIN merged PROVE FromSource(merged[k], p, n)
  <2>1. CASE \E i \in DOMAIN existing : merged[k] = existing[i] /\ ~Replaced(existing[i], es)
    BY <1>16, <2>1
  <2>2. CASE \E l \in DOMAIN es : merged[k] = es[l]
    BY <1>1, <1>2, <2>2, NewFromSource
  <2> QED
    BY <1>14, <2>1, <2>2
<1>18. ASSUME NEW j \in 1..n, Source(p, j), NEW l \in DOMAIN V!Entries(talk[j])
       PROVE  \E k \in DOMAIN merged : merged[k].id = V!Entries(talk[j])[l].id
  <2>1. CASE j = n
    BY <1>1, <1>2, <1>14, <1>18, <2>1
  <2>2. CASE j # n
    <3>1. j \in 1..n - 1
      BY <1>15, <2>2
    <3>2. PICK i \in DOMAIN existing : existing[i].id = V!Entries(talk[j])[l].id
      BY <1>13, <1>18, <3>1 DEF ProcessFits
    <3> QED
      BY <1>14, <3>2
  <2> QED
    BY <2>1, <2>2
<1>19. pr.anchor \in 1..n
  BY <1>6, <1>10, <1>15
<1>20. ProcessFits(pr, p, n)
  BY <1>6, <1>10, <1>11, <1>14, <1>17, <1>18, <1>19 DEF ProcessFits
<1> QED
  BY <1>1, <1>4, <1>20

ProcessesFit(procs, n) ==
  /\ \A p \in DOMAIN procs : ProcessFits(procs[p], p, n)
  /\ \A j \in 1..n : talk[j].role = "assistant" /\ V!Entries(talk[j]) # <<>> => V!ProcessId(talk[j]) \in DOMAIN procs

TimelineFits(tl, procs, n) ==
  /\ IsSeq(tl) /\ Distinct(tl)
  /\ \A j \in 1..n : Has(tl, V!Item("message", j)) <=> talk[j].role = "user" \/ V!Shown(talk[j])
  /\ \A x : Has(tl, x) => \/ \E j \in 1..n : x = V!Item("message", j)
                          \/ \E p \in DOMAIN procs : x = V!Item("process", p)
                          \/ \E a : x = V!Item("artifact", a)

ProjectionFits(acc, n) ==
  /\ acc = [timeline |-> acc.timeline, processes |-> acc.processes]
  /\ ProcessesFit(acc.processes, n)
  /\ TimelineFits(acc.timeline, acc.processes, n)

LEMMA ItemsDiffer ==
  ASSUME NEW a, NEW b, NEW x, NEW y
  PROVE  V!Item(a, x) = V!Item(b, y) <=> a = b /\ x = y
BY DEF V!Item

GrownProcesses(new, procs, pid, m) ==
  new = [p \in DOMAIN procs \cup {pid} |-> IF p # pid THEN procs[p]
                                          ELSE IF pid \in DOMAIN procs THEN V!Continued(procs[pid], m) ELSE V!Begun(m)]

LEMMA ProcessesGrow ==
  ASSUME TalkInv, NEW n \in DOMAIN talk, talk[n].role = "assistant", NEW procs, ProcessesFit(procs, n - 1),
         NEW pid, pid = V!ProcessId(talk[n]), V!Entries(talk[n]) # <<>> \/ pid \in DOMAIN procs, NEW new,
         GrownProcesses(new, procs, pid, talk[n])
  PROVE  ProcessesFit(new, n)
<1>1. /\ DOMAIN new = DOMAIN procs \cup {pid}
      /\ \A p \in DOMAIN new : new[p] = IF p # pid THEN procs[p]
                                       ELSE IF pid \in DOMAIN procs THEN V!Continued(procs[pid], talk[n]) ELSE V!Begun(talk[n])
  BY DEF GrownProcesses
<1>2. n \in Nat /\ n \in 1..n /\ \A j \in 1..n : j = n \/ j \in 1..n - 1
  BY TalkIs
<1>3. ASSUME NEW p \in DOMAIN new PROVE ProcessFits(new[p], p, n)
  <2>1. CASE p # pid
    <3>1. new[p] = procs[p] /\ p \in DOMAIN procs
      BY <1>1, <2>1
    <3>2. ~Source(p, n)
      BY <2>1 DEF Source
    <3>3. ProcessFits(procs[p], p, n - 1)
      BY <3>1 DEF ProcessesFit
    <3>4. ProcessFits(procs[p], p, n)
      BY <3>2, <3>3, StillFits
    <3> QED
      BY <3>1, <3>4
  <2>2. CASE p = pid /\ pid \in DOMAIN procs
    <3>1. new[p] = V!Continued(procs[p], talk[n])
      BY <1>1, <2>2
    <3>2. Source(p, n)
      BY <2>2 DEF Source
    <3>3. ProcessFits(procs[p], p, n - 1)
      BY <2>2 DEF ProcessesFit
    <3>4. ProcessFits(V!Continued(procs[p], talk[n]), p, n)
      BY <3>2, <3>3, ContinuedFits
    <3> QED
      BY <3>1, <3>4
  <2>3. CASE p = pid /\ pid \notin DOMAIN procs
    <3>1. new[p] = V!Begun(talk[n])
      BY <1>1, <2>3
    <3>2. Source(p, n)
      BY <2>3 DEF Source
    <3>3. \A j \in 1..n - 1 : Source(p, j) => V!Entries(talk[j]) = <<>>
      BY <2>3 DEF ProcessesFit, Source
    <3>4. ProcessFits(V!Begun(talk[n]), p, n)
      BY <2>3, <3>2, <3>3, BegunFits
    <3> QED
      BY <3>1, <3>4
  <2> QED
    BY <2>1, <2>2, <2>3
<1>4. \A j \in 1..n : talk[j].role = "assistant" /\ V!Entries(talk[j]) # <<>> => V!ProcessId(talk[j]) \in DOMAIN new
  BY <1>1, <1>2 DEF ProcessesFit
<1> QED
  BY <1>3, <1>4 DEF ProcessesFit

LEMMA ProcessesStay ==
  ASSUME TalkInv, NEW n \in DOMAIN talk, NEW procs, ProcessesFit(procs, n - 1),
         talk[n].role = "assistant" => V!Entries(talk[n]) = <<>> /\ V!ProcessId(talk[n]) \notin DOMAIN procs
  PROVE  ProcessesFit(procs, n)
<1>2. n \in Nat /\ n \in 1..n /\ \A j \in 1..n : j = n \/ j \in 1..n - 1
  BY TalkIs
<1>3. ASSUME NEW p \in DOMAIN procs PROVE ProcessFits(procs[p], p, n)
  <2>1. ~Source(p, n)
    BY DEF Source
  <2>2. ProcessFits(procs[p], p, n - 1)
    BY DEF ProcessesFit
  <2> QED
    BY <2>1, <2>2, StillFits
<1>4. \A j \in 1..n : talk[j].role = "assistant" /\ V!Entries(talk[j]) # <<>> => V!ProcessId(talk[j]) \in DOMAIN procs
  BY <1>2 DEF ProcessesFit
<1> QED
  BY <1>3, <1>4 DEF ProcessesFit

\* What a message adds to the timeline: a process that begins, itself, its cards.
LEMMA TimelineGrows ==
  ASSUME NEW n \in Nat, n >= 1, NEW tl, NEW procs, NEW new, TimelineFits(tl, procs, n - 1), DOMAIN procs \subseteq DOMAIN new,
         NEW process, NEW body, NEW cards,
         IsSeq(process), Distinct(process),
         \A x : Has(process, x) => \E p \in DOMAIN new : p \notin DOMAIN procs /\ x = V!Item("process", p),
         IsSeq(body), Distinct(body), \A x : Has(body, x) => x = V!Item("message", n),
         Has(body, V!Item("message", n)) <=> talk[n].role = "user" \/ V!Shown(talk[n]),
         IsSeq(cards), Distinct(cards), \A x : Has(cards, x) => ~Has(tl, x) /\ \E a : x = V!Item("artifact", a),
         NEW a, IsJoined(a, tl, process), NEW b, IsJoined(b, a, body), NEW c, IsJoined(c, b, cards)
  PROVE  TimelineFits(c, new, n)
<1>0. n \in 1..n /\ (\A j \in 1..n : j = n \/ j \in 1..n - 1) /\ \A j \in 1..n - 1 : j \in 1..n /\ j # n
  OBVIOUS
<1>1. /\ IsSeq(tl) /\ Distinct(tl)
      /\ \A j \in 1..n - 1 : Has(tl, V!Item("message", j)) <=> talk[j].role = "user" \/ V!Shown(talk[j])
      /\ \A x : Has(tl, x) => \/ \E j \in 1..n - 1 : x = V!Item("message", j)
                              \/ \E p \in DOMAIN procs : x = V!Item("process", p)
                              \/ \E y : x = V!Item("artifact", y)
  BY DEF TimelineFits
<1>2. IsSeq(a) /\ Distinct(a) /\ \A x : Has(a, x) <=> Has(tl, x) \/ Has(process, x)
  <2>1. ASSUME NEW x, Has(tl, x), Has(process, x) PROVE FALSE
    <3>1. PICK p \in DOMAIN new : p \notin DOMAIN procs /\ x = V!Item("process", p)
      BY <2>1
    <3>2. PICK q \in DOMAIN procs : x = V!Item("process", q)
      BY <1>1, <2>1, <3>1, ItemsDiffer
    <3> QED
      BY <3>1, <3>2, ItemsDiffer
  <2> QED
    BY <1>1, <2>1, Joins
<1>3. \A x : Has(a, x) => \/ \E j \in 1..n - 1 : x = V!Item("message", j)
                          \/ \E p \in DOMAIN new : x = V!Item("process", p)
                          \/ \E y : x = V!Item("artifact", y)
  BY <1>1, <1>2
<1>4. IsSeq(b) /\ Distinct(b) /\ \A x : Has(b, x) <=> Has(a, x) \/ Has(body, x)
  <2>1. ASSUME NEW x, Has(a, x), Has(body, x) PROVE FALSE
    <3>1. x = V!Item("message", n)
      BY <2>1
    <3>2. PICK j \in 1..n - 1 : x = V!Item("message", j)
      BY <1>3, <2>1, <3>1, ItemsDiffer
    <3> QED
      BY <1>0, <3>1, <3>2, ItemsDiffer
  <2> QED
    BY <1>2, <2>1, Joins
<1>5. IsSeq(c) /\ Distinct(c) /\ \A x : Has(c, x) <=> Has(b, x) \/ Has(cards, x)
  <2>1. ASSUME NEW x, Has(b, x), Has(cards, x) PROVE FALSE
    <3>1. PICK y : x = V!Item("artifact", y)
      BY <2>1
    <3>2. ~Has(process, x) /\ ~Has(body, x)
      BY <3>1, ItemsDiffer
    <3> QED
      BY <1>2, <1>4, <2>1, <3>2
  <2> QED
    BY <1>4, <2>1, Joins
<1>6. ASSUME NEW x, Has(c, x)
      PROVE  \/ \E j \in 1..n : x = V!Item("message", j)
             \/ \E p \in DOMAIN new : x = V!Item("process", p)
             \/ \E y : x = V!Item("artifact", y)
  BY <1>0, <1>3, <1>4, <1>5, <1>6
<1>7. ASSUME NEW j \in 1..n PROVE Has(c, V!Item("message", j)) <=> talk[j].role = "user" \/ V!Shown(talk[j])
  <2>1. PICK x : x = V!Item("message", j)
    OBVIOUS
  <2>2. ~Has(process, x) /\ ~Has(cards, x)
    BY <2>1, ItemsDiffer
  <2>3. Has(c, x) <=> Has(tl, x) \/ Has(body, x)
    BY <1>2, <1>4, <1>5, <2>2
  <2>4. CASE j = n
    <3>1. ASSUME Has(tl, x) PROVE FALSE
      <4>1. PICK i \in 1..n - 1 : x = V!Item("message", i)
        BY <1>1, <2>1, <3>1, ItemsDiffer
      <4> QED
        BY <1>0, <2>1, <2>4, <4>1, ItemsDiffer
    <3> QED
      BY <2>1, <2>3, <2>4, <3>1
  <2>5. CASE j # n
    <3>1. ~Has(body, x)
      BY <2>1, <2>5, ItemsDiffer
    <3>2. j \in 1..n - 1
      BY <1>0, <2>5
    <3> QED
      BY <1>1, <2>1, <2>3, <3>1, <3>2
  <2> QED
    BY <2>4, <2>5
<1> QED
  BY <1>5, <1>6, <1>7 DEF TimelineFits

LEMMA ProjectedFits ==
  ASSUME TalkInv, NEW n \in DOMAIN talk, NEW acc, ProjectionFits(acc, n - 1)
  PROVE  ProjectionFits(V!Projected(acc, talk[n]), n)
<1>1. PICK m : m = talk[n]
  OBVIOUS
<1>2. PICK tl : tl = acc.timeline
  OBVIOUS
<1>3. PICK procs : procs = acc.processes
  OBVIOUS
<1>4. /\ acc = [timeline |-> tl, processes |-> procs]
      /\ ProcessesFit(procs, n - 1) /\ TimelineFits(tl, procs, n - 1)
  BY <1>2, <1>3 DEF ProjectionFits
<1>5. PICK next : next = V!Projected(acc, m)
  OBVIOUS
<1>6. MessageFits(m, n) /\ n \in Nat /\ n >= 1
  BY <1>1, EntriesOf, TalkIs
<1>7. m.id = n /\ m.role \in {"user", "assistant"}
  BY <1>6 DEF MessageFits, IsMessage
<1>8. PICK item : item = V!Item("message", n)
  OBVIOUS
<1>9. PICK none : none = <<>>
  OBVIOUS
<1>10. IsSeq(none) /\ Distinct(none) /\ \A x : ~Has(none, x)
  BY <1>9, NoneHas
<1>11. PICK only : only = <<item>>
  OBVIOUS
<1>12. IsSeq(only) /\ Distinct(only) /\ \A x : Has(only, x) <=> x = item
  BY <1>11, Single
<1>13. tl \in Seq({tl[i] : i \in DOMAIN tl})
  BY <1>4 DEF TimelineFits, IsSeq
<1>14. CASE m.role = "user"
  <2>1. PICK c : c = Append(tl, item)
    OBVIOUS
  <2>2. next = [acc EXCEPT !.timeline = c]
    BY <1>2, <1>5, <1>7, <1>8, <1>14, <2>1 DEF V!Projected
  <2>3. next = [timeline |-> c, processes |-> procs]
    BY <1>4, <2>2
  <2>4. ProcessesFit(procs, n)
    BY <1>1, <1>4, <1>14, ProcessesStay
  <2>5. IsJoined(tl, tl, none)
    BY <1>9, <1>13 DEF IsJoined
  <2>6. IsJoined(c, tl, only)
    <3>1. PICK S : S = {tl[i] : i \in DOMAIN tl} \cup {item}
      OBVIOUS
    <3>2. tl \in Seq(S) /\ item \in S
      BY <1>13, <3>1
    <3>3. tl \o <<item>> = Append(tl, item)
      BY <3>2
    <3> QED
      BY <1>11, <2>1, <3>3 DEF IsJoined
  <2>7. IsJoined(c, c, none)
    <3>1. IsSeq(c)
      <4>1. IsSeq(tl)
        BY <1>4 DEF TimelineFits
      <4> QED
        BY <1>12, <2>6, <4>1, Joins
    <3>2. c \in Seq({c[i] : i \in DOMAIN c})
      BY <3>1 DEF IsSeq
    <3> QED
      BY <1>9, <3>2 DEF IsJoined
  <2>8. TimelineFits(c, procs, n)
    <3>1. Has(only, V!Item("message", n)) <=> talk[n].role = "user" \/ V!Shown(talk[n])
      BY <1>1, <1>8, <1>12, <1>14
    <3> QED
      BY <1>4, <1>6, <1>8, <1>10, <1>12, <2>5, <2>6, <2>7, <3>1, TimelineGrows
  <2> QED
    BY <1>1, <1>5, <2>3, <2>4, <2>8 DEF ProjectionFits
<1>15. CASE m.role = "assistant"
  <2>1. PICK pid : pid = V!ProcessId(m)
    OBVIOUS
  <2>2. PICK process : process = IF V!Entries(m) # <<>> /\ pid \notin DOMAIN procs THEN <<V!Item("process", pid)>> ELSE <<>>
    OBVIOUS
  <2>3. PICK body : body = IF V!Shown(m) THEN only ELSE none
    OBVIOUS
  <2>4. PICK fresh : fresh = NewCards(m, tl)
    OBVIOUS
  <2>5. PICK cards : cards = [k \in DOMAIN fresh |-> V!Item("artifact", fresh[k])]
    OBVIOUS
  <2>6. PICK new : new = IF ~(V!Entries(m) # <<>> \/ pid \in DOMAIN procs) THEN procs
                         ELSE [p \in DOMAIN procs \cup {pid} |->
                                 IF p # pid THEN procs[p]
                                 ELSE IF pid \in DOMAIN procs THEN V!Continued(procs[pid], m) ELSE V!Begun(m)]
    OBVIOUS
  <2>7. PICK a : a = tl \o process
    OBVIOUS
  <2>8. PICK b : b = a \o body
    OBVIOUS
  <2>9. PICK c : c = b \o cards
    OBVIOUS
  <2>10. next = [timeline |-> c, processes |-> new]
    <3>1. m.role # "user"
      BY <1>15
    <3>2. next.timeline = acc.timeline \o process \o body \o cards
      BY <1>2, <1>3, <1>5, <1>7, <1>8, <1>9, <1>11, <2>1, <2>2, <2>3, <2>4, <2>5, <3>1 DEF V!Projected, NewCards
    <3>3. next.processes = new
      BY <1>3, <1>5, <2>1, <2>6, <3>1 DEF V!Projected
    <3>4. next = [timeline |-> next.timeline, processes |-> next.processes]
      BY <1>5, <3>1 DEF V!Projected
    <3> QED
      BY <1>2, <2>7, <2>8, <2>9, <3>2, <3>3, <3>4
  <2>11. ProcessesFit(new, n) /\ DOMAIN procs \subseteq DOMAIN new
         /\ (V!Entries(m) # <<>> => pid \in DOMAIN new)
    <3>1. CASE V!Entries(m) # <<>> \/ pid \in DOMAIN procs
      <4>1. GrownProcesses(new, procs, pid, talk[n])
        BY <1>1, <2>6, <3>1 DEF GrownProcesses
      <4>2. ProcessesFit(new, n)
        BY <1>1, <1>4, <1>15, <2>1, <3>1, <4>1, ProcessesGrow
      <4>3. DOMAIN new = DOMAIN procs \cup {pid}
        BY <4>1 DEF GrownProcesses
      <4> QED
        BY <4>2, <4>3
    <3>2. CASE ~(V!Entries(m) # <<>> \/ pid \in DOMAIN procs)
      <4>1. new = procs
        BY <2>6, <3>2
      <4>2. ProcessesFit(procs, n)
        BY <1>1, <1>4, <2>1, <3>2, ProcessesStay
      <4> QED
        BY <3>2, <4>1, <4>2
    <3> QED
      BY <3>1, <3>2
  <2>12. /\ IsSeq(process) /\ Distinct(process)
         /\ \A x : Has(process, x) => \E p \in DOMAIN new : p \notin DOMAIN procs /\ x = V!Item("process", p)
    <3>1. CASE V!Entries(m) # <<>> /\ pid \notin DOMAIN procs
      <4>1. process = <<V!Item("process", pid)>>
        BY <2>2, <3>1
      <4>2. IsSeq(process) /\ Distinct(process) /\ \A x : Has(process, x) <=> x = V!Item("process", pid)
        BY <4>1, Single
      <4> QED
        BY <2>11, <3>1, <4>2
    <3>2. CASE ~(V!Entries(m) # <<>> /\ pid \notin DOMAIN procs)
      <4>1. process = none
        BY <1>9, <2>2, <3>2
      <4> QED
        BY <1>10, <4>1
    <3> QED
      BY <3>1, <3>2
  <2>13. /\ IsSeq(body) /\ Distinct(body) /\ (\A x : Has(body, x) => x = V!Item("message", n))
         /\ Has(body, V!Item("message", n)) <=> talk[n].role = "user" \/ V!Shown(talk[n])
    <3>1. CASE V!Shown(m)
      BY <1>1, <1>8, <1>12, <2>3, <3>1
    <3>2. CASE ~V!Shown(m)
      BY <1>1, <1>10, <1>15, <2>3, <3>2
    <3> QED
      BY <3>1, <3>2
  <2>14. IsSeq(cards) /\ Distinct(cards) /\ \A x : Has(cards, x) => ~Has(tl, x) /\ \E y : x = V!Item("artifact", y)
    <3>1. AreCards(cards, NewCards(m, tl))
      BY <2>4, <2>5 DEF AreCards
    <3> QED
      BY <3>1, CardsAre
  <2>15. IsJoined(a, tl, process) /\ IsJoined(b, a, body) /\ IsJoined(c, b, cards)
    BY <2>7, <2>8, <2>9 DEF IsJoined
  <2>16. TimelineFits(c, new, n)
    BY <1>4, <1>6, <2>11, <2>12, <2>13, <2>14, <2>15, TimelineGrows
  <2> QED
    BY <1>1, <1>5, <2>10, <2>11, <2>16 DEF ProjectionFits
<1> QED
  BY <1>7, <1>14, <1>15

\* What is projected of the transcript.
LEMMA ProjectionIs ==
  ASSUME TalkInv
  PROVE  ProjectionFits(V!ProjectWorkTimeline(talk), Len(talk))
<1>1. PICK N : N = Len(talk)
  OBVIOUS
<1>2. N \in Nat /\ DOMAIN talk = 1..N
  BY <1>1, TalkIs
<1>3. PICK base : base = [timeline |-> <<>>, processes |-> [p \in {} |-> None]]
  OBVIOUS
<1>4. PICK g : V!Folded(V!Projected, base, talk) = g[N] /\ \A n \in 0..N : RoundMade("project", talk, base, n, g)
  BY <1>1, <1>2, ProjectRounds
<1> DEFINE P == {n \in 0..N : ProjectionFits(g[n], n)}
<1>5. 0 \in P
  <2>1. g[0] = base
    BY <1>2, <1>4 DEF RoundMade
  <2>2. PICK tl : tl = <<>>
    OBVIOUS
  <2>3. PICK procs : procs = [p \in {} |-> None]
    OBVIOUS
  <2>4. base = [timeline |-> tl, processes |-> procs]
    BY <1>3, <2>2, <2>3
  <2>5. (\A p : p \notin DOMAIN procs) /\ \A j : j \notin 1..0
    BY <2>3
  <2>6. IsSeq(tl) /\ Distinct(tl) /\ \A x : ~Has(tl, x)
    BY <2>2, NoneHas
  <2>7. ProcessesFit(procs, 0) /\ TimelineFits(tl, procs, 0)
    BY <2>5, <2>6 DEF ProcessesFit, TimelineFits
  <2>8. ProjectionFits(base, 0)
    BY <2>4, <2>7 DEF ProjectionFits
  <2> QED
    BY <1>2, <2>1, <2>8
<1>6. ASSUME NEW n \in 1..N, n - 1 \in P PROVE n \in P
  <2>1. n \in 0..N /\ n # 0 /\ n \in DOMAIN talk
    BY <1>2
  <2>2. g[n] = V!Projected(g[n - 1], talk[n])
    BY <1>4, <2>1 DEF RoundMade, Round
  <2>3. ProjectionFits(g[n - 1], n - 1)
    BY <1>6
  <2>4. ProjectionFits(V!Projected(g[n - 1], talk[n]), n)
    BY <2>1, <2>3, ProjectedFits
  <2> QED
    BY <2>1, <2>2, <2>4
<1>7. \A n \in 0..N : n \in P
  <2> HIDE DEF P
  <2> QED
    BY <1>2, <1>5, <1>6, Reached
<1>8. ProjectionFits(g[N], N)
  BY <1>2, <1>7
<1> QED
  BY <1>1, <1>3, <1>4, <1>8 DEF V!ProjectWorkTimeline

-------------------------------------------------------------------------------
\* The attribution of the steps.

Under(steps, t) == UNION V!ToSet(steps[t])

\* The steps of a window that were taken: each under one task, or among the words that wait.
Spread(steps, tasks, words, X) ==
  /\ DOMAIN steps = tasks /\ \A t \in tasks : IsSeq(steps[t])
  /\ \A x : x \in X <=> x \in words \/ \E t \in tasks : x \in Under(steps, t)
  /\ \A t, u \in tasks : t # u => Under(steps, t) \cap Under(steps, u) = {}
  /\ \A t \in tasks : Under(steps, t) \cap words = {}

LEMMA UnderGrown ==
  ASSUME NEW s, IsSeq(s), NEW w, NEW t, IsGrown(t, s, w)
  PROVE  UNION V!ToSet(t) = (UNION V!ToSet(s)) \cup w
<1>1. PICK z : z = Len(s) + 1
  OBVIOUS
<1>2. /\ z \in DOMAIN t /\ t[z] = w
      /\ \A i \in DOMAIN s : i \in DOMAIN t /\ t[i] = s[i]
      /\ \A i \in DOMAIN t : i = z \/ i \in DOMAIN s
  <2>1. /\ IsSeq(t) /\ Len(t) = Len(s) + 1 /\ DOMAIN t = 1..Len(s) + 1
        /\ Len(s) \in Nat /\ DOMAIN s = 1..Len(s)
        /\ t[Len(s) + 1] = w
        /\ \A i \in DOMAIN s : t[i] = s[i]
    BY Grown
  <2> QED
    BY <1>1, <2>1
<1>3. ASSUME NEW x PROVE x \in UNION V!ToSet(t) <=> x \in (UNION V!ToSet(s)) \cup w
  <2>1. x \in UNION V!ToSet(t) <=> \E i \in DOMAIN t : x \in t[i]
    BY DEF V!ToSet
  <2>2. x \in UNION V!ToSet(s) <=> \E i \in DOMAIN s : x \in s[i]
    BY DEF V!ToSet
  <2>3. ASSUME NEW i \in DOMAIN t, x \in t[i] PROVE x \in w \/ \E j \in DOMAIN s : x \in s[j]
    BY <1>2, <2>3
  <2>4. ASSUME NEW i \in DOMAIN s, x \in s[i] PROVE \E j \in DOMAIN t : x \in t[j]
    BY <1>2, <2>4
  <2>5. ASSUME x \in w PROVE \E j \in DOMAIN t : x \in t[j]
    BY <1>2, <2>5
  <2>6. (\E j \in DOMAIN t : x \in t[j]) <=> (\E j \in DOMAIN s : x \in s[j]) \/ x \in w
    BY <2>3, <2>4, <2>5
  <2>7. x \in (UNION V!ToSet(s)) \cup w <=> x \in UNION V!ToSet(s) \/ x \in w
    OBVIOUS
  <2> QED
    BY <2>1, <2>2, <2>6, <2>7, Zenon
<1> QED
  BY <1>3

\* The words that wait become a step.
LEMMA Put ==
  ASSUME NEW steps, NEW tasks, NEW words, NEW X, Spread(steps, tasks, words, X), NEW o \in tasks,
         NEW new, new = [steps EXCEPT ![o] = Append(@, words)], NEW none, none = {}
  PROVE  Spread(new, tasks, none, X)
<1>1. /\ DOMAIN steps = tasks /\ (\A t \in tasks : IsSeq(steps[t]))
      /\ (\A x : x \in X <=> x \in words \/ \E t \in tasks : x \in Under(steps, t))
      /\ (\A t, u \in tasks : t # u => Under(steps, t) \cap Under(steps, u) = {})
      /\ \A t \in tasks : Under(steps, t) \cap words = {}
  BY DEF Spread
<1>2. PICK s : s = steps[o]
  OBVIOUS
<1>3. PICK t : t = Append(s, words)
  OBVIOUS
<1>4. DOMAIN new = tasks /\ new[o] = t /\ \A u \in tasks : u # o => new[u] = steps[u]
  BY <1>1, <1>2, <1>3
<1>5. IsGrown(t, s, words) /\ IsSeq(s)
  BY <1>1, <1>2, <1>3 DEF IsGrown
<1>6. IsSeq(t)
  BY <1>5, Grown
<1>7. UNION V!ToSet(t) = (UNION V!ToSet(s)) \cup words
  BY <1>5, UnderGrown
<1>8. Under(new, o) = Under(steps, o) \cup words /\ \A u \in tasks : u # o => Under(new, u) = Under(steps, u)
  <2>1. Under(new, o) = UNION V!ToSet(t) /\ Under(steps, o) = UNION V!ToSet(s)
    BY <1>2, <1>4 DEF Under
  <2>2. \A u \in tasks : u # o => Under(new, u) = Under(steps, u)
    BY <1>4 DEF Under
  <2> QED
    BY <1>7, <2>1, <2>2, Zenon
<1>9. \A u \in tasks : IsSeq(new[u])
  BY <1>1, <1>4, <1>6
<1>10. ASSUME NEW x PROVE x \in X <=> x \in none \/ \E u \in tasks : x \in Under(new, u)
  <2>1. (\E u \in tasks : x \in Under(new, u)) <=> x \in words \/ \E u \in tasks : x \in Under(steps, u)
    BY <1>8
  <2> QED
    BY <1>1, <2>1
<1>11. ASSUME NEW u \in tasks, NEW v \in tasks, u # v PROVE Under(new, u) \cap Under(new, v) = {}
  <2>1. Under(steps, u) \cap Under(steps, v) = {} /\ Under(steps, u) \cap words = {} /\ Under(steps, v) \cap words = {}
    BY <1>1, <1>11
  <2> QED
    BY <1>8, <1>11, <2>1
<1> QED
  BY <1>4, <1>9, <1>10, <1>11 DEF Spread

\* A step is under its owner, or among the words of it.
Meant(steps, w, own, x, o) == x \in Under(steps, o) \/ (x \in w /\ o = own)

IsPut(new, steps, own, w) == new = [steps EXCEPT ![own] = Append(@, w)]

LEMMA PutKeeps ==
  ASSUME NEW steps, NEW tasks, NEW words, NEW X, Spread(steps, tasks, words, X), NEW own \in tasks, NEW w,
         NEW new, IsPut(new, steps, own, w), NEW o \in tasks, NEW x, Meant(steps, w, own, x, o)
  PROVE  x \in Under(new, o)
<1>1. DOMAIN steps = tasks /\ \A t \in tasks : IsSeq(steps[t])
  BY DEF Spread
<1>0. new = [steps EXCEPT ![own] = Append(@, w)]
  BY DEF IsPut
<1>2. CASE o # own
  <2>1. new[o] = steps[o]
    BY <1>0, <1>1, <1>2
  <2> QED
    BY <1>2, <2>1 DEF Under, Meant
<1>3. CASE o = own
  <2>1. PICK s : s = steps[own]
    OBVIOUS
  <2>2. PICK t : t = Append(s, w)
    OBVIOUS
  <2>3. new[own] = t
    BY <1>0, <1>1, <2>1, <2>2
  <2>4. IsSeq(s) /\ IsGrown(t, s, w)
    BY <1>1, <2>1, <2>2 DEF IsGrown
  <2>5. UNION V!ToSet(t) = (UNION V!ToSet(s)) \cup w
    BY <2>4, UnderGrown
  <2>6. Under(new, own) = UNION V!ToSet(t) /\ Under(steps, own) = UNION V!ToSet(s)
    BY <2>1, <2>3 DEF Under
  <2>7. Under(new, own) = Under(steps, own) \cup w
    BY <2>5, <2>6, Zenon
  <2>8. x \in Under(steps, own) \/ x \in w
    BY <1>3 DEF Meant
  <2> QED
    BY <1>3, <2>7, <2>8
<1> QED
  BY <1>2, <1>3

\* One more word waits.
LEMMA More ==
  ASSUME NEW steps, NEW tasks, NEW words, NEW X, Spread(steps, tasks, words, X), NEW x, x \notin X,
         NEW w, w = words \cup {x}, NEW Y, Y = X \cup {x}
  PROVE  Spread(steps, tasks, w, Y)
<1>1. \A t \in tasks : x \notin Under(steps, t)
  BY DEF Spread
<1>2. \A y : y \in Y <=> y \in w \/ \E t \in tasks : y \in Under(steps, t)
  BY DEF Spread
<1>3. \A t \in tasks : Under(steps, t) \cap w = {}
  BY <1>1 DEF Spread
<1> QED
  BY <1>2, <1>3 DEF Spread

\* A window that is taken so far.
TakenFits(acc, tasks, X) ==
  /\ acc = [steps |-> acc.steps, owner |-> acc.owner, words |-> acc.words]
  /\ acc.words # {} => acc.owner \in tasks
  /\ Spread(acc.steps, tasks, acc.words, X)

LEMMA FlushedFits ==
  ASSUME NEW acc, NEW tasks, NEW X, TakenFits(acc, tasks, X)
  PROVE  TakenFits(V!Flushed(acc), tasks, X) /\ V!Flushed(acc).words = {}
<1>1. CASE acc.words = {}
  BY <1>1 DEF V!Flushed
<1>2. CASE acc.words # {}
  <2>1. PICK words : words = acc.words
    OBVIOUS
  <2>2. PICK o : o = acc.owner
    OBVIOUS
  <2>3. PICK steps : steps = acc.steps
    OBVIOUS
  <2>4. PICK new : new = [steps EXCEPT ![o] = Append(@, words)]
    OBVIOUS
  <2>5. PICK none : none = {}
    OBVIOUS
  <2>6. acc = [steps |-> steps, owner |-> o, words |-> words] /\ o \in tasks /\ Spread(steps, tasks, words, X)
    BY <1>2, <2>1, <2>2, <2>3 DEF TakenFits
  <2>7. PICK at : at = V!Flushed(acc)
    OBVIOUS
  <2>8. at = [acc EXCEPT !.steps[acc.owner] = Append(@, acc.words), !.words = {}]
    BY <1>2, <2>7 DEF V!Flushed
  <2>9. at = [steps |-> new, owner |-> o, words |-> none]
    BY <2>4, <2>5, <2>6, <2>8
  <2>10. Spread(new, tasks, none, X)
    BY <2>4, <2>5, <2>6, Put
  <2>11. TakenFits(at, tasks, X)
    BY <2>5, <2>6, <2>9, <2>10 DEF TakenFits
  <2> QED
    BY <2>5, <2>7, <2>9, <2>11
<1> QED
  BY <1>1, <1>2

LEMMA TookFits ==
  ASSUME NEW acc, NEW tasks, NEW X, TakenFits(acc, tasks, X), NEW e, e.id \notin X, NEW owner \in tasks
  PROVE  TakenFits(V!Took(acc, e, owner), tasks, X \cup {e.id})
<1>1. PICK at : at = IF acc.owner # owner THEN V!Flushed(acc) ELSE acc
  OBVIOUS
<1>2. TakenFits(at, tasks, X)
  BY <1>1, FlushedFits
<1>3. PICK words : words = at.words
  OBVIOUS
<1>4. PICK steps : steps = at.steps
  OBVIOUS
<1>5. PICK x : x = e.id
  OBVIOUS
<1>6. PICK w : w = words \cup {x}
  OBVIOUS
<1>7. PICK Y : Y = X \cup {x}
  OBVIOUS
<1>0. PICK o : o = at.owner
  OBVIOUS
<1>8. at = [steps |-> steps, owner |-> o, words |-> words] /\ Spread(steps, tasks, words, X)
  BY <1>0, <1>2, <1>3, <1>4 DEF TakenFits
<1>9. Spread(steps, tasks, w, Y)
  BY <1>5, <1>6, <1>7, <1>8, More
<1>10. PICK next : next = V!Took(acc, e, owner)
  OBVIOUS
<1>11. CASE e.kind \in {"summary", "text"}
  <2>1. next = [at EXCEPT !.owner = owner, !.words = @ \cup {e.id}]
    BY <1>1, <1>10, <1>11 DEF V!Took
  <2>2. next = [steps |-> steps, owner |-> owner, words |-> w]
    BY <1>5, <1>6, <1>8, <2>1
  <2>3. TakenFits(next, tasks, Y)
    BY <1>9, <2>2 DEF TakenFits
  <2> QED
    BY <1>5, <1>7, <1>10, <2>3
<1>12. CASE e.kind \notin {"summary", "text"}
  <2>1. next = [at EXCEPT !.owner = owner, !.words = {}, !.steps[owner] = Append(@, at.words \cup {e.id})]
    BY <1>1, <1>10, <1>12 DEF V!Took
  <2>2. PICK new : new = [steps EXCEPT ![owner] = Append(@, w)]
    OBVIOUS
  <2>3. PICK none : none = {}
    OBVIOUS
  <2>a. next = [at EXCEPT !.owner = owner, !.words = {}, !.steps[owner] = Append(@, w)]
    BY <1>3, <1>5, <1>6, <2>1
  <2>b. next = [[[at EXCEPT !.owner = owner] EXCEPT !.words = none] EXCEPT !.steps = new]
    <3>1. at.steps = steps
      BY <1>4
    <3> QED
      BY <1>8, <2>2, <2>3, <2>a, <3>1
  <2>4. next = [steps |-> new, owner |-> owner, words |-> none]
    BY <1>8, <2>b
  <2>5. Spread(new, tasks, none, Y)
    BY <1>9, <2>2, <2>3, Put
  <2>6. TakenFits(next, tasks, Y)
    BY <2>3, <2>4, <2>5 DEF TakenFits
  <2> QED
    BY <1>5, <1>7, <1>10, <2>6
<1> QED
  BY <1>11, <1>12

\* Where a step is: under its owner, or among the words that wait for a step of its owner.
Sits(acc, x, o) == x \in Under(acc.steps, o) \/ (x \in acc.words /\ acc.owner = o)

LEMMA FlushedKeeps ==
  ASSUME NEW acc, NEW tasks, NEW X, TakenFits(acc, tasks, X), NEW o \in tasks, NEW x, Sits(acc, x, o)
  PROVE  x \in Under(V!Flushed(acc).steps, o)
<1>1. CASE acc.words = {}
  BY <1>1 DEF V!Flushed, Sits
<1>2. CASE acc.words # {}
  <2>1. PICK words : words = acc.words
    OBVIOUS
  <2>2. PICK own : own = acc.owner
    OBVIOUS
  <2>3. PICK steps : steps = acc.steps
    OBVIOUS
  <2>4. PICK new : new = [steps EXCEPT ![own] = Append(@, words)]
    OBVIOUS
  <2>5. acc = [steps |-> steps, owner |-> own, words |-> words] /\ own \in tasks /\ Spread(steps, tasks, words, X)
    BY <1>2, <2>1, <2>2, <2>3 DEF TakenFits
  <2>6. V!Flushed(acc) = [acc EXCEPT !.steps[acc.owner] = Append(@, acc.words), !.words = {}]
    BY <1>2 DEF V!Flushed
  <2>7. V!Flushed(acc).steps = new
    BY <2>4, <2>5, <2>6
  <2>9. Meant(steps, words, own, x, o)
    BY <2>1, <2>2, <2>3 DEF Sits, Meant
  <2>10. IsPut(new, steps, own, words)
    BY <2>4 DEF IsPut
  <2>8. x \in Under(new, o)
    BY <2>5, <2>9, <2>10, PutKeeps
  <2> QED
    BY <2>7, <2>8
<1> QED
  BY <1>1, <1>2

LEMMA TookKeeps ==
  ASSUME NEW acc, NEW tasks, NEW X, TakenFits(acc, tasks, X), NEW e, NEW owner \in tasks, NEW o \in tasks, NEW x,
         Sits(acc, x, o) \/ (x = e.id /\ o = owner)
  PROVE  Sits(V!Took(acc, e, owner), x, o)
<1>1. PICK at : at = IF acc.owner # owner THEN V!Flushed(acc) ELSE acc
  OBVIOUS
<1>2. TakenFits(at, tasks, X)
  BY <1>1, FlushedFits
<1>3. PICK words : words = at.words
  OBVIOUS
<1>4. PICK steps : steps = at.steps
  OBVIOUS
<1>5. PICK w : w = words \cup {e.id}
  OBVIOUS
<1>6. PICK was : was = at.owner
  OBVIOUS
<1>7. at = [steps |-> steps, owner |-> was, words |-> words] /\ Spread(steps, tasks, words, X)
  BY <1>2, <1>3, <1>4, <1>6 DEF TakenFits
<1>8. Meant(steps, w, owner, x, o)
  <2>1. CASE x = e.id /\ o = owner
    BY <1>5, <2>1 DEF Meant
  <2>2. CASE Sits(acc, x, o) /\ acc.owner # owner
    <3>1. x \in Under(V!Flushed(acc).steps, o)
      BY <2>2, FlushedKeeps
    <3> QED
      BY <1>1, <1>4, <2>2, <3>1 DEF Meant
  <2>3. CASE Sits(acc, x, o) /\ acc.owner = owner
    BY <1>1, <1>3, <1>4, <1>5, <2>3 DEF Sits, Meant
  <2> QED
    BY <2>1, <2>2, <2>3
<1>9. PICK next : next = V!Took(acc, e, owner)
  OBVIOUS
<1>10. CASE e.kind \in {"summary", "text"}
  <2>1. next = [at EXCEPT !.owner = owner, !.words = @ \cup {e.id}]
    BY <1>1, <1>9, <1>10 DEF V!Took
  <2>2. next = [steps |-> steps, owner |-> owner, words |-> w]
    BY <1>5, <1>7, <2>1
  <2> QED
    BY <1>8, <1>9, <2>2 DEF Sits, Meant
<1>11. CASE e.kind \notin {"summary", "text"}
  <2>1. next = [at EXCEPT !.owner = owner, !.words = {}, !.steps[owner] = Append(@, at.words \cup {e.id})]
    BY <1>1, <1>9, <1>11 DEF V!Took
  <2>2. PICK new : new = [steps EXCEPT ![owner] = Append(@, w)]
    OBVIOUS
  <2>3. next.steps = new
    <3>1. at.words \cup {e.id} = w
      BY <1>3, <1>5
    <3>2. next = [at EXCEPT !.owner = owner, !.words = {}, !.steps[owner] = Append(@, w)]
      BY <2>1, <3>1
    <3> QED
      BY <1>7, <2>2, <3>2
  <2>4. x \in Under(new, o)
    <3>1. Spread(steps, tasks, words, X)
      BY <1>7
    <3>2. IsPut(new, steps, owner, w)
      BY <2>2 DEF IsPut
    <3> QED
      BY <1>8, <3>1, <3>2, PutKeeps
  <2> QED
    BY <1>9, <2>3, <2>4 DEF Sits
<1> QED
  BY <1>10, <1>11

\* Every step has an owner, one of the tasks of the latest list.
LEMMA OwnerIs ==
  ASSUME NEW es, NEW i \in Nat, NEW todo, IsSeq(todo), todo # <<>>, NEW tasks, tasks = {todo[k][1] : k \in DOMAIN todo}
  PROVE  V!Owner(es, i, todo) \in tasks
<1>1. \A items : V!ActiveOf(items, todo) # None => V!ActiveOf(items, todo) \in tasks
  <2> SUFFICES ASSUME NEW items, V!ActiveOf(items, todo) # None PROVE V!ActiveOf(items, todo) \in tasks
    OBVIOUS
  <2>1. PICK task : task = items[V!Min({k \in DOMAIN items : items[k][2] = "in_progress"})][1]
    OBVIOUS
  <2>2. V!ActiveOf(items, todo) = task /\ ~\A k \in DOMAIN todo : todo[k][1] # task
    BY <2>1 DEF V!ActiveOf
  <2> QED
    BY <2>2
<1>2. todo[1][1] \in tasks
  <2>1. Len(todo) \in Nat /\ DOMAIN todo = 1..Len(todo)
    BY SeqIs
  <2>2. Len(todo) # 0
    <3>1. todo \in Seq({todo[k] : k \in DOMAIN todo})
      BY DEF IsSeq
    <3> QED
      BY <3>1, EmptySeq
  <2>3. 1 \in DOMAIN todo
    BY <2>1, <2>2
  <2> QED
    BY <2>3
<1>3. PICK before : before = {j \in 1..(i - 1) : es[j].kind = "todo"}
  OBVIOUS
<1>4. PICK later : later = {j \in (i + 1)..Len(es) : V!Working(es[j])}
  OBVIOUS
<1>5. PICK earlier : earlier = {j \in before : V!ActiveOf(es[j].items, todo) # None}
  OBVIOUS
<1>6. PICK now : now = V!ActiveOf(es[V!Max(before)].items, todo)
  OBVIOUS
<1>7. PICK next : next = IF later = {} THEN None ELSE V!ActiveOf(es[V!Min(later)].items, todo)
  OBVIOUS
<1>8. V!Owner(es, i, todo) = IF now # None THEN now
                             ELSE IF next # None THEN next
                             ELSE IF earlier # {} THEN V!ActiveOf(es[V!Max(earlier)].items, todo)
                             ELSE todo[1][1]
  BY <1>3, <1>4, <1>5, <1>6, <1>7 DEF V!Owner
<1>9. now # None => now \in tasks
  BY <1>1, <1>6
<1>10. next # None => next \in tasks
  BY <1>1, <1>7
<1>11. ASSUME earlier # {} PROVE V!ActiveOf(es[V!Max(earlier)].items, todo) \in tasks
  <2>1. PICK j : j = V!Max(earlier)
    OBVIOUS
  <2>2. j \in earlier
    <3>1. earlier \subseteq 1..i
      BY <1>3, <1>5
    <3> QED
      BY <1>11, <2>1, <3>1, MaxIs
  <2>3. V!ActiveOf(es[j].items, todo) # None
    BY <1>5, <2>2
  <2> QED
    BY <1>1, <2>1, <2>3
<1> QED
  BY <1>2, <1>8, <1>9, <1>10, <1>11

\* The window of a list of entries is a part of it.
LEMMA WindowIs ==
  ASSUME NEW entries, IsSeq(entries), DistinctIds(entries)
  PROVE  IsSeq(V!TodoWindow(entries)) /\ DistinctIds(V!TodoWindow(entries))
<1>1. PICK lists : lists = {i \in DOMAIN entries : entries[i].kind = "todo"}
  OBVIOUS
<1>2. PICK settled : settled = {i \in lists : V!Settles(entries[i])}
  OBVIOUS
<1>3. PICK end : end = IF settled = {} THEN Len(entries) ELSE V!Min(settled)
  OBVIOUS
<1>4. PICK first : first = V!Min(lists)
  OBVIOUS
<1>5. PICK w : w = V!TodoWindow(entries)
  OBVIOUS
<1>6. w = IF lists = {} THEN <<>> ELSE SubSeq(entries, first, end)
  BY <1>1, <1>2, <1>3, <1>4, <1>5 DEF V!TodoWindow
<1>7. Len(entries) \in Nat /\ DOMAIN entries = 1..Len(entries) /\ entries \in Seq({entries[i] : i \in DOMAIN entries})
  BY SeqIs DEF IsSeq
<1>8. CASE lists = {}
  <2>1. w = <<>>
    BY <1>6, <1>8
  <2>2. IsSeq(w) /\ \A x : x \notin DOMAIN w
    BY <2>1, Nothing
  <2> QED
    BY <1>5, <2>2 DEF DistinctIds
<1>9. CASE lists # {}
  <2>1. first \in lists /\ \A y \in lists : first <= y
    <3>1. lists \subseteq Nat
      BY <1>1, <1>7
    <3> QED
      BY <1>4, <1>9, <3>1, MinIs
  <2>2. first \in 1..Len(entries)
    BY <1>1, <1>7, <2>1
  <2>3. end \in 1..Len(entries) /\ first <= end
    <3>1. CASE settled = {}
      BY <1>3, <1>7, <2>2, <3>1
    <3>2. CASE settled # {}
      <4>1. settled \subseteq Nat
        BY <1>1, <1>2, <1>7
      <4>2. end \in settled
        BY <1>3, <3>2, <4>1, MinIs
      <4>3. end \in lists
        BY <1>2, <4>2
      <4> QED
        BY <1>1, <1>7, <2>1, <4>3
    <3> QED
      BY <3>1, <3>2
  <2>4. PICK N : N = end - first + 1
    OBVIOUS
  <2>5. N \in Nat /\ \A k \in 1..N : first + k - 1 \in DOMAIN entries
    BY <1>7, <2>2, <2>3, <2>4
  <2>6. w = SubSeq(entries, first, end)
    BY <1>6, <1>9
  <2>7. DOMAIN w = 1..N /\ w = [k \in 1..N |-> w[k]] /\ \A k \in 1..N : w[k] = entries[first + k - 1]
    <3>1. PICK S : S = {entries[i] : i \in DOMAIN entries}
      OBVIOUS
    <3>2. entries \in Seq(S)
      BY <1>7, <3>1
    <3>3. w \in Seq(S) /\ Len(w) = N /\ \A k \in 1..N : w[k] = entries[first + k - 1]
      BY <2>2, <2>3, <2>4, <2>5, <2>6, <3>2
    <3> QED
      BY <3>3
  <2>8. IsSeq(w)
    BY <2>5, <2>7, Listed
  <2>9. DistinctIds(w)
    <3> SUFFICES ASSUME NEW k \in 1..N, NEW l \in 1..N, w[k].id = w[l].id PROVE k = l
      BY <2>7 DEF DistinctIds
    <3>1. first + k - 1 = first + l - 1
      BY <2>5, <2>7 DEF DistinctIds
    <3> QED
      BY <2>2, <3>1
  <2> QED
    BY <1>5, <2>8, <2>9
<1> QED
  BY <1>8, <1>9

IsWindow(of, process) == of = [es |-> V!TodoWindow(process.entries), todo |-> process.todo]
NoSteps(todo) == [steps |-> [t \in {todo[k][1] : k \in DOMAIN todo} |-> <<>>], owner |-> None, words |-> {}]

LEMMA TakeRounds ==
  ASSUME NEW process, NEW of, IsWindow(of, process), IsSeq(of.es), NEW base, base = NoSteps(of.todo)
  PROVE  \E g : /\ V!Attributed(process) = V!Flushed(g[Len(of.es)]).steps
                /\ \A n \in 0..Len(of.es) : RoundMade("take", of, base, n, g)
<1>1. PICK es : es = of.es
  OBVIOUS
<1>2. PICK todo : todo = of.todo
  OBVIOUS
<1>3. PICK s : s = V!Numbers(es)
  OBVIOUS
<1>4. es = V!TodoWindow(process.entries) /\ todo = process.todo
  BY <1>1, <1>2 DEF IsWindow
<1> DEFINE N == Len(s)
<1>5. N = Len(es) /\ N \in Nat /\ \A n \in 1..N : s[n] = n
  <2>1. Len(es) \in Nat /\ DOMAIN es = 1..Len(es)
    BY <1>1, SeqIs
  <2>2. DOMAIN s = 1..Len(es) /\ s = [i \in 1..Len(es) |-> s[i]] /\ \A n \in 1..Len(es) : s[n] = n
    BY <1>3, <2>1 DEF V!Numbers
  <2>3. Len(s) = Len(es)
    BY <2>1, <2>2, Listed
  <2> QED
    BY <2>1, <2>2, <2>3
<1> DEFINE body(g) == [n \in 0..N |-> IF n = 0 THEN base
                                       ELSE IF es[s[n]].kind = "todo" THEN g[n - 1]
                                            ELSE V!Took(g[n - 1], es[s[n]], V!Owner(es, s[n], todo))]
<1> DEFINE made == CHOOSE g : g = body(g)
<1>6. V!Attributed(process) = V!Flushed(made[N]).steps
  BY <1>2, <1>3, <1>4 DEF V!Attributed, V!Folded, NoSteps
<1>7. made = body(made)
  <2>1. PICK g : \A n \in 0..N : RoundMade("take", of, base, n, g)
    BY <1>5, RoundsMade
  <2> DEFINE f == [n \in 0..N |-> g[n]]
  <2>2. ASSUME NEW n \in 0..N
        PROVE  f[n] = IF n = 0 THEN base
                      ELSE IF es[s[n]].kind = "todo" THEN f[n - 1]
                           ELSE V!Took(f[n - 1], es[s[n]], V!Owner(es, s[n], todo))
    <3>1. n # 0 => n - 1 \in 0..N /\ n \in 1..N
      BY <1>5
    <3>2. n # 0 => s[n] = n
      BY <1>5, <3>1
    <3>3. g[n] = IF n = 0 THEN base
                 ELSE IF es[n].kind = "todo" THEN g[n - 1] ELSE V!Took(g[n - 1], es[n], V!Owner(es, n, todo))
      BY <1>1, <1>2, <2>1 DEF RoundMade, Round
    <3>4. f[n] = g[n] /\ (n # 0 => f[n - 1] = g[n - 1])
      BY <3>1
    <3> QED
      BY <3>2, <3>3, <3>4
  <2>3. f = body(f)
    <3> HIDE DEF f, made
    <3>1. PICK e : e = body(f)
      OBVIOUS
    <3>2. f = [n \in 0..N |-> g[n]]
      BY DEF f
    <3>3. \A n \in 0..N : f[n] = e[n]
      BY <2>2, <3>1
    <3>4. DOMAIN e = 0..N /\ e = [n \in 0..N |-> e[n]]
      BY <3>1
    <3>5. f = e
      BY <1>5, <3>2, <3>3, <3>4, SameRounds
    <3> QED
      BY <3>1, <3>5
  <2> QED
    BY <2>3, Zenon
<1>8. \A n \in 0..N : RoundMade("take", of, base, n, made)
  <2>1. PICK g : g = made
    OBVIOUS
  <2> HIDE DEF made
  <2>2. g = body(g)
    <3> HIDE DEF body
    <3> QED
      BY <1>7, <2>1
  <2>3. \A n \in 0..N : g[n] = IF n = 0 THEN base
                               ELSE IF es[s[n]].kind = "todo" THEN g[n - 1]
                                    ELSE V!Took(g[n - 1], es[s[n]], V!Owner(es, s[n], todo))
    BY <2>2
  <2>4. ASSUME NEW n \in 0..N PROVE RoundMade("take", of, base, n, g)
    <3>1. n # 0 => s[n] = n
      BY <1>5
    <3> QED
      BY <1>1, <1>2, <2>3, <3>1 DEF RoundMade, Round
  <2> QED
    BY <2>1, <2>4
<1> HIDE DEF made, N
<1>9. PICK g : g = made
  OBVIOUS
<1>10. PICK n : n = N
  OBVIOUS
<1>11. n = Len(of.es) /\ V!Attributed(process) = V!Flushed(g[n]).steps
       /\ \A k \in 0..n : RoundMade("take", of, base, k, g)
  BY <1>1, <1>5, <1>6, <1>8, <1>9, <1>10
<1> QED
  BY <1>11

\* The steps of the first n entries of a window.
StepsOf(es, n) == {es[i].id : i \in {j \in 1..n : es[j].kind # "todo"}}

AllSit(acc, es, todo, n) ==
  \A i \in 1..n : es[i].kind # "todo" => Sits(acc, es[i].id, V!Owner(es, i, todo))

LEMMA AttributedIs ==
  ASSUME NEW process, IsSeq(process.entries), DistinctIds(process.entries), IsSeq(process.todo), process.todo # <<>>
  PROVE  \E tasks, none : /\ none = {}
                          /\ Spread(V!Attributed(process), tasks, none,
                                    StepsOf(V!TodoWindow(process.entries), Len(V!TodoWindow(process.entries))))
                          /\ AllSit([steps |-> V!Attributed(process), owner |-> None, words |-> none],
                                       V!TodoWindow(process.entries), process.todo, Len(V!TodoWindow(process.entries)))
<1>1. PICK es : es = V!TodoWindow(process.entries)
  OBVIOUS
<1>2. PICK todo : todo = process.todo
  OBVIOUS
<1>3. PICK tasks : tasks = {todo[k][1] : k \in DOMAIN todo}
  OBVIOUS
<1>4. PICK of : IsWindow(of, process)
  BY DEF IsWindow
<1>5. of.es = es /\ of.todo = todo
  BY <1>1, <1>2, <1>4 DEF IsWindow
<1>6. IsSeq(es) /\ DistinctIds(es)
  BY <1>1, WindowIs
<1>7. PICK base : base = NoSteps(todo)
  OBVIOUS
<1>8. PICK N : N = Len(es)
  OBVIOUS
<1>9. N \in Nat /\ DOMAIN es = 1..N
  BY <1>6, <1>8, SeqIs
<1>10. PICK g : /\ V!Attributed(process) = V!Flushed(g[N]).steps
                /\ \A n \in 0..N : RoundMade("take", of, base, n, g)
  BY <1>4, <1>5, <1>6, <1>7, <1>8, TakeRounds
<1>11. IsSeq(todo) /\ todo # <<>>
  BY <1>2
<1> DEFINE P == {n \in 0..N : TakenFits(g[n], tasks, StepsOf(es, n)) /\ AllSit(g[n], es, todo, n)}
<1>12. 0 \in P
  <2>1. g[0] = base
    BY <1>9, <1>10 DEF RoundMade
  <2>2. PICK steps : steps = [t \in tasks |-> <<>>]
    OBVIOUS
  <2>3. PICK none : none = {}
    OBVIOUS
  <2>4. base = [steps |-> steps, owner |-> None, words |-> none]
    BY <1>3, <1>7, <2>2, <2>3 DEF NoSteps
  <2>5. StepsOf(es, 0) = none
    BY <2>3 DEF StepsOf
  <2>6. ASSUME NEW t \in tasks PROVE IsSeq(steps[t]) /\ Under(steps, t) = {}
    <3>1. PICK s : s = steps[t]
      OBVIOUS
    <3>2. s = <<>>
      BY <2>2, <3>1
    <3>3. IsSeq(s) /\ \A x : x \notin DOMAIN s
      BY <3>2, Nothing
    <3>4. V!ToSet(s) = {}
      BY <3>3 DEF V!ToSet
    <3> QED
      BY <3>1, <3>3, <3>4 DEF Under
  <2>7. Spread(steps, tasks, none, none)
    BY <2>2, <2>3, <2>6 DEF Spread
  <2>8. TakenFits(base, tasks, none)
    BY <2>3, <2>4, <2>7 DEF TakenFits
  <2>9. AllSit(g[0], es, todo, 0)
    BY DEF AllSit
  <2> QED
    BY <1>9, <2>1, <2>5, <2>8, <2>9
<1>13. ASSUME NEW n \in 1..N, n - 1 \in P PROVE n \in P
  <2>1. n \in 0..N /\ n # 0 /\ n \in DOMAIN es /\ n \in Nat /\ n \in 1..n
        /\ (\A j \in 1..n : j = n \/ j \in 1..n - 1)
        /\ \A j \in 1..n - 1 : j \in 1..n /\ j # n /\ j \in DOMAIN es
    BY <1>9
  <2>2. PICK e : e = es[n]
    OBVIOUS
  <2>3. PICK acc : acc = g[n - 1]
    OBVIOUS
  <2>4. PICK X : X = StepsOf(es, n - 1)
    OBVIOUS
  <2>5. TakenFits(acc, tasks, X)
    BY <1>13, <2>3, <2>4
  <2>12. AllSit(acc, es, todo, n - 1)
    BY <1>13, <2>3
  <2>6. g[n] = IF e.kind = "todo" THEN acc ELSE V!Took(acc, e, V!Owner(es, n, todo))
    BY <1>5, <1>10, <2>1, <2>2, <2>3 DEF RoundMade, Round
  <2>7. CASE e.kind = "todo"
    <3>1. StepsOf(es, n) = X
      <4>1. \A x : x \in StepsOf(es, n) <=> \E j \in 1..n : es[j].kind # "todo" /\ x = es[j].id
        BY DEF StepsOf
      <4>2. \A x : x \in X <=> \E j \in 1..n - 1 : es[j].kind # "todo" /\ x = es[j].id
        BY <2>4 DEF StepsOf
      <4>3. \A x : x \in StepsOf(es, n) <=> x \in X
        BY <2>1, <2>2, <2>7, <4>1, <4>2
      <4> QED
        BY <4>3
    <3>2. AllSit(acc, es, todo, n)
      BY <2>1, <2>2, <2>7, <2>12 DEF AllSit
    <3> QED
      BY <2>1, <2>5, <2>6, <2>7, <3>1, <3>2
  <2>8. CASE e.kind # "todo"
    <3>1. PICK owner : owner = V!Owner(es, n, todo)
      OBVIOUS
    <3>2. owner \in tasks
      BY <1>3, <1>11, <2>1, <3>1, OwnerIs
    <3>3. e.id \notin X
      <4> SUFFICES ASSUME e.id \in X PROVE FALSE
        OBVIOUS
      <4>1. PICK j \in 1..n - 1 : e.id = es[j].id
        BY <2>4 DEF StepsOf
      <4> QED
        BY <1>6, <2>1, <2>2, <4>1 DEF DistinctIds
    <3>4. TakenFits(V!Took(acc, e, owner), tasks, X \cup {e.id})
      BY <2>5, <3>2, <3>3, TookFits
    <3>5. StepsOf(es, n) = X \cup {e.id}
      <4>1. \A x : x \in StepsOf(es, n) <=> \E j \in 1..n : es[j].kind # "todo" /\ x = es[j].id
        BY DEF StepsOf
      <4>2. \A x : x \in X <=> \E j \in 1..n - 1 : es[j].kind # "todo" /\ x = es[j].id
        BY <2>4 DEF StepsOf
      <4>3. \A x : x \in StepsOf(es, n) <=> x \in X \/ x = e.id
        BY <2>1, <2>2, <2>8, <4>1, <4>2
      <4> QED
        BY <4>3
    <3>6. g[n] = V!Took(acc, e, owner)
      BY <2>6, <2>8, <3>1
    <3>7. PICK next : next = V!Took(acc, e, owner)
      OBVIOUS
    <3>8. ASSUME NEW i \in 1..n, es[i].kind # "todo" PROVE Sits(next, es[i].id, V!Owner(es, i, todo))
      <4>1. PICK o : o = V!Owner(es, i, todo)
        OBVIOUS
      <4>2. o \in tasks
        <5>1. i \in Nat
          BY <2>1
        <5> QED
          BY <1>3, <1>11, <4>1, <5>1, OwnerIs
      <4>3. CASE i = n
        BY <2>2, <2>5, <3>1, <3>2, <3>7, <4>1, <4>2, <4>3, TookKeeps
      <4>4. CASE i # n
        <5>1. Sits(acc, es[i].id, o)
          BY <2>1, <2>12, <3>8, <4>1, <4>4 DEF AllSit
        <5> QED
          BY <2>5, <3>2, <3>7, <4>1, <4>2, <5>1, TookKeeps
      <4> QED
        BY <4>3, <4>4
    <3>9. AllSit(next, es, todo, n)
      BY <3>8 DEF AllSit
    <3> QED
      BY <2>1, <3>4, <3>5, <3>6, <3>7, <3>9
  <2> QED
    BY <2>7, <2>8
<1>14. \A n \in 0..N : n \in P
  <2> HIDE DEF P
  <2> QED
    BY <1>9, <1>12, <1>13, Reached
<1>15. TakenFits(g[N], tasks, StepsOf(es, N)) /\ AllSit(g[N], es, todo, N)
  BY <1>9, <1>14
<1>16. PICK final : final = V!Flushed(g[N])
  OBVIOUS
<1>17. TakenFits(final, tasks, StepsOf(es, N)) /\ final.words = {}
  BY <1>15, <1>16, FlushedFits
<1>18. PICK none : none = final.words
  OBVIOUS
<1>19. Spread(final.steps, tasks, none, StepsOf(es, N)) /\ none = {}
  BY <1>17, <1>18 DEF TakenFits
<1>20. PICK acc : acc = [steps |-> final.steps, owner |-> None, words |-> none]
  OBVIOUS
<1>21. ASSUME NEW i \in 1..N, es[i].kind # "todo" PROVE Sits(acc, es[i].id, V!Owner(es, i, todo))
  <2>1. PICK o : o = V!Owner(es, i, todo)
    OBVIOUS
  <2>2. o \in tasks
    <3>1. i \in Nat
      BY <1>9
    <3> QED
      BY <1>3, <1>11, <2>1, <3>1, OwnerIs
  <2>3. Sits(g[N], es[i].id, o)
    BY <1>15, <1>21, <2>1 DEF AllSit
  <2>4. es[i].id \in Under(final.steps, o)
    BY <1>15, <1>16, <2>2, <2>3, FlushedKeeps
  <2>5. acc.steps = final.steps
    BY <1>20
  <2> QED
    BY <2>1, <2>4, <2>5 DEF Sits
<1>22. AllSit(acc, es, todo, N)
  BY <1>21 DEF AllSit
<1> QED
  BY <1>1, <1>2, <1>8, <1>10, <1>16, <1>19, <1>20, <1>22

StepsSit(steps, es, todo) ==
  \A i \in DOMAIN es : es[i].kind # "todo" => es[i].id \in UNION V!ToSet(steps[V!Owner(es, i, todo)])

LEMMA StepsHaveOwners ==
  ASSUME NEW process, IsSeq(process.entries), DistinctIds(process.entries), IsSeq(process.todo), process.todo # <<>>,
         NEW steps, steps = V!Attributed(process)
  PROVE  /\ UNION {UNION V!ToSet(steps[t]) : t \in DOMAIN steps}
              = {e.id : e \in {x \in V!ToSet(V!TodoWindow(process.entries)) : x.kind # "todo"}}
         /\ \A t, u \in DOMAIN steps : t # u => (UNION V!ToSet(steps[t])) \cap (UNION V!ToSet(steps[u])) = {}
         /\ StepsSit(steps, V!TodoWindow(process.entries), process.todo)
<1>1. PICK es : es = V!TodoWindow(process.entries)
  OBVIOUS
<1>2. PICK tasks, none : /\ none = {} /\ Spread(steps, tasks, none, StepsOf(es, Len(es)))
                         /\ AllSit([steps |-> steps, owner |-> None, words |-> none], es, process.todo, Len(es))
  BY <1>1, AttributedIs
<1>3. Len(es) \in Nat /\ DOMAIN es = 1..Len(es)
  BY <1>1, WindowIs, SeqIs
<1>4. /\ DOMAIN steps = tasks
      /\ (\A x : x \in StepsOf(es, Len(es)) <=> \E t \in tasks : x \in Under(steps, t))
      /\ \A t, u \in tasks : t # u => Under(steps, t) \cap Under(steps, u) = {}
  BY <1>2 DEF Spread
<1>5. PICK due : due = {e.id : e \in {x \in V!ToSet(es) : x.kind # "todo"}}
  OBVIOUS
<1>6. ASSUME NEW x PROVE x \in StepsOf(es, Len(es)) <=> x \in due
  <2>1. x \in due <=> \E e \in V!ToSet(es) : e.kind # "todo" /\ x = e.id
    BY <1>5
  <2>2. \A e : e \in V!ToSet(es) <=> \E i \in DOMAIN es : e = es[i]
    BY DEF V!ToSet
  <2>3. x \in StepsOf(es, Len(es)) <=> \E i \in DOMAIN es : es[i].kind # "todo" /\ x = es[i].id
    BY <1>3 DEF StepsOf
  <2> QED
    BY <2>1, <2>2, <2>3
<1>7. ASSUME NEW x PROVE x \in UNION {UNION V!ToSet(steps[t]) : t \in DOMAIN steps} <=> \E t \in tasks : x \in Under(steps, t)
  BY <1>4 DEF Under
<1>8. UNION {UNION V!ToSet(steps[t]) : t \in DOMAIN steps} = due
  BY <1>4, <1>6, <1>7
<1>9. ASSUME NEW t \in DOMAIN steps, NEW u \in DOMAIN steps, t # u
      PROVE  (UNION V!ToSet(steps[t])) \cap (UNION V!ToSet(steps[u])) = {}
  BY <1>4, <1>9 DEF Under
<1>10. ASSUME NEW i \in DOMAIN es, es[i].kind # "todo"
       PROVE  es[i].id \in UNION V!ToSet(steps[V!Owner(es, i, process.todo)])
  <2>1. PICK acc : acc = [steps |-> steps, owner |-> None, words |-> none]
    OBVIOUS
  <2>2. Sits(acc, es[i].id, V!Owner(es, i, process.todo))
    BY <1>2, <1>3, <1>10, <2>1 DEF AllSit
  <2>3. acc.steps = steps /\ acc.words = {}
    BY <1>2, <2>1
  <2> QED
    BY <2>2, <2>3 DEF Sits, Under
<1>11. StepsSit(steps, es, process.todo)
  BY <1>10 DEF StepsSit
<1> QED
  BY <1>1, <1>5, <1>8, <1>9, <1>11

-------------------------------------------------------------------------------
\* What is rendered.

LEMMA ViewIs ==
  ASSUME TalkInv, NEW view, view = V!ProjectWorkTimeline(talk)
  PROVE  /\ ProcessesFit(view.processes, Len(talk)) /\ TimelineFits(view.timeline, view.processes, Len(talk))
         /\ \A j \in DOMAIN talk : V!IsShown(view, talk[j]) <=> talk[j].role = "user" \/ V!Shown(talk[j])
<1>1. ProjectionFits(view, Len(talk))
  BY ProjectionIs
<1>2. ASSUME NEW j \in DOMAIN talk PROVE V!IsShown(view, talk[j]) <=> talk[j].role = "user" \/ V!Shown(talk[j])
  <2>1. j \in 1..Len(talk) /\ talk[j].id = j
    BY TalkIs, EntriesOf DEF MessageFits, IsMessage
  <2>2. Has(view.timeline, V!Item("message", j)) <=> talk[j].role = "user" \/ V!Shown(talk[j])
    BY <1>1, <2>1 DEF ProjectionFits, TimelineFits
  <2> QED
    BY <2>1, <2>2 DEF V!IsShown, V!ToSet, Has
<1> QED
  BY <1>1, <1>2 DEF ProjectionFits

LEMMA KeysAre ==
  ASSUME TalkInv, NEW view, view = V!ProjectWorkTimeline(talk)
  PROVE  V!KeysDistinct(view)
<1>1. ProcessesFit(view.processes, Len(talk)) /\ TimelineFits(view.timeline, view.processes, Len(talk))
  BY ViewIs
<1>2. \A k, l \in DOMAIN view.timeline : view.timeline[k] = view.timeline[l] => k = l
  BY <1>1 DEF TimelineFits, Distinct
<1>3. ASSUME NEW p \in DOMAIN view.processes
      PROVE  LET Ids(s) == [k \in DOMAIN s |-> s[k].id]
             IN  \A k, l \in DOMAIN Ids(view.processes[p].entries) :
                   Ids(view.processes[p].entries)[k] = Ids(view.processes[p].entries)[l] => k = l
  <2>1. PICK s : s = view.processes[p].entries
    OBVIOUS
  <2>2. DistinctIds(s)
    BY <1>1, <2>1 DEF ProcessesFit, ProcessFits
  <2>3. PICK ids : ids = [k \in DOMAIN s |-> s[k].id]
    OBVIOUS
  <2>4. \A k, l \in DOMAIN ids : ids[k] = ids[l] => k = l
    BY <2>2, <2>3 DEF DistinctIds
  <2> QED
    BY <2>1, <2>3, <2>4
<1> QED
  BY <1>2, <1>3 DEF V!KeysDistinct

LEMMA OwnersAre ==
  ASSUME TalkInv, NEW view, view = V!ProjectWorkTimeline(talk)
  PROVE  V!StepsOwned(view)
<1> SUFFICES ASSUME NEW p \in DOMAIN view.processes, view.processes[p].todo # <<>>
             PROVE  LET process == view.processes[p]
                        steps == V!Attributed(process)
                        es == V!TodoWindow(process.entries)
                        due == {e.id : e \in {x \in V!ToSet(es) : x.kind # "todo"}}
                        Under1(t) == UNION V!ToSet(steps[t])
                        Lists(i) == {j \in 1..(i - 1) : es[j].kind = "todo"}
                    IN  /\ UNION {Under1(t) : t \in DOMAIN steps} = due
                        /\ \A t, u \in DOMAIN steps : t # u => Under1(t) \cap Under1(u) = {}
                        /\ \A i \in DOMAIN es : es[i].kind # "todo" =>
                             LET task == V!ActiveOf(es[V!Max(Lists(i))].items, process.todo)
                             IN  task # None => es[i].id \in Under1(task)
  BY DEF V!StepsOwned
<1>1. PICK process : process = view.processes[p]
  OBVIOUS
<1>2. PICK steps : steps = V!Attributed(process)
  OBVIOUS
<1>3. IsSeq(process.entries) /\ DistinctIds(process.entries) /\ IsSeq(process.todo) /\ process.todo # <<>>
  BY <1>1, ViewIs DEF ProcessesFit, ProcessFits
<1>4. /\ UNION {UNION V!ToSet(steps[t]) : t \in DOMAIN steps}
           = {e.id : e \in {x \in V!ToSet(V!TodoWindow(process.entries)) : x.kind # "todo"}}
      /\ \A t, u \in DOMAIN steps : t # u => (UNION V!ToSet(steps[t])) \cap (UNION V!ToSet(steps[u])) = {}
      /\ StepsSit(steps, V!TodoWindow(process.entries), process.todo)
  BY <1>2, <1>3, StepsHaveOwners
<1>5. PICK es : es = V!TodoWindow(process.entries)
  OBVIOUS
<1>6. PICK todo : todo = process.todo
  OBVIOUS
<1>7. ASSUME NEW i \in DOMAIN es, es[i].kind # "todo", NEW task, task # None,
             task = V!ActiveOf(es[V!Max({j \in 1..(i - 1) : es[j].kind = "todo"})].items, todo)
      PROVE  es[i].id \in UNION V!ToSet(steps[task])
  <2>1. V!Owner(es, i, todo) = task
    BY <1>7 DEF V!Owner
  <2>2. es[i].id \in UNION V!ToSet(steps[V!Owner(es, i, todo)])
    BY <1>4, <1>5, <1>6, <1>7 DEF StepsSit
  <2> QED
    BY <2>1, <2>2
<1>8. PICK due : due = {e.id : e \in {x \in V!ToSet(es) : x.kind # "todo"}}
  OBVIOUS
<1>9. /\ UNION {UNION V!ToSet(steps[t]) : t \in DOMAIN steps} = due
      /\ \A t, u \in DOMAIN steps : t # u => (UNION V!ToSet(steps[t])) \cap (UNION V!ToSet(steps[u])) = {}
  BY <1>4, <1>5, <1>8
<1>10. LET process1 == view.processes[p]
           steps1 == V!Attributed(process1)
           es1 == V!TodoWindow(process1.entries)
           Under1(t) == UNION V!ToSet(steps1[t])
           Lists(i) == {j \in 1..(i - 1) : es1[j].kind = "todo"}
       IN  \A i \in DOMAIN es1 : es1[i].kind # "todo" =>
             LET task == V!ActiveOf(es1[V!Max(Lists(i))].items, process1.todo)
             IN  task # None => es1[i].id \in Under1(task)
  <2> SUFFICES ASSUME NEW i \in DOMAIN V!TodoWindow(view.processes[p].entries),
                      V!TodoWindow(view.processes[p].entries)[i].kind # "todo",
                      NEW task, task # None,
                      task = V!ActiveOf(V!TodoWindow(view.processes[p].entries)[V!Max({j \in 1..(i - 1) :
                               V!TodoWindow(view.processes[p].entries)[j].kind = "todo"})].items, view.processes[p].todo)
               PROVE  V!TodoWindow(view.processes[p].entries)[i].id
                        \in UNION V!ToSet(V!Attributed(view.processes[p])[task])
    BY Zenon
  <2>1. V!TodoWindow(view.processes[p].entries) = es /\ V!Attributed(view.processes[p]) = steps /\ view.processes[p].todo = todo
    BY <1>1, <1>2, <1>5, <1>6
  <2>2. /\ i \in DOMAIN es /\ es[i].kind # "todo"
        /\ task = V!ActiveOf(es[V!Max({j \in 1..(i - 1) : es[j].kind = "todo"})].items, todo)
    BY <2>1
  <2> QED
    BY <1>7, <2>1, <2>2
<1>11. LET process1 == view.processes[p]
           steps1 == V!Attributed(process1)
           es1 == V!TodoWindow(process1.entries)
           due1 == {e.id : e \in {x \in V!ToSet(es1) : x.kind # "todo"}}
           Under1(t) == UNION V!ToSet(steps1[t])
       IN  /\ UNION {Under1(t) : t \in DOMAIN steps1} = due1
           /\ \A t, u \in DOMAIN steps1 : t # u => Under1(t) \cap Under1(u) = {}
  BY <1>1, <1>2, <1>5, <1>8, <1>9
<1> QED
  BY <1>10, <1>11

LEMMA StepsAreCurrent ==
  ASSUME TalkInv, NEW view, view = V!ProjectWorkTimeline(talk)
  PROVE  V!StepsCurrent(view)
<1>1. DOMAIN talk = 1..Len(talk) /\ Len(talk) \in Nat
  BY TalkIs
<1>2. PICK N : N = Len(talk)
  OBVIOUS
<1> SUFFICES ASSUME NEW p \in DOMAIN view.processes, NEW e \in V!ToSet(view.processes[p].entries), e.kind = "tool"
             PROVE  LET WithIt(m) == \E i \in DOMAIN m.calls : m.calls[i].call = e.id[2]
                        m == talk[V!Max({n \in DOMAIN talk : WithIt(talk[n])})]
                    IN  \E i \in DOMAIN m.calls : m.calls[i].call = e.id[2] /\ m.calls[i].status = e.step
  BY DEF V!StepsCurrent
<1>3. PICK k \in DOMAIN view.processes[p].entries : e = view.processes[p].entries[k]
  BY DEF V!ToSet
<1>4. FromSource(e, p, N)
  BY <1>2, <1>3, ViewIs DEF ProcessesFit, ProcessFits
<1>5. PICK j \in 1..N : /\ \E l \in DOMAIN V!Entries(talk[j]) : e = V!Entries(talk[j])[l]
                        /\ CallIn(talk[j], e.id[2]) /\ \A i \in j + 1..N : ~CallIn(talk[i], e.id[2])
  BY <1>4 DEF FromSource
<1>6. PICK l \in DOMAIN V!Entries(talk[j]) : e = V!Entries(talk[j])[l]
  BY <1>5
<1>7. j \in DOMAIN talk
  BY <1>1, <1>2
<1>8. PICK c \in DOMAIN talk[j].calls : e.id[2] = talk[j].calls[c].call /\ e.step = talk[j].calls[c].status
  BY <1>6, <1>7, StepCall
<1>9. PICK I : I = {n \in DOMAIN talk : \E i \in DOMAIN talk[n].calls : talk[n].calls[i].call = e.id[2]}
  OBVIOUS
<1>10. j \in I /\ I \subseteq 1..N
  BY <1>1, <1>2, <1>7, <1>8, <1>9
<1>11. PICK x : x = V!Max(I)
  OBVIOUS
<1>12. x \in I /\ \A y \in I : x >= y
  BY <1>1, <1>2, <1>10, <1>11, MaxIs
<1>13. x = j
  <2>1. CallIn(talk[x], e.id[2])
    BY <1>9, <1>12 DEF CallIn
  <2>2. x \notin j + 1..N
    BY <1>5, <2>1
  <2>3. x >= j /\ x \in Nat /\ j \in Nat /\ x <= N
    BY <1>2, <1>1, <1>10, <1>12
  <2> QED
    BY <2>2, <2>3, <1>1, <1>2
<1> QED
  BY <1>8, <1>9, <1>11, <1>13

\* The identity of the entry a segment would have.
LEMMA EntryId ==
  ASSUME NEW n, NEW m, MessageFits(m, n), NEW segs, segs = V!SegmentsOf(m), NEW i \in DOMAIN segs,
         NEW x, x = V!Entry(m, segs, i).id
  PROVE  \/ segs[i].kind \in WordKinds /\ x = <<segs[i].kind, n, i>>
         \/ /\ segs[i].kind = "tool"
            /\ \E k \in DOMAIN m.calls : /\ segs[i].tool = m.calls[k] /\ m.calls[k].name \in ToolNames
                 /\ x = <<IF m.calls[k].name = "todo" THEN "todo" ELSE "tool", m.calls[k].call>>
<1>1. SegsFit(m, segs) /\ CallsFit(m) /\ m.id = n
  BY SegmentsFit DEF MessageFits, IsMessage
<1>2. CASE segs[i].kind \in WordKinds
  <2>1. segs[i].kind # "tool"
    BY <1>2 DEF WordKinds
  <2>2. x = <<segs[i].kind, n, i>>
    BY <1>1, <2>1 DEF V!Entry
  <2> QED
    BY <1>2, <2>2
<1>3. CASE segs[i].kind = "tool"
  <2>1. PICK k \in DOMAIN m.calls : segs[i].tool = m.calls[k]
    BY <1>1, <1>3 DEF SegsFit, WordKinds
  <2>2. m.calls[k].name \in ToolNames
    BY <1>1 DEF CallsFit, IsTool
  <2>3. x = <<IF m.calls[k].name = "todo" THEN "todo" ELSE "tool", m.calls[k].call>>
    BY <1>3, <2>1 DEF V!Entry
  <2> QED
    BY <1>3, <2>1, <2>2, <2>3
<1> QED
  BY <1>1, <1>2, <1>3 DEF SegsFit

LEMMA Told ==
  ASSUME TalkInv, NEW p, NEW pr, ProcessFits(pr, p, Len(talk)), NEW k \in DOMAIN pr.entries, NEW e, e = pr.entries[k]
  PROVE  \E j \in DOMAIN talk :
           /\ ToldBy(talk[j], e) /\ e.id[1] = e.kind
           /\ e.kind # "subagent" => \E i \in DOMAIN V!SegmentsOf(talk[j]) :
                V!Entered(talk[j], V!SegmentsOf(talk[j]), i) /\ e.id = V!Entry(talk[j], V!SegmentsOf(talk[j]), i).id
<1>1. FromSource(e, p, Len(talk))
  BY DEF ProcessFits
<1>2. PICK j \in 1..Len(talk) : \E l \in DOMAIN V!Entries(talk[j]) : e = V!Entries(talk[j])[l]
  BY <1>1 DEF FromSource
<1>3. PICK l \in DOMAIN V!Entries(talk[j]) : e = V!Entries(talk[j])[l]
  BY <1>2
<1>4. j \in DOMAIN talk
  BY TalkIs
<1>5. EntriesFit(talk[j], V!Entries(talk[j]))
  BY <1>4, EntriesOf
<1>6. EntryFits(talk[j], e)
  BY <1>3, <1>5 DEF EntriesFit
<1>7. e.kind # "subagent" => \E i \in DOMAIN V!SegmentsOf(talk[j]) :
        V!Entered(talk[j], V!SegmentsOf(talk[j]), i) /\ e.id = V!Entry(talk[j], V!SegmentsOf(talk[j]), i).id
  BY <1>3, <1>5 DEF EntriesFit
<1> QED
  BY <1>4, <1>6, <1>7 DEF EntryFits

\* What is in the process was entered, and by this message.
LEMMA OnlyEntered ==
  ASSUME TalkInv, NEW n \in DOMAIN talk, NEW m, m = talk[n], NEW segs, segs = V!SegmentsOf(m), NEW i \in DOMAIN segs,
         ~V!Repeated(segs, i), NEW p, NEW pr, ProcessFits(pr, p, Len(talk)), NEW k \in DOMAIN pr.entries,
         pr.entries[k].id = V!Entry(m, segs, i).id
  PROVE  V!Entered(m, segs, i)
<1>1. PICK e : e = pr.entries[k]
  OBVIOUS
<1>2. PICK j \in DOMAIN talk :
           /\ ToldBy(talk[j], e) /\ e.id[1] = e.kind
           /\ e.kind # "subagent" => \E l \in DOMAIN V!SegmentsOf(talk[j]) :
                V!Entered(talk[j], V!SegmentsOf(talk[j]), l) /\ e.id = V!Entry(talk[j], V!SegmentsOf(talk[j]), l).id
  BY <1>1, Told
<1>3. PICK x : x = V!Entry(m, segs, i).id
  OBVIOUS
<1>4. x = e.id
  BY <1>1, <1>3
<1>5. MessageFits(m, n) /\ MessageFits(talk[j], j)
  BY EntriesOf
<1>6. PICK other : other = V!SegmentsOf(talk[j])
  OBVIOUS
<1>7. CASE segs[i].kind \in WordKinds /\ x = <<segs[i].kind, n, i>>
  <2>1. x[1] = segs[i].kind /\ x[2] = n /\ x[3] = i
    BY <1>7
  <2>2. e.kind \in WordKinds
    BY <1>2, <1>4, <1>7, <2>1
  <2>3. e.kind # "subagent" /\ e.kind # "private"
    BY <1>2, <2>2 DEF WordKinds, ToldBy
  <2>4. PICK l \in DOMAIN other : V!Entered(talk[j], other, l) /\ x = V!Entry(talk[j], other, l).id
    BY <1>2, <1>4, <1>6, <2>3
  <2>5. other[l].kind \in WordKinds /\ x = <<other[l].kind, j, l>>
    <3>1. x[1] \in WordKinds
      BY <1>7, <2>1
    <3>2. ASSUME NEW a, NEW c, a \in {"todo", "tool"}, x = <<a, c>> PROVE FALSE
      <4>1. x[1] = a
        BY <3>2
      <4> QED
        BY <3>1, <3>2, <4>1 DEF WordKinds
    <3>3. \/ other[l].kind \in WordKinds /\ x = <<other[l].kind, j, l>>
          \/ /\ other[l].kind = "tool"
             /\ \E q \in DOMAIN talk[j].calls : /\ other[l].tool = talk[j].calls[q] /\ talk[j].calls[q].name \in ToolNames
                  /\ x = <<IF talk[j].calls[q].name = "todo" THEN "todo" ELSE "tool", talk[j].calls[q].call>>
      BY <1>5, <1>6, <2>4, EntryId
    <3>4. \A a, c : a \in {"todo", "tool"} => x # <<a, c>>
      BY <3>2
    <3> QED
      BY <3>3, <3>4
  <2>6. x[2] = j /\ x[3] = l
    BY <2>5
  <2>7. j = n /\ l = i
    BY <2>1, <2>6
  <2>8. other = segs
    BY <1>6, <2>7
  <2> QED
    BY <2>4, <2>7, <2>8
<1>8. CASE segs[i].kind = "tool" /\ \E q \in DOMAIN m.calls :
             /\ segs[i].tool = m.calls[q] /\ m.calls[q].name \in ToolNames
             /\ x = <<IF m.calls[q].name = "todo" THEN "todo" ELSE "tool", m.calls[q].call>>
  <2>1. PICK q \in DOMAIN m.calls : /\ segs[i].tool = m.calls[q] /\ m.calls[q].name \in ToolNames
                                    /\ x = <<IF m.calls[q].name = "todo" THEN "todo" ELSE "tool", m.calls[q].call>>
    BY <1>8
  <2>2. PICK c : c = m.calls[q].call
    OBVIOUS
  <2>3. CASE m.calls[q].name = "todo"
    <3>1. x = <<"todo", c>>
      BY <2>1, <2>2, <2>3
    <3>2. x[1] = "todo" /\ x[2] = c
      BY <3>1
    <3>3. e.kind = "todo"
      BY <1>2, <1>4, <3>2
    <3>4. PICK r \in DOMAIN talk[j].calls : talk[j].calls[r].name = "todo" /\ x = <<"todo", talk[j].calls[r].call>>
      BY <1>2, <1>4, <3>3 DEF ToldBy
    <3>5. talk[j].calls[r].call = c
      BY <3>1, <3>4
    <3>6. j = n
      <4> SUFFICES ASSUME j # n PROVE FALSE
        OBVIOUS
      <4>1. CallIn(talk[j], c) /\ CallIn(talk[n], c)
        BY <2>2, <3>5 DEF CallIn
      <4>2. talk[j].calls[r].name = "work"
        BY <3>5, <4>1, OneProcess
      <4> QED
        BY <3>4, <4>2
    <3>7. other = segs
      BY <1>6, <3>6
    <3>8. PICK l \in DOMAIN segs : V!Entered(m, segs, l) /\ x = V!Entry(m, segs, l).id
      BY <1>2, <1>4, <3>3, <3>6
    <3>9. segs[l].kind = "tool" /\ segs[l].tool.call = c
      <4>1. \/ segs[l].kind \in WordKinds /\ x = <<segs[l].kind, n, l>>
            \/ /\ segs[l].kind = "tool"
               /\ \E f \in DOMAIN m.calls : /\ segs[l].tool = m.calls[f] /\ m.calls[f].name \in ToolNames
                    /\ x = <<IF m.calls[f].name = "todo" THEN "todo" ELSE "tool", m.calls[f].call>>
        BY <1>5, <3>8, EntryId
      <4>2. CASE segs[l].kind \in WordKinds /\ x = <<segs[l].kind, n, l>>
        <5>1. x[1] \in WordKinds
          BY <4>2
        <5> QED
          BY <3>2, <5>1 DEF WordKinds
      <4>3. CASE segs[l].kind = "tool" /\ \E f \in DOMAIN m.calls : /\ segs[l].tool = m.calls[f]
                    /\ x = <<IF m.calls[f].name = "todo" THEN "todo" ELSE "tool", m.calls[f].call>>
        <5>1. PICK f \in DOMAIN m.calls : /\ segs[l].tool = m.calls[f]
                    /\ x = <<IF m.calls[f].name = "todo" THEN "todo" ELSE "tool", m.calls[f].call>>
          BY <4>3
        <5>2. x[2] = m.calls[f].call
          BY <5>1
        <5> QED
          BY <3>2, <4>3, <5>1, <5>2
      <4> QED
        BY <4>1, <4>2, <4>3
    <3>10. ~V!Repeated(segs, l)
      BY <3>8, <3>9 DEF V!Entered
    <3>11. i = l
      <4>1. i \in Nat /\ l \in Nat /\ i >= 1 /\ l >= 1
        BY <1>5, SegmentsFit, SeqIs DEF SegsFit
      <4>2. segs[i].tool.call = segs[l].tool.call
        BY <2>1, <2>2, <3>9
      <4>3. ~(i < l) /\ ~(l < i)
        BY <1>8, <3>9, <3>10, <4>1, <4>2 DEF V!Repeated
      <4> QED
        BY <4>1, <4>3
    <3> QED
      BY <3>8, <3>11
  <2>4. CASE m.calls[q].name # "todo"
    <3>1. x = <<"tool", c>>
      BY <2>1, <2>2, <2>4
    <3>2. x[1] = "tool"
      BY <3>1
    <3>3. e.kind = "tool"
      BY <1>2, <1>4, <3>2
    <3>4. PICK r \in DOMAIN talk[j].calls : talk[j].calls[r].name = "work" /\ x = <<"tool", talk[j].calls[r].call>>
      BY <1>2, <1>4, <3>3 DEF ToldBy
    <3>5. talk[j].calls[r].call = c
      BY <3>1, <3>4
    <3>6. m.calls[q].name = "work"
      <4>1. CASE j = n
        <5>1. r = q
          BY <1>5, <2>2, <3>5, <4>1 DEF MessageFits, CallsFit
        <5> QED
          BY <3>4, <4>1, <5>1
      <4>2. CASE j # n
        <5>1. CallIn(talk[j], c) /\ CallIn(talk[n], c)
          BY <2>2, <3>5 DEF CallIn
        <5> QED
          BY <2>2, <4>2, <5>1, OneProcess
      <4> QED
        BY <4>1, <4>2
    <3> QED
      BY <1>8, <2>1, <3>6 DEF V!Entered, V!Kept, V!Names
  <2> QED
    BY <2>3, <2>4
<1> QED
  BY <1>3, <1>5, <1>7, <1>8, EntryId

\* A segment is hidden, or it is kept in the reply, or it is entered.
LEMMA KeptOrEntered ==
  ASSUME NEW n, NEW m, MessageFits(m, n), NEW segs, segs = V!SegmentsOf(m), NEW i \in DOMAIN segs, ~V!Repeated(segs, i)
  PROVE  IF segs[i].kind = "private" \/ V!Names(segs[i], {"cliAsk", "deliver"})
         THEN ~V!Kept(m, segs, i) /\ ~V!Entered(m, segs, i)
         ELSE V!Kept(m, segs, i) <=> ~V!Entered(m, segs, i)
<1>1. \/ segs[i].kind \in WordKinds
      \/ segs[i].kind = "tool" /\ segs[i].tool.name \in ToolNames
  <2>1. SegsFit(m, segs) /\ CallsFit(m)
    BY SegmentsFit DEF MessageFits
  <2> QED
    BY <2>1 DEF SegsFit, CallsFit, IsTool
<1>2. CASE segs[i].kind \in WordKinds
  <2>1. ~V!Names(segs[i], {"cliAsk", "deliver"}) /\ ~V!Names(segs[i], {"ask", "todo"}) /\ segs[i].kind # "tool"
    BY <1>2 DEF WordKinds, V!Names
  <2>2. segs[i].kind \in {"private", "summary", "text"}
    BY <1>2 DEF WordKinds
  <2> QED
    BY <2>1, <2>2 DEF V!Kept, V!Entered
<1>3. CASE segs[i].kind = "tool" /\ segs[i].tool.name \in ToolNames
  <2>1. V!Names(segs[i], {"cliAsk", "deliver"}) => ~V!Names(segs[i], {"ask", "todo"})
    BY DEF V!Names
  <2>2. segs[i].kind \notin {"private", "summary", "text"}
    BY <1>3
  <2> QED
    BY <1>3, <2>1, <2>2 DEF V!Kept, V!Entered
<1> QED
  BY <1>1, <1>2, <1>3

LEMMA KeptIsShown ==
  ASSUME NEW n, NEW m, MessageFits(m, n), NEW segs, segs = V!SegmentsOf(m), NEW i \in DOMAIN segs, V!Kept(m, segs, i)
  PROVE  V!Shown(m)
<1>1. IsSeq(segs)
  BY SegmentsFit DEF SegsFit
<1>2. PICK items : items = {k \in DOMAIN segs : V!Kept(m, segs, k)}
  OBVIOUS
<1>3. PICK w : w = V!Among(V!Numbers(segs), items)
  OBVIOUS
<1>4. V!Places(m, V!Kept) = w
  BY <1>2, <1>3 DEF V!Places
<1>5. \E k \in DOMAIN w : w[k] = i
  <2>1. \A l \in DOMAIN segs : l \in items => \E k \in DOMAIN w : w[k] = l
    BY <1>1, <1>3, PlacesAre
  <2>2. i \in items
    BY <1>2
  <2> QED
    BY <2>1, <2>2
<1>6. w # <<>>
  BY <1>5, Nothing
<1> QED
  BY <1>4, <1>6 DEF V!Shown

LEMMA NothingIsHidden ==
  ASSUME TalkInv, NEW view, view = V!ProjectWorkTimeline(talk)
  PROVE  V!NothingHidden(view)
<1>1. PICK procs : procs = view.processes
  OBVIOUS
<1>2. PICK N : N = Len(talk)
  OBVIOUS
<1>3. /\ \A p \in DOMAIN procs : ProcessFits(procs[p], p, N)
      /\ \A j \in 1..N : talk[j].role = "assistant" /\ V!Entries(talk[j]) # <<>> => V!ProcessId(talk[j]) \in DOMAIN procs
      /\ \A j \in DOMAIN talk : V!IsShown(view, talk[j]) <=> talk[j].role = "user" \/ V!Shown(talk[j])
      /\ DOMAIN talk = 1..N
  BY <1>1, <1>2, ViewIs, TalkIs DEF ProcessesFit
<1>4. ASSUME NEW n \in DOMAIN talk, talk[n].role = "assistant"
      PROVE  LET m == talk[n]
                 segs == V!SegmentsOf(m)
                 pid == V!ProcessId(m)
                 In(i) == /\ pid \in DOMAIN view.processes
                          /\ V!Entry(m, segs, i).id \in {e.id : e \in V!ToSet(view.processes[pid].entries)}
             IN  /\ pid \in DOMAIN view.processes => V!IsShown(view, talk[view.processes[pid].anchor])
                 /\ \A i \in DOMAIN segs : ~V!Repeated(segs, i) =>
                      LET hidden == segs[i].kind = "private" \/ V!Names(segs[i], {"cliAsk", "deliver"})
                          body == V!IsShown(view, m) /\ V!Kept(m, segs, i)
                      IN  IF hidden THEN ~body /\ ~In(i) ELSE body # In(i)
  <2>1. PICK m : m = talk[n]
    OBVIOUS
  <2>2. PICK segs : segs = V!SegmentsOf(m)
    OBVIOUS
  <2>3. PICK pid : pid = V!ProcessId(m)
    OBVIOUS
  <2>4. MessageFits(m, n) /\ m.role = "assistant"
    BY <1>4, <2>1, EntriesOf
  <2>5. ASSUME pid \in DOMAIN procs PROVE V!IsShown(view, talk[procs[pid].anchor])
    <3>1. PICK a : a = procs[pid].anchor
      OBVIOUS
    <3>2. a \in DOMAIN talk /\ V!Entries(talk[a]) # <<>>
      BY <1>3, <2>5, <3>1 DEF ProcessFits
    <3>3. V!Shown(talk[a])
      BY <3>2 DEF V!Shown
    <3> QED
      BY <1>3, <3>1, <3>2, <3>3
  <2>6. ASSUME NEW i \in DOMAIN segs, ~V!Repeated(segs, i)
        PROVE  LET hidden == segs[i].kind = "private" \/ V!Names(segs[i], {"cliAsk", "deliver"})
                   body == V!IsShown(view, m) /\ V!Kept(m, segs, i)
                   in == pid \in DOMAIN procs /\ V!Entry(m, segs, i).id \in {e.id : e \in V!ToSet(procs[pid].entries)}
               IN  IF hidden THEN ~body /\ ~in ELSE body # in
    <3>1. PICK x : x = V!Entry(m, segs, i).id
      OBVIOUS
    <3>2. PICK in \in BOOLEAN : in <=> pid \in DOMAIN procs /\ x \in {e.id : e \in V!ToSet(procs[pid].entries)}
      OBVIOUS
    <3>3. PICK body \in BOOLEAN : body <=> V!IsShown(view, m) /\ V!Kept(m, segs, i)
      OBVIOUS
    <3>4. PICK entered \in BOOLEAN : entered <=> V!Entered(m, segs, i)
      OBVIOUS
    <3>5. PICK kept \in BOOLEAN : kept <=> V!Kept(m, segs, i)
      OBVIOUS
    <3>6. PICK hidden \in BOOLEAN : hidden <=> segs[i].kind = "private" \/ V!Names(segs[i], {"cliAsk", "deliver"})
      OBVIOUS
    <3>7. IF hidden THEN ~kept /\ ~entered ELSE kept <=> ~entered
      BY <2>2, <2>4, <2>6, <3>4, <3>5, <3>6, KeptOrEntered
    <3>8. body <=> kept
      <4>1. V!Kept(m, segs, i) => V!Shown(m)
        BY <2>2, <2>4, KeptIsShown
      <4>2. V!Kept(m, segs, i) => V!IsShown(view, m)
        BY <1>3, <2>1, <4>1
      <4> QED
        BY <3>3, <3>5, <4>2
    <3>9. in => entered
      <4> SUFFICES ASSUME in PROVE V!Entered(m, segs, i)
        BY <3>4
      <4>1. PICK k \in DOMAIN procs[pid].entries : procs[pid].entries[k].id = x
        BY <3>2 DEF V!ToSet
      <4>2. PICK pr : pr = procs[pid]
        OBVIOUS
      <4>3. ProcessFits(pr, pid, Len(talk))
        BY <1>2, <1>3, <3>2, <4>2
      <4>4. k \in DOMAIN pr.entries /\ pr.entries[k].id = V!Entry(m, segs, i).id
        BY <3>1, <4>1, <4>2
      <4> QED
        BY <2>1, <2>2, <2>6, <4>3, <4>4, OnlyEntered
    <3>10. entered => in
      <4> SUFFICES ASSUME V!Entered(m, segs, i)
                   PROVE  pid \in DOMAIN procs /\ x \in {e.id : e \in V!ToSet(procs[pid].entries)}
        BY <3>2, <3>4
      <4>1. PICK es : es = V!Entries(m)
        OBVIOUS
      <4>2. EntriesFit(m, es)
        BY <2>4, <4>1, EntriesAre
      <4>3. PICK l \in DOMAIN es : es[l].id = x
        BY <2>2, <3>1, <4>2 DEF EntriesFit
      <4>4. es # <<>>
        BY <4>3, Nothing
      <4>5. n \in 1..N /\ Source(pid, n)
        BY <1>3, <2>1, <2>3, <2>4 DEF Source
      <4>6. pid \in DOMAIN procs
        BY <1>3, <1>4, <2>1, <2>3, <4>1, <4>4
      <4>7. PICK pr : pr = procs[pid]
        OBVIOUS
      <4>8. ProcessFits(pr, pid, N)
        BY <1>3, <4>6, <4>7
      <4>9. PICK k \in DOMAIN pr.entries : pr.entries[k].id = es[l].id
        BY <2>1, <4>1, <4>5, <4>8 DEF ProcessFits
      <4> QED
        BY <4>3, <4>6, <4>7, <4>9 DEF V!ToSet
    <3>11. IF hidden THEN ~body /\ ~in ELSE body # in
      BY <3>7, <3>8, <3>9, <3>10
    <3>12. IF hidden
           THEN ~(V!IsShown(view, m) /\ V!Kept(m, segs, i)) /\ ~in
           ELSE (V!IsShown(view, m) /\ V!Kept(m, segs, i)) # in
      BY <3>3, <3>11
    <3>13. in = (pid \in DOMAIN procs /\ x \in {e.id : e \in V!ToSet(procs[pid].entries)})
      BY <3>2
    <3>14. hidden = (segs[i].kind = "private" \/ V!Names(segs[i], {"cliAsk", "deliver"}))
      BY <3>6 DEF V!Names
    <3> QED
      BY <3>1, <3>12, <3>13, <3>14
  <2> QED
    BY <1>1, <2>1, <2>2, <2>3, <2>5, <2>6
<1> QED
  BY <1>4 DEF V!NothingHidden

\* At every state of a transcript of any length, what its agents said and did is rendered
\* in one place, the reply or the process of its turn, or in none when it is private; the
\* keys of the lists are distinct; each step of a todo window is under one task; and a
\* step has the state of its call in the latest message (projectWorkTimeline,
\* mergeProcessEntries, process-tasks.ts).
THEOREM WorkIsShown ==
  ASSUME TodosAreLists PROVE (V!Spec => []WorkShown) /\ (MCSpec => []WorkShown)
<1>1. V!Init => TalkInv
  BY TalkStart
<1>2. ASSUME TalkInv, [V!Next]_(V!workVars) PROVE TalkInv'
  <2>1. CASE V!Next
    BY <1>2, <2>1, TalkStep
  <2>2. CASE UNCHANGED V!workVars
    <3>1. talk' = talk
      BY <2>2 DEF V!workVars
    <3> QED
      BY <1>2, <3>1 DEF TalkInv
  <2> QED
    BY <1>2, <2>1, <2>2
<1>3. TalkInv => WorkShown
  <2> SUFFICES ASSUME TalkInv PROVE WorkShown
    OBVIOUS
  <2>1. PICK view : view = V!ProjectWorkTimeline(talk)
    OBVIOUS
  <2>2. V!NothingHidden(view) /\ V!KeysDistinct(view) /\ V!StepsOwned(view) /\ V!StepsCurrent(view)
    BY <2>1, NothingIsHidden, KeysAre, OwnersAre, StepsAreCurrent
  <2> QED
    BY <2>1, <2>2 DEF WorkShown, V!WorkShown
<1>4. V!Spec => []WorkShown
  BY <1>1, <1>2, <1>3, PTL DEF V!Spec
<1>5. MCInit => TalkInv
  BY <1>1 DEF MCInit
<1>6. TalkInv /\ [MCNext]_mcVars => TalkInv'
  <2>1. [MCNext]_mcVars => [V!Next]_(V!workVars)
    BY DEF MCNext, Stream, Trace, Work, Rows, mcVars, V!workVars
  <2> QED
    BY <2>1, <1>2
<1>7. MCSpec => []WorkShown
  BY <1>5, <1>6, <1>3, PTL DEF MCSpec
<1> QED
  BY <1>4, <1>7

================================================================================
