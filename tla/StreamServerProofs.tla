------------------------- MODULE StreamServerProofs -------------------------
(***************************************************************************)
(* serve_client on every stream.  The argument has four layers: induction  *)
(* over the natural numbers (from the well-foundedness of finite sets);    *)
(* where the bytes of each item are in the stream; what decode makes of a  *)
(* buffer that begins with the next item, and that encode undoes it; and   *)
(* the inductive invariant of the thread.                                  *)
(***************************************************************************)
EXTENDS StreamServer, FiniteSetTheorems, WellFoundedInduction, SequenceTheorems, TLAPS

\* Induction over the natural numbers, for a set of them.
LEMMA Induct ==
  ASSUME NEW S \in SUBSET Nat, 0 \in S, \A n \in S : n + 1 \in S
  PROVE  S = Nat
<1> DEFINE R == StrictSubsetOrdering(Nat)
           F == FiniteSubsetsOf(Nat)
           T == { 0 .. n : n \in Nat \ S }
<1> SUFFICES ASSUME Nat \ S # {} PROVE FALSE
  OBVIOUS
<1>1. IsWellFoundedOn(R, F)
  BY FS_StrictSubsetOrderingWellFounded, Zenon
<1>2. T \subseteq F
  <2>1. ASSUME NEW n \in Nat PROVE 0 .. n \in F
    <3>1. IsFiniteSet(0 .. n)
      BY FS_Interval
    <3>2. 0 .. n \subseteq Nat
      OBVIOUS
    <3> QED BY <3>1, <3>2 DEF FiniteSubsetsOf
  <2> QED BY <2>1
<1>3. T # {}
  OBVIOUS
<1>4. PICK I \in T : \A J \in T : ~ (<<J, I>> \in R)
  <2> HIDE DEF R, F, T
  <2> QED BY <1>1, <1>2, <1>3, WFMin, Zenon
<1>5. PICK x \in Nat \ S : I = 0 .. x
  OBVIOUS
<1>6. x # 0 /\ x - 1 \in Nat
  BY <1>5
<1>7. <<0 .. (x - 1), 0 .. x>> \in R
  <2>1. 0 .. (x - 1) \subseteq 0 .. x /\ x \in 0 .. x /\ x \notin 0 .. (x - 1)
    BY <1>6
  <2>2. 0 .. (x - 1) \in SUBSET Nat /\ 0 .. x \in SUBSET Nat
    BY <1>6
  <2> DEFINE J == 0 .. (x - 1)
             K == 0 .. x
  <2> HIDE DEF J, K
  <2> QED BY <2>1, <2>2 DEF StrictSubsetOrdering, J, K
<1>8. x - 1 \in S
  <2>1. ~ (0 .. (x - 1) \in T)
    BY <1>4, <1>5, <1>7
  <2> QED BY <1>6, <2>1
<1> QED BY <1>5, <1>6, <1>8

\* The same up to a bound.
LEMMA InductUpTo ==
  ASSUME NEW n \in Nat, NEW S, 0 \in S, \A k \in 0 .. (n - 1) : k \in S => k + 1 \in S
  PROVE  \A k \in 0 .. n : k \in S
<1> DEFINE T == { k \in Nat : k <= n => k \in S }
<1>1. T \in SUBSET Nat /\ 0 \in T
  OBVIOUS
<1>2. ASSUME NEW k \in T PROVE k + 1 \in T
  <2>1. k + 1 <= n => k + 1 \in S
    <3> SUFFICES ASSUME k + 1 <= n PROVE k + 1 \in S
      OBVIOUS
    <3>1. k \in 0 .. (n - 1) /\ k \in S
      OBVIOUS
    <3> QED BY <3>1
  <2> QED BY <2>1
<1> HIDE DEF T
<1>3. T = Nat
  BY <1>1, <1>2, Induct
<1> QED BY <1>3 DEF T

-----------------------------------------------------------------------------
\* The function Bytes is defined by.
IsUpto(its, f) ==
  f = [k \in 0 .. Len(its) |-> IF k = 0 THEN <<>> ELSE f[k - 1] \o its[k].bytes]

\* There is such a function.
LEMMA UptoExists ==
  ASSUME NEW its, Len(its) \in Nat
  PROVE  \E f : IsUpto(its, f)
<1> DEFINE n == Len(its)
           P(k, f) == f = [j \in 0 .. k |-> IF j = 0 THEN <<>> ELSE f[j - 1] \o its[j].bytes]
           S == { k \in Nat : \E f : P(k, f) }
<1>1. 0 \in S
  <2> DEFINE f == [j \in 0 .. 0 |-> <<>>]
  <2>1. P(0, f)
    OBVIOUS
  <2> QED BY <2>1
<1>2. ASSUME NEW k \in S PROVE k + 1 \in S
  <2>1. PICK f : P(k, f)
    OBVIOUS
  <2>a. \A j \in 0 .. k : f[j] = IF j = 0 THEN <<>> ELSE f[j - 1] \o its[j].bytes
    BY <2>1, Zenon
  <2> DEFINE g == [j \in 0 .. (k + 1) |-> IF j = k + 1 THEN f[k] \o its[k + 1].bytes ELSE f[j]]
  <2>2. ASSUME NEW j \in 0 .. (k + 1)
        PROVE  g[j] = IF j = 0 THEN <<>> ELSE g[j - 1] \o its[j].bytes
    <3>1. CASE j = k + 1
      <4>1. g[j] = f[k] \o its[k + 1].bytes
        BY <3>1
      <4>2. g[j - 1] = f[k] /\ j # 0
        BY <3>1
      <4> QED BY <3>1, <4>1, <4>2
    <3>2. CASE j # k + 1 /\ j # 0
      <4>1. g[j] = f[j] /\ g[j - 1] = f[j - 1]
        BY <3>2
      <4>2. f[j] = f[j - 1] \o its[j].bytes
        <5>1. j \in 0 .. k
          BY <3>2
        <5> QED BY <2>a, <3>2, <5>1, Zenon
      <4> QED BY <3>2, <4>1, <4>2
    <3>3. CASE j = 0
      <4>1. g[j] = f[0] /\ f[0] = <<>>
        BY <2>1, <3>3
      <4> QED BY <3>3, <4>1
    <3> QED BY <3>1, <3>2, <3>3
  <2>3. P(k + 1, g)
    <3> DEFINE h == [j \in 0 .. (k + 1) |-> IF j = 0 THEN <<>> ELSE g[j - 1] \o its[j].bytes]
    <3>1. DOMAIN g = DOMAIN h /\ g = [j \in 0 .. (k + 1) |-> g[j]]
      OBVIOUS
    <3>2. \A j \in 0 .. (k + 1) : g[j] = h[j]
      BY <2>2
    <3> HIDE DEF g
    <3> QED BY <3>1, <3>2
  <2>4. \E e : P(k + 1, e)
    <3> HIDE DEF g
    <3> WITNESS g
    <3> QED BY <2>3
  <2> QED BY <2>4
<1>3. S = Nat
  <2> HIDE DEF S
  <2>1. S \in SUBSET Nat
    BY DEF S
  <2> QED BY <1>1, <1>2, <2>1, Induct
<1>4. n \in S
  BY <1>3
<1> QED BY <1>4 DEF IsUpto

\* Bytes is its last value.
LEMMA BytesUpto ==
  ASSUME NEW its, Len(its) \in Nat
  PROVE  \E f : IsUpto(its, f) /\ Bytes(its) = f[Len(its)]
<1> DEFINE g == CHOOSE f : IsUpto(its, f)
<1>1. IsUpto(its, g)
  BY UptoExists, Zenon
<1>2. Bytes(its) = g[Len(its)]
  BY Zenon DEF Bytes, IsUpto
<1> QED BY <1>1, <1>2

\* Its values.
LEMMA UptoValues ==
  ASSUME NEW its, Len(its) \in Nat, NEW f, IsUpto(its, f)
  PROVE  /\ f[0] = <<>>
         /\ \A k \in 0 .. (Len(its) - 1) : f[k + 1] = f[k] \o its[k + 1].bytes
<1>1. \A j \in 0 .. Len(its) : f[j] = IF j = 0 THEN <<>> ELSE f[j - 1] \o its[j].bytes
  BY Zenon DEF IsUpto
<1>2. f[0] = <<>>
  <2>1. 0 \in 0 .. Len(its)
    OBVIOUS
  <2> QED BY <1>1, <2>1, Zenon
<1>3. ASSUME NEW k \in 0 .. (Len(its) - 1) PROVE f[k + 1] = f[k] \o its[k + 1].bytes
  <2> DEFINE j == k + 1
  <2>1. j \in 0 .. Len(its) /\ j # 0 /\ j - 1 = k
    OBVIOUS
  <2> HIDE DEF j
  <2>2. f[j] = f[j - 1] \o its[j].bytes
    BY <1>1, <2>1, Zenon
  <2>3. f[j] = f[k] \o its[j].bytes
    BY <2>1, <2>2, Zenon
  <2> QED BY <2>3 DEF j
<1> QED BY <1>2, <1>3

\* No items, no bytes.
LEMMA NoBytes == Bytes(<<>>) = <<>>
<1> DEFINE its == <<>>
<1>1. Len(its) = 0
  OBVIOUS
<1> HIDE DEF its
<1>2. PICK f : IsUpto(its, f) /\ Bytes(its) = f[Len(its)]
  BY <1>1, BytesUpto
<1>3. Len(its) \in Nat
  BY <1>1
<1>4. f[0] = <<>>
  BY <1>2, <1>3, UptoValues, Zenon
<1> QED BY <1>1, <1>2, <1>4, Zenon DEF its

\* One more item, its bytes more.
LEMMA MoreBytes ==
  ASSUME NEW its, NEW jts, NEW n \in Nat, Len(its) = n, Len(jts) = n + 1,
         \A k \in 1 .. n : jts[k] = its[k]
  PROVE  Bytes(jts) = Bytes(its) \o jts[n + 1].bytes
<1>1. PICK f : IsUpto(its, f) /\ Bytes(its) = f[n]
  BY BytesUpto
<1>2. PICK g : IsUpto(jts, g) /\ Bytes(jts) = g[n + 1]
  BY BytesUpto
<1> DEFINE S == { k \in 0 .. n : f[k] = g[k] }
<1>3. 0 \in S
  <2>0. Len(its) \in Nat /\ Len(jts) \in Nat
    OBVIOUS
  <2>1. f[0] = <<>>
    BY <1>1, <2>0, UptoValues, Zenon
  <2>2. g[0] = <<>>
    BY <1>2, <2>0, UptoValues, Zenon
  <2> QED BY <2>1, <2>2
<1>4. ASSUME NEW k \in 0 .. (n - 1), k \in S PROVE k + 1 \in S
  <2>1. f[k + 1] = f[k] \o its[k + 1].bytes
    BY <1>1, UptoValues, Zenon
  <2>2. g[k + 1] = g[k] \o jts[k + 1].bytes
    <3>1. k \in 0 .. (Len(jts) - 1) /\ Len(jts) \in Nat
      OBVIOUS
    <3> QED BY <1>2, <3>1, UptoValues, Zenon
  <2>3. its[k + 1] = jts[k + 1] /\ k + 1 \in 0 .. n
    OBVIOUS
  <2> QED BY <1>4, <2>1, <2>2, <2>3
<1>5. n \in S
  <2> HIDE DEF S
  <2>1. \A k \in 0 .. n : k \in S
    BY <1>3, <1>4, InductUpTo
  <2> QED BY <2>1
<1>6. g[n + 1] = g[n] \o jts[n + 1].bytes
  <2>1. n \in 0 .. (Len(jts) - 1) /\ Len(jts) \in Nat
    OBVIOUS
  <2> QED BY <1>2, <2>1, UptoValues, Zenon
<1> QED BY <1>1, <1>2, <1>5, <1>6

\* Two sequences joined.
LEMMA Joined ==
  ASSUME NEW S, NEW s \in Seq(S), NEW t \in Seq(S)
  PROVE  /\ s \o t \in Seq(S) /\ Len(s \o t) = Len(s) + Len(t)
         /\ \A i \in 1 .. Len(s) : (s \o t)[i] = s[i]
         /\ \A i \in 1 .. Len(t) : (s \o t)[Len(s) + i] = t[i]
<1> DEFINE u == s \o t
<1>1. Len(s) \in Nat /\ Len(t) \in Nat
  BY LenProperties
<1>2. /\ u \in Seq(S) /\ Len(u) = Len(s) + Len(t)
      /\ \A i \in 1 .. Len(s) + Len(t) : u[i] = IF i <= Len(s) THEN s[i] ELSE t[i - Len(s)]
  BY ConcatProperties
<1> HIDE DEF u
<1>3. ASSUME NEW i \in 1 .. Len(s) PROVE u[i] = s[i]
  BY <1>1, <1>2
<1>4. ASSUME NEW i \in 1 .. Len(t) PROVE u[Len(s) + i] = t[i]
  <2>1. Len(s) + i \in 1 .. Len(s) + Len(t) /\ ~ (Len(s) + i <= Len(s)) /\ Len(s) + i - Len(s) = i
    BY <1>1
  <2> QED BY <1>2, <2>1
<1> QED BY <1>2, <1>3, <1>4 DEF u

\* The elements of s are those of b from place o on.
At(s, b, o) == \A i \in 1 .. Len(s) : b[o + i] = s[i]

\* Two sequences joined are at a place of b if each is, in its place.
LEMMA JoinedAt ==
  ASSUME NEW S, NEW s \in Seq(S), NEW t \in Seq(S), NEW b, NEW o \in Nat, NEW m,
         At(s, b, o), At(t, b, m), m = o + Len(s)
  PROVE  At(s \o t, b, o)
<1> DEFINE u == s \o t
<1>1. Len(s) \in Nat /\ Len(t) \in Nat
  BY LenProperties
<1>2. /\ Len(u) = Len(s) + Len(t)
      /\ \A i \in 1 .. Len(s) : u[i] = s[i]
      /\ \A i \in 1 .. Len(t) : u[Len(s) + i] = t[i]
  BY Joined
<1> HIDE DEF u
<1>3. ASSUME NEW i \in 1 .. Len(u) PROVE b[o + i] = u[i]
  <2>1. CASE i <= Len(s)
    <3>1. i \in 1 .. Len(s)
      BY <1>1, <2>1
    <3> QED BY <1>2, <3>1 DEF At
  <2>2. CASE ~ (i <= Len(s))
    <3> DEFINE j == i - Len(s)
    <3>1. j \in 1 .. Len(t) /\ Len(s) + j = i /\ o + i = m + j
      BY <1>1, <1>2, <2>2
    <3> HIDE DEF j
    <3>2. u[i] = t[j] /\ b[m + j] = t[j]
      BY <1>2, <3>1 DEF At
    <3> QED BY <3>1, <3>2
  <2> QED BY <2>1, <2>2
<1> QED BY <1>3 DEF u, At

-----------------------------------------------------------------------------
\* The bytes of the first k items, and how many they are.
BytesUpTo(its, k) == Bytes(SubSeq(its, 1, k))
Off(its, k) == Len(BytesUpTo(its, k))

\* The bytes of an item.
LEMMA ItemBytes ==
  ASSUME NEW its \in Seq(Item), NEW k \in 1 .. Len(its)
  PROVE  its[k] \in Item /\ its[k].bytes \in Seq(MbapByte) /\ Len(its[k].bytes) \in Nat
<1>1. its[k] \in Item
  BY ElementOfSeq
<1>2. its[k].bytes \in Seq(MbapByte)
  BY <1>1 DEF Item
<1> QED BY <1>1, <1>2, LenProperties

\* Item by item.
LEMMA BytesStep ==
  ASSUME NEW its \in Seq(Item)
  PROVE  /\ Len(its) \in Nat
         /\ BytesUpTo(its, 0) = <<>>
         /\ \A k \in 0 .. (Len(its) - 1) :
              BytesUpTo(its, k + 1) = BytesUpTo(its, k) \o its[k + 1].bytes
         /\ BytesUpTo(its, Len(its)) = Bytes(its)
<1>1. Len(its) \in Nat
  BY LenProperties
<1>2. BytesUpTo(its, 0) = <<>>
  <2>1. SubSeq(its, 1, 0) = <<>>
    BY SubSeqEmpty
  <2> QED BY <2>1, NoBytes, Zenon DEF BytesUpTo
<1>3. ASSUME NEW k \in 0 .. Len(its)
      PROVE  /\ Len(SubSeq(its, 1, k)) = k
             /\ \A i \in 1 .. k : SubSeq(its, 1, k)[i] = its[i]
  <2>1. \A i \in 1 .. k : its[i] \in Item
    BY <1>1, ElementOfSeq
  <2>2. 1 \in Int /\ k \in Int /\ k - 1 + 1 = k
    BY <1>1
  <2>3. /\ Len(SubSeq(its, 1, k)) = IF 1 <= k THEN k - 1 + 1 ELSE 0
        /\ \A i \in 1 .. k - 1 + 1 : SubSeq(its, 1, k)[i] = its[1 + i - 1]
    BY <2>1, <2>2, SubSeqProperties
  <2>4. Len(SubSeq(its, 1, k)) = k
    BY <1>1, <2>3
  <2>5. ASSUME NEW i \in 1 .. k PROVE SubSeq(its, 1, k)[i] = its[i]
    <3>1. 1 + i - 1 = i /\ i \in 1 .. k - 1 + 1
      BY <2>2
    <3> QED BY <2>3, <3>1
  <2> QED BY <2>4, <2>5
<1>4. ASSUME NEW k \in 0 .. (Len(its) - 1)
      PROVE  BytesUpTo(its, k + 1) = BytesUpTo(its, k) \o its[k + 1].bytes
  <2> DEFINE p == SubSeq(its, 1, k)
             q == SubSeq(its, 1, k + 1)
  <2>1. k \in 0 .. Len(its) /\ k + 1 \in 0 .. Len(its) /\ k \in Nat
    BY <1>1
  <2>2. Len(p) = k /\ \A i \in 1 .. k : p[i] = its[i]
    BY <1>3, <2>1
  <2>3. Len(q) = k + 1 /\ \A i \in 1 .. (k + 1) : q[i] = its[i]
    BY <1>3, <2>1
  <2> HIDE DEF p, q
  <2>4. (\A i \in 1 .. k : q[i] = p[i]) /\ q[k + 1] = its[k + 1]
    BY <2>1, <2>2, <2>3
  <2>5. Bytes(q) = Bytes(p) \o q[k + 1].bytes
    BY <2>1, <2>2, <2>3, <2>4, MoreBytes, Zenon
  <2> QED BY <2>4, <2>5, Zenon DEF BytesUpTo, p, q
<1>5. BytesUpTo(its, Len(its)) = Bytes(its)
  BY SubSeqFull DEF BytesUpTo
<1> QED BY <1>1, <1>2, <1>4, <1>5

\* They are bytes.
LEMMA BytesTyped ==
  ASSUME NEW its \in Seq(Item)
  PROVE  \A k \in 0 .. Len(its) : BytesUpTo(its, k) \in Seq(MbapByte) /\ Off(its, k) \in Nat
<1> DEFINE S == { k \in 0 .. Len(its) : BytesUpTo(its, k) \in Seq(MbapByte) }
<1>1. Len(its) \in Nat
  BY LenProperties
<1>2. 0 \in S
  <2>1. BytesUpTo(its, 0) = <<>>
    BY BytesStep, Zenon
  <2>2. BytesUpTo(its, 0) \in Seq(MbapByte)
    BY <2>1, EmptySeq
  <2> QED BY <1>1, <2>2
<1>3. ASSUME NEW k \in 0 .. (Len(its) - 1), k \in S PROVE k + 1 \in S
  <2>1. k + 1 \in 1 .. Len(its) /\ k + 1 \in 0 .. Len(its)
    BY <1>1
  <2>2. its[k + 1].bytes \in Seq(MbapByte)
    BY <2>1, ItemBytes
  <2>3. BytesUpTo(its, k + 1) = BytesUpTo(its, k) \o its[k + 1].bytes
    BY BytesStep
  <2>4. BytesUpTo(its, k) \in Seq(MbapByte)
    BY <1>3
  <2>5. BytesUpTo(its, k + 1) \in Seq(MbapByte)
    BY <2>2, <2>3, <2>4, ConcatProperties, Zenon
  <2> QED BY <2>1, <2>5
<1>4. \A k \in 0 .. Len(its) : k \in S
  <2> HIDE DEF S
  <2> QED BY <1>1, <1>2, <1>3, InductUpTo
<1> QED BY <1>4, LenProperties DEF Off

\* s begins with the bytes of t.
Begins(s, t) == Len(t) <= Len(s) /\ \A i \in 1 .. Len(t) : s[i] = t[i]

\* An item's bytes follow those of the items before it.
LEMMA OffStep ==
  ASSUME NEW its \in Seq(Item), NEW k \in 0 .. (Len(its) - 1)
  PROVE  /\ Off(its, k + 1) = Off(its, k) + Len(its[k + 1].bytes)
         /\ Begins(BytesUpTo(its, k + 1), BytesUpTo(its, k))
         /\ \A i \in 1 .. Len(its[k + 1].bytes) :
              BytesUpTo(its, k + 1)[Off(its, k) + i] = its[k + 1].bytes[i]
<1> DEFINE s == BytesUpTo(its, k)
           t == its[k + 1].bytes
           u == BytesUpTo(its, k + 1)
<1>1. Len(its) \in Nat /\ k \in 0 .. Len(its) /\ k + 1 \in 1 .. Len(its)
  BY LenProperties
<1>2. s \in Seq(MbapByte) /\ t \in Seq(MbapByte) /\ Len(s) \in Nat /\ Len(t) \in Nat
  BY <1>1, BytesTyped, ItemBytes, LenProperties
<1>3. u = s \o t
  BY BytesStep
<1> HIDE DEF s, t, u
<1>4. /\ Len(u) = Len(s) + Len(t)
      /\ \A i \in 1 .. Len(s) : u[i] = s[i]
      /\ \A i \in 1 .. Len(t) : u[Len(s) + i] = t[i]
  BY <1>2, <1>3, Joined
<1> QED BY <1>2, <1>4 DEF s, t, u, Off, Begins

\* The whole stream begins with the bytes of its first items.
LEMMA StreamBegins ==
  ASSUME NEW its \in Seq(Item), NEW k \in 0 .. Len(its)
  PROVE  Off(its, k) <= Len(Bytes(its)) /\ Begins(Bytes(its), BytesUpTo(its, k))
<1> DEFINE S == { m \in 0 .. Len(its) : k <= m => Begins(BytesUpTo(its, m), BytesUpTo(its, k)) }
<1>1. Len(its) \in Nat /\ k \in Nat
  BY LenProperties
<1>2. \A m \in 0 .. Len(its) : Len(BytesUpTo(its, m)) \in Nat
  BY BytesTyped DEF Off
<1>3. Begins(BytesUpTo(its, k), BytesUpTo(its, k))
  BY <1>2 DEF Begins
<1>4. 0 \in S
  <2>1. CASE k = 0
    BY <1>1, <1>3, <2>1
  <2>2. CASE k # 0
    BY <1>1, <2>2
  <2> QED BY <2>1, <2>2
<1>5. ASSUME NEW m \in 0 .. (Len(its) - 1), m \in S PROVE m + 1 \in S
  <2>0. m + 1 \in 0 .. Len(its) /\ m \in 0 .. Len(its)
    BY <1>1
  <2>1. CASE k <= m
    <3> DEFINE r == BytesUpTo(its, k)
               s == BytesUpTo(its, m)
               t == BytesUpTo(its, m + 1)
    <3>1. Begins(t, s)
      BY OffStep
    <3>2. Begins(s, r)
      BY <1>5, <2>1
    <3>3. Len(r) \in Nat /\ Len(s) \in Nat /\ Len(t) \in Nat
      BY <1>2, <2>0
    <3> HIDE DEF r, s, t
    <3>4. Begins(t, r)
      BY <3>1, <3>2, <3>3 DEF Begins
    <3> QED BY <2>0, <3>4 DEF r, t
  <2>2. CASE k = m + 1
    BY <1>3, <2>0, <2>2
  <2>3. CASE k > m + 1
    BY <1>1, <2>0, <2>3
  <2> QED BY <1>1, <2>1, <2>2, <2>3
<1>6. \A m \in 0 .. Len(its) : m \in S
  <2> HIDE DEF S
  <2> QED BY <1>1, <1>4, <1>5, InductUpTo
<1>7. Begins(BytesUpTo(its, Len(its)), BytesUpTo(its, k))
  BY <1>1, <1>6
<1>8. BytesUpTo(its, Len(its)) = Bytes(its)
  BY BytesStep
<1> QED BY <1>7, <1>8 DEF Begins, Off

(***************************************************************************)
(* What the proofs use of a stream: where each item's bytes are in it.     *)
(***************************************************************************)
LEMMA StreamFacts ==
  ASSUME NEW its \in Seq(Item)
  PROVE  /\ Len(its) \in Nat
         /\ Bytes(its) \in Seq(MbapByte) /\ Len(Bytes(its)) \in Nat
         /\ Off(its, 0) = 0 /\ Off(its, Len(its)) = Len(Bytes(its))
         /\ \A k \in 0 .. Len(its) :
              /\ Off(its, k) \in Nat /\ Off(its, k) <= Len(Bytes(its))
              /\ BytesUpTo(its, k) = SubSeq(Bytes(its), 1, Off(its, k))
<1> DEFINE b == Bytes(its)
<1>1. Len(its) \in Nat
  BY LenProperties
<1>2. b = BytesUpTo(its, Len(its)) /\ BytesUpTo(its, 0) = <<>>
  BY BytesStep
<1>3. b \in Seq(MbapByte) /\ Len(b) \in Nat
  <2>1. Len(its) \in 0 .. Len(its)
    BY <1>1
  <2>2. BytesUpTo(its, Len(its)) \in Seq(MbapByte)
    BY <2>1, BytesTyped
  <2> QED BY <1>2, <2>2, LenProperties
<1>4. Off(its, 0) = 0 /\ Off(its, Len(its)) = Len(b)
  BY <1>2 DEF Off
<1>5. ASSUME NEW k \in 0 .. Len(its)
      PROVE  /\ Off(its, k) \in Nat /\ Off(its, k) <= Len(b)
             /\ BytesUpTo(its, k) = SubSeq(b, 1, Off(its, k))
  <2> DEFINE p == BytesUpTo(its, k)
             n == Off(its, k)
  <2>1. p \in Seq(MbapByte) /\ n \in Nat /\ n = Len(p)
    BY BytesTyped DEF Off
  <2>2. n <= Len(b) /\ Begins(b, p)
    BY StreamBegins
  <2> HIDE DEF p, n, b
  <2>3. \A i \in 1 .. n : b[i] \in MbapByte
    BY <1>3, <2>1, <2>2, ElementOfSeq
  <2>4. /\ SubSeq(b, 1, n) \in Seq(MbapByte)
        /\ Len(SubSeq(b, 1, n)) = IF 1 <= n THEN n - 1 + 1 ELSE 0
        /\ \A i \in 1 .. n - 1 + 1 : SubSeq(b, 1, n)[i] = b[1 + i - 1]
    <3>1. 1 \in Int /\ n \in Int
      BY <2>1
    <3> QED BY <2>3, <3>1, SubSeqProperties
  <2>5. Len(SubSeq(b, 1, n)) = n
    BY <2>1, <2>4
  <2>6. ASSUME NEW i \in 1 .. n PROVE SubSeq(b, 1, n)[i] = p[i]
    <3>1. i \in 1 .. n - 1 + 1 /\ 1 + i - 1 = i
      BY <2>1
    <3> QED BY <2>1, <2>2, <2>4, <3>1 DEF Begins
  <2>7. p = SubSeq(b, 1, n)
    BY <2>1, <2>4, <2>5, <2>6, SeqEqual
  <2> QED BY <2>1, <2>2, <2>7 DEF p, n
<1> QED BY <1>1, <1>3, <1>4, <1>5

\* The bytes of the next item.
LEMMA NextItem ==
  ASSUME NEW its \in Seq(Item), NEW k \in 0 .. (Len(its) - 1)
  PROVE  /\ its[k + 1] \in Item /\ its[k + 1].bytes \in Seq(MbapByte)
         /\ Len(its[k + 1].bytes) \in Nat
         /\ Off(its, k + 1) = Off(its, k) + Len(its[k + 1].bytes)
         /\ Off(its, k + 1) <= Len(Bytes(its))
         /\ \A i \in 1 .. Len(its[k + 1].bytes) :
              Bytes(its)[Off(its, k) + i] = its[k + 1].bytes[i]
<1>1. Len(its) \in Nat /\ k + 1 \in 0 .. Len(its) /\ k + 1 \in 1 .. Len(its) /\ k \in 0 .. Len(its)
  BY LenProperties
<1> DEFINE m == k + 1
           n == Len(its[m].bytes)
           o == Off(its, k)
<1>2. /\ its[m] \in Item /\ its[m].bytes \in Seq(MbapByte) /\ n \in Nat
      /\ o \in Nat
  BY <1>1, ItemBytes, BytesTyped
<1>3. /\ Off(its, m) = o + n
      /\ \A i \in 1 .. n : BytesUpTo(its, m)[o + i] = its[m].bytes[i]
  BY OffStep
<1>4. Off(its, m) <= Len(Bytes(its)) /\ Begins(Bytes(its), BytesUpTo(its, m))
  BY <1>1, StreamBegins
<1> HIDE DEF m, n, o
<1>5. ASSUME NEW i \in 1 .. n PROVE Bytes(its)[o + i] = its[m].bytes[i]
  <2>1. o + i \in 1 .. Len(BytesUpTo(its, m))
    BY <1>2, <1>3 DEF Off
  <2>2. Bytes(its)[o + i] = BytesUpTo(its, m)[o + i]
    BY <1>4, <2>1 DEF Begins
  <2> QED BY <1>3, <2>2
<1> QED BY <1>2, <1>3, <1>4, <1>5 DEF m, n, o

-----------------------------------------------------------------------------
\* Bytes and words as numbers.
LEMMA ByteRange == \A x : x \in MbapByte <=> x \in Nat /\ x < 256
<1> DEFINE k == 255
<1>1. k \in Nat /\ MbapByte = 0 .. k /\ k + 1 = 256
  BY DEF MbapByte
<1> HIDE DEF k
<1>2. \A x : x \in 0 .. k <=> x \in Nat /\ x < k + 1
  BY <1>1
<1> QED BY <1>1, <1>2

\* The same for words.
LEMMA WordRange == \A x : x \in MbapWord <=> x \in Nat /\ x < 65536
<1> DEFINE k == 65535
<1>1. k \in Nat /\ MbapWord = 0 .. k /\ k + 1 = 65536
  BY DEF MbapWord
<1> HIDE DEF k
<1>2. \A x : x \in 0 .. k <=> x \in Nat /\ x < k + 1
  BY <1>1
<1> QED BY <1>1, <1>2

\* A word of bytes, and its bytes again.
LEMMA WordParts ==
  ASSUME NEW x \in MbapByte, NEW y \in MbapByte
  PROVE  /\ 256 * x + y \in MbapWord
         /\ (256 * x + y) \div 256 = x /\ (256 * x + y) % 256 = y
<1>1. x \in Nat /\ x < 256 /\ y \in Nat /\ y < 256
  BY ByteRange
<1>2. 256 * x + y \in Nat /\ 256 * x + y < 65536
  BY <1>1
<1>3. (256 * x + y) \div 256 = x
  BY <1>1
<1>4. (256 * x + y) % 256 = y
  BY <1>1
<1> QED BY <1>2, <1>3, <1>4, WordRange

\* The bytes of a word.
LEMMA WordBytes ==
  ASSUME NEW w \in MbapWord
  PROVE  w \div 256 \in MbapByte /\ w % 256 \in MbapByte
<1>1. w \in Nat /\ w < 65536
  BY WordRange
<1>2. w \div 256 \in Nat /\ w \div 256 < 256
  BY <1>1
<1>3. w % 256 \in Nat /\ w % 256 < 256
  BY <1>1
<1> QED BY <1>2, <1>3, ByteRange

\* A length is cut to a word, and a word is not cut.
LEMMA CutToWord ==
  ASSUME NEW n \in Nat
  PROVE  n % 65536 \in MbapWord /\ (n < 65536 => n % 65536 = n)
<1>1. n % 65536 \in Nat /\ n % 65536 < 65536
  OBVIOUS
<1>2. n < 65536 => n % 65536 = n
  OBVIOUS
<1> QED BY <1>1, <1>2, WordRange

\* Seven bytes.
LEMMA SevenBytes ==
  ASSUME NEW S, NEW a \in S, NEW b \in S, NEW c \in S, NEW d \in S, NEW e \in S,
         NEW f \in S, NEW g \in S
  PROVE  <<a, b, c, d, e, f, g>> \in Seq(S) /\ Len(<<a, b, c, d, e, f, g>>) = 7
  OBVIOUS

\* The header of a frame is seven of them.
LEMMA HeaderShape ==
  ASSUME NEW t \in MbapWord, NEW p \in MbapWord, NEW l \in MbapWord, NEW u \in MbapByte
  PROVE  Header(t, p, l, u) \in Seq(MbapByte) /\ Len(Header(t, p, l, u)) = 7
<1>1. /\ t \div 256 \in MbapByte /\ t % 256 \in MbapByte
      /\ p \div 256 \in MbapByte /\ p % 256 \in MbapByte
      /\ l \div 256 \in MbapByte /\ l % 256 \in MbapByte
  BY WordBytes
<1> DEFINE t1 == t \div 256
           t2 == t % 256
           p1 == p \div 256
           p2 == p % 256
           l1 == l \div 256
           l2 == l % 256
<1>2. Header(t, p, l, u) = <<t1, t2, p1, p2, l1, l2, u>>
  BY DEF Header
<1>3. /\ t1 \in MbapByte /\ t2 \in MbapByte /\ p1 \in MbapByte /\ p2 \in MbapByte
      /\ l1 \in MbapByte /\ l2 \in MbapByte
  BY <1>1
<1> HIDE DEF t1, t2, p1, p2, l1, l2
<1> QED BY <1>2, <1>3, SevenBytes

\* encode makes bytes.
LEMMA EncodeTyped ==
  ASSUME NEW f \in MbapFrame
  PROVE  encode(f) \in Seq(MbapByte)
<1> DEFINE n == Len(f.pdu) + 1
           l == n % 65536
           h == Header(f.transaction_id, f.protocol_id, l, f.unit_id)
<1>1. /\ f.transaction_id \in MbapWord /\ f.protocol_id \in MbapWord
      /\ f.unit_id \in MbapByte /\ f.pdu \in Seq(MbapByte)
  BY DEF MbapFrame
<1>2. n \in Nat
  BY <1>1, LenProperties
<1>3. encode(f) = h \o f.pdu
  BY DEF encode
<1> HIDE DEF n
<1>4. l \in MbapWord
  BY <1>2, CutToWord
<1> HIDE DEF l
<1>5. h \in Seq(MbapByte)
  BY <1>1, <1>4, HeaderShape
<1> HIDE DEF h
<1> QED BY <1>1, <1>3, <1>5, ConcatProperties

-----------------------------------------------------------------------------
\* The words of a header that is there.
LEMMA HeaderWords ==
  ASSUME NEW b \in Seq(MbapByte), Len(b) >= MBAP_HEADER_LEN
  PROVE  /\ Len(b) \in Nat /\ Len(b) >= 7 /\ \A i \in 1 .. 7 : b[i] \in MbapByte
         /\ Word(b, 1) \in MbapWord /\ Word(b, 3) \in MbapWord /\ Word(b, 5) \in MbapWord
         /\ Word(b, 1) \div 256 = b[1] /\ Word(b, 1) % 256 = b[2]
         /\ Word(b, 3) \div 256 = b[3] /\ Word(b, 3) % 256 = b[4]
         /\ Word(b, 5) \div 256 = b[5] /\ Word(b, 5) % 256 = b[6]
<1>1. Len(b) \in Nat /\ Len(b) >= 7
  BY LenProperties DEF MBAP_HEADER_LEN
<1>2. \A i \in 1 .. 7 : b[i] \in MbapByte
  BY <1>1, ElementOfSeq
<1>3. /\ b[1] \in MbapByte /\ b[2] \in MbapByte /\ b[3] \in MbapByte
      /\ b[4] \in MbapByte /\ b[5] \in MbapByte /\ b[6] \in MbapByte
  BY <1>2
<1>4. /\ Word(b, 1) = 256 * b[1] + b[2] /\ Word(b, 3) = 256 * b[3] + b[4]
      /\ Word(b, 5) = 256 * b[5] + b[6]
  BY DEF Word
<1>5. Word(b, 1) \in MbapWord /\ Word(b, 1) \div 256 = b[1] /\ Word(b, 1) % 256 = b[2]
  BY <1>3, <1>4, WordParts
<1>6. Word(b, 3) \in MbapWord /\ Word(b, 3) \div 256 = b[3] /\ Word(b, 3) % 256 = b[4]
  BY <1>3, <1>4, WordParts
<1>7. Word(b, 5) \in MbapWord /\ Word(b, 5) \div 256 = b[5] /\ Word(b, 5) % 256 = b[6]
  BY <1>3, <1>4, WordParts
<1> QED BY <1>1, <1>2, <1>5, <1>6, <1>7

(***************************************************************************)
(* What decode makes of the bytes b: it waits for a header, refuses a bad  *)
(* one, waits for the bytes a good one announces, and then takes exactly   *)
(* those.                                                                  *)
(***************************************************************************)
Announces(b) == Len(b) >= MBAP_HEADER_LEN /\ Word(b, 3) = 0 /\ Word(b, 5) \in Lengths

\* When decode waits, and when it refuses.
LEMMA DecodeFails ==
  ASSUME NEW b \in Seq(MbapByte)
  PROVE  /\ Len(b) < MBAP_HEADER_LEN =>
              decode(b).frame = <<>> /\ decode(b).error = "NeedMoreData"
         /\ BadHeader(b) =>
              decode(b).frame = <<>> /\ decode(b).error # "NeedMoreData"
         /\ Announces(b) /\ Len(b) < 6 + Word(b, 5) =>
              decode(b).frame = <<>> /\ decode(b).error = "NeedMoreData"
<1>0. Len(b) \in Nat /\ MBAP_HEADER_LEN \in Nat
  BY LenProperties DEF MBAP_HEADER_LEN
<1>1. CASE Len(b) < MBAP_HEADER_LEN
  <2>1. decode(b) = Failed("NeedMoreData")
    BY <1>1, Zenon DEF decode
  <2>2. ~ (Len(b) >= MBAP_HEADER_LEN)
    BY <1>0, <1>1
  <2> QED BY <2>1, <2>2 DEF Failed, BadHeader, Announces
<1>2. CASE ~ (Len(b) < MBAP_HEADER_LEN)
  <2> DEFINE w == Word(b, 5)
             n == 1 + MAX_PDU
  <2>1. Len(b) >= MBAP_HEADER_LEN
    BY <1>0, <1>2
  <2>2. w \in Nat /\ n \in Nat /\ Lengths = 2 .. n
    BY <2>1, HeaderWords, WordRange DEF Lengths, MAX_PDU
  <2>3. decode(b) = IF Word(b, 3) # 0 THEN Failed("BadProtocolId")
                    ELSE IF w < 2 THEN Failed("LengthTooSmall")
                    ELSE IF w > n THEN Failed("LengthTooLarge")
                    ELSE IF Len(b) < Total(w) THEN Failed("NeedMoreData")
                    ELSE Decoded([transaction_id |-> Word(b, 1), protocol_id |-> Word(b, 3),
                                  unit_id |-> b[7],
                                  pdu |-> SubSeq(b, MBAP_HEADER_LEN + 1, Total(w))],
                                 Total(w))
    BY <1>2, Zenon DEF decode
  <2> HIDE DEF w, n
  <2>4. w \in Lengths <=> ~ (w < 2) /\ ~ (w > n)
    BY <2>2
  <2>5. ASSUME BadHeader(b)
        PROVE  decode(b).frame = <<>> /\ decode(b).error # "NeedMoreData"
    <3>1. Word(b, 3) # 0 \/ w < 2 \/ w > n
      BY <2>4, <2>5 DEF BadHeader, w
    <3>2. decode(b) \in { Failed("BadProtocolId"), Failed("LengthTooSmall"),
                          Failed("LengthTooLarge") }
      <4> HIDE DEF Failed
      <4> QED BY <2>3, <3>1, Zenon
    <3> QED BY <3>2 DEF Failed
  <2>6. ASSUME Announces(b), Len(b) < 6 + w
        PROVE  decode(b).frame = <<>> /\ decode(b).error = "NeedMoreData"
    <3>1. Word(b, 3) = 0 /\ ~ (w < 2) /\ ~ (w > n) /\ Len(b) < Total(w)
      BY <2>4, <2>6 DEF Announces, Total, w
    <3>2. decode(b) = Failed("NeedMoreData")
      BY <2>3, <3>1, Zenon
    <3> QED BY <3>2 DEF Failed
  <2> QED BY <1>2, <2>5, <2>6 DEF w
<1> QED BY <1>1, <1>2

\* The bytes m to n of b.
LEMMA Slice ==
  ASSUME NEW S, NEW b \in Seq(S), NEW k \in 0 .. Len(b), NEW n \in 0 .. (Len(b) - k)
  PROVE  /\ SubSeq(b, k + 1, k + n) \in Seq(S) /\ Len(SubSeq(b, k + 1, k + n)) = n
         /\ \A i \in 1 .. n : SubSeq(b, k + 1, k + n)[i] = b[k + i]
<1>1. Len(b) \in Nat /\ k \in Nat /\ n \in Nat /\ k + n <= Len(b)
  BY LenProperties
<1> DEFINE x == k + 1
           y == k + n
<1>2. x \in Int /\ y \in Int /\ y - x + 1 = n /\ (x <= y <=> n # 0)
  BY <1>1
<1>3. \A i \in x .. y : b[i] \in S
  BY <1>1, ElementOfSeq
<1>4. \A i \in 1 .. n : x + i - 1 = k + i
  BY <1>1
<1> HIDE DEF x, y
<1>5. /\ SubSeq(b, x, y) \in Seq(S)
      /\ Len(SubSeq(b, x, y)) = IF x <= y THEN y - x + 1 ELSE 0
      /\ \A i \in 1 .. y - x + 1 : SubSeq(b, x, y)[i] = b[x + i - 1]
  BY <1>2, <1>3, SubSeqProperties
<1>6. Len(SubSeq(b, x, y)) = n
  BY <1>1, <1>2, <1>5
<1>7. \A i \in 1 .. n : SubSeq(b, x, y)[i] = b[k + i]
  BY <1>2, <1>4, <1>5
<1> QED BY <1>5, <1>6, <1>7 DEF x, y

\* The seven bytes of a header.
LEMMA SevenPlaces ==
  ASSUME NEW a, NEW b, NEW c, NEW d, NEW e, NEW f, NEW g
  PROVE  LET s == <<a, b, c, d, e, f, g>>
         IN  /\ s[1] = a /\ s[2] = b /\ s[3] = c /\ s[4] = d /\ s[5] = e
             /\ s[6] = f /\ s[7] = g
  OBVIOUS

\* The header encode writes for a decoded frame is the one it was decoded from.
LEMMA HeaderAgain ==
  ASSUME NEW b \in Seq(MbapByte), Len(b) >= MBAP_HEADER_LEN
  PROVE  \A i \in 1 .. 7 : Header(Word(b, 1), Word(b, 3), Word(b, 5), b[7])[i] = b[i]
<1>1. /\ Word(b, 1) \div 256 = b[1] /\ Word(b, 1) % 256 = b[2]
      /\ Word(b, 3) \div 256 = b[3] /\ Word(b, 3) % 256 = b[4]
      /\ Word(b, 5) \div 256 = b[5] /\ Word(b, 5) % 256 = b[6]
  BY HeaderWords
<1>2. Header(Word(b, 1), Word(b, 3), Word(b, 5), b[7])
        = <<b[1], b[2], b[3], b[4], b[5], b[6], b[7]>>
  BY <1>1 DEF Header
<1> DEFINE h == <<b[1], b[2], b[3], b[4], b[5], b[6], b[7]>>
<1>3. /\ h[1] = b[1] /\ h[2] = b[2] /\ h[3] = b[3] /\ h[4] = b[4] /\ h[5] = b[5]
      /\ h[6] = b[6] /\ h[7] = b[7]
  BY SevenPlaces
<1> HIDE DEF h
<1>4. \A i \in 1 .. 7 : h[i] = b[i]
  BY <1>3
<1> QED BY <1>2, <1>4 DEF h

\* The numbers of a header that announces a frame.
LEMMA Announced ==
  ASSUME NEW b \in Seq(MbapByte), Announces(b)
  PROVE  /\ Len(b) \in Nat /\ Len(b) >= 7 /\ b[7] \in MbapByte
         /\ Word(b, 1) \in MbapWord /\ Word(b, 3) \in MbapWord /\ Word(b, 5) \in MbapWord
         /\ Word(b, 5) \in Nat /\ Word(b, 5) >= 2 /\ Word(b, 5) < 65536
         /\ ~ (Word(b, 5) > 1 + MAX_PDU)
<1> DEFINE w == Word(b, 5)
           n == 1 + MAX_PDU
<1>0. Len(b) >= MBAP_HEADER_LEN /\ w \in 2 .. n
  BY DEF Announces, Lengths
<1>1. /\ Len(b) \in Nat /\ Len(b) >= 7 /\ b[7] \in MbapByte
      /\ Word(b, 1) \in MbapWord /\ Word(b, 3) \in MbapWord /\ w \in MbapWord
  BY <1>0, HeaderWords
<1>2. n \in Nat
  BY DEF MAX_PDU
<1> HIDE DEF w, n
<1>3. w \in Nat /\ w < 65536
  BY <1>1, WordRange
<1>4. w >= 2 /\ ~ (w > n)
  BY <1>0, <1>2, <1>3
<1> QED BY <1>1, <1>3, <1>4 DEF w, n

\* The frame decode takes out of b.
FrameIn(b) ==
  [transaction_id |-> Word(b, 1), protocol_id |-> Word(b, 3), unit_id |-> b[7],
   pdu |-> SubSeq(b, MBAP_HEADER_LEN + 1, Total(Word(b, 5)))]

\* That frame is one, and its PDU is in b.
LEMMA PduIn ==
  ASSUME NEW b \in Seq(MbapByte), Announces(b), 6 + Word(b, 5) <= Len(b)
  PROVE  /\ FrameIn(b) \in MbapFrame /\ Len(FrameIn(b).pdu) + 1 = Word(b, 5)
         /\ \A i \in 1 .. Len(FrameIn(b).pdu) : FrameIn(b).pdu[i] = b[7 + i]
<1> DEFINE w == Word(b, 5)
           n == w - 1
           q == SubSeq(b, 7 + 1, 7 + n)
<1>1. /\ Len(b) \in Nat /\ Len(b) >= 7 /\ b[7] \in MbapByte
      /\ Word(b, 1) \in MbapWord /\ Word(b, 3) \in MbapWord
      /\ w \in Nat /\ w >= 2
  BY Announced
<1>2. q = SubSeq(b, MBAP_HEADER_LEN + 1, Total(w))
  <2>1. 7 + n = Total(w)
    BY <1>1 DEF Total
  <2> QED BY <2>1 DEF MBAP_HEADER_LEN
<1> HIDE DEF w
<1>3. n \in Nat /\ n + 1 = w /\ 7 \in 0 .. Len(b) /\ n \in 0 .. (Len(b) - 7)
  <2>1. 6 + w <= Len(b)
    BY DEF w
  <2> QED BY <1>1, <2>1
<1> HIDE DEF n
<1>4. q \in Seq(MbapByte) /\ Len(q) = n /\ \A i \in 1 .. n : q[i] = b[7 + i]
  BY <1>3, Slice
<1>5. FrameIn(b) = [transaction_id |-> Word(b, 1), protocol_id |-> Word(b, 3),
                    unit_id |-> b[7], pdu |-> q]
  BY <1>2 DEF FrameIn, w
<1> HIDE DEF q
<1>6. FrameIn(b) \in MbapFrame /\ FrameIn(b).pdu = q
  BY <1>1, <1>4, <1>5 DEF MbapFrame
<1> QED BY <1>3, <1>4, <1>6 DEF w

\* decode takes the frame that is announced, and encode gives its bytes back.
LEMMA DecodeTakes ==
  ASSUME NEW b \in Seq(MbapByte), Announces(b), 6 + Word(b, 5) <= Len(b)
  PROVE  /\ decode(b).frame = <<FrameIn(b)>> /\ decode(b).consumed = 6 + Word(b, 5)
         /\ encode(FrameIn(b)) \in Seq(MbapByte)
         /\ Len(encode(FrameIn(b))) = 6 + Word(b, 5)
         /\ At(encode(FrameIn(b)), b, 0)
<1> DEFINE w == Word(b, 5)
           f == FrameIn(b)
           q == f.pdu
           n == Len(q) + 1
           v == n % 65536
           h == Header(Word(b, 1), Word(b, 3), w, b[7])
<1>0. Len(b) >= MBAP_HEADER_LEN /\ Word(b, 3) = 0
  BY DEF Announces
<1>1. /\ Len(b) \in Nat /\ b[7] \in MbapByte
      /\ Word(b, 1) \in MbapWord /\ Word(b, 3) \in MbapWord /\ w \in MbapWord
      /\ w \in Nat /\ w >= 2 /\ ~ (w > 1 + MAX_PDU)
  BY Announced
<1>2. /\ f \in MbapFrame /\ Len(q) + 1 = w
      /\ \A i \in 1 .. Len(q) : q[i] = b[7 + i]
  BY PduIn
<1>3. q \in Seq(MbapByte) /\ Len(q) \in Nat
  BY <1>2, LenProperties DEF MbapFrame
<1>4. decode(b) = Decoded(f, Total(w))
  <2>1. ~ (Len(b) < MBAP_HEADER_LEN) /\ ~ (w < 2) /\ ~ (Len(b) < Total(w))
    BY <1>0, <1>1 DEF MBAP_HEADER_LEN, Total
  <2> QED BY <1>0, <1>1, <2>1, Zenon DEF decode, FrameIn
<1>5. decode(b).frame = <<f>> /\ decode(b).consumed = 6 + w
  BY <1>4 DEF Decoded, Total
<1>6. encode(f) = h \o q
  <2>1. f.transaction_id = Word(b, 1) /\ f.protocol_id = Word(b, 3) /\ f.unit_id = b[7]
    BY DEF FrameIn
  <2>2. v = w
    <3>1. w < 65536
      BY Announced
    <3>2. n \in Nat /\ n = w
      BY <1>2, <1>3
    <3> HIDE DEF n, w
    <3>3. n % 65536 = n
      BY <3>1, <3>2, CutToWord
    <3> QED BY <3>2, <3>3
  <2>3. encode(f) = Header(f.transaction_id, f.protocol_id, v, f.unit_id) \o q
    BY DEF encode
  <2> HIDE DEF v, f, q, w
  <2>4. Header(f.transaction_id, f.protocol_id, v, f.unit_id) = h
    BY <2>1, <2>2, Zenon
  <2> QED BY <2>3, <2>4
<1>7a. h \in Seq(MbapByte)
  BY <1>1, HeaderShape
<1>7. Len(h) = 7
  BY <1>1, HeaderShape
<1>7b. \A i \in 1 .. 7 : h[i] = b[i]
  BY <1>0, HeaderAgain
<1> HIDE DEF w, q, f, h
<1>8. At(h, b, 0)
  BY <1>7, <1>7b DEF At
<1>9. At(q, b, 7)
  BY <1>2 DEF At
<1>10. h \o q \in Seq(MbapByte) /\ Len(h \o q) = Len(h) + Len(q)
  BY <1>3, <1>7a, Joined, Zenon
<1>11. At(h \o q, b, 0)
  <2>1. 7 = 0 + Len(h) /\ 0 \in Nat
    BY <1>7
  <2> QED BY <1>3, <1>7a, <1>8, <1>9, <2>1, JoinedAt, Zenon
<1>12. Len(h) + Len(q) = 6 + w
  BY <1>1, <1>2, <1>3, <1>7
<1> QED BY <1>5, <1>6, <1>10, <1>11, <1>12 DEF w, f

-----------------------------------------------------------------------------
(***************************************************************************)
(* What the thread finds in buf when it is through with n items: the       *)
(* beginning of the rest of the stream.                                    *)
(***************************************************************************)
Rest(its, n, b) ==
  At(b, Bytes(its), Off(its, n)) /\ Off(its, n) + Len(b) <= Len(Bytes(its))

TailIsLast(its) == \A k \in DOMAIN its : its[k].kind = "tail" => k = Len(its)

\* It agrees with the next item as far as both go.
LEMMA Overlap ==
  ASSUME NEW its \in Seq(Item), NEW n \in 0 .. (Len(its) - 1), NEW b \in Seq(MbapByte),
         Rest(its, n, b)
  PROVE  \A j \in 1 .. Len(b) : j <= Len(its[n + 1].bytes) => b[j] = its[n + 1].bytes[j]
<1> DEFINE i == its[n + 1].bytes
           o == Off(its, n)
           s == Bytes(its)
<1>1. Len(i) \in Nat /\ Len(b) \in Nat
  BY NextItem, LenProperties
<1>2. \A j \in 1 .. Len(i) : s[o + j] = i[j]
  BY NextItem
<1>3. \A j \in 1 .. Len(b) : s[o + j] = b[j]
  BY DEF Rest, At
<1> HIDE DEF i, o, s
<1>4. ASSUME NEW j \in 1 .. Len(b), j <= Len(i) PROVE b[j] = i[j]
  <2>1. j \in 1 .. Len(i)
    BY <1>1, <1>4
  <2> QED BY <1>2, <1>3, <2>1
<1> QED BY <1>4 DEF i

\* The same header.
LEMMA SameHeader ==
  ASSUME NEW b, NEW i, Len(b) \in Nat, Len(i) \in Nat,
         Len(b) >= MBAP_HEADER_LEN, Len(i) >= MBAP_HEADER_LEN,
         \A j \in 1 .. Len(b) : j <= Len(i) => b[j] = i[j]
  PROVE  Word(b, 3) = Word(i, 3) /\ Word(b, 5) = Word(i, 5)
<1>1. /\ 3 \in 1 .. Len(b) /\ 4 \in 1 .. Len(b) /\ 5 \in 1 .. Len(b) /\ 6 \in 1 .. Len(b)
      /\ 3 <= Len(i) /\ 4 <= Len(i) /\ 5 <= Len(i) /\ 6 <= Len(i)
  BY DEF MBAP_HEADER_LEN
<1>2. b[3] = i[3] /\ b[4] = i[4] /\ b[5] = i[5] /\ b[6] = i[6]
  BY <1>1
<1> QED BY <1>2 DEF Word

\* Through with everything, buf is empty.
LEMMA NoRest ==
  ASSUME NEW its \in Seq(Item), NEW b \in Seq(MbapByte), Rest(its, Len(its), b)
  PROVE  decode(b).frame = <<>> /\ decode(b).error = "NeedMoreData"
<1>1. Len(b) \in Nat
  BY LenProperties
<1>2. Len(Bytes(its)) \in Nat /\ Off(its, Len(its)) = Len(Bytes(its))
  BY StreamFacts
<1> DEFINE n == Len(Bytes(its))
<1>3. n + Len(b) <= n
  BY <1>2 DEF Rest
<1> HIDE DEF n
<1>4. n \in Nat
  BY <1>2 DEF n
<1>5. Len(b) < MBAP_HEADER_LEN
  BY <1>1, <1>3, <1>4 DEF MBAP_HEADER_LEN
<1> QED BY <1>5, DecodeFails

\* A frame is next: decode waits for all of it and then takes it.
LEMMA FrameNext ==
  ASSUME NEW its \in Seq(Item), NEW n \in 0 .. (Len(its) - 1), NEW b \in Seq(MbapByte),
         Rest(its, n, b), its[n + 1].kind = "frame"
  PROVE  /\ Len(b) < Len(its[n + 1].bytes) =>
              decode(b).frame = <<>> /\ decode(b).error = "NeedMoreData"
         /\ Len(its[n + 1].bytes) <= Len(b) =>
              /\ decode(b).frame = <<FrameIn(b)>> /\ FrameIn(b) \in MbapFrame
              /\ encode(FrameIn(b)) = its[n + 1].bytes
              /\ decode(b).consumed = Len(its[n + 1].bytes)
<1> DEFINE i == its[n + 1].bytes
           w == Word(i, 5)
<1>1. /\ i \in Seq(MbapByte) /\ Len(i) \in Nat /\ Len(b) \in Nat
      /\ its[n + 1] \in Item
  BY NextItem, LenProperties
<1>2. WholeFrame(i)
  BY <1>1 DEF Item
<1>3. Len(i) > MBAP_HEADER_LEN /\ Word(i, 3) = 0 /\ w \in Lengths /\ Len(i) = 6 + w
  BY <1>2 DEF WholeFrame
<1>4. \A j \in 1 .. Len(b) : j <= Len(i) => b[j] = i[j]
  BY Overlap
<1> HIDE DEF i, w
<1>5. CASE Len(b) < MBAP_HEADER_LEN
  <2>1. decode(b).frame = <<>> /\ decode(b).error = "NeedMoreData"
    BY <1>5, DecodeFails
  <2>2. ~ (Len(i) <= Len(b))
    BY <1>1, <1>3, <1>5 DEF MBAP_HEADER_LEN
  <2> QED BY <2>1, <2>2 DEF i
<1>6. CASE ~ (Len(b) < MBAP_HEADER_LEN)
  <2>1. Len(b) >= MBAP_HEADER_LEN /\ Len(i) >= MBAP_HEADER_LEN
    BY <1>1, <1>3, <1>6 DEF MBAP_HEADER_LEN
  <2>2. Word(b, 3) = 0 /\ Word(b, 5) = w
    BY <1>1, <1>3, <1>4, <2>1, SameHeader DEF w
  <2>3. Announces(b)
    BY <1>3, <2>1, <2>2 DEF Announces
  <2>4. CASE Len(b) < Len(i)
    <3>1. Len(b) < 6 + Word(b, 5)
      BY <1>3, <2>2, <2>4
    <3>2. decode(b).frame = <<>> /\ decode(b).error = "NeedMoreData"
      BY <2>3, <3>1, DecodeFails
    <3>3. ~ (Len(i) <= Len(b))
      BY <1>1, <2>4
    <3> QED BY <3>2, <3>3 DEF i
  <2>5. CASE ~ (Len(b) < Len(i))
    <3> DEFINE f == FrameIn(b)
               e == encode(f)
    <3>1. 6 + Word(b, 5) <= Len(b)
      BY <1>1, <1>3, <2>2, <2>5
    <3>2. /\ decode(b).frame = <<f>> /\ decode(b).consumed = 6 + Word(b, 5)
          /\ e \in Seq(MbapByte) /\ Len(e) = 6 + Word(b, 5) /\ At(e, b, 0)
      BY <2>3, <3>1, DecodeTakes
    <3>3. f \in MbapFrame
      BY <2>3, <3>1, PduIn
    <3> HIDE DEF f, e
    <3>4. Len(e) = Len(i) /\ decode(b).consumed = Len(i)
      BY <1>3, <2>2, <3>2
    <3>5. ASSUME NEW j \in 1 .. Len(i) PROVE e[j] = i[j]
      <4>1. j \in 1 .. Len(e) /\ 0 + j = j
        BY <1>1, <3>4
      <4>2. e[j] = b[j]
        BY <3>2, <4>1 DEF At
      <4>3. j \in 1 .. Len(b) /\ j <= Len(i)
        BY <1>1, <2>5
      <4> QED BY <1>4, <4>2, <4>3
    <3>6. e = i
      BY <1>1, <3>2, <3>4, <3>5, SeqEqual
    <3> QED BY <2>5, <3>2, <3>3, <3>4, <3>6 DEF i, f, e
  <2> QED BY <2>4, <2>5
<1> QED BY <1>5, <1>6

\* A bad header is next: decode waits for all of it and then refuses it.
LEMMA BadNext ==
  ASSUME NEW its \in Seq(Item), NEW n \in 0 .. (Len(its) - 1), NEW b \in Seq(MbapByte),
         Rest(its, n, b), its[n + 1].kind = "bad"
  PROVE  /\ decode(b).frame = <<>>
         /\ decode(b).error = "NeedMoreData" => Len(b) < MBAP_HEADER_LEN
<1> DEFINE i == its[n + 1].bytes
<1>1. /\ i \in Seq(MbapByte) /\ Len(i) \in Nat /\ Len(b) \in Nat
      /\ its[n + 1] \in Item
  BY NextItem, LenProperties
<1>2. BadHeader(i)
  BY <1>1 DEF Item
<1>3. Len(i) >= MBAP_HEADER_LEN /\ (Word(i, 3) # 0 \/ Word(i, 5) \notin Lengths)
  BY <1>2 DEF BadHeader
<1>4. \A j \in 1 .. Len(b) : j <= Len(i) => b[j] = i[j]
  BY Overlap
<1> HIDE DEF i
<1>5. CASE Len(b) < MBAP_HEADER_LEN
  BY <1>5, DecodeFails
<1>6. CASE ~ (Len(b) < MBAP_HEADER_LEN)
  <2>1. Len(b) >= MBAP_HEADER_LEN /\ Len(i) >= MBAP_HEADER_LEN
    BY <1>1, <1>3, <1>6 DEF MBAP_HEADER_LEN
  <2>2. Word(b, 3) = Word(i, 3) /\ Word(b, 5) = Word(i, 5)
    BY <1>1, <1>4, <2>1, SameHeader
  <2>3. BadHeader(b)
    BY <1>3, <2>1, <2>2 DEF BadHeader
  <2> QED BY <2>3, DecodeFails
<1> QED BY <1>5, <1>6

\* The beginning of a frame that ends the stream: decode waits for the rest.
LEMMA TailNext ==
  ASSUME NEW its \in Seq(Item), NEW n \in 0 .. (Len(its) - 1), NEW b \in Seq(MbapByte),
         Rest(its, n, b), its[n + 1].kind = "tail", TailIsLast(its)
  PROVE  decode(b).frame = <<>> /\ decode(b).error = "NeedMoreData"
<1> DEFINE i == its[n + 1].bytes
           o == Off(its, n)
<1>1. /\ i \in Seq(MbapByte) /\ Len(i) \in Nat /\ Len(b) \in Nat
      /\ its[n + 1] \in Item
  BY NextItem, LenProperties
<1>2. CutShort(i)
  BY <1>1 DEF Item
<1>3. \A j \in 1 .. Len(b) : j <= Len(i) => b[j] = i[j]
  BY Overlap
<1>4. Len(b) <= Len(i)
  <2>1. Len(its) \in Nat /\ n + 1 \in DOMAIN its
    BY LenProperties
  <2>2. n + 1 = Len(its)
    BY <2>1 DEF TailIsLast
  <2>3. /\ Off(its, Len(its)) = Len(Bytes(its)) /\ Off(its, n + 1) = o + Len(i)
        /\ n \in 0 .. Len(its)
    BY <2>1, StreamFacts, NextItem
  <2>4. o \in Nat
    BY <2>3, StreamFacts
  <2>5. o + Len(b) <= o + Len(i)
    BY <2>2, <2>3 DEF Rest
  <2> HIDE DEF o
  <2> QED BY <1>1, <2>4, <2>5
<1> HIDE DEF i
<1>5. CASE Len(b) < MBAP_HEADER_LEN
  BY <1>5, DecodeFails
<1>6. CASE ~ (Len(b) < MBAP_HEADER_LEN)
  <2>1. Len(b) >= MBAP_HEADER_LEN /\ Len(i) >= MBAP_HEADER_LEN
    BY <1>1, <1>4, <1>6 DEF MBAP_HEADER_LEN
  <2>2. Word(b, 3) = Word(i, 3) /\ Word(b, 5) = Word(i, 5)
    BY <1>1, <1>3, <2>1, SameHeader
  <2>3. Word(i, 3) = 0 /\ Word(i, 5) \in Lengths /\ Len(i) < 6 + Word(i, 5)
    BY <1>2, <2>1 DEF CutShort
  <2>4. Announces(b)
    BY <2>1, <2>2, <2>3 DEF Announces
  <2>5. Word(b, 5) \in Nat
    BY <2>4, Announced
  <2>6. Len(b) < 6 + Word(b, 5)
    BY <1>1, <1>4, <2>2, <2>3, <2>5
  <2> QED BY <2>4, <2>6, DecodeFails
<1> QED BY <1>5, <1>6

(***************************************************************************)
(* The three ways out of decode, and what each says about the next item.   *)
(***************************************************************************)
Waits(b)   == decode(b).frame = <<>> /\ decode(b).error = "NeedMoreData"
Refuses(b) == decode(b).frame = <<>> /\ decode(b).error # "NeedMoreData"
Takes(b)   == decode(b).frame # <<>>

\* decode waits for, refuses or takes exactly the item that is next.
LEMMA Drained ==
  ASSUME NEW its \in Seq(Item), TailIsLast(its), NEW n \in 0 .. Len(its),
         NEW b \in Seq(MbapByte), Rest(its, n, b)
  PROVE  /\ Waits(b) /\ n + 1 \in 1 .. Len(its) =>
              /\ its[n + 1].kind = "frame" => Len(b) < Len(its[n + 1].bytes)
              /\ its[n + 1].kind = "bad" => Len(b) < MBAP_HEADER_LEN
         /\ Refuses(b) => n + 1 \in 1 .. Len(its) /\ its[n + 1].kind = "bad"
         /\ Takes(b) =>
              /\ n + 1 \in 1 .. Len(its) /\ its[n + 1].kind = "frame"
              /\ decode(b).frame = <<FrameIn(b)>> /\ FrameIn(b) \in MbapFrame
              /\ encode(FrameIn(b)) = its[n + 1].bytes
              /\ decode(b).consumed = Len(its[n + 1].bytes)
              /\ Len(its[n + 1].bytes) <= Len(b)
<1>1. Len(its) \in Nat /\ Len(b) \in Nat
  BY LenProperties
<1>2. CASE n = Len(its)
  <2>1. Waits(b)
    BY <1>2, NoRest DEF Waits
  <2>2. ~ (n + 1 \in 1 .. Len(its))
    BY <1>1, <1>2
  <2> QED BY <2>1, <2>2 DEF Waits, Refuses, Takes
<1>3. CASE n # Len(its)
  <2>1. n \in 0 .. (Len(its) - 1) /\ n + 1 \in 1 .. Len(its)
    BY <1>1, <1>3
  <2> DEFINE it == its[n + 1]
  <2>2. it \in Item /\ Len(it.bytes) \in Nat
    BY <2>1, NextItem
  <2>3. it.kind \in {"frame", "bad", "tail"}
    BY <2>2 DEF Item
  <2>4. CASE it.kind = "frame"
    <3>1. CASE Len(b) < Len(it.bytes)
      BY <2>1, <2>4, <3>1, FrameNext DEF Waits, Refuses, Takes
    <3>2. CASE ~ (Len(b) < Len(it.bytes))
      <4>1. Len(it.bytes) <= Len(b)
        BY <1>1, <2>2, <3>2
      <4>2. /\ decode(b).frame = <<FrameIn(b)>> /\ FrameIn(b) \in MbapFrame
            /\ encode(FrameIn(b)) = it.bytes
            /\ decode(b).consumed = Len(it.bytes)
        BY <2>1, <2>4, <4>1, FrameNext
      <4> QED BY <2>1, <2>4, <4>1, <4>2 DEF Waits, Refuses, Takes
    <3> QED BY <3>1, <3>2
  <2>5. CASE it.kind = "bad"
    BY <2>1, <2>5, BadNext DEF Waits, Refuses, Takes
  <2>6. CASE it.kind = "tail"
    BY <2>1, <2>6, TailNext DEF Waits, Refuses, Takes
  <2> QED BY <2>3, <2>4, <2>5, <2>6
<1> QED BY <1>2, <1>3

-----------------------------------------------------------------------------
(***************************************************************************)
(* The inductive invariant.  While the connection is open, buf is what has *)
(* arrived of the stream after the items the thread is through with; while *)
(* an answer is being sent, buf begins with the frame it answers; and what *)
(* send() has not taken yet is the end of the answers, which is out.       *)
(***************************************************************************)
Assembled ==
  pc # "closed" =>
    /\ At(buf, Stream, Off(items, Through))
    /\ arrived = Off(items, Through) + Len(buf)

Answering ==
  pc = "send" =>
    /\ Len(answered) > 0
    /\ consumed = Len(items[Len(answered)].bytes) /\ consumed <= Len(buf)

Sending ==
  /\ At(wire, replies, 0) /\ Len(wire) <= Len(replies)
  /\ pc \in {"while", "recv", "drain"} => wire = replies
  /\ pc = "send" =>
       /\ Len(wire) + (Len(out) - sent) = Len(replies)
       /\ At(out, replies, Len(wire) - sent)

Inv ==
  /\ TypeOK /\ AnswersTheFramesSent /\ Assembled /\ Answering /\ Sending
  /\ NothingLeftBehind /\ MalformedIsTheBadItem

\* What the assumptions say of the items a master sends.
LEMMA ItemsSent ==
  ASSUME items \in Sent
  PROVE  /\ items \in Seq(Item) /\ TailIsLast(items) /\ DOMAIN items = 1 .. Len(items)
         /\ Len(items) \in Nat /\ Stream \in Seq(MbapByte) /\ Len(Stream) \in Nat
<1>1. items \in Seq(Item) /\ TailIsLast(items)
  BY StreamAssumption DEF TailIsLast
<1>2. Len(items) \in Nat /\ DOMAIN items = 1 .. Len(items)
  BY <1>1, LenProperties
<1> QED BY <1>1, <1>2, StreamFacts DEF Stream

\* How many bytes the first k items have.
LEMMA FirstBytes ==
  ASSUME NEW k
  PROVE  Len(Bytes(First(k))) = Off(items, k)
  BY DEF First, Off, BytesUpTo

\* The connection begins with nothing received and nothing sent.
LEMMA InitInv == Init => Inv
<1> SUFFICES ASSUME Init PROVE Inv
  OBVIOUS
<1>0. /\ items \in Sent /\ arrived = 0 /\ buf = <<>> /\ out = <<>> /\ sent = 0 /\ consumed = 0
      /\ pc = "while" /\ peer = "open" /\ running = TRUE /\ malformed = 0
      /\ answered = <<>> /\ replies = <<>> /\ wire = <<>>
  BY DEF Init
<1>1. /\ items \in Seq(Item) /\ Len(items) \in Nat /\ Len(Stream) \in Nat
      /\ DOMAIN items = 1 .. Len(items)
  BY <1>0, ItemsSent
<1>2. Off(items, 0) = 0
  BY <1>1, StreamFacts
<1>3. TypeOK
  <2>1. <<>> \in Seq(MbapByte) /\ <<>> \in Seq(MbapFrame) /\ Len(<<>>) = 0
    BY EmptySeq
  <2> QED BY <1>0, <1>1, <2>1 DEF TypeOK
<1>4. AnswersTheFramesSent
  BY <1>0, <1>1 DEF AnswersTheFramesSent
<1>5. Assembled
  <2>1. Through = 0
    BY <1>0 DEF Through
  <2> QED BY <1>0, <1>2, <2>1 DEF Assembled, At
<1>6. Answering /\ Sending /\ MalformedIsTheBadItem
  BY <1>0 DEF Answering, Sending, MalformedIsTheBadItem, At
<1>7. NothingLeftBehind
  <2>1. Len(answered) + 1 = 1
    BY <1>0
  <2> SUFFICES ASSUME 1 \in DOMAIN items
               PROVE  /\ items[1].kind = "frame" => 0 < Len(Bytes(First(1)))
                      /\ items[1].kind = "bad" => 0 < Len(Bytes(First(1 - 1))) + MBAP_HEADER_LEN
    BY <1>0, <2>1 DEF NothingLeftBehind
  <2>2. Len(Bytes(First(1))) = Off(items, 1) /\ Len(Bytes(First(1 - 1))) = Off(items, 0)
    BY FirstBytes
  <2>3. 0 \in 0 .. (Len(items) - 1) /\ 0 + 1 = 1
    BY <1>1
  <2>4. /\ items[0 + 1] \in Item /\ Len(items[0 + 1].bytes) \in Nat
        /\ Off(items, 0 + 1) = Off(items, 0) + Len(items[0 + 1].bytes)
    BY <1>1, <2>3, NextItem
  <2>5. items[1].kind = "frame" => Len(items[1].bytes) > MBAP_HEADER_LEN
    BY <2>3, <2>4 DEF Item, WholeFrame
  <2> QED BY <1>2, <2>2, <2>3, <2>4, <2>5 DEF MBAP_HEADER_LEN
<1> QED BY <1>3, <1>4, <1>5, <1>6, <1>7 DEF Inv

\* The invariant says nothing about the peer and the flag beyond their types.
LEMMA WorldInv ==
  ASSUME Inv, UNCHANGED <<items, arrived, buf, pc, malformed, reply, history>>,
         peer' \in {"open", "eof", "gone"}, running' \in BOOLEAN
  PROVE  Inv'
<1>0. /\ items' = items /\ arrived' = arrived /\ buf' = buf /\ pc' = pc /\ malformed' = malformed
      /\ out' = out /\ sent' = sent /\ consumed' = consumed
      /\ answered' = answered /\ replies' = replies /\ wire' = wire
  BY DEF reply, history
<1>1. TypeOK'
  BY <1>0 DEF Inv, TypeOK, Stream
<1>2. AnswersTheFramesSent'
  BY <1>0 DEF Inv, AnswersTheFramesSent
<1>3. Assembled'
  BY <1>0 DEF Inv, Assembled, Through, Stream
<1>4. Answering'
  BY <1>0 DEF Inv, Answering
<1>5. Sending'
  BY <1>0 DEF Inv, Sending
<1>6. NothingLeftBehind'
  BY <1>0 DEF Inv, NothingLeftBehind, First
<1>7. MalformedIsTheBadItem'
  BY <1>0 DEF Inv, MalformedIsTheBadItem
<1> QED BY <1>1, <1>2, <1>3, <1>4, <1>5, <1>6, <1>7 DEF Inv

(***************************************************************************)
(* Once the connection is closed little remains to say, and turning round  *)
(* in the loop moves only the thread.                                      *)
(***************************************************************************)
LEMMA CloseInv ==
  ASSUME Inv, pc # "closed", pc' = "closed",
         UNCHANGED <<arrived, buf, malformed, world, reply, history>>
  PROVE  Inv'
<1>0. /\ items' = items /\ arrived' = arrived /\ buf' = buf /\ malformed' = malformed
      /\ out' = out /\ sent' = sent /\ consumed' = consumed /\ peer' = peer /\ running' = running
      /\ answered' = answered /\ replies' = replies /\ wire' = wire
  BY DEF reply, history, world
<1>1. TypeOK'
  BY <1>0 DEF Inv, TypeOK, Stream
<1>2. AnswersTheFramesSent'
  BY <1>0 DEF Inv, AnswersTheFramesSent
<1>3. Assembled' /\ Answering' /\ NothingLeftBehind'
  BY DEF Assembled, Answering, NothingLeftBehind
<1>5. Sending'
  BY <1>0 DEF Inv, Sending
<1>7. MalformedIsTheBadItem'
  BY <1>0 DEF Inv, MalformedIsTheBadItem
<1> QED BY <1>1, <1>2, <1>3, <1>5, <1>7 DEF Inv

\* Round the loop, or out of it.
LEMMA WhileInv == ASSUME Inv, WhileRunning PROVE Inv'
<1>0. /\ items' = items /\ arrived' = arrived /\ buf' = buf /\ malformed' = malformed
      /\ out' = out /\ sent' = sent /\ consumed' = consumed /\ peer' = peer /\ running' = running
      /\ answered' = answered /\ replies' = replies /\ wire' = wire /\ pc = "while"
  BY DEF WhileRunning, reply, history, world
<1>00. CASE pc' = "closed"
  BY <1>00, <1>0, CloseInv DEF WhileRunning
<1>01. CASE pc' = "recv"
  <2>1. TypeOK'
    BY <1>0, <1>01 DEF Inv, TypeOK, Stream
  <2>2. AnswersTheFramesSent'
    BY <1>0 DEF Inv, AnswersTheFramesSent
  <2>3. Assembled'
    <3>1. Through' = Through
      BY <1>0, <1>01 DEF Through
    <3> QED BY <1>0, <3>1 DEF Inv, Assembled, Stream
  <2>4. Answering'
    BY <1>01 DEF Answering
  <2>5. Sending'
    BY <1>0, <1>01 DEF Inv, Sending
  <2>6. NothingLeftBehind'
    BY <1>0, <1>01 DEF Inv, NothingLeftBehind, First
  <2>7. MalformedIsTheBadItem'
    BY <1>0 DEF Inv, MalformedIsTheBadItem
  <2> QED BY <2>1, <2>2, <2>3, <2>4, <2>5, <2>6, <2>7 DEF Inv
<1> QED BY <1>00, <1>01 DEF WhileRunning

\* buf is the rest of the stream when the thread decodes.
LEMMA AtDrain ==
  ASSUME Inv, pc = "drain"
  PROVE  /\ items \in Seq(Item) /\ TailIsLast(items) /\ DOMAIN items = 1 .. Len(items)
         /\ Len(items) \in Nat /\ Len(answered) \in 0 .. Len(items)
         /\ buf \in Seq(MbapByte) /\ Len(buf) \in Nat
         /\ Rest(items, Len(answered), buf)
         /\ arrived = Off(items, Len(answered)) + Len(buf)
<1>1. /\ items \in Sent /\ buf \in Seq(MbapByte) /\ answered \in Seq(MbapFrame)
      /\ arrived \in 0 .. Len(Stream)
  BY DEF Inv, TypeOK
<1>2. /\ items \in Seq(Item) /\ TailIsLast(items) /\ DOMAIN items = 1 .. Len(items)
      /\ Len(items) \in Nat /\ Len(Stream) \in Nat
  BY <1>1, ItemsSent
<1>3. Len(answered) \in Nat /\ Len(buf) \in Nat
  BY <1>1, LenProperties
<1>4. Len(answered) \in 0 .. Len(items)
  BY <1>2, <1>3 DEF Inv, AnswersTheFramesSent
<1>5. Through = Len(answered)
  BY <1>3 DEF Through
<1>6. At(buf, Stream, Off(items, Len(answered))) /\ arrived = Off(items, Len(answered)) + Len(buf)
  BY <1>5 DEF Inv, Assembled
<1>7. arrived <= Len(Stream)
  BY <1>1, <1>2
<1> QED BY <1>1, <1>2, <1>3, <1>4, <1>6, <1>7 DEF Rest, Stream

\* recv appends the next bytes of the stream to buf.
LEMMA RecvInv == ASSUME Inv, Recv PROVE Inv'
<1>0. /\ items' = items /\ malformed' = malformed /\ pc = "recv" /\ pc' = "drain"
      /\ out' = out /\ sent' = sent /\ consumed' = consumed /\ peer' = peer /\ running' = running
      /\ answered' = answered /\ replies' = replies /\ wire' = wire
  BY DEF Recv, reply, history, world
<1>1. PICK n \in 1 .. ChunkSize :
        /\ arrived + n <= Len(Stream)
        /\ buf' = buf \o SubSeq(Stream, arrived + 1, arrived + n)
        /\ arrived' = arrived + n
  BY DEF Recv
<1>2. /\ items \in Sent /\ buf \in Seq(MbapByte) /\ answered \in Seq(MbapFrame)
      /\ arrived \in 0 .. Len(Stream)
  BY DEF Inv, TypeOK
<1>3. /\ items \in Seq(Item) /\ Len(items) \in Nat
      /\ Stream \in Seq(MbapByte) /\ Len(Stream) \in Nat
  BY <1>2, ItemsSent
<1>4. Len(buf) \in Nat /\ Len(answered) \in 0 .. Len(items)
  BY <1>2, <1>3, LenProperties DEF Inv, AnswersTheFramesSent
<1> DEFINE c == SubSeq(Stream, arrived + 1, arrived + n)
           o == Off(items, Len(answered))
<1>5. o \in Nat
  BY <1>3, <1>4, StreamFacts
<1>6. Through = Len(answered) /\ Through' = Len(answered)
  BY <1>0, <1>2, LenProperties DEF Through
<1>7. At(buf, Stream, o) /\ arrived = o + Len(buf)
  BY <1>0, <1>6 DEF Inv, Assembled
<1>8. c \in Seq(MbapByte) /\ Len(c) = n /\ At(c, Stream, arrived)
  <2>1. arrived \in 0 .. Len(Stream) /\ n \in 0 .. (Len(Stream) - arrived)
    BY <1>1, <1>2, <1>3, StreamAssumption
  <2>2. c \in Seq(MbapByte) /\ Len(c) = n /\ \A i \in 1 .. n : c[i] = Stream[arrived + i]
    BY <1>3, <2>1, Slice
  <2> QED BY <2>2 DEF At
<1>9. n \in Nat /\ arrived \in Nat
  BY <1>1, <1>2, <1>3, StreamAssumption
<1> HIDE DEF c
<1>10. buf \o c \in Seq(MbapByte) /\ Len(buf \o c) = Len(buf) + Len(c)
  BY <1>2, <1>8, Joined
<1>11. buf' = buf \o c
  BY <1>1 DEF c
<1> HIDE DEF o
<1>12. At(buf \o c, Stream, o)
  BY <1>2, <1>5, <1>7, <1>8, JoinedAt
<1>13. TypeOK'
  <2>1. arrived' \in 0 .. Len(Stream') /\ buf' \in Seq(MbapByte)
    BY <1>0, <1>1, <1>3, <1>9, <1>10, <1>11 DEF Stream
  <2> QED BY <1>0, <2>1 DEF Inv, TypeOK
<1>14. AnswersTheFramesSent'
  BY <1>0 DEF Inv, AnswersTheFramesSent
<1>15. Assembled'
  <2>1. arrived' = o + Len(buf \o c)
    BY <1>1, <1>4, <1>5, <1>7, <1>8, <1>9, <1>10
  <2>2. Stream' = Stream /\ Off(items', Through') = o
    BY <1>0, <1>6 DEF Stream, o
  <2> QED BY <1>11, <1>12, <2>1, <2>2 DEF Assembled
<1>16. Answering' /\ NothingLeftBehind'
  BY <1>0 DEF Answering, NothingLeftBehind
<1>17. Sending'
  BY <1>0 DEF Inv, Sending
<1>18. MalformedIsTheBadItem'
  BY <1>0 DEF Inv, MalformedIsTheBadItem
<1> QED BY <1>13, <1>14, <1>15, <1>16, <1>17, <1>18 DEF Inv

\* The thread goes back to wait only when the next item is not complete.
LEMMA DrainNeedsMoreInv == ASSUME Inv, DrainNeedsMore PROVE Inv'
<1>0. /\ items' = items /\ arrived' = arrived /\ buf' = buf /\ malformed' = malformed
      /\ out' = out /\ sent' = sent /\ consumed' = consumed /\ peer' = peer /\ running' = running
      /\ answered' = answered /\ replies' = replies /\ wire' = wire
      /\ pc = "drain" /\ pc' = "while" /\ Waits(buf)
  BY DEF DrainNeedsMore, reply, history, world, Waits
<1>1. TypeOK'
  BY <1>0 DEF Inv, TypeOK, Stream
<1>2. AnswersTheFramesSent'
  BY <1>0 DEF Inv, AnswersTheFramesSent
<1>3. Assembled'
  <2>1. Through' = Through
    BY <1>0 DEF Through
  <2> QED BY <1>0, <2>1 DEF Inv, Assembled, Stream
<1>4. Answering'
  BY <1>0 DEF Answering
<1>5. Sending'
  BY <1>0 DEF Inv, Sending
<1>6. NothingLeftBehind'
  <2> DEFINE n == Len(answered)
  <2>1. /\ items \in Seq(Item) /\ TailIsLast(items) /\ DOMAIN items = 1 .. Len(items)
        /\ Len(items) \in Nat /\ n \in 0 .. Len(items)
        /\ buf \in Seq(MbapByte) /\ Len(buf) \in Nat
        /\ Rest(items, n, buf) /\ arrived = Off(items, n) + Len(buf)
    BY <1>0, AtDrain
  <2>2. Len(Bytes(First(n + 1))) = Off(items, n + 1) /\ Len(Bytes(First(n))) = Off(items, n)
    BY FirstBytes
  <2>3. n \in Nat /\ n + 1 - 1 = n
    BY <2>1
  <2>4. Off(items, n) \in Nat
    BY <2>1, StreamFacts
  <2> SUFFICES ASSUME n + 1 \in 1 .. Len(items)
               PROVE  /\ items[n + 1].kind = "frame" => arrived < Off(items, n + 1)
                      /\ items[n + 1].kind = "bad" => arrived < Off(items, n) + MBAP_HEADER_LEN
    BY <1>0, <2>1, <2>2, <2>3 DEF NothingLeftBehind, First
  <2>5. n \in 0 .. (Len(items) - 1)
    BY <2>1
  <2>6. /\ Len(items[n + 1].bytes) \in Nat
        /\ Off(items, n + 1) = Off(items, n) + Len(items[n + 1].bytes)
    BY <2>1, <2>5, NextItem
  <2>7. /\ items[n + 1].kind = "frame" => Len(buf) < Len(items[n + 1].bytes)
        /\ items[n + 1].kind = "bad" => Len(buf) < MBAP_HEADER_LEN
    BY <1>0, <2>1, Drained
  <2> HIDE DEF n
  <2> QED BY <2>1, <2>4, <2>6, <2>7 DEF MBAP_HEADER_LEN
<1>7. MalformedIsTheBadItem'
  BY <1>0 DEF Inv, MalformedIsTheBadItem
<1> QED BY <1>1, <1>2, <1>3, <1>4, <1>5, <1>6, <1>7 DEF Inv

\* A framing error is a bad item, and the first: the connection ends with it.
LEMMA DrainFramingErrorInv == ASSUME Inv, DrainFramingError PROVE Inv'
<1>0. /\ items' = items /\ arrived' = arrived /\ buf' = buf /\ malformed' = malformed + 1
      /\ out' = out /\ sent' = sent /\ consumed' = consumed /\ peer' = peer /\ running' = running
      /\ answered' = answered /\ replies' = replies /\ wire' = wire
      /\ pc = "drain" /\ pc' = "closed" /\ Refuses(buf)
  BY DEF DrainFramingError, reply, history, world, Refuses
<1>1. malformed = 0
  BY <1>0 DEF Inv, MalformedIsTheBadItem
<1>2. TypeOK'
  BY <1>0, <1>1 DEF Inv, TypeOK, Stream
<1>3. AnswersTheFramesSent'
  BY <1>0 DEF Inv, AnswersTheFramesSent
<1>4. Assembled' /\ Answering' /\ NothingLeftBehind'
  BY <1>0 DEF Assembled, Answering, NothingLeftBehind
<1>5. Sending'
  BY <1>0 DEF Inv, Sending
<1>6. MalformedIsTheBadItem'
  <2>1. /\ items \in Seq(Item) /\ TailIsLast(items) /\ DOMAIN items = 1 .. Len(items)
        /\ Len(answered) \in 0 .. Len(items) /\ buf \in Seq(MbapByte)
        /\ Rest(items, Len(answered), buf)
    BY <1>0, AtDrain
  <2>2. Len(answered) + 1 \in 1 .. Len(items) /\ items[Len(answered) + 1].kind = "bad"
    BY <1>0, <2>1, Drained
  <2> QED BY <1>0, <1>1, <2>1, <2>2 DEF MalformedIsTheBadItem
<1> QED BY <1>2, <1>3, <1>4, <1>5, <1>6 DEF Inv

\* The frame handed to the gateway is the next item, and buf keeps its bytes
\* while the answer is sent.
LEMMA DrainFrameInv == ASSUME Inv, DrainFrame PROVE Inv'
<1>0. /\ items' = items /\ arrived' = arrived /\ buf' = buf /\ malformed' = malformed
      /\ peer' = peer /\ running' = running /\ wire' = wire
      /\ sent' = 0 /\ consumed' = decode(buf).consumed
      /\ pc = "drain" /\ pc' = "send" /\ Takes(buf)
  BY DEF DrainFrame, world, Takes
<1> DEFINE n == Len(answered)
           f == FrameIn(buf)
           i == items[n + 1].bytes
<1>1. /\ items \in Seq(Item) /\ TailIsLast(items) /\ DOMAIN items = 1 .. Len(items)
      /\ Len(items) \in Nat /\ n \in 0 .. Len(items)
      /\ buf \in Seq(MbapByte) /\ Len(buf) \in Nat /\ Rest(items, n, buf)
  BY <1>0, AtDrain
<1>2. /\ n + 1 \in 1 .. Len(items) /\ items[n + 1].kind = "frame"
      /\ decode(buf).frame = <<f>> /\ f \in MbapFrame /\ encode(f) = i
      /\ decode(buf).consumed = Len(i) /\ Len(i) <= Len(buf)
  BY <1>0, <1>1, Drained
<1>3. PICK pdu \in AnswerPdus :
        LET g   == decode(buf).frame[1]
            rsp == [transaction_id |-> g.transaction_id, protocol_id |-> 0,
                    unit_id |-> g.unit_id, pdu |-> pdu]
        IN  /\ out' = encode(rsp)
            /\ replies' = replies \o encode(rsp)
            /\ answered' = Append(answered, g)
  BY DEF DrainFrame
<1> DEFINE rsp == [transaction_id |-> f.transaction_id, protocol_id |-> 0,
                   unit_id |-> f.unit_id, pdu |-> pdu]
           e == encode(rsp)
<1>4. decode(buf).frame[1] = f
  <2> HIDE DEF f
  <2> QED BY <1>2
<1>5. out' = e /\ replies' = replies \o e /\ answered' = Append(answered, f)
  <2> HIDE DEF f
  <2> QED BY <1>3, <1>4
<1>6. rsp \in MbapFrame
  <2>1. pdu \in Seq(MbapByte)
    BY <1>3, StreamAssumption
  <2> HIDE DEF f
  <2>2. f.transaction_id \in MbapWord /\ f.unit_id \in MbapByte
    BY <1>2 DEF MbapFrame
  <2>3. 0 \in MbapWord
    BY WordRange
  <2> QED BY <2>1, <2>2, <2>3 DEF MbapFrame
<1> HIDE DEF rsp
<1>7. e \in Seq(MbapByte) /\ Len(e) \in Nat
  BY <1>6, EncodeTyped, LenProperties
<1> HIDE DEF e, f
<1>8. /\ answered \in Seq(MbapFrame) /\ n \in Nat /\ replies \in Seq(MbapByte)
      /\ Len(replies) \in Nat /\ wire \in Seq(MbapByte)
  BY LenProperties DEF Inv, TypeOK
<1>9. /\ answered' \in Seq(MbapFrame) /\ Len(answered') = n + 1 /\ answered'[n + 1] = f
      /\ \A k \in 1 .. n : answered'[k] = answered[k]
      /\ DOMAIN answered' = 1 .. (n + 1) /\ DOMAIN answered = 1 .. n
  BY <1>2, <1>5, <1>8, AppendProperties, LenProperties
<1>10. /\ replies \o e \in Seq(MbapByte) /\ Len(replies \o e) = Len(replies) + Len(e)
       /\ \A j \in 1 .. Len(replies) : (replies \o e)[j] = replies[j]
       /\ \A j \in 1 .. Len(e) : (replies \o e)[Len(replies) + j] = e[j]
  BY <1>7, <1>8, Joined
<1>11. TypeOK'
  <2>1. items' \in Sent /\ arrived' \in 0 .. Len(Stream')
    BY <1>0 DEF Inv, TypeOK, Stream
  <2>2. consumed' \in Nat
    <3>1. n \in 0 .. (Len(items) - 1)
      BY <1>1, <1>2
    <3> QED BY <1>0, <1>1, <1>2, <3>1, NextItem
  <2>3. sent' \in 0 .. Len(out')
    BY <1>0, <1>5, <1>7
  <2>4. /\ buf' \in Seq(MbapByte) /\ out' \in Seq(MbapByte)
        /\ replies' \in Seq(MbapByte) /\ wire' \in Seq(MbapByte)
    BY <1>0, <1>1, <1>5, <1>7, <1>8, <1>10
  <2>5. /\ pc' \in {"while", "recv", "drain", "send", "closed"}
        /\ peer' \in {"open", "eof", "gone"} /\ running' \in BOOLEAN /\ malformed' \in Nat
    BY <1>0 DEF Inv, TypeOK
  <2> QED BY <1>9, <2>1, <2>2, <2>3, <2>4, <2>5 DEF TypeOK
<1>12. AnswersTheFramesSent'
  <2>1. Len(answered') <= Len(items')
    BY <1>0, <1>1, <1>2, <1>9
  <2>2. ASSUME NEW k \in DOMAIN answered'
        PROVE  items[k].kind = "frame" /\ encode(answered'[k]) = items[k].bytes
    <3>1. CASE k = n + 1
      BY <1>2, <1>9, <3>1
    <3>2. CASE k # n + 1
      <4>1. k \in 1 .. n
        BY <1>8, <1>9, <2>2, <3>2
      <4>2. items[k].kind = "frame" /\ encode(answered[k]) = items[k].bytes
        BY <1>9, <4>1 DEF Inv, AnswersTheFramesSent
      <4> QED BY <1>9, <4>1, <4>2
    <3> QED BY <3>1, <3>2
  <2> QED BY <1>0, <2>1, <2>2 DEF AnswersTheFramesSent
<1>13. Assembled'
  <2>1. Through = n /\ Through' = n
    BY <1>0, <1>8, <1>9 DEF Through
  <2> QED BY <1>0, <2>1 DEF Inv, Assembled, Stream
<1>14. Answering'
  BY <1>0, <1>2, <1>8, <1>9 DEF Answering
<1>15. Sending'
  <2>1. wire = replies
    BY <1>0 DEF Inv, Sending
  <2>2. At(wire', replies', 0) /\ Len(wire') <= Len(replies')
    BY <1>0, <1>5, <1>7, <1>8, <1>10, <2>1 DEF At
  <2>3. /\ Len(wire') + (Len(out') - sent') = Len(replies')
        /\ Len(wire') - sent' = Len(replies)
    BY <1>0, <1>5, <1>7, <1>8, <1>10, <2>1
  <2>4. At(out', replies', Len(wire') - sent')
    BY <1>5, <1>10, <2>3 DEF At
  <2> QED BY <1>0, <2>2, <2>3, <2>4 DEF Sending
<1>16. NothingLeftBehind'
  BY <1>0 DEF NothingLeftBehind
<1>17. MalformedIsTheBadItem'
  BY <1>0 DEF Inv, MalformedIsTheBadItem
<1> QED BY <1>11, <1>12, <1>13, <1>14, <1>15, <1>16, <1>17 DEF Inv

\* send() takes the next bytes of the answer.
LEMMA SendInv == ASSUME Inv, Send PROVE Inv'
<1>0. /\ items' = items /\ arrived' = arrived /\ buf' = buf /\ malformed' = malformed
      /\ peer' = peer /\ running' = running /\ out' = out /\ consumed' = consumed
      /\ answered' = answered /\ replies' = replies /\ pc = "send" /\ pc' = "send"
  BY DEF Send, world
<1>1. PICK w \in 1 .. SendSize :
        /\ sent + w <= Len(out)
        /\ wire' = wire \o SubSeq(out, sent + 1, sent + w)
        /\ sent' = sent + w
  BY DEF Send
<1>2. /\ out \in Seq(MbapByte) /\ sent \in 0 .. Len(out) /\ wire \in Seq(MbapByte)
      /\ replies \in Seq(MbapByte)
  BY DEF Inv, TypeOK
<1>3. /\ Len(out) \in Nat /\ Len(wire) \in Nat /\ Len(replies) \in Nat
      /\ sent \in Nat /\ w \in Nat
  BY <1>1, <1>2, LenProperties, StreamAssumption
<1>a. sent + w <= Len(out)
  BY <1>1
<1> DEFINE c == SubSeq(out, sent + 1, sent + w)
           m == Len(wire) - sent
<1>4. /\ At(wire, replies, 0) /\ Len(wire) + (Len(out) - sent) = Len(replies)
      /\ At(out, replies, m)
  BY <1>0 DEF Inv, Sending
<1>5. c \in Seq(MbapByte) /\ Len(c) = w /\ \A j \in 1 .. w : c[j] = out[sent + j]
  <2>1. w \in 0 .. (Len(out) - sent)
    BY <1>1, <1>3
  <2> QED BY <1>2, <2>1, Slice
<1> HIDE DEF c
<1>6. At(c, replies, Len(wire))
  <2>1. m + sent = Len(wire)
    BY <1>3
  <2>m. m \in Int
    BY <1>3
  <2> HIDE DEF m
  <2>2. ASSUME NEW j \in 1 .. Len(c) PROVE replies[Len(wire) + j] = c[j]
    <3>1. sent + j \in 1 .. Len(out) /\ m + (sent + j) = Len(wire) + j
      <4>1. j \in Nat /\ j >= 1 /\ j <= w
        BY <1>3, <1>5
      <4> QED BY <1>a, <1>3, <2>1, <2>m, <4>1
    <3>2. replies[m + (sent + j)] = out[sent + j]
      BY <1>4, <3>1 DEF At
    <3> QED BY <1>5, <3>1, <3>2
  <2> QED BY <2>2 DEF At
<1>7. wire' = wire \o c /\ sent' = sent + w
  BY <1>1 DEF c
<1>8. wire \o c \in Seq(MbapByte) /\ Len(wire \o c) = Len(wire) + w
  BY <1>2, <1>5, Joined
<1>9. At(wire \o c, replies, 0)
  <2>1. Len(wire) = 0 + Len(wire) /\ 0 \in Nat
    BY <1>3
  <2> QED BY <1>2, <1>4, <1>5, <1>6, <2>1, JoinedAt
<1>10. TypeOK'
  <2>1. sent' \in 0 .. Len(out')
    BY <1>0, <1>a, <1>3, <1>7
  <2>2. wire' \in Seq(MbapByte)
    BY <1>7, <1>8
  <2> QED BY <1>0, <2>1, <2>2 DEF Inv, TypeOK, Stream
<1>11. AnswersTheFramesSent'
  BY <1>0 DEF Inv, AnswersTheFramesSent
<1>12. Assembled'
  BY <1>0 DEF Inv, Assembled, Through, Stream
<1>13. Answering'
  BY <1>0 DEF Inv, Answering
<1>14. Sending'
  <2>0. Len(wire') = Len(wire) + w /\ sent' = sent + w
    BY <1>7, <1>8
  <2>a. Len(wire) + (Len(out) - sent) = Len(replies)
    BY <1>4
  <2>1. Len(wire') + (Len(out) - sent') = Len(replies) /\ Len(wire') - sent' = m
    BY <1>3, <2>0, <2>a
  <2>2. Len(wire') <= Len(replies')
    BY <1>0, <1>a, <1>3, <2>0, <2>a
  <2> HIDE DEF m
  <2> QED BY <1>0, <1>4, <1>7, <1>9, <2>1, <2>2 DEF Sending
<1>15. NothingLeftBehind'
  BY <1>0 DEF NothingLeftBehind
<1>16. MalformedIsTheBadItem'
  BY <1>0 DEF Inv, MalformedIsTheBadItem
<1> QED BY <1>10, <1>11, <1>12, <1>13, <1>14, <1>15, <1>16 DEF Inv

\* The answer is out, and the frame's bytes leave buf.
LEMMA EraseInv == ASSUME Inv, Erase PROVE Inv'
<1>0. /\ items' = items /\ arrived' = arrived /\ malformed' = malformed
      /\ out' = out /\ sent' = sent /\ consumed' = consumed /\ peer' = peer /\ running' = running
      /\ answered' = answered /\ replies' = replies /\ wire' = wire
      /\ pc = "send" /\ pc' = "drain" /\ sent = Len(out)
      /\ buf' = SubSeq(buf, consumed + 1, Len(buf))
  BY DEF Erase, reply, history, world
<1>1. /\ items \in Sent /\ buf \in Seq(MbapByte) /\ answered \in Seq(MbapFrame)
      /\ arrived \in 0 .. Len(Stream) /\ consumed \in Nat
      /\ wire \in Seq(MbapByte) /\ replies \in Seq(MbapByte) /\ out \in Seq(MbapByte)
  BY DEF Inv, TypeOK
<1>2. /\ items \in Seq(Item) /\ Len(items) \in Nat
      /\ Stream \in Seq(MbapByte) /\ Len(Stream) \in Nat
  BY <1>1, ItemsSent
<1> DEFINE n == Len(answered) - 1
           o == Off(items, n)
           m == Len(buf) - consumed
<1>3. Len(answered) > 0 /\ consumed = Len(items[Len(answered)].bytes) /\ consumed <= Len(buf)
  BY <1>0 DEF Inv, Answering
<1>4. /\ Len(answered) \in Nat /\ Len(buf) \in Nat
      /\ Len(wire) \in Nat /\ Len(replies) \in Nat /\ Len(out) \in Nat
  BY <1>1, LenProperties
<1>5. Len(answered) <= Len(items)
  BY DEF Inv, AnswersTheFramesSent
<1>6. n \in 0 .. (Len(items) - 1) /\ n \in 0 .. Len(items) /\ n + 1 = Len(answered)
  BY <1>2, <1>3, <1>4, <1>5
<1>7. Through = n /\ Through' = n + 1
  BY <1>0, <1>6 DEF Through
<1>8. o \in Nat /\ Off(items, n + 1) = o + consumed
  BY <1>2, <1>3, <1>6, StreamFacts, NextItem
<1>9. At(buf, Stream, o) /\ arrived = o + Len(buf)
  BY <1>0, <1>7 DEF Inv, Assembled
<1>10. consumed + m = Len(buf) /\ m \in 0 .. (Len(buf) - consumed) /\ consumed \in 0 .. Len(buf)
  BY <1>1, <1>3, <1>4
<1> HIDE DEF n, o, m
<1>11. /\ buf' \in Seq(MbapByte) /\ Len(buf') = m
       /\ \A j \in 1 .. m : buf'[j] = buf[consumed + j]
  <2>1. buf' = SubSeq(buf, consumed + 1, consumed + m)
    BY <1>0, <1>10
  <2> QED BY <1>1, <1>10, <2>1, Slice
<1>12. At(buf', Stream, o + consumed)
  <2>1. ASSUME NEW j \in 1 .. Len(buf') PROVE Stream[(o + consumed) + j] = buf'[j]
    <3>1. consumed + j \in 1 .. Len(buf) /\ (o + consumed) + j = o + (consumed + j)
      BY <1>1, <1>4, <1>8, <1>10, <1>11
    <3>2. Stream[o + (consumed + j)] = buf[consumed + j]
      BY <1>9, <3>1 DEF At
    <3> QED BY <1>11, <3>1, <3>2
  <2> QED BY <2>1 DEF At
<1>13. TypeOK'
  BY <1>0, <1>11 DEF Inv, TypeOK, Stream
<1>14. AnswersTheFramesSent'
  BY <1>0 DEF Inv, AnswersTheFramesSent
<1>15. Assembled'
  <2>a. m \in Int
    BY <1>1, <1>4 DEF m
  <2>0. arrived' = o + Len(buf) /\ Len(buf') = m /\ consumed + m = Len(buf)
    BY <1>0, <1>9, <1>10, <1>11
  <2>1. arrived' = (o + consumed) + Len(buf')
    <3>1. o \in Int /\ consumed \in Int
      BY <1>1, <1>8
    <3> QED BY <2>0, <2>a, <3>1
  <2>2. Stream' = Stream /\ Off(items', Through') = o + consumed
    BY <1>0, <1>7, <1>8 DEF Stream
  <2> QED BY <1>12, <2>1, <2>2 DEF Assembled
<1>16. Answering' /\ NothingLeftBehind'
  BY <1>0 DEF Answering, NothingLeftBehind
<1>17. Sending'
  <2>1. /\ At(wire, replies, 0) /\ Len(wire) <= Len(replies)
        /\ Len(wire) + (Len(out) - sent) = Len(replies)
    BY <1>0 DEF Inv, Sending
  <2>2. Len(wire) = Len(replies)
    BY <1>0, <1>4, <2>1
  <2>3. \A j \in 1 .. Len(wire) : wire[j] = replies[j]
    BY <1>4, <2>1 DEF At
  <2>4. wire = replies
    BY <1>1, <2>2, <2>3, SeqEqual
  <2> QED BY <1>0, <2>1, <2>4 DEF Sending
<1>18. MalformedIsTheBadItem'
  BY <1>0 DEF Inv, MalformedIsTheBadItem
<1> QED BY <1>13, <1>14, <1>15, <1>16, <1>17, <1>18 DEF Inv

\* Every step keeps the invariant.
LEMMA NextInv == Inv /\ [Next]_vars => Inv'
<1> SUFFICES ASSUME Inv, [Next]_vars PROVE Inv'
  OBVIOUS
<1>1. CASE WhileRunning
  BY <1>1, WhileInv
<1>2. CASE Recv
  BY <1>2, RecvInv
<1>3. CASE RecvEnds
  BY <1>3, CloseInv DEF RecvEnds
<1>4. CASE DrainNeedsMore
  BY <1>4, DrainNeedsMoreInv
<1>5. CASE DrainFramingError
  BY <1>5, DrainFramingErrorInv
<1>6. CASE DrainFrame
  BY <1>6, DrainFrameInv
<1>7. CASE Send
  BY <1>7, SendInv
<1>8. CASE SendFails
  BY <1>8, CloseInv DEF SendFails
<1>9. CASE Erase
  BY <1>9, EraseInv
<1>10. peer \in {"open", "eof", "gone"} /\ running \in BOOLEAN
  BY DEF Inv, TypeOK
<1>11. CASE PeerFinishes
  BY <1>10, <1>11, WorldInv DEF PeerFinishes
<1>12. CASE PeerGone
  BY <1>10, <1>12, WorldInv DEF PeerGone
<1>13. CASE on_signal
  BY <1>10, <1>13, WorldInv DEF on_signal
<1>14. CASE UNCHANGED vars
  BY <1>10, <1>14, WorldInv DEF vars, reply, history
<1> QED BY <1>1, <1>2, <1>3, <1>4, <1>5, <1>6, <1>7, <1>8, <1>9, <1>11, <1>12, <1>13, <1>14
        DEF Next, ServeStep

-----------------------------------------------------------------------------
\* The state of a connection keeps its type, whatever the masters send.
THEOREM TypeCorrect == Spec => []TypeOK
<1>1. Inv => TypeOK
  BY DEF Inv
<1> QED BY <1>1, InitInv, NextInv, PTL DEF Spec

(***************************************************************************)
(* However TCP cuts the stream, serve_client hands the gateway the frames  *)
(* the master sent, in order, each once, and none after a bad header.      *)
(***************************************************************************)
THEOREM FramesAnswered == Spec => []AnswersTheFramesSent
<1>1. Inv => AnswersTheFramesSent
  BY DEF Inv
<1> QED BY <1>1, InitInv, NextInv, PTL DEF Spec

(***************************************************************************)
(* serve_client does not go back to recv with a complete frame or a        *)
(* complete bad header in buf.                                             *)
(***************************************************************************)
THEOREM NothingStaysBehind == Spec => []NothingLeftBehind
<1>1. Inv => NothingLeftBehind
  BY DEF Inv
<1> QED BY <1>1, InitInv, NextInv, PTL DEF Spec

(***************************************************************************)
(* A connection counts a framing error only for a bad item, once, with all *)
(* the frames before it answered, and is closed.                           *)
(***************************************************************************)
THEOREM MalformedCounted == Spec => []MalformedIsTheBadItem
<1>1. Inv => MalformedIsTheBadItem
  BY DEF Inv
<1> QED BY <1>1, InitInv, NextInv, PTL DEF Spec

\* What s begins with.
LEMMA Beginning ==
  ASSUME NEW S, NEW s \in Seq(S), NEW t \in Seq(S), At(t, s, 0), Len(t) <= Len(s)
  PROVE  t = SubSeq(s, 1, Len(t))
<1> DEFINE n == Len(t)
           u == SubSeq(s, 0 + 1, 0 + n)
<1>1. n \in Nat /\ Len(s) \in Nat
  BY LenProperties
<1>2. 0 \in 0 .. Len(s) /\ n \in 0 .. (Len(s) - 0) /\ 0 + n = n /\ 0 + 1 = 1
  BY <1>1
<1> HIDE DEF n
<1>3. u \in Seq(S) /\ Len(u) = n /\ \A i \in 1 .. n : u[i] = s[0 + i]
  BY <1>2, Slice
<1>4. u = SubSeq(s, 1, n)
  BY <1>2
<1> HIDE DEF u
<1>5. \A i \in 1 .. n : t[i] = u[i]
  BY <1>3 DEF At, n
<1>6. t = u
  BY <1>3, <1>5, SeqEqual DEF n
<1> QED BY <1>4, <1>6 DEF n

(***************************************************************************)
(* The bytes send() has taken are a beginning of the answers, and all of   *)
(* them whenever no answer is being sent.                                  *)
(***************************************************************************)
THEOREM AnswersWhole == Spec => []AnswersArriveWhole
<1>1. Inv => AnswersArriveWhole
  <2> SUFFICES ASSUME Inv PROVE AnswersArriveWhole
    OBVIOUS
  <2>1. /\ wire \in Seq(MbapByte) /\ replies \in Seq(MbapByte)
        /\ At(wire, replies, 0) /\ Len(wire) <= Len(replies)
        /\ pc \in {"while", "recv", "drain"} => wire = replies
    BY DEF Inv, TypeOK, Sending
  <2>2. wire = SubSeq(replies, 1, Len(wire))
    BY <2>1, Beginning
  <2> QED BY <2>1, <2>2 DEF AnswersArriveWhole
<1> QED BY <1>1, InitInv, NextInv, PTL DEF Spec

(***************************************************************************)
(* The stream assembler of serve_client loses nothing and repeats nothing. *)
(***************************************************************************)
THEOREM BufferRest == Spec => []BufferIsTheRest
<1>1. Inv => BufferIsTheRest
  <2> SUFFICES ASSUME Inv, pc # "closed"
               PROVE  Bytes(First(Through)) \o buf = SubSeq(Stream, 1, arrived)
    BY DEF BufferIsTheRest
  <2> DEFINE p == BytesUpTo(items, Through)
             o == Off(items, Through)
             u == p \o buf
  <2>1. /\ items \in Sent /\ buf \in Seq(MbapByte) /\ answered \in Seq(MbapFrame)
        /\ arrived \in 0 .. Len(Stream)
    BY DEF Inv, TypeOK
  <2>2. /\ items \in Seq(Item) /\ Len(items) \in Nat
        /\ Stream \in Seq(MbapByte) /\ Len(Stream) \in Nat
    BY <2>1, ItemsSent
  <2>3. At(buf, Stream, o) /\ arrived = o + Len(buf)
    BY DEF Inv, Assembled
  <2>4. Through \in 0 .. Len(items)
    <3>1. Len(answered) \in Nat
      BY <2>1, LenProperties
    <3>2. Len(answered) <= Len(items) /\ (pc = "send" => Len(answered) > 0)
      BY DEF Inv, AnswersTheFramesSent, Answering
    <3> QED BY <2>2, <3>1, <3>2 DEF Through
  <2>5. p \in Seq(MbapByte) /\ o \in Nat /\ o = Len(p) /\ Begins(Stream, p)
    BY <2>2, <2>4, BytesTyped, StreamBegins DEF Off, Stream
  <2>6. At(p, Stream, 0)
    <3> HIDE DEF p
    <3> QED BY <2>5 DEF Begins, At
  <2> HIDE DEF p, o
  <2>7. u \in Seq(MbapByte) /\ Len(u) = Len(p) + Len(buf)
    BY <2>1, <2>5, Joined
  <2>8. At(u, Stream, 0)
    <3>1. o = 0 + Len(p) /\ 0 \in Nat
      BY <2>5
    <3> QED BY <2>1, <2>3, <2>5, <2>6, <3>1, JoinedAt
  <2>9. Len(u) = arrived /\ Len(u) <= Len(Stream)
    BY <2>1, <2>2, <2>3, <2>5, <2>7
  <2> HIDE DEF u
  <2>10. u = SubSeq(Stream, 1, Len(u))
    BY <2>2, <2>7, <2>8, <2>9, Beginning
  <2>11. u = Bytes(First(Through)) \o buf
    BY DEF u, p, BytesUpTo, First
  <2> QED BY <2>9, <2>10, <2>11
<1> QED BY <1>1, InitInv, NextInv, PTL DEF Spec
=============================================================================
