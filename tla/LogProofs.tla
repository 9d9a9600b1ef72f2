----------------------------- MODULE LogProofs -----------------------------
(***************************************************************************)
(* Theorems about LogPipeline, for every size of the sink, the batch and   *)
(* the chunk and every budget of lines and faults.                         *)
(***************************************************************************)
EXTENDS LogPipeline, SequenceTheorems, FiniteSetTheorems, TLAPS

(***************************************************************************)
(* Sequences of lines                                                      *)
(***************************************************************************)
LEMMA SizesNat ==
    /\ Capacity \in Nat /\ Capacity >= 1 /\ Batch \in Nat /\ Batch >= 1
    /\ Chunk \in Nat /\ Chunk >= 1
  BY SizesAssumption

LEMMA ElementsOf ==
    ASSUME NEW s \in Seq(Nat)
    PROVE  /\ Elements(s) = {s[i] : i \in 1..Len(s)} /\ Len(s) \in Nat
           /\ Elements(s) \subseteq Nat
           /\ \A i \in 1..Len(s) : s[i] \in Elements(s) /\ s[i] \in Nat
  BY DEF Elements

LEMMA ElementsEmpty == Elements(<<>>) = {} /\ <<>> \in Seq(Nat) /\ Len(<<>>) = 0
  BY DEF Elements

LEMMA ElementsConcat ==
    ASSUME NEW s \in Seq(Nat), NEW t \in Seq(Nat)
    PROVE  s \o t \in Seq(Nat) /\ Elements(s \o t) = Elements(s) \cup Elements(t)
<1>1. s \o t \in Seq(Nat) /\ Len(s \o t) = Len(s) + Len(t) /\ Len(s) \in Nat /\ Len(t) \in Nat
  BY ConcatProperties, LenProperties
<1>2. \A i \in 1..Len(s) + Len(t) : (s \o t)[i] = IF i <= Len(s) THEN s[i] ELSE t[i - Len(s)]
  BY ConcatProperties
<1>3. ASSUME NEW x \in Elements(s \o t) PROVE x \in Elements(s) \cup Elements(t)
  <2>1. PICK i \in 1..Len(s \o t) : x = (s \o t)[i]
    <3> DEFINE w == s \o t
    <3>1. w \in Seq(Nat) /\ x \in Elements(w)
      BY <1>1
    <3> HIDE DEF w
    <3>2. \E i \in 1..Len(w) : x = w[i]
      BY <3>1, ElementsOf
    <3>3. QED
      BY <3>2 DEF w
  <2>2. CASE i <= Len(s)
    BY <1>1, <1>2, <2>1, <2>2, ElementsOf
  <2>3. CASE i > Len(s)
    <3>1. i - Len(s) \in 1..Len(t) /\ x = t[i - Len(s)]
      BY <1>1, <1>2, <2>1, <2>3
    <3>2. QED
      BY <3>1, ElementsOf
  <2>4. QED
    BY <1>1, <2>1, <2>2, <2>3
<1>4. ASSUME NEW x \in Elements(s) PROVE x \in Elements(s \o t)
  <2>1. PICK i \in 1..Len(s) : x = s[i]
    BY ElementsOf
  <2>2. i \in 1..Len(s \o t) /\ (s \o t)[i] = x
    BY <1>1, <1>2, <2>1
  <2>3. QED
    BY <1>1, <2>2, ElementsOf
<1>5. ASSUME NEW x \in Elements(t) PROVE x \in Elements(s \o t)
  <2>1. PICK i \in 1..Len(t) : x = t[i]
    BY ElementsOf
  <2>2. Len(s) + i \in 1..Len(s \o t) /\ (s \o t)[Len(s) + i] = x
    BY <1>1, <1>2, <2>1
  <2>3. QED
    BY <1>1, <2>2, ElementsOf
<1>6. QED
  BY <1>1, <1>3, <1>4, <1>5

\* Two sequences in a row increase if each does and the first ends before the second begins.
LEMMA IncreasingConcat ==
    ASSUME NEW s \in Seq(Nat), NEW t \in Seq(Nat)
    PROVE  Increasing(s \o t) <=> /\ Increasing(s) /\ Increasing(t)
                                  /\ \A x \in Elements(s), y \in Elements(t) : x < y
<1>1. /\ Len(s \o t) = Len(s) + Len(t) /\ Len(s) \in Nat /\ Len(t) \in Nat
      /\ DOMAIN (s \o t) = 1..Len(s) + Len(t) /\ DOMAIN s = 1..Len(s) /\ DOMAIN t = 1..Len(t)
  BY ConcatProperties, LenProperties
<1>2. \A i \in 1..Len(s) + Len(t) : (s \o t)[i] = IF i <= Len(s) THEN s[i] ELSE t[i - Len(s)]
  BY ConcatProperties
<1>3. ASSUME Increasing(s \o t)
      PROVE  /\ Increasing(s) /\ Increasing(t)
             /\ \A x \in Elements(s), y \in Elements(t) : x < y
  <2>0. \A i, j \in 1..Len(s) + Len(t) : i < j => (s \o t)[i] < (s \o t)[j]
    BY <1>1, <1>3 DEF Increasing
  <2>1. ASSUME NEW i \in 1..Len(s), NEW j \in 1..Len(s), i < j PROVE s[i] < s[j]
    <3>1. /\ i \in 1..Len(s) + Len(t) /\ j \in 1..Len(s) + Len(t)
          /\ (s \o t)[i] = s[i] /\ (s \o t)[j] = s[j]
      BY <1>1, <1>2, <2>1
    <3>2. QED
      BY <2>0, <2>1, <3>1
  <2>2. ASSUME NEW i \in 1..Len(t), NEW j \in 1..Len(t), i < j PROVE t[i] < t[j]
    <3>1. /\ Len(s) + i \in 1..Len(s) + Len(t) /\ Len(s) + j \in 1..Len(s) + Len(t)
          /\ Len(s) + i < Len(s) + j
          /\ (s \o t)[Len(s) + i] = t[i] /\ (s \o t)[Len(s) + j] = t[j]
      BY <1>1, <1>2, <2>2
    <3>2. QED
      BY <2>0, <3>1
  <2>3. ASSUME NEW i \in 1..Len(s), NEW j \in 1..Len(t) PROVE s[i] < t[j]
    <3>1. /\ i \in 1..Len(s) + Len(t) /\ Len(s) + j \in 1..Len(s) + Len(t)
          /\ i < Len(s) + j
          /\ (s \o t)[i] = s[i] /\ (s \o t)[Len(s) + j] = t[j]
      BY <1>1, <1>2
    <3>2. QED
      BY <2>0, <3>1
  <2>4. QED
    BY <1>1, <2>1, <2>2, <2>3 DEF Increasing, Elements
<1>4. ASSUME Increasing(s), Increasing(t), \A x \in Elements(s), y \in Elements(t) : x < y
      PROVE  Increasing(s \o t)
  <2>1. ASSUME NEW i \in 1..Len(s) + Len(t), NEW j \in 1..Len(s) + Len(t), i < j
        PROVE  (s \o t)[i] < (s \o t)[j]
    <3>1. CASE j <= Len(s)
      <4>1. i \in 1..Len(s) /\ j \in 1..Len(s) /\ (s \o t)[i] = s[i] /\ (s \o t)[j] = s[j]
        BY <1>1, <1>2, <2>1, <3>1
      <4>2. QED
        BY <1>1, <1>4, <2>1, <4>1 DEF Increasing
    <3>2. CASE i > Len(s)
      <4>1. /\ i - Len(s) \in 1..Len(t) /\ j - Len(s) \in 1..Len(t) /\ i - Len(s) < j - Len(s)
            /\ (s \o t)[i] = t[i - Len(s)] /\ (s \o t)[j] = t[j - Len(s)]
        BY <1>1, <1>2, <2>1, <3>2
      <4>2. QED
        BY <1>1, <1>4, <4>1 DEF Increasing
    <3>3. CASE i <= Len(s) /\ j > Len(s)
      <4>1. /\ i \in 1..Len(s) /\ j - Len(s) \in 1..Len(t)
            /\ (s \o t)[i] = s[i] /\ (s \o t)[j] = t[j - Len(s)]
        BY <1>1, <1>2, <2>1, <3>3
      <4>2. s[i] \in Elements(s) /\ t[j - Len(s)] \in Elements(t)
        BY <4>1, ElementsOf
      <4>3. QED
        BY <1>4, <4>1, <4>2
    <3>4. QED
      BY <1>1, <3>1, <3>2, <3>3
  <2>2. QED
    BY <1>1, <2>1 DEF Increasing
<1>5. QED
  BY <1>3, <1>4

\* What is cut in two is put together again.
LEMMA CutInTwo ==
    ASSUME NEW s \in Seq(Nat), NEW n \in Nat
    PROVE  /\ Front(n, s) \in Seq(Nat) /\ After(n, s) \in Seq(Nat)
           /\ Len(Front(n, s)) <= n /\ Len(Front(n, s)) <= Len(s)
           /\ Len(After(n, s)) <= Len(s)
           /\ Front(n, s) \o After(n, s) = s
<1> DEFINE k == IF n < Len(s) THEN n ELSE Len(s)
<1>0. Len(s) \in Nat /\ k \in 0..Len(s) /\ k <= n /\ (k = n \/ (k = Len(s) /\ n >= Len(s)))
  BY LenProperties
<1>1. \A i \in 1..Len(s) : s[i] \in Nat
  BY ElementsOf
<1>2. Front(n, s) = SubSeq(s, 1, k)
  BY DEF Front
<1>3. After(n, s) = SubSeq(s, k + 1, Len(s))
  <2>1. CASE k = n
    BY <2>1 DEF After
  <2>2. CASE k = Len(s) /\ n >= Len(s)
    <3>0. /\ n + 1 \in Int /\ Len(s) \in Int /\ Len(s) + 1 \in Int
          /\ Len(s) < n + 1 /\ Len(s) < Len(s) + 1 /\ k + 1 = Len(s) + 1
      BY <1>0, <2>2
    <3> HIDE DEF k
    <3>1. SubSeq(s, n + 1, Len(s)) = <<>>
      BY <3>0, SubSeqEmpty
    <3>2. SubSeq(s, k + 1, Len(s)) = <<>>
      BY <3>0, SubSeqEmpty
    <3>3. QED
      BY <3>1, <3>2 DEF After
  <2>3. QED
    BY <1>0, <2>1, <2>2
<1>4. SubSeq(s, 1, k) \in Seq(Nat) /\ Len(SubSeq(s, 1, k)) = k
  <2> HIDE DEF k
  <2>1. \A i \in 1..k : s[i] \in Nat
    BY <1>0, <1>1
  <2>2. QED
    BY <1>0, <2>1, SubSeqProperties
<1>5. SubSeq(s, k + 1, Len(s)) \in Seq(Nat) /\ Len(SubSeq(s, k + 1, Len(s))) <= Len(s)
  <2> HIDE DEF k
  <2>1. \A i \in k + 1..Len(s) : s[i] \in Nat
    BY <1>0, <1>1
  <2>2. k + 1 \in Int /\ Len(s) \in Int
    BY <1>0
  <2>3. QED
    BY <1>0, <2>1, <2>2, SubSeqProperties
<1>6. SubSeq(s, 1, k) \o SubSeq(s, k + 1, Len(s)) = s
  <2> HIDE DEF k
  <2>1. 1 \in 1..Len(s) + 1 /\ k \in 1 - 1..Len(s) /\ Len(s) \in k..Len(s)
    BY <1>0
  <2>2. QED
    BY <2>1, ConcatAdjacentSubSeq, SubSeqFull
<1>7. Len(Front(n, s)) = k /\ k <= Len(s)
  BY <1>0, <1>2, <1>4
<1>8. QED
  <2> HIDE DEF k
  <2>1. QED
    BY <1>0, <1>2, <1>3, <1>4, <1>5, <1>6, <1>7

LEMMA CutElements ==
    ASSUME NEW s \in Seq(Nat), NEW n \in Nat, Increasing(s)
    PROVE  /\ Elements(s) = Elements(Front(n, s)) \cup Elements(After(n, s))
           /\ Increasing(Front(n, s)) /\ Increasing(After(n, s))
           /\ \A x \in Elements(Front(n, s)), y \in Elements(After(n, s)) : x < y
<1> DEFINE f == Front(n, s)
           a == After(n, s)
<1>1. f \in Seq(Nat) /\ a \in Seq(Nat) /\ f \o a = s
  BY CutInTwo
<1>2. QED
  <2> HIDE DEF f, a
  <2>1. /\ Elements(f \o a) = Elements(f) \cup Elements(a) /\ Increasing(f \o a)
        /\ Increasing(f \o a) <=> /\ Increasing(f) /\ Increasing(a)
                                 /\ \A x \in Elements(f), y \in Elements(a) : x < y
    BY <1>1, ElementsConcat, IncreasingConcat
  <2>2. QED
    BY <1>1, <2>1 DEF f, a

LEMMA HeadAndTail ==
    ASSUME NEW s \in Seq(Nat), s # <<>>, Increasing(s)
    PROVE  /\ Head(s) \in Nat /\ Tail(s) \in Seq(Nat) /\ Len(Tail(s)) = Len(s) - 1
           /\ Elements(s) = {Head(s)} \cup Elements(Tail(s)) /\ Increasing(Tail(s))
           /\ \A y \in Elements(Tail(s)) : Head(s) < y
<1>1. Head(s) \in Nat /\ Tail(s) \in Seq(Nat) /\ Len(Tail(s)) = Len(s) - 1
  BY HeadTailProperties
<1>2. <<Head(s)>> \in Seq(Nat) /\ s = <<Head(s)>> \o Tail(s)
  <2>1. <<Head(s)>> \in Seq(Nat) /\ Len(<<Head(s)>>) = 1 /\ <<Head(s)>>[1] = Head(s)
    BY <1>1
  <2>2. Len(s) \in Nat /\ Len(s) >= 1 /\ Head(s) = s[1]
    BY EmptySeq, LenProperties
  <2>3. \A i \in 1..Len(Tail(s)) : Tail(s)[i] = s[i + 1]
    BY HeadTailProperties
  <2> DEFINE u == <<Head(s)>>
             t == Tail(s)
  <2>4. u \o t \in Seq(Nat) /\ Len(u \o t) = 1 + Len(t)
        /\ \A i \in 1..1 + Len(t) : (u \o t)[i] = IF i <= 1 THEN u[i] ELSE t[i - 1]
    <3> HIDE DEF u, t
    <3>1. u \in Seq(Nat) /\ t \in Seq(Nat) /\ Len(u) = 1 /\ Len(t) \in Nat
      BY <1>1, <2>1, LenProperties DEF u, t
    <3>2. /\ u \o t \in Seq(Nat) /\ Len(u \o t) = Len(u) + Len(t)
          /\ \A i \in 1..Len(u) + Len(t) :
                (u \o t)[i] = IF i <= Len(u) THEN u[i] ELSE t[i - Len(u)]
      BY <3>1, ConcatProperties
    <3>3. QED
      BY <3>1, <3>2
  <2>5. \A i \in 1..Len(s) : (u \o t)[i] = s[i]
    <3>1. ASSUME NEW i \in 1..Len(s) PROVE (u \o t)[i] = s[i]
      <4> HIDE DEF u, t
      <4>1. CASE i = 1
        BY <1>1, <2>1, <2>2, <2>4, <4>1 DEF u, t
      <4>2. CASE i # 1
        <5>1. i - 1 \in 1..Len(t) /\ i \in 1..1 + Len(t) /\ ~(i <= 1) /\ i - 1 + 1 = i
          BY <1>1, <2>2, <4>2 DEF t
        <5>2. (u \o t)[i] = t[i - 1] /\ t[i - 1] = s[i]
          BY <2>3, <2>4, <5>1 DEF t
        <5>3. QED
          BY <5>2
      <4>3. QED
        BY <4>1, <4>2
    <3>2. QED
      BY <3>1
  <2>6. Len(u \o t) = Len(s)
    BY <1>1, <2>2, <2>4
  <2>7. QED
    <3> HIDE DEF u, t
    <3>1. s = u \o t
      BY <2>4, <2>5, <2>6, SeqEqual
    <3>2. QED
      BY <2>1, <3>1 DEF u, t
<1>3. Elements(<<Head(s)>>) = {Head(s)}
  BY DEF Elements
<1>4. QED
  <2> DEFINE u == <<Head(s)>>
             t == Tail(s)
  <2>1. u \in Seq(Nat) /\ t \in Seq(Nat) /\ s = u \o t /\ Elements(u) = {Head(s)}
    BY <1>1, <1>2, <1>3
  <2>2. QED
    <3> HIDE DEF u, t
    <3>1. /\ Elements(u \o t) = Elements(u) \cup Elements(t) /\ Increasing(u \o t)
          /\ Increasing(u \o t) <=> /\ Increasing(u) /\ Increasing(t)
                                   /\ \A x \in Elements(u), y \in Elements(t) : x < y
      BY <2>1, ElementsConcat, IncreasingConcat
    <3>2. QED
      BY <1>1, <2>1, <3>1 DEF t

LEMMA Appended ==
    ASSUME NEW s \in Seq(Nat), NEW x \in Nat
    PROVE  /\ Append(s, x) \in Seq(Nat) /\ Len(Append(s, x)) = Len(s) + 1
           /\ Append(s, x) # <<>>
           /\ Elements(Append(s, x)) = Elements(s) \cup {x}
           /\ (Increasing(s) /\ \A y \in Elements(s) : y < x) => Increasing(Append(s, x))
<1>1. Append(s, x) = s \o <<x>> /\ <<x>> \in Seq(Nat) /\ Elements(<<x>>) = {x}
  BY AppendIsConcat DEF Elements
<1>2. Increasing(<<x>>)
  BY DEF Increasing
<1>3. QED
  <2> DEFINE u == <<x>>
  <2>1. u \in Seq(Nat) /\ Elements(u) = {x} /\ Append(s, x) = s \o u /\ Increasing(u)
    BY <1>1, <1>2
  <2>2. /\ Append(s, x) \in Seq(Nat) /\ Len(Append(s, x)) = Len(s) + 1
        /\ Append(s, x) # <<>>
    BY AppendProperties
  <2>3. QED
    <3> HIDE DEF u
    <3>1. Elements(s \o u) = Elements(s) \cup Elements(u)
      BY <2>1, ElementsConcat
    <3>2. Increasing(s \o u) <=> /\ Increasing(s) /\ Increasing(u)
                                /\ \A a \in Elements(s), b \in Elements(u) : a < b
      BY <2>1, IncreasingConcat
    <3>3. QED
      BY <2>1, <2>2, <3>1, <3>2

(***************************************************************************)
(* What the steps do to the lines                                          *)
(***************************************************************************)
Firsts(lo) == {x[1] : x \in lo}
DroppedSince(lo, bo) == {x \in lo : x[2] = "dropped" /\ x[1] > bo}
InOrder(r, un) == \A i, j \in DOMAIN r : i < j => r[i] < r[j] \/ r[j] \in un

\* The part of the invariant about the lines: r is the table, q the sink, b the writer's
\* batch; ca lines were captured, bo of them by earlier processes; lo are those lost, un
\* those whose commit was taken for a failure, dr the number the process reports.
Typed(r, q, b, ca, bo, lo, un, dr) ==
    /\ r \in Seq(Nat) /\ q \in Seq(Nat) /\ Len(q) <= Capacity
    /\ b \in Seq(Nat) /\ Len(b) <= Batch
    /\ ca \in Nat /\ bo \in 0..ca /\ un \subseteq 1..ca /\ lo \subseteq (1..ca) \X Hows
    /\ dr \in Nat

Kept(r, h, ca, bo, lo, un) ==
    /\ 1..ca = h \cup Elements(r) \cup Firsts(lo)
    /\ h \cap Firsts(lo) = {} /\ Elements(r) \cap (h \cup Firsts(lo)) \subseteq un
    /\ \A x \in Elements(r), l \in h : x < l \/ x \in un
    /\ \A l \in h : bo < l
    /\ \A u \in un, l \in h : u < l \/ l \in un

InLine(b, q) ==
    /\ Increasing(b) /\ Increasing(q)
    /\ \A x \in Elements(b), y \in Elements(q) : x < y

Lined(r, q, b, ca, bo, lo, un, dr) ==
    /\ Typed(r, q, b, ca, bo, lo, un, dr)
    /\ Kept(r, Elements(b) \cup Elements(q), ca, bo, lo, un)
    /\ InLine(b, q) /\ InOrder(r, un)
    /\ dr = Cardinality(DroppedSince(lo, bo))

LEMMA LinedElements ==
    ASSUME NEW r, NEW q, NEW b, NEW ca, NEW bo, NEW lo, NEW un, NEW dr,
           Lined(r, q, b, ca, bo, lo, un, dr)
    PROVE  /\ Elements(b) \cap Elements(q) = {}
           /\ Elements(b) \subseteq 1..ca /\ Elements(q) \subseteq 1..ca
           /\ Elements(r) \subseteq 1..ca /\ Firsts(lo) \subseteq 1..ca
           /\ IsFiniteSet(DroppedSince(lo, bo))
           /\ \A x \in Elements(b) \cup Elements(q) : x \in Nat
<1>1. Elements(b) \subseteq 1..ca /\ Elements(q) \subseteq 1..ca
      /\ Elements(r) \subseteq 1..ca /\ Firsts(lo) \subseteq 1..ca
  BY DEF Lined, Kept
<1>2. Elements(b) \cap Elements(q) = {}
  BY <1>1 DEF Lined, InLine
<1>3. IsFiniteSet(DroppedSince(lo, bo))
  <2>1. ca \in Nat /\ lo \subseteq (1..ca) \X Hows
    BY DEF Lined, Typed
  <2>2. IsFiniteSet(1..ca)
    BY <2>1, FS_Interval
  <2>3. IsFiniteSet(Hows)
    <3>1. Hows = (({"dropped"} \cup {"pushed out"}) \cup {"abandoned"}) \cup {"killed"}
      BY DEF Hows
    <3>2. IsFiniteSet({"dropped"} \cup {"pushed out"})
      BY FS_Singleton, FS_AddElement
    <3>3. IsFiniteSet(({"dropped"} \cup {"pushed out"}) \cup {"abandoned"})
      BY <3>2, FS_AddElement
    <3>4. QED
      BY <3>1, <3>3, FS_AddElement
  <2>4. IsFiniteSet((1..ca) \X Hows)
    BY <2>2, <2>3, FS_Product
  <2>5. DroppedSince(lo, bo) \in SUBSET ((1..ca) \X Hows)
    BY <2>1 DEF DroppedSince
  <2>6. QED
    BY <2>4, <2>5, FS_Subset
<1>4. QED
  BY <1>1, <1>2, <1>3

\* A line is captured, by a sink with room for it or without.
CapturedQueue(q, ca) == Append(IF Len(q) = Capacity THEN Tail(q) ELSE q, ca + 1)
CapturedLost(q, lo) ==
    lo \cup (IF Len(q) = Capacity THEN {<<Head(q), "dropped">>} ELSE {})
CapturedCount(q, dr) == IF Len(q) = Capacity THEN dr + 1 ELSE dr

LEMMA CaptureLined ==
    ASSUME NEW r, NEW q, NEW b, NEW ca, NEW bo, NEW lo, NEW un, NEW dr,
           Lined(r, q, b, ca, bo, lo, un, dr)
    PROVE  Lined(r, CapturedQueue(q, ca), b, ca + 1, bo, CapturedLost(q, lo), un,
                 CapturedCount(q, dr))
<1> DEFINE E == Elements(b)
<1>t. Typed(r, q, b, ca, bo, lo, un, dr) /\ dr = Cardinality(DroppedSince(lo, bo))
  BY DEF Lined
<1>k. Kept(r, E \cup Elements(q), ca, bo, lo, un) /\ InLine(b, q) /\ InOrder(r, un)
  BY DEF Lined
<1>e. /\ E \cap Elements(q) = {} /\ E \subseteq 1..ca /\ Elements(q) \subseteq 1..ca
      /\ Elements(r) \subseteq 1..ca /\ Firsts(lo) \subseteq 1..ca
      /\ IsFiniteSet(DroppedSince(lo, bo))
  BY LinedElements
<1>n. ca \in Nat /\ ca + 1 \in Nat /\ bo \in Nat /\ bo <= ca /\ 1..ca + 1 = (1..ca) \cup {ca + 1}
      /\ ca + 1 \notin 1..ca /\ \A x \in 1..ca : x < ca + 1 /\ x \in Nat
  BY <1>t DEF Typed
<1> HIDE DEF E
<1>1. CASE Len(q) # Capacity
  <2> DEFINE p == Append(q, ca + 1)
  <2>1. /\ p \in Seq(Nat) /\ Len(p) = Len(q) + 1 /\ Elements(p) = Elements(q) \cup {ca + 1}
        /\ Increasing(p)
    BY <1>t, <1>k, <1>e, <1>n, Appended DEF Typed, InLine
  <2>2. Typed(r, p, b, ca + 1, bo, lo, un, dr)
    BY <1>1, <1>t, <1>n, <2>1, SizesNat, LenProperties DEF Typed
  <2>3. Kept(r, E \cup Elements(p), ca + 1, bo, lo, un)
    <3> HIDE DEF p
    <3>1. un \subseteq 1..ca
      BY <1>t DEF Typed
    <3>2. QED
      BY <1>k, <1>e, <1>n, <2>1, <3>1 DEF Kept
  <2>4. InLine(b, p)
    <3> HIDE DEF p
    <3>1. QED
      BY <1>k, <1>e, <1>n, <2>1 DEF InLine, E
  <2>5. /\ CapturedQueue(q, ca) = p /\ CapturedLost(q, lo) = lo /\ CapturedCount(q, dr) = dr
    BY <1>1 DEF CapturedQueue, CapturedLost, CapturedCount
  <2>6. QED
    BY <1>t, <1>k, <2>2, <2>3, <2>4, <2>5 DEF Lined, E
<1>2. CASE Len(q) = Capacity
  <2> DEFINE h == Head(q)
             t == Tail(q)
             p == Append(t, ca + 1)
             gone == lo \cup {<<h, "dropped">>}
  <2>0. q \in Seq(Nat) /\ q # <<>>
    BY <1>2, <1>t, SizesNat, EmptySeq DEF Typed
  <2>1. /\ h \in Nat /\ t \in Seq(Nat) /\ Len(t) = Len(q) - 1 /\ Increasing(t)
        /\ Elements(q) = {h} \cup Elements(t) /\ \A y \in Elements(t) : h < y
    BY <1>k, <2>0, HeadAndTail DEF InLine
  <2>2. /\ p \in Seq(Nat) /\ Len(p) = Len(t) + 1 /\ Elements(p) = Elements(t) \cup {ca + 1}
        /\ Increasing(p)
    <3> HIDE DEF h, t
    <3>1. \A y \in Elements(t) : y < ca + 1
      BY <1>e, <1>n, <2>1
    <3>2. QED
      BY <1>n, <2>1, <3>1, Appended
  <2>3. h \in 1..ca /\ h \notin Elements(t) /\ h \notin E /\ h \notin Firsts(lo) /\ h > bo
    <3> HIDE DEF h, t, p
    <3>1. h \in Elements(q) /\ h \notin Elements(t)
      BY <2>1
    <3>2. QED
      BY <1>e, <1>k, <1>n, <3>1 DEF Kept
  <2>4. Firsts(gone) = Firsts(lo) \cup {h}
    <3> HIDE DEF h
    <3>1. <<h, "dropped">>[1] = h /\ <<h, "dropped">> \in gone
      OBVIOUS
    <3>2. h \in Firsts(gone) /\ Firsts(lo) \subseteq Firsts(gone)
      BY <3>1, Zenon DEF Firsts
    <3>3. ASSUME NEW x \in Firsts(gone) PROVE x \in Firsts(lo) \cup {h}
      <4>1. PICK y \in gone : x = y[1]
        BY DEF Firsts
      <4>2. CASE y \in lo
        BY <4>1, <4>2 DEF Firsts
      <4>3. CASE y = <<h, "dropped">>
        BY <4>1, <4>3
      <4>4. QED
        BY <4>2, <4>3
    <3>4. QED
      BY <3>2, <3>3
  <2>5. Typed(r, p, b, ca + 1, bo, gone, un, dr + 1)
    <3>1. gone \subseteq (1..ca + 1) \X Hows
      <4> HIDE DEF h
      <4>1. "dropped" \in Hows
        BY DEF Hows
      <4>2. lo \subseteq (1..ca + 1) \X Hows
        BY <1>t, <1>n DEF Typed
      <4>3. <<h, "dropped">> \in (1..ca + 1) \X Hows
        BY <1>n, <2>3, <4>1
      <4>4. QED
        BY <4>2, <4>3
    <3> HIDE DEF gone, p, t, h
    <3>2. QED
      BY <1>2, <1>t, <1>n, <2>1, <2>2, <3>1, SizesNat, LenProperties DEF Typed
  <2>6. Kept(r, E \cup Elements(p), ca + 1, bo, gone, un)
    <3> HIDE DEF h, t, p, gone
    <3>1. un \subseteq 1..ca
      BY <1>t DEF Typed
    <3>2. /\ 1..ca = (E \cup Elements(q)) \cup Elements(r) \cup Firsts(lo)
          /\ (E \cup Elements(q)) \cap Firsts(lo) = {}
          /\ Elements(r) \cap ((E \cup Elements(q)) \cup Firsts(lo)) \subseteq un
          /\ \A x \in Elements(r), l \in E \cup Elements(q) : x < l \/ x \in un
          /\ \A l \in E \cup Elements(q) : bo < l
          /\ \A u \in un, l \in E \cup Elements(q) : u < l \/ l \in un
      BY <1>k DEF Kept
    <3>3. E \cup Elements(p) = (E \cup Elements(t)) \cup {ca + 1}
      BY <2>2
    <3>4. 1..ca + 1 = (E \cup Elements(p)) \cup Elements(r) \cup Firsts(gone)
      BY <1>n, <2>1, <2>4, <3>2, <3>3
    <3>5. (E \cup Elements(p)) \cap Firsts(gone) = {}
      BY <1>e, <1>n, <2>1, <2>3, <2>4, <3>2, <3>3
    <3>6. Elements(r) \cap ((E \cup Elements(p)) \cup Firsts(gone)) \subseteq un
      BY <1>e, <1>n, <2>1, <2>4, <3>2, <3>3
    <3>7. \A x \in Elements(r), l \in E \cup Elements(p) : x < l \/ x \in un
      BY <1>e, <1>n, <2>1, <3>2, <3>3
    <3>8. \A l \in E \cup Elements(p) : bo < l
      BY <1>n, <2>1, <3>2, <3>3
    <3>9. \A u \in un, l \in E \cup Elements(p) : u < l \/ l \in un
      BY <1>n, <2>1, <3>1, <3>2, <3>3
    <3>10. QED
      BY <3>4, <3>5, <3>6, <3>7, <3>8, <3>9 DEF Kept
  <2>7. InLine(b, p)
    <3> HIDE DEF h, t, p
    <3>1. QED
      BY <1>k, <1>e, <1>n, <2>1, <2>2 DEF InLine, E
  <2>8. dr + 1 = Cardinality(DroppedSince(gone, bo))
    <3>1. DroppedSince(gone, bo) = DroppedSince(lo, bo) \cup {<<h, "dropped">>}
      <4> HIDE DEF h
      <4>1. QED
        BY <2>3 DEF DroppedSince
    <3>2. <<h, "dropped">> \notin DroppedSince(lo, bo)
      <4> HIDE DEF h
      <4>1. ASSUME <<h, "dropped">> \in lo PROVE FALSE
        <5>1. <<h, "dropped">>[1] \in Firsts(lo)
          BY <4>1 DEF Firsts
        <5>2. QED
          BY <2>3, <5>1
      <4>2. QED
        BY <4>1 DEF DroppedSince
    <3>3. QED
      <4> HIDE DEF h, gone
      <4>1. QED
        BY <1>t, <1>e, <3>1, <3>2, FS_AddElement
  <2>9. /\ CapturedQueue(q, ca) = p /\ CapturedLost(q, lo) = gone
        /\ CapturedCount(q, dr) = dr + 1
    BY <1>2 DEF CapturedQueue, CapturedLost, CapturedCount
  <2>10. QED
    <3> HIDE DEF h, t, p, gone
    <3>1. QED
      BY <1>k, <2>5, <2>6, <2>7, <2>8, <2>9 DEF Lined, E
<1>3. QED
  BY <1>1, <1>2

\* Lines are lost in another way than by a full sink.
LossOf(S, how) == {<<l, how>> : l \in S}

LEMMA LossTyped ==
    ASSUME NEW ca, NEW S, NEW how, S \subseteq 1..ca, how \in Hows
    PROVE  LossOf(S, how) \subseteq (1..ca) \X Hows
<1> DEFINE T == 1..ca
<1>1. ASSUME NEW x \in LossOf(S, how) PROVE x \in T \X Hows
  <2>1. PICK l \in S : x = <<l, how>>
    BY DEF LossOf
  <2>2. l \in T /\ how \in Hows
    OBVIOUS
  <2>3. <<l, how>> \in T \X Hows
    BY <2>2, Zenon
  <2>4. QED
    BY <2>1, <2>3
<1>2. QED
  BY <1>1

LEMMA LossFirsts ==
    ASSUME NEW lo, NEW S, NEW how
    PROVE  Firsts(lo \cup LossOf(S, how)) = Firsts(lo) \cup S
<1> DEFINE T == LossOf(S, how)
<1>1. \A x \in T : x[1] \in S
  BY DEF LossOf
<1>2. \A l \in S : <<l, how>> \in T /\ <<l, how>>[1] = l
  BY DEF LossOf
<1> HIDE DEF T
<1>3. ASSUME NEW l \in S PROVE l \in Firsts(lo \cup T)
  BY <1>2, <1>3 DEF Firsts
<1>4. \A l \in Firsts(lo \cup T) : l \in Firsts(lo) \cup S
  BY <1>1 DEF Firsts
<1>5. Firsts(lo) \subseteq Firsts(lo \cup T)
  BY DEF Firsts
<1>6. Firsts(lo \cup T) = Firsts(lo) \cup S
  BY <1>3, <1>4, <1>5
<1>7. QED
  BY <1>6 DEF T

LEMMA LossDropped ==
    ASSUME NEW lo, NEW S, NEW how, NEW bo, how # "dropped"
    PROVE  DroppedSince(lo \cup LossOf(S, how), bo) = DroppedSince(lo, bo)
<1> DEFINE T == LossOf(S, how)
<1>1. \A x \in T : x[2] # "dropped"
  BY DEF LossOf
<1> HIDE DEF T
<1>2. DroppedSince(lo \cup T, bo) = DroppedSince(lo, bo)
  BY <1>1 DEF DroppedSince
<1>3. QED
  BY <1>2 DEF T

LEMMA NoLines == InLine(<<>>, <<>>) /\ Elements(<<>>) = {} /\ Len(<<>>) <= Batch
                 /\ Len(<<>>) <= Capacity /\ Increasing(<<>>) /\ <<>> \in Seq(Nat)
<1>1. Increasing(<<>>)
  BY DEF Increasing
<1>2. QED
  BY <1>1, ElementsEmpty, SizesNat DEF InLine

\* The order of the table after a commit.
LEMMA CommitInOrder ==
    ASSUME NEW r \in Seq(Nat), NEW b \in Seq(Nat), NEW un, InOrder(r, un), Increasing(b),
           \A x \in Elements(r), l \in Elements(b) : x < l \/ x \in un,
           \A u \in un, l \in Elements(b) : u < l \/ l \in un
    PROVE  InOrder(r \o b, un)
<1>1. /\ Len(r \o b) = Len(r) + Len(b) /\ Len(r) \in Nat /\ Len(b) \in Nat
      /\ DOMAIN (r \o b) = 1..Len(r) + Len(b) /\ DOMAIN r = 1..Len(r) /\ DOMAIN b = 1..Len(b)
  BY ConcatProperties, LenProperties
<1>2. \A i \in 1..Len(r) + Len(b) : (r \o b)[i] = IF i <= Len(r) THEN r[i] ELSE b[i - Len(r)]
  BY ConcatProperties
<1>3. ASSUME NEW i \in 1..Len(r) + Len(b), NEW j \in 1..Len(r) + Len(b), i < j
      PROVE  (r \o b)[i] < (r \o b)[j] \/ (r \o b)[j] \in un
  <2>1. CASE j <= Len(r)
    <3>1. i \in 1..Len(r) /\ j \in 1..Len(r) /\ (r \o b)[i] = r[i] /\ (r \o b)[j] = r[j]
      BY <1>1, <1>2, <1>3, <2>1
    <3>2. QED
      BY <1>1, <1>3, <3>1 DEF InOrder
  <2>2. CASE i > Len(r)
    <3>1. /\ i - Len(r) \in 1..Len(b) /\ j - Len(r) \in 1..Len(b) /\ i - Len(r) < j - Len(r)
          /\ (r \o b)[i] = b[i - Len(r)] /\ (r \o b)[j] = b[j - Len(r)]
      BY <1>1, <1>2, <1>3, <2>2
    <3>2. QED
      BY <1>1, <3>1 DEF Increasing
  <2>3. CASE i <= Len(r) /\ j > Len(r)
    <3>1. /\ i \in 1..Len(r) /\ j - Len(r) \in 1..Len(b)
          /\ (r \o b)[i] = r[i] /\ (r \o b)[j] = b[j - Len(r)]
      BY <1>1, <1>2, <1>3, <2>3
    <3>2. r[i] \in Elements(r) /\ b[j - Len(r)] \in Elements(b)
      BY <3>1, ElementsOf
    <3>3. QED
      BY <3>1, <3>2
  <2>4. QED
    BY <1>1, <2>1, <2>2, <2>3
<1>4. QED
  BY <1>1, <1>3 DEF InOrder

\* A batch is committed: the table ends with it, and the writer holds nothing.
LEMMA CommitLined ==
    ASSUME NEW r, NEW q, NEW b, NEW ca, NEW bo, NEW lo, NEW un, NEW dr,
           Lined(r, q, b, ca, bo, lo, un, dr)
    PROVE  Lined(r \o b, q, <<>>, ca, bo, lo, un, dr)
<1> DEFINE E == Elements(b)
           F == Elements(q)
           R == Elements(r)
           L == Firsts(lo)
<1>t. Typed(r, q, b, ca, bo, lo, un, dr) /\ dr = Cardinality(DroppedSince(lo, bo))
      /\ InLine(b, q) /\ InOrder(r, un)
  BY DEF Lined
<1>k. /\ 1..ca = (E \cup F) \cup R \cup L
      /\ (E \cup F) \cap L = {} /\ R \cap ((E \cup F) \cup L) \subseteq un
      /\ \A x \in R, l \in E \cup F : x < l \/ x \in un
      /\ \A l \in E \cup F : bo < l
      /\ \A u \in un, l \in E \cup F : u < l \/ l \in un
  BY DEF Lined, Kept
<1>e. E \cap F = {}
  BY LinedElements
<1>s. r \in Seq(Nat) /\ b \in Seq(Nat)
  BY <1>t DEF Typed
<1>1. r \o b \in Seq(Nat) /\ Elements(r \o b) = R \cup E
  BY <1>s, ElementsConcat
<1>2. Typed(r \o b, q, <<>>, ca, bo, lo, un, dr)
  <2> HIDE DEF R, E
  <2>1. QED
    BY <1>t, <1>1, NoLines DEF Typed
<1>3. Kept(r \o b, Elements(<<>>) \cup F, ca, bo, lo, un)
  <2>1. \A x \in E, l \in F : x < l
    BY <1>t DEF InLine
  <2>2. Elements(<<>>) \cup F = F
    BY NoLines
  <2>3. Kept(r \o b, F, ca, bo, lo, un)
    <3> HIDE DEF E, F, R, L
    <3>1. QED
      BY <1>k, <1>e, <1>1, <2>1 DEF Kept, L
  <2>4. QED
    BY <2>2, <2>3
<1>4. InLine(<<>>, q)
  BY <1>t, NoLines DEF InLine
<1>5. InOrder(r \o b, un)
  BY <1>s, <1>t, <1>k, CommitInOrder DEF InLine
<1>6. QED
  BY <1>t, <1>2, <1>3, <1>4, <1>5 DEF Lined

\* A batch is committed, and an error is reported: it is still in the writer's hands.
LEMMA UnsureLined ==
    ASSUME NEW r, NEW q, NEW b, NEW ca, NEW bo, NEW lo, NEW un, NEW dr,
           Lined(r, q, b, ca, bo, lo, un, dr)
    PROVE  Lined(r \o b, q, b, ca, bo, lo, un \cup Elements(b), dr)
<1> DEFINE E == Elements(b)
           F == Elements(q)
           R == Elements(r)
           L == Firsts(lo)
<1>t. Typed(r, q, b, ca, bo, lo, un, dr) /\ dr = Cardinality(DroppedSince(lo, bo))
      /\ InLine(b, q) /\ InOrder(r, un)
  BY DEF Lined
<1>k. /\ 1..ca = (E \cup F) \cup R \cup L
      /\ (E \cup F) \cap L = {} /\ R \cap ((E \cup F) \cup L) \subseteq un
      /\ \A x \in R, l \in E \cup F : x < l \/ x \in un
      /\ \A l \in E \cup F : bo < l
      /\ \A u \in un, l \in E \cup F : u < l \/ l \in un
  BY DEF Lined, Kept
<1>e. E \cap F = {} /\ E \subseteq 1..ca
  BY LinedElements
<1>s. r \in Seq(Nat) /\ b \in Seq(Nat)
  BY <1>t DEF Typed
<1>1. r \o b \in Seq(Nat) /\ Elements(r \o b) = R \cup E
  BY <1>s, ElementsConcat
<1>2. Typed(r \o b, q, b, ca, bo, lo, un \cup E, dr)
  <2> HIDE DEF R
  <2>1. QED
    BY <1>t, <1>e, <1>1 DEF Typed
<1>3. Kept(r \o b, E \cup F, ca, bo, lo, un \cup E)
  <2>1. \A x \in E, l \in F : x < l
    BY <1>t DEF InLine
  <2> HIDE DEF E, F, R, L
  <2>2. \A x \in R \cup E, l \in E \cup F : x < l \/ x \in un \cup E
    BY <1>k
  <2>3. \A u \in un \cup E, l \in E \cup F : u < l \/ l \in un \cup E
    BY <1>k, <2>1
  <2>4. (R \cup E) \cap ((E \cup F) \cup L) \subseteq un \cup E
    BY <1>k
  <2>5. 1..ca = (E \cup F) \cup (R \cup E) \cup L
    BY <1>k
  <2>6. QED
    BY <1>k, <1>1, <2>2, <2>3, <2>4, <2>5 DEF Kept, L
<1>5. InOrder(r \o b, un \cup E)
  <2>1. InOrder(r, un \cup E)
    BY <1>t DEF InOrder
  <2> DEFINE v == un \cup E
  <2>2. /\ \A x \in R, l \in E : x < l \/ x \in v
        /\ \A u \in v, l \in E : u < l \/ l \in v
    BY <1>k
  <2>3. InOrder(r, v) /\ Increasing(b)
    BY <1>t, <2>1 DEF InLine
  <2> HIDE DEF v
  <2>4. InOrder(r \o b, v)
    BY <1>s, <2>2, <2>3, CommitInOrder
  <2>5. QED
    BY <2>4 DEF v
<1>6. QED
  BY <1>t, <1>2, <1>3, <1>5 DEF Lined

\* The batch returns to the sink, whose newest lines make room.
LEMMA PutBackLined ==
    ASSUME NEW r, NEW q, NEW b, NEW ca, NEW bo, NEW lo, NEW un, NEW dr,
           Lined(r, q, b, ca, bo, lo, un, dr)
    PROVE  Lined(r, Front(Capacity, b \o q), <<>>, ca, bo,
                 lo \cup LossOf(Elements(After(Capacity, b \o q)), "pushed out"), un, dr)
<1> DEFINE s == b \o q
           f == Front(Capacity, s)
           A == Elements(After(Capacity, s))
           H == Elements(b) \cup Elements(q)
           gone == lo \cup LossOf(A, "pushed out")
<1>t. Typed(r, q, b, ca, bo, lo, un, dr) /\ dr = Cardinality(DroppedSince(lo, bo))
      /\ InLine(b, q) /\ InOrder(r, un) /\ Kept(r, H, ca, bo, lo, un)
  BY DEF Lined
<1>1. s \in Seq(Nat) /\ Elements(s) = H /\ Increasing(s)
  <2>1. b \in Seq(Nat) /\ q \in Seq(Nat)
    BY <1>t DEF Typed
  <2>2. QED
    BY <1>t, <2>1, ElementsConcat, IncreasingConcat DEF InLine
<1>2. /\ f \in Seq(Nat) /\ Len(f) <= Capacity /\ Increasing(f)
      /\ H = Elements(f) \cup A /\ \A x \in Elements(f), y \in A : x < y
  <2> HIDE DEF s
  <2>1. /\ Front(Capacity, s) \in Seq(Nat) /\ Len(Front(Capacity, s)) <= Capacity
    BY <1>1, SizesNat, CutInTwo
  <2>2. QED
    BY <1>1, <2>1, SizesNat, CutElements
<1>3. Firsts(gone) = Firsts(lo) \cup A /\ DroppedSince(gone, bo) = DroppedSince(lo, bo)
  <2> DEFINE how == "pushed out"
  <2>1. how # "dropped"
    OBVIOUS
  <2> HIDE DEF how, A
  <2>2. Firsts(lo \cup LossOf(A, how)) = Firsts(lo) \cup A
    BY LossFirsts
  <2>3. DroppedSince(lo \cup LossOf(A, how), bo) = DroppedSince(lo, bo)
    BY <2>1, LossDropped
  <2>4. QED
    BY <2>2, <2>3 DEF how
<1>4. H \subseteq 1..ca
  <2>1. Elements(b) \subseteq 1..ca /\ Elements(q) \subseteq 1..ca
    BY LinedElements
  <2>2. QED
    BY <2>1
<1>5. Typed(r, f, <<>>, ca, bo, gone, un, dr)
  <2>1. A \subseteq 1..ca
    <3> HIDE DEF A, f, H
    <3>1. QED
      BY <1>2, <1>4
  <2>2. gone \subseteq (1..ca) \X Hows
    <3> HIDE DEF A
    <3>1. "pushed out" \in Hows
      BY DEF Hows
    <3>2. LossOf(A, "pushed out") \subseteq (1..ca) \X Hows
      BY <2>1, <3>1, LossTyped
    <3>3. QED
      BY <1>t, <3>2 DEF Typed
  <2> HIDE DEF f, gone
  <2>3. QED
    BY <1>t, <1>2, <2>2, NoLines DEF Typed
<1>6. Kept(r, Elements(<<>>) \cup Elements(f), ca, bo, gone, un)
  <2> HIDE DEF f, gone, A, H
  <2>0. Elements(<<>>) \cup Elements(f) = Elements(f)
    BY NoLines
  <2>1. /\ 1..ca = H \cup Elements(r) \cup Firsts(lo)
        /\ H \cap Firsts(lo) = {} /\ Elements(r) \cap (H \cup Firsts(lo)) \subseteq un
        /\ \A x \in Elements(r), l \in H : x < l \/ x \in un
        /\ \A l \in H : bo < l
        /\ \A u \in un, l \in H : u < l \/ l \in un
    BY <1>t DEF Kept
  <2>2. Elements(f) \cap A = {}
    <3>1. \A x \in H : x \in Nat
      BY <1>4
    <3>2. QED
      BY <1>2, <3>1
  <2>3. Kept(r, Elements(f), ca, bo, gone, un)
    BY <1>2, <1>3, <2>1, <2>2 DEF Kept
  <2>4. QED
    BY <2>0, <2>3
<1>7. InLine(<<>>, f)
  <2> HIDE DEF f, A, H
  <2>1. QED
    BY <1>2, NoLines DEF InLine
<1>8. QED
  <2> HIDE DEF f, gone, H
  <2>1. Lined(r, f, <<>>, ca, bo, gone, un, dr)
    BY <1>t, <1>3, <1>5, <1>6, <1>7 DEF Lined
  <2>2. QED
    BY <2>1 DEF f, gone

\* The writer's batch is lost.
LEMMA AbandonLined ==
    ASSUME NEW r, NEW q, NEW b, NEW ca, NEW bo, NEW lo, NEW un, NEW dr,
           Lined(r, q, b, ca, bo, lo, un, dr)
    PROVE  Lined(r, q, <<>>, ca, bo, lo \cup LossOf(Elements(b), "abandoned"), un, dr)
<1> DEFINE E == Elements(b)
           F == Elements(q)
           gone == lo \cup LossOf(E, "abandoned")
<1>t. Typed(r, q, b, ca, bo, lo, un, dr) /\ dr = Cardinality(DroppedSince(lo, bo))
      /\ InLine(b, q) /\ InOrder(r, un) /\ Kept(r, E \cup F, ca, bo, lo, un)
  BY DEF Lined
<1>e. E \cap F = {} /\ E \subseteq 1..ca
  BY LinedElements
<1>3. Firsts(gone) = Firsts(lo) \cup E /\ DroppedSince(gone, bo) = DroppedSince(lo, bo)
  <2> DEFINE how == "abandoned"
  <2>1. how # "dropped"
    OBVIOUS
  <2> HIDE DEF how, E
  <2>2. Firsts(lo \cup LossOf(E, how)) = Firsts(lo) \cup E
    BY LossFirsts
  <2>3. DroppedSince(lo \cup LossOf(E, how), bo) = DroppedSince(lo, bo)
    BY <2>1, LossDropped
  <2>4. QED
    BY <2>2, <2>3 DEF how
<1>5. Typed(r, q, <<>>, ca, bo, gone, un, dr)
  <2>1. gone \subseteq (1..ca) \X Hows
    <3> HIDE DEF E
    <3>1. "abandoned" \in Hows
      BY DEF Hows
    <3>2. LossOf(E, "abandoned") \subseteq (1..ca) \X Hows
      BY <1>e, <3>1, LossTyped
    <3>3. QED
      BY <1>t, <3>2 DEF Typed
  <2> HIDE DEF gone
  <2>2. QED
    BY <1>t, <2>1, NoLines DEF Typed
<1>6. Kept(r, Elements(<<>>) \cup F, ca, bo, gone, un)
  <2> HIDE DEF gone, E, F
  <2>0. Elements(<<>>) \cup F = F
    BY NoLines
  <2>1. Kept(r, F, ca, bo, gone, un)
    BY <1>t, <1>e, <1>3 DEF Kept
  <2>2. QED
    BY <2>0, <2>1
<1>7. InLine(<<>>, q)
  BY <1>t, NoLines DEF InLine
<1>8. QED
  <2> HIDE DEF gone
  <2>1. Lined(r, q, <<>>, ca, bo, gone, un, dr)
    BY <1>t, <1>3, <1>5, <1>6, <1>7 DEF Lined
  <2>2. QED
    BY <2>1 DEF gone

\* The writer, which holds nothing, takes a batch from the sink.
LEMMA DrainLined ==
    ASSUME NEW r, NEW q, NEW ca, NEW bo, NEW lo, NEW un, NEW dr,
           Lined(r, q, <<>>, ca, bo, lo, un, dr)
    PROVE  Lined(r, After(Batch, q), Front(Batch, q), ca, bo, lo, un, dr)
<1> DEFINE f == Front(Batch, q)
           a == After(Batch, q)
<1>t. Typed(r, q, <<>>, ca, bo, lo, un, dr) /\ dr = Cardinality(DroppedSince(lo, bo))
      /\ InLine(<<>>, q) /\ InOrder(r, un)
      /\ Kept(r, Elements(<<>>) \cup Elements(q), ca, bo, lo, un)
  BY DEF Lined
<1>1. q \in Seq(Nat) /\ Increasing(q) /\ Len(q) <= Capacity
  BY <1>t DEF Typed, InLine
<1>2. /\ f \in Seq(Nat) /\ a \in Seq(Nat) /\ Len(f) <= Batch /\ Len(a) <= Len(q)
      /\ Elements(q) = Elements(f) \cup Elements(a)
      /\ Increasing(f) /\ Increasing(a)
      /\ \A x \in Elements(f), y \in Elements(a) : x < y
  BY <1>1, SizesNat, CutInTwo, CutElements
<1> HIDE DEF f, a
<1>3. Len(a) <= Capacity
  BY <1>1, <1>2, SizesNat, LenProperties
<1>4. Typed(r, a, f, ca, bo, lo, un, dr)
  BY <1>t, <1>2, <1>3 DEF Typed
<1>5. Elements(<<>>) \cup Elements(q) = Elements(f) \cup Elements(a)
  BY <1>2, NoLines
<1>6. Kept(r, Elements(f) \cup Elements(a), ca, bo, lo, un)
  BY <1>t, <1>5
<1>7. InLine(f, a)
  BY <1>2 DEF InLine
<1>8. Lined(r, a, f, ca, bo, lo, un, dr)
  BY <1>t, <1>4, <1>6, <1>7 DEF Lined
<1>9. QED
  BY <1>8 DEF f, a

\* The process ends: what it held is lost, and the next one has dropped nothing.
LEMMA DieLined ==
    ASSUME NEW r, NEW q, NEW b, NEW ca, NEW bo, NEW lo, NEW un, NEW dr,
           Lined(r, q, b, ca, bo, lo, un, dr)
    PROVE  Lined(r, <<>>, <<>>, ca, ca,
                 lo \cup LossOf(Elements(q) \cup Elements(b), "killed"), un, 0)
<1> DEFINE H == Elements(q) \cup Elements(b)
           gone == lo \cup LossOf(H, "killed")
<1>h. H = Elements(b) \cup Elements(q)
  OBVIOUS
<1>t. Typed(r, q, b, ca, bo, lo, un, dr) /\ InOrder(r, un)
      /\ Kept(r, H, ca, bo, lo, un)
  BY <1>h DEF Lined
<1>e. H \subseteq 1..ca
  <2>1. Elements(b) \subseteq 1..ca /\ Elements(q) \subseteq 1..ca
    BY LinedElements
  <2>2. QED
    BY <2>1
<1> HIDE DEF H
<1>3. Firsts(gone) = Firsts(lo) \cup H
  BY LossFirsts
<1>4. gone \subseteq (1..ca) \X Hows
  <2>1. "killed" \in Hows
    BY DEF Hows
  <2>2. LossOf(H, "killed") \subseteq (1..ca) \X Hows
    BY <1>e, <2>1, LossTyped
  <2>3. QED
    BY <1>t, <2>2 DEF Typed
<1> HIDE DEF gone
<1>5. Typed(r, <<>>, <<>>, ca, ca, gone, un, 0)
  <2>1. ca \in 0..ca
    BY <1>t DEF Typed
  <2>2. QED
    BY <1>t, <1>4, <2>1, NoLines DEF Typed
<1>6. Kept(r, Elements(<<>>) \cup Elements(<<>>), ca, ca, gone, un)
  <2>0. Elements(<<>>) \cup Elements(<<>>) = {}
    BY NoLines
  <2>1. Kept(r, {}, ca, ca, gone, un)
    BY <1>t, <1>3 DEF Kept
  <2>2. QED
    BY <2>0, <2>1
<1>7. 0 = Cardinality(DroppedSince(gone, ca))
  <2>1. DroppedSince(gone, ca) = {}
    <3>1. ASSUME NEW x \in gone PROVE ~(x[1] > ca)
      <4>1. x[1] \in 1..ca
        BY <1>4, <3>1
      <4>2. ca \in Nat
        BY <1>t DEF Typed
      <4>3. QED
        BY <4>1, <4>2
    <3>2. QED
      BY <3>1 DEF DroppedSince
  <2>2. QED
    BY <2>1, FS_EmptySet
<1>8. Lined(r, <<>>, <<>>, ca, ca, gone, un, 0)
  BY <1>t, <1>5, <1>6, <1>7, NoLines DEF Lined
<1>9. QED
  BY <1>8 DEF gone, H

(***************************************************************************)
(* The inductive invariant                                                 *)
(***************************************************************************)
LinedNow == Lined(rows, queue, batch, captured, born, lost, unsure, dropped)

\* Where the writer is, and what it holds there.
Placed ==
    /\ pc \in {"down", "first", "loop", "inserting", "unlinking", "pruning", "asleep",
               "ended", "flushed", "stopped", "dead"}
    /\ batch # <<>> <=> pc \in {"inserting", "unlinking"}
    /\ stopping \in BOOLEAN /\ final \in BOOLEAN /\ (final => stopping)
    /\ pc = "down" => queue = <<>>
    /\ pc = "ended" => stopping

Bounded ==
    /\ aged \subseteq DOMAIN rows /\ dangling \subseteq 1..captured /\ left \in [Events -> Nat]

LEMMA IInvIsLined == IInv <=> LinedNow /\ Placed /\ Bounded
<1>l. Lost = Firsts(lost) /\ Held = Elements(batch) \cup Elements(queue) /\ Stored = Elements(rows)
  BY DEF Lost, Firsts, Held, Stored
<1>d. DroppedSince(lost, born) = {x \in lost : x[2] = "dropped" /\ x[1] > born}
  BY DEF DroppedSince
<1>1. ASSUME IInv PROVE LinedNow /\ Placed /\ Bounded
  <2>1. TypeOK /\ Conserved /\ DropsCounted /\ OrderKept /\ OwnLines
    BY <1>1 DEF IInv
  <2>2. Typed(rows, queue, batch, captured, born, lost, unsure, dropped)
    BY <2>1 DEF TypeOK, Typed
  <2>3. Kept(rows, Elements(batch) \cup Elements(queue), captured, born, lost, unsure)
    <3>1. \A x \in Elements(rows), l \in Held : x < l \/ x \in unsure
      BY <2>1 DEF OrderKept, Elements
    <3>2. QED
      BY <1>l, <2>1, <3>1 DEF Conserved, OwnLines, Kept
  <2>4. InLine(batch, queue)
    BY <2>1, <2>2, IncreasingConcat DEF OrderKept, InLine, Typed
  <2>5. InOrder(rows, unsure)
    BY <2>1 DEF OrderKept, InOrder
  <2>6. dropped = Cardinality(DroppedSince(lost, born))
    BY <1>d, <2>1 DEF DropsCounted
  <2>7. LinedNow
    BY <2>2, <2>3, <2>4, <2>5, <2>6 DEF LinedNow, Lined
  <2>8. Placed /\ Bounded
    BY <2>1 DEF TypeOK, OwnLines, Placed, Bounded
  <2>9. QED
    BY <2>7, <2>8
<1>2. ASSUME LinedNow, Placed, Bounded PROVE IInv
  <2>1. /\ Typed(rows, queue, batch, captured, born, lost, unsure, dropped)
        /\ Kept(rows, Held, captured, born, lost, unsure)
        /\ InLine(batch, queue) /\ InOrder(rows, unsure)
        /\ dropped = Cardinality(DroppedSince(lost, born))
    BY <1>l, <1>2 DEF LinedNow, Lined
  <2>2. TypeOK
    BY <1>2, <2>1 DEF TypeOK, Typed, Placed, Bounded
  <2>3. Conserved
    <3>1. Elements(batch) \cap Elements(queue) = {}
      BY <1>2, LinedElements DEF LinedNow
    <3>2. QED
      BY <1>l, <2>1, <3>1 DEF Conserved, Kept
  <2>4. DropsCounted
    BY <1>d, <2>1 DEF DropsCounted
  <2>5. OrderKept
    <3>1. Increasing(batch \o queue)
      BY <2>1, IncreasingConcat DEF InLine, Typed
    <3>2. \A i \in DOMAIN rows : rows[i] \in Elements(rows)
      BY DEF Elements
    <3>3. \A i \in DOMAIN rows, l \in Held : rows[i] < l \/ rows[i] \in unsure
      BY <2>1, <3>2 DEF Kept
    <3>4. QED
      BY <2>1, <3>1, <3>3 DEF OrderKept, InOrder
  <2>6. OwnLines
    BY <1>2, <2>1 DEF OwnLines, Kept, Placed
  <2>7. QED
    BY <2>2, <2>3, <2>4, <2>5, <2>6 DEF IInv
<1>3. QED
  BY <1>1, <1>2

LEMMA InitLined == Init => LinedNow /\ Placed /\ Bounded
<1> SUFFICES ASSUME Init PROVE LinedNow /\ Placed /\ Bounded
  OBVIOUS
<1> USE DEF Init
<1>1. Placed
  BY DEF Placed
<1>2. Bounded
  BY BudgetAssumption DEF Bounded
<1>3. Typed(<<>>, <<>>, <<>>, 0, 0, {}, {}, 0)
  BY NoLines DEF Typed
<1>4. Firsts({}) = {} /\ DroppedSince({}, 0) = {} /\ 1..0 = {}
  BY DEF Firsts, DroppedSince
<1>5. Kept(<<>>, Elements(<<>>) \cup Elements(<<>>), 0, 0, {}, {})
  BY <1>4, NoLines DEF Kept
<1>6. InOrder(<<>>, {})
  BY DEF InOrder
<1>7. LinedNow
  BY <1>3, <1>4, <1>5, <1>6, NoLines, FS_EmptySet DEF LinedNow, Lined
<1>8. QED
  BY <1>1, <1>2, <1>7

(***************************************************************************)
(* The steps                                                               *)
(***************************************************************************)
LEMMA SpendType ==
    ASSUME NEW e \in Events, Spend(e), left \in [Events -> Nat]
    PROVE  left' \in [Events -> Nat]
<1>1. left[e] \in Nat /\ left[e] > 0
  BY DEF Spend
<1>2. left[e] - 1 \in Nat
  BY <1>1
<1>3. QED
  BY <1>2 DEF Spend

LEMMA FrontEmpty ==
    ASSUME NEW s \in Seq(Nat)
    PROVE  Front(Batch, s) = <<>> <=> s = <<>>
<1> DEFINE k == IF Batch < Len(s) THEN Batch ELSE Len(s)
<1>1. Len(s) \in Nat /\ k \in 0..Len(s) /\ (k = 0 <=> Len(s) = 0) /\ Batch \in Nat
  BY SizesNat, LenProperties
<1>2. s = <<>> <=> Len(s) = 0
  BY <1>1, EmptySeq
<1>3. Len(SubSeq(s, 1, k)) = k /\ SubSeq(s, 1, k) \in Seq(Nat)
  <2> HIDE DEF k
  <2>1. \A i \in 1..k : s[i] \in Nat
    BY <1>1, ElementsOf
  <2>2. QED
    BY <1>1, <2>1, SubSeqProperties
<1>4. Front(Batch, s) = SubSeq(s, 1, k)
  BY DEF Front
<1>5. QED
  <2> HIDE DEF k
  <2>1. SubSeq(s, 1, k) = <<>> <=> k = 0
    BY <1>1, <1>3, EmptySeq
  <2>2. QED
    BY <1>1, <1>2, <1>4, <2>1

LEMMA CaptureStep ==
    ASSUME NEW r, NEW q, NEW b, NEW bo, NEW un, NEW more,
           Lined(r, q, b, captured, bo, lost \cup more, un, dropped),
           Capture(q, more)
    PROVE  Lined(r, queue', b, captured', bo, lost', un, dropped')
<1> DEFINE lo == lost \cup more
<1>1. Lined(r, CapturedQueue(q, captured), b, captured + 1, bo, CapturedLost(q, lo), un,
            CapturedCount(q, dropped))
  <2> HIDE DEF lo
  <2>1. Lined(r, q, b, captured, bo, lo, un, dropped)
    BY DEF lo
  <2>2. QED
    BY <2>1, CaptureLined
<1>2. /\ captured' = captured + 1 /\ queue' = CapturedQueue(q, captured)
      /\ lost' = CapturedLost(q, lo) /\ dropped' = CapturedCount(q, dropped)
  BY DEF Capture, CapturedQueue, CapturedLost, CapturedCount
<1>3. QED
  BY <1>1, <1>2

\* A line is captured, and nothing else happens to the lines.
LEMMA LogsALine ==
    ASSUME LinedNow, Capture(queue, {}), UNCHANGED <<rows, batch, born, unsure>>
    PROVE  LinedNow'
<1>1. lost \cup {} = lost
  OBVIOUS
<1>2. Lined(rows, queue', batch, captured', born, lost', unsure, dropped')
  BY <1>1, CaptureStep DEF LinedNow
<1>3. QED
  BY <1>2 DEF LinedNow

LEMMA SameLines ==
    ASSUME LinedNow, UNCHANGED <<rows, batch, born, unsure, sinkVars>>
    PROVE  LinedNow'
  BY DEF LinedNow, sinkVars

LEMMA CapturedGrows ==
    ASSUME NEW q, NEW more, LinedNow, Bounded, Capture(q, more)
    PROVE  1..captured \subseteq 1..captured' /\ captured' \in 1..captured'
<1>1. captured \in Nat
  BY DEF LinedNow, Lined, Typed
<1>2. QED
  BY <1>1 DEF Capture

LEMMA RowsGrow ==
    ASSUME LinedNow, Committed
    PROVE  DOMAIN rows \subseteq DOMAIN rows'
<1>1. rows \in Seq(Nat) /\ batch \in Seq(Nat) /\ rows' = rows \o batch
  BY DEF LinedNow, Lined, Typed, Committed
<1>2. rows' \in Seq(Nat) /\ Len(rows') = Len(rows) + Len(batch)
  BY <1>1, ConcatProperties
<1>3. QED
  BY <1>1, <1>2, LenProperties

Good == LinedNow /\ Placed /\ Bounded

LEMMA LogGood ==
    ASSUME Good, Log \/ LogDangling PROVE Good'
<1>0. LinedNow /\ Placed /\ Bounded
  BY DEF Good
<1>1. Capture(queue, {}) /\ UNCHANGED <<tableVars, pc, batch, stopping, final, born, unsure>>
  BY DEF Log, LogDangling, historyVars
<1>2. LinedNow'
  BY <1>0, <1>1, LogsALine DEF tableVars
<1>3. Placed'
  BY <1>0, <1>1 DEF Placed, Log, LogDangling, Alive
<1>4. Bounded'
  <2>1. dangling' \subseteq 1..captured'
    <3>1. 1..captured \subseteq 1..captured' /\ captured' \in 1..captured'
      BY <1>0, <1>1, CapturedGrows
    <3>2. dangling' = dangling \/ dangling' = dangling \cup {captured'}
      BY DEF Log, LogDangling, historyVars
    <3>3. dangling \subseteq 1..captured
      BY <1>0 DEF Bounded
    <3>4. QED
      BY <3>1, <3>2, <3>3
  <2>2. left' \in [Events -> Nat]
    BY <1>0, SpendType DEF Bounded, Log, LogDangling, Events
  <2>3. QED
    BY <1>0, <1>1, <2>1, <2>2 DEF Bounded, tableVars
<1>5. QED
  BY <1>2, <1>3, <1>4 DEF Good

LEMMA BootGood ==
    ASSUME Good, Boot PROVE Good'
<1>0. LinedNow /\ Placed /\ Bounded
  BY DEF Good
<1>1. queue = <<>> /\ Capture(queue, {})
  BY <1>0 DEF Boot, Placed
<1>2. LinedNow'
  BY <1>0, <1>1, LogsALine DEF Boot, tableVars, historyVars
<1>3. Placed'
  BY <1>0 DEF Placed, Boot
<1>4. Bounded'
  <2>1. dangling' \subseteq 1..captured'
    BY <1>0, <1>1, CapturedGrows DEF Bounded, Boot, historyVars
  <2>2. QED
    BY <1>0, <2>1 DEF Bounded, Boot, tableVars
<1>5. QED
  BY <1>2, <1>3, <1>4 DEF Good

\* What is left where the process dies, with the lines of S unwritten.
LEMMA DiesPlaced ==
    ASSUME NEW S, Good, Dies(S)
    PROVE  Placed' /\ dangling' \subseteq 1..captured'
<1>0. LinedNow /\ Placed /\ Bounded
  BY DEF Good
<1>1. Placed'
  BY DEF Dies, Placed
<1>2. QED
  BY <1>0, <1>1 DEF Dies, Bounded

LEMMA CrashGood ==
    ASSUME Good, Crash PROVE Good'
<1>0. LinedNow /\ Placed /\ Bounded
  BY DEF Good
<1>l. left' \in [Events -> Nat]
  BY <1>0, SpendType DEF Bounded, Crash, Events
<1>1. CASE Dies(Elements(batch)) /\ UNCHANGED <<tableVars, unsure>>
  <2>1. Lined(rows, <<>>, <<>>, captured, captured,
              lost \cup LossOf(Elements(queue) \cup Elements(batch), "killed"), unsure, 0)
    BY <1>0, DieLined DEF LinedNow
  <2>2. lost' = lost \cup LossOf(Elements(queue) \cup Elements(batch), "killed")
    BY <1>1 DEF Dies, LossOf
  <2>3. LinedNow'
    BY <1>1, <2>1, <2>2 DEF LinedNow, Dies, tableVars
  <2>4. Bounded'
    BY <1>0, <1>1, <1>l, DiesPlaced DEF Bounded, tableVars
  <2>5. QED
    BY <1>1, <2>3, <2>4, DiesPlaced DEF Good
<1>2. CASE Dies({}) /\ rows' = rows \o batch /\ UNCHANGED <<aged, unsure>>
  <2>1. Lined(rows \o batch, queue, <<>>, captured, born, lost, unsure, dropped)
    BY <1>0, CommitLined DEF LinedNow
  <2>2. Lined(rows \o batch, <<>>, <<>>, captured, captured,
              lost \cup LossOf(Elements(queue) \cup Elements(<<>>), "killed"), unsure, 0)
    <3> DEFINE r == rows \o batch
    <3>1. Lined(r, queue, <<>>, captured, born, lost, unsure, dropped)
      BY <2>1
    <3> HIDE DEF r
    <3>2. Lined(r, <<>>, <<>>, captured, captured,
                lost \cup LossOf(Elements(queue) \cup Elements(<<>>), "killed"), unsure, 0)
      BY <3>1, DieLined
    <3>3. QED
      BY <3>2 DEF r
  <2>3. lost' = lost \cup LossOf(Elements(queue) \cup Elements(<<>>), "killed")
    <3>1. Elements(<<>>) = {}
      BY NoLines
    <3>2. lost' = lost \cup LossOf(Elements(queue) \cup {}, "killed")
      BY <1>2 DEF Dies, LossOf
    <3>3. QED
      BY <3>1, <3>2
  <2>4. LinedNow'
    BY <1>2, <2>2, <2>3 DEF LinedNow, Dies
  <2>5. Bounded'
    BY <1>0, <1>2, <1>l, DiesPlaced, RowsGrow DEF Bounded, Committed
  <2>6. QED
    BY <1>2, <2>4, <2>5, DiesPlaced DEF Good
<1>3. QED
  BY <1>1, <1>2 DEF Crash

LEMMA ExitGood ==
    ASSUME Good, Exit PROVE Good'
<1>0. LinedNow /\ Placed /\ Bounded
  BY DEF Good
<1>1. Dies({}) /\ UNCHANGED <<tableVars, unsure, left>> /\ batch = <<>>
  BY <1>0 DEF Exit, Placed
<1>2. Lined(rows, <<>>, <<>>, captured, captured,
            lost \cup LossOf(Elements(queue) \cup Elements(batch), "killed"), unsure, 0)
  BY <1>0, DieLined DEF LinedNow
<1>3. lost' = lost \cup LossOf(Elements(queue) \cup Elements(batch), "killed")
  BY <1>1, NoLines DEF Dies, LossOf
<1>4. LinedNow'
  BY <1>1, <1>2, <1>3 DEF LinedNow, Dies, tableVars
<1>5. Bounded'
  BY <1>0, <1>1, DiesPlaced DEF Bounded, tableVars
<1>6. QED
  BY <1>1, <1>4, <1>5, DiesPlaced DEF Good

LEMMA StopGood ==
    ASSUME Good, Stop PROVE Good'
<1>0. LinedNow /\ Placed /\ Bounded
  BY DEF Good
<1>1. LinedNow'
  BY <1>0, SameLines DEF Stop, tableVars, historyVars
<1>2. Placed'
  BY <1>0 DEF Placed, Stop, sinkVars
<1>3. Bounded'
  BY <1>0, SpendType DEF Bounded, Stop, tableVars, sinkVars, historyVars, Events
<1>4. QED
  BY <1>1, <1>2, <1>3 DEF Good

\* The writer moves on without a line having changed hands.
LEMMA StillGood ==
    ASSUME Good, UNCHANGED <<tableVars, sinkVars, batch, historyVars, unsure>>,
           Placed', left' \in [Events -> Nat]
    PROVE  Good'
<1>0. LinedNow /\ Placed /\ Bounded
  BY DEF Good
<1>1. LinedNow'
  BY <1>0, SameLines DEF tableVars, historyVars
<1>2. Bounded'
  BY <1>0 DEF Bounded, tableVars, sinkVars, historyVars
<1>3. QED
  BY <1>1, <1>2 DEF Good

LEMMA MovesGood ==
    ASSUME Good, FirstPruneFails \/ Unlink \/ Wake \/ LoopEnds
                 \/ (pc \in {"first", "pruning"} /\ \E next \in {"loop", "asleep"} : PruneNothing(next))
    PROVE  Good'
<1>0. LinedNow /\ Placed /\ Bounded
  BY DEF Good
<1>1. CASE FirstPruneFails
  <2>1. Placed' /\ left' \in [Events -> Nat]
    BY <1>0, <1>1, SpendType DEF FirstPruneFails, Goto, WriterStep, Placed, Bounded, Events, sinkVars
  <2>2. QED
    BY <1>1, <2>1, StillGood DEF FirstPruneFails, Goto, WriterStep
<1>2. CASE Unlink
  <2>1. Placed' /\ left' \in [Events -> Nat]
    BY <1>0, <1>2 DEF Unlink, Goto, WriterStep, Placed, Bounded, sinkVars
  <2>2. QED
    BY <1>2, <2>1, StillGood DEF Unlink, Goto, WriterStep
<1>3. CASE Wake
  <2>1. Placed' /\ left' \in [Events -> Nat]
    BY <1>0, <1>3 DEF Wake, Goto, WriterStep, Placed, Bounded, sinkVars
  <2>2. QED
    BY <1>3, <2>1, StillGood DEF Wake, Goto, WriterStep
<1>4. CASE LoopEnds
  <2>1. Placed' /\ left' \in [Events -> Nat]
    BY <1>0, <1>4 DEF LoopEnds, Goto, WriterStep, Placed, Bounded, sinkVars
  <2>2. QED
    BY <1>4, <2>1, StillGood DEF LoopEnds, Goto, WriterStep
<1>5. ASSUME pc \in {"first", "pruning"}, NEW next \in {"loop", "asleep"}, PruneNothing(next)
      PROVE  Good'
  <2>1. Placed' /\ left' \in [Events -> Nat]
    BY <1>0, <1>5 DEF PruneNothing, Goto, WriterStep, Placed, Bounded, sinkVars
  <2>2. QED
    BY <1>5, <2>1, StillGood DEF PruneNothing, Goto, WriterStep
<1>6. QED
  BY <1>1, <1>2, <1>3, <1>4, <1>5

LEMMA PruneGood ==
    ASSUME Good, pc \in {"first", "pruning"}, NEW next \in {"loop", "asleep"}, Prune(next)
    PROVE  Good'
<1>0. LinedNow /\ Placed /\ Bounded
  BY DEF Good
<1>1. Capture(queue, {}) /\ UNCHANGED <<rows, batch, born, unsure, final, stopping, dangling>>
  BY DEF Prune, Goto, WriterStep, historyVars
<1>2. LinedNow'
  BY <1>0, <1>1, LogsALine
<1>3. Placed'
  BY <1>0, <1>1 DEF Placed, Prune, Goto
<1>4. Bounded'
  <2>1. dangling' \subseteq 1..captured'
    BY <1>0, <1>1, CapturedGrows DEF Bounded
  <2>2. left' \in [Events -> Nat]
    BY <1>0, SpendType DEF Bounded, Prune, Events
  <2>3. aged' \subseteq DOMAIN rows'
    BY <1>0, <1>1 DEF Bounded, Prune, Prunable
  <2>4. QED
    BY <2>1, <2>2, <2>3 DEF Bounded
<1>5. QED
  BY <1>2, <1>3, <1>4 DEF Good

LEMMA PruneFailsGood ==
    ASSUME Good, PruneFails PROVE Good'
<1>0. LinedNow /\ Placed /\ Bounded
  BY DEF Good
<1>1. Capture(queue, {}) /\ UNCHANGED <<tableVars, batch, born, unsure, final, stopping, dangling>>
  BY DEF PruneFails, Goto, WriterStep, historyVars
<1>2. LinedNow'
  BY <1>0, <1>1, LogsALine DEF tableVars
<1>3. Placed'
  BY <1>0, <1>1 DEF Placed, PruneFails, Goto
<1>4. Bounded'
  BY <1>0, <1>1, CapturedGrows, SpendType DEF Bounded, PruneFails, Events, tableVars
<1>5. QED
  BY <1>2, <1>3, <1>4 DEF Good

LEMMA StoppedGood ==
    ASSUME Good, Stopped PROVE Good'
<1>0. LinedNow /\ Placed /\ Bounded
  BY DEF Good
<1>1. Capture(queue, {}) /\ UNCHANGED <<tableVars, batch, born, unsure, final, stopping, dangling, left>>
  BY DEF Stopped, Goto, WriterStep, historyVars
<1>2. LinedNow'
  BY <1>0, <1>1, LogsALine DEF tableVars
<1>3. Placed'
  BY <1>0, <1>1 DEF Placed, Stopped, Goto
<1>4. Bounded'
  BY <1>0, <1>1, CapturedGrows DEF Bounded, tableVars
<1>5. QED
  BY <1>2, <1>3, <1>4 DEF Good

LEMMA DrainGood ==
    ASSUME Good, Flush \/ FinalFlush PROVE Good'
<1>0. LinedNow /\ Placed /\ Bounded
  BY DEF Good
<1>1. PICK nothing \in {"pruning", "flushed"} : Drain(nothing)
  BY DEF Flush, FinalFlush
<1>2. batch = <<>> /\ queue \in Seq(Nat)
  BY <1>0 DEF Flush, FinalFlush, Placed, LinedNow, Lined, Typed
<1>3. LinedNow'
  <2>1. Lined(rows, queue, <<>>, captured, born, lost, unsure, dropped)
    BY <1>0, <1>2 DEF LinedNow
  <2>2. Lined(rows, After(Batch, queue), Front(Batch, queue), captured, born, lost, unsure, dropped)
    BY <2>1, DrainLined
  <2>3. QED
    BY <1>1, <2>2 DEF LinedNow, Drain, WriterStep, tableVars, historyVars
<1>4. Placed'
  <2>1. batch' = <<>> <=> queue = <<>>
    <3>1. batch' = Front(Batch, queue)
      BY <1>1 DEF Drain
    <3>2. QED
      BY <1>2, <3>1, FrontEmpty
  <2>2. stopping' = stopping /\ final' \in BOOLEAN /\ (final' => stopping)
    <3>1. stopping' = stopping
      BY <1>1 DEF Drain, WriterStep
    <3>2. final \in BOOLEAN /\ (final => stopping)
      BY <1>0 DEF Placed
    <3>3. CASE Flush
      <4>1. final' = final
        BY <3>3 DEF Flush
      <4>2. QED
        BY <3>1, <3>2, <4>1
    <3>4. CASE FinalFlush
      <4>1. final' = TRUE /\ pc = "ended"
        BY <3>4 DEF FinalFlush
      <4>2. stopping
        BY <1>0, <4>1 DEF Placed
      <4>3. QED
        BY <3>1, <4>1, <4>2
    <3>5. QED
      BY <3>3, <3>4
  <2>3. pc' = IF queue = <<>> THEN nothing ELSE "inserting"
    BY <1>1 DEF Drain
  <2>5. stopping' \in BOOLEAN
    BY <1>0, <2>2 DEF Placed
  <2>6. pc' \in {"pruning", "flushed", "inserting"} /\ (batch' # <<>> <=> pc' = "inserting")
    <3>1. CASE queue = <<>>
      <4>1. pc' = nothing /\ batch' = <<>>
        BY <2>1, <2>3, <3>1
      <4>2. QED
        BY <4>1
    <3>2. CASE queue # <<>>
      <4>1. pc' = "inserting" /\ batch' # <<>>
        BY <2>1, <2>3, <3>2
      <4>2. QED
        BY <4>1
    <3>3. QED
      BY <3>1, <3>2
  <2>7. QED
    BY <2>2, <2>5, <2>6 DEF Placed
<1>5. Bounded'
  BY <1>0, <1>1 DEF Bounded, Drain, WriterStep, tableVars, historyVars
<1>6. QED
  BY <1>3, <1>4, <1>5 DEF Good

\* The writer returns: it holds nothing, and does not return to the process's end.
LEMMA ReturnsPlaced ==
    ASSUME NEW next \in {"pruning", "asleep"}, Placed, Returns(next), UNCHANGED stopping
    PROVE  Placed'
<1>1. batch' = <<>> /\ pc' \in {"flushed", "pruning", "asleep"} /\ UNCHANGED <<final, stopping>>
  BY DEF Returns
<1>2. QED
  BY <1>1 DEF Placed

LEMMA InsertedGood ==
    ASSUME Good, Inserted PROVE Good'
<1>0. LinedNow /\ Placed /\ Bounded
  BY DEF Good
<1>1. Lined(rows \o batch, queue, <<>>, captured, born, lost, unsure, dropped)
  BY <1>0, CommitLined DEF LinedNow
<1>2. LinedNow'
  BY <1>1 DEF LinedNow, Inserted, Committed, Returns, WriterStep, sinkVars, historyVars
<1>3. Placed'
  BY <1>0, ReturnsPlaced DEF Inserted, WriterStep
<1>4. Bounded'
  BY <1>0, RowsGrow DEF Bounded, Inserted, Committed, WriterStep, sinkVars, historyVars
<1>5. QED
  BY <1>2, <1>3, <1>4 DEF Good

LEMMA UnlinkedInsertedGood ==
    ASSUME Good, UnlinkedInserted PROVE Good'
<1>0. LinedNow /\ Placed /\ Bounded
  BY DEF Good
<1>u. Capture(queue, {}) /\ rows' = rows \o batch /\ batch' = <<>>
      /\ UNCHANGED <<aged, unsure, born, dangling, stopping, left>>
  BY DEF UnlinkedInserted, Committed, Returns, WriterStep, historyVars
<1>1. Lined(rows \o batch, queue, <<>>, captured, born, lost, unsure, dropped)
  BY <1>0, CommitLined DEF LinedNow
<1>2. LinedNow'
  <2> DEFINE r == rows \o batch
             b == <<>>
  <2>1. Lined(r, queue, b, captured, born, lost \cup {}, unsure, dropped)
    BY <1>1
  <2>2. Lined(r, queue', b, captured', born, lost', unsure, dropped')
    <3> HIDE DEF r, b
    <3>1. QED
      BY <1>u, <2>1, CaptureStep
  <2>3. QED
    BY <1>u, <2>2 DEF LinedNow
<1>3. Placed'
  BY <1>0, ReturnsPlaced DEF UnlinkedInserted, WriterStep
<1>4. Bounded'
  <2>1. dangling' \subseteq 1..captured'
    BY <1>0, <1>u, CapturedGrows DEF Bounded
  <2>2. DOMAIN rows \subseteq DOMAIN rows'
    BY <1>0, <1>u, RowsGrow DEF Committed
  <2>3. QED
    BY <1>0, <1>u, <2>1, <2>2 DEF Bounded
<1>5. QED
  BY <1>2, <1>3, <1>4 DEF Good

\* An error of the database, with the commit made or not.
LEMMA FailsLined ==
    ASSUME Good, Fails
    PROVE  /\ Lined(rows', queue, batch, captured, born, lost, unsure', dropped)
           /\ aged' = aged /\ DOMAIN rows \subseteq DOMAIN rows' /\ left' \in [Events -> Nat]
<1>0. LinedNow /\ Placed /\ Bounded
  BY DEF Good
<1>1. CASE Spend("dberror") /\ UNCHANGED <<tableVars, unsure>>
  BY <1>0, <1>1, SpendType DEF LinedNow, tableVars, Bounded, Events
<1>2. CASE Spend("lostack") /\ Committed /\ unsure' = unsure \cup Elements(batch)
  <2>1. Lined(rows \o batch, queue, batch, captured, born, lost, unsure \cup Elements(batch),
              dropped)
    BY <1>0, UnsureLined DEF LinedNow
  <2>2. rows' = rows \o batch /\ aged' = aged
    BY <1>2 DEF Committed
  <2>3. Lined(rows', queue, batch, captured, born, lost, unsure', dropped)
    BY <1>2, <2>1, <2>2
  <2>4. left' \in [Events -> Nat]
    BY <1>0, <1>2, SpendType DEF Bounded, Events
  <2>5. QED
    BY <1>0, <1>2, <2>2, <2>3, <2>4, RowsGrow
<1>3. QED
  BY <1>1, <1>2 DEF Fails

\* What is reported of a failed batch, of which q is left in the sink and `more` was lost.
LEMMA ReportLined ==
    ASSUME NEW q, NEW more, Report(q, more),
           Lined(rows', q, <<>>, captured, born, lost \cup more, unsure', dropped),
           Bounded, LinedNow
    PROVE  /\ Lined(rows', queue', <<>>, captured', born, lost', unsure', dropped')
           /\ 1..captured \subseteq 1..captured'
<1>1. CASE final
  <2>1. queue' = q /\ lost' = lost \cup more /\ UNCHANGED <<dropped, captured>>
    BY <1>1 DEF Report
  <2>2. QED
    BY <2>1
<1>2. CASE ~final
  <2>1. Capture(q, more)
    BY <1>2 DEF Report
  <2> DEFINE r == rows'
             b == <<>>
             u == unsure'
  <2>2. Lined(r, q, b, captured, born, lost \cup more, u, dropped)
    OBVIOUS
  <2>3. Lined(r, queue', b, captured', born, lost', u, dropped')
    <3> HIDE DEF r, b, u
    <3>1. QED
      BY <2>1, <2>2, CaptureStep
  <2>4. QED
    BY <2>1, <2>3, CapturedGrows
<1>3. QED
  BY <1>1, <1>2

\* A batch that failed is out of the writer's hands.
LEMMA FailedGood ==
    ASSUME Good, Fails, Returns("asleep"), WriterStep, NEW q, NEW more, Report(q, more),
           Lined(rows', q, <<>>, captured, born, lost \cup more, unsure', dropped)
    PROVE  Good'
<1>0. LinedNow /\ Placed /\ Bounded
  BY DEF Good
<1>1. /\ Lined(rows', queue', <<>>, captured', born, lost', unsure', dropped')
      /\ 1..captured \subseteq 1..captured'
  BY <1>0, ReportLined
<1>2. batch' = <<>> /\ UNCHANGED <<stopping, born, dangling>>
  BY DEF Returns, WriterStep, historyVars
<1>3. LinedNow'
  BY <1>1, <1>2 DEF LinedNow
<1>4. Placed'
  BY <1>0, <1>2, ReturnsPlaced
<1>5. aged' = aged /\ DOMAIN rows \subseteq DOMAIN rows' /\ left' \in [Events -> Nat]
  BY FailsLined
<1>6. Bounded'
  BY <1>0, <1>1, <1>2, <1>5 DEF Bounded
<1>7. QED
  BY <1>3, <1>4, <1>6 DEF Good

LEMMA InsertFailsGood ==
    ASSUME Good, InsertFails PROVE Good'
<1> DEFINE r == rows'
           u == unsure'
<1>1. Lined(r, queue, batch, captured, born, lost, u, dropped)
  BY FailsLined DEF InsertFails
<1>2. Lined(r, Front(Capacity, batch \o queue), <<>>, captured, born,
            lost \cup LossOf(Elements(After(Capacity, batch \o queue)), "pushed out"), u, dropped)
  <2> HIDE DEF r, u
  <2>1. QED
    BY <1>1, PutBackLined
<1>3. PutBack = Front(Capacity, batch \o queue)
      /\ PushedOut = LossOf(Elements(After(Capacity, batch \o queue)), "pushed out")
  BY DEF PutBack, PushedOut, LossOf
<1>4. Lined(rows', PutBack, <<>>, captured, born, lost \cup PushedOut, unsure', dropped)
  BY <1>2, <1>3
<1>5. Fails /\ Returns("asleep") /\ WriterStep /\ Report(PutBack, PushedOut)
  BY DEF InsertFails
<1>6. QED
  BY <1>4, <1>5, FailedGood

LEMMA UnlinkFailsGood ==
    ASSUME Good, UnlinkFails PROVE Good'
<1> DEFINE r == rows'
           u == unsure'
           more == LossOf(Elements(batch), "abandoned")
<1>1. Lined(r, queue, batch, captured, born, lost, u, dropped)
  BY FailsLined DEF UnlinkFails
<1>2. Lined(r, queue, <<>>, captured, born, lost \cup LossOf(Elements(batch), "abandoned"),
            u, dropped)
  <2> HIDE DEF r, u
  <2>1. QED
    BY <1>1, AbandonLined
<1>3. more = {<<l, "abandoned">> : l \in Elements(batch)}
  BY DEF LossOf
<1>4. Lined(rows', queue, <<>>, captured, born, lost \cup more, unsure', dropped)
  BY <1>2
<1>5. Fails /\ Returns("asleep") /\ WriterStep /\ Report(queue, more)
  BY <1>3 DEF UnlinkFails
<1>6. QED
  <2> HIDE DEF more
  <2>1. QED
    BY <1>4, <1>5, FailedGood

LEMMA StopGivesUpGood ==
    ASSUME Good, StopGivesUp PROVE Good'
<1>0. LinedNow /\ Placed /\ Bounded
  BY DEF Good
<1>u. batch' = <<>> /\ UNCHANGED <<queue, dropped, captured, final, unsure, left, stopping,
                                   born, dangling>>
  BY DEF StopGivesUp, WriterStep, historyVars
<1>p. Placed'
  BY <1>0, <1>u DEF StopGivesUp, Placed
<1>1. CASE lost' = lost \cup {<<l, "abandoned">> : l \in Elements(batch)} /\ UNCHANGED tableVars
  <2>1. Lined(rows, queue, <<>>, captured, born, lost \cup LossOf(Elements(batch), "abandoned"),
              unsure, dropped)
    BY <1>0, AbandonLined DEF LinedNow
  <2>2. LinedNow'
    BY <1>u, <1>1, <2>1 DEF LinedNow, LossOf, tableVars
  <2>3. Bounded'
    BY <1>0, <1>u, <1>1 DEF Bounded, tableVars
  <2>4. QED
    BY <1>p, <2>2, <2>3 DEF Good
<1>2. CASE Committed /\ UNCHANGED lost
  <2>1. Lined(rows \o batch, queue, <<>>, captured, born, lost, unsure, dropped)
    BY <1>0, CommitLined DEF LinedNow
  <2>2. LinedNow'
    BY <1>u, <1>2, <2>1 DEF LinedNow, Committed
  <2>3. DOMAIN rows \subseteq DOMAIN rows' /\ aged' = aged
    BY <1>0, <1>2, RowsGrow DEF Committed
  <2>4. Bounded'
    BY <1>0, <1>u, <2>3 DEF Bounded
  <2>5. QED
    BY <1>p, <2>2, <2>4 DEF Good
<1>3. QED
  BY <1>1, <1>2 DEF StopGivesUp

LEMMA ExportGood ==
    ASSUME Good, ExportBegin \/ ExportChunk PROVE Good'
<1>0. LinedNow /\ Placed /\ Bounded
  BY DEF Good
<1>1. UNCHANGED <<tableVars, sinkVars, pc, batch, stopping, final, historyVars, unsure>>
  BY DEF ExportBegin, ExportChunk, ExportStep
<1>2. Placed'
  BY <1>0, <1>1 DEF Placed, sinkVars
<1>3. left' \in [Events -> Nat]
  BY <1>0, SpendType DEF Bounded, ExportBegin, ExportChunk, Events
<1>4. QED
  BY <1>1, <1>2, <1>3, StillGood

LEMMA StepGood ==
    ASSUME Good, [Next]_vars PROVE Good'
<1>1. CASE UNCHANGED vars
  <2>1. Placed' /\ left' \in [Events -> Nat]
    BY <1>1 DEF Good, Placed, Bounded, vars, sinkVars
  <2>2. QED
    BY <1>1, <2>1, StillGood DEF vars
<1>2. CASE Log \/ LogDangling \/ Boot \/ Stop \/ Exit
  BY <1>2, LogGood, BootGood, StopGood, ExitGood
<1>3. CASE Writer
  <2>1. CASE FirstPrune \/ PruneStep
    BY <2>1, PruneGood, MovesGood DEF FirstPrune, PruneStep
  <2>2. QED
    BY <1>3, <2>1, DrainGood, InsertedGood, MovesGood, UnlinkedInsertedGood, StoppedGood
       DEF Writer
<1>4. CASE Failure
  BY <1>4, MovesGood, InsertFailsGood, UnlinkFailsGood, PruneFailsGood, StopGivesUpGood,
     CrashGood DEF Failure
<1>5. CASE ExportBegin \/ ExportChunk
  BY <1>5, ExportGood
<1>6. QED
  BY <1>1, <1>2, <1>3, <1>4, <1>5 DEF Next

(***************************************************************************)
(* Theorems                                                                *)
(***************************************************************************)
\* For every size of the sink and the batch: no line is lost without a name, the losses a
\* process reports are its own, and the table is in the order of the log calls.
THEOREM LogInvariance == Spec => []IInv
<1>1. Init => Good
  BY InitLined DEF Good
<1>2. Good /\ [Next]_vars => Good'
  BY StepGood
<1>3. Good => IInv
  BY IInvIsLined DEF Good
<1>4. QED
  BY <1>1, <1>2, <1>3, PTL DEF Spec

(***************************************************************************)
(* The export                                                              *)
(***************************************************************************)
Decreasing(s) == \A i, j \in DOMAIN s : i < j => s[i] > s[j]

LEMMA DecreasingConcat ==
    ASSUME NEW s \in Seq(Nat), NEW t \in Seq(Nat)
    PROVE  Decreasing(s \o t) <=> /\ Decreasing(s) /\ Decreasing(t)
                                  /\ \A x \in Elements(s), y \in Elements(t) : x > y
<1>1. /\ Len(s \o t) = Len(s) + Len(t) /\ Len(s) \in Nat /\ Len(t) \in Nat
      /\ DOMAIN (s \o t) = 1..Len(s) + Len(t) /\ DOMAIN s = 1..Len(s) /\ DOMAIN t = 1..Len(t)
  BY ConcatProperties, LenProperties
<1>2. \A i \in 1..Len(s) + Len(t) : (s \o t)[i] = IF i <= Len(s) THEN s[i] ELSE t[i - Len(s)]
  BY ConcatProperties
<1>3. ASSUME Decreasing(s \o t)
      PROVE  /\ Decreasing(s) /\ Decreasing(t)
             /\ \A x \in Elements(s), y \in Elements(t) : x > y
  <2>0. \A i, j \in 1..Len(s) + Len(t) : i < j => (s \o t)[i] > (s \o t)[j]
    BY <1>1, <1>3 DEF Decreasing
  <2>1. ASSUME NEW i \in 1..Len(s), NEW j \in 1..Len(s), i < j PROVE s[i] > s[j]
    <3>1. /\ i \in 1..Len(s) + Len(t) /\ j \in 1..Len(s) + Len(t)
          /\ (s \o t)[i] = s[i] /\ (s \o t)[j] = s[j]
      BY <1>1, <1>2, <2>1
    <3>2. QED
      BY <2>0, <2>1, <3>1
  <2>2. ASSUME NEW i \in 1..Len(t), NEW j \in 1..Len(t), i < j PROVE t[i] > t[j]
    <3>1. /\ Len(s) + i \in 1..Len(s) + Len(t) /\ Len(s) + j \in 1..Len(s) + Len(t)
          /\ Len(s) + i < Len(s) + j
          /\ (s \o t)[Len(s) + i] = t[i] /\ (s \o t)[Len(s) + j] = t[j]
      BY <1>1, <1>2, <2>2
    <3>2. QED
      BY <2>0, <3>1
  <2>3. ASSUME NEW i \in 1..Len(s), NEW j \in 1..Len(t) PROVE s[i] > t[j]
    <3>1. /\ i \in 1..Len(s) + Len(t) /\ Len(s) + j \in 1..Len(s) + Len(t)
          /\ i < Len(s) + j
          /\ (s \o t)[i] = s[i] /\ (s \o t)[Len(s) + j] = t[j]
      BY <1>1, <1>2
    <3>2. QED
      BY <2>0, <3>1
  <2>4. QED
    BY <1>1, <2>1, <2>2, <2>3 DEF Decreasing, Elements
<1>4. ASSUME Decreasing(s), Decreasing(t), \A x \in Elements(s), y \in Elements(t) : x > y
      PROVE  Decreasing(s \o t)
  <2>1. ASSUME NEW i \in 1..Len(s) + Len(t), NEW j \in 1..Len(s) + Len(t), i < j
        PROVE  (s \o t)[i] > (s \o t)[j]
    <3>1. CASE j <= Len(s)
      <4>1. i \in 1..Len(s) /\ j \in 1..Len(s) /\ (s \o t)[i] = s[i] /\ (s \o t)[j] = s[j]
        BY <1>1, <1>2, <2>1, <3>1
      <4>2. QED
        BY <1>1, <1>4, <2>1, <4>1 DEF Decreasing
    <3>2. CASE i > Len(s)
      <4>1. /\ i - Len(s) \in 1..Len(t) /\ j - Len(s) \in 1..Len(t) /\ i - Len(s) < j - Len(s)
            /\ (s \o t)[i] = t[i - Len(s)] /\ (s \o t)[j] = t[j - Len(s)]
        BY <1>1, <1>2, <2>1, <3>2
      <4>2. QED
        BY <1>1, <1>4, <4>1 DEF Decreasing
    <3>3. CASE i <= Len(s) /\ j > Len(s)
      <4>1. /\ i \in 1..Len(s) /\ j - Len(s) \in 1..Len(t)
            /\ (s \o t)[i] = s[i] /\ (s \o t)[j] = t[j - Len(s)]
        BY <1>1, <1>2, <2>1, <3>3
      <4>2. s[i] \in Elements(s) /\ t[j - Len(s)] \in Elements(t)
        BY <4>1, ElementsOf
      <4>3. QED
        BY <1>4, <4>1, <4>2
    <3>4. QED
      BY <1>1, <3>1, <3>2, <3>3
  <2>2. QED
    BY <1>1, <2>1 DEF Decreasing
<1>5. QED
  BY <1>3, <1>4


\* What a sorted list of a set begins with, and what is left of it.
LEMMA ChunkOf ==
    ASSUME NEW S \in SUBSET Nat, IsFiniteSet(S), NEW s \in Descending(S)
    PROVE  /\ s \in Seq(Nat) /\ Elements(s) = S /\ Decreasing(s)
           /\ Front(Chunk, s) \in Seq(Nat) /\ Elements(Front(Chunk, s)) \subseteq S
           /\ Decreasing(Front(Chunk, s))
           /\ Len(s) < Chunk => Elements(Front(Chunk, s)) = S
           /\ Len(s) >= Chunk => /\ Front(Chunk, s) # <<>>
                                /\ \A x \in Elements(Front(Chunk, s)), y \in S :
                                      x > y \/ y \in Elements(Front(Chunk, s))
<1> DEFINE n == Cardinality(S)
           f == Front(Chunk, s)
           a == After(Chunk, s)
<1>1. n \in Nat /\ s \in [1..n -> S]
  BY FS_CardinalityType DEF Descending
<1>2. \A i, j \in 1..n : i < j => s[i] > s[j]
  BY <1>1 DEF Descending
<1>3. s \in Seq(Nat) /\ Len(s) = n
  <2> HIDE DEF n
  <2>1. \A i \in 1..n : s[i] \in Nat
    BY <1>1
  <2>2. s = [i \in 1..n |-> s[i]] /\ DOMAIN s = 1..n
    BY <1>1
  <2>3. s \in [1..n -> Nat]
    BY <1>1
  <2>4. QED
    BY <1>1, <2>2, <2>3
<1>4. Elements(s) = S
  <2>1. s \in Injection(1..n, S)
    <3>1. ASSUME NEW i \in 1..n, NEW j \in 1..n, s[i] = s[j] PROVE i = j
      <4> HIDE DEF n
      <4>0. \A k \in 1..n : s[k] \in S /\ k \in Int
        BY <1>1
      <4>1. s[i] \in Nat /\ i \in Int /\ j \in Int
        BY <4>0
      <4>2. ~(i < j) /\ ~(j < i)
        BY <1>2, <3>1, <4>1
      <4>3. QED
        BY <4>1, <4>2
    <3>2. QED
      BY <1>1, <3>1 DEF Injection, IsInjective
  <2>2. Cardinality(1..n) = Cardinality(S)
    <3>1. Cardinality(1..n) = n
      <4> HIDE DEF n
      <4>1. QED
        BY <1>1, FS_Interval
    <3>2. QED
      BY <3>1
  <2>3. s \in Surjection(1..n, S)
    <3> DEFINE D == 1..n
    <3>1. s \in Injection(D, S) /\ Cardinality(D) = Cardinality(S)
      BY <2>1, <2>2
    <3>2. s \in Surjection(D, S)
      <4>0. IsFiniteSet(S)
        OBVIOUS
      <4> HIDE DEF D, n
      <4>1. Cardinality(D) = Cardinality(S) <=> s \in Surjection(D, S)
        BY <3>1, <4>0, FS_Injection
      <4>2. QED
        BY <3>1, <4>1
    <3>3. QED
      BY <3>2
  <2>4. \A x \in S : \E i \in 1..n : s[i] = x
    BY <2>3 DEF Surjection
  <2> HIDE DEF n
  <2>5. QED
    BY <1>1, <2>4 DEF Elements
<1>5. Decreasing(s)
  <2> HIDE DEF n
  <2>1. QED
    BY <1>1, <1>2 DEF Decreasing
<1>6. f \in Seq(Nat) /\ a \in Seq(Nat) /\ f \o a = s
  BY <1>3, SizesNat, CutInTwo
<1>7. /\ Elements(s) = Elements(f) \cup Elements(a)
      /\ Decreasing(f) /\ \A x \in Elements(f), y \in Elements(a) : x > y
  <2> HIDE DEF f, a
  <2>1. Elements(f \o a) = Elements(f) \cup Elements(a)
    BY <1>6, ElementsConcat
  <2>2. Decreasing(f \o a) <=> /\ Decreasing(f) /\ Decreasing(a)
                              /\ \A x \in Elements(f), y \in Elements(a) : x > y
    BY <1>6, DecreasingConcat
  <2>3. QED
    BY <1>5, <1>6, <2>1, <2>2
<1>8. ASSUME Len(s) < Chunk PROVE Elements(f) = S
  <2>1. Chunk + 1 \in Int /\ Len(s) \in Int /\ Len(s) < Chunk + 1
    BY <1>3, <1>8, LenProperties, SizesNat
  <2>2. a = <<>>
    BY <2>1, SubSeqEmpty DEF After
  <2>3. QED
    <3> HIDE DEF f
    <3>1. QED
      BY <1>4, <1>7, <2>2, NoLines
<1>9. ASSUME Len(s) >= Chunk PROVE f # <<>>
  <2> DEFINE k == IF Chunk < Len(s) THEN Chunk ELSE Len(s)
  <2>1. k = Chunk /\ Chunk \in Nat /\ Chunk >= 1 /\ Len(s) \in Nat
    BY <1>3, <1>9, SizesNat, LenProperties
  <2>2. f = SubSeq(s, 1, Chunk)
    BY <2>1 DEF Front
  <2>3. \A i \in 1..Chunk : s[i] \in Nat
    BY <1>3, <1>9, <2>1, ElementsOf
  <2>4. Len(SubSeq(s, 1, Chunk)) = Chunk
    <3>1. 1 \in Int /\ Chunk \in Int
      BY <2>1
    <3>2. QED
      BY <2>1, <2>3, <3>1, SubSeqProperties
  <2>5. QED
    <3> HIDE DEF f, k
    <3>1. Len(f) >= 1
      BY <2>1, <2>2, <2>4
    <3>2. QED
      BY <3>1, NoLines, ElementsEmpty
<1>10. QED
  <2> HIDE DEF f, a, n
  <2>1. /\ Elements(f) \subseteq S
        /\ \A x \in Elements(f), y \in S : x > y \/ y \in Elements(f)
    BY <1>4, <1>7
  <2>2. QED
    BY <1>3, <1>4, <1>5, <1>6, <1>7, <1>8, <1>9, <2>1 DEF f

LEMMA LastOfConcat ==
    ASSUME NEW s \in Seq(Nat), NEW t \in Seq(Nat), t # <<>>
    PROVE  s \o t # <<>> /\ (s \o t)[Len(s \o t)] \in Elements(t)
<1>1. Len(s) \in Nat /\ Len(t) \in Nat /\ Len(t) >= 1 /\ Len(s \o t) = Len(s) + Len(t)
      /\ s \o t \in Seq(Nat)
  BY EmptySeq, LenProperties, ConcatProperties
<1>2. (s \o t)[Len(s) + Len(t)] = t[Len(t)]
  <2>1. \A i \in 1..Len(s) + Len(t) : (s \o t)[i] = IF i <= Len(s) THEN s[i] ELSE t[i - Len(s)]
    BY ConcatProperties
  <2>2. Len(s) + Len(t) \in 1..Len(s) + Len(t) /\ ~(Len(s) + Len(t) <= Len(s))
        /\ Len(s) + Len(t) - Len(s) = Len(t)
    BY <1>1
  <2>3. QED
    BY <2>1, <2>2
<1>3. t[Len(t)] \in Elements(t)
  <2>1. Len(t) \in 1..Len(t)
    BY <1>1
  <2>2. QED
    BY <2>1, ElementsOf
<1>4. Len(<<>>) = 0
  BY ElementsEmpty
<1>5. QED
  BY <1>1, <1>2, <1>3, <1>4

\* What the export under way has shown is in order, and each row that was there when it
\* began and was not pruned has been shown or is still to come.
Shown ==
    export # None =>
       /\ export \in [got : Seq(Nat), there : SUBSET Nat, done : BOOLEAN]
       /\ export.there \subseteq DOMAIN rows /\ Decreasing(export.got)
       /\ \A i \in export.there \ aged :
             i \in Elements(export.got) \/ (~export.done /\ i \in ToCome)

LEMMA ShownIsExact == Shown => ExportIsExact
  BY DEF Shown, ExportIsExact, Decreasing

\* Rows are added and pruned behind the export's back.
LEMMA ShownAmongWrites ==
    ASSUME Shown, export' = export \/ export' = None,
           DOMAIN rows \subseteq DOMAIN rows', aged \subseteq aged'
    PROVE  Shown'
<1>1. CASE export' = None
  BY <1>1 DEF Shown
<1>2. CASE export' = export /\ export # None
  <2>1. /\ export \in [got : Seq(Nat), there : SUBSET Nat, done : BOOLEAN]
        /\ export.there \subseteq DOMAIN rows /\ Decreasing(export.got)
        /\ \A i \in export.there \ aged :
              i \in Elements(export.got) \/ (~export.done /\ i \in ToCome)
    BY <1>2 DEF Shown
  <2>2. ASSUME NEW i \in export.there \ aged'
        PROVE  i \in Elements(export.got) \/ (~export.done /\ i \in ToCome')
    <3>1. i \in export.there \ aged /\ i \in DOMAIN rows' \ aged'
      BY <2>1
    <3>2. CASE i \in Elements(export.got)
      BY <3>2
    <3>3. CASE ~export.done /\ i \in ToCome
      <4>1. export.got = <<>> \/ i < export.got[Len(export.got)]
        BY <3>3 DEF ToCome
      <4>2. i \in ToCome'
        BY <1>2, <3>1, <4>1 DEF ToCome, Present
      <4>3. QED
        BY <3>3, <4>2
    <3>4. QED
      BY <2>1, <3>1, <3>2, <3>3
  <2>3. export.there \subseteq DOMAIN rows'
    BY <2>1
  <2>4. QED
    BY <1>2, <2>1, <2>2, <2>3 DEF Shown
<1>3. CASE export' = export /\ export = None
  BY <1>3 DEF Shown
<1>4. QED
  BY <1>1, <1>2, <1>3

LEMMA BeginShown ==
    ASSUME Good, ExportBegin PROVE Shown'
<1>1. export' = [got |-> <<>>, there |-> Present, done |-> FALSE] /\ rows' = rows /\ aged' = aged
  BY DEF ExportBegin, ExportStep, tableVars
<1>2. rows \in Seq(Nat) /\ DOMAIN rows = 1..Len(rows) /\ Len(rows) \in Nat
  BY LenProperties DEF Good, LinedNow, Lined, Typed
<1>3. Present \subseteq DOMAIN rows /\ Present \in SUBSET Nat
  BY <1>2 DEF Present
<1>4. Decreasing(<<>>)
  BY DEF Decreasing
<1>5. export' \in [got : Seq(Nat), there : SUBSET Nat, done : BOOLEAN]
  BY <1>1, <1>3, NoLines
<1>6. ASSUME NEW i \in export'.there \ aged' PROVE i \in ToCome'
  <2>1. i \in Present /\ export'.got = <<>>
    BY <1>1, <1>6
  <2>2. QED
    BY <1>1, <2>1 DEF ToCome, Present
<1>7. export'.done = FALSE /\ export'.there = Present /\ export'.got = <<>>
  BY <1>1
<1>8. QED
  BY <1>1, <1>3, <1>4, <1>5, <1>6, <1>7 DEF Shown

LEMMA ChunkShown ==
    ASSUME Good, Shown, ExportChunk PROVE Shown'
<1>1. export # None /\ ~export.done /\ rows' = rows /\ aged' = aged
  BY DEF ExportChunk, ExportStep, tableVars
<1>2. PICK s \in Descending(ToCome) :
          export' = [export EXCEPT !.got = @ \o Front(Chunk, s), !.done = Len(s) < Chunk]
  BY DEF ExportChunk
<1> DEFINE got == export.got
           S == ToCome
           f == Front(Chunk, s)
           got2 == got \o f
<1>3. /\ export \in [got : Seq(Nat), there : SUBSET Nat, done : BOOLEAN]
      /\ export.there \subseteq DOMAIN rows /\ Decreasing(got)
      /\ \A i \in export.there \ aged : i \in Elements(got) \/ i \in S
  BY <1>1 DEF Shown
<1>4. S \in SUBSET Nat /\ IsFiniteSet(S)
  <2>1. rows \in Seq(Nat) /\ DOMAIN rows = 1..Len(rows) /\ Len(rows) \in Nat
    BY LenProperties DEF Good, LinedNow, Lined, Typed
  <2>2. S \in SUBSET (1..Len(rows))
    BY <2>1 DEF ToCome, Present
  <2>3. IsFiniteSet(1..Len(rows))
    BY <2>1, FS_Interval
  <2>4. QED
    <3> DEFINE D == 1..Len(rows)
    <3>1. D \subseteq Nat /\ IsFiniteSet(D) /\ S \in SUBSET D
      BY <2>1, <2>2, <2>3
    <3> HIDE DEF S, D
    <3>2. IsFiniteSet(S)
      BY <3>1, FS_Subset
    <3>3. QED
      BY <3>1, <3>2
<1>5. /\ s \in Seq(Nat) /\ Elements(s) = S
      /\ f \in Seq(Nat) /\ Elements(f) \subseteq S /\ Decreasing(f)
      /\ Len(s) < Chunk => Elements(f) = S
      /\ Len(s) >= Chunk => /\ f # <<>>
                            /\ \A x \in Elements(f), y \in S : x > y \/ y \in Elements(f)
  <2> HIDE DEF S
  <2>1. s \in Descending(S)
    BY DEF S
  <2>2. QED
    BY <1>4, <2>1, ChunkOf
<1>6. got \in Seq(Nat)
  BY <1>3
<1>7. \A x \in Elements(got), y \in S : x > y
  <2>1. ASSUME NEW x \in Elements(got), NEW y \in S PROVE x > y
    <3>1. PICK i \in 1..Len(got) : x = got[i]
      <4> HIDE DEF got
      <4>1. QED
        BY <1>6, ElementsOf
    <3>2. Len(got) \in 1..Len(got) /\ got # <<>> /\ Len(got) \in Nat /\ DOMAIN got = 1..Len(got)
      <4> HIDE DEF got
      <4>1. Len(got) \in Nat /\ DOMAIN got = 1..Len(got)
        BY <1>6, LenProperties
      <4>2. got # <<>>
        BY <3>1, <4>1, ElementsEmpty
      <4>3. QED
        BY <3>1, <4>1, <4>2
    <3>3. y < got[Len(got)]
      BY <3>2 DEF ToCome
    <3>4. i < Len(got) => got[i] > got[Len(got)]
      <4> HIDE DEF got
      <4>1. QED
        BY <1>3, <3>2 DEF Decreasing
    <3>5. got[i] \in Nat /\ got[Len(got)] \in Nat /\ y \in Nat
      <4> HIDE DEF got, S
      <4>1. QED
        BY <1>4, <1>6, <3>2, ElementsOf
    <3>6. QED
      <4> HIDE DEF got, S
      <4>1. QED
        BY <3>1, <3>2, <3>3, <3>4, <3>5
  <2>2. QED
    BY <2>1
<1>8. got2 \in Seq(Nat) /\ Elements(got2) = Elements(got) \cup Elements(f) /\ Decreasing(got2)
  <2> HIDE DEF got, f, S
  <2>1. got \o f \in Seq(Nat) /\ Elements(got \o f) = Elements(got) \cup Elements(f)
    BY <1>5, <1>6, ElementsConcat
  <2>2. Decreasing(got \o f) <=> /\ Decreasing(got) /\ Decreasing(f)
                               /\ \A x \in Elements(got), y \in Elements(f) : x > y
    BY <1>5, <1>6, DecreasingConcat
  <2>3. \A x \in Elements(got), y \in Elements(f) : x > y
    BY <1>5, <1>7
  <2>4. QED
    BY <1>3, <1>5, <2>1, <2>2, <2>3
<1>9. /\ export'.got = got2 /\ export'.there = export.there /\ export'.done = (Len(s) < Chunk)
      /\ export' \in [got : Seq(Nat), there : SUBSET Nat, done : BOOLEAN]
  <2>1. got2 \in Seq(Nat) /\ (Len(s) < Chunk) \in BOOLEAN
    BY <1>8
  <2> HIDE DEF got2
  <2>2. export' = [export EXCEPT !.got = got2, !.done = Len(s) < Chunk]
    BY <1>2 DEF got2
  <2>3. QED
    BY <1>3, <2>1, <2>2
<1>10. ASSUME NEW i \in export'.there \ aged'
       PROVE  i \in Elements(export'.got) \/ (~export'.done /\ i \in ToCome')
  <2>1. i \in Elements(got) \/ i \in S
    <3> HIDE DEF got, S
    <3>1. QED
      BY <1>1, <1>3, <1>9, <1>10
  <2>2. CASE i \in Elements(got) \cup Elements(f)
    <3> HIDE DEF got, got2, f
    <3>1. QED
      BY <1>8, <1>9, <2>2
  <2>3. CASE i \in S /\ i \notin Elements(f)
    <3>1. Len(s) >= Chunk
      <4> HIDE DEF S, f
      <4>1. ~(Len(s) < Chunk) /\ Len(s) \in Nat /\ Chunk \in Nat
        BY <1>5, <2>3, SizesNat, LenProperties
      <4>2. QED
        BY <4>1
    <3>2. f # <<>> /\ \A x \in Elements(f) : x > i
      <4> HIDE DEF S, f
      <4>1. QED
        BY <1>5, <2>3, <3>1
    <3>3. got2[Len(got2)] \in Elements(f)
      <4> HIDE DEF got, f
      <4>1. QED
        BY <1>5, <1>6, <3>2, LastOfConcat
    <3>4. i < got2[Len(got2)]
      <4> HIDE DEF f, got2, S
      <4>1. got2[Len(got2)] > i /\ i \in Nat
        BY <1>4, <2>3, <3>2, <3>3
      <4>2. got2[Len(got2)] \in Nat
        BY <1>5, <3>3, ElementsOf
      <4>3. QED
        BY <4>1, <4>2
    <3>5. i \in ToCome'
      <4>1. i \in Present
        BY <2>3 DEF ToCome
      <4> HIDE DEF got2
      <4>2. export'.got[Len(export'.got)] = got2[Len(got2)]
        BY <1>9
      <4>3. QED
        BY <1>1, <3>4, <4>1, <4>2 DEF ToCome, Present
    <3>6. ~export'.done
      <4>1. Len(s) \in Nat /\ Chunk \in Nat
        BY <1>5, SizesNat, LenProperties
      <4>2. QED
        BY <1>9, <3>1, <4>1
    <3>7. QED
      BY <3>5, <3>6
  <2>4. QED
    BY <2>1, <2>2, <2>3
<1>11. QED
  <2> HIDE DEF got2
  <2>1. export'.there \subseteq DOMAIN rows' /\ Decreasing(export'.got)
    BY <1>1, <1>3, <1>8, <1>9
  <2>2. QED
    BY <1>9, <1>10, <2>1 DEF Shown

\* A step that is not the export's keeps it or ends it; rows are only added, and only pruned.
LEMMA TableGrows ==
    ASSUME Good, [Next]_vars, ~ExportBegin, ~ExportChunk
    PROVE  /\ export' = export \/ export' = None
           /\ DOMAIN rows \subseteq DOMAIN rows' /\ aged \subseteq aged'
<1> DEFINE Grown == /\ export' = export \/ export' = None
                    /\ rows' \in {rows, rows \o batch}
                    /\ aged \subseteq aged'
<1>1. ASSUME UNCHANGED vars PROVE Grown
  BY <1>1 DEF vars, tableVars
<1>2. ASSUME Log \/ LogDangling \/ Boot \/ Stop \/ Exit PROVE Grown
  BY <1>2 DEF Log, LogDangling, Boot, Stop, Exit, Dies, tableVars
<1>3. ASSUME Writer PROVE Grown
  <2>1. ASSUME NEW next, Prune(next) \/ PruneNothing(next) PROVE Grown
    BY <2>1 DEF Prune, PruneNothing, WriterStep, tableVars
  <2>2. CASE FirstPrune \/ PruneStep
    BY <2>1, <2>2 DEF FirstPrune, PruneStep
  <2>3. CASE Flush \/ FinalFlush
    BY <2>3 DEF Flush, FinalFlush, Drain, WriterStep, tableVars
  <2>4. CASE Inserted \/ UnlinkedInserted
    BY <2>4 DEF Inserted, UnlinkedInserted, WriterStep, Committed
  <2>5. CASE Unlink \/ Wake \/ LoopEnds \/ Stopped
    BY <2>5 DEF Unlink, Wake, LoopEnds, Stopped, WriterStep, tableVars
  <2>6. QED
    BY <1>3, <2>2, <2>3, <2>4, <2>5 DEF Writer
<1>4. ASSUME Failure PROVE Grown
  <2>1. CASE FirstPruneFails \/ PruneFails
    BY <2>1 DEF FirstPruneFails, PruneFails, WriterStep, tableVars
  <2>2. CASE InsertFails \/ UnlinkFails
    BY <2>2 DEF InsertFails, UnlinkFails, Fails, WriterStep, tableVars, Committed
  <2>3. CASE StopGivesUp
    BY <2>3 DEF StopGivesUp, WriterStep, tableVars, Committed
  <2>4. CASE Crash
    BY <2>4 DEF Crash, Dies, tableVars
  <2>5. QED
    BY <1>4, <2>1, <2>2, <2>3, <2>4 DEF Failure
<1>5. Grown
  <2> HIDE DEF Grown
  <2>1. QED
    BY <1>1, <1>2, <1>3, <1>4 DEF Next
<1>6. DOMAIN rows \subseteq DOMAIN rows'
  <2>1. rows \in Seq(Nat) /\ batch \in Seq(Nat)
    BY DEF Good, LinedNow, Lined, Typed
  <2>2. DOMAIN rows \subseteq DOMAIN (rows \o batch)
    BY <2>1, ConcatProperties, LenProperties
  <2>3. QED
    BY <1>5, <2>2
<1>7. QED
  BY <1>5, <1>6

\* For every table and chunk: an export under writes, prunes and restarts shows each row once,
\* newest first, and ends with every row that was there throughout.
THEOREM ExportExact == Spec => []ExportIsExact
<1> DEFINE Inv == Good /\ Shown
<1>1. Init => Inv
  BY InitLined DEF Init, Good, Shown
<1>2. Inv /\ [Next]_vars => Inv'
  <2>1. ASSUME Good, Shown, [Next]_vars PROVE Shown'
    <3>1. CASE ExportBegin
      BY <2>1, <3>1, BeginShown
    <3>2. CASE ExportChunk
      BY <2>1, <3>2, ChunkShown
    <3>3. CASE ~ExportBegin /\ ~ExportChunk
      BY <2>1, <3>3, TableGrows, ShownAmongWrites
    <3>4. QED
      BY <3>1, <3>2, <3>3
  <2>2. QED
    BY <2>1, StepGood
<1>3. Inv => ExportIsExact
  BY ShownIsExact
<1>4. QED
  BY <1>1, <1>2, <1>3, PTL DEF Spec

=============================================================================
