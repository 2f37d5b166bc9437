--------------------------- MODULE SequenceLemmas ---------------------------
(***************************************************************************)
(* Induction, concatenation, sequences without repetition, and what        *)
(* FlattenSeq does when a sequence of sequences grows at its end and loses *)
(* its head, as the queue of a server does; and the sequences that an      *)
(* array with a wrapping index holds.  And the heap of klib/heap.c, which  *)
(* keeps its nodes in a sequence: what it promises, for any nodes and      *)
(* keys.                                                                   *)
(***************************************************************************)
EXTENDS Heap, Integers, Sequences, SequencesExt, SequenceTheorems, WellFoundedInduction, TLAPS

-----------------------------------------------------------------------------
(* Induction, stated for sets: the provers can instantiate a set, and not  *)
(* the operator of NatInduction.                                           *)

\* A set of natural numbers that is not empty has a least element.
LEMMA LeastElement ==
  ASSUME NEW T, T \subseteq Nat, T # {}
  PROVE  \E m \in T : \A n \in T : m <= n
<1> DEFINE R == OpToRel(<, Nat)
<1>1. IsWellFoundedOn(R, Nat)
  BY NatLessThanWellFounded
<1> HIDE DEF R
<1>2. PICK m \in T : \A n \in T : ~ (<<n, m>> \in R)
  BY <1>1, WFMin
<1>3. \A n \in Nat : n < m => <<n, m>> \in R
  BY DEF R, OpToRel
<1>4. ASSUME NEW n \in T PROVE m <= n
  <2>1. m \in Nat /\ n \in Nat
    OBVIOUS
  <2>2. ~ (n < m)
    BY <1>2, <1>3, <2>1
  <2> QED BY <2>1, <2>2
<1> QED BY <1>4

\* What holds for 0, and for n + 1 if for n, holds for all.
LEMMA Induction ==
  ASSUME NEW T, 0 \in T, \A n \in Nat : n \in T => n + 1 \in T
  PROVE  \A n \in Nat : n \in T
<1> SUFFICES ASSUME Nat \ T # {} PROVE FALSE
  OBVIOUS
<1>1. PICK m \in Nat \ T : \A n \in Nat \ T : m <= n
  BY LeastElement
<1>2. m # 0 /\ m - 1 \in Nat /\ m - 1 \in T
  BY <1>1
<1> QED BY <1>1, <1>2

-----------------------------------------------------------------------------
(* Concatenation, kept closed: the provers would expand \o each time.      *)

Join(a, b) == a \o b

\* Sequences of one set give a sequence of it, and can be regrouped.
LEMMA JoinFacts ==
  ASSUME NEW S
  PROVE  /\ \A a, b \in Seq(S) : Join(a, b) \in Seq(S)
         /\ \A a, b, c \in Seq(S) : Join(Join(a, b), c) = Join(a, Join(b, c))
         /\ \A a \in Seq(S) : Join(a, << >>) = a /\ Join(<< >>, a) = a
BY ConcatAssociative, ConcatProperties, ConcatEmptySeq DEF Join

\* An element at the end, and the head of the first sequence.
LEMMA JoinAppend ==
  ASSUME NEW S
  PROVE  \A a \in Seq(S), x \in S :
           Append(a, x) = Join(a, <<x>>) /\ <<x>> \in Seq(S)
BY AppendIsConcat DEF Join

\* A sequence is its head joined with its tail.
LEMMA JoinParts ==
  ASSUME NEW S, NEW w \in Seq(S), w # << >>
  PROVE  w = Join(<<Head(w)>>, Tail(w)) /\ Head(w) \in S /\ Tail(w) \in Seq(S)
BY DEF Join

\* The head of a concatenation leaves from its first part.
LEMMA JoinHead ==
  ASSUME NEW S, NEW a \in Seq(S), NEW b \in Seq(S), a # << >>
  PROVE  /\ Join(a, b) # << >>
         /\ Head(Join(a, b)) = Head(a)
         /\ Tail(Join(a, b)) = Join(Tail(a), b)
BY DEF Join

-----------------------------------------------------------------------------
(* Sequences without repetition.                                           *)

Once(w) == \A i, j \in DOMAIN w : w[i] = w[j] => i = j

\* The elements of a concatenation.
LEMMA JoinSet ==
  ASSUME NEW S, NEW a \in Seq(S), NEW b \in Seq(S)
  PROVE  ToSet(Join(a, b)) = ToSet(a) \cup ToSet(b)
<1> DEFINE c == Join(a, b)
<1>1. /\ DOMAIN a = 1 .. Len(a) /\ DOMAIN b = 1 .. Len(b)
      /\ DOMAIN c = 1 .. Len(a) + Len(b)
      /\ Len(a) \in Nat /\ Len(b) \in Nat
      /\ \A i \in 1 .. Len(a) : c[i] = a[i]
      /\ \A i \in 1 .. Len(b) : c[Len(a) + i] = b[i]
  BY DEF Join
<1> HIDE DEF c
<1>2. ASSUME NEW i \in DOMAIN c PROVE c[i] \in ToSet(a) \cup ToSet(b)
  <2>1. CASE i <= Len(a)
    BY <1>1, <2>1 DEF ToSet
  <2>2. CASE ~ (i <= Len(a))
    <3>1. i - Len(a) \in 1 .. Len(b) /\ Len(a) + (i - Len(a)) = i
      BY <1>1, <2>2
    <3> QED BY <1>1, <3>1 DEF ToSet
  <2> QED BY <2>1, <2>2
<1>3. ASSUME NEW i \in DOMAIN a PROVE a[i] \in ToSet(c)
  BY <1>1 DEF ToSet
<1>4. ASSUME NEW i \in DOMAIN b PROVE b[i] \in ToSet(c)
  <2>1. Len(a) + i \in DOMAIN c /\ c[Len(a) + i] = b[i]
    BY <1>1
  <2> QED BY <2>1 DEF ToSet
<1>5. ToSet(c) \subseteq ToSet(a) \cup ToSet(b)
  BY <1>2 DEF ToSet
<1>6. ToSet(a) \subseteq ToSet(c) /\ ToSet(b) \subseteq ToSet(c)
  BY <1>3, <1>4 DEF ToSet
<1> QED BY <1>5, <1>6 DEF c

\* A sequence of one element.
LEMMA Singleton ==
  ASSUME NEW S, NEW x \in S
  PROVE  <<x>> \in Seq(S) /\ ToSet(<<x>>) = {x}
BY DEF ToSet

\* A new element at the end, and the loss of the head.
LEMMA OnceAppend ==
  ASSUME NEW S, NEW w \in Seq(S), NEW x \in S, Once(w), x \notin ToSet(w)
  PROVE  /\ Once(Append(w, x))
         /\ ToSet(Append(w, x)) = ToSet(w) \cup {x}
<1>1. Once(Append(w, x))
  BY DEF Once, ToSet
<1> DEFINE u == <<x>>
<1>2. u \in Seq(S) /\ ToSet(u) = {x} /\ Append(w, x) = Join(w, u)
  BY Singleton, JoinAppend
<1> HIDE DEF u
<1>3. ToSet(Join(w, u)) = ToSet(w) \cup {x}
  BY <1>2, JoinSet
<1> QED BY <1>1, <1>2, <1>3

\* The tail of a sequence without repetition loses its head and keeps the rest.
LEMMA OnceTail ==
  ASSUME NEW S, NEW w \in Seq(S), w # << >>, Once(w)
  PROVE  /\ Once(Tail(w))
         /\ ToSet(Tail(w)) = ToSet(w) \ {Head(w)}
         /\ Head(w) \in ToSet(w)
<1>1. Once(Tail(w))
  BY DEF Once
<1> DEFINE u == <<Head(w)>>
           t == Tail(w)
<1>2. w = Join(u, t) /\ t \in Seq(S) /\ Head(w) \in S
  BY JoinParts
<1>3. u \in Seq(S) /\ ToSet(u) = {Head(w)}
  BY <1>2, Singleton
<1> HIDE DEF u, t
<1>6. ToSet(Join(u, t)) = ToSet(u) \cup ToSet(t)
  BY <1>2, <1>3, JoinSet
<1>4. ToSet(w) = {Head(w)} \cup ToSet(Tail(w))
  BY <1>2, <1>3, <1>6 DEF t
<1>5. Head(w) \notin ToSet(Tail(w))
  BY DEF Once, ToSet
<1> QED BY <1>1, <1>4, <1>5

\* The loss of an element in the middle.
LEMMA OnceRemove ==
  ASSUME NEW S, NEW a \in Seq(S), NEW b \in Seq(S), NEW x \in S,
         Once(Join(a, Join(<<x>>, b)))
  PROVE  /\ Once(Join(a, b))
         /\ ToSet(Join(a, b)) = ToSet(Join(a, Join(<<x>>, b))) \ {x}
         /\ x \in ToSet(Join(a, Join(<<x>>, b)))
<1> DEFINE w == Join(a, Join(<<x>>, b))
           v == Join(a, b)
<1>1. /\ Len(a) \in Nat /\ Len(b) \in Nat
      /\ DOMAIN v = 1 .. Len(a) + Len(b)
      /\ DOMAIN w = 1 .. Len(a) + 1 + Len(b)
      /\ w[Len(a) + 1] = x
      /\ \A i \in DOMAIN v : v[i] = w[IF i <= Len(a) THEN i ELSE i + 1]
  BY DEF Join
<1>2. Once(w)
  OBVIOUS
<1>4. ToSet(w) = ToSet(v) \cup {x}
  <2> DEFINE u == <<x>>
  <2>1. u \in Seq(S) /\ ToSet(u) = {x} /\ w = Join(a, Join(u, b))
    BY Singleton
  <2> HIDE DEF u, w, v
  <2>2. Join(u, b) \in Seq(S)
    BY <2>1, JoinFacts
  <2>3. ToSet(Join(a, Join(u, b))) = ToSet(a) \cup ToSet(Join(u, b))
    BY <2>2, JoinSet
  <2>4. ToSet(Join(u, b)) = ToSet(u) \cup ToSet(b)
    BY <2>1, JoinSet
  <2>5. ToSet(v) = ToSet(a) \cup ToSet(b)
    BY JoinSet DEF v
  <2> QED BY <2>1, <2>3, <2>4, <2>5
<1> HIDE DEF w, v
<1>5. Once(v)
  <2> SUFFICES ASSUME NEW i \in DOMAIN v, NEW j \in DOMAIN v, v[i] = v[j]
               PROVE  i = j
    BY DEF Once
  <2>1. /\ (IF i <= Len(a) THEN i ELSE i + 1) \in DOMAIN w
        /\ (IF j <= Len(a) THEN j ELSE j + 1) \in DOMAIN w
    BY <1>1
  <2>2. (IF i <= Len(a) THEN i ELSE i + 1) = (IF j <= Len(a) THEN j ELSE j + 1)
    BY <1>1, <1>2, <2>1 DEF Once
  <2> QED BY <1>1, <2>2
<1>6. x \notin ToSet(v)
  <2> SUFFICES ASSUME NEW i \in DOMAIN v, v[i] = x PROVE FALSE
    BY DEF ToSet
  <2>1. /\ (IF i <= Len(a) THEN i ELSE i + 1) \in DOMAIN w
        /\ Len(a) + 1 \in DOMAIN w
    BY <1>1
  <2>2. (IF i <= Len(a) THEN i ELSE i + 1) = Len(a) + 1
    BY <1>1, <1>2, <2>1 DEF Once
  <2> QED BY <1>1, <2>2
<1> QED BY <1>4, <1>5, <1>6 DEF v, w

-----------------------------------------------------------------------------
(* The recursive function of FlattenSeq.                                   *)

\* f is that function for s.
Flattens(f, s) ==
  f = [i \in 1 .. Len(s) |-> IF i = 1 THEN s[i] ELSE Join(f[i - 1], s[i])]

\* What it is at the first index, and at the others.
LEMMA FlattensValue ==
  ASSUME NEW s, NEW f, Flattens(f, s), Len(s) \in Nat
  PROVE  /\ 0 < Len(s) => f[1] = s[1]
         /\ \A n \in Nat : 0 < n /\ n < Len(s) => f[n + 1] = Join(f[n], s[n + 1])
<1>1. \A i \in 1 .. Len(s) : f[i] = IF i = 1 THEN s[i] ELSE Join(f[i - 1], s[i])
  BY DEF Flattens
<1>2. 0 < Len(s) => f[1] = s[1]
  BY <1>1
<1>3. ASSUME NEW n \in Nat, 0 < n, n < Len(s)
      PROVE  f[n + 1] = Join(f[n], s[n + 1])
  <2>1. n + 1 \in 1 .. Len(s) /\ n + 1 # 1 /\ n + 1 - 1 = n
    BY <1>3
  <2> QED BY <1>1, <2>1
<1> QED BY <1>2, <1>3

\* Two of them agree as far as their sequences do.
Agree(s, t, n) == \A i \in 1 .. n : s[i] = t[i]

\* The folds of two sequences that agree up to n agree up to n.
LEMMA FlattensPrefix ==
  ASSUME NEW S, NEW s \in Seq(S), NEW t \in Seq(S), NEW f, NEW g,
         Flattens(f, s), Flattens(g, t),
         NEW n \in Nat, n <= Len(s), n <= Len(t),
         Agree(s, t, n)
  PROVE  \A i \in 1 .. n : f[i] = g[i]
<1> DEFINE T == {m \in Nat : m \in 1 .. n => f[m] = g[m]}
<1>1. 0 \in T
  OBVIOUS
<1>2. ASSUME NEW m \in Nat, m \in T PROVE m + 1 \in T
  <2> SUFFICES ASSUME m + 1 \in 1 .. n PROVE f[m + 1] = g[m + 1]
    OBVIOUS
  <2>1. m < Len(s) /\ m < Len(t) /\ s[m + 1] = t[m + 1]
    BY DEF Agree
  <2>2. CASE m = 0
    BY <2>1, <2>2, FlattensValue
  <2>3. CASE m # 0
    <3>1. f[m] = g[m]
      BY <1>2, <2>3
    <3>2. f[m + 1] = Join(f[m], s[m + 1]) /\ g[m + 1] = Join(g[m], t[m + 1])
      BY <2>1, <2>3, FlattensValue
    <3> QED BY <2>1, <3>1, <3>2
  <2> QED BY <2>2, <2>3
<1> HIDE DEF T
<1>3. \A m \in Nat : m \in T
  BY <1>1, <1>2, Induction
<1> QED BY <1>3 DEF T

\* There is one for every sequence.
LEMMA FlattensExists ==
  ASSUME NEW S, NEW s \in Seq(S)
  PROVE  \E f : Flattens(f, s)
<1> DEFINE T == {n \in Nat : \A t \in Seq(S) : Len(t) = n => \E f : Flattens(f, t)}
<1>1. 0 \in T
  <2> SUFFICES ASSUME NEW t \in Seq(S), Len(t) = 0 PROVE \E f : Flattens(f, t)
    OBVIOUS
  <2>1. Flattens([i \in {} |-> 0], t)
    BY DEF Flattens
  <2> QED BY <2>1
<1>2. ASSUME NEW n \in Nat, n \in T PROVE n + 1 \in T
  <2> SUFFICES ASSUME NEW t \in Seq(S), Len(t) = n + 1 PROVE \E f : Flattens(f, t)
    OBVIOUS
  <2> DEFINE u == SubSeq(t, 1, n)
  <2>1. u \in Seq(S) /\ Len(u) = n /\ \A i \in 1 .. n : u[i] = t[i]
    OBVIOUS
  <2> HIDE DEF u
  <2>2. PICK f : Flattens(f, u)
    BY <1>2, <2>1
  <2> DEFINE last == IF n = 0 THEN t[n + 1] ELSE Join(f[n], t[n + 1])
             g    == [i \in 1 .. n + 1 |-> IF i <= n THEN f[i] ELSE last]
  <2>3. \A i \in 1 .. n : f[i] = IF i = 1 THEN t[i] ELSE Join(f[i - 1], t[i])
    BY <2>1, <2>2 DEF Flattens
  <2>4. ASSUME NEW i \in 1 .. n + 1
        PROVE  g[i] = IF i = 1 THEN t[i] ELSE Join(g[i - 1], t[i])
    <3>1. CASE i = n + 1
      BY <3>1
    <3>2. CASE i <= n
      <4>1. g[i] = f[i] /\ (i # 1 => g[i - 1] = f[i - 1])
        BY <3>2
      <4> QED BY <2>3, <3>2, <4>1
    <3> QED BY <3>1, <3>2
  <2>5. Flattens(g, t)
    <3>1. g = [i \in 1 .. n + 1 |-> g[i]]
      OBVIOUS
    <3> HIDE DEF g
    <3> QED BY <2>4, <3>1 DEF Flattens
  <2> QED BY <2>5
<1> HIDE DEF T
<1>3. Len(s) \in T
  BY <1>1, <1>2, Induction
<1> QED BY <1>3 DEF T

\* FlattenSeq is the last of its function's values.
LEMMA FlattenIs ==
  ASSUME NEW S, NEW s \in Seq(S), NEW f, Flattens(f, s), s # << >>
  PROVE  FlattenSeq(s) = f[Len(s)]
<1> DEFINE g == CHOOSE h : Flattens(h, s)
<1>1. Flattens(g, s)
  BY FlattensExists
<1>2. FlattenSeq(s) = g[Len(s)]
  BY DEF FlattenSeq, Flattens, Join
<1> HIDE DEF g
<1>3. f[Len(s)] = g[Len(s)]
  <2>1. Len(s) \in Nat /\ Len(s) \in 1 .. Len(s)
    OBVIOUS
  <2>2. \A i \in 1 .. Len(s) : f[i] = g[i]
    BY <1>1, <2>1, FlattensPrefix DEF Agree
  <2> QED BY <2>1, <2>2
<1> QED BY <1>2, <1>3

\* Its values are sequences of what the sequences are of.
LEMMA FlattensType ==
  ASSUME NEW S, NEW s \in Seq(Seq(S)), NEW f, Flattens(f, s)
  PROVE  \A i \in 1 .. Len(s) : f[i] \in Seq(S)
<1> DEFINE T == {n \in Nat : n \in 1 .. Len(s) => f[n] \in Seq(S)}
<1>1. 0 \in T
  OBVIOUS
<1>2. ASSUME NEW n \in Nat, n \in T PROVE n + 1 \in T
  <2> SUFFICES ASSUME n + 1 \in 1 .. Len(s) PROVE f[n + 1] \in Seq(S)
    OBVIOUS
  <2>1. n < Len(s) /\ Len(s) \in Nat /\ s[n + 1] \in Seq(S)
    OBVIOUS
  <2>2. CASE n = 0
    BY <2>1, <2>2, FlattensValue
  <2>3. CASE n # 0
    <3>1. f[n] \in Seq(S)
      BY <1>2, <2>3
    <3>2. f[n + 1] = Join(f[n], s[n + 1])
      BY <2>1, <2>3, FlattensValue
    <3>3. Join(f[n], s[n + 1]) \in Seq(S)
      BY <2>1, <3>1, JoinFacts
    <3> QED BY <3>2, <3>3
  <2> QED BY <2>2, <2>3
<1> HIDE DEF T
<1>3. \A n \in Nat : n \in T
  BY <1>1, <1>2, Induction
<1> QED BY <1>3 DEF T

-----------------------------------------------------------------------------
(* FlattenSeq.                                                             *)

\* FlattenSeq is a sequence of what the sequences are of.
LEMMA FlattenType ==
  ASSUME NEW S, NEW s \in Seq(Seq(S))
  PROVE  FlattenSeq(s) \in Seq(S)
<1>1. CASE s = << >>
  BY <1>1 DEF FlattenSeq
<1>2. CASE s # << >>
  <2>1. PICK f : Flattens(f, s)
    BY FlattensExists
  <2>2. Len(s) \in 1 .. Len(s)
    BY <1>2
  <2> QED BY <1>2, <2>1, <2>2, FlattenIs, FlattensType
<1> QED BY <1>1, <1>2

\* A sequence at the end puts its elements at the end.
LEMMA FlattenAppend ==
  ASSUME NEW S, NEW s \in Seq(Seq(S)), NEW e \in Seq(S)
  PROVE  FlattenSeq(Append(s, e)) = Join(FlattenSeq(s), e)
<1> DEFINE t == Append(s, e)
           n == Len(s)
<1>1. /\ t \in Seq(Seq(S)) /\ t # << >> /\ Len(t) = n + 1 /\ n \in Nat
      /\ \A i \in 1 .. n : s[i] = t[i]
      /\ t[n + 1] = e
  BY AppendProperties
<1>2. PICK g : Flattens(g, t)
  BY <1>1, FlattensExists
<1>3. FlattenSeq(t) = g[n + 1]
  BY <1>1, <1>2, FlattenIs
<1>4. g[n + 1] = IF n = 0 THEN e ELSE Join(g[n], e)
  <2>1. Flattens(g, t) /\ Len(t) \in Nat /\ n < Len(t) /\ n \in Nat
    BY <1>1, <1>2
  <2> HIDE DEF t, n
  <2>2. /\ 0 < Len(t) => g[1] = t[1]
        /\ \A m \in Nat : 0 < m /\ m < Len(t) => g[m + 1] = Join(g[m], t[m + 1])
    BY <2>1, FlattensValue
  <2> QED BY <1>1, <2>1, <2>2
<1>5. CASE n = 0
  <2>1. s = << >> /\ FlattenSeq(s) = << >>
    BY <1>5 DEF FlattenSeq
  <2> QED BY <1>3, <1>4, <1>5, <2>1, JoinFacts
<1>6. CASE n # 0
  <2>1. s # << >>
    BY <1>6
  <2>2. PICK f : Flattens(f, s)
    BY FlattensExists
  <2>3. FlattenSeq(s) = f[n]
    BY <2>1, <2>2, FlattenIs
  <2>4. f[n] = g[n]
    <3> HIDE DEF t
    <3>1. /\ n \in Nat /\ Len(s) \in Nat /\ Len(t) \in Nat
          /\ n \in 1 .. n /\ n <= Len(s) /\ n <= Len(t)
          /\ Agree(s, t, n) /\ t \in Seq(Seq(S))
      BY <1>1, <1>6 DEF Agree
    <3>3. Flattens(f, s) /\ Flattens(g, t)
      BY <1>2, <2>2
    <3> HIDE DEF n
    <3>2. \A i \in 1 .. n : f[i] = g[i]
      BY <3>1, <3>3, FlattensPrefix
    <3> QED BY <3>1, <3>2
  <2> QED BY <1>3, <1>4, <1>6, <2>3, <2>4
<1> QED BY <1>5, <1>6

\* The functions of t, and of t with h before it: the step of the induction.
Precedes(h, t, s) ==
  /\ Len(s) = Len(t) + 1 /\ s[1] = h
  /\ \A i \in 1 .. Len(t) : s[i + 1] = t[i]

\* The fold of a sequence with h before it is h joined with the fold, one step.
LEMMA FlattensHeadStep ==
  ASSUME NEW S, NEW s, NEW t, NEW h, NEW f, NEW g,
         h \in Seq(S), s \in Seq(Seq(S)), t \in Seq(Seq(S)), Flattens(f, s), Flattens(g, t),
         Precedes(h, t, s)
  PROVE  /\ f[1] = h
         /\ \A n \in Nat :
              n < Len(t) /\ (n = 0 \/ f[n + 1] = Join(h, g[n]))
                => f[n + 1 + 1] = Join(h, g[n + 1])
<1>1. /\ Len(t) \in Nat /\ Len(s) \in Nat
      /\ Len(s) = Len(t) + 1 /\ s[1] = h
      /\ \A i \in 1 .. Len(t) : s[i + 1] = t[i]
  BY LenProperties DEF Precedes
<1>2. /\ 0 < Len(s) => f[1] = s[1]
      /\ \A n \in Nat : 0 < n /\ n < Len(s) => f[n + 1] = Join(f[n], s[n + 1])
  BY <1>1, FlattensValue
<1>3. /\ 0 < Len(t) => g[1] = t[1]
      /\ \A n \in Nat : 0 < n /\ n < Len(t) => g[n + 1] = Join(g[n], t[n + 1])
  BY <1>1, FlattensValue
<1>4. f[1] = h
  BY <1>1, <1>2
<1>6. \A b, c \in Seq(S) : Join(Join(h, b), c) = Join(h, Join(b, c))
  BY JoinFacts
<1>5. ASSUME NEW n \in Nat, n < Len(t), n = 0 \/ f[n + 1] = Join(h, g[n])
      PROVE  f[n + 1 + 1] = Join(h, g[n + 1])
  <2>0. /\ n + 1 \in Nat /\ 0 < n + 1 /\ n + 1 < Len(s)
        /\ n + 1 \in 1 .. Len(t)
    BY <1>1, <1>5
  <2>1. s[n + 1 + 1] = t[n + 1]
    BY <1>1, <2>0
  <2>2. f[n + 1 + 1] = Join(f[n + 1], t[n + 1])
    BY <1>2, <2>0, <2>1
  <2>3. CASE n = 0
    <3>1. g[n + 1] = t[n + 1] /\ f[n + 1] = h
      BY <1>1, <1>3, <1>4, <1>5, <2>3
    <3> QED BY <2>2, <3>1
  <2>4. CASE n # 0
    <3>1. n \in 1 .. Len(t) /\ 0 < n
      BY <1>1, <1>5, <2>4
    <3>2. g[n + 1] = Join(g[n], t[n + 1])
      BY <1>3, <1>5, <3>1
    <3>3. g[n] \in Seq(S) /\ t[n + 1] \in Seq(S)
      <4>1. g[n] \in Seq(S)
        BY <3>1, FlattensType
      <4> QED BY <2>0, <4>1, ElementOfSeq
    <3>4. Join(Join(h, g[n]), t[n + 1]) = Join(h, Join(g[n], t[n + 1]))
      BY <1>6, <3>3
    <3> QED BY <1>5, <2>2, <2>4, <3>2, <3>4
  <2> QED BY <2>3, <2>4
<1> QED BY <1>4, <1>5

\* What the head adds.
LEMMA FlattensHead ==
  ASSUME NEW S, NEW s, NEW t, NEW h, NEW f, NEW g,
         h \in Seq(S), s \in Seq(Seq(S)), t \in Seq(Seq(S)), Flattens(f, s), Flattens(g, t),
         Precedes(h, t, s)
  PROVE  \A n \in 1 .. Len(t) : f[n + 1] = Join(h, g[n])
<1>1. \A n \in Nat :
        n < Len(t) /\ (n = 0 \/ f[n + 1] = Join(h, g[n]))
          => f[n + 1 + 1] = Join(h, g[n + 1])
  BY FlattensHeadStep
<1>2. Len(t) \in Nat
  BY LenProperties
<1> DEFINE T == {n \in Nat : n \in 1 .. Len(t) => f[n + 1] = Join(h, g[n])}
<1>3. 0 \in T
  OBVIOUS
<1>4. ASSUME NEW n \in Nat, n \in T PROVE n + 1 \in T
  <2> SUFFICES ASSUME n + 1 \in 1 .. Len(t) PROVE f[n + 1 + 1] = Join(h, g[n + 1])
    OBVIOUS
  <2>1. n < Len(t) /\ (n = 0 \/ f[n + 1] = Join(h, g[n]))
    BY <1>2, <1>4
  <2> HIDE DEF T
  <2> QED BY <1>1, <2>1
<1> HIDE DEF T
<1>5. \A n \in Nat : n \in T
  BY <1>3, <1>4, Induction
<1> QED BY <1>2, <1>5 DEF T

\* The elements of the head come first.
LEMMA FlattenHead ==
  ASSUME NEW S, NEW s \in Seq(Seq(S)), s # << >>
  PROVE  FlattenSeq(s) = Join(Head(s), FlattenSeq(Tail(s)))
<1>1. /\ Tail(s) \in Seq(Seq(S)) /\ Head(s) \in Seq(S)
      /\ Len(Tail(s)) \in Nat /\ Len(s) = Len(Tail(s)) + 1
      /\ \A i \in 1 .. Len(Tail(s)) : s[i + 1] = Tail(s)[i]
      /\ s[1] = Head(s)
  OBVIOUS
<1>2. PICK f : Flattens(f, s)
  BY FlattensExists
<1>3. PICK g : Flattens(g, Tail(s))
  BY <1>1, FlattensExists
<1>4. FlattenSeq(s) = f[Len(s)]
  BY <1>2, FlattenIs
<1>5. CASE Tail(s) = << >>
  <2>1. FlattenSeq(Tail(s)) = << >> /\ Len(Tail(s)) = 0
    BY <1>5 DEF FlattenSeq
  <2>2. 1 \in 1 .. Len(s) /\ Len(s) = 1
    <3>1. Len(s) = 0 + 1
      BY <1>1, <2>1
    <3> QED BY <3>1
  <2>4. f[1] = Head(s)
    BY <1>1, <1>2, <2>2, FlattensValue
  <2> QED BY <1>1, <1>4, <2>1, <2>2, <2>4, JoinFacts
<1>6. CASE Tail(s) # << >>
  <2>1. FlattenSeq(Tail(s)) = g[Len(Tail(s))]
    BY <1>1, <1>3, <1>6, FlattenIs
  <2>2. Len(Tail(s)) \in 1 .. Len(Tail(s))
    BY <1>1, <1>6
  <2>3. Precedes(Head(s), Tail(s), s)
    BY <1>1 DEF Precedes
  <2> DEFINE t == Tail(s)
             h == Head(s)
  <2>4. /\ t \in Seq(Seq(S)) /\ h \in Seq(S) /\ Flattens(g, t) /\ Precedes(h, t, s)
        /\ Len(t) \in 1 .. Len(t) /\ Len(t) + 1 = Len(s)
    BY <1>1, <1>3, <2>2, <2>3
  <2> HIDE DEF t, h
  <2>5. \A n \in 1 .. Len(t) : f[n + 1] = Join(h, g[n])
    BY <1>2, <2>4, FlattensHead
  <2>6. f[Len(s)] = Join(h, g[Len(t)])
    BY <2>4, <2>5
  <2> QED BY <1>4, <2>1, <2>6 DEF t, h
<1> QED BY <1>5, <1>6
-----------------------------------------------------------------------------
(* A queue of messages, of which p tells the contents.                     *)

Maps(p, M, V) == p \in [M -> V]
Mapped(p, q) == [i \in DOMAIN q |-> p[q[i]]]
Gather(p, q) == FlattenSeq(Mapped(p, q))

\* Mapping commutes with Append, Head and Tail.
LEMMA MappedFacts ==
  ASSUME NEW M, NEW V, NEW p, Maps(p, M, V)
  PROVE  /\ Mapped(p, << >>) = << >>
         /\ \A q \in Seq(M) :
              /\ Mapped(p, q) \in Seq(V)
              /\ \A m \in M : Mapped(p, Append(q, m)) = Append(Mapped(p, q), p[m])
              /\ q # << >> => /\ Mapped(p, q) # << >>
                              /\ Head(Mapped(p, q)) = p[Head(q)]
                              /\ Tail(Mapped(p, q)) = Mapped(p, Tail(q))
<1>1. Mapped(p, << >>) = << >>
  BY DEF Mapped, Maps
<1>2. ASSUME NEW q \in Seq(M) PROVE Mapped(p, q) \in Seq(V) /\ Len(Mapped(p, q)) = Len(q)
  BY DEF Mapped, Maps
<1>3. ASSUME NEW q \in Seq(M), NEW m \in M
      PROVE  Mapped(p, Append(q, m)) = Append(Mapped(p, q), p[m])
  BY DEF Mapped, Maps
<1>4. ASSUME NEW q \in Seq(M), q # << >>
      PROVE  /\ Mapped(p, q) # << >>
             /\ Head(Mapped(p, q)) = p[Head(q)]
             /\ Tail(Mapped(p, q)) = Mapped(p, Tail(q))
  BY <1>4 DEF Mapped, Maps
<1> QED BY <1>1, <1>2, <1>3, <1>4

\* A message at the end puts its contents at the end, and the contents of the
\* first message come first.
LEMMA GatherFacts ==
  ASSUME NEW M, NEW S, NEW p, Maps(p, M, Seq(S))
  PROVE  /\ Gather(p, << >>) = << >>
         /\ \A q \in Seq(M) :
              /\ Gather(p, q) \in Seq(S)
              /\ \A m \in M : Gather(p, Append(q, m)) = Join(Gather(p, q), p[m])
              /\ q # << >> => Gather(p, q) = Join(p[Head(q)], Gather(p, Tail(q)))
<1> DEFINE V == Seq(S)
<1>0. Maps(p, M, V)
  OBVIOUS
<1> HIDE DEF V
<1>1. Gather(p, << >>) = << >>
  <2>1. Mapped(p, << >>) = << >>
    BY <1>0, MappedFacts
  <2>2. FlattenSeq(<< >>) = << >>
    BY DEF FlattenSeq
  <2> QED BY <2>1, <2>2 DEF Gather
<1>2. ASSUME NEW q \in Seq(M)
      PROVE  /\ Gather(p, q) \in Seq(S)
             /\ \A m \in M : Gather(p, Append(q, m)) = Join(Gather(p, q), p[m])
             /\ q # << >> => Gather(p, q) = Join(p[Head(q)], Gather(p, Tail(q)))
  <2>1. /\ Mapped(p, q) \in Seq(V)
        /\ \A m \in M : Mapped(p, Append(q, m)) = Append(Mapped(p, q), p[m])
        /\ q # << >> => /\ Mapped(p, q) # << >>
                        /\ Head(Mapped(p, q)) = p[Head(q)]
                        /\ Tail(Mapped(p, q)) = Mapped(p, Tail(q))
    BY <1>0, MappedFacts
  <2> USE DEF V
  <2>2. Gather(p, q) \in Seq(S)
    BY <2>1, FlattenType DEF Gather
  <2>3. ASSUME NEW m \in M
        PROVE  Gather(p, Append(q, m)) = Join(Gather(p, q), p[m])
    <3>1. p[m] \in Seq(S)
      BY <1>0 DEF Maps
    <3> QED BY <2>1, <3>1, FlattenAppend DEF Gather
  <2>4. ASSUME q # << >>
        PROVE  Gather(p, q) = Join(p[Head(q)], Gather(p, Tail(q)))
    BY <2>1, <2>4, FlattenHead DEF Gather
  <2> QED BY <2>2, <2>3, <2>4
<1> QED BY <1>1, <1>2

\* Behind other elements, too.
LEMMA GatherBehind ==
  ASSUME NEW M, NEW S, NEW p, Maps(p, M, Seq(S)), NEW f \in Seq(S), NEW q \in Seq(M)
  PROVE  /\ Join(f, Gather(p, q)) \in Seq(S)
         /\ \A m \in M : Join(f, Gather(p, Append(q, m))) = Join(Join(f, Gather(p, q)), p[m])
         /\ q # << >> =>
              Join(f, Gather(p, q)) = Join(Join(f, p[Head(q)]), Gather(p, Tail(q)))
<1>1. /\ Gather(p, q) \in Seq(S)
      /\ \A m \in M : Gather(p, Append(q, m)) = Join(Gather(p, q), p[m])
      /\ q # << >> => Gather(p, q) = Join(p[Head(q)], Gather(p, Tail(q)))
  BY GatherFacts
<1>2. \A m \in M : p[m] \in Seq(S)
  BY DEF Maps
<1>3. \A b, c \in Seq(S) : Join(Join(f, b), c) = Join(f, Join(b, c))
  BY JoinFacts
<1>4. ASSUME NEW m \in M
      PROVE  Join(f, Gather(p, Append(q, m))) = Join(Join(f, Gather(p, q)), p[m])
  BY <1>1, <1>2, <1>3
<1>5. ASSUME q # << >>
      PROVE  Join(f, Gather(p, q)) = Join(Join(f, p[Head(q)]), Gather(p, Tail(q)))
  <2>1. Head(q) \in M /\ Tail(q) \in Seq(M)
    BY <1>5
  <2>2. Gather(p, Tail(q)) \in Seq(S)
    BY <2>1, GatherFacts
  <2>3. p[Head(q)] \in Seq(S)
    BY <1>2, <2>1
  <2> QED BY <1>1, <1>3, <1>5, <2>2, <2>3
<1> QED BY <1>1, <1>4, <1>5, JoinFacts

-----------------------------------------------------------------------------
(* Sequences that arrays hold.                                              *)

\* An index that is advanced by at most the length of an array wraps once.
LEMMA IndexWraps ==
  ASSUME NEW N \in Nat \ {0}, NEW i \in 0 .. N - 1, NEW k \in 0 .. N
  PROVE  (i + k) % N = IF i + k < N THEN i + k ELSE i + k - N
<1> DEFINE d == (i + k) \div N
           r == (i + k) % N
<1>1. r \in 0 .. N - 1 /\ i + k = N * d + r /\ d \in Int
  OBVIOUS
<1> HIDE DEF d, r
<1>2. d = 0 \/ d = 1
  <2>1. CASE d >= 2
    BY <1>1, <2>1
  <2>2. CASE d <= -1
    BY <1>1, <2>2
  <2> QED BY <1>1, <2>1, <2>2
<1>3. r = IF i + k < N THEN i + k ELSE i + k - N
  BY <1>1, <1>2
<1> QED BY <1>3 DEF r

\* The ends of a sequence.
LEMMA HeadTail ==
  ASSUME NEW S, NEW s \in Seq(S), s # << >>
  PROVE  Head(s) \in S /\ Tail(s) \in Seq(S) /\ Len(Tail(s)) = Len(s) - 1 /\ Len(s) \in Nat
         /\ \A i \in 1 .. Len(s) - 1 : Tail(s)[i] = s[i + 1]
OBVIOUS

\* A sequence given place by place.
LEMMA FunIsSeq ==
  ASSUME NEW S, NEW n \in Nat, NEW f, f = [i \in 1 .. n |-> f[i]],
         \A i \in 1 .. n : f[i] \in S
  PROVE  f \in Seq(S)
<1>1. f \in [1 .. n -> S]
  OBVIOUS
<1> QED BY <1>1

\* Sequences with the same items are equal.
LEMMA SameItems ==
  ASSUME NEW S, NEW s \in Seq(S), NEW t \in Seq(S), Len(s) = Len(t),
         \A i \in 1 .. Len(s) : s[i] = t[i]
  PROVE  s = t
OBVIOUS

\* A sequence with one item more.
LEMMA AppendIs ==
  ASSUME NEW S, NEW s \in Seq(S), NEW e \in S, NEW f, NEW n \in Nat,
         n = Len(s) + 1, \A i \in 1 .. n : f[i] = IF i = n THEN e ELSE s[i],
         f = [i \in 1 .. n |-> f[i]]
  PROVE  f = Append(s, e)
<1>1. Append(s, e) \in Seq(S) /\ Len(Append(s, e)) = n
  OBVIOUS
<1>2. \A i \in 1 .. n : Append(s, e)[i] = IF i = n THEN e ELSE s[i]
  OBVIOUS
<1>3. \A i \in 1 .. n : f[i] \in S
  BY <1>1, <1>2
<1>4. f \in Seq(S)
  BY <1>3, FunIsSeq
<1>5. Len(f) = n
  BY <1>4
<1>6. \A i \in 1 .. n : f[i] = Append(s, e)[i]
  BY <1>2
<1> QED BY <1>1, <1>4, <1>5, <1>6, SameItems
-----------------------------------------------------------------------------
(* The heap, for any nodes and keys.                                       *)

\* A node is in the array of a heap; none is there twice.
Holds(n, data) == \E i \in 1 .. Len(data) : data[i] = n
Distinct(data) == \A i, j \in 1 .. Len(data) : data[i] = data[j] => i = j

Parent(j) == getParent(j)
K(h, i)   == KeyAt(h, i)
Size(h)   == HeapSize(h)

\* A heap of nodes of N, whatever indices they cache.
HeapOf(h, N) ==
  /\ h \in [data : Seq(N), key : [N -> Int], index : {h.index}, lost : {h.lost}]
  /\ Distinct(h.data)

\* No node has a smaller key than its parent.
Ordered(h) == \A j \in 1 .. Size(h) - 1 : K(h, Parent(j)) <= K(h, j)

\* Each node of the heap caches its place, but the root, whose cached index may
\* be any; a node that has left the heap caches -1, and the root does not.
Indexed(h) ==
  /\ h.index \in [DOMAIN h.index -> Int]
  /\ \A x : Holds(x, h.data) <=> x \in DOMAIN h.index /\ h.index[x] # -1
  /\ \A j \in 1 .. Size(h) - 1 : h.index[h.data[j + 1]] = j

\* The same nodes, with the same keys, in another order.
Shuffled(h, g) ==
  /\ Size(h) = Size(g) /\ h.key = g.key /\ h.lost = g.lost
  /\ Indexed(g) => Indexed(h)
  /\ \A n : Holds(n, h.data) <=> Holds(n, g.data)

\* The tree in the array.
LEMMA ParentIs ==
  ASSUME NEW j \in Nat \ {0}
  PROVE  /\ Parent(j) \in Nat /\ Parent(j) < j
         /\ \A i \in Nat : Parent(j) = i <=>
              j = getLeftChild(i) \/ j = getRightChild(i)
         /\ Parent(j) # 0 => Parent(Parent(j)) < Parent(j) /\ Parent(Parent(j)) \in Nat
<1> USE DEF Parent, getParent, getLeftChild, getRightChild
<1>1. Parent(j) \in Nat /\ Parent(j) < j
  OBVIOUS
<1>2. \A i \in Nat : Parent(j) = i <=>
         j = getLeftChild(i) \/ j = getRightChild(i)
  OBVIOUS
<1>3. ASSUME Parent(j) # 0
      PROVE  Parent(Parent(j)) < Parent(j) /\ Parent(Parent(j)) \in Nat
  <2> DEFINE p == Parent(j)
  <2>1. p \in Nat \ {0}
    BY <1>1, <1>3
  <2> HIDE DEF p
  <2>2. Parent(p) < p /\ Parent(p) \in Nat
    BY <2>1
  <2> QED BY <2>2 DEF p
<1> QED BY <1>1, <1>2, <1>3

\* A node of the heap has a key.
LEMMA HeapTypes ==
  ASSUME NEW N, NEW h, HeapOf(h, N)
  PROVE  /\ Size(h) \in Nat /\ h.data \in Seq(N) /\ h.key \in [N -> Int]
         /\ \A i \in 0 .. Size(h) - 1 :
              /\ At(h, i) \in N /\ At(h, i) = h.data[i + 1]
              /\ K(h, i) \in Int /\ K(h, i) = h.key[h.data[i + 1]]
<1>1. h.data \in Seq(N) /\ h.key \in [N -> Int] /\ Size(h) = Len(h.data)
  BY DEF HeapOf, Size, HeapSize
<1>2. ASSUME NEW i \in 0 .. Size(h) - 1
      PROVE  h.data[i + 1] \in N
  <2>1. i + 1 \in 1 .. Len(h.data)
    BY <1>1
  <2> QED BY <1>1, <2>1
<1> QED BY <1>1, <1>2 DEF K, KeyAt, At

\* swap: the nodes of two places, one of them not the root, change them, and
\* the rest stays.
LEMMA SwapIs ==
  ASSUME NEW N, NEW h, HeapOf(h, N),
         NEW i \in 0 .. Size(h) - 1, NEW j \in 1 .. Size(h) - 1, i # j
  PROVE  LET g == Swap(h, i, j)
         IN  /\ HeapOf(g, N) /\ Shuffled(g, h)
             /\ \A k \in 0 .. Size(h) - 1 :
                  K(g, k) = IF k = i THEN K(h, j) ELSE IF k = j THEN K(h, i) ELSE K(h, k)
<1> DEFINE g == Swap(h, i, j)
           d == h.data
           e == [d EXCEPT ![i + 1] = d[j + 1], ![j + 1] = d[i + 1]]
<1>1. /\ d \in Seq(N) /\ h.key \in [N -> Int] /\ Size(h) = Len(d) /\ Len(d) \in Nat
      /\ i + 1 \in 1 .. Len(d) /\ j + 1 \in 1 .. Len(d) /\ Distinct(d)
      /\ h \in [data : Seq(N), key : [N -> Int], index : {h.index}, lost : {h.lost}]
  BY HeapTypes DEF HeapOf, Size, HeapSize
<1>2. g.data = e /\ g.key = h.key /\ g.lost = h.lost
      /\ g.index = [h.index EXCEPT ![d[i + 1]] = h.index[d[j + 1]],
                                  ![d[j + 1]] = h.index[d[i + 1]]]
      /\ g = [data |-> g.data, key |-> g.key, index |-> g.index, lost |-> g.lost]
  <2> DEFINE f == [h.index EXCEPT ![d[i + 1]] = h.index[d[j + 1]],
                                  ![d[j + 1]] = h.index[d[i + 1]]]
  <2>1. h = [data |-> d, key |-> h.key, index |-> h.index, lost |-> h.lost]
    BY <1>1
  <2>2. g = [h EXCEPT !.data = e, !.index = f]
    BY <2>1 DEF Swap, At
  <2> HIDE DEF f, e, g
  <2>3. g = [data |-> e, key |-> h.key, index |-> f, lost |-> h.lost]
    BY <2>1, <2>2
  <2>4. g.index = f
    BY <2>3
  <2> QED BY <2>3, <2>4 DEF f
<1> HIDE DEF g
<1>3. /\ e \in Seq(N) /\ Len(e) = Len(d)
      /\ \A k \in 1 .. Len(d) :
           e[k] = IF k = j + 1 THEN d[i + 1] ELSE IF k = i + 1 THEN d[j + 1] ELSE d[k]
  BY <1>1
<1> HIDE DEF e
<1>4. Distinct(e)
  BY <1>1, <1>3 DEF Distinct
<1>5. ASSUME NEW n PROVE Holds(n, e) <=> Holds(n, d)
  <2>1. ASSUME Holds(n, e) PROVE Holds(n, d)
    BY <1>1, <1>3, <2>1 DEF Holds
  <2>2. ASSUME Holds(n, d) PROVE Holds(n, e)
    <3>1. PICK k \in 1 .. Len(d) : d[k] = n
      BY <2>2 DEF Holds
    <3>2. CASE k = i + 1
      BY <1>1, <1>3, <3>1, <3>2 DEF Holds
    <3>3. CASE k = j + 1
      BY <1>1, <1>3, <3>1, <3>3 DEF Holds
    <3>4. CASE k # i + 1 /\ k # j + 1
      BY <1>1, <1>3, <3>1, <3>4 DEF Holds
    <3> QED BY <3>2, <3>3, <3>4
  <2> QED BY <2>1, <2>2
<1>6. HeapOf(g, N)
  <2>1. g \in [data : Seq(N), key : [N -> Int], index : {g.index}, lost : {g.lost}]
    BY <1>1, <1>2, <1>3
  <2> QED BY <1>2, <1>4, <2>1 DEF HeapOf
<1>i. ASSUME Indexed(h) PROVE Indexed(g)
  <2> DEFINE a == d[i + 1]
             b == d[j + 1]
             x == h.index
             y == [x EXCEPT ![a] = x[b], ![b] = x[a]]
  <2>1. /\ x \in [DOMAIN x -> Int]
        /\ \A n : Holds(n, d) <=> n \in DOMAIN x /\ x[n] # -1
        /\ \A k \in 1 .. Len(d) - 1 : x[d[k + 1]] = k
    BY <1>1, <1>i DEF Indexed
  <2>2. a # b /\ Holds(a, d) /\ Holds(b, d) /\ x[b] = j /\ (i # 0 => x[a] = i)
    <3>1. a # b
      <4>1. /\ i + 1 \in 1 .. Len(d) /\ j + 1 \in 1 .. Len(d) /\ i + 1 # j + 1
            /\ \A k, n \in 1 .. Len(d) : d[k] = d[n] => k = n
        BY <1>1 DEF Distinct
      <4> HIDE DEF d
      <4> QED BY <4>1
    <3>2. Holds(a, d) /\ Holds(b, d)
      BY <1>1 DEF Holds
    <3>3. j \in 1 .. Len(d) - 1 /\ (i # 0 => i \in 1 .. Len(d) - 1)
      BY <1>1
    <3> HIDE DEF x
    <3> QED BY <2>1, <3>1, <3>2, <3>3
  <2>3. g.index = y
    BY <1>2
  <2>4. \A k \in 1 .. Len(d) : (k # i + 1 => d[k] # a) /\ (k # j + 1 => d[k] # b)
    BY <1>1 DEF Distinct
  <2> HIDE DEF a, b, x
  <2>5. /\ y \in [DOMAIN x -> Int] /\ DOMAIN y = DOMAIN x
        /\ \A n \in DOMAIN x : y[n] = IF n = b THEN x[a] ELSE IF n = a THEN x[b] ELSE x[n]
    BY <2>1, <2>2
  <2> HIDE DEF y
  <2>6. \A n : Holds(n, e) <=> n \in DOMAIN y /\ y[n] # -1
    BY <1>5, <2>1, <2>2, <2>5
  <2>7. ASSUME NEW k \in 1 .. Len(d) - 1 PROVE y[e[k + 1]] = k
    <3>1. k + 1 \in 1 .. Len(d) /\ Holds(d[k + 1], d) /\ x[d[k + 1]] = k
      <4>1. k + 1 \in 1 .. Len(d)
        BY <1>1
      <4> HIDE DEF d
      <4> QED BY <2>1, <4>1 DEF Holds
    <3>2. e[k + 1] = IF k = j THEN a ELSE IF k = i THEN b ELSE d[k + 1]
      <4>1. k + 1 = j + 1 <=> k = j
        OBVIOUS
      <4>2. k + 1 = i + 1 <=> k = i
        OBVIOUS
      <4> QED BY <1>3, <3>1, <4>1, <4>2 DEF a, b
    <3>3. CASE k = j
      BY <2>1, <2>2, <2>5, <3>2, <3>3
    <3>4. CASE k # j /\ k = i
      BY <2>1, <2>2, <2>5, <3>2, <3>4
    <3>5. CASE k # j /\ k # i
      <4>1. k + 1 # i + 1 /\ k + 1 # j + 1
        BY <3>5
      <4>2. d[k + 1] # a /\ d[k + 1] # b /\ d[k + 1] \in DOMAIN x
        BY <2>1, <2>4, <3>1, <4>1
      <4> QED BY <2>5, <3>1, <3>2, <3>5, <4>2
    <3> QED BY <3>3, <3>4, <3>5
  <2>8. g.data = e /\ Size(g) = Len(d)
    BY <1>2, <1>3 DEF Size, HeapSize
  <2> QED BY <2>3, <2>5, <2>6, <2>7, <2>8 DEF Indexed
<1>7. Shuffled(g, h)
  BY <1>1, <1>2, <1>3, <1>5, <1>i DEF Shuffled, Size, HeapSize
<1>8. ASSUME NEW k \in 0 .. Size(h) - 1
      PROVE  K(g, k) = IF k = i THEN K(h, j) ELSE IF k = j THEN K(h, i) ELSE K(h, k)
  <2>1. K(g, k) = h.key[e[k + 1]] /\ k + 1 \in 1 .. Len(d)
    BY <1>1, <1>2 DEF K, KeyAt, At
  <2>2. /\ K(h, i) = h.key[d[i + 1]] /\ K(h, j) = h.key[d[j + 1]]
        /\ K(h, k) = h.key[d[k + 1]]
    <3>1. \A n \in 0 .. Size(h) - 1 :
            /\ At(h, n) \in N /\ At(h, n) = h.data[n + 1]
            /\ K(h, n) \in Int /\ K(h, n) = h.key[h.data[n + 1]]
      BY ONLY HeapOf(h, N), HeapTypes
    <3> QED BY <3>1
  <2>3. e[k + 1] = IF k = j THEN d[i + 1] ELSE IF k = i THEN d[j + 1] ELSE d[k + 1]
    <3>1. k + 1 = j + 1 <=> k = j
      OBVIOUS
    <3>2. k + 1 = i + 1 <=> k = i
      OBVIOUS
    <3> QED BY <1>3, <2>1, <3>1, <3>2
  <2>4. CASE k = i
    BY <2>1, <2>2, <2>3, <2>4
  <2>5. CASE k = j
    BY <2>1, <2>2, <2>3, <2>5
  <2>6. CASE k # i /\ k # j
    BY <2>1, <2>2, <2>3, <2>6
  <2> QED BY <2>4, <2>5, <2>6
<1> QED BY <1>6, <1>7, <1>8 DEF g

\* Another order of the same nodes, twice.
LEMMA ShuffledTwice ==
  ASSUME NEW a, NEW b, NEW c, Shuffled(a, b), Shuffled(b, c)
  PROVE  Shuffled(a, c)
BY DEF Shuffled

-----------------------------------------------------------------------------
(* The loop towards the root.                                              *)

\* The order may be broken at m.at only, where the node is too small.
UpOK(m, h, N) ==
  /\ HeapOf(m.heap, N) /\ Shuffled(m.heap, h)
  /\ m.at \in 0 .. Size(h) - 1
  /\ \A j \in 1 .. Size(h) - 1 :
       /\ j # m.at => K(m.heap, Parent(j)) <= K(m.heap, j)
       /\ Parent(j) = m.at /\ m.at # 0 => K(m.heap, Parent(m.at)) <= K(m.heap, j)

GoesUp(m) == m.at > 0 /\ K(m.heap, Parent(m.at)) > K(m.heap, m.at)

\* A turn of the loop restores the order where it was broken, and may break it
\* at the parent.
LEMMA TurnUpOK ==
  ASSUME NEW N, NEW h, HeapOf(h, N), NEW m, UpOK(m, h, N)
  PROVE  LET n == TurnUp(m)
         IN  /\ UpOK(n, h, N)
             /\ ~ GoesUp(m) => n = m
             /\ GoesUp(m) => n.at < m.at
<1> DEFINE n == TurnUp(m)
           g == m.heap
           i == m.at
           p == Parent(i)
           f == Swap(g, p, i)
<1>1. /\ HeapOf(g, N) /\ Shuffled(g, h) /\ Size(g) = Size(h) /\ i \in 0 .. Size(h) - 1
      /\ Size(h) \in Nat
      /\ \A j \in 1 .. Size(h) - 1 :
           /\ j # i => K(g, Parent(j)) <= K(g, j)
           /\ Parent(j) = i /\ i # 0 => K(g, p) <= K(g, j)
  BY HeapTypes DEF UpOK, Shuffled
<1>2. CASE ~ GoesUp(m)
  <2>1. n = m
    BY <1>2 DEF GoesUp, TurnUp, K, Parent
  <2> QED BY <1>2, <2>1
<1>3. CASE GoesUp(m)
  <2>1. i > 0 /\ K(g, p) > K(g, i)
    BY <1>3 DEF GoesUp
  <2>2. n = [heap |-> f, at |-> p]
    BY <2>1 DEF TurnUp, K, Parent
  <2>3. p \in 0 .. Size(h) - 1 /\ p < i /\ p # i /\ i \in Nat \ {0}
    BY <1>1, <2>1, ParentIs
  <2>4. /\ HeapOf(f, N) /\ Shuffled(f, g)
        /\ \A k \in 0 .. Size(h) - 1 :
             K(f, k) = IF k = p THEN K(g, i) ELSE IF k = i THEN K(g, p) ELSE K(g, k)
    BY <1>1, <2>3, SwapIs
  <2> HIDE DEF n, g, i, p, f
  <2>5. \A k \in 0 .. Size(h) - 1 : K(g, k) \in Int
    BY <1>1, HeapTypes
  <2>6. ASSUME NEW j \in 1 .. Size(h) - 1
        PROVE  /\ j # p => K(f, Parent(j)) <= K(f, j)
               /\ Parent(j) = p /\ p # 0 => K(f, Parent(p)) <= K(f, j)
    <3>1. j \in 0 .. Size(h) - 1 /\ Parent(j) \in 0 .. Size(h) - 1 /\ Parent(j) # j
      BY <1>1, ParentIs
    <3>2. K(g, i) \in Int /\ K(g, p) \in Int /\ K(g, j) \in Int /\ K(g, Parent(j)) \in Int
      BY <1>1, <2>3, <2>5, <3>1
    <3>3. ASSUME j # p PROVE K(f, Parent(j)) <= K(f, j)
      <4>1. CASE j = i
        <5>1. Parent(j) = p
          BY <4>1 DEF p
        <5> QED BY <2>1, <2>3, <2>4, <3>1, <3>2, <4>1, <5>1
      <4>2. CASE j # i /\ Parent(j) = p
        <5>1. K(f, j) = K(g, j) /\ K(f, p) = K(g, i)
          BY <2>3, <2>4, <3>1, <3>3, <4>2
        <5>2. K(g, p) <= K(g, j)
          BY <1>1, <4>2
        <5> QED BY <2>1, <3>2, <4>2, <5>1, <5>2
      <4>3. CASE j # i /\ Parent(j) = i
        <5>1. K(f, j) = K(g, j) /\ K(f, i) = K(g, p)
          BY <2>3, <2>4, <3>1, <3>3, <4>3
        <5>2. K(g, p) <= K(g, j)
          BY <1>1, <2>3, <4>3
        <5> QED BY <4>3, <5>1, <5>2
      <4>4. CASE j # i /\ Parent(j) # p /\ Parent(j) # i
        <5>1. K(f, j) = K(g, j) /\ K(f, Parent(j)) = K(g, Parent(j))
          BY <2>4, <3>1, <3>3, <4>4
        <5> QED BY <1>1, <4>4, <5>1
      <4> QED BY <4>1, <4>2, <4>3, <4>4
    <3>4. ASSUME Parent(j) = p, p # 0 PROVE K(f, Parent(p)) <= K(f, j)
      <4>1. /\ p \in 1 .. Size(h) - 1 /\ Parent(p) \in 0 .. Size(h) - 1
            /\ Parent(p) # p /\ Parent(p) # i
        <5>1. p \in Nat \ {0}
          BY <2>3, <3>4
        <5>2. Parent(p) \in Nat /\ Parent(p) < p
          BY <5>1, ParentIs
        <5> QED BY <1>1, <2>3, <5>1, <5>2
      <4>2. K(f, Parent(p)) = K(g, Parent(p)) /\ K(g, Parent(p)) <= K(g, p)
        BY <1>1, <2>3, <2>4, <4>1
      <4>3. K(g, Parent(p)) \in Int
        BY <2>5, <4>1
      <4>4. CASE j = i
        BY <2>3, <2>4, <3>1, <4>2, <4>4
      <4>5. CASE j # i
        <5>1. K(f, j) = K(g, j) /\ K(g, p) <= K(g, j)
          BY <1>1, <2>4, <3>1, <3>4, <4>5
        <5> QED BY <3>2, <4>2, <4>3, <5>1
      <4> QED BY <4>4, <4>5
    <3> QED BY <3>3, <3>4
  <2>7. Shuffled(f, h) /\ n.heap = f /\ n.at = p
    BY <1>1, <2>2, <2>4, ShuffledTwice
  <2>8. UpOK(n, h, N)
    BY <2>3, <2>4, <2>6, <2>7 DEF UpOK
  <2> QED BY <1>3, <2>3, <2>7, <2>8 DEF n, i
<1> QED BY <1>2, <1>3

\* The states of a loop that takes n turns from m.
UpTurns(f, n, m) ==
  f = [k \in 0 .. n |-> IF k = 0 THEN m ELSE TurnUp(f[k - 1])]

LEMMA UpTurnsExist ==
  ASSUME NEW m
  PROVE  \A n \in Nat : \E f : UpTurns(f, n, m)
<1> DEFINE T == {n \in Nat : \E f : UpTurns(f, n, m)}
<1>1. 0 \in T
  <2> DEFINE f == [k \in 0 .. 0 |-> m]
  <2>1. f = [k \in 0 .. 0 |-> IF k = 0 THEN m ELSE TurnUp(f[k - 1])]
    OBVIOUS
  <2> HIDE DEF f
  <2>2. UpTurns(f, 0, m)
    BY <2>1 DEF UpTurns
  <2> QED BY <2>2
<1>2. ASSUME NEW n \in Nat, n \in T PROVE n + 1 \in T
  <2>1. PICK f : UpTurns(f, n, m)
    BY <1>2
  <2>2. \A k \in 0 .. n : f[k] = IF k = 0 THEN m ELSE TurnUp(f[k - 1])
    <3>1. f = [k \in 0 .. n |-> IF k = 0 THEN m ELSE TurnUp(f[k - 1])]
      BY <2>1 DEF UpTurns
    <3> DEFINE V(k) == IF k = 0 THEN m ELSE TurnUp(f[k - 1])
    <3>2. f = [k \in 0 .. n |-> V(k)]
      BY <3>1
    <3> HIDE DEF V
    <3>3. \A k \in 0 .. n : f[k] = V(k)
      BY <3>2
    <3> QED BY <3>3 DEF V
  <2> DEFINE g == [k \in 0 .. n + 1 |-> IF k = n + 1 THEN TurnUp(f[n]) ELSE f[k]]
             W(k) == IF k = 0 THEN m ELSE TurnUp(g[k - 1])
  <2>3. ASSUME NEW k \in 0 .. n + 1 PROVE g[k] = W(k)
    <3>1. CASE k = n + 1
      <4>1. g[k] = TurnUp(f[n]) /\ g[n] = f[n] /\ k - 1 = n /\ k # 0
        BY <3>1
      <4> QED BY <4>1
    <3>2. CASE k # n + 1 /\ k = 0
      BY <2>2, <3>2
    <3>3. CASE k # n + 1 /\ k # 0
      <4>1. k \in 0 .. n /\ k - 1 \in 0 .. n + 1 /\ k - 1 # n + 1
        BY <3>3
      <4>2. g[k] = f[k] /\ g[k - 1] = f[k - 1]
        BY <3>3, <4>1
      <4>3. f[k] = TurnUp(f[k - 1])
        BY <2>2, <3>3, <4>1
      <4> QED BY <3>3, <4>2, <4>3
    <3> QED BY <3>1, <3>2, <3>3
  <2>4. g = [k \in 0 .. n + 1 |-> g[k]]
    OBVIOUS
  <2> HIDE DEF g
  <2>5. g = [k \in 0 .. n + 1 |-> W(k)]
    <3> HIDE DEF W
    <3> QED BY <2>3, <2>4
  <2>6. UpTurns(g, n + 1, m)
    BY <2>5 DEF UpTurns
  <2> QED BY <2>6
<1> HIDE DEF T
<1>3. \A n \in Nat : n \in T
  BY <1>1, <1>2, Induction
<1> QED BY <1>3 DEF T

\* The loop ends with all nodes in order.
LEMMA MoveUpOK ==
  ASSUME NEW N, NEW h, HeapOf(h, N), NEW i \in 0 .. Size(h) - 1,
         UpOK([heap |-> h, at |-> i], h, N)
  PROVE  LET g == MoveUp(h, i)
         IN  HeapOf(g, N) /\ Shuffled(g, h) /\ Ordered(g)
<1> DEFINE m  == [heap |-> h, at |-> i]
           f  == CHOOSE f : UpTurns(f, i, m)
           T  == {k \in Nat : k \in 0 .. i =>
                   UpOK(f[k], h, N) /\ (~ GoesUp(f[k]) \/ f[k].at <= i - k)}
<1>1. UpTurns(f, i, m) /\ i \in Nat
  <2>1. i \in Nat
    BY HeapTypes
  <2> HIDE DEF m
  <2>2. \E x : UpTurns(x, i, m)
    BY <2>1, UpTurnsExist
  <2> QED BY <2>1, <2>2
<1>2. MoveUp(h, i) = f[i].heap
  BY DEF MoveUp, UpTurns
<1>3. f[0] = m /\ \A k \in 0 .. i : k # 0 => f[k] = TurnUp(f[k - 1])
  <2> HIDE DEF f, m
  <2> DEFINE V(k) == IF k = 0 THEN m ELSE TurnUp(f[k - 1])
  <2>1. f = [k \in 0 .. i |-> V(k)]
    BY <1>1 DEF UpTurns
  <2> HIDE DEF V
  <2>2. \A k \in 0 .. i : f[k] = V(k)
    BY <2>1
  <2>3. 0 \in 0 .. i
    BY <1>1
  <2> QED BY <2>2, <2>3 DEF V
<1>4. 0 \in T
  <2>1. UpOK(m, h, N) /\ m.at = i
    OBVIOUS
  <2> HIDE DEF m, f
  <2>2. UpOK(f[0], h, N) /\ f[0].at <= i - 0
    BY <1>1, <1>3, <2>1
  <2> QED BY <2>2
<1> HIDE DEF f, m
<1>5. ASSUME NEW k \in Nat, k \in T PROVE k + 1 \in T
  <2> SUFFICES ASSUME k + 1 \in 0 .. i
               PROVE  UpOK(f[k + 1], h, N) /\ (~ GoesUp(f[k + 1]) \/ f[k + 1].at <= i - (k + 1))
    OBVIOUS
  <2>1. /\ UpOK(f[k], h, N) /\ (~ GoesUp(f[k]) \/ f[k].at <= i - k)
    BY <1>1, <1>5
  <2>2. f[k + 1] = TurnUp(f[k])
    <3>1. k + 1 # 0 /\ (k + 1) - 1 = k
      OBVIOUS
    <3> QED BY <1>3, <3>1
  <2> DEFINE a == f[k]
             b == f[k + 1]
  <2>3. UpOK(b, h, N) /\ (~ GoesUp(a) => b = a) /\ (GoesUp(a) => b.at < a.at)
    BY <2>1, <2>2, TurnUpOK
  <2>4. a.at \in Int /\ b.at \in Int
    BY <2>1, <2>3, HeapTypes DEF UpOK
  <2> HIDE DEF a, b
  <2>5. CASE GoesUp(a)
    <3>1. a.at <= i - k
      BY <2>1, <2>5 DEF a
    <3>2. b.at <= i - (k + 1)
      BY <1>1, <2>3, <2>4, <2>5, <3>1
    <3> QED BY <2>3, <3>2 DEF b
  <2>6. CASE ~ GoesUp(a)
    BY <2>3, <2>6 DEF a, b
  <2> QED BY <2>5, <2>6
<1>6. i \in T
  <2> HIDE DEF T
  <2>1. \A n \in Nat : n \in T
    BY <1>4, <1>5, Induction
  <2> QED BY <1>1, <2>1
<1>7. UpOK(f[i], h, N) /\ ~ GoesUp(f[i])
  <2>1. UpOK(f[i], h, N) /\ (~ GoesUp(f[i]) \/ f[i].at <= i - i)
    BY <1>1, <1>6
  <2>2. f[i].at \in Nat
    BY <2>1, HeapTypes DEF UpOK
  <2> QED BY <1>1, <2>1, <2>2 DEF GoesUp
<1> DEFINE g == f[i].heap
           a == f[i].at
<1>8. /\ HeapOf(g, N) /\ Shuffled(g, h) /\ a \in 0 .. Size(h) - 1 /\ Size(g) = Size(h)
      /\ \A j \in 1 .. Size(h) - 1 : j # a => K(g, Parent(j)) <= K(g, j)
      /\ ~ (a > 0 /\ K(g, Parent(a)) > K(g, a))
  BY <1>7 DEF UpOK, GoesUp, Shuffled
<1> HIDE DEF g, a
<1>9. ASSUME NEW j \in 1 .. Size(g) - 1 PROVE K(g, Parent(j)) <= K(g, j)
  <2>1. CASE j # a
    BY <1>8, <2>1
  <2>2. CASE j = a
    <3>1. Parent(j) \in 0 .. Size(g) - 1 /\ j \in 0 .. Size(g) - 1 /\ j > 0
      BY <1>8, HeapTypes, ParentIs
    <3>2. K(g, Parent(j)) \in Int /\ K(g, j) \in Int
      BY <1>8, <3>1, HeapTypes
    <3> QED BY <1>8, <2>2, <3>1, <3>2
  <2> QED BY <2>1, <2>2
<1> QED BY <1>2, <1>8, <1>9 DEF Ordered, g

-----------------------------------------------------------------------------
(* The loop away from the root.                                            *)

\* The order may be broken at the children of m.at only, where m.at is too big.
DownOK(m, h, N) ==
  /\ HeapOf(m.heap, N) /\ Shuffled(m.heap, h)
  /\ m.at \in 0 .. Size(h) - 1
  /\ \A j \in 1 .. Size(h) - 1 :
       /\ Parent(j) # m.at => K(m.heap, Parent(j)) <= K(m.heap, j)
       /\ Parent(j) = m.at /\ m.at # 0 => K(m.heap, Parent(m.at)) <= K(m.heap, j)

GoesDown(m) ==
  /\ getLeftChild(m.at) <= Size(m.heap) - 1
  /\ K(m.heap, m.at) > K(m.heap, SmallerChild(m.heap, m.at))

\* The child that the loop compares with its parent is the smaller one.
LEMMA SmallerChildIs ==
  ASSUME NEW N, NEW h, HeapOf(h, N), NEW i \in 0 .. Size(h) - 1,
         getLeftChild(i) <= Size(h) - 1
  PROVE  LET c == SmallerChild(h, i)
         IN  /\ c \in 1 .. Size(h) - 1 /\ Parent(c) = i /\ i < c
             /\ \A j \in 1 .. Size(h) - 1 : Parent(j) = i => K(h, c) <= K(h, j)
<1> DEFINE l == getLeftChild(i)
           r == getRightChild(i)
           c == SmallerChild(h, i)
<1>1. /\ Size(h) \in Nat /\ l \in Nat /\ r = l + 1 /\ i < l /\ 1 <= l /\ l <= Size(h) - 1
  BY HeapTypes DEF getLeftChild, getRightChild
<1>2. \A j \in 1 .. Size(h) - 1 : Parent(j) = i <=> j = l \/ j = r
  BY HeapTypes, ParentIs
<1>3. c = IF r <= Size(h) - 1 /\ ~ (K(h, l) < K(h, r)) THEN r ELSE l
  BY DEF SmallerChild, K, Size
<1> HIDE DEF l, r, c
<1>4. \A j \in 1 .. Size(h) - 1 : K(h, j) \in Int
  BY <1>1, HeapTypes
<1>5. c \in 1 .. Size(h) - 1 /\ (c = l \/ c = r) /\ i < c
  BY <1>1, <1>3
<1>6. ASSUME NEW j \in 1 .. Size(h) - 1, Parent(j) = i PROVE K(h, c) <= K(h, j)
  <2>1. l \in 1 .. Size(h) - 1 /\ K(h, l) \in Int /\ K(h, j) \in Int
    BY <1>1, <1>4
  <2>2. CASE r <= Size(h) - 1
    <3>1. K(h, r) \in Int
      BY <1>1, <1>4, <2>2
    <3> QED BY <1>2, <1>3, <1>6, <2>1, <3>1
  <2>3. CASE ~ (r <= Size(h) - 1)
    <3>1. j = l
      BY <1>1, <1>2, <1>6, <2>3
    <3> QED BY <1>3, <2>1, <2>3, <3>1
  <2> QED BY <2>2, <2>3
<1> QED BY <1>2, <1>5, <1>6 DEF c

\* A turn of the loop restores the order below m.at, and may break it below the
\* smaller child.
LEMMA TurnDownOK ==
  ASSUME NEW N, NEW h, HeapOf(h, N), NEW m, DownOK(m, h, N)
  PROVE  LET n == TurnDown(m)
         IN  /\ DownOK(n, h, N)
             /\ ~ GoesDown(m) => n = m
             /\ GoesDown(m) => n.at > m.at
<1> DEFINE n == TurnDown(m)
           g == m.heap
           i == m.at
           c == SmallerChild(g, i)
           f == Swap(g, i, c)
<1>1. /\ HeapOf(g, N) /\ Shuffled(g, h) /\ Size(g) = Size(h) /\ i \in 0 .. Size(h) - 1
      /\ Size(h) \in Nat
      /\ \A j \in 1 .. Size(h) - 1 :
           /\ Parent(j) # i => K(g, Parent(j)) <= K(g, j)
           /\ Parent(j) = i /\ i # 0 => K(g, Parent(i)) <= K(g, j)
  BY HeapTypes DEF DownOK, Shuffled
<1>2. CASE ~ GoesDown(m)
  <2>1. n = m
    BY <1>2 DEF GoesDown, TurnDown, K, Size
  <2> QED BY <1>2, <2>1
<1>3. CASE GoesDown(m)
  <2>1. getLeftChild(i) <= Size(g) - 1 /\ K(g, i) > K(g, c)
    BY <1>3 DEF GoesDown
  <2>2. n = [heap |-> f, at |-> c]
    BY <2>1 DEF TurnDown, K, Size
  <2>3. /\ c \in 1 .. Size(h) - 1 /\ Parent(c) = i /\ i < c /\ c # i /\ i \in Nat /\ c \in Nat \ {0}
        /\ \A j \in 1 .. Size(h) - 1 : Parent(j) = i => K(g, c) <= K(g, j)
    BY <1>1, <2>1, SmallerChildIs
  <2>4. /\ HeapOf(f, N) /\ Shuffled(f, g)
        /\ \A k \in 0 .. Size(h) - 1 :
             K(f, k) = IF k = i THEN K(g, c) ELSE IF k = c THEN K(g, i) ELSE K(g, k)
    <3>1. c \in 1 .. Size(g) - 1 /\ i \in 0 .. Size(g) - 1
      BY <1>1, <2>3
    <3> QED BY <1>1, <2>3, <3>1, SwapIs
  <2> HIDE DEF n, g, i, c, f
  <2>5. \A k \in 0 .. Size(h) - 1 : K(g, k) \in Int
    BY <1>1, HeapTypes
  <2>6. ASSUME NEW j \in 1 .. Size(h) - 1
        PROVE  /\ Parent(j) # c => K(f, Parent(j)) <= K(f, j)
               /\ Parent(j) = c /\ c # 0 => K(f, Parent(c)) <= K(f, j)
    <3>1. /\ j \in 0 .. Size(h) - 1 /\ Parent(j) \in 0 .. Size(h) - 1 /\ Parent(j) < j
          /\ c \in 0 .. Size(h) - 1 /\ i \in 0 .. Size(h) - 1
      BY <1>1, <2>3, ParentIs
    <3>2. K(g, i) \in Int /\ K(g, c) \in Int /\ K(g, j) \in Int /\ K(g, Parent(j)) \in Int
      BY <1>1, <2>3, <2>5, <3>1
    <3>3. K(f, i) = K(g, c) /\ K(f, c) = K(g, i)
      BY <2>3, <2>4, <3>1
    <3>4. ASSUME Parent(j) # c PROVE K(f, Parent(j)) <= K(f, j)
      <4>1. CASE j = c
        BY <2>1, <2>3, <3>2, <3>3, <4>1
      <4>2. CASE j # c /\ Parent(j) = i
        <5>1. K(f, j) = K(g, j)
          BY <2>4, <3>1, <4>2
        <5> QED BY <2>3, <3>3, <4>2, <5>1
      <4>3. CASE j = i
        <5>1. Parent(j) # i /\ Parent(j) # c /\ i # 0
          BY <1>1, <2>3, <3>1, <4>3
        <5>2. K(f, Parent(j)) = K(g, Parent(j))
          BY <2>4, <3>1, <5>1
        <5>3. K(g, Parent(i)) <= K(g, c)
          BY <1>1, <2>3, <5>1
        <5> QED BY <3>3, <4>3, <5>2, <5>3
      <4>4. CASE j # c /\ j # i /\ Parent(j) # i
        <5>1. K(f, j) = K(g, j) /\ K(f, Parent(j)) = K(g, Parent(j))
          BY <2>4, <3>1, <3>4, <4>4
        <5> QED BY <1>1, <4>4, <5>1
      <4> QED BY <4>1, <4>2, <4>3, <4>4
    <3>5. ASSUME Parent(j) = c, c # 0 PROVE K(f, Parent(c)) <= K(f, j)
      <4>1. j # i /\ j # c /\ Parent(j) # i
        BY <1>1, <2>3, <3>1, <3>5
      <4>2. K(f, j) = K(g, j) /\ K(g, c) <= K(g, j)
        BY <1>1, <2>4, <3>1, <3>5, <4>1
      <4> QED BY <2>3, <3>3, <4>2
    <3> QED BY <3>4, <3>5
  <2>7. Shuffled(f, h) /\ n.heap = f /\ n.at = c
    BY <1>1, <2>2, <2>4, ShuffledTwice
  <2>8. DownOK(n, h, N)
    <3>1. c \in 0 .. Size(h) - 1
      BY <2>3
    <3> QED BY <2>4, <2>6, <2>7, <3>1 DEF DownOK
  <2> QED BY <1>1, <1>3, <2>3, <2>7, <2>8 DEF n, i
<1> QED BY <1>2, <1>3

\* The states of a loop that takes n turns from m.
DownTurns(f, n, m) ==
  f = [k \in 0 .. n |-> IF k = 0 THEN m ELSE TurnDown(f[k - 1])]

LEMMA DownTurnsExist ==
  ASSUME NEW m
  PROVE  \A n \in Nat : \E f : DownTurns(f, n, m)
<1> DEFINE T == {n \in Nat : \E f : DownTurns(f, n, m)}
<1>1. 0 \in T
  <2> DEFINE f == [k \in 0 .. 0 |-> m]
  <2>1. f = [k \in 0 .. 0 |-> IF k = 0 THEN m ELSE TurnDown(f[k - 1])]
    OBVIOUS
  <2> HIDE DEF f
  <2>2. DownTurns(f, 0, m)
    BY <2>1 DEF DownTurns
  <2> QED BY <2>2
<1>2. ASSUME NEW n \in Nat, n \in T PROVE n + 1 \in T
  <2>1. PICK f : DownTurns(f, n, m)
    BY <1>2
  <2>2. \A k \in 0 .. n : f[k] = IF k = 0 THEN m ELSE TurnDown(f[k - 1])
    <3>1. f = [k \in 0 .. n |-> IF k = 0 THEN m ELSE TurnDown(f[k - 1])]
      BY <2>1 DEF DownTurns
    <3> DEFINE V(k) == IF k = 0 THEN m ELSE TurnDown(f[k - 1])
    <3>2. f = [k \in 0 .. n |-> V(k)]
      BY <3>1
    <3> HIDE DEF V
    <3>3. \A k \in 0 .. n : f[k] = V(k)
      BY <3>2
    <3> QED BY <3>3 DEF V
  <2> DEFINE g == [k \in 0 .. n + 1 |-> IF k = n + 1 THEN TurnDown(f[n]) ELSE f[k]]
             W(k) == IF k = 0 THEN m ELSE TurnDown(g[k - 1])
  <2>3. ASSUME NEW k \in 0 .. n + 1 PROVE g[k] = W(k)
    <3>1. CASE k = n + 1
      <4>1. g[k] = TurnDown(f[n]) /\ g[n] = f[n] /\ k - 1 = n /\ k # 0
        BY <3>1
      <4> QED BY <4>1
    <3>2. CASE k # n + 1 /\ k = 0
      BY <2>2, <3>2
    <3>3. CASE k # n + 1 /\ k # 0
      <4>1. k \in 0 .. n /\ k - 1 \in 0 .. n + 1 /\ k - 1 # n + 1
        BY <3>3
      <4>2. g[k] = f[k] /\ g[k - 1] = f[k - 1]
        BY <3>3, <4>1
      <4>3. f[k] = TurnDown(f[k - 1])
        BY <2>2, <3>3, <4>1
      <4> QED BY <3>3, <4>2, <4>3
    <3> QED BY <3>1, <3>2, <3>3
  <2>4. g = [k \in 0 .. n + 1 |-> g[k]]
    OBVIOUS
  <2> HIDE DEF g
  <2>5. g = [k \in 0 .. n + 1 |-> W(k)]
    <3> HIDE DEF W
    <3> QED BY <2>3, <2>4
  <2>6. DownTurns(g, n + 1, m)
    BY <2>5 DEF DownTurns
  <2> QED BY <2>6
<1> HIDE DEF T
<1>3. \A n \in Nat : n \in T
  BY <1>1, <1>2, Induction
<1> QED BY <1>3 DEF T

\* The loop ends with all nodes in order.
LEMMA MoveDownOK ==
  ASSUME NEW N, NEW h, HeapOf(h, N), Size(h) # 0, DownOK([heap |-> h, at |-> 0], h, N)
  PROVE  LET g == MoveDown(h)
         IN  HeapOf(g, N) /\ Shuffled(g, h) /\ Ordered(g)
<1> DEFINE m  == [heap |-> h, at |-> 0]
           i  == Size(h)
           f  == CHOOSE f : DownTurns(f, i, m)
           T  == {k \in Nat : k \in 0 .. i =>
                   DownOK(f[k], h, N) /\ (~ GoesDown(f[k]) \/ f[k].at >= k)}
<1>1. DownTurns(f, i, m) /\ i \in Nat
  <2>1. i \in Nat
    BY HeapTypes
  <2> HIDE DEF m
  <2>2. \E x : DownTurns(x, i, m)
    BY <2>1, DownTurnsExist
  <2> QED BY <2>1, <2>2
<1>2. MoveDown(h) = f[i].heap
  BY DEF MoveDown, DownTurns, Size
<1>3. f[0] = m /\ \A k \in 0 .. i : k # 0 => f[k] = TurnDown(f[k - 1])
  <2> HIDE DEF f, m, i
  <2> DEFINE V(k) == IF k = 0 THEN m ELSE TurnDown(f[k - 1])
  <2>1. f = [k \in 0 .. i |-> V(k)]
    BY <1>1 DEF DownTurns
  <2> HIDE DEF V
  <2>2. \A k \in 0 .. i : f[k] = V(k)
    BY <2>1
  <2>3. 0 \in 0 .. i
    BY <1>1
  <2> QED BY <2>2, <2>3 DEF V
<1>4. 0 \in T
  <2>1. DownOK(m, h, N) /\ m.at = 0
    OBVIOUS
  <2> HIDE DEF m, f
  <2>2. DownOK(f[0], h, N) /\ f[0].at >= 0
    BY <1>1, <1>3, <2>1
  <2> QED BY <2>2
<1> HIDE DEF f, m
<1>5. ASSUME NEW k \in Nat, k \in T PROVE k + 1 \in T
  <2> SUFFICES ASSUME k + 1 \in 0 .. i
               PROVE  DownOK(f[k + 1], h, N) /\ (~ GoesDown(f[k + 1]) \/ f[k + 1].at >= k + 1)
    OBVIOUS
  <2>1. DownOK(f[k], h, N) /\ (~ GoesDown(f[k]) \/ f[k].at >= k)
    BY <1>1, <1>5
  <2>2. f[k + 1] = TurnDown(f[k])
    <3>1. k + 1 # 0 /\ (k + 1) - 1 = k
      OBVIOUS
    <3> QED BY <1>3, <3>1
  <2> DEFINE a == f[k]
             b == f[k + 1]
  <2>3. DownOK(b, h, N) /\ (~ GoesDown(a) => b = a) /\ (GoesDown(a) => b.at > a.at)
    BY <2>1, <2>2, TurnDownOK
  <2>4. a.at \in Int /\ b.at \in Int
    BY <2>1, <2>3, HeapTypes DEF DownOK
  <2> HIDE DEF a, b
  <2>5. CASE GoesDown(a)
    <3>1. a.at >= k
      BY <2>1, <2>5 DEF a
    <3>2. b.at >= k + 1
      BY <1>1, <2>3, <2>4, <2>5, <3>1
    <3> QED BY <2>3, <3>2 DEF b
  <2>6. CASE ~ GoesDown(a)
    BY <2>3, <2>6 DEF a, b
  <2> QED BY <2>5, <2>6
<1>6. i \in T
  <2> HIDE DEF T
  <2>1. \A n \in Nat : n \in T
    BY <1>4, <1>5, Induction
  <2> QED BY <1>1, <2>1
<1>7. DownOK(f[i], h, N) /\ ~ GoesDown(f[i])
  <2>1. DownOK(f[i], h, N) /\ (~ GoesDown(f[i]) \/ f[i].at >= i)
    BY <1>1, <1>6
  <2>2. f[i].at \in Nat /\ f[i].at <= i - 1
    BY <1>1, <2>1 DEF DownOK
  <2> QED BY <1>1, <2>1, <2>2
<1> DEFINE g == f[i].heap
           a == f[i].at
<1>8. /\ HeapOf(g, N) /\ Shuffled(g, h) /\ a \in 0 .. Size(h) - 1 /\ Size(g) = Size(h)
      /\ \A j \in 1 .. Size(h) - 1 : Parent(j) # a => K(g, Parent(j)) <= K(g, j)
      /\ ~ (/\ getLeftChild(a) <= Size(g) - 1
            /\ K(g, a) > K(g, SmallerChild(g, a)))
  BY <1>7 DEF DownOK, GoesDown, Shuffled
<1> HIDE DEF g, a
<1>9. ASSUME NEW j \in 1 .. Size(g) - 1 PROVE K(g, Parent(j)) <= K(g, j)
  <2>1. CASE Parent(j) # a
    BY <1>8, <2>1
  <2>2. CASE Parent(j) = a
    <3>1. /\ j = getLeftChild(a) \/ j = getRightChild(a)
          /\ a \in Nat /\ j \in Nat
      BY <1>8, <2>2, HeapTypes, ParentIs
    <3>2. getLeftChild(a) <= Size(g) - 1
      BY <1>1, <1>8, <3>1 DEF getLeftChild, getRightChild
    <3> DEFINE c == SmallerChild(g, a)
    <3>3. /\ c \in 1 .. Size(g) - 1
          /\ K(g, c) <= K(g, j)
      BY <1>8, <2>2, <3>2, SmallerChildIs
    <3>4. ~ (K(g, a) > K(g, c))
      BY <1>8, <3>2
    <3> HIDE DEF c
    <3>5. K(g, a) \in Int /\ K(g, c) \in Int /\ K(g, j) \in Int
      BY <1>8, <3>3, HeapTypes
    <3> QED BY <2>2, <3>3, <3>4, <3>5
  <2> QED BY <2>1, <2>2
<1> QED BY <1>2, <1>8, <1>9 DEF Ordered, g

-----------------------------------------------------------------------------
(* minHeapInsert and minHeapPop.                                           *)

\* The root of an ordered heap has the least key.
THEOREM RootIsLeast ==
  ASSUME NEW N, NEW h, HeapOf(h, N), Ordered(h), NEW j \in 0 .. Size(h) - 1
  PROVE  K(h, 0) <= K(h, j)
<1> DEFINE T == {k \in 0 .. Size(h) - 1 : ~ (K(h, 0) <= K(h, k))}
<1> SUFFICES ASSUME T # {} PROVE FALSE
  OBVIOUS
<1>1. Size(h) \in Nat /\ \A k \in 0 .. Size(h) - 1 : K(h, k) \in Int
  BY HeapTypes
<1>2. PICK k \in T : \A n \in T : k <= n
  <2>1. T \subseteq Nat
    BY <1>1
  <2> HIDE DEF T
  <2> QED BY <2>1, LeastElement
<1>3. k \in 0 .. Size(h) - 1 /\ ~ (K(h, 0) <= K(h, k)) /\ 0 \in 0 .. Size(h) - 1
  BY <1>1
<1>4. k # 0
  BY <1>1, <1>3
<1>5. Parent(k) \in 0 .. Size(h) - 1 /\ Parent(k) < k /\ k \in 1 .. Size(h) - 1
  BY <1>1, <1>3, <1>4, ParentIs
<1>6. K(h, Parent(k)) <= K(h, k)
  BY <1>5 DEF Ordered
<1>7. ~ (K(h, 0) <= K(h, Parent(k)))
  <2>1. K(h, 0) \in Int /\ K(h, k) \in Int /\ K(h, Parent(k)) \in Int
    BY <1>1, <1>3, <1>5
  <2> QED BY <1>3, <1>6, <2>1
<1>8. Parent(k) \in T
  BY <1>5, <1>7
<1> HIDE DEF T
<1>9. k <= Parent(k)
  BY <1>2, <1>8
<1> QED BY <1>1, <1>3, <1>5, <1>9

\* minHeapInsert adds its node.
THEOREM HeapInsert ==
  ASSUME NEW N, NEW h, HeapOf(h, N), Ordered(h), NEW n \in N, ~ Holds(n, h.data)
  PROVE  LET g == minHeapInsert(h, n)
         IN  /\ HeapOf(g, N) /\ Ordered(g) /\ g.key = h.key /\ g.data # << >>
             /\ g.lost = h.lost /\ (Indexed(h) => Indexed(g))
             /\ \A x : Holds(x, g.data) <=> Holds(x, h.data) \/ x = n
<1> DEFINE i == Size(h)
           d == Append(h.data, n)
           e == [h EXCEPT !.data = Append(@, n), !.index = SetAt(@, n, i)]
           g == minHeapInsert(h, n)
           m == [heap |-> e, at |-> i]
<1>1. /\ h.data \in Seq(N) /\ h.key \in [N -> Int] /\ i = Len(h.data) /\ i \in Nat
      /\ Distinct(h.data)
  BY HeapTypes DEF HeapOf, Size, HeapSize
<1>a. h = [data |-> h.data, key |-> h.key, index |-> h.index, lost |-> h.lost]
  BY DEF HeapOf
<1>2. g = MoveUp(e, i)
  BY DEF minHeapInsert, Size
<1>3. e.data = d /\ e.key = h.key /\ e.lost = h.lost /\ e.index = SetAt(h.index, n, i)
      /\ e \in [data : {d}, key : {h.key}, index : {e.index}, lost : {e.lost}]
  <2> DEFINE x == SetAt(h.index, n, i)
  <2>1. h = [data |-> h.data, key |-> h.key, index |-> h.index, lost |-> h.lost]
    BY <1>a
  <2>2. e = [h EXCEPT !.data = d, !.index = x]
    BY <2>1
  <2> HIDE DEF x, d, e
  <2>3. e = [data |-> d, key |-> h.key, index |-> x, lost |-> h.lost]
    BY <2>1, <2>2
  <2>4. e.index = x
    BY <2>3
  <2> QED BY <2>3, <2>4 DEF x
<1> HIDE DEF e, g
<1>4. /\ d \in Seq(N) /\ Len(d) = i + 1
      /\ \A k \in 1 .. i + 1 : d[k] = IF k = i + 1 THEN n ELSE h.data[k]
  BY <1>1
<1>b. i = Len(h.data) /\ i \in Nat
  BY <1>1
<1> HIDE DEF d, i
<1>5. Distinct(d)
  <2>1. \A a, b \in 1 .. i : h.data[a] = h.data[b] => a = b
    BY <1>1 DEF Distinct
  <2>2. \A a \in 1 .. i : h.data[a] # n
    BY <1>1 DEF Holds
  <2>3. ASSUME NEW a \in 1 .. i + 1, NEW b \in 1 .. i + 1, d[a] = d[b] PROVE a = b
    <3>1. CASE a = i + 1 /\ b = i + 1
      BY <3>1
    <3>2. CASE a = i + 1 /\ b # i + 1
      <4>1. b \in 1 .. i
        BY <1>b, <3>2
      <4> QED BY <1>4, <2>2, <2>3, <3>2, <4>1
    <3>3. CASE a # i + 1 /\ b = i + 1
      <4>1. a \in 1 .. i
        BY <1>b, <3>3
      <4> QED BY <1>4, <2>2, <2>3, <3>3, <4>1
    <3>4. CASE a # i + 1 /\ b # i + 1
      <4>1. a \in 1 .. i /\ b \in 1 .. i
        BY <1>b, <3>4
      <4> QED BY <1>4, <2>1, <2>3, <3>4, <4>1
    <3> QED BY <3>1, <3>2, <3>3, <3>4
  <2> QED BY <1>4, <2>3 DEF Distinct
<1>6. ASSUME NEW x PROVE Holds(x, d) <=> Holds(x, h.data) \/ x = n
  <2>1. ASSUME Holds(x, d) PROVE Holds(x, h.data) \/ x = n
    <3>1. PICK k \in 1 .. i + 1 : d[k] = x
      BY <1>4, <2>1 DEF Holds
    <3>2. k = i + 1 \/ k \in 1 .. Len(h.data)
      BY <1>1
    <3> QED BY <1>4, <3>1, <3>2 DEF Holds
  <2>2. ASSUME Holds(x, h.data) PROVE Holds(x, d)
    <3>1. PICK k \in 1 .. i : h.data[k] = x
      BY <1>b, <2>2 DEF Holds
    <3>2. k \in 1 .. i + 1 /\ k # i + 1
      BY <1>b
    <3> QED BY <1>4, <3>1, <3>2 DEF Holds
  <2>3. ASSUME x = n PROVE Holds(x, d)
    <3>1. i + 1 \in 1 .. Len(d) /\ d[i + 1] = n
      BY <1>1, <1>4
    <3> QED BY <2>3, <3>1 DEF Holds
  <2> QED BY <2>1, <2>2, <2>3
<1>7. HeapOf(e, N) /\ Size(e) = i + 1
  <2>1. e \in [data : Seq(N), key : [N -> Int], index : {e.index}, lost : {e.lost}]
    BY <1>1, <1>3, <1>4
  <2> QED BY <1>3, <1>4, <1>5, <2>1 DEF HeapOf, Size, HeapSize
<1>8. ASSUME NEW k \in 0 .. i - 1 PROVE K(e, k) = K(h, k)
  <2>1. K(e, k) = h.key[d[k + 1]] /\ K(h, k) = h.key[h.data[k + 1]]
    BY <1>3 DEF K, KeyAt, At
  <2>2. k + 1 \in 1 .. i + 1 /\ k + 1 # i + 1
    BY <1>1
  <2> QED BY <1>4, <2>1, <2>2
<1>9. UpOK(m, e, N)
  <2>1. m.heap = e /\ m.at = i
    OBVIOUS
  <2> HIDE DEF m
  <2>2. Shuffled(e, e)
    BY DEF Shuffled
  <2>3. ASSUME NEW j \in 1 .. Size(e) - 1
        PROVE  /\ j # i => K(e, Parent(j)) <= K(e, j)
               /\ Parent(j) = i /\ i # 0 => K(e, Parent(i)) <= K(e, j)
    <3>1. j \in Nat \ {0} /\ j <= i /\ Parent(j) \in Nat /\ Parent(j) < j
      BY <1>1, <1>7, ParentIs
    <3>2. Parent(j) # i
      BY <1>1, <3>1
    <3>3. ASSUME j # i PROVE K(e, Parent(j)) <= K(e, j)
      <4>1. j \in 0 .. i - 1 /\ Parent(j) \in 0 .. i - 1 /\ j \in 1 .. i - 1
        BY <1>1, <3>1, <3>3
      <4>2. K(h, Parent(j)) <= K(h, j)
        BY <4>1 DEF Ordered, i
      <4> QED BY <1>8, <4>1, <4>2
    <3> QED BY <3>2, <3>3
  <2>4. i \in 0 .. Size(e) - 1
    BY <1>1, <1>7
  <2> QED BY <1>7, <2>1, <2>2, <2>3, <2>4 DEF UpOK
<1>10. HeapOf(g, N) /\ Shuffled(g, e) /\ Ordered(g)
  <2>1. i \in 0 .. Size(e) - 1
    BY <1>1, <1>7
  <2> QED BY <1>2, <1>7, <1>9, <2>1, MoveUpOK
<1>i. ASSUME Indexed(h) PROVE Indexed(e)
  <2> DEFINE x == h.index
             y == SetAt(x, n, i)
  <2>1. /\ x \in [DOMAIN x -> Int]
        /\ \A u : Holds(u, h.data) <=> u \in DOMAIN x /\ x[u] # -1
        /\ \A k \in 1 .. i - 1 : x[h.data[k + 1]] = k
    BY <1>i DEF Indexed, i
  <2> HIDE DEF x
  <2>2. /\ DOMAIN y = {n} \cup DOMAIN x
        /\ \A u \in DOMAIN y : y[u] = IF u = n THEN i ELSE x[u]
    BY DEF SetAt
  <2>3. y \in [DOMAIN y -> Int]
    BY <1>b, <2>1 DEF SetAt
  <2> HIDE DEF y
  <2>4. \A u : Holds(u, d) <=> u \in DOMAIN y /\ y[u] # -1
    BY <1>6, <1>b, <2>1, <2>2
  <2>5. ASSUME NEW k \in 1 .. i PROVE y[d[k + 1]] = k
    <3>1. CASE k = i
      <4>1. d[k + 1] = n
        BY <1>4, <1>b, <3>1
      <4> QED BY <2>2, <3>1, <4>1
    <3>2. CASE k # i
      <4>1. k \in 1 .. i - 1 /\ k + 1 \in 1 .. i /\ k + 1 \in 1 .. i + 1 /\ k + 1 # i + 1
        BY <1>b, <3>2
      <4>2. d[k + 1] = h.data[k + 1] /\ x[h.data[k + 1]] = k /\ Holds(h.data[k + 1], h.data)
        BY <1>4, <1>b, <2>1, <4>1 DEF Holds
      <4>3. d[k + 1] # n /\ d[k + 1] \in DOMAIN x
        BY <2>1, <4>2
      <4> QED BY <2>2, <4>2, <4>3
    <3> QED BY <3>1, <3>2
  <2>6. e.index = y /\ e.data = d /\ Size(e) - 1 = i
    BY <1>3, <1>7, <1>b DEF x, y
  <2> QED BY <2>3, <2>4, <2>5, <2>6 DEF Indexed
<1>11. /\ g.key = h.key /\ g.lost = h.lost /\ (Indexed(h) => Indexed(g))
       /\ \A x : Holds(x, g.data) <=> Holds(x, h.data) \/ x = n
  BY <1>3, <1>6, <1>10, <1>i DEF Shuffled
<1>12. g.data # << >>
  <2>1. Holds(n, g.data)
    BY <1>11
  <2> QED BY <2>1 DEF Holds
<1> QED BY <1>10, <1>11, <1>12 DEF g

\* minHeapPop removes the root.
THEOREM HeapPop ==
  ASSUME NEW N, NEW h, HeapOf(h, N), Ordered(h), h.data # << >>
  PROVE  LET g == minHeapPop(h)
         IN  /\ HeapOf(g, N) /\ Ordered(g) /\ g.key = h.key
             /\ g.lost = h.lost /\ (Indexed(h) => Indexed(g))
             /\ \A x : Holds(x, g.data) <=> Holds(x, h.data) /\ x # h.data[1]
<1> DEFINE n == Size(h)
           c == h.data
           d == SubSeq([c EXCEPT ![1] = c[(n - 1) + 1]], 1, n - 1)
           e == [h EXCEPT !.data = d, !.index[c[0 + 1]] = -1]
           g == minHeapPop(h)
           m == [heap |-> e, at |-> 0]
<1>1. /\ c \in Seq(N) /\ h.key \in [N -> Int] /\ n = Len(c) /\ n \in Nat \ {0}
      /\ Distinct(c)
  BY HeapTypes DEF HeapOf, Size, HeapSize
<1>a. h = [data |-> h.data, key |-> h.key, index |-> h.index, lost |-> h.lost]
  BY DEF HeapOf
<1>2. g = MoveDown(e)
  BY DEF minHeapPop, Size, At
<1>3. e.data = d /\ e.key = h.key /\ e.lost = h.lost
      /\ e.index = [h.index EXCEPT ![c[0 + 1]] = -1]
      /\ e \in [data : {d}, key : {h.key}, index : {e.index}, lost : {e.lost}]
  <2> DEFINE x == [h.index EXCEPT ![c[0 + 1]] = -1]
  <2>1. h = [data |-> h.data, key |-> h.key, index |-> h.index, lost |-> h.lost]
    BY <1>a
  <2>2. e = [h EXCEPT !.data = d, !.index = x]
    BY <2>1
  <2> HIDE DEF x, d, e
  <2>3. e = [data |-> d, key |-> h.key, index |-> x, lost |-> h.lost]
    BY <2>1, <2>2
  <2>4. e.index = x
    BY <2>3
  <2> QED BY <2>3, <2>4 DEF x
<1> HIDE DEF e, g
<1>4. /\ d \in Seq(N) /\ Len(d) = n - 1
      /\ \A k \in 1 .. n - 1 : d[k] = IF k = 1 THEN c[n] ELSE c[k]
  <2> DEFINE b == [c EXCEPT ![1] = c[(n - 1) + 1]]
  <2>1. b \in Seq(N) /\ Len(b) = n /\ \A k \in 1 .. n : b[k] = IF k = 1 THEN c[n] ELSE c[k]
    BY <1>1
  <2> HIDE DEF b, n
  <2>2. d = SubSeq(b, 1, n - 1) /\ n - 1 \in Nat /\ n - 1 <= Len(b) /\ n \in Nat
    BY <1>1, <2>1 DEF b
  <2>3. SubSeq(b, 1, n - 1) = [k \in 1 .. n - 1 |-> b[k]]
    BY <2>1, <2>2
  <2>4. d = [k \in 1 .. n - 1 |-> b[k]]
    BY <2>2, <2>3
  <2> HIDE DEF d
  <2>5. \A k \in 1 .. n - 1 : d[k] = b[k] /\ k \in 1 .. n /\ b[k] \in N
    BY <2>1, <2>2, <2>4
  <2>6. d \in Seq(N)
    <3>1. d = [k \in 1 .. n - 1 |-> d[k]]
      BY <2>4
    <3>2. \A k \in 1 .. n - 1 : d[k] \in N
      BY <2>5
    <3> QED BY <2>2, <3>1, <3>2, FunIsSeq
  <2>7. Len(d) = n - 1
    BY <2>2, <2>4, <2>6
  <2> QED BY <2>1, <2>5, <2>6, <2>7
<1>b. n = Len(c) /\ n \in Nat /\ n # 0
  BY <1>1
<1>d. \A k \in Nat : k # 0 /\ k # 1 => k - 1 # 0 /\ 0 \in 0 .. (k - 1) - 1 /\ 1 \in 1 .. k - 1
  OBVIOUS
<1> HIDE DEF d, n
<1>0. \A a, b \in 1 .. n : c[a] = c[b] => a = b
  BY <1>1 DEF Distinct
<1>5. Distinct(d)
  <2>1. ASSUME NEW a \in 1 .. n - 1, NEW b \in 1 .. n - 1, d[a] = d[b] PROVE a = b
    <3>1. /\ a \in 1 .. n /\ b \in 1 .. n /\ n \in 1 .. n /\ a # n /\ b # n
          /\ d[a] = (IF a = 1 THEN c[n] ELSE c[a]) /\ d[b] = (IF b = 1 THEN c[n] ELSE c[b])
      BY <1>b, <1>4
    <3> QED BY <1>0, <2>1, <3>1
  <2> QED BY <1>4, <2>1 DEF Distinct
<1>6. ASSUME NEW x PROVE Holds(x, d) <=> Holds(x, c) /\ x # c[1]
  <2>1. ASSUME Holds(x, d) PROVE Holds(x, c) /\ x # c[1]
    <3>1. PICK k \in 1 .. n - 1 : d[k] = x
      BY <1>4, <2>1 DEF Holds
    <3>2. CASE k = 1
      <4>1. n \in 1 .. Len(c) /\ 1 \in 1 .. Len(c) /\ n # 1
        <5>1. \A a \in Nat : \A b \in 1 .. a - 1 : a \in 1 .. a /\ 1 \in 1 .. a /\ a # 1
          OBVIOUS
        <5> QED BY <1>b, <3>1, <5>1
      <4>3. x = c[n]
        BY <1>4, <3>1, <3>2
      <4> QED BY <1>1, <4>1, <4>3 DEF Holds, Distinct
    <3>3. CASE k # 1
      <4>1. x = c[k] /\ k \in 1 .. Len(c) /\ 1 \in 1 .. Len(c)
        BY <1>1, <1>4, <3>1, <3>3
      <4> QED BY <1>1, <3>3, <4>1 DEF Holds, Distinct
    <3> QED BY <3>2, <3>3
  <2>2. ASSUME Holds(x, c), x # c[1] PROVE Holds(x, d)
    <3>1. PICK k \in 1 .. n : c[k] = x
      BY <1>1, <2>2 DEF Holds
    <3>2. CASE k = n
      <4>2. n # 1
        BY <2>2, <3>1, <3>2
      <4>1. 1 \in 1 .. Len(d) /\ d[1] = x
        <5>1. 1 \in 1 .. n - 1 /\ Len(d) = n - 1
          BY <1>b, <1>4, <1>d, <4>2
        <5> QED BY <1>4, <3>1, <3>2, <5>1
      <4> QED BY <4>1 DEF Holds
    <3>3. CASE k # n
      <4>1. k \in 1 .. Len(d) /\ d[k] = x
        BY <1>1, <1>4, <2>2, <3>1, <3>3
      <4> QED BY <4>1 DEF Holds
    <3> QED BY <3>2, <3>3
  <2> QED BY <2>1, <2>2
<1>7. HeapOf(e, N) /\ Size(e) = n - 1 /\ Shuffled(e, e)
  <2>1. e \in [data : Seq(N), key : [N -> Int], index : {e.index}, lost : {e.lost}]
    BY <1>1, <1>3, <1>4
  <2> QED BY <1>3, <1>4, <1>5, <2>1 DEF HeapOf, Size, HeapSize, Shuffled
<1>8. HeapOf(g, N) /\ Shuffled(g, e) /\ Ordered(g)
  <2>1. CASE n = 1
    <3>1. Size(e) = 0
      BY <1>7, <2>1
    <3> DEFINE f == CHOOSE f : DownTurns(f, 0, m)
    <3>2. DownTurns(f, 0, m)
      <4> HIDE DEF m
      <4>1. \E x : DownTurns(x, 0, m)
        BY DownTurnsExist
      <4> QED BY <4>1
    <3>3. MoveDown(e) = f[0].heap
      BY <3>1 DEF MoveDown, DownTurns, Size
    <3>4. f[0] = m
      <4> HIDE DEF f, m
      <4> DEFINE V(k) == IF k = 0 THEN m ELSE TurnDown(f[k - 1])
      <4>1. f = [k \in 0 .. 0 |-> V(k)]
        BY <3>2 DEF DownTurns
      <4> HIDE DEF V
      <4>2. f[0] = V(0)
        BY <4>1
      <4> QED BY <4>2 DEF V
    <3> HIDE DEF f
    <3>5. g = e
      BY <1>2, <3>3, <3>4
    <3> QED BY <1>7, <3>1, <3>5 DEF Ordered
  <2>2. CASE n # 1
    <3>1. Size(e) # 0 /\ 0 \in 0 .. Size(e) - 1
      BY <1>b, <1>d, <1>7, <2>2
    <3>2. ASSUME NEW k \in 1 .. Size(e) - 1 PROVE K(e, k) = K(h, k)
      <4>1. K(e, k) = h.key[d[k + 1]] /\ K(h, k) = h.key[c[k + 1]]
        BY <1>3 DEF K, KeyAt, At
      <4>2. k + 1 \in 1 .. n - 1 /\ k + 1 # 1
        BY <1>1, <1>7
      <4> QED BY <1>4, <4>1, <4>2
    <3>3. ASSUME NEW j \in 1 .. Size(e) - 1, Parent(j) # 0
          PROVE  K(e, Parent(j)) <= K(e, j)
      <4>1. Parent(j) \in 1 .. Size(e) - 1 /\ j \in 1 .. n - 1
        BY <1>1, <1>7, <3>3, ParentIs
      <4>2. K(h, Parent(j)) <= K(h, j)
        BY <4>1 DEF Ordered, n
      <4> QED BY <3>2, <4>1, <4>2
    <3>4. DownOK(m, e, N)
      <4>1. m.heap = e /\ m.at = 0
        OBVIOUS
      <4> HIDE DEF m
      <4> QED BY <1>7, <3>1, <3>3, <4>1 DEF DownOK
    <3> QED BY <1>2, <1>7, <3>1, <3>4, MoveDownOK
  <2> QED BY <2>1, <2>2
<1>i. ASSUME Indexed(h) PROVE Indexed(e)
  <2> DEFINE x == h.index
             r == c[0 + 1]
             y == [x EXCEPT ![r] = -1]
  <2>1. /\ x \in [DOMAIN x -> Int]
        /\ \A u : Holds(u, c) <=> u \in DOMAIN x /\ x[u] # -1
        /\ \A k \in 1 .. n - 1 : x[c[k + 1]] = k
    BY <1>i DEF Indexed, n
  <2> HIDE DEF x
  <2>2. r = c[1] /\ r \in DOMAIN x
    BY <1>1, <1>b, <2>1 DEF Holds
  <2> HIDE DEF r
  <2>3. /\ y \in [DOMAIN x -> Int] /\ DOMAIN y = DOMAIN x
        /\ \A u \in DOMAIN x : y[u] = IF u = r THEN -1 ELSE x[u]
    BY <2>1, <2>2
  <2> HIDE DEF y
  <2>4. \A u : Holds(u, d) <=> u \in DOMAIN y /\ y[u] # -1
    BY <1>6, <2>1, <2>2, <2>3
  <2>5. ASSUME NEW k \in 1 .. (n - 1) - 1 PROVE y[d[k + 1]] = k
    <3>1. /\ k + 1 \in 1 .. n - 1 /\ k + 1 # 1 /\ k \in 1 .. n - 1
          /\ k + 1 \in 1 .. n /\ 1 \in 1 .. n
      BY <1>b
    <3>2. d[k + 1] = c[k + 1] /\ x[c[k + 1]] = k /\ Holds(c[k + 1], c) /\ c[k + 1] # c[1]
      BY <1>0, <1>4, <1>b, <2>1, <3>1 DEF Holds
    <3> QED BY <2>1, <2>2, <2>3, <3>2
  <2>6. e.index = y /\ e.data = d /\ Size(e) = n - 1
    BY <1>3, <1>7 DEF r, x, y
  <2> QED BY <2>3, <2>4, <2>5, <2>6 DEF Indexed
<1>9. /\ g.key = h.key /\ g.lost = h.lost /\ (Indexed(h) => Indexed(g))
      /\ \A x : Holds(x, g.data) <=> Holds(x, c) /\ x # c[1]
  BY <1>3, <1>6, <1>8, <1>i DEF Shuffled
<1> QED BY <1>8, <1>9 DEF g

\* minHeapResortNode, once the key of its node has become smaller: the heap is in
\* order again, and no node was lost unless it was the root.  The root needs no
\* move; the others are found, since only the root may cache a wrong index.
THEOREM HeapResort ==
  ASSUME NEW N, NEW h, HeapOf(h, N), Ordered(h), Indexed(h),
         NEW n, Holds(n, h.data), NEW k \in Int, k <= h.key[n]
  PROVE  LET g == minHeapResortNode(SetKey(h, n, k), n)
         IN  /\ HeapOf(g, N) /\ Ordered(g) /\ Indexed(g)
             /\ g.key = SetAt(h.key, n, k)
             /\ \A x : Holds(x, g.data) <=> Holds(x, h.data)
             /\ h.data[1] # n => g.lost = h.lost
<1> DEFINE e == SetKey(h, n, k)
           g == minHeapResortNode(e, n)
<1>1. /\ h.data \in Seq(N) /\ h.key \in [N -> Int] /\ Size(h) = Len(h.data) /\ Size(h) \in Nat
      /\ n \in N
  BY HeapTypes DEF HeapOf, Size, HeapSize, Holds
<1>2. /\ e.data = h.data /\ e.index = h.index /\ e.lost = h.lost
      /\ e.key \in [N -> Int] /\ e.key = SetAt(h.key, n, k)
      /\ \A x \in N : e.key[x] = IF x = n THEN k ELSE h.key[x]
      /\ e = [data |-> e.data, key |-> e.key, index |-> e.index, lost |-> e.lost]
  <2> DEFINE c == SetAt(h.key, n, k)
  <2>1. h = [data |-> h.data, key |-> h.key, index |-> h.index, lost |-> h.lost]
    BY DEF HeapOf
  <2>2. c \in [N -> Int] /\ \A x \in N : c[x] = IF x = n THEN k ELSE h.key[x]
    BY <1>1 DEF SetAt
  <2>3. e = [h EXCEPT !.key = c]
    BY DEF SetKey
  <2> HIDE DEF c, e
  <2>4. e = [data |-> h.data, key |-> c, index |-> h.index, lost |-> h.lost]
    BY <2>1, <2>3
  <2>5. e.key = c
    BY <2>4
  <2> QED BY <2>2, <2>4, <2>5 DEF c
<1> HIDE DEF e, g
<1>3. HeapOf(e, N) /\ Size(e) = Size(h) /\ Indexed(e) /\ Shuffled(e, e)
  <2>1. e \in [data : Seq(N), key : [N -> Int], index : {e.index}, lost : {e.lost}]
    BY <1>1, <1>2
  <2>2. Distinct(e.data) /\ Size(e) = Size(h)
    BY <1>2 DEF HeapOf, Size, HeapSize
  <2>3. Indexed(e)
    BY <1>2, <2>2 DEF Indexed
  <2> QED BY <2>1, <2>2, <2>3 DEF HeapOf, Shuffled
<1>4. PICK i \in 0 .. Size(h) - 1 : h.data[i + 1] = n
  <2>1. PICK j \in 1 .. Len(h.data) : h.data[j] = n
    BY DEF Holds
  <2>2. j - 1 \in 0 .. Size(h) - 1 /\ (j - 1) + 1 = j
    BY <1>1
  <2> QED BY <2>1, <2>2
<1>5. /\ K(e, i) = k
      /\ \A j \in 0 .. Size(h) - 1 : /\ j # i => K(e, j) = K(h, j)
                                     /\ K(e, j) <= K(h, j)
                                     /\ K(e, j) \in Int /\ K(h, j) \in Int
  <2>1. \A j \in 0 .. Size(h) - 1 : h.data[j + 1] = n <=> j = i
    <3>1. \A j \in 0 .. Size(h) - 1 : j + 1 \in 1 .. Len(h.data)
      BY <1>1
    <3>2. \A a, b \in 1 .. Len(h.data) : h.data[a] = h.data[b] => a = b
      BY DEF HeapOf, Distinct
    <3> QED BY <1>4, <3>1, <3>2
  <2>2. \A j \in 0 .. Size(h) - 1 :
          /\ h.data[j + 1] \in N /\ K(h, j) = h.key[h.data[j + 1]] /\ K(h, j) \in Int
          /\ K(e, j) = e.key[h.data[j + 1]]
    <3>1. \A j \in 0 .. Size(h) - 1 : K(e, j) = e.key[h.data[j + 1]]
      BY <1>2 DEF K, KeyAt, At
    <3>2. \A j \in 0 .. Size(h) - 1 :
            h.data[j + 1] \in N /\ K(h, j) = h.key[h.data[j + 1]] /\ K(h, j) \in Int
      BY HeapTypes
    <3> QED BY <3>1, <3>2
  <2>3. \A j \in 0 .. Size(h) - 1 : K(e, j) = IF j = i THEN k ELSE K(h, j)
    BY <1>2, <2>1, <2>2
  <2>4. K(h, i) = h.key[n] /\ k <= K(h, i)
    BY <1>4, <2>2
  <2> QED BY <2>2, <2>3, <2>4
<1>6. ASSUME NEW j \in 1 .. Size(h) - 1, j # i
      PROVE  K(e, Parent(j)) <= K(e, j)
  <2>1. Parent(j) \in 0 .. Size(h) - 1 /\ j \in 0 .. Size(h) - 1
    BY <1>1, ParentIs
  <2>2. K(h, Parent(j)) <= K(h, j) /\ K(e, j) = K(h, j)
    BY <1>5, <1>6, <2>1 DEF Ordered
  <2> QED BY <1>5, <2>1, <2>2
<1>7. CASE ~ (h.index[n] \in 0 .. Size(h) - 1 /\ At(e, h.index[n]) = n)
  <2>1. g = [e EXCEPT !.lost = @ \cup {n}]
    BY <1>2, <1>3, <1>7 DEF minHeapResortNode, g, Size
  <2>2. /\ g.data = e.data /\ g.key = e.key /\ g.index = e.index
        /\ g \in [data : Seq(N), key : [N -> Int], index : {g.index}, lost : {g.lost}]
    <3>1. g = [data |-> e.data, key |-> e.key, index |-> e.index, lost |-> e.lost \cup {n}]
      BY <1>2, <2>1
    <3>2. e.data \in Seq(N) /\ e.key \in [N -> Int]
      BY <1>1, <1>2
    <3> HIDE DEF g
    <3> QED BY <3>1, <3>2
  <2>3. i = 0 /\ h.data[1] = n
    <3>1. ASSUME i # 0 PROVE FALSE
      <4>1. i \in 1 .. Size(h) - 1 /\ i \in 0 .. Size(h) - 1
        BY <1>1, <3>1
      <4>2. h.index[n] = i
        BY <1>4, <4>1 DEF Indexed
      <4>3. At(e, i) = n
        BY <1>2, <1>4 DEF At
      <4> QED BY <1>7, <4>1, <4>2, <4>3
    <3> QED BY <1>4, <3>1
  <2>4. Size(g) = Size(h) /\ \A j \in 0 .. Size(h) - 1 : K(g, j) = K(e, j)
    BY <1>3, <2>2 DEF Size, HeapSize, K, KeyAt, At
  <2>5. Ordered(g)
    <3>1. ASSUME NEW j \in 1 .. Size(h) - 1 PROVE K(g, Parent(j)) <= K(g, j)
      <4>1. j # i /\ j \in 0 .. Size(h) - 1 /\ Parent(j) \in 0 .. Size(h) - 1
        BY <1>1, <2>3, ParentIs
      <4> QED BY <1>6, <2>4, <4>1
    <3> QED BY <2>4, <3>1 DEF Ordered
  <2>6. HeapOf(g, N) /\ Indexed(g)
    BY <1>3, <2>2, <2>4 DEF HeapOf, Indexed
  <2> QED BY <1>2, <2>2, <2>3, <2>5, <2>6 DEF g, e
<1>8. CASE h.index[n] \in 0 .. Size(h) - 1 /\ At(e, h.index[n]) = n
  <2>1. h.index[n] = i
    <3>1. /\ h.index[n] + 1 \in 1 .. Len(h.data) /\ i + 1 \in 1 .. Len(h.data)
          /\ h.data[h.index[n] + 1] = n
      <4> DEFINE j == h.index[n]
      <4>1. j \in 0 .. Size(h) - 1 /\ h.data[j + 1] = n
        BY <1>2, <1>8 DEF At
      <4> HIDE DEF j
      <4>2. j + 1 \in 1 .. Len(h.data) /\ i + 1 \in 1 .. Len(h.data)
        BY <1>1, <4>1
      <4> QED BY <4>1, <4>2 DEF j
    <3>2. h.index[n] + 1 = i + 1
      BY <1>4, <3>1 DEF HeapOf, Distinct
    <3> QED BY <1>8, <3>2
  <2>2. g = MoveUp(e, i)
    BY <1>2, <1>3, <1>8, <2>1 DEF minHeapResortNode, g, Size
  <2> DEFINE m == [heap |-> e, at |-> i]
  <2>3. UpOK(m, e, N)
    <3>1. m.heap = e /\ m.at = i
      OBVIOUS
    <3> HIDE DEF m
    <3>2. ASSUME NEW j \in 1 .. Size(e) - 1, Parent(j) = i, i # 0
          PROVE  K(e, Parent(i)) <= K(e, j)
      <4>1. /\ j # i /\ j \in 0 .. Size(h) - 1 /\ j \in 1 .. Size(h) - 1
            /\ i \in 1 .. Size(h) - 1 /\ i \in Nat \ {0}
            /\ Parent(i) \in 0 .. Size(h) - 1 /\ Parent(i) # i
        <5>1. j \in 1 .. Size(h) - 1 /\ Size(h) \in Nat
          BY <1>1, <1>3
        <5>2. i \in 1 .. Size(h) - 1
          BY <3>2, <5>1
        <5>3. /\ Parent(j) \in 0 .. j - 1
              /\ Parent(i) \in 0 .. i - 1
          BY <5>1, <5>2, ParentIs
        <5> QED BY <3>2, <5>1, <5>2, <5>3
      <4>2. K(h, Parent(i)) <= K(h, i) /\ K(h, i) <= K(h, j)
        BY <3>2, <4>1 DEF Ordered
      <4>3. K(e, j) = K(h, j) /\ K(e, Parent(i)) = K(h, Parent(i))
        BY <1>5, <4>1
      <4> QED BY <1>5, <4>1, <4>2, <4>3
    <3> QED BY <1>3, <1>6, <3>1, <3>2 DEF UpOK
  <2>4. HeapOf(g, N) /\ Shuffled(g, e) /\ Ordered(g)
    BY <1>3, <2>2, <2>3, MoveUpOK
  <2>5. g.key = e.key /\ g.lost = e.lost /\ Indexed(g) /\ \A x : Holds(x, g.data) <=> Holds(x, e.data)
    BY <1>3, <2>4 DEF Shuffled
  <2> QED BY <1>2, <2>4, <2>5 DEF g, e
<1> QED BY <1>7, <1>8
=============================================================================
