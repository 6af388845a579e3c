--------------------------- MODULE ImageRefProofs ---------------------------
(***************************************************************************)
(* Proofs about ImageRef, for texts of whatever length.  Every text is the *)
(* empty one with atoms appended, and what the loops of the model compute  *)
(* is proved by induction along that.                                      *)
(***************************************************************************)
EXTENDS ImageRef, FiniteSetTheorems, TLAPS

Text == Seq(Words)

-----------------------------------------------------------------------------
(* Induction.                                                              *)

\* Least number.
LEMMA Least ==
  ASSUME NEW T \in SUBSET Nat, T # {}
  PROVE  \E x \in T : \A y \in T : x <= y
<1>1. \E x \in T : \A y \in T : ~(<<y, x>> \in OpToRel(<, Nat))
  BY NatLessThanWellFounded, WFMin, Zenon
<1> QED
  <2>1. ASSUME NEW x \in Nat, NEW y \in Nat, ~(<<y, x>> \in OpToRel(<, Nat))
        PROVE  x <= y
    <3>1. <<y, x>> \in Nat \X Nat /\ <<y, x>>[1] = y /\ <<y, x>>[2] = x
      OBVIOUS
    <3>2. ~(y < x)
      BY <2>1, <3>1, Zenon DEF OpToRel
    <3> QED  BY <3>2
  <2> QED  BY <1>1, <2>1

\* A set with 0 and the successor of each of its numbers has all numbers.
LEMMA Numbers ==
  ASSUME NEW S, 0 \in S, \A n \in Nat : n \in S => n + 1 \in S
  PROVE  \A n \in Nat : n \in S
<1> DEFINE T == Nat \ S
<1>1. ASSUME T # {}
      PROVE  FALSE
  <2>1. PICK m \in T : \A y \in T : m <= y
    <3>1. T \in SUBSET Nat
      OBVIOUS
    <3> HIDE DEF T
    <3> QED  BY <1>1, <3>1, Least, Zenon
  <2>2. m # 0 /\ m \in Nat
    OBVIOUS
  <2>3. m - 1 \in Nat /\ m - 1 \notin T
    BY <2>1, <2>2
  <2> QED
    BY <2>2, <2>3
<1> QED
  BY <1>1

\* A sequence that is not empty is one with an element appended.
LEMMA LastAppended ==
  ASSUME NEW W, NEW s \in Seq(W), s # <<>>
  PROVE  /\ Front(s) \in Seq(W) /\ s[Len(s)] \in W
         /\ Len(Front(s)) + 1 = Len(s)
         /\ s = Append(Front(s), s[Len(s)])
<1> DEFINE f == SubSeq(s, 1, Len(s) - 1)
<1>1. Len(s) \in Nat \ {0}
  OBVIOUS
<1>2. f \in Seq(W) /\ Len(f) = Len(s) - 1 /\ \A i \in 1..(Len(s) - 1) : f[i] = s[i]
  BY <1>1
<1> HIDE DEF f
<1>3. s = Append(f, s[Len(s)])
  BY <1>1, <1>2
<1> QED
  BY <1>1, <1>2, <1>3 DEF Front, f

\* A set with the empty sequence and what its sequences are with one more element has
\* all sequences.
LEMMA Sequences ==
  ASSUME NEW W, NEW S, <<>> \in S,
         \A s \in Seq(W), x \in W : s \in S => Append(s, x) \in S
  PROVE  \A s \in Seq(W) : s \in S
<1> DEFINE N == {n \in Nat : \A s \in Seq(W) : Len(s) = n => s \in S}
<1>1. 0 \in N
  BY DEF N
<1>2. ASSUME NEW n \in Nat, n \in N
      PROVE  n + 1 \in N
  <2> SUFFICES ASSUME NEW s \in Seq(W), Len(s) = n + 1
               PROVE  s \in S
    OBVIOUS
  <2>1. s # <<>>
    OBVIOUS
  <2>2. /\ Front(s) \in Seq(W) /\ s[Len(s)] \in W /\ Len(Front(s)) = n
        /\ s = Append(Front(s), s[Len(s)])
    BY <2>1, LastAppended
  <2>3. Front(s) \in S
    BY <1>2, <2>2
  <2> QED
    BY <2>2, <2>3
<1> HIDE DEF N
<1>3. \A n \in Nat : n \in N
  BY <1>1, <1>2, Numbers
<1>4. \A s \in Seq(W) : Len(s) \in Nat /\ Len(s) \in N
  BY <1>3
<1> QED
  BY <1>4 DEF N

\* The results for the numbers up to N, each by a step from the one before.
Steps(A, a, step, N, g) ==
  g \in [0..N -> A] /\ g[0] = a /\ \A n \in 1..N : g[n] = step[n][g[n - 1]]

\* There is a sequence of results of N steps.
LEMMA StepsExist ==
  ASSUME NEW A, NEW a \in A, NEW step \in [Nat -> [A -> A]], NEW N \in Nat
  PROVE  \E g : Steps(A, a, step, N, g)
<1> DEFINE Good(g, n) == g \in [0..n -> A] /\ g[0] = a
                         /\ \A k \in 1..n : g[k] = step[k][g[k - 1]]
           S == {n \in Nat : \E g : Good(g, n)}
<1>1. 0 \in S
  <2> DEFINE g == [n \in 0..0 |-> a]
  <2>1. Good(g, 0)
    OBVIOUS
  <2> QED  BY <2>1
<1>2. ASSUME NEW n \in Nat, n \in S
      PROVE  n + 1 \in S
  <2>1. PICK g : Good(g, n)
    BY <1>2
  <2> DEFINE h == [k \in 0..(n + 1) |-> IF k = n + 1 THEN step[n + 1][g[n]] ELSE g[k]]
  <2>2. step[n + 1][g[n]] \in A
    BY <2>1
  <2>3. h \in [0..(n + 1) -> A]
    BY <2>1, <2>2
  <2>4. h[0] = a
    BY <2>1
  <2>5. ASSUME NEW k \in 1..(n + 1)
        PROVE  h[k] = step[k][h[k - 1]]
    <3>1. CASE k = n + 1
      <4>1. h[k] = step[n + 1][g[n]] /\ h[k - 1] = g[n]
        BY <3>1
      <4> QED  BY <3>1, <4>1
    <3>2. CASE k \in 1..n
      <4>1. h[k] = g[k] /\ h[k - 1] = g[k - 1]
        BY <3>2
      <4>2. g[k] = step[k][g[k - 1]]
        BY <2>1, <3>2
      <4> QED  BY <4>1, <4>2
    <3> QED  BY <3>1, <3>2
  <2> HIDE DEF h
  <2>6. Good(h, n + 1)
    BY <2>3, <2>4, <2>5
  <2> QED  BY <2>6
<1> HIDE DEF S
<1>3. N \in S
  BY <1>1, <1>2, Numbers
<1> QED
  BY <1>3 DEF S, Steps

-----------------------------------------------------------------------------
(* FoldText: nothing of the empty text, and one step for an atom appended. *)

\* The results of FoldText for the beginnings of a text.
PrefixFolds(A, step, start, s, f) ==
  /\ f \in [0..Len(s) -> A]
  /\ f[0] = start
  /\ \A n \in 1..Len(s) : f[n] = step[s[n]][f[n - 1]]
  /\ FoldText(step, start, s) = f[Len(s)]

\* The recursion of FoldText is over such a sequence.
LEMMA FoldTextSteps ==
  ASSUME NEW A, NEW W, NEW step \in [W -> [A -> A]], NEW start \in A, NEW s \in Seq(W)
  PROVE  \E f : PrefixFolds(A, step, start, s, f)
<1> DEFINE N == Len(s)
           Upto(f) == f = [n \in 0..N |-> IF n = 0 THEN start ELSE step[s[n]][f[n - 1]]]
           at == [n \in Nat |-> IF n \in 1..N THEN step[s[n]] ELSE [x \in A |-> x]]
<1>1. N \in Nat /\ s \in [1..N -> W]
  OBVIOUS
<1>2. at \in [Nat -> [A -> A]]
  BY <1>1
<1>3. PICK g : Steps(A, start, at, N, g)
  <2> HIDE DEF at, N
  <2> QED  BY <1>1, <1>2, StepsExist
<1>4. ASSUME NEW n \in 1..N
      PROVE  g[n] = step[s[n]][g[n - 1]]
  <2>1. g[n] = at[n][g[n - 1]] /\ n \in Nat
    <3> HIDE DEF at
    <3> QED  BY <1>1, <1>3 DEF Steps
  <2>2. at[n] = step[s[n]]
    BY <2>1
  <2> QED  BY <2>1, <2>2
<1>5. Upto(g)
  BY <1>1, <1>3, <1>4 DEF Steps
<1> DEFINE f == CHOOSE h : Upto(h)
<1>6. Upto(f)
  <2> HIDE DEF Upto
  <2> QED  BY <1>5, Zenon
<1>7. FoldText(step, start, s) = f[N]
  BY Zenon DEF FoldText
<1> HIDE DEF f
<1>8. DOMAIN f = 0..N /\ f[0] = start /\ \A n \in 1..N : f[n] = step[s[n]][f[n - 1]]
  BY <1>1, <1>6
<1>9. \A n \in 0..N : f[n] \in A
  <2> DEFINE S == {n \in Nat : n \in 0..N => f[n] \in A}
  <2>1. 0 \in S
    BY <1>8
  <2>2. ASSUME NEW n \in Nat, n \in S
        PROVE  n + 1 \in S
    <3> SUFFICES ASSUME n + 1 \in 1..N
                 PROVE  f[n + 1] \in A
      OBVIOUS
    <3>1. f[n] \in A /\ (n + 1) - 1 = n /\ s[n + 1] \in W
      BY <1>1, <2>2
    <3> QED
      BY <1>8, <3>1
  <2> HIDE DEF S
  <2>3. \A n \in Nat : n \in S
    BY <2>1, <2>2, Numbers
  <2> QED
    BY <2>3 DEF S
<1>10. f \in [0..N -> A]
  BY <1>6, <1>9
<1> QED
  BY <1>7, <1>8, <1>10 DEF PrefixFolds

\* A loop over nothing changes nothing.
LEMMA FoldTextEmpty ==
  ASSUME NEW A, NEW W, NEW step \in [W -> [A -> A]], NEW start \in A
  PROVE  FoldText(step, start, <<>>) = start
<1> DEFINE e == <<>>
<1>2. e \in Seq(W) /\ Len(e) = 0
  OBVIOUS
<1> HIDE DEF e
<1>3. PICK f : PrefixFolds(A, step, start, e, f)
  BY <1>2, FoldTextSteps
<1>4. FoldText(step, start, e) = start
  BY <1>2, <1>3 DEF PrefixFolds
<1> QED
  BY <1>4 DEF e

\* One atom more is one turn more.
LEMMA FoldTextAppend ==
  ASSUME NEW A, NEW W, NEW step \in [W -> [A -> A]], NEW start \in A,
         NEW s \in Seq(W), NEW x \in W
  PROVE  /\ FoldText(step, start, s) \in A
         /\ FoldText(step, start, Append(s, x)) = step[x][FoldText(step, start, s)]
<1> DEFINE N == Len(s)
           t == Append(s, x)
<1>1. /\ N \in Nat /\ t \in Seq(W) /\ Len(t) = N + 1
      /\ t[N + 1] = x /\ \A n \in 1..N : t[n] = s[n]
  OBVIOUS
<1> HIDE DEF t
<1>a. PICK f : PrefixFolds(A, step, start, s, f)
  BY FoldTextSteps
<1>b. PICK g : PrefixFolds(A, step, start, t, g)
  BY <1>1, FoldTextSteps
<1>2. /\ f \in [0..N -> A] /\ f[0] = start
      /\ \A n \in 1..N : f[n] = step[s[n]][f[n - 1]]
      /\ FoldText(step, start, s) = f[N]
  BY <1>a DEF PrefixFolds
<1>3. /\ g \in [0..(N + 1) -> A] /\ g[0] = start
      /\ \A n \in 1..(N + 1) : g[n] = step[t[n]][g[n - 1]]
      /\ FoldText(step, start, t) = g[N + 1]
  BY <1>1, <1>b DEF PrefixFolds
<1> HIDE DEF N
<1> DEFINE S == {n \in Nat : n \in 0..N => f[n] = g[n]}
<1>4. 0 \in S
  BY <1>2, <1>3
<1>5. ASSUME NEW n \in Nat, n \in S
      PROVE  n + 1 \in S
  <2> SUFFICES ASSUME n + 1 \in 1..N
               PROVE  f[n + 1] = g[n + 1]
    OBVIOUS
  <2>1. f[n] = g[n] /\ (n + 1) - 1 = n /\ n + 1 \in 1..(N + 1) /\ t[n + 1] = s[n + 1]
    BY <1>1, <1>5
  <2> QED
    BY <1>2, <1>3, <2>1
<1> HIDE DEF S
<1>6. N \in S
  BY <1>1, <1>4, <1>5, Numbers
<1>7. f[N] = g[N]
  BY <1>1, <1>6 DEF S
<1>8. g[N + 1] = step[x][g[N]]
  BY <1>1, <1>3
<1> QED
  BY <1>1, <1>2, <1>3, <1>7, <1>8 DEF t

-----------------------------------------------------------------------------
(* FlattenSeq, Join and Split, one element at a time.                      *)

\* FlattenSeq is a loop that concatenates.
LEMMA FlattenIsFold ==
  ASSUME NEW E, NEW q \in Seq(Seq(E))
  PROVE  FlattenSeq(q) = FoldText([x \in Seq(E) |-> [acc \in Seq(E) |-> acc \o x]], <<>>, q)
<1> DEFINE A == Seq(E)
           N == Len(q)
           step == [x \in A |-> [acc \in A |-> acc \o x]]
           Flat(f) == f = [i \in 1..N |-> IF i = 1 THEN q[i] ELSE f[i - 1] \o q[i]]
           f == CHOOSE h : Flat(h)
<1>1. N \in Nat /\ \A n \in 1..N : q[n] \in A
  OBVIOUS
<1>2. step \in [A -> [A -> A]] /\ <<>> \in A
  OBVIOUS
<1>3. PICK g : PrefixFolds(A, step, <<>>, q, g)
  <2>1. q \in Seq(A)
    OBVIOUS
  <2> HIDE DEF A, step
  <2> QED  BY <1>2, <2>1, FoldTextSteps
<1>4. /\ g \in [0..N -> A] /\ g[0] = <<>>
      /\ \A n \in 1..N : g[n] = step[q[n]][g[n - 1]]
      /\ FoldText(step, <<>>, q) = g[N]
  <2> HIDE DEF step
  <2> QED  BY <1>3 DEF PrefixFolds
<1>5. \A n \in 1..N : g[n] = g[n - 1] \o q[n]
  <2> SUFFICES ASSUME NEW n \in 1..N
               PROVE  g[n] = g[n - 1] \o q[n]
    OBVIOUS
  <2>1. g[n - 1] \in A /\ q[n] \in A
    <3>1. n - 1 \in 0..N
      BY <1>1
    <3> HIDE DEF A, step
    <3> QED  BY <1>1, <1>4, <3>1
  <2>2. g[n] = step[q[n]][g[n - 1]]
    BY <1>4
  <2> QED
    BY <2>1, <2>2
<1>6. ASSUME N > 0
      PROVE  g[1] = q[1]
  <2>1. 1 \in 1..N /\ 1 - 1 = 0
    BY <1>1, <1>6
  <2>3. g[1] = g[0] \o q[1] /\ q[1] \in A
    <3> HIDE DEF A, step, N
    <3> QED  BY <1>1, <1>5, <2>1
  <2>2. \A x \in A : <<>> \o x = x
    OBVIOUS
  <2> QED
    BY <1>4, <2>2, <2>3
<1> HIDE DEF step, A, N
<1>7. Flat([i \in 1..N |-> g[i]])
  <2> DEFINE h == [i \in 1..N |-> g[i]]
  <2>1. \A i \in 1..N : i # 1 => i - 1 \in 1..N
    BY <1>1
  <2>2. \A i \in 1..N : h[i] = IF i = 1 THEN q[i] ELSE h[i - 1] \o q[i]
    <3> SUFFICES ASSUME NEW i \in 1..N
                 PROVE  h[i] = IF i = 1 THEN q[i] ELSE h[i - 1] \o q[i]
      OBVIOUS
    <3>1. CASE i = 1
      BY <1>1, <1>6, <3>1
    <3>2. CASE i # 1
      <4>1. h[i] = g[i] /\ h[i - 1] = g[i - 1]
        BY <2>1, <3>2
      <4> QED  BY <1>5, <3>2, <4>1
    <3> QED  BY <3>1, <3>2
  <2> QED
    BY <2>2
<1>8. Flat(f)
  <2> HIDE DEF Flat
  <2> QED  BY <1>7, Zenon
<1>9. N # 0 => FlattenSeq(q) = f[N]
  BY Zenon DEF FlattenSeq, N
<1> HIDE DEF f
<1>10. \A i \in 1..N : f[i] = IF i = 1 THEN q[i] ELSE f[i - 1] \o q[i]
  BY <1>8
<1>11. \A n \in 1..N : f[n] = g[n]
  <2> DEFINE S == {n \in Nat : n \in 1..N => f[n] = g[n]}
  <2>1. 0 \in S
    OBVIOUS
  <2>2. ASSUME NEW n \in Nat, n \in S
        PROVE  n + 1 \in S
    <3> SUFFICES ASSUME n + 1 \in 1..N
                 PROVE  f[n + 1] = g[n + 1]
      OBVIOUS
    <3>1. CASE n = 0
      BY <1>1, <1>6, <1>10, <3>1
    <3>2. CASE n # 0
      <4>1. f[n] = g[n] /\ (n + 1) - 1 = n /\ n + 1 # 1
        BY <1>1, <2>2, <3>2
      <4>2. f[n + 1] = f[n] \o q[n + 1]
        BY <1>10, <4>1
      <4>3. g[n + 1] = g[n] \o q[n + 1]
        BY <1>5, <4>1
      <4> QED
        BY <4>1, <4>2, <4>3
    <3> QED  BY <3>1, <3>2
  <2> HIDE DEF S
  <2>3. \A n \in Nat : n \in S
    BY <2>1, <2>2, Numbers
  <2> QED
    BY <2>3 DEF S
<1>12. CASE N = 0
  <2>1. FlattenSeq(q) = <<>>
    BY <1>12 DEF FlattenSeq, N
  <2> QED
    BY <1>4, <1>12, <2>1 DEF step, A
<1>13. CASE N # 0
  <2>1. FlattenSeq(q) = g[N]
    BY <1>1, <1>9, <1>11, <1>13
  <2> QED
    BY <1>4, <2>1 DEF step, A
<1> QED
  BY <1>1, <1>12, <1>13

\* One sequence more is flattened behind the others.
LEMMA FlattenAppend ==
  ASSUME NEW E, NEW q \in Seq(Seq(E)), NEW x \in Seq(E)
  PROVE  /\ FlattenSeq(q) \in Seq(E)
         /\ FlattenSeq(Append(q, x)) = FlattenSeq(q) \o x
<1> DEFINE A == Seq(E)
           step == [y \in A |-> [acc \in A |-> acc \o y]]
<1>1. step \in [A -> [A -> A]] /\ <<>> \in A /\ q \in Seq(A) /\ x \in A /\ Append(q, x) \in Seq(A)
  OBVIOUS
<1>2. FlattenSeq(q) = FoldText(step, <<>>, q)
      /\ FlattenSeq(Append(q, x)) = FoldText(step, <<>>, Append(q, x))
  BY <1>1, FlattenIsFold
<1>3. FoldText(step, <<>>, q) \in A
      /\ FoldText(step, <<>>, Append(q, x)) = step[x][FoldText(step, <<>>, q)]
  <2> HIDE DEF A, step
  <2> QED  BY <1>1, FoldTextAppend
<1> HIDE DEF A
<1>4. step[x][FoldText(step, <<>>, q)] = FoldText(step, <<>>, q) \o x
  BY <1>1, <1>3
<1> QED
  BY <1>2, <1>3, <1>4 DEF A

\* What Join takes the first separator of.
Led(p, c) == FlattenSeq([k \in DOMAIN p |-> <<c>> \o p[k]])

\* One piece more is led by one separator more.
LEMMA LedAppend ==
  ASSUME NEW E, NEW c \in E, NEW p \in Seq(Seq(E)), NEW x \in Seq(E)
  PROVE  /\ Led(p, c) \in Seq(E)
         /\ Led(Append(p, x), c) = Led(p, c) \o (<<c>> \o x)
<1> DEFINE q == [k \in DOMAIN p |-> <<c>> \o p[k]]
           y == <<c>> \o x
           t == Append(p, x)
           r == [k \in DOMAIN t |-> <<c>> \o t[k]]
<1>0. \A z \in Seq(E) : <<c>> \o z \in Seq(E)
  OBVIOUS
<1>a. /\ Len(p) \in Nat /\ DOMAIN p = 1..Len(p) /\ \A k \in 1..Len(p) : p[k] \in Seq(E)
      /\ t \in Seq(Seq(E)) /\ DOMAIN t = 1..(Len(p) + 1)
      /\ t[Len(p) + 1] = x /\ \A k \in 1..Len(p) : t[k] = p[k]
  OBVIOUS
<1> HIDE DEF t
<1>1. q \in Seq(Seq(E)) /\ Len(q) = Len(p) /\ y \in Seq(E)
  BY <1>0, <1>a
<1>2. r = Append(q, y)
  <2>1. /\ \A k \in 1..Len(p) : r[k] = q[k]
        /\ r[Len(p) + 1] = y
    BY <1>a
  <2>2. r \in Seq(Seq(E)) /\ Len(r) = Len(p) + 1
    BY <1>0, <1>a
  <2> HIDE DEF r, q, y
  <2> DEFINE n == Len(p)
  <2>3. n \in Nat /\ Len(q) = n /\ Len(r) = n + 1 /\ r[n + 1] = y /\ \A k \in 1..n : r[k] = q[k]
    BY <1>1, <1>a, <2>1, <2>2
  <2> HIDE DEF n
  <2> QED
    BY <1>1, <2>2, <2>3
<1> HIDE DEF q, y, r
<1>3. FlattenSeq(q) \in Seq(E) /\ FlattenSeq(Append(q, y)) = FlattenSeq(q) \o y
  BY <1>1, FlattenAppend
<1> QED
  BY <1>2, <1>3 DEF Led, q, y, r, t

\* There is a separator to be taken.
LEMMA LedNotEmpty ==
  ASSUME NEW E, NEW c \in E, NEW p \in Seq(Seq(E)), p # <<>>
  PROVE  Led(p, c) \in Seq(E) /\ Led(p, c) # <<>>
<1> DEFINE f == Front(p)
           l == p[Len(p)]
<1>1. f \in Seq(Seq(E)) /\ l \in Seq(E) /\ p = Append(f, l)
  BY LastAppended
<1> HIDE DEF f, l
<1>2. Led(f, c) \in Seq(E) /\ Led(p, c) = Led(f, c) \o (<<c>> \o l)
  BY <1>1, LedAppend
<1> DEFINE a == Led(f, c)
<1> HIDE DEF a
<1>3. a \o (<<c>> \o l) \in Seq(E) /\ a \o (<<c>> \o l) # <<>>
  BY <1>1, <1>2 DEF a
<1> QED
  BY <1>2, <1>3 DEF a

\* One piece is joined as it is.
LEMMA JoinOne ==
  ASSUME NEW E, NEW c \in E, NEW x \in Seq(E)
  PROVE  Join(<<x>>, c) = x
<1>1. <<>> \in Seq(Seq(E)) /\ <<x>> = Append(<<>>, x)
  OBVIOUS
<1>2. Led(<<>>, c) = <<>>
  BY DEF Led, FlattenSeq
<1> DEFINE e == <<>>
<1>3. Led(<<x>>, c) = <<>> \o (<<c>> \o x)
  <2> HIDE DEF e
  <2>1. Led(Append(e, x), c) = Led(e, c) \o (<<c>> \o x)
    <3>1. e \in Seq(Seq(E))
      BY DEF e
    <3> QED  BY <3>1, LedAppend
  <2> QED  BY <1>1, <1>2, <2>1 DEF e
<1>4. Tail(<<>> \o (<<c>> \o x)) = x
  OBVIOUS
<1> QED
  BY <1>3, <1>4 DEF Join, Led

\* One piece more comes behind a separator.
LEMMA JoinAppend ==
  ASSUME NEW E, NEW c \in E, NEW p \in Seq(Seq(E)), p # <<>>, NEW x \in Seq(E)
  PROVE  /\ Join(p, c) \in Seq(E)
         /\ Join(Append(p, x), c) = Join(p, c) \o (<<c>> \o x)
<1> DEFINE a == Led(p, c)
           y == <<c>> \o x
<1>1. a \in Seq(E) /\ a # <<>> /\ Led(Append(p, x), c) = a \o y
  BY LedAppend, LedNotEmpty
<1>2. y \in Seq(E)
  OBVIOUS
<1> HIDE DEF a, y
<1>3. Tail(a) \in Seq(E) /\ Tail(a \o y) = Tail(a) \o y
  BY <1>1, <1>2
<1>4. Join(p, c) = Tail(a) /\ Join(Append(p, x), c) = Tail(a \o y)
  BY <1>1 DEF Join, Led, a
<1> QED
  BY <1>3, <1>4 DEF y

\* Split begins with one empty piece; a separator begins another piece, and any other
\* atom goes to the last one.
SplitStep(c) ==
  [x \in Words |-> [pieces \in Seq(Text) |->
     IF x = c THEN Append(pieces, <<>>)
     ELSE [pieces EXCEPT ![Len(pieces)] = Append(@, x)]]]

\* Split only makes its last piece longer: the pieces remain texts.
LEMMA LongerPiece ==
  ASSUME NEW p \in Seq(Text), NEW x \in Words
  PROVE  [p EXCEPT ![Len(p)] = Append(@, x)] \in Seq(Text)
<1> DEFINE n == Len(p)
           q == [p EXCEPT ![n] = Append(@, x)]
<1>1. n \in Nat /\ DOMAIN p = 1..n /\ \A k \in 1..n : p[k] \in Text
  OBVIOUS
<1>2. \A l \in Text : Append(l, x) \in Text
  BY DEF Text
<1> HIDE DEF n
<1>3. q \in [1..n -> Text]
  BY <1>1, <1>2
<1> QED
  BY <1>1, <1>3 DEF n

\* ... and the other pieces what they were.
LEMMA LongerLast ==
  ASSUME NEW p \in Seq(Text), NEW l \in Text, NEW x \in Words
  PROVE  LET q == Append(p, l)
         IN [q EXCEPT ![Len(q)] = Append(@, x)] = Append(p, Append(l, x))
<1> DEFINE n == Len(p)
           q == Append(p, l)
           r == [q EXCEPT ![n + 1] = Append(@, x)]
<1>1. Append(l, x) \in Text
  BY DEF Text
<1>2. /\ n \in Nat /\ q \in Seq(Text) /\ Len(q) = n + 1
      /\ q[n + 1] = l /\ \A k \in 1..n : q[k] = p[k]
  OBVIOUS
<1>3. r \in Seq(Text)
  BY <1>2, LongerPiece
<1>4. Len(r) = n + 1 /\ r[n + 1] = Append(l, x) /\ \A k \in 1..n : r[k] = p[k]
  <2> HIDE DEF q, n
  <2> QED  BY <1>2, <1>1
<1> HIDE DEF r
<1>5. r = Append(p, Append(l, x))
  BY <1>1, <1>3, <1>4
<1> QED
  BY <1>2, <1>5 DEF r

\* Split is a loop of these steps.
LEMMA SplitSteps ==
  ASSUME NEW c
  PROVE  /\ SplitStep(c) \in [Words -> [Seq(Text) -> Seq(Text)]]
         /\ << <<>> >> \in Seq(Text)
         /\ \A s : Split(s, c) = FoldText(SplitStep(c), << <<>> >>, s)
<1>1. \A x \in Words, pieces \in Seq(Text) :
        /\ Append(pieces, <<>>) \in Seq(Text)
        /\ [pieces EXCEPT ![Len(pieces)] = Append(@, x)] \in Seq(Text)
  BY LongerPiece DEF Text
<1> QED
  BY <1>1 DEF SplitStep, Split, Text

\* Split of an empty text.
LEMMA SplitEmpty ==
  ASSUME NEW c
  PROVE  Split(<<>>, c) = << <<>> >>
BY SplitSteps, FoldTextEmpty

\* Split of a text with one atom more.
LEMMA SplitAppend ==
  ASSUME NEW c, NEW s \in Text, NEW x \in Words
  PROVE  /\ Split(s, c) \in Seq(Text)
         /\ x = c => Split(Append(s, x), c) = Append(Split(s, c), <<>>)
         /\ x # c => \A p \in Seq(Text), l \in Text :
              Split(s, c) = Append(p, l) => Split(Append(s, x), c) = Append(p, Append(l, x))
<1>1. /\ Split(s, c) \in Seq(Text)
      /\ Split(Append(s, x), c) = SplitStep(c)[x][Split(s, c)]
  <2> DEFINE A == Seq(Text)
             step == SplitStep(c)
             start == << <<>> >>
  <2>1. step \in [Words -> [A -> A]] /\ start \in A
        /\ \A t : Split(t, c) = FoldText(step, start, t)
    BY SplitSteps
  <2> HIDE DEF A, step, start
  <2>2. s \in Seq(Words)
    BY DEF Text
  <2>3. FoldText(step, start, s) \in A
        /\ FoldText(step, start, Append(s, x)) = step[x][FoldText(step, start, s)]
    BY <2>1, <2>2, FoldTextAppend
  <2> QED
    BY <2>1, <2>3 DEF A, step
<1>2. CASE x = c
  BY <1>1, <1>2 DEF SplitStep
<1>3. CASE x # c
  <2> SUFFICES ASSUME NEW p \in Seq(Text), NEW l \in Text, Split(s, c) = Append(p, l)
               PROVE  Split(Append(s, x), c) = Append(p, Append(l, x))
    BY <1>1, <1>3
  <2> DEFINE q == Append(p, l)
  <2>1. q \in Seq(Text)
    OBVIOUS
  <2>2. Split(Append(s, x), c) = [q EXCEPT ![Len(q)] = Append(@, x)]
    <3> HIDE DEF q
    <3> QED  BY <1>1, <1>3, <2>1 DEF SplitStep, q
  <2> QED
    BY <2>2, LongerLast
<1> QED
  BY <1>1, <1>2, <1>3

-----------------------------------------------------------------------------
(* Positions in a text.                                                    *)

Free(s, c) == \A i \in DOMAIN s : s[i] # c

\* First is where there is a c and none before it, or 0.
LEMMA FirstPlace ==
  ASSUME NEW E, NEW s \in Seq(E), NEW c
  PROVE  /\ First(s, c) \in 0..Len(s)
         /\ First(s, c) = 0 <=> Free(s, c)
         /\ First(s, c) # 0 => s[First(s, c)] = c /\ \A i \in 1..Len(s) : i < First(s, c) => s[i] # c
<1> DEFINE I == {i \in 1..Len(s) : s[i] = c}
<1>1. First(s, c) = IF I # {} THEN Min(I) ELSE 0
  BY DEF First, SelectInSeq
<1>2. ASSUME I # {}
      PROVE  Min(I) \in I /\ \A i \in I : Min(I) <= i
  <2>1. I \in SUBSET Nat
    OBVIOUS
  <2>2. \E x \in I : \A y \in I : x <= y
    BY <1>2, <2>1, Least, Zenon
  <2> QED
    BY <2>2 DEF Min
<1>3. CASE I = {}
  BY <1>1, <1>3 DEF Free
<1>4. CASE I # {}
  <2> DEFINE m == Min(I)
  <2>1. m \in I /\ \A i \in I : m <= i
    BY <1>2, <1>4
  <2>2. First(s, c) = m
    BY <1>1, <1>4
  <2> HIDE DEF m
  <2>3. m \in 1..Len(s) /\ s[m] = c
    BY <2>1
  <2>4. \A i \in 1..Len(s) : i < m => s[i] # c
    BY <2>1
  <2> QED
    BY <2>2, <2>3, <2>4 DEF Free
<1> QED
  BY <1>3, <1>4

\* The same of a text.
LEMMA FirstIsPosition ==
  ASSUME NEW s \in Text, NEW c
  PROVE  /\ First(s, c) \in 0..Len(s)
         /\ First(s, c) = 0 <=> Free(s, c)
         /\ First(s, c) # 0 => s[First(s, c)] = c /\ \A i \in 1..Len(s) : i < First(s, c) => s[i] # c
<1>1. s \in Seq(Words)
  BY DEF Text
<1> QED
  BY <1>1, FirstPlace

\* LastOf is where there is a c and none after it, or 0.
LEMMA LastIsPosition ==
  ASSUME NEW s \in Text, NEW c
  PROVE  /\ LastOf(s, c) \in 0..Len(s)
         /\ LastOf(s, c) # 0 => s[LastOf(s, c)] = c
         /\ \A i \in 1..Len(s) : i > LastOf(s, c) => s[i] # c
<1> DEFINE I == {i \in 1..Len(s) : s[i] = c}
           J == {Len(s) - i : i \in I}
<1>1. LastOf(s, c) = IF I # {} THEN Max(I) ELSE 0
  BY DEF LastOf, SelectLastInSeq
<1>2. ASSUME I # {}
      PROVE  Max(I) \in I /\ \A i \in I : Max(I) >= i
  <2>1. J \in SUBSET Nat /\ J # {}
    BY <1>2 DEF Text
  <2>2. PICK x \in J : \A y \in J : x <= y
    <3> HIDE DEF J
    <3> QED  BY <2>1, Least, Zenon
  <2>3. PICK n \in I : x = Len(s) - n
    BY <2>2
  <2>4. ASSUME NEW i \in I
        PROVE  n >= i
    <3>1. Len(s) - n <= Len(s) - i
      BY <2>2, <2>3
    <3> QED  BY <3>1 DEF Text
  <2> QED
    BY <2>3, <2>4 DEF Max
<1>3. CASE I = {}
  BY <1>1, <1>3 DEF Text
<1>4. CASE I # {}
  <2> DEFINE m == Max(I)
  <2>1. m \in I /\ \A i \in I : m >= i
    BY <1>2, <1>4
  <2>2. LastOf(s, c) = m
    BY <1>1, <1>4
  <2> HIDE DEF m
  <2>3. m \in 1..Len(s) /\ s[m] = c
    BY <2>1
  <2>4. \A i \in 1..Len(s) : i > m => s[i] # c
    BY <2>1
  <2> QED
    BY <2>2, <2>3, <2>4 DEF Text
<1> QED
  BY <1>3, <1>4

\* The places of the last c and, in a text without one before, of the first.
LEMMA LastIs ==
  ASSUME NEW u \in Text, NEW v \in Text, NEW c \in Words, Free(v, c)
  PROVE  LastOf(u \o (<<c>> \o v), c) = Len(u) + 1
<1> DEFINE t == u \o (<<c>> \o v)
           n == Len(u) + 1
<1>1. /\ t \in Text /\ n \in 1..Len(t) /\ t[n] = c
      /\ \A i \in 1..Len(t) : i > n => i - n \in DOMAIN v /\ t[i] = v[i - n]
  BY DEF Text
<1>2. \A i \in 1..Len(t) : i > n => t[i] # c
  BY <1>1 DEF Free
<1> HIDE DEF t, n
<1>3. LastOf(t, c) = n
  <2> DEFINE m == LastOf(t, c)
  <2>1. m \in 0..Len(t) /\ (m # 0 => t[m] = c) /\ \A i \in 1..Len(t) : i > m => t[i] # c
    BY <1>1, LastIsPosition
  <2> HIDE DEF m
  <2>2. Len(t) \in Nat
    BY <1>1 DEF Text
  <2>3. ~(n > m)
    BY <1>1, <2>1
  <2>4. ~(m > n)
    BY <1>1, <1>2, <2>1, <2>2
  <2>5. m = n
    BY <1>1, <2>1, <2>2, <2>3, <2>4
  <2> QED  BY <2>5 DEF m
<1> QED
  BY <1>3 DEF t, n

\* What comes first in two parts with a c between them: the c, or one in the first part.
LEMMA FirstCut ==
  ASSUME NEW E, NEW u \in Seq(E), NEW v \in Seq(E), NEW c \in E
  PROVE  /\ Free(u, c) => First(u \o (<<c>> \o v), c) = Len(u) + 1
         /\ ~Free(u, c) => First(u \o (<<c>> \o v), c) \in 1..Len(u)
<1> DEFINE t == u \o (<<c>> \o v)
           n == Len(u) + 1
           m == First(t, c)
<1>1. /\ t \in Seq(E) /\ Len(t) \in Nat /\ n \in 1..Len(t) /\ t[n] = c
      /\ \A i \in 1..Len(t) : i < n => i \in DOMAIN u /\ t[i] = u[i]
      /\ \A i \in DOMAIN u : i \in 1..Len(t) /\ t[i] = u[i]
  OBVIOUS
<1>2. DOMAIN u = 1..Len(u) /\ Len(u) \in Nat
  OBVIOUS
<1> HIDE DEF t
<1>3. /\ m \in 0..Len(t) /\ (m = 0 <=> Free(t, c))
      /\ (m # 0 => t[m] = c /\ \A i \in 1..Len(t) : i < m => t[i] # c)
  BY <1>1, FirstPlace
<1>4. DOMAIN t = 1..Len(t)
  BY <1>1
<1>5. m \in 1..n /\ t[m] = c
  <2>1. ~Free(t, c)
    BY <1>1, <1>4 DEF Free
  <2> HIDE DEF m, n
  <2>2. m # 0
    BY <1>3, <2>1
  <2>3. ~(n < m)
    BY <1>1, <1>3, <2>2
  <2> QED
    BY <1>1, <1>3, <2>2, <2>3
<1>6. CASE Free(u, c)
  <2>1. ~(m < n)
    BY <1>1, <1>3, <1>5, <1>6 DEF Free
  <2> HIDE DEF m
  <2>2. m = n
    BY <1>2, <1>5, <2>1
  <2> QED
    BY <1>6, <2>2 DEF m, t
<1>7. CASE ~Free(u, c)
  <2>1. PICK k \in DOMAIN u : u[k] = c
    BY <1>7 DEF Free
  <2> HIDE DEF m
  <2>2. k \in 1..Len(t) /\ t[k] = c
    BY <1>1, <2>1
  <2>3. ~(k < m)
    BY <1>3, <1>5, <2>2
  <2>4. m \in 1..Len(u)
    BY <1>2, <1>5, <2>1, <2>3
  <2> QED
    BY <1>7, <2>4 DEF m, t
<1> QED
  BY <1>6, <1>7

\* The first separator of a text is the one with none before it.
LEMMA FirstIs ==
  ASSUME NEW u \in Text, NEW v \in Text, NEW c \in Words, Free(u, c)
  PROVE  First(u \o (<<c>> \o v), c) = Len(u) + 1
<1>1. u \in Seq(Words) /\ v \in Seq(Words)
  BY DEF Text
<1> QED
  BY <1>1, FirstCut

\* The last separator of a text with one atom more.
LEMMA LastOfAppend ==
  ASSUME NEW s \in Text, NEW x \in Words, NEW c
  PROVE  LastOf(Append(s, x), c) = IF x = c THEN Len(s) + 1 ELSE LastOf(s, c)
<1> DEFINE t == Append(s, x)
           m == LastOf(s, c)
           n == LastOf(t, c)
<1>1. /\ Len(s) \in Nat /\ t \in Text /\ Len(t) = Len(s) + 1
      /\ t[Len(s) + 1] = x /\ \A i \in 1..Len(s) : t[i] = s[i]
  BY DEF Text
<1> HIDE DEF t
<1>2. m \in 0..Len(s) /\ (m # 0 => s[m] = c) /\ \A i \in 1..Len(s) : i > m => s[i] # c
  BY LastIsPosition
<1>3. n \in 0..Len(t) /\ (n # 0 => t[n] = c) /\ \A i \in 1..Len(t) : i > n => t[i] # c
  BY <1>1, LastIsPosition
<1> HIDE DEF m, n
<1>4. CASE x = c
  BY <1>1, <1>3, <1>4 DEF t, n
<1>5. CASE x # c
  <2>1. n # Len(s) + 1
    BY <1>1, <1>3, <1>5
  <2>2. ~(n > m)
    BY <1>1, <1>2, <1>3, <2>1
  <2>3. ~(m > n)
    BY <1>1, <1>2, <1>3
  <2>4. n = m
    BY <1>1, <1>2, <1>3, <2>2, <2>3
  <2> QED
    BY <1>5, <2>4 DEF t, m, n
<1> QED
  BY <1>4, <1>5

-----------------------------------------------------------------------------
(* What Split returns.                                                     *)

\* The pieces p and l of a text: none has the separator, all their atoms are the
\* text's, and those of the last piece come after the last separator.
Pieces(s, c, p, l) ==
  /\ p \in Seq(Text) /\ l \in Text /\ Split(s, c) = Append(p, l)
  /\ Free(l, c) /\ \A i \in DOMAIN p : Free(p[i], c)
  /\ \A d : Free(s, d) => Free(l, d) /\ \A i \in DOMAIN p : Free(p[i], d)
  /\ \A d : (\A i \in DOMAIN s : i > LastOf(s, c) => s[i] # d) => Free(l, d)

\* One atom more, for all that is known of the pieces.
LEMMA PiecesAppend ==
  ASSUME NEW c, NEW s \in Text, NEW x \in Words, NEW p, NEW l, Pieces(s, c, p, l)
  PROVE  Pieces(Append(s, x), c, IF x = c THEN Append(p, l) ELSE p,
                                 IF x = c THEN <<>> ELSE Append(l, x))
<1> DEFINE t == Append(s, x)
<1>1. /\ Len(s) \in Nat /\ t \in Text /\ DOMAIN t = 1..(Len(s) + 1) /\ DOMAIN s = 1..Len(s)
      /\ t[Len(s) + 1] = x /\ \A i \in 1..Len(s) : t[i] = s[i]
  BY DEF Text
<1>2. p \in Seq(Text) /\ l \in Text /\ Split(s, c) = Append(p, l)
  BY DEF Pieces
<1>3. \A d : Free(t, d) => Free(s, d) /\ x # d
  BY <1>1 DEF Free
<1>4. LastOf(t, c) = IF x = c THEN Len(s) + 1 ELSE LastOf(s, c)
  BY LastOfAppend
<1>5. /\ x = c => Split(t, c) = Append(Append(p, l), <<>>)
      /\ x # c => Split(t, c) = Append(p, Append(l, x))
  BY <1>2, SplitAppend
<1>6. CASE x = c
  <2> DEFINE q == Append(p, l)
             e == <<>>
  <2>1. /\ q \in Seq(Text) /\ e \in Text
        /\ \A d : (\A i \in DOMAIN p : Free(p[i], d)) /\ Free(l, d) => \A i \in DOMAIN q : Free(q[i], d)
    BY <1>2 DEF Text
  <2>2. \A d : Free(e, d)
    BY DEF Free
  <2> HIDE DEF q, e, t
  <2>3. Pieces(t, c, q, e)
    BY <1>3, <1>5, <1>6, <2>1, <2>2 DEF Pieces, q, e
  <2> QED
    BY <1>6, <2>3 DEF q, e, t
<1>7. CASE x # c
  <2> DEFINE m == Append(l, x)
  <2>1. m \in Text /\ \A d : Free(l, d) /\ x # d => Free(m, d)
    BY <1>2 DEF Text, Free
  <2>2. ASSUME NEW d, \A i \in DOMAIN t : i > LastOf(t, c) => t[i] # d
        PROVE  Free(m, d)
    <3>1. \A i \in DOMAIN s : i > LastOf(s, c) => s[i] # d
      BY <1>1, <1>4, <1>7, <2>2
    <3>2. x # d
      <4>1. Len(s) + 1 > LastOf(s, c)
        BY <1>1, LastIsPosition
      <4> QED
        BY <1>1, <1>4, <1>7, <2>2, <4>1
    <3> HIDE DEF m
    <3> QED
      BY <2>1, <3>1, <3>2 DEF Pieces
  <2> HIDE DEF m, t
  <2>3. \A d : Free(t, d) => Free(m, d) /\ \A i \in DOMAIN p : Free(p[i], d)
    BY <1>3, <2>1 DEF Pieces
  <2>4. Free(m, c)
    BY <1>7, <2>1 DEF Pieces
  <2>5. Pieces(t, c, p, m)
    BY <1>2, <1>5, <1>7, <2>1, <2>2, <2>3, <2>4 DEF Pieces, m
  <2> QED
    BY <1>7, <2>5 DEF m, t
<1> QED
  BY <1>6, <1>7

\* Every text has such pieces.
LEMMA SplitPieces ==
  ASSUME NEW s \in Text, NEW c
  PROVE  \E p, l : Pieces(s, c, p, l)
<1> DEFINE S == {t \in Text : \E p, l : Pieces(t, c, p, l)}
<1>1. <<>> \in S
  <2> DEFINE e == <<>>
  <2>1. e \in Text /\ e \in Seq(Text) /\ DOMAIN e = {} /\ <<e>> = Append(e, e)
    BY DEF Text
  <2>2. Split(e, c) = Append(e, e)
    BY <2>1, SplitEmpty
  <2> HIDE DEF e
  <2>3. Pieces(e, c, e, e)
    BY <2>1, <2>2 DEF Pieces, Free
  <2> QED
    BY <2>1, <2>3 DEF e
<1>2. ASSUME NEW t \in Text, NEW x \in Words, t \in S
      PROVE  Append(t, x) \in S
  <2>1. Append(t, x) \in Text
    BY DEF Text
  <2> QED
    BY <1>2, <2>1, PiecesAppend
<1> HIDE DEF S
<1>3. \A t \in Seq(Words) : t \in S
  BY <1>1, <1>2, Sequences DEF Text
<1> QED
  BY <1>3 DEF S, Text

\* Split undoes Join.
LEMMA SplitLast ==
  ASSUME NEW c \in Words, NEW s \in Text, NEW x \in Text, Free(x, c)
  PROVE  Split(s \o (<<c>> \o x), c) = Append(Split(s, c), x)
<1> DEFINE S == {y \in Text : Free(y, c) => Split(s \o (<<c>> \o y), c) = Append(Split(s, c), y)}
<1>1. <<>> \in S
  <2>1. s \o (<<c>> \o <<>>) = Append(s, c) /\ <<>> \in Text
    BY DEF Text
  <2>2. Split(Append(s, c), c) = Append(Split(s, c), <<>>)
    BY SplitAppend
  <2> QED
    BY <2>1, <2>2
<1>2. ASSUME NEW y \in Text, NEW a \in Words, y \in S
      PROVE  Append(y, a) \in S
  <2> SUFFICES ASSUME Free(Append(y, a), c)
               PROVE  Split(s \o (<<c>> \o Append(y, a)), c) = Append(Split(s, c), Append(y, a))
    <3>1. Append(y, a) \in Text
      BY DEF Text
    <3> QED
      BY <3>1, Zenon
  <2>1. Free(y, c) /\ a # c
    BY SMTT(30) DEF Free, Text
  <2> DEFINE t == s \o (<<c>> \o y)
  <2>2. t \in Text /\ s \o (<<c>> \o Append(y, a)) = Append(t, a)
    BY DEF Text
  <2>3. Split(t, c) = Append(Split(s, c), y)
    BY <1>2, <2>1
  <2> HIDE DEF t
  <2>4. Split(s, c) \in Seq(Text)
    BY SplitAppend
  <2>5. Split(Append(t, a), c) = Append(Split(s, c), Append(y, a))
    BY <2>1, <2>2, <2>3, <2>4, SplitAppend, SMTT(30)
  <2> QED
    BY <2>2, <2>5
<1> HIDE DEF S
<1>3. \A y \in Seq(Words) : y \in S
  BY <1>1, <1>2, Sequences DEF Text
<1> QED
  BY <1>3 DEF S, Text

\* A text without the separator is one piece.
LEMMA SplitOne ==
  ASSUME NEW c \in Words, NEW x \in Text, Free(x, c)
  PROVE  Split(x, c) = <<x>>
<1> DEFINE S == {y \in Text : Free(y, c) => Split(y, c) = <<y>>}
<1>1. <<>> \in S
  BY SplitEmpty DEF Text
<1>2. ASSUME NEW y \in Text, NEW a \in Words, y \in S
      PROVE  Append(y, a) \in S
  <2> SUFFICES ASSUME Free(Append(y, a), c)
               PROVE  Split(Append(y, a), c) = <<Append(y, a)>>
    BY DEF Text
  <2>1. Free(y, c) /\ a # c
    BY DEF Free, Text
  <2> DEFINE e == <<>>
  <2>2. /\ e \in Seq(Text) /\ <<y>> = Append(e, y)
        /\ Append(e, Append(y, a)) = <<Append(y, a)>>
    BY DEF Text
  <2> HIDE DEF e
  <2>3. Split(y, c) = Append(e, y)
    BY <1>2, <2>1, <2>2
  <2>4. Split(Append(y, a), c) = Append(e, Append(y, a))
    <3> HIDE DEF S
    <3>1. a # c => \A p \in Seq(Text), l \in Text :
            Split(y, c) = Append(p, l) => Split(Append(y, a), c) = Append(p, Append(l, a))
      BY SplitAppend
    <3> QED
      BY <2>1, <2>2, <2>3, <3>1
  <2> QED
    BY <2>2, <2>4
<1> HIDE DEF S
<1>3. \A y \in Seq(Words) : y \in S
  BY <1>1, <1>2, Sequences DEF Text
<1> QED
  BY <1>3 DEF S, Text

\* Split undoes Join, if no piece has the separator in it.
THEOREM SplitJoin ==
  ASSUME NEW c \in Words, NEW p \in Seq(Text), p # <<>>, \A i \in DOMAIN p : Free(p[i], c)
  PROVE  Join(p, c) \in Text /\ Split(Join(p, c), c) = p
<1> DEFINE Good(q) == q # <<>> /\ (\A i \in DOMAIN q : Free(q[i], c))
                      => Join(q, c) \in Text /\ Split(Join(q, c), c) = q
           S == {q \in Seq(Text) : Good(q)}
<1>1. <<>> \in S
  OBVIOUS
<1>2. ASSUME NEW q \in Seq(Text), NEW x \in Text, q \in S
      PROVE  Append(q, x) \in S
  <2> SUFFICES ASSUME \A i \in DOMAIN Append(q, x) : Free(Append(q, x)[i], c)
               PROVE  /\ Join(Append(q, x), c) \in Text
                      /\ Split(Join(Append(q, x), c), c) = Append(q, x)
    <3>1. Append(q, x) \in Seq(Text)
      OBVIOUS
    <3> QED  BY <3>1
  <2>1. Free(x, c) /\ \A i \in DOMAIN q : Free(q[i], c)
    <3>1. /\ Len(q) \in Nat /\ DOMAIN q = 1..Len(q) /\ DOMAIN Append(q, x) = 1..(Len(q) + 1)
          /\ Append(q, x)[Len(q) + 1] = x /\ \A i \in 1..Len(q) : Append(q, x)[i] = q[i]
      OBVIOUS
    <3> QED
      BY <3>1
  <2>2. CASE q = <<>>
    <3>1. Append(q, x) = <<x>>
      BY <2>2
    <3>2. Join(<<x>>, c) = x
      BY JoinOne DEF Text
    <3> QED
      BY <2>1, <3>1, <3>2, SplitOne
  <2>3. CASE q # <<>>
    <3>1. Join(q, c) \in Text /\ Split(Join(q, c), c) = q
      BY <1>2, <2>1, <2>3
    <3>2. Join(Append(q, x), c) = Join(q, c) \o (<<c>> \o x)
      BY <2>3, JoinAppend DEF Text
    <3>3. Join(q, c) \o (<<c>> \o x) \in Text
      BY <3>1 DEF Text
    <3>4. Split(Join(q, c) \o (<<c>> \o x), c) = Append(q, x)
      BY <2>1, <3>1, SplitLast
    <3> QED
      BY <3>2, <3>3, <3>4
  <2> QED
    BY <2>2, <2>3
<1> HIDE DEF S
<1>3. \A q \in Seq(Text) : q \in S
  BY <1>1, <1>2, Sequences
<1> QED
  BY <1>3 DEF S

-----------------------------------------------------------------------------
(* What Parse returns.                                                     *)

\* What is cut from a text is a text.
LEMMA PieceIsText ==
  ASSUME NEW s \in Text, NEW a \in Nat, NEW b \in Int, a >= 1, b <= Len(s)
  PROVE  SubSeq(s, a, b) \in Text
<1>1. Len(s) \in Nat
  BY DEF Text
<1>2. CASE b < a
  BY <1>1, <1>2 DEF Text
<1>3. CASE a <= b
  BY <1>1, <1>3 DEF Text
<1> QED
  BY <1>2, <1>3

\* The ":" of the tag has no "/" after it and no ":" between it and the "/" before it.
LEMMA TagColonIsPosition ==
  ASSUME NEW s \in Text
  PROVE  /\ TagColon(s) \in 0..Len(s)
         /\ TagColon(s) = 0 => \A i \in DOMAIN s : i > LastOf(s, "/") => s[i] # ":"
         /\ TagColon(s) # 0 => /\ TagColon(s) > LastOf(s, "/")
                               /\ \A i \in DOMAIN s : i > LastOf(s, "/") /\ i < TagColon(s) => s[i] # ":"
<1> DEFINE slash == LastOf(s, "/")
           rest == SubSeq(s, slash + 1, Len(s))
           colon == First(rest, ":")
<1>1. Len(s) \in Nat /\ DOMAIN s = 1..Len(s) /\ slash \in 0..Len(s)
  BY LastIsPosition DEF Text
<1>2. rest \in Text /\ Len(rest) = Len(s) - slash /\ DOMAIN rest = 1..(Len(s) - slash)
      /\ \A i \in 1..(Len(s) - slash) : rest[i] = s[slash + i]
  BY <1>1 DEF Text
<1> HIDE DEF rest
<1>3. /\ colon \in 0..Len(rest)
      /\ colon = 0 <=> Free(rest, ":")
      /\ colon # 0 => \A i \in 1..Len(rest) : i < colon => rest[i] # ":"
  BY <1>2, FirstIsPosition
<1>4. TagColon(s) = IF colon = 0 THEN 0 ELSE slash + colon
  BY DEF TagColon, rest
<1>5. ASSUME NEW i \in DOMAIN s, i > slash, s[i] = ":"
      PROVE  colon # 0 /\ ~(i < slash + colon)
  <2>1. i - slash \in 1..(Len(s) - slash) /\ slash + (i - slash) = i
    BY <1>1, <1>5
  <2>2. i - slash \in DOMAIN rest /\ rest[i - slash] = ":"
    BY <1>2, <1>5, <2>1
  <2>3. colon # 0
    BY <1>3, <2>2 DEF Free
  <2>4. ~(i - slash < colon)
    BY <1>2, <1>3, <2>1, <2>2, <2>3
  <2> QED
    BY <1>1, <1>2, <1>3, <1>5, <2>3, <2>4
<1> HIDE DEF slash, colon
<1>6. TagColon(s) \in 0..Len(s) /\ (TagColon(s) # 0 => TagColon(s) > slash)
  BY <1>1, <1>2, <1>3, <1>4
<1>7. colon = 0 <=> TagColon(s) = 0
  BY <1>1, <1>2, <1>3, <1>4
<1>8. TagColon(s) = 0 => \A i \in DOMAIN s : i > slash => s[i] # ":"
  BY <1>5, <1>7
<1>9. TagColon(s) # 0 => \A i \in DOMAIN s : i > slash /\ i < TagColon(s) => s[i] # ":"
  BY <1>4, <1>5, <1>7
<1> QED
  BY <1>6, <1>8, <1>9 DEF slash

\* A reference with all that the layout counts on ...
WellFormed(r) ==
  /\ r \in [Host : Text, Path : Seq(Text), Tag : Text, Digest : Text]
  /\ r.Host # <<"share">>
  /\ r.Path # <<>>
  /\ \A i \in DOMAIN r.Path : r.Path[i] \notin ReservedSegments
  /\ \/ r.Tag # <<>> /\ r.Digest = <<>>
     \/ r.Tag = <<>> /\ \E h \in Hex : r.Digest = <<h>>

\* ... and all that makes its printed form unambiguous.
Canonical(r) ==
  /\ WellFormed(r)
  /\ looksLikeHost(r.Host) /\ Free(r.Host, "/")
  /\ r.Host = DefaultRegistry => Len(r.Path) # 1
  /\ \A i \in DOMAIN r.Path : r.Path[i] # <<>> /\ Free(r.Path[i], "/")
  /\ r.Digest = <<>> =>
       /\ Free(r.Host, "@") /\ \A i \in DOMAIN r.Path : Free(r.Path[i], "@")
       /\ Free(r.Path[Len(r.Path)], ":")
       /\ Free(r.Tag, "/") /\ Free(r.Tag, "@")

\* A sequence with one element before it.
LEMMA OneBefore ==
  ASSUME NEW S, NEW a \in S, NEW q \in Seq(S)
  PROVE  /\ <<a>> \o q \in Seq(S) /\ Len(<<a>> \o q) = Len(q) + 1
         /\ (<<a>> \o q)[1] = a /\ \A i \in 1..Len(q) : (<<a>> \o q)[i + 1] = q[i]
OBVIOUS

\* The name of an image, from its parts.
LEMMA NameShape ==
  ASSUME NEW parts \in Seq(Text), Len(parts) > 0,
         \A i \in DOMAIN parts : Free(parts[i], "/")
  PROVE  LET hosted == Len(parts) > 1 /\ looksLikeHost(parts[1])
             host == IF hosted THEN parts[1] ELSE DefaultRegistry
             path == CanonicalPath(host, IF hosted THEN Tail(parts) ELSE parts)
         IN /\ host \in Text /\ looksLikeHost(host) /\ Free(host, "/")
            /\ path \in Seq(Text) /\ path # <<>>
            /\ \A i \in DOMAIN path : Free(path[i], "/")
            /\ host = DefaultRegistry => Len(path) # 1
            /\ path[Len(path)] = parts[Len(parts)]
            /\ (\A i \in DOMAIN parts : Free(parts[i], "@")) =>
                 Free(host, "@") /\ \A i \in DOMAIN path : Free(path[i], "@")
<1> DEFINE hosted == Len(parts) > 1 /\ looksLikeHost(parts[1])
           host == IF hosted THEN parts[1] ELSE DefaultRegistry
           given == IF hosted THEN Tail(parts) ELSE parts
           path == CanonicalPath(host, given)
           library == DockerLibraryNamespace
<1>1. /\ DefaultRegistry \in Text /\ looksLikeHost(DefaultRegistry)
      /\ Free(DefaultRegistry, "/") /\ Free(DefaultRegistry, "@")
  BY WordsAssumption, DottedAssumption DEF DefaultRegistry, Text, looksLikeHost, Free, FixedWords
<1>2. library \in Text /\ Free(library, "/") /\ Free(library, "@")
  BY WordsAssumption DEF DockerLibraryNamespace, Text, Free, FixedWords
<1>3. Len(parts) \in Nat /\ DOMAIN parts = 1..Len(parts) /\ 1 \in DOMAIN parts /\ parts[1] \in Text
  OBVIOUS
<1>4. /\ host \in Text /\ looksLikeHost(host) /\ Free(host, "/")
      /\ (\A i \in DOMAIN parts : Free(parts[i], "@")) => Free(host, "@")
  BY <1>1, <1>3
<1>5. /\ given \in Seq(Text) /\ Len(given) > 0 /\ given[Len(given)] = parts[Len(parts)]
      /\ \A i \in DOMAIN given : \E j \in DOMAIN parts : given[i] = parts[j]
  <2>1. CASE hosted
    <3>1. Len(parts) > 1
      BY <2>1
    <3> DEFINE t == Tail(parts)
    <3>2. /\ t \in Seq(Text) /\ Len(t) = Len(parts) - 1 /\ DOMAIN t = 1..(Len(parts) - 1)
          /\ \A i \in 1..(Len(parts) - 1) : t[i] = parts[i + 1] /\ i + 1 \in DOMAIN parts
      BY <1>3, <3>1
    <3> HIDE DEF t
    <3>3. Len(t) > 0 /\ t[Len(t)] = parts[Len(parts)]
      BY <1>3, <3>1, <3>2
    <3>4. given = t
      BY <2>1 DEF t
    <3> QED
      BY <3>2, <3>3, <3>4
  <2>2. CASE ~hosted
    BY <2>2
  <2> QED  BY <2>1, <2>2
<1> HIDE DEF given, host, hosted
<1>6. \A d : (\A j \in DOMAIN parts : Free(parts[j], d)) => \A i \in DOMAIN given : Free(given[i], d)
  BY <1>5
<1> HIDE DEF library
<1>7. CASE host = DefaultRegistry /\ Len(given) = 1
  <2>1. path = <<library>> \o given
    BY <1>7 DEF CanonicalPath, library
  <2>2. /\ path \in Seq(Text) /\ Len(path) = 2 /\ DOMAIN path = 1..2
        /\ path[1] = library /\ path[2] = given[1] /\ 1 \in DOMAIN given
        /\ path # <<>>
    <3>1. given \in Seq(Text) /\ Len(given) = 1 /\ library \in Text
      BY <1>2, <1>5, <1>7
    <3> HIDE DEF path
    <3>2. /\ path \in Seq(Text) /\ Len(path) = Len(given) + 1 /\ path[1] = library
          /\ \A i \in 1..Len(given) : path[i + 1] = given[i]
      BY <2>1, <3>1, OneBefore
    <3>3. 1 \in 1..Len(given) /\ 1 + 1 = 2 /\ Len(path) = 2
      BY <3>1, <3>2
    <3>4. path[2] = given[1]
      BY <3>2, <3>3
    <3>5. DOMAIN path = 1..2 /\ 1 \in DOMAIN given /\ path # <<>>
      BY <3>1, <3>2, <3>3
    <3> QED
      BY <3>2, <3>3, <3>4, <3>5
  <2> HIDE DEF path
  <2>3. \A i \in DOMAIN path : i = 1 \/ i = 2
    BY <2>2
  <2>4. \A d : Free(library, d) /\ (\A j \in DOMAIN parts : Free(parts[j], d))
               => \A i \in DOMAIN path : Free(path[i], d)
    BY <1>6, <2>2, <2>3
  <2>5. path[Len(path)] = parts[Len(parts)] /\ path # <<>>
    <3>1. given[1] = parts[Len(parts)] /\ path[2] = parts[Len(parts)]
      BY <1>5, <1>7, <2>2
    <3> QED
      BY <2>2, <3>1
  <2>6. /\ \A i \in DOMAIN path : Free(path[i], "/")
        /\ (\A i \in DOMAIN parts : Free(parts[i], "@")) => \A i \in DOMAIN path : Free(path[i], "@")
    BY <1>2, <2>4
  <2> QED
    BY <1>4, <2>2, <2>5, <2>6 DEF path, given, host, hosted
<1>8. CASE ~(host = DefaultRegistry /\ Len(given) = 1)
  <2>1. path = given
    BY <1>8 DEF CanonicalPath
  <2>2. given # <<>>
    BY <1>5
  <2>3. host = DefaultRegistry => Len(given) # 1
    BY <1>8
  <2>4. path \in Seq(Text) /\ path # <<>> /\ path[Len(path)] = parts[Len(parts)]
        /\ (host = DefaultRegistry => Len(path) # 1)
    BY <1>5, <2>1, <2>2, <2>3
  <2>5. /\ \A i \in DOMAIN path : Free(path[i], "/")
        /\ (\A i \in DOMAIN parts : Free(parts[i], "@")) => \A i \in DOMAIN path : Free(path[i], "@")
    BY <1>6, <2>1
  <2> HIDE DEF path
  <2> QED
    BY <1>4, <2>4, <2>5 DEF path, given, host, hosted
<1> QED
  BY <1>7, <1>8

\* The names of pieces: none has a "/", and that of a text without "@" has none.
LEMMA SplitName ==
  ASSUME NEW s \in Text
  PROVE  LET parts == Split(s, "/")
         IN /\ parts \in Seq(Text) /\ Len(parts) > 0
            /\ \A i \in DOMAIN parts : Free(parts[i], "/")
            /\ Free(s, "@") => \A i \in DOMAIN parts : Free(parts[i], "@")
            /\ (\A i \in DOMAIN s : i > LastOf(s, "/") => s[i] # ":") => Free(parts[Len(parts)], ":")
<1>1. PICK p, l : Pieces(s, "/", p, l)
  BY SplitPieces
<1>2. /\ p \in Seq(Text) /\ l \in Text /\ Split(s, "/") = Append(p, l)
      /\ Free(l, "/") /\ \A i \in DOMAIN p : Free(p[i], "/")
      /\ Free(s, "@") => Free(l, "@") /\ \A i \in DOMAIN p : Free(p[i], "@")
      /\ (\A i \in DOMAIN s : i > LastOf(s, "/") => s[i] # ":") => Free(l, ":")
  BY <1>1 DEF Pieces
<1> DEFINE q == Append(p, l)
<1>3. /\ Len(p) \in Nat /\ q \in Seq(Text) /\ Len(q) = Len(p) + 1 /\ DOMAIN q = 1..(Len(p) + 1)
      /\ DOMAIN p = 1..Len(p) /\ q[Len(p) + 1] = l /\ \A i \in 1..Len(p) : q[i] = p[i]
  BY <1>2
<1> HIDE DEF q
<1>4. \A d : Free(l, d) /\ (\A i \in DOMAIN p : Free(p[i], d)) => \A i \in DOMAIN q : Free(q[i], d)
  <2>1. \A i \in DOMAIN q : i = Len(p) + 1 \/ i \in 1..Len(p)
    BY <1>3
  <2> QED
    BY <1>3, <2>1
<1>5. Split(s, "/") = q
  BY <1>2 DEF q
<1> QED
  BY <1>2, <1>3, <1>4, <1>5

\* Parse refuses, or returns a reference in canonical form.
THEOREM ParseShape ==
  ASSUME NEW s \in Text, Parse(s) # NoRef
  PROVE  Canonical(Parse(s))
<1> DEFINE at == LastOf(s, "@")
           name == IF at = 0 THEN s ELSE SubSeq(s, 1, at - 1)
           digest == IF at = 0 THEN <<>> ELSE SubSeq(s, at + 1, Len(s))
           colon == IF at = 0 THEN TagColon(s) ELSE 0
           tag == IF colon = 0 THEN <<>> ELSE SubSeq(s, colon + 1, Len(s))
           named == IF colon = 0 THEN name ELSE SubSeq(s, 1, colon - 1)
           parts == Split(named, "/")
           hosted == Len(parts) > 1 /\ looksLikeHost(parts[1])
           host == IF hosted THEN parts[1] ELSE DefaultRegistry
           path == CanonicalPath(host, IF hosted THEN Tail(parts) ELSE parts)
           ref == MkRef(host, path, IF at = 0 /\ colon = 0 THEN <<"latest">> ELSE tag,
                        IF at = 0 THEN <<>> ELSE <<digest[3]>>)
<1>1. /\ Parse(s) = ref
      /\ at # 0 => IsDigest(digest)
      /\ colon # 0 => tag # <<>>
      /\ \A i \in DOMAIN path : path[i] \notin ReservedSegments \cup {<<>>}
  BY Zenon DEF Parse
<1>2. Len(s) \in Nat /\ DOMAIN s = 1..Len(s) /\ at \in 0..Len(s) /\ colon \in 0..Len(s)
  BY LastIsPosition, TagColonIsPosition DEF Text
<1>3. name \in Text /\ digest \in Text /\ tag \in Text
  BY <1>2, PieceIsText DEF Text
<1>4. named \in Text
  <2>1. SubSeq(s, 1, colon - 1) \in Text
    BY <1>2, PieceIsText
  <2> QED
    BY <1>3, <2>1
<1>5. ASSUME at = 0
      PROVE  /\ Free(named, "@") /\ Free(tag, "@") /\ Free(tag, "/")
             /\ \A i \in DOMAIN named : i > LastOf(named, "/") => named[i] # ":"
  <2> DEFINE slash == LastOf(s, "/")
  <2>1. \A i \in 1..Len(s) : s[i] # "@"
    BY <1>2, <1>5, LastIsPosition
  <2>2. /\ slash \in 0..Len(s) /\ (slash # 0 => s[slash] = "/")
        /\ \A i \in 1..Len(s) : i > slash => s[i] # "/"
    BY LastIsPosition
  <2>3. colon = TagColon(s)
    BY <1>5
  <2>4. /\ colon = 0 => \A i \in 1..Len(s) : i > slash => s[i] # ":"
        /\ colon # 0 => colon > slash /\ \A i \in 1..Len(s) : i > slash /\ i < colon => s[i] # ":"
    BY <1>2, <2>3, TagColonIsPosition
  <2> HIDE DEF colon, slash
  <2>5. CASE colon = 0
    <3>1. named = s /\ tag = <<>>
      BY <1>5, <2>5
    <3>2. Free(<<>>, "@") /\ Free(<<>>, "/")
      BY DEF Free
    <3> HIDE DEF tag, named
    <3> QED
      BY <1>2, <2>1, <2>4, <2>5, <3>1, <3>2 DEF Free, slash
  <2>6. CASE colon # 0
    <3>1. /\ tag = SubSeq(s, colon + 1, Len(s)) /\ named = SubSeq(s, 1, colon - 1)
      BY <2>6
    <3>2. /\ DOMAIN tag = 1..(Len(s) - colon)
          /\ \A i \in 1..(Len(s) - colon) : tag[i] = s[colon + i] /\ colon + i \in 1..Len(s) /\ colon + i > slash
          /\ DOMAIN named = 1..(colon - 1) /\ Len(named) = colon - 1
          /\ \A i \in 1..(colon - 1) : named[i] = s[i] /\ i \in 1..Len(s) /\ i < colon
      <4> HIDE DEF tag, named
      <4> QED  BY <1>2, <2>2, <2>4, <2>6, <3>1 DEF Text
    <3> HIDE DEF tag, named
    <3>3. Free(named, "@") /\ Free(tag, "@") /\ Free(tag, "/")
      BY <2>1, <2>2, <3>2 DEF Free
    <3> DEFINE m == LastOf(named, "/")
    <3>4. m \in 0..Len(named) /\ \A i \in 1..Len(named) : i > m => named[i] # "/"
      BY <1>4, LastIsPosition
    <3> HIDE DEF m
    <3>5. ~(slash > m)
      <4>1. slash > m => slash \in 1..Len(named) /\ named[slash] = "/"
        BY <1>2, <2>2, <2>4, <2>6, <3>2, <3>4
      <4> QED
        BY <3>4, <4>1
    <3>6. \A i \in DOMAIN named : i > m => named[i] # ":"
      <4> SUFFICES ASSUME NEW i \in 1..(colon - 1), i > m
                   PROVE  named[i] # ":"
        BY <3>2
      <4>1. i > slash /\ i < colon /\ i \in 1..Len(s)
        BY <1>2, <2>2, <3>2, <3>4, <3>5
      <4> QED
        BY <2>4, <2>6, <3>2, <4>1
    <3> QED
      BY <3>3, <3>6 DEF m
  <2> QED  BY <2>5, <2>6
<1>6. /\ parts \in Seq(Text) /\ Len(parts) > 0
      /\ \A i \in DOMAIN parts : Free(parts[i], "/")
      /\ Free(named, "@") => \A i \in DOMAIN parts : Free(parts[i], "@")
      /\ (\A i \in DOMAIN named : i > LastOf(named, "/") => named[i] # ":") => Free(parts[Len(parts)], ":")
  <2> HIDE DEF named
  <2> QED  BY <1>4, SplitName
<1> HIDE DEF parts, named
<1>7. /\ host \in Text /\ looksLikeHost(host) /\ Free(host, "/")
      /\ path \in Seq(Text) /\ path # <<>>
      /\ \A i \in DOMAIN path : Free(path[i], "/")
      /\ host = DefaultRegistry => Len(path) # 1
      /\ path[Len(path)] = parts[Len(parts)]
      /\ (\A i \in DOMAIN parts : Free(parts[i], "@")) =>
           Free(host, "@") /\ \A i \in DOMAIN path : Free(path[i], "@")
  BY <1>6, NameShape
<1> HIDE DEF path, host
<1>8. host # <<"share">>
  <2>1. ~looksLikeHost(<<"share">>)
    BY DottedAssumption DEF looksLikeHost, FixedWords
  <2> QED  BY <1>7, <2>1
<1>9. CASE at = 0
  <2>1. /\ <<"latest">> \in Text /\ <<>> \in Text /\ <<"latest">> # <<>>
        /\ Free(<<"latest">>, "@") /\ Free(<<"latest">>, "/")
    BY WordsAssumption DEF FixedWords, Text, Free
  <2> DEFINE pin == IF colon = 0 THEN <<"latest">> ELSE tag
  <2>2. ref = MkRef(host, path, pin, <<>>)
    BY <1>9
  <2>3. pin \in Text /\ pin # <<>> /\ Free(pin, "@") /\ Free(pin, "/")
    <3> HIDE DEF tag, colon, at, digest
    <3> QED  BY <1>1, <1>3, <1>5, <1>9, <2>1
  <2>4. /\ Free(host, "@") /\ \A i \in DOMAIN path : Free(path[i], "@")
        /\ Free(path[Len(path)], ":")
    BY <1>5, <1>6, <1>7, <1>9
  <2> HIDE DEF pin, ref, tag
  <2>5. WellFormed(ref)
    BY <1>1, <1>7, <1>8, <2>1, <2>2, <2>3 DEF WellFormed, MkRef
  <2> QED
    BY <1>1, <1>7, <2>2, <2>3, <2>4, <2>5 DEF Canonical, MkRef
<1>10. CASE at # 0
  <2>1. tag = <<>>
    BY <1>10
  <2>2. digest[3] \in Hex /\ digest[3] \in Words
    BY <1>1, <1>10, WordsAssumption DEF IsDigest
  <2>3. ref = MkRef(host, path, <<>>, <<digest[3]>>)
    BY <1>10, <2>1
  <2> HIDE DEF ref, tag, digest
  <2>4. <<>> \in Text /\ <<digest[3]>> \in Text /\ <<digest[3]>> # <<>>
    BY <2>2 DEF Text
  <2>5. WellFormed(ref)
    BY <1>1, <1>7, <1>8, <2>2, <2>3, <2>4 DEF WellFormed, MkRef
  <2> QED
    BY <1>1, <1>7, <2>3, <2>4, <2>5 DEF Canonical, MkRef
<1> QED
  BY <1>9, <1>10

-----------------------------------------------------------------------------
(* Parse undoes String.                                                    *)

\* It does not matter where the joining of three begins.
Assoc(E) == \A a, b, c \in Seq(E) : (a \o b) \o c = a \o (b \o c)

\* Concatenation is associative.
LEMMA Associative ==
  ASSUME NEW E
  PROVE  Assoc(E)
<1> SUFFICES ASSUME NEW a \in Seq(E), NEW b \in Seq(E), NEW c \in Seq(E)
             PROVE  (a \o b) \o c = a \o (b \o c)
  BY DEF Assoc
<1> DEFINE x == (a \o b) \o c
           y == a \o (b \o c)
<1>1. x \in Seq(E) /\ y \in Seq(E) /\ Len(x) = Len(y)
  OBVIOUS
<1>2. \A i \in 1..Len(x) : x[i] = y[i]
  OBVIOUS
<1> HIDE DEF x, y
<1>3. x = y
  BY <1>1, <1>2, SMTT(30)
<1> QED
  BY <1>3 DEF x, y

\* What stands before and after a separator.
Cuts(t, u, c, v) == t = u \o (<<c>> \o v)

\* Both sides of a separator can be cut out.
LEMMA Cut ==
  ASSUME NEW u \in Text, NEW v \in Text, NEW c \in Words, NEW t, Cuts(t, u, c, v)
  PROVE  /\ t \in Text /\ Len(t) = Len(u) + 1 + Len(v)
         /\ SubSeq(t, 1, Len(u)) = u
         /\ SubSeq(t, Len(u) + 2, Len(t)) = v
<1>1. /\ Len(u) \in Nat /\ Len(v) \in Nat
      /\ t \in Text /\ Len(t) = Len(u) + 1 + Len(v)
      /\ \A i \in 1..Len(u) : t[i] = u[i]
      /\ \A i \in 1..Len(v) : t[Len(u) + 1 + i] = v[i]
  BY DEF Text, Cuts
<1> DEFINE a == SubSeq(t, 1, Len(u))
           b == SubSeq(t, Len(u) + 2, Len(t))
<1>2. a = u
  <2>1. a \in Text /\ Len(a) = Len(u) /\ \A i \in 1..Len(u) : a[i] = u[i]
    BY <1>1 DEF Text
  <2> HIDE DEF a
  <2> QED  BY <2>1 DEF Text
<1>3. b = v
  <2>1. b \in Text /\ Len(b) = Len(v) /\ \A i \in 1..Len(v) : b[i] = v[i]
    BY <1>1 DEF Text
  <2> HIDE DEF b
  <2> QED  BY <2>1 DEF Text
<1> QED
  BY <1>1, <1>2, <1>3

\* What neither side has, the whole has not.
LEMMA FreeConcat ==
  ASSUME NEW u \in Text, NEW v \in Text, NEW c \in Words, NEW d, c # d, Free(u, d), Free(v, d)
  PROVE  Free(u \o (<<c>> \o v), d)
BY DEF Free, Text

\* What no piece has, the joined text has not.
LEMMA FreeJoin ==
  ASSUME NEW c \in Words, NEW d, c # d, NEW p \in Seq(Text), p # <<>>,
         \A i \in DOMAIN p : Free(p[i], d)
  PROVE  Join(p, c) \in Text /\ Free(Join(p, c), d)
<1> DEFINE Good(q) == q # <<>> /\ (\A i \in DOMAIN q : Free(q[i], d))
                      => Join(q, c) \in Text /\ Free(Join(q, c), d)
           S == {q \in Seq(Text) : Good(q)}
<1>1. <<>> \in S
  OBVIOUS
<1>2. ASSUME NEW q \in Seq(Text), NEW x \in Text, q \in S
      PROVE  Append(q, x) \in S
  <2> SUFFICES ASSUME \A i \in DOMAIN Append(q, x) : Free(Append(q, x)[i], d)
               PROVE  Join(Append(q, x), c) \in Text /\ Free(Join(Append(q, x), c), d)
    <3>1. Append(q, x) \in Seq(Text)
      OBVIOUS
    <3> QED  BY <3>1
  <2>1. Free(x, d) /\ \A i \in DOMAIN q : Free(q[i], d)
    <3>1. /\ Len(q) \in Nat /\ DOMAIN q = 1..Len(q) /\ DOMAIN Append(q, x) = 1..(Len(q) + 1)
          /\ Append(q, x)[Len(q) + 1] = x /\ \A i \in 1..Len(q) : Append(q, x)[i] = q[i]
      OBVIOUS
    <3> QED
      BY <3>1
  <2>2. CASE q = <<>>
    <3>1. Append(q, x) = <<x>>
      BY <2>2
    <3>2. Join(<<x>>, c) = x
      BY JoinOne DEF Text
    <3> QED
      BY <2>1, <3>1, <3>2
  <2>3. CASE q # <<>>
    <3>1. Join(q, c) \in Text /\ Free(Join(q, c), d)
      BY <1>2, <2>1, <2>3
    <3>2. Join(Append(q, x), c) = Join(q, c) \o (<<c>> \o x)
      BY <2>3, JoinAppend DEF Text
    <3>3. Join(q, c) \o (<<c>> \o x) \in Text
      BY <3>1 DEF Text
    <3>4. Free(Join(q, c) \o (<<c>> \o x), d)
      BY <2>1, <3>1, FreeConcat
    <3> QED
      BY <3>2, <3>3, <3>4
  <2> QED
    BY <2>2, <2>3
<1> HIDE DEF S
<1>3. \A q \in Seq(Text) : q \in S
  BY <1>1, <1>2, Sequences
<1> QED
  BY <1>3 DEF S

\* A piece before the others comes before a separator.
LEMMA JoinPrepend ==
  ASSUME NEW c \in Words, NEW h \in Text, NEW p \in Seq(Text), p # <<>>
  PROVE  Join(<<h>> \o p, c) = h \o (<<c>> \o Join(p, c)) /\ Join(p, c) \in Text
<1> DEFINE Good(q) == q # <<>> => Join(<<h>> \o q, c) = h \o (<<c>> \o Join(q, c)) /\ Join(q, c) \in Text
           S == {q \in Seq(Text) : Good(q)}
<1>1. <<>> \in S
  OBVIOUS
<1>2. ASSUME NEW q \in Seq(Text), NEW x \in Text, q \in S
      PROVE  Append(q, x) \in S
  <2> SUFFICES /\ Join(<<h>> \o Append(q, x), c) = h \o (<<c>> \o Join(Append(q, x), c))
               /\ Join(Append(q, x), c) \in Text
    <3>1. Append(q, x) \in Seq(Text)
      OBVIOUS
    <3> QED  BY <3>1
  <2> DEFINE hq == <<h>> \o q
             y == <<c>> \o x
  <2>1. hq \in Seq(Text) /\ hq # <<>> /\ y \in Text
    <3>1. hq \in Seq(Text) /\ Len(hq) = Len(q) + 1 /\ Len(q) \in Nat
      OBVIOUS
    <3>2. y \in Text
      BY DEF Text
    <3> HIDE DEF hq
    <3> QED  BY <3>1, <3>2
  <2>2. <<h>> \o Append(q, x) = Append(hq, x)
    OBVIOUS
  <2> HIDE DEF hq
  <2>3. Join(Append(hq, x), c) = Join(hq, c) \o y
    BY <2>1, JoinAppend DEF Text
  <2>4. CASE q = <<>>
    <3>1. Append(q, x) = <<x>> /\ hq = <<h>>
      BY <2>4 DEF hq
    <3>2. Join(<<x>>, c) = x /\ Join(<<h>>, c) = h
      BY JoinOne DEF Text
    <3> QED
      BY <2>2, <2>3, <3>1, <3>2
  <2>5. CASE q # <<>>
    <3>1. Join(hq, c) = h \o (<<c>> \o Join(q, c)) /\ Join(q, c) \in Text
      BY <1>2, <2>5 DEF hq
    <3>2. Join(Append(q, x), c) = Join(q, c) \o y
      BY <2>5, JoinAppend DEF Text
    <3> DEFINE j == Join(q, c)
               cs == <<c>>
    <3>3. cs \in Text /\ j \in Text /\ cs \o j \in Text /\ j \o y \in Text
      <4>1. \A u \in Text, v \in Text : u \o v \in Text
        BY DEF Text
      <4>2. cs \in Text
        BY DEF Text
      <4> HIDE DEF cs, j, y
      <4> QED  BY <2>1, <3>1, <4>1, <4>2 DEF j
    <3> HIDE DEF j, cs, y, hq
    <3>4. (h \o (cs \o j)) \o y = h \o (cs \o (j \o y))
      <4> DEFINE cj == cs \o j
      <4>a. /\ h \in Seq(Words) /\ cs \in Seq(Words) /\ j \in Seq(Words) /\ y \in Seq(Words)
            /\ cj \in Seq(Words)
        BY <2>1, <3>3 DEF Text
      <4>2. (cs \o j) \o y = cs \o (j \o y)
        <5> HIDE DEF cj
        <5>1. cs \in Seq(Words) /\ j \in Seq(Words) /\ y \in Seq(Words)
          BY <4>a
        <5>2. Assoc(Words)
          BY Associative
        <5> QED  BY ONLY <5>1, <5>2, Zenon DEF Assoc
      <4> HIDE DEF cj
      <4>b. (h \o cj) \o y = h \o (cj \o y)
        <5>1. h \in Seq(Words) /\ cj \in Seq(Words) /\ y \in Seq(Words)
          BY <4>a
        <5>2. Assoc(Words)
          BY Associative
        <5> QED  BY ONLY <5>1, <5>2, Zenon DEF Assoc
      <4>1. (h \o (cs \o j)) \o y = h \o ((cs \o j) \o y)
        BY <4>b DEF cj
      <4> QED  BY <4>1, <4>2
    <3>5. Join(<<h>> \o Append(q, x), c) = h \o (cs \o (j \o y))
      BY <2>2, <2>3, <3>1, <3>4 DEF j, cs
    <3> QED
      BY <3>2, <3>3, <3>5 DEF j, cs
  <2> QED
    BY <2>4, <2>5
<1> HIDE DEF S
<1>3. \A q \in Seq(Text) : q \in S
  BY <1>1, <1>2, Sequences
<1> QED
  BY <1>3 DEF S

\* The printed name of an image, with the place of its last "/".
LEMMA NameText ==
  ASSUME NEW r, Canonical(r)
  PROVE  LET name == r.Host \o <<"/">> \o Join(r.Path, "/")
             last == r.Path[Len(r.Path)]
         IN /\ name \in Text /\ last \in Text
            /\ Split(name, "/") = <<r.Host>> \o r.Path
            /\ \E u \in Text : name = u \o (<<"/">> \o last)
            /\ r.Digest = <<>> => Free(name, "@")
<1> DEFINE h == r.Host
           p == r.Path
           n == Len(p)
           front == Front(p)
           last == p[Len(p)]
           parts == <<h>> \o p
           slash == "/"
<1>1. /\ h \in Text /\ p \in Seq(Text) /\ p # <<>> /\ Free(h, "/")
      /\ \A i \in DOMAIN p : Free(p[i], "/")
      /\ r.Digest = <<>> => Free(h, "@") /\ \A i \in DOMAIN p : Free(p[i], "@")
  BY DEF Canonical, WellFormed
<1>2. slash \in Words /\ slash # "@"
  BY WordsAssumption DEF FixedWords
<1> HIDE DEF h, p
<1>3. front \in Seq(Text) /\ last \in Text /\ p = Append(front, last)
  BY <1>1, LastAppended
<1>4. /\ parts \in Seq(Text) /\ Len(parts) = n + 1 /\ parts[1] = h /\ n \in Nat
      /\ \A i \in 1..n : parts[i + 1] = p[i]
  BY <1>1, OneBefore
<1>5. \A d : Free(h, d) /\ (\A i \in DOMAIN p : Free(p[i], d)) => \A i \in DOMAIN parts : Free(parts[i], d)
  <2> HIDE DEF parts, n
  <2>1. \A i \in DOMAIN parts : i = 1 \/ (i - 1 \in 1..n /\ (i - 1) + 1 = i)
    BY <1>4
  <2>2. DOMAIN p = 1..n
    BY <1>1 DEF n
  <2> SUFFICES ASSUME NEW d, Free(h, d), \A i \in DOMAIN p : Free(p[i], d), NEW i \in DOMAIN parts
               PROVE  Free(parts[i], d)
    OBVIOUS
  <2>3. CASE i = 1
    BY <1>4, <2>3
  <2>4. CASE i # 1
    <3>1. i - 1 \in 1..n /\ (i - 1) + 1 = i
      BY <2>1, <2>4
    <3>2. parts[i] = p[i - 1]
      BY <1>4, <3>1
    <3> QED
      BY <2>2, <3>1, <3>2
  <2> QED  BY <2>3, <2>4
<1>6. parts # <<>>
  <2> HIDE DEF parts
  <2> QED  BY <1>4
<1> HIDE DEF slash
<1> DEFINE whole == Join(parts, slash)
<1>7. whole = h \o (<<slash>> \o Join(p, slash)) /\ Join(p, slash) \in Text
  BY <1>1, <1>2, JoinPrepend
<1>8. whole \in Text /\ Split(whole, slash) = parts
  <2>1. \A i \in DOMAIN parts : Free(parts[i], slash)
    BY <1>1, <1>5 DEF slash
  <2> HIDE DEF parts
  <2> QED  BY <1>2, <1>4, <1>6, <2>1, SplitJoin
<1>9. r.Digest = <<>> => Free(whole, "@")
  <2> SUFFICES ASSUME r.Digest = <<>>
               PROVE  Free(whole, "@")
    OBVIOUS
  <2>1. \A i \in DOMAIN parts : Free(parts[i], "@")
    BY <1>1, <1>5
  <2> HIDE DEF parts
  <2> QED  BY <1>2, <1>4, <1>6, <2>1, FreeJoin
<1>10. \E u \in Text : whole = u \o (<<slash>> \o last)
  <2> DEFINE f == <<h>> \o front
  <2> HIDE DEF front, last
  <2>1. f \in Seq(Text) /\ Len(f) = Len(front) + 1 /\ Len(front) \in Nat
    BY <1>1, <1>3, OneBefore
  <2>2. parts = Append(f, last)
    <3>1. <<h>> \o Append(front, last) = Append(<<h>> \o front, last)
      BY <1>1, <1>3
    <3> QED
      BY <1>3, <3>1
  <2> HIDE DEF f, parts
  <2>3. f # <<>>
    BY <2>1
  <2>4. Join(f, slash) \in Text /\ whole = Join(f, slash) \o (<<slash>> \o last)
    BY <1>2, <1>3, <2>1, <2>2, <2>3, JoinAppend DEF Text
  <2> QED  BY <2>4
<1>11. h \o <<slash>> \o Join(p, slash) = whole
  <2> DEFINE j == Join(p, slash)
             cs == <<slash>>
  <2>1. h \in Seq(Words) /\ cs \in Seq(Words) /\ j \in Seq(Words)
    BY <1>1, <1>2, <1>7 DEF Text
  <2> HIDE DEF cs, j, whole
  <2>2. (h \o cs) \o j = h \o (cs \o j)
    <3>1. Assoc(Words)
      BY Associative
    <3> QED
      BY ONLY <2>1, <3>1, Zenon DEF Assoc
  <2> QED
    BY <1>7, <2>2 DEF cs, j
<1> HIDE DEF whole, parts
<1> QED
  BY <1>3, <1>8, <1>9, <1>10, <1>11 DEF slash, h, p, parts

\* The name of Parse, once the text is cut where it should be.
LEMMA NameRead ==
  ASSUME NEW r, Canonical(r)
  PROVE  LET parts == <<r.Host>> \o r.Path
             hosted == Len(parts) > 1 /\ looksLikeHost(parts[1])
             host == IF hosted THEN parts[1] ELSE DefaultRegistry
         IN /\ host = r.Host
            /\ CanonicalPath(host, IF hosted THEN Tail(parts) ELSE parts) = r.Path
<1> DEFINE h == r.Host
           p == r.Path
           parts == <<h>> \o p
<1>1. /\ h \in Text /\ p \in Seq(Text) /\ p # <<>> /\ looksLikeHost(h)
      /\ h = DefaultRegistry => Len(p) # 1
  BY DEF Canonical, WellFormed
<1> HIDE DEF h, p
<1>2. parts \in Seq(Text) /\ Len(parts) = Len(p) + 1 /\ parts[1] = h
      /\ \A i \in 1..Len(p) : parts[i + 1] = p[i]
  BY <1>1, OneBefore
<1>3. Len(p) \in Nat \ {0}
  BY <1>1
<1> HIDE DEF parts
<1>4. Len(parts) > 1
  BY <1>2, <1>3
<1>5. Tail(parts) = p
  <2> DEFINE t == Tail(parts)
  <2>1. t \in Seq(Text) /\ Len(t) = Len(p) /\ \A i \in 1..Len(p) : t[i] = p[i]
    BY <1>2, <1>4
  <2> HIDE DEF t
  <2>2. t = p
    BY <1>1, <2>1
  <2> QED  BY <2>2 DEF t
<1> QED
  <2>1. /\ parts = <<r.Host>> \o r.Path /\ h = r.Host /\ p = r.Path
    BY DEF parts, h, p
  <2>2. CanonicalPath(h, p) = p
    BY <1>1 DEF CanonicalPath
  <2>3. Len(parts) > 1 /\ looksLikeHost(parts[1]) /\ parts[1] = h /\ Tail(parts) = p
    BY <1>1, <1>2, <1>4, <1>5
  <2> QED
    BY <2>1, <2>2, <2>3

\* What String prints, Parse reads.
THEOREM Reparsed ==
  ASSUME NEW r, Canonical(r)
  PROVE  Parse(String(r)) = r
<1> DEFINE name0 == r.Host \o <<"/">> \o Join(r.Path, "/")
           s == String(r)
           at == LastOf(s, "@")
           name == IF at = 0 THEN s ELSE SubSeq(s, 1, at - 1)
           digest == IF at = 0 THEN <<>> ELSE SubSeq(s, at + 1, Len(s))
           colon == IF at = 0 THEN TagColon(s) ELSE 0
           tag == IF colon = 0 THEN <<>> ELSE SubSeq(s, colon + 1, Len(s))
           named == IF colon = 0 THEN name ELSE SubSeq(s, 1, colon - 1)
           parts == Split(named, "/")
           hosted == Len(parts) > 1 /\ looksLikeHost(parts[1])
           host == IF hosted THEN parts[1] ELSE DefaultRegistry
           path == CanonicalPath(host, IF hosted THEN Tail(parts) ELSE parts)
           ref == MkRef(host, path, IF at = 0 /\ colon = 0 THEN <<"latest">> ELSE tag,
                        IF at = 0 THEN <<>> ELSE <<digest[3]>>)
<1>1. ASSUME named = name0, at # 0 => IsDigest(digest), colon # 0 => tag # <<>>,
             r.Tag = IF at = 0 /\ colon = 0 THEN <<"latest">> ELSE tag,
             r.Digest = IF at = 0 THEN <<>> ELSE <<digest[3]>>
      PROVE  Parse(s) = r
  <2>1. parts = <<r.Host>> \o r.Path
    BY <1>1, NameText
  <2>2. host = r.Host /\ path = r.Path
    <3> HIDE DEF parts
    <3> QED  BY <2>1, NameRead
  <2>3. \A i \in DOMAIN path : path[i] \notin ReservedSegments \cup {<<>>}
    <3> HIDE DEF path
    <3> QED  BY <2>2 DEF Canonical, WellFormed
  <2>4. Parse(s) = ref
    <3>1. /\ at # 0 => IsDigest(digest)
          /\ colon # 0 => tag # <<>>
      BY <1>1
    <3> QED  BY <2>3, <3>1, Zenon DEF Parse
  <2>5. ref = MkRef(r.Host, r.Path, r.Tag, r.Digest)
    <3> HIDE DEF path, host, tag, digest, colon, at
    <3> QED  BY <1>1, <2>2
  <2>6. r = MkRef(r.Host, r.Path, r.Tag, r.Digest)
    BY DEF Canonical, WellFormed, MkRef
  <2> HIDE DEF ref
  <2> QED
    BY <2>4, <2>5, <2>6
<1>2. name0 \in Text /\ (r.Digest = <<>> => Free(name0, "@"))
  BY NameText
<1>3. PICK u \in Text : name0 = u \o (<<"/">> \o r.Path[Len(r.Path)])
  BY NameText
<1>4. "/" \in Words /\ ":" \in Words /\ "@" \in Words /\ "sha256" \in Words
  BY WordsAssumption DEF FixedWords
<1> HIDE DEF name0
<1>5. CASE r.Digest = <<>>
  <2> DEFINE l == r.Path[Len(r.Path)]
             v == l \o (<<":">> \o r.Tag)
             slash == LastOf(s, "/")
  <2>1. /\ l \in Text /\ r.Tag \in Text /\ r.Tag # <<>>
        /\ Free(l, "/") /\ Free(l, ":") /\ Free(r.Tag, "/") /\ Free(r.Tag, "@")
    <3>1. /\ r.Path \in Seq(Text) /\ r.Path # <<>> /\ r.Tag \in Text /\ r.Tag # <<>>
          /\ \A i \in DOMAIN r.Path : Free(r.Path[i], "/")
          /\ Free(r.Path[Len(r.Path)], ":")
          /\ Free(r.Tag, "/") /\ Free(r.Tag, "@")
      BY <1>5 DEF Canonical, WellFormed
    <3>2. Len(r.Path) \in DOMAIN r.Path /\ r.Path[Len(r.Path)] \in Text
      BY <3>1
    <3> QED
      BY <3>1, <3>2
  <2> HIDE DEF l
  <2>2. s = name0 \o (<<":">> \o r.Tag)
    <3>1. s = name0 \o (<<":">> \o r.Tag)
      BY <1>5 DEF String, IsDigested, name0
    <3> QED  BY <3>1
  <2> HIDE DEF s
  <2>3. s \in Text /\ SubSeq(s, 1, Len(name0)) = name0
        /\ SubSeq(s, Len(name0) + 2, Len(s)) = r.Tag
    <3>1. Cuts(s, name0, ":", r.Tag)
      BY <2>2 DEF Cuts
    <3>2. s \in Text
      BY <1>2, <1>4, <2>1, <3>1, Cut
    <3>3. SubSeq(s, 1, Len(name0)) = name0
      BY <1>2, <1>4, <2>1, <3>1, Cut
    <3>4. SubSeq(s, Len(name0) + 2, Len(s)) = r.Tag
      BY <1>2, <1>4, <2>1, <3>1, Cut
    <3> QED  BY <3>2, <3>3, <3>4
  <2>4. at = 0
    <3>1. Free(s, "@")
      BY <1>2, <1>4, <1>5, <2>1, <2>2, FreeConcat
    <3>2. /\ LastOf(s, "@") \in 0..Len(s)
          /\ LastOf(s, "@") # 0 => s[LastOf(s, "@")] = "@"
      BY <2>3, LastIsPosition
    <3>3. DOMAIN s = 1..Len(s) /\ Len(s) \in Nat
      <4>1. s \in Text
        BY <2>3
      <4> QED  BY <4>1 DEF Text
    <3> QED
      BY <3>1, <3>2, <3>3 DEF Free
  <2>5. v \in Text /\ Free(v, "/") /\ First(v, ":") = Len(l) + 1
    <3>1. v \in Text
      BY <1>4, <2>1 DEF Text
    <3>2. Free(v, "/")
      BY <1>4, <2>1, FreeConcat
    <3> QED
      BY <1>4, <2>1, <3>1, <3>2, FirstIs
  <2>6. s = u \o (<<"/">> \o v) /\ Len(name0) = Len(u) + 1 + Len(l)
    <3> DEFINE cs == <<"/">>
               cl == cs \o l
               ct == <<":">> \o r.Tag
    <3>1. /\ u \in Seq(Words) /\ cs \in Seq(Words) /\ l \in Seq(Words) /\ ct \in Seq(Words)
          /\ cl \in Seq(Words)
      BY <1>4, <2>1 DEF Text
    <3>2. name0 = u \o cl
      BY <1>3 DEF l
    <3>3. s = name0 \o ct
      BY <2>2
    <3>4. Len(name0) = Len(u) + 1 + Len(l)
      <4>1. Cuts(name0, u, "/", l)
        BY <1>3 DEF Cuts, l
      <4> QED  BY <1>4, <2>1, <4>1, Cut
    <3> HIDE DEF ct, cs
    <3>5. (cs \o l) \o ct = cs \o (l \o ct)
      <4> HIDE DEF cl
      <4>1. cs \in Seq(Words) /\ l \in Seq(Words) /\ ct \in Seq(Words)
        BY <3>1
      <4>2. Assoc(Words)
        BY Associative
      <4> QED
        BY ONLY <4>1, <4>2, Zenon DEF Assoc
    <3> HIDE DEF cl
    <3>6. (u \o cl) \o ct = u \o (cl \o ct)
      <4>1. u \in Seq(Words) /\ cl \in Seq(Words) /\ ct \in Seq(Words)
        BY <3>1
      <4>2. Assoc(Words)
        BY Associative
      <4> QED
        BY ONLY <4>1, <4>2, Zenon DEF Assoc
    <3>7. s = u \o (cs \o (l \o ct))
      BY <3>2, <3>3, <3>5, <3>6 DEF cl
    <3> QED
      BY <3>4, <3>7 DEF cs, ct
  <2>7. TagColon(s) = Len(name0) + 1
    <3>1. slash = Len(u) + 1
      BY <1>4, <2>5, <2>6, LastIs
    <3>2. SubSeq(s, slash + 1, Len(s)) = v
      <4>1. SubSeq(s, Len(u) + 2, Len(s)) = v
        <5> HIDE DEF v
        <5>1. Cuts(s, u, "/", v)
          BY <2>6 DEF Cuts
        <5> QED  BY <1>4, <2>5, <5>1, Cut
      <4>2. slash + 1 = Len(u) + 2
        BY <3>1 DEF Text
      <4> QED  BY <4>1, <4>2
    <3> HIDE DEF slash, v
    <3>3. Len(u) \in Nat /\ Len(l) \in Nat
      BY <2>1 DEF Text
    <3>4. First(v, ":") # 0
      BY <2>5, <3>3
    <3>5. TagColon(s) = slash + First(v, ":")
      BY <3>2, <3>4 DEF TagColon, slash
    <3> QED
      BY <2>5, <2>6, <3>1, <3>3, <3>5
  <2>8. Len(name0) \in Nat /\ colon = Len(name0) + 1 /\ colon # 0
    BY <1>2, <2>4, <2>7 DEF Text
  <2> HIDE DEF colon, at
  <2>9. colon - 1 = Len(name0) /\ colon + 1 = Len(name0) + 2
    BY <2>8
  <2>10. tag = r.Tag /\ named = name0
    BY <2>3, <2>8, <2>9
  <2> HIDE DEF tag, named
  <2> QED
    BY <1>1, <1>5, <2>1, <2>4, <2>8, <2>10 DEF s
<1>6. CASE r.Digest # <<>>
  <2>1. PICK x \in Hex : r.Tag = <<>> /\ r.Digest = <<x>>
    BY <1>6 DEF Canonical, WellFormed
  <2> DEFINE v == <<"sha256", ":", x>>
  <2>2. x \in Words /\ x # "@"
    BY WordsAssumption, HexAssumption DEF FixedWords
  <2>3. v \in Text /\ Free(v, "@") /\ Len(v) = 3 /\ v[1] = "sha256" /\ v[2] = ":" /\ v[3] = x
    BY <1>4, <2>2 DEF Text, Free
  <2>4. s = name0 \o (<<"@">> \o v)
    <3>1. s = name0 \o (<<"@", "sha256", ":">> \o <<x>>)
      BY <1>6, <2>1 DEF String, IsDigested, name0
    <3>2. <<"@", "sha256", ":">> \o <<x>> = <<"@">> \o v
      BY <1>4, <2>2
    <3> QED  BY <3>1, <3>2
  <2> HIDE DEF s, v
  <2>5. at = Len(name0) + 1
    BY <1>2, <1>4, <2>3, <2>4, LastIs
  <2>6. SubSeq(s, 1, Len(name0)) = name0 /\ SubSeq(s, Len(name0) + 2, Len(s)) = v
    <3>1. Cuts(s, name0, "@", v)
      BY <2>4 DEF Cuts
    <3>2. SubSeq(s, 1, Len(name0)) = name0
      BY <1>2, <1>4, <2>3, <3>1, Cut
    <3>3. SubSeq(s, Len(name0) + 2, Len(s)) = v
      <4>1. name0 \in Text /\ v \in Text /\ "@" \in Words
        BY <1>2, <1>4, <2>3
      <4> QED  BY <3>1, <4>1, Cut
    <3> QED  BY <3>2, <3>3
  <2>7. at # 0 /\ at - 1 = Len(name0) /\ at + 1 = Len(name0) + 2
    BY <1>2, <2>5 DEF Text
  <2> HIDE DEF at
  <2>8. name = name0 /\ digest = v /\ colon = 0
    BY <2>6, <2>7
  <2>9. IsDigest(v)
    BY <2>3 DEF IsDigest
  <2> HIDE DEF name, digest, colon
  <2>10. named = name0 /\ tag = <<>>
    BY <2>8
  <2> HIDE DEF named, tag
  <2> QED
    BY <1>1, <2>1, <2>3, <2>7, <2>8, <2>9, <2>10 DEF s
<1> QED
  BY <1>5, <1>6

=============================================================================
