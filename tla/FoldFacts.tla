------------------------------ MODULE FoldFacts ------------------------------
(***************************************************************************)
(* Facts about the folds of the community modules, for any operator op, and*)
(* induction over the natural numbers.  The library states induction with  *)
(* an operator parameter, which the provers do not instantiate; here it is *)
(* derived from the well-foundedness of < on sets, and a proof module takes*)
(* an instance WITH op <- LAMBDA ... for each fold it reasons about.       *)
(***************************************************************************)
EXTENDS Integers, SequencesExt, TLAPS, FiniteSetTheorems, SequenceTheorems, WellFoundedInduction

CONSTANT op(_,_)

\* The four folds the models use, over op.
Left(base, seq) == FoldLeft(op, base, seq)
Over(base, fun, T) == FoldFunctionOnSet(op, base, fun, T)
OfSet(base, T) == FoldSet(op, base, T)
OfSeq(base, seq) == FoldSeq(op, base, seq)
Step(x, y) == op(x, y)

-----------------------------------------------------------------------------
LessThan == {ss \in Nat \X Nat : ss[1] < ss[2]}

\* No sequence of naturals descends for ever.
LEMMA LessIsWellFounded == IsWellFoundedOn(LessThan, Nat)
BY NatLessThanWellFounded DEF OpToRel, LessThan

\* A set of naturals that is not empty has a least element.
LEMMA LeastElement ==
    ASSUME NEW T, T \subseteq Nat, T # {}
    PROVE  \E x \in T : \A y \in T : x <= y
<1>1. PICK x \in T : \A y \in T : ~(<<y, x>> \in LessThan)
  BY LessIsWellFounded, WFMin
<1>2. ASSUME NEW y \in T PROVE x <= y
  <2>1. <<y, x>> \notin LessThan /\ x \in Nat /\ y \in Nat
    BY <1>1
  <2> QED
    BY <2>1 DEF LessThan
<1> QED
  BY <1>2

\* A set that has 0 and the successor of each of its naturals has all of them.
LEMMA Induction ==
    ASSUME NEW T, 0 \in T, \A n \in Nat : n \in T => n + 1 \in T
    PROVE  Nat \subseteq T
<1> SUFFICES ASSUME Nat \ T # {} PROVE FALSE
  OBVIOUS
<1>1. PICK x \in Nat \ T : \A y \in Nat \ T : x <= y
  BY LeastElement
<1>2. x - 1 \in Nat /\ x - 1 \in T
  BY <1>1
<1> QED
  BY <1>1, <1>2

-----------------------------------------------------------------------------
\* The maximum FoldLeft chooses from a set of indices is one of them.
LEMMA MaxOf ==
    ASSUME NEW n \in Nat, NEW s \in SUBSET (1 .. n), s # {}
    PROVE  Max(s) \in s /\ \A y \in s : Max(s) >= y
<1>1. \E x \in s : \A y \in s : x >= y
  <2> DEFINE T == {k \in Nat : \A y \in s : k >= y}
  <2>1. n \in T
    OBVIOUS
  <2>2. PICK x \in T : \A k \in T : x <= k
    BY <2>1, LeastElement
  <2>3. x \in s
    <3> SUFFICES ASSUME x \notin s PROVE FALSE
      OBVIOUS
    <3>1. \A y \in s : y \in Int /\ x >= y /\ x # y /\ y >= 1
      BY <2>2
    <3>2. \E y \in s : TRUE
      OBVIOUS
    <3>3. x \in Nat /\ x - 1 \in Nat /\ \A y \in s : x - 1 >= y
      BY <3>1, <3>2, <2>2
    <3>4. x - 1 \in T
      BY <3>3
    <3> HIDE DEF T
    <3> QED
      BY <2>2, <3>3, <3>4
  <2> QED
    BY <2>2, <2>3
<1> QED
  BY <1>1 DEF Max

\* The last index is the maximum of a set that has it.
LEMMA MaxWithLast ==
    ASSUME NEW n \in Nat, NEW s \in SUBSET (1 .. n + 1), n + 1 \in s
    PROVE  Max(s) = n + 1
<1>1. n + 1 \in Nat /\ s # {}
  OBVIOUS
<1>2. Max(s) \in s /\ \A y \in s : Max(s) >= y
  BY <1>1, MaxOf
<1>3. Max(s) \in 1 .. n + 1 /\ Max(s) >= n + 1
  BY <1>2
<1> QED
  BY <1>3

\* The function that FoldLeft iterates over the sets of indices.
Iterates(f, base, seq, n) ==
   f = [s \in SUBSET (1 .. n) |->
          IF s = {} THEN base ELSE Step(f[s \ {Max(s)}], seq[Max(s)])]

\* An iteration over the first n indices extends to one over n + 1.
LEMMA IterateNext ==
    ASSUME NEW base, NEW seq, NEW n \in Nat, NEW f, Iterates(f, base, seq, n)
    PROVE  \E g : Iterates(g, base, seq, n + 1)
<1> DEFINE g == [s \in SUBSET (1 .. n + 1) |->
                   IF n + 1 \in s THEN Step(f[s \ {n + 1}], seq[n + 1]) ELSE f[s]]
<1>1. ASSUME NEW s \in SUBSET (1 .. n + 1)
      PROVE g[s] = IF s = {} THEN base ELSE Step(g[s \ {Max(s)}], seq[Max(s)])
  <2>1. CASE n + 1 \in s
    <3>1. Max(s) = n + 1
      BY <2>1, MaxWithLast
    <3>2. s \ {n + 1} \in SUBSET (1 .. n + 1) /\ n + 1 \notin s \ {n + 1}
      OBVIOUS
    <3>3. g[s \ {n + 1}] = f[s \ {n + 1}]
      BY <3>2
    <3> QED
      BY <2>1, <3>1, <3>3
  <2>2. CASE n + 1 \notin s
    <3>1. s \in SUBSET (1 .. n)
      BY <2>2
    <3>2. g[s] = f[s]
      BY <2>2
    <3>3. f[s] = IF s = {} THEN base ELSE Step(f[s \ {Max(s)}], seq[Max(s)])
      BY <3>1 DEF Iterates
    <3>4. n + 1 \notin s \ {Max(s)} /\ s \ {Max(s)} \in SUBSET (1 .. n + 1)
      BY <2>2
    <3>5. g[s \ {Max(s)}] = f[s \ {Max(s)}]
      BY <3>4
    <3> QED
      BY <3>2, <3>3, <3>5
  <2> QED
    BY <2>1, <2>2
<1> HIDE DEF g
<1>2. g = [s \in SUBSET (1 .. n + 1) |-> g[s]]
  BY DEF g
<1>3. Iterates(g, base, seq, n + 1)
  BY <1>1, <1>2 DEF Iterates
<1> QED
  BY <1>3

\* The function FoldLeft chooses exists, for any number of indices.
LEMMA IterateExists ==
    ASSUME NEW base, NEW seq
    PROVE  \A n \in Nat : \E f : Iterates(f, base, seq, n)
<1> DEFINE T == {n \in Nat : \E f : Iterates(f, base, seq, n)}
<1>1. 0 \in T
  <2> DEFINE f == [s \in {{}} |-> base]
  <2>1. SUBSET (1 .. 0) = {{}}
    OBVIOUS
  <2>2. Iterates(f, base, seq, 0)
    BY <2>1 DEF Iterates
  <2> QED
    BY <2>2
<1>2. ASSUME NEW n \in Nat, n \in T PROVE n + 1 \in T
  BY <1>2, IterateNext
<1> HIDE DEF T
<1>3. Nat \subseteq T
  BY <1>1, <1>2, Induction
<1> QED
  BY <1>3 DEF T

SameUpTo(n, seq, other) == \A i \in 1 .. n : seq[i] = other[i]

\* Two iterations agree as far as the sequences do.
LEMMA IteratesAgree ==
    ASSUME NEW base, NEW seq, NEW other, NEW n \in Nat, NEW m \in Nat, n <= m,
           SameUpTo(n, seq, other),
           NEW f, Iterates(f, base, seq, n), NEW g, Iterates(g, base, other, m)
    PROVE  f[1 .. n] = g[1 .. n]
<1> DEFINE T == {i \in Nat : i <= n => f[1 .. i] = g[1 .. i]}
<1>1. 0 \in T
  <2>1. 1 .. 0 = {} /\ {} \in SUBSET (1 .. n) /\ {} \in SUBSET (1 .. m)
    OBVIOUS
  <2>2. f[{}] = base /\ g[{}] = base
    BY <2>1 DEF Iterates
  <2> QED
    BY <2>1, <2>2
<1>2. ASSUME NEW i \in Nat, i \in T PROVE i + 1 \in T
  <2> SUFFICES ASSUME i + 1 <= n PROVE f[1 .. i + 1] = g[1 .. i + 1]
    OBVIOUS
  <2>1. f[1 .. i] = g[1 .. i]
    BY <1>2
  <2> DEFINE s == 1 .. i + 1
  <2>2. s \in SUBSET (1 .. n) /\ s \in SUBSET (1 .. m) /\ s # {} /\ i + 1 \in s
    OBVIOUS
  <2>3. Max(s) = i + 1
    BY MaxWithLast
  <2>4. s \ {i + 1} = 1 .. i
    OBVIOUS
  <2> HIDE DEF s
  <2>5. /\ f[s] = Step(f[s \ {Max(s)}], seq[Max(s)])
        /\ g[s] = Step(g[s \ {Max(s)}], other[Max(s)])
    BY <2>2 DEF Iterates
  <2>6. seq[i + 1] = other[i + 1]
    BY DEF SameUpTo
  <2> QED
    BY <2>1, <2>3, <2>4, <2>5, <2>6 DEF s
<1> HIDE DEF T
<1>3. Nat \subseteq T
  BY <1>1, <1>2, Induction
<1> QED
  BY <1>3 DEF T

\* FoldLeft is that function at the whole set of indices.
LEMMA FoldIs ==
   ASSUME NEW base, NEW seq, NEW n, DOMAIN seq = 1 .. n
   PROVE  Left(base, seq) = (CHOOSE f : Iterates(f, base, seq, n))[1 .. n]
BY DEF Left, FoldLeft, MapThenFoldSet, Iterates, Step

\* The fold of the empty sequence is its base.
LEMMA FoldOfNone ==
   ASSUME NEW base PROVE Left(base, <<>>) = base
<1> DEFINE f == CHOOSE f : Iterates(f, base, <<>>, 0)
<1>1. Iterates(f, base, <<>>, 0)
  BY IterateExists
<1>2. Left(base, <<>>) = f[1 .. 0]
  BY FoldIs
<1>3. 1 .. 0 = {} /\ {} \in SUBSET (1 .. 0)
  OBVIOUS
<1> HIDE DEF f
<1> QED
  BY <1>1, <1>2, <1>3 DEF Iterates

\* Folding one element more is one step more: FoldLeft of an Append.
LEMMA FoldOfNext ==
   ASSUME NEW base, NEW X, NEW seq \in Seq(X), NEW e \in X
   PROVE  Left(base, Append(seq, e)) = Step(Left(base, seq), e)
<1> DEFINE n == Len(seq)
           long == Append(seq, e)
           f == CHOOSE f : Iterates(f, base, seq, n)
           g == CHOOSE g : Iterates(g, base, long, n + 1)
<1>1. /\ n \in Nat /\ DOMAIN seq = 1 .. n /\ DOMAIN long = 1 .. n + 1
      /\ long[n + 1] = e /\ \A i \in 1 .. n : seq[i] = long[i]
  BY AppendProperties, LenProperties
<1>2. Iterates(f, base, seq, n)
  <2>1. \E h : Iterates(h, base, seq, n)
    BY <1>1, IterateExists
  <2> QED
    BY <2>1
<1>3. Iterates(g, base, long, n + 1)
  <2>1. n + 1 \in Nat
    BY <1>1
  <2>2. \E h : Iterates(h, base, long, n + 1)
    BY <2>1, IterateExists
  <2> QED
    BY <2>2
<1>4. Left(base, seq) = f[1 .. n] /\ Left(base, long) = g[1 .. n + 1]
  BY <1>1, FoldIs
<1> HIDE DEF n, long, f, g
<1>5. f[1 .. n] = g[1 .. n]
  <2> DEFINE m == n + 1
  <2>1. n \in Nat /\ m \in Nat /\ n <= m
    BY <1>1
  <2>2. Iterates(g, base, long, m)
    BY <1>3
  <2>3. SameUpTo(n, seq, long)
    BY <1>1 DEF SameUpTo
  <2> HIDE DEF m
  <2> QED
    BY ONLY <1>2, <2>1, <2>2, <2>3, IteratesAgree
<1> DEFINE s == 1 .. n + 1
<1>6. Max(s) = n + 1 /\ s \in SUBSET (1 .. n + 1) /\ s # {} /\ s \ {n + 1} = 1 .. n
  BY <1>1, MaxWithLast
<1> HIDE DEF s
<1>7. g[s] = Step(g[s \ {Max(s)}], long[Max(s)])
  BY <1>3, <1>6 DEF Iterates
<1> QED
  BY <1>1, <1>4, <1>5, <1>6, <1>7 DEF s, long

\* What holds of the empty sequence and is kept by Append holds of all.
LEMMA SequenceInduction ==
   ASSUME NEW X, NEW R, <<>> \in R, \A s \in Seq(X), e \in X : s \in R => Append(s, e) \in R
   PROVE  Seq(X) \subseteq R
<1> DEFINE T == {n \in Nat : \A s \in Seq(X) : Len(s) = n => s \in R}
<1>1. 0 \in T
  <2>1. \A s \in Seq(X) : Len(s) = 0 => s = <<>>
    BY EmptySeq
  <2> QED
    BY <2>1
<1>2. ASSUME NEW n \in Nat, n \in T PROVE n + 1 \in T
  <2> SUFFICES ASSUME NEW s \in Seq(X), Len(s) = n + 1 PROVE s \in R
    OBVIOUS
  <2> DEFINE front == SubSeq(s, 1, n)
  <2>1. \A i \in 1 .. n + 1 : s[i] \in X
    BY ElementOfSeq
  <2>2. /\ front \in Seq(X) /\ Len(front) = n
        /\ \A i \in 1 .. n : front[i] = s[i]
    <3>1. /\ SubSeq(s, 1, n) \in Seq(X)
          /\ Len(SubSeq(s, 1, n)) = IF 1 <= n THEN n - 1 + 1 ELSE 0
          /\ \A i \in 1 .. n - 1 + 1 : SubSeq(s, 1, n)[i] = s[1 + i - 1]
      BY <2>1, SubSeqProperties
    <3> QED
      BY <3>1
  <2> HIDE DEF front
  <2> DEFINE e == s[n + 1]
  <2>3. e \in X
    BY <2>1
  <2>4. s = Append(front, e)
    <3>1. /\ Append(front, e) \in Seq(X) /\ Len(Append(front, e)) = n + 1
          /\ \A i \in 1 .. n : Append(front, e)[i] = front[i]
          /\ Append(front, e)[n + 1] = e
      BY <2>2, <2>3, AppendProperties
    <3>2. \A i \in 1 .. n + 1 : s[i] = Append(front, e)[i]
      BY <2>2, <3>1
    <3> QED
      BY <3>1, <3>2, SeqEqual
  <2> HIDE DEF e
  <2>5. front \in R
    BY <1>2, <2>2
  <2> QED
    BY <2>2, <2>3, <2>4, <2>5
<1> HIDE DEF T
<1>3. Nat \subseteq T
  BY <1>1, <1>2, Induction
<1> QED
  BY <1>3, LenProperties DEF T

\* What every step keeps, FoldLeft keeps.
LEMMA FoldKeeps ==
   ASSUME NEW A, NEW X, \A a \in A, x \in X : Step(a, x) \in A,
          NEW base \in A, NEW seq \in Seq(X)
   PROVE  Left(base, seq) \in A
<1> DEFINE R == {s \in Seq(X) : Left(base, s) \in A}
<1>1. <<>> \in R
  BY FoldOfNone, EmptySeq
<1>2. ASSUME NEW s \in Seq(X), NEW e \in X, s \in R PROVE Append(s, e) \in R
  <2>1. Append(s, e) \in Seq(X)
    BY AppendProperties
  <2>2. Left(base, Append(s, e)) = Step(Left(base, s), e)
    BY FoldOfNext
  <2> QED
    BY <1>2, <2>1, <2>2
<1> HIDE DEF R
<1>3. Seq(X) \subseteq R
  BY <1>1, <1>2, SequenceInduction
<1> QED
  BY <1>3 DEF R

-----------------------------------------------------------------------------
(* Folds in any order: FoldFunctionOnSet, of which FoldSeq and FoldSet are *)
(* cases.  What is chosen first does not matter when op commutes.          *)

Chosen(s) == CHOOSE x \in s : TRUE

Commutes(D, A) ==
    \A a, b \in D, acc \in A : Step(a, acc) \in A /\ Step(a, Step(b, acc)) = Step(b, Step(a, acc))

\* The function iterated over the subsets of T that have at most n elements.
Gathers(f, base, fun, T, n) ==
    f = [s \in {t \in SUBSET T : Cardinality(t) <= n} |->
           IF s = {} THEN base ELSE Step(fun[Chosen(s)], f[s \ {Chosen(s)}])]

Gathering(f, base, fun, T) ==
    f = [s \in SUBSET T |->
           IF s = {} THEN base ELSE Step(fun[Chosen(s)], f[s \ {Chosen(s)}])]

\* A fold over the subsets of at most n elements extends to those of n + 1.
LEMMA GatherNext ==
    ASSUME NEW base, NEW fun, NEW T, IsFiniteSet(T), NEW n \in Nat,
           NEW f, Gathers(f, base, fun, T, n)
    PROVE  \E g : Gathers(g, base, fun, T, n + 1)
<1> DEFINE Small(k) == {t \in SUBSET T : Cardinality(t) <= k}
           g == [s \in Small(n + 1) |->
                   IF s = {} THEN base ELSE Step(fun[Chosen(s)], f[s \ {Chosen(s)}])]
<1>1. ASSUME NEW s \in Small(n) PROVE g[s] = f[s]
  <2>1. IsFiniteSet(s) /\ Cardinality(s) \in Nat
    BY FS_Subset, FS_CardinalityType
  <2>2. s \in Small(n + 1)
    BY <2>1
  <2> QED
    BY <2>2 DEF Gathers
<1>2. ASSUME NEW s \in Small(n + 1), s # {} PROVE s \ {Chosen(s)} \in Small(n)
  <2>1. IsFiniteSet(s) /\ Cardinality(s) \in Nat
    BY FS_Subset, FS_CardinalityType
  <2>2. Chosen(s) \in s
    BY <1>2 DEF Chosen
  <2>3. Cardinality(s \ {Chosen(s)}) = Cardinality(s) - 1
    BY <2>1, <2>2, FS_RemoveElement
  <2> QED
    BY <2>1, <2>3
<1>3. g = [s \in Small(n + 1) |->
             IF s = {} THEN base ELSE Step(fun[Chosen(s)], g[s \ {Chosen(s)}])]
  BY <1>1, <1>2
<1> HIDE DEF g
<1>4. Gathers(g, base, fun, T, n + 1)
  BY <1>3 DEF Gathers
<1> QED
  BY <1>4

\* The function FoldFunctionOnSet chooses exists on a finite set.
LEMMA GatherExists ==
    ASSUME NEW base, NEW fun, NEW T, IsFiniteSet(T)
    PROVE  \E f : Gathering(f, base, fun, T)
<1> DEFINE N == {n \in Nat : \E f : Gathers(f, base, fun, T, n)}
<1>1. 0 \in N
  <2> DEFINE f == [s \in {t \in SUBSET T : Cardinality(t) <= 0} |-> base]
  <2>1. ASSUME NEW s \in SUBSET T, Cardinality(s) <= 0 PROVE s = {}
    <3>1. IsFiniteSet(s) /\ Cardinality(s) \in Nat
      BY FS_Subset, FS_CardinalityType
    <3>2. Cardinality(s) = 0
      BY <2>1, <3>1
    <3> QED
      BY <3>1, <3>2, FS_EmptySet
  <2>2. Gathers(f, base, fun, T, 0)
    BY <2>1 DEF Gathers
  <2> QED
    BY <2>2
<1>2. ASSUME NEW n \in Nat, n \in N PROVE n + 1 \in N
  BY <1>2, GatherNext
<1> HIDE DEF N
<1>3. Nat \subseteq N
  BY <1>1, <1>2, Induction
<1>4. Cardinality(T) \in Nat
  BY FS_CardinalityType
<1>5. PICK f : Gathers(f, base, fun, T, Cardinality(T))
  BY <1>3, <1>4 DEF N
<1>6. {t \in SUBSET T : Cardinality(t) <= Cardinality(T)} = SUBSET T
  BY FS_Subset
<1> QED
  BY <1>5, <1>6 DEF Gathers, Gathering

\* Two such functions agree on the sets both are defined on.
LEMMA GatheringsAgree ==
    ASSUME NEW base, NEW fun, NEW T, IsFiniteSet(T), NEW U,
           NEW f, Gathering(f, base, fun, T), NEW g, Gathering(g, base, fun, U),
           NEW s \in (SUBSET T) \cap (SUBSET U)
    PROVE  f[s] = g[s]
<1> DEFINE Small(n) == {t \in (SUBSET T) \cap (SUBSET U) : Cardinality(t) <= n}
           N == {n \in Nat : \A t \in Small(n) : f[t] = g[t]}
<1>1. \A t \in SUBSET T : IsFiniteSet(t) /\ Cardinality(t) \in Nat
  BY FS_Subset, FS_CardinalityType
<1>2. f[{}] = g[{}]
  BY DEF Gathering
<1>3. 0 \in N
  <2>1. ASSUME NEW t \in Small(0) PROVE t = {}
    <3>1. Cardinality(t) = 0
      BY <1>1
    <3> QED
      BY <1>1, <3>1, FS_EmptySet
  <2> QED
    BY <1>2, <2>1
<1>4. ASSUME NEW n \in Nat, n \in N PROVE n + 1 \in N
  <2>1. ASSUME NEW t \in Small(n + 1), t # {} PROVE f[t] = g[t]
    <3>1. Chosen(t) \in t
      BY <2>1 DEF Chosen
    <3>2. Cardinality(t \ {Chosen(t)}) = Cardinality(t) - 1
      BY <1>1, <3>1, FS_RemoveElement
    <3>3. t \ {Chosen(t)} \in Small(n)
      BY <1>1, <3>2
    <3>4. f[t \ {Chosen(t)}] = g[t \ {Chosen(t)}]
      BY <1>4, <3>3
    <3> QED
      BY <2>1, <3>4 DEF Gathering
  <2> QED
    BY <1>2, <2>1
<1> HIDE DEF N
<1>5. Cardinality(s) \in N
  BY <1>1, <1>3, <1>4, Induction
<1> QED
  BY <1>1, <1>5 DEF N

\* The fold over a finite set is the value of such a function.
LEMMA GatheredBy ==
    ASSUME NEW base, NEW fun, NEW T, IsFiniteSet(T)
    PROVE  \E f : Gathering(f, base, fun, T) /\ Over(base, fun, T) = f[T]
<1> DEFINE f == CHOOSE f : Gathering(f, base, fun, T)
<1>1. Gathering(f, base, fun, T)
  BY GatherExists
<1>2. Over(base, fun, T) = f[T]
  BY DEF Over, FoldFunctionOnSet, MapThenFoldSet, Chosen, Step, Gathering
<1> QED
  BY <1>1, <1>2

\* The fold over no elements is its base.
LEMMA FoldOfEmpty ==
    ASSUME NEW base, NEW fun PROVE Over(base, fun, {}) = base
<1>1. PICK f : Gathering(f, base, fun, {}) /\ Over(base, fun, {}) = f[{}]
  BY GatheredBy, FS_EmptySet
<1> QED
  BY <1>1 DEF Gathering

\* The fold over a set is one step more than the fold without the element chosen first.
LEMMA FoldOfChosen ==
    ASSUME NEW base, NEW fun, NEW T, IsFiniteSet(T), T # {}
    PROVE  Over(base, fun, T)
             = Step(fun[Chosen(T)], Over(base, fun, T \ {Chosen(T)}))
<1> DEFINE U == T \ {Chosen(T)}
<1>1. IsFiniteSet(U) /\ U \in (SUBSET T) \cap (SUBSET U)
  BY FS_RemoveElement
<1> HIDE DEF U
<1>2. PICK f : Gathering(f, base, fun, T) /\ Over(base, fun, T) = f[T]
  BY GatheredBy
<1>3. PICK g : Gathering(g, base, fun, U) /\ Over(base, fun, U) = g[U]
  BY <1>1, GatheredBy
<1>4. f[U] = g[U]
  BY <1>1, <1>2, <1>3, GatheringsAgree
<1>5. f[T] = Step(fun[Chosen(T)], f[U])
  BY <1>2 DEF Gathering, U
<1> QED
  BY <1>2, <1>3, <1>4, <1>5 DEF U

OneByOne(base, fun, T) ==
    \A x \in T : Over(base, fun, T) = Step(fun[x], Over(base, fun, T \ {x}))

\* When op commutes, the fold is one step more than the fold without any one element.
LEMMA FoldWithElement ==
    ASSUME NEW D, NEW A, Commutes(D, A), NEW base \in A, NEW T, IsFiniteSet(T),
           NEW fun, \A x \in T : fun[x] \in D
    PROVE  Over(base, fun, T) \in A /\ OneByOne(base, fun, T)
<1> DEFINE F(s) == Over(base, fun, s)
           Right(s) == F(s) \in A /\ \A x \in s : F(s) = Step(fun[x], F(s \ {x}))
           N == {n \in Nat : \A s \in SUBSET T : Cardinality(s) <= n => Right(s)}
<1>1. \A s \in SUBSET T : IsFiniteSet(s) /\ Cardinality(s) \in Nat
  BY FS_Subset, FS_CardinalityType
<1>2. Right({})
  BY FoldOfEmpty
<1> HIDE DEF F
<1>3. 0 \in N
  <2>1. ASSUME NEW s \in SUBSET T, Cardinality(s) <= 0 PROVE s = {}
    <3>1. Cardinality(s) = 0
      BY <1>1, <2>1
    <3> QED
      BY <1>1, <3>1, FS_EmptySet
  <2> QED
    BY <1>2, <2>1
<1>4. ASSUME NEW n \in Nat, n \in N PROVE n + 1 \in N
  <2> SUFFICES ASSUME NEW s \in SUBSET T, Cardinality(s) <= n + 1, s # {} PROVE Right(s)
    BY <1>2
  <2> DEFINE c == Chosen(s)
  <2>1. c \in s
    BY DEF Chosen
  <2>2. F(s) = Step(fun[c], F(s \ {c}))
    BY <1>1, FoldOfChosen DEF F
  <2> HIDE DEF c
  <2>3. \A x \in s : s \ {x} \in SUBSET T /\ Cardinality(s \ {x}) <= n
    <3> SUFFICES ASSUME NEW x \in s PROVE Cardinality(s \ {x}) <= n
      OBVIOUS
    <3>1. Cardinality(s \ {x}) = Cardinality(s) - 1
      BY <1>1, FS_RemoveElement
    <3> QED
      BY <1>1, <3>1
  <2>4. \A x \in s : Right(s \ {x})
    BY <1>4, <2>3
  <2>5. F(s) \in A
    BY <2>1, <2>2, <2>4 DEF Commutes
  <2>6. ASSUME NEW x \in s PROVE F(s) = Step(fun[x], F(s \ {x}))
    <3>1. CASE x = c
      BY <2>2, <3>1
    <3>2. CASE x # c
      <4> DEFINE u == (s \ {c}) \ {x}
      <4>1. u = (s \ {x}) \ {c} /\ x \in s \ {c} /\ c \in s \ {x}
        BY <2>1, <3>2
      <4>2. F(s \ {c}) = Step(fun[x], F(u))
        BY <2>1, <2>4, <4>1
      <4>3. F(s \ {x}) = Step(fun[c], F(u))
        BY <2>4, <4>1
      <4>4. F(u) \in A
        <5>1. u \in SUBSET T /\ Cardinality(u) <= Cardinality(s \ {c})
          BY <1>1, <2>1, <2>3, FS_Subset
        <5>2. Cardinality(u) <= n
          BY <1>1, <2>1, <2>3, <5>1
        <5> QED
          BY <1>4, <5>1, <5>2
      <4> HIDE DEF u
      <4> QED
        BY <2>1, <2>2, <4>2, <4>3, <4>4 DEF Commutes
    <3> QED
      BY <3>1, <3>2
  <2> QED
    BY <2>5, <2>6
<1> HIDE DEF N
<1>5. Cardinality(T) \in N
  BY <1>1, <1>3, <1>4, Induction
<1>6. T \in SUBSET T /\ Cardinality(T) <= Cardinality(T)
  BY <1>1
<1>7. Right(T)
  BY <1>5, <1>6 DEF N
<1> QED
  BY <1>7 DEF F, OneByOne

\* Only the values on the set matter.
LEMMA FoldOfEqual ==
    ASSUME NEW base, NEW T, IsFiniteSet(T), NEW fun, NEW gun, \A x \in T : fun[x] = gun[x]
    PROVE  Over(base, fun, T) = Over(base, gun, T)
<1>1. PICK f : Gathering(f, base, fun, T) /\ Over(base, fun, T) = f[T]
  BY GatheredBy
<1>2. PICK g : Gathering(g, base, gun, T) /\ Over(base, gun, T) = g[T]
  BY GatheredBy
<1>3. \A s \in SUBSET T : s # {} => fun[Chosen(s)] = gun[Chosen(s)]
  BY DEF Chosen
<1>4. Gathering(g, base, fun, T)
  BY <1>2, <1>3 DEF Gathering
<1>5. f[T] = g[T]
  BY <1>1, <1>4, GatheringsAgree
<1> QED
  BY <1>1, <1>2, <1>5

\* FoldSet is the fold of the identity.
LEMMA FoldSetIs ==
    ASSUME NEW base, NEW T, IsFiniteSet(T)
    PROVE  OfSet(base, T) = Over(base, [x \in T |-> x], T)
<1> DEFINE Id == [x \in T |-> x]
           Direct(f) == f = [s \in SUBSET T |->
                               IF s = {} THEN base ELSE Step(Chosen(s), f[s \ {Chosen(s)}])]
           f == CHOOSE f : Direct(f)
<1>1. \A s \in SUBSET T : s # {} => Id[Chosen(s)] = Chosen(s)
  BY DEF Chosen
<1> HIDE DEF Id
<1>2. PICK g : Gathering(g, base, Id, T) /\ Over(base, Id, T) = g[T]
  BY GatheredBy
<1>3. Direct(g)
  BY <1>1, <1>2 DEF Gathering
<1>4. OfSet(base, T) = f[T]
  BY DEF OfSet, FoldSet, MapThenFoldSet, Chosen, Step
<1>5. Direct(f)
  <2> HIDE DEF Direct
  <2> QED
    BY <1>3
<1> HIDE DEF f
<1>6. Gathering(f, base, Id, T)
  BY <1>1, <1>5 DEF Gathering
<1>7. f[T] = g[T]
  BY <1>2, <1>6, GatheringsAgree
<1> QED
  BY <1>2, <1>4, <1>7 DEF Id

\* The same for FoldSet.
LEMMA FoldSetWithElement ==
    ASSUME NEW D, NEW A, Commutes(D, A), NEW base \in A, NEW T, IsFiniteSet(T), T \subseteq D
    PROVE  /\ OfSet(base, {}) = base
           /\ OfSet(base, T) \in A
           /\ \A x \in T : OfSet(base, T) = Step(x, OfSet(base, T \ {x}))
<1> DEFINE Id == [x \in T |-> x]
           F(s) == Over(base, Id, s)
<1>1. \A x \in T : Id[x] \in D
  OBVIOUS
<1>2. ASSUME NEW s \in SUBSET T PROVE OfSet(base, s) = F(s)
  <2> DEFINE Own == [x \in s |-> x]
  <2>1. IsFiniteSet(s)
    BY FS_Subset
  <2>2. \A x \in s : Own[x] = Id[x]
    OBVIOUS
  <2>3. OfSet(base, s) = Over(base, Own, s)
    BY <2>1, FoldSetIs
  <2> HIDE DEF Own, Id
  <2>4. Over(base, Own, s) = Over(base, Id, s)
    BY <2>1, <2>2, FoldOfEqual
  <2> QED
    BY <2>3, <2>4
<1>3. F({}) = base
  BY FoldOfEmpty
<1>4. F(T) \in A /\ \A x \in T : F(T) = Step(Id[x], F(T \ {x}))
  <2> HIDE DEF Id
  <2>1. Over(base, Id, T) \in A /\ OneByOne(base, Id, T)
    BY ONLY <1>1, FoldWithElement, Commutes(D, A), base \in A, IsFiniteSet(T)
  <2> QED
    BY <2>1 DEF OneByOne
<1>5. \A x \in T : T \ {x} \in SUBSET T
  OBVIOUS
<1> HIDE DEF F
<1> QED
  BY <1>2, <1>3, <1>4, <1>5

\* FoldSeq is the fold over the indices.
LEMMA FoldSeqIs ==
    ASSUME NEW base, NEW seq PROVE OfSeq(base, seq) = Over(base, seq, DOMAIN seq)
BY DEF OfSeq, Over, FoldSeq, FoldFunction
=============================================================================
