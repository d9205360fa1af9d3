------------------------------- MODULE DataFacts -------------------------------
(***************************************************************************)
(* Facts about data that the other proofs rest on, whatever the data are.  *)
(*                                                                         *)
(* What appending to a FIFO and taking from it do to its length and its    *)
(* elements: the queues between the threads of the runner carry batches    *)
(* whose parts (offsets, sampled tokens) are computed by sums over a       *)
(* batch, and nothing here depends on them.                                *)
(*                                                                         *)
(* What a sum over a finite set is: the folds of the community modules     *)
(* choose a function that satisfies a recursion.  SumExists and SumUnique  *)
(* show, by induction on the cardinality, that there is exactly one, and   *)
(* SumFacts what an element adds to it.  The induction itself (LeastOf,    *)
(* SetInduction) rests on the order of the naturals being well founded.    *)
(***************************************************************************)
EXTENDS Integers, Sequences, SequencesExt, SequenceTheorems, FiniteSetTheorems,
        TLAPS

Sequence(s) == s \in Seq(ToSet(s))

\* A sequence over any set is a sequence over its own elements.
LEMMA SequenceOver ==
  ASSUME NEW S, NEW s \in Seq(S)
  PROVE  Sequence(s)
<1>1. s \in [1..Len(s) -> S] /\ Len(s) \in Nat /\ DOMAIN s = 1..Len(s)
  BY LenProperties
<1>2. s \in [1..Len(s) -> ToSet(s)]
  BY <1>1 DEF ToSet
<1> QED BY <1>1, <1>2, SeqDef DEF Sequence

\* The indices of a sequence, and the empty one.
LEMMA SequenceLen ==
  ASSUME NEW s, Sequence(s)
  PROVE  /\ Len(s) \in Nat
         /\ DOMAIN s = 1..Len(s)
         /\ s = <<>> <=> Len(s) = 0
<1>1. Len(s) \in Nat /\ DOMAIN s = 1..Len(s)
  BY LenProperties DEF Sequence
<1>2. s # <<>> => Len(s) \in Nat \ {0}
  BY EmptySeq DEF Sequence
<1>3. Len(<<>>) = 0
  BY EmptySeq
<1> QED BY <1>1, <1>2, <1>3

\* The empty sequence is one.
LEMMA SequenceEmpty == Sequence(<<>>) /\ Len(<<>>) = 0 /\ DOMAIN <<>> = {}
<1>1. <<>> \in Seq({}) /\ Len(<<>>) = 0
  BY EmptySeq
<1>2. Sequence(<<>>)
  BY <1>1, SequenceOver
<1>3. DOMAIN <<>> = 1..0
  BY <1>1, <1>2, SequenceLen
<1>4. 1..0 = {}
  OBVIOUS
<1> QED BY <1>1, <1>2, <1>3, <1>4

\* Append leaves every element where it was and adds one behind.
LEMMA SequenceAppend ==
  ASSUME NEW s, NEW x, Sequence(s)
  PROVE  /\ Sequence(Append(s, x))
         /\ Append(s, x) # <<>>
         /\ Len(Append(s, x)) = Len(s) + 1
         /\ DOMAIN Append(s, x) = 1..(Len(s) + 1)
         /\ \A i \in 1..Len(s) : Append(s, x)[i] = s[i]
         /\ Append(s, x)[Len(s) + 1] = x
<1> DEFINE S == ToSet(s) \cup {x}
<1>1. s \in Seq(S) /\ x \in S
  BY SeqMonotonic DEF Sequence
<1> HIDE DEF S
<1>2. /\ Append(s, x) \in Seq(S)
      /\ Append(s, x) # <<>>
      /\ Len(Append(s, x)) = Len(s) + 1
      /\ \A i \in 1..Len(s) : Append(s, x)[i] = s[i]
      /\ Append(s, x)[Len(s) + 1] = x
  BY <1>1, AppendProperties
<1>3. Sequence(Append(s, x))
  BY <1>2, SequenceOver
<1> QED BY <1>2, <1>3, SequenceLen

\* Tail takes the first element away and moves every other one up.
LEMMA SequenceTail ==
  ASSUME NEW s, Sequence(s), s # <<>>
  PROVE  /\ Sequence(Tail(s))
         /\ Len(s) > 0
         /\ Len(Tail(s)) = Len(s) - 1
         /\ DOMAIN Tail(s) = 1..(Len(s) - 1)
         /\ \A i \in 1..(Len(s) - 1) : Tail(s)[i] = s[i + 1]
         /\ Head(s) = s[1]
<1>1. /\ Tail(s) \in Seq(ToSet(s))
      /\ Len(Tail(s)) = Len(s) - 1
      /\ \A i \in 1..Len(Tail(s)) : Tail(s)[i] = s[i + 1]
  BY HeadTailProperties DEF Sequence
<1>2. Sequence(Tail(s))
  BY <1>1, SequenceOver
<1>3. Len(s) > 0 /\ DOMAIN Tail(s) = 1..(Len(s) - 1)
  BY <1>1, <1>2, SequenceLen
<1> QED BY <1>1, <1>2, <1>3

\* The elements of a sequence after an append: x as well, and still each once.
LEMMA SequenceAppendSet ==
  ASSUME NEW s, NEW x, Sequence(s)
  PROVE  /\ ToSet(Append(s, x)) = ToSet(s) \cup {x}
         /\ IsInjective(s) /\ x \notin ToSet(s) => IsInjective(Append(s, x))
<1> DEFINE n == Len(s)
           a == Append(s, x)
<1>1. n \in Nat /\ DOMAIN s = 1..n
  BY SequenceLen
<1>2. /\ DOMAIN a = 1..(n + 1)
      /\ \A i \in 1..n : a[i] = s[i]
      /\ a[n + 1] = x
  BY SequenceAppend
<1> HIDE DEF a, n
<1>3. ToSet(a) = ToSet(s) \cup {x}
  BY <1>1, <1>2 DEF ToSet
<1>4. ASSUME IsInjective(s), x \notin ToSet(s) PROVE IsInjective(a)
  BY <1>1, <1>2, <1>4 DEF ToSet, IsInjective
<1> QED BY <1>3, <1>4 DEF a

\* The elements of a sequence without its first, when each is there once.
LEMMA SequenceTailSet ==
  ASSUME NEW s, Sequence(s), s # <<>>, IsInjective(s)
  PROVE  /\ ToSet(Tail(s)) = ToSet(s) \ {Head(s)}
         /\ Head(s) \in ToSet(s)
         /\ IsInjective(Tail(s))
<1> DEFINE n == Len(s)
           t == Tail(s)
<1>1. n \in Nat /\ DOMAIN s = 1..n
  BY SequenceLen
<1>2. /\ DOMAIN t = 1..(n - 1) /\ n > 0
      /\ \A i \in 1..(n - 1) : t[i] = s[i + 1]
      /\ Head(s) = s[1]
  BY SequenceTail
<1> HIDE DEF t, n
<1>3. \A i \in 1..(n - 1) : i + 1 \in 1..n /\ i + 1 # 1
  BY <1>1
<1>4. \A i \in 2..n : i - 1 \in 1..(n - 1) /\ (i - 1) + 1 = i
  BY <1>1
<1>5. Head(s) \in ToSet(s)
  <2>1. 1 \in DOMAIN s
    BY <1>1, <1>2
  <2> QED BY <2>1, <1>2, Zenon DEF ToSet
<1>6. ASSUME NEW y \in ToSet(t) PROVE y \in ToSet(s) \ {Head(s)}
  <2>1. PICK i \in 1..(n - 1) : y = s[i + 1]
    BY <1>2 DEF ToSet
  <2>2. s[i + 1] # s[1]
    BY <1>1, <1>2, <1>3 DEF IsInjective
  <2> QED BY <2>1, <2>2, <1>1, <1>2, <1>3 DEF ToSet
<1>7. ASSUME NEW y \in ToSet(s) \ {Head(s)} PROVE y \in ToSet(t)
  <2>1. PICK i \in 1..n : y = s[i] /\ i # 1
    BY <1>1, <1>2 DEF ToSet
  <2>2. i - 1 \in 1..(n - 1) /\ y = t[i - 1]
    BY <1>1, <1>2, <1>4, <2>1
  <2> QED BY <2>2, <1>2 DEF ToSet
<1>8. IsInjective(t)
  <2> SUFFICES ASSUME NEW i \in 1..(n - 1), NEW j \in 1..(n - 1), t[i] = t[j]
               PROVE  i = j
    BY <1>2 DEF IsInjective
  <2>1. s[i + 1] = s[j + 1] /\ i + 1 \in 1..n /\ j + 1 \in 1..n
    BY <1>2, <1>3
  <2>2. i + 1 = j + 1
    BY <2>1, <1>1 DEF IsInjective
  <2> QED BY <2>2
<1> QED BY <1>5, <1>6, <1>7, <1>8 DEF t

\* A function on 1..n is a sequence of n elements.
LEMMA SequenceOfFunction ==
  ASSUME NEW n \in Nat, NEW f, f = [i \in 1..n |-> f[i]]
  PROVE  Sequence(f) /\ Len(f) = n
<1> DEFINE S == {f[i] : i \in 1..n}
<1>1. f \in [1..n -> S]
  OBVIOUS
<1> HIDE DEF S
<1>2. f \in Seq(S)
  BY <1>1, SeqDef
<1>3. Len(f) = n
  BY <1>1, <1>2, LenProperties
<1> QED BY <1>2, <1>3, SequenceOver

\* Two sequences with the same elements in the same order are one.
LEMMA SequenceEqual ==
  ASSUME NEW s, NEW t, Sequence(s), Sequence(t), Len(s) = Len(t),
         \A i \in 1..Len(s) : s[i] = t[i]
  PROVE  s = t
<1> DEFINE S == ToSet(s) \cup ToSet(t)
<1>1. s \in Seq(S) /\ t \in Seq(S)
  BY SeqMonotonic DEF Sequence
<1> HIDE DEF S
<1> QED BY <1>1, SeqEqual

\* The elements of two sequences in a row.
LEMMA SequenceConcat ==
  ASSUME NEW s, NEW t, Sequence(s), Sequence(t)
  PROVE  /\ Sequence(s \o t)
         /\ Len(s \o t) = Len(s) + Len(t)
         /\ \A i \in 1..(Len(s) + Len(t)) :
              (s \o t)[i] = IF i <= Len(s) THEN s[i] ELSE t[i - Len(s)]
<1> DEFINE S == ToSet(s) \cup ToSet(t)
<1>1. s \in Seq(S) /\ t \in Seq(S)
  BY SeqMonotonic DEF Sequence
<1> HIDE DEF S
<1>2. /\ s \o t \in Seq(S)
      /\ Len(s \o t) = Len(s) + Len(t)
      /\ \A i \in 1..(Len(s) + Len(t)) :
           (s \o t)[i] = IF i <= Len(s) THEN s[i] ELSE t[i - Len(s)]
  BY <1>1, ConcatProperties
<1> QED BY <1>2, SequenceOver

\* A sequence that goes on where another ends begins with it.
LEMMA SequencePrefix ==
  ASSUME NEW s, NEW t, Sequence(s), Sequence(t), Len(t) = Len(s) + 1,
         \A i \in 1..Len(s) : t[i] = s[i]
  PROVE  SubSeq(t, 1, Len(s)) = s
<1>0. PICK n : n = Len(s)
  OBVIOUS
<1>1. n \in Nat /\ \A i \in 1..n : t[i] \in ToSet(s)
  BY <1>0, SequenceLen DEF ToSet
<1>2. /\ SubSeq(t, 1, n) \in Seq(ToSet(s))
      /\ Len(SubSeq(t, 1, n)) = IF 1 <= n THEN n - 1 + 1 ELSE 0
      /\ \A i \in 1..(n - 1 + 1) : SubSeq(t, 1, n)[i] = t[1 + i - 1]
  BY <1>1, SubSeqProperties
<1>3. Len(SubSeq(t, 1, n)) = n /\ \A i \in 1..n : SubSeq(t, 1, n)[i] = s[i]
  BY <1>0, <1>1, <1>2
<1>4. Sequence(SubSeq(t, 1, n))
  BY <1>2, SequenceOver
<1> QED BY <1>0, <1>3, <1>4, SequenceEqual

\* A sequence of what follows another's first element is its tail.
LEMMA SequenceRest ==
  ASSUME NEW s, NEW t, Sequence(s), s # <<>>, Sequence(t), Len(t) = Len(s) - 1,
         \A i \in 1..(Len(s) - 1) : t[i] = s[i + 1]
  PROVE  t = Tail(s)
<1>1. /\ Sequence(Tail(s)) /\ Len(Tail(s)) = Len(s) - 1
      /\ \A i \in 1..(Len(s) - 1) : Tail(s)[i] = s[i + 1]
  BY SequenceTail
<1> QED BY <1>1, SequenceEqual
-----------------------------------------------------------------------------

\* The least element of a set of numbers.
LEMMA LeastOf ==
  ASSUME NEW T, T \subseteq Nat, T # {}
  PROVE  \E n \in T : \A m \in T : n <= m
<1> DEFINE R == {ss \in Nat \X Nat : ss[1] < ss[2]}
<1>1. IsWellFoundedOn(R, Nat)
  BY NatLessThanWellFounded DEF OpToRel
<1>2. \E x \in T : \A y \in T : ~(<<y, x>> \in R)
  <2> HIDE DEF R
  <2> QED BY <1>1, WFMin
<1>3. PICK x \in T : \A y \in T : ~(<<y, x>> \in R)
  BY <1>2
<1>4. ASSUME NEW y \in T PROVE x <= y
  <2>1. x \in Nat /\ y \in Nat
    OBVIOUS
  <2>2. <<y, x>>[1] = y /\ <<y, x>>[2] = x /\ <<y, x>> \in Nat \X Nat
    BY <2>1
  <2>3. ~(<<y, x>>[1] < <<y, x>>[2])
    BY <1>3, <2>2, Zenon
  <2> QED BY <2>1, <2>2, <2>3
<1> QED BY <1>4

\* Induction, for what can be said as membership in a set.
LEMMA SetInduction ==
  ASSUME NEW S, 0 \in S, \A n \in Nat : n \in S => n + 1 \in S
  PROVE  Nat \subseteq S
<1> SUFFICES ASSUME Nat \ S # {} PROVE FALSE
  OBVIOUS
<1>1. PICK n \in Nat \ S : \A m \in Nat \ S : n <= m
  BY LeastOf
<1>2. n # 0 /\ n - 1 \in Nat
  OBVIOUS
<1>3. n - 1 \in S
  BY <1>1, <1>2
<1> QED BY <1>2, <1>3

SomeOf(s) == CHOOSE x \in s : TRUE

\* f is the sum of w over each subset of S, added up in the order of the fold.
IsSum(f, w, S) ==
  \A s \in SUBSET S :
    f[s] = IF s = {} THEN 0 ELSE w[SomeOf(s)] + f[s \ {SomeOf(s)}]

\* An element adds its own, whenever it is added.
AddsUp(f, w, S) ==
  \A s \in SUBSET S : \A a \in S \ s : f[s \cup {a}] = f[s] + w[a]

\* The element taken first.
LEMMA TakeSome ==
  ASSUME NEW s, IsFiniteSet(s), s # {}
  PROVE  /\ SomeOf(s) \in s
         /\ IsFiniteSet(s \ {SomeOf(s)})
         /\ Cardinality(s) \in Nat /\ Cardinality(s \ {SomeOf(s)}) \in Nat
         /\ Cardinality(s) = Cardinality(s \ {SomeOf(s)}) + 1
<1>1. SomeOf(s) \in s
  BY DEF SomeOf
<1>2. /\ IsFiniteSet(s \ {SomeOf(s)})
      /\ Cardinality(s \ {SomeOf(s)}) = Cardinality(s) - 1
  BY <1>1, FS_RemoveElement
<1>3. Cardinality(s) \in Nat /\ Cardinality(s \ {SomeOf(s)}) \in Nat
  BY <1>2, FS_CardinalityType
<1> QED BY <1>1, <1>2, <1>3

\* There is such a function.
LEMMA SumExists ==
  ASSUME NEW S, IsFiniteSet(S), NEW w, \A x \in S : w[x] \in Nat
  PROVE  \E f \in [SUBSET S -> Nat] : IsSum(f, w, S)
<1> DEFINE Upto(f, n) ==
             \A s \in SUBSET S : Cardinality(s) <= n =>
               f[s] = IF s = {} THEN 0 ELSE w[SomeOf(s)] + f[s \ {SomeOf(s)}]
           N == {n \in Nat : \E f \in [SUBSET S -> Nat] : Upto(f, n)}
<1>1. \A s \in SUBSET S : IsFiniteSet(s) /\ Cardinality(s) \in Nat
                            /\ Cardinality(s) <= Cardinality(S)
  BY FS_Subset, FS_CardinalityType
<1>2. 0 \in N
  <2> DEFINE f == [s \in SUBSET S |-> 0]
  <2>1. f \in [SUBSET S -> Nat]
    OBVIOUS
  <2>2. Upto(f, 0)
    <3> SUFFICES ASSUME NEW s \in SUBSET S, Cardinality(s) <= 0
                 PROVE  s = {} /\ f[s] = 0
      OBVIOUS
    <3>1. Cardinality(s) = 0
      BY <1>1
    <3> QED BY <1>1, <3>1, FS_EmptySet
  <2> HIDE DEF f
  <2> QED BY <2>1, <2>2
<1>3. ASSUME NEW n \in Nat, n \in N PROVE n + 1 \in N
  <2>1. PICK f \in [SUBSET S -> Nat] : Upto(f, n)
    BY <1>3
  <2> DEFINE g == [s \in SUBSET S |->
                     IF s = {} \/ Cardinality(s) <= n THEN f[s]
                     ELSE w[SomeOf(s)] + f[s \ {SomeOf(s)}]]
  <2>2. ASSUME NEW s \in SUBSET S, s # {}
        PROVE  /\ SomeOf(s) \in S /\ s \ {SomeOf(s)} \in SUBSET S
               /\ Cardinality(s) = Cardinality(s \ {SomeOf(s)}) + 1
               /\ w[SomeOf(s)] + f[s \ {SomeOf(s)}] \in Nat
    <3>1. SomeOf(s) \in s /\ Cardinality(s) = Cardinality(s \ {SomeOf(s)}) + 1
      BY <2>2, <1>1, TakeSome
    <3>2. SomeOf(s) \in S /\ s \ {SomeOf(s)} \in SUBSET S
      BY <3>1
    <3>3. w[SomeOf(s)] \in Nat /\ f[s \ {SomeOf(s)}] \in Nat
      BY <3>2
    <3> QED BY <3>1, <3>2, <3>3
  <2>3. g \in [SUBSET S -> Nat]
    <3>1. ASSUME NEW s \in SUBSET S
          PROVE (IF s = {} \/ Cardinality(s) <= n THEN f[s]
                     ELSE w[SomeOf(s)] + f[s \ {SomeOf(s)}]) \in Nat
      BY <2>2
    <3> QED BY <3>1
  <2>4. \A s \in SUBSET S :
          g[s] = IF s = {} \/ Cardinality(s) <= n THEN f[s]
                 ELSE w[SomeOf(s)] + f[s \ {SomeOf(s)}]
    OBVIOUS
  <2> HIDE DEF g
  <2>5. Upto(g, n + 1)
    <3> SUFFICES ASSUME NEW s \in SUBSET S, Cardinality(s) <= n + 1
                 PROVE  g[s] = IF s = {} THEN 0
                               ELSE w[SomeOf(s)] + g[s \ {SomeOf(s)}]
      OBVIOUS
    <3>1. CASE s = {}
      <4>1. Cardinality(s) <= n
        BY <3>1, FS_EmptySet
      <4>2. f[s] = 0
        BY <3>1, <4>1, <2>1
      <4> QED BY <2>4, <3>1, <4>2
    <3>2. CASE s # {}
      <4> DEFINE t == s \ {SomeOf(s)}
      <4>1. t \in SUBSET S /\ Cardinality(s) = Cardinality(t) + 1
        BY <2>2, <3>2
      <4>2. Cardinality(t) \in Nat /\ Cardinality(t) <= n
        BY <1>1, <4>1
      <4>3. g[t] = f[t]
        BY <2>4, <4>1, <4>2
      <4>4. g[s] = w[SomeOf(s)] + f[t]
        <5>1. CASE Cardinality(s) <= n
          BY <5>1, <2>1, <2>4, <3>2
        <5>2. CASE ~(Cardinality(s) <= n)
          BY <5>2, <2>4, <3>2
        <5> QED BY <5>1, <5>2
      <4> QED BY <3>2, <4>3, <4>4
    <3> QED BY <3>1, <3>2
  <2> HIDE DEF Upto
  <2>6. \E h \in [SUBSET S -> Nat] : Upto(h, n + 1)
    BY <2>3, <2>5
  <2> QED BY <2>6
<1> HIDE DEF N
<1>4. Cardinality(S) \in N
  BY <1>1, <1>2, <1>3, SetInduction, FS_CardinalityType
<1>5. PICK f \in [SUBSET S -> Nat] : Upto(f, Cardinality(S))
  BY <1>4 DEF N
<1>6. IsSum(f, w, S)
  BY <1>1, <1>5 DEF IsSum
<1> QED BY <1>6

\* And only one.
LEMMA SumUnique ==
  ASSUME NEW S, IsFiniteSet(S), NEW w, NEW f, NEW g,
         IsSum(f, w, S), IsSum(g, w, S)
  PROVE  \A s \in SUBSET S : f[s] = g[s]
<1> DEFINE N == {n \in Nat : \A s \in SUBSET S : Cardinality(s) = n => f[s] = g[s]}
<1>1. \A s \in SUBSET S : IsFiniteSet(s) /\ Cardinality(s) \in Nat
  BY FS_Subset, FS_CardinalityType
<1>2. 0 \in N
  <2> SUFFICES ASSUME NEW s \in SUBSET S, Cardinality(s) = 0 PROVE f[s] = g[s]
    OBVIOUS
  <2>1. s = {}
    BY <1>1, FS_EmptySet
  <2> QED BY <2>1 DEF IsSum
<1>3. ASSUME NEW n \in Nat, n \in N PROVE n + 1 \in N
  <2> SUFFICES ASSUME NEW s \in SUBSET S, Cardinality(s) = n + 1
               PROVE  f[s] = g[s]
    OBVIOUS
  <2> DEFINE t == s \ {SomeOf(s)}
  <2>1. s # {}
    BY FS_EmptySet
  <2>2. /\ SomeOf(s) \in s
        /\ Cardinality(s) = Cardinality(t) + 1 /\ Cardinality(t) \in Nat
    BY <1>1, <2>1, TakeSome
  <2>3. t \in SUBSET S /\ Cardinality(t) = n
    BY <2>2
  <2>4. f[t] = g[t]
    BY <1>3, <2>3
  <2> QED BY <2>1, <2>4 DEF IsSum
<1> HIDE DEF N
<1>4. \A n \in Nat : n \in N
  BY <1>2, <1>3, SetInduction
<1> QED BY <1>1, <1>4 DEF N

\* What SumFunctionOnSet is.
LEMMA SumIs ==
  ASSUME NEW S, IsFiniteSet(S), NEW w, \A x \in S : w[x] \in Nat, NEW g,
         IsSum(g, w, S)
  PROVE  SumFunctionOnSet(w, S) = g[S]
<1> DEFINE Body(f) == [s \in SUBSET S |-> IF s = {} THEN 0
                         ELSE w[CHOOSE x \in s : TRUE]
                                + f[s \ {CHOOSE x \in s : TRUE}]]
           it == CHOOSE f : f = Body(f)
<1>1. SumFunctionOnSet(w, S) = it[S]
  BY DEF SumFunctionOnSet, FoldFunctionOnSet, MapThenFoldSet
<1>2. PICK f \in [SUBSET S -> Nat] : IsSum(f, w, S)
  BY SumExists
<1>3. f = Body(f)
  BY <1>2 DEF IsSum, SomeOf
<1>4. it = Body(it)
  <2> HIDE DEF Body
  <2> QED BY <1>3
<1>5. IsSum(it, w, S)
  <2> HIDE DEF it
  <2>1. it = [s \in SUBSET S |-> IF s = {} THEN 0
                         ELSE w[SomeOf(s)] + it[s \ {SomeOf(s)}]]
    BY <1>4 DEF SomeOf
  <2> QED BY <2>1 DEF IsSum
<1> HIDE DEF it
<1> QED BY <1>1, <1>5, SumUnique

\* The order does not matter.
LEMMA SumAddTo ==
  ASSUME NEW S, IsFiniteSet(S), NEW w, \A x \in S : w[x] \in Nat,
         NEW f, \A s \in SUBSET S : f[s] \in Nat, IsSum(f, w, S)
  PROVE  AddsUp(f, w, S)
<1> DEFINE N == {n \in Nat : \A s \in SUBSET S : Cardinality(s) = n =>
                   \A a \in S \ s : f[s \cup {a}] = f[s] + w[a]}
<1>1. \A s \in SUBSET S : IsFiniteSet(s) /\ Cardinality(s) \in Nat
  BY FS_Subset, FS_CardinalityType
<1>2. ASSUME NEW n \in Nat, \A m \in 0..(n - 1) : m \in N
      PROVE  n \in N
  <2> SUFFICES ASSUME NEW s \in SUBSET S, Cardinality(s) = n, NEW a \in S \ s
               PROVE  f[s \cup {a}] = f[s] + w[a]
    OBVIOUS
  <2> DEFINE t == s \cup {a}
             x == SomeOf(t)
  <2>1. t \in SUBSET S /\ t # {}
    OBVIOUS
  <2>2. x \in t
    BY <1>1, <2>1, TakeSome
  <2>3. f[t] = w[x] + f[t \ {x}]
    BY <2>1 DEF IsSum
  <2> HIDE DEF x
  <2>4. CASE x = a
    <3>1. t \ {x} = s
      BY <2>4
    <3>2. f[s] \in Nat /\ w[a] \in Nat
      OBVIOUS
    <3>3. f[t] = w[a] + f[s]
      <4> HIDE DEF t
      <4> QED BY <2>3, <2>4, <3>1
    <3> QED BY <3>2, <3>3
  <2>5. CASE x # a
    <3> DEFINE u == s \ {x}
    <3>1. x \in s /\ t \ {x} = u \cup {a} /\ s = u \cup {x}
      BY <2>2, <2>5
    <3>2. u \in SUBSET S /\ a \in S \ u /\ x \in S \ u
      BY <3>1
    <3>3. Cardinality(u) \in 0..(n - 1)
      <4>1. Cardinality(u) = n - 1
        BY <1>1, <3>1, FS_RemoveElement
      <4>2. Cardinality(u) \in Nat
        BY <1>1, <3>2
      <4> QED BY <4>1, <4>2
    <3> HIDE DEF u
    <3>4. Cardinality(u) \in N
      BY <1>2, <3>3
    <3>5. f[u \cup {a}] = f[u] + w[a] /\ f[u \cup {x}] = f[u] + w[x]
      BY <3>2, <3>4
    <3>6. f[u] \in Nat /\ w[a] \in Nat /\ w[x] \in Nat
      BY <3>2
    <3>7. f[t] = w[x] + (f[u] + w[a]) /\ f[s] = f[u] + w[x]
      BY <2>3, <3>1, <3>5
    <3> QED BY <3>6, <3>7
  <2> QED BY <2>4, <2>5
<1> HIDE DEF N
<1>3. \A n \in Nat : n \in N
  <2> SUFFICES ASSUME Nat \ N # {} PROVE FALSE
    OBVIOUS
  <2>1. PICK n \in Nat \ N : \A m \in Nat \ N : n <= m
    BY LeastOf
  <2>2. \A m \in 0..(n - 1) : m \in N
    BY <2>1
  <2> QED BY <1>2, <2>2
<1> QED BY <1>1, <1>3 DEF N, AddsUp

\* Sums over a finite set.
LEMMA SumFacts ==
  ASSUME NEW S, IsFiniteSet(S), NEW w, \A x \in S : w[x] \in Nat
  PROVE  /\ SumFunctionOnSet(w, {}) = 0
         /\ \A s \in SUBSET S : SumFunctionOnSet(w, s) \in Nat
         /\ \A s \in SUBSET S : \A a \in S \ s :
              SumFunctionOnSet(w, s \cup {a}) = SumFunctionOnSet(w, s) + w[a]
<1>1. PICK f \in [SUBSET S -> Nat] : IsSum(f, w, S)
  BY SumExists
<1>2. ASSUME NEW s \in SUBSET S PROVE SumFunctionOnSet(w, s) = f[s]
  <2>1. IsFiniteSet(s) /\ IsSum(f, w, s) /\ \A x \in s : w[x] \in Nat
    BY <1>1, FS_Subset DEF IsSum
  <2> QED BY <2>1, SumIs
<1>3. f[{}] = 0
  BY <1>1 DEF IsSum
<1>4. \A s \in SUBSET S : f[s] \in Nat
  OBVIOUS
<1>5. AddsUp(f, w, S)
  BY <1>1, <1>4, SumAddTo
<1>6. SumFunctionOnSet(w, {}) = 0
  BY <1>2, <1>3
<1>7. ASSUME NEW s \in SUBSET S, NEW a \in S \ s
      PROVE SumFunctionOnSet(w, s \cup {a}) = SumFunctionOnSet(w, s) + w[a]
  <2>1. s \cup {a} \in SUBSET S
    OBVIOUS
  <2> QED BY <1>2, <1>5, <2>1 DEF AddsUp
<1> QED BY <1>2, <1>4, <1>6, <1>7

\* More terms, no smaller sum.
LEMMA SumMonotone ==
  ASSUME NEW S, IsFiniteSet(S), NEW w, \A x \in S : w[x] \in Nat
  PROVE  \A t \in SUBSET S : \A s \in SUBSET t :
           SumFunctionOnSet(w, s) <= SumFunctionOnSet(w, t)
<1> DEFINE N == {n \in Nat : \A t \in SUBSET S : \A s \in SUBSET t :
                   Cardinality(t \ s) = n =>
                     SumFunctionOnSet(w, s) <= SumFunctionOnSet(w, t)}
<1>1. \A s \in SUBSET S : SumFunctionOnSet(w, s) \in Nat
  BY SumFacts
<1>2. \A t \in SUBSET S : IsFiniteSet(t) /\ Cardinality(t) \in Nat
  BY FS_Subset, FS_CardinalityType
<1>3. 0 \in N
  <2> SUFFICES ASSUME NEW t \in SUBSET S, NEW s \in SUBSET t, Cardinality(t \ s) = 0
               PROVE  SumFunctionOnSet(w, s) <= SumFunctionOnSet(w, t)
    OBVIOUS
  <2>1. t \ s = {}
    BY <1>2, FS_EmptySet
  <2>2. s = t
    BY <2>1
  <2> QED BY <1>1, <2>2
<1>4. ASSUME NEW n \in Nat, n \in N PROVE n + 1 \in N
  <2> SUFFICES ASSUME NEW t \in SUBSET S, NEW s \in SUBSET t,
                      Cardinality(t \ s) = n + 1
               PROVE  SumFunctionOnSet(w, s) <= SumFunctionOnSet(w, t)
    OBVIOUS
  <2>1. IsFiniteSet(t \ s) /\ t \ s # {}
    BY <1>2, FS_EmptySet
  <2>2. PICK a \in t \ s : TRUE
    BY <2>1
  <2> DEFINE u == t \ {a}
  <2>3. u \in SUBSET S /\ s \in SUBSET u /\ a \in S \ u /\ t = u \cup {a}
        /\ u \ s = (t \ s) \ {a}
    BY <2>2
  <2>4. Cardinality(u \ s) = n
    <3>1. Cardinality((t \ s) \ {a}) = Cardinality(t \ s) - 1
      BY <2>1, <2>2, FS_RemoveElement
    <3> QED BY <2>3, <3>1
  <2> HIDE DEF u
  <2>5. SumFunctionOnSet(w, s) <= SumFunctionOnSet(w, u)
    BY <1>4, <2>3, <2>4
  <2>6. SumFunctionOnSet(w, t) = SumFunctionOnSet(w, u) + w[a]
    BY <2>3, SumFacts
  <2>7. /\ SumFunctionOnSet(w, s) \in Nat
        /\ SumFunctionOnSet(w, u) \in Nat /\ w[a] \in Nat
    BY <1>1, <2>3
  <2> QED BY <2>5, <2>6, <2>7
<1> HIDE DEF N
<1>5. \A n \in Nat : n \in N
  BY <1>3, <1>4, SetInduction
<1>6. ASSUME NEW t \in SUBSET S, NEW s \in SUBSET t
      PROVE  SumFunctionOnSet(w, s) <= SumFunctionOnSet(w, t)
  <2>1. t \ s \in SUBSET S
    OBVIOUS
  <2>2. Cardinality(t \ s) \in N
    BY <1>2, <1>5, <2>1
  <2> QED BY <2>2 DEF N
<1> QED BY <1>6

\* One element of a sequence.
LEMMA SubSeqOne ==
  ASSUME NEW s, Sequence(s), NEW i \in 1..Len(s)
  PROVE  SubSeq(s, i, i) = <<s[i]>>
<1> DEFINE t == SubSeq(s, i, i)
<1>1. i \in Int /\ Len(s) \in Nat
  BY SequenceLen
<1>2. \A j \in i..i : s[j] \in ToSet(s)
  BY <1>1, SequenceLen DEF ToSet
<1>3. /\ t \in Seq(ToSet(s))
      /\ Len(t) = IF i <= i THEN i - i + 1 ELSE 0
      /\ \A j \in 1..(i - i + 1) : t[j] = s[i + j - 1]
  BY <1>1, <1>2, SubSeqProperties
<1>4. i - i + 1 = 1 /\ i + 1 - 1 = i
  BY <1>1
<1>5. Len(t) = 1 /\ t[1] = s[i]
  BY <1>1, <1>3, <1>4
<1>6. Sequence(t)
  BY <1>3, SequenceOver
<1> HIDE DEF t
<1>7. <<s[i]>> \in Seq({s[i]}) /\ Len(<<s[i]>>) = 1 /\ <<s[i]>>[1] = s[i]
  OBVIOUS
<1>8. Sequence(<<s[i]>>)
  BY <1>7, SequenceOver
<1>9. t = <<s[i]>>
  <2> DEFINE u == <<s[i]>>
  <2>1. Sequence(u) /\ Len(u) = Len(t) /\ \A j \in 1..Len(t) : t[j] = u[j]
    BY <1>5, <1>7, <1>8
  <2> HIDE DEF u
  <2>2. t = u
    BY <1>6, <2>1, SequenceEqual
  <2> QED BY <2>2 DEF u
<1> QED BY <1>9 DEF t

\* A sum of ones counts its terms.
LEMMA SumOnes ==
  ASSUME NEW S, IsFiniteSet(S), NEW w, \A x \in S : w[x] = 1
  PROVE  \A s \in SUBSET S : SumFunctionOnSet(w, s) = Cardinality(s)
<1> DEFINE N == {n \in Nat : \A s \in SUBSET S : Cardinality(s) = n =>
                               SumFunctionOnSet(w, s) = n}
<1>1. \A s \in SUBSET S : IsFiniteSet(s) /\ Cardinality(s) \in Nat
  BY FS_Subset, FS_CardinalityType
<1>2. \A x \in S : w[x] \in Nat
  OBVIOUS
<1>3. 0 \in N
  <2> SUFFICES ASSUME NEW s \in SUBSET S, Cardinality(s) = 0
               PROVE  SumFunctionOnSet(w, s) = 0
    OBVIOUS
  <2>1. s = {}
    BY <1>1, FS_EmptySet
  <2>2. SumFunctionOnSet(w, {}) = 0
    BY <1>2, SumFacts
  <2> QED BY <2>1, <2>2
<1>4. ASSUME NEW n \in Nat, n \in N PROVE n + 1 \in N
  <2> SUFFICES ASSUME NEW s \in SUBSET S, Cardinality(s) = n + 1
               PROVE  SumFunctionOnSet(w, s) = n + 1
    OBVIOUS
  <2>1. IsFiniteSet(s) /\ s # {}
    BY <1>1, FS_EmptySet
  <2>2. PICK a \in s : TRUE
    BY <2>1
  <2> DEFINE u == s \ {a}
  <2>3. u \in SUBSET S /\ a \in S \ u /\ s = u \cup {a}
    BY <2>2
  <2>4. Cardinality(u) = n
    <3>1. Cardinality(s \ {a}) = Cardinality(s) - 1
      BY <2>1, <2>2, FS_RemoveElement
    <3> QED BY <3>1
  <2> HIDE DEF u
  <2>5. SumFunctionOnSet(w, u) = n
    BY <1>4, <2>3, <2>4
  <2>6. SumFunctionOnSet(w, s) = SumFunctionOnSet(w, u) + w[a]
    BY <1>2, <2>3, SumFacts
  <2> QED BY <2>3, <2>5, <2>6
<1> HIDE DEF N
<1>5. \A n \in Nat : n \in N
  BY <1>3, <1>4, SetInduction
<1>6. ASSUME NEW s \in SUBSET S PROVE SumFunctionOnSet(w, s) = Cardinality(s)
  <2>1. Cardinality(s) \in N
    BY <1>1, <1>5
  <2> QED BY <2>1 DEF N
<1> QED BY <1>6
================================================================================
