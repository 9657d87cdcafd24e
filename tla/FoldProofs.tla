----------------------------- MODULE FoldProofs -----------------------------
(***************************************************************************)
(* Facts about the data operators that the models share: extremal elements *)
(* of sets of naturals, induction over them, folds over sequences,         *)
(* flattened and sorted sequences.                                         *)
(*                                                                         *)
(* Induction is over a set (of the naturals for which a claim holds)       *)
(* rather than over a predicate, and a fold is described by the function   *)
(* that gives its value on every set of positions: the step of the fold is *)
(* a function too.  No lemma here takes an operator as a parameter.        *)
(***************************************************************************)
EXTENDS Integers, Filters, WellFoundedInduction, SequenceTheorems,
        FiniteSetTheorems, TLAPS

-----------------------------------------------------------------------------
(* Extremal elements: what keys().next() and keys().next_back() return.    *)

\* A non-empty set of naturals has a least element.
LEMMA LeastExists ==
    ASSUME NEW S, S \subseteq Nat, S # {}
    PROVE  \E x \in S : \A y \in S : x <= y
<1> DEFINE R == {ss \in Nat \X Nat : ss[1] < ss[2]}
<1>1. R = OpToRel(<, Nat)
  BY DEF OpToRel
<1>2. IsWellFoundedOn(R, Nat)
  BY <1>1, NatLessThanWellFounded
<1>3. \A x, y \in Nat : x <= y \/ <<y, x>> \in R
  OBVIOUS
<1> HIDE DEF R
<1>4. PICK x \in S : \A y \in S : ~(<<y, x>> \in R)
  BY <1>2, WFMin
<1> QED
  BY <1>3, <1>4

\* Min returns a least element of any non-empty set of naturals.
LEMMA MinIsLeast ==
    ASSUME NEW S, S \subseteq Nat, S # {}
    PROVE  Min(S) \in S /\ \A y \in S : Min(S) <= y
BY LeastExists DEF Min

\* Max returns a greatest element of any non-empty set of naturals that has an
\* upper bound.
LEMMA MaxIsGreatest ==
    ASSUME NEW S, S \subseteq Nat, S # {}, NEW b \in Nat, \A y \in S : y <= b
    PROVE  Max(S) \in S /\ \A y \in S : y <= Max(S)
<1> DEFINE T == {n \in Nat : \E x \in S : n = b - x}
<1>1. T # {}
  <2>1. PICK x \in S : TRUE
    OBVIOUS
  <2>2. x \in Nat /\ b - x \in Nat
    OBVIOUS
  <2> QED
    BY <2>2
<1>2. PICK m \in T : \A n \in T : m <= n
  BY <1>1, LeastExists
<1>3. PICK x \in S : m = b - x
  BY <1>2
<1>4. \A y \in S : y <= x
  <2> TAKE y \in S
  <2>1. x \in Int /\ y \in Int
    OBVIOUS
  <2>2. b - y \in T
    BY <2>1
  <2>3. b - x <= b - y
    BY <2>2, <1>2, <1>3
  <2> QED
    BY <2>1, <2>3
<1> QED
  BY <1>4 DEF Max

\* A set of naturals that has 0 and, with each of its members below b, the
\* next natural, has every natural up to b.
LEMMA UpTo ==
    ASSUME NEW S, NEW b \in Nat, 0 \in S,
           \A n \in 0..(b - 1) : n \in S => n + 1 \in S
    PROVE  0..b \subseteq S
<1> DEFINE Missing == (0..b) \ S
<1> SUFFICES ASSUME Missing # {}
             PROVE  FALSE
  OBVIOUS
<1>1. PICK m \in Missing : \A n \in Missing : m <= n
  <2>1. Missing \subseteq Nat
    OBVIOUS
  <2> HIDE DEF Missing
  <2> QED
    BY <2>1, LeastExists
<1>2. m - 1 \in 0..(b - 1) /\ m - 1 \in S
  BY <1>1
<1> QED
  BY <1>1, <1>2

\* Induction over the naturals.
LEMMA Induct ==
    ASSUME NEW S, 0 \in S, \A n \in Nat : n \in S => n + 1 \in S
    PROVE  Nat \subseteq S
<1> SUFFICES ASSUME NEW b \in Nat
             PROVE  b \in S
  OBVIOUS
<1>1. 0..b \subseteq S
  BY UpTo
<1> QED
  BY <1>1

\* Max of a non-empty set of positions.
LEMMA LastPosition ==
    ASSUME NEW n \in Nat, NEW S \in SUBSET (1..n), S # {}
    PROVE  /\ Max(S) \in S /\ Max(S) \in 1..n
           /\ S \ {Max(S)} \in SUBSET (1..(Max(S) - 1))
           /\ \A i \in S : i <= Max(S)
<1>1. Max(S) \in S /\ \A y \in S : y <= Max(S)
  <2>1. S \subseteq Nat /\ \A y \in S : y <= n
    OBVIOUS
  <2> QED
    BY <2>1, MaxIsGreatest
<1> DEFINE m == Max(S)
<1> HIDE DEF m
<1>2. m \in S /\ \A y \in S : y <= m
  BY <1>1 DEF m
<1>3. \A y \in S \ {m} : y \in 1..(m - 1)
  BY <1>2
<1> QED
  BY <1>2, <1>3 DEF m

\* The last of the positions 1..n is n.
LEMMA LastOfInterval ==
    ASSUME NEW n \in Nat \ {0}
    PROVE  /\ Max(1..n) = n
           /\ (1..n) \ {n} = 1..(n - 1)
           /\ 1..n # {}
<1>1. 1..n \in SUBSET (1..n) /\ 1..n # {} /\ n \in 1..n
  OBVIOUS
<1> DEFINE m == Max(1..n)
<1>2. m \in 1..n /\ \A i \in 1..n : i <= m
  BY <1>1, LastPosition
<1>3. m = n
  <2> HIDE DEF m
  <2> QED
    BY <1>1, <1>2
<1> QED
  BY <1>1, <1>3

-----------------------------------------------------------------------------
(* Folds.                                                                  *)

\* f gives the value of the fold of `step` over every set of positions.
Folds(f, n, base, step) ==
    f = [S \in SUBSET (1..n) |->
           IF S = {} THEN base ELSE step[<<Max(S), f[S \ {Max(S)}]>>]]

\* Such an f exists: the recursion on the last position is well founded.
LEMMA FoldExists ==
    ASSUME NEW N \in Nat, NEW base, NEW step
    PROVE  \E f : Folds(f, N, base, step)
<1> DEFINE Good == {n \in Nat : \E f : Folds(f, n, base, step)}
<1>1. 0 \in Good
  <2>1. SUBSET (1..0) = {{}}
    OBVIOUS
  <2>2. Folds([S \in SUBSET (1..0) |-> base], 0, base, step)
    BY <2>1 DEF Folds
  <2> QED
    BY <2>2
<1>2. ASSUME NEW n \in Nat, n \in Good
      PROVE  n + 1 \in Good
  <2>1. PICK f : Folds(f, n, base, step)
    BY <1>2
  <2> DEFINE val(S) == IF S = {} THEN base ELSE step[<<Max(S), f[S \ {Max(S)}]>>]
             g == [S \in SUBSET (1..(n + 1)) |-> val(S)]
  <2>2. \A S \in SUBSET (1..n) : f[S] = val(S)
    BY <2>1 DEF Folds
  <2>3. ASSUME NEW S \in SUBSET (1..(n + 1)), S # {}
        PROVE  g[S] = step[<<Max(S), g[S \ {Max(S)}]>>]
    <3> DEFINE m == Max(S)
               T == S \ {m}
    <3>1. m \in 1..(n + 1) /\ T \in SUBSET (1..(m - 1))
      <4>1. n + 1 \in Nat
        OBVIOUS
      <4> QED
        BY <4>1, <2>3, LastPosition
    <3> HIDE DEF m
    <3>2. T \in SUBSET (1..n) /\ T \in SUBSET (1..(n + 1))
      BY <3>1
    <3>3. g[T] = f[T]
      BY <3>2, <2>2
    <3>4. g[S] = step[<<m, f[T]>>]
      BY <2>3 DEF m
    <3> HIDE DEF g, T
    <3> QED
      BY <3>3, <3>4 DEF m, T
  <2>4. g[{}] = base
    OBVIOUS
  <2>5. g = [S \in SUBSET (1..(n + 1)) |->
               IF S = {} THEN base ELSE step[<<Max(S), g[S \ {Max(S)}]>>]]
    <3>1. \A S \in SUBSET (1..(n + 1)) :
            g[S] = IF S = {} THEN base ELSE step[<<Max(S), g[S \ {Max(S)}]>>]
      BY <2>3, <2>4
    <3>2. g = [S \in SUBSET (1..(n + 1)) |-> g[S]]
      OBVIOUS
    <3> HIDE DEF g
    <3> QED
      BY <3>1, <3>2
  <2> HIDE DEF g
  <2>6. Folds(g, n + 1, base, step)
    BY <2>5 DEF Folds
  <2>7. n + 1 \in Nat
    OBVIOUS
  <2> QED
    BY <2>6, <2>7
<1> HIDE DEF Good
<1>3. Nat \subseteq Good
  BY <1>1, <1>2, Induct
<1> QED
  BY <1>3 DEF Good

\* g follows the recursion of the fold wherever its own values are in V.
Follows(g, n, V, base, step) ==
    /\ g = [S \in SUBSET (1..n) |-> g[S]]
    /\ g[{}] = base
    /\ \A S \in SUBSET (1..n) :
         S # {} /\ g[S \ {Max(S)}] \in V =>
           g[S] = step[<<Max(S), g[S \ {Max(S)}]>>]

\* g runs the fold f: the base is in V and the step is a function into V.
Replays(g, f, N, V, base, step) ==
    /\ N \in Nat /\ base \in V /\ step \in [(1..N) \X V -> V]
    /\ Folds(f, N, base, step)
    /\ Follows(g, N, V, base, step)

\* When the base is in V and the step is a function into V, so is the fold;
\* and any g that follows the same recursion as long as its own values are in
\* V is the fold.
LEMMA FoldUnique ==
    ASSUME NEW g, NEW f, NEW N, NEW V, NEW base, NEW step,
           Replays(g, f, N, V, base, step)
    PROVE  g = f /\ f \in [SUBSET (1..N) -> V]
<1>0. /\ N \in Nat /\ base \in V /\ step \in [(1..N) \X V -> V]
      /\ Folds(f, N, base, step) /\ Follows(g, N, V, base, step)
  BY DEF Replays
<1> DEFINE Good == {n \in Nat :
                      \A S \in SUBSET (1..n) :
                        S \in SUBSET (1..N) => g[S] = f[S] /\ f[S] \in V}
<1>1. f[{}] = base /\ DOMAIN f = SUBSET (1..N) /\ g[{}] = base
  BY <1>0 DEF Folds, Follows
<1>2. 0 \in Good
  <2>1. \A S \in SUBSET (1..0) : S = {}
    OBVIOUS
  <2> QED
    BY <2>1, <1>0, <1>1
<1>3. ASSUME NEW n \in Nat, n \in Good
      PROVE  n + 1 \in Good
  <2>0. n + 1 \in Nat /\ g[{}] = f[{}] /\ f[{}] \in V
    BY <1>0, <1>1
  <2> SUFFICES ASSUME NEW S \in SUBSET (1..(n + 1)), S \in SUBSET (1..N), S # {}
               PROVE  g[S] = f[S] /\ f[S] \in V
    <3> HIDE DEF Folds
    <3> QED
      BY <2>0
  <2> DEFINE m == Max(S)
             T == S \ {m}
  <2>1. m \in 1..(n + 1) /\ T \in SUBSET (1..(m - 1)) /\ m \in S
    <3>1. n + 1 \in Nat
      OBVIOUS
    <3> QED
      BY <3>1, LastPosition
  <2>2. f[S] = step[<<m, f[T]>>]
    BY <1>0 DEF Folds
  <2>3. T \in SUBSET (1..n) /\ T \in SUBSET (1..N) /\ m \in 1..N
    <3> HIDE DEF m
    <3> QED
      BY <1>0, <2>1
  <2>4. g[T] = f[T] /\ f[T] \in V
    BY <1>3, <2>3
  <2>5. g[S] = step[<<m, g[T]>>]
    BY <1>0, <2>4 DEF Follows
  <2> HIDE DEF m, T, Good
  <2>6. step[<<m, f[T]>>] \in V
    BY <1>0, <2>3, <2>4
  <2> QED
    BY <2>2, <2>4, <2>5, <2>6
<1> HIDE DEF Good
<1>4. Nat \subseteq Good
  BY <1>2, <1>3, Induct
<1>5. \A S \in SUBSET (1..N) : g[S] = f[S] /\ f[S] \in V
  BY <1>0, <1>4 DEF Good
<1>6. f = [S \in SUBSET (1..N) |-> f[S]] /\ g = [S \in SUBSET (1..N) |-> g[S]]
  BY <1>0 DEF Folds, Follows
<1> QED
  BY <1>5, <1>6

\* The values of a fold on the prefixes 1..k of the positions.
LEMMA FoldPrefix ==
    ASSUME NEW N \in Nat, NEW base, NEW step, NEW f, Folds(f, N, base, step)
    PROVE  /\ f[1..0] = base
           /\ \A k \in 1..N : f[1..k] = step[<<k, f[1..(k - 1)]>>]
<1>1. 1..0 = {} /\ {} \in SUBSET (1..N)
  OBVIOUS
<1>2. ASSUME NEW k \in 1..N
      PROVE  f[1..k] = step[<<k, f[1..(k - 1)]>>]
  <2>1. k \in Nat \ {0} /\ 1..k \in SUBSET (1..N)
    OBVIOUS
  <2>2. 1..k # {} /\ Max(1..k) = k /\ (1..k) \ {k} = 1..(k - 1)
    BY <2>1, LastOfInterval
  <2> QED
    BY <2>1, <2>2 DEF Folds
<1> QED
  BY <1>1, <1>2 DEF Folds

\* All of the above about one fold: its values on the prefixes, their type,
\* and that any recursion that agrees with the step has the same values.
LEMMA FoldFacts ==
    ASSUME NEW N \in Nat, NEW V, NEW base \in V,
           NEW step \in [(1..N) \X V -> V]
    PROVE  \E f \in [SUBSET (1..N) -> V] :
             /\ Folds(f, N, base, step)
             /\ f[1..0] = base
             /\ \A k \in 1..N : f[1..k] = step[<<k, f[1..(k - 1)]>>]
             /\ \A k \in 0..N : f[1..k] \in V
<1>1. PICK f : Folds(f, N, base, step)
  BY FoldExists
<1>2. f \in [SUBSET (1..N) -> V]
  <2>1. Replays(f, f, N, V, base, step)
    BY <1>1 DEF Folds, Follows, Replays
  <2> QED
    BY <2>1, FoldUnique
<1>3. \A k \in 0..N : f[1..k] \in V
  BY <1>2
<1> QED
  BY <1>1, <1>2, <1>3, FoldPrefix

-----------------------------------------------------------------------------
(* Sequences of sequences, and sets listed in ascending order.             *)

\* What a concatenation contains.
LEMMA ConcatRange ==
    ASSUME NEW S, NEW s \in Seq(S), NEW t \in Seq(S)
    PROVE  ToSet(s \o t) = ToSet(s) \cup ToSet(t)
<1>1. /\ s \o t \in Seq(S) /\ Len(s \o t) = Len(s) + Len(t)
      /\ \A i \in 1..(Len(s) + Len(t)) :
           (s \o t)[i] = IF i <= Len(s) THEN s[i] ELSE t[i - Len(s)]
  BY ConcatProperties
<1> DEFINE u == s \o t
<1> HIDE DEF u
<1>2. DOMAIN u = 1..(Len(s) + Len(t)) /\ DOMAIN s = 1..Len(s) /\ DOMAIN t = 1..Len(t)
  BY <1>1 DEF u
<1>3. \A i \in DOMAIN s : i \in DOMAIN u /\ u[i] = s[i]
  BY <1>1, <1>2 DEF u
<1>4. \A i \in DOMAIN t : Len(s) + i \in DOMAIN u /\ u[Len(s) + i] = t[i]
  <2> TAKE i \in DOMAIN t
  <2>1. Len(s) + i \in 1..(Len(s) + Len(t)) /\ ~(Len(s) + i <= Len(s))
        /\ (Len(s) + i) - Len(s) = i
    BY <1>2
  <2> QED
    BY <1>1, <1>2, <2>1 DEF u
<1>5. \A i \in DOMAIN u : u[i] \in ToSet(s) \cup ToSet(t)
  <2> TAKE i \in DOMAIN u
  <2>1. CASE i <= Len(s)
    BY <2>1, <1>1, <1>2 DEF u, ToSet
  <2>2. CASE ~(i <= Len(s))
    <3>1. i - Len(s) \in DOMAIN t
      BY <2>2, <1>2
    <3>2. u[i] = t[i - Len(s)]
      BY <2>2, <1>1, <1>2 DEF u
    <3> QED
      BY <3>1, <3>2 DEF ToSet
  <2> QED
    BY <2>1, <2>2
<1>6. \A x \in ToSet(s) \cup ToSet(t) : \E i \in DOMAIN u : u[i] = x
  BY <1>3, <1>4 DEF ToSet
<1> QED
  BY <1>5, <1>6 DEF ToSet, u

\* f[k] is the concatenation of the first k parts.
Flattens(f, S, parts) ==
    /\ f \in [0..Len(parts) -> Seq(S)]
    /\ f[0] = <<>>
    /\ \A k \in 1..Len(parts) : f[k] = f[k - 1] \o parts[k]
    /\ FlattenSeq(parts) = f[Len(parts)]
    /\ \A k \in 0..Len(parts) : \A x :
         x \in ToSet(f[k]) <=> \E i \in 1..k : x \in ToSet(parts[i])

\* A flattened sequence is built up part by part, has the type of the parts
\* and contains exactly what they contain.
LEMMA FlattenFacts ==
    ASSUME NEW S, NEW parts \in Seq(Seq(S))
    PROVE  \E f : Flattens(f, S, parts)
<1> DEFINE N == Len(parts)
           step == [t \in (1..N) \X Seq(S) |-> t[2] \o parts[t[1]]]
           base == <<>>
           V == Seq(S)
<1>1. N \in Nat /\ \A i \in 1..N : parts[i] \in Seq(S)
  OBVIOUS
<1>2. step \in [(1..N) \X Seq(S) -> Seq(S)]
  <2>1. ASSUME NEW t \in (1..N) \X Seq(S)
        PROVE  t[2] \o parts[t[1]] \in Seq(S)
    <3>1. t[1] \in 1..N /\ t[2] \in Seq(S)
      OBVIOUS
    <3>2. parts[t[1]] \in Seq(S)
      BY <3>1, <1>1
    <3> QED
      BY <3>1, <3>2, ConcatProperties
  <2> QED
    BY <2>1
<1>3. base \in V /\ step \in [(1..N) \X V -> V]
  BY <1>2
<1>4. PICK h \in [SUBSET (1..N) -> Seq(S)] :
        /\ h[1..0] = <<>>
        /\ \A k \in 1..N : h[1..k] = step[<<k, h[1..(k - 1)]>>]
        /\ \A k \in 0..N : h[1..k] \in Seq(S)
  <2> HIDE DEF step, N, V, base
  <2>1. \E h \in [SUBSET (1..N) -> V] :
          /\ Folds(h, N, base, step)
          /\ h[1..0] = base
          /\ \A k \in 1..N : h[1..k] = step[<<k, h[1..(k - 1)]>>]
          /\ \A k \in 0..N : h[1..k] \in V
    BY <1>1, <1>3, FoldFacts
  <2> QED
    BY <2>1 DEF V, base
<1> DEFINE f == [k \in 0..N |-> h[1..k]]
<1>5. f \in [0..N -> Seq(S)] /\ f[0] = <<>>
  BY <1>1, <1>4
<1>6. ASSUME NEW k \in 1..N
      PROVE  f[k] = f[k - 1] \o parts[k]
  <2>1. k - 1 \in 0..N /\ k \in 0..N
    BY <1>1
  <2>2. <<k, h[1..(k - 1)]>> \in (1..N) \X Seq(S)
    BY <2>1, <1>4
  <2>3. h[1..k] = h[1..(k - 1)] \o parts[k]
    BY <2>2, <1>4
  <2> QED
    BY <2>1, <2>3
<1> HIDE DEF f, step
<1>7. FlattenSeq(parts) = f[N]
  <2>1. CASE N = 0
    BY <2>1, <1>5 DEF FlattenSeq
  <2>2. CASE N # 0
    <3> DEFINE Rec(g) == g = [i \in 1..N |-> IF i = 1 THEN parts[i]
                                             ELSE g[i - 1] \o parts[i]]
               c == [i \in 1..N |-> f[i]]
    <3>1. Rec(c)
      <4>1. ASSUME NEW i \in 1..N
            PROVE  f[i] = IF i = 1 THEN parts[i] ELSE c[i - 1] \o parts[i]
        <5>1. CASE i = 1
          <6>1. f[1] = f[0] \o parts[1]
            <7>1. f[i] = f[i - 1] \o parts[i]
              BY <1>6
            <7> QED
              BY <5>1, <7>1
          <6>2. parts[1] \in Seq(S)
            BY <5>1, <1>1
          <6> QED
            BY <5>1, <6>1, <6>2, <1>5, ConcatEmptySeq
        <5>2. CASE i # 1
          <6>1. i - 1 \in 1..N
            BY <5>2, <1>1
          <6> QED
            BY <5>2, <6>1, <1>6
        <5> QED
          BY <5>1, <5>2
      <4> HIDE DEF f
      <4> QED
        BY <4>1
    <3>2. ASSUME NEW g, Rec(g)
          PROVE  g = c
      <4> DEFINE Good == {n \in Nat : n \in 1..N => g[n] = f[n]}
      <4>1. 0 \in Good
        OBVIOUS
      <4>2. ASSUME NEW n \in Nat, n \in Good
            PROVE  n + 1 \in Good
        <5> SUFFICES ASSUME n + 1 \in 1..N
                     PROVE  g[n + 1] = f[n + 1]
          OBVIOUS
        <5>1. g[n + 1] = IF n + 1 = 1 THEN parts[n + 1]
                         ELSE g[(n + 1) - 1] \o parts[n + 1]
          BY <3>2
        <5>2. f[n + 1] = f[(n + 1) - 1] \o parts[n + 1]
          BY <1>6
        <5>3. (n + 1) - 1 = n
          OBVIOUS
        <5>4. CASE n = 0
          <6>1. parts[n + 1] \in Seq(S)
            BY <1>1
          <6>2. f[(n + 1) - 1] = <<>>
            BY <5>3, <5>4, <1>5
          <6> QED
            BY <5>1, <5>2, <5>4, <6>1, <6>2, ConcatEmptySeq
        <5>5. CASE n # 0
          <6>1. n \in 1..N /\ n + 1 # 1
            BY <5>5, <1>1
          <6>2. g[n] = f[n]
            BY <6>1, <4>2
          <6> QED
            BY <5>1, <5>2, <5>3, <6>1, <6>2
        <5> QED
          BY <5>4, <5>5
      <4> HIDE DEF Good
      <4>3. Nat \subseteq Good
        BY <4>1, <4>2, Induct
      <4>4. \A n \in 1..N : g[n] = c[n]
        BY <4>3, <1>1 DEF Good
      <4>5. g = [i \in 1..N |-> g[i]]
        BY <3>2
      <4> QED
        BY <4>4, <4>5
    <3>3. FlattenSeq(parts) = (CHOOSE g : Rec(g))[N]
      BY <2>2, <1>1 DEF FlattenSeq
    <3>4. (CHOOSE g : Rec(g)) = c
      <4> HIDE DEF Rec, c
      <4>1. Rec(CHOOSE g : Rec(g))
        BY <3>1
      <4> QED
        BY <4>1, <3>2
    <3>5. c[N] = f[N]
      BY <2>2, <1>1
    <3> QED
      BY <3>3, <3>4, <3>5
  <2> QED
    BY <2>1, <2>2
<1> DEFINE Good == {k \in Nat : k \in 0..N =>
                      ToSet(f[k]) = UNION {ToSet(parts[i]) : i \in 1..k}}
<1>8. 0 \in Good
  <2>1. ToSet(<<>>) = {} /\ 1..0 = {}
    BY DEF ToSet
  <2> QED
    BY <2>1, <1>5
<1>9. ASSUME NEW k \in Nat, k \in Good
      PROVE  k + 1 \in Good
  <2> SUFFICES ASSUME k + 1 \in 0..N
               PROVE  ToSet(f[k + 1]) = UNION {ToSet(parts[i]) : i \in 1..(k + 1)}
    OBVIOUS
  <2>1. /\ k + 1 \in 1..N /\ k \in 0..N /\ (k + 1) - 1 = k
        /\ 1..(k + 1) = (1..k) \cup {k + 1}
    BY <1>1
  <2>2. f[k + 1] = f[k] \o parts[k + 1]
    BY <2>1, <1>6
  <2>3. f[k] \in Seq(S) /\ parts[k + 1] \in Seq(S)
    BY <2>1, <1>1, <1>5
  <2> DEFINE fk == f[k]
             pk == parts[k + 1]
  <2>4. ToSet(fk \o pk) = ToSet(fk) \cup ToSet(pk)
    <3> HIDE DEF fk, pk
    <3>1. fk \in Seq(S) /\ pk \in Seq(S)
      BY <2>3 DEF fk, pk
    <3> QED
      BY <3>1, ConcatRange
  <2>5. ToSet(f[k]) = UNION {ToSet(parts[i]) : i \in 1..k}
    BY <2>1, <1>9
  <2> QED
    BY <2>1, <2>2, <2>4, <2>5
<1> HIDE DEF Good
<1>10. Nat \subseteq Good
  BY <1>8, <1>9, Induct
<1>11. ASSUME NEW k \in 0..N
       PROVE  \A x : x \in ToSet(f[k]) <=> \E i \in 1..k : x \in ToSet(parts[i])
  <2>1. k \in Nat
    BY <1>1
  <2>2. ToSet(f[k]) = UNION {ToSet(parts[i]) : i \in 1..k}
    BY <2>1, <1>10 DEF Good
  <2> QED
    BY <2>2
<1>12. Flattens(f, S, parts)
  BY <1>5, <1>6, <1>7, <1>11 DEF Flattens
<1> QED
  BY <1>12

\* What Append adds to the elements.
LEMMA AppendRange ==
    ASSUME NEW S, NEW q \in Seq(S), NEW x \in S
    PROVE  /\ Append(q, x) \in Seq(S)
           /\ ToSet(Append(q, x)) = ToSet(q) \cup {x}
<1> DEFINE a == Append(q, x)
<1>1. /\ a \in Seq(S) /\ Len(a) = Len(q) + 1 /\ Len(q) \in Nat
      /\ \A i \in 1..Len(q) : a[i] = q[i]
      /\ a[Len(q) + 1] = x
  OBVIOUS
<1>2. DOMAIN q = 1..Len(q) /\ DOMAIN a = 1..(Len(q) + 1)
  OBVIOUS
<1> HIDE DEF a
<1>3. \A y : y \in ToSet(a) <=> y \in ToSet(q) \/ y = x
  <2>1. 1..(Len(q) + 1) = (1..Len(q)) \cup {Len(q) + 1}
    BY <1>1
  <2> QED
    BY <1>1, <1>2, <2>1 DEF ToSet
<1> QED
  BY <1>1, <1>3 DEF a

\* Appending to a concatenation is appending to its second part.
Extends(a, b, x) == Append(a \o b, x) = a \o Append(b, x)

LEMMA AppendConcat ==
    ASSUME NEW S, NEW a \in Seq(S), NEW b \in Seq(S), NEW x \in S
    PROVE  Extends(a, b, x)
BY DEF Extends

\* Three sequences in a row, however they are put together.
Associates(a, b, c) == (a \o b) \o c = a \o (b \o c)

LEMMA ConcatAssociates ==
    ASSUME NEW S, NEW a \in Seq(S), NEW b \in Seq(S), NEW c \in Seq(S)
    PROVE  Associates(a, b, c) /\ a \o b \in Seq(S) /\ b \o c \in Seq(S)
<1>1. a \o b \in Seq(S) /\ b \o c \in Seq(S)
  OBVIOUS
<1>2. (a \o b) \o c = a \o (b \o c)
  BY ConcatAssociative
<1> QED
  BY <1>1, <1>2 DEF Associates

\* f[k] is what the first k positions leave.
Sifts(f, S, q, K) ==
    /\ f \in [0..Len(q) -> Seq(S)]
    /\ f[0] = <<>>
    /\ \A k \in 1..Len(q) :
         f[k] = IF q[k] \in K THEN Append(f[k - 1], q[k]) ELSE f[k - 1]
    /\ Only(q, K) = f[Len(q)]

\* What Only leaves of a sequence is built up position by position.
LEMMA OnlyFacts ==
    ASSUME NEW S, NEW q \in Seq(S), NEW K
    PROVE  \E f : Sifts(f, S, q, K)
<1> DEFINE N == Len(q)
           V == Seq(S)
           base == <<>>
           again(t, x) == IF x \in K THEN Append(t, x) ELSE t
           step == [t \in (1..N) \X V |-> again(t[2], q[t[1]])]
<1>1. N \in Nat /\ DOMAIN q = 1..N /\ \A i \in 1..N : q[i] \in S
  OBVIOUS
<1>2. step \in [(1..N) \X V -> V]
  <2>1. ASSUME NEW t \in (1..N) \X Seq(S)
        PROVE  again(t[2], q[t[1]]) \in Seq(S)
    <3>1. t[1] \in 1..N /\ t[2] \in Seq(S)
      OBVIOUS
    <3> DEFINE x == q[t[1]]
               u == t[2]
    <3>2. x \in S /\ u \in Seq(S)
      BY <3>1, <1>1
    <3> HIDE DEF x, u
    <3>3. Append(u, x) \in Seq(S)
      BY <3>2
    <3> QED
      BY <3>2, <3>3 DEF x, u
  <2> QED
    BY <2>1
<1>3. N \in Nat /\ base \in V /\ step \in [(1..N) \X V -> V]
  BY <1>1, <1>2
<1>4. PICK h \in [SUBSET (1..N) -> V] :
        /\ Folds(h, N, base, step)
        /\ h[1..0] = base
        /\ \A k \in 1..N : h[1..k] = step[<<k, h[1..(k - 1)]>>]
        /\ \A k \in 0..N : h[1..k] \in V
  <2> HIDE DEF step, N, V, base, again
  <2> QED
    BY <1>3, FoldFacts
<1> DEFINE Rec(g) == g = [I \in SUBSET (1..N) |->
                            IF I = {} THEN base
                            ELSE again(g[I \ {Max(I)}], q[Max(I)])]
<1>5. Only(q, K) = (CHOOSE g : Rec(g))[1..N]
  BY <1>1 DEF Only, FoldLeft, MapThenFoldSet
<1>6. ASSUME NEW g, Rec(g)
      PROVE  Follows(g, N, V, base, step)
  <2>1. ASSUME NEW I \in SUBSET (1..N), I # {}, g[I \ {Max(I)}] \in V
        PROVE  g[I] = step[<<Max(I), g[I \ {Max(I)}]>>]
    <3>1. Max(I) \in 1..N
      <4> HIDE DEF N
      <4> QED
        BY <1>1, <2>1, LastPosition
    <3>2. g[I] = again(g[I \ {Max(I)}], q[Max(I)])
      <4> HIDE DEF again, N
      <4> QED
        BY <1>6, <2>1
    <3> DEFINE p == <<Max(I), g[I \ {Max(I)}]>>
    <3>3. p \in (1..N) \X V /\ p[1] = Max(I) /\ p[2] = g[I \ {Max(I)}]
      BY <3>1, <2>1
    <3>4. step[p] = again(p[2], q[p[1]])
      <4> HIDE DEF p, N, V, again
      <4> QED
        BY <3>3
    <3> HIDE DEF step, again, N, V
    <3> QED
      BY <3>2, <3>3, <3>4
  <2>2. g = [I \in SUBSET (1..N) |-> g[I]] /\ g[{}] = base
    <3>1. g = [I \in SUBSET (1..N) |->
                 IF I = {} THEN base
                 ELSE again(g[I \ {Max(I)}], q[Max(I)])]
      BY <1>6
    <3>2. {} \in SUBSET (1..N)
      OBVIOUS
    <3> HIDE DEF again, N, base
    <3> QED
      BY <3>1, <3>2
  <2> HIDE DEF step, V, base, N
  <2> QED
    BY <2>1, <2>2 DEF Follows
<1>7. Rec(h)
  <2>1. h = [I \in SUBSET (1..N) |->
               IF I = {} THEN base ELSE step[<<Max(I), h[I \ {Max(I)}]>>]]
    BY <1>4 DEF Folds
  <2>2. ASSUME NEW I \in SUBSET (1..N), I # {}
        PROVE  step[<<Max(I), h[I \ {Max(I)}]>>] = again(h[I \ {Max(I)}], q[Max(I)])
    <3>1. Max(I) \in 1..N
      <4> HIDE DEF N
      <4> QED
        BY <1>1, <2>2, LastPosition
    <3> DEFINE p == <<Max(I), h[I \ {Max(I)}]>>
    <3>2. h[I \ {Max(I)}] \in V
      BY <1>4
    <3>3. p \in (1..N) \X V /\ p[1] = Max(I) /\ p[2] = h[I \ {Max(I)}]
      BY <3>1, <3>2
    <3>4. step[p] = again(p[2], q[p[1]])
      <4> HIDE DEF p, N, V, again
      <4> QED
        BY <3>3
    <3> HIDE DEF step, again, N, V
    <3> QED
      BY <3>3, <3>4
  <2> HIDE DEF step, again, N, base
  <2> QED
    BY <2>1, <2>2
<1>8. (CHOOSE g : Rec(g)) = h
  <2>1. ASSUME NEW g, Rec(g)
        PROVE  g = h
    <3>1. Follows(g, N, V, base, step) /\ Folds(h, N, base, step)
      BY <1>4, <1>6, <2>1
    <3>2. Replays(g, h, N, V, base, step)
      BY <3>1, <1>3 DEF Replays
    <3> HIDE DEF step, V, base, N, again, Rec
    <3> QED
      BY ONLY <3>2, FoldUnique
  <2> HIDE DEF Rec
  <2>2. Rec(CHOOSE g : Rec(g))
    BY <1>7
  <2> QED
    BY <2>1, <2>2
<1> DEFINE f == [k \in 0..N |-> h[1..k]]
<1>9. f \in [0..N -> Seq(S)] /\ f[0] = <<>> /\ Only(q, K) = f[N]
  <2>1. \A k \in 0..N : h[1..k] \in Seq(S)
    BY <1>4
  <2>2. h[1..0] = <<>>
    BY <1>4
  <2>3. Only(q, K) = h[1..N]
    <3> HIDE DEF Rec, N
    <3> QED
      BY <1>5, <1>8
  <2>4. N \in 0..N /\ 0 \in 0..N
    BY <1>1
  <2> HIDE DEF N
  <2> QED
    BY <2>1, <2>2, <2>3, <2>4
<1>10. ASSUME NEW k \in 1..N
       PROVE  f[k] = IF q[k] \in K THEN Append(f[k - 1], q[k]) ELSE f[k - 1]
  <2>1. k - 1 \in 0..N /\ k \in 0..N
    BY <1>1
  <2> DEFINE p == <<k, h[1..(k - 1)]>>
  <2>2. p \in (1..N) \X V /\ p[1] = k /\ p[2] = h[1..(k - 1)]
    BY <2>1, <1>4
  <2>3. step[p] = again(p[2], q[p[1]])
    <3> HIDE DEF p, N, V, again
    <3> QED
      BY <2>2
  <2>4. h[1..k] = step[p]
    BY <1>4
  <2>5. f[k] = h[1..k] /\ f[k - 1] = h[1..(k - 1)]
    BY <2>1
  <2> HIDE DEF f, step, p
  <2> QED
    BY <2>2, <2>3, <2>4, <2>5
<1> HIDE DEF f
<1>11. Sifts(f, S, q, K)
  BY <1>9, <1>10 DEF Sifts
<1> QED
  BY <1>11

\* f[k] is where the first k positions lead.
Walks(f, V, step, base, q) ==
    /\ f \in [0..Len(q) -> V]
    /\ f[0] = base
    /\ \A k \in 1..Len(q) : f[k] = step[<<f[k - 1], q[k]>>]
    /\ FoldBy(step, base, q) = f[Len(q)]

\* A fold by a function is built up position by position.
LEMMA FoldByFacts ==
    ASSUME NEW S, NEW q \in Seq(S), NEW V, NEW base \in V, NEW op \in [V \X S -> V]
    PROVE  \E f : Walks(f, V, op, base, q)
<1> DEFINE N == Len(q)
           step == [t \in (1..N) \X V |-> op[<<t[2], q[t[1]]>>]]
<1>1. N \in Nat /\ DOMAIN q = 1..N /\ \A i \in 1..N : q[i] \in S
  OBVIOUS
<1>2. ASSUME NEW m \in 1..N, NEW v \in V
      PROVE  step[<<m, v>>] = op[<<v, q[m]>>] /\ op[<<v, q[m]>>] \in V
  <2>1. q[m] \in S
    BY <1>1
  <2> HIDE DEF N
  <2> QED
    BY <2>1
<1>3. step \in [(1..N) \X V -> V]
  <2>1. step = [t \in (1..N) \X V |-> step[t]]
    OBVIOUS
  <2>2. ASSUME NEW t \in (1..N) \X V
        PROVE  step[t] \in V
    <3>1. t = <<t[1], t[2]>> /\ t[1] \in 1..N /\ t[2] \in V
      OBVIOUS
    <3> HIDE DEF step, N
    <3>2. step[<<t[1], t[2]>>] \in V
      BY <1>2, <3>1
    <3> QED
      BY <3>1, <3>2
  <2> HIDE DEF step, N
  <2> QED
    BY <2>1, <2>2
<1> HIDE DEF step
<1>4. PICK h \in [SUBSET (1..N) -> V] :
        /\ Folds(h, N, base, step)
        /\ h[1..0] = base
        /\ \A k \in 1..N : h[1..k] = step[<<k, h[1..(k - 1)]>>]
        /\ \A k \in 0..N : h[1..k] \in V
  <2>1. N \in Nat /\ base \in V
    BY <1>1
  <2> HIDE DEF N
  <2> QED
    BY ONLY <2>1, <1>3, FoldFacts
<1> DEFINE Rec(g) == g = [I \in SUBSET (1..N) |->
                            IF I = {} THEN base
                            ELSE op[<<g[I \ {Max(I)}], q[Max(I)]>>]]
<1>5. FoldBy(op, base, q) = (CHOOSE g : Rec(g))[1..N]
  BY <1>1 DEF FoldBy, FoldLeft, MapThenFoldSet
<1>6. ASSUME NEW I \in SUBSET (1..N), I # {}
      PROVE  Max(I) \in 1..N
  <2> HIDE DEF N
  <2> QED
    BY <1>1, <1>6, LastPosition
<1>7. ASSUME NEW g, Rec(g)
      PROVE  g = h
  <2>1. g[{}] = base /\ g = [I \in SUBSET (1..N) |-> g[I]]
    <3>1. {} \in SUBSET (1..N)
      OBVIOUS
    <3> HIDE DEF N
    <3> QED
      BY <1>7, <3>1
  <2>2. ASSUME NEW I \in SUBSET (1..N), I # {}, g[I \ {Max(I)}] \in V
        PROVE  g[I] = step[<<Max(I), g[I \ {Max(I)}]>>]
    <3>1. g[I] = op[<<g[I \ {Max(I)}], q[Max(I)]>>]
      <4> HIDE DEF N
      <4> QED
        BY <1>7, <2>2
    <3> HIDE DEF Rec, N
    <3> QED
      BY <1>2, <1>6, <2>2, <3>1
  <2> HIDE DEF Rec, N
  <2>3. Follows(g, N, V, base, step)
    BY <2>1, <2>2 DEF Follows
  <2>4. Replays(g, h, N, V, base, step)
    BY <1>1, <1>3, <1>4, <2>3 DEF Replays
  <2> QED
    BY ONLY <2>4, FoldUnique
<1>8. Rec(h)
  <2>1. h = [I \in SUBSET (1..N) |->
               IF I = {} THEN base ELSE step[<<Max(I), h[I \ {Max(I)}]>>]]
    BY <1>4 DEF Folds
  <2>2. ASSUME NEW I \in SUBSET (1..N), I # {}
        PROVE  step[<<Max(I), h[I \ {Max(I)}]>>] = op[<<h[I \ {Max(I)}], q[Max(I)]>>]
    <3>1. h[I \ {Max(I)}] \in V
      BY <1>4
    <3> HIDE DEF N
    <3> QED
      BY <1>2, <1>6, <2>2, <3>1
  <2> HIDE DEF N
  <2> QED
    BY <2>1, <2>2
<1>9. (CHOOSE g : Rec(g)) = h
  <2> HIDE DEF Rec
  <2>1. Rec(CHOOSE g : Rec(g))
    BY <1>8
  <2> QED
    BY <1>7, <2>1
<1>10. FoldBy(op, base, q) = h[1..N]
  <2> HIDE DEF Rec, N
  <2> QED
    BY <1>5, <1>9
<1> DEFINE f == [k \in 0..N |-> h[1..k]]
<1>11. f \in [0..N -> V] /\ f[0] = base /\ FoldBy(op, base, q) = f[N]
  <2>1. N \in 0..N /\ 0 \in 0..N
    BY <1>1
  <2> HIDE DEF N, Rec
  <2> QED
    BY <1>4, <1>10, <2>1
<1>12. ASSUME NEW k \in 1..N
       PROVE  f[k] = op[<<f[k - 1], q[k]>>]
  <2>1. k - 1 \in 0..N /\ k \in 0..N
    BY <1>1
  <2>2. h[1..k] = step[<<k, h[1..(k - 1)]>>] /\ h[1..(k - 1)] \in V
    BY <1>4, <2>1
  <2>3. f[k] = h[1..k] /\ f[k - 1] = h[1..(k - 1)]
    BY <2>1
  <2> HIDE DEF f, N, Rec
  <2> QED
    BY <1>2, <2>2, <2>3
<1> HIDE DEF f
<1> QED
  BY <1>11, <1>12 DEF Walks

\* f[k] is the sum over the first k positions.
Sums(f, weight, q) ==
    /\ f \in [0..Len(q) -> Nat]
    /\ f[0] = 0
    /\ \A k \in 1..Len(q) : f[k] = f[k - 1] + weight[q[k]]
    /\ SumBy(weight, q) = f[Len(q)]

LEMMA SumFacts ==
    ASSUME NEW S, NEW q \in Seq(S), NEW weight \in [S -> Nat]
    PROVE  \E f : Sums(f, weight, q)
<1> DEFINE op == [t \in Nat \X S |-> t[1] + weight[t[2]]]
<1>1. ASSUME NEW n \in Nat, NEW x \in S
      PROVE  op[<<n, x>>] = n + weight[x]
  OBVIOUS
<1>2. op \in [Nat \X S -> Nat]
  OBVIOUS
<1>3. SumBy(weight, q) = FoldBy(op, 0, q)
  BY DEF SumBy
<1> HIDE DEF op
<1>4. PICK f : Walks(f, Nat, op, 0, q)
  <2>1. 0 \in Nat
    OBVIOUS
  <2> QED
    BY <1>2, <2>1, FoldByFacts
<1>5. /\ f \in [0..Len(q) -> Nat] /\ f[0] = 0 /\ SumBy(weight, q) = f[Len(q)]
      /\ \A k \in 1..Len(q) : f[k] = op[<<f[k - 1], q[k]>>]
  BY <1>3, <1>4 DEF Walks
<1>6. ASSUME NEW k \in 1..Len(q)
      PROVE  f[k] = f[k - 1] + weight[q[k]]
  <2>1. k - 1 \in 0..Len(q) /\ q[k] \in S
    OBVIOUS
  <2>2. f[k - 1] \in Nat
    BY <1>5, <2>1
  <2> QED
    BY <1>1, <1>5, <2>1, <2>2
<1> QED
  BY <1>5, <1>6 DEF Sums

\* A sum grows with the sequence, by the weight of what is added at its end.
LEMMA SumAppend ==
    ASSUME NEW S, NEW q \in Seq(S), NEW x \in S, NEW weight \in [S -> Nat]
    PROVE  /\ SumBy(weight, q) \in Nat
           /\ SumBy(weight, <<>>) = 0
           /\ SumBy(weight, Append(q, x)) = SumBy(weight, q) + weight[x]
<1> DEFINE p == Append(q, x)
           N == Len(q)
<1>1. /\ p \in Seq(S) /\ Len(p) = N + 1 /\ N \in Nat /\ p[N + 1] = x
      /\ \A i \in 1..N : p[i] = q[i]
  OBVIOUS
<1> HIDE DEF p
<1>2. PICK f : Sums(f, weight, q)
  BY SumFacts
<1>3. PICK g : Sums(g, weight, p)
  BY <1>1, SumFacts
<1>4. /\ f \in [0..N -> Nat] /\ f[0] = 0 /\ SumBy(weight, q) = f[N]
      /\ \A k \in 1..N : f[k] = f[k - 1] + weight[q[k]]
  BY <1>2 DEF Sums
<1>5. /\ g \in [0..(N + 1) -> Nat] /\ g[0] = 0 /\ SumBy(weight, p) = g[N + 1]
      /\ \A k \in 1..(N + 1) : g[k] = g[k - 1] + weight[p[k]]
  BY <1>1, <1>3 DEF Sums
<1> HIDE DEF N
<1>6. g[N] = f[N]
  <2> DEFINE T == {k \in 0..N : g[k] = f[k]}
  <2>1. 0 \in T
    BY <1>1, <1>4, <1>5
  <2>2. ASSUME NEW k \in 0..(N - 1), k \in T
        PROVE  k + 1 \in T
    <3>1. k + 1 \in 1..N /\ k + 1 \in 1..(N + 1) /\ (k + 1) - 1 = k
      BY <1>1
    <3>2. f[k + 1] = f[k] + weight[q[k + 1]] /\ g[k + 1] = g[k] + weight[p[k + 1]]
      BY <1>4, <1>5, <3>1
    <3> QED
      BY <1>1, <2>2, <3>1, <3>2
  <2> HIDE DEF T
  <2>3. 0..N \subseteq T
    BY <1>1, <2>1, <2>2, UpTo
  <2> QED
    BY <1>1, <2>3 DEF T
<1>7. SumBy(weight, p) = SumBy(weight, q) + weight[x]
  <2>1. N + 1 \in 1..(N + 1) /\ (N + 1) - 1 = N
    BY <1>1
  <2> QED
    BY <1>1, <1>4, <1>5, <1>6, <2>1
<1>8. SumBy(weight, q) \in Nat
  BY <1>1, <1>4
<1>9. SumBy(weight, <<>>) = 0
  <2> DEFINE none == <<>>
  <2>1. none \in Seq(S) /\ Len(none) = 0
    OBVIOUS
  <2> HIDE DEF none
  <2>2. PICK h : Sums(h, weight, none)
    BY <2>1, SumFacts
  <2>3. SumBy(weight, none) = 0
    BY <2>1, <2>2 DEF Sums
  <2> QED
    BY <2>3 DEF none
<1> QED
  BY <1>7, <1>8, <1>9 DEF p

\* What is left is what is in the set.
LEMMA OnlyRange ==
    ASSUME NEW S, NEW q \in Seq(S), NEW K
    PROVE  /\ Only(q, K) \in Seq(S)
           /\ ToSet(Only(q, K)) = ToSet(q) \cap K
<1> DEFINE N == Len(q)
<1>1. N \in Nat /\ DOMAIN q = 1..N /\ \A i \in 1..N : q[i] \in S
  OBVIOUS
<1>2. PICK f : Sifts(f, S, q, K)
  BY OnlyFacts
<1>3. /\ f \in [0..N -> Seq(S)] /\ f[0] = <<>> /\ Only(q, K) = f[N]
      /\ \A k \in 1..N :
           f[k] = IF q[k] \in K THEN Append(f[k - 1], q[k]) ELSE f[k - 1]
  BY <1>2 DEF Sifts
<1> HIDE DEF N
<1> DEFINE Good == {k \in Nat : k \in 0..N =>
                      ToSet(f[k]) = {q[i] : i \in 1..k} \cap K}
<1>4. 0 \in Good
  <2>1. ToSet(<<>>) = {} /\ 1..0 = {}
    BY DEF ToSet
  <2> QED
    BY <2>1, <1>3
<1>5. ASSUME NEW k \in Nat, k \in Good
      PROVE  k + 1 \in Good
  <2> SUFFICES ASSUME k + 1 \in 0..N
               PROVE  ToSet(f[k + 1]) = {q[i] : i \in 1..(k + 1)} \cap K
    OBVIOUS
  <2>1. /\ k + 1 \in 1..N /\ k \in 0..N /\ (k + 1) - 1 = k
        /\ 1..(k + 1) = (1..k) \cup {k + 1}
    BY <1>1
  <2> DEFINE x == q[k + 1]
             u == f[k]
  <2>2. u \in Seq(S) /\ x \in S /\ ToSet(u) = {q[i] : i \in 1..k} \cap K
    BY <1>1, <1>3, <1>5, <2>1
  <2>3. f[k + 1] = IF x \in K THEN Append(u, x) ELSE u
    BY <1>3, <2>1
  <2>4. {q[i] : i \in 1..(k + 1)} = {q[i] : i \in 1..k} \cup {x}
    BY <2>1
  <2> HIDE DEF x, u, Good
  <2>5. ToSet(Append(u, x)) = ToSet(u) \cup {x}
    BY <2>2, AppendRange
  <2>6. CASE x \in K
    BY <2>2, <2>3, <2>4, <2>5, <2>6
  <2>7. CASE x \notin K
    BY <2>2, <2>3, <2>4, <2>7
  <2> QED
    BY <2>6, <2>7
<1> HIDE DEF Good
<1>6. Nat \subseteq Good
  BY <1>4, <1>5, Induct
<1>7. ToSet(f[N]) = {q[i] : i \in 1..N} \cap K
  BY <1>1, <1>6 DEF Good
<1>8. ToSet(q) = {q[i] : i \in 1..N}
  BY <1>1 DEF ToSet
<1> QED
  BY <1>1, <1>3, <1>7, <1>8

\* Taking the elements of a set out of a concatenation.
LEMMA OnlyConcat ==
    ASSUME NEW S, NEW s \in Seq(S), NEW t \in Seq(S), NEW K
    PROVE  Only(s \o t, K) = Only(s, K) \o Only(t, K)
<1> DEFINE u == s \o t
           M == Len(s)
           N == Len(t)
<1>1. /\ u \in Seq(S) /\ Len(u) = M + N /\ M \in Nat /\ N \in Nat
      /\ \A i \in 1..(M + N) : u[i] = IF i <= M THEN s[i] ELSE t[i - M]
  BY ConcatProperties
<1>2. PICK f : Sifts(f, S, s, K)
  BY OnlyFacts
<1>3. PICK g : Sifts(g, S, t, K)
  BY OnlyFacts
<1>4. PICK h : Sifts(h, S, u, K)
  <2> HIDE DEF u
  <2> QED
    BY <1>1, OnlyFacts
<1>5. /\ f \in [0..M -> Seq(S)] /\ f[0] = <<>> /\ Only(s, K) = f[M]
      /\ \A k \in 1..M :
           f[k] = IF s[k] \in K THEN Append(f[k - 1], s[k]) ELSE f[k - 1]
  BY <1>2 DEF Sifts
<1>6. /\ g \in [0..N -> Seq(S)] /\ g[0] = <<>> /\ Only(t, K) = g[N]
      /\ \A k \in 1..N :
           g[k] = IF t[k] \in K THEN Append(g[k - 1], t[k]) ELSE g[k - 1]
  BY <1>3 DEF Sifts
<1>7. /\ h \in [0..(M + N) -> Seq(S)] /\ h[0] = <<>> /\ Only(u, K) = h[M + N]
      /\ \A k \in 1..(M + N) :
           h[k] = IF u[k] \in K THEN Append(h[k - 1], u[k]) ELSE h[k - 1]
  BY <1>1, <1>4 DEF Sifts
<1>8. \A i \in DOMAIN t : t[i] \in S
  OBVIOUS
<1>9. DOMAIN t = 1..N
  OBVIOUS
<1> HIDE DEF u, M, N
<1> DEFINE Good == {k \in Nat : k \in 0..M => h[k] = f[k]}
<1>10. Nat \subseteq Good
  <2>1. 0 \in Good
    BY <1>5, <1>7
  <2>2. ASSUME NEW k \in Nat, k \in Good
        PROVE  k + 1 \in Good
    <3> SUFFICES ASSUME k + 1 \in 0..M
                 PROVE  h[k + 1] = f[k + 1]
      OBVIOUS
    <3>1. k + 1 \in 1..M /\ k + 1 \in 1..(M + N) /\ (k + 1) - 1 = k /\ k \in 0..M
          /\ k + 1 <= M
      BY <1>1
    <3>2. u[k + 1] = s[k + 1] /\ h[k] = f[k]
      BY <3>1, <1>1, <2>2
    <3>3. h[k + 1] = IF u[k + 1] \in K THEN Append(h[k], u[k + 1]) ELSE h[k]
      BY <3>1, <1>7
    <3>4. f[k + 1] = IF s[k + 1] \in K THEN Append(f[k], s[k + 1]) ELSE f[k]
      BY <3>1, <1>5
    <3> QED
      BY <3>2, <3>3, <3>4
  <2> HIDE DEF Good
  <2> QED
    BY <2>1, <2>2, Induct
<1>11. h[M] = f[M] /\ f[M] \in Seq(S)
  BY <1>1, <1>5, <1>10
<1> DEFINE Better == {k \in Nat : k \in 0..N => h[M + k] = f[M] \o g[k]}
<1>12. Nat \subseteq Better
  <2>1. 0 \in Better
    <3>1. f[M] \o <<>> = f[M]
      BY <1>11, ConcatEmptySeq
    <3>2. M + 0 = M
      BY <1>1
    <3> QED
      BY <3>1, <3>2, <1>6, <1>11
  <2>2. ASSUME NEW k \in Nat, k \in Better
        PROVE  k + 1 \in Better
    <3>0. k + 1 \in Nat
      OBVIOUS
    <3> SUFFICES ASSUME k + 1 \in 0..N
                 PROVE  h[M + (k + 1)] = f[M] \o g[k + 1]
      BY <3>0
    <3>1. /\ k + 1 \in 1..N /\ M + (k + 1) \in 1..(M + N) /\ (k + 1) - 1 = k
          /\ k \in 0..N /\ (M + (k + 1)) - 1 = M + k /\ ~(M + (k + 1) <= M)
          /\ (M + (k + 1)) - M = k + 1
      BY <1>1
    <3> DEFINE x == t[k + 1]
               a == f[M]
               b == g[k]
    <3>2. u[M + (k + 1)] = x /\ x \in S /\ a \in Seq(S) /\ b \in Seq(S)
      BY <3>1, <1>1, <1>6, <1>8, <1>9, <1>11
    <3>3. h[M + k] = a \o b
      BY <3>1, <2>2
    <3>4. h[M + (k + 1)] = IF x \in K THEN Append(a \o b, x) ELSE a \o b
      BY <3>1, <3>2, <3>3, <1>7
    <3>5. g[k + 1] = IF x \in K THEN Append(b, x) ELSE b
      BY <3>1, <1>6
    <3> HIDE DEF x, a, b
    <3>6. Extends(a, b, x)
      BY <3>2, AppendConcat
    <3>7. Append(a \o b, x) = a \o Append(b, x)
      BY ONLY <3>6 DEF Extends
    <3> QED
      BY <3>4, <3>5, <3>7 DEF a
  <2> HIDE DEF Better
  <2> QED
    BY <2>1, <2>2, Induct
<1>13. h[M + N] = f[M] \o g[N]
  <2>1. N \in 0..N
    BY <1>1
  <2>2. N \in Better
    <3> HIDE DEF Better
    <3> QED
      BY <1>1, <1>12
  <2> QED
    BY <2>1, <2>2
<1> QED
  BY <1>5, <1>6, <1>7, <1>13 DEF u

\* The elements of a sequence that has no others, and of one that has none.
LEMMA OnlyAll ==
    ASSUME NEW S, NEW q \in Seq(S), NEW K
    PROVE  /\ ToSet(q) \subseteq K => Only(q, K) = q
           /\ ToSet(q) \cap K = {} => Only(q, K) = <<>>
<1> DEFINE N == Len(q)
           r == Only(q, K)
<1>1. N \in Nat /\ DOMAIN q = 1..N /\ \A i \in 1..N : q[i] \in S
  OBVIOUS
<1>2. ASSUME ToSet(q) \subseteq K
      PROVE  r = q
  <2>1. \A i \in 1..N : q[i] \in K
    BY <1>1, <1>2 DEF ToSet
  <2>2. PICK f : Sifts(f, S, q, K)
    BY OnlyFacts
  <2>3. /\ f \in [0..N -> Seq(S)] /\ f[0] = <<>> /\ r = f[N]
        /\ \A k \in 1..N : f[k] = Append(f[k - 1], q[k])
    BY <1>1, <2>1, <2>2 DEF Sifts
  <2> HIDE DEF N, r
  <2> DEFINE Good == {k \in Nat : k \in 0..N =>
                        Len(f[k]) = k /\ \A i \in 1..k : f[k][i] = q[i]}
  <2>4. 0 \in Good
    BY <2>3
  <2>5. ASSUME NEW k \in Nat, k \in Good
        PROVE  k + 1 \in Good
    <3> SUFFICES ASSUME k + 1 \in 0..N
                 PROVE  Len(f[k + 1]) = k + 1 /\ \A i \in 1..(k + 1) : f[k + 1][i] = q[i]
      OBVIOUS
    <3>1. k + 1 \in 1..N /\ k \in 0..N /\ (k + 1) - 1 = k
      BY <1>1
    <3> DEFINE u == f[k]
               x == q[k + 1]
    <3>2. u \in Seq(S) /\ x \in S /\ Len(u) = k /\ \A i \in 1..k : u[i] = q[i]
      BY <1>1, <2>3, <2>5, <3>1
    <3>3. f[k + 1] = Append(u, x)
      BY <2>3, <3>1
    <3> HIDE DEF u, Good
    <3>4. Len(Append(u, x)) = k + 1
          /\ \A i \in 1..(k + 1) : Append(u, x)[i] = IF i = k + 1 THEN x ELSE u[i]
      BY <3>2
    <3> QED
      BY <3>2, <3>3, <3>4
  <2> HIDE DEF Good
  <2>6. Nat \subseteq Good
    BY <2>4, <2>5, Induct
  <2>7. r \in Seq(S) /\ Len(r) = N /\ \A i \in 1..N : r[i] = q[i]
    <3>1. N \in Good /\ N \in 0..N
      BY <1>1, <2>6
    <3>2. Len(f[N]) = N /\ \A i \in 1..N : f[N][i] = q[i]
      BY <3>1 DEF Good
    <3> QED
      BY <2>3, <3>1, <3>2
  <2> QED
    BY <1>1, <2>7, SeqEqual DEF N
<1>3. ASSUME ToSet(q) \cap K = {}
      PROVE  r = <<>>
  <2>1. r \in Seq(S) /\ ToSet(r) = {}
    BY <1>3, OnlyRange
  <2> HIDE DEF r
  <2>2. \A i \in DOMAIN r : r[i] \in ToSet(r)
    BY DEF ToSet
  <2>3. Len(r) = 0
    BY <2>1, <2>2
  <2> QED
    BY <2>1, <2>3
<1> QED
  BY <1>2, <1>3

\* Only the elements of the sequence matter to the set.
LEMMA OnlySame ==
    ASSUME NEW S, NEW q \in Seq(S), NEW K, NEW L,
           \A x \in ToSet(q) : x \in K <=> x \in L
    PROVE  Only(q, K) = Only(q, L)
<1> DEFINE N == Len(q)
<1>1. N \in Nat /\ DOMAIN q = 1..N /\ \A i \in 1..N : q[i] \in K <=> q[i] \in L
  BY DEF ToSet
<1>2. PICK f : Sifts(f, S, q, K)
  BY OnlyFacts
<1>3. PICK g : Sifts(g, S, q, L)
  BY OnlyFacts
<1>4. /\ f[0] = g[0] /\ Only(q, K) = f[N] /\ Only(q, L) = g[N]
      /\ \A k \in 1..N : f[k] = IF q[k] \in K THEN Append(f[k - 1], q[k]) ELSE f[k - 1]
      /\ \A k \in 1..N : g[k] = IF q[k] \in K THEN Append(g[k - 1], q[k]) ELSE g[k - 1]
  BY <1>1, <1>2, <1>3 DEF Sifts
<1> HIDE DEF N
<1> DEFINE Good == {k \in Nat : k \in 0..N => f[k] = g[k]}
<1>5. 0 \in Good
  BY <1>4
<1>6. ASSUME NEW k \in Nat, k \in Good
      PROVE  k + 1 \in Good
  <2> SUFFICES ASSUME k + 1 \in 0..N PROVE f[k + 1] = g[k + 1]
    OBVIOUS
  <2>1. k + 1 \in 1..N /\ k \in 0..N /\ (k + 1) - 1 = k
    BY <1>1
  <2> QED
    BY <1>4, <1>6, <2>1
<1> HIDE DEF Good
<1>7. Nat \subseteq Good
  BY <1>5, <1>6, Induct
<1> QED
  BY <1>1, <1>4, <1>7 DEF Good

\* One element more, at either end.
LEMMA OnlyOne ==
    ASSUME NEW S, NEW x \in S, NEW K
    PROVE  Only(<<x>>, K) = IF x \in K THEN <<x>> ELSE <<>>
<1> DEFINE q == <<x>>
<1>1. q \in Seq(S) /\ ToSet(q) = {x}
  BY DEF ToSet
<1> HIDE DEF q
<1>2. Only(q, K) = IF x \in K THEN q ELSE <<>>
  BY <1>1, OnlyAll
<1> QED
  BY <1>2 DEF q

LEMMA OnlyAppend ==
    ASSUME NEW S, NEW q \in Seq(S), NEW x \in S, NEW K
    PROVE  Only(Append(q, x), K) = IF x \in K THEN Append(Only(q, K), x) ELSE Only(q, K)
<1> DEFINE e == <<x>>
           a == Only(q, K)
<1>1. e \in Seq(S) /\ Append(q, x) = q \o e
  OBVIOUS
<1>2. a \in Seq(S)
  BY OnlyRange
<1>3. a \o e = Append(a, x) /\ a \o <<>> = a
  <2> HIDE DEF a
  <2> QED
    BY <1>2, ConcatEmptySeq
<1>4. Only(e, K) = IF x \in K THEN e ELSE <<>>
  BY OnlyOne
<1> HIDE DEF e
<1>5. Only(q \o e, K) = Only(q, K) \o Only(e, K)
  BY <1>1, OnlyConcat, SMT
<1> QED
  BY <1>1, <1>3, <1>4, <1>5

LEMMA OnlyHead ==
    ASSUME NEW S, NEW q \in Seq(S), q # <<>>, NEW K
    PROVE  Only(q, K) = IF Head(q) \in K THEN <<Head(q)>> \o Only(Tail(q), K)
                        ELSE Only(Tail(q), K)
<1> DEFINE x == Head(q)
           e == <<x>>
           t == Tail(q)
           b == Only(t, K)
<1>1. x \in S /\ e \in Seq(S) /\ t \in Seq(S)
  OBVIOUS
<1>2. q = e \o t
  <2>1. e \o t \in Seq(S) /\ Len(e \o t) = Len(q) /\ \A i \in 1..Len(q) : (e \o t)[i] = q[i]
    OBVIOUS
  <2> HIDE DEF e, t
  <2> QED
    BY <2>1, SeqEqual
<1>3. Only(e, K) = IF x \in K THEN e ELSE <<>>
  <2> HIDE DEF x
  <2> QED
    BY <1>1, OnlyOne
<1> HIDE DEF x, e, t
<1>4. Only(e \o t, K) = Only(e, K) \o Only(t, K)
  BY <1>1, OnlyConcat, SMT
<1>5. b \in Seq(S)
  BY <1>1, OnlyRange
<1> HIDE DEF b
<1>6. <<>> \o b = b
  BY <1>5, ConcatEmptySeq
<1> QED
  BY <1>2, <1>3, <1>4, <1>6 DEF b, e, x, t

\* A prefix in the sense of the community modules.
LEMMA PrefixOf ==
    ASSUME NEW S, NEW s \in Seq(S), NEW r \in Seq(S), NEW t, s \o r = t
    PROVE  IsPrefix(s, t)
<1>1. /\ t \in Seq(S) /\ Len(t) = Len(s) + Len(r) /\ Len(s) \in Nat /\ Len(r) \in Nat
      /\ \A i \in 1..Len(s) : t[i] = s[i] /\ s[i] \in S
  <2>1. Len(s) \in Nat /\ Len(r) \in Nat /\ \A i \in 1..Len(s) : s[i] \in S
    OBVIOUS
  <2>2. /\ t \in Seq(S) /\ Len(t) = Len(s) + Len(r)
        /\ \A i \in 1..(Len(s) + Len(r)) :
             t[i] = IF i <= Len(s) THEN s[i] ELSE r[i - Len(s)]
    BY ConcatProperties
  <2>3. ASSUME NEW i \in 1..Len(s) PROVE t[i] = s[i]
    <3>1. i \in 1..(Len(s) + Len(r)) /\ i <= Len(s)
      BY <2>1
    <3> QED
      BY <2>2, <3>1
  <2> QED
    BY <2>1, <2>2, <2>3
<1> DEFINE a == SubSeq(s, 1, Len(s))
           b == SubSeq(t, 1, Len(s))
<1>2. /\ a \in Seq(S) /\ Len(a) = Len(s) /\ \A i \in 1..Len(s) : a[i] = s[i]
      /\ b \in Seq(S) /\ Len(b) = Len(s) /\ \A i \in 1..Len(s) : b[i] = t[i]
  BY <1>1
<1> HIDE DEF a, b
<1>3. a = b
  BY <1>1, <1>2, SeqEqual
<1> QED
  BY <1>1, <1>3 DEF IsPrefix, a, b

\* The part of `parts` at j is all in K, and no other has anything of K.
OnlyPart(parts, K, j) ==
    \A i \in DOMAIN parts : IF i = j THEN ToSet(parts[i]) \subseteq K
                            ELSE ToSet(parts[i]) \cap K = {}

\* What is taken out of a flattened sequence is then that part.
LEMMA OnlyFlatten ==
    ASSUME NEW S, NEW parts \in Seq(Seq(S)), NEW K, NEW j, OnlyPart(parts, K, j)
    PROVE  Only(FlattenSeq(parts), K) = IF j \in DOMAIN parts THEN parts[j] ELSE <<>>
<1> DEFINE N == Len(parts)
<1>1. N \in Nat /\ DOMAIN parts = 1..N /\ \A i \in 1..N : parts[i] \in Seq(S)
  OBVIOUS
<1>2. PICK f : Flattens(f, S, parts)
  BY FlattenFacts
<1>3. /\ f \in [0..N -> Seq(S)] /\ f[0] = <<>> /\ FlattenSeq(parts) = f[N]
      /\ \A k \in 1..N : f[k] = f[k - 1] \o parts[k]
  BY <1>2 DEF Flattens
<1> HIDE DEF N
<1>4. ASSUME NEW k \in 1..N
      PROVE  Only(parts[k], K) = IF k = j THEN parts[k] ELSE <<>>
  BY <1>1, OnlyAll DEF OnlyPart
<1> DEFINE Good == {k \in Nat : k \in 0..N =>
                      Only(f[k], K) = IF j \in 1..k THEN parts[j] ELSE <<>>}
<1>5. 0 \in Good
  <2>1. <<>> \in Seq(S) /\ ToSet(<<>>) = {} /\ 1..0 = {}
    BY DEF ToSet
  <2> DEFINE e == <<>>
  <2>2. e \in Seq(S) /\ ToSet(e) \cap K = {}
    BY <2>1
  <2> HIDE DEF e
  <2>3. Only(e, K) = <<>>
    BY <2>2, OnlyAll
  <2> QED
    BY <1>3, <2>1, <2>3 DEF e
<1>6. ASSUME NEW k \in Nat, k \in Good
      PROVE  k + 1 \in Good
  <2> SUFFICES ASSUME k + 1 \in 0..N
               PROVE  Only(f[k + 1], K) = IF j \in 1..(k + 1) THEN parts[j] ELSE <<>>
    OBVIOUS
  <2>1. k + 1 \in 1..N /\ k \in 0..N /\ (k + 1) - 1 = k
        /\ 1..(k + 1) = (1..k) \cup {k + 1} /\ k + 1 \notin 1..k
    BY <1>1
  <2> DEFINE u == f[k]
             v == parts[k + 1]
             a == Only(u, K)
             b == Only(v, K)
  <2>2. u \in Seq(S) /\ v \in Seq(S)
        /\ a = (IF j \in 1..k THEN parts[j] ELSE <<>>)
        /\ b = (IF k + 1 = j THEN v ELSE <<>>)
    BY <1>1, <1>3, <1>4, <1>6, <2>1
  <2>3. f[k + 1] = u \o v
    BY <1>3, <2>1
  <2> HIDE DEF u, Good
  <2>4. Only(u \o v, K) = a \o b
    <3> HIDE DEF v, a, b
    <3>1. u \in Seq(S) /\ v \in Seq(S)
      BY <2>2
    <3>2. Only(u \o v, K) = Only(u, K) \o Only(v, K)
      BY <3>1, OnlyConcat, SMT
    <3> QED
      BY <3>2 DEF a, b
  <2>5. a \in Seq(S) /\ b \in Seq(S)
    <3> HIDE DEF v
    <3> QED
      BY <2>2, OnlyRange
  <2> HIDE DEF a, b
  <2>6. a \o <<>> = a /\ <<>> \o b = b
    BY <2>5, ConcatEmptySeq
  <2>7. CASE k + 1 = j
    <3>1. a = <<>> /\ b = v /\ j \in 1..(k + 1)
      BY <2>1, <2>2, <2>7
    <3> QED
      BY <2>3, <2>4, <2>6, <2>7, <3>1
  <2>8. CASE k + 1 # j
    <3>1. b = <<>> /\ (j \in 1..(k + 1) <=> j \in 1..k)
      BY <2>1, <2>2, <2>8
    <3> QED
      BY <2>2, <2>3, <2>4, <2>6, <3>1
  <2> QED
    BY <2>7, <2>8
<1> HIDE DEF Good
<1>7. Nat \subseteq Good
  BY <1>5, <1>6, Induct
<1>8. Only(f[N], K) = IF j \in 1..N THEN parts[j] ELSE <<>>
  BY <1>1, <1>7 DEF Good
<1> QED
  BY <1>1, <1>3, <1>8

\* A finite set is listed by every sequence of SetToSeqs.
LEMMA ListsAll ==
    ASSUME NEW S, IsFiniteSet(S), NEW q \in SetToSeqs(S)
    PROVE  /\ q \in Seq(S) /\ Len(q) = Cardinality(S)
           /\ DOMAIN q = 1..Cardinality(S)
           /\ \A i, j \in DOMAIN q : q[i] = q[j] => i = j
           /\ \A x \in S : \E i \in DOMAIN q : q[i] = x
           /\ ToSet(q) = S
<1> DEFINE n == Cardinality(S)
<1>1. n \in Nat
  BY FS_CardinalityType
<1>2. /\ q \in [1..n -> S]
      /\ \A i, j \in 1..n : i # j => q[i] # q[j]
  BY DEF SetToSeqs
<1>3. q \in Injection(1..n, S)
  BY <1>2 DEF Injection, IsInjective
<1>4. Cardinality(1..n) = n
  <2> HIDE DEF n
  <2> QED
    BY <1>1, FS_Interval
<1>5. q \in Surjection(1..n, S)
  BY <1>3, <1>4, FS_Injection
<1>6. \A x \in S : \E i \in 1..n : q[i] = x
  BY <1>5 DEF Surjection
<1> HIDE DEF n
<1>7. q \in Seq(S) /\ Len(q) = n /\ DOMAIN q = 1..n
  BY <1>1, <1>2
<1> QED
  BY <1>2, <1>6, <1>7 DEF n, ToSet

\* A bounded set of positive naturals can be listed in ascending order.
LEMMA AscendingExists ==
    ASSUME NEW b \in Nat, NEW S \in SUBSET (1..b)
    PROVE  \E q \in SetToSeqs(S) :
             \A i, j \in DOMAIN q : i < j => q[i] < q[j]
<1> DEFINE Up(q) == \A i, j \in DOMAIN q : i < j => q[i] < q[j]
           Good  == {n \in Nat : \A T \in SUBSET (1..n) :
                                   \E q \in SetToSeqs(T) : Up(q)}
<1>1. 0 \in Good
  <2>1. \A T \in SUBSET (1..0) : T = {}
    OBVIOUS
  <2>2. Cardinality({}) = 0
    BY FS_EmptySet
  <2>3. <<>> \in SetToSeqs({}) /\ Up(<<>>)
    BY <2>2 DEF SetToSeqs
  <2> QED
    BY <2>1, <2>3
<1>2. ASSUME NEW n \in Nat, n \in Good, NEW T \in SUBSET (1..(n + 1))
      PROVE  \E q \in SetToSeqs(T) : Up(q)
  <2>1. CASE n + 1 \notin T
    <3>1. T \in SUBSET (1..n)
      BY <2>1
    <3> QED
      BY <3>1, <1>2
  <2>2. CASE n + 1 \in T
    <3> DEFINE R == T \ {n + 1}
    <3>1. R \in SUBSET (1..n)
      OBVIOUS
    <3>2. PICK q \in SetToSeqs(R) : Up(q)
      BY <3>1, <1>2
    <3> DEFINE k == Cardinality(R)
    <3>3. IsFiniteSet(R) /\ k \in Nat
      <4>1. IsFiniteSet(1..n)
        BY FS_Interval
      <4>2. IsFiniteSet(R)
        BY <4>1, <3>1, FS_Subset
      <4> QED
        BY <4>2, FS_CardinalityType
    <3>4. Cardinality(T) = k + 1
      <4>1. T = R \cup {n + 1} /\ n + 1 \notin R
        BY <2>2
      <4> HIDE DEF R
      <4> QED
        BY <4>1, <3>3, FS_AddElement
    <3>5. q \in [1..k -> R] /\ \A i, j \in 1..k : i # j => q[i] # q[j]
      BY <3>2 DEF SetToSeqs
    <3> HIDE DEF k
    <3>6. DOMAIN q = 1..k /\ \A i \in 1..k : q[i] \in R /\ q[i] \in T /\ q[i] < n + 1
      <4>1. \A x \in R : x \in T /\ x < n + 1
        OBVIOUS
      <4> HIDE DEF R
      <4> QED
        BY <3>5, <4>1
    <3> HIDE DEF R
    <3> DEFINE r == [i \in 1..(k + 1) |-> IF i = k + 1 THEN n + 1 ELSE q[i]]
    <3>7. r \in [1..(k + 1) -> T]
      BY <2>2, <3>3, <3>6
    <3>8. \A i, j \in 1..(k + 1) : i < j => r[i] < r[j]
      <4> TAKE i, j \in 1..(k + 1)
      <4> HAVE i < j
      <4>1. i \in 1..k /\ r[i] = q[i]
        BY <3>3
      <4>2. CASE j = k + 1
        BY <4>1, <4>2, <3>6
      <4>3. CASE j # k + 1
        <5>1. j \in 1..k /\ r[j] = q[j]
          BY <4>3, <3>3
        <5> QED
          BY <4>1, <5>1, <3>2, <3>6
      <4> QED
        BY <4>2, <4>3
    <3>9. \A i, j \in 1..(k + 1) : i # j => r[i] # r[j]
      <4> TAKE i, j \in 1..(k + 1)
      <4> HAVE i # j
      <4>1. r[i] \in Nat /\ r[j] \in Nat
        <5> HIDE DEF r
        <5>1. r[i] \in T /\ r[j] \in T
          BY <3>7
        <5>2. \A x \in T : x \in Nat
          OBVIOUS
        <5> QED
          BY <5>1, <5>2
      <4>2. i < j \/ j < i
        BY <3>3
      <4> HIDE DEF r
      <4> QED
        BY <4>1, <4>2, <3>8
    <3>10. DOMAIN r = 1..(k + 1)
      OBVIOUS
    <3> HIDE DEF r
    <3>11. r \in SetToSeqs(T)
      BY <3>4, <3>7, <3>9 DEF SetToSeqs
    <3>12. Up(r)
      BY <3>8, <3>10
    <3> QED
      BY <3>11, <3>12
  <2> QED
    BY <2>1, <2>2
<1>3. \A n \in Nat : n \in Good => n + 1 \in Good
  <2> HIDE DEF Up
  <2> QED
    BY <1>2
<1> HIDE DEF Good
<1>4. Nat \subseteq Good
  BY <1>1, <1>3, Induct
<1> QED
  BY <1>4 DEF Good

\* One part more at the end, or at the front, of what is flattened.
LEMMA FlattenAppend ==
    ASSUME NEW S, NEW parts \in Seq(Seq(S)), NEW p \in Seq(S)
    PROVE  /\ FlattenSeq(parts) \in Seq(S)
           /\ FlattenSeq(Append(parts, p)) = FlattenSeq(parts) \o p
<1>. PICK N : N = Len(parts)
  OBVIOUS
<1>. PICK more : more = Append(parts, p)
  OBVIOUS
<1>1. /\ N \in Nat /\ more \in Seq(Seq(S)) /\ Len(more) = N + 1
      /\ \A i \in 1..N : more[i] = parts[i]
      /\ more[N + 1] = p
  OBVIOUS
<1>2. PICK f : Flattens(f, S, parts)
  BY FlattenFacts
<1>3. PICK g : Flattens(g, S, more)
  BY ONLY <1>1, FlattenFacts
<1>4. /\ f[0] = <<>> /\ FlattenSeq(parts) = f[N] /\ f \in [0..N -> Seq(S)]
      /\ \A k \in 1..N : f[k] = f[k - 1] \o parts[k]
  BY <1>2 DEF Flattens
<1>5. /\ g[0] = <<>> /\ FlattenSeq(more) = g[N + 1]
      /\ \A k \in 1..(N + 1) : g[k] = g[k - 1] \o more[k]
  BY <1>1, <1>3 DEF Flattens
<1> DEFINE Same == {k \in Nat : g[k] = f[k]}
<1>6. 0 \in Same
  BY <1>4, <1>5
<1>7. ASSUME NEW k \in 0..(N - 1), k \in Same
      PROVE  k + 1 \in Same
  <2>1. k + 1 \in 1..N /\ k + 1 \in 1..(N + 1) /\ (k + 1) - 1 = k /\ k + 1 \in Nat
    BY <1>1
  <2>2. g[k + 1] = g[k] \o more[k + 1] /\ f[k + 1] = f[k] \o parts[k + 1]
    BY <1>4, <1>5, <2>1
  <2> QED
    BY <1>1, <1>7, <2>1, <2>2
<1>8. 0..N \subseteq Same
  <2> HIDE DEF Same
  <2> QED
    BY <1>1, <1>6, <1>7, UpTo
<1>9. g[N] = f[N]
  BY <1>1, <1>8
<1>10. g[N + 1] = g[N] \o p
  <2>1. N + 1 \in 1..(N + 1) /\ (N + 1) - 1 = N
    BY <1>1
  <2> QED
    BY <1>1, <1>5, <2>1
<1>11. f[N] \in Seq(S)
  BY <1>1, <1>4
<1> QED
  BY <1>4, <1>5, <1>9, <1>10, <1>11

LEMMA FlattenCons ==
    ASSUME NEW S, NEW parts \in Seq(Seq(S)), NEW p \in Seq(S), NEW more,
           more \in Seq(Seq(S)), Len(more) = Len(parts) + 1, more[1] = p,
           \A i \in 1..Len(parts) : more[i + 1] = parts[i]
    PROVE  FlattenSeq(more) = p \o FlattenSeq(parts)
<1>. PICK N : N = Len(parts)
  OBVIOUS
<1>1. /\ N \in Nat /\ Len(more) = N + 1
      /\ \A i \in 1..N : more[i + 1] = parts[i] /\ parts[i] \in Seq(S)
  OBVIOUS
<1>2. PICK f : Flattens(f, S, parts)
  BY FlattenFacts
<1>3. PICK g : Flattens(g, S, more)
  BY FlattenFacts
<1>4. /\ f[0] = <<>> /\ FlattenSeq(parts) = f[N] /\ f \in [0..N -> Seq(S)]
      /\ \A k \in 1..N : f[k] = f[k - 1] \o parts[k]
  BY <1>2 DEF Flattens
<1>5. /\ g[0] = <<>> /\ FlattenSeq(more) = g[N + 1]
      /\ \A k \in 1..(N + 1) : g[k] = g[k - 1] \o more[k]
  BY <1>1, <1>3 DEF Flattens
<1> DEFINE Same == {k \in Nat : g[k + 1] = p \o f[k]}
<1>6. 0 \in Same
  <2>1. 1 \in 1..(N + 1) /\ 1 - 1 = 0 /\ 0 + 1 = 1
    BY <1>1
  <2>2. g[1] = g[0] \o p
    BY <1>5, <2>1
  <2>3. <<>> \o p = p /\ p \o <<>> = p
    BY ConcatEmptySeq
  <2> QED
    BY <1>4, <1>5, <2>1, <2>2, <2>3
<1>7. ASSUME NEW k \in 0..(N - 1), k \in Same
      PROVE  k + 1 \in Same
  <2>1. /\ k + 1 \in 1..N /\ k + 2 \in 1..(N + 1) /\ (k + 1) - 1 = k /\ k + 1 \in Nat
        /\ (k + 2) - 1 = k + 1 /\ k \in 0..N /\ (k + 1) + 1 = k + 2
    BY <1>1
  <2>2. g[k + 2] = g[k + 1] \o more[k + 2] /\ f[k + 1] = f[k] \o parts[k + 1]
    BY <1>4, <1>5, <2>1
  <2>3. g[k + 1] = p \o f[k]
    BY <1>7
  <2>4. more[k + 2] = parts[k + 1]
    BY <1>1, <2>1
  <2>5. f[k] \in Seq(S) /\ parts[k + 1] \in Seq(S)
    BY <1>1, <1>4, <2>1
  <2>6. (p \o f[k]) \o parts[k + 1] = p \o (f[k] \o parts[k + 1])
    <3>1. Associates(p, f[k], parts[k + 1])
      BY ONLY <2>5, p \in Seq(S), ConcatAssociates
    <3> QED
      BY ONLY <3>1 DEF Associates
  <2>7. g[k + 2] = p \o f[k + 1]
    BY ONLY <2>2, <2>3, <2>4, <2>6
  <2> QED
    BY ONLY <2>1, <2>7
<1>8. 0..N \subseteq Same
  <2> HIDE DEF Same
  <2> QED
    BY <1>1, <1>6, <1>7, UpTo
<1>9. g[N + 1] = p \o f[N]
  <2>1. N \in 0..N
    BY <1>1
  <2>2. N \in Same
    BY ONLY <1>8, <2>1
  <2> QED
    BY ONLY <2>2
<1> QED
  BY <1>4, <1>5, <1>9
=============================================================================
