--------------------------- MODULE ScanRunner_proofs ---------------------------
(***************************************************************************)
(* Proofs about the scan runner, for every plan, number of workers, number *)
(* of interrupts and behaviour of the step threads: its verdicts, what its *)
(* caller may rely on (ScanRefinement), and the commands (CommandLine).    *)
(***************************************************************************)
EXTENDS CommandLine, FiniteSetTheorems, TLAPS

-----------------------------------------------------------------------------
(* Induction, and lists *)

\* Every set of naturals has a least element: what the proofs by induction below rest on.
LEMMA LeastNat ==
  ASSUME NEW T, T \subseteq Nat, T # {}
  PROVE  \E x \in T : \A y \in T : x <= y
<1>1. IsWellFoundedOn(OpToRel(<, Nat), Nat)
  BY NatLessThanWellFounded
<1>2. PICK x \in T : \A y \in T : <<y, x>> \notin OpToRel(<, Nat)
  BY <1>1, WFMin
<1>3. ASSUME NEW y \in T PROVE ~(y < x)
  <2>1. <<y, x>> \in Nat \X Nat
    OBVIOUS
  <2> QED BY <1>2, <2>1 DEF OpToRel
<1> QED BY <1>3

\* So a set of naturals that holds 0, and the successor of each it holds, holds them all.
LEMMA SetInduction ==
  ASSUME NEW T, T \subseteq Nat, 0 \in T, \A n \in T : n + 1 \in T
  PROVE  \A n \in Nat : n \in T
<1> SUFFICES ASSUME NEW n \in Nat, n \notin T PROVE FALSE
  OBVIOUS
<1>1. PICK m \in Nat \ T : \A k \in Nat \ T : m <= k
  BY LeastNat
<1>2. m - 1 \in Nat /\ m - 1 \in T
  BY <1>1
<1> QED BY <1>1, <1>2

\* f is the function on 0..N with value base at 0, and step[i] applied to its last value at i.
Defines(f, N, S, base, step) ==
    f \in [0..N -> S] /\ f[0] = base /\ \A i \in 1..N : f[i] = step[i][f[i - 1]]

Definable(N, S, base, step) == \E f : Defines(f, N, S, base, step)

\* There is such a function.
LEMMA Recursion ==
  ASSUME NEW N \in Nat, NEW S, NEW base \in S, NEW step \in [1..N -> [S -> S]]
  PROVE  Definable(N, S, base, step)
<1> DEFINE T == {n \in Nat : n <= N => Definable(n, S, base, step)}
<1>1. 0 \in T
  <2> DEFINE f == [i \in 0..0 |-> base]
  <2>1. f \in [0..0 -> S] /\ f[0] = base /\ 1..0 = {}
    OBVIOUS
  <2>2. Definable(0, S, base, step)
    <3> HIDE DEF f
    <3> QED BY <2>1 DEF Defines, Definable
  <2> QED BY <2>2
<1>2. ASSUME NEW n \in T PROVE n + 1 \in T
  <2> SUFFICES ASSUME n + 1 <= N PROVE Definable(n + 1, S, base, step)
    OBVIOUS
  <2>1. PICK f : Defines(f, n, S, base, step)
    BY DEF Definable
  <2> DEFINE g == [i \in 0..(n + 1) |-> IF i <= n THEN f[i] ELSE step[n + 1][f[n]]]
  <2>2. g \in [0..(n + 1) -> S]
    BY <2>1 DEF Defines
  <2>3. g[0] = base
    BY <2>1 DEF Defines
  <2>4. ASSUME NEW i \in 1..(n + 1) PROVE g[i] = step[i][g[i - 1]]
    <3>1. CASE i = n + 1
      <4>1. g[i] = step[n + 1][f[n]] /\ g[i - 1] = f[n]
        BY <3>1
      <4> QED BY <3>1, <4>1
    <3>2. CASE i <= n
      <4>1. g[i] = f[i] /\ g[i - 1] = f[i - 1] /\ i \in 1..n
        BY <3>2
      <4> QED BY <2>1, <4>1 DEF Defines
    <3> QED BY <3>1, <3>2
  <2>5. Defines(g, n + 1, S, base, step)
    <3> HIDE DEF g
    <3> QED BY <2>2, <2>3, <2>4 DEF Defines
  <2> QED BY <2>5 DEF Definable
<1>3. \A n \in Nat : n \in T
  <2> HIDE DEF T
  <2>1. T \subseteq Nat
    BY DEF T
  <2> QED BY <1>1, <1>2, <2>1, SetInduction
<1> QED BY <1>3

\* A function that follows a recursion step by step as long as it stays in S is defined by it.
LEMMA FollowsRecursion ==
  ASSUME NEW N \in Nat, NEW S, NEW F, F = [i \in 0..N |-> F[i]], F[0] \in S,
         \A i \in 1..N : F[i - 1] \in S => F[i] \in S
  PROVE  F \in [0..N -> S]
<1> DEFINE T == {n \in Nat : n <= N => F[n] \in S}
<1>1. 0 \in T
  OBVIOUS
<1>2. ASSUME NEW n \in T PROVE n + 1 \in T
  <2>1. CASE n + 1 <= N
    <3>1. n + 1 \in 1..N /\ n + 1 - 1 = n /\ F[n] \in S
      BY <2>1
    <3>2. F[n + 1 - 1] \in S => F[n + 1] \in S
      BY <3>1
    <3> QED BY <3>1, <3>2
  <2> QED BY <2>1
<1>3. \A n \in Nat : n \in T
  <2> HIDE DEF T
  <2>1. T \subseteq Nat
    BY DEF T
  <2> QED BY <1>1, <1>2, <2>1, SetInduction
<1>4. \A n \in 0..N : F[n] \in S
  BY <1>3
<1> QED BY <1>4

\* What Only has made of a list's first entries.
OnlyUpTo(F, list, K) ==
    /\ F[0] = <<>>
    /\ \A i \in 1..Len(list) :
          F[i] = IF list[i] \in K THEN Append(F[i - 1], list[i]) ELSE F[i - 1]

\* Only is that recursion, for any list.
LEMMA OnlyUnfolds ==
  ASSUME NEW S, NEW list \in Seq(S), NEW K
  PROVE  \E F \in [0..Len(list) -> Seq(S)] : OnlyUpTo(F, list, K) /\ Only(list, K) = F[Len(list)]
<1> DEFINE N == Len(list)
           Go(i, x) == IF list[i] \in K THEN Append(x, list[i]) ELSE x
           IsF(F) == F = [i \in 0..N |-> IF i = 0 THEN <<>> ELSE Go(i, F[i - 1])]
           step == [i \in 1..N |-> [x \in Seq(S) |-> Go(i, x)]]
           F == CHOOSE F : IsF(F)
<1>1. N \in Nat /\ <<>> \in Seq(S)
  OBVIOUS
<1>2. \A i \in 1..N, x \in Seq(S) : Go(i, x) \in Seq(S)
  OBVIOUS
<1>3. Only(list, K) = F[N]
  BY DEF Only
<1> HIDE DEF N, Go, F
<1>4. step \in [1..N -> [Seq(S) -> Seq(S)]]
  BY <1>2
<1>5. PICK f : Defines(f, N, Seq(S), <<>>, step)
  <2> HIDE DEF step
  <2>1. Definable(N, Seq(S), <<>>, step)
    BY <1>1, <1>4, Recursion
  <2> QED BY <2>1 DEF Definable
<1>6. IsF(f)
  <2>1. ASSUME NEW i \in 1..N PROVE f[i] = Go(i, f[i - 1])
    <3>1. i - 1 \in 0..N
      BY <1>1
    <3>2. f[i - 1] \in Seq(S)
      BY <1>5, <3>1 DEF Defines
    <3> QED BY <1>5, <3>2 DEF Defines
  <2> QED BY <1>1, <1>5, <2>1 DEF Defines
<1>7. IsF(F)
  BY <1>6 DEF F
<1>8. F[0] = <<>> /\ \A i \in 1..N : F[i] = Go(i, F[i - 1])
  BY <1>1, <1>7
<1>9. F = [i \in 0..N |-> F[i]]
  BY <1>7
<1>10. F \in [0..N -> Seq(S)]
  <2> DEFINE D == Seq(S)
  <2>1. F[0] \in D /\ \A i \in 1..N : F[i - 1] \in D => F[i] \in D
    BY <1>1, <1>2, <1>8
  <2> HIDE DEF D
  <2>2. F \in [0..N -> D]
    BY <1>1, <1>9, <2>1, FollowsRecursion
  <2> QED BY <2>2 DEF D
<1> QED BY <1>3, <1>8, <1>10 DEF N, Go, OnlyUpTo

\* Nothing of an empty list; and a list of entries of the same type.
LEMMA OnlyTyped ==
  ASSUME NEW S, NEW list \in Seq(S), NEW K
  PROVE  Only(list, K) \in Seq(S) /\ Only(<<>>, K) = <<>>
<1>1. PICK F \in [0..Len(list) -> Seq(S)] : Only(list, K) = F[Len(list)]
  BY OnlyUnfolds
<1>2. <<>> \in Seq(S) /\ Len(<<>>) = 0 /\ Len(list) \in 0..Len(list)
  OBVIOUS
<1>3. PICK E \in [0..Len(<<>>) -> Seq(S)] : OnlyUpTo(E, <<>>, K) /\ Only(<<>>, K) = E[Len(<<>>)]
  BY <1>2, OnlyUnfolds
<1>4. Only(<<>>, K) = <<>>
  BY <1>2, <1>3 DEF OnlyUpTo
<1> QED BY <1>1, <1>2, <1>4

\* Of a longer list: what is in it before its last entry, and that entry if it is in the set.
LEMMA OnlyAppend ==
  ASSUME NEW S, NEW list \in Seq(S), NEW x \in S, NEW K
  PROVE  Only(Append(list, x), K) = IF x \in K THEN Append(Only(list, K), x) ELSE Only(list, K)
<1> DEFINE longer == Append(list, x)
           N == Len(list)
<1>0. <<>> \in Seq(S) /\ longer \in Seq(S) /\ Len(longer) = N + 1 /\ N \in Nat
      /\ longer[N + 1] = x /\ \A i \in 1..N : longer[i] = list[i]
  OBVIOUS
<1>1. PICK F \in [0..N -> Seq(S)] : OnlyUpTo(F, list, K) /\ Only(list, K) = F[N]
  BY OnlyUnfolds
<1> HIDE DEF longer, N
<1>2. PICK G \in [0..Len(longer) -> Seq(S)] :
          OnlyUpTo(G, longer, K) /\ Only(longer, K) = G[Len(longer)]
  BY <1>0, OnlyUnfolds
<1>5. F[0] = <<>> /\ \A i \in 1..N :
          F[i] = IF list[i] \in K THEN Append(F[i - 1], list[i]) ELSE F[i - 1]
  BY <1>1 DEF OnlyUpTo, N
<1>6. G[0] = <<>> /\ \A i \in 1..(N + 1) :
          G[i] = IF longer[i] \in K THEN Append(G[i - 1], longer[i]) ELSE G[i - 1]
  BY <1>0, <1>2 DEF OnlyUpTo
<1>7. \A n \in Nat : n <= N => G[n] = F[n]
  <2> DEFINE T == {n \in Nat : n <= N => G[n] = F[n]}
  <2>1. 0 \in T
    BY <1>5, <1>6
  <2>2. ASSUME NEW n \in T PROVE n + 1 \in T
    <3> SUFFICES ASSUME n + 1 <= N PROVE G[n + 1] = F[n + 1]
      OBVIOUS
    <3>1. n + 1 \in 1..N /\ n + 1 \in 1..(N + 1) /\ n + 1 - 1 = n /\ G[n] = F[n]
      BY <1>0
    <3>2. longer[n + 1] = list[n + 1]
      BY <1>0, <3>1
    <3>3. F[n + 1] = IF list[n + 1] \in K THEN Append(F[n], list[n + 1]) ELSE F[n]
      BY <1>5, <3>1
    <3>4. G[n + 1] = IF longer[n + 1] \in K THEN Append(G[n], longer[n + 1]) ELSE G[n]
      BY <1>6, <3>1
    <3> QED BY <3>1, <3>2, <3>3, <3>4
  <2>3. \A n \in Nat : n \in T
    <3> HIDE DEF T
    <3>1. T \subseteq Nat
      BY DEF T
    <3> QED BY <2>1, <2>2, <3>1, SetInduction
  <2> QED BY <2>3
<1>8. G[N] = F[N] /\ F[N] \in Seq(S)
  BY <1>0, <1>1, <1>7 DEF N
<1>9. G[N + 1] = IF x \in K THEN Append(G[N], x) ELSE G[N]
  <2>1. N + 1 \in 1..(N + 1) /\ N + 1 - 1 = N
    BY <1>0
  <2>2. ASSUME NEW i \in 1..(N + 1), i = N + 1
        PROVE G[i] = IF x \in K THEN Append(G[N], x) ELSE G[N]
    <3>1. G[i] = IF longer[i] \in K THEN Append(G[i - 1], longer[i]) ELSE G[i - 1]
      BY <1>6
    <3>2. i - 1 = N /\ longer[i] = x
      BY <1>0, <2>2
    <3> QED BY <3>1, <3>2
  <2> QED BY <2>1, <2>2
<1>10. Only(longer, K) = G[N + 1]
  BY <1>0, <1>2
<1> QED BY <1>1, <1>8, <1>9, <1>10 DEF longer

\* Induction over the lists of a set.
LEMMA ListInduction ==
  ASSUME NEW S, NEW T, <<>> \in T, \A list \in Seq(S) \cap T, x \in S : Append(list, x) \in T
  PROVE  \A list \in Seq(S) : list \in T
<1> DEFINE L == {n \in Nat : \A list \in Seq(S) : Len(list) = n => list \in T}
<1>1. 0 \in L
  OBVIOUS
<1>2. ASSUME NEW n \in L PROVE n + 1 \in L
  <2> SUFFICES ASSUME NEW list \in Seq(S), Len(list) = n + 1 PROVE list \in T
    OBVIOUS
  <2> DEFINE front == SubSeq(list, 1, n)
  <2>1. front \in Seq(S) /\ Len(front) = n /\ list[n + 1] \in S /\ list = Append(front, list[n + 1])
    OBVIOUS
  <2> HIDE DEF front
  <2>2. front \in T
    BY <2>1
  <2> QED BY <2>1, <2>2
<1>3. \A n \in Nat : n \in L
  <2> HIDE DEF L
  <2>1. L \subseteq Nat
    BY DEF L
  <2> QED BY <1>1, <1>2, <2>1, SetInduction
<1> QED BY <1>3


\* Only of two lists, one after the other.
LEMMA OnlyConcat ==
  ASSUME NEW S, NEW a \in Seq(S), NEW K
  PROVE  \A b \in Seq(S) : Only(a \o b, K) = Only(a, K) \o Only(b, K)
<1> DEFINE T == {b \in Seq(S) : Only(a \o b, K) = Only(a, K) \o Only(b, K)}
<1>0. Only(a, K) \in Seq(S)
  BY OnlyTyped
<1>1. <<>> \in T
  <2>1. a \o <<>> = a /\ <<>> \in Seq(S)
    OBVIOUS
  <2>2. Only(a, K) \o <<>> = Only(a, K)
    BY <1>0
  <2>3. Only(<<>>, K) = <<>>
    BY OnlyTyped
  <2> QED BY <2>1, <2>2, <2>3
<1>2. ASSUME NEW b \in Seq(S) \cap T, NEW x \in S PROVE Append(b, x) \in T
  <2>1. Append(b, x) \in Seq(S) /\ a \o b \in Seq(S) /\ a \o Append(b, x) = Append(a \o b, x)
    OBVIOUS
  <2>2. Only(b, K) \in Seq(S)
    BY OnlyTyped
  <2>3. Only(a, K) \o Append(Only(b, K), x) = Append(Only(a, K) \o Only(b, K), x)
    BY <1>0, <2>2
  <2>4. Only(Append(b, x), K) = IF x \in K THEN Append(Only(b, K), x) ELSE Only(b, K)
    BY OnlyAppend
  <2>5. Only(Append(a \o b, x), K)
          = IF x \in K THEN Append(Only(a \o b, K), x) ELSE Only(a \o b, K)
    <3> DEFINE ab == a \o b
    <3>1. ab \in Seq(S)
      BY <2>1
    <3> HIDE DEF ab
    <3>2. Only(Append(ab, x), K) = IF x \in K THEN Append(Only(ab, K), x) ELSE Only(ab, K)
      BY <3>1, OnlyAppend
    <3> QED BY <3>2 DEF ab
  <2> QED BY <2>1, <2>3, <2>4, <2>5
<1>3. \A b \in Seq(S) : b \in T
  <2> HIDE DEF T
  <2> QED BY <1>1, <1>2, ListInduction
<1> QED BY <1>3

\* One more entry, one more member.
LEMMA AppendedSet ==
  ASSUME NEW S, NEW list \in Seq(S), NEW x
  PROVE  ToSet(Append(list, x)) = ToSet(list) \cup {x}
<1> DEFINE longer == Append(list, x)
<1>1. /\ Len(list) \in Nat /\ DOMAIN list = 1..Len(list) /\ DOMAIN longer = 1..(Len(list) + 1)
      /\ longer[Len(list) + 1] = x /\ \A i \in 1..Len(list) : longer[i] = list[i]
  OBVIOUS
<1> HIDE DEF longer
<1>2. ASSUME NEW e \in ToSet(longer) PROVE e \in ToSet(list) \cup {x}
  BY <1>1, <1>2 DEF ToSet
<1>3. ASSUME NEW e \in ToSet(list) PROVE e \in ToSet(longer)
  BY <1>1, <1>3 DEF ToSet
<1>4. x \in ToSet(longer)
  BY <1>1 DEF ToSet
<1> QED BY <1>2, <1>3, <1>4 DEF longer

\* What Only returns is in the set; it is the whole list, or nothing, if all or none of it is.
LEMMA OnlyEntries ==
  ASSUME NEW S, NEW K
  PROVE  \A list \in Seq(S) : /\ Only(list, K) \in Seq(S \cap K)
                              /\ S \subseteq K => Only(list, K) = list
                              /\ (\A x \in S : x \notin K) => Only(list, K) = <<>>
                              /\ ToSet(Only(list, K)) = ToSet(list) \cap K
<1> DEFINE T == {list \in Seq(S) : /\ Only(list, K) \in Seq(S \cap K)
                                   /\ S \subseteq K => Only(list, K) = list
                                   /\ (\A x \in S : x \notin K) => Only(list, K) = <<>>
                                   /\ ToSet(Only(list, K)) = ToSet(list) \cap K}
<1>1. <<>> \in T
  <2>1. <<>> \in Seq(S) /\ <<>> \in Seq(S \cap K) /\ ToSet(<<>>) = {}
    BY DEF ToSet
  <2>2. Only(<<>>, K) = <<>>
    BY <2>1, OnlyTyped
  <2> QED BY <2>1, <2>2
<1>2. ASSUME NEW list \in Seq(S) \cap T, NEW x \in S PROVE Append(list, x) \in T
  <2>1. Only(Append(list, x), K) = IF x \in K THEN Append(Only(list, K), x) ELSE Only(list, K)
    BY OnlyAppend
  <2>2. Append(list, x) \in Seq(S) /\ ToSet(Append(list, x)) = ToSet(list) \cup {x}
    BY AppendedSet
  <2>3. Only(list, K) \in Seq(S \cap K)
    OBVIOUS
  <2>4. x \in K => /\ Append(Only(list, K), x) \in Seq(S \cap K)
                   /\ ToSet(Append(Only(list, K), x)) = ToSet(Only(list, K)) \cup {x}
    BY <2>3, AppendedSet
  <2> QED BY <2>1, <2>2, <2>3, <2>4
<1>3. \A list \in Seq(S) : list \in T
  <2> HIDE DEF T
  <2> QED BY <1>1, <1>2, ListInduction
<1> QED BY <1>3

\* FlattenSeq, unfolded: the lists before the n-th one after the other, and then the n-th.
LEMMA FlattenUnfolds ==
  ASSUME NEW S, NEW seqs \in Seq(Seq(S))
  PROVE  \E f \in [0..Len(seqs) -> Seq(S)] :
            /\ f[0] = <<>>
            /\ \A i \in 1..Len(seqs) : f[i] = f[i - 1] \o seqs[i]
            /\ FlattenSeq(seqs) = f[Len(seqs)]
<1> DEFINE N == Len(seqs)
           IsG(g) == g = [i \in 1..N |-> IF i = 1 THEN seqs[i] ELSE g[i - 1] \o seqs[i]]
           step == [i \in 1..N |-> [x \in Seq(S) |-> x \o seqs[i]]]
           G == CHOOSE g : IsG(g)
           f == [i \in 0..N |-> IF i = 0 THEN <<>> ELSE G[i]]
<1>1. N \in Nat /\ <<>> \in Seq(S) /\ (\A i \in 1..N : seqs[i] \in Seq(S)) /\ (N = 0 => seqs = <<>>)
      /\ \A i \in 1..N : <<>> \o seqs[i] = seqs[i]
  OBVIOUS
<1>2. FlattenSeq(seqs) = IF N = 0 THEN seqs ELSE G[N]
  BY DEF FlattenSeq
<1> HIDE DEF N, G
<1>3. step \in [1..N -> [Seq(S) -> Seq(S)]]
  BY <1>1
<1>4. PICK h : Defines(h, N, Seq(S), <<>>, step)
  <2> HIDE DEF step
  <2>1. Definable(N, Seq(S), <<>>, step)
    BY <1>1, <1>3, Recursion
  <2> QED BY <2>1 DEF Definable
<1>5. \A i \in 1..N : h[i - 1] \in Seq(S) /\ h[i] = h[i - 1] \o seqs[i]
  <2> SUFFICES ASSUME NEW i \in 1..N PROVE h[i - 1] \in Seq(S) /\ h[i] = h[i - 1] \o seqs[i]
    OBVIOUS
  <2>1. i - 1 \in 0..N
    BY <1>1
  <2>2. h[i - 1] \in Seq(S) /\ h[i] = step[i][h[i - 1]]
    BY <1>4, <2>1 DEF Defines
  <2> QED BY <2>2
<1>6. IsG([i \in 1..N |-> h[i]])
  <2>1. h[0] = <<>>
    BY <1>4 DEF Defines
  <2>2. \A i \in 1..N : h[i] = IF i = 1 THEN seqs[i] ELSE h[i - 1] \o seqs[i]
    <3> SUFFICES ASSUME NEW i \in 1..N PROVE h[i] = IF i = 1 THEN seqs[i] ELSE h[i - 1] \o seqs[i]
      OBVIOUS
    <3>1. h[i] = h[i - 1] \o seqs[i] /\ <<>> \o seqs[i] = seqs[i]
      BY <1>1, <1>5
    <3>2. i = 1 => i - 1 = 0
      OBVIOUS
    <3> QED BY <2>1, <3>1, <3>2
  <2> QED BY <1>1, <2>2
<1>7. IsG(G)
  BY <1>6 DEF G
<1>8. \A i \in 1..N : G[i] = IF i = 1 THEN seqs[i] ELSE G[i - 1] \o seqs[i]
  BY <1>1, <1>7
<1>9. f[0] = <<>> /\ \A i \in 1..N : f[i] = f[i - 1] \o seqs[i]
  <2>1. f[0] = <<>>
    BY <1>1
  <2>2. ASSUME NEW i \in 1..N PROVE f[i] = f[i - 1] \o seqs[i]
    <3>1. f[i] = IF i = 1 THEN seqs[i] ELSE G[i - 1] \o seqs[i]
      BY <1>1, <1>8
    <3>2. f[i - 1] = IF i = 1 THEN <<>> ELSE G[i - 1]
      BY <1>1
    <3>3. <<>> \o seqs[i] = seqs[i]
      BY <1>1
    <3> HIDE DEF f
    <3> QED BY <3>1, <3>2, <3>3
  <2> QED BY <2>1, <2>2
<1>10. f \in [0..N -> Seq(S)]
  <2> DEFINE D == Seq(S)
  <2>1. f[0] \in D /\ \A i \in 1..N : f[i - 1] \in D => f[i] \in D
    <3> HIDE DEF f
    <3> SUFFICES ASSUME NEW i \in 1..N, f[i - 1] \in Seq(S) PROVE f[i] \in Seq(S)
      BY <1>1, <1>9
    <3>1. seqs[i] \in Seq(S) /\ f[i] = f[i - 1] \o seqs[i]
      BY <1>1, <1>9
    <3> QED BY <3>1
  <2>2. f = [i \in 0..N |-> f[i]]
    OBVIOUS
  <2> HIDE DEF D, f
  <2>3. f \in [0..N -> D]
    BY <1>1, <2>1, <2>2, FollowsRecursion
  <2> QED BY <2>3 DEF D
<1>11. FlattenSeq(seqs) = f[N]
  BY <1>1, <1>2
<1> QED
  <2> HIDE DEF f
  <2> QED BY <1>9, <1>10, <1>11 DEF N

-----------------------------------------------------------------------------
(* Types *)

USE DEF control, books, shared, threads, clock, ctrlC, output, vars

\* The initial state is well-typed.
LEMMA TypeInit == Init => TypeOK
<1> SUFFICES ASSUME Init PROVE TypeOK
  OBVIOUS
<1> USE DEF Init
<1>1. items \in [Steps -> Seq(Item)] /\ queue \in Seq(Steps \cup {Wake})
  OBVIOUS
<1>2. Nothing \in Delivery
  BY DEF Nothing, Delivery, Kinds
<1>3. Silence \in [started : BOOLEAN, results : Nat, finished : BOOLEAN]
  BY DEF Silence
<1>4. states \in [Steps -> States] /\ thread \in [Steps -> {"none", "live", "exited"}]
  BY DEF States
<1> HIDE DEF Init
<1>5. posted \in [Steps -> Delivery]
  BY <1>2 DEF Init
<1>6. told \in [Steps -> [started : BOOLEAN, results : Nat, finished : BOOLEAN]]
  BY <1>3 DEF Init
<1> QED
  BY <1>1, <1>4, <1>5, <1>6 DEF Init, TypeOK, PCs

\* The item the runner puts in place of a step's output, and the verdicts, are well-typed.
LEMMA SynthesizedType ==
  ASSUME NEW s \in Steps, NEW o \in {"timeout", "crash"}
  PROVE  Synthesized(s, o) \in Seq(Item)
  BY DEF Synthesized, Item, ItemType

\* A verdict is one of the four, and its items are well-typed.
LEMMA VerdictType ==
  ASSUME NEW s \in Steps, TypeOK
  PROVE  /\ VerdictOn(s) \in Verdicts
         /\ ItemsFor(s, VerdictOn(s)) \in Seq(Item)
<1>1. posted[s].items \in Seq(Item)
  BY DEF TypeOK, Delivery
<1>2. VerdictOn(s) \in Verdicts
  BY DEF VerdictOn, Verdicts
<1>3. <<>> \in Seq(Item)
  OBVIOUS
<1> QED
  BY <1>1, <1>2, <1>3, SynthesizedType DEF ItemsFor, Verdicts

\* _finish keeps the types, whoever calls it.
LEMMA FinishType ==
  ASSUME NEW s \in Steps, NEW v \in Verdicts, NEW its \in Seq(Item),
         NEW b \in {"drain", "abandon"},
         TypeOK, Finish(s, v, its, b)
  PROVE  /\ pc' \in PCs /\ cur' \in Steps /\ back' \in {"drain", "abandon"}
         /\ running' \subseteq Steps /\ finished' \subseteq Steps
         /\ busyLanes' \subseteq LaneNames
         /\ states' \in [Steps -> States] /\ items' \in [Steps -> Seq(Item)]
<1> USE DEF Finish, TypeOK
<1>1. pc' \in PCs
  BY DEF PCs
<1>2. states' \in [Steps -> States]
  BY DEF States
<1> QED
  BY <1>1, <1>2 DEF LanesWithout

\* Every step keeps the types, one action at a time.
LEMMA TypeNext == TypeOK /\ [Next]_vars => TypeOK'
<1> SUFFICES ASSUME TypeOK, [Next]_vars PROVE TypeOK'
  OBVIOUS
<1> USE DEF TypeOK, PCs
<1>1. CASE Begin
  BY <1>1, MarkersAssumption DEF Begin
<1>2. CASE LoopEnds
  BY <1>2 DEF LoopEnds
<1>3. CASE LoopSchedules
  BY <1>3 DEF LoopSchedules
<1>4. CASE LoopCancelled
  BY <1>4 DEF LoopCancelled, WindDown
<1>5. CASE LaunchThread
  BY <1>5 DEF LaunchThread
<1>6. CASE EmitStepStarted
  BY <1>6 DEF EmitStepStarted
<1>7. CASE StartPassEnds
  BY <1>7 DEF StartPassEnds
<1>8. CASE TakeMessage
  BY <1>8 DEF TakeMessage
<1>9. CASE NoMessage
  BY <1>9 DEF NoMessage
<1>10. CASE IgnoreMessage
  BY <1>10 DEF IgnoreMessage
<1>11. CASE EmitResult
  <2>1. told[cur] \in [started : BOOLEAN, results : Nat, finished : BOOLEAN]
    BY <1>11 DEF EmitResult
  <2>2. told' \in [Steps -> [started : BOOLEAN, results : Nat, finished : BOOLEAN]]
    <3>0. told \in [Steps -> [started : BOOLEAN, results : Nat, finished : BOOLEAN]]
      OBVIOUS
    <3> HIDE DEF TypeOK
    <3>1. [told[cur] EXCEPT !.results = @ + 1]
             \in [started : BOOLEAN, results : Nat, finished : BOOLEAN]
      BY <2>1
    <3>2. told' = [told EXCEPT ![cur] = [told[cur] EXCEPT !.results = @ + 1]]
      BY <1>11 DEF EmitResult
    <3> QED
      BY <3>0, <3>1, <3>2
  <2> QED
    BY <1>11, <2>2 DEF EmitResult
<1>12. CASE EmitStepFinished
  BY <1>12 DEF EmitStepFinished
<1>13. CASE EnforceBudgets
  BY <1>13 DEF EnforceBudgets, PastDeadline, Overstayed
<1>14. CASE WindDownPolls
  BY <1>14 DEF WindDownPolls
<1>15. CASE WindDownGivesUp
  BY <1>15 DEF WindDownGivesUp
<1>16. CASE AbandonEnds
  BY <1>16 DEF AbandonEnds
<1>17. CASE Assemble
  BY <1>17 DEF Assemble
<1>18. CASE EmitScanFinished
  BY <1>18 DEF EmitScanFinished
<1>19. CASE InterruptCaught
  <2>1. queue' \in Seq(Steps \cup {Wake})
    BY <1>19 DEF InterruptCaught
  <2> QED
    <3>1. interrupts' \in Nat
      BY <1>19 DEF InterruptCaught, CanInterrupt
    <3>2. pc' \in PCs /\ cur' \in Steps \cup {NoStep, Wake} /\ todo' \subseteq Steps /\ pending' \subseteq Steps
          /\ pc' = "wind"
      BY <1>19 DEF InterruptCaught, WindDown
    <3>3. <<winding', windOver', interrupted', cancelled'>> = <<TRUE, FALSE, TRUE, TRUE>>
      BY <1>19 DEF InterruptCaught, WindDown
    <3> QED
      BY <1>19, <2>1, <3>1, <3>2, <3>3 DEF InterruptCaught
<1>20. CASE InterruptRaised
  BY <1>20 DEF InterruptRaised, CanInterrupt
<1>21. CASE Cancel
  BY <1>21 DEF Cancel
<1>22. CASE PostWake
  <2>1. queue' \in Seq(Steps \cup {Wake})
    BY <1>22 DEF PostWake
  <2> QED
    BY <1>22, <2>1 DEF PostWake
<1>23. CASE WindGracePasses
  BY <1>23 DEF WindGracePasses
<1>24. CASE Terminated
  BY <1>24 DEF Terminated
<1>25. ASSUME NEW i \in DOMAIN Plan, StartStep(i) PROVE TypeOK'
  BY <1>25, PlanAssumption, LanesAssumption DEF StartStep
<1>26. CASE CompleteStep
  <2>1. cur \in Steps
    BY <1>26 DEF CompleteStep, OfRunningStep
  <2>2. VerdictOn(cur) \in Verdicts /\ ItemsFor(cur, VerdictOn(cur)) \in Seq(Item)
    BY <2>1, VerdictType
  <2> HIDE DEF TypeOK
  <2>3. Finish(cur, VerdictOn(cur), ItemsFor(cur, VerdictOn(cur)), "drain")
    BY <1>26 DEF CompleteStep
  <2> QED
    BY <1>26, <2>1, <2>2, <2>3, FinishType DEF CompleteStep, TypeOK
<1>27. ASSUME NEW s \in Steps, AbandonStep(s) PROVE TypeOK'
  <2>1. PICK v \in Verdicts, its \in Seq(Item) : Finish(s, v, its, "abandon")
    <3>1. Synthesized(s, "timeout") \in Seq(Item) /\ <<>> \in Seq(Item)
      BY SynthesizedType
    <3> HIDE DEF TypeOK
    <3> QED
      BY <1>27, <3>1 DEF AbandonStep, Verdicts
  <2> HIDE DEF TypeOK
  <2> QED
    BY <1>27, <2>1, FinishType DEF AbandonStep, TypeOK
<1>28. ASSUME NEW s \in Steps, StepThread(s) PROVE TypeOK'
  <2>1. ASSUME NEW kind \in Kinds, NEW its \in Seq(Item), Deliver(s, kind, its) PROVE TypeOK'
    <3>1. [kind |-> kind, late |-> s \in overdue, items |-> its] \in Delivery
      BY <2>1 DEF Delivery
    <3> QED
      BY <2>1, <3>1 DEF Deliver
  <2>2. ASSUME NEW types \in Outputs[s] PROVE Tagged(s, types) \in Seq(Item)
    <3>1. types \in Seq(ItemType)
      BY <2>2, OutputsAssumption
    <3>2. \A i \in 1..Len(types) : types[i] \in ItemType
      BY <3>1
    <3>3. Tagged(s, types) \in [1..Len(types) -> Item]
      BY <3>1, <3>2 DEF Tagged, Item
    <3>4. Len(types) \in Nat
      BY <3>1
    <3> HIDE DEF TypeOK
    <3> QED
      BY <3>3, <3>4
  <2>3. <<>> \in Seq(Item) /\ {"ok", "bad", "error", "cancelled"} \subseteq Kinds
    BY DEF Kinds
  <2> QED
    BY <1>28, <2>1, <2>2, <2>3 DEF StepThread, StepReturns, StepFails
<1>29. ASSUME NEW s \in Steps, DeadlinePasses(s) \/ GracePasses(s) PROVE TypeOK'
  <2>1. overdue' \subseteq Budgeted /\ graceOver' \subseteq Steps
    BY <1>29 DEF DeadlinePasses, GracePasses
  <2> QED
    <3>1. UNCHANGED <<control, books, shared, threads, windOver, ctrlC, output>>
      BY <1>29 DEF DeadlinePasses, GracePasses
    <3> QED
      BY <2>1, <3>1
<1>30. CASE UNCHANGED vars
  BY <1>30
<1> QED
  BY <1>1, <1>2, <1>3, <1>4, <1>5, <1>6, <1>7, <1>8, <1>9, <1>10, <1>11, <1>12, <1>13, <1>14, <1>15, <1>16, <1>17, <1>18, <1>19, <1>20, <1>21, <1>22, <1>23, <1>24, <1>25, <1>26, <1>27, <1>28, <1>29, <1>30
  DEF Next, Coordinator, Interrupt, Clock

\* The variables keep their types, and the coordinator has a step in hand whenever it
\* starts, launches or announces one.
THEOREM TypeCorrect == Spec => []TypeOK
  BY TypeInit, TypeNext, PTL DEF Spec
-----------------------------------------------------------------------------
(* The moves a step can make on the books *)

\* What CompleteStep and AbandonStep have in common: a running step is finished with a
\* verdict it has earned.
Concluded(s) ==
    \E v \in Verdicts, its \in Seq(Item), b \in {"drain", "abandon"} :
        /\ Finish(s, v, its, b)
        /\ Earned(s, v, its)
        /\ b = "abandon" => /\ todo' = todo \ {s} /\ todo \subseteq running
                            /\ winding \/ todo \subseteq expired
        /\ UNCHANGED <<winding, pending, expired, shared, threads, clock>>

\* Completing the step in hand concludes it: it leaves the running steps with a verdict it earned.
LEMMA CompletionConcludes ==
  ASSUME TypeOK, Books, HandOver, CompleteStep
  PROVE  cur \in running /\ Concluded(cur)
<1>1. cur \in running /\ cur \in Steps /\ pc = "complete"
  BY DEF CompleteStep, OfRunningStep, TypeOK
<1>2. Finish(cur, VerdictOn(cur), ItemsFor(cur, VerdictOn(cur)), "drain")
  BY DEF CompleteStep
<1>3. VerdictOn(cur) \in Verdicts /\ ItemsFor(cur, VerdictOn(cur)) \in Seq(Item)
  BY <1>1, VerdictType
<1>4. posted[cur].kind \in Kinds
  BY <1>1 DEF HandOver, TypeOK, Delivery
<1>5. posted[cur].late => cur \in overdue
  BY <1>1 DEF HandOver
<1>6. posted[cur].kind = "cancelled" => cancelled
  BY <1>1 DEF HandOver
<1>7. expired \subseteq overdue
  BY DEF Books
<1>8. Earned(cur, VerdictOn(cur), ItemsFor(cur, VerdictOn(cur)))
  BY <1>4, <1>5, <1>6, <1>7 DEF Earned, VerdictOn, ItemsFor, TimedOut, Kinds
<1>9. UNCHANGED <<winding, pending, expired, shared, threads, clock>>
  BY DEF CompleteStep
<1> QED
  BY <1>1, <1>2, <1>3, <1>8, <1>9 DEF Concluded

\* So does abandoning one.
LEMMA AbandonmentConcludes ==
  ASSUME NEW s \in Steps, TypeOK, Books, AbandonStep(s)
  PROVE  s \in running /\ Concluded(s)
<1>1. s \in todo /\ s \in running /\ todo \subseteq running /\ (winding \/ todo \subseteq expired)
  BY DEF AbandonStep, Books
<1>2. UNCHANGED <<winding, pending, expired, shared, threads, clock>> /\ todo' = todo \ {s}
  BY DEF AbandonStep
<1>3. CASE winding
  <2>1. Finish(s, "cancelled", <<>>, "abandon") /\ cancelled
    BY <1>3 DEF AbandonStep, Books
  <2>2. Earned(s, "cancelled", <<>>)
    BY <2>1 DEF Earned
  <2>3. "cancelled" \in Verdicts /\ <<>> \in Seq(Item)
    BY DEF Verdicts
  <2> QED
    BY <1>1, <1>2, <2>1, <2>2, <2>3 DEF Concluded
<1>4. CASE ~winding
  <2>1. Finish(s, "timed_out", Synthesized(s, "timeout"), "abandon")
    BY <1>4 DEF AbandonStep
  <2>2. Earned(s, "timed_out", Synthesized(s, "timeout"))
    BY <1>1, <1>4 DEF Earned, Books
  <2>3. "timed_out" \in Verdicts /\ Synthesized(s, "timeout") \in Seq(Item)
    BY SynthesizedType DEF Verdicts
  <2> QED
    BY <1>1, <1>2, <2>1, <2>2, <2>3 DEF Concluded
<1> QED
  BY <1>3, <1>4

\* The rest of the next-state relation: the steps that only move the control, a message,
\* an event, the clock or a thread.
QuietControl ==
    \/ Begin \/ LoopEnds \/ LoopSchedules \/ LoopCancelled \/ LaunchThread \/ EmitStepStarted
    \/ StartPassEnds \/ TakeMessage \/ NoMessage \/ IgnoreMessage \/ EmitResult \/ EmitStepFinished
    \/ EnforceBudgets \/ WindDownPolls \/ WindDownGivesUp \/ AbandonEnds \/ Assemble \/ EmitScanFinished

QuietWorld ==
    \/ InterruptCaught \/ InterruptRaised \/ Cancel \/ PostWake \/ WindGracePasses
    \/ \E s \in Steps : StepThread(s) \/ DeadlinePasses(s) \/ GracePasses(s)
    \/ UNCHANGED vars

\* Every step starts a step, concludes one, or leaves the books alone but for winding down.
LEMMA NextCases ==
  ASSUME [Next]_vars
  PROVE  \/ \E i \in DOMAIN Plan : StartStep(i)
         \/ CompleteStep
         \/ \E s \in Steps : AbandonStep(s)
         \/ QuietControl
         \/ QuietWorld
  BY DEF Next, Coordinator, Interrupt, Clock, Terminated, QuietControl, QuietWorld

\* What the last case leaves alone.
LEMMA QuietKeepsBooks ==
  ASSUME QuietControl \/ QuietWorld
  PROVE  UNCHANGED <<running, finished, busyLanes, states, items>> /\ pending' \in {pending, {}}
<1>1. CASE QuietControl
  BY <1>1 DEF QuietControl, WindDown,
     Begin, LoopEnds, LoopSchedules, LoopCancelled, LaunchThread, EmitStepStarted,
     StartPassEnds, TakeMessage, NoMessage, IgnoreMessage, EmitResult, EmitStepFinished,
     EnforceBudgets, WindDownPolls, WindDownGivesUp, AbandonEnds, Assemble,
     EmitScanFinished
<1>2. CASE QuietWorld
  BY <1>2 DEF QuietWorld, WindDown, StepThread, StepReturns, StepFails, Deliver,
     InterruptCaught, InterruptRaised, Cancel, PostWake, WindGracePasses, DeadlinePasses, GracePasses
<1> QED
  BY <1>1, <1>2

\* How the world moves: the clock, the token and what a thread has delivered never go back.
LEMMA OnlyForward ==
  ASSUME TypeOK, Books, [Next]_vars
  PROVE  /\ overdue \subseteq overdue' /\ expired \subseteq expired'
         /\ expired' \subseteq expired \cup (running \cap overdue)
         /\ cancelled => cancelled'
         /\ \A s \in Steps : thread[s] = "exited" => thread'[s] = "exited" /\ posted'[s] = posted[s]
<1>1. ASSUME NEW i \in DOMAIN Plan, StartStep(i) PROVE UNCHANGED <<overdue, expired, cancelled, threads>>
  BY <1>1 DEF StartStep
<1>2. CASE CompleteStep
  BY <1>2 DEF CompleteStep
<1>3. ASSUME NEW s \in Steps, AbandonStep(s) PROVE UNCHANGED <<overdue, expired, cancelled, threads>>
  BY <1>3 DEF AbandonStep
<1>4. CASE QuietControl
  <2>1. UNCHANGED <<overdue, cancelled, posted>>
    BY <1>4 DEF QuietControl, WindDown,
       Begin, LoopEnds, LoopSchedules, LoopCancelled, LaunchThread, EmitStepStarted,
     StartPassEnds, TakeMessage, NoMessage, IgnoreMessage, EmitResult, EmitStepFinished,
     EnforceBudgets, WindDownPolls, WindDownGivesUp, AbandonEnds, Assemble,
     EmitScanFinished
  <2>2. expired' = expired \/ EnforceBudgets
    BY <1>4 DEF QuietControl, WindDown,
       Begin, LoopEnds, LoopSchedules, LoopCancelled, LaunchThread, EmitStepStarted,
       StartPassEnds, TakeMessage, NoMessage, IgnoreMessage, EmitResult,
       EmitStepFinished, WindDownPolls, WindDownGivesUp, AbandonEnds, Assemble,
       EmitScanFinished
  <2>3. thread' = thread \/ LaunchThread
    BY <1>4 DEF QuietControl, WindDown,
       Begin, LoopEnds, LoopSchedules, LoopCancelled, EmitStepStarted, StartPassEnds,
       TakeMessage, NoMessage, IgnoreMessage, EmitResult, EmitStepFinished,
       EnforceBudgets, WindDownPolls, WindDownGivesUp, AbandonEnds, Assemble,
       EmitScanFinished
  <2> QED
    BY <2>1, <2>2, <2>3 DEF EnforceBudgets, PastDeadline, LaunchThread, Books, TypeOK
<1>5. CASE QuietWorld
  <2>1. expired' = expired /\ overdue \subseteq overdue' /\ (cancelled => cancelled')
    BY <1>5 DEF QuietWorld, WindDown, StepThread, StepReturns, StepFails, Deliver,
       InterruptCaught, InterruptRaised, Cancel, PostWake, WindGracePasses, DeadlinePasses, GracePasses
  <2>2. UNCHANGED <<thread, posted>> \/ \E s \in Steps : StepThread(s)
    BY <1>5 DEF QuietWorld, WindDown, InterruptCaught, InterruptRaised, Cancel, PostWake, WindGracePasses,
       DeadlinePasses, GracePasses
  <2> QED
    BY <2>1, <2>2 DEF StepThread, StepReturns, StepFails, Deliver, TypeOK
<1> QED
  BY <1>1, <1>2, <1>3, <1>4, <1>5, NextCases

-----------------------------------------------------------------------------
(* The inductive invariant *)

\* IInv holds initially.
LEMMA IInvInit == Init => IInv
<1> SUFFICES ASSUME Init PROVE IInv
  OBVIOUS
<1>1. TypeOK
  BY TypeInit
<1>2. Books /\ HandOver
  BY MarkersAssumption DEF Init, Books, HandOver, Nothing
<1>3. LaneExclusion /\ DependencyOrder /\ VerdictEarned
  BY DEF Init, LaneExclusion, DependencyOrder, VerdictEarned
<1> QED
  BY <1>1, <1>2, <1>3 DEF IInv

\* A step that starts was ready: its lanes are free and the steps it comes after are over.
LEMMA StartedStep ==
  ASSUME NEW i \in DOMAIN Plan, StartStep(i), TypeOK, Books
  PROVE  /\ Plan[i] \in Steps /\ Plan[i] \in pending /\ Ready(Plan[i])
         /\ Plan[i] \notin running /\ Plan[i] \notin finished
         /\ pending' = pending \ {Plan[i]} /\ running' = running \cup {Plan[i]}
         /\ busyLanes' = busyLanes \cup Lanes[Plan[i]]
         /\ UNCHANGED <<finished, states, items, expired, threads, shared, clock, winding>>
         /\ cur' = Plan[i] /\ pc' = "launch"
<1>1. Plan[i] \in Steps
  BY PlanAssumption
<1>2. Ready(Plan[i])
  BY DEF StartStep, FirstReady
<1>3. Plan[i] \in pending
  BY <1>2 DEF Ready
<1> QED
  BY <1>1, <1>2, <1>3 DEF StartStep, Books

\* How concluding a step moves it between the books.
LEMMA ConcludedMoves ==
  ASSUME IInv, [Next]_vars
  PROVE  \/ \E i \in DOMAIN Plan : StartStep(i)
         \/ \E s \in running : Concluded(s)
         \/ QuietControl
         \/ QuietWorld
  BY NextCases, CompletionConcludes, AbandonmentConcludes DEF IInv

\* Lanes stay exclusive, and the busy ones are those of the running steps.
LEMMA LaneNext == IInv /\ [Next]_vars => LaneExclusion' /\ (busyLanes = UNION {Lanes[s] : s \in running})'
<1> SUFFICES ASSUME IInv, [Next]_vars
             PROVE  LaneExclusion' /\ (busyLanes = UNION {Lanes[s] : s \in running})'
  OBVIOUS
<1> USE DEF LaneExclusion
<1>0. LaneExclusion /\ busyLanes = UNION {Lanes[s] : s \in running}
  BY DEF IInv, Books
<1>1. ASSUME NEW i \in DOMAIN Plan, StartStep(i)
      PROVE  LaneExclusion' /\ (busyLanes = UNION {Lanes[s] : s \in running})'
  <2>1. Lanes[Plan[i]] \cap busyLanes = {} /\ running' = running \cup {Plan[i]}
        /\ busyLanes' = busyLanes \cup Lanes[Plan[i]]
    BY <1>1, StartedStep DEF Ready, IInv
  <2>2. \A s \in running : Lanes[s] \cap Lanes[Plan[i]] = {}
    BY <1>0, <2>1
  <2> QED
    BY <1>0, <2>1, <2>2
<1>2. ASSUME NEW s \in running, Concluded(s)
      PROVE  LaneExclusion' /\ (busyLanes = UNION {Lanes[t] : t \in running})'
  <2>1. running' = running \ {s} /\ busyLanes' = busyLanes \ Lanes[s]
    BY <1>2 DEF Concluded, Finish, LanesWithout
  <2>2. LaneExclusion'
    BY <1>0, <2>1
  <2>3. \A l : l \in busyLanes' <=> \E t \in running' : l \in Lanes[t]
    BY <1>0, <2>1
  <2>4. busyLanes' = UNION {Lanes[t] : t \in running'}
    BY <2>3
  <2> QED
    BY <2>2, <2>4
<1>3. CASE QuietControl \/ QuietWorld
  BY <1>0, <1>3, QuietKeepsBooks
<1> QED
  BY <1>1, <1>2, <1>3, ConcludedMoves

\* A step that starts comes after finished ones, and finished steps stay finished.
LEMMA DependencyNext == IInv /\ [Next]_vars => DependencyOrder'
<1> SUFFICES ASSUME IInv, [Next]_vars PROVE DependencyOrder'
  OBVIOUS
<1> USE DEF DependencyOrder
<1>0. DependencyOrder
  BY DEF IInv
<1>1. ASSUME NEW i \in DOMAIN Plan, StartStep(i) PROVE DependencyOrder'
  <2>1. After[Plan[i]] \subseteq finished /\ running' = running \cup {Plan[i]} /\ finished' = finished
    BY <1>1, StartedStep DEF Ready, IInv
  <2> QED
    BY <1>0, <2>1
<1>2. ASSUME NEW s \in running, Concluded(s) PROVE DependencyOrder'
  BY <1>0, <1>2 DEF Concluded, Finish
<1>3. CASE QuietControl \/ QuietWorld
  BY <1>0, <1>3, QuietKeepsBooks
<1> QED
  BY <1>1, <1>2, <1>3, ConcludedMoves

\* A concluded step has earned its verdict, and nothing takes it away later.
LEMMA VerdictNext == IInv /\ [Next]_vars => VerdictEarned'
<1> SUFFICES ASSUME IInv, [Next]_vars PROVE VerdictEarned'
  OBVIOUS
<1>0. VerdictEarned /\ TypeOK /\ Books /\ HandOver
  BY DEF IInv
\* A verdict stays earned.
<1>1. ASSUME NEW t \in finished, NEW v \in Verdicts, NEW its, Earned(t, v, its)
      PROVE  Earned(t, v, its)'
  <2>1. t \in Steps /\ t \notin running
    BY <1>0 DEF TypeOK, Books
  <2>2. posted[t].kind # "none" => posted'[t] = posted[t]
    BY <1>0, <2>1, OnlyForward DEF HandOver
  <2>3. (t \in expired' => t \in expired) /\ (t \in overdue => t \in overdue')
        /\ (cancelled => cancelled')
    BY <1>0, <2>1, OnlyForward
  <2> QED
    BY <1>1, <2>2, <2>3 DEF Earned, Synthesized
<1>2. ASSUME UNCHANGED <<finished, states, items>> PROVE VerdictEarned'
  BY <1>0, <1>1, <1>2 DEF VerdictEarned
<1>3. ASSUME NEW s \in running, Concluded(s) PROVE VerdictEarned'
  <2>1. PICK v \in Verdicts, its \in Seq(Item), b \in {"drain", "abandon"} :
           Finish(s, v, its, b) /\ Earned(s, v, its)
    BY <1>3 DEF Concluded
  <2>2. s \in Steps /\ s \notin finished /\ UNCHANGED <<expired, posted, overdue, cancelled>>
    BY <1>0, <1>3 DEF Concluded, TypeOK, Books
  <2>3. states'[s] = v /\ items'[s] = its /\ finished' = finished \cup {s}
    BY <1>0, <2>1, <2>2 DEF Finish, TypeOK
  <2>4. \A t \in finished : states'[t] = states[t] /\ items'[t] = items[t]
    BY <1>0, <2>1, <2>2 DEF Finish, TypeOK
  <2>5. Earned(s, v, its)'
    BY <2>1, <2>2 DEF Earned, Synthesized
  <2>6. ASSUME NEW t \in finished PROVE states'[t] \in Verdicts /\ Earned(t, states[t], items[t])'
    <3>1. PICK w \in Verdicts, ts \in {items[t]} : w = states[t] /\ Earned(t, w, ts)
      BY <1>0 DEF VerdictEarned
    <3>2. Earned(t, w, ts)'
      BY <1>1, <3>1
    <3> QED
      BY <2>4, <3>1, <3>2 DEF Earned, Synthesized
  <2> QED
    BY <2>3, <2>4, <2>5, <2>6 DEF VerdictEarned, Earned, Synthesized
<1>4. ASSUME NEW i \in DOMAIN Plan, StartStep(i) PROVE VerdictEarned'
  BY <1>0, <1>2, <1>4, StartedStep
<1>5. CASE QuietControl \/ QuietWorld
  BY <1>2, <1>5, QuietKeepsBooks
<1> QED
  BY <1>3, <1>4, <1>5, ConcludedMoves

\* The books stay disjoint, and the locals agree with them.
LEMMA BooksNext == IInv /\ [Next]_vars => Books'
<1> SUFFICES ASSUME IInv, [Next]_vars PROVE Books'
  OBVIOUS
<1>0. TypeOK /\ Books /\ HandOver
  BY DEF IInv
<1>1. expired' \subseteq overdue'
  BY <1>0, OnlyForward DEF Books
<1>2. busyLanes' = UNION {Lanes[s] : s \in running'}
  BY LaneNext
<1>3. ASSUME NEW i \in DOMAIN Plan, StartStep(i) PROVE Books'
  <2>1. \A s \in pending' : thread'[s] = "none"
    BY <1>0, <1>3, StartedStep DEF Books
  <2>2. cur' \in running' /\ thread'[cur'] = "none" /\ pc' = "launch"
    BY <1>0, <1>3, StartedStep DEF Books
  <2>3. winding' => cancelled'
    BY <1>0, <1>3, StartedStep DEF Books
  <2>4. /\ pending' \cap running' = {} /\ pending' \cap finished' = {}
        /\ running' \cap finished' = {}
    BY <1>0, <1>3, StartedStep DEF Books
  <2> QED
    BY <1>1, <1>2, <2>1, <2>2, <2>3, <2>4 DEF Books
<1>4. ASSUME NEW s \in running, Concluded(s) PROVE Books'
  <2>1. PICK v \in Verdicts, its \in Seq(Item), b \in {"drain", "abandon"} :
           /\ Finish(s, v, its, b)
           /\ b = "abandon" => /\ todo' = todo \ {s} /\ todo \subseteq running
                               /\ winding \/ todo \subseteq expired
           /\ UNCHANGED <<winding, pending, expired, shared, threads, clock>>
    BY <1>4 DEF Concluded
  <2>2. running' = running \ {s} /\ finished' = finished \cup {s}
        /\ pc' = "announce" /\ back' = b
    BY <2>1 DEF Finish
  <2>3. (pc' = "abandon" \/ (pc' = "announce" /\ back' = "abandon")) =>
           todo' \subseteq running' /\ (winding' \/ todo' \subseteq expired')
    <3>1. CASE b = "abandon"
      BY <2>1, <2>2, <3>1
    <3>2. CASE b # "abandon"
      BY <2>2, <3>2
    <3> QED
      BY <3>1, <3>2
  <2>4. \A t \in pending' : thread'[t] = "none"
    BY <1>0, <2>1 DEF Books
  <2>5. winding' => cancelled'
    BY <1>0, <2>1 DEF Books
  <2>6. /\ pending' \cap running' = {} /\ pending' \cap finished' = {}
        /\ running' \cap finished' = {}
    BY <1>0, <1>4, <2>1, <2>2 DEF Books
  <2> QED
    BY <1>1, <1>2, <2>2, <2>3, <2>4, <2>5, <2>6 DEF Books
<1>5. CASE QuietControl
  <2>1. UNCHANGED <<running, finished>> /\ pending' \in {pending, {}}
    BY <1>5, QuietKeepsBooks
  <2>2. \A s \in pending' : thread'[s] = "none"
    <3>1. thread' = thread \/ LaunchThread
      BY <1>5 DEF QuietControl, WindDown,
       Begin, LoopEnds, LoopSchedules, LoopCancelled, EmitStepStarted, StartPassEnds,
       TakeMessage, NoMessage, IgnoreMessage, EmitResult, EmitStepFinished,
       EnforceBudgets, WindDownPolls, WindDownGivesUp, AbandonEnds, Assemble,
       EmitScanFinished
    <3> QED
      BY <1>0, <2>1, <3>1 DEF Books, LaunchThread, TypeOK
  <2>3. winding' => cancelled'
    BY <1>0, <1>5 DEF Books, QuietControl, WindDown,
       Begin, LoopEnds, LoopSchedules, LoopCancelled, LaunchThread, EmitStepStarted,
       StartPassEnds, TakeMessage, NoMessage, IgnoreMessage, EmitResult, EmitStepFinished,
       EnforceBudgets, WindDownPolls, WindDownGivesUp, AbandonEnds, Assemble,
       EmitScanFinished
  <2>4. pc' # "launch" /\ (pc' = "wind" => winding')
    BY <1>0, <1>5 DEF Books, QuietControl, WindDown, TypeOK,
       Begin, LoopEnds, LoopSchedules, LoopCancelled, LaunchThread, EmitStepStarted,
       StartPassEnds, TakeMessage, NoMessage, IgnoreMessage, EmitResult, EmitStepFinished,
       EnforceBudgets, WindDownPolls, WindDownGivesUp, AbandonEnds, Assemble,
       EmitScanFinished
  <2>5. (pc' = "abandon" \/ (pc' = "announce" /\ back' = "abandon")) =>
           todo' \subseteq running' /\ (winding' \/ todo' \subseteq expired')
    <3>1. \/ pc' \notin {"abandon", "announce"}
          \/ EnforceBudgets \/ WindDownGivesUp \/ EmitStepFinished \/ EmitResult
      BY <1>5 DEF QuietControl, WindDown,
         Begin, LoopEnds, LoopSchedules, LoopCancelled, LaunchThread, EmitStepStarted,
         StartPassEnds, TakeMessage, NoMessage, IgnoreMessage, WindDownPolls, AbandonEnds,
         Assemble, EmitScanFinished
    <3>2. CASE EnforceBudgets
      BY <3>2 DEF EnforceBudgets, Overstayed
    <3>3. CASE WindDownGivesUp
      BY <1>0, <3>3 DEF WindDownGivesUp, Books
    <3>4. CASE EmitStepFinished
      BY <1>0, <3>4 DEF EmitStepFinished, Books
    <3>5. CASE EmitResult
      BY <1>0, <3>5 DEF EmitResult, Books
    <3> QED
      BY <3>1, <3>2, <3>3, <3>4, <3>5
  <2> QED
    BY <1>0, <1>1, <1>2, <2>1, <2>2, <2>3, <2>4, <2>5 DEF Books
<1>6. CASE QuietWorld
  <2>1. UNCHANGED <<running, finished>> /\ pending' \in {pending, {}}
    BY <1>6, QuietKeepsBooks
  <2>2. \A s \in Steps : thread[s] = "none" => thread'[s] = "none"
    BY <1>0, <1>6 DEF QuietWorld, WindDown, StepThread, StepReturns, StepFails, Deliver, TypeOK,
       InterruptCaught, InterruptRaised, Cancel, PostWake, WindGracePasses, DeadlinePasses, GracePasses
  <2>3. winding' => cancelled'
    BY <1>0, <1>6 DEF Books, QuietWorld, WindDown, StepThread, StepReturns, StepFails, Deliver,
       InterruptCaught, InterruptRaised, Cancel, PostWake, WindGracePasses, DeadlinePasses, GracePasses
  <2>4. \/ UNCHANGED <<pc, cur, back, todo, winding, expired>>
        \/ pc' = "wind" /\ winding'
        \/ pc' = "raised"
    BY <1>6 DEF QuietWorld, WindDown, StepThread, StepReturns, StepFails, Deliver,
       InterruptCaught, InterruptRaised, Cancel, PostWake, WindGracePasses, DeadlinePasses, GracePasses
  <2> QED
    BY <1>0, <1>1, <1>2, <2>1, <2>2, <2>3, <2>4 DEF Books, TypeOK
<1> QED
  BY <1>3, <1>4, <1>5, <1>6, ConcludedMoves

\* What a thread delivers is what the coordinator finds.
LEMMA HandOverNext == IInv /\ [Next]_vars => HandOver'
<1> SUFFICES ASSUME IInv, [Next]_vars PROVE HandOver'
  OBVIOUS
<1>0. TypeOK /\ Books /\ HandOver
  BY DEF IInv
<1> DEFINE NoMail == \A i \in 1..Len(queue') :
                        queue'[i] = Wake \/ \E j \in 1..Len(queue) : queue'[i] = queue[j]
<1>a. \/ queue' = queue
      \/ queue' = Append(queue, Wake)
      \/ (queue # <<>> /\ queue' = Tail(queue))
      => NoMail
  <2>1. queue \in Seq(Steps \cup {Wake})
    BY <1>0 DEF TypeOK
  <2> QED
    BY <2>1
<1> HIDE DEF NoMail
<1>1. ASSUME UNCHANGED posted, NoMail,
             \A s \in Steps : thread[s] # thread'[s] => thread[s] = "none" /\ thread'[s] = "live",
             pc' = "complete" /\ cur' \in Steps => thread[cur'] = "exited"
      PROVE  HandOver'
  <2>1. ASSUME NEW s \in Steps
        PROVE  /\ thread'[s] = "exited" <=> posted'[s].kind # "none"
               /\ posted'[s].late => s \in overdue'
               /\ posted'[s].kind = "cancelled" => cancelled'
    BY <1>0, <1>1, OnlyForward DEF HandOver
  <2>2. \A s \in Steps : thread[s] = "exited" => thread'[s] = "exited"
    BY <1>0, OnlyForward
  <2>3. queue \in Seq(Steps \cup {Wake}) /\ \A i \in 1..Len(queue) : queue[i] \in Steps \cup {Wake}
    BY <1>0 DEF TypeOK
  <2>4. NoMail
    BY <1>1
  <2>5. \A i \in 1..Len(queue') : queue'[i] # Wake => thread'[queue'[i]] = "exited"
    BY <1>0, <2>2, <2>3, <2>4 DEF HandOver, NoMail
  <2>6. pc' = "complete" /\ cur' \in Steps => thread'[cur'] = "exited"
    BY <1>1, <2>2
  <2> QED
    BY <2>1, <2>5, <2>6 DEF HandOver
<1>2. ASSUME NEW i \in DOMAIN Plan, StartStep(i) PROVE HandOver'
  <2>1. UNCHANGED <<posted, thread, queue>> /\ pc' = "launch"
    BY <1>0, <1>2, StartedStep
  <2> QED
    BY <1>a, <1>1, <2>1
<1>3. ASSUME NEW s \in running, Concluded(s) PROVE HandOver'
  <2>1. UNCHANGED <<posted, queue, thread>> /\ pc' = "announce"
    BY <1>3 DEF Concluded, Finish
  <2> QED
    BY <1>a, <1>1, <2>1
<1>4. CASE QuietControl
  <2>1. UNCHANGED posted
    BY <1>4 DEF QuietControl, WindDown,
       Begin, LoopEnds, LoopSchedules, LoopCancelled, LaunchThread, EmitStepStarted,
       StartPassEnds, TakeMessage, NoMessage, IgnoreMessage, EmitResult, EmitStepFinished,
       EnforceBudgets, WindDownPolls, WindDownGivesUp, AbandonEnds, Assemble,
       EmitScanFinished
  <2>2. \A s \in Steps : thread[s] # thread'[s] => thread[s] = "none" /\ thread'[s] = "live"
    <3>1. thread' = thread \/ LaunchThread
      BY <1>4 DEF QuietControl, WindDown,
       Begin, LoopEnds, LoopSchedules, LoopCancelled, EmitStepStarted, StartPassEnds,
       TakeMessage, NoMessage, IgnoreMessage, EmitResult, EmitStepFinished,
       EnforceBudgets, WindDownPolls, WindDownGivesUp, AbandonEnds, Assemble,
       EmitScanFinished
    <3> QED
      BY <1>0, <3>1 DEF Books, LaunchThread, TypeOK
  <2>3. \/ pc' # "complete" /\ (queue' = queue \/ queue' = Append(queue, Wake))
        \/ pc' = pc /\ cur' = cur /\ queue' = queue
        \/ TakeMessage
    BY <1>0, <1>4 DEF QuietControl, WindDown, TypeOK, Books,
       Begin, LoopEnds, LoopSchedules, LoopCancelled, LaunchThread, EmitStepStarted,
       StartPassEnds, NoMessage, IgnoreMessage, EmitResult, EmitStepFinished,
       EnforceBudgets, WindDownPolls, WindDownGivesUp, AbandonEnds, Assemble,
       EmitScanFinished
  <2>4. CASE TakeMessage
    <3>1. queue # <<>> /\ cur' = Head(queue) /\ queue' = Tail(queue)
      BY <2>4 DEF TakeMessage
    <3>2. 1 \in 1..Len(queue) /\ cur' = queue[1]
      BY <1>0, <3>1 DEF TypeOK
    <3>3. cur' \in Steps => thread[cur'] = "exited"
      BY <1>0, <3>2, MarkersAssumption DEF HandOver
    <3> QED
      BY <1>a, <1>1, <2>1, <2>2, <3>1, <3>3
  <2>5. CASE pc' # "complete" /\ (queue' = queue \/ queue' = Append(queue, Wake))
    BY <1>a, <1>1, <2>1, <2>2, <2>5
  <2>6. CASE pc' = pc /\ cur' = cur /\ queue' = queue
    BY <1>0, <1>a, <1>1, <2>1, <2>2, <2>6 DEF HandOver
  <2> QED
    BY <2>3, <2>4, <2>5, <2>6
<1>5. CASE QuietWorld
  <2>1. CASE \E s \in Steps : StepThread(s)
    <3>0. PICK s \in Steps, kind \in Kinds : \E its : Deliver(s, kind, its)
      BY <2>1 DEF StepThread, StepReturns, StepFails, Kinds
    <3>1. PICK its : Deliver(s, kind, its)
      BY <3>0
    <3>2. /\ thread[s] = "live" /\ (kind = "cancelled" => cancelled)
          /\ thread' = [thread EXCEPT ![s] = "exited"]
          /\ posted' = [posted EXCEPT ![s] = [kind |-> kind, late |-> s \in overdue, items |-> its]]
          /\ queue' = Append(queue, s)
          /\ UNCHANGED <<pc, cur, overdue, cancelled>>
      BY <3>1 DEF Deliver
    <3>3. ASSUME NEW t \in Steps
          PROVE  /\ thread'[t] = "exited" <=> posted'[t].kind # "none"
                 /\ posted'[t].late => t \in overdue'
                 /\ posted'[t].kind = "cancelled" => cancelled'
      BY <1>0, <3>2 DEF HandOver, TypeOK, Kinds
    <3>4. queue \in Seq(Steps \cup {Wake}) /\ \A i \in 1..Len(queue) : queue[i] \in Steps \cup {Wake}
      BY <1>0 DEF TypeOK
    <3>5. \A i \in 1..Len(queue') : queue'[i] = s \/ \E j \in 1..Len(queue) : queue'[i] = queue[j]
      BY <3>2, <3>4
    <3>6. \A t \in Steps : thread[t] = "exited" => thread'[t] = "exited"
      BY <1>0, OnlyForward
    <3>7. thread'[s] = "exited"
      BY <1>0, <3>2 DEF TypeOK
    <3>8. \A i \in 1..Len(queue') : queue'[i] # Wake => thread'[queue'[i]] = "exited"
      BY <1>0, <3>4, <3>5, <3>6, <3>7 DEF HandOver
    <3>9. pc' = "complete" /\ cur' \in Steps => thread'[cur'] = "exited"
      BY <1>0, <3>2, <3>6 DEF HandOver
    <3> QED
      BY <3>3, <3>8, <3>9 DEF HandOver
  <2>2. CASE ~\E s \in Steps : StepThread(s)
    <3>1. UNCHANGED <<posted, thread>> /\ (queue' = queue \/ queue' = Append(queue, Wake))
          /\ (UNCHANGED <<pc, cur>> \/ pc' = "wind" \/ pc' = "raised")
      BY <1>5, <2>2 DEF QuietWorld, WindDown, InterruptCaught, InterruptRaised, Cancel, PostWake, WindGracePasses,
         DeadlinePasses, GracePasses
    <3>3. pc' = "complete" /\ cur' \in Steps => thread[cur'] = "exited"
      BY <1>0, <3>1 DEF HandOver
    <3> QED
      BY <1>a, <1>1, <3>1, <3>3
  <2> QED
    BY <2>1, <2>2
<1> QED
  BY <1>2, <1>3, <1>4, <1>5, ConcludedMoves

\* IInv is inductive.
LEMMA IInvNext == IInv /\ [Next]_vars => IInv'
  BY TypeNext, BooksNext, HandOverNext, LaneNext, DependencyNext, VerdictNext DEF IInv

\* IInv holds throughout.
LEMMA IInvAlways == Spec => []IInv
  BY IInvInit, IInvNext, PTL DEF Spec

\* A completion reaches the coordinator's hand or waits in the queue, initially ...
LEMMA CompletionInit == Init => CompletionKept
  BY DEF Init, CompletionKept

\* ... and after every step: it is queued as its thread exits, handed over as it is taken, and
\* leaves the coordinator's hand only for the books.
LEMMA CompletionNext == IInv /\ CompletionKept /\ [Next]_vars => CompletionKept'
<1> SUFFICES ASSUME IInv, CompletionKept, [Next]_vars, ~interrupted'
             PROVE  \A s \in running' : thread'[s] = "exited" =>
                       s \in ToSet(queue') \/ (pc' = "complete" /\ cur' = s)
  BY DEF CompletionKept
<1>0. TypeOK /\ Books /\ queue \in Seq(Steps \cup {Wake})
  BY DEF IInv, TypeOK
<1> DEFINE Kept(s) == s \in ToSet(queue) \/ (pc = "complete" /\ cur = s)
<1>1. ~interrupted /\ \A s \in running : thread[s] = "exited" => Kept(s)
  <2>1. ~interrupted
    <3>1. interrupted => interrupted'
      BY DEF Next, Coordinator, Interrupt, Clock, Terminated, WindDown, StepThread, StepReturns, StepFails, Deliver,
             vars, Begin, LoopEnds, LoopSchedules, LoopCancelled, StartStep, LaunchThread, EmitStepStarted,
             StartPassEnds, TakeMessage, NoMessage, IgnoreMessage, CompleteStep, EmitResult, EmitStepFinished,
             EnforceBudgets, WindDownPolls, WindDownGivesUp, AbandonStep, AbandonEnds, Assemble,
             EmitScanFinished, InterruptCaught, InterruptRaised, Cancel, PostWake, WindGracePasses,
             DeadlinePasses, GracePasses
    <3> QED
      BY <3>1
  <2> QED
    BY <2>1 DEF CompletionKept
<1>2. /\ queue' = queue => ToSet(queue') = ToSet(queue)
      /\ \A m \in Steps \cup {Wake} :
            queue' = Append(queue, m) => ToSet(queue) \subseteq ToSet(queue') /\ m \in ToSet(queue')
      /\ queue # <<>> /\ queue' = Tail(queue) => ToSet(queue) \subseteq ToSet(queue') \cup {Head(queue)}
  <2>1. ASSUME NEW m \in Steps \cup {Wake}, queue' = Append(queue, m)
        PROVE  ToSet(queue) \subseteq ToSet(queue') /\ m \in ToSet(queue')
    <3>1. /\ Len(queue') = Len(queue) + 1 /\ queue'[Len(queue) + 1] = m
          /\ DOMAIN queue' = 1..(Len(queue) + 1) /\ DOMAIN queue = 1..Len(queue) /\ Len(queue) \in Nat
          /\ \A j \in 1..Len(queue) : queue'[j] = queue[j]
      BY <1>0, <2>1
    <3> QED
      BY <3>1 DEF ToSet
  <2>2. ASSUME queue # <<>>, queue' = Tail(queue)
        PROVE  ToSet(queue) \subseteq ToSet(queue') \cup {Head(queue)}
    <3>1. /\ Head(queue) = queue[1] /\ Len(queue) \in Nat
          /\ DOMAIN queue' = 1..(Len(queue) - 1) /\ DOMAIN queue = 1..Len(queue)
          /\ \A j \in 1..(Len(queue) - 1) : queue'[j] = queue[j + 1]
      BY <1>0, <2>2
    <3>2. ASSUME NEW j \in 1..Len(queue), j # 1
          PROVE  j - 1 \in DOMAIN queue' /\ queue'[j - 1] = queue[j]
      BY <3>1, <3>2
    <3> QED
      BY <3>1, <3>2 DEF ToSet
  <2> QED
    BY <2>1, <2>2
<1>3. ASSUME NEW i \in DOMAIN Plan, StartStep(i)
      PROVE  \A s \in running' : thread'[s] = "exited" => s \in ToSet(queue')
  <2>1. /\ pc = "start" /\ UNCHANGED <<thread, queue>>
        /\ running' = running \cup {Plan[i]} /\ Plan[i] \in pending
    BY <1>3 DEF StartStep, FirstReady, Ready
  <2>2. thread[Plan[i]] = "none"
    BY <1>0, <2>1 DEF Books
  <2> QED
    BY <1>1, <2>1, <2>2
<1>4. ASSUME CompleteStep
      PROVE  \A s \in running' : thread'[s] = "exited" => s \in ToSet(queue')
  <2>1. running' = running \ {cur} /\ UNCHANGED <<thread, queue>>
    BY <1>4 DEF CompleteStep, Finish
  <2> QED
    BY <1>1, <2>1
<1>5. ASSUME NEW t \in Steps, AbandonStep(t)
      PROVE  \A s \in running' : thread'[s] = "exited" => s \in ToSet(queue')
  <2>1. pc = "abandon" /\ running' \subseteq running /\ UNCHANGED <<thread, queue>>
    BY <1>5 DEF AbandonStep, Finish
  <2> QED
    BY <1>1, <2>1
<1>6. CASE QuietControl
  <2>1. running' = running
    BY <1>6, QuietKeepsBooks
  <2>2. ASSUME NEW s \in running, thread'[s] = "exited" PROVE thread[s] = "exited"
    <3>1. thread' = thread \/ thread' = [thread EXCEPT ![cur] = "live"]
      BY <1>6 DEF QuietControl, WindDown,
         Begin, LoopEnds, LoopSchedules, LoopCancelled, LaunchThread, EmitStepStarted, StartPassEnds,
         TakeMessage, NoMessage, IgnoreMessage, EmitResult, EmitStepFinished,
         EnforceBudgets, WindDownPolls, WindDownGivesUp, AbandonEnds, Assemble,
         EmitScanFinished
    <3> QED
      BY <1>0, <2>2, <3>1 DEF TypeOK
  <2>3. CASE TakeMessage
    <3>1. pc \in {"get", "drain"} /\ pc' = "complete" /\ cur' = Head(queue) /\ queue # <<>> /\ queue' = Tail(queue)
      BY <2>3 DEF TakeMessage
    <3> QED
      BY <1>1, <1>2, <2>1, <2>2, <3>1
  <2>4. CASE IgnoreMessage
    <3>1. cur \notin running /\ queue' = queue
      BY <2>4 DEF IgnoreMessage, OfRunningStep
    <3> QED
      BY <1>1, <2>1, <2>2, <3>1
  <2>5. CASE ~TakeMessage /\ ~IgnoreMessage
    <3>1. pc # "complete" /\ (queue' = queue \/ queue' = Append(queue, Wake))
      BY <1>6, <2>5 DEF QuietControl, WindDown,
         Begin, LoopEnds, LoopSchedules, LoopCancelled, LaunchThread, EmitStepStarted, StartPassEnds,
         NoMessage, EmitResult, EmitStepFinished,
         EnforceBudgets, WindDownPolls, WindDownGivesUp, AbandonEnds, Assemble,
         EmitScanFinished
    <3> QED
      BY <1>1, <1>2, <2>1, <2>2, <3>1
  <2> QED
    BY <2>3, <2>4, <2>5
<1>7. CASE QuietWorld
  <2>1. running' = running
    BY <1>7, QuietKeepsBooks
  <2>2. CASE \E t \in Steps : StepThread(t)
    <3>1. PICK t \in Steps : /\ thread' = [thread EXCEPT ![t] = "exited"]
                            /\ queue' = Append(queue, t) /\ UNCHANGED <<pc, cur>>
      BY <2>2 DEF StepThread, StepReturns, StepFails, Deliver
    <3> QED
      BY <1>0, <1>1, <1>2, <2>1, <3>1 DEF TypeOK
  <2>3. CASE ~\E t \in Steps : StepThread(t)
    <3>1. thread' = thread /\ (queue' = queue \/ queue' = Append(queue, Wake))
      BY <1>7, <2>3 DEF QuietWorld, InterruptCaught, InterruptRaised, Cancel, PostWake, WindGracePasses,
         DeadlinePasses, GracePasses
    <3>2. UNCHANGED <<pc, cur>> \/ pc # "complete"
      BY <1>1, <1>7, <2>3 DEF QuietWorld, InterruptCaught, InterruptRaised, Cancel, PostWake, WindGracePasses,
         DeadlinePasses, GracePasses
    <3> QED
      BY <1>1, <1>2, <2>1, <3>1, <3>2
  <2> QED
    BY <2>2, <2>3
<1> QED
  BY <1>3, <1>4, <1>5, <1>6, <1>7, NextCases

\* No completion is lost on the way from its thread to the books, except in the hand of a
\* coordinator that a Ctrl+C interrupts: a scan that waits, waits for a thread that still runs. That
\* the coordinator goes on and time passes is all CommandEnds needs besides.
THEOREM CompletionsKept == Spec => []CompletionKept
  BY IInvAlways, CompletionInit, CompletionNext, PTL DEF Spec

\* No two steps that share a lane are ever on the books together, whatever the plan, the
\* number of workers, the cancellations and the interrupts.
THEOREM LanesExclusive == Spec => []LaneExclusion
<1>1. IInv => LaneExclusion
  BY DEF IInv
<1> QED
  BY <1>1, IInvAlways, PTL

\* A step never starts before the steps it comes after are over.
THEOREM DependenciesKept == Spec => []DependencyOrder
<1>1. IInv => DependencyOrder
  BY DEF IInv
<1> QED
  BY <1>1, IInvAlways, PTL

\* The verdict on a step is the one its thread's delivery, its deadline and the token
\* account for.
THEOREM VerdictsEarned == Spec => []VerdictEarned
<1>1. IInv => VerdictEarned
  BY DEF IInv
<1> QED
  BY <1>1, IInvAlways, PTL

\* A verdict, once given, stands: neither a late completion nor a second abandonment
\* changes it.
THEOREM VerdictsFinal == Spec => VerdictIsFinal
<1> DEFINE Stands == \A s \in finished : /\ s \in finished' /\ s \notin running'
                                         /\ states'[s] = states[s]
                                         /\ items'[s] = items[s]
<1>1. IInv /\ [Next]_vars => Stands
  <2> SUFFICES ASSUME IInv, [Next]_vars PROVE Stands
    OBVIOUS
  <2>0. TypeOK /\ Books
    BY DEF IInv
  <2>1. ASSUME NEW i \in DOMAIN Plan, StartStep(i) PROVE Stands
    BY <2>0, <2>1, StartedStep DEF Books
  <2>2. ASSUME NEW s \in running, Concluded(s) PROVE Stands
    BY <2>0, <2>2 DEF Concluded, Finish, TypeOK, Books
  <2>3. CASE QuietControl \/ QuietWorld
    BY <2>0, <2>3, QuietKeepsBooks DEF Books
  <2> QED
    BY <2>1, <2>2, <2>3, ConcludedMoves
<1>2. IInv /\ [Next]_vars => [Stands]_vars
  BY <1>1
<1> QED
  BY <1>2, IInvAlways, PTL DEF Spec, VerdictIsFinal

\* A plan has finitely many steps.
LEMMA StepsFinite == IsFiniteSet(Steps)
<1>1. Plan \in Surjection(1..Len(Plan), Steps) /\ Len(Plan) \in Nat
  BY PlanAssumption DEF Surjection
<1>2. IsFiniteSet(1..Len(Plan))
  BY <1>1, FS_Interval
<1> QED
  BY <1>1, <1>2, FS_Surjection

\* Never more than max_workers steps are active.
THEOREM WorkersBounded == Spec => []WorkerBound
<1>1. Init => WorkerBound
  BY FS_EmptySet, BoundsAssumption DEF Init, WorkerBound
<1>2. IInv /\ WorkerBound /\ [Next]_vars => WorkerBound'
  <2> SUFFICES ASSUME IInv, WorkerBound, [Next]_vars PROVE WorkerBound'
    OBVIOUS
  <2>0. TypeOK /\ Books /\ MaxWorkers \in Nat
    BY BoundsAssumption DEF IInv
  <2>1. IsFiniteSet(running) /\ Cardinality(running) \in Nat
    BY <2>0, StepsFinite, FS_Subset, FS_CardinalityType DEF TypeOK
  <2>2. ASSUME NEW i \in DOMAIN Plan, StartStep(i) PROVE WorkerBound'
    <3>1. ~(Cardinality(running) >= MaxWorkers)
      BY <2>2 DEF StartStep, Full
    <3>2. running' = running \cup {Plan[i]} /\ Plan[i] \notin running
      BY <2>0, <2>2, StartedStep
    <3>3. Cardinality(running') = Cardinality(running) + 1
      BY <2>1, <3>2, FS_AddElement
    <3>4. Cardinality(running') \in Nat
      BY <2>1, <3>2, FS_AddElement, FS_CardinalityType
    <3> QED
      BY <2>0, <2>1, <3>1, <3>3, <3>4 DEF WorkerBound
  <2>3. ASSUME NEW s \in running, Concluded(s) PROVE WorkerBound'
    <3>1. running' = running \ {s}
      BY <2>3 DEF Concluded, Finish
    <3>2. Cardinality(running') = Cardinality(running) - 1
      BY <2>1, <3>1, FS_RemoveElement
    <3> QED
      BY <2>0, <2>1, <3>2 DEF WorkerBound
  <2>4. CASE QuietControl \/ QuietWorld
    BY <2>4, QuietKeepsBooks DEF WorkerBound
  <2> QED
    BY <2>2, <2>3, <2>4, ConcludedMoves
<1> QED
  BY <1>1, <1>2, IInvAlways, PTL DEF Spec

-----------------------------------------------------------------------------
(* What a caller may rely on: the runner implements its contract, its      *)
(* outcome and its events are true, it never waits for nothing; and so it  *)
(* is when the caller is a command.                                        *)

\* Closing holds initially.
LEMMA ClosingInit == Init => Closing
  BY DEF Init, Closing, NoReport

\* Closing is kept, given IInv.
LEMMA ClosingNext == IInv /\ Closing /\ [Next]_vars => Closing'
<1> SUFFICES ASSUME IInv, Closing, [Next]_vars PROVE Closing'
  OBVIOUS
<1>0. TypeOK /\ Books
  BY DEF IInv
<1>1. ASSUME NEW i \in DOMAIN Plan, StartStep(i) PROVE Closing'
  BY <1>1 DEF StartStep, Closing
<1>2. CASE CompleteStep
  BY <1>0, <1>2 DEF CompleteStep, Finish, Closing, TypeOK
<1>3. ASSUME NEW s \in Steps, AbandonStep(s) PROVE Closing'
  <2>1. /\ pc = "abandon" /\ pc' = "announce" /\ running' = running \ {s} /\ todo' = todo \ {s}
        /\ UNCHANGED <<winding, pending, result>>
    BY <1>3 DEF AbandonStep, Finish
  <2>2. \A t \in Steps \ finished' : states'[t] = "not_started"
    BY <1>0, <1>3 DEF AbandonStep, Finish, Closing, TypeOK
  <2> QED
    BY <2>1, <2>2 DEF Closing
<1>4. CASE QuietControl
  <2>1. UNCHANGED running /\ pending' \in {pending, {}}
    BY <1>4, QuietKeepsBooks
  <2>2. (winding' => pending' = {}) /\ (pc' = "enforce" => ~winding')
    BY <1>0, <1>4 DEF QuietControl, WindDown, Closing, TypeOK, Books,
       Begin, LoopEnds, LoopSchedules, LoopCancelled, LaunchThread, EmitStepStarted,
       StartPassEnds, TakeMessage, NoMessage, IgnoreMessage, EmitResult, EmitStepFinished,
       EnforceBudgets, WindDownPolls, WindDownGivesUp, AbandonEnds, Assemble,
       EmitScanFinished
  <2>3. winding' /\ (pc' = "abandon" \/ (pc' = "announce" /\ back' = "abandon"))
           => running' \subseteq todo'
    <3>1. \/ pc' \notin {"abandon", "announce"}
          \/ EnforceBudgets \/ WindDownGivesUp \/ EmitStepFinished \/ EmitResult
      BY <1>4 DEF QuietControl, WindDown,
         Begin, LoopEnds, LoopSchedules, LoopCancelled, LaunchThread, EmitStepStarted,
         StartPassEnds, TakeMessage, NoMessage, IgnoreMessage, WindDownPolls, AbandonEnds,
         Assemble, EmitScanFinished
    <3>2. CASE EnforceBudgets
      BY <3>2 DEF EnforceBudgets, Closing
    <3>3. CASE WindDownGivesUp
      BY <3>3 DEF WindDownGivesUp
    <3>4. CASE EmitStepFinished
      BY <3>4 DEF EmitStepFinished, Closing
    <3>5. CASE EmitResult
      BY <3>5 DEF EmitResult, Closing
    <3> QED
      BY <3>1, <3>2, <3>3, <3>4, <3>5
  <2>4. pc' = "assemble" => pending' = {} /\ running' = {}
    <3>1. \/ pc' # "assemble" \/ LoopEnds \/ AbandonEnds
      BY <1>0, <1>4 DEF QuietControl, WindDown, TypeOK,
         Begin, LoopSchedules, LoopCancelled, LaunchThread, EmitStepStarted,
         StartPassEnds, TakeMessage, NoMessage, IgnoreMessage, EmitResult,
         EmitStepFinished, EnforceBudgets, WindDownPolls, WindDownGivesUp, Assemble,
         EmitScanFinished
    <3> QED
      BY <3>1 DEF LoopEnds, AbandonEnds, Closing
  <2>5. pc' \notin {"scan_finished", "done", "raised"} => result'.outcome = "none"
    BY <1>4 DEF QuietControl, WindDown, Closing,
       Begin, LoopEnds, LoopSchedules, LoopCancelled, LaunchThread, EmitStepStarted,
       StartPassEnds, TakeMessage, NoMessage, IgnoreMessage, EmitResult, EmitStepFinished,
       EnforceBudgets, WindDownPolls, WindDownGivesUp, AbandonEnds, Assemble,
       EmitScanFinished
  <2> QED
    BY <1>4, QuietKeepsBooks, <2>2, <2>3, <2>4, <2>5 DEF Closing
<1>5. CASE QuietWorld
  <2>1. UNCHANGED <<running, result>> /\ pending' \in {pending, {}}
        /\ \/ UNCHANGED <<pc, back, todo, winding, pending>>
           \/ pc' = "raised" /\ UNCHANGED <<back, todo, winding, pending>>
           \/ pc' = "wind" /\ pending' = {} /\ pc \notin {"scan_finished", "done", "raised"}
    BY <1>5 DEF QuietWorld, WindDown, StepThread, StepReturns, StepFails, Deliver,
       InterruptCaught, InterruptRaised, Cancel, PostWake, WindGracePasses, DeadlinePasses, GracePasses
  <2> QED
    BY <1>5, QuietKeepsBooks, <2>1 DEF Closing
<1> QED
  BY <1>1, <1>2, <1>3, <1>4, <1>5, NextCases

-----------------------------------------------------------------------------
(* Every step of the runner is one of the contract *)

\* The phase of a step in the next state, read off the books there.
LEMMA PhaseNow ==
  ASSUME TypeOK, Books, NEW s \in Steps
  PROVE  /\ PhaseOf(s) = "waiting" <=> s \in pending
         /\ PhaseOf(s) = "active" <=> s \in running
         /\ VerdictEarned /\ s \in finished => PhaseOf(s) = states[s] /\ states[s] \in Contract!Ended
  BY DEF PhaseOf, TypeOK, Books, States, Verdicts, VerdictEarned, Contract!Ended

\* A step that leaves the books alone moves no step, except that what waits may be called off.
LEMMA SameBooks ==
  ASSUME TypeOK, Books, TypeOK', Books',
         UNCHANGED <<running, finished, states>>, NEW s \in Steps
  PROVE  /\ pending' = pending => PhaseOf(s)' = PhaseOf(s)
         /\ pending' = {} => PhaseOf(s)' = IF PhaseOf(s) = "waiting" THEN "not_started" ELSE PhaseOf(s)
  BY DEF PhaseOf, TypeOK, Books, States, Verdicts

\* The instance brings its own copy of FiniteSets.
LEMMA SameCardinality == \A S : Contract!Cardinality(S) = Cardinality(S)
  BY Zenon DEF Contract!Cardinality, Cardinality, Contract!IsFiniteSet, IsFiniteSet

\* Starting a step of the plan is the contract's Start.
LEMMA StartMapsToStart ==
  ASSUME IInv, IInv', Closing, WorkerBound, NEW i \in DOMAIN Plan, StartStep(i)
  PROVE  Contract!Start(Plan[i])
<1>0. TypeOK /\ Books /\ VerdictEarned /\ TypeOK' /\ Books'
  BY DEF IInv
<1>1. /\ Plan[i] \in Steps /\ Plan[i] \in pending /\ Ready(Plan[i])
      /\ pending' = pending \ {Plan[i]} /\ running' = running \cup {Plan[i]}
      /\ UNCHANGED <<finished, states, cancelled>>
  BY <1>0, StartedStep
<1>2. result.outcome = "none" /\ result' = result /\ ~Full
  BY DEF StartStep, Closing
<1>3. PhaseOf(Plan[i]) = "waiting"
  BY <1>0, <1>1, PhaseNow
<1>4. \A t \in After[Plan[i]] : t \in Steps /\ PhaseOf(t) \in Contract!Ended
  BY <1>0, <1>1, PhaseNow, AfterAssumption DEF Ready, TypeOK
<1>5. Contract!Active = running
  BY <1>0, PhaseNow DEF Contract!Active, TypeOK
<1>6. \A t \in running : Lanes[Plan[i]] \cap Lanes[t] = {}
  BY <1>0, <1>1 DEF Ready, Books
<1>7. Cardinality(running) < MaxWorkers
  <2>1. Cardinality(running) \in Nat /\ MaxWorkers \in Nat
    BY <1>0, StepsFinite, FS_Subset, FS_CardinalityType, BoundsAssumption DEF TypeOK
  <2> QED
    BY <1>2, <2>1 DEF Full
<1>8. \A s \in Steps : PhaseOf(s)' = IF s = Plan[i] THEN "active" ELSE PhaseOf(s)
  BY <1>0, <1>1 DEF PhaseOf, Books
<1>9. [s \in Steps |-> PhaseOf(s)]'
        = [[s \in Steps |-> PhaseOf(s)] EXCEPT ![Plan[i]] = "active"]
  BY <1>1, <1>8
<1>10. /\ [s \in Steps |-> PhaseOf(s)][Plan[i]] = "waiting"
       /\ \A t \in After[Plan[i]] : [s \in Steps |-> PhaseOf(s)][t] \in Contract!Ended
  BY <1>1, <1>3, <1>4
<1>11. /\ \A t \in Contract!Active : Lanes[Plan[i]] \cap Lanes[t] = {}
       /\ Contract!Cardinality(Contract!Active) < MaxWorkers
  BY <1>5, <1>6, <1>7, SameCardinality
<1> QED
  BY <1>1, <1>2, <1>9, <1>10, <1>11 DEF Contract!Start

\* Concluding one is its End.
LEMMA ConcludedMapsToEnd ==
  ASSUME IInv, IInv', Closing, NEW s \in running, Concluded(s), UNCHANGED result,
         pc \in {"complete", "abandon"}
  PROVE  \E v \in Contract!Ended : Contract!End(s, v)
<1>0. TypeOK /\ Books /\ VerdictEarned /\ TypeOK' /\ Books'
  BY DEF IInv
<1>1. PICK v \in Verdicts, its \in Seq(Item), b \in {"drain", "abandon"} :
         Finish(s, v, its, b) /\ Earned(s, v, its)
  BY DEF Concluded
<1>2. /\ s \in Steps /\ s \notin finished /\ s \notin pending
      /\ running' = running \ {s} /\ finished' = finished \cup {s}
      /\ states' = [states EXCEPT ![s] = v] /\ UNCHANGED <<pending, cancelled>>
  BY <1>0, <1>1 DEF Finish, Concluded, TypeOK, Books
<1>3. PhaseOf(s) = "active" /\ result.outcome = "none"
  BY <1>0, PhaseNow, <1>2 DEF Closing
<1>4. \A t \in Steps : PhaseOf(t)' = IF t = s THEN v ELSE PhaseOf(t)
  BY <1>0, <1>2 DEF PhaseOf, Books, TypeOK
<1>5. v = "cancelled" => cancelled
  BY <1>1 DEF Earned
<1>6. v \in Contract!Ended
  BY DEF Contract!Ended, Verdicts
<1> QED
  BY <1>2, <1>3, <1>4, <1>5, <1>6 DEF Contract!End

\* Every other step is Cancel, CallOff, Conclude or a stutter.
LEMMA QuietMaps ==
  ASSUME IInv, IInv', Closing, QuietControl \/ QuietWorld
  PROVE  [Contract!CNext]_(Contract!cvars)
<1>0. TypeOK /\ Books /\ VerdictEarned /\ TypeOK' /\ Books'
  BY DEF IInv
<1>1. UNCHANGED <<running, finished, states>> /\ pending' \in {pending, {}}
  BY QuietKeepsBooks
<1>2. \A s \in Steps :
         /\ pending' = pending => PhaseOf(s)' = PhaseOf(s)
         /\ pending' = {} => PhaseOf(s)' = IF PhaseOf(s) = "waiting" THEN "not_started" ELSE PhaseOf(s)
  BY <1>0, <1>1, SameBooks
<1>3. CASE Assemble
  <2>1. /\ pending = {} /\ running = {} /\ result.outcome = "none"
        /\ result'.outcome = Outcome /\ UNCHANGED <<pending, cancelled>>
    BY <1>3 DEF Assemble, Closing
  <2>2. \A s \in Steps : PhaseOf(s) \notin {"waiting", "active"}
    BY <1>0, <2>1, PhaseNow
  <2>3. \A s \in Steps : PhaseOf(s) \in {"cancelled", "not_started"}
                           <=> states[s] \in {"cancelled", "not_started"}
    BY <1>0, <2>1 DEF PhaseOf, VerdictEarned, Closing
  <2>4. Contract!Conclude
    BY <1>2, <2>1, <2>2, <2>3 DEF Contract!Conclude, Outcome
  <2> QED
    BY <2>4 DEF Contract!CNext
<1>4. CASE UNCHANGED result /\ cancelled' = cancelled /\ pending' = pending
  BY <1>2, <1>4 DEF Contract!cvars
<1>5. CASE UNCHANGED result /\ cancelled' = TRUE /\ pending' = pending
  <2>1. Contract!Cancel
    BY <1>2, <1>5 DEF Contract!Cancel
  <2> QED
    BY <2>1 DEF Contract!CNext
<1>6. CASE UNCHANGED result /\ cancelled' = TRUE /\ pending' = {} /\ result.outcome = "none"
  <2>1. Contract!CallOff
    BY <1>2, <1>6 DEF Contract!CallOff
  <2> QED
    BY <2>1 DEF Contract!CNext
<1>7. CASE QuietControl /\ ~Assemble
  <2>1. UNCHANGED <<result, cancelled>>
    BY <1>7 DEF QuietControl, WindDown,
       Begin, LoopEnds, LoopSchedules, LoopCancelled, LaunchThread, EmitStepStarted,
       StartPassEnds, TakeMessage, NoMessage, IgnoreMessage, EmitResult, EmitStepFinished,
       EnforceBudgets, WindDownPolls, WindDownGivesUp, AbandonEnds, EmitScanFinished
  <2>2. pending' = pending \/ (cancelled /\ pending' = {} /\ pc = "loop")
    BY <1>7 DEF QuietControl, WindDown,
       Begin, LoopEnds, LoopSchedules, LoopCancelled, LaunchThread, EmitStepStarted,
       StartPassEnds, TakeMessage, NoMessage, IgnoreMessage, EmitResult, EmitStepFinished,
       EnforceBudgets, WindDownPolls, WindDownGivesUp, AbandonEnds, EmitScanFinished
  <2> QED
    BY <1>4, <1>6, <2>1, <2>2 DEF Closing
<1>8. CASE QuietWorld
  <2>1. UNCHANGED result
    BY <1>8 DEF QuietWorld, WindDown, StepThread, StepReturns, StepFails, Deliver,
       InterruptCaught, InterruptRaised, Cancel, PostWake, WindGracePasses, DeadlinePasses, GracePasses
  <2>2. \/ UNCHANGED <<cancelled, pending>>
        \/ cancelled' = TRUE /\ UNCHANGED pending
        \/ cancelled' = TRUE /\ pending' = {} /\ pc \notin {"scan_finished", "done", "raised"}
    BY <1>8 DEF QuietWorld, WindDown, StepThread, StepReturns, StepFails, Deliver,
       InterruptCaught, InterruptRaised, Cancel, PostWake, WindGracePasses, DeadlinePasses, GracePasses
  <2> QED
    BY <1>4, <1>5, <1>6, <2>1, <2>2 DEF Closing
<1> QED
  BY <1>3, <1>7, <1>8

\* The runner implements its contract: what a caller may rely on is what ScanContract says.
THEOREM RunnerImplementsContract == Spec => ImplementsContract
<1>1. Init => Contract!CInit
  BY DEF Init, Contract!CInit, PhaseOf, NoReport
<1>2. /\ IInv /\ Closing /\ WorkerBound /\ IInv'
      /\ [Next]_vars
      => [Contract!CNext]_(Contract!cvars)
  <2> SUFFICES ASSUME IInv, Closing, WorkerBound, IInv', [Next]_vars
               PROVE  [Contract!CNext]_(Contract!cvars)
    OBVIOUS
  <2>0. TypeOK /\ Books /\ HandOver
    BY DEF IInv
  <2>1. ASSUME NEW i \in DOMAIN Plan, StartStep(i) PROVE Contract!CNext
    <3>1. Contract!Start(Plan[i]) /\ Plan[i] \in Steps
      BY <2>0, <2>1, StartMapsToStart, StartedStep
    <3> QED
      BY <3>1 DEF Contract!CNext
  <2>2. CASE CompleteStep
    <3>1. cur \in running /\ Concluded(cur) /\ UNCHANGED result /\ pc = "complete"
      BY <2>0, <2>2, CompletionConcludes DEF CompleteStep
    <3>2. \E v \in Contract!Ended : Contract!End(cur, v)
      BY <3>1, ConcludedMapsToEnd
    <3> QED
      BY <2>0, <3>1, <3>2 DEF Contract!CNext, TypeOK
  <2>3. ASSUME NEW s \in Steps, AbandonStep(s) PROVE Contract!CNext
    <3>1. s \in running /\ Concluded(s) /\ UNCHANGED result /\ pc = "abandon"
      BY <2>0, <2>3, AbandonmentConcludes DEF AbandonStep
    <3>2. \E v \in Contract!Ended : Contract!End(s, v)
      BY <3>1, ConcludedMapsToEnd
    <3> QED
      BY <3>2 DEF Contract!CNext
  <2>4. CASE QuietControl \/ QuietWorld
    BY <2>4, QuietMaps
  <2> QED
    BY <2>1, <2>2, <2>3, <2>4, NextCases
<1>3. Spec => []Closing
  BY ClosingInit, ClosingNext, IInvAlways, PTL DEF Spec
<1> QED
  BY <1>1, <1>2, <1>3, IInvAlways, WorkersBounded, PTL DEF Spec, ImplementsContract, Contract!CSpec
-----------------------------------------------------------------------------
(* What the caller is told: the outcome *)

\* Accounted holds initially.
LEMMA AccountedInit == Init => Accounted
  BY DEF Init, Accounted, NoReport

\* Once the outcome is there, the books are closed.
LEMMA AccountedNext == IInv /\ Closing /\ Accounted /\ [Next]_vars => Accounted'
<1> SUFFICES ASSUME IInv, Closing, Accounted, [Next]_vars PROVE Accounted'
  OBVIOUS
<1>0. TypeOK /\ Books
  BY DEF IInv
<1>1. ASSUME NEW i \in DOMAIN Plan, StartStep(i) PROVE Accounted'
  <2>1. /\ pc = "start" /\ pc' = "launch" /\ result' = result /\ winding' = winding
        /\ Plan[i] \in pending /\ pending' = pending \ {Plan[i]}
        /\ running' = running \cup {Plan[i]} /\ finished' = finished
    BY <1>0, <1>1, StartedStep DEF StartStep
  <2>2. result.outcome = "none"
    BY <2>1 DEF Closing
  <2> QED
    BY <2>1, <2>2 DEF Accounted
<1>2. ASSUME NEW s \in Steps, (CompleteStep /\ s = cur) \/ AbandonStep(s) PROVE Accounted'
  <2>1. /\ pc \in {"complete", "abandon"} /\ pc' = "announce" /\ UNCHANGED <<result, winding, pending>>
        /\ running' = running \ {s} /\ finished' = finished \cup {s}
    BY <1>2 DEF CompleteStep, AbandonStep, Finish
  <2>2. result.outcome = "none"
    BY <2>1 DEF Closing
  <2> QED
    BY <2>1, <2>2 DEF Accounted
<1>3. CASE CompleteStep
  <2>1. cur \in Steps
    BY <1>0, <1>3 DEF CompleteStep, OfRunningStep, TypeOK
  <2> QED
    BY <1>2, <1>3, <2>1
<1>4. CASE QuietControl \/ QuietWorld
  <2>1. UNCHANGED <<running, finished, states>> /\ pending' \in {pending, {}}
    BY <1>4, QuietKeepsBooks
  <2>2. Outcome' = Outcome
    BY <2>1 DEF Outcome
  <2>3. CASE Assemble
    BY <2>1, <2>2, <2>3 DEF Assemble, Outcome, Closing, Accounted
  <2>4. CASE QuietControl /\ ~Assemble
    <3>1. UNCHANGED result
      BY <2>4 DEF QuietControl, WindDown,
         Begin, LoopEnds, LoopSchedules, LoopCancelled, LaunchThread, EmitStepStarted,
         StartPassEnds, TakeMessage, NoMessage, IgnoreMessage, EmitResult, EmitStepFinished,
         EnforceBudgets, WindDownPolls, WindDownGivesUp, AbandonEnds, EmitScanFinished
    <3>2. \/ UNCHANGED <<winding, pending>>
          \/ winding' /\ pc' = "wind" /\ pc = "loop"
      BY <2>4 DEF QuietControl, WindDown,
         Begin, LoopEnds, LoopSchedules, LoopCancelled, LaunchThread, EmitStepStarted,
         StartPassEnds, TakeMessage, NoMessage, IgnoreMessage, EmitResult, EmitStepFinished,
         EnforceBudgets, WindDownPolls, WindDownGivesUp, AbandonEnds, EmitScanFinished
    <3>3. \/ pc' \notin {"begin", "loop", "start", "launch", "step_started", "scan_finished", "done"}
          \/ pc' \in {"loop", "done"} /\ pc \in {"begin", "scan_finished"} /\ (Begin \/ EmitScanFinished)
          \/ LoopSchedules \/ LaunchThread \/ EmitStepStarted \/ AbandonEnds
      BY <1>0, <2>4 DEF QuietControl, WindDown, TypeOK,
         Begin, LoopEnds, LoopCancelled,
         StartPassEnds, TakeMessage, NoMessage, IgnoreMessage, EmitResult, EmitStepFinished,
         EnforceBudgets, WindDownPolls, WindDownGivesUp, EmitScanFinished
    <3>4. CASE UNCHANGED <<winding, pending>>
      <4>1. /\ pc' \in {"begin", "loop", "start", "launch", "step_started"} => ~winding
            /\ pc' \in {"start", "launch", "step_started"} => pending # {} \/ running # {}
            /\ pc' \in {"scan_finished", "done"} => result.outcome # "none"
        BY <2>4, <3>3 DEF Accounted, Begin, EmitScanFinished, LoopSchedules, LaunchThread,
           EmitStepStarted, AbandonEnds
      <4> QED
        BY <2>1, <2>2, <2>4, <3>1, <3>4, <4>1 DEF Accounted
    <3>5. CASE winding' /\ pc' = "wind" /\ pc = "loop"
      BY <2>1, <2>2, <3>1, <3>5 DEF Accounted, Closing
    <3> QED
      BY <3>2, <3>4, <3>5
  <2>5. CASE QuietWorld
    <3>1. UNCHANGED result
          /\ \/ UNCHANGED <<pc, winding, pending>>
             \/ pc' = "raised" /\ UNCHANGED <<winding, pending>>
             \/ pc' = "wind" /\ winding' /\ pc \notin {"scan_finished", "done", "raised"}
      BY <2>5 DEF QuietWorld, WindDown, StepThread, StepReturns, StepFails, Deliver,
         InterruptCaught, InterruptRaised, Cancel, PostWake, WindGracePasses, DeadlinePasses, GracePasses
    <3> QED
      BY <2>1, <2>2, <3>1 DEF Accounted, Closing
  <2> QED
    BY <1>4, <2>3, <2>4, <2>5
<1> QED
  BY <1>1, <1>2, <1>3, <1>4, NextCases

\* What holds of every state of the runner.
LEMMA ClosingAlways == Spec => [](IInv /\ Closing /\ Accounted)
<1>1. IInv /\ Closing /\ Accounted /\ [Next]_vars => Closing' /\ Accounted'
  BY ClosingNext, AccountedNext
<1> QED
  BY <1>1, ClosingInit, AccountedInit, IInvAlways, PTL DEF Spec

\* The outcome a scan ends with is true of its steps: COMPLETED lacks no contribution, CANCELLED
\* was cancelled, and what nobody cancelled is COMPLETED.
THEOREM OutcomesTrue == Spec => []OutcomeTrue
<1>1. ASSUME IInv, Closing, Accounted PROVE OutcomeTrue
  <2>0. TypeOK /\ Books /\ VerdictEarned
    BY <1>1 DEF IInv
  <2>1. \A s \in Steps : /\ s \notin finished <=> states[s] = "not_started"
                         /\ states[s] = "cancelled" => cancelled
    BY <1>1, <2>0 DEF Closing, VerdictEarned, Earned, Verdicts
  <2>2. winding => cancelled
    BY <2>0 DEF Books
  <2>3. finished \subseteq Steps
    BY <2>0 DEF TypeOK
  <2>4. result.outcome \in {"none", Outcome} /\ (pc = "done" => result.outcome # "none")
        /\ (result.outcome # "none" => winding \/ finished = Steps)
    BY <1>1 DEF Accounted
  <2> QED
    BY <2>1, <2>2, <2>3, <2>4 DEF OutcomeTrue, Outcome
<1> QED
  BY <1>1, ClosingAlways, PTL

-----------------------------------------------------------------------------
(* What the caller is told: the report *)

\* The items of a conclusion name its step.
LEMMA ConcludedItems ==
  ASSUME TypeOK, Reported, NEW s \in Steps, NEW v \in Verdicts, NEW its, Earned(s, v, its)
  PROVE  its \in Seq(ItemsOfStep(s))
<1>1. posted[s].items \in Seq(ItemsOfStep(s)) /\ <<>> \in Seq(ItemsOfStep(s))
  BY DEF Reported
<1>2. \A o \in {"timeout", "crash"} : Synthesized(s, o) \in Seq(ItemsOfStep(s))
  BY DEF Synthesized, ItemsOfStep, Item, ItemType
<1> QED
  BY <1>1, <1>2 DEF Earned, Verdicts

\* Reported holds initially.
LEMMA ReportedInit == Init => Reported
<1> SUFFICES ASSUME Init PROVE Reported
  OBVIOUS
<1>1. \A s \in Steps : items[s] = <<>> /\ posted[s].items = <<>> /\ <<>> \in Seq(ItemsOfStep(s))
  BY DEF Init, Nothing
<1> QED
  BY <1>1 DEF Init, Reported, NoReport

\* Reported is kept: items are only recorded while there is no report yet.
LEMMA ReportedNext == IInv /\ Closing /\ Reported /\ [Next]_vars => Reported'
<1> SUFFICES ASSUME IInv, Closing, Reported, [Next]_vars PROVE Reported'
  OBVIOUS
<1>0. TypeOK /\ Books /\ HandOver
  BY DEF IInv
<1>1. ASSUME UNCHANGED <<items, posted, result>> PROVE Reported'
  BY <1>1 DEF Reported, Assembled, OfType
<1>2. ASSUME NEW s \in Steps, Concluded(s), UNCHANGED result, pc \in {"complete", "abandon"}
      PROVE  Reported'
  <2>1. PICK v \in Verdicts, its \in Seq(Item) : Earned(s, v, its) /\ items' = [items EXCEPT ![s] = its]
    BY <1>2 DEF Concluded, Finish
  <2>2. its \in Seq(ItemsOfStep(s))
    BY <1>0, <2>1, ConcludedItems
  <2>3. UNCHANGED posted /\ result'.outcome = "none"
    BY <1>2 DEF Concluded, Closing
  <2>4. \A t \in Steps : items'[t] \in Seq(ItemsOfStep(t))
    BY <1>0, <2>1, <2>2 DEF Reported, TypeOK
  <2> QED
    BY <2>3, <2>4 DEF Reported
<1>3. CASE CompleteStep
  <2>1. cur \in running /\ Concluded(cur) /\ UNCHANGED result /\ pc = "complete"
    BY <1>0, <1>3, CompletionConcludes DEF CompleteStep
  <2> QED
    BY <1>0, <1>2, <2>1 DEF TypeOK
<1>4. ASSUME NEW s \in Steps, AbandonStep(s) PROVE Reported'
  <2>1. Concluded(s) /\ UNCHANGED result /\ pc = "abandon"
    BY <1>0, <1>4, AbandonmentConcludes DEF AbandonStep
  <2> QED
    BY <1>2, <2>1
<1>5. ASSUME NEW i \in DOMAIN Plan, StartStep(i) PROVE Reported'
  BY <1>1, <1>5 DEF StartStep
<1>6. CASE Assemble
  BY <1>6 DEF Assemble, Reported, Assembled, OfType
<1>7. CASE QuietControl /\ ~Assemble
  <2>1. UNCHANGED <<items, posted, result>>
    BY <1>7 DEF QuietControl, WindDown,
       Begin, LoopEnds, LoopSchedules, LoopCancelled, LaunchThread, EmitStepStarted,
       StartPassEnds, TakeMessage, NoMessage, IgnoreMessage, EmitResult, EmitStepFinished,
       EnforceBudgets, WindDownPolls, WindDownGivesUp, AbandonEnds, EmitScanFinished
  <2> QED
    BY <1>1, <2>1
<1>8. ASSUME NEW s \in Steps, StepThread(s) PROVE Reported'
  <2>1. ASSUME NEW kind, NEW its \in Seq(ItemsOfStep(s)), Deliver(s, kind, its) PROVE Reported'
    <3>1. UNCHANGED <<items, result>>
          /\ posted' = [posted EXCEPT ![s] = [kind |-> kind, late |-> s \in overdue, items |-> its]]
      BY <2>1 DEF Deliver
    <3>2. posted'[s].items = its /\ \A t \in Steps \ {s} : posted'[t] = posted[t]
      BY <1>0, <3>1 DEF TypeOK
    <3> QED
      BY <3>1, <3>2 DEF Reported, Assembled, OfType
  <2>2. ASSUME NEW types \in Outputs[s] PROVE Tagged(s, types) \in Seq(ItemsOfStep(s))
    <3>1. types \in Seq(ItemType) /\ Len(types) \in Nat
      BY OutputsAssumption
    <3>2. Tagged(s, types) \in [1..Len(types) -> ItemsOfStep(s)]
      BY <3>1 DEF Tagged, Item, ItemsOfStep
    <3> QED
      BY <3>1, <3>2
  <2>3. <<>> \in Seq(ItemsOfStep(s))
    OBVIOUS
  <2> QED
    BY <1>8, <2>1, <2>2, <2>3 DEF StepThread, StepReturns, StepFails
<1>9. CASE QuietWorld
  <2>1. (\E s \in Steps : StepThread(s)) \/ UNCHANGED <<items, posted, result>>
    BY <1>9 DEF QuietWorld, WindDown,
       InterruptCaught, InterruptRaised, Cancel, PostWake, WindGracePasses, DeadlinePasses, GracePasses
  <2> QED
    BY <1>1, <1>8, <2>1
<1> QED
  BY <1>3, <1>4, <1>5, <1>6, <1>7, <1>9, NextCases

\* What holds of every state, the report included.
LEMMA ReportedAlways == Spec => [](IInv /\ Closing /\ Accounted /\ Reported)
<1>1. IInv /\ Closing /\ Reported /\ [Next]_vars => Reported'
  BY ReportedNext
<1> QED
  BY <1>1, ReportedInit, ClosingAlways, PTL DEF Spec

\* Each step has one place in the plan.
LEMMA Places ==
  ASSUME NEW i \in DOMAIN Plan
  PROVE  Plan[i] \in Steps /\ Place(Plan[i]) = i
  BY PlanAssumption DEF Place

\* A list is in plan order, made of the steps' items of type t for the first n places.
MadeOf(list, t, n) ==
    /\ list \in Seq(Item)
    /\ \A i \in DOMAIN list : Place(list[i].step) <= n
    /\ \A i, j \in DOMAIN list : i < j => Place(list[i].step) <= Place(list[j].step)
    /\ \A s \in Steps : Only(list, ItemsOfStep(s))
                          = IF Place(s) <= n THEN OfType(s, t) ELSE <<>>

\* The items of the next step in the plan go behind such a list.
LEMMA OneMoreStep ==
  ASSUME TypeOK, Reported, NEW t, NEW n \in Nat, n + 1 \in DOMAIN Plan, NEW list, MadeOf(list, t, n)
  PROVE  MadeOf(list \o OfType(Plan[n + 1], t), t, n + 1)
<1> DEFINE s == Plan[n + 1]
           more == OfType(s, t)
           longer == list \o more
<1>1. s \in Steps /\ Place(s) = n + 1
  BY Places
<1>2. more \in Seq(ItemsOfStep(s)) /\ more \in Seq(Item)
  <2> DEFINE D == ItemsOfStep(s)
  <2>1. items[s] \in Seq(D)
    BY <1>1 DEF Reported
  <2>2. D \cap ItemsOfType(t) \subseteq D /\ D \subseteq Item
    BY DEF ItemsOfStep
  <2> HIDE DEF D, s
  <2>3. Only(items[s], ItemsOfType(t)) \in Seq(D)
    BY <2>1, OnlyTyped
  <2> QED
    BY <2>2, <2>3 DEF OfType, D
<1>3. list \in Seq(Item)
  BY DEF MadeOf
<1>4. /\ longer \in Seq(Item) /\ Len(longer) = Len(list) + Len(more)
      /\ Len(list) \in Nat /\ Len(more) \in Nat
      /\ \A i \in 1..Len(list) : longer[i] = list[i]
      /\ \A i \in (Len(list) + 1)..Len(longer) : longer[i] \in ItemsOfStep(s)
  BY <1>2, <1>3
<1> HIDE DEF s, more
<1>5. \A i \in 1..Len(longer) :
         \/ i \in 1..Len(list) /\ longer[i] = list[i] /\ Place(longer[i].step) <= n
            /\ Place(longer[i].step) \in Int
         \/ i \notin 1..Len(list) /\ Place(longer[i].step) = n + 1
  <2> SUFFICES ASSUME NEW i \in 1..Len(longer)
               PROVE \/ i \in 1..Len(list) /\ longer[i] = list[i] /\ Place(longer[i].step) <= n
                        /\ Place(longer[i].step) \in Int
                     \/ i \notin 1..Len(list) /\ Place(longer[i].step) = n + 1
    OBVIOUS
  <2> HIDE DEF longer
  <2>1. CASE i \in 1..Len(list)
    <3>1. longer[i] = list[i] /\ list[i] \in Item /\ Place(list[i].step) <= n
      BY <1>3, <1>4, <2>1 DEF MadeOf
    <3>2. PICK k \in DOMAIN Plan : Plan[k] = list[i].step
      BY <3>1, PlanAssumption DEF Item
    <3>3. Place(list[i].step) = k /\ k \in Int
      BY <3>2, Places, PlanAssumption
    <3> QED
      BY <2>1, <3>1, <3>3
  <2>2. CASE i \notin 1..Len(list)
    BY <1>1, <1>4, <2>2 DEF ItemsOfStep
  <2> QED
    BY <2>1, <2>2
<1>6. \A r \in Steps : Only(longer, ItemsOfStep(r)) = IF Place(r) <= n + 1 THEN OfType(r, t) ELSE <<>>
  <2> SUFFICES ASSUME NEW r \in Steps
               PROVE Only(longer, ItemsOfStep(r)) = IF Place(r) <= n + 1 THEN OfType(r, t) ELSE <<>>
    OBVIOUS
  <2>1. Only(longer, ItemsOfStep(r)) = Only(list, ItemsOfStep(r)) \o Only(more, ItemsOfStep(r))
    BY <1>2, <1>3, OnlyConcat
  <2>2. Only(list, ItemsOfStep(r)) = IF Place(r) <= n THEN OfType(r, t) ELSE <<>>
    BY DEF MadeOf
  <2>3. Only(list, ItemsOfStep(r)) \in Seq(Item)
    BY <1>3, OnlyTyped
  <2>4. PICK k \in DOMAIN Plan : Plan[k] = r
    BY PlanAssumption
  <2>5. Place(r) = k /\ k \in Int
    BY <2>4, Places, PlanAssumption
  <2>6. CASE r = s
    <3>1. Only(more, ItemsOfStep(r)) = more
      BY <1>2, <2>6, OnlyEntries
    <3>2. ~(Place(r) <= n) /\ Place(r) <= n + 1
      BY <1>1, <2>6
    <3>3. <<>> \o more = more
      BY <1>2
    <3> QED
      BY <2>1, <2>2, <2>6, <3>1, <3>2, <3>3 DEF more
  <2>7. CASE r # s
    <3>1. ItemsOfStep(s) \cap ItemsOfStep(r) = {}
      BY <2>7 DEF ItemsOfStep
    <3>2. more \in Seq(ItemsOfStep(s))
      BY <1>2
    <3>3. Only(more, ItemsOfStep(r)) = <<>>
      <4> DEFINE S == ItemsOfStep(s)
                 K == ItemsOfStep(r)
      <4> HIDE DEF S, K
      <4>1. more \in Seq(S) /\ \A x \in S : x \notin K
        BY <3>1, <3>2 DEF S, K
      <4>2. \A each \in Seq(S) : (\A x \in S : x \notin K) => Only(each, K) = <<>>
        BY OnlyEntries
      <4>3. Only(more, K) = <<>>
        BY <4>1, <4>2
      <4> QED
        BY <4>3 DEF K
    <3>4. Place(r) # n + 1
      BY <1>1, <2>4, <2>5, <2>7 DEF s
    <3>5. Only(list, ItemsOfStep(r)) \o <<>> = Only(list, ItemsOfStep(r))
      BY <2>3
    <3> QED
      BY <2>1, <2>2, <2>5, <3>3, <3>4, <3>5
  <2> QED
    BY <2>6, <2>7
<1>7. DOMAIN longer = 1..Len(longer)
  BY <1>4
<1> HIDE DEF longer
<1>8. \A i, j \in DOMAIN longer : i < j => Place(longer[i].step) <= Place(longer[j].step)
  <2> SUFFICES ASSUME NEW i \in 1..Len(longer), NEW j \in 1..Len(longer), i < j
               PROVE  Place(longer[i].step) <= Place(longer[j].step)
    BY <1>7
  <2>1. CASE j \in 1..Len(list)
    <3>1. i \in 1..Len(list) /\ DOMAIN list = 1..Len(list)
      BY <1>3, <1>4, <2>1
    <3> QED
      BY <1>4, <2>1, <3>1 DEF MadeOf
  <2>2. CASE j \notin 1..Len(list)
    BY <1>5, <2>2
  <2> QED
    BY <2>1, <2>2
<1>9. \A i \in DOMAIN longer : Place(longer[i].step) <= n + 1
  BY <1>5, <1>7
<1> QED
  BY <1>4, <1>6, <1>8, <1>9 DEF MadeOf, longer, more, s

\* So the report is made of the items of the whole plan.
LEMMA AssembledInOrder ==
  ASSUME TypeOK, Reported, NEW t
  PROVE  MadeOf(Assembled(t), t, Len(Plan))
<1> DEFINE seqs == [i \in DOMAIN Plan |-> OfType(Plan[i], t)]
<1>1. Len(Plan) \in Nat /\ DOMAIN Plan = 1..Len(Plan)
  BY PlanAssumption
<1>2. seqs \in Seq(Seq(Item)) /\ Len(seqs) = Len(Plan)
  <2>1. \A i \in DOMAIN Plan : OfType(Plan[i], t) \in Seq(Item)
    <3> SUFFICES ASSUME NEW i \in DOMAIN Plan PROVE OfType(Plan[i], t) \in Seq(Item)
      OBVIOUS
    <3>1. items[Plan[i]] \in Seq(Item)
      BY Places DEF TypeOK
    <3> QED
      BY <3>1, OnlyTyped DEF OfType
  <2> QED
    BY <1>1, <2>1
<1>3. Assembled(t) = FlattenSeq(seqs)
  BY DEF Assembled
<1>4. \A i \in 1..Len(Plan) : seqs[i] = OfType(Plan[i], t)
  BY <1>1
<1> HIDE DEF seqs
<1>5. PICK f \in [0..Len(seqs) -> Seq(Item)] :
         /\ f[0] = <<>>
         /\ \A i \in 1..Len(seqs) : f[i] = f[i - 1] \o seqs[i]
         /\ FlattenSeq(seqs) = f[Len(seqs)]
  BY <1>2, FlattenUnfolds
<1> DEFINE T == {n \in Nat : n <= Len(Plan) => MadeOf(f[n], t, n)}
<1>6. 0 \in T
  <2>1. <<>> \in Seq(Item) /\ DOMAIN <<>> = {}
    OBVIOUS
  <2>2. \A s \in Steps : ~(Place(s) <= 0)
    <3> SUFFICES ASSUME NEW s \in Steps PROVE ~(Place(s) <= 0)
      OBVIOUS
    <3>1. PICK k \in DOMAIN Plan : Plan[k] = s
      BY PlanAssumption
    <3> QED
      BY <1>1, <3>1, Places
  <2>3. \A s \in Steps : Only(<<>>, ItemsOfStep(s)) = <<>>
    BY <2>1, OnlyTyped
  <2>4. MadeOf(<<>>, t, 0)
    BY <2>1, <2>2, <2>3 DEF MadeOf
  <2> QED
    BY <1>5, <2>4
<1>7. ASSUME NEW n \in T PROVE n + 1 \in T
  <2> SUFFICES ASSUME n + 1 <= Len(Plan) PROVE MadeOf(f[n + 1], t, n + 1)
    OBVIOUS
  <2>1. n + 1 \in 1..Len(Plan) /\ n + 1 - 1 = n /\ n + 1 \in DOMAIN Plan /\ n \in Nat
    BY <1>1
  <2>2. f[n + 1] = f[n] \o OfType(Plan[n + 1], t)
    <3>1. n + 1 \in 1..Len(seqs)
      BY <1>2, <2>1
    <3>2. \A i \in 1..Len(seqs) : f[i] = f[i - 1] \o seqs[i]
      BY <1>5
    <3>5. f[n + 1] = f[n + 1 - 1] \o seqs[n + 1]
      <4> DEFINE N == Len(seqs)
      <4> HIDE DEF N
      <4> QED
        BY <3>1, <3>2 DEF N
    <3>3. seqs[n + 1] = OfType(Plan[n + 1], t)
      BY <1>1, <1>4, <2>1
    <3>4. f[n + 1 - 1] = f[n]
      BY <2>1
    <3> QED
      BY <3>3, <3>4, <3>5
  <2>3. MadeOf(f[n], t, n)
    BY <1>1
  <2> QED
    BY <2>1, <2>2, <2>3, OneMoreStep
<1>8. \A n \in Nat : n \in T
  <2> HIDE DEF T
  <2>1. T \subseteq Nat
    BY DEF T
  <2> QED
    BY <1>6, <1>7, <2>1, SetInduction
<1>9. MadeOf(f[Len(Plan)], t, Len(Plan))
  BY <1>1, <1>8
<1> QED
  BY <1>2, <1>3, <1>5, <1>9

\* The report lists every step's items, whole and in plan order, whatever order the steps finish
\* in and however the scan ends, for every plan.
THEOREM ReportsOrdered == Spec => []ReportInPlanOrder
<1>1. ASSUME IInv, Reported PROVE ReportInPlanOrder
  <2>0. TypeOK
    BY <1>1 DEF IInv
  <2> SUFFICES ASSUME result.outcome # "none", NEW t \in ItemType,
                      NEW list, list = IF t = "diagnostic" THEN result.results ELSE result.findings
               PROVE  /\ \A i, j \in DOMAIN list : i < j => Place(list[i].step) <= Place(list[j].step)
                      /\ \A s \in Steps : Only(list, ItemsOfStep(s)) = Only(items[s], ItemsOfType(t))
    BY DEF ReportInPlanOrder
  <2>1. list = Assembled(t)
    BY <1>1 DEF Reported, ItemType
  <2>2. MadeOf(list, t, Len(Plan))
    BY <1>1, <2>0, <2>1, AssembledInOrder
  <2>3. \A s \in Steps : Place(s) <= Len(Plan)
    <3> SUFFICES ASSUME NEW s \in Steps PROVE Place(s) <= Len(Plan)
      OBVIOUS
    <3>1. PICK k \in DOMAIN Plan : Plan[k] = s
      BY PlanAssumption
    <3> QED
      BY <3>1, Places, PlanAssumption
  <2> QED
    BY <2>2, <2>3 DEF MadeOf, OfType
<1> QED
  BY <1>1, ReportedAlways, PTL

-----------------------------------------------------------------------------
(* Scheduling *)

\* A pass of the scheduler that ends without a cancellation has filled the workers, or left
\* nothing that could start, and something runs.
LEMMA PassEnds ==
  ASSUME IInv, Accounted, StartPassEnds, ~cancelled
  PROVE  /\ running # {}
         /\ \/ Cardinality(running) >= MaxWorkers
            \/ \A s \in pending : \/ ~(After[s] \subseteq finished)
                                  \/ \E t \in running : Lanes[s] \cap Lanes[t] # {}
<1>0. TypeOK /\ Books /\ MaxWorkers \in Nat \ {0}
  BY BoundsAssumption DEF IInv
<1>1. CASE Full
  <2>1. Cardinality(running) >= MaxWorkers
    BY <1>1 DEF Full
  <2>2. running # {}
    BY <1>0, <2>1, FS_EmptySet
  <2> QED
    BY <2>1, <2>2
<1>2. CASE \A i \in DOMAIN Plan : ~Ready(Plan[i])
  <2>1. ASSUME NEW s \in pending
        PROVE  \/ ~(After[s] \subseteq finished)
               \/ \E t \in running : Lanes[s] \cap Lanes[t] # {}
    <3>1. PICK i \in DOMAIN Plan : Plan[i] = s
      BY <1>0, PlanAssumption DEF TypeOK
    <3>2. ~Ready(s)
      BY <1>2, <3>1
    <3> QED
      BY <1>0, <3>2 DEF Ready, Books
  <2>2. ASSUME running = {} PROVE FALSE
    <3>1. pc = "start" /\ ~winding /\ pending # {} /\ pending \cup finished = Steps
      BY <2>2 DEF StartPassEnds, Accounted
    <3>2. PICK s \in pending : After[s] \cap pending = {}
      BY <1>0, <3>1, AfterAssumption DEF TypeOK
    <3>3. After[s] \subseteq Steps
      BY <1>0, AfterAssumption DEF TypeOK
    <3> QED
      BY <2>1, <2>2, <3>1, <3>2, <3>3
  <2> QED
    BY <2>1, <2>2
<1> QED
  BY <1>1, <1>2 DEF StartPassEnds

\* The coordinator never waits for a message while a step could start, nor for nothing at all.
THEOREM NeverIdle == Spec => []NoIdleWait
<1>1. Init => NoIdleWait
  BY DEF Init, NoIdleWait
<1>2. IInv /\ Accounted /\ NoIdleWait /\ [Next]_vars => NoIdleWait'
  <2> SUFFICES ASSUME IInv, Accounted, NoIdleWait, [Next]_vars, pc' = "get", ~cancelled'
               PROVE  /\ running' # {}
                      /\ \/ Cardinality(running') >= MaxWorkers
                         \/ \A s \in pending' : \/ ~(After[s] \subseteq finished')
                                                \/ \E t \in running' : Lanes[s] \cap Lanes[t] # {}
    BY DEF NoIdleWait
  <2>0. TypeOK /\ Books
    BY DEF IInv
  <2>1. ~cancelled
    BY <2>0, OnlyForward
  <2>2. ASSUME NEW i \in DOMAIN Plan, StartStep(i) PROVE FALSE
    BY <2>2 DEF StartStep
  <2>3. CompleteStep \/ (\E s \in Steps : AbandonStep(s)) => FALSE
    BY DEF CompleteStep, AbandonStep, Finish
  <2>4. CASE QuietControl
    <3>1. StartPassEnds \/ WindDownPolls
      BY <2>0, <2>4 DEF QuietControl, WindDown, TypeOK,
         Begin, LoopEnds, LoopSchedules, LoopCancelled, LaunchThread, EmitStepStarted,
         TakeMessage, NoMessage, IgnoreMessage, EmitResult, EmitStepFinished,
         EnforceBudgets, WindDownGivesUp, AbandonEnds, Assemble, EmitScanFinished
    <3>2. StartPassEnds
      BY <2>0, <2>1, <3>1 DEF WindDownPolls, Books
    <3>3. UNCHANGED <<running, pending, finished>>
      BY <3>2 DEF StartPassEnds
    <3> QED
      BY <2>1, <3>2, <3>3, PassEnds
  <2>5. CASE QuietWorld
    <3>1. pc' = pc /\ UNCHANGED <<running, pending, finished>>
      BY <2>5 DEF QuietWorld, WindDown, StepThread, StepReturns, StepFails, Deliver,
         InterruptCaught, InterruptRaised, Cancel, PostWake, WindGracePasses, DeadlinePasses, GracePasses
    <3> QED
      BY <2>1, <3>1 DEF NoIdleWait
  <2> QED
    BY <2>2, <2>3, <2>4, <2>5, NextCases
<1> QED
  BY <1>1, <1>2, ClosingAlways, PTL DEF Spec

-----------------------------------------------------------------------------
(* What the caller is told: the events *)

\* Announced holds initially.
LEMMA AnnouncedInit == Init => Announced
  BY DEF Init, Announced

\* An action that emits nothing and leaves the books and the announcements in hand alone.
LEMMA SilentKeeps ==
  ASSUME Announced, UNCHANGED <<running, finished, items, told, scanTold, interrupted>>,
         \/ UNCHANGED <<pc, cur>>
         \/ /\ pc \notin {"begin", "done", "raised", "launch", "step_started", "announce"}
            /\ pc' \notin {"launch", "step_started", "announce"}
         \/ pc = "launch" /\ pc' = "step_started" /\ UNCHANGED cur
         \/ pc \in {"begin", "assemble", "scan_finished"} /\ pc' = "raised"
  PROVE  Announced'
  BY DEF Announced

\* Announced is kept, given IInv.
LEMMA AnnouncedNext == IInv /\ Announced /\ [Next]_vars => Announced'
<1> SUFFICES ASSUME IInv, Announced, [Next]_vars PROVE Announced'
  OBVIOUS
<1>0. TypeOK /\ Books
  BY DEF IInv
<1>1. ASSUME NEW i \in DOMAIN Plan, StartStep(i) PROVE Announced'
  <2>1. /\ pc = "start" /\ pc' = "launch" /\ cur' = Plan[i] /\ Plan[i] \in Steps
        /\ Plan[i] \notin running /\ Plan[i] \notin finished
        /\ running' = running \cup {Plan[i]}
        /\ UNCHANGED <<finished, items, told, scanTold, interrupted>>
    BY <1>0, <1>1, StartedStep DEF StartStep
  <2> QED
    BY <2>1 DEF Announced, Silence
<1>2. ASSUME NEW s \in running, Concluded(s), UNCHANGED <<told, scanTold, interrupted>>,
             pc \in {"complete", "abandon"}
      PROVE  Announced'
  <2>1. PICK v \in Verdicts, its \in Seq(Item), b \in {"drain", "abandon"} : Finish(s, v, its, b)
    BY <1>2 DEF Concluded
  <2>2. /\ s \in Steps /\ s \notin finished
        /\ running' = running \ {s} /\ finished' = finished \cup {s}
        /\ pc' = "announce" /\ cur' = s
        /\ items' = [items EXCEPT ![s] = its] /\ Len(its) \in Nat
    BY <1>0, <1>2, <2>1 DEF Finish, TypeOK, Books
  <2>3. \A t \in Steps : t # s => items'[t] = items[t]
    BY <1>0, <2>2 DEF TypeOK
  <2>4. items'[s] = its
    BY <1>0, <2>2 DEF TypeOK
  <2> QED
    BY <1>2, <2>2, <2>3, <2>4 DEF Announced
<1>3. CASE CompleteStep
  BY <1>0, <1>2, <1>3, CompletionConcludes DEF CompleteStep, IInv
<1>4. ASSUME NEW s \in Steps, AbandonStep(s) PROVE Announced'
  BY <1>0, <1>2, <1>4, AbandonmentConcludes DEF AbandonStep, IInv
<1>5. CASE QuietControl
  <2>1. UNCHANGED <<running, finished, items, interrupted>>
    <3>1. UNCHANGED interrupted
      BY <1>5 DEF QuietControl, WindDown,
         Begin, LoopEnds, LoopSchedules, LoopCancelled, LaunchThread, EmitStepStarted,
         StartPassEnds, TakeMessage, NoMessage, IgnoreMessage, EmitResult, EmitStepFinished,
         EnforceBudgets, WindDownPolls, WindDownGivesUp, AbandonEnds, Assemble, EmitScanFinished
    <3> QED
      BY <1>5, <3>1, QuietKeepsBooks
  <2>2. CASE Begin
    BY <2>1, <2>2 DEF Begin, Announced
  <2>3. CASE EmitStepStarted
    <3>1. /\ pc = "step_started" /\ pc' = "start" /\ scanTold' = scanTold
          /\ told' = [told EXCEPT ![cur].started = TRUE]
      BY <2>3 DEF EmitStepStarted
    <3>2. cur \in Steps
      BY <1>0, <3>1 DEF TypeOK
    <3>3. \A t \in Steps : t # cur => told'[t] = told[t]
      BY <1>0, <3>1, <3>2 DEF TypeOK
    <3>4. /\ told'[cur].started /\ told'[cur].results = told[cur].results
          /\ told'[cur].finished = told[cur].finished
      BY <1>0, <3>1, <3>2 DEF TypeOK
    <3>5. interrupted \/ cur \in running
      BY <3>1 DEF Announced
    <3> QED
      BY <2>1, <3>1, <3>2, <3>3, <3>4, <3>5 DEF Announced
  <2>4. CASE EmitResult
    <3>1. /\ pc = "announce" /\ UNCHANGED <<pc, cur, scanTold>> /\ told[cur].results # Len(items[cur])
          /\ told' = [told EXCEPT ![cur].results = @ + 1]
      BY <2>4 DEF EmitResult, AllAnnounced
    <3>2. cur \in Steps
      BY <1>0, <3>1 DEF TypeOK
    <3>3. \A t \in Steps : t # cur => told'[t] = told[t]
      BY <1>0, <3>1, <3>2 DEF TypeOK
    <3>4. /\ told'[cur].started = told[cur].started /\ told'[cur].results = told[cur].results + 1
          /\ told'[cur].finished = told[cur].finished
      BY <1>0, <3>1, <3>2 DEF TypeOK
    <3>5. told[cur].results \in Nat /\ Len(items[cur]) \in Nat
      BY <1>0, <3>2 DEF TypeOK
    <3>6. cur \in running => cur \notin finished
      BY <1>0 DEF Books
    <3> QED
      BY <2>1, <3>1, <3>2, <3>3, <3>4, <3>5, <3>6 DEF Announced
  <2>5. CASE EmitStepFinished
    <3>1. /\ pc = "announce" /\ pc' \in {"drain", "abandon"} /\ UNCHANGED scanTold
          /\ told[cur].results = Len(items[cur])
          /\ told' = [told EXCEPT ![cur].finished = TRUE]
      BY <1>0, <2>5 DEF EmitStepFinished, AllAnnounced, TypeOK
    <3>2. cur \in Steps
      BY <1>0, <3>1 DEF TypeOK
    <3>3. \A t \in Steps : t # cur => told'[t] = told[t]
      BY <1>0, <3>1, <3>2 DEF TypeOK
    <3>4. /\ told'[cur].started = told[cur].started /\ told'[cur].results = told[cur].results
          /\ told'[cur].finished
      BY <1>0, <3>1, <3>2 DEF TypeOK
    <3>6. cur \in running => cur \notin finished
      BY <1>0 DEF Books
    <3> QED
      BY <2>1, <3>1, <3>2, <3>3, <3>4, <3>6 DEF Announced
  <2>6. CASE EmitScanFinished
    BY <2>1, <2>6 DEF EmitScanFinished, Announced
  <2>7. CASE ~(Begin \/ EmitStepStarted \/ EmitResult \/ EmitStepFinished \/ EmitScanFinished)
    <3>1. UNCHANGED <<told, scanTold>>
          /\ \/ /\ pc \notin {"begin", "done", "raised", "launch", "step_started", "announce"}
                /\ pc' \notin {"launch", "step_started", "announce"}
             \/ pc = "launch" /\ pc' = "step_started" /\ UNCHANGED cur
      BY <1>0, <1>5, <2>7 DEF QuietControl, WindDown, TypeOK,
         LoopEnds, LoopSchedules, LoopCancelled, LaunchThread,
         StartPassEnds, TakeMessage, NoMessage, IgnoreMessage,
         EnforceBudgets, WindDownPolls, WindDownGivesUp, AbandonEnds, Assemble
    <3> QED
      BY <2>1, <3>1, SilentKeeps
  <2> QED
    BY <2>2, <2>3, <2>4, <2>5, <2>6, <2>7
<1>6. CASE QuietWorld
  <2>1. UNCHANGED <<running, finished, items, told, scanTold>>
        /\ \/ interrupted'
           \/ UNCHANGED interrupted /\ interrupted
           \/ UNCHANGED <<interrupted, pc, cur>>
           \/ UNCHANGED interrupted /\ pc \in {"begin", "assemble", "scan_finished"} /\ pc' = "raised"
    BY <1>6 DEF QuietWorld, WindDown, StepThread, StepReturns, StepFails, Deliver,
       InterruptCaught, InterruptRaised, Cancel, PostWake, WindGracePasses, DeadlinePasses, GracePasses
  <2>2. interrupted' => Announced'
    BY DEF Announced
  <2> QED
    BY <2>1, <2>2, SilentKeeps
<1> QED
  BY <1>1, <1>3, <1>4, <1>5, <1>6, NextCases

\* As long as no Ctrl+C cuts one off, the events of every scan keep their protocol.
THEOREM EventsInOrder == Spec => []EventProtocol
<1>1. ASSUME IInv, Announced PROVE EventProtocol
  <2>1. finished \subseteq Steps
    BY <1>1 DEF IInv, TypeOK
  <2>2. \A s \in Steps : told[s].results \in Nat
    BY <1>1 DEF IInv, TypeOK
  <2>3. \A s \in running : s \notin finished
    BY <1>1 DEF IInv, Books
  <2> QED
    BY <1>1, <2>1, <2>2, <2>3 DEF EventProtocol, Announced, Silence
<1> QED
  BY <1>1, IInvAlways, AnnouncedInit, AnnouncedNext, PTL DEF Spec

\* ToldOnce holds initially.
LEMMA ToldOnceInit == Init => ToldOnce
  BY DEF Init, ToldOnce, Silence

\* ToldOnce is kept, given IInv.
LEMMA ToldOnceNext == IInv /\ ToldOnce /\ [Next]_vars => ToldOnce'
<1> SUFFICES ASSUME IInv, ToldOnce, [Next]_vars PROVE ToldOnce'
  OBVIOUS
<1>0. TypeOK /\ Books
  BY DEF IInv
<1>1. ASSUME NEW i \in DOMAIN Plan, StartStep(i) PROVE ToldOnce'
  BY <1>1 DEF StartStep, ToldOnce
<1>2. ASSUME NEW s \in running, Concluded(s), UNCHANGED <<told, scanTold>>, pc \in {"complete", "abandon"}
      PROVE  ToldOnce'
  <2>1. /\ s \in Steps /\ s \notin finished /\ finished' = finished \cup {s}
        /\ pc' = "announce" /\ cur' = s
    BY <1>0, <1>2 DEF Concluded, Finish, TypeOK, Books
  <2> QED
    BY <1>2, <2>1 DEF ToldOnce
<1>3. CASE CompleteStep
  BY <1>0, <1>2, <1>3, CompletionConcludes DEF CompleteStep, IInv
<1>4. ASSUME NEW s \in Steps, AbandonStep(s) PROVE ToldOnce'
  BY <1>0, <1>2, <1>4, AbandonmentConcludes DEF AbandonStep, IInv
<1>5. CASE QuietControl
  <2>1. UNCHANGED <<running, finished>>
    BY <1>5, QuietKeepsBooks
  <2>2. CASE Begin \/ EmitScanFinished
    BY <2>1, <2>2 DEF Begin, EmitScanFinished, ToldOnce
  <2>3. CASE EmitStepStarted \/ EmitResult
    <3>1. /\ pc \in {"step_started", "announce"} /\ pc' \in {"start", pc} /\ (pc' = pc => UNCHANGED cur)
          /\ UNCHANGED scanTold /\ pc # "done"
          /\ \/ told' = [told EXCEPT ![cur].started = TRUE]
             \/ told' = [told EXCEPT ![cur].results = @ + 1]
      BY <2>3 DEF EmitStepStarted, EmitResult
    <3>2. cur \in Steps
      BY <1>0, <3>1 DEF TypeOK, ToldOnce
    <3>3. \A s \in Steps : told'[s].finished = told[s].finished
      <4>1. told' = [told EXCEPT ![cur].started = TRUE] =>
               \A s \in Steps : told'[s].finished = told[s].finished
        BY <1>0, <3>2 DEF TypeOK
      <4>2. told' = [told EXCEPT ![cur].results = @ + 1] =>
               \A s \in Steps : told'[s].finished = told[s].finished
        BY <1>0, <3>2 DEF TypeOK
      <4> QED
        BY <3>1, <4>1, <4>2
    <3> QED
      BY <2>1, <3>1, <3>2, <3>3 DEF ToldOnce
  <2>4. CASE EmitStepFinished
    <3>1. /\ pc = "announce" /\ pc' \in {"drain", "abandon"} /\ UNCHANGED scanTold
          /\ told' = [told EXCEPT ![cur].finished = TRUE]
      BY <1>0, <2>4 DEF EmitStepFinished, TypeOK
    <3>2. cur \in Steps
      BY <1>0, <3>1 DEF TypeOK
    <3>3. \A s \in Steps : s # cur => told'[s].finished = told[s].finished
      BY <1>0, <3>1, <3>2 DEF TypeOK
    <3> QED
      BY <2>1, <3>1, <3>2, <3>3 DEF ToldOnce
  <2>5. CASE ~(Begin \/ EmitStepStarted \/ EmitResult \/ EmitStepFinished \/ EmitScanFinished)
    <3>1. /\ UNCHANGED <<told, scanTold>> /\ pc # "done" /\ pc' # "announce"
          /\ pc' = "step_started" => pc = "launch" /\ UNCHANGED cur
      BY <1>0, <1>5, <2>5 DEF QuietControl, WindDown, TypeOK,
         LoopEnds, LoopSchedules, LoopCancelled, LaunchThread,
         StartPassEnds, TakeMessage, NoMessage, IgnoreMessage,
         EnforceBudgets, WindDownPolls, WindDownGivesUp, AbandonEnds, Assemble
    <3> QED
      BY <1>0, <2>1, <3>1 DEF ToldOnce, Books
  <2> QED
    BY <2>2, <2>3, <2>4, <2>5
<1>6. CASE QuietWorld
  <2>1. /\ UNCHANGED <<running, finished, told, scanTold>>
        /\ \/ UNCHANGED <<pc, cur>>
           \/ pc # "done" /\ pc' \in {"wind", "raised"}
    BY <1>6 DEF QuietWorld, WindDown, StepThread, StepReturns, StepFails, Deliver,
       InterruptCaught, InterruptRaised, Cancel, PostWake, WindGracePasses, DeadlinePasses, GracePasses
  <2> QED
    BY <2>1 DEF ToldOnce
<1> QED
  BY <1>1, <1>3, <1>4, <1>5, <1>6, NextCases
-----------------------------------------------------------------------------
(* Whoever calls it *)

\* Every step of a command, and of any other caller, is one of the runner or leaves it alone.
LEMMA CallerSteps ==
  ASSUME [LNext]_all
  PROVE  [Next]_vars
<1> USE DEF all
<1>1. CASE Command
  BY <1>1 DEF Command, ParseOptions, BuildPlan, PlanRefused, CommandScans, NoteShown, TakeResult,
     PrintReport, ExportFails, Exit, Aborted, Abort, Unheard, Next, Coordinator
<1>2. CASE CtrlC
  BY <1>2 DEF CtrlC, InterruptInScan, InterruptAround, Abort, Next
<1>3. CASE StepThreads \/ TimePasses \/ OtherCaller \/ CommandOver \/ UNCHANGED all
  BY <1>3 DEF StepThreads, TimePasses, OtherCaller, CommandOver, Next
<1> QED
  BY <1>1, <1>2, <1>3 DEF LNext

\* A scan is the same whoever calls it: what is proved of the runner holds in a command that is
\* interrupted at any moment, its contract included.
THEOREM CallersKeepContract == LSpec => Spec /\ ImplementsContract
<1>1. LInit => Init
  BY DEF LInit
<1> QED
  BY <1>1, CallerSteps, RunnerImplementsContract, PTL DEF LSpec, Spec

\* The status ERROR of a step that did not run to its end shows in the report.
LEMMA ErrorsShow ==
  ASSUME IInv, Reported, result.outcome # "none", finished = Steps, ~cancelled,
         Errors(result.results) = {}
  PROVE  \A s \in Steps \ SecuritySteps : states[s] = "completed"
<1> SUFFICES ASSUME NEW s \in Steps \ SecuritySteps, states[s] # "completed" PROVE FALSE
  OBVIOUS
<1>0. TypeOK
  BY DEF IInv
<1>1. PICK origin \in {"timeout", "crash"} : items[s] = Synthesized(s, origin)
  BY DEF IInv, VerdictEarned, Earned, Verdicts
<1> DEFINE t == "diagnostic"
           item == [step |-> s, origin |-> origin, type |-> t]
           list == result.results
<1>2. items[s] = <<item>> /\ item \in ItemsOfType(t) /\ item \in Item
  BY <1>1 DEF Synthesized, ItemsOfType, Item, ItemType
<1>3. ToSet(items[s]) = {item}
  BY <1>2 DEF ToSet
<1>4. list = Assembled(t) /\ MadeOf(list, t, Len(Plan))
  BY <1>0, AssembledInOrder DEF Reported
<1>5. Only(list, ItemsOfStep(s)) = OfType(s, t)
  <2>1. PICK k \in DOMAIN Plan : Plan[k] = s
    BY PlanAssumption
  <2>2. Place(s) <= Len(Plan)
    BY <2>1, Places, PlanAssumption
  <2> QED
    BY <1>4, <2>2 DEF MadeOf
<1> HIDE DEF t, item, list
<1>6. item \in ToSet(OfType(s, t))
  <2>1. items[s] \in Seq(Item)
    BY <1>0 DEF TypeOK
  <2>2. ToSet(OfType(s, t)) = ToSet(items[s]) \cap ItemsOfType(t)
    BY <2>1, OnlyEntries DEF OfType
  <2> QED
    BY <1>2, <1>3, <2>2
<1>7. item \in ToSet(list)
  <2>1. list \in Seq(Item)
    BY <1>4 DEF MadeOf
  <2>2. ToSet(Only(list, ItemsOfStep(s))) = ToSet(list) \cap ItemsOfStep(s)
    BY <2>1, OnlyEntries
  <2> QED
    BY <1>5, <1>6, <2>2
<1>8. PICK i \in DOMAIN list : list[i] = item
  BY <1>7 DEF ToSet
<1>9. i \in Errors(list)
  BY <1>8 DEF Errors, item
<1> QED
  BY <1>9 DEF list

\* InStep holds initially.
LEMMA InStepInit == LInit => InStep
  BY DEF LInit, Init, InStep, ExitTrue, CodeTellsRun

\* InStep is kept, given what is proved of the runner.
LEMMA InStepNext ==
  IInv /\ Accounted /\ Reported /\ OutcomeTrue /\ InStep /\ [LNext]_all => InStep'
<1> SUFFICES ASSUME IInv, Accounted, Reported, OutcomeTrue, InStep, [LNext]_all PROVE InStep'
  OBVIOUS
<1> USE DEF InStep, ExitTrue, CodeTellsRun, command, progress
<1>1. CASE UNCHANGED <<shell, printed, noted, code, caller, pc, interrupted, cancelled, states>>
  BY <1>1
<1>2. CASE (ParseOptions \/ BuildPlan \/ PlanRefused) /\ caller = "command"
  BY <1>2 DEF ParseOptions, BuildPlan, PlanRefused
<1>3. CASE (CommandScans \/ InterruptInScan) /\ caller = "command"
  <2>1. shell = "scanning" /\ UNCHANGED <<shell, printed, noted, code, caller>>
    BY <1>3 DEF CommandScans, InterruptInScan
  <2>2. cancelled' => cancelled \/ interrupted'
    BY <1>3 DEF CommandScans, InterruptInScan, Interrupt, InterruptCaught, InterruptRaised, Unheard,
       Coordinator, WindDown, Begin, LoopEnds, LoopSchedules, LoopCancelled, LaunchThread,
       EmitStepStarted, StartPassEnds, TakeMessage, NoMessage, IgnoreMessage, EmitResult,
       EmitStepFinished, EnforceBudgets, WindDownPolls, WindDownGivesUp, AbandonEnds, Assemble,
       EmitScanFinished, StartStep, AbandonStep, CompleteStep
  <2>3. interrupted => interrupted'
    BY <1>3 DEF CommandScans, InterruptInScan, Interrupt, InterruptCaught, InterruptRaised, Unheard,
       Coordinator, WindDown, Begin, LoopEnds, LoopSchedules, LoopCancelled, LaunchThread,
       EmitStepStarted, StartPassEnds, TakeMessage, NoMessage, IgnoreMessage, EmitResult,
       EmitStepFinished, EnforceBudgets, WindDownPolls, WindDownGivesUp, AbandonEnds, Assemble,
       EmitScanFinished, StartStep, AbandonStep, CompleteStep
  <2> QED
    BY <1>3, <2>1, <2>2, <2>3
<1>4. CASE (TakeResult \/ PrintReport \/ ExportFails) /\ caller = "command"
  BY <1>4 DEF TakeResult, PrintReport, ExportFails
<1>5. CASE Exit /\ caller = "command"
  <2>0. /\ shell = "exiting" /\ shell' = "exited" /\ pc = "done" /\ printed /\ noted = interrupted
        /\ UNCHANGED <<pc, printed, noted, caller, interrupted, cancelled, states>>
    BY <1>5 DEF Exit
  <2>1. code' \in {0, 1, 4, 5} \/ code' = 130
    BY <1>5 DEF Exit, ExitCode, ExitCodeFor
  <2>2. noted <=> code' = 130
    BY <1>5 DEF Exit, ExitCode, ExitCodeFor
  <2>3. ASSUME code' \in {0, 4} PROVE \A s \in Steps \ SecuritySteps : states[s] = "completed"
    <3>1. Errors(result.results) = {}
      BY <1>5, <2>2, <2>3 DEF Exit, ExitCode, ExitCodeFor
    <3>2. ~cancelled
      BY <1>5, <2>0, <2>2, <2>3
    <3>3. finished = Steps /\ result.outcome # "none"
      BY <2>0, <3>2 DEF OutcomeTrue
    <3> QED
      BY <3>1, <3>2, <3>3, ErrorsShow
  <2> QED
    BY <1>5, <2>0, <2>1, <2>2, <2>3
<1>6. CASE Abort /\ caller = "command"
  BY <1>6 DEF Abort
<1>7. CASE OtherCaller
  BY <1>7 DEF OtherCaller
<1>8. CASE NoteShown \/ StepThreads \/ TimePasses \/ CommandOver \/ UNCHANGED all
  <2>1. UNCHANGED <<shell, printed, noted, code, caller, pc, interrupted, cancelled, states>>
    BY <1>8 DEF NoteShown, StepThreads, TimePasses, CommandOver, all, Clock, StepThread, StepReturns,
       StepFails, Deliver, DeadlinePasses, GracePasses, WindGracePasses
  <2> QED
    BY <1>1, <2>1
<1> QED
  BY <1>2, <1>3, <1>4, <1>5, <1>6, <1>7, <1>8
     DEF LNext, Command, CtrlC, InterruptAround, Aborted

\* The exit code of a command tells what became of its scan, of the report and of the diagnostic
\* steps, for every plan and whenever Ctrl+C strikes.
THEOREM ExitCodesTrue == LSpec => []ExitTrue
<1>1. InStep => ExitTrue
  BY DEF InStep
<1> QED
  BY <1>1, InStepInit, InStepNext, CallersKeepContract, ReportedAlways, OutcomesTrue, PTL DEF LSpec

-----------------------------------------------------------------------------
(* The progress line *)

\* A text has at least one column.
LEMMA WidthInNat ==
  ASSUME NEW labels \in Seq(Steps)
  PROVE  Width(labels) \in Nat \ {0}
<1>1. CASE labels = <<>>
  BY <1>1 DEF Width
<1>2. CASE labels # <<>>
  <2>1. Len(labels) \in 1..Len(labels) /\ Last(labels) = labels[Len(labels)] /\ Last(labels) \in Steps
    BY <1>2 DEF Last
  <2>2. PICK k \in DOMAIN Plan : Plan[k] = Last(labels)
    BY <2>1, PlanAssumption
  <2>3. Place(Last(labels)) = k /\ k \in Nat
    BY <2>2, Places, PlanAssumption
  <2> QED
    BY <1>2, <2>3 DEF Width
<1> QED
  BY <1>1, <1>2

\* LineKept holds initially.
LEMMA LineInit == LInit => LineKept
<1> SUFFICES ASSUME LInit PROVE LineKept
  OBVIOUS
<1>1. HeardFinish = {} /\ HeardActive = {}
  BY DEF LInit, Init, HeardFinish, HeardActive, Silence
<1>2. Cardinality({}) = 0
  BY FS_EmptySet
<1>3. ToSet(<<>>) = {} /\ <<>> \in Seq(Steps)
  BY DEF ToSet
<1>4. /\ line \in [finished : Nat, running : Seq(Steps), shown : Nat]
      /\ line.running = <<>> /\ line.finished = 0 /\ line.shown = 0
  <2> DEFINE none == <<>>
             D == Seq(Steps)
  <2>1. none \in D
    BY <1>3
  <2>2. line = [finished |-> 0, running |-> none, shown |-> 0]
    BY DEF LInit
  <2> HIDE DEF none, D
  <2>3. line \in [finished : Nat, running : D, shown : Nat]
        /\ line.running = none /\ line.finished = 0 /\ line.shown = 0
    BY <2>1, <2>2
  <2> QED
    BY <2>3 DEF none, D
<1>5. drawn = 0 /\ writing = 0 /\ torn = FALSE /\ pc # "done" /\ (caller = "other" => ~interactive)
  BY DEF LInit, Init, Nil
<1>6. line.finished = Cardinality(HeardFinish) /\ ToSet(line.running) = HeardActive
  BY <1>1, <1>2, <1>3, <1>4
<1>7. IF interactive THEN /\ line.finished = Cardinality(HeardFinish)
                          /\ ToSet(line.running) = HeardActive
                     ELSE line.finished = 0 /\ drawn = 0 /\ writing = Nil
  BY <1>4, <1>5, <1>6 DEF Nil
<1>8. torn \/ IF writing = Nil THEN drawn <= line.shown ELSE drawn = writing
  BY <1>4, <1>5 DEF Nil
<1>9. /\ drawn \in Nat /\ writing \in Nat /\ torn \in BOOLEAN /\ (caller = "other" => ~interactive)
      /\ pc = "done" => writing = Nil /\ (drawn = 0 \/ torn)
  BY <1>5
<1> QED
  BY <1>4, <1>7, <1>8, <1>9 DEF LineKept

\* The line stays true as long as the callback hears of no step and the scan's end is not near.
LEMMA UnheardKeeps ==
  ASSUME LineKept, UNCHANGED <<progress, interactive, caller>>,
         \A s \in Steps : told'[s].started = told[s].started /\ told'[s].finished = told[s].finished,
         pc' = "done" => pc = "done" \/ ~interactive
  PROVE  LineKept'
<1>1. HeardFinish' = HeardFinish /\ HeardActive' = HeardActive
  BY DEF HeardFinish, HeardActive
<1>2. /\ line \in [finished : Nat, running : Seq(Steps), shown : Nat]
      /\ UNCHANGED <<line, drawn, writing, torn, interactive, caller>>
  BY DEF LineKept, progress
<1>3. pc' = "done" => writing = Nil /\ (drawn = 0 \/ torn)
  BY DEF LineKept
<1> QED
  BY <1>1, <1>2, <1>3 DEF LineKept

\* Showing a line that says what the callback has heard, with the event.
LEMMA ShowKeeps ==
  ASSUME LineKept, NEW l \in [finished : Nat, running : Seq(Steps), shown : Nat], l.shown = line.shown, Show(l),
         writing = Nil, pc' # "done", UNCHANGED <<interactive, caller>>,
         l.finished = Cardinality(HeardFinish') \/ ~interactive,
         ToSet(l.running) = HeardActive' \/ ~interactive
  PROVE  LineKept'
<1> USE DEF progress, Nil
<1>1. CASE ~interactive
  BY <1>1 DEF LineKept, Show
<1>2. CASE interactive
  <2>1. Width(l.running) \in Nat \ {0}
    BY WidthInNat
  <2>2. line' = l /\ writing' = Width(l.running) /\ torn' = torn
        /\ drawn' = AfterWrite(drawn, Width(l.running), l.shown) /\ l.shown = line.shown
    BY <1>2 DEF Show
  <2>3. drawn' \in Nat
    BY <2>1, <2>2 DEF AfterWrite, LineKept
  <2>4. torn \/ drawn' = writing'
    BY <2>1, <2>2 DEF AfterWrite, LineKept
  <2> QED
    BY <1>2, <2>1, <2>2, <2>3, <2>4 DEF LineKept
<1> QED
  BY <1>1, <1>2

\* What the coordinator does that is not heard, or in another caller.
LEMMA QuietForCallback ==
  ASSUME TypeOK, Coordinator, pc' = "done"
  PROVE  pc = "scan_finished" /\ scanTold' = scanTold \cup {"finished"} /\ told' = told
  BY DEF Coordinator, TypeOK,
     WindDown, Begin, LoopEnds, LoopSchedules, LoopCancelled, LaunchThread,
     EmitStepStarted, StartPassEnds, TakeMessage, NoMessage, IgnoreMessage, EmitResult,
     EmitStepFinished, EnforceBudgets, WindDownPolls, WindDownGivesUp, AbandonEnds, Assemble,
     EmitScanFinished, StartStep, AbandonStep, CompleteStep, Finish

\* LineKept is kept: the callback's part.
LEMMA CommandScansKeeps ==
  ASSUME IInv, ToldOnce, LineKept, CommandScans
  PROVE  LineKept'
<1>0. TypeOK /\ writing = Nil /\ UNCHANGED <<interactive, caller>>
  BY DEF IInv, CommandScans
<1>a. line \in [finished : Nat, running : Seq(Steps), shown : Nat]
  BY DEF LineKept
<1>b. IsFiniteSet(HeardFinish)
  <2>1. HeardFinish \subseteq Steps
    BY DEF HeardFinish
  <2> QED
    BY <2>1, StepsFinite, FS_Subset
<1>1. CASE Begin /\ Show(line)
  <2>1. told' = told /\ pc' = "loop"
    BY <1>1 DEF Begin
  <2>2. HeardFinish' = HeardFinish /\ HeardActive' = HeardActive
    BY <2>1 DEF HeardFinish, HeardActive
  <2> QED
    BY <1>0, <1>a, <1>1, <2>1, <2>2, ShowKeeps DEF LineKept
<1>2. CASE EmitStepStarted /\ Show(Started(line, cur))
  <2>1. /\ pc = "step_started" /\ pc' = "start" /\ cur \in running /\ cur \in Steps
        /\ told' = [told EXCEPT ![cur].started = TRUE]
    BY <1>0, <1>2 DEF EmitStepStarted, TypeOK, ToldOnce
  <2>2. ~told[cur].finished
    BY <2>1 DEF ToldOnce, IInv, Books
  <2>3. \A s \in Steps : /\ told'[s].finished = told[s].finished
                         /\ told'[s].started = IF s = cur THEN TRUE ELSE told[s].started
    BY <1>0, <2>1 DEF TypeOK
  <2>4. HeardFinish' = HeardFinish /\ HeardActive' = HeardActive \cup {cur}
    BY <2>1, <2>2, <2>3 DEF HeardFinish, HeardActive
  <2> DEFINE l == Started(line, cur)
  <2>5. /\ l.running = Append(line.running, cur) /\ l.finished = line.finished
        /\ l.shown = line.shown /\ l \in [finished : Nat, running : Seq(Steps), shown : Nat]
    BY <1>a, <2>1 DEF Started
  <2>6. ToSet(l.running) = ToSet(line.running) \cup {cur}
    BY <1>a, <2>1, <2>5, AppendedSet
  <2> HIDE DEF l
  <2>7. l.finished = Cardinality(HeardFinish') \/ ~interactive
    BY <2>4, <2>5 DEF LineKept
  <2>8. ToSet(l.running) = HeardActive' \/ ~interactive
    BY <2>4, <2>6 DEF LineKept
  <2>9. Show(l) /\ pc' # "done"
    BY <1>2, <2>1 DEF l
  <2> QED
    BY <1>0, <2>5, <2>7, <2>8, <2>9, ShowKeeps
<1>3. CASE EmitStepFinished /\ Show(Finished(line, cur))
  <2>1. /\ pc = "announce" /\ pc' \in {"drain", "abandon"} /\ cur \in Steps
        /\ told' = [told EXCEPT ![cur].finished = TRUE]
    BY <1>0, <1>3 DEF EmitStepFinished, TypeOK
  <2>2. ~told[cur].finished
    BY <2>1 DEF ToldOnce
  <2>3. \A s \in Steps : /\ told'[s].started = told[s].started
                         /\ told'[s].finished = IF s = cur THEN TRUE ELSE told[s].finished
    BY <1>0, <2>1 DEF TypeOK
  <2>4. HeardFinish' = HeardFinish \cup {cur} /\ HeardActive' = HeardActive \ {cur} /\ cur \notin HeardFinish
    BY <2>1, <2>2, <2>3 DEF HeardFinish, HeardActive
  <2>5. Cardinality(HeardFinish') = Cardinality(HeardFinish) + 1
    BY <1>b, <2>4, FS_AddElement
  <2> DEFINE l == Finished(line, cur)
  <2>6. /\ l.running = Only(line.running, Steps \ {cur}) /\ l.finished = line.finished + 1
        /\ l.shown = line.shown
    BY <1>a DEF Finished, WithoutStep
  <2>7. /\ Only(line.running, Steps \ {cur}) \in Seq(Steps)
        /\ ToSet(Only(line.running, Steps \ {cur})) = ToSet(line.running) \cap (Steps \ {cur})
    BY <1>a, OnlyEntries, OnlyTyped
  <2>8. l \in [finished : Nat, running : Seq(Steps), shown : Nat]
    <3> DEFINE D == Seq(Steps)
               kept == Only(line.running, Steps \ {cur})
    <3>1. l = [line EXCEPT !.running = kept, !.finished = @ + 1]
      BY DEF Finished, WithoutStep
    <3>2. kept \in D /\ line \in [finished : Nat, running : D, shown : Nat]
      BY <1>a, <2>7
    <3> HIDE DEF D, kept
    <3>3. [line EXCEPT !.running = kept] \in [finished : Nat, running : D, shown : Nat]
      BY <3>2
    <3>4. line.finished + 1 \in Nat
      BY <3>2
    <3>5. l = [[line EXCEPT !.running = kept] EXCEPT !.finished = line.finished + 1]
      BY <3>1, <3>2
    <3> DEFINE first == [line EXCEPT !.running = kept]
               n == line.finished + 1
    <3> HIDE DEF first, n
    <3>6. first \in [finished : Nat, running : D, shown : Nat] /\ n \in Nat
          /\ l = [first EXCEPT !.finished = n]
      BY <3>3, <3>4, <3>5 DEF first, n
    <3> HIDE DEF l
    <3>7. l \in [finished : Nat, running : D, shown : Nat]
      BY <3>6
    <3> QED
      BY <3>7 DEF D
  <2> HIDE DEF l
  <2>9. l.finished = Cardinality(HeardFinish') \/ ~interactive
    BY <2>5, <2>6 DEF LineKept
  <2>10. ToSet(l.running) = HeardActive' \/ ~interactive
    BY <2>4, <2>6, <2>7 DEF LineKept, HeardActive
  <2>11. Show(l) /\ pc' # "done"
    BY <1>3, <2>1 DEF l
  <2> QED
    BY <1>0, <2>6, <2>8, <2>9, <2>10, <2>11, ShowKeeps
<1>4. CASE EmitScanFinished /\ Clear
  <2>1. told' = told
    BY <1>4 DEF EmitScanFinished
  <2>2. HeardFinish' = HeardFinish /\ HeardActive' = HeardActive
    BY <2>1 DEF HeardFinish, HeardActive
  <2>3. /\ line'.finished = line.finished /\ line'.running = line.running /\ line'.shown = 0
        /\ line' \in [finished : Nat, running : Seq(Steps), shown : Nat]
        /\ UNCHANGED <<writing, torn>> /\ drawn' = IF drawn > line.shown THEN drawn ELSE 0
    BY <1>4, <1>a DEF Clear
  <2>4. drawn' \in Nat /\ (torn \/ drawn' = 0) /\ (drawn = 0 => drawn' = 0)
    <3>1. drawn \in Nat /\ line.shown \in Nat /\ (torn \/ drawn <= line.shown)
      BY <1>0, <1>a DEF LineKept
    <3> QED
      BY <2>3, <3>1
  <2> QED
    BY <1>0, <2>2, <2>3, <2>4 DEF LineKept
<1>5. CASE Unheard
  <2>1. pc' # "done"
    <3> SUFFICES ASSUME pc' = "done" PROVE FALSE
      OBVIOUS
    <3> QED
      BY <1>0, <1>5, QuietForCallback DEF Unheard, ToldOnce
  <2> QED
    BY <1>0, <1>5, <2>1, UnheardKeeps DEF Unheard
<1> QED
  BY <1>1, <1>2, <1>3, <1>4, <1>5 DEF CommandScans

\* LineKept is kept, given what is proved of the runner.
LEMMA LineNext == IInv /\ ToldOnce /\ LineKept /\ [LNext]_all => LineKept'
<1> SUFFICES ASSUME IInv, ToldOnce, LineKept, [LNext]_all PROVE LineKept'
  OBVIOUS
<1>0. TypeOK
  BY DEF IInv
<1>1. CASE CommandScans
  BY <1>1, CommandScansKeeps
<1>2. CASE \/ ParseOptions \/ BuildPlan \/ PlanRefused \/ TakeResult \/ PrintReport
           \/ ExportFails \/ Exit \/ Abort \/ CommandOver \/ UNCHANGED all
  <2>1. UNCHANGED <<vars, progress, interactive, caller>>
    BY <1>2 DEF ParseOptions, BuildPlan, PlanRefused, TakeResult, PrintReport, ExportFails, Exit,
       Abort, CommandOver, all, command
  <2> QED
    BY <2>1, UnheardKeeps
<1>3. CASE StepThreads \/ TimePasses
  <2>1. UNCHANGED <<told, pc, progress, interactive, caller>>
    BY <1>3 DEF StepThreads, TimePasses, Clock, StepThread, StepReturns,
       StepFails, Deliver, DeadlinePasses, GracePasses, WindGracePasses, command
  <2> QED
    BY <2>1, UnheardKeeps
<1>4. CASE NoteShown
  <2>1. /\ UNCHANGED <<told, pc, interactive, caller, drawn, torn>> /\ writing # Nil /\ writing' = Nil
        /\ line' = [line EXCEPT !.shown = writing]
    BY <1>4 DEF NoteShown
  <2>2. /\ line'.finished = line.finished /\ line'.running = line.running /\ line'.shown = writing
        /\ line' \in [finished : Nat, running : Seq(Steps), shown : Nat]
    BY <2>1 DEF LineKept
  <2>3. HeardFinish' = HeardFinish /\ HeardActive' = HeardActive
    BY <2>1 DEF HeardFinish, HeardActive
  <2> QED
    BY <2>1, <2>2, <2>3 DEF LineKept, Nil
<1>5. CASE InterruptInScan
  <2>1. /\ UNCHANGED <<told, interactive, caller, line, drawn>> /\ pc' # "done"
        /\ torn' = (torn \/ writing # Nil) /\ writing' = Nil
    BY <1>5 DEF InterruptInScan, Interrupt, InterruptCaught, InterruptRaised, WindDown
  <2>2. HeardFinish' = HeardFinish /\ HeardActive' = HeardActive
    BY <2>1 DEF HeardFinish, HeardActive
  <2> QED
    BY <2>1, <2>2 DEF LineKept, Nil
<1>6. CASE OtherCaller
  <2>1. caller = "other" /\ Next /\ UNCHANGED command
    BY <1>6 DEF OtherCaller
  <2>2. ~interactive /\ UNCHANGED <<line, drawn, writing, torn, interactive, caller>>
    BY <2>1 DEF LineKept, command, progress
  <2> QED
    BY <2>2 DEF LineKept
<1> QED
  BY <1>1, <1>2, <1>3, <1>4, <1>5, <1>6 DEF LNext, Command, CtrlC, InterruptAround, Aborted

\* The progress line is true to the callback's events and gone before the report, for every plan
\* and whenever Ctrl+C strikes.
THEOREM ProgressLinesTrue == LSpec => []ProgressTrue
<1>1. ASSUME IInv, ToldOnce, InStep, LineKept PROVE ProgressTrue
  <2>1. HeardFinish \subseteq finished /\ IsFiniteSet(finished)
    <3>1. finished \subseteq Steps
      BY <1>1 DEF IInv, TypeOK
    <3> QED
      BY <1>1, <3>1, StepsFinite, FS_Subset DEF HeardFinish, ToldOnce
  <2>2. Cardinality(HeardFinish) <= Cardinality(finished)
    BY <2>1, FS_Subset
  <2>3. Cardinality(finished) \in Nat
    BY <2>1, FS_CardinalityType
  <2> QED
    BY <1>1, <2>2, <2>3 DEF ProgressTrue, LineKept, InStep
<1>2. IInv /\ ToldOnce /\ [Next]_vars => ToldOnce'
  BY ToldOnceNext
<1>3. Spec => [](IInv /\ ToldOnce)
  BY <1>2, IInvAlways, ToldOnceInit, PTL DEF Spec
<1>4. LSpec => []InStep
  BY InStepInit, InStepNext, CallersKeepContract, ReportedAlways, OutcomesTrue, PTL DEF LSpec
<1> QED
  BY <1>1, <1>3, <1>4, LineInit, LineNext, CallersKeepContract, PTL DEF LSpec
=============================================================================
