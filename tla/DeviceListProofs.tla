-------------------------- MODULE DeviceListProofs --------------------------
(***************************************************************************)
(* Theorems about DeviceList.                                              *)
(***************************************************************************)
EXTENDS DeviceList, SequenceTheorems, WellFoundedInduction, TLAPS

-----------------------------------------------------------------------------
(* Loops.                                                                  *)

\* A set of natural numbers that is not empty has a least element.
LEMMA LeastNumber ==
    ASSUME NEW T \in SUBSET Nat, T # {}
    PROVE  \E x \in T : \A y \in T : x <= y
<1> DEFINE R == OpToRel(<, Nat)
<1>1. IsWellFoundedOn(R, Nat)
  BY NatLessThanWellFounded
<1>2. R = {ss \in Nat \X Nat : ss[1] < ss[2]}
  BY DEF OpToRel
<1> HIDE DEF R
<1>3. PICK x \in T : \A y \in T : ~(<<y, x>> \in R)
  BY <1>1, WFMin
<1>4. ASSUME NEW y \in T PROVE x <= y
  <2>1. <<y, x>> \notin R
    BY <1>3
  <2> QED
    BY <2>1, <1>2
<1> QED
  BY <1>3, <1>4

\* Induction, for the set of the numbers that have a property.
LEMMA NumbersByInduction ==
    ASSUME NEW T \in SUBSET Nat, 0 \in T, \A n \in T : n + 1 \in T
    PROVE  \A n \in Nat : n \in T
<1> SUFFICES ASSUME NEW m \in Nat, m \notin T PROVE FALSE
  OBVIOUS
<1> DEFINE Out == Nat \ T
<1>1. PICK x \in Out : \A y \in Out : x <= y
  BY LeastNumber
<1>2. x \in Nat /\ x # 0
  BY <1>1
<1>3. x - 1 \in Nat /\ ~(x <= x - 1)
  BY <1>2
<1>4. x - 1 \in T
  BY <1>1, <1>3
<1>5. (x - 1) + 1 \in T
  BY <1>4
<1> QED
  BY <1>1, <1>2, <1>5

\* A loop of N rounds, the k-th of which takes state s to Round[k][s].
Runs(after, N, S, start, Round) ==
    /\ after[0] = start
    /\ \A k \in 0 .. N : after[k] \in S
    /\ \A k \in 1 .. N : /\ k - 1 \in 0 .. N /\ after[k - 1] \in S
                         /\ after[k] = Round[k][after[k - 1]]

\* It has a state after every round.
LEMMA LoopRuns ==
    ASSUME NEW N \in Nat, NEW S, NEW start \in S, NEW Round \in [1 .. N -> [S -> S]]
    PROVE  \E after \in [0 .. N -> S] : Runs(after, N, S, start, Round)
<1> DEFINE Upto(n, after) ==
             /\ after \in [0 .. N -> S]
             /\ \A k \in 0 .. N : k <= n =>
                  after[k] = IF k = 0 THEN start ELSE Round[k][after[k - 1]]
           T == {n \in Nat : \E after : Upto(n, after)}
<1>1. 0 \in T
  <2> DEFINE after == [k \in 0 .. N |-> start]
  <2>1. Upto(0, after)
    OBVIOUS
  <2> HIDE DEF after, Upto
  <2> QED
    BY <2>1
<1>2. ASSUME NEW n \in T PROVE n + 1 \in T
  <2>1. PICK before : Upto(n, before)
    OBVIOUS
  <2>2. CASE n + 1 <= N
    <3> DEFINE m == n + 1
               next == Round[m][before[n]]
               after == [before EXCEPT ![m] = next]
    <3>1. m \in 1 .. N /\ n \in 0 .. N /\ m - 1 = n /\ m # 0
      BY <2>2
    <3>2. next \in S
      BY <2>1, <3>1
    <3>3. after \in [0 .. N -> S] /\ after[m] = next
      BY <2>1, <3>1, <3>2
    <3>4. ASSUME NEW k \in 0 .. N, k <= m
          PROVE  after[k] = IF k = 0 THEN start ELSE Round[k][after[k - 1]]
      <4>1. k # 0 => k - 1 \in 0 .. N /\ k - 1 # m
        BY <3>1, <3>4
      <4>2. k # 0 => after[k - 1] = before[k - 1]
        BY <2>1, <4>1
      <4>3. CASE k = m
        BY <3>1, <3>3, <4>2, <4>3
      <4>4. CASE k # m
        <5>1. k <= n /\ after[k] = before[k]
          BY <2>1, <3>1, <3>4, <4>4
        <5> QED
          BY <2>1, <4>2, <5>1
      <4> QED
        BY <4>3, <4>4
    <3>5. Upto(m, after)
      BY <3>3, <3>4
    <3>6. m \in Nat /\ m = n + 1
      BY <3>1
    <3> HIDE DEF Upto, after, m
    <3> QED
      BY <3>5, <3>6
  <2>3. CASE ~(n + 1 <= N)
    <3>1. \A k \in 0 .. N : k <= n
      BY <2>3
    <3>2. Upto(n + 1, before)
      BY <2>1, <3>1
    <3> QED
      BY <3>2
  <2> QED
    BY <2>2, <2>3
<1> HIDE DEF T
<1>3. N \in T
  BY <1>1, <1>2, NumbersByInduction DEF T
<1>4. PICK after : Upto(N, after)
  BY <1>3 DEF T
<1>5. after[0] = start
  <2>1. 0 \in 0 .. N /\ 0 <= N
    OBVIOUS
  <2> QED
    BY <1>4, <2>1
<1>6. ASSUME NEW k \in 1 .. N
      PROVE  /\ k - 1 \in 0 .. N /\ after[k - 1] \in S
             /\ after[k] = Round[k][after[k - 1]]
  <2>1. k \in 0 .. N /\ k # 0 /\ k <= N /\ k - 1 \in 0 .. N
    OBVIOUS
  <2> QED
    BY <1>4, <2>1
<1>7. after \in [0 .. N -> S]
  BY <1>4
<1>8. Runs(after, N, S, start, Round)
  BY <1>5, <1>6, <1>7 DEF Runs
<1> QED
  BY <1>7, <1>8

\* What a recursive function of the model defines is such a loop.
LEMMA RunsAlone ==
    ASSUME NEW N \in Nat, NEW S, NEW start \in S, NEW Round \in [1 .. N -> [S -> S]],
           NEW h, h[0] = start,
           \A k \in 1 .. N : h[k - 1] \in S => h[k] = Round[k][h[k - 1]]
    PROVE  Runs(h, N, S, start, Round)
<1> DEFINE T == {n \in Nat : n <= N => h[n] \in S}
<1>1. 0 \in T
  OBVIOUS
<1>2. ASSUME NEW n \in T PROVE n + 1 \in T
  <2>1. n + 1 <= N => n + 1 \in 1 .. N /\ (n + 1) - 1 = n /\ n <= N
    OBVIOUS
  <2>2. CASE n + 1 <= N
    <3>1. PICK m \in 1 .. N : m = n + 1 /\ m - 1 = n
      BY <2>1, <2>2
    <3>2. h[n] \in S
      BY <2>1, <2>2
    <3>3. h[m] = Round[m][h[n]] /\ Round[m] \in [S -> S]
      BY <3>1, <3>2
    <3> QED
      BY <3>1, <3>2, <3>3
  <2> QED
    BY <2>2
<1>3. \A n \in Nat : n \in T
  <2> HIDE DEF T
  <2> QED
    BY <1>1, <1>2, NumbersByInduction DEF T
<1>4. \A k \in 0 .. N : h[k] \in S
  BY <1>3
<1>5. \A k \in 1 .. N : k - 1 \in 0 .. N
  OBVIOUS
<1> QED
  BY <1>4, <1>5 DEF Runs

\* Two runs of the same rounds go the same way.
LEMMA RunsAgree ==
    ASSUME NEW N \in Nat, NEW S, NEW start, NEW Round, NEW g, NEW h,
           Runs(g, N, S, start, Round), Runs(h, N, S, start, Round)
    PROVE  g[N] = h[N]
<1> DEFINE T == {n \in Nat : n <= N => g[n] = h[n]}
<1>1. 0 \in T
  BY DEF Runs
<1>2. ASSUME NEW n \in T PROVE n + 1 \in T
  <2>1. CASE n + 1 <= N
    <3>1. PICK m \in 1 .. N : m = n + 1 /\ m - 1 = n /\ n <= N
      BY <2>1
    <3> QED
      BY <3>1 DEF Runs
  <2> QED
    BY <2>1
<1>3. N \in T
  <2> HIDE DEF T
  <2> QED
    BY <1>1, <1>2, NumbersByInduction DEF T
<1> QED
  BY <1>3

-----------------------------------------------------------------------------
(* Sequences of sequences.                                                 *)

\* The parts are put together one after the other.
FlatRounds(seqs, E) == [k \in 1 .. Len(seqs) |-> [s \in Seq(E) |-> s \o seqs[k]]]

\* FlattenSeq is such a loop.
LEMMA FlattenRuns ==
    ASSUME NEW E, NEW seqs \in Seq(Seq(E))
    PROVE  \E g : /\ Runs(g, Len(seqs), Seq(E), <<>>, FlatRounds(seqs, E))
                  /\ FlattenSeq(seqs) = g[Len(seqs)]
<1> DEFINE N == Len(seqs)
           S == Seq(E)
           Round == FlatRounds(seqs, E)
           Upto(h) == h = [i \in 1 .. N |-> IF i = 1 THEN seqs[i] ELSE h[i - 1] \o seqs[i]]
           upto == CHOOSE h : Upto(h)
<1>1. N \in Nat /\ <<>> \in S /\ \A k \in 1 .. N : seqs[k] \in S
  OBVIOUS
<1>2. Round \in [1 .. N -> [S -> S]] /\ \A k \in 1 .. N : \A s \in S : Round[k][s] = s \o seqs[k]
  BY <1>1, ConcatProperties DEF FlatRounds
<1>3. PICK g \in [0 .. N -> S] : Runs(g, N, S, <<>>, Round)
  <2> HIDE DEF Round, S, N
  <2> QED
    BY <1>1, <1>2, LoopRuns
<1>4. g[0] = <<>> /\ \A k \in 1 .. N : g[k - 1] \in S /\ g[k] = g[k - 1] \o seqs[k]
  <2> HIDE DEF Round, S, N
  <2> QED
    BY <1>2, <1>3 DEF Runs
<1>5. CASE N = 0
  <2>1. FlattenSeq(seqs) = <<>>
    BY <1>1, <1>5 DEF FlattenSeq
  <2> QED
    BY <1>3, <1>4, <1>5, <2>1
<1>6. CASE N # 0
  <2>1. 1 \in 1 .. N /\ \A k \in 1 .. N : k # 1 => k - 1 \in 1 .. N
    BY <1>1, <1>6
  <2>2. g[1] = seqs[1]
    <3>1. 1 - 1 = 0 /\ seqs[1] \in Seq(E)
      BY <1>1, <2>1
    <3>2. <<>> \o seqs[1] = seqs[1]
      BY <3>1, ConcatEmptySeq
    <3> QED
      BY <1>4, <2>1, <3>1, <3>2
  <2>3. \E h : Upto(h)
    <3> DEFINE h == [i \in 1 .. N |-> g[i]]
    <3>1. \A i \in 1 .. N : h[i] = IF i = 1 THEN seqs[i] ELSE h[i - 1] \o seqs[i]
      BY <1>4, <2>1, <2>2
    <3>2. h = [i \in 1 .. N |-> h[i]]
      OBVIOUS
    <3> HIDE DEF h
    <3>3. Upto(h)
      BY <3>1, <3>2
    <3> QED
      BY <3>3
  <2>4. Upto(upto)
    BY <2>3
  <2>5. FlattenSeq(seqs) = upto[N]
    BY <1>6 DEF FlattenSeq
  <2> HIDE DEF upto
  <2>6. /\ upto[1] = seqs[1]
        /\ \A k \in 1 .. N : k # 1 => upto[k] = upto[k - 1] \o seqs[k]
    <3> HIDE DEF N
    <3> QED
      BY <2>1, <2>4
  <2> DEFINE T == {n \in Nat : n \in 1 .. N => upto[n] = g[n]}
  <2>7. 0 \in T
    OBVIOUS
  <2>8. ASSUME NEW n \in T PROVE n + 1 \in T
    <3>1. CASE n + 1 \in 1 .. N
      <4>1. PICK m \in 1 .. N : m = n + 1 /\ m - 1 = n
        BY <3>1
      <4>2. m # 1 => n \in 1 .. N
        BY <2>1, <4>1
      <4>3. upto[m] = g[m]
        BY <1>4, <2>2, <2>6, <4>1, <4>2
      <4> QED
        BY <4>1, <4>3
    <3> QED
      BY <3>1
  <2>9. N \in T
    <3> HIDE DEF T
    <3> QED
      BY <1>1, <2>7, <2>8, NumbersByInduction DEF T
  <2> QED
    BY <1>1, <1>3, <1>6, <2>5, <2>9
<1> QED
  BY <1>5, <1>6

LEMMA FlattenTyped ==
    ASSUME NEW E, NEW seqs \in Seq(Seq(E)) PROVE FlattenSeq(seqs) \in Seq(E)
<1>1. PICK g : /\ Runs(g, Len(seqs), Seq(E), <<>>, FlatRounds(seqs, E))
               /\ FlattenSeq(seqs) = g[Len(seqs)]
  BY FlattenRuns
<1>2. Len(seqs) \in 0 .. Len(seqs)
  OBVIOUS
<1> QED
  BY <1>1, <1>2 DEF Runs

\* One more part at the end.
LEMMA FlattenAppend ==
    ASSUME NEW E, NEW seqs \in Seq(Seq(E)), NEW p \in Seq(E)
    PROVE  FlattenSeq(Append(seqs, p)) = FlattenSeq(seqs) \o p
<1> DEFINE more == Append(seqs, p)
           N == Len(seqs)
           S == Seq(E)
<1>1. /\ more \in Seq(S) /\ Len(more) = N + 1 /\ more[N + 1] = p /\ N \in Nat
      /\ \A k \in 1 .. N : more[k] = seqs[k]
  OBVIOUS
<1> HIDE DEF more
<1>2. PICK g : Runs(g, N, S, <<>>, FlatRounds(seqs, E)) /\ FlattenSeq(seqs) = g[N]
  BY FlattenRuns
<1>3. PICK h : Runs(h, N + 1, S, <<>>, FlatRounds(more, E)) /\ FlattenSeq(more) = h[N + 1]
  BY <1>1, FlattenRuns
<1> HIDE DEF S
<1>4. \A k \in 1 .. N + 1 : \A s \in S : FlatRounds(more, E)[k][s] = s \o more[k]
  BY <1>1 DEF FlatRounds, S
<1>5. \A k \in 1 .. N : \A s \in S : FlatRounds(seqs, E)[k][s] = s \o seqs[k]
  BY DEF FlatRounds, S
<1> HIDE DEF N
<1>6. /\ \A k \in 1 .. N : k \in 1 .. N + 1 /\ k - 1 \in 0 .. N
      /\ 0 .. N \subseteq 0 .. N + 1 /\ N + 1 \in 1 .. N + 1 /\ (N + 1) - 1 = N
  BY <1>1
<1>7. Runs(h, N, S, <<>>, FlatRounds(seqs, E))
  <2>1. ASSUME NEW k \in 1 .. N
        PROVE  h[k - 1] \in S /\ h[k] = FlatRounds(seqs, E)[k][h[k - 1]]
    <3>1. h[k - 1] \in S /\ h[k] = FlatRounds(more, E)[k][h[k - 1]]
      BY <1>3, <1>6 DEF Runs
    <3>2. PICK s \in S : s = h[k - 1]
      BY <3>1
    <3>3. FlatRounds(more, E)[k][s] = s \o more[k] /\ FlatRounds(seqs, E)[k][s] = s \o seqs[k]
      BY <1>4, <1>5, <1>6
    <3>4. more[k] = seqs[k]
      BY <1>1
    <3> QED
      BY <3>1, <3>2, <3>3, <3>4
  <2> QED
    BY <1>3, <1>6, <2>1 DEF Runs
<1>8. h[N] = g[N]
  BY <1>1, <1>2, <1>7, RunsAgree
<1>9. h[N + 1] = h[N] \o p
  <2>1. h[N] \in S /\ h[N + 1] = FlatRounds(more, E)[N + 1][h[N]]
    BY <1>3, <1>6 DEF Runs
  <2> QED
    BY <1>1, <1>4, <1>6, <2>1
<1> QED
  BY <1>2, <1>3, <1>8, <1>9 DEF more

\* Read from the front: g[k] is what is left of the parts, with the tail
\* behind them, when those before the k-th are gone.
Leaves(g, seqs, tail, E) ==
    /\ \A k \in 1 .. Len(seqs) + 1 : g[k] \in Seq(E)
    /\ g[1] = FlattenSeq(seqs) \o tail
    /\ g[Len(seqs) + 1] = tail
    /\ \A k \in 1 .. Len(seqs) : k + 1 \in 1 .. Len(seqs) + 1 /\ g[k] = seqs[k] \o g[k + 1]
    /\ (\A k \in 1 .. Len(seqs) : seqs[k] # <<>>) => Len(seqs) <= Len(g[1])

\* What is left of flattened parts, with a tail behind them, after each part.
LEMMA FlattenLeaves ==
    ASSUME NEW E, NEW seqs \in Seq(Seq(E)), NEW tail \in Seq(E)
    PROVE  \E g : Leaves(g, seqs, tail, E)
<1> DEFINE S == Seq(E)
           T == {n \in Nat : \A parts \in Seq(S), rest \in S :
                                Len(parts) = n => \E g : Leaves(g, parts, rest, E)}
<1>1. 0 \in T
  <2> SUFFICES ASSUME NEW parts \in Seq(S), NEW rest \in S, Len(parts) = 0
               PROVE  \E g : Leaves(g, parts, rest, E)
    OBVIOUS
  <2> DEFINE g == [k \in 1 .. 1 |-> rest]
  <2>1. FlattenSeq(parts) = <<>>
    BY DEF FlattenSeq
  <2>2. FlattenSeq(parts) \o rest = rest
    BY <2>1, ConcatEmptySeq
  <2>3. Len(parts) + 1 = 1 /\ 1 .. 1 = {1} /\ 1 .. Len(parts) = {} /\ 0 <= Len(rest)
    OBVIOUS
  <2>4. g[1] = rest
    OBVIOUS
  <2> HIDE DEF g
  <2>5. Leaves(g, parts, rest, E)
    BY <2>2, <2>3, <2>4 DEF Leaves
  <2> QED
    BY <2>5
<1>2. ASSUME NEW n \in T PROVE n + 1 \in T
  <2> SUFFICES ASSUME NEW more \in Seq(S), NEW rest \in S, Len(more) = n + 1
               PROVE  \E g : Leaves(g, more, rest, E)
    OBVIOUS
  <2>1. PICK parts \in Seq(S), p \in S : more = Append(parts, p)
    <3>1. more # <<>>
      OBVIOUS
    <3> QED
      BY <3>1, SequenceEmptyOrAppend
  <2>2. /\ Len(parts) = n /\ n \in Nat /\ more[n + 1] = p
        /\ \A k \in 1 .. n : more[k] = parts[k]
    BY <2>1
  <2> HIDE DEF S
  <2>3. p \o rest \in S
    BY DEF S
  <2>4. PICK f : Leaves(f, parts, p \o rest, E)
    BY <2>2, <2>3
  <2> DEFINE g == [k \in 1 .. n + 2 |-> IF k = n + 2 THEN rest ELSE f[k]]
  <2>5. /\ g[n + 2] = rest /\ \A k \in 1 .. n + 1 : g[k] = f[k]
    BY <2>2
  <2> HIDE DEF g
  <2>6. g[1] = FlattenSeq(more) \o rest
    <3>1. FlattenSeq(parts) \in S /\ FlattenSeq(more) = FlattenSeq(parts) \o p
      BY <2>1, FlattenTyped, FlattenAppend DEF S
    <3>2. (FlattenSeq(parts) \o p) \o rest = FlattenSeq(parts) \o (p \o rest)
      <4>1. ASSUME NEW a \in Seq(E), NEW b \in Seq(E), NEW c \in Seq(E)
            PROVE  (a \o b) \o c = a \o (b \o c)
        BY ConcatAssociative
      <4> QED
        BY <3>1, <4>1 DEF S
    <3>3. g[1] = f[1]
      BY <2>2, <2>5
    <3> QED
      BY <2>4, <3>1, <3>2, <3>3 DEF Leaves
  <2>7. ASSUME NEW k \in 1 .. n + 2 PROVE g[k] \in S
    <3>1. k = n + 2 \/ k \in 1 .. n + 1
      BY <2>2
    <3> QED
      BY <2>2, <2>4, <2>5, <3>1 DEF Leaves, S
  <2>8. ASSUME NEW k \in 1 .. n + 1 PROVE k + 1 \in 1 .. n + 2 /\ g[k] = more[k] \o g[k + 1]
    <3>1. CASE k = n + 1
      <4>1. n + 1 \in 1 .. n + 1 /\ k + 1 = n + 2 /\ n + 2 \in 1 .. n + 2
        BY <2>2, <3>1
      <4>2. f[n + 1] = p \o rest
        BY <2>2, <2>4 DEF Leaves
      <4>3. g[k] = f[n + 1] /\ g[k + 1] = rest /\ more[k] = p
        BY <2>2, <2>5, <3>1, <4>1
      <4> QED
        BY <4>1, <4>2, <4>3
    <3>2. CASE k # n + 1
      <4>1. k \in 1 .. n /\ k + 1 \in 1 .. n + 1 /\ k + 1 \in 1 .. n + 2
        BY <2>2, <3>2
      <4> QED
        BY <2>2, <2>4, <2>5, <4>1 DEF Leaves
    <3> QED
      BY <3>1, <3>2
  <2>9. ASSUME \A k \in 1 .. n + 1 : more[k] # <<>> PROVE n + 1 <= Len(g[1])
    <3>1. /\ \A k \in 1 .. n : parts[k] # <<>> /\ parts[k] \in S
          /\ p # <<>> /\ Len(p) \in Nat \ {0}
      BY <2>2, <2>9 DEF S
    <3>2. FlattenSeq(parts) \in S
      BY FlattenTyped DEF S
    <3>3. PICK e : Leaves(e, parts, <<>>, E)
      <4>1. <<>> \in S
        BY DEF S
      <4> QED
        BY <2>2, <4>1
    <3>4. n <= Len(FlattenSeq(parts))
      <4>1. e[1] = FlattenSeq(parts) \o <<>>
        BY <3>3 DEF Leaves
      <4>2. FlattenSeq(parts) \o <<>> = FlattenSeq(parts)
        BY <3>2, ConcatEmptySeq DEF S
      <4> QED
        BY <2>2, <3>1, <3>3, <4>1, <4>2 DEF Leaves
    <3>5. FlattenSeq(more) = FlattenSeq(parts) \o p
      BY <2>1, FlattenAppend DEF S
    <3>6. FlattenSeq(more) \in S /\ Len(FlattenSeq(more)) = Len(FlattenSeq(parts)) + Len(p)
      BY <3>2, <3>5, ConcatProperties DEF S
    <3>7. Len(g[1]) = Len(FlattenSeq(more)) + Len(rest)
      BY <2>6, <3>6, ConcatProperties DEF S
    <3>8. Len(rest) \in Nat /\ Len(FlattenSeq(parts)) \in Nat
      BY <3>2 DEF S
    <3> QED
      BY <2>2, <3>1, <3>4, <3>6, <3>7, <3>8
  <2>10. (n + 1) + 1 = n + 2
    BY <2>2
  <2>11. Leaves(g, more, rest, E)
    BY <2>5, <2>6, <2>7, <2>8, <2>9, <2>10 DEF Leaves, S
  <2> QED
    BY <2>11
<1>3. Len(seqs) \in Nat
  OBVIOUS
<1>4. Len(seqs) \in T
  <2> HIDE DEF T
  <2> QED
    BY <1>1, <1>2, <1>3, NumbersByInduction DEF T
<1> QED
  BY <1>4

-----------------------------------------------------------------------------
(* Subsequences.                                                           *)

\* Each element of s has a place in t, in order.
Places(f, s, t) ==
    /\ \A i \in 1 .. Len(s) : f[i] \in 1 .. Len(t) /\ t[f[i]] = s[i]
    /\ \A i, j \in 1 .. Len(s) : i < j => f[i] < f[j]
In(s, t) == \E f : Places(f, s, t)

LEMMA InItself == ASSUME NEW E, NEW s \in Seq(E) PROVE In(s, s) /\ In(<<>>, s)
<1> DEFINE f == [i \in 1 .. Len(s) |-> i]
<1>1. Places(f, s, s)
  BY DEF Places
<1>2. Places(f, <<>>, s)
  BY DEF Places
<1> HIDE DEF f
<1> QED
  BY <1>1, <1>2 DEF In

\* Two subsequences, one behind the other.
LEMMA InBoth ==
    ASSUME NEW E, NEW s \in Seq(E), NEW t \in Seq(E), NEW u \in Seq(E), NEW v \in Seq(E),
           In(s, t), In(u, v)
    PROVE  In(s \o u, t \o v)
<1>1. PICK f : Places(f, s, t)
  BY DEF In
<1>2. PICK g : Places(g, u, v)
  BY DEF In
<1> DEFINE h == [i \in 1 .. Len(s \o u) |-> IF i <= Len(s) THEN f[i] ELSE Len(t) + g[i - Len(s)]]
<1>3. /\ s \o u \in Seq(E) /\ Len(s \o u) = Len(s) + Len(u)
      /\ \A i \in 1 .. Len(s) + Len(u) : (s \o u)[i] =
                     IF i <= Len(s) THEN s[i] ELSE u[i - Len(s)]
  BY ConcatProperties
<1>4. /\ t \o v \in Seq(E) /\ Len(t \o v) = Len(t) + Len(v)
      /\ \A i \in 1 .. Len(t) + Len(v) : (t \o v)[i] =
                     IF i <= Len(t) THEN t[i] ELSE v[i - Len(t)]
  BY ConcatProperties
<1>5. Len(s) \in Nat /\ Len(t) \in Nat /\ Len(u) \in Nat /\ Len(v) \in Nat
  OBVIOUS
<1>6. ASSUME NEW i \in 1 .. Len(s)
      PROVE  i \in 1 .. Len(s \o u) /\ h[i] = f[i] /\ f[i] \in 1 .. Len(t)
  BY <1>1, <1>3, <1>5 DEF Places
<1>7. ASSUME NEW i \in 1 .. Len(s \o u), ~(i <= Len(s))
      PROVE  /\ i - Len(s) \in 1 .. Len(u) /\ h[i] = Len(t) + g[i - Len(s)]
             /\ g[i - Len(s)] \in 1 .. Len(v)
  <2>1. i - Len(s) \in 1 .. Len(u)
    BY <1>3, <1>5, <1>7
  <2> QED
    BY <1>2, <1>7, <2>1 DEF Places
<1> HIDE DEF h
<1>8. ASSUME NEW i \in 1 .. Len(s \o u)
      PROVE  h[i] \in 1 .. Len(t \o v) /\ (t \o v)[h[i]] = (s \o u)[i]
  <2>1. CASE i <= Len(s)
    <3>1. i \in 1 .. Len(s)
      BY <1>5, <2>1
    <3>2. h[i] \in 1 .. Len(t) /\ t[h[i]] = s[i]
      BY <1>1, <1>6, <3>1 DEF Places
    <3>3. h[i] \in 1 .. Len(t) + Len(v) /\ h[i] <= Len(t)
      BY <1>5, <3>2
    <3> QED
      BY <1>3, <1>4, <2>1, <3>2, <3>3
  <2>2. CASE ~(i <= Len(s))
    <3>1. PICK k \in 1 .. Len(u) : k = i - Len(s) /\ h[i] = Len(t) + g[k] /\ g[k] \in 1 .. Len(v)
      BY <1>7, <2>2
    <3>2. v[g[k]] = u[k]
      BY <1>2 DEF Places
    <3>3. h[i] \in 1 .. Len(t) + Len(v) /\ ~(h[i] <= Len(t)) /\ h[i] - Len(t) = g[k]
      BY <1>5, <3>1
    <3> QED
      BY <1>3, <1>4, <2>2, <3>1, <3>2, <3>3
  <2> QED
    BY <2>1, <2>2
<1>9. ASSUME NEW i \in 1 .. Len(s \o u), NEW j \in 1 .. Len(s \o u), i < j
      PROVE  h[i] < h[j]
  <2>1. CASE i <= Len(s) /\ j <= Len(s)
    <3>1. i \in 1 .. Len(s) /\ j \in 1 .. Len(s)
      BY <1>5, <2>1
    <3> QED
      BY <1>1, <1>6, <1>9, <3>1 DEF Places
  <2>2. CASE i <= Len(s) /\ ~(j <= Len(s))
    <3>1. i \in 1 .. Len(s)
      BY <1>5, <2>2
    <3>2. h[i] \in 1 .. Len(t)
      BY <1>6, <3>1
    <3>3. PICK m \in 1 .. Len(v) : h[j] = Len(t) + m
      BY <1>7, <2>2
    <3> QED
      BY <1>5, <3>2, <3>3
  <2>3. CASE ~(i <= Len(s)) /\ ~(j <= Len(s))
    <3>1. PICK k \in 1 .. Len(u) : k = i - Len(s) /\ h[i] = Len(t) + g[k] /\ g[k] \in 1 .. Len(v)
      BY <1>7, <2>3
    <3>2. PICK m \in 1 .. Len(u) : m = j - Len(s) /\ h[j] = Len(t) + g[m] /\ g[m] \in 1 .. Len(v)
      BY <1>7, <2>3
    <3>3. k < m
      BY <1>5, <1>9, <3>1, <3>2
    <3>4. g[k] < g[m]
      BY <1>2, <3>3 DEF Places
    <3> QED
      BY <1>5, <3>1, <3>2, <3>4
  <2> QED
    BY <1>3, <1>5, <1>9, <2>1, <2>2, <2>3
<1>10. Places(h, s \o u, t \o v)
  BY <1>8, <1>9 DEF Places
<1> QED
  BY <1>10 DEF In

\* Taking each element as early as possible takes them all.
LEMMA TakenAll ==
    ASSUME NEW E, NEW s \in Seq(E), NEW t \in Seq(E), In(s, t)
    PROVE  IsSubsequenceOf(s, t)
<1> DEFINE N == Len(t)
           S == 0 .. Len(s)
           Step(n, m) == IF m < Len(s) /\ s[m + 1] = t[n] THEN m + 1 ELSE m
           Round == [n \in 1 .. N |-> [m \in S |-> Step(n, m)]]
           Upto(h) == h = [n \in 0 .. N |->
                IF n = 0 THEN 0
                ELSE LET before == h[n - 1] IN
                     IF before < Len(s) /\ s[before + 1] = t[n] THEN before + 1 ELSE before]
           taken == CHOOSE h : Upto(h)
<1>1. N \in Nat /\ Len(s) \in Nat /\ 0 \in S
  OBVIOUS
<1>2. \A n \in 1 .. N : \A m \in S : Step(n, m) \in S
  BY <1>1
<1>3. Round \in [1 .. N -> [S -> S]] /\ \A n \in 1 .. N : \A m \in S : Round[n][m] = Step(n, m)
  <2> HIDE DEF Step, S
  <2> QED
    BY <1>2
<1>4. PICK g \in [0 .. N -> S] : Runs(g, N, S, 0, Round)
  <2> HIDE DEF Round, S, N
  <2> QED
    BY <1>1, <1>3, LoopRuns
<1>5. g[0] = 0 /\ \A n \in 1 .. N : g[n] = Step(n, g[n - 1])
  <2> HIDE DEF Step, Round, S, N
  <2> QED
    BY <1>3, <1>4 DEF Runs
<1>6. \A n \in 0 .. N : n # 0 => n \in 1 .. N
  BY <1>1
<1>7. Upto(g)
  <2>1. g = [n \in 0 .. N |-> g[n]]
    BY <1>4
  <2> HIDE DEF S, N
  <2> QED
    BY <1>5, <1>6, <2>1
<1>8. Upto(taken)
  BY <1>7
<1>9. IsSubsequenceOf(s, t) <=> taken[N] = Len(s)
  BY DEF IsSubsequenceOf
<1> HIDE DEF taken
<1>10. taken[0] = 0 /\ \A n \in 1 .. N : taken[n] = Step(n, taken[n - 1])
  <2>1. 0 \in 0 .. N /\ \A n \in 1 .. N : n \in 0 .. N /\ n # 0
    BY <1>1
  <2> HIDE DEF S, N
  <2> QED
    BY <1>8, <2>1
<1>11. PICK f : Places(f, s, t)
  BY DEF In
<1> DEFINE Done(n, m) == m \in S /\ \A i \in 1 .. Len(s) : f[i] <= n => i <= m
           T == {n \in Nat : n <= N => Done(n, taken[n])}
<1>12. 0 \in T
  BY <1>1, <1>10, <1>11 DEF Places
<1>13. ASSUME NEW n \in T PROVE n + 1 \in T
  <2> SUFFICES ASSUME n + 1 <= N PROVE Done(n + 1, taken[n + 1])
    OBVIOUS
  <2>1. PICK k \in 1 .. N : k = n + 1 /\ k - 1 = n /\ n \in Nat
    BY <1>1
  <2>2. PICK m : m = taken[n] /\ Done(n, m)
    BY <1>1, <2>1
  <2>3. taken[k] = Step(k, m) /\ Step(k, m) \in S
    BY <1>2, <1>10, <2>1, <2>2
  <2>4. ASSUME NEW i \in 1 .. Len(s), f[i] <= k PROVE i <= Step(k, m)
    <3>1. f[i] \in Nat /\ m \in Nat /\ m <= Step(k, m)
      BY <1>11, <2>2 DEF Places
    <3>2. CASE f[i] <= n
      <4>1. i <= m
        BY <2>2, <3>2
      <4> QED
        BY <2>2, <3>1, <4>1
    <3>3. CASE f[i] = k
      <4>1. s[i] = t[k]
        BY <1>11, <3>3 DEF Places
      <4>2. i - 1 <= m
        <5>1. CASE i = 1
          BY <3>1, <5>1
        <5>2. CASE i # 1
          <6>1. i - 1 \in 1 .. Len(s) /\ i - 1 < i
            BY <1>1, <5>2
          <6>2. f[i - 1] \in Nat /\ f[i - 1] < k
            BY <1>11, <3>3, <6>1 DEF Places
          <6>3. f[i - 1] <= n
            BY <2>1, <6>2
          <6> QED
            BY <2>2, <6>1, <6>3
        <5> QED
          BY <5>1, <5>2
      <4>3. CASE m = i - 1
        BY <1>1, <2>2, <4>1, <4>3
      <4>4. CASE m # i - 1
        BY <1>1, <2>2, <4>2, <4>4
      <4> QED
        BY <4>3, <4>4
    <3> QED
      BY <2>1, <2>4, <3>1, <3>2, <3>3
  <2> HIDE DEF Step
  <2> QED
    BY <2>1, <2>3, <2>4
<1>14. N \in T
  <2> HIDE DEF T
  <2> QED
    BY <1>1, <1>12, <1>13, NumbersByInduction DEF T
<1>15. Done(N, taken[N])
  BY <1>1, <1>14
<1>16. \A i \in 1 .. Len(s) : i <= taken[N]
  BY <1>11, <1>15 DEF Places
<1> QED
  <2> HIDE DEF N
  <2> QED
    BY <1>1, <1>9, <1>15, <1>16

-----------------------------------------------------------------------------
(* What a parser may return, and what it has read.                         *)

Buffers == Seq(Descriptor)
Outcomes(V) == {Failed} \cup {Parsed(v, r) : v \in V, r \in Buffers}

\* A sequence read from a buffer is a subsequence of what is gone from it.
Reads(b, flat, rest) == \E p \in Buffers : b = p \o rest /\ In(flat, p)

\* A parser has failed, or has a value and the rest of the buffer.
LEMMA OutcomeFacts ==
    ASSUME NEW V, NEW r \in Outcomes(V)
    PROVE  /\ r.ok \in BOOLEAN /\ r.rest \in Buffers
           /\ r.ok => r.value \in V /\ r = Parsed(r.value, r.rest)
           /\ ~r.ok => r = Failed
<1>1. Failed.ok = FALSE /\ Failed.rest = <<>> /\ <<>> \in Buffers
  BY DEF Failed, Buffers
<1>2. ASSUME NEW v \in V, NEW b \in Buffers, r = Parsed(v, b)
      PROVE  r.ok = TRUE /\ r.value = v /\ r.rest = b
  BY <1>2 DEF Parsed
<1>3. CASE r = Failed
  BY <1>1, <1>3
<1>4. CASE r # Failed
  <2>1. PICK v \in V, b \in Buffers : r = Parsed(v, b)
    BY <1>4 DEF Outcomes
  <2> QED
    BY <1>2, <2>1
<1> QED
  BY <1>3, <1>4

\* The outcomes are told apart.
LEMMA OutcomesTyped ==
    ASSUME NEW V, NEW v \in V, NEW b \in Buffers
    PROVE  /\ Parsed(v, b) \in Outcomes(V) /\ Failed \in Outcomes(V)
           /\ Parsed(v, b).ok /\ Parsed(v, b).value = v /\ Parsed(v, b).rest = b
           /\ ~Failed.ok
<1>1. Parsed(v, b) \in Outcomes(V) /\ Failed \in Outcomes(V)
  BY DEF Outcomes
<1>2. /\ Parsed(v, b).ok = TRUE /\ Parsed(v, b).value = v /\ Parsed(v, b).rest = b
      /\ Failed.ok = FALSE
  BY DEF Parsed, Failed
<1> QED
  BY <1>1, <1>2

LEMMA ReadsNothing == ASSUME NEW b \in Buffers PROVE Reads(b, <<>>, b)
<1>1. <<>> \in Buffers /\ <<>> \o b = b
  BY ConcatEmptySeq DEF Buffers
<1>2. In(<<>>, <<>>)
  BY <1>1, InItself DEF Buffers
<1> QED
  BY <1>1, <1>2 DEF Reads

\* Two parsers, one after the other.
LEMMA ReadsOn ==
    ASSUME NEW b, NEW f \in Buffers, NEW r, NEW g \in Buffers, NEW q \in Buffers,
           Reads(b, f, r), Reads(r, g, q)
    PROVE  Reads(b, f \o g, q)
<1>1. PICK m \in Buffers : b = m \o r /\ In(f, m)
  BY DEF Reads
<1>2. PICK n \in Buffers : r = n \o q /\ In(g, n)
  BY DEF Reads
<1>3. m \o n \in Buffers
  BY DEF Buffers
<1>4. (m \o n) \o q = m \o (n \o q)
  BY ConcatAssociative DEF Buffers
<1>5. In(f \o g, m \o n)
  BY <1>1, <1>2, InBoth DEF Buffers
<1> QED
  BY <1>1, <1>2, <1>3, <1>4, <1>5 DEF Reads

\* The parts that F makes of the elements, put together.
Joined(xs, F) == FlattenSeq([k \in DOMAIN xs |-> F[xs[k]]])
JoinsFrom(F, V) ==
    /\ Joined(<<>>, F) = <<>>
    /\ \A xs \in Seq(V) :
         /\ Joined(xs, F) \in Buffers
         /\ \A x \in V : Joined(Append(xs, x), F) = Joined(xs, F) \o F[x]

\* The joined sequences grow with each element.
LEMMA JoinedFacts ==
    ASSUME NEW V, NEW F \in [V -> Buffers] PROVE JoinsFrom(F, V)
<1>1. Joined(<<>>, F) = <<>>
  <2>1. [k \in DOMAIN <<>> |-> F[<<>>[k]]] = <<>>
    OBVIOUS
  <2> QED
    BY <2>1 DEF Joined, FlattenSeq
<1>2. ASSUME NEW xs \in Seq(V) PROVE [k \in DOMAIN xs |-> F[xs[k]]] \in Seq(Buffers)
  <2>1. \A k \in 1 .. Len(xs) : F[xs[k]] \in Buffers
    OBVIOUS
  <2>2. DOMAIN xs = 1 .. Len(xs) /\ Len(xs) \in Nat
    OBVIOUS
  <2> QED
    BY <2>1, <2>2
<1>3. ASSUME NEW xs \in Seq(V), NEW x \in V
      PROVE  Joined(Append(xs, x), F) = Joined(xs, F) \o F[x]
  <2> DEFINE parts == [k \in DOMAIN xs |-> F[xs[k]]]
             more == [k \in DOMAIN Append(xs, x) |-> F[Append(xs, x)[k]]]
  <2>1. parts \in Seq(Buffers) /\ F[x] \in Buffers
    BY <1>2
  <2>2. Append(xs, x) \in Seq(V)
    OBVIOUS
  <2>3. more \in Seq(Buffers)
    BY <1>2, <2>2
  <2>4. Len(parts) = Len(xs) /\ Len(more) = Len(xs) + 1 /\ Len(xs) \in Nat
    OBVIOUS
  <2>5. Append(parts, F[x]) \in Seq(Buffers) /\ Len(Append(parts, F[x])) = Len(xs) + 1
    BY <2>1, <2>4
  <2>6. ASSUME NEW k \in 1 .. Len(xs) + 1 PROVE more[k] = Append(parts, F[x])[k]
    <3>1. CASE k \in 1 .. Len(xs)
      BY <2>1, <2>4, <3>1
    <3>2. CASE k = Len(xs) + 1
      BY <2>1, <2>4, <3>2
    <3> QED
      BY <2>4, <3>1, <3>2
  <2> HIDE DEF more, parts
  <2>7. more = Append(parts, F[x])
    BY <2>3, <2>4, <2>5, <2>6, SeqEqual
  <2>8. FlattenSeq(Append(parts, F[x])) = FlattenSeq(parts) \o F[x]
    BY <2>1, FlattenAppend DEF Buffers
  <2> QED
    BY <2>7, <2>8 DEF Joined, parts, more
<1>4. ASSUME NEW xs \in Seq(V) PROVE Joined(xs, F) \in Buffers
  BY <1>2, FlattenTyped DEF Joined, Buffers
<1> QED
  BY <1>1, <1>3, <1>4 DEF JoinsFrom

-----------------------------------------------------------------------------
(* Skipping the descriptors of a class or a vendor.                        *)

\* Nothing to skip.
Settled(b) == b # <<>> => Head(b).type \in Proper /\ Head(b).length >= DESC_HEADER_LENGTH
\* What may follow a setting: no other configuration, which would leave the
\* setting without its endpoints.
InPlace(b) == Settled(b) /\ (b # <<>> => Head(b).type \notin {"config", "device"})

Skipped(d) == d.type \notin Proper /\ d.length >= DESC_HEADER_LENGTH
SkipsTo(b, n) ==
    /\ n \in 0 .. Len(b)
    /\ \A k \in 1 .. n : Skipped(b[k])
    /\ n < Len(b) => ~Skipped(b[n + 1])
    /\ LET rest == SubSeq(b, n + 1, Len(b)) IN
       Skip(b) = IF rest # <<>> /\ Head(rest).length < DESC_HEADER_LENGTH THEN Failed
                 ELSE Parsed(SubSeq(b, 1, n), rest)

\* Skip stops at the first descriptor that is not skipped.
LEMMA SkipStops ==
    ASSUME NEW b \in Buffers PROVE \E n : SkipsTo(b, n)
<1> DEFINE stops == {k \in DOMAIN b : b[k].type \in Proper \/ b[k].length < DESC_HEADER_LENGTH}
           n == IF stops = {} THEN Len(b)
                ELSE (CHOOSE k \in stops : \A j \in stops : k <= j) - 1
           rest == SubSeq(b, n + 1, Len(b))
<1>1. /\ Len(b) \in Nat /\ DOMAIN b = 1 .. Len(b)
      /\ \A k \in 1 .. Len(b) : b[k] \in Descriptor /\ b[k].length \in Nat
  <2>1. Len(b) \in Nat /\ DOMAIN b = 1 .. Len(b) /\ \A k \in 1 .. Len(b) : b[k] \in Descriptor
    BY DEF Buffers
  <2> QED
    BY <2>1 DEF Descriptor
<1>2. \A k \in 1 .. Len(b) : Skipped(b[k]) <=> k \notin stops
  BY <1>1 DEF Skipped, DESC_HEADER_LENGTH
<1>3. Skip(b) = IF rest # <<>> /\ Head(rest).length < DESC_HEADER_LENGTH THEN Failed
                ELSE Parsed(SubSeq(b, 1, n), rest)
  BY DEF Skip
<1>4. stops \in SUBSET (1 .. Len(b))
  BY <1>1
<1>5. /\ n \in 0 .. Len(b) /\ \A k \in 1 .. n : k \notin stops /\ k \in 1 .. Len(b)
      /\ n < Len(b) => n + 1 \in stops
  <2> HIDE DEF stops
  <2>1. CASE stops = {}
    BY <1>1, <2>1
  <2>2. CASE stops # {}
    <3>1. stops \in SUBSET Nat
      BY <1>4
    <3>2. \E k \in stops : \A j \in stops : k <= j
      BY <2>2, <3>1, LeastNumber
    <3>3. PICK m : m = CHOOSE k \in stops : \A j \in stops : k <= j
      OBVIOUS
    <3>4. m \in stops /\ \A j \in stops : m <= j
      BY <3>2, <3>3
    <3>5. n = m - 1
      BY <2>2, <3>3
    <3>6. m \in 1 .. Len(b)
      BY <1>4, <3>4
    <3> HIDE DEF n
    <3>7. n \in 0 .. Len(b) /\ n + 1 = m
      BY <1>1, <3>5, <3>6
    <3>8. ASSUME NEW k \in 1 .. n PROVE k \notin stops /\ k \in 1 .. Len(b)
      BY <1>1, <3>4, <3>6, <3>7
    <3> QED
      BY <3>4, <3>7, <3>8
  <2> QED
    BY <2>1, <2>2
<1> HIDE DEF n, stops
<1>6. n < Len(b) => n + 1 \in 1 .. Len(b)
  BY <1>1, <1>5
<1>7. SkipsTo(b, n)
  BY <1>2, <1>3, <1>5, <1>6 DEF SkipsTo
<1> QED
  BY <1>7

\* Skip keeps what it skips; what follows is settled.
LEMMA SkipReads ==
    ASSUME NEW b \in Buffers
    PROVE  /\ Skip(b) \in Outcomes(Buffers)
           /\ Skip(b).ok => Reads(b, Skip(b).value, Skip(b).rest) /\ Settled(Skip(b).rest)
<1>1. PICK n : SkipsTo(b, n)
  BY SkipStops
<1> DEFINE v == SubSeq(b, 1, n)
           rest == SubSeq(b, n + 1, Len(b))
<1>2. Len(b) \in Nat /\ n \in 0 .. Len(b) /\ \A k \in 1 .. Len(b) : b[k] \in Descriptor
  BY <1>1 DEF SkipsTo, Buffers
<1>3. \A k \in 1 .. n : b[k] \in Descriptor
  BY <1>2
<1>4. v \in Buffers
  BY <1>2, <1>3, SubSeqProperties DEF Buffers
<1>5. /\ rest \in Buffers /\ Len(rest) = Len(b) - n
      /\ rest # <<>> => n + 1 \in 1 .. Len(b) /\ Head(rest) = b[n + 1]
  <2>1. n + 1 \in Int /\ \A k \in n + 1 .. Len(b) : b[k] \in Descriptor
    BY <1>2
  <2>2. /\ rest \in Buffers /\ Len(rest) = IF n + 1 <= Len(b) THEN Len(b) - (n + 1) + 1 ELSE 0
        /\ \A i \in 1 .. Len(b) - (n + 1) + 1 : rest[i] = b[(n + 1) + i - 1]
    BY <1>2, <2>1, SubSeqProperties DEF Buffers
  <2>3. Len(rest) = Len(b) - n
    BY <1>2, <2>2
  <2>4. ASSUME rest # <<>> PROVE n + 1 \in 1 .. Len(b) /\ Head(rest) = b[n + 1]
    <3>1. Len(rest) \in Nat \ {0} /\ Head(rest) = rest[1]
      BY <2>2, <2>4 DEF Buffers
    <3> QED
      BY <1>2, <2>2, <2>3, <3>1
  <2> QED
    BY <2>2, <2>3, <2>4
<1>6. b = v \o rest
  <2>1. 1 \in 1 .. Len(b) + 1 /\ n \in 1 - 1 .. Len(b) /\ Len(b) \in n .. Len(b)
    BY <1>2
  <2>2. v \o rest = SubSeq(b, 1, Len(b))
    BY <2>1, ConcatAdjacentSubSeq DEF Buffers
  <2> QED
    BY <2>2, SubSeqFull DEF Buffers
<1>7. Skip(b) = IF rest # <<>> /\ Head(rest).length < DESC_HEADER_LENGTH THEN Failed
                ELSE Parsed(v, rest)
  BY <1>1 DEF SkipsTo
<1> HIDE DEF v, rest
<1>8. Skip(b) \in Outcomes(Buffers)
  BY <1>4, <1>5, <1>7, OutcomesTyped
<1>9. ASSUME Skip(b).ok
      PROVE  Reads(b, Skip(b).value, Skip(b).rest) /\ Settled(Skip(b).rest)
  <2>1. Skip(b) = Parsed(v, rest) /\ ~(rest # <<>> /\ Head(rest).length < DESC_HEADER_LENGTH)
    BY <1>4, <1>5, <1>7, <1>9, OutcomesTyped
  <2>2. Skip(b).value = v /\ Skip(b).rest = rest
    BY <1>4, <1>5, <2>1, OutcomesTyped
  <2>3. Reads(b, v, rest)
    BY <1>4, <1>6, InItself DEF Reads, Buffers
  <2>4. Settled(rest)
    <3> SUFFICES ASSUME rest # <<>>
                 PROVE  Head(rest).type \in Proper /\ Head(rest).length >= DESC_HEADER_LENGTH
      BY DEF Settled
    <3>1. Head(rest) = b[n + 1] /\ b[n + 1] \in Descriptor /\ n < Len(b)
      BY <1>2, <1>5
    <3>2. Head(rest).length \in Nat
      BY <3>1 DEF Descriptor
    <3>3. Head(rest).length >= DESC_HEADER_LENGTH
      BY <2>1, <3>2 DEF DESC_HEADER_LENGTH
    <3> QED
      BY <1>1, <3>1, <3>3 DEF SkipsTo, Skipped
  <2> QED
    BY <2>2, <2>3, <2>4
<1> QED
  BY <1>8, <1>9

\* The extra descriptors are skipped and no others.
LEMMA SkipExtra ==
    ASSUME NEW x \in Buffers, IsExtra(x), NEW t \in Buffers, Settled(t)
    PROVE  Skip(x \o t) = Parsed(x, t)
<1> DEFINE b == x \o t
<1>1. /\ b \in Buffers /\ Len(b) = Len(x) + Len(t) /\ Len(x) \in Nat /\ Len(t) \in Nat
      /\ \A i \in 1 .. Len(x) + Len(t) : b[i] = IF i <= Len(x) THEN x[i] ELSE t[i - Len(x)]
  BY ConcatProperties DEF Buffers
<1> HIDE DEF b
<1>2. PICK n : SkipsTo(b, n)
  BY <1>1, SkipStops
<1>3. ASSUME NEW k \in 1 .. Len(x) PROVE k \in 1 .. Len(b) /\ Skipped(b[k])
  <2>1. x[k] \in ToSet(x)
    BY DEF ToSet, Buffers
  <2>2. Skipped(x[k])
    BY <2>1 DEF IsExtra, Skipped
  <2> QED
    BY <1>1, <2>2
<1>4. ASSUME Len(x) < Len(b) PROVE ~Skipped(b[Len(x) + 1])
  <2>1. t # <<>> /\ Head(t) = t[1] /\ Len(x) + 1 \in 1 .. Len(b)
    <3>1. Len(t) # 0
      BY <1>1, <1>4
    <3> QED
      BY <1>1, <1>4, <3>1 DEF Buffers
  <2>2. b[Len(x) + 1] = t[1]
    BY <1>1, <2>1
  <2> QED
    BY <2>1, <2>2 DEF Settled, Skipped
<1>5. n = Len(x)
  <2>1. n \in 0 .. Len(b)
    BY <1>2 DEF SkipsTo
  <2>2. CASE n < Len(x)
    <3>1. n < Len(b) /\ n + 1 \in 1 .. Len(x)
      BY <1>1, <2>1, <2>2
    <3> QED
      BY <1>2, <1>3, <3>1 DEF SkipsTo
  <2>3. CASE n > Len(x)
    <3>1. Len(x) < Len(b) /\ Len(x) + 1 \in 1 .. n
      BY <1>1, <2>1, <2>3
    <3> QED
      BY <1>2, <1>4, <3>1 DEF SkipsTo
  <2> QED
    BY <1>1, <2>1, <2>2, <2>3
<1>6. SubSeq(b, 1, n) = x
  <2>1. \A i \in 1 .. n : b[i] = x[i] /\ x[i] \in Descriptor
    BY <1>1, <1>5 DEF Buffers
  <2>2. SubSeq(b, 1, n) \in Buffers /\ Len(SubSeq(b, 1, n)) = n
        /\ \A i \in 1 .. n : SubSeq(b, 1, n)[i] = b[i]
    <3>1. /\ SubSeq(b, 1, n) \in Buffers
          /\ Len(SubSeq(b, 1, n)) = IF 1 <= n THEN n - 1 + 1 ELSE 0
          /\ \A i \in 1 .. n - 1 + 1 : SubSeq(b, 1, n)[i] = b[1 + i - 1]
      BY <1>1, <1>5, <2>1, SubSeqProperties DEF Buffers
    <3> QED
      BY <1>1, <1>5, <3>1
  <2> QED
    BY <1>5, <2>1, <2>2, SeqEqual DEF Buffers
<1>7. SubSeq(b, n + 1, Len(b)) = t
  <2> DEFINE r == SubSeq(b, n + 1, Len(b))
  <2>1. \A i \in n + 1 .. Len(b) : b[i] \in Descriptor
    BY <1>1, <1>5 DEF Buffers
  <2>2. /\ r \in Buffers
        /\ Len(r) = IF n + 1 <= Len(b) THEN Len(b) - (n + 1) + 1 ELSE 0
        /\ \A i \in 1 .. Len(b) - (n + 1) + 1 : r[i] = b[(n + 1) + i - 1]
    BY <1>1, <1>5, <2>1, SubSeqProperties DEF Buffers
  <2> HIDE DEF r
  <2>3. Len(r) = Len(t)
    BY <1>1, <1>5, <2>2
  <2>4. ASSUME NEW i \in 1 .. Len(r) PROVE r[i] = t[i]
    <3>1. i \in 1 .. Len(b) - (n + 1) + 1 /\ (n + 1) + i - 1 = Len(x) + i
      BY <1>1, <1>5, <2>3
    <3>2. /\ Len(x) + i \in 1 .. Len(x) + Len(t) /\ ~(Len(x) + i <= Len(x))
          /\ (Len(x) + i) - Len(x) = i
      BY <1>1, <2>3
    <3> QED
      BY <1>1, <2>2, <3>1, <3>2
  <2>5. r = t
    BY <2>2, <2>3, <2>4, SeqEqual DEF Buffers
  <2> QED
    BY <2>5 DEF r
<1>8. ~(t # <<>> /\ Head(t).length < DESC_HEADER_LENGTH)
  <2> SUFFICES ASSUME t # <<>>, Head(t).length < DESC_HEADER_LENGTH PROVE FALSE
    OBVIOUS
  <2>1. Head(t) \in Descriptor /\ Head(t).length >= DESC_HEADER_LENGTH
    BY DEF Settled, Buffers
  <2>2. Head(t).length \in Nat
    BY <2>1 DEF Descriptor
  <2> QED
    BY <2>1, <2>2 DEF DESC_HEADER_LENGTH
<1> QED
  BY <1>2, <1>6, <1>7, <1>8 DEF SkipsTo, b

\* Skip leaves a settled buffer as it is.
LEMMA SkipNothing ==
    ASSUME NEW t \in Buffers, Settled(t) PROVE Skip(t) = Parsed(<<>>, t)
<1>1. <<>> \in Buffers /\ IsExtra(<<>>)
  BY DEF Buffers, IsExtra, ToSet
<1>2. <<>> \o t = t
  BY ConcatEmptySeq DEF Buffers
<1> QED
  BY <1>1, <1>2, SkipExtra

-----------------------------------------------------------------------------
(* Endpoints.                                                              *)

LEMMA FlatEndpointTyped ==
    ASSUME NEW e \in EndpointDescriptor PROVE FlatEndpoint(e) \in Buffers
<1>1. e.descriptor \in Descriptor /\ e.extra \in Buffers
  BY DEF EndpointDescriptor, Buffers
<1>2. (IF e.descriptor = NoDescriptor THEN <<>> ELSE <<e.descriptor>>) \in Buffers
  BY <1>1 DEF Buffers
<1> QED
  BY <1>1, <1>2, ConcatProperties DEF FlatEndpoint, Buffers

\* An endpoint is read from the front of the buffer, or nothing is.
LEMMA EndpointReads ==
    ASSUME NEW b \in Buffers, b # <<>>
    PROVE  LET r == usb_parse_endpoint(b) IN
           /\ r \in Outcomes(EndpointDescriptor)
           /\ r.ok => /\ Reads(b, FlatEndpoint(r.value), r.rest)
                      /\ Settled(b) => Settled(r.rest)
<1> DEFINE r == usb_parse_endpoint(b)
           extra == Skip(Tail(b))
           d == IF Head(b).length >= ENDPOINT_DESC_LENGTH THEN Head(b) ELSE NoDescriptor
           e == [descriptor |-> d, extra |-> extra.value]
<1>1. Head(b) \in Descriptor /\ Tail(b) \in Buffers /\ b = <<Head(b)>> \o Tail(b)
  BY DEF Buffers
<1>2. NoDescriptor \in Descriptor
  BY DEF NoDescriptor, Descriptor, Types
<1>3. CASE Head(b).type # "endpoint"
  <2>1. r = Parsed(NoEndpoint, b)
    BY <1>3 DEF usb_parse_endpoint
  <2>2. NoEndpoint \in EndpointDescriptor
    BY <1>2 DEF NoEndpoint, EndpointDescriptor
  <2>3. FlatEndpoint(NoEndpoint) = <<>>
    <3>1. NoEndpoint.descriptor = NoDescriptor /\ NoEndpoint.extra = <<>>
      BY DEF NoEndpoint
    <3> QED
      BY <3>1 DEF FlatEndpoint
  <2>4. /\ r \in Outcomes(EndpointDescriptor) /\ r.value = NoEndpoint /\ r.rest = b
    BY <2>1, <2>2, OutcomesTyped
  <2> QED
    BY <2>3, <2>4, ReadsNothing
<1>4. CASE Head(b).type = "endpoint"
  <2>1. /\ extra \in Outcomes(Buffers)
        /\ extra.ok => Reads(Tail(b), extra.value, extra.rest) /\ Settled(extra.rest)
    BY <1>1, SkipReads
  <2>2. CASE ~extra.ok
    <3>1. r = Failed
      BY <1>4, <2>2 DEF usb_parse_endpoint
    <3> QED
      BY <3>1, <1>2, OutcomesTyped DEF Outcomes, Failed
  <2>3. CASE extra.ok
    <3>1. r = Parsed(e, extra.rest)
      BY <1>4, <2>3 DEF usb_parse_endpoint
    <3>2. extra.value \in Buffers /\ extra.rest \in Buffers
      BY <2>1, <2>3, OutcomeFacts
    <3>3. d \in Descriptor
      BY <1>1, <1>2
    <3> HIDE DEF extra, d
    <3>4. e \in EndpointDescriptor /\ e.descriptor = d /\ e.extra = extra.value
      BY <3>2, <3>3 DEF EndpointDescriptor, Buffers
    <3>5. PICK f \in Buffers : /\ f = IF d = NoDescriptor THEN <<>> ELSE <<d>>
                               /\ In(f, <<Head(b)>>)
      <4>1. <<>> \in Buffers /\ <<Head(b)>> \in Buffers
        BY <1>1 DEF Buffers
      <4>2. In(<<>>, <<Head(b)>>) /\ In(<<Head(b)>>, <<Head(b)>>)
        BY <4>1, InItself DEF Buffers
      <4> QED
        BY <4>1, <4>2 DEF d
    <3>6. FlatEndpoint(e) = f \o extra.value
      BY <3>4, <3>5 DEF FlatEndpoint
    <3>7. Reads(b, f, Tail(b))
      <4>1. <<Head(b)>> \in Buffers
        BY <1>1 DEF Buffers
      <4> QED
        BY <1>1, <3>5, <4>1 DEF Reads
    <3>8. Reads(b, f \o extra.value, extra.rest)
      BY <2>1, <2>3, <3>2, <3>7, ReadsOn
    <3> HIDE DEF e
    <3>9. r \in Outcomes(EndpointDescriptor) /\ r.value = e /\ r.rest = extra.rest
      <4>1. PICK v \in EndpointDescriptor, q \in Buffers : v = e /\ q = extra.rest
        BY <3>2, <3>4
      <4>2. r = Parsed(v, q)
        BY <3>1, <4>1
      <4>3. /\ Parsed(v, q) \in Outcomes(EndpointDescriptor)
            /\ Parsed(v, q).value = v /\ Parsed(v, q).rest = q
        BY OutcomesTyped
      <4> QED
        BY <4>1, <4>2, <4>3
    <3> QED
      BY <2>1, <2>3, <3>6, <3>8, <3>9
  <2> QED
    BY <2>2, <2>3
<1> QED
  BY <1>3, <1>4

\* Also at the end of the buffer.
LEMMA NextEndpointReads ==
    ASSUME NEW b \in Buffers, NEW beyond \in BOOLEAN
    PROVE  LET r == NextEndpoint(b, beyond) IN
           /\ r \in Outcomes(EndpointDescriptor)
           /\ r.ok => /\ Reads(b, FlatEndpoint(r.value), r.rest)
                      /\ Settled(b) => Settled(r.rest)
<1> DEFINE r == NextEndpoint(b, beyond)
<1>1. CASE b # <<>>
  BY <1>1, EndpointReads DEF NextEndpoint
<1>2. CASE b = <<>>
  <2>1. NoEndpoint \in EndpointDescriptor /\ FlatEndpoint(NoEndpoint) = <<>>
    <3>1. NoEndpoint.descriptor = NoDescriptor /\ NoEndpoint.extra = <<>>
      BY DEF NoEndpoint
    <3>2. NoDescriptor \in Descriptor
      BY DEF NoDescriptor, Descriptor, Types
    <3> QED
      BY <3>1, <3>2 DEF FlatEndpoint, NoEndpoint, EndpointDescriptor
  <2>2. CASE beyond
    <3>1. r = Parsed(NoEndpoint, b)
      BY <1>2, <2>2 DEF NextEndpoint
    <3>2. /\ r \in Outcomes(EndpointDescriptor) /\ r.value = NoEndpoint /\ r.rest = b
      BY <2>1, <3>1, OutcomesTyped
    <3> QED
      BY <2>1, <3>2, ReadsNothing
  <2>3. CASE ~beyond
    <3>1. r = Failed
      BY <1>2, <2>3 DEF NextEndpoint
    <3>2. r \in Outcomes(EndpointDescriptor) /\ ~r.ok
      BY <3>1 DEF Outcomes, Failed
    <3> QED
      BY <3>2
  <2> QED
    BY <2>2, <2>3
<1> QED
  BY <1>1, <1>2

\* The loop over the endpoints.
EndpointsRound(s, beyond) == Extended(s, NextEndpoint(s.rest, beyond))

EndpointsRun(g, b, n, beyond) ==
    /\ g[0] = Parsed(<<>>, b)
    /\ \A k \in 0 .. n : g[k] \in Outcomes(Seq(EndpointDescriptor))
    /\ \A k \in 1 .. n : k - 1 \in 0 .. n /\ g[k] = EndpointsRound(g[k - 1], beyond)
    /\ Endpoints(b, n, beyond) = g[n]

\* The loop over the endpoints runs through.
LEMMA EndpointsRuns ==
    ASSUME NEW b \in Buffers, NEW n \in Nat, NEW beyond \in BOOLEAN
    PROVE  \E g : EndpointsRun(g, b, n, beyond)
<1> DEFINE V == Seq(EndpointDescriptor)
           S == Outcomes(V)
           start == Parsed(<<>>, b)
           Step(s) == EndpointsRound(s, beyond)
           Round == [k \in 1 .. n |-> [s \in S |-> Step(s)]]
           Upto(h) == h = [k \in 0 .. n |->
                IF k = 0 THEN Parsed(<<>>, b)
                ELSE LET before == h[k - 1]
                     IN Extended(before, NextEndpoint(before.rest, beyond))]
           after == CHOOSE h : Upto(h)
<1>1. <<>> \in V /\ start \in S
  <2>1. <<>> \in V
    OBVIOUS
  <2> HIDE DEF V
  <2> QED
    BY <2>1, OutcomesTyped
<1>2. ASSUME NEW s \in S PROVE Step(s) \in S
  <2>1. PICK next : next = NextEndpoint(s.rest, beyond)
    OBVIOUS
  <2>2. s.rest \in Buffers /\ (s.ok => s.value \in V)
    <3> HIDE DEF V
    <3> QED
      BY OutcomeFacts
  <2>3. next \in Outcomes(EndpointDescriptor)
    BY <2>1, <2>2, NextEndpointReads
  <2>4. next.ok => next.value \in EndpointDescriptor
    BY <2>3, OutcomeFacts
  <2>5. next.rest \in Buffers
    BY <2>3, OutcomeFacts
  <2>6. s.ok /\ next.ok => Append(s.value, next.value) \in V
    BY <2>2, <2>4
  <2>7. Step(s) = IF s.ok /\ next.ok THEN Parsed(Append(s.value, next.value), next.rest) ELSE Failed
    BY <2>1 DEF EndpointsRound, Extended
  <2> HIDE DEF Step, V
  <2> QED
    BY <2>5, <2>6, <2>7, OutcomesTyped DEF Outcomes
<1> HIDE DEF Step, S, V, start
<1>3. Round \in [1 .. n -> [S -> S]] /\ \A k \in 1 .. n : \A s \in S : Round[k][s] = Step(s)
  BY <1>2
<1>4. PICK g \in [0 .. n -> S] : Runs(g, n, S, start, Round)
  <2> HIDE DEF Round
  <2> QED
    BY <1>1, <1>3, LoopRuns
<1> HIDE DEF Round
<1>5. g[0] = start /\ \A k \in 1 .. n : g[k] = Step(g[k - 1])
  BY <1>3, <1>4 DEF Runs
<1>6. \A k \in 0 .. n : k # 0 => k \in 1 .. n
  OBVIOUS
<1>7. Upto(g)
  <2>1. g = [k \in 0 .. n |-> g[k]]
    BY <1>4
  <2> QED
    BY <1>5, <1>6, <2>1 DEF start, Step, EndpointsRound
<1>8. Upto(after)
  BY <1>7
<1>9. Endpoints(b, n, beyond) = after[n]
  BY DEF Endpoints
<1> HIDE DEF after
<1>10. after[0] = start /\ \A k \in 1 .. n : after[k] = Step(after[k - 1])
  <2>1. 0 \in 0 .. n /\ \A k \in 1 .. n : k \in 0 .. n /\ k # 0
    OBVIOUS
  <2> QED
    BY <1>8, <2>1 DEF start, Step, EndpointsRound
<1>11. \A k \in 1 .. n : after[k - 1] \in S => after[k] = Round[k][after[k - 1]]
  BY <1>3, <1>10
<1>12. Runs(after, n, S, start, Round)
  BY <1>1, <1>3, <1>10, <1>11, RunsAlone
<1>13. EndpointsRun(after, b, n, beyond)
  BY <1>9, <1>10, <1>12 DEF Runs, EndpointsRun, S, V, start, Step
<1> QED
  BY <1>13

FlatEndpoints(eps) == FlattenSeq([k \in DOMAIN eps |-> FlatEndpoint(eps[k])])

\* The buffer of endpoints grows with each of them.
LEMMA FlatEndpointsFacts ==
    /\ FlatEndpoints(<<>>) = <<>>
    /\ \A eps \in Seq(EndpointDescriptor) :
         /\ FlatEndpoints(eps) \in Buffers
         /\ \A e \in EndpointDescriptor :
              FlatEndpoints(Append(eps, e)) = FlatEndpoints(eps) \o FlatEndpoint(e)
<1> DEFINE V == EndpointDescriptor
           F == [e \in V |-> FlatEndpoint(e)]
<1>1. F \in [V -> Buffers] /\ \A e \in V : F[e] = FlatEndpoint(e)
  BY FlatEndpointTyped
<1>2. ASSUME NEW eps \in Seq(V) PROVE FlatEndpoints(eps) = Joined(eps, F)
  <2>1. \A k \in DOMAIN eps : FlatEndpoint(eps[k]) = F[eps[k]]
    BY <1>1
  <2> HIDE DEF F
  <2>2. [k \in DOMAIN eps |-> FlatEndpoint(eps[k])] = [k \in DOMAIN eps |-> F[eps[k]]]
    BY <2>1
  <2> QED
    BY <2>2 DEF FlatEndpoints, Joined
<1> HIDE DEF F, V
<1>3. JoinsFrom(F, V)
  BY <1>1, JoinedFacts
<1>4. <<>> \in Seq(V) /\ \A eps \in Seq(V), e \in V : Append(eps, e) \in Seq(V)
  OBVIOUS
<1> QED
  BY <1>1, <1>2, <1>3, <1>4 DEF JoinsFrom, V

\* Any number of endpoints is read from the front of the buffer.
LEMMA EndpointsRead ==
    ASSUME NEW b \in Buffers, NEW n \in Nat, NEW beyond \in BOOLEAN
    PROVE  LET r == Endpoints(b, n, beyond) IN
           /\ r \in Outcomes(Seq(EndpointDescriptor))
           /\ r.ok => /\ Reads(b, FlatEndpoints(r.value), r.rest)
                      /\ Settled(b) => Settled(r.rest)
<1>1. PICK g : EndpointsRun(g, b, n, beyond)
  BY EndpointsRuns
<1> DEFINE Done(s) == s.ok => /\ Reads(b, FlatEndpoints(s.value), s.rest)
                              /\ Settled(b) => Settled(s.rest)
           T == {k \in Nat : k <= n => Done(g[k])}
<1>2. 0 \in T
  <2>1. g[0].value = <<>> /\ g[0].rest = b
    BY <1>1 DEF EndpointsRun, Parsed
  <2> QED
    BY <2>1, FlatEndpointsFacts, ReadsNothing
<1>3. ASSUME NEW j \in T PROVE j + 1 \in T
  <2> SUFFICES ASSUME j + 1 <= n PROVE Done(g[j + 1])
    OBVIOUS
  <2>1. PICK k \in 1 .. n : k = j + 1 /\ k - 1 = j /\ j \in 0 .. n
    OBVIOUS
  <2>2. PICK s, t, next : s = g[j] /\ t = g[k] /\ next = NextEndpoint(s.rest, beyond)
    OBVIOUS
  <2>3. s \in Outcomes(Seq(EndpointDescriptor)) /\ t = EndpointsRound(s, beyond) /\ Done(s)
    BY <1>1, <2>1, <2>2 DEF EndpointsRun
  <2> SUFFICES ASSUME t.ok PROVE Done(t)
    BY <2>1, <2>2
  <2>4. s.ok /\ next.ok /\ t = Parsed(Append(s.value, next.value), next.rest)
    BY <2>2, <2>3 DEF EndpointsRound, Extended, Failed
  <2>5. s.value \in Seq(EndpointDescriptor) /\ s.rest \in Buffers
    BY <2>3, <2>4, OutcomeFacts
  <2>6. /\ next \in Outcomes(EndpointDescriptor)
        /\ Reads(s.rest, FlatEndpoint(next.value), next.rest)
        /\ Settled(s.rest) => Settled(next.rest)
    BY <2>2, <2>4, <2>5, NextEndpointReads
  <2>7. next.value \in EndpointDescriptor /\ next.rest \in Buffers
    BY <2>4, <2>6, OutcomeFacts
  <2>8. t.value = Append(s.value, next.value) /\ t.rest = next.rest
    BY <2>4 DEF Parsed
  <2>9. /\ FlatEndpoints(t.value) = FlatEndpoints(s.value) \o FlatEndpoint(next.value)
        /\ FlatEndpoints(s.value) \in Buffers /\ FlatEndpoint(next.value) \in Buffers
    BY <2>5, <2>7, <2>8, FlatEndpointsFacts, FlatEndpointTyped
  <2>10. Reads(b, FlatEndpoints(s.value), s.rest)
    BY <2>3, <2>4
  <2>11. Reads(b, FlatEndpoints(s.value) \o FlatEndpoint(next.value), next.rest)
    BY <2>6, <2>7, <2>9, <2>10, ReadsOn
  <2> QED
    BY <2>3, <2>4, <2>6, <2>8, <2>9, <2>11
<1>4. n \in T
  <2> HIDE DEF T
  <2> QED
    BY <1>2, <1>3, NumbersByInduction DEF T
<1>5. Done(g[n])
  BY <1>4
<1>6. n \in 0 .. n
  OBVIOUS
<1> QED
  BY <1>1, <1>5, <1>6 DEF EndpointsRun

-----------------------------------------------------------------------------
(* Interfaces and their settings.                                          *)

\* The size of a buffer is at least that of its first descriptor.
LEMMA SizeFacts ==
    ASSUME NEW b \in Buffers
    PROVE  /\ Size(b) \in Nat
           /\ b = <<>> => Size(b) = 0
           /\ b # <<>> => Size(b) >= Head(b).length
<1> DEFINE n == Len(b)
           Round == [k \in 1 .. n |-> [s \in Nat |-> s + b[k].length]]
           Upto(h) == h = [k \in 0 .. n |-> IF k = 0 THEN 0 ELSE h[k - 1] + b[k].length]
           upto == CHOOSE h : Upto(h)
<1>1. n \in Nat /\ \A k \in 1 .. n : b[k].length \in Nat
  <2>1. n \in Nat /\ \A k \in 1 .. n : b[k] \in Descriptor
    BY DEF Buffers
  <2> QED
    BY <2>1 DEF Descriptor
<1> HIDE DEF n
<1>2. /\ Round \in [1 .. n -> [Nat -> Nat]]
      /\ \A k \in 1 .. n : \A s \in Nat : Round[k][s] = s + b[k].length
  BY <1>1
<1>3. PICK g \in [0 .. n -> Nat] : Runs(g, n, Nat, 0, Round)
  <2> HIDE DEF Round
  <2>1. 0 \in Nat
    OBVIOUS
  <2> QED
    BY <1>1, <1>2, <2>1, LoopRuns
<1> HIDE DEF Round
<1>4. g[0] = 0 /\ \A k \in 1 .. n : g[k] = g[k - 1] + b[k].length
  BY <1>2, <1>3 DEF Runs
<1>5. \A k \in 0 .. n : k # 0 => k \in 1 .. n
  BY <1>1
<1>6. Upto(g)
  <2>1. g = [k \in 0 .. n |-> g[k]]
    BY <1>3
  <2> QED
    BY <1>4, <1>5, <2>1
<1>7. Upto(upto)
  BY <1>6
<1>8. Size(b) = upto[n]
  BY DEF Size, n
<1> HIDE DEF upto
<1>9. upto[0] = 0 /\ \A k \in 1 .. n : upto[k] = upto[k - 1] + b[k].length
  <2>1. 0 \in 0 .. n /\ \A k \in 1 .. n : k \in 0 .. n /\ k # 0
    BY <1>1
  <2> QED
    BY <1>7, <2>1
<1> DEFINE T == {k \in Nat : k <= n => upto[k] \in Nat /\ (k >= 1 => upto[k] >= b[1].length)}
<1>10. 0 \in T
  BY <1>9
<1>11. ASSUME NEW j \in T PROVE j + 1 \in T
  <2>1. CASE j + 1 <= n
    <3>1. PICK k \in 1 .. n : k = j + 1 /\ k - 1 = j /\ j \in Nat /\ j <= n
      BY <1>1, <2>1
    <3>2. upto[k] = upto[j] + b[k].length /\ upto[j] \in Nat /\ b[k].length \in Nat
      BY <1>1, <1>9, <3>1
    <3>3. b[1].length \in Nat
      BY <1>1, <3>1
    <3>4. CASE j = 0
      <4>1. k = 1
        BY <3>1, <3>4
      <4> QED
        BY <3>1, <3>2, <4>1
    <3>5. CASE j # 0
      <4>1. upto[j] >= b[1].length
        BY <3>1, <3>5
      <4> QED
        BY <3>1, <3>2, <3>3, <4>1
    <3> QED
      BY <3>4, <3>5
  <2> QED
    BY <2>1
<1>12. n \in T
  <2> HIDE DEF T
  <2> QED
    BY <1>1, <1>10, <1>11, NumbersByInduction DEF T
<1>13. b = <<>> => n = 0
  BY DEF n
<1>14. b # <<>> => n >= 1 /\ Head(b) = b[1]
  BY DEF n, Buffers
<1> QED
  BY <1>1, <1>8, <1>9, <1>12, <1>13, <1>14

LEMMA FlatSettingTyped ==
    ASSUME NEW s \in InterfaceDescriptor
    PROVE  /\ FlatSetting(s) \in Buffers
           /\ FlatSetting(s) = <<s.descriptor>> \o (s.extra \o FlatEndpoints(s.endpoints))
<1>1. /\ s.descriptor \in Descriptor /\ s.extra \in Buffers
      /\ s.endpoints \in Seq(EndpointDescriptor)
  BY DEF InterfaceDescriptor, Buffers
<1>2. <<s.descriptor>> \in Buffers /\ FlatEndpoints(s.endpoints) \in Buffers
  BY <1>1, FlatEndpointsFacts DEF Buffers
<1>3. FlatSetting(s) = (<<s.descriptor>> \o s.extra) \o FlatEndpoints(s.endpoints)
  BY DEF FlatSetting, FlatEndpoints
<1>4. FlatSetting(s) = <<s.descriptor>> \o (s.extra \o FlatEndpoints(s.endpoints))
  <2>1. ASSUME NEW x \in Buffers, NEW y \in Buffers, NEW z \in Buffers
        PROVE  (x \o y) \o z = x \o (y \o z)
    BY ConcatAssociative DEF Buffers
  <2> QED
    BY <1>1, <1>2, <1>3, <2>1
<1>5. s.extra \o FlatEndpoints(s.endpoints) \in Buffers
  BY <1>1, <1>2, ConcatProperties DEF Buffers
<1>6. <<s.descriptor>> \o (s.extra \o FlatEndpoints(s.endpoints)) \in Buffers
  BY <1>2, <1>5, ConcatProperties DEF Buffers
<1> QED
  BY <1>4, <1>6

\* One setting is read from the front of the buffer.
LEMMA AltSettingReads ==
    ASSUME NEW b \in Buffers, b # <<>>, NEW beyond \in BOOLEAN
    PROVE  LET r == AltSetting(b, beyond) IN
           /\ r \in Outcomes(InterfaceDescriptor)
           /\ r.ok => Reads(b, FlatSetting(r.value), r.rest) /\ Settled(r.rest)
<1> DEFINE r == AltSetting(b, beyond)
           extra == Skip(Tail(b))
           endpoints == Endpoints(extra.rest, Head(b).count, beyond)
           With(pointer, found) == [descriptor |-> Head(b), extra |-> extra.value,
                                    endpoint |-> pointer, endpoints |-> found]
<1>1. /\ Head(b) \in Descriptor /\ Tail(b) \in Buffers /\ b = <<Head(b)>> \o Tail(b)
      /\ <<Head(b)>> \in Buffers
  BY DEF Buffers
<1>2. /\ extra \in Outcomes(Buffers)
      /\ extra.ok => Reads(Tail(b), extra.value, extra.rest) /\ Settled(extra.rest)
  BY <1>1, SkipReads
<1>3. CASE r = Failed
  <2>1. r \in Outcomes(InterfaceDescriptor) /\ ~r.ok
    BY <1>3 DEF Outcomes, Failed
  <2> QED
    BY <2>1
<1>4. CASE r # Failed
  <2>1. extra.ok
    BY <1>4 DEF AltSetting
  <2>2. extra.value \in Buffers /\ extra.rest \in Buffers
    BY <1>2, <2>1, OutcomeFacts
  <2>3. Head(b).count \in Nat
    BY <1>1 DEF Descriptor
  <2>4. PICK ends : ends = endpoints
    OBVIOUS
  <2>5. /\ ends \in Outcomes(Seq(EndpointDescriptor))
        /\ ends.ok => Reads(extra.rest, FlatEndpoints(ends.value), ends.rest) /\ Settled(ends.rest)
    BY <1>2, <2>1, <2>2, <2>3, <2>4, EndpointsRead
  <2>6. \E found \in Seq(EndpointDescriptor), rest \in Buffers, pointer \in {"set", "wild"} :
          /\ r = Parsed(With(pointer, found), rest)
          /\ Reads(extra.rest, FlatEndpoints(found), rest) /\ Settled(rest)
    <3>1. CASE extra.rest # <<>> /\ Head(extra.rest).type \in {"config", "device"}
      <4>1. r = Parsed(With("wild", <<>>), extra.rest)
        BY <2>1, <3>1 DEF AltSetting
      <4>2. <<>> \in Seq(EndpointDescriptor) /\ FlatEndpoints(<<>>) = <<>>
        BY FlatEndpointsFacts
      <4>3. Reads(extra.rest, FlatEndpoints(<<>>), extra.rest)
        BY <2>2, <4>2, ReadsNothing
      <4> HIDE DEF r, With, extra
      <4> QED
        BY <1>2, <2>1, <2>2, <4>1, <4>2, <4>3
    <3>2. CASE ~(extra.rest # <<>> /\ Head(extra.rest).type \in {"config", "device"})
      <4>1. ends.ok /\ r = Parsed(With("set", ends.value), ends.rest)
        BY <1>4, <2>1, <2>4, <3>2 DEF AltSetting
      <4>2. ends.value \in Seq(EndpointDescriptor) /\ ends.rest \in Buffers
        <5> HIDE DEF r, With, extra
        <5> QED
          BY <2>5, <4>1, OutcomeFacts
      <4> HIDE DEF r, With, extra
      <4> QED
        BY <2>5, <4>1, <4>2
    <3> QED
      BY <3>1, <3>2
  <2> HIDE DEF extra, r
  <2>7. PICK found \in Seq(EndpointDescriptor), rest \in Buffers, pointer \in {"set", "wild"} :
          /\ r = Parsed(With(pointer, found), rest)
          /\ Reads(extra.rest, FlatEndpoints(found), rest) /\ Settled(rest)
    BY <2>6
  <2>8. PICK s : s = With(pointer, found)
    OBVIOUS
  <2>9. /\ s \in InterfaceDescriptor
        /\ s.descriptor = Head(b) /\ s.extra = extra.value /\ s.endpoints = found
    BY <1>1, <2>2, <2>8 DEF InterfaceDescriptor, Buffers
  <2> HIDE DEF With
  <2>10. r \in Outcomes(InterfaceDescriptor) /\ r.value = s /\ r.rest = rest
    BY <2>7, <2>8, <2>9, OutcomesTyped
  <2>11. FlatEndpoints(found) \in Buffers
    BY FlatEndpointsFacts
  <2>12. Reads(Tail(b), extra.value \o FlatEndpoints(found), rest)
    BY <1>2, <2>1, <2>2, <2>7, <2>11, ReadsOn
  <2>13. Reads(b, <<Head(b)>>, Tail(b))
    BY <1>1, InItself DEF Reads, Buffers
  <2>14. extra.value \o FlatEndpoints(found) \in Buffers
    BY <2>2, <2>11, ConcatProperties DEF Buffers
  <2>15. Reads(b, <<Head(b)>> \o (extra.value \o FlatEndpoints(found)), rest)
    BY <1>1, <2>12, <2>13, <2>14, ReadsOn
  <2>16. FlatSetting(s) = <<Head(b)>> \o (extra.value \o FlatEndpoints(found))
    BY <2>9, FlatSettingTyped
  <2> QED
    BY <2>7, <2>10, <2>15, <2>16 DEF r
<1> QED
  BY <1>3, <1>4

\* The loop over the settings.
SettingsRound(k, s, beyond) ==
    LET follows == IF k = 1 THEN Size(s.rest) >= INTERFACE_DESC_LENGTH ELSE IsAlternate(s.rest)
    IN IF ~s.ok \/ ~follows THEN s ELSE Extended(s, AltSetting(s.rest, beyond))

SettingsRun(g, b, beyond) ==
    /\ g[0] = Parsed(<<>>, b)
    /\ \A k \in 0 .. Len(b) : g[k] \in Outcomes(Seq(InterfaceDescriptor))
    /\ \A k \in 1 .. Len(b) : k - 1 \in 0 .. Len(b) /\ g[k] = SettingsRound(k, g[k - 1], beyond)
    /\ usb_parse_interface(b, beyond) = g[Len(b)]

\* Where another setting is parsed the buffer is not empty.
LEMMA SettingFollows ==
    ASSUME NEW b \in Buffers, NEW k,
           IF k = 1 THEN Size(b) >= INTERFACE_DESC_LENGTH ELSE IsAlternate(b)
    PROVE  b # <<>>
<1>1. Size(b) >= INTERFACE_DESC_LENGTH
  BY DEF IsAlternate
<1> QED
  BY <1>1, SizeFacts DEF INTERFACE_DESC_LENGTH

\* The loop over the settings runs through.
LEMMA SettingsRuns ==
    ASSUME NEW b \in Buffers, NEW beyond \in BOOLEAN
    PROVE  \E g : SettingsRun(g, b, beyond)
<1> DEFINE n == Len(b)
           V == Seq(InterfaceDescriptor)
           S == Outcomes(V)
           start == Parsed(<<>>, b)
           Step(k, s) == SettingsRound(k, s, beyond)
           Round == [k \in 1 .. n |-> [s \in S |-> Step(k, s)]]
           Upto(h) == h = [k \in 0 .. n |->
                IF k = 0 THEN Parsed(<<>>, b)
                ELSE LET before == h[k - 1]
                         follows == IF k = 1 THEN Size(before.rest) >= INTERFACE_DESC_LENGTH
                                    ELSE IsAlternate(before.rest)
                     IN IF ~before.ok \/ ~follows THEN before
                        ELSE Extended(before, AltSetting(before.rest, beyond))]
           after == CHOOSE h : Upto(h)
<1>1. <<>> \in V /\ start \in S /\ n \in Nat
  <2>1. <<>> \in V /\ n \in Nat
    BY DEF Buffers
  <2> HIDE DEF V
  <2> QED
    BY <2>1, OutcomesTyped
<1>2. ASSUME NEW k \in 1 .. n, NEW s \in S PROVE Step(k, s) \in S
  <2>1. PICK next : next = AltSetting(s.rest, beyond)
    OBVIOUS
  <2>2. s.rest \in Buffers /\ (s.ok => s.value \in V)
    <3> HIDE DEF V
    <3> QED
      BY OutcomeFacts
  <2> DEFINE follows == IF k = 1 THEN Size(s.rest) >= INTERFACE_DESC_LENGTH
                        ELSE IsAlternate(s.rest)
  <2>3. Step(k, s) = IF ~s.ok \/ ~follows THEN s
                     ELSE IF next.ok THEN Parsed(Append(s.value, next.value), next.rest) ELSE Failed
    BY <2>1 DEF SettingsRound, Extended
  <2>4. CASE s.ok /\ follows /\ next.ok
    <3>1. s.rest # <<>>
      BY <2>2, <2>4, SettingFollows
    <3>2. next \in Outcomes(InterfaceDescriptor)
      BY <2>1, <2>2, <3>1, AltSettingReads
    <3>3. next.value \in InterfaceDescriptor /\ next.rest \in Buffers
      BY <2>4, <3>2, OutcomeFacts
    <3>4. Append(s.value, next.value) \in V
      BY <2>2, <2>4, <3>3
    <3> HIDE DEF Step, V, follows
    <3> QED
      BY <2>3, <2>4, <3>3, <3>4, OutcomesTyped
  <2>5. CASE ~(s.ok /\ follows /\ next.ok)
    <3> HIDE DEF Step, V, follows
    <3> QED
      BY <2>3, <2>5 DEF Outcomes
  <2> QED
    BY <2>4, <2>5
<1> HIDE DEF Step, S, V, start, n
<1>3. Round \in [1 .. n -> [S -> S]] /\ \A k \in 1 .. n : \A s \in S : Round[k][s] = Step(k, s)
  BY <1>2
<1>4. PICK g \in [0 .. n -> S] : Runs(g, n, S, start, Round)
  <2> HIDE DEF Round
  <2> QED
    BY <1>1, <1>3, LoopRuns
<1> HIDE DEF Round
<1>5. g[0] = start /\ \A k \in 1 .. n : g[k] = Step(k, g[k - 1])
  BY <1>3, <1>4 DEF Runs
<1>6. \A k \in 0 .. n : k # 0 => k \in 1 .. n
  BY <1>1
<1>7. Upto(g)
  <2>1. g = [k \in 0 .. n |-> g[k]]
    BY <1>4
  <2> QED
    BY <1>5, <1>6, <2>1 DEF start, Step, SettingsRound
<1>8. Upto(after)
  BY <1>7
<1>9. usb_parse_interface(b, beyond) = after[n]
  BY DEF usb_parse_interface, n
<1> HIDE DEF after
<1>10. after[0] = start /\ \A k \in 1 .. n : after[k] = Step(k, after[k - 1])
  <2>1. 0 \in 0 .. n /\ \A k \in 1 .. n : k \in 0 .. n /\ k # 0
    BY <1>1
  <2> QED
    BY <1>8, <2>1 DEF start, Step, SettingsRound
<1>11. \A k \in 1 .. n : after[k - 1] \in S => after[k] = Round[k][after[k - 1]]
  BY <1>3, <1>10
<1>12. Runs(after, n, S, start, Round)
  BY <1>1, <1>3, <1>10, <1>11, RunsAlone
<1>13. SettingsRun(after, b, beyond)
  BY <1>9, <1>10, <1>12 DEF Runs, SettingsRun, S, V, start, Step, n
<1> QED
  BY <1>13

\* The buffer of an interface grows with each setting.
LEMMA FlatInterfaceFacts ==
    /\ FlatInterface(<<>>) = <<>>
    /\ \A i \in Seq(InterfaceDescriptor) :
         /\ FlatInterface(i) \in Buffers
         /\ \A s \in InterfaceDescriptor :
              FlatInterface(Append(i, s)) = FlatInterface(i) \o FlatSetting(s)
<1> DEFINE V == InterfaceDescriptor
           F == [s \in V |-> FlatSetting(s)]
<1>1. F \in [V -> Buffers] /\ \A s \in V : F[s] = FlatSetting(s)
  BY FlatSettingTyped
<1>2. ASSUME NEW i \in Seq(V) PROVE FlatInterface(i) = Joined(i, F)
  <2>1. \A k \in DOMAIN i : FlatSetting(i[k]) = F[i[k]]
    BY <1>1
  <2> HIDE DEF F
  <2>2. [k \in DOMAIN i |-> FlatSetting(i[k])] = [k \in DOMAIN i |-> F[i[k]]]
    BY <2>1
  <2> QED
    BY <2>2 DEF FlatInterface, Joined
<1> HIDE DEF F, V
<1>3. JoinsFrom(F, V)
  BY <1>1, JoinedFacts
<1>4. <<>> \in Seq(V) /\ \A i \in Seq(V), s \in V : Append(i, s) \in Seq(V)
  OBVIOUS
<1> QED
  BY <1>1, <1>2, <1>3, <1>4 DEF JoinsFrom, V

\* All settings of an interface are read from the front of the buffer.
LEMMA InterfaceReads ==
    ASSUME NEW b \in Buffers, NEW beyond \in BOOLEAN
    PROVE  LET r == usb_parse_interface(b, beyond) IN
           /\ r \in Outcomes(Seq(InterfaceDescriptor))
           /\ r.ok => /\ Reads(b, FlatInterface(r.value), r.rest)
                      /\ Settled(b) => Settled(r.rest)
<1>1. PICK g : SettingsRun(g, b, beyond)
  BY SettingsRuns
<1> DEFINE n == Len(b)
           Done(s) == s.ok => /\ Reads(b, FlatInterface(s.value), s.rest)
                              /\ Settled(b) => Settled(s.rest)
           T == {k \in Nat : k <= n => Done(g[k])}
<1>2. 0 \in T
  <2>1. g[0].value = <<>> /\ g[0].rest = b
    BY <1>1 DEF SettingsRun, Parsed
  <2> QED
    BY <2>1, FlatInterfaceFacts, ReadsNothing
<1>3. n \in Nat
  BY DEF Buffers
<1>4. ASSUME NEW j \in T PROVE j + 1 \in T
  <2> SUFFICES ASSUME j + 1 <= n PROVE Done(g[j + 1])
    OBVIOUS
  <2>1. PICK k \in 1 .. n : k = j + 1 /\ k - 1 = j /\ j \in 0 .. n
    BY <1>3
  <2>2. PICK s, t, next : s = g[j] /\ t = g[k] /\ next = AltSetting(s.rest, beyond)
    OBVIOUS
  <2>3. s \in Outcomes(Seq(InterfaceDescriptor)) /\ t = SettingsRound(k, s, beyond) /\ Done(s)
    BY <1>1, <2>1, <2>2 DEF SettingsRun
  <2> SUFFICES ASSUME t.ok, t # s PROVE Done(t)
    BY <2>1, <2>2, <2>3
  <2>4. /\ s.ok /\ next.ok /\ t = Parsed(Append(s.value, next.value), next.rest)
        /\ IF k = 1 THEN Size(s.rest) >= INTERFACE_DESC_LENGTH ELSE IsAlternate(s.rest)
    BY <2>2, <2>3 DEF SettingsRound, Extended, Failed
  <2>5. s.value \in Seq(InterfaceDescriptor) /\ s.rest \in Buffers
    BY <2>3, <2>4, OutcomeFacts
  <2>6. s.rest # <<>>
    BY <2>4, <2>5, SettingFollows
  <2>7. /\ next \in Outcomes(InterfaceDescriptor)
        /\ Reads(s.rest, FlatSetting(next.value), next.rest) /\ Settled(next.rest)
    BY <2>2, <2>4, <2>5, <2>6, AltSettingReads
  <2>8. next.value \in InterfaceDescriptor /\ next.rest \in Buffers
    BY <2>4, <2>7, OutcomeFacts
  <2>9. t.value = Append(s.value, next.value) /\ t.rest = next.rest
    BY <2>4 DEF Parsed
  <2>10. /\ FlatInterface(t.value) = FlatInterface(s.value) \o FlatSetting(next.value)
         /\ FlatInterface(s.value) \in Buffers /\ FlatSetting(next.value) \in Buffers
    BY <2>5, <2>8, <2>9, FlatInterfaceFacts, FlatSettingTyped
  <2>11. Reads(b, FlatInterface(s.value), s.rest)
    BY <2>3, <2>4
  <2>12. Reads(b, FlatInterface(s.value) \o FlatSetting(next.value), next.rest)
    BY <2>7, <2>8, <2>10, <2>11, ReadsOn
  <2> QED
    BY <2>7, <2>9, <2>10, <2>12
<1>5. n \in T
  <2> HIDE DEF T
  <2> QED
    BY <1>2, <1>3, <1>4, NumbersByInduction DEF T
<1>6. Done(g[n])
  BY <1>5
<1>7. n \in 0 .. n
  BY <1>3
<1> QED
  BY <1>1, <1>6, <1>7 DEF SettingsRun

-----------------------------------------------------------------------------
(* Configurations.                                                         *)

\* The loop over the interfaces.
InterfacesRound(s, beyond) ==
    LET skipped == Skip(s.rest)
        next == usb_parse_interface(skipped.rest, beyond)
    IN IF s.ok /\ skipped.ok /\ next.ok
       THEN Parsed([extra |-> IF s.value.extra = <<>> THEN skipped.value ELSE s.value.extra,
                    interfaces |-> Append(s.value.interfaces, next.value)], next.rest)
       ELSE Failed

NoInterfacesYet == [extra |-> <<>>, interfaces |-> <<>>]
InterfacesRun(g, b, n, beyond) ==
    /\ g[0] = Parsed(NoInterfacesYet, b)
    /\ \A k \in 0 .. n : g[k] \in Outcomes(ConfigDescriptor)
    /\ \A k \in 1 .. n : k - 1 \in 0 .. n /\ g[k] = InterfacesRound(g[k - 1], beyond)
    /\ Interfaces(b, n, beyond) = g[n]

LEMMA ConfigTyped ==
    /\ NoInterfacesYet \in ConfigDescriptor
    /\ \A c \in ConfigDescriptor :
         c.extra \in Buffers /\ c.interfaces \in Seq(Seq(InterfaceDescriptor))
    /\ \A x \in Buffers, is \in Seq(Seq(InterfaceDescriptor)) :
         /\ [extra |-> x, interfaces |-> is] \in ConfigDescriptor
         /\ [extra |-> x, interfaces |-> is].extra = x
         /\ [extra |-> x, interfaces |-> is].interfaces = is
  BY DEF NoInterfacesYet, ConfigDescriptor, Buffers

\* A round of the loop over the interfaces has an outcome.
LEMMA InterfacesRoundTyped ==
    ASSUME NEW s \in Outcomes(ConfigDescriptor), NEW beyond \in BOOLEAN
    PROVE  InterfacesRound(s, beyond) \in Outcomes(ConfigDescriptor)
<1>1. PICK skipped : skipped = Skip(s.rest)
  OBVIOUS
<1>2. PICK next : next = usb_parse_interface(skipped.rest, beyond)
  OBVIOUS
<1>3. s.rest \in Buffers /\ (s.ok => s.value \in ConfigDescriptor)
  BY OutcomeFacts
<1>4. skipped \in Outcomes(Buffers)
  BY <1>1, <1>3, SkipReads
<1>5. skipped.rest \in Buffers /\ (skipped.ok => skipped.value \in Buffers)
  BY <1>4, OutcomeFacts
<1>6. next \in Outcomes(Seq(InterfaceDescriptor))
  BY <1>2, <1>5, InterfaceReads
<1>7. next.rest \in Buffers /\ (next.ok => next.value \in Seq(InterfaceDescriptor))
  BY <1>6, OutcomeFacts
<1>8. CASE s.ok /\ skipped.ok /\ next.ok
  <2>1. PICK x, is : /\ x = IF s.value.extra = <<>> THEN skipped.value ELSE s.value.extra
                     /\ is = Append(s.value.interfaces, next.value)
    OBVIOUS
  <2>2. s.value.extra \in Buffers /\ s.value.interfaces \in Seq(Seq(InterfaceDescriptor))
    BY <1>3, <1>8, ConfigTyped
  <2>3. x \in Buffers /\ is \in Seq(Seq(InterfaceDescriptor))
    BY <1>5, <1>7, <1>8, <2>1, <2>2
  <2>4. [extra |-> x, interfaces |-> is] \in ConfigDescriptor
    BY <2>3, ConfigTyped
  <2>5. InterfacesRound(s, beyond) = Parsed([extra |-> x, interfaces |-> is], next.rest)
    BY <1>1, <1>2, <1>8, <2>1 DEF InterfacesRound
  <2> QED
    BY <1>7, <2>4, <2>5, OutcomesTyped
<1>9. CASE ~(s.ok /\ skipped.ok /\ next.ok)
  <2>1. InterfacesRound(s, beyond) = Failed
    BY <1>1, <1>2, <1>9 DEF InterfacesRound
  <2> QED
    BY <2>1 DEF Outcomes
<1> QED
  BY <1>8, <1>9

\* The loop over the interfaces runs through.
LEMMA InterfacesRuns ==
    ASSUME NEW b \in Buffers, NEW n \in Nat, NEW beyond \in BOOLEAN
    PROVE  \E g : InterfacesRun(g, b, n, beyond)
<1> DEFINE S == Outcomes(ConfigDescriptor)
           start == Parsed(NoInterfacesYet, b)
           Step(s) == InterfacesRound(s, beyond)
           Round == [k \in 1 .. n |-> [s \in S |-> Step(s)]]
           Upto(h) == h = [k \in 0 .. n |->
                IF k = 0 THEN Parsed([extra |-> <<>>, interfaces |-> <<>>], b)
                ELSE LET before == h[k - 1]
                         skipped == Skip(before.rest)
                         next == usb_parse_interface(skipped.rest, beyond)
                     IN IF before.ok /\ skipped.ok /\ next.ok
                        THEN Parsed([extra |-> IF before.value.extra = <<>> THEN skipped.value
                                               ELSE before.value.extra,
                                     interfaces |-> Append(before.value.interfaces, next.value)],
                                    next.rest)
                        ELSE Failed]
           after == CHOOSE h : Upto(h)
<1>1. start \in S
  BY ConfigTyped, OutcomesTyped
<1>2. \A s \in S : Step(s) \in S
  BY InterfacesRoundTyped
<1> HIDE DEF Step, S, start
<1>3. Round \in [1 .. n -> [S -> S]] /\ \A k \in 1 .. n : \A s \in S : Round[k][s] = Step(s)
  BY <1>2
<1>4. PICK g \in [0 .. n -> S] : Runs(g, n, S, start, Round)
  <2> HIDE DEF Round
  <2> QED
    BY <1>1, <1>3, LoopRuns
<1> HIDE DEF Round
<1>5. g[0] = start /\ \A k \in 1 .. n : g[k] = Step(g[k - 1])
  BY <1>3, <1>4 DEF Runs
<1>6. \A k \in 0 .. n : k # 0 => k \in 1 .. n
  OBVIOUS
<1>7. Upto(g)
  <2>1. g = [k \in 0 .. n |-> g[k]]
    BY <1>4
  <2> QED
    BY <1>5, <1>6, <2>1 DEF start, Step, InterfacesRound, NoInterfacesYet
<1>8. Upto(after)
  BY <1>7
<1>9. Interfaces(b, n, beyond) = after[n]
  BY DEF Interfaces
<1> HIDE DEF after
<1>10. after[0] = start /\ \A k \in 1 .. n : after[k] = Step(after[k - 1])
  <2>1. 0 \in 0 .. n /\ \A k \in 1 .. n : k \in 0 .. n /\ k # 0
    OBVIOUS
  <2> QED
    BY <1>8, <2>1 DEF start, Step, InterfacesRound, NoInterfacesYet
<1>11. \A k \in 1 .. n : after[k - 1] \in S => after[k] = Round[k][after[k - 1]]
  BY <1>3, <1>10
<1>12. Runs(after, n, S, start, Round)
  BY <1>1, <1>3, <1>10, <1>11, RunsAlone
<1>13. InterfacesRun(after, b, n, beyond)
  BY <1>9, <1>10, <1>12 DEF Runs, InterfacesRun, S, start, Step
<1> QED
  BY <1>13

FlatInterfaces(is) == FlattenSeq([k \in DOMAIN is |-> FlatInterface(is[k])])

\* The buffer of the interfaces grows with each of them.
LEMMA FlatInterfacesFacts ==
    /\ FlatInterfaces(<<>>) = <<>>
    /\ \A is \in Seq(Seq(InterfaceDescriptor)) :
         /\ FlatInterfaces(is) \in Buffers
         /\ \A i \in Seq(InterfaceDescriptor) :
              FlatInterfaces(Append(is, i)) = FlatInterfaces(is) \o FlatInterface(i)
<1> DEFINE V == Seq(InterfaceDescriptor)
           F == [i \in V |-> FlatInterface(i)]
<1>1. F \in [V -> Buffers] /\ \A i \in V : F[i] = FlatInterface(i)
  BY FlatInterfaceFacts
<1>2. ASSUME NEW is \in Seq(V) PROVE FlatInterfaces(is) = Joined(is, F)
  <2>1. \A k \in DOMAIN is : FlatInterface(is[k]) = F[is[k]]
    BY <1>1
  <2> HIDE DEF F
  <2>2. [k \in DOMAIN is |-> FlatInterface(is[k])] = [k \in DOMAIN is |-> F[is[k]]]
    BY <2>1
  <2> QED
    BY <2>2 DEF FlatInterfaces, Joined
<1> HIDE DEF F, V
<1>3. JoinsFrom(F, V)
  BY <1>1, JoinedFacts
<1>4. <<>> \in Seq(V) /\ \A is \in Seq(V), i \in V : Append(is, i) \in Seq(V)
  OBVIOUS
<1> QED
  BY <1>1, <1>2, <1>3, <1>4 DEF JoinsFrom, V

LEMMA FlatTyped ==
    ASSUME NEW c \in ConfigDescriptor
    PROVE  Flat(c) \in Buffers /\ Flat(c) = c.extra \o FlatInterfaces(c.interfaces)
<1>1. c.extra \in Buffers /\ FlatInterfaces(c.interfaces) \in Buffers
  BY ConfigTyped, FlatInterfacesFacts
<1>2. Flat(c) = c.extra \o FlatInterfaces(c.interfaces)
  BY DEF Flat, FlatInterfaces
<1> QED
  BY <1>1, <1>2, ConcatProperties DEF Buffers

\* From the second round on there is nothing to skip.
InterfacesDone(k, s, b) ==
    s.ok => /\ Reads(b, Flat(s.value), s.rest)
            /\ k = 0 => s.value = NoInterfacesYet
            /\ k # 0 => Settled(s.rest)

\* A round reads on; only before the first interface something is skipped.
LEMMA InterfacesRoundReads ==
    ASSUME NEW b \in Buffers, NEW beyond \in BOOLEAN, NEW j \in Nat,
           NEW s \in Outcomes(ConfigDescriptor), InterfacesDone(j, s, b),
           NEW t, t = InterfacesRound(s, beyond), t.ok
    PROVE  Reads(b, Flat(t.value), t.rest) /\ Settled(t.rest)
<1>1. PICK skipped : skipped = Skip(s.rest)
  OBVIOUS
<1>2. PICK next : next = usb_parse_interface(skipped.rest, beyond)
  OBVIOUS
<1>3. PICK x, is : /\ x = IF s.value.extra = <<>> THEN skipped.value ELSE s.value.extra
                   /\ is = Append(s.value.interfaces, next.value)
  OBVIOUS
<1>4. /\ s.ok /\ skipped.ok /\ next.ok
      /\ t = Parsed([extra |-> x, interfaces |-> is], next.rest)
  BY <1>1, <1>2, <1>3 DEF InterfacesRound, Failed
<1>5. s.rest \in Buffers /\ s.value \in ConfigDescriptor
  BY <1>4, OutcomeFacts
<1>6. /\ skipped \in Outcomes(Buffers)
      /\ Reads(s.rest, skipped.value, skipped.rest) /\ Settled(skipped.rest)
  BY <1>1, <1>4, <1>5, SkipReads
<1>7. skipped.rest \in Buffers /\ skipped.value \in Buffers
  BY <1>4, <1>6, OutcomeFacts
<1>8. /\ next \in Outcomes(Seq(InterfaceDescriptor))
      /\ Reads(skipped.rest, FlatInterface(next.value), next.rest) /\ Settled(next.rest)
  BY <1>2, <1>4, <1>6, <1>7, InterfaceReads
<1>9. next.rest \in Buffers /\ next.value \in Seq(InterfaceDescriptor)
  BY <1>4, <1>8, OutcomeFacts
<1>10. PICK old, flat, new : /\ old = s.value.interfaces /\ flat = FlatInterfaces(old)
                             /\ new = FlatInterface(next.value)
  OBVIOUS
<1>11. /\ s.value.extra \in Buffers /\ old \in Seq(Seq(InterfaceDescriptor))
       /\ flat \in Buffers /\ new \in Buffers /\ Flat(s.value) = s.value.extra \o flat
       /\ Flat(s.value) \in Buffers
  BY <1>5, <1>9, <1>10, ConfigTyped, FlatInterfacesFacts, FlatInterfaceFacts, FlatTyped
<1>12. x \o flat = Flat(s.value) \o skipped.value
  <2>1. CASE j = 0
    <3>1. s.value = NoInterfacesYet
      BY <1>4, <2>1 DEF InterfacesDone
    <3>2. s.value.extra = <<>> /\ old = <<>>
      BY <1>10, <3>1 DEF NoInterfacesYet
    <3>3. flat = <<>> /\ x = skipped.value
      BY <1>3, <1>10, <3>2, FlatInterfacesFacts
    <3>4. x \o <<>> = x /\ <<>> \o skipped.value = skipped.value /\ <<>> \o <<>> = <<>>
      BY <1>7, <3>3, ConcatEmptySeq DEF Buffers
    <3> QED
      BY <1>11, <3>2, <3>3, <3>4
  <2>2. CASE j # 0
    <3>1. Settled(s.rest)
      BY <1>4, <2>2 DEF InterfacesDone
    <3>2. skipped = Parsed(<<>>, s.rest)
      BY <1>1, <1>5, <3>1, SkipNothing
    <3>3. skipped.value = <<>>
      BY <3>2 DEF Parsed
    <3>4. x = s.value.extra
      BY <1>3, <3>3
    <3>5. Flat(s.value) \o <<>> = Flat(s.value)
      BY <1>11, ConcatEmptySeq DEF Buffers
    <3> QED
      BY <1>11, <3>3, <3>4, <3>5
  <2> QED
    BY <2>1, <2>2
<1>13. x \in Buffers /\ is \in Seq(Seq(InterfaceDescriptor))
  BY <1>3, <1>7, <1>9, <1>10, <1>11
<1>14. PICK c \in ConfigDescriptor : /\ c = [extra |-> x, interfaces |-> is]
                                     /\ c.extra = x /\ c.interfaces = is
  BY <1>13, ConfigTyped
<1>15. t.value = c /\ t.rest = next.rest
  BY <1>4, <1>14 DEF Parsed
<1>16. Flat(c) = (Flat(s.value) \o skipped.value) \o new
  <2>1. FlatInterfaces(is) = flat \o new
    BY <1>3, <1>9, <1>10, <1>11, FlatInterfacesFacts
  <2>2. Flat(c) = x \o (flat \o new)
    BY <1>14, <2>1, FlatTyped
  <2>3. (x \o flat) \o new = x \o (flat \o new)
    BY <1>11, <1>13, ConcatAssociative DEF Buffers
  <2> QED
    BY <1>12, <2>2, <2>3
<1>17. Reads(b, Flat(s.value), s.rest)
  BY <1>4 DEF InterfacesDone
<1>18. Reads(b, Flat(s.value) \o skipped.value, skipped.rest)
  BY <1>6, <1>7, <1>11, <1>17, ReadsOn
<1>19. Flat(s.value) \o skipped.value \in Buffers
  BY <1>7, <1>11, ConcatProperties DEF Buffers
<1>20. Reads(b, (Flat(s.value) \o skipped.value) \o new, next.rest)
  BY <1>8, <1>9, <1>10, <1>11, <1>18, <1>19, ReadsOn
<1> QED
  BY <1>8, <1>15, <1>16, <1>20

\* Any number of interfaces is read from the front of the buffer.
LEMMA InterfacesRead ==
    ASSUME NEW b \in Buffers, NEW n \in Nat, NEW beyond \in BOOLEAN
    PROVE  LET r == Interfaces(b, n, beyond) IN
           /\ r \in Outcomes(ConfigDescriptor)
           /\ r.ok => Reads(b, Flat(r.value), r.rest)
<1>1. PICK g : InterfacesRun(g, b, n, beyond)
  BY InterfacesRuns
<1> DEFINE T == {k \in Nat : k <= n => InterfacesDone(k, g[k], b)}
<1>2. 0 \in T
  <2>1. g[0].value = NoInterfacesYet /\ g[0].rest = b
    BY <1>1 DEF InterfacesRun, Parsed
  <2>2. Flat(NoInterfacesYet) = <<>>
    <3>1. NoInterfacesYet.extra = <<>> /\ NoInterfacesYet.interfaces = <<>>
      BY DEF NoInterfacesYet
    <3>2. Flat(NoInterfacesYet) = <<>> \o <<>>
      BY <3>1, ConfigTyped, FlatTyped, FlatInterfacesFacts
    <3>3. <<>> \o <<>> = <<>>
      OBVIOUS
    <3> QED
      BY <3>2, <3>3
  <2>3. InterfacesDone(0, g[0], b)
    BY <2>1, <2>2, ReadsNothing DEF InterfacesDone
  <2> QED
    BY <2>3
<1>3. ASSUME NEW j \in T PROVE j + 1 \in T
  <2> SUFFICES ASSUME j + 1 <= n PROVE InterfacesDone(j + 1, g[j + 1], b)
    OBVIOUS
  <2>1. PICK k \in 1 .. n : k = j + 1 /\ k - 1 = j /\ j \in 0 .. n /\ j \in Nat /\ k # 0
    OBVIOUS
  <2>2. PICK s, t : s = g[j] /\ t = g[k]
    OBVIOUS
  <2>3. s \in Outcomes(ConfigDescriptor) /\ t = InterfacesRound(s, beyond)
    BY <1>1, <2>1, <2>2 DEF InterfacesRun
  <2>4. InterfacesDone(j, s, b)
    BY <2>1, <2>2
  <2>5. t.ok => Reads(b, Flat(t.value), t.rest) /\ Settled(t.rest)
    BY <2>1, <2>3, <2>4, InterfacesRoundReads
  <2>6. InterfacesDone(k, t, b)
    BY <2>1, <2>5 DEF InterfacesDone
  <2> QED
    BY <2>1, <2>2, <2>6
<1>4. n \in T
  <2> HIDE DEF T
  <2> QED
    BY <1>2, <1>3, NumbersByInduction DEF T
<1>5. InterfacesDone(n, g[n], b) /\ n \in 0 .. n
  BY <1>4
<1> QED
  BY <1>1, <1>5 DEF InterfacesRun, InterfacesDone

\* What is kept of a configuration is in what was sent, in order: for every
\* sequence of descriptors, whatever their types and their numbers of
\* interfaces and endpoints (descriptors.c).  Their lengths are the true ones
\* or less than 2, as in all buffers here.
THEOREM ConfigurationReads ==
    ASSUME NEW b \in Buffers, b # <<>>, NEW beyond \in BOOLEAN
    PROVE  LET r == usb_parse_configuration(b, beyond) IN
           r.ok => IsSubsequenceOf(Flat(r.value), Tail(b))
<1> DEFINE r == usb_parse_configuration(b, beyond)
<1> SUFFICES ASSUME r.ok PROVE IsSubsequenceOf(Flat(r.value), Tail(b))
  OBVIOUS
<1>1. Tail(b) \in Buffers /\ Head(b) \in Descriptor
  BY DEF Buffers
<1>2. Head(b).count \in Nat
  BY <1>1 DEF Descriptor
<1>3. r = Interfaces(Tail(b), Head(b).count, beyond)
  BY DEF usb_parse_configuration, Failed
<1> HIDE DEF r
<1>4. r \in Outcomes(ConfigDescriptor) /\ Reads(Tail(b), Flat(r.value), r.rest)
  BY <1>1, <1>2, <1>3, InterfacesRead
<1>5. r.value \in ConfigDescriptor /\ r.rest \in Buffers
  BY <1>4, OutcomeFacts
<1>6. Flat(r.value) \in Buffers
  BY <1>5, FlatTyped
<1>7. PICK p \in Buffers : Tail(b) = p \o r.rest /\ In(Flat(r.value), p)
  BY <1>4 DEF Reads
<1>8. In(<<>>, r.rest) /\ <<>> \in Buffers
  BY <1>5, InItself DEF Buffers
<1>9. In(Flat(r.value) \o <<>>, p \o r.rest)
  BY <1>5, <1>6, <1>7, <1>8, InBoth DEF Buffers
<1>10. Flat(r.value) \o <<>> = Flat(r.value)
  BY <1>6, ConcatEmptySeq DEF Buffers
<1> QED
  BY <1>1, <1>6, <1>7, <1>9, <1>10, TakenAll DEF Buffers, r

-----------------------------------------------------------------------------
(* Reading back.                                                           *)

\* The first elements of a sequence, one more each time.
LEMMA PrefixGrows ==
    ASSUME NEW V, NEW xs \in Seq(V)
    PROVE  /\ SubSeq(xs, 1, 0) = <<>> /\ SubSeq(xs, 1, Len(xs)) = xs
           /\ \A k \in 1 .. Len(xs) : SubSeq(xs, 1, k) = Append(SubSeq(xs, 1, k - 1), xs[k])
<1>1. SubSeq(xs, 1, 0) = <<>>
  BY SubSeqEmpty
<1>2. ASSUME NEW k \in 1 .. Len(xs)
      PROVE  SubSeq(xs, 1, k) = Append(SubSeq(xs, 1, k - 1), xs[k])
  <2>1. Len(xs) \in Nat /\ 1 \in 1 .. Len(xs) /\ k \in 1 .. Len(xs) /\ xs[k] \in V
    OBVIOUS
  <2>2. SubSeq(xs, 1, k) = SubSeq(xs, 1, k - 1) \o <<xs[k]>>
    BY <2>1, SubSeqRecursiveSecond
  <2>3. PICK before : before = SubSeq(xs, 1, k - 1)
    OBVIOUS
  <2>4. before \in Seq(V)
    <3>1. \A i \in 1 .. k - 1 : xs[i] \in V
      BY <2>1
    <3> QED
      BY <2>1, <2>3, <3>1, SubSeqProperties
  <2>5. Append(before, xs[k]) = before \o <<xs[k]>>
    BY <2>1, <2>4, AppendIsConcat
  <2> QED
    BY <2>2, <2>3, <2>5
<1> QED
  BY <1>1, <1>2, SubSeqFull

\* A descriptor in front of a buffer.
LEMMA FirstOne ==
    ASSUME NEW d \in Descriptor, NEW u \in Buffers
    PROVE  /\ <<d>> \o u \in Buffers /\ <<d>> \o u # <<>>
           /\ Head(<<d>> \o u) = d /\ Tail(<<d>> \o u) = u
<1> DEFINE b == <<d>> \o u
<1>1. /\ b \in Buffers /\ Len(b) = 1 + Len(u) /\ Len(u) \in Nat
      /\ \A i \in 1 .. 1 + Len(u) : b[i] = IF i <= 1 THEN d ELSE u[i - 1]
  <2>1. <<d>> \in Buffers /\ Len(<<d>>) = 1 /\ <<d>>[1] = d
    BY DEF Buffers
  <2>2. /\ b \in Buffers /\ Len(b) = Len(<<d>>) + Len(u)
        /\ \A i \in 1 .. Len(<<d>>) + Len(u) : b[i] =
             IF i <= Len(<<d>>) THEN <<d>>[i] ELSE u[i - Len(<<d>>)]
    BY <2>1, ConcatProperties DEF Buffers
  <2>3. Len(u) \in Nat
    BY DEF Buffers
  <2>4. ASSUME NEW i \in 1 .. 1 + Len(u) PROVE b[i] = IF i <= 1 THEN d ELSE u[i - 1]
    <3>1. i \in 1 .. Len(<<d>>) + Len(u) /\ (i <= 1 => i = 1)
      BY <2>1, <2>3
    <3> QED
      BY <2>1, <2>2, <3>1
  <2> QED
    BY <2>1, <2>2, <2>3, <2>4
<1> HIDE DEF b
<1>2. b # <<>> /\ Head(b) = b[1] /\ b[1] = d
  BY <1>1 DEF Buffers
<1>3. Tail(b) \in Buffers /\ Len(Tail(b)) = Len(u)
      /\ \A i \in 1 .. Len(Tail(b)) : Tail(b)[i] = b[i + 1]
  <2>1. /\ Tail(b) \in Buffers /\ Len(Tail(b)) = Len(b) - 1
        /\ \A i \in 1 .. Len(Tail(b)) : Tail(b)[i] = b[i + 1]
    BY <1>1, <1>2, HeadTailProperties DEF Buffers
  <2> QED
    BY <1>1, <2>1
<1>4. ASSUME NEW i \in 1 .. Len(u) PROVE Tail(b)[i] = u[i]
  <2>1. i + 1 \in 1 .. 1 + Len(u) /\ ~(i + 1 <= 1) /\ (i + 1) - 1 = i
    BY <1>1
  <2> QED
    BY <1>1, <1>3, <2>1
<1>5. Tail(b) = u
  BY <1>3, <1>4, SeqEqual DEF Buffers
<1> QED
  BY <1>1, <1>2, <1>5 DEF b

LEMMA Associates ==
    ASSUME NEW x \in Buffers, NEW y \in Buffers, NEW z \in Buffers
    PROVE  (x \o y) \o z = x \o (y \o z)
  BY ConcatAssociative DEF Buffers

\* A sound endpoint is read back, whatever settled buffer follows it.
LEMMA EndpointBack ==
    ASSUME NEW e \in EndpointDescriptor, IsEndpoint(e), NEW t \in Buffers, Settled(t)
    PROVE  LET b == FlatEndpoint(e) \o t IN
           /\ b \in Buffers /\ b # <<>> /\ Settled(b) /\ Head(b).type = "endpoint"
           /\ usb_parse_endpoint(b) = Parsed(e, t)
<1> DEFINE b == FlatEndpoint(e) \o t
<1>1. PICK d, x : d = e.descriptor /\ x = e.extra
  OBVIOUS
<1>2. /\ d \in Descriptor /\ x \in Buffers /\ d.length \in Nat
      /\ d.type = "endpoint" /\ d.length >= ENDPOINT_DESC_LENGTH /\ IsExtra(x)
  <2>1. d \in Descriptor /\ x \in Buffers
    BY <1>1 DEF EndpointDescriptor, Buffers
  <2> QED
    BY <1>1, <2>1 DEF IsEndpoint, Descriptor
<1>3. FlatEndpoint(e) = <<d>> \o x
  <2>1. NoDescriptor.type = "none"
    BY DEF NoDescriptor
  <2>2. d # NoDescriptor
    BY <1>2, <2>1
  <2> QED
    BY <1>1, <2>2 DEF FlatEndpoint
<1>4. b = <<d>> \o (x \o t)
  <2>1. <<d>> \in Buffers
    BY <1>2 DEF Buffers
  <2> QED
    BY <1>2, <1>3, <2>1, Associates
<1>5. x \o t \in Buffers
  BY <1>2, ConcatProperties DEF Buffers
<1> HIDE DEF b
<1>6. b \in Buffers /\ b # <<>> /\ Head(b) = d /\ Tail(b) = x \o t
  BY <1>2, <1>4, <1>5, FirstOne
<1>7. Skip(Tail(b)) = Parsed(x, t)
  BY <1>2, <1>6, SkipExtra
<1>8. Skip(Tail(b)).ok /\ Skip(Tail(b)).value = x /\ Skip(Tail(b)).rest = t
  BY <1>7 DEF Parsed
<1>9. usb_parse_endpoint(b) = Parsed([descriptor |-> d, extra |-> x], t)
  BY <1>2, <1>6, <1>8 DEF usb_parse_endpoint
<1>10. e = [descriptor |-> d, extra |-> x]
  BY <1>1 DEF EndpointDescriptor
<1>11. Settled(b)
  BY <1>2, <1>6 DEF Settled, Proper, ENDPOINT_DESC_LENGTH, DESC_HEADER_LENGTH
<1> QED
  BY <1>2, <1>6, <1>9, <1>10, <1>11 DEF b

\* So are sound endpoints, if as many are expected.
LEMMA EndpointsBack ==
    ASSUME NEW eps \in Seq(EndpointDescriptor), \A k \in 1 .. Len(eps) : IsEndpoint(eps[k]),
           NEW t \in Buffers, Settled(t), NEW beyond \in BOOLEAN
    PROVE  LET b == FlatEndpoints(eps) \o t IN
           /\ b \in Buffers /\ Settled(b)
           /\ eps # <<>> => b # <<>> /\ Head(b).type = "endpoint"
           /\ Endpoints(b, Len(eps), beyond) = Parsed(eps, t)
<1> DEFINE n == Len(eps)
           b == FlatEndpoints(eps) \o t
           parts == [k \in DOMAIN eps |-> FlatEndpoint(eps[k])]
<1>1. n \in Nat /\ DOMAIN eps = 1 .. n /\ \A k \in 1 .. n : eps[k] \in EndpointDescriptor
  OBVIOUS
<1>2. parts \in Seq(Buffers) /\ Len(parts) = n /\ \A k \in 1 .. n : parts[k] = FlatEndpoint(eps[k])
  <2>1. \A k \in 1 .. n : FlatEndpoint(eps[k]) \in Buffers
    BY <1>1, FlatEndpointTyped
  <2> HIDE DEF n
  <2> QED
    BY <1>1, <2>1
<1>3. b = FlattenSeq(parts) \o t
  BY DEF FlatEndpoints
<1> HIDE DEF parts
<1>4. PICK l : Leaves(l, parts, t, Descriptor)
  BY <1>2, FlattenLeaves DEF Buffers
<1> HIDE DEF b
<1>5. /\ \A k \in 1 .. n + 1 : l[k] \in Buffers
      /\ l[1] = b /\ l[n + 1] = t
      /\ \A k \in 1 .. n : k + 1 \in 1 .. n + 1 /\ l[k] = FlatEndpoint(eps[k]) \o l[k + 1]
  BY <1>2, <1>3, <1>4 DEF Leaves, Buffers
<1> HIDE DEF n
<1>6. \A k \in 1 .. n + 1 : Settled(l[k])
  <2> DEFINE T == {k \in Nat : k <= n => Settled(l[(n + 1) - k])}
  <2>1. 0 \in T
    <3>1. (n + 1) - 0 = n + 1
      BY <1>1
    <3> QED
      BY <1>5, <3>1
  <2>2. ASSUME NEW j \in T PROVE j + 1 \in T
    <3>1. CASE j + 1 <= n
      <4>1. PICK k \in 1 .. n : k = (n + 1) - (j + 1) /\ k + 1 = (n + 1) - j /\ j <= n
        BY <1>1, <3>1
      <4>2. Settled(l[k + 1]) /\ l[k + 1] \in Buffers
        BY <1>5, <4>1
      <4>3. eps[k] \in EndpointDescriptor /\ IsEndpoint(eps[k])
        BY <1>1 DEF n
      <4>4. Settled(FlatEndpoint(eps[k]) \o l[k + 1])
        BY <4>2, <4>3, EndpointBack
      <4>5. Settled(l[(n + 1) - (j + 1)])
        BY <1>5, <4>1, <4>4
      <4> QED
        BY <4>5
    <3> QED
      BY <3>1
  <2>3. \A k \in Nat : k \in T
    <3> HIDE DEF T
    <3> QED
      BY <2>1, <2>2, NumbersByInduction DEF T
  <2>4. ASSUME NEW k \in 1 .. n + 1 PROVE Settled(l[k])
    <3>1. (n + 1) - k \in Nat /\ (n + 1) - k <= n /\ (n + 1) - ((n + 1) - k) = k
      BY <1>1
    <3> QED
      BY <2>3, <3>1
  <2> QED
    BY <2>4
<1>7. ASSUME NEW k \in 1 .. n
      PROVE  /\ usb_parse_endpoint(l[k]) = Parsed(eps[k], l[k + 1])
             /\ l[k] # <<>> /\ Head(l[k]).type = "endpoint"
  <2>1. l[k + 1] \in Buffers /\ Settled(l[k + 1]) /\ l[k] = FlatEndpoint(eps[k]) \o l[k + 1]
    BY <1>5, <1>6
  <2>2. eps[k] \in EndpointDescriptor /\ IsEndpoint(eps[k])
    BY <1>1 DEF n
  <2> QED
    BY <2>1, <2>2, EndpointBack
<1>8. b \in Buffers
  <2>1. 1 \in 1 .. n + 1
    BY <1>1
  <2> QED
    BY <1>5, <2>1
<1>9. PICK g : EndpointsRun(g, b, n, beyond)
  BY <1>1, <1>8, EndpointsRuns
<1>10. SubSeq(eps, 1, 0) = <<>> /\ SubSeq(eps, 1, n) = eps
       /\ \A k \in 1 .. n : SubSeq(eps, 1, k) = Append(SubSeq(eps, 1, k - 1), eps[k])
  BY PrefixGrows DEF n
<1> DEFINE T == {k \in Nat : k <= n => g[k] = Parsed(SubSeq(eps, 1, k), l[k + 1])}
<1>11. 0 \in T
  <2>1. g[0] = Parsed(<<>>, b) /\ 0 + 1 = 1
    BY <1>9 DEF EndpointsRun
  <2> QED
    BY <1>5, <1>10, <2>1
<1>12. ASSUME NEW j \in T PROVE j + 1 \in T
  <2>1. CASE j + 1 <= n
    <3>1. PICK k \in 1 .. n : k = j + 1 /\ k - 1 = j /\ j <= n /\ j \in Nat
      BY <1>1, <2>1
    <3>2. g[j] = Parsed(SubSeq(eps, 1, j), l[k]) /\ g[k] = EndpointsRound(g[j], beyond)
      BY <1>9, <3>1 DEF EndpointsRun
    <3>3. g[j].ok /\ g[j].value = SubSeq(eps, 1, j) /\ g[j].rest = l[k]
      BY <3>2 DEF Parsed
    <3>4. NextEndpoint(g[j].rest, beyond) = Parsed(eps[k], l[k + 1])
      BY <1>7, <3>3 DEF NextEndpoint
    <3>5. PICK next : next = NextEndpoint(g[j].rest, beyond)
      OBVIOUS
    <3>6. next.ok /\ next.value = eps[k] /\ next.rest = l[k + 1]
      BY <3>4, <3>5 DEF Parsed
    <3>7. g[k] = Parsed(Append(SubSeq(eps, 1, j), eps[k]), l[k + 1])
      BY <3>2, <3>3, <3>5, <3>6 DEF EndpointsRound, Extended
    <3>8. g[k] = Parsed(SubSeq(eps, 1, k), l[k + 1])
      BY <1>10, <3>1, <3>7
    <3> QED
      BY <3>1, <3>8
  <2> QED
    BY <2>1
<1>13. n \in T
  <2> HIDE DEF T
  <2> QED
    BY <1>1, <1>11, <1>12, NumbersByInduction DEF T
<1>14. Endpoints(b, n, beyond) = Parsed(eps, t)
  <2>1. g[n] = Parsed(SubSeq(eps, 1, n), l[n + 1])
    BY <1>1, <1>13
  <2> QED
    BY <1>5, <1>9, <1>10, <2>1 DEF EndpointsRun
<1>15. Settled(b)
  <2>1. 1 \in 1 .. n + 1
    BY <1>1
  <2> QED
    BY <1>5, <1>6, <2>1
<1>16. eps # <<>> => b # <<>> /\ Head(b).type = "endpoint"
  <2>1. eps # <<>> => 1 \in 1 .. n
    BY DEF n
  <2> QED
    BY <1>5, <1>7, <2>1
<1> QED
  BY <1>8, <1>14, <1>15, <1>16 DEF n, b

\* So is a sound setting.
LEMMA SettingBack ==
    ASSUME NEW s \in InterfaceDescriptor, NEW k, IsSetting(s, k), NEW t \in Buffers, InPlace(t),
           NEW beyond \in BOOLEAN
    PROVE  LET b == FlatSetting(s) \o t IN
           /\ b \in Buffers /\ b # <<>> /\ InPlace(b) /\ Head(b) = s.descriptor
           /\ AltSetting(b, beyond) = Parsed(s, t)
<1> DEFINE b == FlatSetting(s) \o t
<1>1. PICK d, x, eps, u : d = s.descriptor /\ x = s.extra /\ eps = s.endpoints
                          /\ u = FlatEndpoints(eps) \o t
  OBVIOUS
<1>2. d \in Descriptor /\ x \in Buffers /\ eps \in Seq(EndpointDescriptor)
  BY <1>1 DEF InterfaceDescriptor, Buffers
<1>3. /\ d.type = "interface" /\ d.length = INTERFACE_DESC_LENGTH
      /\ d.count = Len(eps) /\ Len(eps) <= USB_MAXENDPOINTS /\ IsExtra(x)
      /\ \A j \in 1 .. Len(eps) : IsEndpoint(eps[j])
  <2>1. \A j \in 1 .. Len(eps) : eps[j] \in ToSet(eps)
    BY <1>2 DEF ToSet
  <2> QED
    BY <1>1, <2>1 DEF IsSetting
<1>4. /\ u \in Buffers /\ Settled(u)
      /\ eps # <<>> => u # <<>> /\ Head(u).type = "endpoint"
      /\ Endpoints(u, Len(eps), beyond) = Parsed(eps, t)
  BY <1>1, <1>2, <1>3, EndpointsBack DEF InPlace
<1>5. /\ <<d>> \in Buffers /\ FlatEndpoints(eps) \in Buffers
  BY <1>2, FlatEndpointsFacts DEF Buffers
<1>6. b = <<d>> \o (x \o u)
  <2>1. x \o FlatEndpoints(eps) \in Buffers
    BY <1>2, <1>5, ConcatProperties DEF Buffers
  <2>2. FlatSetting(s) = <<d>> \o (x \o FlatEndpoints(eps))
    BY <1>1, FlatSettingTyped
  <2>3. b = <<d>> \o ((x \o FlatEndpoints(eps)) \o t)
    BY <1>5, <2>1, <2>2, Associates
  <2>4. (x \o FlatEndpoints(eps)) \o t = x \o u
    BY <1>1, <1>2, <1>5, Associates
  <2> QED
    BY <2>3, <2>4
<1>7. x \o u \in Buffers
  BY <1>2, <1>4, ConcatProperties DEF Buffers
<1> HIDE DEF b
<1>8. b \in Buffers /\ b # <<>> /\ Head(b) = d /\ Tail(b) = x \o u
  BY <1>2, <1>6, <1>7, FirstOne
<1>9. Skip(Tail(b)) = Parsed(x, u)
  BY <1>2, <1>3, <1>4, <1>8, SkipExtra
<1>10. Skip(Tail(b)).ok /\ Skip(Tail(b)).value = x /\ Skip(Tail(b)).rest = u
  BY <1>9 DEF Parsed
<1>11. PICK ends : ends = Endpoints(u, Len(eps), beyond)
  OBVIOUS
<1>12. ends.ok /\ ends.value = eps /\ ends.rest = t
  BY <1>4, <1>11 DEF Parsed
<1>13. ~(u # <<>> /\ Head(u).type \in {"config", "device"})
  <2>1. CASE eps = <<>>
    <3>1. FlatEndpoints(eps) = <<>>
      BY <2>1, FlatEndpointsFacts
    <3>2. <<>> \o t = t
      BY ConcatEmptySeq DEF Buffers
    <3> QED
      BY <1>1, <3>1, <3>2 DEF InPlace
  <2>2. CASE eps # <<>>
    BY <1>4, <2>2
  <2> QED
    BY <2>1, <2>2
<1>14. AltSetting(b, beyond)
         = Parsed([descriptor |-> d, extra |-> x, endpoint |-> "set", endpoints |-> eps], t)
  <2>1. ~(Len(eps) > USB_MAXENDPOINTS)
    BY <1>2, <1>3 DEF USB_MAXENDPOINTS
  <2> QED
    BY <1>3, <1>8, <1>10, <1>11, <1>12, <1>13, <2>1 DEF AltSetting
<1>15. s = [descriptor |-> d, extra |-> x, endpoint |-> "set", endpoints |-> eps]
  BY <1>1 DEF InterfaceDescriptor, IsSetting
<1>16. InPlace(b)
  BY <1>3, <1>8 DEF InPlace, Settled, Proper, INTERFACE_DESC_LENGTH, DESC_HEADER_LENGTH
<1> QED
  BY <1>1, <1>8, <1>14, <1>15, <1>16 DEF b

LEMMA FlatNotEmpty ==
    ASSUME NEW s \in InterfaceDescriptor PROVE FlatSetting(s) # <<>>
<1>1. s.descriptor \in Descriptor /\ s.extra \in Buffers /\ s.endpoints \in Seq(EndpointDescriptor)
  BY DEF InterfaceDescriptor, Buffers
<1>2. s.extra \o FlatEndpoints(s.endpoints) \in Buffers
  BY <1>1, FlatEndpointsFacts, ConcatProperties DEF Buffers
<1> QED
  BY <1>1, <1>2, FlatSettingTyped, FirstOne

\* An interface is read up to what is no alternate setting of it.
LEMMA InterfaceBack ==
    ASSUME NEW i \in Seq(InterfaceDescriptor), i # <<>>, \A k \in DOMAIN i : IsSetting(i[k], k),
           NEW t \in Buffers, InPlace(t), ~IsAlternate(t), NEW beyond \in BOOLEAN
    PROVE  LET b == FlatInterface(i) \o t IN
           /\ b \in Buffers /\ b # <<>> /\ InPlace(b) /\ Head(b) = i[1].descriptor
           /\ usb_parse_interface(b, beyond) = Parsed(i, t)
<1> DEFINE n == Len(i)
           b == FlatInterface(i) \o t
           parts == [k \in DOMAIN i |-> FlatSetting(i[k])]
<1>1. n \in Nat /\ n # 0 /\ DOMAIN i = 1 .. n /\ \A k \in 1 .. n : i[k] \in InterfaceDescriptor
  OBVIOUS
<1>2. /\ parts \in Seq(Buffers) /\ Len(parts) = n
      /\ \A k \in 1 .. n : parts[k] = FlatSetting(i[k]) /\ parts[k] # <<>>
  <2>1. \A k \in 1 .. n : FlatSetting(i[k]) \in Buffers /\ FlatSetting(i[k]) # <<>>
    BY <1>1, FlatSettingTyped, FlatNotEmpty
  <2> HIDE DEF n
  <2> QED
    BY <1>1, <2>1
<1>3. b = FlattenSeq(parts) \o t
  BY DEF FlatInterface
<1> HIDE DEF parts
<1>4. PICK l : Leaves(l, parts, t, Descriptor)
  BY <1>2, FlattenLeaves DEF Buffers
<1> HIDE DEF b
<1>5. /\ \A k \in 1 .. n + 1 : l[k] \in Buffers
      /\ l[1] = b /\ l[n + 1] = t
      /\ \A k \in 1 .. n : k + 1 \in 1 .. n + 1 /\ l[k] = FlatSetting(i[k]) \o l[k + 1]
      /\ n <= Len(b)
  BY <1>2, <1>3, <1>4 DEF Leaves, Buffers
<1>6. \A k \in 1 .. n : IsSetting(i[k], k)
  BY <1>1
<1> HIDE DEF n
<1>7. \A k \in 1 .. n + 1 : InPlace(l[k])
  <2> DEFINE T == {k \in Nat : k <= n => InPlace(l[(n + 1) - k])}
  <2>1. 0 \in T
    <3>1. (n + 1) - 0 = n + 1
      BY <1>1
    <3> QED
      BY <1>5, <3>1
  <2>2. ASSUME NEW j \in T PROVE j + 1 \in T
    <3>1. CASE j + 1 <= n
      <4>1. PICK k \in 1 .. n : k = (n + 1) - (j + 1) /\ k + 1 = (n + 1) - j /\ j <= n
        BY <1>1, <3>1
      <4>2. InPlace(l[k + 1]) /\ l[k + 1] \in Buffers
        BY <1>5, <4>1
      <4>3. i[k] \in InterfaceDescriptor /\ IsSetting(i[k], k)
        BY <1>1, <1>6
      <4>4. InPlace(FlatSetting(i[k]) \o l[k + 1])
        BY <4>2, <4>3, SettingBack
      <4>5. InPlace(l[(n + 1) - (j + 1)])
        BY <1>5, <4>1, <4>4
      <4> QED
        BY <4>5
    <3> QED
      BY <3>1
  <2>3. \A k \in Nat : k \in T
    <3> HIDE DEF T
    <3> QED
      BY <2>1, <2>2, NumbersByInduction DEF T
  <2>4. ASSUME NEW k \in 1 .. n + 1 PROVE InPlace(l[k])
    <3>1. (n + 1) - k \in Nat /\ (n + 1) - k <= n /\ (n + 1) - ((n + 1) - k) = k
      BY <1>1
    <3> QED
      BY <2>3, <3>1
  <2> QED
    BY <2>4
<1>8. ASSUME NEW k \in 1 .. n
      PROVE  /\ AltSetting(l[k], beyond) = Parsed(i[k], l[k + 1])
             /\ l[k] # <<>> /\ Head(l[k]) = i[k].descriptor
             /\ Size(l[k]) >= INTERFACE_DESC_LENGTH /\ (k # 1 => IsAlternate(l[k]))
  <2>1. /\ l[k + 1] \in Buffers /\ InPlace(l[k + 1]) /\ l[k] = FlatSetting(i[k]) \o l[k + 1]
        /\ l[k] \in Buffers
    BY <1>1, <1>5, <1>7
  <2>2. i[k] \in InterfaceDescriptor /\ IsSetting(i[k], k)
    BY <1>1, <1>6
  <2>3. /\ AltSetting(l[k], beyond) = Parsed(i[k], l[k + 1])
        /\ l[k] # <<>> /\ Head(l[k]) = i[k].descriptor
    BY <2>1, <2>2, SettingBack
  <2>4. /\ Head(l[k]).length = INTERFACE_DESC_LENGTH /\ Head(l[k]).type = "interface"
        /\ Head(l[k]).alt = k - 1
    BY <2>2, <2>3 DEF IsSetting
  <2>5. Size(l[k]) \in Nat /\ Size(l[k]) >= Head(l[k]).length
    BY <2>1, <2>3, SizeFacts
  <2>6. Size(l[k]) >= INTERFACE_DESC_LENGTH
    BY <2>4, <2>5
  <2>7. k # 1 => k - 1 # 0
    BY <1>1
  <2> QED
    BY <2>3, <2>4, <2>6, <2>7 DEF IsAlternate
<1>9. b \in Buffers /\ Len(b) \in Nat /\ 1 \in 1 .. n
  <2>1. 1 \in 1 .. n + 1 /\ 1 \in 1 .. n
    BY <1>1
  <2>2. b \in Buffers
    BY <1>5, <2>1
  <2> QED
    BY <2>1, <2>2 DEF Buffers
<1>10. PICK g : SettingsRun(g, b, beyond)
  BY <1>9, SettingsRuns
<1>11. SubSeq(i, 1, 0) = <<>> /\ SubSeq(i, 1, n) = i
       /\ \A k \in 1 .. n : SubSeq(i, 1, k) = Append(SubSeq(i, 1, k - 1), i[k])
  BY PrefixGrows DEF n
<1> DEFINE State(k) == IF k <= n THEN Parsed(SubSeq(i, 1, k), l[k + 1]) ELSE Parsed(i, t)
           T == {k \in Nat : k <= Len(b) => g[k] = State(k)}
<1>12. 0 \in T
  <2>1. g[0] = Parsed(<<>>, b) /\ 0 + 1 = 1 /\ 0 <= n
    BY <1>1, <1>10 DEF SettingsRun
  <2> QED
    BY <1>5, <1>11, <2>1
<1>13. ASSUME NEW j \in T PROVE j + 1 \in T
  <2> SUFFICES ASSUME j + 1 <= Len(b) PROVE g[j + 1] = State(j + 1)
    OBVIOUS
  <2>1. PICK k \in 1 .. Len(b) : k = j + 1 /\ k - 1 = j /\ j \in Nat /\ j <= Len(b)
    BY <1>9
  <2>2. PICK s, s2 : s = g[j] /\ s2 = g[k]
    OBVIOUS
  <2>3. s = State(j) /\ s2 = SettingsRound(k, s, beyond)
    BY <1>10, <2>1, <2>2 DEF SettingsRun
  <2>4. CASE k <= n
    <3>1. k \in 1 .. n /\ j <= n
      BY <1>1, <2>1, <2>4
    <3>2. s = Parsed(SubSeq(i, 1, j), l[k])
      BY <2>1, <2>3, <3>1
    <3>3. s.ok /\ s.value = SubSeq(i, 1, j) /\ s.rest = l[k]
      BY <3>2 DEF Parsed
    <3>4. IF k = 1 THEN Size(s.rest) >= INTERFACE_DESC_LENGTH ELSE IsAlternate(s.rest)
      BY <1>8, <3>1, <3>3
    <3>5. PICK next : next = AltSetting(s.rest, beyond)
      OBVIOUS
    <3>6. next = Parsed(i[k], l[k + 1])
      BY <1>8, <3>1, <3>3, <3>5
    <3>7. next.ok /\ next.value = i[k] /\ next.rest = l[k + 1]
      BY <3>6 DEF Parsed
    <3>8. s2 = Parsed(Append(SubSeq(i, 1, j), i[k]), l[k + 1])
      BY <2>3, <3>3, <3>4, <3>5, <3>7 DEF SettingsRound, Extended
    <3>9. s2 = Parsed(SubSeq(i, 1, k), l[k + 1])
      BY <1>11, <2>1, <3>1, <3>8
    <3> QED
      BY <2>1, <2>2, <2>4, <3>9
  <2>5. CASE ~(k <= n)
    <3>1. k # 1
      BY <1>9, <2>5
    <3>2. s = Parsed(i, t)
      <4>1. CASE j <= n
        <5>1. j = n
          BY <1>1, <2>1, <2>5, <4>1
        <5> QED
          BY <1>5, <1>11, <2>3, <4>1, <5>1
      <4>2. CASE ~(j <= n)
        BY <2>3, <4>2
      <4> QED
        BY <4>1, <4>2
    <3>3. s.rest = t
      BY <3>2 DEF Parsed
    <3>4. s2 = s
      BY <2>3, <3>1, <3>3 DEF SettingsRound, Extended
    <3> QED
      BY <2>1, <2>2, <2>5, <3>2, <3>4
  <2> QED
    BY <2>4, <2>5
<1>14. Len(b) \in T
  <2> HIDE DEF T
  <2> QED
    BY <1>9, <1>12, <1>13, NumbersByInduction DEF T
<1>15. usb_parse_interface(b, beyond) = Parsed(i, t)
  <2>1. g[Len(b)] = State(Len(b))
    BY <1>9, <1>14
  <2>2. State(Len(b)) = Parsed(i, t)
    <3>1. Len(b) <= n => Len(b) = n
      BY <1>1, <1>5, <1>9
    <3> QED
      BY <1>5, <1>11, <3>1
  <2> QED
    BY <1>10, <2>1, <2>2 DEF SettingsRun
<1>16. InPlace(b) /\ b # <<>> /\ Head(b) = i[1].descriptor
  <2>1. 1 \in 1 .. n + 1
    BY <1>1
  <2> QED
    BY <1>5, <1>7, <1>8, <1>9, <2>1
<1> QED
  BY <1>9, <1>15, <1>16 DEF b

\* So are the interfaces of a sound configuration.
LEMMA InterfacesBack ==
    ASSUME NEW c \in ConfigDescriptor, NEW head, IsConfiguration(head, c), NEW beyond \in BOOLEAN
    PROVE  Interfaces(Flat(c), Len(c.interfaces), beyond) = Parsed(c, <<>>)
<1>1. PICK x, is, n : x = c.extra /\ is = c.interfaces /\ n = Len(is)
  OBVIOUS
<1>2. /\ x \in Buffers /\ is \in Seq(Seq(InterfaceDescriptor)) /\ n \in Nat /\ DOMAIN is = 1 .. n
      /\ \A k \in 1 .. n : is[k] \in Seq(InterfaceDescriptor)
  <2>1. x \in Buffers /\ is \in Seq(Seq(InterfaceDescriptor))
    BY <1>1, ConfigTyped
  <2> QED
    BY <1>1, <2>1
<1>3. /\ IsExtra(x) /\ (is = <<>> => x = <<>>)
      /\ \A k \in 1 .. n : is[k] # <<>> /\ \A j \in DOMAIN is[k] : IsSetting(is[k][j], j)
  <2>1. \A k \in 1 .. n : is[k] \in ToSet(is)
    BY <1>2 DEF ToSet
  <2> QED
    BY <1>1, <2>1 DEF IsConfiguration
<1> DEFINE parts == [k \in DOMAIN is |-> FlatInterface(is[k])]
<1>4. /\ parts \in Seq(Buffers) /\ Len(parts) = n
      /\ \A k \in 1 .. n : parts[k] = FlatInterface(is[k])
  <2>1. \A k \in 1 .. n : FlatInterface(is[k]) \in Buffers
    BY <1>2, FlatInterfaceFacts
  <2> QED
    BY <1>2, <2>1
<1>5. <<>> \in Buffers /\ InPlace(<<>>)
  BY DEF Buffers, InPlace, Settled
<1>6. FlatInterfaces(is) = FlattenSeq(parts)
  BY DEF FlatInterfaces
<1> HIDE DEF parts
<1>7. PICK l : Leaves(l, parts, <<>>, Descriptor)
  BY <1>4, <1>5, FlattenLeaves DEF Buffers
<1>8. /\ \A k \in 1 .. n + 1 : l[k] \in Buffers
      /\ l[1] = FlatInterfaces(is) /\ l[n + 1] = <<>>
      /\ \A k \in 1 .. n : k + 1 \in 1 .. n + 1 /\ l[k] = FlatInterface(is[k]) \o l[k + 1]
  <2>1. FlatInterfaces(is) \o <<>> = FlatInterfaces(is)
    BY <1>2, FlatInterfacesFacts, ConcatEmptySeq DEF Buffers
  <2> QED
    BY <1>4, <1>6, <1>7, <2>1 DEF Leaves, Buffers
<1> DEFINE Ends(t) == t \in Buffers /\ InPlace(t) /\ ~IsAlternate(t)
<1>9. Ends(<<>>)
  <2>1. ~IsAlternate(<<>>)
    <3>1. Size(<<>>) = 0
      BY <1>5, SizeFacts
    <3> QED
      BY <3>1 DEF IsAlternate, INTERFACE_DESC_LENGTH
  <2> QED
    BY <1>5, <2>1
<1>10. ASSUME NEW k \in 1 .. n, Ends(l[k + 1])
       PROVE  usb_parse_interface(l[k], beyond) = Parsed(is[k], l[k + 1]) /\ Ends(l[k])
  <2>1. l[k] = FlatInterface(is[k]) \o l[k + 1]
    BY <1>8
  <2>2. /\ is[k] \in Seq(InterfaceDescriptor) /\ is[k] # <<>>
        /\ \A j \in DOMAIN is[k] : IsSetting(is[k][j], j)
    BY <1>2, <1>3
  <2>3. PICK i, t : i = is[k] /\ t = l[k + 1]
    OBVIOUS
  <2>4. LET b == FlatInterface(i) \o t IN
        /\ b \in Buffers /\ b # <<>> /\ InPlace(b) /\ Head(b) = i[1].descriptor
        /\ usb_parse_interface(b, beyond) = Parsed(i, t)
    BY <1>10, <2>2, <2>3, InterfaceBack
  <2>5. 1 \in DOMAIN i
    BY <2>2, <2>3
  <2>6. i[1].descriptor.alt = 0
    <3>1. IsSetting(i[1], 1)
      BY <2>2, <2>3, <2>5
    <3> QED
      BY <3>1 DEF IsSetting
  <2>7. ~IsAlternate(l[k])
    BY <2>1, <2>3, <2>4, <2>6 DEF IsAlternate
  <2> QED
    BY <2>1, <2>3, <2>4, <2>7
<1>11. \A k \in 1 .. n + 1 : Ends(l[k])
  <2> DEFINE T == {k \in Nat : k <= n => Ends(l[(n + 1) - k])}
  <2> HIDE DEF Ends
  <2>1. 0 \in T
    <3>1. (n + 1) - 0 = n + 1
      BY <1>2
    <3> QED
      BY <1>8, <1>9, <3>1
  <2>2. ASSUME NEW j \in T PROVE j + 1 \in T
    <3>1. CASE j + 1 <= n
      <4>1. PICK k \in 1 .. n : k = (n + 1) - (j + 1) /\ k + 1 = (n + 1) - j /\ j <= n
        BY <1>2, <3>1
      <4>2. Ends(l[k + 1])
        BY <4>1
      <4>3. Ends(l[(n + 1) - (j + 1)])
        BY <1>10, <4>1, <4>2
      <4> QED
        BY <4>3
    <3> QED
      BY <3>1
  <2>3. \A k \in Nat : k \in T
    <3> HIDE DEF T
    <3> QED
      BY <2>1, <2>2, NumbersByInduction DEF T
  <2>4. ASSUME NEW k \in 1 .. n + 1 PROVE Ends(l[k])
    <3>1. (n + 1) - k \in Nat /\ (n + 1) - k <= n /\ (n + 1) - ((n + 1) - k) = k
      BY <1>2
    <3> QED
      BY <2>3, <3>1
  <2> QED
    BY <2>4
<1>12. \A k \in 1 .. n : usb_parse_interface(l[k], beyond) = Parsed(is[k], l[k + 1])
  BY <1>8, <1>10, <1>11
<1>13. Flat(c) \in Buffers /\ Flat(c) = x \o l[1]
  BY <1>1, <1>8, FlatTyped
<1>14. PICK g : InterfacesRun(g, Flat(c), n, beyond)
  BY <1>2, <1>13, InterfacesRuns
<1>15. SubSeq(is, 1, 0) = <<>> /\ SubSeq(is, 1, n) = is
       /\ \A k \in 1 .. n : SubSeq(is, 1, k) = Append(SubSeq(is, 1, k - 1), is[k])
  BY <1>1, <1>2, PrefixGrows
<1> DEFINE State(k) == Parsed([extra |-> x, interfaces |-> SubSeq(is, 1, k)], l[k + 1])
           T == {k \in Nat : k >= 1 /\ k <= n => g[k] = State(k)}
<1>16. ASSUME NEW k \in 1 .. n, k # 1 => g[k - 1] = State(k - 1)
       PROVE  g[k] = State(k)
  <2>1. PICK s, s2 : s = g[k - 1] /\ s2 = g[k]
    OBVIOUS
  <2>2. s2 = InterfacesRound(s, beyond)
    BY <1>14, <2>1 DEF InterfacesRun
  <2>3. Ends(l[k]) /\ k \in 1 .. n + 1
    BY <1>2, <1>11
  <2>4. PICK v, w : Skip(s.rest) = Parsed(v, l[k]) /\ s.ok /\ s.value = w
                    /\ x = (IF w.extra = <<>> THEN v ELSE w.extra)
                    /\ w.interfaces = SubSeq(is, 1, k - 1)
    <3>1. CASE k = 1
      <4>1. s = Parsed(NoInterfacesYet, Flat(c))
        BY <1>14, <2>1, <3>1 DEF InterfacesRun
      <4>2. s.ok /\ s.value = NoInterfacesYet /\ s.rest = x \o l[1]
        BY <1>13, <4>1 DEF Parsed
      <4>3. Skip(x \o l[1]) = Parsed(x, l[1])
        BY <1>2, <1>3, <2>3, <3>1, SkipExtra DEF InPlace
      <4>4. NoInterfacesYet.extra = <<>> /\ NoInterfacesYet.interfaces = <<>>
        BY DEF NoInterfacesYet
      <4>5. /\ Skip(s.rest) = Parsed(x, l[k]) /\ s.ok
            /\ x = (IF s.value.extra = <<>> THEN x ELSE s.value.extra)
            /\ s.value.interfaces = SubSeq(is, 1, k - 1)
        <5>1. k - 1 = 0 /\ l[k] = l[1] /\ SubSeq(is, 1, k - 1) = <<>>
          BY <1>15, <3>1
        <5> QED
          BY <4>2, <4>3, <4>4, <5>1
      <4> QED
        BY <4>5
    <3>2. CASE k # 1
      <4>1. s = State(k - 1) /\ (k - 1) + 1 = k
        BY <1>2, <1>16, <2>1, <3>2
      <4>2. /\ s.ok /\ s.value = [extra |-> x, interfaces |-> SubSeq(is, 1, k - 1)]
            /\ s.rest = l[k]
        BY <4>1 DEF Parsed
      <4>3. Skip(l[k]) = Parsed(<<>>, l[k])
        BY <2>3, SkipNothing DEF InPlace
      <4> QED
        BY <4>2, <4>3
    <3> QED
      BY <3>1, <3>2
  <2>5. PICK skipped : skipped = Skip(s.rest)
    OBVIOUS
  <2>6. skipped.ok /\ skipped.value = v /\ skipped.rest = l[k]
    BY <2>4, <2>5 DEF Parsed
  <2>7. PICK next : next = usb_parse_interface(skipped.rest, beyond)
    OBVIOUS
  <2>8. next.ok /\ next.value = is[k] /\ next.rest = l[k + 1]
    <3>1. next = Parsed(is[k], l[k + 1])
      BY <1>12, <2>6, <2>7
    <3> QED
      BY <3>1 DEF Parsed
  <2>9. s2 = Parsed([extra |-> x, interfaces |-> Append(SubSeq(is, 1, k - 1), is[k])], l[k + 1])
    BY <2>2, <2>4, <2>5, <2>6, <2>7, <2>8 DEF InterfacesRound
  <2> QED
    BY <1>15, <2>1, <2>9
<1> HIDE DEF State
<1>17. 0 \in T
  OBVIOUS
<1>18. ASSUME NEW j \in T PROVE j + 1 \in T
  <2>1. CASE j + 1 <= n
    <3>1. PICK k \in 1 .. n : k = j + 1 /\ k - 1 = j /\ j <= n /\ (k # 1 => j >= 1)
      BY <1>2, <2>1
    <3>2. k # 1 => g[k - 1] = State(k - 1)
      BY <3>1
    <3>3. g[k] = State(k)
      BY <1>16, <3>2
    <3> QED
      BY <3>1, <3>3
  <2> QED
    BY <2>1
<1>19. n \in T
  <2> HIDE DEF T
  <2> QED
    BY <1>2, <1>17, <1>18, NumbersByInduction DEF T
<1>20. g[n] = Parsed(c, <<>>)
  <2>1. c = [extra |-> x, interfaces |-> is]
    BY <1>1 DEF ConfigDescriptor
  <2>2. CASE n = 0
    <3>1. is = <<>> /\ x = <<>>
      <4>1. is \in Seq(Seq(InterfaceDescriptor)) /\ Len(is) = 0
        BY <1>1, <1>2, <2>2
      <4>2. is = <<>>
        BY <4>1, EmptySeq
      <4> QED
        BY <1>3, <4>2
    <3>2. l[1] = <<>>
      BY <1>8, <2>2
    <3>3. Flat(c) = <<>>
      BY <1>13, <3>1, <3>2
    <3>4. g[0] = Parsed(NoInterfacesYet, Flat(c))
      BY <1>14 DEF InterfacesRun
    <3> QED
      BY <2>1, <2>2, <3>1, <3>3, <3>4 DEF NoInterfacesYet
  <2>3. CASE n # 0
    <3>1. g[n] = State(n)
      BY <1>2, <1>19, <2>3
    <3> QED
      BY <1>8, <1>15, <2>1, <3>1 DEF State
  <2> QED
    BY <2>2, <2>3
<1> QED
  BY <1>1, <1>14, <1>20 DEF InterfacesRun

\* A configuration in which all numbers are right is parsed as it is
\* (descriptors.c), whatever it is made of.
THEOREM ConfigurationBack ==
    ASSUME NEW b \in Buffers, b # <<>>, NEW c \in ConfigDescriptor,
           IsConfiguration(Head(b), c), Flat(c) = Tail(b), NEW beyond \in BOOLEAN
    PROVE  usb_parse_configuration(b, beyond) = Parsed(c, <<>>)
<1>1. Head(b).count = Len(c.interfaces) /\ Len(c.interfaces) <= USB_MAXINTERFACES
  BY DEF IsConfiguration
<1>2. Interfaces(Flat(c), Len(c.interfaces), beyond) = Parsed(c, <<>>)
  BY InterfacesBack
<1>3. Len(c.interfaces) \in Nat
  BY ConfigTyped
<1>4. ~(Head(b).count > USB_MAXINTERFACES)
  BY <1>1, <1>3 DEF USB_MAXINTERFACES
<1> QED
  BY <1>1, <1>2, <1>4 DEF usb_parse_configuration

-----------------------------------------------------------------------------
(* The entries of the list.                                                *)

Models == {p.model : p \in Products}
Sent == UNION {{p.configs[k] : k \in DOMAIN p.configs} : p \in Products}
Results == {usb_parse_configuration(b, beyond) : b \in Sent, beyond \in BOOLEAN}

\* A device is named by the place it was found at and the ids it had there.
Entries ==
    {d \in [filename : Slots \X Models, configs : Seq(Results), from : Products] :
        d.filename[2] = d.from.model /\ d.from # Nothing}

SlotsOf(list) == {Slot(list[k]) : k \in 1 .. Len(list)}
Distinct(list) ==
    \A j, k \in 1 .. Len(list) : Slot(list[j]) = Slot(list[k]) => j = k

\* What usb_find_devices keeps of a list: the entries with a counterpart in
\* the other one, or those without, each once.
SiftedAs(list, other, known, kept) ==
    /\ kept \in Seq(Entries)
    /\ \A j \in 1 .. Len(kept) :
         \E k \in 1 .. Len(list) : kept[j] = list[k] /\ IsIn(list[k], other) = known
    /\ \A k \in 1 .. Len(list) :
         IsIn(list[k], other) = known => \E j \in 1 .. Len(kept) : kept[j] = list[k]
    /\ Distinct(list) => Distinct(kept)

\* What the loop of usb_find_devices keeps is that.
LEMMA Sifted ==
    ASSUME NEW list \in Seq(Entries), NEW other, NEW known \in BOOLEAN
    PROVE  SiftedAs(list, other, known, Sift(list, other, known))
<1> DEFINE N == Len(list)
           Keep(k) == IsIn(list[k], other) = known
           S == Seq(Entries)
           Step(k, s) == IF Keep(k) THEN Append(s, list[k]) ELSE s
           Round == [k \in 1 .. N |-> [s \in S |-> Step(k, s)]]
           Upto(h) == h = [n \in 0 .. N |->
                            IF n = 0 THEN <<>>
                            ELSE IF IsIn(list[n], other) = known THEN Append(h[n - 1], list[n])
                            ELSE h[n - 1]]
           upto == CHOOSE h : Upto(h)
<1>1. N \in Nat /\ <<>> \in S /\ \A k \in 1 .. N : list[k] \in Entries
  OBVIOUS
<1>2. \A k \in 1 .. N : \A s \in S : Step(k, s) \in S
  BY <1>1
<1>3. Round \in [1 .. N -> [S -> S]]
  <2> HIDE DEF Step, S
  <2> QED
    BY <1>2
<1>4. PICK g \in [0 .. N -> S] : Runs(g, N, S, <<>>, Round)
  <2> HIDE DEF Round, S, N
  <2> QED
    BY <1>1, <1>3, LoopRuns
<1>5. Upto(g)
  <2>1. g[0] = <<>>
    BY <1>4 DEF Runs
  <2>2. ASSUME NEW k \in 1 .. N PROVE g[k] = Step(k, g[k - 1])
    <3> HIDE DEF S, Step
    <3> QED
      BY <1>4 DEF Runs
  <2>3. \A k \in 0 .. N : k # 0 => k \in 1 .. N
    BY <1>1
  <2>4. g = [k \in 0 .. N |-> g[k]]
    BY <1>4
  <2> HIDE DEF S, N
  <2> QED
    BY <2>1, <2>2, <2>3, <2>4
<1>6. Upto(upto)
  BY <1>5
<1>7. Sift(list, other, known) = upto[N]
  BY DEF Sift
<1> HIDE DEF upto
<1> DEFINE Done(n, s) ==
             /\ s \in S
             /\ \A j \in 1 .. Len(s) : \E k \in 1 .. n : s[j] = list[k] /\ Keep(k)
             /\ \A k \in 1 .. n : Keep(k) => \E j \in 1 .. Len(s) : s[j] = list[k]
             /\ Distinct(list) => Distinct(s)
           T == {n \in Nat : n <= N => Done(n, upto[n])}
<1>8. 0 \in T
  <2>1. upto[0] = <<>>
    BY <1>1, <1>6
  <2>2. Done(0, <<>>)
    BY <1>1 DEF Distinct
  <2> HIDE DEF Done
  <2> QED
    BY <2>1, <2>2
<1>9. ASSUME NEW n \in T PROVE n + 1 \in T
  <2> SUFFICES ASSUME n + 1 <= N PROVE Done(n + 1, upto[n + 1])
    OBVIOUS
  <2> DEFINE m == n + 1
             s == upto[n]
             d == list[m]
             t == upto[m]
  <2>1. m \in 1 .. N /\ n \in 0 .. N /\ m - 1 = n /\ m # 0 /\ n \in Nat
    BY <1>1
  <2>2. Done(n, s)
    BY <2>1
  <2>3. t = IF Keep(m) THEN Append(s, d) ELSE s
    <3>1. m \in 0 .. N
      BY <2>1
    <3> HIDE DEF N, m
    <3>2. upto[m] = IF m = 0 THEN <<>>
                    ELSE IF IsIn(list[m], other) = known THEN Append(upto[m - 1], list[m])
                    ELSE upto[m - 1]
      BY <1>6, <3>1
    <3> QED
      BY <2>1, <3>2
  <2>4. d \in Entries
    BY <1>1, <2>1
  <2>5. \A k \in 1 .. m : k \in 1 .. n \/ k = m
    BY <2>1
  <2>6. 1 .. n \subseteq 1 .. m /\ m \in 1 .. m /\ m \notin 1 .. n /\ 1 .. n \subseteq 1 .. N
    BY <2>1
  <2> HIDE DEF m, s, d, t
  <2>7. CASE ~Keep(m)
    <3>1. t = s
      BY <2>3, <2>7
    <3> QED
      BY <2>2, <2>5, <2>6, <2>7, <3>1 DEF m, t
  <2>8. CASE Keep(m)
    <3>1. t = Append(s, d) /\ s \in S
      BY <2>2, <2>3, <2>8
    <3>2. /\ t \in S /\ Len(s) \in Nat /\ Len(t) = Len(s) + 1 /\ t[Len(s) + 1] = d
          /\ \A j \in 1 .. Len(s) : t[j] = s[j]
      BY <2>4, <3>1
    <3>3. \A j \in 1 .. Len(t) : j \in 1 .. Len(s) \/ j = Len(s) + 1
      BY <3>2
    <3>4. 1 .. Len(s) \subseteq 1 .. Len(t) /\ Len(s) + 1 \in 1 .. Len(t)
      BY <3>2
    <3> HIDE DEF Keep
    <3>5. \A j \in 1 .. Len(t) : \E k \in 1 .. m : t[j] = list[k] /\ Keep(k)
      <4>1. ASSUME NEW j \in 1 .. Len(s)
            PROVE  \E k \in 1 .. m : t[j] = list[k] /\ Keep(k)
        BY <2>2, <2>6, <3>2
      <4>2. t[Len(s) + 1] = list[m]
        BY <3>2 DEF d
      <4> QED
        BY <2>6, <2>8, <3>3, <4>1, <4>2
    <3>6. \A k \in 1 .. m : Keep(k) => \E j \in 1 .. Len(t) : t[j] = list[k]
      <4>1. ASSUME NEW k \in 1 .. n, Keep(k)
            PROVE  \E j \in 1 .. Len(t) : t[j] = list[k]
        <5>1. PICK j \in 1 .. Len(s) : s[j] = list[k]
          BY <2>2, <4>1
        <5> QED
          BY <3>2, <3>4, <5>1
      <4> QED
        BY <2>5, <3>2, <3>4, <4>1 DEF d
    <3>7. ASSUME Distinct(list) PROVE Distinct(t)
      <4>1. Distinct(s)
        BY <2>2, <3>7
      <4>2. ASSUME NEW j \in 1 .. Len(s), Slot(s[j]) = Slot(d) PROVE FALSE
        <5>1. PICK k \in 1 .. n : s[j] = list[k]
          BY <2>2, <4>2
        <5>2. k = m
          <6>1. k \in 1 .. N /\ Slot(list[k]) = Slot(list[m])
            BY <2>6, <4>2, <5>1 DEF d
          <6> QED
            BY <2>1, <3>7, <6>1 DEF Distinct
        <5> QED
          BY <2>6, <5>2
      <4>3. ASSUME NEW j \in 1 .. Len(t), NEW k \in 1 .. Len(t), Slot(t[j]) = Slot(t[k])
            PROVE  j = k
        <5>1. CASE j \in 1 .. Len(s) /\ k \in 1 .. Len(s)
          BY <3>2, <4>1, <4>3, <5>1 DEF Distinct
        <5>2. CASE j = Len(s) + 1 /\ k = Len(s) + 1
          BY <5>2
        <5>3. CASE j \in 1 .. Len(s) /\ k = Len(s) + 1
          BY <3>2, <4>2, <4>3, <5>3
        <5>4. CASE k \in 1 .. Len(s) /\ j = Len(s) + 1
          BY <3>2, <4>2, <4>3, <5>4
        <5> QED
          BY <3>3, <5>1, <5>2, <5>3, <5>4
      <4> QED
        BY <4>3 DEF Distinct
    <3> QED
      BY <3>2, <3>5, <3>6, <3>7 DEF m, t
  <2> QED
    BY <2>7, <2>8
<1>10. Done(N, upto[N])
  <2> HIDE DEF Done
  <2>1. T \in SUBSET Nat
    OBVIOUS
  <2>2. \A n \in Nat : n \in T
    <3> HIDE DEF T
    <3> QED
      BY <1>8, <1>9, <2>1, NumbersByInduction
  <2>3. N \in T
    BY <1>1, <2>2
  <2>4. N <= N
    BY <1>1
  <2> QED
    BY <2>3, <2>4
<1> QED
  BY <1>7, <1>10 DEF SiftedAs

-----------------------------------------------------------------------------
(* ListIsCurrent.                                                          *)

Pcs == {"idle", "names", "open", "header", "whole", "return"}
CallType == [pc : Pcs, i : Nat \ {0}, found : Seq(Entries), changed : SUBSET Slots,
             refused : SUBSET Slots]

TypeInv ==
    /\ port \in [Slots -> Products \cup {Nothing}]
    /\ devices \in Seq(Entries)
    /\ call \in CallType

\* Devices with the same ids are alike: they offer configurations or do not.
Valid(p) == Len(p.configs) \in 1 .. USB_MAXCONFIG
LikeDevices == \A p, q \in Products : p.model = q.model => (Valid(p) <=> Valid(q))

\* The names of which the call in progress gives account.
Steady == Slots \ (call.changed \cup call.refused)

\* While the names are looked at: those below i are found if a device is there.
NamesInv ==
    /\ call.i \in 1 .. NumSlots + 1
    /\ \A k \in 1 .. Len(call.found) : Slot(call.found[k]) < call.i
    /\ \A s \in Steady : s < call.i =>
         /\ port[s] # Nothing => s \in SlotsOf(call.found)
         /\ \A k \in 1 .. Len(call.found) :
              Slot(call.found[k]) = s => call.found[k].from = port[s]

\* From then on: a device is on the list or on that of the new ones, not on
\* both, with the ids of what is there, unless it offers no configuration.
FetchInv ==
    /\ SlotsOf(devices) \cap SlotsOf(call.found) = {}
    /\ \A s \in Steady :
         /\ Valid(port[s]) => s \in SlotsOf(devices) \cup SlotsOf(call.found)
         /\ \A k \in 1 .. Len(devices) : Slot(devices[k]) = s =>
              port[s] # Nothing /\ devices[k].filename[2] = port[s].model
         /\ \A k \in 1 .. Len(call.found) :
              Slot(call.found[k]) = s => call.found[k].from = port[s]

ListInv ==
    /\ Distinct(devices) /\ Distinct(call.found)
    /\ \A k \in 1 .. Len(devices) : Valid(devices[k].from)
    /\ call.pc = "names" => NamesInv
    /\ call.pc \in {"open", "header", "whole", "return"} => FetchInv
    /\ call.pc \in {"header", "whole"} => call.found # <<>> /\ Valid(New.from)
    /\ call.pc = "return" => call.found = <<>> /\ children = devices

\* The first of the new devices, and the others.
LEMMA NewDevices ==
    ASSUME TypeInv, call.found # <<>>
    PROVE  /\ New \in Entries /\ New = call.found[1] /\ 1 \in 1 .. Len(call.found)
           /\ Tail(call.found) \in Seq(Entries) /\ Len(call.found) \in Nat
           /\ Len(Tail(call.found)) = Len(call.found) - 1
           /\ \A k \in 1 .. Len(Tail(call.found)) :
                k + 1 \in 1 .. Len(call.found) /\ Tail(call.found)[k] = call.found[k + 1]
<1>1. call.found \in Seq(Entries)
  BY DEF TypeInv, CallType
<1> DEFINE f == call.found
<1> HIDE DEF f
<1>2. f \in Seq(Entries) /\ f # <<>>
  BY <1>1 DEF f
<1>3. Len(f) \in Nat \ {0} /\ 1 \in 1 .. Len(f) /\ Head(f) = f[1] /\ f[1] \in Entries
  BY <1>2
<1>4. Tail(f) \in Seq(Entries) /\ Len(Tail(f)) = Len(f) - 1
  BY <1>2
<1>5. \A k \in 1 .. Len(Tail(f)) : k + 1 \in 1 .. Len(f) /\ Tail(f)[k] = f[k + 1]
  BY <1>2, <1>3, <1>4
<1> QED
  BY <1>3, <1>4, <1>5 DEF f, New

\* What an entry says of a device.
LEMMA EntryFacts ==
    ASSUME NEW d \in Entries
    PROVE  /\ Slot(d) \in Slots /\ d.from \in Products /\ d.from # Nothing
           /\ d.filename = <<Slot(d), d.from.model>> /\ d.filename[2] = d.from.model
           /\ d.configs \in Seq(Results)
<1>1. d.filename \in Slots \X Models
  BY DEF Entries
<1>2. d.filename = <<d.filename[1], d.filename[2]>>
  BY <1>1
<1> QED
  BY <1>1, <1>2 DEF Entries, Slot

\* What is at a name, when there is something.
LEMMA PortFacts ==
    ASSUME TypeInv, NEW s \in Slots
    PROVE  /\ port[s] # Nothing => port[s] \in Products
           /\ Valid(port[s]) => port[s] # Nothing
           /\ \A i \in Nat \ {0} : i <= Len(port[s].configs) =>
                port[s] \in Products /\ i \in DOMAIN port[s].configs
<1>1. port[s] \in Products \cup {Nothing}
  BY DEF TypeInv
<1>2. Nothing.configs = <<>> /\ Len(Nothing.configs) = 0
  BY DEF Nothing
<1>3. ~Valid(Nothing)
  <2>1. 0 \notin 1 .. USB_MAXCONFIG
    OBVIOUS
  <2> QED
    BY <1>2, <2>1 DEF Valid
<1>4. ASSUME NEW i \in Nat \ {0}, i <= Len(port[s].configs)
      PROVE  port[s] \in Products /\ i \in DOMAIN port[s].configs
  <2>1. port[s] \in Products
    BY <1>1, <1>2, <1>4
  <2>2. port[s].configs \in Seq(Seq(Descriptor))
    BY <2>1, ProductsAssumption DEF Product
  <2> QED
    BY <1>4, <2>1, <2>2
<1> QED
  BY <1>1, <1>3, <1>4

\* A configuration is sent and parsed.
LEMMA WholeTyped ==
    ASSUME TypeInv, At("whole"), Sends(Slot(New), call.i), NEW beyond \in BOOLEAN
    PROVE  usb_parse_configuration(port[Slot(New)].configs[call.i], beyond) \in Results
<1>1. Slot(New) \in Slots /\ call.i \in Nat \ {0} /\ call.i <= Len(port[Slot(New)].configs)
  BY NewDevices, EntryFacts DEF TypeInv, CallType, At, Sends
<1>2. port[Slot(New)] \in Products /\ call.i \in DOMAIN port[Slot(New)].configs
  BY <1>1, PortFacts
<1>3. port[Slot(New)].configs[call.i] \in Sent
  BY <1>2 DEF Sent
<1> QED
  BY <1>3 DEF Results

\* The entry whose configurations grow.
GrownBy(grown, list, result) ==
    /\ grown \in Seq(Entries) /\ Len(grown) = Len(list) /\ grown # <<>>
    /\ \A k \in 1 .. Len(list) :
         grown[k].filename = list[k].filename /\ grown[k].from = list[k].from
    /\ \A k \in 1 .. Len(list) : k # 1 => grown[k] = list[k]
    /\ grown[1].configs = Append(list[1].configs, result)

\* A configuration is appended to those of the first new device.
LEMMA GrownFound ==
    ASSUME NEW list \in Seq(Entries), list # <<>>, NEW result \in Results
    PROVE  GrownBy([list EXCEPT ![1].configs = Append(@, result)], list, result)
<1> DEFINE grown == [list EXCEPT ![1].configs = Append(@, result)]
           d == [list[1] EXCEPT !.configs = Append(@, result)]
<1>1. 1 \in 1 .. Len(list) /\ list[1] \in Entries /\ Len(list) \in Nat
  BY EmptySeq
<1>2. list[1].configs \in Seq(Results)
  BY <1>1 DEF Entries
<1>3. Append(list[1].configs, result) \in Seq(Results)
  BY <1>2
<1>4. /\ d \in [filename : Slots \X Models, configs : Seq(Results), from : Products]
      /\ d.filename = list[1].filename /\ d.from = list[1].from
      /\ d.configs = Append(list[1].configs, result)
  BY <1>1, <1>3 DEF Entries
<1>5. d \in Entries
  BY <1>1, <1>4 DEF Entries
<1> HIDE DEF d, grown
<1>6. grown = [list EXCEPT ![1] = d]
  BY DEF d, grown
<1>7. grown \in Seq(Entries) /\ Len(grown) = Len(list)
  <2> DEFINE e == [list EXCEPT ![1] = d]
  <2>1. e \in Seq(Entries) /\ Len(e) = Len(list)
    BY <1>1, <1>5, ExceptSeq
  <2> HIDE DEF e
  <2>2. grown = e
    BY <1>6 DEF e
  <2> QED
    BY <2>1, <2>2
<1>8. \A k \in 1 .. Len(list) : grown[k] = IF k = 1 THEN d ELSE list[k]
  BY <1>1, <1>6
<1>9. grown # <<>>
  BY <1>1, <1>7, EmptySeq
<1> QED
  BY <1>1, <1>4, <1>7, <1>8, <1>9 DEF GrownBy, grown

\* Steps from one new device to the next.
LEMMA NextNewTyped ==
    ASSUME TypeInv, call.found # <<>>
    PROVE  /\ NextNew(call) \in CallType
           /\ NextNew(call).pc = "open" /\ NextNew(call).i = 1
           /\ NextNew(call).found = Tail(call.found)
           /\ NextNew(call).changed = call.changed /\ NextNew(call).refused = call.refused
<1>1. call \in CallType
  BY DEF TypeInv, CallType
<1>2. PICK others : others = Tail(call.found)
  OBVIOUS
<1>3. others \in Seq(Entries)
  BY <1>2, NewDevices
<1>4. NextNew(call) = [call EXCEPT !.pc = "open", !.found = others, !.i = 1]
  BY <1>2 DEF NextNew
<1>5. "open" \in Pcs /\ 1 \in Nat \ {0}
  BY DEF Pcs
<1> QED
  BY <1>1, <1>2, <1>3, <1>4, <1>5 DEF CallType

\* Every step of the library keeps the types.
LEMMA FindTyped == TypeInv /\ Find => TypeInv'
<1> SUFFICES ASSUME TypeInv, Find PROVE TypeInv'
  OBVIOUS
<1>1. /\ call \in CallType /\ devices \in Seq(Entries)
      /\ port \in [Slots -> Products \cup {Nothing}]
  BY DEF TypeInv, CallType
<1>2. UNCHANGED port
  BY DEF Find, usb_find_busses, usb_find_devices, usb_os_find_devices, Compare, NotFetched,
         Opened, HeaderFetched, WholeFetched, FetchFails, Added,
         usb_os_determine_children, Return
<1>3. NoCall \in CallType
  BY DEF NoCall, CallType, Pcs
<1> SUFFICES call' \in CallType /\ devices' \in Seq(Entries)
  BY <1>1, <1>2 DEF TypeInv, CallType
<1>4. CASE usb_find_busses
  BY <1>1, <1>4 DEF usb_find_busses
<1>5. CASE usb_find_devices
  <2>1. PICK c : c = [NoCall EXCEPT !.pc = "names"]
    OBVIOUS
  <2>2. c \in CallType
    BY <1>3, <2>1 DEF CallType, Pcs
  <2> QED
    BY <1>1, <1>5, <2>1, <2>2 DEF usb_find_devices
<1>6. CASE usb_os_find_devices
  <2>1. PICK answers \in Answers :
           LET there == port[call.i] # Nothing IN
           call' = [call EXCEPT
              !.i = @ + 1,
              !.found = IF there /\ answers THEN <<NewDevice(call.i)>> \o @ ELSE @,
              !.refused = IF there /\ ~answers THEN @ \cup {call.i} ELSE @]
    BY <1>6 DEF usb_os_find_devices
  <2>2. call.i \in Slots
    BY <1>6 DEF usb_os_find_devices
  <2>3. port[call.i] # Nothing => NewDevice(call.i) \in Entries
    <3>1. port[call.i] # Nothing => port[call.i] \in Products
      BY <1>1, <2>2
    <3>2. <<>> \in Seq(Results)
      OBVIOUS
    <3> QED
      BY <2>2, <3>1, <3>2 DEF NewDevice, Entries, Models
  <2> DEFINE found == IF port[call.i] # Nothing /\ answers
                      THEN <<NewDevice(call.i)>> \o call.found ELSE call.found
             refused == IF port[call.i] # Nothing /\ ~answers
                        THEN call.refused \cup {call.i} ELSE call.refused
  <2>4. found \in Seq(Entries)
    <3>1. port[call.i] # Nothing => <<NewDevice(call.i)>> \in Seq(Entries)
      BY <2>3
    <3>2. call.found \in Seq(Entries)
      BY <1>1 DEF CallType
    <3> QED
      BY <3>1, <3>2
  <2>5. refused \in SUBSET Slots /\ call.i + 1 \in Nat \ {0}
    BY <1>1, <2>2 DEF CallType
  <2>6. call' = [call EXCEPT !.i = @ + 1, !.found = found, !.refused = refused]
    BY <2>1
  <2> HIDE DEF found, refused
  <2>7. call' \in CallType
    BY <1>1, <2>4, <2>5, <2>6 DEF CallType, Pcs
  <2> QED
    BY <1>1, <1>6, <2>7 DEF usb_os_find_devices
<1>7. CASE Compare
  <2> DEFINE d == Sift(devices, call.found, TRUE)
             f == Sift(call.found, devices, FALSE)
  <2>1. call.found \in Seq(Entries)
    BY <1>1 DEF CallType
  <2>2. d \in Seq(Entries) /\ f \in Seq(Entries)
    BY <1>1, <2>1, Sifted DEF SiftedAs
  <2>3. devices' = d /\ call' = [call EXCEPT !.pc = "open", !.i = 1, !.found = f]
    BY <1>7 DEF Compare
  <2> HIDE DEF d, f
  <2>4. "open" \in Pcs /\ 1 \in Nat \ {0}
    BY DEF Pcs
  <2>5. call' \in CallType
    BY <1>1, <2>2, <2>3, <2>4 DEF CallType
  <2> QED
    BY <2>2, <2>3, <2>5
<1>8. CASE NotFetched
  <2>1. call' = NextNew(call) /\ call.found # <<>>
    BY <1>8 DEF NotFetched, At
  <2> QED
    BY <1>1, <1>8, <2>1, NextNewTyped DEF NotFetched
<1>9. CASE Opened \/ HeaderFetched
  BY <1>1, <1>9 DEF Opened, HeaderFetched, CallType, Pcs
<1>10. CASE WholeFetched
  <2>1. At("whole") /\ call.found # <<>> /\ Sends(Slot(New), call.i)
    BY <1>10 DEF WholeFetched, At
  <2>2. PICK beyond \in BOOLEAN :
          call' = [call EXCEPT !.pc = "header", !.i = @ + 1,
            !.found[1].configs = Append(@,
                usb_parse_configuration(port[Slot(New)].configs[call.i], beyond))]
    BY <1>10 DEF WholeFetched
  <2> DEFINE result == usb_parse_configuration(port[Slot(New)].configs[call.i], beyond)
             grown == [call.found EXCEPT ![1].configs = Append(@, result)]
  <2>3. result \in Results
    BY <2>1, WholeTyped
  <2> HIDE DEF result
  <2>4. call.found \in Seq(Entries) /\ call.i + 1 \in Nat \ {0}
    BY <1>1 DEF CallType
  <2>5. grown \in Seq(Entries)
    BY <2>1, <2>3, <2>4, GrownFound DEF GrownBy
  <2>6. call' = [call EXCEPT !.pc = "header", !.i = @ + 1, !.found = grown]
    BY <1>1, <2>2 DEF CallType, result
  <2> HIDE DEF grown
  <2>7. call' \in CallType
    BY <1>1, <2>4, <2>5, <2>6 DEF CallType, Pcs
  <2> QED
    BY <1>1, <1>10, <2>7 DEF WholeFetched
<1>11. CASE FetchFails
  <2>1. call.found # <<>> /\ devices' = devices
    BY <1>11 DEF FetchFails, At
  <2>2. Slot(New) \in Slots
    BY <2>1, NewDevices, EntryFacts
  <2> DEFINE refused == IF Sends(Slot(New), call.i)
                        THEN NextNew(call).refused \cup {Slot(New)} ELSE NextNew(call).refused
  <2>3. NextNew(call) \in CallType /\ refused \in SUBSET Slots
    BY <2>1, <2>2, NextNewTyped DEF CallType
  <2>4. call' = [NextNew(call) EXCEPT !.refused = refused]
    BY <1>11 DEF FetchFails
  <2> HIDE DEF refused
  <2> QED
    BY <1>1, <2>1, <2>3, <2>4 DEF CallType
<1>12. CASE Added
  <2>1. call' = NextNew(call) /\ call.found # <<>> /\ devices' = <<New>> \o devices
    BY <1>12 DEF Added, At
  <2>2. <<New>> \in Seq(Entries)
    BY <2>1, NewDevices
  <2> QED
    BY <1>1, <2>1, <2>2, NextNewTyped
<1>13. CASE usb_os_determine_children \/ Return
  BY <1>1, <1>3, <1>13 DEF usb_os_determine_children, Return, CallType, Pcs
<1> QED
  BY <1>4, <1>5, <1>6, <1>7, <1>8, <1>9, <1>10, <1>11, <1>12, <1>13 DEF Find

\* A device that comes or goes changes what is at its name, and nothing else
\* but the account of it.
LEMMA PortSteps ==
    ASSUME TypeInv, NEW slot \in Slots, Unplug(slot) \/ \E product \in Products : Plug(slot, product)
    PROVE  /\ TypeInv' /\ UNCHANGED <<busses, devices, children>>
           /\ call'.pc = call.pc /\ call'.i = call.i /\ call'.found = call.found
           /\ call'.refused = call.refused
           /\ call'.changed = IF call.pc = "idle" THEN {} ELSE call.changed \cup {slot}
           /\ \A s \in Slots : s # slot => port'[s] = port[s]
           /\ "Replug" \notin Env => slot \notin call.changed
           /\ port[slot] # Nothing => port'[slot] = Nothing
<1>1. call \in CallType /\ port \in [Slots -> Products \cup {Nothing}]
  BY DEF TypeInv, CallType
<1>2. /\ Changed(slot) /\ UNCHANGED <<busses, devices, children>>
      /\ "Replug" \notin Env => slot \notin call.changed
  BY DEF Unplug, Plug
<1>3. /\ \E product \in Products \cup {Nothing} : port' = [port EXCEPT ![slot] = product]
      /\ port[slot] # Nothing => port' = [port EXCEPT ![slot] = Nothing]
  BY DEF Unplug, Plug
<1>4. /\ port' \in [Slots -> Products \cup {Nothing}]
      /\ \A s \in Slots : s # slot => port'[s] = port[s]
      /\ port[slot] # Nothing => port'[slot] = Nothing
  BY <1>1, <1>3
<1> DEFINE changed == IF call.pc = "idle" THEN {} ELSE call.changed \cup {slot}
<1>5. changed \in SUBSET Slots
  BY <1>1 DEF CallType
<1>6. call' = [call EXCEPT !.changed = changed]
  BY <1>2 DEF Changed
<1> HIDE DEF changed
<1>7. /\ call' \in CallType /\ call'.changed = changed
      /\ call'.pc = call.pc /\ call'.i = call.i /\ call'.found = call.found
      /\ call'.refused = call.refused
  BY <1>1, <1>5, <1>6 DEF CallType
<1>8. TypeInv'
  BY <1>2, <1>4, <1>7 DEF TypeInv, CallType
<1> QED
  BY <1>2, <1>4, <1>7, <1>8 DEF changed

LEMMA NextTyped == TypeInv /\ [Next]_vars => TypeInv'
<1>1. ASSUME TypeInv, UNCHANGED vars PROVE TypeInv'
  BY <1>1 DEF TypeInv, vars
<1> QED
  BY <1>1, FindTyped, PortSteps DEF Next

\* The list and the new devices are entries made from products, whatever the
\* devices answer and whenever they come and go (usb.c, windows.c).
THEOREM TypesHold == Spec => []TypeInv
<1>1. Init => TypeInv
  <2> SUFFICES ASSUME Init PROVE TypeInv
    OBVIOUS
  <2>1. port \in [Slots -> Products \cup {Nothing}] /\ devices \in Seq(Entries)
    BY DEF Init
  <2>2. call \in CallType
    BY DEF Init, NoCall, CallType, Pcs
  <2> QED
    BY <2>1, <2>2 DEF TypeInv, CallType
<1> QED
  BY <1>1, NextTyped, PTL DEF Spec

\* A list with one more device in front, and one without its first.
InFront(t, d, list) ==
    /\ t \in Seq(Entries) /\ 1 \in 1 .. Len(t) /\ t[1] = d
    /\ \A k \in 1 .. Len(list) : k + 1 \in 1 .. Len(t) /\ t[k + 1] = list[k]
    /\ \A j \in 1 .. Len(t) : j = 1 \/ (j - 1 \in 1 .. Len(list) /\ t[j] = list[j - 1])
    /\ SlotsOf(t) = SlotsOf(list) \cup {Slot(d)}
    /\ Distinct(list) /\ Slot(d) \notin SlotsOf(list) => Distinct(t)

\* A list with one more device in front.
LEMMA Prepended ==
    ASSUME NEW list \in Seq(Entries), NEW d \in Entries
    PROVE  InFront(<<d>> \o list, d, list)
<1> DEFINE t == <<d>> \o list
<1>1. <<d>> \in Seq(Entries) /\ Len(<<d>>) = 1 /\ <<d>>[1] = d /\ Len(list) \in Nat
  OBVIOUS
<1>2. t \in Seq(Entries) /\ Len(t) = Len(list) + 1
  BY <1>1, ConcatProperties
<1>3. \A j \in 1 .. Len(list) + 1 : t[j] = IF j = 1 THEN d ELSE list[j - 1]
  BY <1>1, ConcatProperties
<1> HIDE DEF t
<1>4. 1 \in 1 .. Len(t) /\ t[1] = d
  BY <1>1, <1>2, <1>3
<1>5. \A k \in 1 .. Len(list) : k + 1 \in 1 .. Len(t) /\ t[k + 1] = list[k]
  BY <1>1, <1>2, <1>3
<1>6. \A j \in 1 .. Len(t) : j = 1 \/ (j - 1 \in 1 .. Len(list) /\ t[j] = list[j - 1])
  BY <1>1, <1>2, <1>3
<1>7. SlotsOf(t) = SlotsOf(list) \cup {Slot(d)}
  <2>1. \A j \in 1 .. Len(t) : Slot(t[j]) \in SlotsOf(list) \cup {Slot(d)}
    BY <1>4, <1>6 DEF SlotsOf
  <2>2. \A k \in 1 .. Len(list) : Slot(list[k]) \in SlotsOf(t)
    <3> SUFFICES ASSUME NEW k \in 1 .. Len(list) PROVE Slot(list[k]) \in SlotsOf(t)
      OBVIOUS
    <3>1. k + 1 \in 1 .. Len(t) /\ Slot(t[k + 1]) = Slot(list[k])
      BY <1>5
    <3> QED
      BY <3>1 DEF SlotsOf
  <2>3. Slot(d) \in SlotsOf(t)
    BY <1>4 DEF SlotsOf
  <2>4. SlotsOf(t) \subseteq SlotsOf(list) \cup {Slot(d)}
    BY <2>1 DEF SlotsOf
  <2>5. SlotsOf(list) \subseteq SlotsOf(t)
    BY <2>2 DEF SlotsOf
  <2> QED
    BY <2>3, <2>4, <2>5
<1>8. ASSUME Distinct(list), Slot(d) \notin SlotsOf(list),
             NEW j \in 1 .. Len(t), NEW k \in 1 .. Len(t), Slot(t[j]) = Slot(t[k])
      PROVE  j = k
  <2>1. CASE j = 1
    BY <1>4, <1>6, <1>8, <2>1 DEF SlotsOf
  <2>2. CASE k = 1
    BY <1>4, <1>6, <1>8, <2>2 DEF SlotsOf
  <2>3. CASE j # 1 /\ k # 1
    <3>1. j - 1 = k - 1
      BY <1>6, <1>8, <2>3 DEF Distinct
    <3> QED
      BY <3>1
  <2> QED
    BY <2>1, <2>2, <2>3
<1>9. Distinct(list) /\ Slot(d) \notin SlotsOf(list) => Distinct(t)
  BY <1>8 DEF Distinct
<1> QED
  BY <1>2, <1>4, <1>5, <1>6, <1>7, <1>9 DEF InFront, t

Shorter(t, d, list) ==
    /\ SlotsOf(list) = SlotsOf(t) \cup {Slot(d)}
    /\ Slot(d) \notin SlotsOf(t) /\ Distinct(t)
    /\ \A k \in 1 .. Len(t) : \E j \in 1 .. Len(list) : t[k] = list[j]

\* A list without its first device.
LEMMA Shortened ==
    ASSUME TypeInv, call.found # <<>>, Distinct(call.found)
    PROVE  Shorter(Tail(call.found), New, call.found)
<1> DEFINE f == call.found
           N == Len(f)
           t == Tail(call.found)
<1>1. /\ N \in Nat /\ Len(t) = N - 1 /\ 1 \in 1 .. N /\ f[1] = New
      /\ \A k \in 1 .. Len(t) : k + 1 \in 1 .. N /\ t[k] = f[k + 1]
  BY NewDevices
<1>2. \A j \in 1 .. N : j = 1 \/ (j - 1 \in 1 .. Len(t) /\ f[j] = t[j - 1])
  <2>1. ASSUME NEW j \in 1 .. N, j # 1 PROVE j - 1 \in 1 .. Len(t) /\ (j - 1) + 1 = j
    BY <1>1, <2>1
  <2> QED
    BY <1>1, <2>1
<1> HIDE DEF f, N, t
<1>3. \A j, k \in 1 .. N : Slot(f[j]) = Slot(f[k]) => j = k
  BY DEF Distinct, f, N
<1>4. SlotsOf(f) = SlotsOf(t) \cup {Slot(New)}
  <2>1. \A j \in 1 .. N : Slot(f[j]) \in SlotsOf(t) \cup {Slot(New)}
    BY <1>1, <1>2 DEF SlotsOf
  <2>2. \A k \in 1 .. Len(t) : Slot(t[k]) \in SlotsOf(f)
    <3> SUFFICES ASSUME NEW k \in 1 .. Len(t) PROVE Slot(t[k]) \in SlotsOf(f)
      OBVIOUS
    <3>1. k + 1 \in 1 .. N /\ Slot(f[k + 1]) = Slot(t[k])
      BY <1>1
    <3> QED
      BY <3>1 DEF SlotsOf, N
  <2>3. Slot(New) \in SlotsOf(f)
    BY <1>1 DEF SlotsOf, N
  <2>4. SlotsOf(f) \subseteq SlotsOf(t) \cup {Slot(New)}
    BY <2>1 DEF SlotsOf, N
  <2>5. SlotsOf(t) \subseteq SlotsOf(f)
    BY <2>2 DEF SlotsOf
  <2> QED
    BY <2>3, <2>4, <2>5
<1>5. Slot(New) \notin SlotsOf(t)
  <2> SUFFICES ASSUME NEW k \in 1 .. Len(t), Slot(t[k]) = Slot(New) PROVE FALSE
    BY DEF SlotsOf
  <2>1. k + 1 = 1
    BY <1>1, <1>3
  <2> QED
    BY <2>1
<1>6. ASSUME NEW j \in 1 .. Len(t), NEW k \in 1 .. Len(t), Slot(t[j]) = Slot(t[k])
      PROVE  j = k
  <2>1. j + 1 = k + 1
    BY <1>1, <1>3, <1>6
  <2> QED
    BY <2>1
<1> QED
  BY <1>1, <1>4, <1>5, <1>6 DEF Distinct, Shorter, f, N, t

\* A name is looked at: its device is in front of those found, or has refused.
LEMMA NamesKeepList ==
    ASSUME TypeInv, ListInv, usb_os_find_devices PROVE ListInv'
<1> DEFINE i == call.i
           there == port[i] # Nothing
<1>1. /\ call.pc = "names" /\ i \in Slots /\ NamesInv /\ UNCHANGED <<port, devices, children>>
      /\ call.found \in Seq(Entries) /\ call \in CallType /\ Distinct(call.found)
  BY DEF usb_os_find_devices, ListInv, TypeInv, CallType
<1>2. PICK answers \in Answers :
         call' = [call EXCEPT
            !.i = @ + 1,
            !.found = IF there /\ answers THEN <<NewDevice(i)>> \o @ ELSE @,
            !.refused = IF there /\ ~answers THEN @ \cup {i} ELSE @]
  BY DEF usb_os_find_devices
<1>3. /\ call'.pc = "names" /\ call'.i = i + 1 /\ call'.changed = call.changed
      /\ call'.found = IF there /\ answers THEN <<NewDevice(i)>> \o call.found ELSE call.found
      /\ call'.refused = IF there /\ ~answers THEN call.refused \cup {i} ELSE call.refused
  BY <1>1, <1>2 DEF CallType
<1>4. i \in Nat \ {0} /\ NumSlots \in Nat /\ i + 1 \in 1 .. NumSlots + 1
  BY <1>1, EnvAssumption DEF Slots
<1>5. there => NewDevice(i) \in Entries /\ Slot(NewDevice(i)) = i /\ NewDevice(i).from = port[i]
  <2>1. there => port[i] \in Products
    BY <1>1, PortFacts
  <2> QED
    BY <1>1, <2>1 DEF NewDevice, Entries, Models, Slot
<1> HIDE DEF i, there
<1>6. \A k \in 1 .. Len(call.found) : Slot(call.found[k]) \in Nat /\ Slot(call.found[k]) < i
  <2>1. \A k \in 1 .. Len(call.found) : call.found[k] \in Entries
    BY <1>1
  <2>2. \A k \in 1 .. Len(call.found) : Slot(call.found[k]) \in Slots
    BY <2>1, EntryFacts
  <2> QED
    BY <1>1, <2>2 DEF NamesInv, Slots, i
<1>7. i \notin SlotsOf(call.found)
  BY <1>4, <1>6 DEF SlotsOf
<1>8. \A s \in Steady' : s \in Steady /\ s \in Nat /\ (s < i + 1 => s < i \/ s = i)
  BY <1>3, <1>4 DEF Steady, Slots
<1>9. CASE there /\ answers
  <2>7. PICK d, t : d = NewDevice(i) /\ t = call'.found
    OBVIOUS
  <2>1. d \in Entries /\ Slot(d) = i /\ t = <<d>> \o call.found /\ d.from = port[i]
    BY <1>3, <1>5, <1>9, <2>7
  <2>6. Slot(d) \notin SlotsOf(call.found)
    BY <1>7, <2>1
  <2>8. InFront(t, d, call.found)
    BY <1>1, <2>1, Prepended
  <2>2. /\ Distinct(t) /\ SlotsOf(t) = SlotsOf(call.found) \cup {i}
        /\ t[1] = d
        /\ \A j \in 1 .. Len(t) :
             j = 1 \/ (j - 1 \in 1 .. Len(call.found) /\ t[j] = call.found[j - 1])
    BY <1>1, <2>1, <2>6, <2>8 DEF InFront
  <2>3. \A k \in 1 .. Len(t) : Slot(t[k]) < i + 1
    <3>1. i < i + 1 /\ \A n \in Nat : n < i => n < i + 1
      BY <1>4
    <3> QED
      BY <1>6, <2>1, <2>2, <3>1
  <2>4. ASSUME NEW s \in Steady', s < i + 1
        PROVE  /\ port[s] # Nothing => s \in SlotsOf(t)
               /\ \A k \in 1 .. Len(t) : Slot(t[k]) = s => t[k].from = port[s]
    <3>1. CASE s < i
      <4>1. s # i
        BY <1>4, <1>8, <2>4, <3>1
      <4> QED
        BY <1>1, <1>8, <2>1, <2>2, <2>4, <3>1, <4>1 DEF NamesInv, i
    <3>2. CASE s = i
      <4>1. ASSUME NEW k \in 1 .. Len(t), Slot(t[k]) = i PROVE k = 1
        BY <1>7, <2>2, <4>1 DEF SlotsOf
      <4> QED
        BY <2>1, <2>2, <3>2, <4>1
    <3> QED
      BY <1>8, <2>4, <3>1, <3>2
  <2>5. NamesInv'
    BY <1>1, <1>3, <1>4, <2>3, <2>4, <2>7 DEF NamesInv
  <2> QED
    BY <1>1, <1>3, <2>2, <2>5, <2>7 DEF ListInv
<1>10. CASE ~(there /\ answers)
  <2>1. call'.found = call.found
    BY <1>3, <1>10
  <2>2. \A k \in 1 .. Len(call.found) : Slot(call.found[k]) < i + 1
    <3>1. \A n \in Nat : n < i => n < i + 1
      BY <1>4
    <3> QED
      BY <1>6, <3>1
  <2>3. ASSUME NEW s \in Steady', s < i + 1
        PROVE  /\ port[s] # Nothing => s \in SlotsOf(call.found)
               /\ \A k \in 1 .. Len(call.found) :
                    Slot(call.found[k]) = s => call.found[k].from = port[s]
    <3>1. CASE s < i
      BY <1>1, <1>8, <2>3, <3>1 DEF NamesInv, i
    <3>2. CASE s = i
      <4>1. ~there
        BY <1>3, <1>10, <2>3, <3>2 DEF Steady
      <4> QED
        BY <1>7, <3>2, <4>1 DEF there, SlotsOf
    <3> QED
      BY <1>8, <2>3, <3>1, <3>2
  <2>4. NamesInv'
    BY <1>1, <1>3, <1>4, <2>1, <2>2, <2>3 DEF NamesInv
  <2> QED
    BY <1>1, <1>3, <2>1, <2>4 DEF ListInv
<1> QED
  BY <1>9, <1>10

\* The comparison parts what was found from what was known.
LEMMA CompareKeepsList ==
    ASSUME TypeInv, ListInv, Compare PROVE ListInv'
<1>1. /\ call.pc = "names" /\ call.i \notin Slots /\ NamesInv /\ UNCHANGED <<port, children>>
      /\ call.found \in Seq(Entries) /\ devices \in Seq(Entries) /\ call \in CallType
      /\ Distinct(call.found) /\ Distinct(devices)
      /\ \A k \in 1 .. Len(devices) : Valid(devices[k].from)
  BY DEF Compare, ListInv, TypeInv, CallType
<1>2. PICK found, d, f : found = call.found /\ d = devices' /\ f = call'.found
  OBVIOUS
<1>3. /\ SiftedAs(devices, found, TRUE, d) /\ SiftedAs(found, devices, FALSE, f)
      /\ call'.pc = "open" /\ call'.changed = call.changed /\ call'.refused = call.refused
  <2>1. /\ devices' = Sift(devices, call.found, TRUE)
        /\ call' = [call EXCEPT !.pc = "open", !.i = 1, !.found = Sift(@, devices, FALSE)]
    BY DEF Compare
  <2>2. call'.found = Sift(call.found, devices, FALSE)
    BY <1>1, <2>1 DEF CallType
  <2>3. d = Sift(devices, found, TRUE) /\ f = Sift(found, devices, FALSE)
    BY <1>2, <2>1, <2>2
  <2>4. SiftedAs(devices, found, TRUE, Sift(devices, found, TRUE))
    BY <1>1, <1>2, Sifted
  <2>5. SiftedAs(found, devices, FALSE, Sift(found, devices, FALSE))
    BY <1>1, <1>2, Sifted
  <2>6. /\ call'.pc = "open" /\ call'.changed = call.changed /\ call'.refused = call.refused
    BY <1>1, <2>1 DEF CallType
  <2> QED
    BY <2>3, <2>4, <2>5, <2>6
<1>4. /\ \A k \in 1 .. Len(devices) : devices[k] \in Entries
      /\ \A k \in 1 .. Len(found) : found[k] \in Entries
  BY <1>1, <1>2
<1>5. \A s \in Steady :
        /\ port[s] # Nothing => s \in SlotsOf(found)
        /\ \A k \in 1 .. Len(found) : Slot(found[k]) = s => found[k].from = port[s]
  <2>1. \A s \in Slots : s < call.i
    BY <1>1, EnvAssumption DEF NamesInv, Slots
  <2> QED
    BY <1>1, <1>2, <2>1 DEF NamesInv, Steady
<1>6. Steady' = Steady
  BY <1>3 DEF Steady
<1>7. Distinct(d) /\ Distinct(f)
  BY <1>1, <1>2, <1>3 DEF SiftedAs
<1>8. \A k \in 1 .. Len(d) : Valid(d[k].from)
  BY <1>1, <1>3 DEF SiftedAs
<1>9. ASSUME NEW j \in 1 .. Len(d), NEW k \in 1 .. Len(f) PROVE Slot(d[j]) # Slot(f[k])
  <2>1. PICK old \in 1 .. Len(devices) : d[j] = devices[old] /\ IsIn(devices[old], found)
    BY <1>3 DEF SiftedAs
  <2>2. PICK m \in 1 .. Len(found) : SameFile(devices[old], found[m])
    BY <1>1, <1>2, <2>1 DEF IsIn
  <2>3. PICK n \in 1 .. Len(found) : f[k] = found[n] /\ ~IsIn(found[n], devices)
    BY <1>3 DEF SiftedAs
  <2>4. ASSUME n = m PROVE FALSE
    <3>1. SameFile(found[n], devices[old])
      BY <2>2, <2>4 DEF SameFile
    <3>2. old \in DOMAIN devices
      BY <1>1
    <3> QED
      BY <2>3, <3>1, <3>2 DEF IsIn
  <2>5. Slot(found[m]) # Slot(found[n])
    BY <1>1, <1>2, <2>4 DEF Distinct
  <2> QED
    BY <2>1, <2>2, <2>3, <2>5 DEF SameFile, Slot
<1>10. SlotsOf(d) \cap SlotsOf(f) = {}
  BY <1>9 DEF SlotsOf
<1>11. ASSUME NEW s \in Steady, Valid(port[s]) PROVE s \in SlotsOf(d) \cup SlotsOf(f)
  <2>1. port[s] # Nothing
    BY PortFacts, <1>11 DEF Steady
  <2>2. PICK k \in 1 .. Len(found) : Slot(found[k]) = s
    BY <1>5, <2>1 DEF SlotsOf
  <2>3. CASE IsIn(found[k], devices)
    <3>1. PICK old \in 1 .. Len(devices) : SameFile(found[k], devices[old])
      BY <1>1, <2>3 DEF IsIn
    <3>2. IsIn(devices[old], found) /\ Slot(devices[old]) = s
      <4>1. k \in DOMAIN found /\ SameFile(devices[old], found[k])
        BY <1>1, <1>2, <3>1 DEF SameFile
      <4> QED
        BY <2>2, <4>1 DEF IsIn, SameFile, Slot
    <3>3. PICK j \in 1 .. Len(d) : d[j] = devices[old]
      BY <1>3, <3>2 DEF SiftedAs
    <3> QED
      BY <3>2, <3>3 DEF SlotsOf
  <2>4. CASE ~IsIn(found[k], devices)
    <3>1. IsIn(found[k], devices) = FALSE
      BY <2>4 DEF IsIn
    <3>2. PICK j \in 1 .. Len(f) : f[j] = found[k]
      BY <1>3, <3>1 DEF SiftedAs
    <3> QED
      BY <2>2, <3>2 DEF SlotsOf
  <2> QED
    BY <2>3, <2>4
<1>12. ASSUME NEW s \in Steady, NEW k \in 1 .. Len(d), Slot(d[k]) = s
       PROVE  port[s] # Nothing /\ d[k].filename[2] = port[s].model
  <2>1. PICK old \in 1 .. Len(devices) : d[k] = devices[old] /\ IsIn(devices[old], found)
    BY <1>3 DEF SiftedAs
  <2>2. PICK m \in 1 .. Len(found) : SameFile(devices[old], found[m])
    BY <1>1, <1>2, <2>1 DEF IsIn
  <2>3. Slot(found[m]) = s /\ found[m].filename[2] = d[k].filename[2]
    BY <1>12, <2>1, <2>2 DEF SameFile, Slot
  <2>4. found[m].from = port[s]
    BY <1>5, <2>3
  <2> QED
    BY <1>4, <2>3, <2>4, EntryFacts
<1>13. ASSUME NEW s \in Steady, NEW k \in 1 .. Len(f), Slot(f[k]) = s
       PROVE  f[k].from = port[s]
  <2>1. PICK m \in 1 .. Len(found) : f[k] = found[m]
    BY <1>3 DEF SiftedAs
  <2> QED
    BY <1>5, <1>13, <2>1
<1>14. FetchInv'
  BY <1>1, <1>2, <1>6, <1>10, <1>11, <1>12, <1>13 DEF FetchInv
<1> QED
  BY <1>2, <1>3, <1>7, <1>8, <1>14 DEF ListInv

\* A new device may be dropped if it offers nothing, or has refused, or
\* another has its name.
LEMMA DropKeepsList ==
    ASSUME TypeInv, ListInv, call.pc \in {"open", "header", "whole"}, call.found # <<>>,
           UNCHANGED <<port, devices>>, call'.pc = "open", call'.found = Tail(call.found),
           call'.changed = call.changed, call.refused \subseteq call'.refused,
           Slot(New) \in Steady' => ~Valid(port[Slot(New)])
    PROVE  ListInv'
<1>1. /\ FetchInv /\ Distinct(devices) /\ Distinct(call.found)
      /\ \A k \in 1 .. Len(devices) : Valid(devices[k].from)
  BY DEF ListInv
<1>2. PICK t, d : t = call'.found /\ d = New
  OBVIOUS
<1>3. Shorter(t, d, call.found)
  BY <1>1, <1>2, Shortened
<1>4. Steady' \subseteq Steady
  BY DEF Steady
<1>5. SlotsOf(devices) \cap SlotsOf(t) = {}
  BY <1>1, <1>3 DEF FetchInv, Shorter
<1>6. ASSUME NEW s \in Steady'
      PROVE  /\ Valid(port[s]) => s \in SlotsOf(devices) \cup SlotsOf(t)
             /\ \A k \in 1 .. Len(devices) : Slot(devices[k]) = s =>
                  port[s] # Nothing /\ devices[k].filename[2] = port[s].model
             /\ \A k \in 1 .. Len(t) : Slot(t[k]) = s => t[k].from = port[s]
  <2>1. s \in Steady
    BY <1>4
  <2>2. Valid(port[s]) => s \in SlotsOf(devices) \cup SlotsOf(call.found) /\ s # Slot(d)
    BY <1>1, <1>2, <1>6, <2>1 DEF FetchInv
  <2>3. SlotsOf(call.found) = SlotsOf(t) \cup {Slot(d)}
    BY <1>3 DEF Shorter
  <2>4. \A k \in 1 .. Len(t) : Slot(t[k]) = s => t[k].from = port[s]
    BY <1>1, <1>3, <2>1 DEF FetchInv, Shorter
  <2> QED
    BY <1>1, <2>1, <2>2, <2>3, <2>4 DEF FetchInv
<1>7. FetchInv'
  BY <1>2, <1>5, <1>6 DEF FetchInv
<1> QED
  BY <1>1, <1>2, <1>3, <1>7 DEF ListInv, Shorter

\* What a request has fetched.
LEMMA WholeKeepsList ==
    ASSUME TypeInv, ListInv, WholeFetched PROVE ListInv'
<1>1. /\ call.pc = "whole" /\ call.found # <<>> /\ UNCHANGED <<port, devices, children>>
      /\ Sends(Slot(New), call.i) /\ At("whole") /\ call \in CallType
      /\ call.found \in Seq(Entries)
  BY DEF WholeFetched, At, TypeInv, CallType
<1>2. PICK beyond \in BOOLEAN :
          call' = [call EXCEPT !.pc = "header", !.i = @ + 1,
            !.found[1].configs = Append(@,
                usb_parse_configuration(port[Slot(New)].configs[call.i], beyond))]
  BY DEF WholeFetched
<1> DEFINE result == usb_parse_configuration(port[Slot(New)].configs[call.i], beyond)
           list == call.found
<1>3. result \in Results
  BY <1>1, WholeTyped
<1> HIDE DEF result, list
<1>4. PICK grown : /\ grown = [list EXCEPT ![1].configs = Append(@, result)]
                   /\ GrownBy(grown, list, result)
  BY <1>1, <1>3, GrownFound DEF list
<1>5. /\ grown \in Seq(Entries) /\ Len(grown) = Len(list) /\ grown # <<>>
      /\ \A k \in 1 .. Len(list) :
           grown[k].filename = list[k].filename /\ grown[k].from = list[k].from
  BY <1>4 DEF GrownBy
<1>6. /\ call'.pc = "header" /\ call'.found = grown
      /\ call'.changed = call.changed /\ call'.refused = call.refused
  BY <1>1, <1>2, <1>4 DEF CallType, result, list
<1>7. /\ FetchInv /\ Distinct(devices) /\ Distinct(list) /\ Valid(New.from)
      /\ \A k \in 1 .. Len(devices) : Valid(devices[k].from)
  BY <1>1 DEF ListInv, list
<1>8. \A k \in 1 .. Len(list) : Slot(grown[k]) = Slot(list[k])
  BY <1>5 DEF Slot
<1>9. SlotsOf(grown) = SlotsOf(list) /\ Distinct(grown)
  BY <1>5, <1>7, <1>8 DEF SlotsOf, Distinct
<1>10. New' = grown[1] /\ New = list[1] /\ 1 \in 1 .. Len(list)
  <2>1. New = list[1] /\ 1 \in 1 .. Len(list)
    BY <1>1, NewDevices DEF list
  <2> QED
    BY <1>5, <1>6, <2>1 DEF New
<1>11. Valid(New.from)'
  <2>1. New'.from = New.from
    BY <1>5, <1>10
  <2> QED
    BY <1>7, <2>1 DEF Valid
<1>12. Steady' = Steady
  BY <1>6 DEF Steady
<1>13. FetchInv'
  BY <1>1, <1>5, <1>6, <1>7, <1>8, <1>9, <1>12 DEF FetchInv, list
<1> QED
  BY <1>1, <1>5, <1>6, <1>7, <1>9, <1>11, <1>13 DEF ListInv

\* A device goes from the new ones to the list.
LEMMA AddKeepsList ==
    ASSUME TypeInv, ListInv, Added PROVE ListInv'
<1>1. /\ call.pc = "header" /\ call.found # <<>> /\ UNCHANGED <<port, children>>
      /\ devices' = <<New>> \o devices /\ call' = NextNew(call) /\ devices \in Seq(Entries)
  BY DEF Added, At, TypeInv
<1>2. /\ FetchInv /\ Distinct(devices) /\ Distinct(call.found) /\ Valid(New.from)
      /\ \A k \in 1 .. Len(devices) : Valid(devices[k].from)
  BY <1>1 DEF ListInv
<1>3. PICK t, d, list : t = call'.found /\ d = New /\ list = devices'
  OBVIOUS
<1>4. /\ t = Tail(call.found) /\ call'.pc = "open"
      /\ call'.changed = call.changed /\ call'.refused = call.refused
  BY <1>1, <1>3, NextNewTyped
<1>5. Shorter(t, d, call.found)
  BY <1>1, <1>2, <1>3, <1>4, Shortened
<1>6. d \in Entries /\ \E k \in 1 .. Len(call.found) : d = call.found[k]
  BY <1>1, <1>3, NewDevices
<1>7. InFront(list, d, devices)
  BY <1>1, <1>3, <1>6, Prepended
<1>8. SlotsOf(devices) \cap SlotsOf(call.found) = {} /\ Slot(d) \in SlotsOf(call.found)
  BY <1>2, <1>5 DEF FetchInv, Shorter
<1>9. Distinct(list) /\ SlotsOf(list) = SlotsOf(devices) \cup {Slot(d)}
  BY <1>2, <1>7, <1>8 DEF InFront
<1>10. \A j \in 1 .. Len(list) :
         list[j] = d \/ \E k \in 1 .. Len(devices) : list[j] = devices[k]
  BY <1>7 DEF InFront
<1>11. \A k \in 1 .. Len(list) : Valid(list[k].from)
  BY <1>2, <1>3, <1>10
<1>12. Steady' = Steady
  BY <1>4 DEF Steady
<1>13. SlotsOf(list) \cap SlotsOf(t) = {}
  BY <1>5, <1>8, <1>9 DEF Shorter
<1>14. ASSUME NEW s \in Steady
       PROVE  /\ Valid(port[s]) => s \in SlotsOf(list) \cup SlotsOf(t)
              /\ \A k \in 1 .. Len(list) : Slot(list[k]) = s =>
                   port[s] # Nothing /\ list[k].filename[2] = port[s].model
              /\ \A k \in 1 .. Len(t) : Slot(t[k]) = s => t[k].from = port[s]
  <2>1. Valid(port[s]) => s \in SlotsOf(list) \cup SlotsOf(t)
    BY <1>2, <1>5, <1>9 DEF FetchInv, Shorter
  <2>2. Slot(d) = s => port[s] # Nothing /\ d.filename[2] = port[s].model
    <3>1. Slot(d) = s => d.from = port[s]
      BY <1>2, <1>6 DEF FetchInv
    <3> QED
      BY <1>6, <3>1, EntryFacts
  <2>3. \A k \in 1 .. Len(devices) : Slot(devices[k]) = s =>
          port[s] # Nothing /\ devices[k].filename[2] = port[s].model
    BY <1>2 DEF FetchInv
  <2>4. \A k \in 1 .. Len(t) : Slot(t[k]) = s => t[k].from = port[s]
    BY <1>2, <1>5 DEF FetchInv, Shorter
  <2> QED
    BY <1>10, <2>1, <2>2, <2>3, <2>4
<1>15. FetchInv'
  BY <1>1, <1>3, <1>12, <1>13, <1>14 DEF FetchInv
<1> QED
  BY <1>3, <1>4, <1>5, <1>9, <1>11, <1>15 DEF ListInv, Shorter

\* Every step of the library keeps the list.
LEMMA FindKeepsList ==
    ASSUME TypeInv, ListInv, Find PROVE ListInv'
<1>1. call \in CallType /\ devices \in Seq(Entries)
  BY DEF TypeInv, CallType
<1>2. CASE usb_find_busses
  BY <1>2 DEF usb_find_busses, ListInv
<1>3. CASE usb_find_devices
  <2>1. /\ call'.pc = "names" /\ call'.i = 1 /\ call'.found = <<>>
        /\ UNCHANGED <<port, devices, children>>
    BY <1>3 DEF usb_find_devices, NoCall
  <2>2. \A s \in Slots : ~(s < 1)
    BY EnvAssumption DEF Slots
  <2>3. NamesInv'
    BY <2>1, <2>2, EnvAssumption DEF NamesInv, Steady
  <2> QED
    BY <2>1, <2>3 DEF ListInv, Distinct
<1>4. CASE NotFetched
  <2>1. /\ At("open") /\ call' = NextNew(call) /\ UNCHANGED <<port, devices>>
        /\ Configurations \notin 1 .. USB_MAXCONFIG \/ port[Slot(New)] = Nothing
        /\ call.pc = "open" /\ call.found # <<>>
    BY <1>4 DEF NotFetched, At
  <2>2. /\ call'.pc = "open" /\ call'.found = Tail(call.found)
        /\ call'.changed = call.changed /\ call'.refused = call.refused
    BY <2>1, NextNewTyped
  <2>3. ASSUME Slot(New) \in Steady' PROVE ~Valid(port[Slot(New)])
    <3>1. Slot(New) \in Steady /\ Slot(New) \in Slots
      BY <2>2, <2>3 DEF Steady
    <3>2. New.from = port[Slot(New)]
      BY <2>1, <3>1, NewDevices DEF ListInv, FetchInv
    <3> QED
      BY <2>1, <3>1, <3>2, PortFacts DEF Valid, Configurations
  <2> QED
    BY <2>1, <2>2, <2>3, DropKeepsList
<1>5. CASE Opened
  <2>1. /\ call.pc = "open" /\ call.found # <<>> /\ UNCHANGED <<port, devices, children>>
        /\ Valid(New.from) /\ call' = [call EXCEPT !.pc = "header"]
    BY <1>5 DEF Opened, At, Valid, Configurations
  <2>2. /\ call'.pc = "header" /\ call'.found = call.found
        /\ call'.changed = call.changed /\ call'.refused = call.refused
    BY <1>1, <2>1 DEF CallType
  <2>3. FetchInv' /\ Valid(New.from)'
    BY <2>1, <2>2 DEF ListInv, FetchInv, Steady, Valid, New
  <2> QED
    BY <2>1, <2>2, <2>3 DEF ListInv
<1>6. CASE HeaderFetched
  <2>1. /\ call.pc = "header" /\ call.found # <<>> /\ UNCHANGED <<port, devices, children>>
        /\ call' = [call EXCEPT !.pc = "whole"]
    BY <1>6 DEF HeaderFetched, At
  <2>2. /\ call'.pc = "whole" /\ call'.found = call.found
        /\ call'.changed = call.changed /\ call'.refused = call.refused
    BY <1>1, <2>1 DEF CallType
  <2>3. FetchInv' /\ Valid(New.from)'
    BY <2>1, <2>2 DEF ListInv, FetchInv, Steady, Valid, New
  <2> QED
    BY <2>1, <2>2, <2>3 DEF ListInv
<1>7. CASE FetchFails
  <2>1. /\ call.pc \in {"header", "whole"} /\ call.found # <<>> /\ UNCHANGED <<port, devices>>
        /\ call.i <= Configurations
        /\ call' = [NextNew(call) EXCEPT !.refused =
                IF Sends(Slot(New), call.i) THEN @ \cup {Slot(New)} ELSE @]
    BY <1>7 DEF FetchFails, At
  <2>2. /\ call'.pc = "open" /\ call'.found = Tail(call.found) /\ call'.changed = call.changed
        /\ call'.refused = IF Sends(Slot(New), call.i)
                           THEN call.refused \cup {Slot(New)} ELSE call.refused
    BY <2>1, NextNewTyped DEF CallType
  <2>3. ASSUME Slot(New) \in Steady' PROVE FALSE
    <3>1. ~Sends(Slot(New), call.i) /\ Slot(New) \in Steady
      BY <2>2, <2>3 DEF Steady
    <3>2. New.from = port[Slot(New)]
      BY <2>1, <3>1, NewDevices DEF ListInv, FetchInv
    <3> QED
      BY <2>1, <3>1, <3>2 DEF Sends, Configurations
  <2> QED
    BY <2>1, <2>2, <2>3, DropKeepsList
<1>8. CASE usb_os_determine_children
  <2>1. /\ call.pc = "open" /\ call.found = <<>> /\ UNCHANGED <<port, devices>>
        /\ children' = devices /\ call' = [call EXCEPT !.pc = "return"]
    BY <1>8 DEF usb_os_determine_children
  <2>2. /\ call'.pc = "return" /\ call'.found = call.found
        /\ call'.changed = call.changed /\ call'.refused = call.refused
    BY <1>1, <2>1 DEF CallType
  <2>3. FetchInv'
    BY <2>1, <2>2 DEF ListInv, FetchInv, Steady
  <2> QED
    BY <2>1, <2>2, <2>3 DEF ListInv
<1>9. CASE Return
  BY <1>9 DEF Return, ListInv, NoCall, Distinct
<1> QED
  BY <1>2, <1>3, <1>4, <1>5, <1>6, <1>7, <1>8, <1>9, NamesKeepList, CompareKeepsList,
     WholeKeepsList, AddKeepsList DEF Find

\* A call gives no account of a name at which a device comes or goes.
LEMMA PortKeepsList ==
    ASSUME TypeInv, ListInv, NEW slot \in Slots,
           Unplug(slot) \/ \E product \in Products : Plug(slot, product)
    PROVE  ListInv'
<1>1. /\ UNCHANGED <<devices, children>>
      /\ call'.pc = call.pc /\ call'.i = call.i /\ call'.found = call.found
      /\ call'.refused = call.refused
      /\ call'.changed = IF call.pc = "idle" THEN {} ELSE call.changed \cup {slot}
      /\ \A s \in Slots : s # slot => port'[s] = port[s]
  BY PortSteps
<1>2. New' = New
  BY <1>1 DEF New
<1>3. CASE call.pc = "idle"
  BY <1>1, <1>3 DEF ListInv
<1>4. CASE call.pc # "idle"
  <2>1. \A s \in Steady' : s \in Steady /\ port'[s] = port[s]
    BY <1>1, <1>4 DEF Steady
  <2>2. NamesInv => NamesInv'
    BY <1>1, <2>1 DEF NamesInv
  <2>3. FetchInv => FetchInv'
    BY <1>1, <2>1 DEF FetchInv, Valid
  <2>4. Valid(New.from) => Valid(New.from)'
    BY <1>2 DEF Valid
  <2> QED
    BY <1>1, <2>2, <2>3, <2>4 DEF ListInv
<1> QED
  BY <1>3, <1>4

LEMMA NextKeepsList == TypeInv /\ ListInv /\ [Next]_vars => ListInv'
<1>1. ASSUME TypeInv, ListInv, UNCHANGED vars PROVE ListInv'
  BY <1>1 DEF ListInv, NamesInv, FetchInv, Steady, Valid, New, vars
<1> QED
  BY <1>1, FindKeepsList, PortKeepsList DEF Next

\* When usb_find_devices returns, the list is that of the devices there.
LEMMA ReturnsCurrent ==
    ASSUME LikeDevices, TypeInv, ListInv PROVE ListIsCurrent
<1> SUFFICES ASSUME call.pc = "return", NEW s \in Slots \ (call.changed \cup call.refused)
             PROVE  LET listed == {k \in DOMAIN devices : Slot(devices[k]) = s} IN
                    IF Len(port[s].configs) \in 1 .. USB_MAXCONFIG
                    THEN \E k \in listed : /\ listed = {k}
                                           /\ devices[k].filename = <<s, port[s].model>>
                    ELSE listed = {}
  BY DEF ListIsCurrent, ListInv
<1> DEFINE listed == {k \in DOMAIN devices : Slot(devices[k]) = s}
<1>1. /\ s \in Steady /\ FetchInv /\ call.found = <<>> /\ Distinct(devices)
      /\ devices \in Seq(Entries) /\ \A k \in 1 .. Len(devices) : Valid(devices[k].from)
  BY DEF ListInv, Steady, TypeInv
<1>2. DOMAIN devices = 1 .. Len(devices)
  BY <1>1
<1>3. \A k \in listed : /\ k \in 1 .. Len(devices) /\ devices[k] \in Entries
                        /\ port[s] # Nothing /\ devices[k].filename[2] = port[s].model
  BY <1>1, <1>2 DEF FetchInv
<1>4. CASE Valid(port[s])
  <2>1. s \in SlotsOf(devices)
    BY <1>1, <1>4 DEF FetchInv, SlotsOf
  <2>2. PICK k \in listed : TRUE
    BY <1>2, <2>1 DEF SlotsOf
  <2>3. listed = {k}
    BY <1>1, <1>2 DEF Distinct
  <2>4. devices[k].filename = <<s, port[s].model>>
    BY <1>3, EntryFacts
  <2> QED
    BY <1>4, <2>3, <2>4 DEF Valid
<1>5. CASE ~Valid(port[s])
  <2>1. ASSUME NEW k \in listed PROVE FALSE
    <3>1. /\ port[s] \in Products /\ devices[k].from \in Products
          /\ devices[k].from.model = port[s].model /\ Valid(devices[k].from)
      BY <1>1, <1>3, EntryFacts, PortFacts
    <3> QED
      BY <1>5, <3>1 DEF LikeDevices
  <2> QED
    BY <1>5, <2>1 DEF Valid
<1> QED
  BY <1>4, <1>5

\* When usb_find_devices returns, the list has each device that was there all
\* the time and has answered, once, and nothing that was not there (usb.c),
\* provided that devices with the same ids are alike: a device that replaces
\* another one of the same ids between two calls keeps its entry.
THEOREM ListCurrent ==
    ASSUME LikeDevices PROVE Spec => []ListIsCurrent
<1>1. Init => TypeInv /\ ListInv
  <2> SUFFICES ASSUME Init PROVE TypeInv /\ ListInv
    OBVIOUS
  <2>1. port \in [Slots -> Products \cup {Nothing}] /\ devices \in Seq(Entries)
    BY DEF Init
  <2>2. call \in CallType
    BY DEF Init, NoCall, CallType, Pcs
  <2>3. TypeInv
    BY <2>1, <2>2 DEF TypeInv, CallType
  <2>4. ListInv
    BY DEF Init, NoCall, ListInv, Distinct
  <2> QED
    BY <2>3, <2>4
<1>2. TypeInv /\ ListInv /\ [Next]_vars => (TypeInv /\ ListInv)'
  BY NextTyped, NextKeepsList
<1>3. TypeInv /\ ListInv => ListIsCurrent
  BY ReturnsCurrent
<1> QED
  BY <1>1, <1>2, <1>3, PTL DEF Spec

-----------------------------------------------------------------------------
(* ConfigsAreOfDevice.                                                     *)

\* The first n configurations of a device are what its descriptors parse to.
Obtained(d, n) ==
    /\ Len(d.configs) = n
    /\ \A k \in 1 .. n : \E beyond \in BOOLEAN :
         d.configs[k] = usb_parse_configuration(d.from.configs[k], beyond)
Complete(list) == \A k \in 1 .. Len(list) : Obtained(list[k], Len(list[k].from.configs))

\* What was found at a name is still there, or has gone during the call; n
\* configurations of the first are fetched, and none of the others.
StillThere(d, at, changed) ==
    at[Slot(d)] = d.from \/ (at[Slot(d)] = Nothing /\ Slot(d) \in changed)
Fetched(list, n, at, changed) ==
    \A k \in 1 .. Len(list) :
        StillThere(list[k], at, changed) /\ Obtained(list[k], IF k = 1 THEN n ELSE 0)

ConfigsInv ==
    /\ Complete(devices)
    /\ Fetched(call.found, IF call.pc \in {"header", "whole"} THEN call.i - 1 ELSE 0,
               port, call.changed)
    /\ call.pc = "open" => call.i = 1
    /\ call.pc = "header" => call.i <= Configurations + 1
    /\ call.pc = "whole" => call.i <= Configurations
    /\ call.pc \in {"idle", "return"} => call.found = <<>>

\* Nothing is fetched yet of those that are found.
LEMMA NamesKeepConfigs ==
    ASSUME TypeInv, ConfigsInv, usb_os_find_devices PROVE ConfigsInv'
<1> DEFINE i == call.i
           there == port[i] # Nothing
<1>1. /\ call.pc = "names" /\ i \in Slots /\ UNCHANGED <<port, devices>>
      /\ call.found \in Seq(Entries) /\ call \in CallType
  BY DEF usb_os_find_devices, TypeInv, CallType
<1>2. PICK answers \in Answers :
         call' = [call EXCEPT
            !.i = @ + 1,
            !.found = IF there /\ answers THEN <<NewDevice(i)>> \o @ ELSE @,
            !.refused = IF there /\ ~answers THEN @ \cup {i} ELSE @]
  BY DEF usb_os_find_devices
<1>3. /\ call'.pc = "names" /\ call'.changed = call.changed
      /\ call'.found = IF there /\ answers THEN <<NewDevice(i)>> \o call.found ELSE call.found
  BY <1>1, <1>2 DEF CallType
<1>4. there => /\ NewDevice(i) \in Entries /\ Slot(NewDevice(i)) = i
               /\ NewDevice(i).from = port[i] /\ NewDevice(i).configs = <<>>
  <2>1. there => port[i] \in Products
    BY <1>1, PortFacts
  <2> QED
    BY <1>1, <2>1 DEF NewDevice, Entries, Models, Slot
<1> HIDE DEF i, there
<1>5. PICK t, changed : t = call'.found /\ changed = call.changed
  OBVIOUS
<1>6. Fetched(call.found, 0, port, changed)
  BY <1>1, <1>5 DEF ConfigsInv
<1>7. Fetched(t, 0, port, changed)
  <2>1. CASE there /\ answers
    <3>1. PICK d : d = NewDevice(i)
      OBVIOUS
    <3>2. /\ d \in Entries /\ Slot(d) = i /\ t = <<d>> \o call.found /\ d.from = port[i]
          /\ d.configs = <<>>
      BY <1>3, <1>4, <1>5, <2>1, <3>1
    <3>3. InFront(t, d, call.found)
      BY <1>1, <3>2, Prepended
    <3>4. Obtained(d, 0) /\ StillThere(d, port, changed)
      BY <3>2 DEF Obtained, StillThere
    <3>5. \A k \in 1 .. Len(t) : t[k] = d \/ \E j \in 1 .. Len(call.found) : t[k] = call.found[j]
      BY <3>3 DEF InFront
    <3> QED
      BY <1>6, <3>4, <3>5 DEF Fetched
  <2>2. CASE ~(there /\ answers)
    BY <1>3, <1>5, <1>6, <2>2
  <2> QED
    BY <2>1, <2>2
<1> QED
  BY <1>1, <1>3, <1>5, <1>7 DEF ConfigsInv

\* The comparison keeps entries as they are.
LEMMA CompareKeepsConfigs ==
    ASSUME TypeInv, ConfigsInv, Compare PROVE ConfigsInv'
<1>1. /\ call.pc = "names" /\ UNCHANGED port /\ call \in CallType
      /\ call.found \in Seq(Entries) /\ devices \in Seq(Entries)
  BY DEF Compare, TypeInv, CallType
<1>2. PICK found, changed, d, f :
        found = call.found /\ changed = call.changed /\ d = devices' /\ f = call'.found
  OBVIOUS
<1>3. /\ d = Sift(devices, found, TRUE) /\ f = Sift(found, devices, FALSE)
      /\ call'.pc = "open" /\ call'.i = 1 /\ call'.changed = changed
  BY <1>1, <1>2 DEF Compare, CallType
<1>4. SiftedAs(devices, found, TRUE, d) /\ SiftedAs(found, devices, FALSE, f)
  BY <1>1, <1>2, <1>3, Sifted
<1>5. Complete(devices) /\ Fetched(found, 0, port, changed)
  BY <1>1, <1>2 DEF ConfigsInv
<1>6. Complete(d)
  <2>1. \A k \in 1 .. Len(d) : \E j \in 1 .. Len(devices) : d[k] = devices[j]
    BY <1>4 DEF SiftedAs
  <2> QED
    BY <1>5, <2>1 DEF Complete
<1>7. Fetched(f, 0, port, changed)
  <2>1. \A k \in 1 .. Len(f) : \E j \in 1 .. Len(found) : f[k] = found[j]
    BY <1>4 DEF SiftedAs
  <2> QED
    BY <1>5, <2>1 DEF Fetched
<1> QED
  BY <1>1, <1>2, <1>3, <1>6, <1>7 DEF ConfigsInv

\* From one new device to the next: nothing is fetched of that yet.
LEMMA NextKeepsFetched ==
    ASSUME TypeInv, ConfigsInv, call.found # <<>>
    PROVE  Fetched(Tail(call.found), 0, port, call.changed)
<1>1. PICK found, others, n, changed :
        /\ found = call.found /\ others = Tail(call.found) /\ changed = call.changed
        /\ Fetched(found, n, port, changed)
  BY DEF ConfigsInv
<1>2. \A k \in 1 .. Len(others) :
        k + 1 \in 1 .. Len(found) /\ k + 1 # 1 /\ others[k] = found[k + 1]
  BY <1>1, NewDevices
<1>3. ASSUME NEW k \in 1 .. Len(others)
      PROVE  StillThere(others[k], port, changed) /\ Obtained(others[k], 0)
  <2>1. PICK j \in 1 .. Len(found) : others[k] = found[j] /\ j # 1
    BY <1>2
  <2> QED
    BY <1>1, <2>1 DEF Fetched
<1> QED
  BY <1>1, <1>3 DEF Fetched

\* A configuration comes from the device the entry is for.
LEMMA WholeKeepsConfigs ==
    ASSUME TypeInv, ConfigsInv, WholeFetched PROVE ConfigsInv'
<1>1. /\ call.pc = "whole" /\ call.found # <<>> /\ UNCHANGED <<port, devices>>
      /\ Sends(Slot(New), call.i) /\ At("whole") /\ call \in CallType
      /\ call.found \in Seq(Entries) /\ call.i \in Nat \ {0}
  BY DEF WholeFetched, At, TypeInv, CallType
<1>2. PICK beyond \in BOOLEAN :
          call' = [call EXCEPT !.pc = "header", !.i = @ + 1,
            !.found[1].configs = Append(@,
                usb_parse_configuration(port[Slot(New)].configs[call.i], beyond))]
  BY DEF WholeFetched
<1> DEFINE result == usb_parse_configuration(port[Slot(New)].configs[call.i], beyond)
           list == call.found
<1>3. result \in Results
  BY <1>1, WholeTyped
<1> HIDE DEF result, list
<1>4. PICK grown : /\ grown = [list EXCEPT ![1].configs = Append(@, result)]
                   /\ GrownBy(grown, list, result)
  BY <1>1, <1>3, GrownFound DEF list
<1>5. PICK i, d : i = call.i /\ d = list[1]
  OBVIOUS
<1>6. /\ call'.pc = "header" /\ call'.found = grown /\ call'.i = i + 1
      /\ call'.changed = call.changed
  BY <1>1, <1>2, <1>4, <1>5 DEF CallType, result, list
<1>7. New = d /\ d \in Entries /\ 1 \in 1 .. Len(list)
  BY <1>1, <1>5, NewDevices DEF list
<1>8. /\ Complete(devices) /\ Fetched(list, i - 1, port, call.changed)
      /\ i <= Len(d.from.configs)
  BY <1>1, <1>5, <1>7 DEF ConfigsInv, list, Configurations
<1>9. Obtained(d, i - 1) /\ StillThere(d, port, call.changed)
  BY <1>5, <1>7, <1>8 DEF Fetched
<1>10. port[Slot(d)] = d.from
  <2>1. Len(Nothing.configs) = 0
    BY DEF Nothing
  <2>2. i <= Len(port[Slot(d)].configs) /\ ~(i <= 0)
    BY <1>1, <1>5, <1>7 DEF Sends
  <2> QED
    BY <1>9, <2>1, <2>2 DEF StillThere
<1>11. /\ grown \in Seq(Entries) /\ Len(grown) = Len(list)
       /\ \A k \in 1 .. Len(list) :
            /\ grown[k].filename = list[k].filename /\ grown[k].from = list[k].from
            /\ k # 1 => grown[k] = list[k]
       /\ grown[1].configs = Append(d.configs, result)
  BY <1>4, <1>5 DEF GrownBy
<1>12. Obtained(grown[1], i)
  <2>1. PICK cs, e : cs = d.configs /\ e = grown[1]
    OBVIOUS
  <2>2. cs \in Seq(Results) /\ Len(cs) = i - 1
    BY <1>7, <1>9, <2>1, EntryFacts DEF Obtained
  <2>3. /\ e.configs = Append(cs, result) /\ e.from = d.from
    BY <1>5, <1>7, <1>11, <2>1
  <2>4. /\ Len(Append(cs, result)) = i /\ Append(cs, result)[i] = result
        /\ \A k \in 1 .. i - 1 : Append(cs, result)[k] = cs[k]
    BY <1>1, <1>3, <1>5, <2>2
  <2>5. result = usb_parse_configuration(e.from.configs[i], beyond)
    BY <1>5, <1>7, <1>10, <2>3 DEF result
  <2>6. ASSUME NEW k \in 1 .. i
        PROVE  \E b \in BOOLEAN : e.configs[k] = usb_parse_configuration(e.from.configs[k], b)
    <3>1. CASE k = i
      BY <2>3, <2>4, <2>5, <3>1
    <3>2. CASE k # i
      <4>1. k \in 1 .. i - 1
        BY <1>1, <1>5, <3>2
      <4>2. PICK b \in BOOLEAN : cs[k] = usb_parse_configuration(d.from.configs[k], b)
        BY <1>9, <2>1, <4>1 DEF Obtained
      <4> QED
        BY <2>3, <2>4, <4>1, <4>2
    <3> QED
      BY <3>1, <3>2
  <2> QED
    BY <2>1, <2>3, <2>4, <2>6 DEF Obtained
<1>13. Fetched(grown, i, port, call.changed)
  <2>1. ASSUME NEW k \in 1 .. Len(grown) PROVE StillThere(grown[k], port, call.changed)
    <3>1. StillThere(list[k], port, call.changed)
      BY <1>8, <1>11, <2>1 DEF Fetched
    <3>2. Slot(grown[k]) = Slot(list[k]) /\ grown[k].from = list[k].from
      BY <1>11, <2>1 DEF Slot
    <3> QED
      BY <3>1, <3>2 DEF StillThere
  <2>2. ASSUME NEW k \in 1 .. Len(grown), k # 1 PROVE Obtained(grown[k], 0)
    BY <1>8, <1>11, <2>2 DEF Fetched
  <2> QED
    BY <1>12, <2>1, <2>2 DEF Fetched
<1>14. New'.from = d.from
  BY <1>5, <1>6, <1>7, <1>11 DEF New
<1>15. i + 1 <= Len(d.from.configs) + 1 /\ (i + 1) - 1 = i
  <2>1. Len(d.from.configs) \in Nat
    <3>1. d.from \in Products
      BY <1>7, EntryFacts
    <3>2. d.from.configs \in Seq(Seq(Descriptor))
      BY <3>1, ProductsAssumption DEF Product
    <3> QED
      BY <3>2
  <2> QED
    BY <1>1, <1>5, <1>8, <2>1
<1>16. call'.i <= Configurations' + 1
  BY <1>6, <1>14, <1>15 DEF Configurations
<1>17. Complete(devices) /\ UNCHANGED <<port, devices>>
  BY <1>1, <1>8
<1> QED
  BY <1>6, <1>13, <1>15, <1>16, <1>17 DEF ConfigsInv

\* A device whose last configuration is there goes on the list.
LEMMA AddKeepsConfigs ==
    ASSUME TypeInv, ConfigsInv, Added PROVE ConfigsInv'
<1>1. /\ call.pc = "header" /\ call.i > Configurations /\ call.found # <<>> /\ UNCHANGED port
      /\ devices' = <<New>> \o devices /\ call' = NextNew(call) /\ devices \in Seq(Entries)
      /\ call.i \in Nat
  BY DEF Added, At, TypeInv, CallType
<1>2. PICK d, n, t : d = New /\ n = Len(d.from.configs) /\ t = devices'
  OBVIOUS
<1>3. d \in Entries /\ d = call.found[1] /\ 1 \in 1 .. Len(call.found)
  BY <1>1, <1>2, NewDevices
<1>4. n \in Nat
  <2>1. d.from.configs \in Seq(Seq(Descriptor))
    BY <1>3, EntryFacts, ProductsAssumption DEF Product
  <2> QED
    BY <1>2, <2>1
<1>5. call.i - 1 = n
  BY <1>1, <1>2, <1>4 DEF ConfigsInv, Configurations
<1>6. Obtained(d, n)
  BY <1>1, <1>3, <1>5 DEF ConfigsInv, Fetched
<1>7. InFront(t, d, devices)
  BY <1>1, <1>2, <1>3, Prepended
<1>8. Complete(t)
  <2>1. \A k \in 1 .. Len(t) : t[k] = d \/ \E j \in 1 .. Len(devices) : t[k] = devices[j]
    BY <1>7 DEF InFront
  <2> QED
    BY <1>2, <1>6, <2>1 DEF ConfigsInv, Complete
<1>9. /\ call'.pc = "open" /\ call'.i = 1 /\ call'.found = Tail(call.found)
      /\ call'.changed = call.changed
  BY <1>1, NextNewTyped
<1>10. Fetched(Tail(call.found), 0, port, call.changed)
  BY <1>1, NextKeepsFetched
<1> QED
  BY <1>1, <1>2, <1>8, <1>9, <1>10 DEF ConfigsInv

\* Every step of the library keeps the configurations.
LEMMA FindKeepsConfigs ==
    ASSUME TypeInv, ConfigsInv, Find PROVE ConfigsInv'
<1>1. call \in CallType /\ call.i \in Nat \ {0}
  BY DEF TypeInv, CallType
<1>2. CASE usb_find_busses
  BY <1>2 DEF usb_find_busses, ConfigsInv, Configurations, New
<1>3. CASE usb_find_devices \/ Return
  <2>1. call'.found = <<>> /\ UNCHANGED <<port, devices>> /\ call'.pc \in {"names", "idle"}
    BY <1>3 DEF usb_find_devices, Return, NoCall
  <2>2. Len(<<>>) = 0 /\ \A k \in 1 .. 0 : FALSE
    OBVIOUS
  <2> QED
    BY <2>1, <2>2 DEF ConfigsInv, Fetched
<1>4. CASE usb_os_find_devices
  BY <1>4, NamesKeepConfigs
<1>5. CASE Compare
  BY <1>5, CompareKeepsConfigs
<1>6. CASE NotFetched \/ FetchFails
  <2>1. call.found # <<>> /\ UNCHANGED <<port, devices>>
    BY <1>6 DEF NotFetched, FetchFails, At
  <2>2. /\ call'.pc = "open" /\ call'.i = 1 /\ call'.found = Tail(call.found)
        /\ call'.changed = call.changed
    <3>1. /\ NextNew(call) \in CallType /\ NextNew(call).pc = "open" /\ NextNew(call).i = 1
          /\ NextNew(call).found = Tail(call.found) /\ NextNew(call).changed = call.changed
      BY <2>1, NextNewTyped
    <3> QED
      BY <1>6, <3>1 DEF NotFetched, FetchFails, CallType
  <2>3. Fetched(Tail(call.found), 0, port, call.changed)
    BY <2>1, NextKeepsFetched
  <2> QED
    BY <2>1, <2>2, <2>3 DEF ConfigsInv
<1>7. CASE Opened
  <2>1. /\ call.pc = "open" /\ UNCHANGED <<port, devices>> /\ call.found # <<>>
        /\ call' = [call EXCEPT !.pc = "header"] /\ Configurations \in 1 .. USB_MAXCONFIG
    BY <1>7 DEF Opened, At
  <2>2. /\ call'.pc = "header" /\ call'.i = call.i /\ call'.found = call.found
        /\ call'.changed = call.changed /\ call.i = 1
    BY <1>1, <2>1 DEF CallType, ConfigsInv
  <2>3. Configurations' = Configurations
    BY <2>2 DEF Configurations, New
  <2>4. 1 <= Configurations + 1 /\ 1 - 1 = 0
    BY <2>1
  <2> QED
    BY <2>1, <2>2, <2>3, <2>4 DEF ConfigsInv
<1>8. CASE HeaderFetched
  <2>1. /\ call.pc = "header" /\ UNCHANGED <<port, devices>> /\ call.i <= Configurations
        /\ call' = [call EXCEPT !.pc = "whole"]
    BY <1>8 DEF HeaderFetched, At
  <2>2. /\ call'.pc = "whole" /\ call'.i = call.i /\ call'.found = call.found
        /\ call'.changed = call.changed
    BY <1>1, <2>1 DEF CallType
  <2>3. Configurations' = Configurations
    BY <2>2 DEF Configurations, New
  <2> QED
    BY <2>1, <2>2, <2>3 DEF ConfigsInv
<1>9. CASE WholeFetched
  BY <1>9, WholeKeepsConfigs
<1>10. CASE Added
  BY <1>10, AddKeepsConfigs
<1>11. CASE usb_os_determine_children
  BY <1>1, <1>11 DEF usb_os_determine_children, ConfigsInv, CallType, Configurations, New
<1> QED
  BY <1>2, <1>3, <1>4, <1>5, <1>6, <1>7, <1>8, <1>9, <1>10, <1>11 DEF Find

\* Without another device at a name during a call, the first may only go.
LEMMA PortKeepsConfigs ==
    ASSUME "Replug" \notin Env, TypeInv, ConfigsInv, NEW slot \in Slots,
           Unplug(slot) \/ \E product \in Products : Plug(slot, product)
    PROVE  ConfigsInv'
<1>1. /\ UNCHANGED devices
      /\ call'.pc = call.pc /\ call'.i = call.i /\ call'.found = call.found
      /\ call'.changed = IF call.pc = "idle" THEN {} ELSE call.changed \cup {slot}
      /\ \A s \in Slots : s # slot => port'[s] = port[s]
      /\ slot \notin call.changed
      /\ port[slot] # Nothing => port'[slot] = Nothing
  BY PortSteps
<1>2. call.found \in Seq(Entries)
  BY DEF TypeInv, CallType
<1>3. Configurations' = Configurations
  BY <1>1 DEF Configurations, New
<1>4. ASSUME NEW k \in 1 .. Len(call.found), StillThere(call.found[k], port, call.changed)
      PROVE  StillThere(call.found[k], port', call'.changed)
  <2>1. PICK d : d = call.found[k]
    OBVIOUS
  <2>2. d \in Entries /\ Slot(d) \in Slots /\ d.from # Nothing
    BY <1>2, <2>1, EntryFacts
  <2>3. call.pc # "idle"
    <3>1. Len(<<>>) = 0 /\ \A j \in 1 .. 0 : FALSE
      OBVIOUS
    <3> QED
      BY <3>1 DEF ConfigsInv
  <2>4. CASE Slot(d) # slot
    BY <1>1, <1>4, <2>1, <2>2, <2>3, <2>4 DEF StillThere
  <2>5. CASE Slot(d) = slot
    BY <1>1, <1>4, <2>1, <2>2, <2>3, <2>5 DEF StillThere
  <2> QED
    BY <2>4, <2>5, <2>1
<1>5. ASSUME NEW n, Fetched(call.found, n, port, call.changed)
      PROVE  Fetched(call.found, n, port', call'.changed)
  BY <1>4, <1>5 DEF Fetched
<1> QED
  BY <1>1, <1>3, <1>5 DEF ConfigsInv

\* What has been parsed of a device is what it has sent.
LEMMA ObtainedFromDevice ==
    ASSUME NEW d \in Entries, Obtained(d, Len(d.from.configs))
    PROVE  LET sent == d.from.configs IN
           /\ Len(d.configs) = Len(sent)
           /\ \A i \in DOMAIN sent :
                LET c == d.configs[i] IN
                /\ c.ok => IsSubsequenceOf(Flat(c.value), Tail(sent[i]))
                /\ d.from.means # <<>> => c = Parsed(d.from.means[i], <<>>)
<1>1. PICK p, sent : p = d.from /\ sent = d.from.configs
  OBVIOUS
<1>2. p \in Products /\ sent \in Seq(Buffers) /\ p.means \in Seq(ConfigDescriptor)
  BY <1>1, EntryFacts, ProductsAssumption DEF Product, Buffers
<1>3. /\ \A i \in DOMAIN sent : sent[i] # <<>>
      /\ p.means # <<>> => DOMAIN p.means = DOMAIN sent
      /\ \A i \in DOMAIN p.means : /\ IsConfiguration(Head(sent[i]), p.means[i])
                                   /\ Flat(p.means[i]) = Tail(sent[i])
  BY <1>1, <1>2, ProductsAssumption
<1>4. Len(d.configs) = Len(sent) /\ DOMAIN sent = 1 .. Len(sent)
  BY <1>1, <1>2 DEF Obtained
<1>5. ASSUME NEW i \in DOMAIN sent
      PROVE  /\ d.configs[i].ok => IsSubsequenceOf(Flat(d.configs[i].value), Tail(sent[i]))
             /\ p.means # <<>> => d.configs[i] = Parsed(p.means[i], <<>>)
  <2>1. PICK beyond \in BOOLEAN : d.configs[i] = usb_parse_configuration(sent[i], beyond)
    BY <1>1, <1>4 DEF Obtained
  <2>2. PICK b, m : b = sent[i] /\ m = p.means[i]
    OBVIOUS
  <2>3. b \in Buffers /\ b # <<>>
    BY <1>2, <1>3, <2>2
  <2>4. LET r == usb_parse_configuration(b, beyond) IN
        r.ok => IsSubsequenceOf(Flat(r.value), Tail(b))
    BY <2>3, ConfigurationReads
  <2>5. ASSUME p.means # <<>> PROVE usb_parse_configuration(b, beyond) = Parsed(m, <<>>)
    <3>1. m \in ConfigDescriptor /\ IsConfiguration(Head(b), m) /\ Flat(m) = Tail(b)
      <4>1. PICK ms : ms = p.means
        OBVIOUS
      <4>2. ms \in Seq(ConfigDescriptor) /\ i \in DOMAIN ms
        BY <1>2, <1>3, <2>5, <4>1
      <4>3. ms[i] \in ConfigDescriptor
        BY <4>2
      <4>4. IsConfiguration(Head(sent[i]), p.means[i]) /\ Flat(p.means[i]) = Tail(sent[i])
        BY <1>3, <4>1, <4>2
      <4> QED
        BY <2>2, <4>1, <4>3, <4>4
    <3> QED
      BY <2>3, <3>1, ConfigurationBack
  <2> QED
    BY <2>1, <2>2, <2>4, <2>5
<1> QED
  BY <1>1, <1>4, <1>5

\* What a program reads of a device is what the device has sent
\* (descriptors.c), as long as no other device gets its name while
\* usb_find_devices looks at it.
THEOREM ConfigsFromDevice ==
    ASSUME "Replug" \notin Env PROVE Spec => []ConfigsAreOfDevice
<1>1. Init => ConfigsInv
  <2>1. Len(<<>>) = 0 /\ \A k \in 1 .. 0 : FALSE
    OBVIOUS
  <2> QED
    BY <2>1 DEF Init, NoCall, ConfigsInv, Complete, Fetched
<1>2. TypeInv /\ ConfigsInv /\ [Next]_vars => ConfigsInv'
  <2>1. ASSUME ConfigsInv, UNCHANGED vars PROVE ConfigsInv'
    BY <2>1 DEF ConfigsInv, Configurations, New, vars
  <2> QED
    BY <2>1, FindKeepsConfigs, PortKeepsConfigs DEF Next
<1>3. TypeInv /\ ConfigsInv => ConfigsAreOfDevice
  <2> SUFFICES ASSUME TypeInv, ConfigsInv, NEW k \in DOMAIN devices
               PROVE  LET sent == devices[k].from.configs IN
                      /\ Len(devices[k].configs) = Len(sent)
                      /\ \A i \in DOMAIN sent :
                           LET c == devices[k].configs[i] IN
                           /\ c.ok => IsSubsequenceOf(Flat(c.value), Tail(sent[i]))
                           /\ devices[k].from.means # <<>> =>
                                c = Parsed(devices[k].from.means[i], <<>>)
    BY DEF ConfigsAreOfDevice
  <2>1. devices[k] \in Entries /\ Obtained(devices[k], Len(devices[k].from.configs))
    BY DEF TypeInv, ConfigsInv, Complete
  <2> QED
    BY <2>1, ObtainedFromDevice
<1> QED
  BY <1>1, <1>2, <1>3, TypesHold, PTL DEF Spec
=============================================================================
