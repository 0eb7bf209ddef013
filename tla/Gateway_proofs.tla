----------------------------- MODULE Gateway_proofs -----------------------------
(***************************************************************************)
(* What the proxy's streams and Bailian's chain of models guarantee for any  *)
(* course of the upstream, of any length: no event breaks the client's       *)
(* contract, the think tags mean the same wherever the text is cut, a tool    *)
(* gets its arguments, and no model is tried twice; and what the bodies of    *)
(* the requests carry of any conversation, of any length.                     *)
(*                                                                          *)
(* Streams and conversations are read by recursive functions, about which    *)
(* facts are proved by looking at the smallest number where they would fail.  *)
(***************************************************************************)
EXTENDS GatewayInvariants, FiniteSetTheorems, SequenceTheorems, WellFoundedInduction, TLAPS

LessThan == OpToRel(<, Nat)

\* A set of natural numbers has a smallest element.
LEMMA Smallest ==
  ASSUME NEW T \in SUBSET Nat, T # {}
  PROVE  \E x \in T : \A y \in T : x <= y
<1>1. IsWellFoundedOn(LessThan, Nat)
  BY NatLessThanWellFounded DEF LessThan
<1>2. \A x, y \in Nat : <<y, x>> \in LessThan <=> y < x
  BY DEF LessThan, OpToRel
<1>3. PICK x \in T : \A y \in T : ~(<<y, x>> \in LessThan)
  BY <1>1, WFMin
<1>4. ASSUME NEW y \in T PROVE x <= y
  <2>1. x \in Nat /\ y \in Nat
    OBVIOUS
  <2>2. <<y, x>> \in LessThan <=> y < x
    BY <1>2, <2>1
  <2> QED BY <1>3, <2>1, <2>2
<1> QED BY <1>4

\* One among 1..L has a largest.
LEMMA Largest ==
  ASSUME NEW L \in Nat, NEW T \in SUBSET (1..L), T # {}
  PROVE  \E x \in T : \A y \in T : y <= x
<1> DEFINE U == {u \in 0..L : L - u \in T}
<1>1. \A y \in T : y \in 1..L /\ L - y \in 0..L /\ L - (L - y) = y
  OBVIOUS
<1>2. \A y \in T : L - y \in U
  BY <1>1
<1>3. U \in SUBSET Nat /\ U # {}
  <2>1. PICK y \in T : TRUE
    OBVIOUS
  <2>2. U \in SUBSET Nat
    OBVIOUS
  <2>3. L - y \in U
    BY <1>2
  <2> HIDE DEF U
  <2> QED BY <2>2, <2>3
<1>4. PICK u \in U : \A v \in U : u <= v
  BY <1>3, Smallest
<1>5. L - u \in T /\ u \in 0..L
  OBVIOUS
<1> HIDE DEF U
<1>6. ASSUME NEW y \in T PROVE y <= L - u
  BY <1>1, <1>2, <1>4, <1>5
<1> QED BY <1>5, <1>6

\* What holds at 0 and goes from number to number holds up to L.
LEMMA UpTo ==
  ASSUME NEW L \in Nat, NEW T, 0 \in T, \A n \in 1..L : n - 1 \in T => n \in T
  PROVE  0..L \subseteq T
<1> DEFINE U == (0..L) \ T
<1>1. SUFFICES ASSUME U # {} PROVE FALSE
  OBVIOUS
<1>2. U \in SUBSET Nat
  OBVIOUS
<1>3. PICK m \in U : \A k \in U : m <= k
  BY <1>1, <1>2, Smallest
<1>4. m \in 1..L /\ m - 1 \in 0..L /\ m - 1 \notin U
  BY <1>3
<1> QED BY <1>3, <1>4

\* A function given by its value at 0 and the step to the next exists.
Follows(f, L, b, G) == f[0] = b /\ \A n \in 1..L : f[n] = G[n][f[n - 1]]

LEMMA Recursion ==
  ASSUME NEW L \in Nat, NEW S, NEW b \in S, NEW G \in [1..L -> [S -> S]]
  PROVE  \E f \in [0..L -> S] : Follows(f, L, b, G)
<1> DEFINE Fine(m) == \E f \in [0..m -> S] : f[0] = b /\ \A n \in 1..m : f[n] = G[n][f[n - 1]]
           T == {m \in 0..L : Fine(m)}
<1>1. Fine(0)
  <2>1. [n \in 0..0 |-> b] \in [0..0 -> S] /\ [n \in 0..0 |-> b][0] = b
    OBVIOUS
  <2>2. \A n \in 1..0 : FALSE
    OBVIOUS
  <2> QED BY <2>1, <2>2
<1>2. ASSUME NEW m \in 1..L, Fine(m - 1) PROVE Fine(m)
  <2>1. PICK f \in [0..(m - 1) -> S] : f[0] = b /\ \A n \in 1..(m - 1) : f[n] = G[n][f[n - 1]]
    BY <1>2
  <2> DEFINE g == [n \in 0..m |-> IF n = m THEN G[m][f[m - 1]] ELSE f[n]]
  <2>2. f[m - 1] \in S /\ G[m][f[m - 1]] \in S
    BY <2>1
  <2>3. g \in [0..m -> S] /\ g[0] = b
    BY <2>1, <2>2
  <2>4. \A n \in 1..m : g[n] = G[n][g[n - 1]]
    BY <2>1, <2>2
  <2> HIDE DEF g
  <2> QED BY <2>3, <2>4
<1> HIDE DEF Fine
<1>3. 0 \in T /\ \A n \in 1..L : n - 1 \in T => n \in T
  BY <1>1, <1>2
<1>4. 0..L \subseteq T
  <2> HIDE DEF T
  <2> QED BY <1>3, UpTo
<1>5. Fine(L)
  BY <1>4
<1> QED BY <1>5 DEF Fine, Follows

\* Such a function stays in the set that each step stays in.
LEMMA StaysIn ==
  ASSUME NEW L \in Nat, NEW S, NEW f, f[0] \in S, \A n \in 1..L : f[n - 1] \in S => f[n] \in S
  PROVE  \A n \in 0..L : f[n] \in S
<1> DEFINE T == {n \in 0..L : f[n] \in S}
<1>1. 0 \in T /\ \A n \in 1..L : n - 1 \in T => n \in T
  OBVIOUS
<1> HIDE DEF T
<1>2. 0..L \subseteq T
  BY <1>1, UpTo
<1> QED BY <1>2 DEF T
-----------------------------------------------------------------------------
(* A sequence gone through element by element.                               *)

LEMMA ConcatParts ==
  ASSUME NEW E, NEW s \in Seq(E), NEW t \in Seq(E)
  PROVE  /\ s \o t \in Seq(E) /\ Len(s \o t) = Len(s) + Len(t)
         /\ \A k \in 1..Len(s) : (s \o t)[k] = s[k]
         /\ \A k \in 1..Len(t) : (s \o t)[Len(s) + k] = t[k]
<1> DEFINE u == s \o t
<1>1. Len(s) \in Nat /\ Len(t) \in Nat
  OBVIOUS
<1>2. /\ u \in Seq(E) /\ Len(u) = Len(s) + Len(t)
      /\ \A k \in 1..(Len(s) + Len(t)) : u[k] = IF k <= Len(s) THEN s[k] ELSE t[k - Len(s)]
  BY ConcatProperties
<1> HIDE DEF u
<1>3. ASSUME NEW k \in 1..Len(s) PROVE u[k] = s[k]
  BY <1>1, <1>2
<1>4. ASSUME NEW k \in 1..Len(t) PROVE u[Len(s) + k] = t[k]
  <2>1. Len(s) + k \in 1..(Len(s) + Len(t)) /\ ~(Len(s) + k <= Len(s)) /\ (Len(s) + k) - Len(s) = k
    BY <1>1
  <2> QED BY <1>2, <2>1
<1> QED BY <1>2, <1>3, <1>4 DEF u

Stepping(H, S, E) == H \in [S -> [E -> S]]

Steps(f, H, m, t) == f[0] = m /\ \A n \in 1..Len(t) : f[n] = H[f[n - 1]][t[n]]

LEMMA FoldSteps ==
  ASSUME NEW S, NEW E, NEW H, Stepping(H, S, E), NEW m \in S, NEW t \in Seq(E)
  PROVE  \E f \in [0..Len(t) -> S] : Steps(f, H, m, t) /\ Fold(H, m, t) = f[Len(t)]
<1> DEFINE L == Len(t)
           G == [n \in 1..L |-> [v \in S |-> H[v][t[n]]]]
<1>1. L \in Nat /\ \A n \in 1..L : t[n] \in E
  OBVIOUS
<1>2. \A n \in 1..L, v \in S : H[v][t[n]] \in S
  BY <1>1 DEF Stepping
<1>3. Len(t) = L
  OBVIOUS
<1> HIDE DEF L
<1>4. G \in [1..L -> [S -> S]] /\ \A n \in 1..L : G[n] = [v \in S |-> H[v][t[n]]]
  BY <1>2
<1> HIDE DEF G
<1> DEFINE Exists == \E f \in [0..L -> S] : FoldOf(f, H, m, t)
<1>5. Exists
  <2>1. PICK f \in [0..L -> S] : Follows(f, L, m, G)
    BY <1>1, <1>4, Recursion
  <2>2. \A n \in 1..L : f[n - 1] \in S
    BY <1>1
  <2>3. \A n \in 1..L : f[n] = H[f[n - 1]][t[n]]
    BY <1>4, <2>1, <2>2 DEF Follows
  <2>4. \A n \in 0..L : n # 0 => n \in 1..L
    BY <1>1
  <2>5. FoldOf(f, H, m, t)
    BY <1>3, <2>1, <2>3, <2>4 DEF Follows, FoldOf
  <2> QED BY <2>5
<1> DEFINE g == CHOOSE f : FoldOf(f, H, m, t)
<1>6. FoldOf(g, H, m, t)
  BY <1>5
<1>7. Fold(H, m, t) = g[L]
  BY <1>3 DEF Fold
<1> HIDE DEF g
<1>8. g = [n \in 0..L |-> IF n = 0 THEN m ELSE H[g[n - 1]][t[n]]]
  BY <1>3, <1>6 DEF FoldOf
<1>9. g[0] = m /\ \A n \in 1..L : g[n] = H[g[n - 1]][t[n]]
  <2>1. 0 \in 0..L /\ \A n \in 1..L : n \in 0..L /\ n # 0
    BY <1>1
  <2>2. \A n \in 0..L : g[n] = IF n = 0 THEN m ELSE H[g[n - 1]][t[n]]
    BY <1>8
  <2> QED BY <2>1, <2>2
<1>10. \A n \in 0..L : g[n] \in S
  <2>1. \A n \in 1..L : g[n - 1] \in S => g[n] \in S
    BY <1>2, <1>9
  <2> QED BY <1>1, <1>9, <2>1, StaysIn
<1>11. g \in [0..L -> S]
  BY <1>8, <1>10
<1>12. Steps(g, H, m, t)
  BY <1>3, <1>9 DEF Steps
<1> QED BY <1>3, <1>7, <1>11, <1>12

LEMMA FoldUnique ==
  ASSUME NEW S, NEW E, NEW H, Stepping(H, S, E), NEW m \in S, NEW t \in Seq(E),
         NEW g, Steps(g, H, m, t)
  PROVE  g[Len(t)] = Fold(H, m, t) /\ \A n \in 0..Len(t) : g[n] \in S
<1> DEFINE L == Len(t)
<1>1. PICK f \in [0..L -> S] : Steps(f, H, m, t) /\ Fold(H, m, t) = f[L]
  BY FoldSteps
<1>2. L \in Nat /\ L \in 0..L
  OBVIOUS
<1>3. g[0] = f[0] /\ \A n \in 1..L : g[n - 1] = f[n - 1] => g[n] = f[n]
  BY <1>1 DEF Steps
<1> HIDE DEF L
<1> DEFINE U == {n \in 0..L : g[n] = f[n]}
<1>4. 0 \in U /\ \A n \in 1..L : n - 1 \in U => n \in U
  BY <1>2, <1>3
<1> HIDE DEF U
<1>5. 0..L \subseteq U
  BY <1>2, <1>4, UpTo
<1>6. \A n \in 0..L : g[n] = f[n]
  BY <1>5 DEF U
<1> QED BY <1>1, <1>2, <1>6 DEF L

\* A sequence is gone through piece by piece.
LEMMA FoldSplit ==
  ASSUME NEW S, NEW E, NEW H, Stepping(H, S, E), NEW m \in S, NEW s \in Seq(E),
         NEW t \in Seq(E)
  PROVE  /\ Fold(H, m, s) \in S
         /\ Fold(H, m, s \o t) = Fold(H, Fold(H, m, s), t)
<1>1. PICK f \in [0..Len(s) -> S] : Steps(f, H, m, s) /\ Fold(H, m, s) = f[Len(s)]
  BY FoldSteps
<1>2. Len(s) \in Nat /\ Len(t) \in Nat /\ Len(s) \in 0..Len(s)
  OBVIOUS
<1>3. Fold(H, m, s) \in S
  BY <1>1, <1>2
<1>4. PICK g \in [0..Len(t) -> S] :
        Steps(g, H, Fold(H, m, s), t) /\ Fold(H, Fold(H, m, s), t) = g[Len(t)]
  BY <1>3, FoldSteps
<1> DEFINE K == Len(s)
           N == Len(t)
           u == s \o t
           h == [n \in 0..(K + N) |-> IF n <= K THEN f[n] ELSE g[n - K]]
<1>5. /\ u \in Seq(E) /\ Len(u) = K + N
      /\ \A n \in 1..K : u[n] = s[n]
      /\ \A n \in 1..N : u[K + n] = t[n]
  BY ConcatParts
<1>6. /\ f[0] = m /\ \A n \in 1..K : f[n] = H[f[n - 1]][s[n]]
      /\ g[0] = f[K] /\ \A n \in 1..N : g[n] = H[g[n - 1]][t[n]]
  BY <1>1, <1>4 DEF Steps
<1>7. K \in Nat /\ N \in Nat
  BY <1>2
<1> HIDE DEF K, N, u
<1>8. h[0] = m
  BY <1>6, <1>7
<1>9. ASSUME NEW n \in 1..(K + N) PROVE h[n] = H[h[n - 1]][u[n]]
  <2>1. CASE n <= K
    <3>1. n \in 1..K /\ n - 1 \in 0..(K + N) /\ n - 1 <= K /\ n \in 0..(K + N)
      BY <1>7, <2>1
    <3>2. h[n] = f[n] /\ h[n - 1] = f[n - 1]
      BY <2>1, <3>1
    <3> QED BY <1>5, <1>6, <3>1, <3>2
  <2>2. CASE n > K
    <3>1. n - K \in 1..N /\ n \in 0..(K + N) /\ n - 1 \in 0..(K + N) /\ ~(n <= K) /\ K + (n - K) = n
      BY <1>7, <2>2
    <3>2. h[n] = g[n - K] /\ u[n] = t[n - K]
      BY <1>5, <3>1
    <3>3. h[n - 1] = g[(n - K) - 1]
      <4>1. CASE n - 1 = K
        <5>1. n - 1 <= K /\ (n - K) - 1 = 0
          BY <1>7, <4>1
        <5> QED BY <1>6, <3>1, <4>1, <5>1
      <4>2. CASE n - 1 # K
        <5>1. ~(n - 1 <= K) /\ (n - 1) - K = (n - K) - 1
          BY <1>7, <2>2, <4>2
        <5> QED BY <3>1, <5>1
      <4> QED BY <4>1, <4>2
    <3> QED BY <1>6, <3>1, <3>2, <3>3
  <2> QED BY <1>7, <2>1, <2>2
<1>10. h[K + N] = g[N]
  <2>1. CASE N = 0
    <3>1. K + N \in 0..(K + N) /\ K + N = K /\ K + N <= K
      BY <1>7, <2>1
    <3> QED BY <1>6, <2>1, <3>1
  <2>2. CASE N # 0
    <3>1. K + N \in 0..(K + N) /\ ~(K + N <= K) /\ (K + N) - K = N
      BY <1>7, <2>2
    <3> QED BY <3>1
  <2> QED BY <2>1, <2>2
<1> HIDE DEF h
<1>11. Steps(h, H, m, u)
  BY <1>5, <1>8, <1>9 DEF Steps
<1>12. h[K + N] = Fold(H, m, u)
  BY <1>5, <1>11, FoldUnique
<1> QED BY <1>3, <1>4, <1>10, <1>12 DEF u, N

LEMMA FoldShort ==
  ASSUME NEW S, NEW E, NEW H, Stepping(H, S, E), NEW m \in S, NEW t \in E
  PROVE  Fold(H, m, <<>>) = m /\ Fold(H, m, <<t>>) = H[m][t]
<1> DEFINE none == <<>>
           one == <<t>>
<1>1. none \in Seq(E) /\ Len(none) = 0 /\ one \in Seq(E) /\ Len(one) = 1 /\ one[1] = t
  OBVIOUS
<1> HIDE DEF none, one
<1>2. PICK f \in [0..Len(none) -> S] : Steps(f, H, m, none) /\ Fold(H, m, none) = f[Len(none)]
  BY <1>1, FoldSteps
<1>3. PICK g \in [0..Len(one) -> S] : Steps(g, H, m, one) /\ Fold(H, m, one) = g[Len(one)]
  BY <1>1, FoldSteps
<1>4. Fold(H, m, none) = m
  BY <1>1, <1>2 DEF Steps
<1>5. Fold(H, m, one) = H[m][t]
  <2>1. 1 \in 1..1 /\ 1 - 1 = 0
    OBVIOUS
  <2> QED BY <1>1, <1>3, <2>1 DEF Steps
<1> QED BY <1>4, <1>5 DEF none, one

LEMMA FoldAppend ==
  ASSUME NEW S, NEW E, NEW H, Stepping(H, S, E), NEW m \in S, NEW t \in Seq(E), NEW e \in E
  PROVE  Fold(H, m, t) \in S /\ Fold(H, m, Append(t, e)) = H[Fold(H, m, t)][e]
<1> DEFINE one == <<e>>
<1>1. one \in Seq(E) /\ Append(t, e) = t \o one
  BY AppendIsConcat
<1>2. \A v \in S : Fold(H, v, one) = H[v][e]
  BY FoldShort
<1> HIDE DEF one
<1>3. Fold(H, m, t) \in S /\ Fold(H, m, t \o one) = Fold(H, Fold(H, m, t), one)
  BY <1>1, FoldSplit
<1> QED BY <1>1, <1>2, <1>3
-----------------------------------------------------------------------------
(* Sequences without some of their elements.                                *)

KeptOf(f, seq, keep) ==
  f = [n \in 0..Len(seq) |->
         IF n = 0 THEN <<>>
         ELSE IF n \in keep THEN Append(f[n - 1], seq[n]) ELSE f[n - 1]]

LEMMA KeepRecursive ==
  ASSUME NEW E, NEW seq \in Seq(E), NEW keep
  PROVE  \E f : KeptOf(f, seq, keep) /\ Keep(seq, keep) = f[Len(seq)]
<1> DEFINE L == Len(seq)
           S == Seq(E)
           step(n, v) == IF n \in keep THEN Append(v, seq[n]) ELSE v
           G == [n \in 1..L |-> [v \in S |-> step(n, v)]]
<1>1. L \in Nat /\ <<>> \in S /\ \A n \in 1..L : seq[n] \in E
  OBVIOUS
<1>2. \A n \in 1..L, v \in S : step(n, v) \in S
  BY <1>1
<1>3. Keep(seq, keep) = (CHOOSE f : KeptOf(f, seq, keep))[Len(seq)]
  BY DEF Keep, KeptOf
<1>4. Len(seq) = L
  OBVIOUS
<1> HIDE DEF L, S
<1>5. G \in [1..L -> [S -> S]] /\ \A n \in 1..L : G[n] = [v \in S |-> step(n, v)]
  BY <1>2
<1> HIDE DEF G
<1>6. PICK f \in [0..L -> S] : Follows(f, L, <<>>, G)
  BY <1>1, <1>5, Recursion
<1>7. \A n \in 1..L : f[n - 1] \in S
  BY <1>1
<1>8. \A n \in 1..L : f[n] = step(n, f[n - 1])
  <2> SUFFICES ASSUME NEW n \in 1..L PROVE f[n] = step(n, f[n - 1])
    OBVIOUS
  <2>1. f[n] = G[n][f[n - 1]] /\ G[n] = [v \in S |-> step(n, v)] /\ f[n - 1] \in S
    BY <1>5, <1>6, <1>7 DEF Follows
  <2> HIDE DEF step
  <2> QED BY <2>1
<1>9. \A n \in 0..L : n # 0 => n \in 1..L
  BY <1>1
<1>10. KeptOf(f, seq, keep)
  BY <1>4, <1>6, <1>8, <1>9 DEF Follows, KeptOf
<1> QED BY <1>3, <1>10

\* What is kept is what stands at the places to keep, and distinct if all was.
LEMMA KeepProperties ==
  ASSUME NEW E, NEW seq \in Seq(E), NEW keep
  PROVE  /\ Keep(seq, keep) \in Seq(E)
         /\ Elements(Keep(seq, keep)) = {seq[i] : i \in (1..Len(seq)) \cap keep}
         /\ Distinct(seq) => Distinct(Keep(seq, keep))
<1> DEFINE L == Len(seq)
           Fine(n, v) == /\ v \in Seq(E)
                         /\ Elements(v) = {seq[i] : i \in (1..n) \cap keep}
                         /\ Distinct(seq) => Distinct(v)
<1>1. L \in Nat /\ \A n \in 1..L : seq[n] \in E
  OBVIOUS
<1>2. PICK f : KeptOf(f, seq, keep) /\ Keep(seq, keep) = f[L]
  BY KeepRecursive
<1>3. /\ f[0] = <<>>
      /\ \A n \in 1..L : f[n] = IF n \in keep THEN Append(f[n - 1], seq[n]) ELSE f[n - 1]
  <2>1. Len(seq) = L /\ 0 \in 0..L /\ \A n \in 1..L : n \in 0..L /\ n # 0
    BY <1>1
  <2> HIDE DEF L
  <2>2. \A n \in 0..L : f[n] = IF n = 0 THEN <<>>
                              ELSE IF n \in keep THEN Append(f[n - 1], seq[n]) ELSE f[n - 1]
    BY <1>2, <2>1 DEF KeptOf
  <2> QED BY <2>1, <2>2
<1>4. Fine(0, <<>>)
  BY DEF Elements, Distinct
<1>5. ASSUME NEW n \in 1..L, NEW v, Fine(n - 1, v), n \in keep PROVE Fine(n, Append(v, seq[n]))
  <2> DEFINE w == Append(v, seq[n])
  <2>1. v \in Seq(E) /\ w \in Seq(E) /\ Len(v) \in Nat /\ Len(w) = Len(v) + 1
    BY <1>1, <1>5
  <2>2. w[Len(v) + 1] = seq[n] /\ \A i \in 1..Len(v) : w[i] = v[i]
    BY <1>1, <1>5, <2>1
  <2> HIDE DEF w
  <2>3. Elements(w) = Elements(v) \cup {seq[n]}
    BY <2>1, <2>2 DEF Elements
  <2>4. (1..n) \cap keep = ((1..(n - 1)) \cap keep) \cup {n}
    BY <1>5
  <2>5. Elements(w) = {seq[i] : i \in (1..n) \cap keep}
    BY <1>5, <2>3, <2>4
  <2>6. ASSUME Distinct(seq) PROVE Distinct(w)
    <3>1. \A i \in 1..Len(v) : w[i] # seq[n]
      <4> SUFFICES ASSUME NEW i \in 1..Len(v), w[i] = seq[n] PROVE FALSE
        OBVIOUS
      <4>1. v[i] \in Elements(v)
        BY DEF Elements
      <4>2. PICK k \in (1..(n - 1)) \cap keep : v[i] = seq[k]
        BY <1>5, <4>1
      <4>3. k \in 1..L /\ seq[k] = seq[n] /\ k # n
        BY <2>2, <4>2, <1>1
      <4> QED BY <2>6, <4>3 DEF Distinct
    <3>2. Distinct(v)
      BY <1>5, <2>6
    <3> QED BY <2>1, <2>2, <3>1, <3>2 DEF Distinct
  <2> QED BY <2>1, <2>5, <2>6 DEF w
<1>6. ASSUME NEW n \in 1..L, NEW v, Fine(n - 1, v), n \notin keep PROVE Fine(n, v)
  <2>1. (1..n) \cap keep = (1..(n - 1)) \cap keep
    BY <1>6
  <2> QED BY <1>6, <2>1
<1> DEFINE T == {n \in 0..L : Fine(n, f[n])}
<1> HIDE DEF Fine
<1>7. 0 \in T
  BY <1>1, <1>3, <1>4
<1>8. \A n \in 1..L : n - 1 \in T => n \in T
  <2> SUFFICES ASSUME NEW n \in 1..L, n - 1 \in T PROVE n \in T
    OBVIOUS
  <2>1. Fine(n - 1, f[n - 1])
    OBVIOUS
  <2>2. Fine(n, f[n])
    BY <1>3, <1>5, <1>6, <2>1
  <2> QED BY <2>2, <1>1
<1> HIDE DEF T
<1>9. 0..L \subseteq T
  BY <1>1, <1>7, <1>8, UpTo
<1>10. Fine(L, f[L])
  BY <1>1, <1>9 DEF T
<1> QED BY <1>2, <1>10 DEF Fine
-----------------------------------------------------------------------------
(* Bailian's chain of models.                                               *)

LEMMA WithoutProperties ==
  ASSUME NEW E, NEW seq \in Seq(E), NEW out
  PROVE  /\ Without(seq, out) \in Seq(E)
         /\ \A i \in 1..Len(Without(seq, out)) : Without(seq, out)[i] \notin out
<1> DEFINE keep == {i \in DOMAIN seq : seq[i] \notin out}
           w == Keep(seq, keep)
<1>1. w \in Seq(E) /\ Elements(w) = {seq[i] : i \in (1..Len(seq)) \cap keep}
  BY KeepProperties
<1>2. Without(seq, out) = w
  BY DEF Without
<1>3. \A i \in (1..Len(seq)) \cap keep : seq[i] \notin out
  OBVIOUS
<1> HIDE DEF w, keep
<1>4. ASSUME NEW i \in 1..Len(w) PROVE w[i] \notin out
  <2>1. w[i] \in Elements(w)
    BY DEF Elements
  <2> QED BY <1>1, <1>3, <2>1
<1> QED BY <1>1, <1>2, <1>4

LEMMA RemoveFailedProperties ==
  ASSUME NEW st \in ModelState, NEW all \in Seq(Model)
  PROVE  /\ RemoveFailed(st, all) \in ModelState
         /\ RemoveFailed(st, all).failed = st.failed
         /\ \A i \in 1..Len(RemoveFailed(st, all).available) :
              RemoveFailed(st, all).available[i] \notin st.failed
<1> DEFINE w == Without(all, st.failed)
<1>1. w \in Seq(Model) /\ \A i \in 1..Len(w) : w[i] \notin st.failed
  BY WithoutProperties
<1>2. RemoveFailed(st, all) = [st EXCEPT !.available = w]
  BY DEF RemoveFailed
<1> HIDE DEF w
<1> QED BY <1>1, <1>2 DEF ModelState

\* The next model is one of those that are left.
LEMMA NextIsLeft ==
  ASSUME NEW ms \in Seq(Model), ms # <<>>, models' = ms, NEW m
  PROVE  \E i \in 1..Len(ms) : NextModel(m) = ms[i]
<1>1. Len(ms) \in Nat /\ Len(ms) > 0 /\ 1 \in 1..Len(ms)
  OBVIOUS
<1>2. CASE Contains(ms, m)
  <2> DEFINE k == IndexOf(ms, m)
             I == {j \in 1..Len(ms) : ms[j] = m}
  <2>1. PICK i \in I : \A j \in I : i <= j
    <3>1. I \in SUBSET Nat /\ I # {}
      BY <1>2 DEF Contains
    <3> QED BY <3>1, Smallest
  <2>2. k \in Nat
    <3>1. i \in DOMAIN ms /\ ms[i] = m /\ \A j \in 1..(i - 1) : ms[j] # m
      BY <1>1, <2>1
    <3> QED BY <3>1 DEF IndexOf
  <2>3. 1 + (k % Len(ms)) \in 1..Len(ms)
    <3> HIDE DEF k
    <3>1. k % Len(ms) \in 0..(Len(ms) - 1)
      BY <1>1, <2>2
    <3> QED BY <1>1, <3>1
  <2>4. NextModel(m) = ms[1 + (k % Len(ms))]
    BY <1>2 DEF NextModel
  <2> QED BY <2>3, <2>4
<1>3. CASE ~Contains(ms, m)
  BY <1>1, <1>3 DEF NextModel
<1> QED BY <1>2, <1>3

\* An attempt fails: the request goes on with a model it has not tried, or gives up.
LEMMA FailsGoesOn ==
  ASSUME BInv, NEW r \in Request, Fails(r)
  PROVE  /\ BInv'
         /\ \A q \in Request : tried'[q] # tried[q] =>
              ~Contains(tried[q], Last(tried'[q])) /\ Last(tried'[q]) \notin state'.failed
<1> DEFINE m == rq[r].model
           marked == MarkFailed(state, m)
           st == RemoveFailed(marked, original)
           next == IF models' = <<>> THEN Asked[r] ELSE NextModel(m)
<1>1. /\ BTypeOK /\ \A q \in Request : TriedIsOut(q)
      /\ rq[r].at = "trying" /\ m \in Model /\ Elements(tried[r]) \subseteq state.failed \cup {m}
      /\ tried \in [Request -> Seq(Model)] /\ tried[r] \in Seq(Model)
  BY DEF BInv, Fails, TriedIsOut, BTypeOK
<1>2. marked \in ModelState /\ marked.failed = state.failed \cup {m}
  BY <1>1 DEF BTypeOK, ModelState, MarkFailed
<1>3. /\ st \in ModelState /\ st.failed = state.failed \cup {m}
      /\ \A i \in 1..Len(st.available) : st.available[i] \notin st.failed
  <2> HIDE DEF marked
  <2> QED BY <1>1, <1>2, RemoveFailedProperties DEF BTypeOK
<1>4. state' = st /\ disk' = st /\ models' = st.available /\ original' = original
  BY DEF Fails
<1>5. env' = env \/ env'.models = st.available
  <2>1. Sync(st)
    BY DEF Fails
  <2> HIDE DEF st
  <2> QED BY <2>1 DEF Sync
<1>6. IF rq[r].attempt + 1 = rq[r].max
      THEN rq' = [rq EXCEPT ![r].at = "over"] /\ tried' = tried
      ELSE /\ rq' = [rq EXCEPT ![r].attempt = @ + 1, ![r].model = next]
           /\ tried' = IF models' = <<>> THEN tried ELSE [tried EXCEPT ![r] = Append(@, next)]
  BY DEF Fails
<1>7. models' \in Seq(Model) /\ original' \in Seq(Model) /\ env'.models \in Seq(Model)
  BY <1>1, <1>3, <1>4, <1>5 DEF BTypeOK, ModelState
<1> HIDE DEF marked, st
<1>8. next \in Model /\ (models' # <<>> => next \notin st.failed)
  <2>1. CASE models' = <<>>
    BY <2>1 DEF Model
  <2>2. CASE models' # <<>>
    <3>1. PICK ms : ms = models'
      OBVIOUS
    <3>2. PICK i \in 1..Len(ms) : NextModel(m) = ms[i]
      BY <1>7, <2>2, <3>1, NextIsLeft
    <3>3. ms[i] \in Model
      BY <1>7, <3>1
    <3> QED BY <1>3, <1>4, <2>2, <3>1, <3>2, <3>3
  <2> QED BY <2>1, <2>2
<1> HIDE DEF next
<1>9. Elements(tried[r]) \subseteq st.failed
  BY <1>1, <1>3
<1> DEFINE s == Append(tried[r], next)
<1>10. s \in Seq(Model) /\ Elements(s) = Elements(tried[r]) \cup {next} /\ Last(s) = next
  BY <1>1, <1>8 DEF Elements, Last
<1>11. tried' = tried \/ (models' # <<>> /\ tried' = [tried EXCEPT ![r] = s])
  BY <1>1, <1>6
<1> HIDE DEF s
<1>12. BTypeOK'
  <2> DEFINE R == [at : {"new", "plain", "trying", "over"}, attempt : Nat, max : Nat,
                   model : Model \cup {Unset}]
             over == [rq[r] EXCEPT !.at = "over"]
             more == [rq[r] EXCEPT !.attempt = @ + 1, !.model = next]
  <2>5. rq \in [Request -> R] /\ rq[r] \in R /\ rq[r].attempt + 1 \in Nat
    BY <1>1 DEF BTypeOK
  <2>6. over \in R /\ more \in R
    BY <1>8, <2>5
  <2>7. rq' = [rq EXCEPT ![r] = over] \/ rq' = [rq EXCEPT ![r] = more]
    BY <1>6, <2>5
  <2> HIDE DEF R, over, more
  <2>8. rq' \in [Request -> R]
    BY <2>5, <2>6, <2>7
  <2>1. rq' \in [Request -> [at : {"new", "plain", "trying", "over"}, attempt : Nat, max : Nat,
                             model : Model \cup {Unset}]]
    BY <2>8 DEF R
  <2>2. tried' \in [Request -> Seq(Model)]
    BY <1>1, <1>10, <1>11
  <2>3. state' \in ModelState /\ disk' \in ModelState
    BY <1>3, <1>4
  <2> QED BY <1>7, <2>1, <2>2, <2>3 DEF BTypeOK
<1>13. ASSUME NEW q \in Request PROVE TriedIsOut(q)'
  <2>1. CASE q # r
    <3>1. rq'[q] = rq[q] /\ tried'[q] = tried[q]
      BY <1>1, <1>6, <1>11, <2>1 DEF BTypeOK
    <3> QED BY <1>1, <1>3, <1>4, <3>1 DEF TriedIsOut
  <2>2. CASE q = r
    <3>1. rq'[r].at \in {"trying", "over"} /\ (rq'[r].at = "trying" => rq'[r].model = next)
      BY <1>1, <1>6 DEF BTypeOK
    <3>2. Elements(tried'[r]) \subseteq st.failed \cup {next}
      BY <1>1, <1>9, <1>10, <1>11
    <3> QED BY <1>4, <1>8, <2>2, <3>1, <3>2 DEF TriedIsOut
  <2> QED BY <2>1, <2>2
<1>14. ASSUME NEW q \in Request, tried'[q] # tried[q]
       PROVE  ~Contains(tried[q], Last(tried'[q])) /\ Last(tried'[q]) \notin state'.failed
  <2>1. q = r /\ models' # <<>> /\ tried'[r] = s
    BY <1>1, <1>11, <1>14
  <2>2. Last(tried'[q]) = next /\ next \notin st.failed
    BY <1>8, <1>10, <2>1
  <2>3. \A i \in 1..Len(tried[r]) : tried[r][i] \in st.failed
    BY <1>9 DEF Elements
  <2> QED BY <1>4, <2>1, <2>2, <2>3 DEF Contains
<1> QED BY <1>12, <1>13, <1>14 DEF BInv

\* No other step makes a request that has begun try a model.
LEMMA OthersKeepTried ==
  ASSUME BInv, NEW r \in Request, BBegin(r) \/ Succeeds(r) \/ Ends(r)
  PROVE  BInv' /\ \A q \in Request : tried'[q] # tried[q] => tried[q] = <<>>
<1>1. BTypeOK /\ \A q \in Request : TriedIsOut(q)
  BY DEF BInv
<1>2. CASE BBegin(r)
  <2> DEFINE new == [at |-> IF models = <<>> THEN "plain" ELSE "trying",
                     attempt |-> 0, max |-> Len(models) + 1, model |-> Asked[r]]
  <2>1. Asked[r] \in Model /\ Len(models) \in Nat /\ <<Asked[r]>> \in Seq(Model)
        /\ Elements(<<Asked[r]>>) = {Asked[r]}
    BY <1>1 DEF Model, BTypeOK, Elements
  <2>2. /\ new \in [at : {"new", "plain", "trying", "over"}, attempt : Nat, max : Nat,
                    model : Model \cup {Unset}]
        /\ new.at # "new" /\ new.model = Asked[r]
    BY <2>1
  <2>3. /\ rq' = [rq EXCEPT ![r] = new] /\ tried' = [tried EXCEPT ![r] = <<Asked[r]>>]
        /\ UNCHANGED <<state, disk, env, models, original>> /\ tried[r] = <<>>
    BY <1>1, <1>2 DEF BBegin, TriedIsOut
  <2> HIDE DEF new
  <2>4. BTypeOK'
    BY <1>1, <2>1, <2>2, <2>3 DEF BTypeOK
  <2>5. \A q \in Request : q # r => rq'[q] = rq[q] /\ tried'[q] = tried[q]
    BY <1>1, <2>3 DEF BTypeOK
  <2>6. rq'[r] = new /\ tried'[r] = <<Asked[r]>>
    BY <1>1, <2>3 DEF BTypeOK
  <2>7. \A q \in Request : TriedIsOut(q)'
    BY <1>1, <2>1, <2>2, <2>3, <2>5, <2>6 DEF TriedIsOut
  <2> QED BY <2>3, <2>4, <2>5, <2>7 DEF BInv
<1>3. CASE Succeeds(r)
  <2> DEFINE set == SetWorking(state, rq[r].model)
             st == RemoveFailed(set, original)
  <2>1. rq[r].model \in Model
    BY <1>1, <1>3 DEF Succeeds, TriedIsOut
  <2>2. set \in ModelState /\ set.failed = state.failed
    <3> DEFINE a == IF Contains(state.available, rq[r].model) THEN state.available
                    ELSE Append(state.available, rq[r].model)
    <3>1. state \in ModelState /\ state.available \in Seq(Model)
      BY <1>1 DEF BTypeOK, ModelState
    <3>2. a \in Seq(Model)
      BY <2>1, <3>1
    <3>3. set = [state EXCEPT !.working = rq[r].model, !.available = a]
      BY <3>1 DEF SetWorking, ModelState
    <3> HIDE DEF a, set
    <3> QED BY <2>1, <3>1, <3>2, <3>3 DEF ModelState
  <2>3. st \in ModelState /\ st.failed = state.failed
    <3> HIDE DEF set
    <3> QED BY <1>1, <2>2, RemoveFailedProperties DEF BTypeOK
  <2>4. /\ state' = st /\ disk' = st /\ rq' = [rq EXCEPT ![r].at = "over"]
        /\ UNCHANGED <<env, models, original, tried>>
    BY <1>3 DEF Succeeds
  <2> HIDE DEF st
  <2>5. BTypeOK'
    BY <1>1, <2>3, <2>4 DEF BTypeOK
  <2>6. \A q \in Request : rq'[q] = rq[q] \/ rq'[q].at = "over"
    BY <1>1, <2>4 DEF BTypeOK
  <2> QED BY <1>1, <2>3, <2>4, <2>5, <2>6 DEF BInv, TriedIsOut
<1>4. CASE Ends(r)
  <2>1. /\ rq' = [rq EXCEPT ![r].at = "over"]
        /\ UNCHANGED <<state, disk, env, models, original, tried>>
    BY <1>4 DEF Ends
  <2>2. BTypeOK'
    BY <1>1, <2>1 DEF BTypeOK
  <2>3. \A q \in Request : rq'[q] = rq[q] \/ rq'[q].at = "over"
    BY <1>1, <2>1 DEF BTypeOK
  <2> QED BY <1>1, <2>1, <2>2, <2>3 DEF BInv, TriedIsOut
<1> QED BY <1>2, <1>3, <1>4

LEMMA WorldKeepsTried == ASSUME BInv, Reset \/ BRestart PROVE BInv' /\ tried' = tried
<1>1. BTypeOK /\ \A q \in Request : TriedIsOut(q)
  BY DEF BInv
<1>2. Fresh \in ModelState
  BY DEF Fresh, ModelState
<1>3. CASE Reset
  <2>1. disk' \in ModelState
    BY <1>1, <1>2, <1>3 DEF Reset, BTypeOK, ModelState
  <2>2. UNCHANGED <<rq, state, env, models, original, tried>>
    BY <1>3 DEF Reset
  <2> QED BY <1>1, <2>1, <2>2 DEF BInv, BTypeOK, TriedIsOut
<1>4. CASE BRestart
  <2>1. PICK readable : LET st == RemoveFailed(Load(readable), env.models) IN
                        /\ state' = st /\ disk' = st /\ models' = st.available
                        /\ original' = env.models /\ Sync(st)
    BY <1>4 DEF BRestart
  <2> DEFINE st == RemoveFailed(Load(readable), env.models)
  <2>2. Load(readable) \in ModelState
    BY <1>1, <1>2 DEF Load, BTypeOK
  <2>3. st \in ModelState
    BY <1>1, <2>2, RemoveFailedProperties DEF BTypeOK
  <2>4. /\ state' = st /\ disk' = st /\ models' = st.available /\ original' = env.models
        /\ Sync(st)
    BY <2>1
  <2> HIDE DEF st
  <2>5. /\ rq' = [r \in Request |->
                    IF rq[r].at = "new" THEN rq[r] ELSE [rq[r] EXCEPT !.at = "over"]]
        /\ tried' = tried
    BY <1>4 DEF BRestart
  <2>6. env'.models \in Seq(Model)
    BY <1>1, <2>3, <2>4 DEF Sync, BTypeOK, ModelState
  <2>7. rq' \in [Request -> [at : {"new", "plain", "trying", "over"}, attempt : Nat, max : Nat,
                             model : Model \cup {Unset}]]
    BY <1>1, <2>5 DEF BTypeOK
  <2>8. BTypeOK'
    BY <1>1, <2>3, <2>4, <2>5, <2>6, <2>7 DEF BTypeOK, ModelState
  <2>9. \A q \in Request : (rq'[q] = rq[q] /\ rq[q].at = "new") \/ rq'[q].at = "over"
    BY <1>1, <2>5 DEF BTypeOK
  <2> QED BY <1>1, <2>5, <2>8, <2>9 DEF BInv, TriedIsOut
<1> QED BY <1>3, <1>4

LEMMA BailianStarts == ASSUME BailianInit PROVE BInv
<1>1. Configured \in Seq(Model) /\ Fresh \in ModelState
  <2>1. Elements(Configured) = ToSet(Configured)
    BY BailianAssumption DEF BailianAssumption, Elements, ToSet
  <2>2. Configured \in Seq(Elements(Configured))
    BY <2>1, BailianAssumption DEF BailianAssumption
  <2>3. \A i \in 1..Len(Configured) : Configured[i] \in Model
    BY <2>2 DEF Elements, Model
  <2> QED BY <2>2, <2>3 DEF Fresh, ModelState
<1>2. PICK gone \in SUBSET ToSet(Configured) :
        state = [Fresh EXCEPT !.failed = gone, !.available = Without(Configured, gone)]
  BY DEF BailianInit
<1>3. gone \subseteq Model
  BY <1>1 DEF ToSet, Model, Elements
<1>4. Without(Configured, gone) \in Seq(Model)
  BY <1>1, WithoutProperties
<1>5. state \in ModelState
  BY <1>1, <1>2, <1>3, <1>4 DEF Fresh, ModelState
<1>6. /\ rq = [r \in Request |-> [at |-> "new", attempt |-> 0, max |-> 0, model |-> Unset]]
      /\ disk = state /\ models = state.available /\ original = Configured
      /\ env.models = Configured /\ tried = [r \in Request |-> <<>>]
  BY DEF BailianInit
<1>7. BTypeOK
  BY <1>1, <1>5, <1>6 DEF BTypeOK, ModelState
<1> QED BY <1>6, <1>7 DEF BInv, TriedIsOut

\* A step of Bailian's, or of anything else.
LEMMA BailianStep ==
  ASSUME BInv, BailianNext \/ UNCHANGED bailianVars
  PROVE  /\ BInv'
         /\ \A q \in Request : tried'[q] # tried[q] /\ Len(tried[q]) > 0 =>
              ~Contains(tried[q], Last(tried'[q])) /\ Last(tried'[q]) \notin state'.failed
<1>1. Len(<<>>) = 0
  OBVIOUS
<1>2. CASE \E r \in Request : Fails(r)
  BY <1>2, FailsGoesOn
<1>3. CASE \E r \in Request : BBegin(r) \/ Succeeds(r) \/ Ends(r)
  BY <1>1, <1>3, OthersKeepTried
<1>4. CASE Reset \/ BRestart
  BY <1>4, WorldKeepsTried
<1>5. CASE UNCHANGED bailianVars
  BY <1>5 DEF bailianVars, BInv, BTypeOK, TriedIsOut
<1> QED BY <1>2, <1>3, <1>4, <1>5 DEF BailianNext

\* Requests, files and lists agree about the models that are out.
THEOREM BailianInductive == Spec => []BInv
<1>1. Init => BInv
  BY BailianStarts DEF Init
<1>2. ASSUME BInv, [Next]_gatewayVars PROVE BInv'
  <2>1. BailianNext \/ UNCHANGED bailianVars
    BY <1>2 DEF Next, gatewayVars
  <2> QED BY <1>2, <2>1, BailianStep
<1> QED BY <1>1, <1>2, PTL DEF Spec

\* Whatever other requests fail meanwhile, and whenever the server restarts or its files
\* are reset, no request tries a model again, or one that has failed, while others are left.
THEOREM NeverTwice == Spec => NoModelTwice
<1> DEFINE A == \A r \in Request :
                  tried'[r] # tried[r] /\ Len(tried[r]) > 0 =>
                    ~Contains(tried[r], Last(tried'[r])) /\ Last(tried'[r]) \notin state'.failed
<1>1. ASSUME BInv, [Next]_gatewayVars PROVE [A]_bailianVars
  <2>1. BailianNext \/ UNCHANGED bailianVars
    BY <1>1 DEF Next, gatewayVars
  <2> QED BY <1>1, <2>1, BailianStep
<1> QED BY BailianInductive, <1>1, PTL DEF Spec, NoModelTwice
-----------------------------------------------------------------------------
(* What think tags mean, token by token.                                    *)

LEMMA TagOfProperties ==
  ASSUME NEW inside \in BOOLEAN, NEW text \in Seq(Token)
  PROVE  /\ TagOf(inside, text) \in Seq(Spoken)
         /\ Len(TagOf(inside, text)) = Len(text)
         /\ \A i \in 1..Len(text) : TagOf(inside, text)[i] = <<Kindly(inside), text[i]>>
<1>1. \A i \in 1..Len(text) : <<Kindly(inside), text[i]>> \in Spoken
  BY DEF Kindly, Spoken
<1>2. Len(text) \in Nat
  OBVIOUS
<1> QED BY <1>1, <1>2 DEF TagOf

LEMMA TagOfAppend ==
  ASSUME NEW inside \in BOOLEAN, NEW text \in Seq(Token), NEW t \in Token, NEW said \in Seq(Spoken)
  PROVE  said \o TagOf(inside, Append(text, t))
           = Append(said \o TagOf(inside, text), <<Kindly(inside), t>>)
<1> DEFINE a == TagOf(inside, text)
           b == TagOf(inside, Append(text, t))
<1>1. Append(text, t) \in Seq(Token) /\ Len(Append(text, t)) = Len(text) + 1 /\ Len(text) \in Nat
      /\ \A i \in 1..Len(text) : Append(text, t)[i] = text[i]
      /\ Append(text, t)[Len(text) + 1] = t
  OBVIOUS
<1>2. /\ a \in Seq(Spoken) /\ Len(a) = Len(text)
      /\ \A i \in 1..Len(text) : a[i] = <<Kindly(inside), text[i]>>
  BY TagOfProperties
<1>3. /\ b \in Seq(Spoken) /\ Len(b) = Len(text) + 1
      /\ \A i \in 1..(Len(text) + 1) : b[i] = <<Kindly(inside), Append(text, t)[i]>>
  BY <1>1, TagOfProperties
<1>4. <<Kindly(inside), t>> \in Spoken
  BY DEF Kindly, Spoken
<1> HIDE DEF a, b
<1>5. b = Append(a, <<Kindly(inside), t>>)
  <2> DEFINE e == <<Kindly(inside), t>>
             d == Append(a, e)
  <2>1. /\ d \in Seq(Spoken) /\ Len(d) = Len(a) + 1 /\ d[Len(a) + 1] = e
        /\ \A i \in 1..Len(a) : d[i] = a[i]
    <3>1. e \in Spoken /\ a \in Seq(Spoken)
      BY <1>2, <1>4
    <3> HIDE DEF e
    <3> QED BY <3>1, AppendProperties
  <2> HIDE DEF d
  <2>2. \A i \in 1..(Len(text) + 1) : d[i] = b[i]
    <3> SUFFICES ASSUME NEW i \in 1..(Len(text) + 1) PROVE d[i] = b[i]
      OBVIOUS
    <3>1. i \in 1..Len(text) \/ i = Len(text) + 1
      BY <1>1
    <3>2. b[i] = <<Kindly(inside), Append(text, t)[i]>>
      BY <1>3
    <3>3. CASE i \in 1..Len(text)
      BY <1>1, <1>2, <2>1, <3>2, <3>3
    <3>4. CASE i = Len(text) + 1
      BY <1>1, <1>2, <2>1, <3>2, <3>4
    <3> QED BY <3>1, <3>3, <3>4
  <2>3. d = b
    BY <1>2, <1>3, <2>1, <2>2, SeqEqual
  <2> QED BY <2>3 DEF d
<1>6. said \o Append(a, <<Kindly(inside), t>>) = Append(said \o a, <<Kindly(inside), t>>)
  BY <1>2, <1>4
<1> QED BY <1>5, <1>6 DEF a, b

LEMMA Held == <<"<">> # <<>>
<1>1. Len(<<"<">>) = 1 /\ Len(<<>>) = 0
  OBVIOUS
<1> QED BY <1>1

LEMMA ReadsOpen ==
  ASSUME NEW inside, NEW said
  PROVE  Reads(Now(inside, <<>>, said), "<") = Now(inside, <<"<">>, said)
BY DEF Reads, Now

\* A token read in each mode.
LEMMA ReadsCases ==
  ASSUME NEW inside \in BOOLEAN, NEW said \in Seq(Spoken), NEW t \in Token
  PROVE  LET open == <<Kindly(inside), "<">>
             it == <<Kindly(inside), t>>
         IN /\ t = "<" =>
                 /\ Reads(Now(inside, <<>>, said), t) = Now(inside, <<"<">>, said)
                 /\ Reads(Now(inside, <<"<">>, said), t) = Now(inside, <<"<">>, Append(said, open))
            /\ t # "<" => Reads(Now(inside, <<>>, said), t) = Now(inside, <<>>, Append(said, it))
            /\ t \in TagsIn(inside) =>
                 Reads(Now(inside, <<"<">>, said), t) = Now(t = "think>", <<>>, said)
            /\ t \notin TagsIn(inside) \cup {"<"} =>
                 Reads(Now(inside, <<"<">>, said), t)
                   = Now(inside, <<>>, Append(Append(said, open), it))
<1>1. t \in TagsIn(inside) <=> t = "/think>" \/ (t = "think>" /\ ~inside)
  BY DEF TagsIn
<1> DEFINE free == Now(inside, <<>>, said)
           holding == Now(inside, <<"<">>, said)
           open == <<Kindly(inside), "<">>
           it == <<Kindly(inside), t>>
<1>2. /\ free.in = inside /\ free.held = <<>> /\ free.said = said
      /\ holding.in = inside /\ holding.held = <<"<">> /\ holding.said = said
      /\ Kindly(inside) = IF inside THEN "thinking" ELSE "text"
  BY DEF Kindly, Now
<1>4. ASSUME t = "<"
      PROVE  /\ Reads(free, t) = Now(inside, <<"<">>, said)
             /\ Reads(holding, t) = Now(inside, <<"<">>, Append(said, open))
  <2> HIDE DEF free, holding
  <2> QED BY Held, <1>2, <1>4 DEF Reads, Now
<1>5. ASSUME t # "<" PROVE Reads(free, t) = Now(inside, <<>>, Append(said, it))
  <2> HIDE DEF free, holding
  <2> QED BY <1>2, <1>5 DEF Reads, Now
<1>6. ASSUME t \in TagsIn(inside) PROVE Reads(holding, t) = Now(t = "think>", <<>>, said)
  <2> HIDE DEF free, holding
  <2> QED BY Held, <1>1, <1>2, <1>6 DEF Reads, Now
<1>7. ASSUME t \notin TagsIn(inside) \cup {"<"}
      PROVE  Reads(holding, t) = Now(inside, <<>>, Append(Append(said, open), it))
  <2> HIDE DEF free, holding
  <2> QED BY Held, <1>1, <1>2, <1>7 DEF Reads, Now
<1> HIDE DEF open, it
<1> QED BY <1>4, <1>5, <1>6, <1>7 DEF free, holding, open, it

LEMMA ReadsType == ASSUME NEW m \in Mode, NEW t \in Token PROVE Reads(m, t) \in Mode
<1>1. \A i \in BOOLEAN, h \in {<<>>, <<"<">>}, w \in Seq(Spoken) : Now(i, h, w) \in Mode
  BY DEF Now, Mode
<1>2. m.in \in BOOLEAN /\ m.held \in {<<>>, <<"<">>} /\ m.said \in Seq(Spoken)
  BY DEF Mode
<1> DEFINE said == IF m.held = <<>> THEN m.said ELSE Append(m.said, <<Kindly(m.in), "<">>)
           tag == m.held # <<>> /\ (t = "/think>" \/ (t = "think>" /\ ~m.in))
           more == Append(said, <<Kindly(m.in), t>>)
<1>3. said \in Seq(Spoken) /\ more \in Seq(Spoken)
  <2>1. <<Kindly(m.in), "<">> \in Spoken /\ <<Kindly(m.in), t>> \in Spoken
    BY DEF Kindly, Spoken, Token
  <2>2. said \in Seq(Spoken)
    BY <1>2, <2>1
  <2> HIDE DEF said
  <2> QED BY <2>1, <2>2
<1>4. Reads(m, t) = IF tag THEN Now(t = "think>", <<>>, m.said)
                    ELSE IF t = "<" THEN Now(m.in, <<"<">>, said)
                    ELSE Now(m.in, <<>>, more)
  BY DEF Reads, Now, Kindly
<1>5. (t = "think>") \in BOOLEAN
  OBVIOUS
<1> HIDE DEF said, tag, more
<1> QED BY <1>1, <1>2, <1>3, <1>4, <1>5

LEMMA ReadStepType ==
  /\ Stepping(ReadStep, Mode, Token)
  /\ \A m \in Mode, t \in Token : ReadStep[m][t] = Reads(m, t)
BY ReadsType DEF ReadStep, Stepping

LEMMA ThroughSplit ==
  ASSUME NEW m \in Mode, NEW s \in Seq(Token), NEW t \in Seq(Token)
  PROVE  /\ Through(m, s) \in Mode
         /\ Through(m, s \o t) = Through(Through(m, s), t)
BY ReadStepType, FoldSplit DEF Through

LEMMA ThroughShort ==
  ASSUME NEW m \in Mode, NEW t \in Token
  PROVE  Through(m, <<>>) = m /\ Through(m, <<t>>) = Reads(m, t)
BY ReadStepType, FoldShort DEF Through

\* Meaning is what the first mode becomes.
LEMMA MeaningThrough ==
  ASSUME NEW t \in Seq(Token)
  PROVE  /\ Now(FALSE, <<>>, <<>>) \in Mode
         /\ Meaning(t) = Through(Now(FALSE, <<>>, <<>>), t)
<1> DEFINE m == Now(FALSE, <<>>, <<>>)
           L == Len(t)
           Def(f) == f = [n \in 0..L |-> IF n = 0 THEN m ELSE Reads(f[n - 1], t[n])]
           g == CHOOSE f : Def(f)
<1>1. m \in Mode
  <2>1. <<>> \in Seq(Spoken)
    OBVIOUS
  <2> QED BY <2>1 DEF Now, Mode
<1>2. L \in Nat /\ (\A n \in 1..L : t[n] \in Token) /\ \A n \in 0..L : n # 0 => n \in 1..L
  OBVIOUS
<1>3. Meaning(t) = g[L]
  BY DEF Meaning, Now
<1> HIDE DEF m, L
<1>4. PICK f \in [0..L -> Mode] : Steps(f, ReadStep, m, t)
  BY <1>1, ReadStepType, FoldSteps DEF L
<1>5. Def(f)
  <2>1. \A n \in 1..L : f[n - 1] \in Mode
    BY <1>2
  <2>2. f[0] = m /\ \A n \in 1..L : f[n] = Reads(f[n - 1], t[n])
    BY <1>2, <1>4, <2>1, ReadStepType DEF Steps, L
  <2> QED BY <1>2, <2>2
<1>6. g = [n \in 0..L |-> IF n = 0 THEN m ELSE Reads(g[n - 1], t[n])]
  <2>1. Def(g)
    <3> HIDE DEF Def
    <3> QED BY <1>5
  <2> HIDE DEF g
  <2> QED BY <2>1
<1> HIDE DEF g, Def
<1>7. g[0] = m /\ \A n \in 1..L : g[n] = Reads(g[n - 1], t[n])
  <2>1. 0 \in 0..L /\ \A n \in 1..L : n \in 0..L /\ n # 0
    BY <1>2
  <2>2. \A n \in 0..L : g[n] = IF n = 0 THEN m ELSE Reads(g[n - 1], t[n])
    BY <1>6
  <2> QED BY <2>1, <2>2
<1>8. \A n \in 0..L : g[n] \in Mode
  <2>1. \A n \in 1..L : g[n - 1] \in Mode => g[n] \in Mode
    BY <1>2, <1>7, ReadsType
  <2> QED BY <1>1, <1>2, <1>7, <2>1, StaysIn
<1>9. Steps(g, ReadStep, m, t)
  <2>1. \A n \in 1..L : n - 1 \in 0..L
    BY <1>2
  <2> QED BY <1>2, <1>7, <1>8, <2>1, ReadStepType DEF Steps, L
<1>10. g[L] = Through(m, t)
  BY <1>1, <1>9, ReadStepType, FoldUnique DEF L, Through
<1> QED BY <1>1, <1>3, <1>10 DEF m

LEMMA PrefixProperties ==
  ASSUME NEW b \in Seq(Token), NEW n \in 0..Len(b)
  PROVE  /\ Prefix(b, n) \in Seq(Token) /\ Len(Prefix(b, n)) = n
         /\ n = 0 => Prefix(b, n) = <<>>
         /\ n # 0 => /\ Prefix(b, n) = Append(Prefix(b, n - 1), b[n])
                     /\ Prefix(b, n) = Prefix(b, n - 1) \o <<b[n]>>
<1>1. Len(b) \in Nat /\ n \in Int /\ \A i \in 1..n : b[i] \in Token
  OBVIOUS
<1>2. Prefix(b, n) \in Seq(Token) /\ Len(Prefix(b, n)) = n
  BY <1>1, SubSeqProperties DEF Prefix
<1>3. n = 0 => Prefix(b, n) = <<>>
  BY SubSeqEmpty DEF Prefix
<1>4. ASSUME n # 0
      PROVE  /\ Prefix(b, n) = Prefix(b, n - 1) \o <<b[n]>>
             /\ Prefix(b, n) = Append(Prefix(b, n - 1), b[n])
  <2>1. 1 \in 1..Len(b) /\ n \in 1..Len(b) /\ b[n] \in Token
    BY <1>1, <1>4
  <2>2. Prefix(b, n) = Prefix(b, n - 1) \o <<b[n]>>
    BY <2>1, SubSeqRecursiveSecond DEF Prefix
  <2>3. Prefix(b, n - 1) \in Seq(Token)
    BY <1>1, <2>1, SubSeqProperties DEF Prefix
  <2> QED BY <2>1, <2>2, <2>3, AppendIsConcat
<1> QED BY <1>2, <1>3, <1>4

LEMMA PlainStep ==
  ASSUME NEW inside \in BOOLEAN, NEW said \in Seq(Spoken), NEW b \in Seq(Token),
         NEW n \in 1..Len(b), NoTag(b, n, inside)
  PROVE  Reads(Unread(b, n - 1, inside, said), b[n]) = Unread(b, n, inside, said)
<1> DEFINE t == b[n]
           w(k) == said \o TagOf(inside, Prefix(b, k))
<1>1. Len(b) \in Nat /\ t \in Token /\ n \in Nat /\ n # 0 /\ n - 1 \in 0..Len(b) /\ n \in 0..Len(b)
  OBVIOUS
<1>2. \A k \in 0..Len(b) : w(k) \in Seq(Spoken)
  <2> SUFFICES ASSUME NEW k \in 0..Len(b) PROVE w(k) \in Seq(Spoken)
    OBVIOUS
  <2>1. TagOf(inside, Prefix(b, k)) \in Seq(Spoken)
    BY PrefixProperties, TagOfProperties
  <2> QED BY <2>1, ConcatProperties
<1>3. \A k \in 0..Len(b) : k # 0 => w(k) = Append(w(k - 1), <<Kindly(inside), b[k]>>)
  <2> SUFFICES ASSUME NEW k \in 0..Len(b), k # 0
               PROVE  w(k) = Append(w(k - 1), <<Kindly(inside), b[k]>>)
    OBVIOUS
  <2>1. k - 1 \in 0..Len(b) /\ b[k] \in Token
    BY <1>1
  <2> DEFINE text == Prefix(b, k - 1)
             e == b[k]
  <2>2. text \in Seq(Token) /\ Prefix(b, k) = Append(text, e)
    BY <2>1, PrefixProperties
  <2> HIDE DEF text, e
  <2>3. e \in Token
    BY <2>1 DEF e
  <2>4. said \o TagOf(inside, Append(text, e))
          = Append(said \o TagOf(inside, text), <<Kindly(inside), e>>)
    BY <2>2, <2>3, TagOfAppend
  <2> QED BY <2>2, <2>4 DEF text, e
<1>4. Unread(b, n, inside, said) = IF t = "<" THEN Now(inside, <<"<">>, w(n - 1))
                                   ELSE Now(inside, <<>>, w(n))
  BY <1>1 DEF Unread
<1>5. CASE n - 1 # 0 /\ b[n - 1] = "<"
  <2>1. Unread(b, n - 1, inside, said) = Now(inside, <<"<">>, w((n - 1) - 1))
    BY <1>5 DEF Unread
  <2>2. (n - 1) - 1 \in 0..Len(b) /\ n - 1 \in 1..(n - 1) /\ (n - 1) + 1 = n
    BY <1>1, <1>5
  <2>3. t \notin TagsIn(inside)
    BY <1>5, <2>2 DEF NoTag
  <2>4. w(n - 1) = Append(w((n - 1) - 1), <<Kindly(inside), "<">>)
    BY <1>1, <1>3, <1>5
  <2>5. w(n) = Append(w(n - 1), <<Kindly(inside), t>>)
    BY <1>1, <1>3
  <2>6. w((n - 1) - 1) \in Seq(Spoken)
    BY <1>2, <2>2
  <2> HIDE DEF w, t
  <2>7. CASE t = "<"
    <3>1. Reads(Now(inside, <<"<">>, w((n - 1) - 1)), t)
            = Now(inside, <<"<">>, Append(w((n - 1) - 1), <<Kindly(inside), "<">>))
      BY <1>1, <2>6, <2>7, ReadsCases
    <3> QED BY <1>4, <2>1, <2>4, <2>7, <3>1 DEF t
  <2>8. CASE t # "<"
    <3>1. t \notin TagsIn(inside) \cup {"<"}
      BY <2>3, <2>8
    <3>2. Reads(Now(inside, <<"<">>, w((n - 1) - 1)), t)
            = Now(inside, <<>>, Append(Append(w((n - 1) - 1), <<Kindly(inside), "<">>),
                                       <<Kindly(inside), t>>))
      BY <1>1, <2>6, <3>1, ReadsCases
    <3> QED BY <1>4, <2>1, <2>4, <2>5, <2>8, <3>2 DEF t
  <2> QED BY <2>7, <2>8
<1>6. CASE ~(n - 1 # 0 /\ b[n - 1] = "<")
  <2>1. Unread(b, n - 1, inside, said) = Now(inside, <<>>, w(n - 1))
    BY <1>6 DEF Unread
  <2>2. w(n) = Append(w(n - 1), <<Kindly(inside), t>>) /\ w(n - 1) \in Seq(Spoken)
    BY <1>1, <1>2, <1>3
  <2> HIDE DEF w, t
  <2>3. CASE t = "<"
    <3> DEFINE v == w(n - 1)
    <3> HIDE DEF v
    <3>1. Reads(Now(inside, <<>>, v), t) = Now(inside, <<"<">>, v)
      BY <2>3, ReadsOpen
    <3> QED BY <1>4, <2>1, <2>3, <3>1 DEF t, v
  <2>4. CASE t # "<"
    <3>1. Reads(Now(inside, <<>>, w(n - 1)), t)
            = Now(inside, <<>>, Append(w(n - 1), <<Kindly(inside), t>>))
      BY <1>1, <2>2, <2>4, ReadsCases
    <3> QED BY <1>4, <2>1, <2>2, <2>4, <3>1 DEF t
  <2> QED BY <2>3, <2>4
<1> QED BY <1>5, <1>6

LEMMA PlainText ==
  ASSUME NEW inside \in BOOLEAN, NEW said \in Seq(Spoken), NEW b \in Seq(Token),
         NEW n \in 0..Len(b), NoTag(b, n, inside)
  PROVE  Through(Now(inside, <<>>, said), Prefix(b, n)) = Unread(b, n, inside, said)
<1> DEFINE m == Now(inside, <<>>, said)
           T == {k \in 0..n : Through(m, Prefix(b, k)) = Unread(b, k, inside, said)}
<1>1. m \in Mode /\ n \in Nat /\ Len(b) \in Nat
  BY DEF Now, Mode
<1>2. 0 \in T
  <2>1. 0 \in 0..n /\ 0 \in 0..Len(b)
    BY <1>1
  <2>2. Prefix(b, 0) = <<>>
    BY <2>1, PrefixProperties
  <2>3. Through(m, <<>>) = m
    BY <1>1, ThroughShort DEF Token
  <2>4. TagOf(inside, <<>>) = <<>>
    BY DEF TagOf
  <2>5. said \o <<>> = said
    BY ConcatEmptySeq
  <2>6. Unread(b, 0, inside, said) = m
    BY <2>2, <2>4, <2>5 DEF Unread
  <2> HIDE DEF m
  <2> QED BY <2>1, <2>2, <2>3, <2>6
<1> HIDE DEF m
<1>4. m \in Mode
  BY <1>1
<1>3. ASSUME NEW k \in 1..n, k - 1 \in T PROVE k \in T
  <2>1. k \in 1..Len(b) /\ k \in 0..Len(b) /\ k - 1 \in 0..Len(b) /\ b[k] \in Token /\ k # 0
    BY <1>1
  <2>2. NoTag(b, k, inside)
    <3>1. \A i \in 1..(k - 1) : i \in 1..(n - 1)
      BY <1>1
    <3> QED BY <3>1 DEF NoTag
  <2>3. Prefix(b, k) = Prefix(b, k - 1) \o <<b[k]>> /\ Prefix(b, k - 1) \in Seq(Token)
    BY <2>1, PrefixProperties
  <2>4. <<b[k]>> \in Seq(Token)
    BY <2>1
  <2>5. /\ Through(m, Prefix(b, k)) = Through(Through(m, Prefix(b, k - 1)), <<b[k]>>)
        /\ Through(m, Prefix(b, k - 1)) \in Mode
    <3> DEFINE p == Prefix(b, k - 1)
               e == <<b[k]>>
    <3>1. m \in Mode /\ p \in Seq(Token) /\ e \in Seq(Token) /\ Prefix(b, k) = p \o e
      BY <1>4, <2>3, <2>4
    <3> HIDE DEF p, e
    <3>2. Through(m, p) \in Mode /\ Through(m, p \o e) = Through(Through(m, p), e)
      BY <3>1, ThroughSplit
    <3> QED BY <3>1, <3>2 DEF p, e
  <2>6. Through(m, Prefix(b, k)) = Reads(Through(m, Prefix(b, k - 1)), b[k])
    BY <2>1, <2>5, ThroughShort
  <2>7. Through(m, Prefix(b, k - 1)) = Unread(b, k - 1, inside, said)
    BY <1>3
  <2>8. Reads(Unread(b, k - 1, inside, said), b[k]) = Unread(b, k, inside, said)
    BY <2>1, <2>2, PlainStep
  <2> QED BY <1>1, <2>6, <2>7, <2>8
<1> HIDE DEF T
<1>5. 0..n \subseteq T
  BY <1>1, <1>2, <1>3, UpTo
<1> QED BY <1>1, <1>5 DEF T, m
-----------------------------------------------------------------------------
(* The ThinkTagParser, round by round, feed by feed.                         *)

LEMMA TagRead ==
  ASSUME NEW inside \in BOOLEAN, NEW said \in Seq(Spoken), NEW b \in Seq(Token), NEW i,
         FirstTag(b, i, inside)
  PROVE  /\ Before(b, i) \in Seq(Token) /\ From(b, i + 2) \in Seq(Token)
         /\ Len(From(b, i + 2)) < Len(b)
         /\ Through(Now(inside, <<>>, said), b)
              = Through(Now(b[i + 1] = "think>", <<>>, said \o TagOf(inside, Before(b, i))),
                        From(b, i + 2))
<1> DEFINE m == Now(inside, <<>>, said)
           p == Prefix(b, i)
           q == Prefix(b, i + 1)
           e == <<b[i + 1]>>
           rest == From(b, i + 2)
           w == said \o TagOf(inside, Prefix(b, i - 1))
           held == Now(inside, <<"<">>, w)
           end == Now(b[i + 1] = "think>", <<>>, w)
<1>1. /\ Len(b) \in Nat /\ i \in 1..Len(b) /\ i + 1 \in 1..Len(b)
      /\ i \in 0..Len(b) /\ i + 1 \in 0..Len(b) /\ i - 1 \in 0..Len(b) /\ i # 0 /\ i + 1 # 0
      /\ (i + 1) - 1 = i /\ b[i] = "<" /\ b[i + 1] \in TagsIn(inside) /\ NoTag(b, i, inside)
      /\ b[i + 1] \in Token /\ i + 2 \in 1..(Len(b) + 1) /\ i + 2 \in Int
  BY DEF FirstTag
<1>2. m \in Mode
  BY DEF Now, Mode
<1>3. p \in Seq(Token) /\ q \in Seq(Token) /\ q = p \o e /\ e \in Seq(Token)
      /\ Prefix(b, i - 1) \in Seq(Token)
  <2>1. p \in Seq(Token) /\ Prefix(b, i - 1) \in Seq(Token)
    BY <1>1, PrefixProperties
  <2>2. q \in Seq(Token) /\ q = Prefix(b, (i + 1) - 1) \o e
    BY <1>1, PrefixProperties
  <2>3. e \in Seq(Token)
    BY <1>1
  <2> QED BY <1>1, <2>1, <2>2, <2>3
<1>4. Before(b, i) = Prefix(b, i - 1)
  BY DEF Before, Prefix
<1>5. rest \in Seq(Token) /\ Len(rest) = Len(b) - (i + 1)
  <2>1. \A k \in (i + 2)..Len(b) : b[k] \in Token
    BY <1>1
  <2>2. rest = SubSeq(b, i + 2, Len(b)) /\ Len(b) \in (i + 1)..Len(b) /\ Len(b) \in Int
    BY <1>1 DEF From
  <2>3. /\ SubSeq(b, i + 2, Len(b)) \in Seq(Token)
        /\ Len(SubSeq(b, i + 2, Len(b))) = IF i + 2 <= Len(b) THEN Len(b) - (i + 2) + 1 ELSE 0
    BY <1>1, <2>1, <2>2, SubSeqProperties
  <2>4. (IF i + 2 <= Len(b) THEN Len(b) - (i + 2) + 1 ELSE 0) = Len(b) - (i + 1)
    BY <1>1
  <2> HIDE DEF rest
  <2> QED BY <2>2, <2>3, <2>4
<1>6. b = q \o rest
  <2> DEFINE u == q \o rest
  <2>1. Len(q) = i + 1
    BY <1>1, PrefixProperties
  <2>2. /\ u \in Seq(Token) /\ Len(u) = Len(b)
        /\ \A k \in 1..(i + 1) : u[k] = q[k]
        /\ \A k \in 1..Len(rest) : u[(i + 1) + k] = rest[k]
    <3>3. q \in Seq(Token) /\ rest \in Seq(Token)
      BY <1>3, <1>5
    <3> HIDE DEF q, rest, p, e, m, w, held, end
    <3>1. /\ u \in Seq(Token) /\ Len(u) = Len(q) + Len(rest)
          /\ \A k \in 1..Len(q) : u[k] = q[k]
          /\ \A k \in 1..Len(rest) : u[Len(q) + k] = rest[k]
      BY <3>3, ConcatParts
    <3> HIDE DEF u
    <3>2. (i + 1) + (Len(b) - (i + 1)) = Len(b)
      BY <1>1
    <3> QED BY <1>5, <2>1, <3>1, <3>2
  <2>3. \A k \in 1..(i + 1) : q[k] = b[k]
    BY <1>1 DEF Prefix
  <2>4. \A k \in 1..Len(rest) : rest[k] = b[(i + 1) + k]
    BY <1>1, <1>5 DEF From
  <2> HIDE DEF u, q, rest
  <2>5. \A k \in 1..Len(b) : u[k] = b[k]
    <3> SUFFICES ASSUME NEW k \in 1..Len(b) PROVE u[k] = b[k]
      OBVIOUS
    <3>1. CASE k <= i + 1
      BY <1>1, <2>2, <2>3, <3>1
    <3>2. CASE k > i + 1
      <4>1. k - (i + 1) \in 1..Len(rest) /\ (i + 1) + (k - (i + 1)) = k
        BY <1>1, <1>5, <3>2
      <4> QED BY <2>2, <2>4, <4>1
    <3> QED BY <1>1, <3>1, <3>2
  <2>6. u = b
    BY <2>2, <2>5, SeqEqual
  <2> QED BY <2>6 DEF u
<1>7. Through(m, p) = held
  BY <1>1, PlainText DEF Unread
<1>8. w \in Seq(Spoken) /\ held \in Mode /\ end \in Mode
  <2>1. TagOf(inside, Prefix(b, i - 1)) \in Seq(Spoken)
    BY <1>3, TagOfProperties
  <2>2. w \in Seq(Spoken)
    BY <2>1, ConcatProperties
  <2> HIDE DEF w
  <2> QED BY <2>2 DEF Now, Mode
<1>9. Reads(held, b[i + 1]) = end
  <2> HIDE DEF w
  <2> QED BY <1>1, <1>8, ReadsCases
<1>10. Through(held, e) = end
  BY <1>1, <1>8, <1>9, ThroughShort
<1> HIDE DEF m, p, q, e, rest, held, end
<1>11. Through(m, q) = end
  BY <1>2, <1>3, <1>7, <1>10, ThroughSplit
<1>12. Through(m, q \o rest) = Through(end, rest)
  BY <1>2, <1>3, <1>5, <1>11, ThroughSplit
<1>13. Through(m, b) = Through(end, rest)
  BY <1>6, <1>12
<1> QED BY <1>1, <1>3, <1>4, <1>5, <1>13 DEF m, rest, end, w

LEMMA FindProperties ==
  ASSUME NEW b \in Seq(Token), NEW x \in Token
  PROVE  LET i == Find(b, <<"<", x>>)
         IN \/ i = 0 /\ \A k \in 1..(Len(b) - 1) : ~(b[k] = "<" /\ b[k + 1] = x)
            \/ /\ i \in 1..(Len(b) - 1) /\ b[i] = "<" /\ b[i + 1] = x
               /\ \A k \in 1..(i - 1) : ~(b[k] = "<" /\ b[k + 1] = x)
<1> DEFINE tag == <<"<", x>>
           hits == {k \in 1..(Len(b) - Len(tag) + 1) : SubSeq(b, k, k + Len(tag) - 1) = tag}
           there(k) == b[k] = "<" /\ b[k + 1] = x
<1>1. Len(b) \in Nat /\ Len(tag) = 2 /\ tag \in Seq(Token) /\ tag[1] = "<" /\ tag[2] = x
  BY DEF Token
<1>2. 1..(Len(b) - Len(tag) + 1) = 1..(Len(b) - 1)
  BY <1>1
<1>3. \A k \in 1..(Len(b) - 1) : SubSeq(b, k, k + Len(tag) - 1) = tag <=> there(k)
  <2> SUFFICES ASSUME NEW k \in 1..(Len(b) - 1)
               PROVE  SubSeq(b, k, k + Len(tag) - 1) = tag <=> there(k)
    OBVIOUS
  <2> DEFINE s == SubSeq(b, k, k + 1)
  <2>1. k + Len(tag) - 1 = k + 1
    BY <1>1
  <2>2. k \in 1..Len(b) /\ k + 1 \in 1..Len(b) /\ k <= k + 1 /\ k \in Int
    BY <1>1
  <2>3. /\ s \in Seq(Token) /\ Len(s) = 2 /\ s[1] = b[k] /\ s[2] = b[k + 1]
    <3>1. \A j \in k..(k + 1) : b[j] \in Token
      BY <1>1, <2>2
    <3>2. /\ s \in Seq(Token)
          /\ Len(s) = IF k <= k + 1 THEN (k + 1) - k + 1 ELSE 0
          /\ \A j \in 1..((k + 1) - k + 1) : s[j] = b[k + j - 1]
      BY <2>2, <3>1, SubSeqProperties
    <3>3. 1 \in 1..((k + 1) - k + 1) /\ 2 \in 1..((k + 1) - k + 1)
          /\ k + 1 - 1 = k /\ k + 2 - 1 = k + 1 /\ (k + 1) - k + 1 = 2
      BY <2>2
    <3> HIDE DEF s
    <3> QED BY <2>2, <3>2, <3>3
  <2> HIDE DEF s, tag
  <2>4. s = tag <=> there(k)
    <3>1. ASSUME there(k) PROVE s = tag
      <4>1. \A j \in 1..2 : s[j] = tag[j]
        BY <1>1, <2>3, <3>1
      <4> QED BY <1>1, <2>3, <4>1, SeqEqual
    <3>2. ASSUME s = tag PROVE there(k)
      BY <1>1, <2>3, <3>2
    <3> QED BY <3>1, <3>2
  <2> QED BY <2>1, <2>4 DEF s
<1> DEFINE i == Find(b, tag)
<1>4. i = IF hits = {} THEN 0 ELSE CHOOSE k \in hits : \A j \in hits : k <= j
  BY DEF Find
<1>5. hits = {k \in 1..(Len(b) - 1) : there(k)}
  BY <1>2, <1>3
<1> HIDE DEF hits, tag
<1>6. CASE hits = {}
  BY <1>4, <1>5, <1>6 DEF tag
<1>7. CASE hits # {}
  <2>1. hits \in SUBSET Nat
    BY <1>1, <1>5
  <2>2. \E k \in hits : \A j \in hits : k <= j
    BY <1>7, <2>1, Smallest
  <2>3. i \in hits /\ \A j \in hits : i <= j
    BY <1>4, <1>7, <2>2
  <2>4. \A k \in 1..(i - 1) : k \in 1..(Len(b) - 1) /\ ~(i <= k)
    BY <1>1, <1>5, <2>3
  <2> QED BY <1>5, <2>3, <2>4 DEF tag
<1> QED BY <1>6, <1>7

\* What a round of the parser takes from the buffer.
Taken(inside, b) == IF inside THEN ParseInside(b) ELSE ParseOutside(b)

LEMMA RoundRead ==
  ASSUME NEW inside \in BOOLEAN, NEW b \in Seq(Token), b # <<>>
  PROVE  LET y == Taken(inside, b)
         IN /\ y.buf \in Seq(Token) /\ y.in \in BOOLEAN /\ y.text \in Seq(Token)
            /\ y.type = Kindly(inside)
            /\ y.buf = <<"<">> \/ Len(y.buf) < Len(b)
            /\ \A said \in Seq(Spoken) :
                 Through(Now(inside, <<>>, said), b)
                   = Through(Now(y.in, <<>>, said \o TagOf(inside, y.text)), y.buf)
<1> DEFINE y == Taken(inside, b)
           L == Len(b)
           open == Find(b, Open)
           close == Find(b, Close)
           kind == Kindly(inside)
<1>1. L \in Nat /\ L # 0 /\ \A k \in 1..L : b[k] \in Token
  BY EmptySeq
<1>2. "think>" \in Token /\ "/think>" \in Token /\ "<" \in Token
  BY DEF Token
<1>3. /\ \/ open = 0 /\ \A k \in 1..(L - 1) : ~(b[k] = "<" /\ b[k + 1] = "think>")
         \/ /\ open \in 1..(L - 1) /\ b[open] = "<" /\ b[open + 1] = "think>"
            /\ \A k \in 1..(open - 1) : ~(b[k] = "<" /\ b[k + 1] = "think>")
      /\ \/ close = 0 /\ \A k \in 1..(L - 1) : ~(b[k] = "<" /\ b[k + 1] = "/think>")
         \/ /\ close \in 1..(L - 1) /\ b[close] = "<" /\ b[close + 1] = "/think>"
            /\ \A k \in 1..(close - 1) : ~(b[k] = "<" /\ b[k + 1] = "/think>")
  BY <1>2, FindProperties DEF Open, Close
<1>4. Len(Open) = 2 /\ Len(Close) = 2
  BY DEF Open, Close
<1>5. kind = IF inside THEN "thinking" ELSE "text"
  BY DEF Kindly
<1> DEFINE safe == EmitSafe(b, inside, kind)
           cut(i, to) == Yield(From(b, i + 2), to, kind, Before(b, i))
<1> HIDE DEF open, close, kind
<1>6. \/ /\ y = safe /\ NoTag(b, L, inside)
      \/ \E i \in 1..(L - 1) : FirstTag(b, i, inside) /\ y = cut(i, b[i + 1] = "think>")
  <2>1. CASE inside
    <3>1. y = ParseInside(b) /\ kind = "thinking" /\ TagsIn(inside) = {"/think>"}
      BY <1>5, <2>1 DEF Taken, TagsIn
    <3>2. CASE close = 0
      <4>1. y = EmitSafe(b, TRUE, "thinking")
        BY <3>1, <3>2 DEF ParseInside, close
      <4>2. NoTag(b, L, inside)
        BY <1>3, <3>1, <3>2 DEF NoTag
      <4> QED BY <2>1, <3>1, <4>1, <4>2
    <3>3. CASE close # 0
      <4>1. y = Yield(From(b, close + 2), FALSE, "thinking", Before(b, close))
        BY <1>4, <3>1, <3>3 DEF ParseInside, close
      <4>2. /\ close \in 1..(L - 1) /\ b[close] = "<" /\ b[close + 1] = "/think>"
            /\ \A k \in 1..(close - 1) : ~(b[k] = "<" /\ b[k + 1] = "/think>")
        BY <1>3, <3>3
      <4>3. FirstTag(b, close, inside)
        BY <3>1, <4>2 DEF FirstTag, NoTag
      <4>4. (b[close + 1] = "think>") = FALSE
        BY <4>2
      <4> QED BY <3>1, <4>1, <4>2, <4>3, <4>4
    <3> QED BY <3>2, <3>3
  <2>2. CASE ~inside
    <3>1. y = ParseOutside(b) /\ kind = "text" /\ TagsIn(inside) = {"think>", "/think>"}
      BY <1>5, <2>2 DEF Taken, TagsIn
    <3>2. CASE close # 0 /\ (open = 0 \/ close < open)
      <4>1. y = Yield(From(b, close + 2), FALSE, "text", Before(b, close))
        BY <1>4, <3>1, <3>2 DEF ParseOutside, open, close
      <4>2. /\ close \in 1..(L - 1) /\ b[close] = "<" /\ b[close + 1] = "/think>"
            /\ \A k \in 1..(close - 1) : ~(b[k] = "<" /\ b[k + 1] = "/think>")
        BY <1>3, <3>2
      <4>3. \A k \in 1..(close - 1) : ~(b[k] = "<" /\ b[k + 1] = "think>")
        <5>1. CASE open = 0
          <6>1. \A k \in 1..(close - 1) : k \in 1..(L - 1)
            BY <1>1, <4>2
          <6>2. \A k \in 1..(L - 1) : ~(b[k] = "<" /\ b[k + 1] = "think>")
            BY <1>3, <5>1
          <6> QED BY <6>1, <6>2
        <5>2. CASE open # 0
          <6>1. open \in 1..(L - 1) /\ close < open
            BY <1>3, <3>2, <5>2
          <6>2. \A k \in 1..(close - 1) : k \in 1..(open - 1)
            BY <1>1, <4>2, <6>1
          <6>3. \A k \in 1..(open - 1) : ~(b[k] = "<" /\ b[k + 1] = "think>")
            BY <1>3, <5>2
          <6> QED BY <6>2, <6>3
        <5> QED BY <5>1, <5>2
      <4>4. FirstTag(b, close, inside)
        BY <3>1, <4>2, <4>3 DEF FirstTag, NoTag
      <4>5. (b[close + 1] = "think>") = FALSE
        BY <4>2
      <4> QED BY <3>1, <4>1, <4>2, <4>4, <4>5
    <3>3. CASE ~(close # 0 /\ (open = 0 \/ close < open)) /\ open = 0
      <4>1. y = EmitSafe(b, FALSE, "text")
        BY <3>1, <3>3 DEF ParseOutside, open, close
      <4>2. NoTag(b, L, inside)
        BY <1>3, <3>1, <3>3 DEF NoTag
      <4> QED BY <2>2, <3>1, <4>1, <4>2
    <3>4. CASE ~(close # 0 /\ (open = 0 \/ close < open)) /\ open # 0
      <4>1. y = Yield(From(b, open + 2), TRUE, "text", Before(b, open))
        BY <1>4, <3>1, <3>4 DEF ParseOutside, open, close
      <4>2. /\ open \in 1..(L - 1) /\ b[open] = "<" /\ b[open + 1] = "think>"
            /\ \A k \in 1..(open - 1) : ~(b[k] = "<" /\ b[k + 1] = "think>")
        BY <1>3, <3>4
      <4>3. \A k \in 1..(open - 1) : ~(b[k] = "<" /\ b[k + 1] = "/think>")
        <5>1. CASE close = 0
          <6>1. \A k \in 1..(open - 1) : k \in 1..(L - 1)
            BY <1>1, <4>2
          <6>2. \A k \in 1..(L - 1) : ~(b[k] = "<" /\ b[k + 1] = "/think>")
            BY <1>3, <5>1
          <6> QED BY <6>1, <6>2
        <5>2. CASE close # 0
          <6>1. close \in 1..(L - 1) /\ ~(close < open)
            BY <1>3, <3>4, <5>2
          <6>2. \A k \in 1..(open - 1) : k \in 1..(close - 1)
            BY <1>1, <4>2, <6>1
          <6>3. \A k \in 1..(close - 1) : ~(b[k] = "<" /\ b[k + 1] = "/think>")
            BY <1>3, <5>2
          <6> QED BY <6>2, <6>3
        <5> QED BY <5>1, <5>2
      <4>4. FirstTag(b, open, inside)
        BY <3>1, <4>2, <4>3 DEF FirstTag, NoTag
      <4>5. (b[open + 1] = "think>") = TRUE
        BY <4>2
      <4> QED BY <3>1, <4>1, <4>2, <4>4, <4>5
    <3> QED BY <3>2, <3>3, <3>4
  <2> QED BY <2>1, <2>2
<1> DEFINE Same == \A said \in Seq(Spoken) :
                     Through(Now(inside, <<>>, said), b)
                       = Through(Now(y.in, <<>>, said \o TagOf(inside, y.text)), y.buf)
           Fine == /\ y.buf \in Seq(Token) /\ y.in \in BOOLEAN /\ y.text \in Seq(Token)
                   /\ y.type = kind
                   /\ y.buf = <<"<">> \/ Len(y.buf) < L
                   /\ Same
<1>7. ASSUME NEW i \in 1..(L - 1), FirstTag(b, i, inside), y = cut(i, b[i + 1] = "think>")
      PROVE  Fine
  <2>1. /\ y.buf = From(b, i + 2) /\ y.in = (b[i + 1] = "think>") /\ y.type = kind
        /\ y.text = Before(b, i)
    BY <1>7 DEF Yield
  <2> HIDE DEF y
  <2>2. /\ Before(b, i) \in Seq(Token) /\ From(b, i + 2) \in Seq(Token)
        /\ Len(From(b, i + 2)) < Len(b)
    <3>1. <<>> \in Seq(Spoken)
      OBVIOUS
    <3> QED BY <1>7, <3>1, TagRead
  <2>3. Same
    <3> SUFFICES ASSUME NEW said \in Seq(Spoken)
                 PROVE  Through(Now(inside, <<>>, said), b)
                          = Through(Now(y.in, <<>>, said \o TagOf(inside, y.text)), y.buf)
      OBVIOUS
    <3>1. Through(Now(inside, <<>>, said), b)
            = Through(Now(b[i + 1] = "think>", <<>>, said \o TagOf(inside, Before(b, i))),
                      From(b, i + 2))
      BY <1>7, TagRead
    <3> QED BY <2>1, <3>1
  <2>4. y.in \in BOOLEAN
    BY <2>1
  <2> QED BY <2>1, <2>2, <2>3, <2>4
<1>8. ASSUME y = safe, NoTag(b, L, inside) PROVE Fine
  <2>1. L \in 0..L /\ L - 1 \in 0..L /\ L \in 1..L
    BY <1>1
  <2>2. Prefix(b, L) = b
    <3>1. Prefix(b, L) \in Seq(Token) /\ Len(Prefix(b, L)) = L
      BY <2>1, PrefixProperties
    <3>2. \A k \in 1..L : Prefix(b, L)[k] = b[k]
      BY <1>1 DEF Prefix
    <3> QED BY <3>1, <3>2, SeqEqual
  <2>3. \A said \in Seq(Spoken) : Through(Now(inside, <<>>, said), b) = Unread(b, L, inside, said)
    BY <1>8, <2>1, <2>2, PlainText
  <2>4. Prefix(b, L - 1) \in Seq(Token) /\ <<"<">> \in Seq(Token) /\ <<>> \in Seq(Token)
    <3>1. Prefix(b, L - 1) \in Seq(Token)
      BY <2>1, PrefixProperties
    <3>2. <<"<">> \in Seq(Token) /\ <<>> \in Seq(Token)
      BY <1>2
    <3> QED BY <3>1, <3>2
  <2>5. CASE b[L] = "<"
    <3>1. y = Yield(<<"<">>, inside, kind, Prefix(b, L - 1))
      BY <1>8, <2>5 DEF EmitSafe, Last, Front, Prefix
    <3>2. y.buf = <<"<">> /\ y.in = inside /\ y.type = kind /\ y.text = Prefix(b, L - 1)
      BY <3>1 DEF Yield
    <3> HIDE DEF y
    <3>3. Same
      <4> SUFFICES ASSUME NEW said \in Seq(Spoken)
                   PROVE  Through(Now(inside, <<>>, said), b)
                            = Through(Now(y.in, <<>>, said \o TagOf(inside, y.text)), y.buf)
        OBVIOUS
      <4> DEFINE w == said \o TagOf(inside, Prefix(b, L - 1))
      <4>1. w \in Seq(Spoken)
        <5>1. TagOf(inside, Prefix(b, L - 1)) \in Seq(Spoken)
          BY <2>4, TagOfProperties
        <5> QED BY <5>1, ConcatProperties
      <4>2. Unread(b, L, inside, said) = Now(inside, <<"<">>, w)
        BY <1>1, <2>5 DEF Unread
      <4> HIDE DEF w
      <4>3. Now(inside, <<>>, w) \in Mode
        BY <4>1 DEF Now, Mode
      <4>4. Through(Now(inside, <<>>, w), <<"<">>) = Reads(Now(inside, <<>>, w), "<")
        BY <1>2, <4>3, ThroughShort
      <4>5. Reads(Now(inside, <<>>, w), "<") = Now(inside, <<"<">>, w)
        BY <1>2, <4>1, ReadsCases
      <4> QED BY <2>3, <3>2, <4>2, <4>4, <4>5 DEF w
    <3> QED BY <2>4, <3>2, <3>3
  <2>6. CASE b[L] # "<"
    <3>1. y = Yield(<<>>, inside, kind, b)
      BY <1>8, <2>6 DEF EmitSafe, Last
    <3>2. y.buf = <<>> /\ y.in = inside /\ y.type = kind /\ y.text = b
      BY <3>1 DEF Yield
    <3> HIDE DEF y
    <3>3. Same
      <4> SUFFICES ASSUME NEW said \in Seq(Spoken)
                   PROVE  Through(Now(inside, <<>>, said), b)
                            = Through(Now(y.in, <<>>, said \o TagOf(inside, y.text)), y.buf)
        OBVIOUS
      <4> DEFINE w == said \o TagOf(inside, b)
      <4>1. w \in Seq(Spoken)
        <5>1. TagOf(inside, b) \in Seq(Spoken)
          BY TagOfProperties
        <5> QED BY <5>1, ConcatProperties
      <4>2. Unread(b, L, inside, said) = Now(inside, <<>>, w)
        BY <1>1, <2>2, <2>6 DEF Unread
      <4> HIDE DEF w
      <4>3. Now(inside, <<>>, w) \in Mode
        BY <4>1 DEF Now, Mode
      <4>4. Through(Now(inside, <<>>, w), <<>>) = Now(inside, <<>>, w)
        BY <1>2, <4>3, ThroughShort
      <4> QED BY <2>3, <3>2, <4>2, <4>4 DEF w
    <3>4. Len(<<>>) < L
      BY <1>1
    <3> QED BY <2>4, <3>2, <3>3, <3>4
  <2> QED BY <2>5, <2>6
<1>9. Fine
  <2> HIDE DEF Fine
  <2> QED BY <1>6, <1>7, <1>8
<1> QED BY <1>9 DEF kind

LEMMA TaggedIs ==
  ASSUME NEW inside \in BOOLEAN, NEW x \in Piece
  PROVE  /\ Tagged(x) \in Seq(Spoken)
         /\ x.type = Kindly(inside) => Tagged(x) = TagOf(inside, x.text)
<1>1. x.type \in {"text", "thinking"} /\ x.text \in Seq(Token)
  BY DEF Piece
<1>2. DOMAIN x.text = 1..Len(x.text)
  BY <1>1
<1>3. x.type = Kindly(x.type = "thinking")
  BY <1>1 DEF Kindly
<1>4. \A b \in BOOLEAN : x.type = Kindly(b) => Tagged(x) = TagOf(b, x.text)
  BY <1>2 DEF Tagged, TagOf
<1>5. Tagged(x) = TagOf(x.type = "thinking", x.text)
  BY <1>3, <1>4
<1>6. TagOf(x.type = "thinking", x.text) \in Seq(Spoken)
  <2>1. (x.type = "thinking") \in BOOLEAN
    OBVIOUS
  <2> QED BY <1>1, <2>1, TagOfProperties
<1> QED BY <1>4, <1>5, <1>6

LEMMA SayStepType ==
  /\ Stepping(SayStep, Seq(Spoken), Piece)
  /\ \A v \in Seq(Spoken), x \in Piece : SayStep[v][x] = v \o Tagged(x)
<1>1. \A v \in Seq(Spoken), x \in Piece : v \o Tagged(x) \in Seq(Spoken)
  <2> SUFFICES ASSUME NEW v \in Seq(Spoken), NEW x \in Piece PROVE v \o Tagged(x) \in Seq(Spoken)
    OBVIOUS
  <2>1. Tagged(x) \in Seq(Spoken)
    BY TaggedIs
  <2> QED BY <2>1, ConcatParts
<1> QED BY <1>1 DEF SayStep, Stepping

LEMMA SaidFold ==
  ASSUME NEW parts \in Seq(Piece)
  PROVE  Said(parts) = Fold(SayStep, <<>>, parts)
<1> DEFINE S == Seq(Spoken)
           L == Len(parts)
           Def(f) == f = [n \in 0..L |-> IF n = 0 THEN <<>> ELSE f[n - 1] \o Tagged(parts[n])]
           g == CHOOSE f : Def(f)
<1>1. <<>> \in S
  OBVIOUS
<1>2. L \in Nat /\ (\A n \in 1..L : parts[n] \in Piece) /\ \A n \in 0..L : n # 0 => n \in 1..L
  OBVIOUS
<1>3. Said(parts) = g[L]
  BY DEF Said
<1> HIDE DEF L, S
<1>4. PICK f \in [0..L -> S] : Steps(f, SayStep, <<>>, parts)
  BY <1>1, SayStepType, FoldSteps DEF L, S
<1>5. Def(f)
  <2>1. \A n \in 1..L : f[n - 1] \in S
    BY <1>2
  <2>2. f[0] = <<>> /\ \A n \in 1..L : f[n] = f[n - 1] \o Tagged(parts[n])
    BY <1>2, <1>4, <2>1, SayStepType DEF Steps, L, S
  <2> QED BY <1>2, <2>2
<1>6. g = [n \in 0..L |-> IF n = 0 THEN <<>> ELSE g[n - 1] \o Tagged(parts[n])]
  <2>1. Def(g)
    <3> HIDE DEF Def
    <3> QED BY <1>5
  <2> HIDE DEF g
  <2> QED BY <2>1
<1> HIDE DEF g, Def
<1>7. g[0] = <<>> /\ \A n \in 1..L : g[n] = g[n - 1] \o Tagged(parts[n])
  <2>1. 0 \in 0..L /\ \A n \in 1..L : n \in 0..L /\ n # 0
    BY <1>2
  <2>2. \A n \in 0..L : g[n] = IF n = 0 THEN <<>> ELSE g[n - 1] \o Tagged(parts[n])
    BY <1>6
  <2> QED BY <2>1, <2>2
<1>8. \A n \in 0..L : g[n] \in S
  <2>1. ASSUME NEW n \in 1..L, g[n - 1] \in S PROVE g[n] \in S
    <3>1. SayStep[g[n - 1]][parts[n]] = g[n] /\ parts[n] \in Piece
      BY <1>2, <1>7, <2>1, SayStepType DEF S
    <3> QED BY <2>1, <3>1, SayStepType DEF Stepping, S
  <2> QED BY <1>1, <1>2, <1>7, <2>1, StaysIn
<1>9. Steps(g, SayStep, <<>>, parts)
  <2>1. \A n \in 1..L : n - 1 \in 0..L
    BY <1>2
  <2> QED BY <1>2, <1>7, <1>8, <2>1, SayStepType DEF Steps, L, S
<1>10. g[L] = Fold(SayStep, <<>>, parts)
  BY <1>1, <1>9, SayStepType, FoldUnique DEF L, S
<1> QED BY <1>3, <1>10

LEMMA SaidProperties ==
  /\ Said(<<>>) = <<>>
  /\ \A parts \in Seq(Piece) : Said(parts) \in Seq(Spoken)
  /\ \A parts \in Seq(Piece), x \in Piece : Said(Append(parts, x)) = Said(parts) \o Tagged(x)
<1> DEFINE S == Seq(Spoken)
           none == <<>>
<1>1. none \in S /\ none \in Seq(Piece) /\ Len(none) = 0
  OBVIOUS
<1>2. Stepping(SayStep, S, Piece) /\ \A v \in S, x \in Piece : SayStep[v][x] = v \o Tagged(x)
  BY SayStepType
<1> HIDE DEF S
<1>3. \A p \in Seq(Piece) : Said(p) = Fold(SayStep, none, p)
  BY SaidFold
<1>4. Said(none) = none
  <2> DEFINE x == [type |-> "text", text |-> <<>>]
  <2>1. x \in Piece
    BY DEF Piece
  <2> HIDE DEF x
  <2>2. \A v \in S : Fold(SayStep, v, <<>>) = v /\ Fold(SayStep, v, <<x>>) = SayStep[v][x]
    BY <1>2, <2>1, FoldShort
  <2>3. Fold(SayStep, none, none) = none
    BY <1>1, <2>2
  <2> QED BY <1>1, <1>3, <2>3
<1> HIDE DEF none
<1>5. \A p \in Seq(Piece) : Said(p) \in S
  BY <1>1, <1>2, <1>3, FoldSplit
<1>6. ASSUME NEW p \in Seq(Piece), NEW x \in Piece PROVE Said(Append(p, x)) = Said(p) \o Tagged(x)
  <2>1. Append(p, x) \in Seq(Piece)
    BY AppendProperties
  <2>2. Fold(SayStep, none, p) \in S
        /\ Fold(SayStep, none, Append(p, x)) = SayStep[Fold(SayStep, none, p)][x]
    BY <1>1, <1>2, FoldAppend
  <2> QED BY <1>2, <1>3, <2>1, <2>2
<1> QED BY <1>4, <1>5, <1>6 DEF none, S

Short(r, n) == r.buf = <<>> \/ r.buf = <<"<">> \/ Len(r.buf) <= n
LEMMA RoundKeeps ==
  ASSUME NEW r \in Round1, NEW n \in Nat, Short(r, n + 1)
  PROVE  /\ ThinkRound(r) \in Round1 /\ Short(ThinkRound(r), n)
         /\ \A said \in Seq(Spoken) : Reading(said, ThinkRound(r)) = Reading(said, r)
<1> DEFINE y == Taken(r.in, r.buf)
           kind == Kindly(r.in)
           x == [type |-> kind, text |-> y.text]
           z == ThinkRound(r)
<1>1. r.buf \in Seq(Token) /\ r.in \in BOOLEAN /\ r.parts \in Seq(Piece)
  BY DEF Round1
<1>2. CASE r.buf = <<>>
  <2>1. ThinkRound(r) = r
    BY <1>2 DEF ThinkRound
  <2>2. Short(r, n)
    BY <1>2 DEF Short
  <2> QED BY <2>1, <2>2
<1>3. CASE r.buf # <<>>
  <2>1. /\ y.buf \in Seq(Token) /\ y.in \in BOOLEAN /\ y.text \in Seq(Token)
        /\ y.type = kind
        /\ y.buf = <<"<">> \/ Len(y.buf) < Len(r.buf)
        /\ \A said \in Seq(Spoken) :
             Through(Now(r.in, <<>>, said), r.buf)
               = Through(Now(y.in, <<>>, said \o TagOf(r.in, y.text)), y.buf)
    BY <1>1, <1>3, RoundRead
  <2>2. z = Rounded(y.buf, y.in, IF y.text = <<>> THEN r.parts
                                 ELSE Append(r.parts, [type |-> y.type, text |-> y.text]))
    BY <1>3 DEF ThinkRound, Taken, Rounded
  <2>3. kind \in {"text", "thinking"}
    BY DEF Kindly
  <2> HIDE DEF y, kind
  <2>4. x \in Piece /\ x.type = kind /\ x.text = y.text
    BY <2>1, <2>3 DEF Piece
  <2>5. z = Rounded(y.buf, y.in, IF y.text = <<>> THEN r.parts ELSE Append(r.parts, x))
    BY <2>1, <2>2
  <2> HIDE DEF x, z
  <2> DEFINE parts == IF y.text = <<>> THEN r.parts ELSE Append(r.parts, x)
  <2>6. parts \in Seq(Piece)
    BY <1>1, <2>4, AppendProperties
  <2>7. Said(parts) = Said(r.parts) \o TagOf(r.in, y.text) /\ Said(r.parts) \in Seq(Spoken)
    <3>1. Said(r.parts) \in Seq(Spoken)
      BY <1>1, SaidProperties
    <3>2. CASE y.text = <<>>
      <4>1. TagOf(r.in, y.text) = <<>>
        BY <3>2 DEF TagOf
      <4> QED BY <3>1, <3>2, <4>1, ConcatEmptySeq
    <3>3. CASE y.text # <<>>
      <4>1. Tagged(x) = TagOf(r.in, y.text)
        BY <1>1, <2>4, TaggedIs DEF kind
      <4> QED BY <1>1, <2>4, <3>1, <3>3, <4>1, SaidProperties
    <3> QED BY <3>2, <3>3
  <2> HIDE DEF parts
  <2>8. z = Rounded(y.buf, y.in, parts)
    BY <2>5 DEF parts
  <2>9. z.buf = y.buf /\ z.in = y.in /\ z.parts = parts /\ z \in Round1
    BY <2>1, <2>6, <2>8 DEF Rounded, Round1
  <2>10. Short(z, n)
    <3>1. CASE y.buf = <<"<">>
      BY <2>9, <3>1 DEF Short
    <3>2. CASE Len(y.buf) < Len(r.buf)
      <4>1. Len(y.buf) \in Nat /\ Len(r.buf) \in Nat
        BY <1>1, <2>1
      <4>2. CASE r.buf = <<"<">>
        <5>1. Len(y.buf) = 0
          BY <3>2, <4>1, <4>2
        <5>2. y.buf = <<>>
          BY <2>1, <5>1, EmptySeq
        <5> QED BY <2>9, <5>2 DEF Short
      <4>3. CASE Len(r.buf) <= n + 1
        BY <2>9, <3>2, <4>1, <4>3 DEF Short
      <4> QED BY <1>3, <4>2, <4>3 DEF Short
    <3> QED BY <2>1, <3>1, <3>2
  <2>11. ASSUME NEW said \in Seq(Spoken) PROVE Reading(said, z) = Reading(said, r)
    <3> DEFINE tag == TagOf(r.in, y.text)
    <3>1. tag \in Seq(Spoken)
      BY <1>1, <2>1, TagOfProperties
    <3> HIDE DEF tag
    <3> DEFINE old == Said(r.parts)
    <3>2. old \in Seq(Spoken) /\ Said(parts) = old \o tag
      BY <2>7 DEF tag
    <3> HIDE DEF old
    <3>3. said \o Said(parts) = (said \o old) \o tag
      BY <3>1, <3>2, ConcatAssociative, SMTT(30)
    <3>4. Through(Now(r.in, <<>>, said \o Said(r.parts)), r.buf)
            = Through(Now(y.in, <<>>, (said \o Said(r.parts)) \o tag), y.buf)
      <4>1. said \o old \in Seq(Spoken)
        BY <3>2, ConcatParts
      <4> QED BY <2>1, <4>1 DEF tag, old
    <3> QED BY <2>9, <3>3, <3>4 DEF Reading, old
  <2> QED BY <2>9, <2>10, <2>11 DEF z
<1> QED BY <1>2, <1>3

LEMMA ThinkFeedReads ==
  ASSUME NEW p \in [buf : Seq(Token), in : BOOLEAN], NEW text \in Seq(Token)
  PROVE  LET f == ThinkFeed(p, text)
         IN /\ f \in Round1 /\ f.buf \in {<<>>, <<"<">>}
            /\ \A said \in Seq(Spoken) :
                 Through(Now(p.in, <<>>, said), p.buf \o text)
                   = Now(f.in, f.buf, said \o Said(f.parts))
<1> DEFINE buf == p.buf \o text
           L == Len(buf)
           first == Rounded(buf, p.in, <<>>)
           Def(f) == f = [n \in 0..L |-> IF n = 0 THEN first ELSE ThinkRound(f[n - 1])]
           Stage(n) == {r \in Round1 : Short(r, L - n)}
           Same(r) == \A said \in Seq(Spoken) :
                        Reading(said, r) = Through(Now(p.in, <<>>, said), buf)
           g == CHOOSE f : Def(f)
<1>1. p.buf \in Seq(Token) /\ p.in \in BOOLEAN
  OBVIOUS
<1>2. buf \in Seq(Token) /\ L \in Nat
  <2>1. buf \in Seq(Token)
    BY <1>1, ConcatParts
  <2> HIDE DEF buf
  <2> QED BY <2>1
<1>3. ThinkFeed(p, text) = g[L]
  BY DEF ThinkFeed, Rounded
<1> HIDE DEF buf, L
<1>4. first \in Round1 /\ Short(first, L) /\ Same(first)
  <2>1. first.buf = buf /\ first.in = p.in /\ first.parts = <<>> /\ <<>> \in Seq(Piece)
    BY DEF Rounded
  <2>2. first \in Round1
    BY <1>1, <1>2, <2>1 DEF Rounded, Round1
  <2> HIDE DEF first
  <2>3. Short(first, L)
    BY <1>2, <2>1 DEF Short, L
  <2>4. \A said \in Seq(Spoken) : said \o <<>> = said
    BY ConcatEmptySeq
  <2>5. Same(first)
    BY <2>1, <2>4, SaidProperties DEF Reading
  <2> QED BY <2>2, <2>3, <2>5
<1>5. ASSUME NEW n \in 1..L, NEW r \in Stage(n - 1), Same(r)
      PROVE  ThinkRound(r) \in Stage(n) /\ Same(ThinkRound(r))
  <2>1. L - n \in Nat /\ (L - n) + 1 = L - (n - 1) /\ r \in Round1
    BY <1>2
  <2>2. Short(r, (L - n) + 1)
    BY <2>1
  <2>3. /\ ThinkRound(r) \in Round1 /\ Short(ThinkRound(r), L - n)
        /\ \A said \in Seq(Spoken) : Reading(said, ThinkRound(r)) = Reading(said, r)
    BY <2>1, <2>2, RoundKeeps
  <2> QED BY <1>5, <2>3
<1> DEFINE Fine(n, r) == r \in Stage(n) /\ Same(r)
           R == {r \in Round1 : Same(r)}
           step(n, r) == IF r \in Stage(n - 1) THEN ThinkRound(r) ELSE r
           G == [n \in 1..L |-> [r \in R |-> step(n, r)]]
<1> HIDE DEF Same
<1>6. \A n \in 1..L, r \in R : step(n, r) \in R
  BY <1>5
<1>7. \A n \in 0..L : n # 0 => n \in 1..L
  BY <1>2
<1>8. \E f : Def(f)
  <2>1. first \in R
    BY <1>4
  <2> HIDE DEF R, step
  <2>2. G \in [1..L -> [R -> R]] /\ \A n \in 1..L, r \in R : G[n][r] = step(n, r)
    BY <1>6
  <2> HIDE DEF G
  <2>3. PICK f \in [0..L -> R] : Follows(f, L, first, G)
    BY <1>2, <2>1, <2>2, Recursion
  <2>4. \A n \in 1..L : f[n] = step(n, f[n - 1]) /\ f[n - 1] \in R
    <3> SUFFICES ASSUME NEW n \in 1..L PROVE f[n] = step(n, f[n - 1]) /\ f[n - 1] \in R
      OBVIOUS
    <3>1. n - 1 \in 0..L
      BY <1>2
    <3> QED BY <2>2, <2>3, <3>1 DEF Follows
  <2> DEFINE T == {n \in 0..L : f[n] \in Stage(n)}
  <2>5. 0 \in T
    <3>1. f[0] = first /\ 0 \in 0..L /\ L - 0 = L
      BY <1>2, <2>3 DEF Follows
    <3> QED BY <1>4, <3>1
  <2>6. ASSUME NEW n \in 1..L, n - 1 \in T PROVE n \in T
    <3>1. f[n - 1] \in Stage(n - 1) /\ n \in 0..L
      BY <1>2, <2>6
    <3>2. f[n] = ThinkRound(f[n - 1]) /\ Same(f[n - 1])
      BY <2>4, <3>1 DEF step, R
    <3> QED BY <1>5, <3>1, <3>2
  <2> HIDE DEF T
  <2>7. 0..L \subseteq T
    BY <1>2, <2>5, <2>6, UpTo
  <2>8. \A n \in 1..L : f[n] = ThinkRound(f[n - 1])
    <3> SUFFICES ASSUME NEW n \in 1..L PROVE f[n] = ThinkRound(f[n - 1])
      OBVIOUS
    <3>1. n - 1 \in T
      BY <1>2, <2>7
    <3> QED BY <2>4, <3>1 DEF T, step
  <2>9. Def(f)
    <3> HIDE DEF first
    <3> QED BY <1>7, <2>3, <2>8 DEF Follows
  <2> QED BY <2>9
<1>9. g = [n \in 0..L |-> IF n = 0 THEN first ELSE ThinkRound(g[n - 1])]
  <2>1. Def(g)
    <3> HIDE DEF Def
    <3> QED BY <1>8
  <2> HIDE DEF g, first
  <2> QED BY <2>1
<1> HIDE DEF g, Def, first
<1>10. g[0] = first /\ \A n \in 1..L : g[n] = ThinkRound(g[n - 1])
  <2>1. 0 \in 0..L /\ \A n \in 1..L : n \in 0..L /\ n # 0
    BY <1>2
  <2>2. \A n \in 0..L : g[n] = IF n = 0 THEN first ELSE ThinkRound(g[n - 1])
    BY <1>9
  <2> QED BY <2>1, <2>2
<1> DEFINE T == {n \in 0..L : Fine(n, g[n])}
<1>11. 0 \in T
  <2>1. 0 \in 0..L /\ L - 0 = L
    BY <1>2
  <2> QED BY <1>4, <1>10, <2>1
<1>12. ASSUME NEW n \in 1..L, n - 1 \in T PROVE n \in T
  BY <1>2, <1>5, <1>10, <1>12
<1>13. L \in T
  <2> HIDE DEF T
  <2>1. 0..L \subseteq T
    BY <1>2, <1>11, <1>12, UpTo
  <2> QED BY <1>2, <2>1
<1> DEFINE f == ThinkFeed(p, text)
<1>14. f \in Round1 /\ Short(f, 0) /\ Same(f)
  <2>1. L - L = 0
    BY <1>2
  <2> QED BY <1>3, <1>13, <2>1
<1> HIDE DEF f
<1>15. f.buf \in Seq(Token) /\ f.in \in BOOLEAN /\ f.parts \in Seq(Piece)
  BY <1>14 DEF Round1
<1>16. f.buf \in {<<>>, <<"<">>}
  <2>1. ASSUME Len(f.buf) <= 0 PROVE f.buf = <<>>
    <3>1. Len(f.buf) = 0
      BY <1>15, <2>1
    <3> QED BY <1>15, <3>1, EmptySeq
  <2> QED BY <1>14, <2>1 DEF Short
<1>17. ASSUME NEW said \in Seq(Spoken)
       PROVE  Through(Now(p.in, <<>>, said), buf) = Now(f.in, f.buf, said \o Said(f.parts))
  <2> DEFINE w == said \o Said(f.parts)
             m == Now(f.in, <<>>, w)
  <2>1. w \in Seq(Spoken)
    BY <1>15, SaidProperties, ConcatParts
  <2> HIDE DEF w
  <2>2. m \in Mode /\ "<" \in Token
    BY <1>15, <2>1 DEF Now, Mode, Token
  <2>3. Reads(m, "<") = Now(f.in, <<"<">>, w)
    BY <1>15, <2>1, <2>2, ReadsCases
  <2>4. Through(m, f.buf) = Now(f.in, f.buf, w)
    <3> HIDE DEF m
    <3>1. Through(m, <<>>) = m /\ Through(m, <<"<">>) = Reads(m, "<")
      BY <2>2, ThroughShort
    <3>2. CASE f.buf = <<>>
      BY <3>1, <3>2 DEF m
    <3>3. CASE f.buf = <<"<">>
      BY <2>3, <3>1, <3>3
    <3> QED BY <1>16, <3>2, <3>3
  <2>5. Through(Now(p.in, <<>>, said), buf) = Reading(said, f)
    BY <1>14 DEF Same
  <2> QED BY <2>4, <2>5 DEF Reading, w
<1> QED BY <1>14, <1>16, <1>17 DEF f, buf

\* A feed goes on from where the text before it was left.
LEMMA FeedKeepsParsed ==
  ASSUME ParsedInv, NEW text \in TextDelta, Content(text)
  PROVE  ParsedInv'
<1> DEFINE m0 == Now(FALSE, <<>>, <<>>)
           f == ThinkFeed(think, text)
           free == Now(think.in, <<>>, parsed)
           held == think.buf
<1>1. text \in Seq(Token)
  BY OpenAIAssumption
<1>2. /\ fed \in Seq(Token) /\ parsed \in Seq(Spoken) /\ think.in \in BOOLEAN
      /\ held \in {<<>>, <<"<">>} /\ held \in Seq(Token) /\ "<" \in Token
      /\ think \in [buf : Seq(Token), in : BOOLEAN]
      /\ Through(m0, fed) = Now(think.in, held, parsed)
  <2>1. /\ fed \in Seq(Token) /\ parsed \in Seq(Spoken)
        /\ think \in [buf : {<<>>, <<"<">>}, in : BOOLEAN]
        /\ Through(m0, fed) = Now(think.in, held, parsed)
    BY DEF ParsedInv
  <2>2. {<<>>, <<"<">>} \subseteq Seq(Token) /\ "<" \in Token
    BY DEF Token
  <2>3. think.in \in BOOLEAN /\ held \in {<<>>, <<"<">>}
    BY <2>1
  <2>4. think \in [buf : Seq(Token), in : BOOLEAN]
    BY <2>1, <2>2
  <2> QED BY <2>1, <2>2, <2>3, <2>4
<1>3. m0 \in Mode /\ free \in Mode
  <2>1. <<>> \in Seq(Spoken)
    OBVIOUS
  <2> QED BY <1>2, <2>1 DEF Now, Mode
<1>4. Through(free, held) = Now(think.in, held, parsed)
  <2>1. Reads(free, "<") = Now(think.in, <<"<">>, parsed)
    BY <1>2, ReadsCases
  <2> HIDE DEF held
  <2>2. CASE held = <<>>
    <3> DEFINE g == free
    <3>1. g = Now(think.in, held, parsed)
      BY <2>2
    <3> HIDE DEF g
    <3>2. Through(g, <<>>) = g
      <4>1. g \in Mode
        BY <1>3 DEF g
      <4> QED BY <1>2, <4>1, ThroughShort
    <3> QED BY <2>2, <3>1, <3>2 DEF g
  <2>3. CASE held = <<"<">>
    <3> DEFINE g == free
    <3>1. g \in Mode /\ Reads(g, "<") = Now(think.in, <<"<">>, parsed)
      BY <1>3, <2>1
    <3> HIDE DEF g
    <3>2. Through(g, <<"<">>) = Reads(g, "<")
      BY <1>2, <3>1, ThroughShort
    <3> QED BY <2>3, <3>1, <3>2 DEF g
  <2> QED BY <1>2, <2>2, <2>3
<1>5. /\ f.buf \in {<<>>, <<"<">>} /\ f.in \in BOOLEAN /\ f.parts \in Seq(Piece)
      /\ Through(free, held \o text) = Now(f.in, f.buf, parsed \o Said(f.parts))
  BY <1>1, <1>2, ThinkFeedReads DEF Round1
<1>6. /\ think' = [buf |-> f.buf, in |-> f.in]
      /\ parsed' = parsed \o Said(f.parts) /\ fed' = fed \o text
  BY DEF Content
<1> HIDE DEF f, m0, free, held
<1>7. think'.buf = f.buf /\ think'.in = f.in /\ think' \in [buf : {<<>>, <<"<">>}, in : BOOLEAN]
  BY <1>5, <1>6
<1>8. parsed' \in Seq(Spoken) /\ fed' \in Seq(Token)
  <2>1. Said(f.parts) \in Seq(Spoken)
    BY <1>5, SaidProperties
  <2> QED BY <1>1, <1>2, <1>6, <2>1, ConcatParts
<1>9. Through(m0, fed \o text) = Now(f.in, f.buf, parsed \o Said(f.parts))
  <2>1. Through(m0, fed \o text) = Through(Through(m0, fed), text)
    BY <1>1, <1>2, <1>3, ThroughSplit
  <2>2. Through(free, held \o text) = Through(Through(free, held), text)
    BY <1>1, <1>2, <1>3, ThroughSplit
  <2> QED BY <1>2, <1>4, <1>5, <2>1, <2>2
<1>10. Through(m0, fed') = Now(think'.in, think'.buf, parsed')
  BY <1>6, <1>7, <1>9
<1> QED BY <1>7, <1>8, <1>10 DEF ParsedInv, m0

LEMMA ParsedStarts == ASSUME OpenAIInit PROVE ParsedInv
<1> DEFINE m0 == Now(FALSE, <<>>, <<>>)
<1>1. think = [buf |-> <<>>, in |-> FALSE] /\ fed = <<>> /\ parsed = <<>>
  BY DEF OpenAIInit
<1>2. <<>> \in Seq(Spoken) /\ <<>> \in Seq(Token) /\ "<" \in Token
  BY DEF Token
<1>3. m0 \in Mode
  BY <1>2 DEF Now, Mode
<1>4. Through(m0, <<>>) = m0
  <2> HIDE DEF m0
  <2> QED BY <1>2, <1>3, ThroughShort
<1>5. think.buf = <<>> /\ think.in = FALSE /\ think \in [buf : {<<>>, <<"<">>}, in : BOOLEAN]
  BY <1>1
<1> QED BY <1>1, <1>2, <1>4, <1>5 DEF ParsedInv

LEMMA ParsedStep == ASSUME ParsedInv, [Next]_gatewayVars PROVE ParsedInv'
<1>1. CASE UNCHANGED <<think, fed, parsed>>
  <2>1. think' = think /\ fed' = fed /\ parsed' = parsed
    BY <1>1
  <2> QED BY <2>1 DEF ParsedInv
<1>2. CASE OpenAINext
  <2>1. CASE Start \/ Reasoning \/ Finish \/ Fail \/ Cut
    <3>1. UNCHANGED <<think, fed, parsed>>
      BY <2>1 DEF Start, Reasoning, Finish, Fail, Cut
    <3> QED BY <1>1, <3>1
  <2>2. ASSUME NEW text \in TextDelta, Content(text) PROVE ParsedInv'
    BY <2>2, FeedKeepsParsed
  <2>3. ASSUME NEW call \in ToolDelta, ToolCall(call) PROVE ParsedInv'
    <3>1. UNCHANGED <<think, fed, parsed>>
      BY <2>3 DEF ToolCall
    <3> QED BY <1>1, <3>1
  <2> QED BY <1>2, <2>1, <2>2, <2>3 DEF OpenAINext
<1>3. OpenAINext \/ UNCHANGED <<think, fed, parsed>>
  BY DEF Next, gatewayVars, openaiVars
<1> QED BY <1>1, <1>2, <1>3

\* The parser's invariant holds for every upstream text, cut in any way.
THEOREM ParsedInductive == Spec => []ParsedInv
<1>1. ASSUME Init PROVE ParsedInv
  BY <1>1, ParsedStarts DEF Init
<1> QED BY <1>1, ParsedStep, PTL DEF Spec

\* Wherever the text is cut into chunks (ThinkTagParser.feed), the think tags mean
\* the same: what was parsed, and what is held back, is what the whole text means.
THEOREM SameMeaning == Spec => []ParsedAsWhole
<1>1. ASSUME ParsedInv PROVE ParsedAsWhole
  <2> DEFINE m == Meaning(fed)
  <2>1. fed \in Seq(Token) /\ think \in [buf : {<<>>, <<"<">>}, in : BOOLEAN]
        /\ Through(Now(FALSE, <<>>, <<>>), fed) = Now(think.in, think.buf, parsed)
    BY <1>1 DEF ParsedInv
  <2>2. m = Now(think.in, think.buf, parsed)
    BY <2>1, MeaningThrough
  <2> HIDE DEF m
  <2>3. m.in = think.in /\ m.held = think.buf /\ m.said = parsed
    BY <2>2 DEF Now
  <2>4. think = [buf |-> m.held, in |-> m.in]
    BY <2>1, <2>3
  <2> QED BY <2>3, <2>4 DEF ParsedAsWhole, m
<1> QED BY ParsedInductive, <1>1, PTL
-----------------------------------------------------------------------------
(* What a client makes of the events it reads.                               *)

LEMMA ObserveStart ==
  ASSUME NEW c \in Client, NEW i \in Int, NEW k \in BlockKinds
  PROVE  LET d == Observe(c, BlockStart(i, k))
         IN /\ d \in Client
            /\ d.open = c.open \cup {<<i, k>>} /\ d.seen = c.seen \cup {i}
            /\ d.begun = c.begun /\ d.broken = (c.broken \/ i \in c.seen)
<1> DEFINE e == BlockStart(i, k)
<1>1. e.name = "content_block_start" /\ e.index = i /\ e.kind = k
  BY DEF BlockStart
<1> HIDE DEF e
<1>2. e.name \in Names
  BY <1>1 DEF Names
<1>3. <<i, k>> \in Int \X BlockKinds
  OBVIOUS
<1> DEFINE b == <<i, k>>
           now == [c EXCEPT !.last = e.name]
           d == [now EXCEPT !.open = @ \cup {b}, !.seen = @ \cup {i},
                            !.broken = @ \/ i \in c.seen]
<1>4. Observe(c, e) = d
  BY <1>1 DEF Observe
<1>5. /\ now \in Client /\ now.open = c.open /\ now.seen = c.seen
      /\ now.begun = c.begun /\ now.broken = c.broken
  BY <1>2 DEF Client
<1>6. b \in Int \X BlockKinds
  BY <1>3
<1> HIDE DEF now, b
<1>7. /\ d \in Client
      /\ d.open = c.open \cup {b} /\ d.seen = c.seen \cup {i}
      /\ d.begun = c.begun /\ d.broken = (c.broken \/ i \in c.seen)
  BY <1>5, <1>6 DEF Client
<1> QED BY <1>4, <1>7 DEF b, e

LEMMA ObserveDelta ==
  ASSUME NEW c \in Client, NEW i \in Int, NEW k \in BlockKinds
  PROVE  LET d == Observe(c, BlockDelta(i, k))
         IN /\ d \in Client
            /\ d.open = c.open /\ d.seen = c.seen
            /\ d.begun = c.begun /\ d.broken = (c.broken \/ <<i, k>> \notin c.open)
<1> DEFINE e == BlockDelta(i, k)
<1>1. e.name = "content_block_delta" /\ e.index = i /\ e.kind = k
  BY DEF BlockDelta
<1> HIDE DEF e
<1>2. e.name \in Names
  BY <1>1 DEF Names
<1> QED BY <1>1, <1>2 DEF Observe, Client, e

LEMMA ObserveStop ==
  ASSUME NEW c \in Client, NEW i \in Int
  PROVE  LET d == Observe(c, BlockStop(i))
         IN /\ d \in Client
            /\ d.open = {b \in c.open : b[1] # i} /\ d.seen = c.seen
            /\ d.begun = c.begun /\ d.broken = (c.broken \/ \A b \in c.open : b[1] # i)
<1> DEFINE e == BlockStop(i)
<1>1. e.name = "content_block_stop" /\ e.index = i
  BY DEF BlockStop
<1> HIDE DEF e
<1>2. e.name \in Names
  BY <1>1 DEF Names
<1> QED BY <1>1, <1>2 DEF Observe, Client, e

LEMMA ObservePlain ==
  ASSUME NEW c \in Client, NEW n \in PlainNames
  PROVE  LET d == Observe(c, Event(n))
         IN /\ d \in Client
            /\ d.open = c.open /\ d.seen = c.seen /\ d.broken = c.broken /\ d.last = n
            /\ d.begun = (c.begun \/ n = "message_start")
<1> DEFINE e == Event(n)
<1>1. e.name = n
  BY DEF Event
<1> HIDE DEF e
<1>2. /\ e.name \in Names /\ e.name # "content_block_start" /\ e.name # "content_block_delta"
      /\ e.name # "content_block_stop"
  BY <1>1 DEF Names, PlainNames
<1> QED BY <1>1, <1>2 DEF Observe, Client, e

LEMMA ObserveStepType ==
  /\ Stepping(ObserveStep, Client, StreamEvent)
  /\ \A c \in Client, e \in StreamEvent : ObserveStep[c][e] = Observe(c, e)
<1>1. ASSUME NEW c \in Client, NEW e \in StreamEvent PROVE Observe(c, e) \in Client
  <2>1. CASE e \in {Event(n) : n \in PlainNames}
    BY <2>1, ObservePlain
  <2>2. CASE e \in {BlockStart(i, k) : i \in Int, k \in BlockKinds}
    BY <2>2, ObserveStart
  <2>3. CASE e \in {BlockDelta(i, k) : i \in Int, k \in BlockKinds}
    <3>1. PICK i \in Int, k \in BlockKinds : e = BlockDelta(i, k)
      BY <2>3
    <3> QED BY <3>1, ObserveDelta
  <2>4. CASE e \in {BlockStop(i) : i \in Int}
    BY <2>4, ObserveStop
  <2> QED BY <2>1, <2>2, <2>3, <2>4 DEF StreamEvent
<1> QED BY <1>1 DEF ObserveStep, Stepping

LEMMA ReadFold ==
  ASSUME NEW c \in Client, NEW out \in Seq(StreamEvent)
  PROVE  Read(c, out) = Fold(ObserveStep, c, out)
<1> DEFINE S == Client
           L == Len(out)
           Def(f) == f = [n \in 0..L |-> IF n = 0 THEN c ELSE Observe(f[n - 1], out[n])]
           g == CHOOSE f : Def(f)
<1>1. c \in S
  OBVIOUS
<1>2. L \in Nat /\ (\A n \in 1..L : out[n] \in StreamEvent) /\ \A n \in 0..L : n # 0 => n \in 1..L
  OBVIOUS
<1>3. Read(c, out) = g[L]
  BY DEF Read
<1> HIDE DEF L, S
<1>4. PICK f \in [0..L -> S] : Steps(f, ObserveStep, c, out)
  BY <1>1, ObserveStepType, FoldSteps DEF L, S
<1>5. Def(f)
  <2>1. \A n \in 1..L : f[n - 1] \in S
    BY <1>2
  <2>2. f[0] = c /\ \A n \in 1..L : f[n] = Observe(f[n - 1], out[n])
    BY <1>2, <1>4, <2>1, ObserveStepType DEF Steps, L, S
  <2> QED BY <1>2, <2>2
<1>6. g = [n \in 0..L |-> IF n = 0 THEN c ELSE Observe(g[n - 1], out[n])]
  <2>1. Def(g)
    <3> HIDE DEF Def
    <3> QED BY <1>5
  <2> HIDE DEF g
  <2> QED BY <2>1
<1> HIDE DEF g, Def
<1>7. g[0] = c /\ \A n \in 1..L : g[n] = Observe(g[n - 1], out[n])
  <2>1. 0 \in 0..L /\ \A n \in 1..L : n \in 0..L /\ n # 0
    BY <1>2
  <2>2. \A n \in 0..L : g[n] = IF n = 0 THEN c ELSE Observe(g[n - 1], out[n])
    BY <1>6
  <2> QED BY <2>1, <2>2
<1>8. \A n \in 0..L : g[n] \in S
  <2>1. ASSUME NEW n \in 1..L, g[n - 1] \in S PROVE g[n] \in S
    <3>1. ObserveStep[g[n - 1]][out[n]] = g[n] /\ out[n] \in StreamEvent
      BY <1>2, <1>7, <2>1, ObserveStepType DEF S
    <3> QED BY <2>1, <3>1, ObserveStepType DEF Stepping, S
  <2> QED BY <1>1, <1>2, <1>7, <2>1, StaysIn
<1>9. Steps(g, ObserveStep, c, out)
  <2>1. \A n \in 1..L : n - 1 \in 0..L
    BY <1>2
  <2> QED BY <1>2, <1>7, <1>8, <2>1, ObserveStepType DEF Steps, L, S
<1>10. g[L] = Fold(ObserveStep, c, out)
  BY <1>1, <1>9, ObserveStepType, FoldUnique DEF L, S
<1> QED BY <1>3, <1>10

\* Events are read piece by piece.
LEMMA ReadSplit ==
  ASSUME NEW c \in Client, NEW out \in Seq(StreamEvent), NEW more \in Seq(StreamEvent)
  PROVE  /\ Read(c, out) \in Client /\ out \o more \in Seq(StreamEvent)
         /\ Read(c, out \o more) = Read(Read(c, out), more)
<1>1. out \o more \in Seq(StreamEvent)
  BY ConcatParts
<1>2. Fold(ObserveStep, c, out) \in Client
      /\ Fold(ObserveStep, c, out \o more) = Fold(ObserveStep, Fold(ObserveStep, c, out), more)
  BY ObserveStepType, FoldSplit
<1> QED BY <1>1, <1>2, ReadFold

LEMMA ReadShort ==
  ASSUME NEW c \in Client, NEW e \in StreamEvent
  PROVE  Read(c, <<>>) = c /\ Read(c, <<e>>) = Observe(c, e) /\ Observe(c, e) \in Client
<1>1. <<>> \in Seq(StreamEvent) /\ <<e>> \in Seq(StreamEvent)
  OBVIOUS
<1>2. Fold(ObserveStep, c, <<>>) = c /\ Fold(ObserveStep, c, <<e>>) = ObserveStep[c][e]
  BY ObserveStepType, FoldShort
<1>3. Read(c, <<>>) = Fold(ObserveStep, c, <<>>)
  BY <1>1, ReadFold
<1>4. Read(c, <<e>>) = Fold(ObserveStep, c, <<e>>)
  <2> DEFINE out == <<e>>
  <2>1. out \in Seq(StreamEvent)
    BY <1>1
  <2> HIDE DEF out
  <2>2. Read(c, out) = Fold(ObserveStep, c, out)
    BY <2>1, ReadFold
  <2> QED BY <2>2 DEF out
<1>5. ObserveStep[c][e] = Observe(c, e) /\ Observe(c, e) \in Client
  BY ObserveStepType DEF Stepping
<1> QED BY <1>2, <1>3, <1>4, <1>5

LEMMA SeesStart ==
  ASSUME NEW c, NEW open, NEW n \in Nat, Sees(c, open, n), NEW k \in BlockKinds
  PROVE  Sees(Read(c, <<BlockStart(n, k)>>), open \cup {<<n, k>>}, n + 1)
<1>1. c \in Client /\ c.begun /\ ~c.broken /\ c.open = open /\ c.seen = 0 .. n - 1
  BY DEF Sees
<1>2. n \in Int /\ n \notin 0 .. n - 1 /\ (0 .. n - 1) \cup {n} = 0 .. (n + 1) - 1
  OBVIOUS
<1> DEFINE e == BlockStart(n, k)
           b == <<n, k>>
<1>3. e \in StreamEvent
  BY <1>2 DEF StreamEvent
<1>4. /\ Observe(c, e) \in Client
      /\ Observe(c, e).open = c.open \cup {b} /\ Observe(c, e).seen = c.seen \cup {n}
      /\ Observe(c, e).begun = c.begun /\ Observe(c, e).broken = (c.broken \/ n \in c.seen)
  <2>1. \A m \in Client, i \in Int :
          LET d == Observe(m, BlockStart(i, k))
          IN /\ d \in Client
             /\ d.open = m.open \cup {<<i, k>>} /\ d.seen = m.seen \cup {i}
             /\ d.begun = m.begun /\ d.broken = (m.broken \/ i \in m.seen)
    BY ObserveStart
  <2> QED BY <1>1, <1>2, <2>1
<1> HIDE DEF e, b
<1>5. Read(c, <<e>>) = Observe(c, e)
  BY <1>1, <1>3, ReadShort
<1>6. Sees(Observe(c, e), open \cup {b}, n + 1)
  BY <1>1, <1>2, <1>4 DEF Sees
<1> QED BY <1>5, <1>6 DEF e, b

LEMMA SeesDelta ==
  ASSUME NEW c, NEW open, NEW n, Sees(c, open, n), NEW i \in Int, NEW k \in BlockKinds,
         <<i, k>> \in open
  PROVE  Sees(Read(c, <<BlockDelta(i, k)>>), open, n)
<1>1. c \in Client /\ c.begun /\ ~c.broken /\ c.open = open /\ c.seen = 0 .. n - 1
  BY DEF Sees
<1> DEFINE e == BlockDelta(i, k)
<1>2. e \in StreamEvent
  BY DEF StreamEvent
<1>3. /\ Observe(c, e) \in Client /\ Observe(c, e).open = c.open /\ Observe(c, e).seen = c.seen
      /\ Observe(c, e).begun = c.begun
      /\ Observe(c, e).broken = (c.broken \/ <<i, k>> \notin c.open)
  BY <1>1, ObserveDelta
<1> HIDE DEF e
<1>4. Read(c, <<e>>) = Observe(c, e)
  BY <1>1, <1>2, ReadShort
<1>5. Sees(Observe(c, e), open, n)
  BY <1>1, <1>3 DEF Sees
<1> QED BY <1>4, <1>5 DEF e

LEMMA SeesStop ==
  ASSUME NEW c, NEW open, NEW n, Sees(c, open, n), NEW i \in Int, \E b \in open : b[1] = i
  PROVE  Sees(Read(c, <<BlockStop(i)>>), But(open, i), n)
<1>1. c \in Client /\ c.begun /\ ~c.broken /\ c.open = open /\ c.seen = 0 .. n - 1
  BY DEF Sees
<1> DEFINE e == BlockStop(i)
<1>2. e \in StreamEvent
  BY DEF StreamEvent
<1>3. /\ Observe(c, e) \in Client /\ Observe(c, e).open = {b \in c.open : b[1] # i}
      /\ Observe(c, e).seen = c.seen /\ Observe(c, e).begun = c.begun
      /\ Observe(c, e).broken = (c.broken \/ \A b \in c.open : b[1] # i)
  BY <1>1, ObserveStop
<1> HIDE DEF e
<1>4. Read(c, <<e>>) = Observe(c, e)
  BY <1>1, <1>2, ReadShort
<1>5. Sees(Observe(c, e), But(open, i), n)
  BY <1>1, <1>3 DEF Sees, But
<1> QED BY <1>4, <1>5 DEF e

LEMMA SeesPlain ==
  ASSUME NEW c, NEW open, NEW n, Sees(c, open, n), NEW name \in PlainNames
  PROVE  Sees(Read(c, <<Event(name)>>), open, n) /\ Read(c, <<Event(name)>>).last = name
<1>1. c \in Client /\ c.begun /\ ~c.broken /\ c.open = open /\ c.seen = 0 .. n - 1
  BY DEF Sees
<1> DEFINE e == Event(name)
<1>2. e \in StreamEvent
  BY DEF StreamEvent
<1>3. /\ Observe(c, e) \in Client /\ Observe(c, e).open = c.open
      /\ Observe(c, e).seen = c.seen /\ Observe(c, e).broken = c.broken
      /\ Observe(c, e).last = name
      /\ Observe(c, e).begun = (c.begun \/ name = "message_start")
  BY <1>1, ObservePlain
<1> HIDE DEF e
<1>4. Read(c, <<e>>) = Observe(c, e)
  BY <1>1, <1>2, ReadShort
<1>5. Sees(Observe(c, e), open, n)
  BY <1>1, <1>3 DEF Sees
<1> QED BY <1>3, <1>4, <1>5 DEF e

\* The first event.
LEMMA SeesBegin ==
  /\ NewClient \in Client
  /\ Sees(Read(NewClient, <<Event("message_start")>>), {}, 0)
<1> DEFINE c == NewClient
           e == Event("message_start")
<1>1. /\ c \in Client /\ c.open = {} /\ c.seen = {} /\ c.broken = FALSE
  BY DEF NewClient, Client, Names
<1>2. "message_start" \in PlainNames /\ e \in StreamEvent
  BY DEF PlainNames, StreamEvent
<1> HIDE DEF c
<1>3. /\ Observe(c, e) \in Client /\ Observe(c, e).open = c.open
      /\ Observe(c, e).seen = c.seen /\ Observe(c, e).broken = c.broken
      /\ Observe(c, e).begun
  BY <1>1, <1>2, ObservePlain
<1> HIDE DEF e
<1>4. Read(c, <<e>>) = Observe(c, e)
  BY <1>1, <1>2, ReadShort
<1>5. 0 .. 0 - 1 = {}
  OBVIOUS
<1>6. Sees(Observe(c, e), {}, 0)
  BY <1>1, <1>3, <1>5 DEF Sees
<1> QED BY <1>1, <1>4, <1>6 DEF c, e

\* More events are read after others.
LEMMA SeesMore ==
  ASSUME NEW c \in Client, NEW out \in Seq(StreamEvent), NEW more \in Seq(StreamEvent),
         NEW open, NEW n, Sees(Read(Read(c, out), more), open, n)
  PROVE  Sees(Read(c, out \o more), open, n) /\ out \o more \in Seq(StreamEvent)
BY ReadSplit

\* The end of a stream without open blocks is what the client wants.
LEMMA SeesEnd ==
  ASSUME NEW c, NEW n \in Nat, Sees(c, {}, n)
  PROVE  LET d == Read(c, Ending)
         IN d \in Client /\ ~d.broken /\ (n # 0 => Accepts(d)) /\ (n = 0 => d.seen = {})
<1> DEFINE a == <<Event("message_delta")>>
           b == <<Event("message_stop")>>
           d == Read(Read(c, a), b)
<1>1. Event("message_delta") \in StreamEvent /\ Event("message_stop") \in StreamEvent
      /\ "message_delta" \in PlainNames /\ "message_stop" \in PlainNames
  BY DEF StreamEvent, PlainNames
<1>2. a \in Seq(StreamEvent) /\ b \in Seq(StreamEvent) /\ Ending = a \o b
  BY <1>1 DEF Ending
<1>3. Sees(Read(c, a), {}, n)
  BY <1>1, SeesPlain
<1>4. Sees(d, {}, n) /\ d.last = "message_stop"
  <2> DEFINE m == Read(c, a)
  <2>1. Sees(m, {}, n)
    BY <1>3
  <2> HIDE DEF m
  <2>2. Sees(Read(m, b), {}, n) /\ Read(m, b).last = "message_stop"
    BY <1>1, <2>1, SeesPlain
  <2> QED BY <2>2 DEF m
<1>5. c \in Client
  BY DEF Sees
<1> HIDE DEF a, b
<1>6. Read(c, Ending) = d
  BY <1>2, <1>5, ReadSplit
<1> HIDE DEF d
<1>7. n # 0 => 0 \in 0 .. n - 1
  OBVIOUS
<1>8. n = 0 => 0 .. n - 1 = {}
  OBVIOUS
<1> QED BY <1>4, <1>6, <1>7, <1>8 DEF Sees, Accepts

\* A finite set put in some order.
LEMMA InOrder ==
  ASSUME NEW S, IsFiniteSet(S)
  PROVE  LET q == SetToSeq(S)
         IN /\ q \in Seq(S) /\ DOMAIN q = 1..Len(q)
            /\ Distinct(q) /\ Elements(q) = S
<1> DEFINE n == Cardinality(S)
           q == SetToSeq(S)
<1>1. n \in Nat /\ ExistsBijection(1..n, S)
  BY FS_CardinalityType
<1>2. \E f \in [1..n -> S] : IsInjective(f)
  BY <1>1 DEF ExistsBijection, Bijection, Injection
<1>3. q \in [1..n -> S] /\ IsInjective(q)
  BY <1>2 DEF SetToSeq
<1> HIDE DEF q
<1>4. q \in Injection(1..n, S)
  BY <1>3 DEF Injection
<1>5. q \in Surjection(1..n, S)
  <2>1. IsFiniteSet(1..n) /\ Cardinality(1..n) = n
    <3>1. IsFiniteSet(1..n) /\ Cardinality(1..n) = IF 1 > n THEN 0 ELSE n - 1 + 1
      BY <1>1, FS_Interval
    <3> QED BY <1>1, <3>1
  <2> QED BY <1>4, <2>1, FS_Injection
<1> HIDE DEF n
<1>6. q \in Seq(S) /\ Len(q) = n /\ DOMAIN q = 1..n
  BY <1>1, <1>3
<1>7. Distinct(q)
  BY <1>3, <1>6 DEF Distinct, IsInjective
<1>8. Elements(q) = S
  <2>1. \A x \in S : \E i \in 1..n : q[i] = x
    BY <1>5 DEF Surjection
  <2> QED BY <1>3, <1>6, <2>1 DEF Elements
<1> QED BY <1>6, <1>7, <1>8 DEF q

LEMMA ReadSteps ==
  ASSUME NEW c \in Client, NEW out \in Seq(StreamEvent)
  PROVE  \E f \in [0..Len(out) -> Client] :
           /\ f[0] = c /\ Read(c, out) = f[Len(out)]
           /\ \A n \in 1..Len(out) : f[n] = Observe(f[n - 1], out[n])
<1>1. PICK f \in [0..Len(out) -> Client] :
        Steps(f, ObserveStep, c, out) /\ Fold(ObserveStep, c, out) = f[Len(out)]
  BY ObserveStepType, FoldSteps
<1>2. \A n \in 1..Len(out) : f[n - 1] \in Client /\ out[n] \in StreamEvent
  OBVIOUS
<1>3. f[0] = c /\ \A n \in 1..Len(out) : f[n] = Observe(f[n - 1], out[n])
  BY <1>1, <1>2, ObserveStepType DEF Steps
<1>4. Read(c, out) = f[Len(out)]
  BY <1>1, ReadFold
<1> QED BY <1>3, <1>4

\* Different open blocks are stopped one after the other.
LEMMA SeesStops ==
  ASSUME NEW c, NEW open, NEW n, Sees(c, open, n), NEW q \in Seq(Int), Distinct(q),
         \A k \in 1..Len(q) : \E b \in open : b[1] = q[k]
  PROVE  Sees(Read(c, Stops(q)), ButAll(open, q, Len(q)), n) /\ Stops(q) \in Seq(StreamEvent)
<1> DEFINE L == Len(q)
           out == Stops(q)
<1>1. L \in Nat /\ \A k \in 1..L : q[k] \in Int
  OBVIOUS
<1>2. \A k \in 1..L : BlockStop(q[k]) \in StreamEvent
  BY <1>1 DEF StreamEvent
<1>3. out \in Seq(StreamEvent) /\ Len(out) = L /\ \A k \in 1..L : out[k] = BlockStop(q[k])
  BY <1>1, <1>2 DEF Stops
<1>4. c \in Client /\ c.open = open
  BY DEF Sees
<1> HIDE DEF out
<1>5. PICK f \in [0..Len(out) -> Client] :
        /\ f[0] = c /\ Read(c, out) = f[Len(out)]
        /\ \A k \in 1..Len(out) : f[k] = Observe(f[k - 1], out[k])
  BY <1>3, <1>4, ReadSteps
<1> DEFINE T == {m \in 0..L : Sees(f[m], ButAll(open, q, m), n)}
<1>6. 0 \in T
  <2>1. ButAll(open, q, 0) = open
    BY DEF ButAll
  <2> QED BY <1>1, <1>5, <2>1
<1>7. ASSUME NEW m \in 1..L, m - 1 \in T PROVE m \in T
  <2> DEFINE d == f[m - 1]
             o == ButAll(open, q, m - 1)
             i == q[m]
  <2>1. Sees(d, o, n) /\ i \in Int /\ m \in 0..L /\ m \in 1..L
    BY <1>1, <1>7
  <2>2. \E b \in o : b[1] = i
    <3>1. PICK b \in open : b[1] = q[m]
      BY <2>1
    <3>2. \A j \in 1..(m - 1) : q[j] # q[m]
      <4>1. \A j \in 1..(m - 1) : j \in 1..L /\ j # m
        BY <1>1
      <4> QED BY <2>1, <4>1 DEF Distinct
    <3> QED BY <3>1, <3>2 DEF ButAll
  <2>3. But(o, i) = ButAll(open, q, m)
    <3>1. \A j : j \in 1..m <=> j \in 1..(m - 1) \/ j = m
      BY <1>1
    <3> QED BY <3>1 DEF But, ButAll
  <2>4. f[m] = Observe(d, BlockStop(i)) /\ BlockStop(i) \in StreamEvent
    BY <1>2, <1>3, <1>5
  <2>5. d \in Client
    BY <2>1 DEF Sees
  <2> HIDE DEF d, o, i
  <2>6. Sees(Read(d, <<BlockStop(i)>>), But(o, i), n)
    BY <2>1, <2>2, SeesStop
  <2>7. Read(d, <<BlockStop(i)>>) = Observe(d, BlockStop(i))
    BY <2>4, <2>5, ReadShort
  <2> QED BY <2>1, <2>3, <2>4, <2>6, <2>7
<1> HIDE DEF L
<1>8. L \in T
  <2> HIDE DEF T
  <2>1. 0..L \subseteq T
    BY <1>1, <1>6, <1>7, UpTo
  <2> QED BY <1>1, <2>1
<1> QED BY <1>3, <1>5, <1>8 DEF out, L

\* Deltas of open blocks.
LEMMA SeesDeltas ==
  ASSUME NEW c, NEW open, NEW n, Sees(c, open, n), NEW q \in Seq(Int), NEW kind \in BlockKinds,
         \A k \in 1..Len(q) : <<q[k], kind>> \in open
  PROVE  Sees(Read(c, Deltas(q, kind)), open, n) /\ Deltas(q, kind) \in Seq(StreamEvent)
<1> DEFINE L == Len(q)
           out == Deltas(q, kind)
<1>1. L \in Nat /\ \A k \in 1..L : q[k] \in Int
  OBVIOUS
<1>2. \A k \in 1..L : BlockDelta(q[k], kind) \in StreamEvent
  BY <1>1 DEF StreamEvent
<1>3. out \in Seq(StreamEvent) /\ Len(out) = L /\ \A k \in 1..L : out[k] = BlockDelta(q[k], kind)
  BY <1>1, <1>2 DEF Deltas
<1>4. c \in Client
  BY DEF Sees
<1> HIDE DEF out
<1>5. PICK f \in [0..Len(out) -> Client] :
        /\ f[0] = c /\ Read(c, out) = f[Len(out)]
        /\ \A k \in 1..Len(out) : f[k] = Observe(f[k - 1], out[k])
  BY <1>3, <1>4, ReadSteps
<1> DEFINE T == {m \in 0..L : Sees(f[m], open, n)}
<1>6. 0 \in T
  BY <1>1, <1>5
<1>7. ASSUME NEW m \in 1..L, m - 1 \in T PROVE m \in T
  <2> DEFINE d == f[m - 1]
             i == q[m]
  <2>1. Sees(d, open, n) /\ i \in Int /\ m \in 0..L /\ <<i, kind>> \in open
    BY <1>1, <1>7
  <2>2. f[m] = Observe(d, BlockDelta(i, kind)) /\ BlockDelta(i, kind) \in StreamEvent
    BY <1>2, <1>3, <1>5
  <2>3. d \in Client
    BY <2>1 DEF Sees
  <2> HIDE DEF d, i
  <2>4. Sees(Read(d, <<BlockDelta(i, kind)>>), open, n)
    BY <2>1, SeesDelta
  <2>5. Read(d, <<BlockDelta(i, kind)>>) = Observe(d, BlockDelta(i, kind))
    BY <2>2, <2>3, ReadShort
  <2> QED BY <2>1, <2>2, <2>4, <2>5
<1> HIDE DEF L
<1>8. L \in T
  <2> HIDE DEF T
  <2>1. 0..L \subseteq T
    BY <1>1, <1>6, <1>7, UpTo
  <2> QED BY <1>1, <2>1
<1> QED BY <1>3, <1>5, <1>8 DEF out, L

LEMMA SeesWhole ==
  ASSUME NEW c, NEW open, NEW n \in Nat, Sees(c, open, n), Below(open, n), NEW k \in BlockKinds
  PROVE  /\ Whole(n, k) \in Seq(StreamEvent) /\ Sees(Read(c, Whole(n, k)), open, n + 1)
         /\ Bare(n, k) \in Seq(StreamEvent) /\ Sees(Read(c, Bare(n, k)), open, n + 1)
<1> DEFINE x == <<BlockStart(n, k)>>
           y == <<BlockDelta(n, k)>>
           z == <<BlockStop(n)>>
           o == open \cup {<<n, k>>}
<1>1. c \in Client /\ n \in Int
  BY DEF Sees
<1>2. x \in Seq(StreamEvent) /\ y \in Seq(StreamEvent) /\ z \in Seq(StreamEvent)
  BY <1>1 DEF StreamEvent
<1>3. But(o, n) = open
  <2>1. \A b \in open : b[1] # n
    BY DEF Below
  <2> QED BY <2>1 DEF But
<1>4. <<n, k>> \in o /\ \E b \in o : b[1] = n
  <2>1. <<n, k>> \in o /\ <<n, k>>[1] = n
    OBVIOUS
  <2> HIDE DEF o
  <2> QED BY <2>1
<1>5. Whole(n, k) = (x \o y) \o z /\ Bare(n, k) = x \o z
  BY DEF Whole, Bare
<1>6. Sees(Read(c, x), o, n + 1)
  BY SeesStart
<1> HIDE DEF o
<1>7. Sees(Read(Read(c, x), y), o, n + 1)
  BY <1>1, <1>4, <1>6, SeesDelta
<1>8. Sees(Read(Read(c, x), z), open, n + 1)
  BY <1>1, <1>3, <1>4, <1>6, SeesStop
<1> HIDE DEF x, y, z
<1>9. Read(Read(c, x), y) = Read(c, x \o y) /\ x \o y \in Seq(StreamEvent)
  BY <1>1, <1>2, ReadSplit
<1>10. Sees(Read(Read(c, x \o y), z), open, n + 1)
  <2>1. Sees(Read(c, x \o y), o, n + 1)
    BY <1>7, <1>9
  <2> QED BY <1>1, <1>3, <1>4, <2>1, SeesStop DEF z
<1>11. Sees(Read(c, (x \o y) \o z), open, n + 1) /\ (x \o y) \o z \in Seq(StreamEvent)
  BY <1>1, <1>2, <1>9, <1>10, SeesMore
<1>12. Sees(Read(c, x \o z), open, n + 1) /\ x \o z \in Seq(StreamEvent)
  BY <1>1, <1>2, <1>8, SeesMore
<1> QED BY <1>5, <1>11, <1>12
-----------------------------------------------------------------------------
(* The SSEBuilder: its open blocks are those the client has open.             *)

LEMMA PutReads ==
  ASSUME NEW c \in Client, NEW s \in Builder, NEW more \in Seq(StreamEvent)
  PROVE  LET t == Put(s, more)
         IN /\ t \in Builder
            /\ t.next = s.next /\ t.at = s.at /\ t.started = s.started /\ t.spoken = s.spoken
            /\ t.tools = s.tools /\ t.heur = s.heur
            /\ Read(c, t.out) = Read(Read(c, s.out), more)
<1>1. s.out \in Seq(StreamEvent)
  BY DEF Builder
<1>2. s.out \o more \in Seq(StreamEvent) /\ Read(c, s.out \o more) = Read(Read(c, s.out), more)
  BY <1>1, ReadSplit
<1> DEFINE t == Put(s, more)
<1>3. t = [s EXCEPT !.out = s.out \o more]
  BY DEF Put
<1>4. /\ t \in Builder /\ t.out = s.out \o more
      /\ t.next = s.next /\ t.at = s.at /\ t.started = s.started /\ t.spoken = s.spoken
      /\ t.tools = s.tools /\ t.heur = s.heur
  BY <1>2, <1>3 DEF Builder
<1> QED BY <1>2, <1>4

LEMMA AlikeLayout ==
  ASSUME NEW s, NEW t, Alike(s, t)
  PROVE  /\ StartedTools(t) = StartedTools(s) /\ OpenBlocks(t) = OpenBlocks(s)
         /\ TextBlocks(t) = TextBlocks(s) /\ ToolBlocks(t) = ToolBlocks(s)
         /\ Layout(s) => Layout(t)
BY DEF Alike, StartedTools, OpenBlocks, TextBlocks, ToolBlocks, Layout, TextLayout, ToolLayout

LEMMA BlocksBelow ==
  ASSUME NEW s \in Builder, Layout(s)
  PROVE  Below(OpenBlocks(s), s.next)
<1>1. \A k \in s.started : k \in Spoke /\ s.at[k] \in Int
  BY DEF Builder
<1>2. s.next \in Nat
  BY DEF Builder
<1>3. \A k \in s.started : s.at[k] \in 0 .. s.next - 1
  BY <1>1, <1>2 DEF Layout, TextLayout
<1>4. \A i \in StartedTools(s) : s.tools[i].block \in 0 .. s.next - 1
  BY DEF Layout, ToolLayout
<1> QED BY <1>3, <1>4 DEF Below, OpenBlocks, TextBlocks, ToolBlocks

\* stop_text_block, stop_thinking_block.
LEMMA CloseKindGood ==
  ASSUME NEW c \in Client, NEW s, Good(c, s), NEW kind \in Spoke
  PROVE  LET t == CloseKind(s, kind)
         IN /\ Good(c, t) /\ t.started = s.started \ {kind}
            /\ t.next = s.next /\ t.at = s.at /\ t.spoken = s.spoken
            /\ t.tools = s.tools /\ t.heur = s.heur
<1>1. s \in Builder /\ Layout(s) /\ Sees(Read(c, s.out), OpenBlocks(s), s.next)
  BY DEF Good, Fits
<1>2. CASE kind \notin s.started
  <2>1. CloseKind(s, kind) = s
    BY <1>2 DEF CloseKind
  <2> QED BY <1>2, <2>1
<1>3. CASE kind \in s.started
  <2> DEFINE r == [s EXCEPT !.started = s.started \ {kind}]
             i == s.at[kind]
             more == <<BlockStop(i)>>
             t == CloseKind(s, kind)
  <2>1. /\ r \in Builder /\ r.started = s.started \ {kind}
        /\ r.next = s.next /\ r.at = s.at /\ r.spoken = s.spoken
        /\ r.tools = s.tools /\ r.heur = s.heur /\ r.out = s.out
    BY <1>1 DEF Builder
  <2>2. t = Put(r, more)
    BY <1>3 DEF CloseKind
  <2>3. i \in Int /\ more \in Seq(StreamEvent)
    <3>1. i \in Int
      BY <1>1 DEF Builder
    <3> HIDE DEF i
    <3> QED BY <3>1 DEF StreamEvent
  <2> HIDE DEF t, r, more
  <2>4. /\ t \in Builder /\ Alike(r, t) /\ t.spoken = r.spoken /\ t.heur = r.heur
        /\ Read(c, t.out) = Read(Read(c, r.out), more)
    BY <2>1, <2>2, <2>3, PutReads DEF Alike
  <2>5. StartedTools(r) = StartedTools(s) /\ ToolBlocks(r) = ToolBlocks(s)
    BY <2>1 DEF StartedTools, ToolBlocks
  <2>6. Layout(r)
    <3>1. TextLayout(r)
      BY <1>1, <2>1 DEF Layout, TextLayout
    <3>2. ToolLayout(r)
      BY <1>1, <2>1, <2>5 DEF Layout, ToolLayout
    <3>3. \A j \in StartedTools(r), k \in r.started : r.tools[j].block # r.at[k]
      BY <1>1, <2>1, <2>5 DEF Layout
    <3> QED BY <3>1, <3>2, <3>3 DEF Layout
  <2>7. But(OpenBlocks(s), i) = OpenBlocks(r)
    <3>1. But(TextBlocks(s), i) = TextBlocks(r)
      <4>1. \A k \in s.started : s.at[k] # i <=> k # kind
        BY <1>1, <1>3 DEF Layout, TextLayout
      <4>2. TextBlocks(r) = {<<s.at[k], k>> : k \in s.started \ {kind}}
        BY <2>1 DEF TextBlocks
      <4> HIDE DEF i
      <4>3. ASSUME NEW b \in But(TextBlocks(s), i) PROVE b \in TextBlocks(r)
        <5>1. PICK k \in s.started : b = <<s.at[k], k>>
          BY DEF But, TextBlocks
        <5>2. s.at[k] # i
          BY <5>1 DEF But
        <5> QED BY <4>1, <4>2, <5>1, <5>2
      <4>4. ASSUME NEW b \in TextBlocks(r) PROVE b \in But(TextBlocks(s), i)
        <5>1. PICK k \in s.started \ {kind} : b = <<s.at[k], k>>
          BY <4>2
        <5>2. s.at[k] # i /\ k \in s.started
          BY <4>1, <5>1
        <5> QED BY <5>1, <5>2 DEF But, TextBlocks
      <4> QED BY <4>3, <4>4
    <3>2. But(ToolBlocks(s), i) = ToolBlocks(s)
      <4>1. \A j \in StartedTools(s) : s.tools[j].block # i
        BY <1>1, <1>3 DEF Layout
      <4> HIDE DEF i
      <4> QED BY <4>1 DEF But, ToolBlocks
    <3>3. But(OpenBlocks(s), i) = But(TextBlocks(s), i) \cup But(ToolBlocks(s), i)
      BY DEF But, OpenBlocks
    <3> QED BY <2>5, <3>1, <3>2, <3>3 DEF OpenBlocks
  <2>8. \E b \in OpenBlocks(s) : b[1] = i
    <3> DEFINE b == <<i, kind>>
    <3>1. b \in OpenBlocks(s)
      BY <1>3 DEF OpenBlocks, TextBlocks
    <3>2. b[1] = i
      OBVIOUS
    <3> HIDE DEF b
    <3> QED BY <3>1, <3>2
  <2> HIDE DEF i
  <2>9. Sees(Read(Read(c, s.out), more), OpenBlocks(r), r.next)
    <3>1. Sees(Read(Read(c, s.out), <<BlockStop(i)>>), But(OpenBlocks(s), i), s.next)
      BY <1>1, <2>3, <2>8, SeesStop
    <3> QED BY <2>1, <2>7, <3>1 DEF more
  <2>10. Layout(t) /\ OpenBlocks(t) = OpenBlocks(r) /\ t.next = r.next
    BY <2>4, <2>6, AlikeLayout DEF Alike
  <2>11. Good(c, t)
    BY <2>1, <2>4, <2>9, <2>10 DEF Good, Fits
  <2> QED BY <2>1, <2>4, <2>11 DEF t, Alike
<1> QED BY <1>2, <1>3

\* close_content_blocks.
LEMMA CloseContentGood ==
  ASSUME NEW c \in Client, NEW s, Good(c, s)
  PROVE  LET t == CloseContent(s)
         IN /\ Good(c, t) /\ t.started = {} /\ t.next = s.next /\ t.at = s.at
            /\ t.spoken = s.spoken /\ t.tools = s.tools /\ t.heur = s.heur
<1> DEFINE r == CloseKind(s, "thinking")
           t == CloseKind(r, "text")
<1>1. "thinking" \in Spoke /\ "text" \in Spoke
  BY DEF Spoke
<1>2. /\ Good(c, r) /\ r.started = s.started \ {"thinking"}
      /\ r.next = s.next /\ r.at = s.at /\ r.spoken = s.spoken
      /\ r.tools = s.tools /\ r.heur = s.heur
  BY <1>1, CloseKindGood
<1> HIDE DEF r
<1>3. /\ Good(c, t) /\ t.started = r.started \ {"text"}
      /\ t.next = r.next /\ t.at = r.at /\ t.spoken = r.spoken
      /\ t.tools = r.tools /\ t.heur = r.heur
  BY <1>1, <1>2, CloseKindGood
<1>4. CloseContent(s) = t
  BY DEF CloseContent, r
<1> HIDE DEF t
<1>5. s.started \subseteq Spoke
  BY DEF Good, Builder
<1>6. t.started = {}
  BY <1>2, <1>3, <1>5 DEF Spoke
<1> QED BY <1>2, <1>3, <1>4, <1>6

\* ensure_text_block, ensure_thinking_block.
LEMMA EnsureGood ==
  ASSUME NEW c \in Client, NEW s, Good(c, s), NEW kind \in Spoke
  PROVE  LET t == Ensure(s, kind)
         IN /\ Good(c, t) /\ kind \in t.started /\ t.spoken = s.spoken
            /\ t.tools = s.tools /\ t.heur = s.heur
<1> DEFINE r == CloseKind(s, Other[kind])
           e == Ensure(s, kind)
<1>1. Other[kind] \in Spoke /\ Spoke = {kind, Other[kind]} /\ kind # Other[kind]
  BY DEF Spoke, Other
<1>2. /\ Good(c, r) /\ r.started = s.started \ {Other[kind]}
      /\ r.next = s.next /\ r.spoken = s.spoken /\ r.tools = s.tools /\ r.heur = s.heur
  BY <1>1, CloseKindGood
<1>3. e = IF kind \in r.started THEN r
          ELSE Put([r EXCEPT !.next = r.next + 1, !.at = [r.at EXCEPT ![kind] = r.next],
                             !.started = r.started \cup {kind}],
                   <<BlockStart(r.next, kind)>>)
  BY DEF Ensure
<1> HIDE DEF r, e
<1>4. CASE kind \in r.started
  BY <1>2, <1>3, <1>4 DEF e
<1>5. CASE kind \notin r.started
  <2> DEFINE n == r.next
             b == [r EXCEPT !.next = n + 1, !.at = [r.at EXCEPT ![kind] = n],
                            !.started = r.started \cup {kind}]
             more == <<BlockStart(n, kind)>>
  <2>1. r \in Builder /\ Layout(r) /\ Sees(Read(c, r.out), OpenBlocks(r), n)
    BY <1>2 DEF Good, Fits
  <2>2. n \in Nat /\ r.at \in [Spoke -> Int] /\ r.started = {}
    <3>1. n \in Nat /\ r.at \in [Spoke -> Int] /\ r.started \subseteq Spoke
      BY <2>1 DEF Builder
    <3> QED BY <1>1, <1>2, <1>5, <3>1
  <2>3. [r.at EXCEPT ![kind] = n] \in [Spoke -> Int]
    BY <2>2
  <2>4. /\ b \in Builder /\ b.next = n + 1 /\ b.started = {kind}
        /\ b.at = [r.at EXCEPT ![kind] = n]
        /\ b.spoken = r.spoken /\ b.tools = r.tools /\ b.heur = r.heur /\ b.out = r.out
    <3> DEFINE at == [r.at EXCEPT ![kind] = n]
    <3>1. at \in [Spoke -> Int]
      BY <2>3
    <3> HIDE DEF at
    <3>2. n + 1 \in Nat /\ r.started \cup {kind} = {kind} /\ {kind} \in SUBSET Spoke
      BY <2>2
    <3>3. b = [r EXCEPT !.next = n + 1, !.at = at, !.started = {kind}]
      BY <3>2 DEF at
    <3> HIDE DEF b, n
    <3>4. /\ b \in Builder /\ b.next = n + 1 /\ b.started = {kind} /\ b.at = at
          /\ b.spoken = r.spoken /\ b.tools = r.tools /\ b.heur = r.heur /\ b.out = r.out
      BY <2>1, <3>1, <3>2, <3>3 DEF Builder
    <3> QED BY <3>4 DEF at, n
  <2>5. e = Put(b, more) /\ kind \in BlockKinds
    BY <1>3, <1>5 DEF Spoke, BlockKinds
  <2>6. b.at[kind] = n /\ \A k \in Spoke : k # kind => b.at[k] = r.at[k]
    BY <2>2, <2>4
  <2>7. more \in Seq(StreamEvent)
    <3>1. n \in Int
      BY <2>2
    <3> QED BY <2>5, <3>1 DEF StreamEvent
  <2> HIDE DEF b, more
  <2>8. /\ e \in Builder /\ Alike(b, e) /\ e.spoken = b.spoken /\ e.heur = b.heur
        /\ Read(c, e.out) = Read(Read(c, b.out), more)
    BY <2>4, <2>5, <2>7, PutReads DEF Alike
  <2>9. StartedTools(b) = StartedTools(r) /\ ToolBlocks(b) = ToolBlocks(r)
    BY <2>4 DEF StartedTools, ToolBlocks
  <2>10. Layout(b)
    <3>1. TextLayout(b)
      <4>1. \A k \in Spoke : r.at[k] \in Int /\ r.at[k] >= -1 /\ r.at[k] < n
        BY <2>1, <2>2 DEF Layout, TextLayout
      <4>2. \A k \in Spoke : b.at[k] >= -1 /\ b.at[k] < n + 1
        BY <2>2, <2>6, <4>1
      <4> QED BY <2>2, <2>4, <2>6, <4>2 DEF TextLayout
    <3>2. ToolLayout(b)
      <4>1. 0 .. n - 1 \subseteq 0 .. (n + 1) - 1
        BY <2>2
      <4> QED BY <2>1, <2>4, <2>9, <4>1 DEF Layout, ToolLayout
    <3>3. ASSUME NEW i \in StartedTools(b), NEW k \in b.started PROVE b.tools[i].block # b.at[k]
      <4>1. b.tools[i].block \in 0 .. n - 1
        BY <2>1, <2>4, <2>9 DEF Layout, ToolLayout
      <4>2. b.at[k] = n
        BY <2>4, <2>6
      <4> QED BY <2>2, <4>1, <4>2
    <3> QED BY <3>1, <3>2, <3>3 DEF Layout
  <2>11. OpenBlocks(b) = OpenBlocks(r) \cup {<<n, kind>>}
    <3>1. TextBlocks(r) = {}
      BY <2>2 DEF TextBlocks
    <3>2. TextBlocks(b) = {<<n, kind>>}
      BY <2>4, <2>6 DEF TextBlocks
    <3> QED BY <2>9, <3>1, <3>2 DEF OpenBlocks
  <2>12. Sees(Read(Read(c, r.out), more), OpenBlocks(b), n + 1)
    BY <2>1, <2>2, <2>5, <2>11, SeesStart DEF more
  <2>13. Layout(e) /\ OpenBlocks(e) = OpenBlocks(b) /\ e.next = b.next
    BY <2>8, <2>10, AlikeLayout DEF Alike
  <2>14. Good(c, e)
    BY <2>4, <2>8, <2>12, <2>13 DEF Good, Fits
  <2>15. kind \in e.started /\ e.tools = s.tools /\ e.spoken = s.spoken /\ e.heur = s.heur
    BY <1>2, <2>4, <2>8 DEF Alike
  <2> QED BY <2>14, <2>15 DEF e
<1> QED BY <1>4, <1>5

\* A text or thinking delta.
LEMMA SayGood ==
  ASSUME NEW c \in Client, NEW s, Good(c, s), NEW kind \in Spoke
  PROVE  LET t == Say(s, kind)
         IN Good(c, t) /\ kind \in t.started /\ t.tools = s.tools /\ t.heur = s.heur
<1> DEFINE r == Ensure(s, kind)
           b == [r EXCEPT !.spoken = r.spoken \cup {kind}]
           i == r.at[kind]
           more == <<BlockDelta(i, kind)>>
           e == Say(s, kind)
<1>1. Good(c, r) /\ kind \in r.started /\ r.tools = s.tools /\ r.heur = s.heur
  BY EnsureGood
<1>2. e = Put(b, <<BlockDelta(b.at[kind], kind)>>)
  BY DEF Say
<1> HIDE DEF r, e
<1>3. r \in Builder /\ Layout(r) /\ Sees(Read(c, r.out), OpenBlocks(r), r.next)
  BY <1>1 DEF Good, Fits
<1>4. /\ b \in Builder /\ Alike(r, b) /\ b.heur = r.heur /\ b.out = r.out
  BY <1>3 DEF Builder, Alike
<1> HIDE DEF b
<1>5. i \in Int /\ kind \in BlockKinds /\ <<i, kind>> \in OpenBlocks(r)
  <2>1. i \in Int
    BY <1>3 DEF Builder
  <2>2. kind \in BlockKinds
    BY DEF Spoke, BlockKinds
  <2> QED BY <1>1, <2>1, <2>2 DEF OpenBlocks, TextBlocks
<1>6. e = Put(b, more)
  BY <1>2, <1>4 DEF Alike
<1>7. more \in Seq(StreamEvent)
  <2> HIDE DEF i
  <2> QED BY <1>5 DEF StreamEvent
<1>8. Sees(Read(Read(c, r.out), more), OpenBlocks(r), r.next)
  <2> HIDE DEF i
  <2> QED BY <1>3, <1>5, SeesDelta
<1> HIDE DEF more
<1>9. /\ e \in Builder /\ Alike(b, e) /\ e.heur = b.heur
      /\ Read(c, e.out) = Read(Read(c, b.out), more)
  BY <1>4, <1>6, <1>7, PutReads DEF Alike
<1>10. Alike(r, e)
  BY <1>4, <1>9 DEF Alike
<1>11. Layout(e) /\ OpenBlocks(e) = OpenBlocks(r) /\ e.next = r.next
  BY <1>3, <1>10, AlikeLayout DEF Alike
<1>12. Good(c, e)
  BY <1>4, <1>8, <1>9, <1>11 DEF Good, Fits
<1>13. kind \in e.started /\ e.tools = s.tools /\ e.heur = s.heur
  BY <1>1, <1>4, <1>9, <1>10 DEF Alike
<1> QED BY <1>12, <1>13 DEF e

\* A tool call written as text, sent as a block at once.
LEMMA HeuristicToolGood ==
  ASSUME NEW c \in Client, NEW s, Good(c, s)
  PROVE  LET t == HeuristicTool(s)
         IN Good(c, t) /\ t.tools = s.tools /\ t.heur = s.heur
<1> DEFINE r == CloseContent(s)
           n == r.next
           b == [r EXCEPT !.next = n + 1]
           more == Whole(n, "tool_use")
           e == HeuristicTool(s)
<1>1. /\ Good(c, r) /\ r.started = {} /\ r.tools = s.tools /\ r.heur = s.heur
  BY CloseContentGood
<1>2. e = Put(b, more)
  BY DEF HeuristicTool, Whole
<1> HIDE DEF r, e
<1>3. r \in Builder /\ Layout(r) /\ Sees(Read(c, r.out), OpenBlocks(r), n) /\ n \in Nat
  BY <1>1 DEF Good, Fits, Builder
<1>4. /\ b \in Builder /\ b.next = n + 1 /\ b.at = r.at /\ b.started = r.started
      /\ b.tools = r.tools /\ b.heur = r.heur /\ b.out = r.out
  BY <1>3 DEF Builder
<1> HIDE DEF b
<1>5. OpenBlocks(b) = OpenBlocks(r) /\ StartedTools(b) = StartedTools(r)
  BY <1>4 DEF OpenBlocks, TextBlocks, ToolBlocks, StartedTools
<1>6. Layout(b)
  <2>1. TextLayout(b)
    <3>1. \A k \in Spoke : r.at[k] \in Int /\ r.at[k] >= -1 /\ r.at[k] < n
      BY <1>3 DEF Layout, TextLayout, Builder
    <3>2. \A k \in Spoke : r.at[k] < n + 1
      BY <1>3, <3>1
    <3> QED BY <1>1, <1>4, <3>1, <3>2 DEF TextLayout
  <2>2. ToolLayout(b)
    <3>1. 0 .. n - 1 \subseteq 0 .. (n + 1) - 1
      BY <1>3
    <3> QED BY <1>3, <1>4, <1>5, <3>1 DEF Layout, ToolLayout
  <2> QED BY <1>1, <1>4, <2>1, <2>2 DEF Layout
<1>7. Below(OpenBlocks(r), n) /\ "tool_use" \in BlockKinds
  BY <1>3, BlocksBelow DEF BlockKinds
<1>8. more \in Seq(StreamEvent) /\ Sees(Read(Read(c, r.out), more), OpenBlocks(r), n + 1)
  BY <1>3, <1>7, SeesWhole
<1> HIDE DEF more
<1>9. /\ e \in Builder /\ Alike(b, e) /\ e.heur = b.heur
      /\ Read(c, e.out) = Read(Read(c, b.out), more)
  BY <1>2, <1>4, <1>8, PutReads DEF Alike
<1>10. Layout(e) /\ OpenBlocks(e) = OpenBlocks(b) /\ e.next = b.next
  BY <1>6, <1>9, AlikeLayout DEF Alike
<1>11. Good(c, e)
  BY <1>4, <1>5, <1>8, <1>9, <1>10 DEF Good, Fits
<1> QED BY <1>1, <1>4, <1>9, <1>11 DEF e, Alike
-----------------------------------------------------------------------------
(* Tool calls written as text: what a feed of the HeuristicToolParser yields.  *)

Scanned == [state : {"TEXT", "MATCHING_FUNCTION", "PARSING_PARAMETERS"}, buf : Seq(Token),
            out : Seq(Token), tools : Nat]

LEMMA FindsIn ==
  ASSUME NEW b \in Seq(Token), NEW tag \in Seq(Token), Len(tag) > 0
  PROVE  LET i == Find(b, tag)
         IN \/ i = 0 /\ \A k \in 1..(Len(b) - Len(tag) + 1) : SubSeq(b, k, k + Len(tag) - 1) # tag
            \/ i \in 1..(Len(b) - Len(tag) + 1)
<1> DEFINE N == Len(b) - Len(tag) + 1
           hits == {k \in 1..N : SubSeq(b, k, k + Len(tag) - 1) = tag}
           i == Find(b, tag)
<1>1. i = IF hits = {} THEN 0 ELSE CHOOSE k \in hits : \A j \in hits : k <= j
  BY DEF Find
<1>2. N \in Int /\ hits \in SUBSET (1..N)
  OBVIOUS
<1>3. CASE hits = {}
  BY <1>1, <1>3
<1>4. CASE hits # {}
  <2> HIDE DEF hits, N
  <2>1. hits \in SUBSET Nat
    BY <1>2
  <2>2. PICK k \in hits : \A j \in hits : k <= j
    BY <1>4, <2>1, Smallest
  <2>3. i \in hits
    BY <1>1, <1>4, <2>2
  <2> QED BY <1>2, <2>3 DEF N
<1> QED BY <1>3, <1>4

LEMMA FindsToken ==
  ASSUME NEW b \in Seq(Token), NEW x \in Token, Has(b, x)
  PROVE  Find(b, <<x>>) \in 1..Len(b)
<1> DEFINE tag == <<x>>
           i == Find(b, tag)
<1>1. tag \in Seq(Token) /\ Len(tag) = 1 /\ tag[1] = x /\ Len(b) \in Nat
  OBVIOUS
<1> HIDE DEF tag
<1>2. \/ i = 0 /\ \A k \in 1..(Len(b) - Len(tag) + 1) : SubSeq(b, k, k + Len(tag) - 1) # tag
      \/ i \in 1..(Len(b) - Len(tag) + 1)
  <2>1. Len(tag) > 0
    BY <1>1
  <2> QED BY <1>1, <2>1, FindsIn
<1>3. PICK k \in DOMAIN b : b[k] = x
  BY DEF Has
<1>4. k \in 1..Len(b) /\ k + Len(tag) - 1 = k /\ Len(b) - Len(tag) + 1 = Len(b) /\ k \in Int
  BY <1>1
<1>5. PICK n \in Int : n = k
  BY <1>4
<1>6. SubSeq(b, k, n) = tag
  <2> DEFINE s == SubSeq(b, k, n)
  <2>1. \A j \in k..n : b[j] \in Token
    BY <1>4, <1>5
  <2>2. /\ s \in Seq(Token) /\ Len(s) = (IF k <= n THEN n - k + 1 ELSE 0)
        /\ \A j \in 1..(n - k + 1) : s[j] = b[k + j - 1]
    BY <1>4, <2>1, SubSeqProperties
  <2>3. n - k + 1 = 1 /\ k <= n /\ 1 \in 1..1 /\ k + 1 - 1 = k
    BY <1>4, <1>5
  <2> HIDE DEF s
  <2>4. Len(s) = 1 /\ \A j \in 1..1 : s[j] = tag[j]
    BY <1>1, <1>3, <2>2, <2>3
  <2>5. s = tag
    BY <1>1, <2>2, <2>4, SeqEqual
  <2> QED BY <2>5 DEF s
<1>7. i # 0
  <2>1. k \in 1..(Len(b) - Len(tag) + 1) /\ k + Len(tag) - 1 = n
    BY <1>4, <1>5
  <2> DEFINE there(m) == SubSeq(b, m, m + Len(tag) - 1) = tag
  <2>2. there(k)
    BY <1>6, <2>1
  <2>3. i # 0 \/ \A m \in 1..(Len(b) - Len(tag) + 1) : ~there(m)
    <3>1. 0 \notin 1..(Len(b) - Len(tag) + 1)
      BY <1>1
    <3> QED BY <1>2, <3>1
  <2> HIDE DEF there
  <2> QED BY <2>1, <2>2, <2>3
<1>8. i \in 1..Len(b)
  BY <1>2, <1>4, <1>7
<1> QED BY <1>8 DEF tag

LEMMA CutAt ==
  ASSUME NEW b \in Seq(Token), NEW i \in 1..(Len(b) + 1)
  PROVE  Before(b, i) \in Seq(Token) /\ From(b, i) \in Seq(Token)
<1>1. Len(b) \in Nat /\ \A j \in 1..Len(b) : b[j] \in Token
  OBVIOUS
<1>2. 1 \in Int /\ i - 1 \in Int /\ i \in Int /\ Len(b) \in Int
  BY <1>1
<1>3. \A j \in 1..(i - 1) : b[j] \in Token
  BY <1>1
<1>4. \A j \in i..Len(b) : b[j] \in Token
  BY <1>1
<1>5. SubSeq(b, 1, i - 1) \in Seq(Token)
  BY <1>2, <1>3, SubSeqProperties
<1>6. SubSeq(b, i, Len(b)) \in Seq(Token)
  BY <1>2, <1>4, SubSeqProperties
<1> QED BY <1>5, <1>6 DEF Before, From

LEMMA LastAtIn ==
  ASSUME NEW b \in Seq(Token), NEW x
  PROVE  LastAt(b, x) \in 0..Len(b)
<1>1. Len(b) \in Nat /\ DOMAIN b = 1..Len(b)
  OBVIOUS
<1>2. CASE ~Has(b, x)
  BY <1>1, <1>2 DEF LastAt
<1>3. CASE Has(b, x)
  <2> DEFINE T == {k \in 1..Len(b) : b[k] = x}
  <2>1. T \in SUBSET (1..Len(b)) /\ T # {}
    BY <1>1, <1>3 DEF Has
  <2>2. PICK k \in T : \A j \in T : j <= k
    BY <1>1, <2>1, Largest
  <2>3. ASSUME NEW j \in k + 1 .. Len(b) PROVE b[j] # x
    BY <1>1, <2>2, <2>3
  <2>4. k \in DOMAIN b /\ b[k] = x
    BY <1>1, <2>2
  <2>5. LastAt(b, x) \in DOMAIN b
    BY <1>3, <2>3, <2>4 DEF LastAt
  <2> QED BY <1>1, <2>5
<1> QED BY <1>2, <1>3

LEMMA KeepsTokens ==
  ASSUME NEW b \in Seq(Token), NEW keep PROVE Keep(b, keep) \in Seq(Token)
BY KeepProperties

Moved(h, y, x) == [h EXCEPT !.out = y, !.buf = x]
Turned(h, v, y, x) == [h EXCEPT !.state = v, !.out = y, !.buf = x]
Shortened(h, v, x) == [h EXCEPT !.state = v, !.buf = x]

LEMMA ScannedBut ==
  ASSUME NEW h \in Scanned
  PROVE  /\ \A x, y \in Seq(Token) : Moved(h, y, x) \in Scanned /\ Moved(h, y, x).tools = h.tools
         /\ \A x, y \in Seq(Token), v \in {"TEXT", "MATCHING_FUNCTION", "PARSING_PARAMETERS"} :
              Turned(h, v, y, x) \in Scanned /\ Turned(h, v, y, x).tools = h.tools
         /\ \A x \in Seq(Token), v \in {"TEXT", "MATCHING_FUNCTION", "PARSING_PARAMETERS"} :
              Shortened(h, v, x) \in Scanned /\ Shortened(h, v, x).tools = h.tools
         /\ EndCall(h) \in Scanned /\ EndCall(h).tools = h.tools + 1
<1>1. h.tools \in Nat /\ h.tools + 1 \in Nat
  BY DEF Scanned
<1>2. EndCall(h) = [h EXCEPT !.state = "TEXT", !.tools = h.tools + 1]
  BY DEF EndCall
<1> DEFINE n == h.tools + 1
<1>3. n \in Nat
  BY <1>1
<1> HIDE DEF n
<1>4. [h EXCEPT !.state = "TEXT", !.tools = n] \in Scanned
      /\ [h EXCEPT !.state = "TEXT", !.tools = n].tools = n
  BY <1>3 DEF Scanned
<1>5. ASSUME NEW x \in Seq(Token), NEW y \in Seq(Token)
      PROVE  Moved(h, y, x) \in Scanned /\ Moved(h, y, x).tools = h.tools
  BY DEF Scanned, Moved
<1>6. ASSUME NEW x \in Seq(Token), NEW y \in Seq(Token),
             NEW v \in {"TEXT", "MATCHING_FUNCTION", "PARSING_PARAMETERS"}
      PROVE  Turned(h, v, y, x) \in Scanned /\ Turned(h, v, y, x).tools = h.tools
  BY DEF Scanned, Turned
<1>7. ASSUME NEW x \in Seq(Token), NEW v \in {"TEXT", "MATCHING_FUNCTION", "PARSING_PARAMETERS"}
      PROVE  Shortened(h, v, x) \in Scanned /\ Shortened(h, v, x).tools = h.tools
  BY DEF Scanned, Shortened
<1> QED BY <1>2, <1>4, <1>5, <1>6, <1>7 DEF n

\* A round goes on from what it found: the same kind of state, and no call is lost.
LEMMA RoundType ==
  ASSUME NEW h \in Scanned
  PROVE  Round(h) \in Scanned /\ PutOut(h) \in Scanned /\ Round(h).tools >= h.tools
<1>1. /\ h.state \in {"TEXT", "MATCHING_FUNCTION", "PARSING_PARAMETERS"}
      /\ h.buf \in Seq(Token) /\ h.out \in Seq(Token) /\ h.tools \in Nat
      /\ h = [state |-> h.state, buf |-> h.buf, out |-> h.out, tools |-> h.tools]
  BY DEF Scanned
<1> DEFINE b == h.buf
<1>2. Len(b) \in Nat /\ "bullet" \in Token /\ "function" \in Token
  BY <1>1 DEF Token
<1>3. PutOut(h) \in Scanned
  <2> DEFINE cut == IF LastAt(h.buf, "ctl(") > LastAt(h.buf, "ctl)") THEN LastAt(h.buf, "ctl(") ELSE 0
  <2>1. cut \in 0..Len(b)
    BY <1>1, <1>2, LastAtIn
  <2>2. PutOut(h) = IF cut > 1
                    THEN [h EXCEPT !.out = @ \o Before(b, cut), !.buf = From(b, cut)]
                    ELSE [h EXCEPT !.out = @ \o b, !.buf = <<>>]
    BY DEF PutOut
  <2> HIDE DEF cut
  <2>3. CASE cut > 1
    <3>1. cut \in 1..(Len(b) + 1)
      BY <1>2, <2>1, <2>3
    <3>2. Before(b, cut) \in Seq(Token) /\ From(b, cut) \in Seq(Token)
      BY <1>1, <3>1, CutAt
    <3>3. h.out \o Before(b, cut) \in Seq(Token)
      BY <1>1, <3>2, ConcatParts
    <3> DEFINE y == h.out \o Before(b, cut)
               x == From(b, cut)
    <3>4. PutOut(h) = Moved(h, y, x) /\ y \in Seq(Token) /\ x \in Seq(Token)
      BY <2>2, <2>3, <3>2, <3>3 DEF Moved
    <3> HIDE DEF x, y
    <3> QED BY <3>4, ScannedBut
  <2>4. CASE ~(cut > 1)
    <3>1. h.out \o b \in Seq(Token)
      BY <1>1, ConcatParts
    <3> DEFINE y == h.out \o b
               x == <<>>
    <3>2. PutOut(h) = Moved(h, y, x) /\ y \in Seq(Token) /\ x \in Seq(Token)
      BY <2>2, <2>4, <3>1 DEF Moved
    <3> HIDE DEF x, y
    <3> QED BY <1>1, <3>2, ScannedBut
  <2> QED BY <2>3, <2>4
<1>4. CASE h.state = "TEXT" /\ Has(b, "bullet")
  <2> DEFINE i == Find(b, <<"bullet">>)
  <2>1. i \in 1..Len(b)
    BY <1>1, <1>2, <1>4, FindsToken
  <2>2. Round(h) = [h EXCEPT !.state = "MATCHING_FUNCTION",
                             !.out = @ \o Before(b, i), !.buf = From(b, i)]
    BY <1>4 DEF Round
  <2> HIDE DEF i
  <2>3. i \in 1..(Len(b) + 1)
    BY <1>2, <2>1
  <2>4. Before(b, i) \in Seq(Token) /\ From(b, i) \in Seq(Token)
    BY <1>1, <2>3, CutAt
  <2>5. h.out \o Before(b, i) \in Seq(Token)
    BY <1>1, <2>4, ConcatParts
  <2> DEFINE y == h.out \o Before(b, i)
             x == From(b, i)
             v == "MATCHING_FUNCTION"
  <2>6. Round(h) = Turned(h, v, y, x) /\ y \in Seq(Token) /\ x \in Seq(Token)
    BY <2>2, <2>4, <2>5 DEF Turned
  <2>8. v \in {"TEXT", "MATCHING_FUNCTION", "PARSING_PARAMETERS"}
    OBVIOUS
  <2> HIDE DEF x, y, v
  <2>7. Round(h) \in Scanned /\ Round(h).tools = h.tools
    BY <2>6, <2>8, ScannedBut
  <2> QED BY <1>1, <1>3, <2>7
<1>5. CASE h.state = "TEXT" /\ ~Has(b, "bullet")
  <2>1. Round(h) = h
    BY <1>5 DEF Round
  <2> QED BY <1>1, <1>3, <2>1
<1>6. CASE h.state = "MATCHING_FUNCTION"
  <2> DEFINE tag == <<"bullet", "function">>
             i == Find(b, tag)
  <2>1. tag \in Seq(Token) /\ Len(tag) = 2
    BY <1>2
  <2>2. Round(h) = IF i # 0
                   THEN [h EXCEPT !.state = "PARSING_PARAMETERS", !.buf = From(b, i + 2)]
                   ELSE IF Len(b) > HoldLimit
                   THEN [h EXCEPT !.state = "TEXT", !.out = Append(@, Head(b)), !.buf = Tail(b)]
                   ELSE h
    BY <1>6 DEF Round
  <2> HIDE DEF tag
  <2>3. i = 0 \/ i \in 1..(Len(b) - Len(tag) + 1)
    <3>1. Len(tag) > 0
      BY <2>1
    <3> QED BY <1>1, <2>1, <3>1, FindsIn
  <2> HIDE DEF i
  <2>4. CASE i # 0
    <3>1. i + 2 \in 1..(Len(b) + 1)
      BY <1>2, <2>1, <2>3, <2>4
    <3>2. From(b, i + 2) \in Seq(Token)
      BY <1>1, <3>1, CutAt
    <3> DEFINE x == From(b, i + 2)
               v == "PARSING_PARAMETERS"
    <3>3. Round(h) = Shortened(h, v, x) /\ x \in Seq(Token)
      BY <2>2, <2>4, <3>2 DEF Shortened
    <3> HIDE DEF x
    <3>4. Round(h) \in Scanned /\ Round(h).tools = h.tools
      BY <3>3, ScannedBut
    <3> QED BY <1>1, <1>3, <3>4
  <2>5. CASE i = 0 /\ Len(b) > HoldLimit
    <3>1. b # <<>>
      BY <1>1, <1>2, <2>5, HoldAssumption
    <3>2. Head(b) \in Token /\ Tail(b) \in Seq(Token)
      BY <1>1, <3>1
    <3>3. Append(h.out, Head(b)) \in Seq(Token)
      BY <1>1, <3>2, AppendProperties
    <3> DEFINE y == Append(h.out, Head(b))
               x == Tail(b)
               v == "TEXT"
    <3>4. Round(h) = Turned(h, v, y, x) /\ y \in Seq(Token) /\ x \in Seq(Token)
      BY <2>2, <2>5, <3>2, <3>3 DEF Turned
    <3>6. v \in {"TEXT", "MATCHING_FUNCTION", "PARSING_PARAMETERS"}
      OBVIOUS
    <3> HIDE DEF x, y, v
    <3>5. Round(h) \in Scanned /\ Round(h).tools = h.tools
      BY <3>4, <3>6, ScannedBut
    <3> QED BY <1>1, <1>3, <3>5
  <2>6. CASE i = 0 /\ ~(Len(b) > HoldLimit)
    BY <1>1, <1>3, <2>2, <2>6
  <2> QED BY <2>4, <2>5, <2>6
<1>7. CASE h.state = "PARSING_PARAMETERS"
  <2> DEFINE g == TakeParameters(h)
             last == LastAt(b, "parameter")
             said == Keep(b, {i \in 1 .. last - 1 : b[i] # "parameter"})
  <2>1. last \in 0..Len(b)
    BY <1>1, LastAtIn
  <2>2. g = [h EXCEPT !.out = @ \o said, !.buf = From(b, last + 1)]
    BY DEF TakeParameters
  <2>3. said \in Seq(Token)
    BY <1>1, KeepsTokens
  <2> HIDE DEF said, last, g
  <2>4. last + 1 \in 1..(Len(b) + 1)
    BY <1>2, <2>1
  <2>5. From(b, last + 1) \in Seq(Token) /\ h.out \o said \in Seq(Token)
    BY <1>1, <2>3, <2>4, CutAt, ConcatParts
  <2>6. g \in Scanned /\ g.tools = h.tools
    BY <2>2, <2>5 DEF Scanned
  <2>7. g.buf \in Seq(Token) /\ g.out \in Seq(Token)
    BY <2>6 DEF Scanned
  <2>8. Round(h) =
         IF Has(g.buf, "bullet")
         THEN LET i == Find(g.buf, <<"bullet">>) IN
              EndCall([g EXCEPT !.out = @ \o Before(g.buf, i), !.buf = From(@, i)])
         ELSE IF g.buf # <<>> /\ Head(g.buf) \notin {"<", "function", "ctl("}
         THEN EndCall([g EXCEPT !.out = @ \o g.buf, !.buf = <<>>])
         ELSE g
    BY <1>7 DEF Round, g
  <2>9. \A q \in Scanned : EndCall(q) \in Scanned /\ EndCall(q).tools = q.tools + 1
    <3>1. <<>> \in Seq(Token)
      OBVIOUS
    <3> QED BY <3>1, ScannedBut
  <2>10. CASE Has(g.buf, "bullet")
    <3> DEFINE i == Find(g.buf, <<"bullet">>)
               q == [g EXCEPT !.out = g.out \o Before(g.buf, i), !.buf = From(g.buf, i)]
    <3>1. i \in 1..Len(g.buf)
      BY <1>2, <2>7, <2>10, FindsToken
    <3>2. Round(h) = EndCall(q)
      BY <2>8, <2>10
    <3> HIDE DEF i
    <3>3. i \in 1..(Len(g.buf) + 1)
      BY <2>7, <3>1
    <3>4. Before(g.buf, i) \in Seq(Token) /\ From(g.buf, i) \in Seq(Token)
      BY <2>7, <3>3, CutAt
    <3>5. g.out \o Before(g.buf, i) \in Seq(Token)
      BY <2>7, <3>4, ConcatParts
    <3>6. q \in Scanned /\ q.tools = h.tools
      BY <2>6, <3>4, <3>5 DEF Scanned
    <3> HIDE DEF q
    <3>7. EndCall(q) \in Scanned /\ EndCall(q).tools = h.tools + 1
      BY <2>9, <3>6
    <3> QED BY <1>1, <1>3, <3>2, <3>7
  <2>11. CASE ~Has(g.buf, "bullet") /\ g.buf # <<>> /\ Head(g.buf) \notin {"<", "function", "ctl("}
    <3> DEFINE q == [g EXCEPT !.out = g.out \o g.buf, !.buf = <<>>]
    <3>1. Round(h) = EndCall(q)
      BY <2>8, <2>11
    <3>2. g.out \o g.buf \in Seq(Token)
      BY <2>7, ConcatParts
    <3> DEFINE y == g.out \o g.buf
               x == <<>>
    <3>3. q \in Scanned /\ q.tools = h.tools
      <4>1. q = Moved(g, y, x) /\ y \in Seq(Token) /\ x \in Seq(Token)
        BY <3>2 DEF Moved
      <4> HIDE DEF q, x, y
      <4> QED BY <2>6, <4>1, ScannedBut
    <3> HIDE DEF q
    <3>4. EndCall(q) \in Scanned /\ EndCall(q).tools = h.tools + 1
      BY <2>9, <3>3
    <3> QED BY <1>1, <1>3, <3>1, <3>4
  <2>12. CASE ~Has(g.buf, "bullet") /\ ~(g.buf # <<>> /\ Head(g.buf) \notin {"<", "function", "ctl("})
    BY <1>1, <1>3, <2>6, <2>8, <2>12
  <2> QED BY <2>10, <2>11, <2>12
<1> QED BY <1>1, <1>4, <1>5, <1>6, <1>7

LEMMA HeuristicFeedType ==
  ASSUME NEW p \in Heur, NEW text \in Seq(Token)
  PROVE  LET h == HeuristicFeed(p, text)
         IN [state |-> h.state, buf |-> h.buf] \in Heur /\ h.tools \in Nat
<1> DEFINE buf == StripControl(p.buf \o text)
           web == WebCalls(buf)
           start == [state |-> p.state, buf |-> IF web > 0 THEN <<>> ELSE buf,
                     out |-> <<>>, tools |-> web]
           L == 3 * Len(buf) + 3
           Def(f) == f = [n \in 0..L |-> IF n = 0 THEN start ELSE Round(f[n - 1])]
           g == CHOOSE f : Def(f)
<1>1. p.buf \o text \in Seq(Token) /\ p.state \in {"TEXT", "MATCHING_FUNCTION", "PARSING_PARAMETERS"}
  <2>1. p.buf \in Seq(Token) /\ p.state \in {"TEXT", "MATCHING_FUNCTION", "PARSING_PARAMETERS"}
    BY DEF Heur
  <2> QED BY <2>1, ConcatParts
<1>2. buf \in Seq(Token)
  BY <1>1, KeepsTokens DEF StripControl
<1>3. web \in Nat
  <2> HIDE DEF buf
  <2>1. IsFiniteSet(1..Len(buf))
    BY <1>2, FS_Interval
  <2>2. {i \in DOMAIN buf : buf[i] = "webjson"} \subseteq 1..Len(buf)
    BY <1>2
  <2>3. IsFiniteSet({i \in DOMAIN buf : buf[i] = "webjson"})
    BY <2>1, <2>2, FS_Subset
  <2> QED BY <2>3, FS_CardinalityType DEF WebCalls
<1> DEFINE h == HeuristicFeed(p, text)
<1>4. h = IF g[L].state = "TEXT" THEN PutOut(g[L]) ELSE g[L]
  BY DEF HeuristicFeed
<1> HIDE DEF h
<1>5. start \in Scanned /\ L \in Nat
  <2> HIDE DEF buf, web
  <2> QED BY <1>1, <1>2, <1>3 DEF Scanned
<1> HIDE DEF start, L, buf, web
<1> DEFINE G == [n \in 1..L |-> [q \in Scanned |-> Round(q)]]
<1>6. G \in [1..L -> [Scanned -> Scanned]] /\ \A n \in 1..L, q \in Scanned : G[n][q] = Round(q)
  BY RoundType
<1> HIDE DEF G
<1>7. PICK f \in [0..L -> Scanned] : Follows(f, L, start, G)
  BY <1>5, <1>6, Recursion
<1>8. Def(f)
  <2>1. \A n \in 1..L : n - 1 \in 0..L /\ f[n - 1] \in Scanned
    BY <1>5
  <2>2. f[0] = start /\ \A n \in 1..L : f[n] = Round(f[n - 1])
    BY <1>6, <1>7, <2>1 DEF Follows
  <2>3. \A n \in 0..L : n # 0 => n \in 1..L
    BY <1>5
  <2> QED BY <2>2, <2>3
<1>9. g = [n \in 0..L |-> IF n = 0 THEN start ELSE Round(g[n - 1])]
  <2>1. Def(g)
    <3> HIDE DEF Def
    <3> QED BY <1>8
  <2> HIDE DEF g
  <2> QED BY <2>1
<1> HIDE DEF g, Def
<1>10. g[0] = start /\ \A n \in 1..L : g[n] = Round(g[n - 1])
  <2>1. 0 \in 0..L /\ \A n \in 1..L : n \in 0..L /\ n # 0
    BY <1>5
  <2>2. \A n \in 0..L : g[n] = IF n = 0 THEN start ELSE Round(g[n - 1])
    BY <1>9
  <2> QED BY <2>1, <2>2
<1>11. g[L] \in Scanned
  <2>1. \A n \in 1..L : g[n - 1] \in Scanned => g[n] \in Scanned
    BY <1>10, RoundType
  <2>2. \A n \in 0..L : g[n] \in Scanned
    BY <1>5, <1>10, <2>1, StaysIn
  <2> QED BY <1>5, <2>2
<1>12. h \in Scanned
  BY <1>4, <1>11, RoundType
<1>13. h.state \in {"TEXT", "MATCHING_FUNCTION", "PARSING_PARAMETERS"} /\ h.buf \in Seq(Token)
       /\ h.tools \in Nat
  BY <1>12 DEF Scanned
<1> QED BY <1>13 DEF Heur, h
-----------------------------------------------------------------------------
(* The parts of a text.                                                     *)

LEMMA HeuristicToolsGood ==
  ASSUME NEW c \in Client, NEW s, Good(c, s), NEW n \in Nat
  PROVE  LET t == HeuristicTools(s, n) IN Good(c, t) /\ t.tools = s.tools /\ t.heur = s.heur
<1> DEFINE S == {t \in Builder : Fits(c, t) /\ t.tools = s.tools /\ t.heur = s.heur}
           Def(f) == f = [k \in 0..n |-> IF k = 0 THEN s ELSE HeuristicTool(f[k - 1])]
           g == CHOOSE f : Def(f)
           G == [k \in 1..n |-> [t \in S |-> HeuristicTool(t)]]
<1>1. HeuristicTools(s, n) = g[n]
  BY DEF HeuristicTools
<1>2. s \in S
  BY DEF Good
<1>3. \A t \in S : HeuristicTool(t) \in S
  <2> SUFFICES ASSUME NEW t \in S PROVE HeuristicTool(t) \in S
    OBVIOUS
  <2>1. Good(c, t) /\ t.tools = s.tools /\ t.heur = s.heur
    BY DEF Good
  <2> DEFINE u == HeuristicTool(t)
  <2>2. Good(c, u) /\ u.tools = t.tools /\ u.heur = t.heur
    BY <2>1, HeuristicToolGood
  <2> HIDE DEF u
  <2>3. u \in S
    BY <2>1, <2>2 DEF Good
  <2> QED BY <2>3 DEF u
<1>4. \A t \in S : Good(c, t) /\ t.tools = s.tools /\ t.heur = s.heur
  BY DEF Good
<1> HIDE DEF S
<1>5. G \in [1..n -> [S -> S]] /\ \A k \in 1..n, t \in S : G[k][t] = HeuristicTool(t)
  BY <1>3
<1> HIDE DEF G
<1>6. PICK f \in [0..n -> S] : Follows(f, n, s, G)
  BY <1>2, <1>5, Recursion
<1>7. Def(f)
  <2>1. \A k \in 1..n : k - 1 \in 0..n /\ f[k - 1] \in S
    OBVIOUS
  <2>2. f[0] = s /\ \A k \in 1..n : f[k] = HeuristicTool(f[k - 1])
    BY <1>5, <1>6, <2>1 DEF Follows
  <2>3. \A k \in 0..n : k # 0 => k \in 1..n
    OBVIOUS
  <2> QED BY <2>2, <2>3
<1>8. g = [k \in 0..n |-> IF k = 0 THEN s ELSE HeuristicTool(g[k - 1])]
  <2>1. Def(g)
    <3> HIDE DEF Def
    <3> QED BY <1>7
  <2> HIDE DEF g
  <2> QED BY <2>1
<1> HIDE DEF g, Def
<1>9. g[0] = s /\ \A k \in 1..n : g[k] = HeuristicTool(g[k - 1])
  <2>1. 0 \in 0..n /\ \A k \in 1..n : k \in 0..n /\ k # 0
    OBVIOUS
  <2>2. \A k \in 0..n : g[k] = IF k = 0 THEN s ELSE HeuristicTool(g[k - 1])
    BY <1>8
  <2> QED BY <2>1, <2>2
<1>10. \A k \in 0..n : g[k] \in S
  <2>1. \A k \in 1..n : g[k - 1] \in S => g[k] \in S
    BY <1>3, <1>9
  <2> QED BY <1>2, <1>9, <2>1, StaysIn
<1> QED BY <1>1, <1>4, <1>10

LEMMA PartGood ==
  ASSUME NEW c \in Client, NEW s, Good(c, s), NEW x \in Piece
  PROVE  LET t == Part(s, x) IN Good(c, t) /\ t.tools = s.tools
<1>1. x.type \in {"text", "thinking"} /\ x.text \in Seq(Token)
  BY DEF Piece
<1>2. "thinking" \in Spoke /\ "text" \in Spoke
  BY DEF Spoke
<1>3. CASE x.type = "thinking"
  <2>1. Part(s, x) = IF enabled THEN Say(s, "thinking") ELSE s
    BY <1>3 DEF Part
  <2> QED BY <1>2, <2>1, SayGood
<1>4. CASE x.type = "text"
  <2> DEFINE h == HeuristicFeed(s.heur, x.text)
             kept == [state |-> h.state, buf |-> h.buf]
             r == [s EXCEPT !.heur = kept]
             q == IF h.out = <<>> THEN r ELSE Say(r, "text")
  <2>1. Part(s, x) = HeuristicTools(q, h.tools)
    BY <1>4 DEF Part
  <2>2. s \in Builder /\ Fits(c, s)
    BY DEF Good
  <2>3. kept \in Heur /\ h.tools \in Nat
    <3>1. s.heur \in Heur
      BY <2>2 DEF Builder
    <3> QED BY <1>1, <3>1, HeuristicFeedType
  <2> HIDE DEF h, kept
  <2>4. r \in Builder /\ Alike(s, r) /\ r.out = s.out
    BY <2>2, <2>3 DEF Builder, Alike
  <2> HIDE DEF r
  <2>5. Layout(r) /\ OpenBlocks(r) = OpenBlocks(s) /\ r.next = s.next
    BY <2>2, <2>4, AlikeLayout DEF Alike, Fits
  <2>6. Good(c, r) /\ r.tools = s.tools
    BY <2>2, <2>4, <2>5 DEF Good, Fits, Alike
  <2>7. Good(c, q) /\ q.tools = s.tools
    BY <1>2, <2>6, SayGood
  <2> HIDE DEF q
  <2>8. Good(c, HeuristicTools(q, h.tools)) /\ HeuristicTools(q, h.tools).tools = q.tools
    BY <2>3, <2>7, HeuristicToolsGood
  <2> QED BY <2>1, <2>7, <2>8
<1> QED BY <1>1, <1>3, <1>4

LEMMA PartsGood ==
  ASSUME NEW c \in Client, NEW s, Good(c, s), NEW parts \in Seq(Piece)
  PROVE  LET t == Parts(s, parts) IN Good(c, t) /\ t.tools = s.tools
<1> DEFINE S == {t \in Builder : Fits(c, t) /\ t.tools = s.tools}
           n == Len(parts)
           Def(f) == f = [k \in 0..n |-> IF k = 0 THEN s ELSE Part(f[k - 1], parts[k])]
           g == CHOOSE f : Def(f)
           G == [k \in 1..n |-> [t \in S |-> Part(t, parts[k])]]
<1>1. Parts(s, parts) = g[n]
  BY DEF Parts
<1>2. s \in S /\ n \in Nat /\ \A k \in 1..n : parts[k] \in Piece
  BY DEF Good
<1>3. \A t \in S, x \in Piece : Part(t, x) \in S
  <2> SUFFICES ASSUME NEW t \in S, NEW x \in Piece PROVE Part(t, x) \in S
    OBVIOUS
  <2>1. Good(c, t) /\ t.tools = s.tools
    BY DEF Good
  <2> DEFINE u == Part(t, x)
  <2>2. Good(c, u) /\ u.tools = t.tools
    BY <2>1, PartGood
  <2> HIDE DEF u
  <2>3. u \in S
    BY <2>1, <2>2 DEF Good
  <2> QED BY <2>3 DEF u
<1>4. \A t \in S : Good(c, t) /\ t.tools = s.tools
  BY DEF Good
<1> HIDE DEF S, n
<1>5. G \in [1..n -> [S -> S]] /\ \A k \in 1..n, t \in S : G[k][t] = Part(t, parts[k])
  BY <1>2, <1>3
<1> HIDE DEF G
<1>6. PICK f \in [0..n -> S] : Follows(f, n, s, G)
  BY <1>2, <1>5, Recursion
<1>7. Def(f)
  <2>1. \A k \in 1..n : k - 1 \in 0..n /\ f[k - 1] \in S
    BY <1>2
  <2>2. f[0] = s /\ \A k \in 1..n : f[k] = Part(f[k - 1], parts[k])
    BY <1>5, <1>6, <2>1 DEF Follows
  <2>3. \A k \in 0..n : k # 0 => k \in 1..n
    BY <1>2
  <2> QED BY <2>2, <2>3
<1>8. g = [k \in 0..n |-> IF k = 0 THEN s ELSE Part(g[k - 1], parts[k])]
  <2>1. Def(g)
    <3> HIDE DEF Def
    <3> QED BY <1>7
  <2> HIDE DEF g
  <2> QED BY <2>1
<1> HIDE DEF g, Def
<1>9. g[0] = s /\ \A k \in 1..n : g[k] = Part(g[k - 1], parts[k])
  <2>1. 0 \in 0..n /\ \A k \in 1..n : k \in 0..n /\ k # 0
    BY <1>2
  <2>2. \A k \in 0..n : g[k] = IF k = 0 THEN s ELSE Part(g[k - 1], parts[k])
    BY <1>8
  <2> QED BY <2>1, <2>2
<1>10. \A k \in 0..n : g[k] \in S
  <2>1. \A k \in 1..n : g[k - 1] \in S => g[k] \in S
    BY <1>2, <1>3, <1>9
  <2> QED BY <1>2, <1>9, <2>1, StaysIn
<1> QED BY <1>1, <1>2, <1>4, <1>10
-----------------------------------------------------------------------------
(* Tool calls.                                                              *)

LEMMA AssignIs ==
  ASSUME NEW K, NEW V, NEW T \in Map(K, V), NEW i \in K, NEW v \in V
  PROVE  Assigned(Map(K, V), T, i, v)
<1>1. PICK D \in {E \in SUBSET K : IsFiniteSet(E)} : T \in [D -> V]
  BY DEF Map
<1> DEFINE F == D \cup {i}
           U == Assign(T, i, v)
<1>2. F \in SUBSET K /\ IsFiniteSet(F)
  BY <1>1, FS_AddElement
<1>3. U = [k \in F |-> IF k = i THEN v ELSE T[k]]
  BY <1>1 DEF Assign
<1>4. U \in [F -> V]
  BY <1>1, <1>3
<1>5. U \in Map(K, V)
  <2> HIDE DEF F, U
  <2> QED BY <1>2, <1>4 DEF Map
<1> QED BY <1>1, <1>3, <1>5 DEF Assigned

LEMMA AssignProperties ==
  ASSUME NEW T \in ToolMap, NEW i \in Int, NEW v \in Tool
  PROVE  LET U == Assign(T, i, v)
         IN /\ U \in ToolMap /\ DOMAIN U = DOMAIN T \cup {i} /\ U[i] = v
            /\ \A j \in DOMAIN T : j # i => U[j] = T[j]
<1> DEFINE K == Int
<1>1. T \in Map(K, Tool) /\ i \in K
  BY DEF ToolMap
<1> HIDE DEF K
<1>2. Assigned(Map(K, Tool), T, i, v)
  BY <1>1, AssignIs
<1> QED BY <1>2 DEF K, ToolMap, Assigned

LEMMA AssignExcept ==
  ASSUME NEW T \in ToolMap, NEW i \in DOMAIN T, NEW v
  PROVE  [T EXCEPT ![i] = v] = Assign(T, i, v)
<1>1. PICK D \in SUBSET Int : T \in [D -> Tool]
  BY DEF ToolMap, Map
<1>2. DOMAIN T \cup {i} = D
  BY <1>1
<1> QED BY <1>1, <1>2 DEF Assign

LEMMA ToolMapIs ==
  ASSUME NEW T \in ToolMap
  PROVE  /\ DOMAIN T \subseteq Int /\ IsFiniteSet(DOMAIN T)
         /\ \A i \in DOMAIN T : T[i] \in Tool
BY DEF ToolMap, Map

LEMMA WithTool ==
  ASSUME NEW s \in Builder, NEW i \in Int, NEW v \in Tool
  PROVE  LET t == With(s, i, v)
         IN /\ t \in Builder /\ t.tools = Assign(s.tools, i, v)
            /\ t.next = s.next /\ t.at = s.at /\ t.started = s.started /\ t.out = s.out
            /\ t.spoken = s.spoken /\ t.heur = s.heur
            /\ DOMAIN t.tools = DOMAIN s.tools \cup {i} /\ t.tools[i] = v
            /\ \A j \in DOMAIN s.tools : j # i => t.tools[j] = s.tools[j]
<1> DEFINE T == s.tools
           U == Assign(T, i, v)
<1>1. T \in ToolMap
  BY DEF Builder
<1>2. /\ U \in ToolMap /\ DOMAIN U = DOMAIN s.tools \cup {i} /\ U[i] = v
      /\ \A j \in DOMAIN s.tools : j # i => U[j] = s.tools[j]
  <2> HIDE DEF T
  <2>1. /\ U \in ToolMap /\ DOMAIN U = DOMAIN T \cup {i} /\ U[i] = v
        /\ \A j \in DOMAIN T : j # i => U[j] = T[j]
    BY <1>1, AssignProperties
  <2> QED BY <2>1 DEF T
<1> HIDE DEF U
<1> DEFINE t == [s EXCEPT !.tools = U]
<1>3. /\ t \in Builder /\ t.tools = U
      /\ t.next = s.next /\ t.at = s.at /\ t.started = s.started /\ t.out = s.out
      /\ t.spoken = s.spoken /\ t.heur = s.heur
  BY <1>2 DEF Builder
<1>4. With(s, i, v) = t
  BY DEF With, U
<1> HIDE DEF t
<1> QED BY <1>2, <1>3, <1>4 DEF U

\* If it has the block it had, or none, the client's view is the same.
LEMMA WithSame ==
  ASSUME NEW c \in Client, NEW s, Good(c, s), NEW i \in Int, NEW v \in Tool,
         IF i \in DOMAIN s.tools
         THEN v.block = s.tools[i].block /\ v.started = s.tools[i].started
         ELSE ~v.started
  PROVE  LET t == With(s, i, v)
         IN /\ Good(c, t) /\ t.out = s.out /\ t.next = s.next
            /\ OpenBlocks(t) = OpenBlocks(s) /\ StartedTools(t) = StartedTools(s)
            /\ DOMAIN t.tools = DOMAIN s.tools \cup {i} /\ t.tools[i] = v
            /\ \A j \in DOMAIN s.tools : j # i => t.tools[j] = s.tools[j]
<1> DEFINE t == With(s, i, v)
<1>1. s \in Builder /\ Layout(s) /\ Sees(Read(c, s.out), OpenBlocks(s), s.next)
  BY DEF Good, Fits
<1>2. /\ t \in Builder
      /\ t.next = s.next /\ t.at = s.at /\ t.started = s.started /\ t.out = s.out
      /\ DOMAIN t.tools = DOMAIN s.tools \cup {i} /\ t.tools[i] = v
      /\ \A j \in DOMAIN s.tools : j # i => t.tools[j] = s.tools[j]
  BY <1>1, WithTool
<1> HIDE DEF t
<1>3. /\ \A j \in StartedTools(s) : j \in DOMAIN s.tools /\ t.tools[j].block = s.tools[j].block
      /\ StartedTools(t) = StartedTools(s)
  <2>1. \A j \in DOMAIN s.tools : /\ t.tools[j].block = s.tools[j].block
                                  /\ t.tools[j].started = s.tools[j].started
    BY <1>2
  <2>2. i \notin DOMAIN s.tools => ~t.tools[i].started
    BY <1>2
  <2>3. StartedTools(t) = StartedTools(s)
    <3>1. ASSUME NEW j \in StartedTools(t) PROVE j \in StartedTools(s)
      <4>1. j \in DOMAIN t.tools /\ t.tools[j].started
        BY DEF StartedTools
      <4>2. j \in DOMAIN s.tools
        BY <1>2, <2>2, <4>1
      <4> QED BY <2>1, <4>1, <4>2 DEF StartedTools
    <3>2. ASSUME NEW j \in StartedTools(s) PROVE j \in StartedTools(t)
      <4>1. j \in DOMAIN s.tools /\ s.tools[j].started
        BY DEF StartedTools
      <4> QED BY <1>2, <2>1, <4>1 DEF StartedTools
    <3> QED BY <3>1, <3>2
  <2> QED BY <2>1, <2>3 DEF StartedTools
<1>4. OpenBlocks(t) = OpenBlocks(s)
  BY <1>2, <1>3 DEF OpenBlocks, TextBlocks, ToolBlocks
<1>5. Layout(t)
  BY <1>1, <1>2, <1>3 DEF Layout, TextLayout, ToolLayout
<1>6. Good(c, t)
  BY <1>1, <1>2, <1>4, <1>5 DEF Good, Fits
<1> QED BY <1>2, <1>3, <1>4, <1>6 DEF t

LEMMA SendArgsGood ==
  ASSUME NEW c \in Client, NEW s, Good(c, s), NEW i \in StartedTools(s), NEW args \in Seq(Brace)
  PROVE  LET t == SendArgs(s, i, args)
         IN /\ Good(c, t) /\ Only(s, t, i)
            /\ t.tools[i] = Sent(s.tools[i], args)
<1> DEFINE x == s.tools[i]
           v == [x EXCEPT !.contents = x.contents \o args]
           b == With(s, i, v)
           more == <<BlockDelta(x.block, "tool_use")>>
           t == SendArgs(s, i, args)
<1>1. s \in Builder /\ Layout(s) /\ Sees(Read(c, s.out), OpenBlocks(s), s.next)
  BY DEF Good, Fits
<1>2. s.tools \in ToolMap /\ i \in DOMAIN s.tools /\ x.started
  BY <1>1 DEF Builder, StartedTools
<1>3. i \in Int /\ x \in Tool
  BY <1>2, ToolMapIs
<1>4. t = Put(b, more)
  <2>1. [s.tools EXCEPT ![i] = v] = Assign(s.tools, i, v)
    <3>1. v \in Tool
      <4>1. x.contents \o args \in Seq(Brace)
        <5>1. x.contents \in Seq(Brace)
          BY <1>3 DEF Tool
        <5> HIDE DEF x
        <5> QED BY <5>1, ConcatParts
      <4> HIDE DEF x
      <4> QED BY <1>3, <4>1 DEF Tool
    <3> DEFINE T == s.tools
    <3>2. T \in ToolMap /\ i \in DOMAIN T /\ i \in Int
      BY <1>2, <1>3
    <3> HIDE DEF v, T
    <3>3. [T EXCEPT ![i] = v] = Assign(T, i, v)
      BY <3>2, AssignExcept
    <3> QED BY <3>3 DEF T
  <2>2. t = Put([s EXCEPT !.tools = [s.tools EXCEPT ![i] = v]], more)
    BY DEF SendArgs
  <2> QED BY <2>1, <2>2 DEF With
<1> HIDE DEF x, b, t
<1>5. x.contents \o args \in Seq(Brace) /\ x.block \in Int
  <2>1. x.contents \in Seq(Brace) /\ x.block \in Int
    BY <1>3 DEF Tool
  <2> QED BY <2>1, ConcatParts
<1>6. v \in Tool /\ v.block = x.block /\ v.started = x.started
  BY <1>3, <1>5 DEF Tool
<1> HIDE DEF v
<1>7. /\ Good(c, b) /\ b.out = s.out /\ b.next = s.next
      /\ OpenBlocks(b) = OpenBlocks(s) /\ Only(s, b, i) /\ b.tools[i] = v
  <2>1. IF i \in DOMAIN s.tools
        THEN v.block = s.tools[i].block /\ v.started = s.tools[i].started
        ELSE ~v.started
    BY <1>2, <1>6 DEF x
  <2>2. /\ Good(c, b) /\ b.out = s.out /\ b.next = s.next
        /\ OpenBlocks(b) = OpenBlocks(s)
        /\ DOMAIN b.tools = DOMAIN s.tools \cup {i} /\ b.tools[i] = v
        /\ \A j \in DOMAIN s.tools : j # i => b.tools[j] = s.tools[j]
    BY <1>3, <1>6, <2>1, WithSame DEF b
  <2> QED BY <2>2 DEF Only
<1>8. <<x.block, "tool_use">> \in OpenBlocks(s) /\ "tool_use" \in BlockKinds
  BY DEF OpenBlocks, ToolBlocks, x, BlockKinds
<1> DEFINE m == x.block
<1>9. more \in Seq(StreamEvent)
  <2>1. m \in Int
    BY <1>5
  <2> HIDE DEF m
  <2>2. BlockDelta(m, "tool_use") \in StreamEvent
    BY <1>8, <2>1 DEF StreamEvent
  <2> QED BY <2>2 DEF m
<1>10. Sees(Read(Read(c, s.out), more), OpenBlocks(s), s.next)
  BY <1>1, <1>5, <1>8, SeesDelta
<1> HIDE DEF more
<1>11. b \in Builder /\ Layout(b)
  BY <1>7 DEF Good, Fits
<1>12. t \in Builder /\ Alike(b, t) /\ Read(c, t.out) = Read(Read(c, b.out), more)
  BY <1>4, <1>9, <1>11, PutReads DEF Alike
<1>13. Layout(t) /\ OpenBlocks(t) = OpenBlocks(b) /\ t.next = b.next
  BY <1>11, <1>12, AlikeLayout DEF Alike
<1>14. Good(c, t)
  BY <1>7, <1>10, <1>12, <1>13 DEF Good, Fits
<1>15. Only(s, t, i) /\ t.tools[i] = v
  BY <1>7, <1>12 DEF Only, Alike
<1>16. v = Sent(x, args)
  BY DEF v, Sent
<1> QED BY <1>14, <1>15, <1>16 DEF t, x

LEMMA Braces == Json \in Seq(Brace) /\ Json # <<>> /\ Len(Json) = 2
BY DEF Json, Brace

LEMMA EmitArgsGood ==
  ASSUME NEW c \in Client, NEW s, Good(c, s), NEW i \in StartedTools(s), NEW args \in Seq(Brace)
  PROVE  LET t == EmitArgs(s, i, args)
         IN /\ Good(c, t) /\ Only(s, t, i) /\ Kept(s.tools[i], t.tools[i])
            /\ \A g \in Seq(Brace) :
                 Delivered(s.tools[i], g) => Delivered(t.tools[i], g \o args)
<1> DEFINE x == s.tools[i]
           t == EmitArgs(s, i, args)
           buffer == x.buffer \o args
<1>1. s \in Builder /\ i \in DOMAIN s.tools /\ x.started
  BY DEF Good, StartedTools
<1>2. s.tools \in ToolMap
  BY <1>1 DEF Builder
<1>3. i \in Int /\ x \in Tool /\ DOMAIN s.tools \cup {i} = DOMAIN s.tools
  BY <1>1, <1>2, ToolMapIs
<1>4. /\ x.buffer \in Seq(Brace) /\ x.contents \in Seq(Brace) /\ x.name \in Seq(STRING)
      /\ x.emitted \in BOOLEAN
  BY <1>3 DEF Tool
<1>5. buffer \in Seq(Brace)
  BY <1>4, ConcatParts
<1>6. t = IF args = <<>> THEN s
          ELSE IF x.name # Task THEN SendArgs(s, i, args)
          ELSE IF x.emitted THEN s
          ELSE IF buffer # Json
          THEN [s EXCEPT !.tools = [s.tools EXCEPT ![i] = [x EXCEPT !.buffer = buffer]]]
          ELSE SendArgs([s EXCEPT !.tools = [s.tools EXCEPT
                          ![i] = [x EXCEPT !.buffer = <<>>, !.emitted = TRUE]]], i, buffer)
  BY DEF EmitArgs
<1>7. \A v \in Tool : [s EXCEPT !.tools = [s.tools EXCEPT ![i] = v]] = With(s, i, v)
  <2> SUFFICES ASSUME NEW v \in Tool
               PROVE  [s EXCEPT !.tools = [s.tools EXCEPT ![i] = v]] = With(s, i, v)
    OBVIOUS
  <2> DEFINE T == s.tools
  <2>1. [T EXCEPT ![i] = v] = Assign(T, i, v)
    <3> HIDE DEF T
    <3>1. T \in ToolMap /\ i \in DOMAIN T
      BY <1>1, <1>2 DEF T
    <3> QED BY <3>1, AssignExcept
  <2> QED BY <2>1 DEF With
<1>8. \A v \in Tool : v.block = x.block /\ v.started = x.started =>
        /\ Good(c, With(s, i, v)) /\ Only(s, With(s, i, v), i) /\ With(s, i, v).tools[i] = v
        /\ StartedTools(With(s, i, v)) = StartedTools(s)
  <2> SUFFICES ASSUME NEW v \in Tool, v.block = x.block, v.started = x.started
               PROVE  /\ Good(c, With(s, i, v)) /\ Only(s, With(s, i, v), i)
                      /\ With(s, i, v).tools[i] = v
                      /\ StartedTools(With(s, i, v)) = StartedTools(s)
    OBVIOUS
  <2> DEFINE w == With(s, i, v)
  <2>1. IF i \in DOMAIN s.tools
        THEN v.block = s.tools[i].block /\ v.started = s.tools[i].started
        ELSE ~v.started
    BY <1>1
  <2>2. /\ Good(c, w) /\ w.out = s.out /\ w.next = s.next
        /\ OpenBlocks(w) = OpenBlocks(s) /\ StartedTools(w) = StartedTools(s)
        /\ DOMAIN w.tools = DOMAIN s.tools \cup {i} /\ w.tools[i] = v
        /\ \A j \in DOMAIN s.tools : j # i => w.tools[j] = s.tools[j]
    BY <1>3, <2>1, WithSame
  <2> QED BY <2>2 DEF Only
<1>9. /\ Only(s, s, i) /\ Kept(x, x)
  BY <1>3 DEF Only, Kept
<1>10. \A g \in Seq(Brace) : g \o args \in Seq(Brace) /\ Len(g \o args) = Len(g) + Len(args)
  BY ConcatParts
<1> HIDE DEF t
<1>11. CASE args = <<>>
  <2>1. \A g \in Seq(Brace) : g \o args = g
    BY <1>11
  <2> QED BY <1>6, <1>9, <1>11, <2>1 DEF t
<1>12. CASE args # <<>> /\ x.name # Task
  <2>1. /\ Good(c, t) /\ Only(s, t, i) /\ t.tools[i] = Sent(x, args)
    BY <1>6, <1>12, SendArgsGood
  <2> DEFINE y == t.tools[i]
             sum == x.contents \o args
  <2>2. y = [x EXCEPT !.contents = sum]
    BY <2>1 DEF Sent
  <2> HIDE DEF sum, y, x
  <2>3. y.contents = sum /\ y.buffer = x.buffer /\ y.name = x.name /\ Kept(x, y)
    BY <1>3, <2>2 DEF Tool, Kept
  <2>4. ASSUME NEW g \in Seq(Brace), Delivered(x, g) PROVE Delivered(y, g \o args)
    BY <1>12, <2>3, <2>4 DEF Delivered, sum
  <2> QED BY <2>1, <2>3, <2>4 DEF y, x, t
<1>13. CASE args # <<>> /\ x.name = Task /\ x.emitted
  <2>1. \A g \in Seq(Brace) : Delivered(x, g) => Delivered(x, g \o args)
    <3> HIDE DEF x
    <3> SUFFICES ASSUME NEW g \in Seq(Brace), Delivered(x, g) PROVE Delivered(x, g \o args)
      OBVIOUS
    <3>1. Len(g) > 0 /\ x.contents = Json
      BY <1>13 DEF Delivered
    <3>2. Len(g \o args) > 0
      BY <1>10, <3>1
    <3> QED BY <1>13, <3>1, <3>2 DEF Delivered
  <2> QED BY <1>6, <1>9, <1>13, <2>1 DEF t
<1>14. CASE args # <<>> /\ x.name = Task /\ ~x.emitted /\ buffer # Json
  <2> DEFINE v == [x EXCEPT !.buffer = buffer]
  <2>1. t = [s EXCEPT !.tools = [s.tools EXCEPT ![i] = v]]
    BY <1>6, <1>14
  <2>2. /\ v \in Tool /\ v.buffer = buffer /\ v.contents = x.contents /\ v.emitted = x.emitted
        /\ v.name = x.name /\ Kept(x, v)
    <3> HIDE DEF buffer, x
    <3> QED BY <1>3, <1>5 DEF Tool, Kept
  <2> HIDE DEF v
  <2>3. t = With(s, i, v)
    BY <1>7, <2>1, <2>2
  <2>4. /\ Good(c, t) /\ Only(s, t, i) /\ t.tools[i] = v
    BY <1>8, <2>2, <2>3 DEF Kept
  <2>5. ASSUME NEW g \in Seq(Brace), Delivered(x, g) PROVE Delivered(v, g \o args)
    <3> HIDE DEF x
    <3> QED BY <1>14, <2>2, <2>5 DEF Delivered
  <2> QED BY <2>2, <2>4, <2>5 DEF t
<1>15. CASE args # <<>> /\ x.name = Task /\ ~x.emitted /\ buffer = Json
  <2> DEFINE v == [x EXCEPT !.buffer = <<>>, !.emitted = TRUE]
             w == With(s, i, v)
  <2>1. t = SendArgs([s EXCEPT !.tools = [s.tools EXCEPT ![i] = v]], i, Json)
    BY <1>6, <1>15
  <2>2. /\ v \in Tool /\ v.buffer = <<>> /\ v.contents = x.contents /\ v.emitted
        /\ v.name = x.name /\ Kept(x, v)
    <3>1. <<>> \in Seq(Brace)
      OBVIOUS
    <3> HIDE DEF x
    <3> QED BY <1>3, <3>1 DEF Tool, Kept
  <2> HIDE DEF v
  <2>3. t = SendArgs(w, i, Json)
    BY <1>7, <2>1, <2>2
  <2>4. /\ Good(c, w) /\ Only(s, w, i) /\ w.tools[i] = v /\ i \in StartedTools(w)
    BY <1>8, <2>2 DEF Kept
  <2> HIDE DEF w
  <2>5. /\ Good(c, t) /\ Only(w, t, i) /\ t.tools[i] = Sent(v, Json)
    <3>1. Json \in Seq(Brace)
      BY Braces
    <3>2. LET u == SendArgs(w, i, Json)
          IN /\ Good(c, u) /\ Only(w, u, i)
             /\ u.tools[i] = Sent(w.tools[i], Json)
      BY <2>4, <3>1, SendArgsGood
    <3> QED BY <2>3, <2>4, <3>2
  <2>6. Only(s, t, i)
    BY <2>4, <2>5 DEF Only
  <2> DEFINE y == t.tools[i]
             sum == v.contents \o Json
  <2>7. y = [v EXCEPT !.contents = sum]
    BY <2>5 DEF Sent
  <2> HIDE DEF sum, y
  <2>8. y.contents = sum /\ y.buffer = v.buffer /\ y.name = v.name /\ y.emitted = v.emitted
        /\ Kept(v, y)
    BY <2>2, <2>7 DEF Tool, Kept
  <2>9. Kept(x, y)
    BY <2>2, <2>8 DEF Kept
  <2>10. ASSUME NEW g \in Seq(Brace), Delivered(x, g) PROVE Delivered(y, g \o args)
    <3>1. x.contents = <<>> /\ x.buffer = g
      BY <1>15, <2>10 DEF Delivered
    <3>2. sum = Json /\ g \o args = Json
      <4>1. v.contents = <<>>
        BY <2>2, <3>1
      <4>2. <<>> \o Json = Json
        BY Braces
      <4>3. sum = Json
        BY <4>1, <4>2 DEF sum
      <4> QED BY <1>15, <3>1, <4>3
    <3>3. Len(g \o args) > 0
      BY <3>2, Braces
    <3>4. y.name = Task /\ y.emitted /\ y.contents = Json
      BY <1>15, <2>2, <2>8, <3>2
    <3> QED BY <3>3, <3>4 DEF Delivered
  <2> QED BY <2>5, <2>6, <2>9, <2>10 DEF y, t
<1> QED BY <1>4, <1>11, <1>12, <1>13, <1>14, <1>15

\* The start of a tool's block.
LEMMA StartToolGood ==
  ASSUME NEW c \in Client, NEW s, Good(c, s), NEW i \in DOMAIN s.tools, ~s.tools[i].started
  PROVE  LET t == StartTool(s, i)
         IN /\ Good(c, t) /\ Only(s, t, i) /\ t.tools[i] = Opened(s.tools[i], s.next)
            /\ i \in StartedTools(t)
<1> DEFINE x == s.tools[i]
           n == s.next
           v == Opened(x, n)
           r == [s EXCEPT !.next = n + 1]
           b == With(r, i, v)
           more == <<BlockStart(n, "tool_use")>>
           t == StartTool(s, i)
<1>1. s \in Builder /\ Layout(s) /\ Sees(Read(c, s.out), OpenBlocks(s), n)
  BY DEF Good, Fits
<1>2. s.tools \in ToolMap /\ n \in Nat
  BY <1>1 DEF Builder
<1>3. i \in Int /\ x \in Tool /\ DOMAIN s.tools \cup {i} = DOMAIN s.tools
  BY <1>2, ToolMapIs
<1>4. v \in Tool /\ v.block = n /\ v.started = TRUE
  <2>1. n \in Int
    BY <1>2
  <2> HIDE DEF x, n
  <2> QED BY <1>3, <2>1 DEF Tool, Opened
<1>5. /\ r \in Builder /\ r.next = n + 1 /\ r.at = s.at /\ r.started = s.started
      /\ r.tools = s.tools /\ r.out = s.out
  <2> DEFINE m == n + 1
  <2>1. m \in Nat
    BY <1>2
  <2> HIDE DEF m
  <2>2. LET q == [s EXCEPT !.next = m]
        IN /\ q \in Builder /\ q.next = m /\ q.at = s.at /\ q.started = s.started
           /\ q.tools = s.tools /\ q.out = s.out
    BY <1>1, <2>1 DEF Builder
  <2> QED BY <2>2 DEF m
<1>6. t = Put(b, more)
  <2> DEFINE T == s.tools
  <2>1. [T EXCEPT ![i] = v] = Assign(T, i, v)
    <3>1. T \in ToolMap /\ i \in DOMAIN T
      BY <1>2
    <3> HIDE DEF T, v
    <3> QED BY <3>1, AssignExcept
  <2>2. t = Put([s EXCEPT !.next = n + 1, !.tools = [T EXCEPT ![i] = v]], more)
    BY DEF StartTool, Opened
  <2>3. b = [s EXCEPT !.next = n + 1, !.tools = Assign(T, i, v)]
    <3> HIDE DEF v
    <3> QED BY <1>5 DEF With
  <2> QED BY <2>1, <2>2, <2>3
<1> HIDE DEF r, v
<1>7. /\ b \in Builder /\ b.tools = Assign(r.tools, i, v)
      /\ b.next = n + 1 /\ b.at = s.at /\ b.started = s.started /\ b.out = s.out
      /\ DOMAIN b.tools = DOMAIN s.tools /\ b.tools[i] = v
      /\ \A j \in DOMAIN s.tools : j # i => b.tools[j] = s.tools[j]
  <2>1. /\ b \in Builder /\ b.tools = Assign(r.tools, i, v)
        /\ b.next = r.next /\ b.at = r.at /\ b.started = r.started /\ b.out = r.out
        /\ DOMAIN b.tools = DOMAIN r.tools \cup {i} /\ b.tools[i] = v
        /\ \A j \in DOMAIN r.tools : j # i => b.tools[j] = r.tools[j]
    BY <1>3, <1>4, <1>5, WithTool
  <2> QED BY <1>3, <1>5, <2>1
<1> HIDE DEF b, t, x
<1>8. StartedTools(b) = StartedTools(s) \cup {i} /\ i \notin StartedTools(s)
  <2>1. ASSUME NEW j \in StartedTools(b), j # i PROVE j \in StartedTools(s)
    BY <1>7, <2>1 DEF StartedTools
  <2>2. ASSUME NEW j \in StartedTools(s) PROVE j \in StartedTools(b)
    BY <1>4, <1>7 DEF StartedTools
  <2>3. i \in StartedTools(b)
    BY <1>4, <1>7 DEF StartedTools
  <2> QED BY <2>1, <2>2, <2>3 DEF StartedTools
<1>9. \A j \in StartedTools(s) : j \in DOMAIN s.tools /\ j # i /\ b.tools[j].block = s.tools[j].block
  BY <1>7, <1>8 DEF StartedTools
<1>10. b.tools[i].block = n
  BY <1>4, <1>7
<1>11. OpenBlocks(b) = OpenBlocks(s) \cup {<<n, "tool_use">>}
  <2>1. TextBlocks(b) = TextBlocks(s)
    BY <1>7 DEF TextBlocks
  <2>2. ToolBlocks(b) = ToolBlocks(s) \cup {<<n, "tool_use">>}
    BY <1>8, <1>9, <1>10 DEF ToolBlocks
  <2> QED BY <2>1, <2>2 DEF OpenBlocks
<1>12. Layout(b)
  <2>1. \A k \in Spoke : s.at[k] \in Int /\ s.at[k] >= -1 /\ s.at[k] < n
    BY <1>1 DEF Layout, TextLayout, Builder
  <2>2. \A k \in Spoke : s.at[k] < n + 1
    BY <1>2, <2>1
  <2>3. TextLayout(b)
    BY <1>1, <1>7, <2>1, <2>2 DEF Layout, TextLayout
  <2>4. \A j \in StartedTools(s) : s.tools[j].block \in 0 .. n - 1
    BY <1>1 DEF Layout, ToolLayout
  <2>5. n \notin 0 .. n - 1 /\ n \in 0 .. (n + 1) - 1 /\ 0 .. n - 1 \subseteq 0 .. (n + 1) - 1
    BY <1>2
  <2>6. ToolLayout(b)
    <3>1. \A j \in StartedTools(b) : b.tools[j].block \in 0 .. b.next - 1
      BY <1>7, <1>8, <1>9, <1>10, <2>4, <2>5
    <3>2. ASSUME NEW j \in StartedTools(b), NEW k \in StartedTools(b),
                 b.tools[j].block = b.tools[k].block
          PROVE  j = k
      BY <1>1, <1>8, <1>9, <1>10, <2>4, <2>5, <3>2 DEF Layout, ToolLayout
    <3> QED BY <3>1, <3>2 DEF ToolLayout
  <2>7. ASSUME NEW j \in StartedTools(b), NEW k \in b.started PROVE b.tools[j].block # b.at[k]
    <3>1. k \in s.started /\ b.at[k] = s.at[k] /\ k \in Spoke
      BY <1>1, <1>7 DEF Builder
    <3>2. CASE j = i
      <4>1. s.at[k] < n /\ s.at[k] \in Int
        BY <2>1, <3>1
      <4> QED BY <1>2, <1>10, <3>1, <3>2, <4>1
    <3>3. CASE j # i
      BY <1>1, <1>8, <1>9, <3>1, <3>3 DEF Layout
    <3> QED BY <3>2, <3>3
  <2> QED BY <2>3, <2>6, <2>7 DEF Layout
<1>13. "tool_use" \in BlockKinds /\ n \in Int
  BY <1>2 DEF BlockKinds
<1>14. Sees(Read(Read(c, s.out), more), OpenBlocks(b), n + 1)
  BY <1>1, <1>2, <1>11, <1>13, SeesStart
<1>15. more \in Seq(StreamEvent)
  <2> DEFINE e == BlockStart(n, "tool_use")
  <2>1. e \in StreamEvent
    <3> HIDE DEF n
    <3> QED BY <1>13 DEF StreamEvent
  <2> HIDE DEF e
  <2>2. <<e>> \in Seq(StreamEvent)
    BY <2>1
  <2> QED BY <2>2 DEF e
<1> HIDE DEF more
<1>16. t \in Builder /\ Alike(b, t) /\ Read(c, t.out) = Read(Read(c, b.out), more)
  BY <1>6, <1>7, <1>15, PutReads DEF Alike
<1>17. Layout(t) /\ OpenBlocks(t) = OpenBlocks(b) /\ t.next = b.next /\ StartedTools(t) = StartedTools(b)
  BY <1>12, <1>16, AlikeLayout DEF Alike
<1>18. Good(c, t)
  BY <1>7, <1>14, <1>16, <1>17 DEF Good, Fits
<1>19. Only(s, t, i) /\ t.tools[i] = v /\ i \in StartedTools(t)
  BY <1>3, <1>7, <1>8, <1>16, <1>17 DEF Only, Alike
<1> QED BY <1>18, <1>19 DEF t, v, x

\* register_tool_name: a name stays a name.
LEMMA MergeProperties ==
  ASSUME NEW old \in Seq(STRING), NEW new \in Seq(STRING)
  PROVE  /\ Merge(old, new) \in Seq(STRING)
         /\ old # <<>> => Merge(old, new) # <<>>
<1>1. CASE IsPrefix(old, new)
  <2>1. Merge(old, new) = new /\ Len(old) <= Len(new)
    BY <1>1 DEF Merge, IsPrefix
  <2>2. old # <<>> => Len(old) > 0
    OBVIOUS
  <2>3. old # <<>> => new # <<>>
    BY <2>1, <2>2
  <2> QED BY <2>1, <2>3
<1>2. CASE ~IsPrefix(old, new) /\ IsPrefix(new, old)
  BY <1>2 DEF Merge
<1>3. CASE ~IsPrefix(old, new) /\ ~IsPrefix(new, old)
  <2>1. Merge(old, new) = old \o new
    BY <1>3 DEF Merge
  <2>2. old \o new \in Seq(STRING) /\ Len(old \o new) = Len(old) + Len(new)
    BY ConcatParts
  <2>3. old # <<>> => old \o new # <<>>
    BY <2>2
  <2> QED BY <2>1, <2>2, <2>3
<1> QED BY <1>1, <1>2, <1>3

SetAt(s, i, v) == [s EXCEPT !.tools[i] = v]

LEMMA SetAtGood ==
  ASSUME NEW c \in Client, NEW s, Good(c, s), NEW i \in DOMAIN s.tools, NEW v \in Tool,
         v.block = s.tools[i].block, v.started = s.tools[i].started
  PROVE  LET t == SetAt(s, i, v)
         IN /\ Good(c, t) /\ Only(s, t, i) /\ t.tools[i] = v
            /\ StartedTools(t) = StartedTools(s) /\ DOMAIN t.tools = DOMAIN s.tools
<1> DEFINE T == s.tools
           w == With(s, i, v)
<1>1. T \in ToolMap /\ i \in DOMAIN T
  BY DEF Good, Builder
<1>2. i \in Int
  <2> HIDE DEF T
  <2> QED BY <1>1, ToolMapIs
<1>3. [T EXCEPT ![i] = v] = Assign(T, i, v)
  <2> HIDE DEF T
  <2> QED BY <1>1, AssignExcept
<1>4. SetAt(s, i, v) = w
  BY <1>3 DEF SetAt, With
<1>5. IF i \in DOMAIN s.tools
      THEN v.block = s.tools[i].block /\ v.started = s.tools[i].started
      ELSE ~v.started
  OBVIOUS
<1>6. /\ Good(c, w) /\ w.out = s.out /\ w.next = s.next
      /\ OpenBlocks(w) = OpenBlocks(s) /\ StartedTools(w) = StartedTools(s)
      /\ DOMAIN w.tools = DOMAIN s.tools \cup {i} /\ w.tools[i] = v
      /\ \A j \in DOMAIN s.tools : j # i => w.tools[j] = s.tools[j]
  BY <1>2, <1>5, WithSame
<1> HIDE DEF w
<1>7. DOMAIN w.tools = DOMAIN s.tools
  BY <1>6
<1> QED BY <1>4, <1>6, <1>7 DEF Only

LEMMA NewToolIs ==
  ASSUME NEW name \in Seq(STRING)
  PROVE  LET v == NewTool(name)
         IN v \in Tool /\ Handled(v) /\ ~v.started /\ v.name = name
<1>1. <<>> \in Seq(Brace) /\ -1 \in Int
  OBVIOUS
<1> QED BY <1>1 DEF NewTool, Tool, Handled, Waiting

\* A tool that is not known yet.
LEMMA AddToolGood ==
  ASSUME NEW c \in Client, NEW s, Good(c, s), NEW i \in Int, HandledAt(s.tools, i),
         i \notin DOMAIN s.tools, NEW name \in Seq(STRING)
  PROVE  LET t == [s EXCEPT !.tools = Assign(@, i, NewTool(name))]
         IN Good(c, t) /\ HandledAt(t.tools, i)
<1> DEFINE v == NewTool(name)
           w == With(s, i, v)
<1>1. v \in Tool /\ Handled(v) /\ ~v.started
  BY NewToolIs
<1>2. [s EXCEPT !.tools = Assign(@, i, NewTool(name))] = w
  BY DEF With
<1> HIDE DEF v
<1>3. IF i \in DOMAIN s.tools
      THEN v.block = s.tools[i].block /\ v.started = s.tools[i].started
      ELSE ~v.started
  BY <1>1
<1>4. /\ Good(c, w) /\ w.out = s.out /\ w.next = s.next
      /\ OpenBlocks(w) = OpenBlocks(s) /\ StartedTools(w) = StartedTools(s)
      /\ DOMAIN w.tools = DOMAIN s.tools \cup {i} /\ w.tools[i] = v
      /\ \A j \in DOMAIN s.tools : j # i => w.tools[j] = s.tools[j]
  BY <1>1, <1>3, WithSame
<1> HIDE DEF w
<1>5. HandledAt(w.tools, i)
  BY <1>1, <1>4 DEF HandledAt
<1> QED BY <1>2, <1>4, <1>5

\* The delta's id and name.
LEMMA RegisteredGood ==
  ASSUME NEW c \in Client, NEW s, Good(c, s), NEW i \in Int, HandledAt(s.tools, i),
         NEW hasId, NEW name, name = None \/ name \in Seq(STRING)
  PROVE  LET t == Registered(s, i, hasId, name) IN Good(c, t) /\ HandledAt(t.tools, i)
<1> DEFINE t == Registered(s, i, hasId, name)
<1>1. CASE i \in DOMAIN s.tools /\ name = None
  BY <1>1 DEF Registered
<1>2. CASE i \in DOMAIN s.tools /\ name # None
  <2> DEFINE x == s.tools[i]
             new == Merge(x.name, name)
             still == x.whole /\ x.name \in {<<>>, new}
             v == Renamed(x, name)
  <2>1. t = SetAt(s, i, v)
    BY <1>2 DEF Registered, SetAt
  <2>2. s.tools \in ToolMap
    BY DEF Good, Builder
  <2>3. x \in Tool /\ Handled(x)
    BY <1>2, <2>2, ToolMapIs DEF HandledAt
  <2>4. new \in Seq(STRING) /\ (x.name # <<>> => new # <<>>)
    <3>1. x.name \in Seq(STRING)
      BY <2>3 DEF Tool
    <3> QED BY <1>2, <3>1, MergeProperties
  <2>5. still \in BOOLEAN
    OBVIOUS
  <2> HIDE DEF x, new, still, t
  <2>6. /\ v \in Tool /\ v.name = new /\ v.whole = still /\ v.block = x.block
        /\ v.started = x.started /\ v.buffer = x.buffer /\ v.emitted = x.emitted
        /\ v.pre = x.pre /\ v.got = x.got /\ v.contents = x.contents
    <3>1. v = [x EXCEPT !.name = new, !.whole = still]
      BY DEF Renamed, new, still
    <3> QED BY <2>3, <2>4, <2>5, <3>1 DEF Tool
  <2> HIDE DEF v
  <2>7. Handled(v)
    <3>1. CASE ~x.started
      BY <2>3, <2>6, <3>1 DEF Handled, Waiting
    <3>2. CASE x.started
      <4>1. x.name # <<>> /\ (x.whole => Delivered(x, x.got))
        BY <2>3, <3>2 DEF Handled
      <4>2. v.whole => x.whole /\ v.name = x.name
        BY <2>6, <4>1 DEF still
      <4>3. v.whole => Delivered(v, v.got)
        BY <2>6, <4>1, <4>2 DEF Delivered
      <4> QED BY <2>4, <2>6, <3>2, <4>1, <4>3 DEF Handled
    <3> QED BY <3>1, <3>2
  <2>8. Good(c, t) /\ Only(s, t, i) /\ t.tools[i] = v /\ DOMAIN t.tools = DOMAIN s.tools
    BY <1>2, <2>1, <2>6, SetAtGood DEF x
  <2>9. HandledAt(t.tools, i)
    BY <2>7, <2>8 DEF HandledAt, Only
  <2> QED BY <2>8, <2>9 DEF t
<1>3. CASE i \notin DOMAIN s.tools /\ name = None /\ ~hasId
  BY <1>3 DEF Registered
<1>4. CASE i \notin DOMAIN s.tools /\ ~(name = None /\ ~hasId)
  <2> DEFINE n == IF name = None THEN <<>> ELSE name
  <2>1. n \in Seq(STRING)
    <3>1. <<>> \in Seq(STRING)
      OBVIOUS
    <3> QED BY <3>1
  <2>2. t = [s EXCEPT !.tools = Assign(@, i, NewTool(n))]
    BY <1>4 DEF Registered
  <2> HIDE DEF n, t
  <2>3. LET u == [s EXCEPT !.tools = Assign(@, i, NewTool(n))]
        IN Good(c, u) /\ HandledAt(u.tools, i)
    BY <1>4, <2>1, AddToolGood
  <2> QED BY <2>2, <2>3 DEF t
<1> QED BY <1>1, <1>2, <1>3, <1>4

\* _process_tool_call.
LEMMA ProcessToolCallGood ==
  ASSUME NEW c \in Client, NEW s, Good(c, s), AllSettled(s.tools), NEW call \in ToolDelta
  PROVE  LET t == ProcessToolCall(s, call) IN Good(c, t) /\ AllSettled(t.tools)
<1> DEFINE i == IF call.index < 0 THEN Cardinality(DOMAIN s.tools) ELSE call.index
           args == call.args
           s0 == CloseContent(s)
           known == Registered(s0, i, call.id, call.name)
           t == IF i \in DOMAIN known.tools \/ args = <<>> THEN known
                ELSE [known EXCEPT !.tools = Assign(@, i, NewTool(<<>>))]
           x == t.tools[i]
           v == [x EXCEPT !.got = x.got \o args]
           u == SetAt(t, i, v)
           end == ProcessToolCall(s, call)
<1>1. end = IF i \notin DOMAIN t.tools THEN t
            ELSE IF u.tools[i].started THEN EmitArgs(u, i, args)
            ELSE IF u.tools[i].name = <<>> THEN BeforeName(u, i, args)
            ELSE EmitArgs(EmitArgs([StartTool(u, i) EXCEPT !.tools[i].pre = <<>>], i,
                                   u.tools[i].pre), i, args)
  BY DEF ProcessToolCall, SetAt
<1>2. i \in Int /\ args \in Seq(Brace) /\ (call.name = None \/ call.name \in Seq(STRING))
  <2>1. s.tools \in ToolMap
    BY DEF Good, Builder
  <2>2. Cardinality(DOMAIN s.tools) \in Int
    <3>1. IsFiniteSet(DOMAIN s.tools)
      BY <2>1, ToolMapIs
    <3>2. Cardinality(DOMAIN s.tools) \in Nat
      BY <3>1, FS_CardinalityType
    <3> QED BY <3>2
  <2>3. call.index \in Int
    BY OpenAIAssumption
  <2>4. args \in Seq(Brace)
    BY OpenAIAssumption DEF Brace
  <2>5. call.name = None \/ call.name \in Seq(STRING)
    BY OpenAIAssumption
  <2> QED BY <2>2, <2>3, <2>4, <2>5
<1>3. Good(c, s0) /\ HandledAt(s0.tools, i)
  <2>1. Good(c, s0) /\ s0.tools = s.tools
    BY CloseContentGood
  <2> HIDE DEF s0, i
  <2> QED BY <2>1 DEF HandledAt, AllSettled, Settled
<1> HIDE DEF s0, i, args, end
<1>4. Good(c, known) /\ HandledAt(known.tools, i)
  BY <1>2, <1>3, RegisteredGood
<1> HIDE DEF known
<1>5. Good(c, t) /\ HandledAt(t.tools, i)
  <2>1. CASE i \in DOMAIN known.tools \/ args = <<>>
    BY <1>4, <2>1
  <2>2. CASE ~(i \in DOMAIN known.tools \/ args = <<>>)
    <3>1. <<>> \in Seq(STRING)
      OBVIOUS
    <3>2. LET w == [known EXCEPT !.tools = Assign(@, i, NewTool(<<>>))]
          IN Good(c, w) /\ HandledAt(w.tools, i)
      BY <1>2, <1>4, <2>2, <3>1, AddToolGood
    <3> QED BY <2>2, <3>2
  <2> QED BY <2>1, <2>2
<1> HIDE DEF t
<1>6. CASE i \notin DOMAIN t.tools
  <2>1. AllSettled(t.tools)
    BY <1>5, <1>6 DEF HandledAt, AllSettled
  <2> QED BY <1>1, <1>5, <1>6, <2>1 DEF end
<1>7. CASE i \in DOMAIN t.tools
  <2>1. t.tools \in ToolMap
    BY <1>5 DEF Good, Builder
  <2>2. x \in Tool /\ Handled(x)
    BY <1>5, <1>7, <2>1, ToolMapIs DEF HandledAt
  <2>3. /\ v \in Tool /\ v.got = x.got \o args /\ v.block = x.block
        /\ v.started = x.started /\ v.name = x.name /\ v.whole = x.whole
        /\ v.buffer = x.buffer /\ v.emitted = x.emitted /\ v.contents = x.contents
        /\ v.pre = x.pre
    <3> DEFINE got == x.got \o args
    <3>1. got \in Seq(Brace)
      <4>1. x.got \in Seq(Brace)
        BY <2>2 DEF Tool
      <4> QED BY <1>2, <4>1, ConcatParts
    <3> HIDE DEF x, got
    <3>2. LET w == [x EXCEPT !.got = got]
          IN /\ w \in Tool /\ w.got = got /\ w.block = x.block
             /\ w.started = x.started /\ w.name = x.name /\ w.whole = x.whole
             /\ w.buffer = x.buffer /\ w.emitted = x.emitted /\ w.contents = x.contents
             /\ w.pre = x.pre
      BY <2>2, <3>1 DEF Tool
    <3> QED BY <3>2 DEF got
  <2> HIDE DEF v
  <2>4. /\ Good(c, u) /\ Only(t, u, i) /\ u.tools[i] = v
        /\ StartedTools(u) = StartedTools(t) /\ DOMAIN u.tools = DOMAIN t.tools
    BY <1>5, <1>7, <2>3, SetAtGood DEF x
  <2>5. x.pre \in Seq(Brace) /\ x.got \in Seq(Brace)
    BY <2>2 DEF Tool
  <2> HIDE DEF x, u
  \* Every other tool is settled, and stays as it is.
  <2>6. \A w : Only(u, w, i) /\ Settled(w.tools[i]) => AllSettled(w.tools)
    <3> SUFFICES ASSUME NEW w, Only(u, w, i), Settled(w.tools[i]) PROVE AllSettled(w.tools)
      OBVIOUS
    <3>1. \A j \in DOMAIN w.tools : j # i => w.tools[j] = t.tools[j] /\ j \in DOMAIN t.tools
      BY <2>4 DEF Only
    <3> QED BY <1>5, <3>1 DEF HandledAt, AllSettled
  <2>7. CASE x.started
    <3>1. i \in StartedTools(u)
      BY <1>7, <2>3, <2>4, <2>7 DEF StartedTools
    <3> DEFINE w == EmitArgs(u, i, args)
               y == w.tools[i]
    <3>2. /\ Good(c, w) /\ Only(u, w, i) /\ Kept(v, y)
          /\ \A g \in Seq(Brace) : Delivered(v, g) => Delivered(y, g \o args)
      BY <1>2, <2>4, <3>1, EmitArgsGood
    <3>3. end = w
      BY <1>1, <1>7, <2>3, <2>4, <2>7
    <3> HIDE DEF w, y
    <3>4. x.name # <<>> /\ (x.whole => Delivered(x, x.got))
      BY <2>2, <2>7 DEF Handled
    <3>5. x.whole => Delivered(v, x.got)
      BY <2>3, <3>4 DEF Delivered
    <3>6. Settled(y)
      BY <2>3, <2>5, <2>7, <3>2, <3>4, <3>5 DEF Settled, Handled, Kept
    <3>7. AllSettled(w.tools)
      BY <2>6, <3>2, <3>6 DEF y
    <3> QED BY <3>2, <3>3, <3>7 DEF end
  <2>8. CASE ~x.started
    <3>1. Waiting(x)
      BY <2>2, <2>8 DEF Handled
    <3>2. CASE x.name = <<>>
      <4> DEFINE pre == v.pre \o args
                 y == [v EXCEPT !.pre = pre]
                 w == SetAt(u, i, y)
      <4>1. end = w
        <5>1. BeforeName(u, i, args) = w
          BY <2>4 DEF BeforeName, SetAt
        <5> QED BY <1>1, <1>7, <2>3, <2>4, <2>8, <3>2, <5>1
      <4>2. pre \in Seq(Brace) /\ pre = v.got
        <5>1. pre = x.got \o args
          BY <2>3, <3>1 DEF Waiting
        <5> QED BY <1>2, <2>3, <2>5, <5>1, ConcatParts
      <4> HIDE DEF pre
      <4>3. /\ y \in Tool /\ y.pre = pre /\ y.got = v.got /\ y.block = v.block
            /\ y.started = v.started /\ y.name = v.name /\ y.contents = v.contents
            /\ y.buffer = v.buffer /\ y.emitted = v.emitted
        BY <2>3, <4>2 DEF Tool
      <4> HIDE DEF y
      <4>4. i \in DOMAIN u.tools /\ y.block = u.tools[i].block /\ y.started = u.tools[i].started
        BY <1>7, <2>4, <4>3
      <4>5. Good(c, w) /\ Only(u, w, i) /\ w.tools[i] = y
        BY <2>4, <4>3, <4>4, SetAtGood
      <4> HIDE DEF w
      <4>6. Settled(y)
        BY <2>3, <2>8, <3>1, <3>2, <4>2, <4>3 DEF Settled, Handled, Waiting
      <4>7. AllSettled(w.tools)
        BY <2>6, <4>5, <4>6
      <4> QED BY <4>1, <4>5, <4>7 DEF end
    <3>3. CASE x.name # <<>>
      <4> DEFINE a == StartTool(u, i)
                 z == a.tools[i]
                 y == [z EXCEPT !.pre = <<>>]
                 b == SetAt(a, i, y)
                 d == EmitArgs(b, i, v.pre)
                 e == EmitArgs(d, i, args)
      <4>1. end = e
        <5>1. end = EmitArgs(EmitArgs([StartTool(u, i) EXCEPT !.tools[i].pre = <<>>], i, v.pre),
                             i, args)
          BY <1>1, <1>7, <2>3, <2>4, <2>8, <3>3
        <5>2. [StartTool(u, i) EXCEPT !.tools[i].pre = <<>>] = b
          BY DEF SetAt
        <5> QED BY <5>1, <5>2
      <4>2. Good(c, a) /\ Only(u, a, i) /\ z = Opened(v, u.next) /\ i \in StartedTools(a)
        <5>1. i \in DOMAIN u.tools /\ ~u.tools[i].started
          BY <1>7, <2>3, <2>4, <2>8
        <5> QED BY <2>4, <5>1, StartToolGood
      <4> HIDE DEF a
      <4>3. u.next \in Int
        BY <2>4 DEF Good, Builder
      <4>4. /\ z \in Tool /\ z.started = TRUE /\ z.got = v.got /\ z.name = v.name
            /\ z.contents = v.contents /\ z.buffer = v.buffer /\ z.emitted = v.emitted
        <5> DEFINE n == u.next
        <5>1. n \in Int /\ z = [v EXCEPT !.block = n, !.started = TRUE]
          BY <4>2, <4>3 DEF Opened
        <5> HIDE DEF z, n
        <5> QED BY <2>3, <5>1 DEF Tool
      <4> HIDE DEF z
      <4>5. /\ y \in Tool /\ y.started = z.started /\ y.got = z.got /\ y.name = z.name
            /\ y.contents = z.contents /\ y.buffer = z.buffer /\ y.emitted = z.emitted
            /\ y.block = z.block
        <5>1. <<>> \in Seq(Brace)
          OBVIOUS
        <5> QED BY <4>4, <5>1 DEF Tool
      <4> HIDE DEF y
      <4>6. /\ Good(c, b) /\ Only(a, b, i) /\ b.tools[i] = y /\ i \in StartedTools(b)
        <5>1. i \in DOMAIN a.tools /\ y.block = a.tools[i].block /\ y.started = a.tools[i].started
          BY <4>2, <4>5 DEF StartedTools, z
        <5>2. /\ Good(c, b) /\ Only(a, b, i) /\ b.tools[i] = y
              /\ StartedTools(b) = StartedTools(a)
          BY <4>2, <4>5, <5>1, SetAtGood
        <5> QED BY <4>2, <5>2
      <4> HIDE DEF b
      <4>7. v.pre \in Seq(Brace) /\ v.pre = x.got
        BY <2>3, <2>5, <3>1 DEF Waiting
      <4>8. /\ Good(c, d) /\ Only(b, d, i) /\ Kept(y, d.tools[i])
            /\ \A g \in Seq(Brace) : Delivered(y, g) => Delivered(d.tools[i], g \o v.pre)
        BY <4>6, <4>7, EmitArgsGood
      <4> HIDE DEF d
      <4>9. i \in StartedTools(d)
        BY <4>5, <4>4, <4>8 DEF Only, StartedTools, Kept
      <4>10. /\ Good(c, e) /\ Only(d, e, i) /\ Kept(d.tools[i], e.tools[i])
             /\ \A g \in Seq(Brace) : Delivered(d.tools[i], g) => Delivered(e.tools[i], g \o args)
        BY <1>2, <4>8, <4>9, EmitArgsGood
      <4> HIDE DEF e
      <4>11. Delivered(y, <<>>)
        <5>1. y.contents = <<>> /\ y.buffer = <<>> /\ ~y.emitted
          BY <2>3, <3>1, <4>4, <4>5 DEF Waiting
        <5> QED BY <5>1 DEF Delivered
      <4>12. Delivered(d.tools[i], x.got)
        <5>1. <<>> \in Seq(Brace) /\ <<>> \o v.pre = v.pre
          BY <4>7
        <5>2. Delivered(d.tools[i], <<>> \o v.pre)
          BY <4>8, <4>11, <5>1
        <5> QED BY <4>7, <5>1, <5>2
      <4>13. Delivered(e.tools[i], v.got)
        BY <2>3, <2>5, <4>10, <4>12
      <4>14. Settled(e.tools[i])
        <5>1. e.tools[i].name = x.name /\ e.tools[i].got = v.got /\ e.tools[i].started
          BY <2>3, <4>4, <4>5, <4>8, <4>10 DEF Kept
        <5> QED BY <3>3, <4>13, <5>1 DEF Settled, Handled
      <4>15. Only(u, e, i)
        BY <4>2, <4>6, <4>8, <4>10 DEF Only
      <4>16. AllSettled(e.tools)
        BY <2>6, <4>14, <4>15
      <4> QED BY <4>1, <4>10, <4>16 DEF end
    <3> QED BY <3>2, <3>3
  <2> QED BY <2>7, <2>8
<1> QED BY <1>6, <1>7
-----------------------------------------------------------------------------
(* The end of a stream.                                                     *)

Flushed(entry) == [entry EXCEPT !.buffer = <<>>, !.emitted = TRUE, !.contents = @ \o Json]
Late(s) == {i \in DOMAIN s.tools : s.tools[i].buffer # <<>> /\ ~s.tools[i].emitted}

LEMMA FlushedIs ==
  ASSUME NEW x \in Tool, Settled(x), x.buffer # <<>>, ~x.emitted
  PROVE  LET y == Flushed(x)
         IN y \in Tool /\ y.block = x.block /\ y.started = x.started /\ Settled(y) /\ x.started
<1> DEFINE sum == x.contents \o Json
           y == Flushed(x)
<1>1. x.started /\ x.name # <<>> /\ (x.whole => Delivered(x, x.got))
  BY DEF Settled, Handled, Waiting
<1>2. sum \in Seq(Brace) /\ <<>> \in Seq(Brace) /\ x.contents \in Seq(Brace)
  <2>1. x.contents \in Seq(Brace)
    BY DEF Tool
  <2> QED BY <2>1, Braces, ConcatParts
<1>3. y = [x EXCEPT !.buffer = <<>>, !.emitted = TRUE, !.contents = sum]
  BY DEF Flushed
<1> HIDE DEF sum, y
<1>4. /\ y \in Tool /\ y.block = x.block /\ y.started = x.started /\ y.name = x.name
      /\ y.whole = x.whole /\ y.got = x.got /\ y.emitted = TRUE /\ y.contents = sum
  BY <1>2, <1>3 DEF Tool
<1>5. x.whole => Delivered(y, y.got)
  <2> SUFFICES ASSUME x.whole PROVE Delivered(y, y.got)
    OBVIOUS
  <2>1. x.name = Task /\ x.contents = <<>> /\ x.buffer = x.got
    BY <1>1 DEF Delivered
  <2>2. x.got \in Seq(Brace)
    BY DEF Tool
  <2>3. Len(x.got) > 0
    BY <2>1, <2>2
  <2>4. <<>> \o Json = Json
    BY Braces
  <2>5. y.contents = Json
    BY <1>4, <2>1, <2>4 DEF sum
  <2> QED BY <1>4, <2>1, <2>3, <2>5 DEF Delivered
<1>6. Settled(y)
  BY <1>1, <1>4, <1>5 DEF Settled, Handled
<1> QED BY <1>1, <1>4, <1>6 DEF y

\* _flush_task_arg_buffers.
LEMMA FlushTasksGood ==
  ASSUME NEW c \in Client, NEW s, Good(c, s), AllSettled(s.tools)
  PROVE  LET t == FlushTasks(s) IN Good(c, t) /\ AllSettled(t.tools) /\ t.next = s.next
<1> DEFINE late == Late(s)
           order == SetToSeq(late)
           U == [i \in DOMAIN s.tools |-> IF i \in late THEN Flushed(s.tools[i]) ELSE s.tools[i]]
           r == [s EXCEPT !.tools = U]
           q == [k \in 1..Len(order) |-> s.tools[order[k]].block]
           more == [k \in DOMAIN order |-> BlockDelta(s.tools[order[k]].block, "tool_use")]
           t == FlushTasks(s)
<1>1. t = Put(r, more)
  BY DEF FlushTasks, Late, Flushed
<1>2. s \in Builder /\ Layout(s) /\ Sees(Read(c, s.out), OpenBlocks(s), s.next)
  BY DEF Good, Fits
<1>3. s.tools \in ToolMap
  BY <1>2 DEF Builder
<1>4. /\ DOMAIN s.tools \subseteq Int /\ IsFiniteSet(DOMAIN s.tools)
      /\ \A i \in DOMAIN s.tools : s.tools[i] \in Tool /\ Settled(s.tools[i])
  <2>1. /\ DOMAIN s.tools \subseteq Int /\ IsFiniteSet(DOMAIN s.tools)
        /\ \A i \in DOMAIN s.tools : s.tools[i] \in Tool
    BY <1>3, ToolMapIs
  <2> QED BY <2>1 DEF AllSettled
<1>5. late \subseteq DOMAIN s.tools /\ IsFiniteSet(late)
  <2>1. late \subseteq DOMAIN s.tools
    BY DEF Late
  <2> QED BY <1>4, <2>1, FS_Subset
<1>6. \A i \in late : LET y == Flushed(s.tools[i])
                      IN /\ y \in Tool /\ y.block = s.tools[i].block
                         /\ y.started = s.tools[i].started /\ Settled(y) /\ s.tools[i].started
  <2> SUFFICES ASSUME NEW i \in late
               PROVE  LET y == Flushed(s.tools[i])
                      IN /\ y \in Tool /\ y.block = s.tools[i].block
                         /\ y.started = s.tools[i].started /\ Settled(y) /\ s.tools[i].started
    OBVIOUS
  <2> DEFINE x == s.tools[i]
  <2>1. x \in Tool /\ Settled(x) /\ x.buffer # <<>> /\ ~x.emitted
    BY <1>4 DEF Late
  <2> HIDE DEF x, late
  <2>2. LET y == Flushed(x)
        IN y \in Tool /\ y.block = x.block /\ y.started = x.started /\ Settled(y) /\ x.started
    BY <2>1, FlushedIs
  <2> QED BY <2>2 DEF x
<1> HIDE DEF late, t
<1>7. /\ order \in Seq(late) /\ DOMAIN order = 1..Len(order)
  BY <1>5, InOrder
<1> HIDE DEF order
<1>8. /\ U \in [DOMAIN s.tools -> Tool]
      /\ \A i \in DOMAIN s.tools : /\ U[i].block = s.tools[i].block
                                   /\ U[i].started = s.tools[i].started /\ Settled(U[i])
  BY <1>4, <1>6
<1>9. U \in ToolMap
  <2> DEFINE D == DOMAIN s.tools
  <2>1. D \in SUBSET Int /\ IsFiniteSet(D) /\ U \in [D -> Tool]
    BY <1>4, <1>8
  <2> HIDE DEF D, U
  <2> QED BY <2>1 DEF ToolMap, Map
<1>10. DOMAIN U = DOMAIN s.tools
  OBVIOUS
<1> HIDE DEF U
<1>11. /\ r \in Builder /\ r.next = s.next /\ r.at = s.at /\ r.started = s.started
       /\ r.tools = U /\ r.out = s.out
  BY <1>2, <1>9 DEF Builder
<1> HIDE DEF r
<1>12. StartedTools(r) = StartedTools(s)
  BY <1>8, <1>10, <1>11 DEF StartedTools
<1>13. \A i \in StartedTools(s) : r.tools[i].block = s.tools[i].block
  BY <1>8, <1>11 DEF StartedTools
<1>14. OpenBlocks(r) = OpenBlocks(s)
  BY <1>11, <1>12, <1>13 DEF OpenBlocks, TextBlocks, ToolBlocks
<1>15. Layout(r)
  BY <1>2, <1>11, <1>12, <1>13 DEF Layout, TextLayout, ToolLayout
<1>16. AllSettled(r.tools)
  BY <1>8, <1>10, <1>11 DEF AllSettled
<1>17. /\ Len(order) \in Nat
       /\ \A k \in 1..Len(order) : order[k] \in late /\ order[k] \in StartedTools(s)
                                   /\ s.tools[order[k]].block \in Int
  <2>1. Len(order) \in Nat /\ \A k \in 1..Len(order) : order[k] \in late
    BY <1>7
  <2>2. \A i \in late : i \in StartedTools(s) /\ s.tools[i] \in Tool
    BY <1>4, <1>5, <1>6 DEF StartedTools
  <2>3. \A i \in late : s.tools[i].block \in Int
    BY <2>2 DEF Tool
  <2> QED BY <2>1, <2>2, <2>3
<1>18. q \in Seq(Int) /\ Len(q) = Len(order) /\ \A k \in 1..Len(q) : q[k] = s.tools[order[k]].block
  BY <1>17
<1>19. more = Deltas(q, "tool_use")
  BY <1>7, <1>18 DEF Deltas
<1> HIDE DEF q, more
<1>20. \A k \in 1..Len(q) : <<q[k], "tool_use">> \in OpenBlocks(s)
  BY <1>17, <1>18 DEF OpenBlocks, ToolBlocks
<1>21. "tool_use" \in BlockKinds
  BY DEF BlockKinds
<1>22. more \in Seq(StreamEvent) /\ Sees(Read(Read(c, s.out), more), OpenBlocks(s), s.next)
  BY <1>2, <1>18, <1>19, <1>20, <1>21, SeesDeltas
<1>23. t \in Builder /\ Alike(r, t) /\ Read(c, t.out) = Read(Read(c, r.out), more)
  BY <1>1, <1>11, <1>22, PutReads DEF Alike
<1>24. Layout(t) /\ OpenBlocks(t) = OpenBlocks(r) /\ t.next = r.next /\ t.tools = r.tools
  BY <1>15, <1>23, AlikeLayout DEF Alike
<1>25. Good(c, t)
  BY <1>11, <1>14, <1>22, <1>23, <1>24 DEF Good, Fits
<1> QED BY <1>11, <1>16, <1>24, <1>25 DEF t

\* close_all_blocks.
LEMMA CloseAllGood ==
  ASSUME NEW c \in Client, NEW s, Good(c, s)
  PROVE  LET t == CloseAll(s)
         IN /\ t \in Builder /\ Sees(Read(c, t.out), {}, s.next)
            /\ t.next = s.next /\ t.tools = s.tools
<1> DEFINE open == StartedTools(s)
           order == SetToSeq(open)
           r == CloseContent(s)
           q == [k \in 1..Len(order) |-> s.tools[order[k]].block]
           more == [k \in DOMAIN order |-> BlockStop(s.tools[order[k]].block)]
           t == CloseAll(s)
<1>1. t = Put(r, more)
  BY DEF CloseAll
<1>2. Good(c, r) /\ r.started = {} /\ r.next = s.next /\ r.tools = s.tools
  BY CloseContentGood
<1> HIDE DEF r, t
<1>3. r \in Builder /\ Layout(r) /\ Sees(Read(c, r.out), OpenBlocks(r), s.next)
  BY <1>2 DEF Good, Fits
<1>4. s.tools \in ToolMap
  BY DEF Good, Builder
<1>5. /\ DOMAIN s.tools \subseteq Int /\ IsFiniteSet(DOMAIN s.tools)
      /\ \A i \in DOMAIN s.tools : s.tools[i] \in Tool
  BY <1>4, ToolMapIs
<1>6. open \subseteq DOMAIN s.tools /\ IsFiniteSet(open) /\ \A i \in open : s.tools[i].block \in Int
  <2>1. open \subseteq DOMAIN s.tools
    BY DEF StartedTools
  <2>2. \A i \in open : s.tools[i] \in Tool
    BY <1>5, <2>1
  <2> QED BY <1>5, <2>1, <2>2, FS_Subset DEF Tool
<1>7. StartedTools(r) = open
  BY <1>2 DEF StartedTools
<1> HIDE DEF open
<1>8. /\ order \in Seq(open) /\ DOMAIN order = 1..Len(order)
      /\ Distinct(order) /\ Elements(order) = open
  BY <1>6, InOrder
<1> HIDE DEF order
<1>9. Len(order) \in Nat /\ \A k \in 1..Len(order) : order[k] \in open /\ s.tools[order[k]].block \in Int
  BY <1>6, <1>8
<1>10. q \in Seq(Int) /\ Len(q) = Len(order) /\ \A k \in 1..Len(q) : q[k] = s.tools[order[k]].block
  BY <1>9
<1>11. more = Stops(q)
  BY <1>8, <1>10 DEF Stops
<1> HIDE DEF q, more
<1>12. OpenBlocks(r) = {<<s.tools[i].block, "tool_use">> : i \in open}
  BY <1>2, <1>7 DEF OpenBlocks, TextBlocks, ToolBlocks
<1>13. Distinct(q)
  <2> SUFFICES ASSUME NEW j \in 1..Len(q), NEW k \in 1..Len(q), q[j] = q[k] PROVE j = k
    BY DEF Distinct
  <2>1. order[j] \in open /\ order[k] \in open
        /\ s.tools[order[j]].block = s.tools[order[k]].block
    BY <1>9, <1>10
  <2>2. order[j] = order[k]
    BY <1>2, <1>3, <1>7, <2>1 DEF Layout, ToolLayout
  <2> QED BY <1>8, <1>10, <2>2 DEF Distinct
<1>14. \A k \in 1..Len(q) : \E b \in OpenBlocks(r) : b[1] = q[k]
  <2> SUFFICES ASSUME NEW k \in 1..Len(q) PROVE \E b \in OpenBlocks(r) : b[1] = q[k]
    OBVIOUS
  <2> DEFINE b == <<q[k], "tool_use">>
  <2>1. b \in OpenBlocks(r)
    BY <1>9, <1>10, <1>12
  <2>2. b[1] = q[k]
    OBVIOUS
  <2> HIDE DEF b
  <2> QED BY <2>1, <2>2
<1>15. more \in Seq(StreamEvent)
       /\ Sees(Read(Read(c, r.out), more), ButAll(OpenBlocks(r), q, Len(q)), s.next)
  BY <1>3, <1>10, <1>11, <1>13, <1>14, SeesStops
<1>16. ButAll(OpenBlocks(r), q, Len(q)) = {}
  <2> SUFFICES ASSUME NEW b \in ButAll(OpenBlocks(r), q, Len(q)) PROVE FALSE
    OBVIOUS
  <2>1. b \in OpenBlocks(r) /\ \A j \in 1..Len(q) : b[1] # q[j]
    BY DEF ButAll
  <2>2. PICK i \in open : b = <<s.tools[i].block, "tool_use">>
    BY <1>12, <2>1
  <2>3. PICK k \in 1..Len(order) : order[k] = i
    BY <1>8 DEF Elements
  <2>4. q[k] = s.tools[i].block /\ k \in 1..Len(q)
    BY <1>10, <2>3
  <2>5. b[1] = s.tools[i].block
    BY <2>2
  <2> QED BY <2>1, <2>4, <2>5
<1>17. t \in Builder /\ t.next = r.next /\ t.tools = r.tools
       /\ Read(c, t.out) = Read(Read(c, r.out), more)
  BY <1>1, <1>3, <1>15, PutReads
<1> QED BY <1>2, <1>15, <1>16, <1>17 DEF t

LEMMA EndingIs == Ending \in Seq(StreamEvent) /\ Event("error") \in StreamEvent
<1>1. /\ Event("message_delta") \in StreamEvent /\ Event("message_stop") \in StreamEvent
      /\ Event("error") \in StreamEvent
  BY DEF StreamEvent, PlainNames
<1> DEFINE a == Event("message_delta")
           b == Event("message_stop")
<1> HIDE DEF a, b
<1>2. a \in StreamEvent /\ b \in StreamEvent
  BY <1>1 DEF a, b
<1>3. <<a, b>> \in Seq(StreamEvent)
  BY <1>2
<1> QED BY <1>1, <1>3 DEF Ending, a, b

Cleared(s) == [s EXCEPT !.out = <<>>]

\* The client reads what the step has built.
LEMMA ClearedGood ==
  ASSUME NEW c \in Client, NEW s, Good(c, s)
  PROVE  LET d == Read(c, s.out \o <<>>)
             t == Cleared(s)
         IN d \in Client /\ Good(d, t) /\ t.tools = s.tools
<1> DEFINE d == Read(c, s.out \o <<>>)
           t == Cleared(s)
<1>1. s \in Builder /\ Layout(s) /\ Sees(Read(c, s.out), OpenBlocks(s), s.next)
  BY DEF Good, Fits
<1>2. s.out \in Seq(StreamEvent) /\ <<>> \in Seq(StreamEvent)
  BY <1>1 DEF Builder
<1>3. d = Read(c, s.out) /\ d \in Client
  <2>1. s.out \o <<>> = s.out
    BY <1>2
  <2> QED BY <1>2, <2>1, ReadSplit
<1>4. t \in Builder /\ Alike(s, t) /\ t.out = <<>>
  BY <1>1, <1>2 DEF Builder, Cleared, Alike
<1> HIDE DEF d, t
<1>5. Layout(t) /\ OpenBlocks(t) = OpenBlocks(s) /\ t.next = s.next /\ t.tools = s.tools
  BY <1>1, <1>4, AlikeLayout DEF Alike
<1>6. Read(d, <<>>) = d
  <2>1. Event("error") \in StreamEvent
    BY DEF StreamEvent, PlainNames
  <2> QED BY <1>3, <2>1, ReadShort
<1>7. Good(d, t)
  BY <1>1, <1>3, <1>4, <1>5, <1>6 DEF Good, Fits
<1> QED BY <1>3, <1>5, <1>7 DEF d, t

LEMMA FlushThinkGood ==
  ASSUME NEW c \in Client, NEW s, Good(c, s)
  PROVE  LET t == FlushThink(s) IN Good(c, t) /\ t.tools = s.tools
<1>1. "thinking" \in Spoke /\ "text" \in Spoke
  BY DEF Spoke
<1>2. CASE think.buf = <<>> \/ (think.in /\ ~enabled)
  BY <1>2 DEF FlushThink
<1>3. CASE ~(think.buf = <<>> \/ (think.in /\ ~enabled))
  <2> DEFINE kind == IF think.in THEN "thinking" ELSE "text"
  <2>1. FlushThink(s) = Say(s, kind) /\ kind \in Spoke
    BY <1>1, <1>3 DEF FlushThink
  <2> HIDE DEF kind
  <2> QED BY <2>1, SayGood
<1> QED BY <1>2, <1>3

\* A stream that ends has had a block.
LEMMA BlankGood ==
  ASSUME NEW c \in Client, NEW s, Good(c, s)
  PROVE  LET t == Blank(s) IN Good(c, t) /\ t.tools = s.tools /\ t.next # 0
<1> DEFINE empty == s.at.text = -1 /\ s.at.thinking = -1 /\ StartedTools(s) = {}
           mute == StartedTools(s) = {} /\ s.spoken = {"thinking"}
<1>1. "thinking" \in Spoke /\ "text" \in Spoke
  BY DEF Spoke
<1>2. CASE empty \/ mute
  <2> DEFINE t == Say(s, "text")
  <2>1. Blank(s) = t
    BY <1>2 DEF Blank
  <2>2. Good(c, t) /\ "text" \in t.started /\ t.tools = s.tools
    BY <1>1, SayGood
  <2> HIDE DEF t
  <2>3. /\ t.next \in Nat /\ t.at["text"] \in Int
        /\ t.at["text"] >= 0 /\ t.at["text"] < t.next
    BY <1>1, <2>2 DEF Good, Fits, Layout, TextLayout, Builder
  <2> QED BY <2>1, <2>2, <2>3
<1>3. CASE ~(empty \/ mute)
  <2>1. Blank(s) = s
    BY <1>3 DEF Blank
  <2>2. s \in Builder /\ Layout(s)
    BY DEF Good, Fits
  <2>3. /\ s.next \in Nat
        /\ \A k \in Spoke : s.at[k] \in Int /\ s.at[k] >= -1 /\ s.at[k] < s.next
        /\ \A i \in StartedTools(s) : s.tools[i].block \in 0 .. s.next - 1
    BY <2>2 DEF Layout, TextLayout, ToolLayout, Builder
  <2>4. s.next # 0
    <3>1. CASE s.at.text # -1
      BY <1>1, <2>3, <3>1
    <3>2. CASE s.at.thinking # -1
      BY <1>1, <2>3, <3>2
    <3>3. CASE StartedTools(s) # {}
      <4>1. PICK i \in StartedTools(s) : TRUE
        BY <3>3
      <4>2. s.tools[i].block \in 0 .. s.next - 1
        BY <2>3, <4>1
      <4> QED BY <2>3, <4>2
    <3> QED BY <1>3, <3>1, <3>2, <3>3
  <2> QED BY <2>1, <2>4
<1> QED BY <1>2, <1>3

LEMMA FinishGood ==
  ASSUME NEW c \in Client, NEW s, Good(c, s), AllSettled(s.tools)
  PROVE  LET t == Closing(s)
         IN Accepts(Read(c, t.out \o Ending)) /\ AllSettled(t.tools)
<1> DEFINE f == FlushThink(s)
           n == HeuristicFlush(f.heur)
           h == HeuristicTools(f, n)
           b == Blank(h)
           u == FlushTasks(b)
           t == CloseAll(u)
<1>1. Closing(s) = t
  BY DEF Closing
<1>2. n \in Nat
  BY DEF HeuristicFlush
<1>3. Good(c, f) /\ f.tools = s.tools
  BY FlushThinkGood
<1> HIDE DEF f, n
<1>4. Good(c, h) /\ h.tools = f.tools
  BY <1>2, <1>3, HeuristicToolsGood
<1> HIDE DEF h
<1>5. Good(c, b) /\ b.tools = h.tools /\ b.next # 0
  BY <1>4, BlankGood
<1> HIDE DEF b
<1>6. AllSettled(b.tools)
  BY <1>3, <1>4, <1>5
<1>7. Good(c, u) /\ AllSettled(u.tools) /\ u.next = b.next
  BY <1>5, <1>6, FlushTasksGood
<1> HIDE DEF u
<1>8. t \in Builder /\ Sees(Read(c, t.out), {}, u.next) /\ t.tools = u.tools
  BY <1>7, CloseAllGood
<1> HIDE DEF t
<1>9. t.out \in Seq(StreamEvent) /\ Ending \in Seq(StreamEvent) /\ u.next \in Nat
  <2>1. t.out \in Seq(StreamEvent) /\ u.next \in Nat
    BY <1>7, <1>8 DEF Builder, Good
  <2> QED BY <2>1, EndingIs
<1>10. Read(c, t.out \o Ending) = Read(Read(c, t.out), Ending)
  BY <1>9, ReadSplit
<1>11. Accepts(Read(Read(c, t.out), Ending))
  <2> DEFINE m == Read(c, t.out)
  <2>1. Sees(m, {}, u.next) /\ u.next # 0 /\ u.next \in Nat
    BY <1>5, <1>7, <1>8, <1>9
  <2> HIDE DEF m
  <2>2. Accepts(Read(m, Ending))
    BY <2>1, SeesEnd
  <2> QED BY <2>2 DEF m
<1>12. AllSettled(t.tools)
  BY <1>7, <1>8
<1> QED BY <1>1, <1>10, <1>11, <1>12

LEMMA ReadTail ==
  ASSUME NEW c \in Client, NEW out \in Seq(StreamEvent), NEW x \in Seq(StreamEvent)
  PROVE  Read(c, out \o (x \o Ending)) = Read(Read(Read(c, out), x), Ending)
<1>1. x \o Ending \in Seq(StreamEvent) /\ Ending \in Seq(StreamEvent)
  BY EndingIs, ConcatParts
<1>2. Read(c, out \o (x \o Ending)) = Read(Read(c, out), x \o Ending) /\ Read(c, out) \in Client
  BY <1>1, ReadSplit
<1> DEFINE d == Read(c, out)
<1>3. d \in Client
  BY <1>2
<1> HIDE DEF d
<1>4. Read(d, x \o Ending) = Read(Read(d, x), Ending)
  BY <1>1, <1>3, ReadSplit
<1> QED BY <1>2, <1>4 DEF d

\* A stream that fails is closed, told so, and ended.
LEMMA FailGood ==
  ASSUME NEW c \in Client, NEW s, Good(c, s)
  PROVE  LET t == CloseAll(s)
         IN /\ StartedTools(t) # {} => Accepts(Read(c, t.out \o (<<Event("error")>> \o Ending)))
            /\ Accepts(Read(c, t.out \o (ErrorBlock(t.next) \o Ending)))
            /\ t.tools = s.tools
            /\ t \in Builder
<1> DEFINE t == CloseAll(s)
           d == Read(c, t.out)
           n == t.next
           x == <<Event("error")>>
           y == ErrorBlock(n)
<1>1. t \in Builder /\ Sees(d, {}, n) /\ n = s.next /\ t.tools = s.tools
  <2>1. t \in Builder /\ Sees(Read(c, t.out), {}, s.next) /\ t.next = s.next /\ t.tools = s.tools
    BY CloseAllGood
  <2> HIDE DEF t
  <2> QED BY <2>1
<1>2. /\ s \in Builder /\ s.next \in Nat
      /\ \A i \in StartedTools(s) : s.tools[i].block \in 0 .. s.next - 1
  BY DEF Good, Fits, Layout, ToolLayout, Builder
<1> HIDE DEF t
<1>3. t.out \in Seq(StreamEvent) /\ StartedTools(t) = StartedTools(s) /\ n \in Nat
  BY <1>1, <1>2 DEF Builder, StartedTools
<1>4. x \in Seq(StreamEvent)
  <2> DEFINE e == Event("error")
  <2>1. e \in StreamEvent
    BY EndingIs
  <2> HIDE DEF e
  <2> QED BY <2>1 DEF e
<1>5. y = Whole(n, "text") /\ "text" \in BlockKinds /\ Below({}, n)
  BY DEF ErrorBlock, Whole, BlockKinds, Below
<1>6. Read(c, t.out \o (x \o Ending)) = Read(Read(d, x), Ending)
  <2> HIDE DEF x
  <2> QED BY <1>3, <1>4, ReadTail
<1> HIDE DEF d, n, y
<1>7. y \in Seq(StreamEvent) /\ Sees(Read(d, y), {}, n + 1)
  BY <1>1, <1>3, <1>5, SeesWhole
<1>8. Read(c, t.out \o (y \o Ending)) = Read(Read(d, y), Ending)
  BY <1>3, <1>7, ReadTail DEF d
<1>9. Accepts(Read(Read(d, y), Ending))
  <2> DEFINE m == Read(d, y)
  <2>1. Sees(m, {}, n + 1) /\ n + 1 \in Nat /\ n + 1 # 0
    BY <1>3, <1>7
  <2> HIDE DEF m
  <2>2. Accepts(Read(m, Ending))
    BY <2>1, SeesEnd
  <2> QED BY <2>2 DEF m
<1>10. StartedTools(t) # {} => Accepts(Read(Read(d, x), Ending))
  <2> SUFFICES ASSUME NEW i \in StartedTools(t) PROVE Accepts(Read(Read(d, x), Ending))
    OBVIOUS
  <2>1. n # 0
    <3>1. s.tools[i].block \in 0 .. s.next - 1
      BY <1>2, <1>3
    <3> QED BY <1>1, <1>2, <3>1
  <2> DEFINE m == Read(d, x)
  <2>2. Sees(m, {}, n)
    BY <1>1, SeesPlain DEF PlainNames
  <2> HIDE DEF m
  <2>3. Accepts(Read(m, Ending))
    BY <1>3, <2>1, <2>2, SeesEnd
  <2> QED BY <2>3 DEF m
<1> QED BY <1>1, <1>6, <1>8, <1>9, <1>10 DEF t, y, n

LEMMA NewBuilderGood ==
  LET d == Read(NewClient, <<Event("message_start")>>)
  IN d \in Client /\ Good(d, NewBuilder) /\ AllSettled(NewBuilder.tools)
<1> DEFINE d == Read(NewClient, <<Event("message_start")>>)
           s == NewBuilder
<1>1. Sees(d, {}, 0) /\ d \in Client
  BY SeesBegin DEF Sees
<1> HIDE DEF d
<1>2. Read(d, <<>>) = d
  BY <1>1, EndingIs, ReadShort
<1>3. /\ s.next = 0 /\ s.at = [text |-> -1, thinking |-> -1] /\ s.started = {}
      /\ s.tools = <<>> /\ s.out = <<>> /\ s.heur = NewHeuristic
  BY DEF NewBuilder
<1>4. <<>> \in ToolMap
  <2>1. {} \in SUBSET Int /\ IsFiniteSet({})
    BY FS_EmptySet
  <2>2. <<>> \in [{} -> Tool]
    OBVIOUS
  <2> QED BY <2>1, <2>2 DEF ToolMap, Map
<1>5. NewHeuristic \in Heur
  BY DEF NewHeuristic, Heur
<1>6. [text |-> -1, thinking |-> -1] \in [Spoke -> Int]
  BY DEF Spoke
<1>7. s \in Builder
  <2>1. <<>> \in Seq(StreamEvent) /\ {} \in SUBSET Spoke /\ 0 \in Nat
    OBVIOUS
  <2> QED BY <1>4, <1>5, <1>6, <2>1 DEF NewBuilder, Builder
<1> HIDE DEF s
<1>8. StartedTools(s) = {} /\ OpenBlocks(s) = {}
  BY <1>3 DEF StartedTools, OpenBlocks, TextBlocks, ToolBlocks
<1>9. Layout(s)
  <2>1. \A k \in Spoke : s.at[k] = -1
    BY <1>3 DEF Spoke
  <2> QED BY <1>3, <1>8, <2>1 DEF Layout, TextLayout, ToolLayout
<1>10. Good(d, s)
  BY <1>1, <1>2, <1>3, <1>7, <1>8, <1>9 DEF Good, Fits
<1>11. AllSettled(s.tools)
  BY <1>3 DEF AllSettled
<1> QED BY <1>1, <1>10, <1>11 DEF d, s
-----------------------------------------------------------------------------
(* The OpenAI stream: the client is always in the middle of a good stream,    *)
(* whose open blocks are the builder's, or content with the end of it.        *)

\* A good stream without pending events has no broken client.
LEMMA GoodUnbroken ==
  ASSUME NEW c \in Client, NEW s, Good(c, s), s.out = <<>>
  PROVE  ~c.broken
<1>1. Sees(Read(c, <<>>), OpenBlocks(s), s.next)
  BY DEF Good, Fits
<1>2. Read(c, <<>>) = c
  BY EndingIs, ReadShort
<1> QED BY <1>1, <1>2 DEF Sees

\* A chunk whose handling builds `t` keeps the stream good.
LEMMA SendKeeps ==
  ASSUME OpenAIInv, phase = "streaming", UNCHANGED <<serving, phase>>,
         NEW t, Good(client, t), AllSettled(t.tools), Send(t, <<>>)
  PROVE  OpenAIInv'
<1> DEFINE d == Read(client, t.out \o <<>>)
           u == Cleared(t)
<1>1. client \in Client /\ serving = "openai"
  BY DEF OpenAIInv
<1>2. client' = d /\ sse' = u
  BY DEF Send, Cleared
<1>3. d \in Client /\ Good(d, u) /\ u.tools = t.tools
  BY <1>1, ClearedGood
<1>4. u.out = <<>>
  <2>1. t \in Builder
    BY DEF Good
  <2> QED BY <2>1 DEF Builder, Cleared
<1> HIDE DEF d, u
<1>5. client' \in Client /\ Good(client', sse') /\ sse'.out = <<>> /\ AllSettled(sse'.tools)
  BY <1>2, <1>3, <1>4
<1> QED BY <1>1, <1>5 DEF OpenAIInv

LEMMA StartKeeps ==
  ASSUME OpenAIInv, serving = "openai", UNCHANGED serving, Start
  PROVE  OpenAIInv'
<1>1. client = NewClient /\ sse = NewBuilder
  BY DEF OpenAIInv, Start
<1>2. client' = Read(NewClient, <<Event("message_start")>>) /\ sse' = NewBuilder
      /\ phase' = "streaming"
  BY <1>1 DEF Start
<1>3. client' \in Client /\ Good(client', NewBuilder) /\ AllSettled(NewBuilder.tools)
  BY <1>2, NewBuilderGood
<1>4. NewBuilder.out = <<>>
  BY DEF NewBuilder
<1>5. client' \in Client /\ Good(client', sse') /\ AllSettled(sse'.tools) /\ sse'.out = <<>>
  BY <1>2, <1>3, <1>4
<1> QED BY <1>2, <1>5 DEF OpenAIInv

\* What a chunk of text, reasoning or tool calls does.
LEMMA ChunkKeeps ==
  ASSUME OpenAIInv, ParsedInv, serving = "openai", UNCHANGED serving,
         \/ Reasoning
         \/ \E text \in TextDelta : Content(text)
         \/ \E call \in ToolDelta : ToolCall(call)
  PROVE  OpenAIInv'
<1>1. ASSUME phase = "streaming"
      PROVE  client \in Client /\ Good(client, sse) /\ AllSettled(sse.tools)
  BY <1>1 DEF OpenAIInv
<1>2. CASE Reasoning
  <2> DEFINE t == IF enabled THEN Say(sse, "thinking") ELSE sse
  <2>1. phase = "streaming" /\ phase' = phase /\ Send(t, <<>>)
    BY <1>2 DEF Reasoning, NextChunk
  <2>2. "thinking" \in Spoke
    BY DEF Spoke
  <2>3. Good(client, t) /\ t.tools = sse.tools
    BY <1>1, <2>1, <2>2, SayGood
  <2> HIDE DEF t
  <2>4. AllSettled(t.tools)
    BY <1>1, <2>1, <2>3
  <2> QED BY <2>1, <2>3, <2>4, SendKeeps
<1>3. ASSUME NEW text \in TextDelta, Content(text) PROVE OpenAIInv'
  <2> DEFINE f == ThinkFeed(think, text)
             t == Parts(sse, f.parts)
  <2>1. phase = "streaming" /\ phase' = phase /\ Send(t, <<>>)
    BY <1>3 DEF Content, NextChunk
  <2>2. f.parts \in Seq(Piece)
    <3>1. think \in [buf : Seq(Token), in : BOOLEAN] /\ text \in Seq(Token)
      <4>1. {<<>>, <<"<">>} \subseteq Seq(Token)
        BY DEF Token
      <4>2. text \in Seq(Token)
        BY OpenAIAssumption
      <4> QED BY <4>1, <4>2 DEF ParsedInv
    <3>2. f \in Round1
      BY <3>1, ThinkFeedReads
    <3> HIDE DEF f
    <3> QED BY <3>2 DEF Round1
  <2> HIDE DEF f
  <2>3. Good(client, t) /\ t.tools = sse.tools
    BY <1>1, <2>1, <2>2, PartsGood
  <2> HIDE DEF t
  <2>4. AllSettled(t.tools)
    BY <1>1, <2>1, <2>3
  <2> QED BY <2>1, <2>3, <2>4, SendKeeps
<1>4. ASSUME NEW call \in ToolDelta, ToolCall(call) PROVE OpenAIInv'
  <2> DEFINE t == ProcessToolCall(sse, call)
  <2>1. phase = "streaming" /\ phase' = phase /\ Send(t, <<>>)
    BY <1>4 DEF ToolCall, NextChunk
  <2>2. Good(client, t) /\ AllSettled(t.tools)
    BY <1>1, <2>1, ProcessToolCallGood
  <2> HIDE DEF t
  <2> QED BY <2>1, <2>2, SendKeeps
<1> QED BY <1>2, <1>3, <1>4

\* However the upstream ends, the client is content.
LEMMA EndKeeps ==
  ASSUME OpenAIInv, serving = "openai", UNCHANGED serving, Finish \/ Fail
  PROVE  OpenAIInv'
<1>1. client \in Client /\ Good(client, sse) /\ AllSettled(sse.tools) /\ phase' = "done"
  BY DEF OpenAIInv, Finish, Fail
<1>2. CASE Finish
  <2> DEFINE t == Closing(sse)
  <2>1. Send(t, Ending)
    BY <1>2 DEF Finish, Closing
  <2>2. Accepts(Read(client, t.out \o Ending)) /\ AllSettled(t.tools)
    BY <1>1, FinishGood
  <2> HIDE DEF t
  <2>3. client' = Read(client, t.out \o Ending) /\ sse' = [t EXCEPT !.out = <<>>]
    BY <2>1 DEF Send
  <2>4. AllSettled(sse'.tools)
    BY <2>2, <2>3 DEF AllSettled
  <2>5. Accepts(client')
    BY <2>2, <2>3
  <2> QED BY <1>1, <2>4, <2>5 DEF OpenAIInv
<1>3. CASE Fail
  <2> DEFINE t == CloseAll(sse)
             x == <<Event("error")>> \o Ending
             y == ErrorBlock(t.next) \o Ending
  <2>1. \/ StartedTools(t) # {} /\ Send(t, x)
        \/ Send([t EXCEPT !.next = @ + 1], y)
    BY <1>3 DEF Fail
  <2>2. /\ StartedTools(t) # {} => Accepts(Read(client, t.out \o x))
        /\ Accepts(Read(client, t.out \o y))
        /\ t.tools = sse.tools /\ t \in Builder
    BY <1>1, FailGood
  <2> HIDE DEF t, x, y
  <2>3. CASE StartedTools(t) # {} /\ Send(t, x)
    <3>1. Accepts(client')
      BY <2>2, <2>3 DEF Send
    <3>2. sse'.tools = sse.tools
      BY <2>2, <2>3 DEF Send, Builder
    <3> QED BY <1>1, <3>1, <3>2 DEF OpenAIInv
  <2>4. CASE Send([t EXCEPT !.next = @ + 1], y)
    <3> DEFINE u == [t EXCEPT !.next = @ + 1]
    <3>1. u.out = t.out /\ u.tools = t.tools /\ [u EXCEPT !.out = <<>>].tools = t.tools
      BY <2>2 DEF Builder
    <3> HIDE DEF u
    <3>2. client' = Read(client, u.out \o y) /\ sse' = [u EXCEPT !.out = <<>>]
      BY <2>4 DEF Send, u
    <3>3. Accepts(client') /\ sse'.tools = sse.tools
      BY <2>2, <3>1, <3>2
    <3> QED BY <1>1, <3>3 DEF OpenAIInv
  <2> QED BY <2>1, <2>3, <2>4
<1> QED BY <1>2, <1>3

LEMMA OpenAIStep ==
  ASSUME OpenAIInv, ParsedInv, [Next]_gatewayVars
  PROVE  OpenAIInv'
<1>1. CASE UNCHANGED openaiVars /\ UNCHANGED serving /\ serving # "openai"
  BY <1>1 DEF OpenAIInv, openaiVars
<1>2. CASE UNCHANGED gatewayVars
  BY <1>2 DEF OpenAIInv, gatewayVars, openaiVars
<1>3. CASE serving = "openai" /\ OpenAINext /\ UNCHANGED serving
  <2>1. CASE Cut
    <3>1. phase = "streaming" /\ phase' = "cut" /\ UNCHANGED <<client, sse>>
      BY <2>1 DEF Cut
    <3>2. ~client.broken
      BY <3>1, GoodUnbroken DEF OpenAIInv
    <3> QED BY <1>3, <3>1, <3>2 DEF OpenAIInv
  <2> QED BY <1>3, <2>1, StartKeeps, ChunkKeeps, EndKeeps DEF OpenAINext
<1> QED BY <1>1, <1>2, <1>3 DEF Next

LEMMA OpenAIStarts == ASSUME Init PROVE OpenAIInv
<1>1. AllSettled(NewBuilder.tools)
  BY NewBuilderGood
<1> QED BY <1>1 DEF Init, OpenAIInit, OpenAIInv

\* The inductive invariant of _stream_response_impl and SSEBuilder: every step leaves
\* the client's open blocks those of the builder, each with an index of its own, and
\* each tool call's arguments sent, buffered or waiting for its name.
THEOREM OpenAIInductive == Spec => []OpenAIInv
<1>1. ASSUME Init PROVE OpenAIInv
  BY <1>1, OpenAIStarts
<1>2. ASSUME OpenAIInv, ParsedInv, [Next]_gatewayVars PROVE OpenAIInv'
  BY <1>2, OpenAIStep
<1> QED BY <1>1, <1>2, ParsedInductive, PTL DEF Spec

\* A tool call whose name came at once gets its arguments, whole and in order, however
\* the upstream cuts them up and even if they come before the name (_process_tool_call).
THEOREM ArgsArrive == Spec => []ArgsDelivered
<1>1. ASSUME OpenAIInv PROVE ArgsDelivered
  <2>1. ASSUME NEW i \in StartedTools(sse), sse.tools[i].whole
        PROVE  Delivered(sse.tools[i], sse.tools[i].got)
    BY <1>1, <2>1 DEF OpenAIInv, AllSettled, Settled, Handled, StartedTools
  <2> QED BY <2>1 DEF ArgsDelivered, Delivered
<1> QED BY <1>1, OpenAIInductive, PTL
-----------------------------------------------------------------------------
(* EmittedNativeSseTracker: what it knows of the events is what the client    *)
(* knows, as long as the client's contract is kept.                           *)

LEMMA AppendIs ==
  ASSUME NEW E, NEW q \in Seq(E), NEW e \in E
  PROVE  /\ Append(q, e) \in Seq(E) /\ Elements(Append(q, e)) = Elements(q) \cup {e}
         /\ Distinct(q) /\ e \notin Elements(q) => Distinct(Append(q, e))
<1> DEFINE L == Len(q)
           r == Append(q, e)
<1>1. /\ L \in Nat /\ r \in Seq(E) /\ Len(r) = L + 1 /\ r[L + 1] = e
      /\ \A i \in 1..L : r[i] = q[i]
  OBVIOUS
<1> HIDE DEF r
<1>2. 1..(L + 1) = (1..L) \cup {L + 1} /\ L + 1 \notin 1..L
  BY <1>1
<1>3. Elements(r) = Elements(q) \cup {e}
  BY <1>1, <1>2 DEF Elements
<1>4. ASSUME Distinct(q), e \notin Elements(q) PROVE Distinct(r)
  BY <1>1, <1>2, <1>4 DEF Distinct, Elements
<1> QED BY <1>1, <1>3, <1>4 DEF r

LEMMA TrackStart ==
  ASSUME NEW c \in Client, NEW t, Knows(t, c), NEW i \in Int, NEW k \in BlockKinds
  PROVE  Knows(Track(t, BlockStart(i, k)), Observe(c, BlockStart(i, k)))
<1> DEFINE e == BlockStart(i, k)
           d == Observe(c, e)
           u == Track(t, e)
<1>1. /\ d \in Client /\ d.open = c.open \cup {<<i, k>>} /\ d.seen = c.seen \cup {i}
      /\ d.broken = (c.broken \/ i \in c.seen)
  <2>1. \A m \in Client, j \in Int :
          LET x == Observe(m, BlockStart(j, k))
          IN /\ x \in Client
             /\ x.open = m.open \cup {<<j, k>>} /\ x.seen = m.seen \cup {j}
             /\ x.begun = m.begun /\ x.broken = (m.broken \/ j \in m.seen)
    BY ObserveStart
  <2> QED BY <2>1
<1>2. u = [open |-> Append(t.open, i), max |-> IF i > t.max THEN i ELSE t.max]
  BY DEF Track, BlockStart
<1> HIDE DEF d, u, e
<1>3. t.open \in Seq(Int) /\ t.max \in Int /\ t.max >= -1 /\ c.seen \in SUBSET Int
  BY DEF Knows, Tracker, Client
<1>4. /\ Append(t.open, i) \in Seq(Int) /\ Elements(Append(t.open, i)) = Elements(t.open) \cup {i}
      /\ Distinct(t.open) /\ i \notin Elements(t.open) => Distinct(Append(t.open, i))
  BY <1>3, AppendIs
<1>5. u \in Tracker /\ u.max >= -1 /\ u.open = Append(t.open, i)
      /\ u.max = IF i > t.max THEN i ELSE t.max
  BY <1>2, <1>3, <1>4 DEF Tracker
<1>6. ASSUME ~d.broken
      PROVE  /\ Distinct(u.open) /\ Elements(u.open) = {b[1] : b \in d.open}
             /\ Elements(u.open) \subseteq d.seen
             /\ \A j \in d.seen : j <= u.max
             /\ u.max = -1 \/ u.max \in d.seen
  <2>1. ~c.broken /\ i \notin c.seen
    BY <1>1, <1>6
  <2>2. /\ Distinct(t.open) /\ Elements(t.open) = {b[1] : b \in c.open}
        /\ Elements(t.open) \subseteq c.seen
        /\ \A j \in c.seen : j <= t.max
        /\ t.max = -1 \/ t.max \in c.seen
    BY <2>1 DEF Knows
  <2>3. Distinct(u.open)
    BY <1>4, <1>5, <2>1, <2>2
  <2>4. {b[1] : b \in d.open} = {b[1] : b \in c.open} \cup {i}
    <3> DEFINE x == <<i, k>>
    <3>1. x[1] = i /\ d.open = c.open \cup {x}
      BY <1>1
    <3> HIDE DEF x
    <3> QED BY <3>1
  <2>5. Elements(u.open) = {b[1] : b \in d.open} /\ Elements(u.open) \subseteq d.seen
    BY <1>1, <1>4, <1>5, <2>2, <2>4
  <2>6. \A j \in d.seen : j <= u.max
    BY <1>1, <1>3, <1>5, <2>2
  <2>7. u.max = -1 \/ u.max \in d.seen
    BY <1>1, <1>5, <2>2
  <2> QED BY <2>3, <2>5, <2>6, <2>7
<1> QED BY <1>5, <1>6 DEF Knows, d, u, e

LEMMA TrackStop ==
  ASSUME NEW c \in Client, NEW t, Knows(t, c), NEW i \in Int
  PROVE  Knows(Track(t, BlockStop(i)), Observe(c, BlockStop(i)))
<1> DEFINE e == BlockStop(i)
           d == Observe(c, e)
           u == Track(t, e)
           keep == {j \in DOMAIN t.open : t.open[j] # i}
           q == Keep(t.open, keep)
<1>1. /\ d \in Client /\ d.open = {b \in c.open : b[1] # i} /\ d.seen = c.seen
      /\ d.broken = (c.broken \/ \A b \in c.open : b[1] # i)
  BY ObserveStop
<1>2. u = [t EXCEPT !.open = q]
  BY DEF Track, BlockStop
<1> HIDE DEF d, u, e
<1>3. t \in Tracker /\ t.open \in Seq(Int) /\ t.max \in Int /\ t.max >= -1
  BY DEF Knows, Tracker
<1>4. /\ q \in Seq(Int) /\ Elements(q) = {t.open[j] : j \in (1..Len(t.open)) \cap keep}
      /\ Distinct(t.open) => Distinct(q)
  <2> HIDE DEF keep
  <2> QED BY <1>3, KeepProperties
<1>5. Elements(q) = {v \in Elements(t.open) : v # i}
  <2>1. DOMAIN t.open = 1..Len(t.open)
    BY <1>3
  <2> HIDE DEF q
  <2> QED BY <1>4, <2>1 DEF Elements
<1> HIDE DEF q
<1>6. u \in Tracker /\ u.max = t.max /\ u.open = q
  BY <1>2, <1>3, <1>4 DEF Tracker
<1>7. ASSUME ~d.broken
      PROVE  /\ Distinct(u.open) /\ Elements(u.open) = {b[1] : b \in d.open}
             /\ Elements(u.open) \subseteq d.seen
             /\ \A j \in d.seen : j <= u.max
             /\ u.max = -1 \/ u.max \in d.seen
  <2>1. /\ Distinct(t.open) /\ Elements(t.open) = {b[1] : b \in c.open}
        /\ Elements(t.open) \subseteq c.seen
        /\ \A j \in c.seen : j <= t.max
        /\ t.max = -1 \/ t.max \in c.seen
    BY <1>1, <1>7 DEF Knows
  <2>2. {b[1] : b \in d.open} = {v \in {b[1] : b \in c.open} : v # i}
    BY <1>1
  <2> QED BY <1>1, <1>4, <1>5, <1>6, <2>1, <2>2
<1> QED BY <1>3, <1>6, <1>7 DEF Knows, d, u, e

LEMMA TrackOther ==
  ASSUME NEW c \in Client, NEW t, Knows(t, c), NEW e \in StreamEvent,
         e.name \notin {"content_block_start", "content_block_stop"}
  PROVE  Knows(Track(t, e), Observe(c, e))
<1>1. Track(t, e) = t
  BY DEF Track
<1>2. CASE e \in {Event(n) : n \in PlainNames}
  <2>1. PICK n \in PlainNames : e = Event(n)
    BY <1>2
  <2>2. LET d == Observe(c, e) IN d.open = c.open /\ d.seen = c.seen /\ d.broken = c.broken
    BY <2>1, ObservePlain
  <2> QED BY <1>1, <2>2 DEF Knows
<1>3. CASE e \in {BlockDelta(i, k) : i \in Int, k \in BlockKinds}
  <2>1. PICK i \in Int, k \in BlockKinds : e = BlockDelta(i, k)
    BY <1>3
  <2>2. LET d == Observe(c, e) IN d.open = c.open /\ d.seen = c.seen /\ (c.broken => d.broken)
    BY <2>1, ObserveDelta
  <2> QED BY <1>1, <2>2 DEF Knows
<1>4. CASE e \in {BlockStart(i, k) : i \in Int, k \in BlockKinds}
  BY <1>4 DEF BlockStart
<1>5. CASE e \in {BlockStop(i) : i \in Int}
  BY <1>5 DEF BlockStop
<1> QED BY <1>2, <1>3, <1>4, <1>5 DEF StreamEvent

LEMMA TrackOne ==
  ASSUME NEW c \in Client, NEW t, Knows(t, c), NEW e \in StreamEvent
  PROVE  Knows(Track(t, e), Observe(c, e))
<1>1. CASE e \in {BlockStart(i, k) : i \in Int, k \in BlockKinds}
  <2>1. PICK i \in Int, k \in BlockKinds : e = BlockStart(i, k)
    BY <1>1
  <2> QED BY <2>1, TrackStart
<1>2. CASE e \in {BlockStop(i) : i \in Int}
  <2>1. PICK i \in Int : e = BlockStop(i)
    BY <1>2
  <2> QED BY <2>1, TrackStop
<1>3. CASE e \in {Event(n) : n \in PlainNames}
  <2>1. PICK n \in PlainNames : e = Event(n)
    BY <1>3
  <2>2. e.name \notin {"content_block_start", "content_block_stop"}
    BY <2>1 DEF Event, PlainNames
  <2> QED BY <2>2, TrackOther
<1>4. CASE e \in {BlockDelta(i, k) : i \in Int, k \in BlockKinds}
  <2>1. PICK i \in Int, k \in BlockKinds : e = BlockDelta(i, k)
    BY <1>4
  <2>2. e.name \notin {"content_block_start", "content_block_stop"}
    BY <2>1 DEF BlockDelta
  <2> QED BY <2>2, TrackOther
<1> QED BY <1>1, <1>2, <1>3, <1>4 DEF StreamEvent

LEMMA TrackKnows ==
  ASSUME NEW c \in Client, NEW t, Knows(t, c), NEW out \in Seq(StreamEvent)
  PROVE  Knows(TrackAll(t, out), Read(c, out))
<1> DEFINE L == Len(out)
           S == Tracker
           Def(f) == f = [n \in 0..L |-> IF n = 0 THEN t ELSE Track(f[n - 1], out[n])]
           g == CHOOSE f : Def(f)
           G == [n \in 1..L |-> [v \in S |-> IF Track(v, out[n]) \in S THEN Track(v, out[n]) ELSE v]]
<1>1. L \in Nat /\ (\A n \in 1..L : out[n] \in StreamEvent) /\ t \in S
  BY DEF Knows
<1>2. PICK r \in [0..L -> Client] :
        /\ r[0] = c /\ Read(c, out) = r[L]
        /\ \A n \in 1..L : r[n] = Observe(r[n - 1], out[n])
  BY ReadSteps
<1>3. TrackAll(t, out) = g[L]
  BY DEF TrackAll
<1> HIDE DEF L, S
<1>4. G \in [1..L -> [S -> S]]
  OBVIOUS
<1>5. PICK f \in [0..L -> S] : Follows(f, L, t, G)
  BY <1>1, <1>4, Recursion
<1>6. \A n \in 0..L : Knows(f[n], r[n])
  <2> DEFINE T == {n \in 0..L : Knows(f[n], r[n])}
  <2>1. 0 \in T
    BY <1>1, <1>2, <1>5 DEF Follows
  <2>2. ASSUME NEW n \in 1..L, n - 1 \in T PROVE n \in T
    <3>1. Knows(f[n - 1], r[n - 1]) /\ r[n - 1] \in Client /\ f[n - 1] \in S /\ n \in 0..L
      BY <1>1, <1>2, <1>5, <2>2
    <3>2. Knows(Track(f[n - 1], out[n]), r[n])
      BY <1>1, <1>2, <3>1, TrackOne
    <3>3. f[n] = Track(f[n - 1], out[n])
      BY <1>5, <3>1, <3>2 DEF Follows, Knows, S
    <3> QED BY <3>1, <3>2, <3>3
  <2> HIDE DEF T
  <2>3. 0..L \subseteq T
    BY <1>1, <2>1, <2>2, UpTo
  <2> QED BY <2>3 DEF T
<1>7. Def(f)
  <2>1. \A n \in 1..L : /\ n - 1 \in 0..L /\ n \in 0..L /\ n # 0
                        /\ f[n - 1] \in S /\ f[n] = Track(f[n - 1], out[n])
    <3> SUFFICES ASSUME NEW n \in 1..L
                 PROVE  /\ n - 1 \in 0..L /\ n \in 0..L /\ n # 0
                        /\ f[n - 1] \in S /\ f[n] = Track(f[n - 1], out[n])
      OBVIOUS
    <3>1. n - 1 \in 0..L /\ n \in 0..L /\ n # 0
      BY <1>1
    <3>2. f[n - 1] \in S /\ Knows(f[n - 1], r[n - 1]) /\ r[n - 1] \in Client
      BY <1>2, <1>5, <1>6, <3>1
    <3>3. Track(f[n - 1], out[n]) \in S
      BY <1>1, <3>2, TrackOne DEF Knows, S
    <3> QED BY <1>5, <3>1, <3>2, <3>3 DEF Follows
  <2>2. f[0] = t
    BY <1>5 DEF Follows
  <2> QED BY <1>1, <2>1, <2>2
<1>8. g = [n \in 0..L |-> IF n = 0 THEN t ELSE Track(g[n - 1], out[n])]
  <2>1. Def(g)
    <3> HIDE DEF Def
    <3> QED BY <1>7
  <2> HIDE DEF g
  <2> QED BY <2>1
<1> HIDE DEF g, Def
<1>9. \A n \in 0..L : Knows(g[n], r[n])
  <2> DEFINE T == {n \in 0..L : Knows(g[n], r[n])}
  <2>1. 0 \in T
    BY <1>1, <1>2, <1>8
  <2>2. ASSUME NEW n \in 1..L, n - 1 \in T PROVE n \in T
    <3>1. Knows(g[n - 1], r[n - 1]) /\ r[n - 1] \in Client /\ n \in 0..L /\ n # 0
      BY <1>1, <1>2, <2>2
    <3>2. Knows(Track(g[n - 1], out[n]), r[n])
      BY <1>1, <1>2, <3>1, TrackOne
    <3>3. g[n] = Track(g[n - 1], out[n])
      BY <1>8, <3>1
    <3> QED BY <3>1, <3>2, <3>3
  <2> HIDE DEF T
  <2>3. 0..L \subseteq T
    BY <1>1, <2>1, <2>2, UpTo
  <2> QED BY <2>3 DEF T
<1>10. L \in 0..L
  BY <1>1
<1> QED BY <1>2, <1>3, <1>9, <1>10
-----------------------------------------------------------------------------
(* NativeSseBlockPolicyState: the segments that are open are the client's     *)
(* blocks, each of the upstream's blocks is dropped or has a segment.         *)

LEMMA MapIs ==
  ASSUME NEW K, NEW V, NEW T \in Map(K, V)
  PROVE  /\ DOMAIN T \subseteq K /\ IsFiniteSet(DOMAIN T)
         /\ T \in [DOMAIN T -> V] /\ \A i \in DOMAIN T : T[i] \in V
BY DEF Map

LEMMA MapMade ==
  ASSUME NEW K, NEW V, NEW D \in SUBSET K, IsFiniteSet(D), NEW T \in [D -> V]
  PROVE  T \in Map(K, V)
BY DEF Map

LEMMA SegmentsAre ==
  ASSUME NEW p \in Policy
  PROVE  /\ DOMAIN p.segments \subseteq Upstream /\ IsFiniteSet(DOMAIN p.segments)
         /\ p.next \in Nat
         /\ \A v \in DOMAIN p.segments : /\ p.segments[v] \in Segment
                                         /\ p.segments[v].index \in Int
                                         /\ p.segments[v].kind \in Kinds
                                         /\ p.segments[v].kind \in BlockKinds
<1>1. p.segments \in Map(Upstream, Segment) /\ p.next \in Nat
  BY DEF Policy, SegMap
<1>2. /\ DOMAIN p.segments \subseteq Upstream /\ IsFiniteSet(DOMAIN p.segments)
      /\ \A v \in DOMAIN p.segments : p.segments[v] \in Segment
  BY <1>1, MapIs
<1>3. \A g \in Segment : g.index \in Int /\ g.kind \in Kinds /\ g.kind \in BlockKinds
  BY DEF Segment, Kinds, BlockKinds
<1> QED BY <1>1, <1>2, <1>3

LEMMA ShutIs ==
  ASSUME NEW S \in SegMap, NEW others
  PROVE  LET T == Shut(S, others)
         IN /\ T \in SegMap /\ DOMAIN T = DOMAIN S
            /\ \A v \in DOMAIN S : /\ T[v].index = S[v].index /\ T[v].kind = S[v].kind
                                   /\ (T[v].open <=> (S[v].open /\ v \notin others))
<1> DEFINE T == Shut(S, others)
           D == DOMAIN S
<1>1. /\ D \in SUBSET Upstream /\ IsFiniteSet(D) /\ \A v \in D : S[v] \in Segment
  BY MapIs DEF SegMap
<1>2. T = [v \in D |-> IF v \in others THEN [S[v] EXCEPT !.open = FALSE] ELSE S[v]]
  BY DEF Shut
<1>3. \A g \in Segment : LET h == [g EXCEPT !.open = FALSE]
                         IN h \in Segment /\ h.index = g.index /\ h.kind = g.kind /\ ~h.open
  BY DEF Segment
<1> HIDE DEF T, D
<1>4. T \in [D -> Segment]
  BY <1>1, <1>2, <1>3
<1>5. T \in SegMap
  BY <1>1, <1>4, MapMade DEF SegMap
<1>6. \A v \in D : /\ T[v].index = S[v].index /\ T[v].kind = S[v].kind
                   /\ (T[v].open <=> (S[v].open /\ v \notin others))
  BY <1>1, <1>2, <1>3
<1> QED BY <1>4, <1>5, <1>6 DEF T, D

LEMMA CloseOthersGood ==
  ASSUME NEW c, NEW p, NEW w, Mirrors(p, w), Carries(c, p), NEW u, u \notin DOMAIN w
  PROVE  ClosedOthers(c, p, w, CloseOthers(p, u))
<1> DEFINE S == p.segments
           O == OpenBut(p, u)
           T == Shut(S, O)
           q0 == SetToSeq(O)
           more == [i \in DOMAIN q0 |-> BlockStop(S[q0[i]].index)]
           t == [p EXCEPT !.segments = T, !.suppressed = p.suppressed \cup O]
           r == CloseOthers(p, u)
           q == [k \in 1..Len(q0) |-> S[q0[k]].index]
<1>1. r = [policy |-> t, out |-> more]
  BY DEF CloseOthers, Result, Shut
<1>2. p \in Policy /\ u \notin DOMAIN S /\ S \in SegMap /\ p.suppressed \in SUBSET Upstream
  BY DEF Mirrors, Policy
<1>3. O = OpenSegments(S) /\ O \subseteq DOMAIN S
  BY <1>2 DEF OpenBut, OpenSegments
<1>4. /\ DOMAIN S \subseteq Upstream /\ IsFiniteSet(DOMAIN S) /\ p.next \in Nat
      /\ \A v \in DOMAIN S : S[v].index \in Int
  BY <1>2, SegmentsAre
<1>5. IsFiniteSet(O)
  BY <1>3, <1>4, FS_Subset
<1> HIDE DEF r, O
<1>6. /\ T \in SegMap /\ DOMAIN T = DOMAIN S
      /\ \A v \in DOMAIN S : /\ T[v].index = S[v].index /\ T[v].kind = S[v].kind
                             /\ (T[v].open <=> (S[v].open /\ v \notin O))
  BY <1>2, ShutIs
<1> HIDE DEF T
<1>7. /\ t \in Policy /\ t.next = p.next /\ t.segments = T /\ t.dropped = p.dropped
      /\ t.suppressed = p.suppressed \cup O
  <2>1. p.suppressed \cup O \in SUBSET Upstream
    BY <1>2, <1>3, <1>4
  <2> QED BY <1>2, <1>6, <2>1 DEF Policy
<1> HIDE DEF t
<1>8. OpenSegments(T) = {}
  BY <1>3, <1>6 DEF OpenSegments
<1>9. Mirrors(t, w)
  <2>1. \A v \in DOMAIN S : ~T[v].open
    BY <1>6, <1>8 DEF OpenSegments
  <2>2. SegLayout(T, p.next)
    BY <1>6 DEF Mirrors, SegLayout
  <2>3. \A v \in DOMAIN T : Agrees(T[v], w[v])
    BY <1>6, <2>1 DEF Mirrors, Agrees
  <2>4. \A v \in p.suppressed \cup O : v \in DOMAIN T /\ ~T[v].open
    BY <1>3, <1>6, <2>1 DEF Mirrors
  <2> QED BY <1>6, <1>7, <2>2, <2>3, <2>4 DEF Mirrors
<1>10. /\ q0 \in Seq(O) /\ DOMAIN q0 = 1..Len(q0) /\ Distinct(q0) /\ Elements(q0) = O
  BY <1>5, InOrder
<1> HIDE DEF q0
<1>11. Len(q0) \in Nat /\ \A k \in 1..Len(q0) : q0[k] \in O /\ S[q0[k]].index \in Int
  BY <1>3, <1>4, <1>10
<1>12. q \in Seq(Int) /\ Len(q) = Len(q0) /\ \A k \in 1..Len(q) : q[k] = S[q0[k]].index
  BY <1>11
<1>13. more = Stops(q)
  BY <1>10, <1>12 DEF Stops
<1> HIDE DEF q, more
<1>14. Distinct(q)
  <2> SUFFICES ASSUME NEW j \in 1..Len(q), NEW k \in 1..Len(q), q[j] = q[k] PROVE j = k
    BY DEF Distinct
  <2>1. q0[j] \in DOMAIN S /\ q0[k] \in DOMAIN S /\ S[q0[j]].index = S[q0[k]].index
    BY <1>3, <1>11, <1>12
  <2>2. q0[j] = q0[k]
    BY <2>1 DEF Mirrors, SegLayout
  <2> QED BY <1>10, <1>12, <2>2 DEF Distinct
<1>15. \A k \in 1..Len(q) : \E b \in SegBlocks(S) : b[1] = q[k]
  <2> SUFFICES ASSUME NEW k \in 1..Len(q) PROVE \E b \in SegBlocks(S) : b[1] = q[k]
    OBVIOUS
  <2> DEFINE v == q0[k]
             b == <<S[v].index, S[v].kind>>
  <2>1. v \in OpenSegments(S) /\ q[k] = S[v].index
    BY <1>3, <1>11, <1>12
  <2>2. b \in SegBlocks(S)
    BY <2>1 DEF SegBlocks
  <2>3. b[1] = q[k]
    BY <2>1
  <2> HIDE DEF b
  <2> QED BY <2>2, <2>3
<1>16. Sees(c, SegBlocks(S), p.next)
  BY DEF Carries
<1>17. more \in Seq(StreamEvent) /\ Sees(Read(c, more), ButAll(SegBlocks(S), q, Len(q)), p.next)
  BY <1>12, <1>13, <1>14, <1>15, <1>16, SeesStops
<1>18. ButAll(SegBlocks(S), q, Len(q)) = {}
  <2> SUFFICES ASSUME NEW b \in ButAll(SegBlocks(S), q, Len(q)) PROVE FALSE
    OBVIOUS
  <2>1. b \in SegBlocks(S) /\ \A j \in 1..Len(q) : b[1] # q[j]
    BY DEF ButAll
  <2>2. PICK v \in O : b = <<S[v].index, S[v].kind>>
    BY <1>3, <2>1 DEF SegBlocks
  <2>3. PICK k \in 1..Len(q0) : q0[k] = v
    BY <1>10 DEF Elements
  <2>4. q[k] = S[v].index /\ k \in 1..Len(q)
    BY <1>12, <2>3
  <2>5. b[1] = S[v].index
    BY <2>2
  <2> QED BY <2>1, <2>4, <2>5
<1>19. SegBlocks(T) = {}
  BY <1>8 DEF SegBlocks
<1>20. Carries(Read(c, more), t)
  BY <1>7, <1>17, <1>18, <1>19 DEF Carries
<1>21. r.policy = t /\ r.out = more
  BY <1>1 DEF t, more
<1> QED BY <1>7, <1>8, <1>9, <1>17, <1>20, <1>21 DEF r, ClosedOthers

\* _allocate_new_segment.
LEMMA AllocateGood ==
  ASSUME NEW p, NEW w, Mirrors(p, w), NEW u \in Upstream, NEW kind \in Kinds,
         u \notin p.dropped, u \notin p.suppressed,
         u \in DOMAIN p.segments => ~p.segments[u].open
  PROVE  LET t == Allocate(p, u, kind)
         IN /\ \A x : Extends(w, x, u, kind) => Mirrors(t, x)
            /\ t.next = p.next + 1
            /\ SegBlocks(t.segments) = SegBlocks(p.segments) \cup {<<p.next, kind>>}
<1> DEFINE S == p.segments
           n == p.next
           g == NewSegment(n, kind)
           T == Assign(S, u, g)
           t == Allocate(p, u, kind)
<1>1. t = [p EXCEPT !.next = n + 1, !.segments = T]
  BY DEF Allocate, NewSegment
<1>2. p \in Policy /\ S \in Map(Upstream, Segment) /\ SegLayout(S, n)
  BY DEF Mirrors, Policy, SegMap
<1>3. n \in Nat /\ \A v \in DOMAIN S : S[v] \in Segment
  BY <1>2, SegmentsAre
<1>4. g \in Segment /\ g.index = n /\ g.kind = kind /\ g.open = TRUE
  BY <1>3 DEF NewSegment, Segment
<1> HIDE DEF g, t
<1>5. /\ T \in Map(Upstream, Segment) /\ DOMAIN T = DOMAIN S \cup {u} /\ T[u] = g
      /\ \A v \in DOMAIN S : v # u => T[v] = S[v]
  <2> HIDE DEF S
  <2>1. Assigned(Map(Upstream, Segment), S, u, g)
    BY <1>2, <1>4, AssignIs
  <2> QED BY <2>1 DEF Assigned
<1> HIDE DEF T
<1>6. /\ t \in Policy /\ t.next = n + 1 /\ t.segments = T /\ t.dropped = p.dropped
      /\ t.suppressed = p.suppressed
  <2>1. T \in SegMap /\ n + 1 \in Nat
    BY <1>3, <1>5 DEF SegMap
  <2> QED BY <1>1, <1>2, <2>1 DEF Policy
<1> HIDE DEF n
<1>7. \A v \in DOMAIN S : S[v].index \in 0 .. n - 1 /\ S[v].index # n
  BY <1>2, <1>3 DEF SegLayout
<1>8. SegLayout(T, n + 1)
  <2>1. \A v \in DOMAIN T : T[v].index \in 0 .. (n + 1) - 1
    <3>1. 0 .. n - 1 \subseteq 0 .. (n + 1) - 1 /\ n \in 0 .. (n + 1) - 1
      BY <1>3
    <3> QED BY <1>4, <1>5, <1>7, <3>1
  <2>2. ASSUME NEW v \in DOMAIN T, NEW x \in DOMAIN T, T[v].index = T[x].index PROVE v = x
    <3>1. CASE v = u /\ x # u
      BY <1>4, <1>5, <1>7, <2>2, <3>1
    <3>2. CASE x = u /\ v # u
      BY <1>4, <1>5, <1>7, <2>2, <3>2
    <3>3. CASE x # u /\ v # u
      BY <1>2, <1>5, <2>2, <3>3 DEF SegLayout
    <3> QED BY <3>1, <3>2, <3>3
  <2> QED BY <2>1, <2>2 DEF SegLayout
<1>9. ASSUME NEW x, Extends(w, x, u, kind) PROVE Mirrors(t, x)
  <2>1. x \in UpMap /\ DOMAIN x = p.dropped \cup DOMAIN T
    BY <1>5, <1>9 DEF Extends, Mirrors
  <2>2. p.dropped \cap DOMAIN T = {}
    BY <1>5 DEF Mirrors
  <2>3. ASSUME NEW v \in DOMAIN T PROVE Agrees(T[v], x[v])
    <3>1. CASE v = u
      BY <1>4, <1>5, <1>9, <3>1 DEF Agrees, Extends
    <3>2. CASE v # u
      <4>1. v \in DOMAIN S /\ T[v] = S[v] /\ v \in DOMAIN w
        BY <1>5, <3>2 DEF Mirrors
      <4>2. x[v] = w[v]
        BY <1>9, <3>2, <4>1 DEF Extends
      <4> QED BY <4>1, <4>2 DEF Mirrors
    <3> QED BY <3>1, <3>2
  <2>4. ASSUME NEW v \in p.suppressed PROVE v \in DOMAIN T /\ ~T[v].open
    BY <1>5 DEF Mirrors
  <2> QED BY <1>6, <1>8, <2>1, <2>2, <2>3, <2>4 DEF Mirrors
<1>10. SegBlocks(T) = SegBlocks(S) \cup {<<n, kind>>}
  <2>1. OpenSegments(T) = OpenSegments(S) \cup {u}
    BY <1>4, <1>5 DEF OpenSegments
  <2>2. \A v \in OpenSegments(S) : v # u /\ T[v] = S[v]
    BY <1>5 DEF OpenSegments
  <2>3. T[u].index = n /\ T[u].kind = kind
    BY <1>4, <1>5
  <2> QED BY <2>1, <2>2, <2>3 DEF SegBlocks
<1> QED BY <1>6, <1>9, <1>10 DEF t, n

LEMMA NoEvents ==
  ASSUME NEW c, NEW p, Carries(c, p)
  PROVE  <<>> \in Seq(StreamEvent) /\ Read(c, <<>>) = c
<1>1. c \in Client
  BY DEF Carries, Sees
<1>2. Event("error") \in StreamEvent
  BY EndingIs
<1>3. Read(c, <<>>) = c
  BY <1>1, <1>2, ReadShort
<1> QED BY <1>3

\* content_block_start.
LEMMA StartBlockGood ==
  ASSUME NEW c, NEW p, NEW w, Mirrors(p, w), Carries(c, p),
         NEW u \in Upstream, u \notin DOMAIN w, NEW kind \in Kinds,
         NEW x, Extends(w, x, u, kind)
  PROVE  Passes(c, x, StartBlock(p, u, kind))
<1> DEFINE r == StartBlock(p, u, kind)
<1>1. CASE Hidden(kind)
  <2> DEFINE t == [p EXCEPT !.dropped = p.dropped \cup {u}]
  <2>1. r = [policy |-> t, out |-> <<>>]
    BY <1>1 DEF StartBlock, Result
  <2> HIDE DEF r
  <2>2. p \in Policy
    BY DEF Mirrors
  <2>3. /\ t \in Policy /\ t.dropped = p.dropped \cup {u} /\ t.segments = p.segments
        /\ t.next = p.next /\ t.suppressed = p.suppressed
    BY <2>2 DEF Policy
  <2> HIDE DEF t
  <2>4. Mirrors(t, x)
    <3>1. DOMAIN x = t.dropped \cup DOMAIN t.segments /\ t.dropped \cap DOMAIN t.segments = {}
      BY <2>3 DEF Extends, Mirrors
    <3>2. \A v \in DOMAIN p.segments : v # u /\ x[v] = w[v]
      BY DEF Extends, Mirrors
    <3> QED BY <2>3, <3>1, <3>2 DEF Extends, Mirrors
  <2>5. Carries(c, t)
    BY <2>3 DEF Carries
  <2> QED BY <2>1, <2>4, <2>5, NoEvents DEF r, Passes
<1>2. CASE ~Hidden(kind)
  <2> DEFINE s == CloseOthers(p, u)
             q == s.policy
             n == p.next
             e == BlockStart(n, kind)
             more == <<e>>
             t == Allocate(q, u, kind)
  <2>1. r = [policy |-> t, out |-> Append(s.out, e)]
    BY <1>2 DEF StartBlock, Result
  <2>2. /\ Mirrors(q, w) /\ q.next = n /\ OpenSegments(q.segments) = {}
        /\ s.out \in Seq(StreamEvent) /\ Carries(Read(c, s.out), q)
        /\ q.dropped = p.dropped
    <3>1. ClosedOthers(c, p, w, s)
      BY CloseOthersGood
    <3> HIDE DEF s
    <3> QED BY <3>1 DEF ClosedOthers
  <2> HIDE DEF r, s, q
  <2>3. u \notin q.dropped /\ u \notin DOMAIN q.segments /\ u \notin q.suppressed
    BY <2>2 DEF Mirrors
  <2>4. /\ \A y : Extends(w, y, u, kind) => Mirrors(t, y)
        /\ t.next = q.next + 1
        /\ SegBlocks(t.segments) = SegBlocks(q.segments) \cup {<<q.next, kind>>}
    BY <2>2, <2>3, AllocateGood
  <2> HIDE DEF t
  <2>5. n \in Nat /\ kind \in BlockKinds /\ c \in Client
    <3>1. p \in Policy
      BY DEF Mirrors
    <3> QED BY <3>1 DEF Policy, Kinds, BlockKinds, Carries, Sees
  <2>6. e \in StreamEvent
    <3>1. n \in Int
      BY <2>5
    <3> HIDE DEF n
    <3> QED BY <2>5, <3>1 DEF StreamEvent
  <2>7. SegBlocks(q.segments) = {}
    BY <2>2 DEF SegBlocks
  <2> DEFINE d == Read(c, s.out)
  <2>8. Sees(d, {}, n)
    BY <2>2, <2>7 DEF Carries
  <2> HIDE DEF d, n
  <2>9. Sees(Read(d, <<BlockStart(n, kind)>>), {} \cup {<<n, kind>>}, n + 1)
    BY <2>5, <2>8, SeesStart
  <2>10. Carries(Read(d, more), t)
    BY <2>2, <2>4, <2>7, <2>9 DEF Carries
  <2> HIDE DEF e
  <2>11. more \in Seq(StreamEvent) /\ Append(s.out, e) = s.out \o more
    BY <2>2, <2>6
  <2> HIDE DEF more
  <2>12. /\ s.out \o more \in Seq(StreamEvent)
         /\ Read(c, s.out \o more) = Read(d, more)
    BY <2>2, <2>5, <2>11, ReadSplit DEF d
  <2>13. r.policy = t /\ r.out = s.out \o more
    BY <2>1, <2>11
  <2> QED BY <2>4, <2>10, <2>12, <2>13 DEF r, Passes
<1> QED BY <1>1, <1>2

\* content_block_delta.
LEMMA DeltaGood ==
  ASSUME NEW c, NEW p, NEW w, Mirrors(p, w), Carries(c, p),
         NEW u \in Upstream, NEW kind \in Kinds, NEW x, Extends(w, x, u, kind),
         IF u \in DOMAIN w THEN x = w ELSE kind # "thinking"
  PROVE  Passes(c, x, Delta(p, u, kind))
<1> DEFINE r == Delta(p, u, kind)
           S == p.segments
<1>1. p \in Policy /\ c \in Client /\ kind \in BlockKinds /\ p.next \in Nat
  <2>1. p \in Policy
    BY DEF Mirrors
  <2> QED BY <2>1 DEF Policy, Carries, Sees, Kinds, BlockKinds
<1>2. CASE u \in p.dropped \/ Hidden(kind)
  <2>1. r = [policy |-> p, out |-> <<>>]
    BY <1>2 DEF Delta, Result
  <2>2. u \in DOMAIN w
    BY <1>2 DEF Mirrors, Hidden
  <2> HIDE DEF r
  <2>3. Mirrors(r.policy, x) /\ r.out = <<>> /\ r.policy = p
    BY <2>1, <2>2
  <2> QED BY <2>3, NoEvents DEF r, Passes
<1>3. CASE ~(u \in p.dropped \/ Hidden(kind)) /\ u \in DOMAIN S /\ S[u].open
  <2> DEFINE i == S[u].index
             more == <<BlockDelta(i, kind)>>
  <2>1. r = [policy |-> p, out |-> more]
    BY <1>3 DEF Delta, Result
  <2>2. x = w /\ i \in Int /\ S[u].kind = kind
    <3>1. u \in DOMAIN w
      BY <1>3 DEF Mirrors
    <3>2. Agrees(S[u], w[u]) /\ x = w /\ w[u].kind = kind
      BY <1>3, <3>1 DEF Mirrors, Extends
    <3>3. i \in Int
      BY <1>1, <1>3, SegmentsAre
    <3> QED BY <3>2, <3>3 DEF Agrees
  <2>3. <<i, kind>> \in SegBlocks(S)
    BY <1>3, <2>2 DEF SegBlocks, OpenSegments
  <2> HIDE DEF r, i
  <2>4. more \in Seq(StreamEvent)
    BY <1>1, <2>2 DEF StreamEvent
  <2>5. Sees(c, SegBlocks(S), p.next)
    BY DEF Carries
  <2>6. Sees(Read(c, more), SegBlocks(S), p.next)
    BY <1>1, <2>2, <2>3, <2>5, SeesDelta
  <2> HIDE DEF more
  <2>7. r.policy = p /\ r.out = more
    BY <2>1
  <2> QED BY <2>2, <2>4, <2>6, <2>7 DEF r, Passes, Carries
<1>4. CASE ~(u \in p.dropped \/ Hidden(kind)) /\ ~(u \in DOMAIN S /\ S[u].open)
  <2> DEFINE q == [p EXCEPT !.suppressed = p.suppressed \ {u}]
             n == p.next
             a == BlockStart(n, kind)
             b == BlockDelta(n, kind)
             t == Allocate(q, u, kind)
  <2>1. r = [policy |-> t, out |-> <<a, b>>]
    BY <1>4 DEF Delta, Result
  <2>2. /\ q \in Policy /\ q.next = n /\ q.segments = S /\ q.dropped = p.dropped
        /\ q.suppressed = p.suppressed \ {u}
    BY <1>1 DEF Policy
  <2> HIDE DEF q
  <2>3. Mirrors(q, w)
    BY <2>2 DEF Mirrors
  <2>4. /\ u \notin q.dropped /\ u \notin q.suppressed
        /\ u \in DOMAIN q.segments => ~q.segments[u].open
    BY <1>4, <2>2
  <2>5. /\ \A y : Extends(w, y, u, kind) => Mirrors(t, y)
        /\ t.next = q.next + 1
        /\ SegBlocks(t.segments) = SegBlocks(q.segments) \cup {<<q.next, kind>>}
    BY <2>3, <2>4, AllocateGood
  <2> HIDE DEF r, t
  <2>6. n \in Int
    BY <1>1
  <2> DEFINE open == SegBlocks(S) \cup {<<n, kind>>}
  <2> HIDE DEF n
  <2>7. a \in StreamEvent /\ b \in StreamEvent
    BY <1>1, <2>6 DEF StreamEvent
  <2>8. Sees(c, SegBlocks(S), n)
    BY DEF Carries, n
  <2>9. Sees(Read(c, <<a>>), open, n + 1)
    BY <1>1, <2>8, SeesStart DEF n
  <2> DEFINE d == Read(c, <<a>>)
  <2>10. Sees(d, open, n + 1) /\ <<n, kind>> \in open
    BY <2>9
  <2> HIDE DEF d, open
  <2>11. Sees(Read(d, <<b>>), open, n + 1)
    BY <1>1, <2>6, <2>10, SeesDelta
  <2> HIDE DEF a, b
  <2>12. <<a>> \in Seq(StreamEvent) /\ <<b>> \in Seq(StreamEvent) /\ <<a, b>> = <<a>> \o <<b>>
    <3>1. <<a>> \in Seq(StreamEvent) /\ <<b>> \in Seq(StreamEvent)
      BY <2>7
    <3>2. <<a, b>> = <<a>> \o <<b>>
      BY DEF a, b
    <3> QED BY <3>1, <3>2
  <2>13. /\ <<a>> \o <<b>> \in Seq(StreamEvent)
         /\ Read(c, <<a>> \o <<b>>) = Read(d, <<b>>)
    BY <1>1, <2>12, ReadSplit DEF d
  <2>14. r.policy = t /\ r.out = <<a>> \o <<b>>
    BY <2>1, <2>12
  <2>15. Sees(Read(c, r.out), SegBlocks(t.segments), t.next)
    BY <2>2, <2>5, <2>11, <2>13, <2>14 DEF open
  <2> QED BY <2>5, <2>13, <2>14, <2>15 DEF r, Passes, Carries
<1> QED BY <1>2, <1>3, <1>4

\* The upstream stops a block.
LEMMA StopsBlock ==
  ASSUME NEW w \in UpMap, NEW u \in DOMAIN w
  PROVE  LET x == [w EXCEPT ![u].stopped = TRUE]
         IN /\ x \in UpMap /\ DOMAIN x = DOMAIN w /\ x[u].kind = w[u].kind
            /\ \A v \in DOMAIN w : v # u => x[v] = w[v]
<1> DEFINE D == DOMAIN w
           g == [w[u] EXCEPT !.stopped = TRUE]
           x == [w EXCEPT ![u] = g]
<1>1. D \in SUBSET Upstream /\ IsFiniteSet(D) /\ w \in [D -> UpBlock] /\ w[u] \in UpBlock
  <2>1. w \in Map(Upstream, UpBlock)
    BY DEF UpMap
  <2> QED BY <2>1, MapIs
<1>2. g \in UpBlock /\ g.kind = w[u].kind
  BY <1>1 DEF UpBlock
<1> HIDE DEF g, D
<1>3. x \in [D -> UpBlock] /\ x[u] = g /\ \A v \in D : v # u => x[v] = w[v]
  BY <1>1, <1>2 DEF D
<1>4. x \in UpMap
  <2> HIDE DEF x
  <2> QED BY <1>1, <1>3, MapMade DEF UpMap
<1>5. DOMAIN x = D
  BY <1>3
<1> QED BY <1>2, <1>3, <1>4, <1>5 DEF D, g

\* content_block_stop.
LEMMA StopBlockGood ==
  ASSUME NEW c, NEW p, NEW w, Mirrors(p, w), Carries(c, p), NEW u \in DOMAIN w, NEW x,
         x \in UpMap, DOMAIN x = DOMAIN w, x[u].kind = w[u].kind,
         \A v \in DOMAIN w : v # u => x[v] = w[v]
  PROVE  Passes(c, x, StopBlock(p, u))
<1> DEFINE r == StopBlock(p, u)
           S == p.segments
<1>1. p \in Policy /\ c \in Client /\ SegLayout(S, p.next) /\ DOMAIN S \subseteq DOMAIN w
  BY DEF Mirrors, Carries, Sees
<1>2. \A v \in DOMAIN S : /\ S[v].kind = x[v].kind
                          /\ v # u => Agrees(S[v], x[v])
  BY <1>1 DEF Mirrors, Agrees
<1>3. ASSUME NEW q, q \in Policy, q.next = p.next, q.dropped = p.dropped,
             q.suppressed \subseteq p.suppressed, q.segments = S, u \in DOMAIN S => ~S[u].open
      PROVE  Mirrors(q, x)
  <2>1. \A v \in DOMAIN S : Agrees(S[v], x[v])
    BY <1>2, <1>3 DEF Agrees
  <2> QED BY <1>1, <1>3, <2>1 DEF Mirrors
<1>4. CASE u \notin DOMAIN S \/ u \in p.suppressed \/ ~S[u].open
  <2>1. u \in DOMAIN S => ~S[u].open
    BY <1>4 DEF Mirrors
  <2> DEFINE q == [p EXCEPT !.suppressed = p.suppressed \ {u}]
  <2>2. r = [policy |-> p, out |-> <<>>] \/ r = [policy |-> q, out |-> <<>>]
    BY <1>4 DEF StopBlock, Result, Mirrors
  <2>3. /\ q \in Policy /\ q.next = p.next /\ q.segments = S /\ q.dropped = p.dropped
        /\ q.suppressed \subseteq p.suppressed
    BY <1>1 DEF Policy
  <2> HIDE DEF r, q
  <2>4. Mirrors(p, x) /\ Mirrors(q, x)
    BY <1>1, <1>3, <2>1, <2>3
  <2>5. Carries(c, q)
    BY <2>3 DEF Carries
  <2>6. r.out = <<>> /\ (r.policy = p \/ r.policy = q)
    BY <2>2
  <2> QED BY <2>4, <2>5, <2>6, NoEvents DEF r, Passes
<1>5. CASE u \in DOMAIN S /\ u \notin p.suppressed /\ S[u].open
  <2> DEFINE i == S[u].index
             T == Shut(S, {u})
             q == [p EXCEPT !.segments = T]
             more == <<BlockStop(i)>>
  <2>1. S \in SegMap /\ u \notin p.dropped
    BY <1>1, <1>5 DEF Policy, Mirrors
  <2>2. [S EXCEPT ![u].open = FALSE] = T
    <3>1. S = [v \in DOMAIN S |-> S[v]]
      BY <2>1, MapIs DEF SegMap
    <3> QED BY <1>5, <3>1 DEF Shut
  <2>3. r = [policy |-> q, out |-> more]
    <3>1. r = [policy |-> [p EXCEPT !.segments = [S EXCEPT ![u].open = FALSE]], out |-> more]
      BY <1>1, <1>5, <2>1 DEF StopBlock, Result, Policy
    <3> QED BY <2>2, <3>1
  <2>4. /\ T \in SegMap /\ DOMAIN T = DOMAIN S
        /\ \A v \in DOMAIN S : /\ T[v].index = S[v].index /\ T[v].kind = S[v].kind
                               /\ (T[v].open <=> (S[v].open /\ v \notin {u}))
    BY <2>1, ShutIs
  <2> HIDE DEF r, T
  <2>5. /\ q \in Policy /\ q.next = p.next /\ q.segments = T /\ q.dropped = p.dropped
        /\ q.suppressed = p.suppressed
    BY <1>1, <2>4 DEF Policy
  <2> HIDE DEF q
  <2>6. Mirrors(q, x)
    <3>1. SegLayout(T, p.next)
      BY <1>1, <2>4 DEF SegLayout
    <3>2. \A v \in DOMAIN T : Agrees(T[v], x[v])
      BY <1>2, <2>4 DEF Agrees
    <3>3. \A v \in p.suppressed : v \in DOMAIN T /\ ~T[v].open
      BY <2>4 DEF Mirrors
    <3> QED BY <2>4, <2>5, <3>1, <3>2, <3>3 DEF Mirrors
  <2>7. i \in Int
    BY <1>1, <1>5, SegmentsAre
  <2>8. Sees(c, SegBlocks(S), p.next)
    BY DEF Carries
  <2>9. \E b \in SegBlocks(S) : b[1] = i
    <3> DEFINE b == <<S[u].index, S[u].kind>>
    <3>1. b \in SegBlocks(S) /\ b[1] = i
      BY <1>5 DEF SegBlocks, OpenSegments
    <3> HIDE DEF b
    <3> QED BY <3>1
  <2>10. But(SegBlocks(S), i) = SegBlocks(T)
    <3>1. OpenSegments(T) = {v \in OpenSegments(S) : v # u}
      BY <2>4 DEF OpenSegments
    <3>2. \A v \in OpenSegments(S) : S[v].index = i <=> v = u
      BY <1>1, <1>5 DEF OpenSegments, SegLayout
    <3>3. SegBlocks(T) = {<<S[v].index, S[v].kind>> : v \in OpenSegments(T)}
      BY <2>4, <3>1 DEF SegBlocks, OpenSegments
    <3> HIDE DEF i
    <3>4. ASSUME NEW b \in But(SegBlocks(S), i) PROVE b \in SegBlocks(T)
      <4>1. PICK v \in OpenSegments(S) : b = <<S[v].index, S[v].kind>>
        BY DEF But, SegBlocks
      <4>2. S[v].index # i
        BY <4>1 DEF But
      <4> QED BY <3>1, <3>2, <3>3, <4>1, <4>2
    <3>5. ASSUME NEW b \in SegBlocks(T) PROVE b \in But(SegBlocks(S), i)
      <4>1. PICK v \in OpenSegments(T) : b = <<S[v].index, S[v].kind>>
        BY <3>3
      <4>2. v \in OpenSegments(S) /\ S[v].index # i
        BY <3>1, <3>2, <4>1
      <4> QED BY <4>1, <4>2 DEF But, SegBlocks
    <3> QED BY <3>4, <3>5
  <2> HIDE DEF i
  <2>11. more \in Seq(StreamEvent)
    BY <2>7 DEF StreamEvent
  <2>12. Sees(Read(c, more), SegBlocks(T), p.next)
    BY <2>7, <2>8, <2>9, <2>10, SeesStop
  <2> HIDE DEF more
  <2>13. r.policy = q /\ r.out = more
    BY <2>3
  <2> QED BY <2>5, <2>6, <2>11, <2>12, <2>13 DEF r, Passes, Carries
<1> QED BY <1>4, <1>5

\* iter_midstream_error_tail: what the tracker knows is enough to end the stream.
LEMMA MidstreamGood ==
  ASSUME NEW open, NEW n \in Nat, Sees(client, open, n), Knows(tracker, client)
  PROVE  Accepts(Read(client, MidstreamTail))
<1> DEFINE o == tracker.open
           L == Len(o)
           q == [k \in 1..L |-> o[L + 1 - k]]
           a == [i \in 1..L |-> BlockStop(o[L + 1 - i])]
           b == ErrorBlock(tracker.max + 1)
           d == Read(client, a)
           m == Read(d, b)
<1>1. client \in Client /\ ~client.broken /\ client.open = open /\ client.seen = 0 .. n - 1
  BY DEF Sees
<1>2. /\ o \in Seq(Int) /\ tracker.max \in Int /\ tracker.max >= -1
      /\ Distinct(o) /\ Elements(o) = {x[1] : x \in open}
      /\ \A i \in client.seen : i <= tracker.max
      /\ tracker.max = -1 \/ tracker.max \in client.seen
  BY <1>1 DEF Knows, Tracker
<1>3. tracker.max + 1 = n
  <2>1. n # 0 => n - 1 \in 0 .. n - 1
    OBVIOUS
  <2>2. n # 0 => n - 1 <= tracker.max
    BY <1>1, <1>2, <2>1
  <2>3. tracker.max # -1 => tracker.max <= n - 1
    BY <1>1, <1>2
  <2> QED BY <1>2, <2>2, <2>3
<1>4. MidstreamTail = (a \o b) \o Ending
  BY DEF MidstreamTail
<1> HIDE DEF o
<1>5. L \in Nat /\ \A k \in 1..L : L + 1 - k \in 1..L /\ o[k] \in Int
  BY <1>2
<1>6. q \in Seq(Int) /\ Len(q) = L /\ \A k \in 1..L : q[k] = o[L + 1 - k]
  BY <1>5
<1>7. a = Stops(q)
  BY <1>6 DEF Stops
<1> HIDE DEF q, a
<1>8. Distinct(q)
  <2> SUFFICES ASSUME NEW j \in 1..Len(q), NEW k \in 1..Len(q), q[j] = q[k] PROVE j = k
    BY DEF Distinct
  <2>1. j \in 1..L /\ k \in 1..L
    BY <1>6
  <2>2. o[L + 1 - j] = o[L + 1 - k] /\ L + 1 - j \in 1..L /\ L + 1 - k \in 1..L
    BY <1>5, <1>6, <2>1
  <2>3. L + 1 - j = L + 1 - k
    BY <1>2, <2>2 DEF Distinct
  <2> QED BY <1>5, <2>1, <2>3
<1>9. Elements(q) = Elements(o)
  <2>1. ASSUME NEW k \in 1..L PROVE q[k] \in Elements(o)
    BY <1>5, <1>6 DEF Elements
  <2>2. ASSUME NEW k \in 1..L PROVE o[k] \in Elements(q)
    <3>1. PICK j \in 1..L : j = L + 1 - k
      BY <1>5
    <3>2. q[j] = o[k]
      <4>1. L + 1 - j = k
        BY <1>5, <3>1
      <4> QED BY <1>6, <3>1, <4>1
    <3> QED BY <1>6, <3>2 DEF Elements
  <2> QED BY <1>6, <2>1, <2>2 DEF Elements
<1>10. \A k \in 1..Len(q) : \E x \in open : x[1] = q[k]
  <2> SUFFICES ASSUME NEW k \in 1..Len(q) PROVE \E x \in open : x[1] = q[k]
    OBVIOUS
  <2>1. q[k] \in Elements(q)
    BY DEF Elements
  <2> QED BY <1>2, <1>9, <2>1
<1>11. a \in Seq(StreamEvent) /\ Sees(d, ButAll(open, q, Len(q)), n)
  BY <1>6, <1>7, <1>8, <1>10, SeesStops
<1>12. ButAll(open, q, Len(q)) = {}
  <2> SUFFICES ASSUME NEW x \in ButAll(open, q, Len(q)) PROVE FALSE
    OBVIOUS
  <2>1. x \in open /\ \A j \in 1..Len(q) : x[1] # q[j]
    BY DEF ButAll
  <2>2. x[1] \in Elements(q)
    BY <1>2, <1>9, <2>1
  <2> QED BY <2>1, <2>2 DEF Elements
<1>13. b = Whole(n, "text") /\ "text" \in BlockKinds /\ Below({}, n)
  BY <1>3 DEF ErrorBlock, Whole, BlockKinds, Below
<1> HIDE DEF b, d
<1>14. b \in Seq(StreamEvent) /\ Sees(m, {}, n + 1)
  BY <1>11, <1>12, <1>13, SeesWhole
<1>15. a \o b \in Seq(StreamEvent) /\ Read(client, a \o b) = m
  BY <1>1, <1>11, <1>14, ReadSplit DEF d
<1>16. Read(client, (a \o b) \o Ending) = Read(m, Ending)
  <2> DEFINE ab == a \o b
  <2> HIDE DEF ab, m
  <2>1. ab \in Seq(StreamEvent) /\ Read(client, ab) = m /\ Ending \in Seq(StreamEvent)
    BY <1>15, EndingIs DEF ab, m
  <2>2. Read(client, ab \o Ending) = Read(Read(client, ab), Ending)
    BY <1>1, <2>1, ReadSplit
  <2> QED BY <2>1, <2>2 DEF ab
<1> HIDE DEF m
<1>17. Accepts(Read(m, Ending))
  <2>1. n + 1 \in Nat /\ n + 1 # 0
    OBVIOUS
  <2> QED BY <1>14, <2>1, SeesEnd
<1> QED BY <1>4, <1>16, <1>17

\* A request that is refused before anything was sent.
LEMMA RefusedGood ==
  Accepts(Read(NewClient, <<Event("message_start")>> \o ErrorBlock(0) \o Ending))
<1> DEFINE x == <<Event("message_start")>>
           b == ErrorBlock(0)
           c == NewClient
           d == Read(c, x)
           m == Read(d, b)
           xb == x \o b
<1>1. c \in Client /\ Sees(d, {}, 0)
  BY SeesBegin
<1>2. x \in Seq(StreamEvent) /\ Ending \in Seq(StreamEvent)
  <2> DEFINE e == Event("message_start")
  <2>1. e \in StreamEvent
    BY DEF StreamEvent, PlainNames
  <2> HIDE DEF e
  <2> QED BY <2>1, EndingIs DEF e
<1>3. b = Whole(0, "text") /\ "text" \in BlockKinds /\ Below({}, 0)
  BY DEF ErrorBlock, Whole, BlockKinds, Below
<1> HIDE DEF b, c, d, x
<1>4. b \in Seq(StreamEvent) /\ Sees(m, {}, 0 + 1)
  BY <1>1, <1>3, SeesWhole
<1>5. xb \in Seq(StreamEvent) /\ Read(c, xb) = m
  BY <1>1, <1>2, <1>4, ReadSplit DEF d
<1> HIDE DEF xb, m
<1>6. Read(c, xb \o Ending) = Read(m, Ending)
  BY <1>1, <1>2, <1>5, ReadSplit
<1>7. Accepts(Read(m, Ending))
  <2>1. 0 + 1 \in Nat /\ 0 + 1 # 0
    OBVIOUS
  <2> QED BY <1>4, <2>1, SeesEnd
<1> QED BY <1>6, <1>7 DEF xb, x, b, c
-----------------------------------------------------------------------------
(* The native stream.                                                       *)

LEMMA NewUnbroken == NewClient \in Client /\ ~NewClient.broken /\ ~NewClient.begun
<1>1. NewClient \in Client
  BY SeesBegin
<1> QED BY <1>1 DEF NewClient

\* The first event of the upstream.
LEMMA MessageStartGood ==
  ASSUME Unused, client = NewClient, client' = Read(client, <<Event("message_start")>>)
  PROVE  Mirrors(policy, up) /\ Carries(client', policy) /\ Knows(tracker, client')
<1>1. Sees(client', {}, 0)
  BY SeesBegin
<1>2. /\ policy.next = 0 /\ policy.segments = <<>> /\ policy.dropped = {}
      /\ policy.suppressed = {} /\ DOMAIN policy.segments = {} /\ DOMAIN up = {}
  BY DEF Unused, NewPolicy
<1>3. <<>> \in SegMap /\ <<>> \in UpMap
  <2>1. {} \in SUBSET Upstream /\ IsFiniteSet({})
    BY FS_EmptySet
  <2>2. <<>> \in [{} -> Segment] /\ <<>> \in [{} -> UpBlock]
    OBVIOUS
  <2> QED BY <2>1, <2>2, MapMade DEF SegMap, UpMap
<1>4. policy \in Policy /\ up \in UpMap
  <2>1. {} \in SUBSET Upstream /\ 0 \in Nat /\ FALSE \in BOOLEAN
    OBVIOUS
  <2> QED BY <1>3, <2>1 DEF Unused, NewPolicy, Policy
<1>5. Mirrors(policy, up)
  BY <1>2, <1>4 DEF Mirrors, SegLayout
<1>6. SegBlocks(policy.segments) = {}
  BY <1>2 DEF SegBlocks, OpenSegments
<1>7. Knows(tracker, client')
  <2>1. tracker \in Tracker /\ tracker.open = <<>> /\ tracker.max = -1
    <3>1. <<>> \in Seq(Int) /\ -1 \in Int
      OBVIOUS
    <3> QED BY <3>1 DEF Unused, Tracker
  <2>2. client'.open = {} /\ client'.seen = {}
    <3>1. 0 .. 0 - 1 = {}
      OBVIOUS
    <3> QED BY <1>1, <3>1 DEF Sees
  <2>3. Distinct(tracker.open) /\ Elements(tracker.open) = {}
    BY <2>1 DEF Distinct, Elements
  <2> QED BY <2>1, <2>2, <2>3 DEF Knows
<1> QED BY <1>1, <1>2, <1>5, <1>6, <1>7 DEF Carries

\* An event that goes through the policy.
LEMMA PassKeeps ==
  ASSUME NativeInv, UNCHANGED serving, sent, NEW r, Passes(client, up', r), Pass(r)
  PROVE  NativeInv'
<1>1. /\ nphase = "streaming" /\ nphase' = nphase /\ policy' = r.policy
      /\ client' = Read(client, r.out) /\ tracker' = TrackAll(tracker, r.out)
      /\ sent' = TRUE
  BY DEF Pass
<1>2. Mirrors(policy', up') /\ Carries(client', policy') /\ r.out \in Seq(StreamEvent)
  BY <1>1 DEF Passes
<1>3. client \in Client /\ Knows(tracker, client)
  BY <1>1 DEF NativeInv, Carries, Sees
<1>4. Knows(tracker', client')
  BY <1>1, <1>2, <1>3, TrackKnows
<1> QED BY <1>1, <1>2, <1>4 DEF NativeInv

LEMMA BlockKeeps ==
  ASSUME NativeInv, UNCHANGED serving, NEW u \in Upstream,
         \/ \E kind \in Kinds : BlockStarts(u, kind) \/ BlockDeltas(u, kind)
         \/ BlockStops(u)
  PROVE  NativeInv'
<1>1. nphase = "streaming"
  BY DEF BlockStarts, BlockDeltas, BlockStops, Pass
<1>2. sent
  <2>1. CASE client.begun
    BY <1>1, <2>1, NewUnbroken DEF NativeInv
  <2>2. CASE BlockStops(u)
    <3>1. u \in DOMAIN up
      BY <2>2 DEF BlockStops
    <3> QED BY <1>1, <3>1 DEF NativeInv, Unused
  <2> QED BY <2>1, <2>2 DEF BlockStarts, BlockDeltas
<1>3. Mirrors(policy, up) /\ Carries(client, policy)
  BY <1>1, <1>2 DEF NativeInv
<1>4. up \in UpMap /\ up \in Map(Upstream, UpBlock)
  BY <1>3 DEF Mirrors, UpMap
<1>5. ASSUME NEW kind \in Kinds, up' = Assign(up, u, [kind |-> kind, stopped |-> FALSE])
      PROVE  Extends(up, up', u, kind)
  <2> DEFINE g == [kind |-> kind, stopped |-> FALSE]
  <2>1. g \in UpBlock /\ g.kind = kind /\ ~g.stopped
    BY DEF UpBlock
  <2> HIDE DEF g
  <2>2. Assigned(Map(Upstream, UpBlock), up, u, g)
    BY <1>4, <2>1, AssignIs
  <2>3. up' = Assign(up, u, g)
    BY <1>5 DEF g
  <2> QED BY <2>1, <2>2, <2>3 DEF Assigned, Extends, UpMap
<1>6. ASSUME NEW kind \in Kinds, BlockStarts(u, kind) PROVE NativeInv'
  <2> DEFINE r == StartBlock(policy, u, kind)
  <2>1. u \notin DOMAIN up /\ Pass(r) /\ Extends(up, up', u, kind)
    BY <1>5, <1>6 DEF BlockStarts
  <2>2. Passes(client, up', r)
    BY <1>3, <2>1, StartBlockGood
  <2> HIDE DEF r
  <2> QED BY <1>2, <2>1, <2>2, PassKeeps
<1>7. ASSUME NEW kind \in Kinds, BlockDeltas(u, kind) PROVE NativeInv'
  <2> DEFINE r == Delta(policy, u, kind)
  <2>1. Pass(r)
    BY <1>7 DEF BlockDeltas
  <2>2. IF u \in DOMAIN up THEN up' = up ELSE kind # "thinking"
    BY <1>7 DEF BlockDeltas
  <2>3. Extends(up, up', u, kind)
    <3>1. CASE u \in DOMAIN up
      <4>1. up' = up /\ up[u].kind = kind /\ ~up[u].stopped
        BY <1>7, <3>1 DEF BlockDeltas
      <4> QED BY <1>4, <3>1, <4>1 DEF Extends
    <3>2. CASE u \notin DOMAIN up
      BY <1>5, <1>7, <3>2 DEF BlockDeltas
    <3> QED BY <3>1, <3>2
  <2>4. Passes(client, up', r)
    BY <1>3, <2>2, <2>3, DeltaGood
  <2> HIDE DEF r
  <2> QED BY <1>2, <2>1, <2>4, PassKeeps
<1>8. CASE BlockStops(u)
  <2> DEFINE r == StopBlock(policy, u)
             x == [up EXCEPT ![u].stopped = TRUE]
  <2>1. u \in DOMAIN up /\ up' = x /\ Pass(r)
    BY <1>8 DEF BlockStops
  <2>2. /\ x \in UpMap /\ DOMAIN x = DOMAIN up /\ x[u].kind = up[u].kind
        /\ \A v \in DOMAIN up : v # u => x[v] = up[v]
    BY <1>4, <2>1, StopsBlock
  <2> HIDE DEF x
  <2>3. Passes(client, x, r)
    BY <1>3, <2>1, <2>2, StopBlockGood
  <2> HIDE DEF r
  <2> QED BY <1>2, <2>1, <2>3, PassKeeps
<1> QED BY <1>6, <1>7, <1>8

\* The upstream's message ends with all its blocks stopped.
LEMMA MessageStopKeeps ==
  ASSUME NativeInv, UNCHANGED serving, serving = "native", MessageStop
  PROVE  NativeInv'
<1>1. /\ nphase = "streaming" /\ client.begun /\ up # <<>> /\ nphase' = "done"
      /\ \A u \in DOMAIN up : up[u].stopped
      /\ client' = Read(client, Ending) /\ sent' = sent
  BY DEF MessageStop
<1>2. sent /\ sent' \in BOOLEAN
  BY <1>1, NewUnbroken DEF NativeInv
<1>3. Mirrors(policy, up) /\ Carries(client, policy)
  BY <1>1, <1>2 DEF NativeInv
<1>4. policy \in Policy /\ policy.next \in Nat /\ up \in Map(Upstream, UpBlock)
  BY <1>3 DEF Mirrors, Policy, UpMap
<1>5. policy'.dropped = policy.dropped
  <2>1. policy' = [policy EXCEPT !.stopped = TRUE]
    BY DEF MessageStop
  <2> QED BY <1>4, <2>1 DEF Policy
<1>6. SegBlocks(policy.segments) = {}
  <2>1. ASSUME NEW v \in DOMAIN policy.segments PROVE ~policy.segments[v].open
    <3>1. v \in DOMAIN up /\ Agrees(policy.segments[v], up[v])
      BY <1>3 DEF Mirrors
    <3> QED BY <1>1, <3>1 DEF Agrees
  <2> QED BY <2>1 DEF SegBlocks, OpenSegments
<1>7. Sees(client, {}, policy.next)
  BY <1>3, <1>6 DEF Carries
<1>8. ~client'.broken /\ (policy.next # 0 => Accepts(client'))
      /\ (policy.next = 0 => client'.seen = {})
  BY <1>1, <1>4, <1>7, SeesEnd
<1>9. policy.next = 0 => policy.dropped # {}
  <2> SUFFICES ASSUME policy.next = 0 PROVE policy.dropped # {}
    OBVIOUS
  <2>1. DOMAIN up # {}
    <3>1. up \in [DOMAIN up -> UpBlock]
      BY <1>4, MapIs
    <3> QED BY <1>1, <3>1
  <2>2. DOMAIN policy.segments = {}
    <3>1. \A v \in DOMAIN policy.segments : policy.segments[v].index \in 0 .. 0 - 1
      BY <1>3 DEF Mirrors, SegLayout
    <3>2. 0 .. 0 - 1 = {}
      OBVIOUS
    <3> QED BY <3>1, <3>2
  <2> QED BY <1>3, <2>1, <2>2 DEF Mirrors
<1> QED BY <1>1, <1>2, <1>5, <1>8, <1>9 DEF NativeInv

LEMMA NativeFailKeeps ==
  ASSUME NativeInv, UNCHANGED serving, serving = "native", NFail
  PROVE  NativeInv'
<1>1. /\ nphase = "streaming" /\ nphase' = "done" /\ sent' = sent
      /\ client' = Read(client, IF sent THEN MidstreamTail
                                ELSE <<Event("message_start")>> \o ErrorBlock(0) \o Ending)
  BY DEF NFail
<1>2. Accepts(client')
  <2>1. CASE sent
    <3> DEFINE open == SegBlocks(policy.segments)
               n == policy.next
    <3>1. Sees(client, open, n) /\ n \in Nat /\ Knows(tracker, client)
      BY <1>1, <2>1 DEF NativeInv, Carries, Mirrors, Policy
    <3> HIDE DEF open, n
    <3>2. Accepts(Read(client, MidstreamTail))
      BY <3>1, MidstreamGood
    <3> QED BY <1>1, <2>1, <3>2
  <2>2. CASE ~sent
    BY <1>1, <2>2, RefusedGood DEF NativeInv
  <2> QED BY <2>1, <2>2
<1>3. ~client'.broken /\ sent' \in BOOLEAN
  BY <1>1, <1>2 DEF Accepts, NativeInv
<1> QED BY <1>1, <1>2, <1>3 DEF NativeInv

LEMMA NativeStep ==
  ASSUME NativeInv, [Next]_gatewayVars
  PROVE  NativeInv'
<1>1. CASE UNCHANGED nativeVars /\ UNCHANGED serving /\ serving # "native"
  BY <1>1 DEF NativeInv, nativeVars, Unused
<1>2. CASE UNCHANGED gatewayVars
  BY <1>2 DEF NativeInv, gatewayVars, nativeVars, Unused
<1>3. CASE serving = "native" /\ NativeNext /\ UNCHANGED serving
  <2>1. CASE NStart
    BY <1>3, <2>1 DEF NStart, NativeInv, Unused
  <2>2. CASE MessageStart
    <3>1. nphase = "streaming" /\ ~sent
      BY <2>2 DEF MessageStart, NativeInv, Carries, Sees
    <3>2. Unused /\ client = NewClient /\ client' = Read(client, <<Event("message_start")>>)
      BY <2>2, <3>1 DEF MessageStart, NativeInv
    <3>3. Mirrors(policy, up) /\ Carries(client', policy) /\ Knows(tracker, client')
      BY <3>2, MessageStartGood
    <3> QED BY <1>3, <2>2, <3>1, <3>3 DEF MessageStart, NativeInv
  <2>3. CASE NCut
    <3>1. /\ nphase = "streaming" /\ nphase' = "cut"
          /\ UNCHANGED <<client, up, policy, tracker, sent>>
      BY <2>3 DEF NCut
    <3>2. ~client.broken
      BY <3>1, NewUnbroken DEF NativeInv, Carries, Sees
    <3> QED BY <1>3, <3>1, <3>2 DEF NativeInv
  <2> QED BY <1>3, <2>1, <2>2, <2>3, BlockKeeps, MessageStopKeeps, NativeFailKeeps DEF NativeNext
<1> QED BY <1>1, <1>2, <1>3 DEF Next

\* The inductive invariant of the native transport: the block policy's open segments
\* are the client's open blocks, and the tracker knows them too.
THEOREM NativeInductive == Spec => []NativeInv
<1>1. ASSUME Init PROVE NativeInv
  BY <1>1 DEF Init, NativeInit, NativeInv, Unused
<1>2. ASSUME NativeInv, [Next]_gatewayVars PROVE NativeInv'
  BY <1>2, NativeStep
<1> QED BY <1>1, <1>2, PTL DEF Spec
-----------------------------------------------------------------------------
(* Web tools, and the contract.                                             *)

LEMMA ToolUseGood == Sees(Read(NewClient, ToolUse), {}, 1)
<1> DEFINE e == Event("message_start")
           x == <<e>>
           b == Bare(0, "server_tool_use")
           c == NewClient
           d == Read(c, x)
<1>1. c \in Client /\ Sees(d, {}, 0)
  BY SeesBegin
<1>2. ToolUse = x \o b
  BY DEF ToolUse, Bare
<1>3. e \in StreamEvent
  BY DEF StreamEvent, PlainNames
<1> HIDE DEF e
<1>4. x \in Seq(StreamEvent)
  BY <1>3
<1>5. "server_tool_use" \in BlockKinds /\ Below({}, 0)
  BY DEF BlockKinds, Below
<1> HIDE DEF c, d
<1>6. b \in Seq(StreamEvent) /\ Sees(Read(d, b), {}, 0 + 1)
  BY <1>1, <1>5, SeesWhole
<1> HIDE DEF b, x
<1>7. Sees(Read(c, x \o b), {}, 0 + 1)
  BY <1>1, <1>4, <1>6, SeesMore DEF d
<1> QED BY <1>2, <1>7 DEF c

LEMMA ConclusionGood ==
  ASSUME NEW c, Sees(c, {}, 1), NEW kind \in BlockKinds
  PROVE  Accepts(Read(c, Conclusion(kind)))
<1> DEFINE a == Bare(1, kind)
           b == Whole(2, "text")
           d == Read(c, a)
           m == Read(d, b)
           ab == a \o b
<1>1. c \in Client
  BY DEF Sees
<1>2. Conclusion(kind) = (a \o b) \o Ending
  BY DEF Conclusion, Bare, Whole
<1>3. Below({}, 1) /\ Below({}, 2) /\ "text" \in BlockKinds /\ Ending \in Seq(StreamEvent)
  BY EndingIs DEF Below, BlockKinds
<1>4. a \in Seq(StreamEvent) /\ Sees(d, {}, 1 + 1)
  BY <1>3, SeesWhole
<1> HIDE DEF a, d
<1>5. b \in Seq(StreamEvent) /\ Sees(m, {}, 2 + 1)
  <2>1. Sees(d, {}, 2)
    BY <1>4
  <2> QED BY <1>3, <2>1, SeesWhole
<1> HIDE DEF b, m
<1>6. ab \in Seq(StreamEvent) /\ Read(c, ab) = m
  BY <1>1, <1>4, <1>5, ReadSplit DEF d, m
<1>7. Conclusion(kind) = ab \o Ending
  BY <1>2
<1> HIDE DEF ab
<1>8. Read(c, ab \o Ending) = Read(Read(c, ab), Ending)
  BY <1>1, <1>3, <1>6, ReadSplit
<1>9. Accepts(Read(m, Ending))
  <2>1. 2 + 1 \in Nat /\ 2 + 1 # 0
    OBVIOUS
  <2> QED BY <1>5, <2>1, SeesEnd
<1> QED BY <1>6, <1>7, <1>8, <1>9

LEMMA WebStep ==
  ASSUME WebInv, [Next]_gatewayVars
  PROVE  WebInv'
<1>1. CASE UNCHANGED webVars /\ UNCHANGED serving /\ serving # "web"
  BY <1>1 DEF WebInv, webVars
<1>2. CASE UNCHANGED gatewayVars
  BY <1>2 DEF WebInv, gatewayVars, webVars
<1>3. CASE serving = "web" /\ WebNext /\ UNCHANGED serving
  <2>1. CASE RunTool
    <3>1. client = NewClient
      BY <1>3, <2>1 DEF RunTool, WebInv
    <3>2. Sees(client', {}, 1)
      BY <2>1, <3>1, ToolUseGood DEF RunTool
    <3> QED BY <1>3, <2>1, <3>2 DEF RunTool, WebInv
  <2>2. CASE ToolAnswers
    <3> DEFINE kind == <<tool, "result">>
    <3>1. Sees(client, {}, 1) /\ kind \in BlockKinds
      BY <2>2 DEF ToolAnswers, WebInv, BlockKinds
    <3> HIDE DEF kind
    <3>2. Accepts(Read(client, Conclusion(kind)))
      BY <3>1, ConclusionGood
    <3>3. wphase' = "done" /\ Accepts(client')
      BY <2>2, <3>2 DEF ToolAnswers, kind
    <3> QED BY <1>3, <3>3 DEF WebInv
  <2>3. CASE WCut
    BY <1>3, <2>3 DEF WCut, WebInv, Sees
  <2> QED BY <1>3, <2>1, <2>2, <2>3 DEF WebNext
<1> QED BY <1>1, <1>2, <1>3 DEF Next

LEMMA UntouchedStep ==
  ASSUME Untouched, [Next]_gatewayVars
  PROVE  Untouched'
BY DEF Untouched, Next, gatewayVars

THEOREM WebInductive == Spec => [](WebInv /\ Untouched)
<1>1. ASSUME Init PROVE WebInv /\ Untouched
  <2>1. client = NewClient /\ wphase = "idle"
    BY <1>1 DEF Init, OpenAIInit, WebInit
  <2> QED BY <1>1, <2>1 DEF Init, WebInv, Untouched
<1> QED BY <1>1, WebStep, UntouchedStep, PTL DEF Spec

\* The client's contract (assert_anthropic_stream_contract) is kept on every side of
\* the gateway: no event is for a block that is not open or an index used before, and
\* a stream that ends has closed all its blocks, whatever the upstream does and
\* wherever it breaks off.
THEOREM ContractHolds == Spec => []ContractKept
<1>1. ASSUME OpenAIInv, NativeInv, WebInv, Untouched PROVE ContractKept
  <2>1. ~client.broken
    <3>1. CASE serving \in {"requests", "bailian"}
      BY <1>1, <3>1, NewUnbroken DEF Untouched
    <3>2. CASE serving = "openai"
      BY <1>1, <3>2, NewUnbroken, GoodUnbroken DEF OpenAIInv, Accepts
    <3>3. CASE serving = "native"
      BY <1>1, <3>3, NewUnbroken DEF NativeInv, Carries, Sees
    <3>4. CASE serving = "web"
      BY <1>1, <3>4, NewUnbroken DEF WebInv, Accepts, Sees
    <3> QED BY <1>1, <3>1, <3>2, <3>3, <3>4 DEF Untouched
  <2>2. phase = "done" => Accepts(client)
    BY <1>1 DEF OpenAIInv
  <2>3. wphase = "done" => Accepts(client)
    BY <1>1 DEF WebInv
  <2>4. nphase = "done" => Accepts(client) \/ (client.seen = {} /\ policy.dropped # {})
    BY <1>1 DEF NativeInv
  <2> QED BY <2>1, <2>2, <2>3, <2>4 DEF ContractKept
<1> QED BY <1>1, OpenAIInductive, NativeInductive, WebInductive, PTL
-----------------------------------------------------------------------------
(* The requests.  Lists that hold tags, each at one place.                   *)

\* A place of a concatenation is a place of one of its parts.
LEMMA PlaceOfConcat ==
  ASSUME NEW E, NEW x \in Seq(E), NEW y \in Seq(E), NEW k \in 1..Len(x \o y)
  PROVE  \/ k \in 1..Len(x) /\ (x \o y)[k] = x[k]
         \/ k - Len(x) \in 1..Len(y) /\ (x \o y)[k] = y[k - Len(x)]
<1>1. Len(x) \in Nat /\ Len(y) \in Nat /\ Len(x \o y) = Len(x) + Len(y)
  BY ConcatParts
<1>2. CASE k \in 1..Len(x)
  BY <1>2, ConcatParts
<1>3. CASE k \notin 1..Len(x)
  <2>1. k - Len(x) \in 1..Len(y) /\ Len(x) + (k - Len(x)) = k
    BY <1>1, <1>3
  <2>2. (x \o y)[Len(x) + (k - Len(x))] = y[k - Len(x)]
    BY <2>1, ConcatParts
  <2> QED BY <2>1, <2>2
<1> QED BY <1>2, <1>3

LEMMA OnceConcat ==
  ASSUME NEW V, NEW x \in Seq(Seq(V)), NEW y \in Seq(Seq(V)), NEW A, NEW B,
         Once(x, A), Once(y, B), A \cap B = {}
  PROVE  Once(x \o y, A \cup B)
<1> DEFINE u == x \o y
           K == Len(x)
<1>1. /\ u \in Seq(Seq(V)) /\ K \in Nat /\ Len(y) \in Nat
      /\ DOMAIN u = 1..(K + Len(y)) /\ DOMAIN x = 1..K /\ DOMAIN y = 1..Len(y)
      /\ \A k \in 1..K : u[k] = x[k]
      /\ \A k \in 1..Len(y) : u[K + k] = y[k]
  BY ConcatParts
<1>2. ASSUME NEW k \in DOMAIN u
      PROVE  (k \in DOMAIN x /\ u[k] = x[k]) \/ (k - K \in DOMAIN y /\ u[k] = y[k - K])
  <2>1. k \in 1..Len(x \o y)
    BY <1>1
  <2> QED BY <1>1, <2>1, PlaceOfConcat
<1>3. \A k \in DOMAIN u : k \in Int
  BY <1>1
<1>4. \A k \in DOMAIN y : k \in Int /\ K + k \in DOMAIN u
  BY <1>1
<1>5. \A k \in DOMAIN x : k \in DOMAIN u
  BY <1>1
<1>6. Members(x) = A /\ Members(y) = B /\ NoneTwice(x) /\ NoneTwice(y)
  BY DEF Once
<1> HIDE DEF u, K
<1>7. Members(u) = A \cup B
  <2>1. ASSUME NEW k \in DOMAIN u PROVE ToSet(u[k]) \subseteq A \cup B
    <3>1. CASE k \in DOMAIN x /\ u[k] = x[k]
      BY <1>6, <3>1 DEF Members
    <3>2. CASE k - K \in DOMAIN y /\ u[k] = y[k - K]
      BY <1>6, <3>2 DEF Members
    <3> QED BY <1>2, <3>1, <3>2
  <2>2. ASSUME NEW k \in DOMAIN x PROVE ToSet(x[k]) \subseteq Members(u)
    BY <1>1, <1>5 DEF Members
  <2>3. ASSUME NEW k \in DOMAIN y PROVE ToSet(y[k]) \subseteq Members(u)
    <3>1. u[K + k] = y[k] /\ K + k \in DOMAIN u
      BY <1>1, <1>4
    <3> QED BY <3>1 DEF Members
  <2>4. Members(u) \subseteq A \cup B
    BY <2>1 DEF Members
  <2>5. Members(x) \subseteq Members(u) /\ Members(y) \subseteq Members(u)
    BY <2>2, <2>3 DEF Members
  <2> QED BY <1>6, <2>4, <2>5
<1>8. ASSUME NEW i \in DOMAIN u, NEW k \in DOMAIN u, NEW j \in DOMAIN u[i], NEW l \in DOMAIN u[k],
             u[i][j] = u[k][l]
      PROVE  i = k /\ j = l
  <2>1. \A n \in DOMAIN x : \A m \in DOMAIN x[n] : x[n][m] \in A
    BY <1>6 DEF Members, ToSet
  <2>2. \A n \in DOMAIN y : \A m \in DOMAIN y[n] : y[n][m] \in B
    BY <1>6 DEF Members, ToSet
  <2>3. CASE i \in DOMAIN x /\ u[i] = x[i] /\ k \in DOMAIN x /\ u[k] = x[k]
    BY <1>6, <1>8, <2>3 DEF NoneTwice
  <2>4. CASE i - K \in DOMAIN y /\ u[i] = y[i - K] /\ k - K \in DOMAIN y /\ u[k] = y[k - K]
    <3>1. i - K = k - K /\ j = l
      BY <1>6, <1>8, <2>4 DEF NoneTwice
    <3> QED BY <1>1, <1>3, <3>1
  <2>5. CASE i \in DOMAIN x /\ u[i] = x[i] /\ k - K \in DOMAIN y /\ u[k] = y[k - K]
    BY <1>8, <2>1, <2>2, <2>5
  <2>6. CASE i - K \in DOMAIN y /\ u[i] = y[i - K] /\ k \in DOMAIN x /\ u[k] = x[k]
    BY <1>8, <2>1, <2>2, <2>6
  <2> QED BY <1>2, <2>3, <2>4, <2>5, <2>6
<1> QED BY <1>7, <1>8 DEF Once, NoneTwice, u

LEMMA OnceShort ==
  ASSUME NEW V, NEW s \in Seq(V), Distinct(s)
  PROVE  Once(<<>>, {}) /\ Once(<<s>>, ToSet(s)) /\ ToSet(s) = Elements(s)
<1>1. Once(<<>>, {})
  BY DEF Once, Members, NoneTwice
<1> DEFINE one == <<s>>
<1>2. DOMAIN one = {1} /\ one[1] = s
  OBVIOUS
<1>3. DOMAIN s = 1..Len(s)
  OBVIOUS
<1> HIDE DEF one
<1>4. Members(one) = ToSet(s)
  BY <1>2 DEF Members
<1>5. NoneTwice(one)
  BY <1>2, <1>3 DEF NoneTwice, Distinct
<1> QED BY <1>1, <1>3, <1>4, <1>5 DEF Once, one, ToSet, Elements

LEMMA ListsType ==
  ASSUME NEW x \in Seq(ChatMessage), \A i \in 1..Len(x) : x[i].role = "tool" => x[i].result # <<>>
  PROVE  /\ Texts(x) \in Seq(Seq(Tag)) /\ Calls(x) \in Seq(Seq(Tag)) /\ Answers(x) \in Seq(Seq(Tag))
         /\ Len(Texts(x)) = Len(x) /\ Len(Calls(x)) = Len(x) /\ Len(Answers(x)) = Len(x)
<1>1. DOMAIN x = 1..Len(x) /\ Len(x) \in Nat /\ \A i \in 1..Len(x) : x[i] \in ChatMessage
  OBVIOUS
<1>2. \A i \in 1..Len(x) : x[i].said \in Seq(Tag) /\ x[i].calls \in Seq(Tag)
  BY <1>1 DEF ChatMessage
<1>3. \A i \in 1..Len(x) :
        (IF x[i].role = "tool" THEN <<x[i].result>> ELSE <<>>) \in Seq(Tag)
  BY <1>1 DEF ChatMessage
<1> QED BY <1>1, <1>2, <1>3 DEF Texts, Calls, Answers

LEMMA IsConcat ==
  ASSUME NEW V, NEW p \in Seq(V), NEW q \in Seq(V), NEW r \in Seq(V), Len(r) = Len(p) + Len(q),
         \A k \in 1..Len(r) : r[k] = IF k <= Len(p) THEN p[k] ELSE q[k - Len(p)]
  PROVE  r = p \o q
<1> DEFINE w == p \o q
<1>1. /\ w \in Seq(V) /\ Len(w) = Len(p) + Len(q)
      /\ \A k \in 1..(Len(p) + Len(q)) : w[k] = IF k <= Len(p) THEN p[k] ELSE q[k - Len(p)]
  BY ConcatProperties
<1> HIDE DEF w
<1>2. \A k \in 1..Len(r) : r[k] = w[k]
  BY <1>1
<1>3. r = w
  BY <1>1, <1>2, SeqEqual
<1> QED BY <1>3 DEF w

LEMMA ListsConcat ==
  ASSUME NEW x \in Seq(ChatMessage), NEW y \in Seq(ChatMessage)
  PROVE  /\ Texts(x \o y) = Texts(x) \o Texts(y)
         /\ Calls(x \o y) = Calls(x) \o Calls(y)
         /\ Answers(x \o y) = Answers(x) \o Answers(y)
<1> DEFINE u == x \o y
           A(m) == IF m.role = "tool" THEN <<m.result>> ELSE <<>>
           V == Seq(Tag \cup {<<>>})
<1>1. /\ u \in Seq(ChatMessage) /\ Len(u) = Len(x) + Len(y) /\ Len(x) \in Nat /\ Len(y) \in Nat
      /\ DOMAIN u = 1..(Len(x) + Len(y)) /\ DOMAIN x = 1..Len(x) /\ DOMAIN y = 1..Len(y)
  BY ConcatParts
<1>2. \A k \in 1..(Len(x) + Len(y)) : u[k] = IF k <= Len(x) THEN x[k] ELSE y[k - Len(x)]
  BY ConcatProperties
<1>3. Texts(x) = [k \in 1..Len(x) |-> x[k].said] /\ Texts(y) = [k \in 1..Len(y) |-> y[k].said]
      /\ Texts(u) = [k \in 1..(Len(x) + Len(y)) |-> u[k].said]
  BY <1>1 DEF Texts
<1>4. Calls(x) = [k \in 1..Len(x) |-> x[k].calls] /\ Calls(y) = [k \in 1..Len(y) |-> y[k].calls]
      /\ Calls(u) = [k \in 1..(Len(x) + Len(y)) |-> u[k].calls]
  BY <1>1 DEF Calls
<1>5. Answers(x) = [k \in 1..Len(x) |-> A(x[k])] /\ Answers(y) = [k \in 1..Len(y) |-> A(y[k])]
      /\ Answers(u) = [k \in 1..(Len(x) + Len(y)) |-> A(u[k])]
  BY <1>1 DEF Answers
<1>9. ASSUME NEW m \in ChatMessage PROVE m.said \in V /\ m.calls \in V /\ A(m) \in V
  <2>1. m.said \in Seq(Tag) /\ m.calls \in Seq(Tag) /\ m.result \in Tag \cup {<<>>}
    BY DEF ChatMessage
  <2>2. \A t \in Seq(Tag) : t \in V
    OBVIOUS
  <2>3. A(m) \in V
    <3> DEFINE r == m.result
               U == Tag \cup {<<>>}
    <3>1. r \in U
      BY <2>1
    <3> HIDE DEF r, U
    <3>2. <<r>> \in Seq(U) /\ <<>> \in Seq(U)
      BY <3>1
    <3> QED BY <3>2 DEF r, U
  <2>4. m.said \in V /\ m.calls \in V
    BY <2>1, <2>2
  <2> QED BY <2>3, <2>4
<1>10. /\ \A k \in 1..Len(x) : x[k] \in ChatMessage
       /\ \A k \in 1..Len(y) : y[k] \in ChatMessage
       /\ \A k \in 1..(Len(x) + Len(y)) : u[k] \in ChatMessage
  BY <1>1
<1> HIDE DEF u, A
<1>6. Texts(u) = Texts(x) \o Texts(y)
  <2> DEFINE p == Texts(x)
             q == Texts(y)
             r == Texts(u)
  <2>1. p \in Seq(V) /\ q \in Seq(V) /\ r \in Seq(V)
    <3> HIDE DEF V
    <3>1. p \in Seq(V)
      BY <1>1, <1>3, <1>9, <1>10
    <3>2. q \in Seq(V)
      BY <1>1, <1>3, <1>9, <1>10
    <3>3. r \in Seq(V)
      BY <1>1, <1>3, <1>9, <1>10
    <3> QED BY <3>1, <3>2, <3>3
  <2>2. Len(p) = Len(x) /\ Len(q) = Len(y) /\ Len(r) = Len(x) + Len(y)
    BY <1>1, <1>3
  <2>3. ASSUME NEW k \in 1..(Len(x) + Len(y))
        PROVE  r[k] = IF k <= Len(x) THEN p[k] ELSE q[k - Len(x)]
    <3>1. k <= Len(x) => k \in 1..Len(x)
      BY <1>1
    <3>2. ~(k <= Len(x)) => k - Len(x) \in 1..Len(y)
      BY <1>1
    <3> QED BY <1>2, <1>3, <3>1, <3>2
  <2> HIDE DEF V, p, q, r
  <2>4. /\ Len(r) = Len(p) + Len(q)
        /\ \A k \in 1..Len(r) : r[k] = IF k <= Len(p) THEN p[k] ELSE q[k - Len(p)]
    BY <2>2, <2>3
  <2>5. r = p \o q
    BY <2>1, <2>4, IsConcat
  <2> QED BY <2>5 DEF p, q, r
<1>7. Calls(u) = Calls(x) \o Calls(y)
  <2> DEFINE p == Calls(x)
             q == Calls(y)
             r == Calls(u)
  <2>1. p \in Seq(V) /\ q \in Seq(V) /\ r \in Seq(V)
    <3> HIDE DEF V
    <3>1. p \in Seq(V)
      BY <1>1, <1>4, <1>9, <1>10
    <3>2. q \in Seq(V)
      BY <1>1, <1>4, <1>9, <1>10
    <3>3. r \in Seq(V)
      BY <1>1, <1>4, <1>9, <1>10
    <3> QED BY <3>1, <3>2, <3>3
  <2>2. Len(p) = Len(x) /\ Len(q) = Len(y) /\ Len(r) = Len(x) + Len(y)
    BY <1>1, <1>4
  <2>3. ASSUME NEW k \in 1..(Len(x) + Len(y))
        PROVE  r[k] = IF k <= Len(x) THEN p[k] ELSE q[k - Len(x)]
    <3>1. k <= Len(x) => k \in 1..Len(x)
      BY <1>1
    <3>2. ~(k <= Len(x)) => k - Len(x) \in 1..Len(y)
      BY <1>1
    <3> QED BY <1>2, <1>4, <3>1, <3>2
  <2> HIDE DEF V, p, q, r
  <2>4. /\ Len(r) = Len(p) + Len(q)
        /\ \A k \in 1..Len(r) : r[k] = IF k <= Len(p) THEN p[k] ELSE q[k - Len(p)]
    BY <2>2, <2>3
  <2>5. r = p \o q
    BY <2>1, <2>4, IsConcat
  <2> QED BY <2>5 DEF p, q, r
<1>8. Answers(u) = Answers(x) \o Answers(y)
  <2> DEFINE p == Answers(x)
             q == Answers(y)
             r == Answers(u)
  <2>1. p \in Seq(V) /\ q \in Seq(V) /\ r \in Seq(V)
    <3> HIDE DEF V
    <3>1. p \in Seq(V)
      BY <1>1, <1>5, <1>9, <1>10
    <3>2. q \in Seq(V)
      BY <1>1, <1>5, <1>9, <1>10
    <3>3. r \in Seq(V)
      BY <1>1, <1>5, <1>9, <1>10
    <3> QED BY <3>1, <3>2, <3>3
  <2>2. Len(p) = Len(x) /\ Len(q) = Len(y) /\ Len(r) = Len(x) + Len(y)
    BY <1>1, <1>5
  <2>3. ASSUME NEW k \in 1..(Len(x) + Len(y))
        PROVE  r[k] = IF k <= Len(x) THEN p[k] ELSE q[k - Len(x)]
    <3>1. k <= Len(x) => k \in 1..Len(x)
      BY <1>1
    <3>2. ~(k <= Len(x)) => k - Len(x) \in 1..Len(y)
      BY <1>1
    <3> QED BY <1>2, <1>5, <3>1, <3>2
  <2> HIDE DEF V, p, q, r
  <2>4. /\ Len(r) = Len(p) + Len(q)
        /\ \A k \in 1..Len(r) : r[k] = IF k <= Len(p) THEN p[k] ELSE q[k - Len(p)]
    BY <2>2, <2>3
  <2>5. r = p \o q
    BY <2>1, <2>4, IsConcat
  <2> QED BY <2>5 DEF p, q, r
<1> QED BY <1>6, <1>7, <1>8 DEF u

LEMMA ConveysConcat ==
  ASSUME NEW thinking, NEW x, NEW y, NEW T1, NEW C1, NEW R1, NEW T2, NEW C2, NEW R2,
         Conveys(x, T1, C1, R1, thinking), Conveys(y, T2, C2, R2, thinking),
         T1 \cap T2 = {}, C1 \cap C2 = {}, R1 \cap R2 = {}
  PROVE  Conveys(x \o y, T1 \cup T2, C1 \cup C2, R1 \cup R2, thinking)
<1>1. x \in Seq(ChatMessage) /\ y \in Seq(ChatMessage)
  BY DEF Conveys
<1>2. /\ Texts(x) \in Seq(Seq(Tag)) /\ Calls(x) \in Seq(Seq(Tag)) /\ Answers(x) \in Seq(Seq(Tag))
      /\ Texts(y) \in Seq(Seq(Tag)) /\ Calls(y) \in Seq(Seq(Tag)) /\ Answers(y) \in Seq(Seq(Tag))
  BY ListsType DEF Conveys
<1> DEFINE u == x \o y
<1>3. Once(Texts(u), T1 \cup T2) /\ Once(Calls(u), C1 \cup C2) /\ Once(Answers(u), R1 \cup R2)
  <2>1. Once(Texts(u), T1 \cup T2)
    <3>1. Once(Texts(x), T1) /\ Once(Texts(y), T2)
      BY DEF Conveys
    <3>2. Once(Texts(x) \o Texts(y), T1 \cup T2)
      BY <1>2, <3>1, OnceConcat
    <3> QED BY <1>1, <3>2, ListsConcat
  <2>2. Once(Calls(u), C1 \cup C2)
    <3>1. Once(Calls(x), C1) /\ Once(Calls(y), C2)
      BY DEF Conveys
    <3>2. Once(Calls(x) \o Calls(y), C1 \cup C2)
      BY <1>2, <3>1, OnceConcat
    <3> QED BY <1>1, <3>2, ListsConcat
  <2>3. Once(Answers(u), R1 \cup R2)
    <3>1. Once(Answers(x), R1) /\ Once(Answers(y), R2)
      BY DEF Conveys
    <3>2. Once(Answers(x) \o Answers(y), R1 \cup R2)
      BY <1>2, <3>1, OnceConcat
    <3> QED BY <1>1, <3>2, ListsConcat
  <2> QED BY <2>1, <2>2, <2>3
<1>4. u \in Seq(ChatMessage)
  BY <1>1, ConcatParts
<1>5. ASSUME NEW i \in 1..Len(u)
      PROVE  (u[i].role = "tool" => u[i].result # <<>>) /\ (~thinking => u[i].reasoning = <<>>)
  <2>1. \/ i \in 1..Len(x) /\ u[i] = x[i]
        \/ i - Len(x) \in 1..Len(y) /\ u[i] = y[i - Len(x)]
    BY <1>1, PlaceOfConcat
  <2> HIDE DEF u
  <2> QED BY <2>1 DEF Conveys
<1> QED BY <1>3, <1>4, <1>5 DEF Conveys

LEMMA NotATag == \A t \in Tag : t # <<>>
<1>1. \A t \in Nat \X Nat : Len(t) = 2
  OBVIOUS
<1>2. \A t \in Tag : Len(t) = 2
  BY <1>1 DEF Tag
<1>3. \A t \in Tag : t # <<>>
  BY <1>2
<1> QED BY <1>3

\* One message.
LEMMA ConveysOne ==
  ASSUME NEW thinking, NEW m \in ChatMessage, Distinct(m.said), Distinct(m.calls),
         m.role = "tool" => m.result # <<>>, ~thinking => m.reasoning = <<>>
  PROVE  Conveys(<<m>>, Elements(m.said), Elements(m.calls),
                 IF m.role = "tool" THEN {m.result} ELSE {}, thinking)
<1> DEFINE one == <<m>>
           answer == IF m.role = "tool" THEN <<m.result>> ELSE <<>>
<1>1. one \in Seq(ChatMessage) /\ DOMAIN one = {1} /\ Len(one) = 1 /\ one[1] = m
  OBVIOUS
<1>2. m.said \in Seq(Tag) /\ m.calls \in Seq(Tag) /\ m.result \in Tag \cup {<<>>}
  BY DEF ChatMessage
<1> HIDE DEF one
<1>3. Texts(one) = <<m.said>> /\ Calls(one) = <<m.calls>>
  BY <1>1 DEF Texts, Calls
<1>4. Answers(one) = <<answer>>
  BY <1>1 DEF Answers
<1>5. Once(Texts(one), Elements(m.said)) /\ Once(Calls(one), Elements(m.calls))
  BY <1>2, <1>3, OnceShort
<1>6. Once(Answers(one), IF m.role = "tool" THEN {m.result} ELSE {})
  <2>1. answer \in Seq(Tag) /\ Distinct(answer)
    BY <1>2 DEF Distinct
  <2>2. Elements(answer) = IF m.role = "tool" THEN {m.result} ELSE {}
    BY DEF Elements
  <2> HIDE DEF answer
  <2> QED BY <1>4, <2>1, <2>2, OnceShort
<1>7. \A i \in 1..Len(one) : i = 1
  BY <1>1
<1> QED BY <1>1, <1>5, <1>6, <1>7 DEF Conveys, one

LEMMA ConveysNone == ASSUME NEW thinking PROVE Conveys(<<>>, {}, {}, {}, thinking)
<1>1. Texts(<<>>) = <<>> /\ Calls(<<>>) = <<>> /\ Answers(<<>>) = <<>>
  BY DEF Texts, Calls, Answers
<1>2. Once(<<>>, {})
  BY DEF Once, Members, NoneTwice
<1> QED BY <1>1, <1>2 DEF Conveys
-----------------------------------------------------------------------------
(* The blocks of a message, and parts of them.                               *)

LEMMA ToSetIs == ASSUME NEW E, NEW s \in Seq(E) PROVE ToSet(s) = Elements(s) /\ Elements(s) \subseteq E
<1>1. DOMAIN s = 1..Len(s) /\ \A i \in 1..Len(s) : s[i] \in E
  OBVIOUS
<1> QED BY <1>1 DEF ToSet, Elements

LEMMA KeepApart ==
  ASSUME NEW s, Apart(s), NEW keep
  PROVE  /\ Apart(Keep(s, keep))
         /\ Elements(Keep(s, keep)) = {s[i] : i \in (1..Len(s)) \cap keep}
         /\ Elements(Keep(s, keep)) \subseteq Elements(s)
<1> DEFINE w == Keep(s, keep)
<1>1. /\ w \in Seq(TaggedBlock)
      /\ Elements(w) = {s[i] : i \in (1..Len(s)) \cap keep}
      /\ Distinct(w)
  BY KeepProperties DEF Apart
<1> HIDE DEF w
<1>2. Elements(w) \subseteq Elements(s)
  BY <1>1 DEF Elements
<1>3. Apart(w)
  BY <1>1, <1>2 DEF Apart
<1> QED BY <1>1, <1>2, <1>3 DEF w

LEMMA OfIs ==
  ASSUME NEW s, Apart(s), NEW types
  PROVE  Apart(Of(s, types)) /\ Elements(Of(s, types)) = {b \in Elements(s) : b.type \in types}
<1> DEFINE keep == {i \in DOMAIN s : s[i].type \in types}
<1>1. DOMAIN s = 1..Len(s)
  BY DEF Apart
<1>2. {s[i] : i \in (1..Len(s)) \cap keep} = {b \in Elements(s) : b.type \in types}
  BY <1>1 DEF Elements
<1> HIDE DEF keep
<1>3. Apart(Keep(s, keep)) /\ Elements(Keep(s, keep)) = {b \in Elements(s) : b.type \in types}
  BY <1>2, KeepApart
<1> QED BY <1>3 DEF Of, keep

LEMMA TagsIs ==
  ASSUME NEW s, Apart(s)
  PROVE  /\ Tags(s) \in Seq(Tag) /\ Len(Tags(s)) = Len(s)
         /\ \A i \in 1..Len(s) : Tags(s)[i] = s[i].tag
         /\ Elements(Tags(s)) = {b.tag : b \in Elements(s)}
         /\ Distinct(Tags(s))
<1>1. DOMAIN s = 1..Len(s) /\ Len(s) \in Nat /\ \A i \in 1..Len(s) : s[i] \in TaggedBlock
  BY DEF Apart
<1>2. \A i \in 1..Len(s) : s[i].tag \in Tag /\ s[i] \in Elements(s)
  BY <1>1 DEF TaggedBlock, Elements
<1> DEFINE t == Tags(s)
<1>3. t = [i \in 1..Len(s) |-> s[i].tag]
  BY <1>1 DEF Tags
<1> HIDE DEF t
<1>4. t \in Seq(Tag) /\ Len(t) = Len(s) /\ \A i \in 1..Len(s) : t[i] = s[i].tag
  BY <1>1, <1>2, <1>3
<1>5. Elements(t) = {b.tag : b \in Elements(s)}
  BY <1>4 DEF Elements
<1>6. Distinct(t)
  <2> SUFFICES ASSUME NEW i \in 1..Len(s), NEW j \in 1..Len(s), t[i] = t[j] PROVE i = j
    BY <1>4 DEF Distinct
  <2>1. s[i] = s[j]
    BY <1>2, <1>4 DEF Apart
  <2> QED BY <2>1 DEF Apart, Distinct
<1> QED BY <1>4, <1>5, <1>6 DEF t

LEMMA OfTags ==
  ASSUME NEW s, Apart(s), NEW types
  PROVE  LET t == Tags(Of(s, types))
         IN  t \in Seq(Tag) /\ Distinct(t) /\ Elements(t) = ElementsOf(Elements(s), types)
<1>1. Apart(Of(s, types)) /\ Elements(Of(s, types)) = {b \in Elements(s) : b.type \in types}
  BY OfIs
<1> QED BY <1>1, TagsIs DEF ElementsOf

\* An assistant message, with whatever calls are added to it.
LEMMA AssistantConveys ==
  ASSUME NEW s, Apart(s), NEW thinking, NEW calls \in Seq(Tag), Distinct(calls)
  PROVE  LET m == AssistantSays(s, thinking)
             n == Calling(s, thinking, calls)
         IN  /\ m \in ChatMessage /\ n \in ChatMessage /\ n.calls = calls
             /\ m.calls = Tags(Of(s, {"tool_use"}))
             /\ Conveys(<<m>>, ElementsOf(Elements(s), {"text"}), ElementsOf(Elements(s), {"tool_use"}),
                        {}, thinking)
             /\ Conveys(<<n>>, ElementsOf(Elements(s), {"text"}), Elements(calls), {}, thinking)
<1> DEFINE m == AssistantSays(s, thinking)
           n == Calling(s, thinking, calls)
           said == Tags(Of(s, {"text"}))
           own == Tags(Of(s, {"tool_use"}))
           reasoning == IF thinking THEN Tags(Of(s, Thinking)) ELSE <<>>
<1>1. said \in Seq(Tag) /\ Distinct(said) /\ Elements(said) = ElementsOf(Elements(s), {"text"})
  BY OfTags
<1>2. own \in Seq(Tag) /\ Distinct(own) /\ Elements(own) = ElementsOf(Elements(s), {"tool_use"})
  BY OfTags
<1>3. reasoning \in Seq(Tag) /\ (~thinking => reasoning = <<>>)
  <2>1. Tags(Of(s, Thinking)) \in Seq(Tag)
    BY OfTags
  <2> QED BY <2>1
<1>4. m = [role |-> "assistant", said |-> said, calls |-> own, reasoning |-> reasoning,
           result |-> <<>>]
  BY DEF AssistantSays, Chat
<1>9. n = [m EXCEPT !.calls = calls]
  BY DEF Calling
<1> HIDE DEF m, n, said, own, reasoning
<1>5. /\ m \in ChatMessage /\ m.said = said /\ m.calls = own /\ m.role = "assistant"
      /\ m.reasoning = reasoning
  <2>1. m \in ChatMessage
    <3> DEFINE none == <<>>
               R == Tag \cup {none}
               P == Seq(Tag)
    <3>1. none \in R /\ said \in P /\ own \in P /\ reasoning \in P
      BY <1>1, <1>2, <1>3
    <3> HIDE DEF none, R, P
    <3>2. [role |-> "assistant", said |-> said, calls |-> own, reasoning |-> reasoning, result |-> none]
            \in [role : Role, said : P, calls : P, reasoning : P, result : R]
      BY <3>1 DEF Role
    <3> QED BY <1>4, <3>2 DEF ChatMessage, none, R, P
  <2> QED BY <1>4, <2>1
<1>6. /\ n \in ChatMessage /\ n.said = said /\ n.calls = calls /\ n.role = "assistant"
      /\ n.reasoning = reasoning
  <2>1. n \in ChatMessage
    BY <1>5, <1>9 DEF ChatMessage
  <2> QED BY <1>4, <1>9, <2>1
<1>7. Conveys(<<m>>, Elements(said), Elements(own), {}, thinking)
  <2>1. Conveys(<<m>>, Elements(m.said), Elements(m.calls),
                IF m.role = "tool" THEN {m.result} ELSE {}, thinking)
    BY <1>1, <1>2, <1>3, <1>5, ConveysOne
  <2>2. m.role # "tool"
    BY <1>5
  <2> QED BY <1>5, <2>1, <2>2
<1>8. Conveys(<<n>>, Elements(said), Elements(calls), {}, thinking)
  <2>1. Conveys(<<n>>, Elements(n.said), Elements(n.calls),
                IF n.role = "tool" THEN {n.result} ELSE {}, thinking)
    BY <1>1, <1>2, <1>3, <1>6, ConveysOne
  <2>2. n.role # "tool"
    BY <1>6
  <2> QED BY <1>6, <2>1, <2>2
<1> QED BY <1>1, <1>2, <1>5, <1>6, <1>7, <1>8 DEF m, n, said, own
-----------------------------------------------------------------------------
(* What each kind of message contributes.                                    *)

LEMMA UserConveys ==
  ASSUME NEW t \in Tag, NEW thinking
  PROVE  /\ UserSays(<<t>>) = <<Chat("user", <<t>>, <<>>, <<>>, <<>>)>>
         /\ Conveys(UserSays(<<t>>), {t}, {}, {}, thinking)
         /\ Len(UserSays(<<t>>)) = 1 /\ UserSays(<<t>>)[1].calls = <<>>
         /\ UserSays(<<>>) = <<>>
<1> DEFINE said == <<t>>
           none == <<>>
           m == [role |-> "user", said |-> said, calls |-> none, reasoning |-> none, result |-> none]
<1>1. said \in Seq(Tag) /\ none \in Seq(Tag) /\ said # none /\ Len(said) = 1 /\ Len(none) = 0
      /\ said[1] = t /\ none \in Tag \cup {<<>>} /\ none = <<>>
  OBVIOUS
<1>2. Distinct(said) /\ Distinct(none) /\ Elements(said) = {t} /\ Elements(none) = {}
  BY <1>1 DEF Distinct, Elements
<1>3. Chat("user", said, none, none, none) = m
  BY DEF Chat
<1> HIDE DEF said, none
<1>4. m \in ChatMessage /\ m.said = said /\ m.calls = none /\ m.role # "tool" /\ m.reasoning = none
  BY <1>1 DEF ChatMessage, Role
<1> HIDE DEF m
<1>5. Conveys(<<m>>, {t}, {}, {}, thinking)
  BY <1>1, <1>2, <1>4, ConveysOne
<1>6. UserSays(said) = <<m>> /\ UserSays(none) = none
  BY <1>1, <1>3 DEF UserSays
<1>7. Len(<<m>>) = 1 /\ <<m>>[1] = m
  OBVIOUS
<1> QED BY <1>1, <1>3, <1>4, <1>5, <1>6, <1>7 DEF said, none

LEMMA ToolConveys ==
  ASSUME NEW b \in TaggedBlock, NEW thinking
  PROVE  /\ ToolSays(b).calls = <<>> /\ ToolSays(b).result = b.tag
         /\ Conveys(<<ToolSays(b)>>, {}, {}, {b.tag}, thinking)
<1> DEFINE none == <<>>
           m == [role |-> "tool", said |-> none, calls |-> none, reasoning |-> none, result |-> b.tag]
<1>1. none \in Seq(Tag) /\ Len(none) = 0 /\ none = <<>> /\ b.tag \in Tag
  BY DEF TaggedBlock
<1>2. Distinct(none) /\ Elements(none) = {}
  BY <1>1 DEF Distinct, Elements
<1>3. ToolSays(b) = m
  BY DEF ToolSays, Chat
<1>4. b.tag # <<>>
  BY <1>1, NotATag
<1> HIDE DEF none
<1>5. m \in ChatMessage /\ m.said = none /\ m.calls = none /\ m.role = "tool" /\ m.reasoning = none
      /\ m.result = b.tag
  BY <1>1 DEF ChatMessage, Role
<1> HIDE DEF m
<1>6. Conveys(<<m>>, {}, {}, {b.tag}, thinking)
  BY <1>1, <1>2, <1>4, <1>5, ConveysOne
<1> QED BY <1>1, <1>3, <1>5, <1>6

LEMMA DeferredConveys ==
  ASSUME NEW p, NEW T, Deferring(p, T), NEW thinking
  PROVE  /\ Conveys(Deferred(p, thinking), T, {}, {}, thinking)
         /\ Silent(Deferred(p, thinking))
         /\ p.blocks = <<>> => Deferred(p, thinking) = <<>> /\ T = {}
<1> DEFINE s == p.blocks
           m == AssistantSays(s, thinking)
<1>1. Apart(s) /\ ElementsOf(Elements(s), {"text"}) = T /\ \A b \in Elements(s) : b.type # "tool_use"
  BY DEF Deferring
<1>2. CASE s = <<>>
  <2>1. Deferred(p, thinking) = <<>> /\ Len(<<>>) = 0
    BY <1>2 DEF Deferred
  <2>2. Elements(s) = {}
    BY <1>2 DEF Elements
  <2>3. T = {}
    BY <1>1, <2>2 DEF ElementsOf
  <2> QED BY <2>1, <2>3, ConveysNone DEF Silent
<1>3. CASE s # <<>>
  <2> HIDE DEF m
  <2>1. Deferred(p, thinking) = <<m>>
    BY <1>3 DEF Deferred, m
  <2>2. Distinct(<<>>) /\ <<>> \in Seq(Tag)
    BY DEF Distinct
  <2>3. /\ m.calls = Tags(Of(s, {"tool_use"}))
        /\ Conveys(<<m>>, T, ElementsOf(Elements(s), {"tool_use"}), {}, thinking)
    BY <1>1, <2>2, AssistantConveys DEF m
  <2>4. ElementsOf(Elements(s), {"tool_use"}) = {}
    BY <1>1 DEF ElementsOf
  <2>5. m.calls = <<>>
    <3> DEFINE c == Tags(Of(s, {"tool_use"}))
    <3>1. c \in Seq(Tag) /\ Elements(c) = {}
      BY <1>1, <2>4, OfTags
    <3> HIDE DEF c
    <3>2. Len(c) \in Nat /\ (Len(c) = 0 => c = <<>>)
      BY <3>1
    <3>3. Len(c) # 0 => c[1] \in Elements(c)
      BY <3>2 DEF Elements
    <3> QED BY <2>3, <3>1, <3>2, <3>3 DEF c
  <2>6. Silent(<<m>>)
    <3>1. Len(<<m>>) = 1 /\ <<m>>[1] = m
      OBVIOUS
    <3> QED BY <2>5, <3>1 DEF Silent
  <2> QED BY <1>3, <2>1, <2>3, <2>4, <2>6
<1> QED BY <1>2, <1>3

\* A message with calls: the texts before them go out with them, the others wait.
LEMMA SplitConveys ==
  ASSUME NEW s, Apart(s), NEW thinking
  PROVE  LET split == Split(s, thinking)
             calls == Tags(Of(s, {"tool_use"}))
         IN  \E n \in ChatMessage : \E T1, T2 :
               /\ split.out = <<n>> /\ n.calls = calls
               /\ Conveys(split.out, T1, Elements(calls), {}, thinking)
               /\ Deferring(split.pending, T2)
               /\ T1 \cap T2 = {} /\ T1 \cup T2 = ElementsOf(Elements(s), {"text"})
               /\ split.pending.ids = IF split.pending.blocks = <<>> THEN {} ELSE Elements(calls)
<1> DEFINE calls == Tags(Of(s, {"tool_use"}))
           others == {i \in DOMAIN s : s[i].type # "tool_use"}
           first == {i \in DOMAIN s : 1..i \subseteq others}
           pre == Keep(s, first)
           later == Keep(s, others \ first)
           n == Calling(pre, thinking, calls)
           pending == IF later = <<>> THEN NoPending ELSE [ids |-> ToSet(calls), blocks |-> later]
           T1 == ElementsOf(Elements(pre), {"text"})
           T2 == ElementsOf(Elements(later), {"text"})
<1>1. DOMAIN s = 1..Len(s) /\ Len(s) \in Nat
  BY DEF Apart
<1>2. Split(s, thinking) = [out |-> <<n>>, pending |-> pending]
  BY DEF Split, Calling
<1>3. others \subseteq 1..Len(s) /\ first \subseteq others
  <2>1. \A i \in 1..Len(s) : i \in 1..i
    BY <1>1
  <2> QED BY <1>1, <2>1
<1>4. \A i \in 1..Len(s) : s[i].type = "text" => i \in others
  BY <1>1
<1>5. \A i \in others : s[i].type # "tool_use"
  OBVIOUS
<1> HIDE DEF others, first
<1>6. Apart(pre) /\ Elements(pre) = {s[i] : i \in first} /\ Elements(pre) \subseteq Elements(s)
  <2>1. (1..Len(s)) \cap first = first
    BY <1>3
  <2> QED BY <2>1, KeepApart
<1>7. Apart(later) /\ Elements(later) = {s[i] : i \in others \ first} /\ Elements(later) \subseteq Elements(s)
  <2>1. (1..Len(s)) \cap (others \ first) = others \ first
    BY <1>3
  <2> QED BY <2>1, KeepApart
<1> HIDE DEF pre, later
<1>8. calls \in Seq(Tag) /\ Distinct(calls)
  BY OfTags
<1>9. ToSet(calls) = Elements(calls)
  BY <1>8, ToSetIs
<1> HIDE DEF calls
<1>10. n \in ChatMessage /\ n.calls = calls /\ Conveys(<<n>>, T1, Elements(calls), {}, thinking)
  BY <1>6, <1>8, AssistantConveys
<1> HIDE DEF n
<1>11. T1 \cup T2 = ElementsOf(Elements(s), {"text"})
  <2>1. T1 \cup T2 \subseteq ElementsOf(Elements(s), {"text"})
    BY <1>6, <1>7 DEF ElementsOf
  <2>2. ASSUME NEW b \in Elements(s), b.type = "text" PROVE b \in Elements(pre) \cup Elements(later)
    <3>1. PICK i \in 1..Len(s) : b = s[i]
      BY DEF Elements
    <3>2. i \in others
      BY <1>4, <2>2, <3>1
    <3> QED BY <1>6, <1>7, <3>1, <3>2
  <2>3. ElementsOf(Elements(s), {"text"}) \subseteq T1 \cup T2
    BY <2>2 DEF ElementsOf
  <2> QED BY <2>1, <2>3
<1>12. T1 \cap T2 = {}
  <2>1. Elements(pre) \cap Elements(later) = {}
    <3> SUFFICES ASSUME NEW i \in first, NEW k \in others \ first, s[i] = s[k] PROVE FALSE
      BY <1>6, <1>7
    <3>1. i \in 1..Len(s) /\ k \in 1..Len(s) /\ i # k
      BY <1>3
    <3> QED BY <3>1 DEF Apart, Distinct
  <2>2. \A b \in Elements(pre), c \in Elements(later) : b.tag # c.tag
    BY <1>6, <1>7, <2>1 DEF Apart
  <2> QED BY <2>2 DEF ElementsOf
<1>13. /\ Deferring(pending, T2)
       /\ pending.ids = IF pending.blocks = <<>> THEN {} ELSE Elements(calls)
  <2>1. CASE later = <<>>
    <3>1. pending = [ids |-> {}, blocks |-> later]
      BY <2>1 DEF NoPending
    <3>2. \A b \in Elements(later) : b.type # "tool_use"
      BY <1>5, <1>7
    <3> HIDE DEF pending
    <3> QED BY <1>7, <2>1, <3>1, <3>2 DEF Deferring
  <2>2. CASE later # <<>>
    <3>1. pending = [ids |-> Elements(calls), blocks |-> later]
      BY <1>9, <2>2
    <3>2. \A b \in Elements(later) : b.type # "tool_use"
      BY <1>5, <1>7
    <3> HIDE DEF pending
    <3> QED BY <1>7, <2>2, <3>1, <3>2 DEF Deferring
  <2> QED BY <2>1, <2>2
<1> HIDE DEF T1, T2, pending
<1>14. Split(s, thinking).out = <<n>> /\ Split(s, thinking).pending = pending
  BY <1>2
<1> QED BY <1>10, <1>11, <1>12, <1>13, <1>14 DEF calls
-----------------------------------------------------------------------------
(* Results that follow their calls: `known` are the results there are.       *)

LEMMA FollowConcat ==
  ASSUME NEW x \in Seq(ChatMessage), NEW y \in Seq(ChatMessage), NEW known,
         ResultsFollow(x, known), ResultsFollow(y, known)
  PROVE  ResultsFollow(x \o y, known)
<1> DEFINE u == x \o y
           K == Len(x)
<1>1. /\ Len(u) = K + Len(y) /\ K \in Nat /\ Len(y) \in Nat
      /\ \A k \in 1..K : u[k] = x[k]
      /\ \A k \in 1..Len(y) : u[K + k] = y[k]
      /\ \A k \in 1..Len(x) : x[k] \in ChatMessage
      /\ \A k \in 1..Len(y) : y[k] \in ChatMessage
  BY ConcatParts
<1>2. ASSUME NEW i \in 1..Len(u)
      PROVE  (i \in 1..K /\ u[i] = x[i]) \/ (i - K \in 1..Len(y) /\ u[i] = y[i - K])
  BY PlaceOfConcat
<1> HIDE DEF u, K
<1>3. ASSUME NEW i \in 1..K, u[i] = x[i] PROVE FollowsAt(u, i, known)
  <2> DEFINE c == x[i].calls
  <2>1. x[i] \in ChatMessage
    BY <1>1 DEF K
  <2>2. c \in Seq(Tag) /\ Len(c) \in Nat
    BY <2>1 DEF ChatMessage
  <2> HIDE DEF c
  <2> SUFFICES ASSUME c # <<>>, Elements(c) \subseteq known
               PROVE  i + Len(c) <= Len(u) /\ {u[j].result : j \in (i + 1)..(i + Len(c))} = Elements(c)
    BY <1>3 DEF FollowsAt, c
  <2>3. i + Len(c) <= K /\ {x[j].result : j \in (i + 1)..(i + Len(c))} = Elements(c)
    BY DEF ResultsFollow, FollowsAt, c, K
  <2>4. \A j \in (i + 1)..(i + Len(c)) : u[j] = x[j]
    BY <1>1, <2>2, <2>3
  <2>5. i + Len(c) <= Len(u)
    BY <1>1, <2>2, <2>3
  <2> QED BY <2>3, <2>4, <2>5
<1>4. ASSUME NEW i \in 1..Len(u), i - K \in 1..Len(y), u[i] = y[i - K] PROVE FollowsAt(u, i, known)
  <2> DEFINE c == y[i - K].calls
  <2>1. y[i - K] \in ChatMessage
    BY <1>1, <1>4
  <2>2. c \in Seq(Tag) /\ Len(c) \in Nat
    BY <2>1 DEF ChatMessage
  <2> HIDE DEF c
  <2> SUFFICES ASSUME c # <<>>, Elements(c) \subseteq known
               PROVE  i + Len(c) <= Len(u) /\ {u[j].result : j \in (i + 1)..(i + Len(c))} = Elements(c)
    BY <1>4 DEF FollowsAt, c
  <2>3. (i - K) + Len(c) <= Len(y)
        /\ {y[j].result : j \in ((i - K) + 1)..((i - K) + Len(c))} = Elements(c)
    BY <1>4 DEF ResultsFollow, FollowsAt, c
  <2>4. ASSUME NEW j \in (i + 1)..(i + Len(c))
        PROVE  j - K \in ((i - K) + 1)..((i - K) + Len(c)) /\ u[j] = y[j - K]
    <3>1. j - K \in ((i - K) + 1)..((i - K) + Len(c)) /\ j - K \in 1..Len(y) /\ K + (j - K) = j
      BY <1>1, <1>4, <2>2, <2>3
    <3> QED BY <1>1, <3>1
  <2>5. ASSUME NEW j \in ((i - K) + 1)..((i - K) + Len(c))
        PROVE  j + K \in (i + 1)..(i + Len(c)) /\ u[j + K] = y[j]
    <3>1. j + K \in (i + 1)..(i + Len(c)) /\ (j + K) - K = j
      BY <1>1, <1>4, <2>2
    <3> QED BY <2>4, <3>1
  <2>6. i + Len(c) <= Len(u)
    BY <1>1, <2>2, <2>3
  <2>7. {u[j].result : j \in (i + 1)..(i + Len(c))}
          = {y[j].result : j \in ((i - K) + 1)..((i - K) + Len(c))}
    <3> DEFINE A == {u[j].result : j \in (i + 1)..(i + Len(c))}
               B == {y[j].result : j \in ((i - K) + 1)..((i - K) + Len(c))}
    <3>1. A \subseteq B
      BY <2>4
    <3>2. B \subseteq A
      <4> SUFFICES ASSUME NEW j \in ((i - K) + 1)..((i - K) + Len(c)) PROVE y[j].result \in A
        OBVIOUS
      <4> QED BY <2>5
    <3> QED BY <3>1, <3>2
  <2> QED BY <2>3, <2>6, <2>7
<1> QED BY <1>2, <1>3, <1>4 DEF ResultsFollow, u

LEMMA FollowSilent ==
  ASSUME NEW x, Silent(x), NEW known
  PROVE  ResultsFollow(x, known)
BY DEF Silent, ResultsFollow, FollowsAt

\* A message with calls that are not all answered.
LEMMA FollowUnanswered ==
  ASSUME NEW n, NEW known, n.calls # <<>> => ~(Elements(n.calls) \subseteq known)
  PROVE  ResultsFollow(<<n>>, known)
<1> DEFINE one == <<n>>
<1>1. \A i \in 1..Len(one) : one[i] = n
  OBVIOUS
<1> HIDE DEF one
<1>2. ResultsFollow(one, known)
  BY <1>1 DEF ResultsFollow, FollowsAt
<1> QED BY <1>2 DEF one

\* A message with calls, and a result for each of them.
LEMMA FollowAnswered ==
  ASSUME NEW n \in ChatMessage, NEW y \in Seq(ChatMessage), NEW known, Silent(y),
         Len(y) = Len(n.calls), {y[j].result : j \in 1..Len(y)} = Elements(n.calls)
  PROVE  ResultsFollow(<<n>> \o y, known)
<1> DEFINE one == <<n>>
           u == one \o y
<1>1. one \in Seq(ChatMessage) /\ Len(one) = 1 /\ one[1] = n
  OBVIOUS
<1> HIDE DEF one
<1>2. /\ Len(u) = 1 + Len(y) /\ Len(y) \in Nat /\ u[1] = n
      /\ \A k \in 1..Len(y) : u[1 + k] = y[k]
  BY <1>1, ConcatParts
<1> HIDE DEF u
<1>3. ASSUME NEW i \in 1..Len(u) PROVE FollowsAt(u, i, known)
  <2>1. CASE i = 1
    <3>1. \A j \in (1 + 1)..(1 + Len(y)) : j - 1 \in 1..Len(y) /\ 1 + (j - 1) = j
      BY <1>2
    <3>2. \A j \in 1..Len(y) : 1 + j \in (1 + 1)..(1 + Len(y))
      BY <1>2
    <3>3. {u[j].result : j \in (1 + 1)..(1 + Len(y))} = {y[j].result : j \in 1..Len(y)}
      <4> DEFINE A == {u[j].result : j \in (1 + 1)..(1 + Len(y))}
                 B == {y[j].result : j \in 1..Len(y)}
      <4>1. A \subseteq B
        <5> SUFFICES ASSUME NEW j \in (1 + 1)..(1 + Len(y)) PROVE u[j].result \in B
          OBVIOUS
        <5> QED BY <1>2, <3>1
      <4>2. B \subseteq A
        <5> SUFFICES ASSUME NEW j \in 1..Len(y) PROVE y[j].result \in A
          OBVIOUS
        <5>1. u[1 + j] = y[j] /\ 1 + j \in (1 + 1)..(1 + Len(y))
          BY <1>2, <3>2
        <5> QED BY <5>1
      <4> QED BY <4>1, <4>2
    <3>4. 1 + Len(y) <= Len(u)
      BY <1>2
    <3> QED BY <1>2, <2>1, <3>3, <3>4 DEF FollowsAt
  <2>2. CASE i # 1
    <3>1. i - 1 \in 1..Len(y) /\ 1 + (i - 1) = i
      BY <1>2, <2>2
    <3>2. u[i].calls = <<>>
      BY <1>2, <3>1 DEF Silent
    <3> QED BY <3>2 DEF FollowsAt
  <2> QED BY <2>1, <2>2
<1> QED BY <1>3 DEF ResultsFollow, u, one
-----------------------------------------------------------------------------
(* A user message, block by block.                                           *)

Begun(pending) == [out |-> <<>>, text |-> <<>>, ids |-> pending.ids, cleared |-> FALSE]

UserResult(end, pending) ==
  [out |-> end.out \o UserSays(end.text),
   pending |-> IF end.cleared THEN NoPending ELSE [pending EXCEPT !.ids = end.ids]]

LEMMA UserSteps ==
  ASSUME NEW E, NEW blocks \in Seq(E), NEW pending, NEW thinking
  PROVE  \E f : /\ f[0] = Begun(pending)
                /\ \A n \in 1..Len(blocks) : f[n] = TakeBlock(f[n - 1], blocks[n], pending, thinking)
                /\ UserMessages(blocks, pending, thinking) = UserResult(f[Len(blocks)], pending)
<1> DEFINE L == Len(blocks)
           start == [out |-> <<>>, text |-> <<>>, ids |-> pending.ids, cleared |-> FALSE]
           Is(f, m) == f = [n \in 0..m |-> IF n = 0 THEN start
                                           ELSE TakeBlock(f[n - 1], blocks[n], pending, thinking)]
           Made(m) == \E f : Is(f, m)
           g == CHOOSE f : Is(f, L)
<1>1. L \in Nat
  OBVIOUS
<1>2. UserMessages(blocks, pending, thinking) = UserResult(g[L], pending)
  BY DEF UserMessages, UserResult
<1>3. start = Begun(pending)
  BY DEF Begun
<1> HIDE DEF L, start
<1>4. Made(0)
  <2> DEFINE f == [n \in 0..0 |-> start]
  <2>1. \A n \in 0..0 : n = 0
    OBVIOUS
  <2>2. Is(f, 0)
    BY <2>1
  <2> QED BY <2>2
<1>5. ASSUME NEW m \in 1..L, Made(m - 1) PROVE Made(m)
  <2>1. PICK f : Is(f, m - 1)
    BY <1>5
  <2> DEFINE h == [n \in 0..m |-> IF n = m THEN TakeBlock(f[m - 1], blocks[m], pending, thinking)
                                  ELSE f[n]]
  <2>2. f = [n \in 0..(m - 1) |-> IF n = 0 THEN start
                                  ELSE TakeBlock(f[n - 1], blocks[n], pending, thinking)]
    BY <2>1
  <2>3. \A n \in 0..m : h[n] = IF n = m THEN TakeBlock(f[m - 1], blocks[m], pending, thinking)
                               ELSE f[n]
    OBVIOUS
  <2>4. ASSUME NEW n \in 0..m
        PROVE  h[n] = IF n = 0 THEN start
                      ELSE TakeBlock(h[n - 1], blocks[n], pending, thinking)
    <3>1. CASE n = m
      <4>1. m - 1 \in 0..m /\ m - 1 # m /\ m # 0
        BY <1>1
      <4>2. h[m - 1] = f[m - 1]
        BY <2>3, <4>1
      <4> HIDE DEF h
      <4> QED BY <2>3, <3>1, <4>1, <4>2
    <3>2. CASE n # m
      <4>1. n \in 0..(m - 1)
        BY <1>1, <3>2
      <4>2. h[n] = f[n]
        BY <2>3, <3>2
      <4>3. n # 0 => n - 1 \in 0..m /\ n - 1 # m
        BY <1>1, <3>2
      <4>4. n # 0 => h[n - 1] = f[n - 1]
        BY <2>3, <4>3
      <4> HIDE DEF h
      <4>5. f[n] = IF n = 0 THEN start ELSE TakeBlock(f[n - 1], blocks[n], pending, thinking)
        BY <2>2, <4>1
      <4> QED BY <4>2, <4>4, <4>5
    <3> QED BY <3>1, <3>2
  <2>5. DOMAIN h = 0..m /\ h = [n \in 0..m |-> h[n]]
    OBVIOUS
  <2> HIDE DEF h
  <2>6. Is(h, m)
    BY <2>4, <2>5
  <2> QED BY <2>6
<1>6. Made(L)
  <2> DEFINE T == {n \in 0..L : Made(n)}
  <2> HIDE DEF Made
  <2>1. 0 \in T /\ \A n \in 1..L : n - 1 \in T => n \in T
    BY <1>1, <1>4, <1>5
  <2>2. 0..L \subseteq T
    <3> HIDE DEF T
    <3> QED BY <1>1, <2>1, UpTo
  <2> QED BY <1>1, <2>2
<1>7. Is(g, L)
  BY <1>6
<1>8. g = [n \in 0..L |-> IF n = 0 THEN start
                          ELSE TakeBlock(g[n - 1], blocks[n], pending, thinking)]
  BY <1>7
<1> HIDE DEF g
<1>9. g[0] = start /\ \A n \in 1..L : g[n] = TakeBlock(g[n - 1], blocks[n], pending, thinking)
  <2>1. 0 \in 0..L /\ \A n \in 1..L : n \in 0..L /\ n # 0
    BY <1>1
  <2>2. \A n \in 0..L : g[n] = IF n = 0 THEN start
                               ELSE TakeBlock(g[n - 1], blocks[n], pending, thinking)
    BY <1>8
  <2> QED BY <2>1, <2>2
<1> QED BY <1>2, <1>3, <1>9 DEF L

LEMMA TextGathered ==
  ASSUME NEW o, NEW t, NEW i, NEW c, NEW x
  PROVE  [[out |-> o, text |-> t, ids |-> i, cleared |-> c] EXCEPT !.text = x]
           = [out |-> o, text |-> x, ids |-> i, cleared |-> c]
OBVIOUS

\* A text alone leaves what waits.
LEMMA TextTaken ==
  ASSUME NEW b \in TaggedBlock, b.type = "text", NEW p, NEW T, Deferring(p, T), NEW thinking
  PROVE  /\ UserMessages(<<b>>, p, thinking).out = UserSays(<<b.tag>>)
         /\ UserMessages(<<b>>, p, thinking).pending = p
<1> DEFINE blocks == <<b>>
           tags == <<b.tag>>
<1>1. blocks \in Seq({b}) /\ Len(blocks) = 1 /\ blocks[1] = b
  OBVIOUS
<1> HIDE DEF blocks
<1>2. PICK f : /\ f[0] = Begun(p)
               /\ \A n \in 1..Len(blocks) : f[n] = TakeBlock(f[n - 1], blocks[n], p, thinking)
               /\ UserMessages(blocks, p, thinking) = UserResult(f[Len(blocks)], p)
  BY <1>1, UserSteps
<1>3. f[1] = TakeBlock(f[0], b, p, thinking)
  <2>1. 1 \in 1..1 /\ 1 - 1 = 0
    OBVIOUS
  <2> QED BY <1>1, <1>2, <2>1
<1>4. Append(<<>>, b.tag) = tags
  OBVIOUS
<1> HIDE DEF tags
<1>5. f[1] = [out |-> <<>>, text |-> tags, ids |-> p.ids, cleared |-> FALSE]
  <2>1. f[0] = [out |-> <<>>, text |-> <<>>, ids |-> p.ids, cleared |-> FALSE]
    BY <1>2 DEF Begun
  <2>2. f[1] = [f[0] EXCEPT !.text = Append(f[0].text, b.tag)]
    BY <1>3 DEF TakeBlock
  <2>3. Append(f[0].text, b.tag) = tags
    BY <1>4, <2>1
  <2>4. f[1] = [f[0] EXCEPT !.text = tags]
    BY <2>2, <2>3
  <2>5. [[out |-> <<>>, text |-> <<>>, ids |-> p.ids, cleared |-> FALSE] EXCEPT !.text = tags]
          = [out |-> <<>>, text |-> tags, ids |-> p.ids, cleared |-> FALSE]
    <3> DEFINE none == <<>>
               no == FALSE
               ids == p.ids
    <3> HIDE DEF none, no, ids
    <3>1. [[out |-> none, text |-> none, ids |-> ids, cleared |-> no] EXCEPT !.text = tags]
            = [out |-> none, text |-> tags, ids |-> ids, cleared |-> no]
      BY TextGathered
    <3> QED BY <3>1 DEF none, no, ids
  <2> QED BY <2>1, <2>4, <2>5
<1>6. UserMessages(blocks, p, thinking) = UserResult(f[1], p)
  BY <1>1, <1>2
<1>7. <<>> \o UserSays(tags) = UserSays(tags)
  <2> DEFINE r == UserSays(tags)
  <2>3. r \in Seq(ChatMessage)
    BY UserConveys DEF Conveys, tags, TaggedBlock
  <2> HIDE DEF r
  <2>4. <<>> \o r = r
    BY <2>3, ConcatEmptySeq
  <2> QED BY <2>4 DEF r
<1>8. [p EXCEPT !.ids = p.ids] = p
  BY DEF Deferring
<1> QED BY <1>5, <1>6, <1>7, <1>8 DEF UserResult, blocks, tags
-----------------------------------------------------------------------------
(* A user message with the results of the open calls.                        *)

TagsTo(results, k) == {results[j].tag : j \in 1..k}

\* The tool messages of the first k results.
ToolsOf(tools, results, k, thinking) ==
  /\ Conveys(tools, {}, {}, TagsTo(results, k), thinking)
  /\ Silent(tools) /\ Len(tools) = k
  /\ {tools[j].result : j \in 1..Len(tools)} = TagsTo(results, k)

LEMMA ToolsOfNone ==
  ASSUME NEW results, NEW thinking
  PROVE  ToolsOf(<<>>, results, 0, thinking)
<1>1. TagsTo(results, 0) = {}
  BY DEF TagsTo
<1>2. Conveys(<<>>, {}, {}, {}, thinking)
  BY ConveysNone
<1> DEFINE none == <<>>
<1>3. Len(none) = 0 /\ none = <<>>
  OBVIOUS
<1>4. 1..0 = {}
  OBVIOUS
<1> HIDE DEF none
<1>5. Silent(none) /\ {none[j].result : j \in 1..Len(none)} = {}
  BY <1>3, <1>4 DEF Silent
<1> QED BY <1>1, <1>2, <1>3, <1>5 DEF ToolsOf

LEMMA TagsApart ==
  ASSUME NEW results \in Seq(TaggedBlock), Distinct(Tags(results))
  PROVE  \A i, j \in 1..Len(results) : results[i].tag = results[j].tag => i = j
<1> DEFINE t == Tags(results)
<1>1. DOMAIN results = 1..Len(results) /\ Len(results) \in Nat /\ Distinct(t)
  OBVIOUS
<1>2. t = [i \in 1..Len(results) |-> results[i].tag]
  BY <1>1 DEF Tags
<1> HIDE DEF t
<1>3. Len(t) = Len(results) /\ \A i \in 1..Len(results) : t[i] = results[i].tag
  BY <1>1, <1>2
<1> QED BY <1>1, <1>3 DEF Distinct

LEMMA ToolsOfNext ==
  ASSUME NEW results \in Seq(TaggedBlock), Distinct(Tags(results)), NEW k \in 1..Len(results),
         NEW thinking, NEW tools, ToolsOf(tools, results, k - 1, thinking)
  PROVE  ToolsOf(tools \o <<ToolSays(results[k])>>, results, k, thinking)
<1> DEFINE b == results[k]
           one == <<ToolSays(b)>>
           u == tools \o one
<1>1. b \in TaggedBlock
  OBVIOUS
<1>2. /\ ToolSays(b).calls = <<>> /\ ToolSays(b).result = b.tag
      /\ Conveys(one, {}, {}, {b.tag}, thinking)
  BY <1>1, ToolConveys
<1>3. Len(one) = 1 /\ one[1] = ToolSays(b)
  OBVIOUS
<1>4. /\ Conveys(tools, {}, {}, TagsTo(results, k - 1), thinking)
      /\ Silent(tools) /\ Len(tools) = k - 1
      /\ {tools[j].result : j \in 1..Len(tools)} = TagsTo(results, k - 1)
  BY DEF ToolsOf
<1>5. \A i, j \in 1..Len(results) : results[i].tag = results[j].tag => i = j
  BY TagsApart
<1>6. b.tag \notin TagsTo(results, k - 1)
  <2> SUFFICES ASSUME NEW j \in 1..(k - 1), results[j].tag = results[k].tag PROVE FALSE
    BY DEF TagsTo
  <2>1. j \in 1..Len(results) /\ j # k
    OBVIOUS
  <2> QED BY <1>5, <2>1
<1>7. TagsTo(results, k) = TagsTo(results, k - 1) \cup {b.tag}
  <2>1. \A j \in 1..k : j \in 1..(k - 1) \/ j = k
    OBVIOUS
  <2>2. k \in 1..k /\ \A j \in 1..(k - 1) : j \in 1..k
    OBVIOUS
  <2> QED BY <2>1, <2>2 DEF TagsTo
<1> HIDE DEF one, b
<1>8. tools \in Seq(ChatMessage) /\ one \in Seq(ChatMessage)
  BY <1>2, <1>4 DEF Conveys
<1>9. /\ Len(u) = k /\ \A i \in 1..(k - 1) : u[i] = tools[i]
      /\ u[k] = ToolSays(b)
  <2>0. /\ Len(u) = Len(tools) + Len(one)
        /\ \A i \in 1..Len(tools) : u[i] = tools[i]
        /\ \A i \in 1..Len(one) : u[Len(tools) + i] = one[i]
    BY <1>8, ConcatParts
  <2> HIDE DEF u
  <2>1. /\ Len(u) = (k - 1) + 1
        /\ \A i \in 1..Len(tools) : u[i] = tools[i]
        /\ \A i \in 1..Len(one) : u[Len(tools) + i] = one[i]
    BY <1>3, <1>4, <2>0
  <2>2. u[(k - 1) + 1] = one[1]
    BY <1>3, <1>4, <2>1
  <2>3. (k - 1) + 1 = k
    OBVIOUS
  <2> HIDE DEF u
  <2> QED BY <1>3, <1>4, <2>1, <2>2, <2>3
<1>10. Conveys(u, {}, {}, TagsTo(results, k), thinking)
  <2>1. Conveys(u, {} \cup {}, {} \cup {}, TagsTo(results, k - 1) \cup {b.tag}, thinking)
    BY <1>2, <1>4, <1>6, ConveysConcat
  <2> QED BY <1>7, <2>1
<1>11. \A i \in 1..k : i \in 1..(k - 1) \/ i = k
  OBVIOUS
<1> HIDE DEF u
<1>12. Silent(u)
  BY <1>2, <1>4, <1>9, <1>11 DEF Silent
<1>13. {u[j].result : j \in 1..Len(u)} = TagsTo(results, k)
  <2> DEFINE A == {u[j].result : j \in 1..k}
  <2>1. A \subseteq TagsTo(results, k)
    <3> SUFFICES ASSUME NEW j \in 1..k PROVE u[j].result \in TagsTo(results, k)
      OBVIOUS
    <3>1. CASE j \in 1..(k - 1)
      <4>1. tools[j].result \in TagsTo(results, k - 1)
        BY <1>4, <3>1
      <4> QED BY <1>7, <1>9, <3>1, <4>1
    <3>2. CASE j = k
      BY <1>2, <1>7, <1>9, <3>2
    <3> QED BY <1>11, <3>1, <3>2
  <2>2. TagsTo(results, k) \subseteq A
    <3>1. k \in 1..k /\ \A j \in 1..(k - 1) : j \in 1..k
      OBVIOUS
    <3>2. b.tag \in A
      BY <1>2, <1>9, <3>1
    <3>3. TagsTo(results, k - 1) \subseteq A
      <4> SUFFICES ASSUME NEW j \in 1..(k - 1) PROVE tools[j].result \in A
        BY <1>4
      <4> QED BY <1>9, <3>1
    <3> QED BY <1>7, <3>2, <3>3
  <2> QED BY <1>9, <2>1, <2>2
<1> QED BY <1>9, <1>10, <1>12, <1>13 DEF ToolsOf, u, one, b

\* One result.
LEMMA ResultRecord ==
  ASSUME NEW acc, NEW b, b.type # "text", NEW p, NEW thinking
  PROVE  LET r == TakeBlock(acc, b, p, thinking)
         IN  r = [out |-> r.out, text |-> r.text, ids |-> r.ids, cleared |-> r.cleared]
<1> DEFINE left == acc.ids \ {b.tag}
           inject == p.ids # {} /\ left = {}
           out == acc.out \o UserSays(acc.text) \o <<ToolSays(b)>>
                    \o (IF inject THEN Deferred(p, thinking) ELSE <<>>)
           none == <<>>
           cleared == acc.cleared \/ inject
           r == TakeBlock(acc, b, p, thinking)
<1>1. r = [out |-> out, text |-> none, ids |-> left, cleared |-> cleared]
  BY DEF TakeBlock, InjectNow
<1> HIDE DEF r, out, none, left, cleared
<1>2. r = [out |-> r.out, text |-> r.text, ids |-> r.ids, cleared |-> r.cleared]
  BY <1>1
<1> QED BY <1>2 DEF r

LEMMA ResultStep ==
  ASSUME NEW acc, acc.out \in Seq(ChatMessage), NEW b, b.type # "text", NEW p, NEW thinking,
         acc.text = <<>>, ~acc.cleared
  PROVE  LET end == TakeBlock(acc, b, p, thinking)
             left == acc.ids \ {b.tag}
         IN  /\ end.out = acc.out \o <<ToolSays(b)>>
                  \o (IF p.ids # {} /\ left = {} THEN Deferred(p, thinking) ELSE <<>>)
             /\ end.text = <<>> /\ end.ids = left
             /\ (end.cleared <=> p.ids # {} /\ left = {})
<1> DEFINE tools == acc.out
           left == acc.ids \ {b.tag}
           inject == p.ids # {} /\ left = {}
           D == IF inject THEN Deferred(p, thinking) ELSE <<>>
           one == <<ToolSays(b)>>
           cleared == acc.cleared \/ inject
           none == <<>>
           out == tools \o one \o D
           end == TakeBlock(acc, b, p, thinking)
<1>1. end = [out |-> tools \o UserSays(none) \o one \o D, text |-> none, ids |-> left,
             cleared |-> cleared]
  BY DEF TakeBlock, InjectNow
<1>2. tools \o UserSays(none) = tools
  <2>1. UserSays(none) = <<>>
    BY DEF UserSays
  <2> QED BY <2>1, ConcatEmptySeq
<1>3. end = [out |-> out, text |-> none, ids |-> left, cleared |-> cleared]
  BY <1>1, <1>2
<1>4. cleared <=> inject
  OBVIOUS
<1> HIDE DEF out, none, cleared, end
<1>5. end.out = out /\ end.text = none /\ end.ids = left /\ end.cleared = cleared
  BY <1>3
<1>6. end.cleared <=> inject
  BY <1>4, <1>5
<1> QED BY <1>5, <1>6 DEF out, none, end

LEMMA OneNotNone ==
  ASSUME NEW s, Len(s) = 1
  PROVE  s # <<>>
<1> DEFINE none == <<>>
<1>1. Len(none) = 0
  OBVIOUS
<1> HIDE DEF none
<1>2. s # none
  BY <1>1
<1> QED BY <1>2 DEF none

\* The results of all open calls, and then a text or none.
LEMMA AnswersTaken ==
  ASSUME NEW results \in Seq(TaggedBlock), NEW also \in Seq(TaggedBlock), NEW thinking,
         Distinct(Tags(results)), Len(results) # 0,
         \A j \in 1..Len(results) : results[j].type = "tool_result",
         also = <<>> \/ (Len(also) = 1 /\ also[1].type = "text"),
         NEW p, NEW T, Deferring(p, T),
         p.ids = IF p.blocks = <<>> THEN {} ELSE TagsTo(results, Len(results))
  PROVE  LET user == UserMessages(results \o also, p, thinking)
         IN  /\ \E tools : /\ ToolsOf(tools, results, Len(results), thinking)
                           /\ user.out = (tools \o Deferred(p, thinking)) \o UserSays(Tags(also))
             /\ user.pending.ids = {} /\ user.pending.blocks = <<>> /\ Deferring(user.pending, {})
<1> DEFINE K == Len(results)
           blocks == results \o also
           all == TagsTo(results, K)
<1>1. /\ K \in Nat /\ K >= 1 /\ Len(also) \in Nat /\ Len(blocks) = K + Len(also)
      /\ blocks \in Seq(TaggedBlock)
      /\ \A k \in 1..K : blocks[k] = results[k]
      /\ \A k \in 1..Len(also) : blocks[K + k] = also[k]
      /\ \A k \in 1..K : results[k] \in TaggedBlock
      /\ Len(also) = 0 \/ Len(also) = 1
  BY ConcatParts
<1> HIDE DEF blocks
<1>2. PICK f : /\ f[0] = Begun(p)
               /\ \A n \in 1..Len(blocks) : f[n] = TakeBlock(f[n - 1], blocks[n], p, thinking)
               /\ UserMessages(blocks, p, thinking) = UserResult(f[Len(blocks)], p)
  <2>1. blocks \in Seq(TaggedBlock)
    BY <1>1
  <2> QED BY <2>1, UserSteps
<1>3. \A n \in 1..K : n \in 1..Len(blocks)
  BY <1>1
<1>4. ASSUME NEW n \in 1..K, NEW tools, ToolsOf(tools, results, n - 1, thinking),
             f[n - 1].out = tools, f[n - 1].text = <<>>, f[n - 1].ids = p.ids \ TagsTo(results, n - 1),
             ~f[n - 1].cleared
      PROVE  LET inject == p.ids # {} /\ p.ids \ TagsTo(results, n) = {}
             IN  /\ f[n] = [out |-> f[n].out, text |-> f[n].text, ids |-> f[n].ids,
                            cleared |-> f[n].cleared]
                 /\ f[n].out = tools \o <<ToolSays(results[n])>>
                                 \o (IF inject THEN Deferred(p, thinking) ELSE <<>>)
                 /\ f[n].text = <<>> /\ f[n].ids = p.ids \ TagsTo(results, n)
                 /\ f[n].cleared <=> inject
  <2> DEFINE b == results[n]
             r == TakeBlock(f[n - 1], b, p, thinking)
  <2>1. b \in TaggedBlock /\ b.type # "text"
    BY <1>1
  <2>2. f[n] = r
    BY <1>1, <1>2, <1>3
  <2>3. TagsTo(results, n) = TagsTo(results, n - 1) \cup {b.tag}
    <3>1. \A j \in 1..n : j \in 1..(n - 1) \/ j = n
      BY <1>1
    <3>2. n \in 1..n /\ \A j \in 1..(n - 1) : j \in 1..n
      BY <1>1
    <3> QED BY <3>1, <3>2 DEF TagsTo
  <2>4. tools \in Seq(ChatMessage)
    BY <1>4 DEF ToolsOf, Conveys
  <2> HIDE DEF b
  <2>5. f[n - 1].ids \ {b.tag} = p.ids \ TagsTo(results, n)
    BY <1>4, <2>3
  <2> DEFINE acc == f[n - 1]
             end == f[n]
  <2>6. /\ acc.out \in Seq(ChatMessage) /\ acc.text = <<>> /\ ~acc.cleared
        /\ end = TakeBlock(acc, b, p, thinking)
    BY <1>4, <2>2, <2>4
  <2>7. acc.out = tools /\ acc.ids \ {b.tag} = p.ids \ TagsTo(results, n)
    BY <1>4, <2>5
  <2> HIDE DEF acc, end
  <2> DEFINE left == acc.ids \ {b.tag}
  <2>8. /\ end.out = acc.out \o <<ToolSays(b)>>
             \o (IF p.ids # {} /\ left = {} THEN Deferred(p, thinking) ELSE <<>>)
        /\ end.text = <<>> /\ end.ids = left /\ (end.cleared <=> p.ids # {} /\ left = {})
    <3> DEFINE taken == TakeBlock(acc, b, p, thinking)
    <3>1. /\ taken.out = acc.out \o <<ToolSays(b)>>
               \o (IF p.ids # {} /\ left = {} THEN Deferred(p, thinking) ELSE <<>>)
          /\ taken.text = <<>> /\ taken.ids = left /\ (taken.cleared <=> p.ids # {} /\ left = {})
      BY <2>1, <2>6, ResultStep
    <3>2. end = taken
      BY <2>6
    <3> HIDE DEF taken
    <3> QED BY <3>1, <3>2
  <2>9. end = [out |-> end.out, text |-> end.text, ids |-> end.ids, cleared |-> end.cleared]
    BY <2>1, <2>6, ResultRecord
  <2> QED BY <2>8, <2>9, <2>7 DEF b, end
<1>5. ASSUME NEW n \in 1..K, n # K, p.ids # {} PROVE p.ids \ TagsTo(results, n) # {}
  <2>1. p.ids = all
    BY <1>5
  <2>2. results[K].tag \in all
    <3>1. K \in 1..K
      BY <1>1
    <3> QED BY <3>1 DEF TagsTo
  <2>3. results[K].tag \notin TagsTo(results, n)
    <3> SUFFICES ASSUME NEW j \in 1..n, results[j].tag = results[K].tag PROVE FALSE
      BY DEF TagsTo
    <3>1. j \in 1..K /\ K \in 1..K /\ j # K
      BY <1>1, <1>5
    <3>2. \A i, l \in 1..K : results[i].tag = results[l].tag => i = l
      BY TagsApart
    <3> QED BY <3>1, <3>2
  <2> QED BY <2>1, <2>2, <2>3
<1> DEFINE Gathered(n) ==
             \E tools : /\ ToolsOf(tools, results, n, thinking)
                        /\ f[n].out = tools /\ f[n].text = <<>>
                        /\ f[n].ids = p.ids \ TagsTo(results, n) /\ ~f[n].cleared
           Q == {n \in 0..K : n < K => Gathered(n)}
<1>6. Gathered(0)
  <2>1. f[0].out = <<>> /\ f[0].text = <<>> /\ f[0].ids = p.ids /\ ~f[0].cleared
    <3> DEFINE none == <<>>
               ids == p.ids
               no == FALSE
    <3>1. f[0] = [out |-> none, text |-> none, ids |-> ids, cleared |-> no]
      BY <1>2 DEF Begun
    <3> HIDE DEF none, ids, no
    <3>2. f[0].out = none /\ f[0].text = none /\ f[0].ids = ids /\ f[0].cleared = no
      BY <3>1
    <3> QED BY <3>2 DEF none, ids, no
  <2>2. TagsTo(results, 0) = {}
    BY DEF TagsTo
  <2>3. ToolsOf(<<>>, results, 0, thinking)
    BY ToolsOfNone
  <2> QED BY <2>1, <2>2, <2>3
<1>7. ASSUME NEW n \in 1..K, n < K, Gathered(n - 1) PROVE Gathered(n)
  <2>1. PICK tools : /\ ToolsOf(tools, results, n - 1, thinking)
                     /\ f[n - 1].out = tools /\ f[n - 1].text = <<>>
                     /\ f[n - 1].ids = p.ids \ TagsTo(results, n - 1) /\ ~f[n - 1].cleared
    BY <1>7
  <2>2. p.ids # {} => p.ids \ TagsTo(results, n) # {}
    BY <1>1, <1>5, <1>7
  <2> DEFINE more == tools \o <<ToolSays(results[n])>>
  <2>3. ToolsOf(more, results, n, thinking)
    BY <2>1, ToolsOfNext
  <2>4. more \in Seq(ChatMessage)
    BY <2>3 DEF ToolsOf, Conveys
  <2>5. /\ f[n].out = more \o (IF p.ids # {} /\ p.ids \ TagsTo(results, n) = {}
                               THEN Deferred(p, thinking) ELSE <<>>)
        /\ f[n].text = <<>> /\ f[n].ids = p.ids \ TagsTo(results, n)
        /\ f[n].cleared <=> (p.ids # {} /\ p.ids \ TagsTo(results, n) = {})
    BY <1>4, <2>1
  <2> HIDE DEF more
  <2>6. f[n].out = more \o <<>> /\ ~f[n].cleared
    BY <2>2, <2>5
  <2>7. f[n].out = more
    BY <2>4, <2>6, ConcatEmptySeq
  <2> QED BY <2>3, <2>5, <2>6, <2>7
<1> HIDE DEF Gathered
<1>8. Gathered(K - 1)
  <2>1. 0 \in Q /\ \A n \in 1..K : n - 1 \in Q => n \in Q
    BY <1>1, <1>6, <1>7
  <2>2. 0..K \subseteq Q
    <3> HIDE DEF Q
    <3> QED BY <1>1, <2>1, UpTo
  <2>3. K - 1 \in 0..K /\ K - 1 < K
    BY <1>1
  <2> QED BY <2>2, <2>3
<1>9. PICK gathered : /\ ToolsOf(gathered, results, K - 1, thinking)
                      /\ f[K - 1].out = gathered /\ f[K - 1].text = <<>>
                      /\ f[K - 1].ids = p.ids \ TagsTo(results, K - 1) /\ ~f[K - 1].cleared
  BY <1>8 DEF Gathered
<1> DEFINE tools == gathered \o <<ToolSays(results[K])>>
           D == Deferred(p, thinking)
<1>10. K \in 1..K
  BY <1>1
<1>11. ToolsOf(tools, results, K, thinking)
  BY <1>9, <1>10, ToolsOfNext
<1>12. p.ids \ all = {}
  BY DEF all
<1>13. /\ f[K] = [out |-> f[K].out, text |-> f[K].text, ids |-> f[K].ids, cleared |-> f[K].cleared]
       /\ f[K].out = tools \o (IF p.ids # {} THEN D ELSE <<>>)
       /\ f[K].text = <<>> /\ f[K].ids = {}
       /\ f[K].cleared <=> p.ids # {}
  <2>1. LET inject == p.ids # {} /\ p.ids \ TagsTo(results, K) = {}
        IN  /\ f[K] = [out |-> f[K].out, text |-> f[K].text, ids |-> f[K].ids,
                       cleared |-> f[K].cleared]
            /\ f[K].out = gathered \o <<ToolSays(results[K])>>
                            \o (IF inject THEN Deferred(p, thinking) ELSE <<>>)
            /\ f[K].text = <<>> /\ f[K].ids = p.ids \ TagsTo(results, K)
            /\ f[K].cleared <=> inject
    BY <1>4, <1>9, <1>10
  <2> QED BY <1>12, <2>1
<1> HIDE DEF tools
<1>14. p.ids = {} => D = <<>>
  <2>1. p.blocks = <<>> => D = <<>>
    BY DEF Deferred
  <2>2. p.ids = {} => p.blocks = <<>>
    <3>1. results[K].tag \in all
      BY <1>10 DEF TagsTo
    <3> QED BY <3>1
  <2> QED BY <2>1, <2>2
<1>15. f[K].out = tools \o D
  BY <1>13, <1>14
<1> HIDE DEF D
<1> DEFINE end == f[Len(blocks)]
<1>16. /\ end.out = tools \o D /\ end.text = Tags(also) /\ end.ids = {}
       /\ end.cleared <=> p.ids # {}
  <2>1. CASE Len(also) = 0
    <3>1. also = <<>> /\ Len(blocks) = K
      BY <1>1, <2>1
    <3>2. Tags(also) = <<>>
      BY <3>1 DEF Tags
    <3> QED BY <1>13, <1>15, <3>1, <3>2
  <2>2. CASE Len(also) = 1
    <3>1. Len(blocks) = K + 1 /\ K + 1 \in 1..Len(blocks) /\ 1 \in 1..Len(also) /\ (K + 1) - 1 = K
      BY <1>1, <2>2
    <3>2. blocks[K + 1] = also[1] /\ also[1].type = "text"
      <4>1. also # <<>>
        BY <2>2, OneNotNone
      <4>2. blocks[K + 1] = also[1]
        BY <1>1, <3>1
      <4> QED BY <4>1, <4>2
    <3>3. end = TakeBlock(f[K], also[1], p, thinking)
      BY <1>2, <3>1, <3>2
    <3>4. end = [f[K] EXCEPT !.text = Append(f[K].text, also[1].tag)]
      BY <3>2, <3>3 DEF TakeBlock
    <3>5. Append(<<>>, also[1].tag) = Tags(also)
      <4>1. DOMAIN also = {1}
        BY <2>2
      <4>2. Tags(also) = [i \in {1} |-> also[i].tag]
        BY <4>1 DEF Tags
      <4> DEFINE one == <<also[1].tag>>
      <4>3. one = [i \in {1} |-> also[1].tag] /\ Append(<<>>, also[1].tag) = one
        OBVIOUS
      <4>4. [i \in {1} |-> also[i].tag] = [i \in {1} |-> also[1].tag]
        OBVIOUS
      <4> QED BY <4>2, <4>3, <4>4
    <3>6. end = [f[K] EXCEPT !.text = Tags(also)]
      BY <1>13, <3>4, <3>5
    <3>7. /\ end.out = f[K].out /\ end.text = Tags(also) /\ end.ids = f[K].ids
          /\ end.cleared = f[K].cleared
      <4> DEFINE t == Tags(also)
                 o == f[K].out
                 x == f[K].text
                 i == f[K].ids
                 c == f[K].cleared
      <4>1. f[K] = [out |-> o, text |-> x, ids |-> i, cleared |-> c] /\ end = [f[K] EXCEPT !.text = t]
        BY <1>13, <3>6
      <4> HIDE DEF t, o, x, i, c, end
      <4>2. [[out |-> o, text |-> x, ids |-> i, cleared |-> c] EXCEPT !.text = t]
              = [out |-> o, text |-> t, ids |-> i, cleared |-> c]
        BY TextGathered
      <4>3. end = [out |-> o, text |-> t, ids |-> i, cleared |-> c]
        BY <4>1, <4>2
      <4>4. end.out = o /\ end.text = t /\ end.ids = i /\ end.cleared = c
        BY <4>3
      <4> QED BY <4>4 DEF t, o, x, i, c
    <3> HIDE DEF end
    <3> QED BY <1>13, <1>15, <3>7
  <2> QED BY <1>1, <2>1, <2>2
<1>17. UserMessages(blocks, p, thinking) = UserResult(end, p)
  BY <1>2
<1> HIDE DEF end
<1>18. UserMessages(blocks, p, thinking).out = (tools \o D) \o UserSays(Tags(also))
  BY <1>16, <1>17 DEF UserResult
<1> DEFINE pending == UserMessages(blocks, p, thinking).pending
<1>19. pending = IF p.ids # {} THEN NoPending ELSE [p EXCEPT !.ids = {}]
  BY <1>16, <1>17 DEF UserResult
<1>20. pending.ids = {} /\ pending.blocks = <<>> /\ pending = [ids |-> pending.ids, blocks |-> pending.blocks]
  <2>1. p.ids = {} => p.blocks = <<>>
    <3>1. results[K].tag \in all
      BY <1>10 DEF TagsTo
    <3> QED BY <3>1
  <2>2. p = [ids |-> p.ids, blocks |-> p.blocks]
    BY DEF Deferring
  <2>3. pending = [ids |-> {}, blocks |-> <<>>]
    <3>1. CASE p.ids # {}
      BY <1>19, <3>1 DEF NoPending
    <3>2. CASE p.ids = {}
      <4>1. p = [ids |-> {}, blocks |-> <<>>]
        BY <2>1, <2>2, <3>2
      <4>2. pending = [p EXCEPT !.ids = {}]
        BY <1>19, <3>2
      <4> HIDE DEF pending
      <4> QED BY <4>1, <4>2
    <3> QED BY <3>1, <3>2
  <2> HIDE DEF pending
  <2> QED BY <2>3
<1> HIDE DEF pending
<1>21. Deferring(pending, {})
  <2>1. Apart(<<>>) /\ Elements(<<>>) = {}
    BY DEF Apart, Distinct, Elements
  <2>2. ElementsOf({}, {"text"}) = {}
    BY DEF ElementsOf
  <2> QED BY <1>20, <2>1, <2>2 DEF Deferring
<1> QED BY <1>11, <1>18, <1>20, <1>21 DEF pending, blocks, D

-----------------------------------------------------------------------------
(* The whole conversation, message by message.                               *)

LEMMA RoundsSteps ==
  ASSUME NEW E, NEW messages \in Seq(E), NEW thinking
  PROVE  \E f : /\ f[0] = [out |-> <<>>, pending |-> NoPending]
                /\ \A n \in 1..Len(messages) : f[n] = ConvertOne(f[n - 1], messages[n], thinking)
                /\ Rounds(messages, thinking) = f[Len(messages)]
<1> DEFINE L == Len(messages)
           start == [out |-> <<>>, pending |-> NoPending]
           Is(f, m) == f = [n \in 0..m |-> IF n = 0 THEN start
                                           ELSE ConvertOne(f[n - 1], messages[n], thinking)]
           Made(m) == \E f : Is(f, m)
           g == CHOOSE f : Is(f, L)
<1>1. L \in Nat
  OBVIOUS
<1>2. Rounds(messages, thinking) = g[L]
  BY DEF Rounds
<1>3. start = [out |-> <<>>, pending |-> NoPending]
  OBVIOUS
<1> HIDE DEF L, start
<1>4. Made(0)
  <2> DEFINE f == [n \in 0..0 |-> start]
  <2>1. \A n \in 0..0 : n = 0
    OBVIOUS
  <2>2. Is(f, 0)
    BY <2>1
  <2> QED BY <2>2
<1>5. ASSUME NEW m \in 1..L, Made(m - 1) PROVE Made(m)
  <2>1. PICK f : Is(f, m - 1)
    BY <1>5
  <2> DEFINE h == [n \in 0..m |-> IF n = m THEN ConvertOne(f[m - 1], messages[m], thinking)
                                  ELSE f[n]]
  <2>2. f = [n \in 0..(m - 1) |-> IF n = 0 THEN start
                                  ELSE ConvertOne(f[n - 1], messages[n], thinking)]
    BY <2>1
  <2>3. \A n \in 0..m : h[n] = IF n = m THEN ConvertOne(f[m - 1], messages[m], thinking)
                               ELSE f[n]
    OBVIOUS
  <2>4. ASSUME NEW n \in 0..m
        PROVE  h[n] = IF n = 0 THEN start
                      ELSE ConvertOne(h[n - 1], messages[n], thinking)
    <3>1. CASE n = m
      <4>1. m - 1 \in 0..m /\ m - 1 # m /\ m # 0
        BY <1>1
      <4>2. h[m - 1] = f[m - 1]
        BY <2>3, <4>1
      <4> HIDE DEF h
      <4> QED BY <2>3, <3>1, <4>1, <4>2
    <3>2. CASE n # m
      <4>1. n \in 0..(m - 1)
        BY <1>1, <3>2
      <4>2. h[n] = f[n]
        BY <2>3, <3>2
      <4>3. n # 0 => n - 1 \in 0..m /\ n - 1 # m
        BY <1>1, <3>2
      <4>4. n # 0 => h[n - 1] = f[n - 1]
        BY <2>3, <4>3
      <4> HIDE DEF h
      <4>5. f[n] = IF n = 0 THEN start ELSE ConvertOne(f[n - 1], messages[n], thinking)
        BY <2>2, <4>1
      <4> QED BY <4>2, <4>4, <4>5
    <3> QED BY <3>1, <3>2
  <2>5. DOMAIN h = 0..m /\ h = [n \in 0..m |-> h[n]]
    OBVIOUS
  <2> HIDE DEF h
  <2>6. Is(h, m)
    BY <2>4, <2>5
  <2> QED BY <2>6
<1>6. Made(L)
  <2> DEFINE T == {n \in 0..L : Made(n)}
  <2> HIDE DEF Made
  <2>1. 0 \in T /\ \A n \in 1..L : n - 1 \in T => n \in T
    BY <1>1, <1>4, <1>5
  <2>2. 0..L \subseteq T
    <3> HIDE DEF T
    <3> QED BY <1>1, <2>1, UpTo
  <2> QED BY <1>1, <2>2
<1>7. Is(g, L)
  BY <1>6
<1>8. g = [n \in 0..L |-> IF n = 0 THEN start
                          ELSE ConvertOne(g[n - 1], messages[n], thinking)]
  BY <1>7
<1> HIDE DEF g
<1>9. g[0] = start /\ \A n \in 1..L : g[n] = ConvertOne(g[n - 1], messages[n], thinking)
  <2>1. 0 \in 0..L /\ \A n \in 1..L : n \in 0..L /\ n # 0
    BY <1>1
  <2>2. \A n \in 0..L : g[n] = IF n = 0 THEN start
                               ELSE ConvertOne(g[n - 1], messages[n], thinking)
    BY <1>8
  <2> QED BY <2>1, <2>2
<1> QED BY <1>2, <1>3, <1>9 DEF L
-----------------------------------------------------------------------------
(* The conversations a client has: users and the model take turns.           *)

LEMMA TextIs ==
  ASSUME NEW i \in Nat \ {0}
  PROVE  TextOf(i) \in TaggedBlock /\ TextOf(i).type = "text" /\ TextOf(i).tag = <<i - 1, 1>>
         /\ <<i - 1, 1>> \in Tag
<1>1. <<i - 1, 1>> \in Tag
  BY DEF Tag
<1> QED BY <1>1 DEF TextOf, Block, TaggedBlock, BlockType

LEMMA TagIs == ASSUME NEW a, NEW b, NEW c, NEW d, <<a, b>> = <<c, d>> PROVE a = c /\ b = d
OBVIOUS

LEMMA ElementsOne ==
  ASSUME NEW E, NEW b \in E
  PROVE  <<b>> \in Seq(E) /\ Len(<<b>>) = 1 /\ <<b>>[1] = b /\ Elements(<<b>>) = {b} /\ Distinct(<<b>>)
<1> DEFINE one == <<b>>
<1>1. one \in Seq(E) /\ Len(one) = 1 /\ one[1] = b
  OBVIOUS
<1> HIDE DEF one
<1>2. Elements(one) = {b} /\ Distinct(one)
  BY <1>1 DEF Elements, Distinct
<1> QED BY <1>1, <1>2 DEF one

LEMMA ElementsConcat ==
  ASSUME NEW E, NEW x \in Seq(E), NEW y \in Seq(E)
  PROVE  Elements(x \o y) = Elements(x) \cup Elements(y)
<1> DEFINE u == x \o y
<1>1. /\ Len(u) = Len(x) + Len(y) /\ Len(x) \in Nat /\ Len(y) \in Nat
      /\ \A k \in 1..Len(x) : u[k] = x[k]
      /\ \A k \in 1..Len(y) : u[Len(x) + k] = y[k]
  BY ConcatParts
<1>2. ASSUME NEW k \in 1..Len(u)
      PROVE  (k \in 1..Len(x) /\ u[k] = x[k]) \/ (k - Len(x) \in 1..Len(y) /\ u[k] = y[k - Len(x)])
  BY PlaceOfConcat
<1> HIDE DEF u
<1>3. Elements(u) \subseteq Elements(x) \cup Elements(y)
  BY <1>2 DEF Elements
<1>4. Elements(x) \subseteq Elements(u)
  <2>1. \A k \in 1..Len(x) : k \in 1..Len(u)
    BY <1>1
  <2> QED BY <1>1, <2>1 DEF Elements
<1>5. Elements(y) \subseteq Elements(u)
  <2>1. \A k \in 1..Len(y) : Len(x) + k \in 1..Len(u)
    BY <1>1
  <2> QED BY <1>1, <2>1 DEF Elements
<1> QED BY <1>3, <1>4, <1>5 DEF u

\* What a user says, and where.
LEMMA UserBlocks ==
  ASSUME NEW m, NEW i \in Nat \ {0}, NEW calls \in Seq(Tag), UserTurnOK(m, i, calls)
  PROVE  TurnBlocks(m, i, calls)
<1>1. CASE m.blocks = <<TextOf(i)>>
  BY <1>1, ElementsOne DEF TurnBlocks
<1>2. CASE ~m.plain /\ i = 1 /\ m.blocks = <<TextOf(i), Block("image", <<0, 2>>)>>
  <2> DEFINE t == TextOf(i)
             g == Block("image", <<0, 2>>)
  <2> HIDE DEF t, g
  <2>1. m.blocks = <<t, g>>
    BY <1>2 DEF t, g
  <2> DEFINE two == <<t, g>>
  <2>2. Len(two) = 2 /\ two[1] = t /\ two[2] = g
    OBVIOUS
  <2> HIDE DEF two
  <2>3. \A k \in 1..2 : k = 1 \/ k = 2
    OBVIOUS
  <2>4. 1 \in 1..2 /\ 2 \in 1..2
    OBVIOUS
  <2>5. Elements(two) = {t, g}
    BY <2>2, <2>3, <2>4 DEF Elements
  <2> QED BY <1>2, <2>1, <2>5 DEF two, t, g, TurnBlocks
<1>3. ASSUME ~m.plain, NEW results, NEW also, Answering(results, calls),
             also \in {<<>>, <<TextOf(i)>>}, m.blocks = results \o also
      PROVE  /\ also \in Seq(TaggedBlock)
             /\ Elements(m.blocks) = Elements(results) \cup Elements(also)
  <2>1. also \in Seq(TaggedBlock)
    <3>1. <<TextOf(i)>> \in Seq(TaggedBlock)
      BY TextIs, ElementsOne
    <3>2. <<>> \in Seq(TaggedBlock)
      OBVIOUS
    <3> QED BY <1>3, <3>1, <3>2
  <2>2. results \in Seq(TaggedBlock)
    BY <1>3 DEF Answering
  <2>3. Elements(results \o also) = Elements(results) \cup Elements(also)
    BY <2>1, <2>2, ElementsConcat
  <2> QED BY <1>3, <2>1, <2>3
<1> QED BY <1>1, <1>2, <1>3 DEF UserTurnOK, TurnBlocks

LEMMA TurnIs ==
  ASSUME NEW h, HistoryOK(h), NEW i \in 1..Len(h)
  PROVE  /\ h[i] \in Turn /\ h[i].blocks \in Seq(TaggedBlock) /\ i \in Nat \ {0}
         /\ UserIsNext(h, i) => UserTurnOK(h[i], i, OpenCalls(h, i)) /\ h[i].role = "user"
         /\ ~UserIsNext(h, i) => AssistantTurnOK(h[i], i) /\ h[i].role = "assistant"
         /\ i # 1 => i - 1 \in 1..Len(h)
         /\ UserIsNext(h, i) /\ i # 1 => h[i - 1].role = "assistant" /\ OpenCalls(h, i) = CallsOf(h[i - 1])
<1>1. h \in Seq(Turn) /\ TurnOK(h, i) /\ Len(h) \in Nat
  BY DEF HistoryOK
<1>2. h[i] \in Turn
  BY <1>1
<1>3. h[i].blocks \in Seq(TaggedBlock)
  BY <1>2 DEF Turn
<1>4. UserIsNext(h, i) => UserTurnOK(h[i], i, OpenCalls(h, i)) /\ h[i].role = "user"
  BY <1>1 DEF TurnOK, UserTurnOK
<1>5. ~UserIsNext(h, i) => AssistantTurnOK(h[i], i) /\ h[i].role = "assistant"
  BY <1>1 DEF TurnOK, AssistantTurnOK
<1>6. i # 1 => i - 1 \in 1..Len(h)
  BY <1>1
<1>7. UserIsNext(h, i) /\ i # 1 => h[i - 1].role = "assistant" /\ OpenCalls(h, i) = CallsOf(h[i - 1])
  BY DEF UserIsNext, OpenCalls
<1>8. i \in Nat \ {0}
  OBVIOUS
<1> QED BY <1>2, <1>3, <1>4, <1>5, <1>6, <1>7, <1>8

LEMMA TurnBefore ==
  ASSUME NEW h, HistoryOK(h), NEW i \in 1..Len(h), h[i].role = "assistant"
  PROVE  AssistantTurnOK(h[i], i) /\ ~UserIsNext(h, i)
BY TurnIs

\* The model's blocks have the turn and the place in their tags.
LEMMA AssistantBlocks ==
  ASSUME NEW m, m.blocks \in Seq(TaggedBlock), NEW i \in Nat \ {0}, AssistantTurnOK(m, i)
  PROVE  /\ Apart(m.blocks)
         /\ \A b \in Elements(m.blocks) : b.type \in AssistantType /\ b.tag[1] = i - 1
         /\ CallsOf(m) \in Seq(Tag) /\ Distinct(CallsOf(m))
         /\ Elements(CallsOf(m)) = HeldBy(m, "tool_use")
<1> DEFINE s == m.blocks
<1>1. s \in Seq(TaggedBlock) /\ Len(s) \in Nat
  OBVIOUS
<1>2. \A j \in 1..Len(s) : s[j].tag = <<i - 1, j>> /\ s[j].type \in AssistantType
  BY DEF AssistantTurnOK
<1> HIDE DEF s
<1>3. ASSUME NEW j \in 1..Len(s), NEW k \in 1..Len(s), s[j].tag = s[k].tag PROVE j = k
  <2>1. <<i - 1, j>> = <<i - 1, k>>
    BY <1>2, <1>3
  <2> QED BY <2>1, TagIs
<1>4. Distinct(s)
  BY <1>3 DEF Distinct
<1>5. \A b, c \in Elements(s) : b.tag = c.tag => b = c
  BY <1>3 DEF Elements
<1>6. Apart(s)
  BY <1>1, <1>4, <1>5 DEF Apart
<1>7. \A j \in 1..Len(s) : s[j].tag[1] = i - 1
  BY <1>2
<1>8. \A b \in Elements(s) : b.type \in AssistantType /\ b.tag[1] = i - 1
  BY <1>2, <1>7 DEF Elements
<1>9. Tags(Of(s, {"tool_use"})) \in Seq(Tag) /\ Distinct(Tags(Of(s, {"tool_use"})))
      /\ Elements(Tags(Of(s, {"tool_use"}))) = ElementsOf(Elements(s), {"tool_use"})
  BY <1>6, OfTags
<1> QED BY <1>6, <1>8, <1>9 DEF s, CallsOf, HeldBy

LEMMA OpenCallsAre ==
  ASSUME NEW h, HistoryOK(h), NEW i \in 1..Len(h), UserIsNext(h, i)
  PROVE  /\ OpenCalls(h, i) \in Seq(Tag) /\ Distinct(OpenCalls(h, i))
         /\ i = 1 => OpenCalls(h, i) = <<>>
         /\ i # 1 => Elements(OpenCalls(h, i)) = HeldBy(h[i - 1], "tool_use")
<1>1. CASE i = 1
  <2>1. OpenCalls(h, i) = <<>>
    BY <1>1 DEF OpenCalls
  <2>2. <<>> \in Seq(Tag) /\ Distinct(<<>>)
    BY DEF Distinct
  <2> QED BY <1>1, <2>1, <2>2
<1>2. CASE i # 1
  <2> DEFINE k == i - 1
  <2>1. k \in 1..Len(h) /\ h[k].role = "assistant" /\ OpenCalls(h, i) = CallsOf(h[k])
    BY <1>2, TurnIs
  <2>2. AssistantTurnOK(h[k], k) /\ h[k].blocks \in Seq(TaggedBlock) /\ k \in Nat \ {0}
    BY <2>1, TurnIs, TurnBefore
  <2> HIDE DEF k
  <2>3. CallsOf(h[k]) \in Seq(Tag) /\ Distinct(CallsOf(h[k]))
        /\ Elements(CallsOf(h[k])) = HeldBy(h[k], "tool_use")
    BY <2>2, AssistantBlocks
  <2> QED BY <1>2, <2>1, <2>3 DEF k
<1> QED BY <1>1, <1>2

\* A result is in the turn after its call's.
LEMMA HeldTags ==
  ASSUME NEW h, HistoryOK(h), NEW i \in 1..Len(h), NEW b \in Elements(h[i].blocks)
  PROVE  /\ b.type \in {"text", "tool_use"} => b.tag[1] = i - 1
         /\ b.type = "tool_result" => /\ UserIsNext(h, i) /\ i # 1 /\ b.tag[1] = i - 2
                                      /\ b.tag \in HeldBy(h[i - 1], "tool_use")
<1>1. /\ h[i].blocks \in Seq(TaggedBlock) /\ i \in Nat \ {0}
      /\ UserIsNext(h, i) => UserTurnOK(h[i], i, OpenCalls(h, i))
      /\ ~UserIsNext(h, i) => AssistantTurnOK(h[i], i)
  BY TurnIs
<1>2. CASE ~UserIsNext(h, i)
  <2>1. b.type \in AssistantType /\ b.tag[1] = i - 1
    BY <1>1, <1>2, AssistantBlocks
  <2>2. b.type # "tool_result"
    BY <2>1 DEF AssistantType
  <2> QED BY <2>1, <2>2
<1>3. CASE UserIsNext(h, i)
  <2> DEFINE calls == OpenCalls(h, i)
             m == h[i]
  <2>1. UserTurnOK(m, i, calls) /\ calls \in Seq(Tag) /\ b \in Elements(m.blocks) /\ i \in Nat \ {0}
    BY <1>1, <1>3, OpenCallsAre
  <2>2. i = 1 => calls = <<>>
    BY <1>3, OpenCallsAre
  <2>3. i # 1 => Elements(calls) = HeldBy(h[i - 1], "tool_use")
    BY <1>3, OpenCallsAre
  <2>4. TextOf(i).type = "text" /\ TextOf(i).tag[1] = i - 1
    <3>1. TextOf(i).type = "text" /\ TextOf(i).tag = <<i - 1, 1>>
      BY <1>1, TextIs
    <3>2. <<i - 1, 1>>[1] = i - 1
      OBVIOUS
    <3> QED BY <3>1, <3>2
  <2>5. Block("image", <<0, 2>>).type = "image"
    BY DEF Block
  <2>6. ASSUME NEW results, Answering(results, calls), b \in Elements(results)
        PROVE  b.type = "tool_result" /\ i # 1 /\ b.tag[1] = i - 2 /\ b.tag \in HeldBy(h[i - 1], "tool_use")
    <3>1. /\ results \in Seq(TaggedBlock) /\ Len(results) = Len(calls) /\ Len(results) # 0
          /\ \A j \in 1..Len(results) : results[j].type = "tool_result"
          /\ Distinct(Tags(results)) /\ Elements(Tags(results)) = Elements(calls)
      BY <2>6 DEF Answering
    <3>2. b.type = "tool_result"
      BY <2>6, <3>1 DEF Elements
    <3>3. i # 1
      <4> DEFINE none == <<>>
      <4>1. Len(none) = 0 /\ (i = 1 => calls = none)
        BY <2>2
      <4> HIDE DEF none
      <4> QED BY <3>1, <4>1
    <3>4. b.tag \in Elements(Tags(results))
      <4>1. PICK j \in 1..Len(results) : b = results[j]
        BY <2>6 DEF Elements
      <4> DEFINE t == Tags(results)
      <4>2. t = [k \in 1..Len(results) |-> results[k].tag] /\ Len(results) \in Nat
        BY <3>1 DEF Tags
      <4> HIDE DEF t
      <4>3. Len(t) = Len(results) /\ t[j] = b.tag
        BY <4>1, <4>2
      <4> QED BY <4>1, <4>3 DEF Elements, t
    <3>5. b.tag \in HeldBy(h[i - 1], "tool_use")
      BY <2>3, <3>1, <3>3, <3>4
    <3>6. b.tag[1] = i - 2
      <4> DEFINE k == i - 1
      <4>1. k \in 1..Len(h) /\ h[k].role = "assistant"
        BY <1>3, <3>3, TurnIs
      <4>2. AssistantTurnOK(h[k], k) /\ h[k].blocks \in Seq(TaggedBlock) /\ k \in Nat \ {0} /\ k - 1 = i - 2
        BY <4>1, TurnIs, TurnBefore
      <4>3. b.tag \in HeldBy(h[k], "tool_use")
        BY <3>5
      <4> HIDE DEF k
      <4>4. PICK c \in Elements(h[k].blocks) : b.tag = c.tag
        BY <4>3 DEF HeldBy, ElementsOf
      <4>5. c.tag[1] = k - 1
        BY <4>2, AssistantBlocks
      <4> QED BY <4>2, <4>4, <4>5
    <3> QED BY <3>2, <3>3, <3>5, <3>6
  <2> HIDE DEF calls, m
  <2>7. \/ Elements(m.blocks) = {TextOf(i)}
        \/ Elements(m.blocks) = {TextOf(i), Block("image", <<0, 2>>)}
        \/ \E results, also : /\ Answering(results, calls) /\ also \in {<<>>, <<TextOf(i)>>}
                              /\ Elements(m.blocks) = Elements(results) \cup Elements(also)
    <3>1. TurnBlocks(m, i, calls)
      BY <2>1, UserBlocks
    <3> QED BY <3>1 DEF TurnBlocks
  <2>8. \A also \in {<<>>, <<TextOf(i)>>} : Elements(also) \subseteq {TextOf(i)}
    <3>1. Elements(<<TextOf(i)>>) = {TextOf(i)}
      BY ElementsOne
    <3>2. Elements(<<>>) = {}
      BY DEF Elements
    <3> QED BY <3>1, <3>2
  <2>9. CASE b = TextOf(i)
    BY <2>4, <2>9
  <2>10. CASE b = Block("image", <<0, 2>>)
    BY <2>5, <2>10
  <2>11. CASE \E results : Answering(results, calls) /\ b \in Elements(results)
    <3>1. b.type = "tool_result" /\ i # 1 /\ b.tag[1] = i - 2 /\ b.tag \in HeldBy(h[i - 1], "tool_use")
      BY <2>6, <2>11
    <3> QED BY <1>3, <3>1
  <2>12. b = TextOf(i) \/ b = Block("image", <<0, 2>>)
         \/ \E results : Answering(results, calls) /\ b \in Elements(results)
    BY <2>1, <2>7, <2>8
  <2> QED BY <2>9, <2>10, <2>11, <2>12
<1> QED BY <1>2, <1>3

LEMMA HeldNext ==
  ASSUME NEW h, NEW n \in Nat \ {0}, NEW type
  PROVE  /\ HeldTo(h, n, type) = HeldTo(h, n - 1, type) \cup HeldBy(h[n], type)
         /\ HeldTo(h, 0, type) = {}
<1>1. \A i \in 1..n : i \in 1..(n - 1) \/ i = n
  OBVIOUS
<1>2. n \in 1..n /\ (\A i \in 1..(n - 1) : i \in 1..n) /\ 1..0 = {}
  OBVIOUS
<1> QED BY <1>1, <1>2 DEF HeldTo

LEMMA HeldTurn ==
  ASSUME NEW h, HistoryOK(h), NEW i \in 1..Len(h)
  PROVE  /\ \A t \in HeldBy(h[i], "text") \cup HeldBy(h[i], "tool_use") : t[1] = i - 1
         /\ \A t \in HeldBy(h[i], "tool_result") : t[1] = i - 2
<1>1. \A b \in Elements(h[i].blocks) :
        /\ b.type \in {"text", "tool_use"} => b.tag[1] = i - 1
        /\ b.type = "tool_result" => b.tag[1] = i - 2
  BY HeldTags
<1> QED BY <1>1 DEF HeldBy, ElementsOf

LEMMA HeldApart ==
  ASSUME NEW h, HistoryOK(h), NEW n \in 1..Len(h), NEW type \in {"text", "tool_use", "tool_result"}
  PROVE  HeldTo(h, n - 1, type) \cap HeldBy(h[n], type) = {}
<1> SUFFICES ASSUME NEW i \in 1..(n - 1), NEW t \in HeldBy(h[i], type), t \in HeldBy(h[n], type)
             PROVE  FALSE
  BY DEF HeldTo
<1>1. i \in 1..Len(h) /\ i # n /\ n \in Int /\ i \in Int
  BY DEF HistoryOK
<1>2. CASE type = "tool_result"
  <2>1. t[1] = i - 2 /\ t[1] = n - 2
    BY <1>1, <1>2, HeldTurn
  <2> QED BY <1>1, <2>1
<1>3. CASE type # "tool_result"
  <2>1. t[1] = i - 1 /\ t[1] = n - 1
    BY <1>1, <1>3, HeldTurn
  <2> QED BY <1>1, <2>1
<1> QED BY <1>2, <1>3

\* Calls that the next turn does not answer are not answered.
LEMMA NotAnswered ==
  ASSUME NEW h, HistoryOK(h), NEW n \in 1..Len(h), n # 1, UserIsNext(h, n),
         HeldBy(h[n], "tool_result") = {}, CallsOf(h[n - 1]) # <<>>
  PROVE  ~(Elements(CallsOf(h[n - 1])) \subseteq HeldTo(h, Len(h), "tool_result"))
<1> DEFINE calls == CallsOf(h[n - 1])
           k == n - 1
<1>1. /\ k \in 1..Len(h) /\ k \in Nat \ {0} /\ h[k].blocks \in Seq(TaggedBlock)
      /\ AssistantTurnOK(h[k], k)
  <2>1. k \in 1..Len(h) /\ h[k].role = "assistant"
    BY TurnIs
  <2> QED BY <2>1, TurnIs, TurnBefore
<1>2. /\ CallsOf(h[k]) \in Seq(Tag)
      /\ Elements(CallsOf(h[k])) = HeldBy(h[k], "tool_use")
  BY <1>1, AssistantBlocks
<1>3. PICK t : t \in Elements(calls)
  <2>1. calls \in Seq(Tag) /\ calls # <<>>
    BY <1>2
  <2> HIDE DEF calls
  <2>2. 1 \in 1..Len(calls)
    BY <2>1
  <2> QED BY <2>2 DEF Elements
<1>4. t[1] = n - 2
  <2>1. t \in HeldBy(h[k], "tool_use")
    BY <1>2, <1>3
  <2>2. t[1] = k - 1
    BY <1>1, <2>1, HeldTurn
  <2> QED BY <2>2
<1>5. t \notin HeldTo(h, Len(h), "tool_result")
  <2> SUFFICES ASSUME NEW i \in 1..Len(h), t \in HeldBy(h[i], "tool_result") PROVE FALSE
    BY DEF HeldTo
  <2>1. t[1] = i - 2
    BY HeldTurn
  <2>2. i = n
    BY <1>4, <2>1
  <2> QED BY <2>2
<1> QED BY <1>3, <1>5
-----------------------------------------------------------------------------
(* Round by round, nothing gets lost: it is out or waits.                    *)

LEMMA NothingDeferred == Deferring(NoPending, {}) /\ NoPending.ids = {} /\ NoPending.blocks = <<>>
<1>1. Apart(<<>>) /\ Elements(<<>>) = {}
  BY DEF Apart, Distinct, Elements
<1>2. ElementsOf({}, {"text"}) = {}
  BY DEF ElementsOf
<1> QED BY <1>1, <1>2 DEF NoPending, Deferring

LEMMA RoundStart ==
  ASSUME NEW h, NEW A, NEW thinking, NEW acc, acc = [out |-> <<>>, pending |-> NoPending]
  PROVE  RoundOK(h, A, 0, acc, thinking)
<1>1. acc.out = <<>> /\ acc.pending = NoPending
  <2> DEFINE none == <<>>
             no == NoPending
  <2>1. acc = [out |-> none, pending |-> no]
    OBVIOUS
  <2> HIDE DEF none, no
  <2>2. acc.out = none /\ acc.pending = no
    BY <2>1
  <2> QED BY <2>2 DEF none, no
<1>2. HeldTo(h, 0, "text") = {} /\ HeldTo(h, 0, "tool_use") = {} /\ HeldTo(h, 0, "tool_result") = {}
  <2>1. 1..0 = {}
    OBVIOUS
  <2> QED BY <2>1 DEF HeldTo
<1>3. Conveys(<<>>, {}, {}, {}, thinking)
  BY ConveysNone
<1>4. ResultsFollow(<<>>, A)
  <2> DEFINE none == <<>>
  <2>1. Len(none) = 0
    OBVIOUS
  <2> HIDE DEF none
  <2>2. Silent(none)
    BY <2>1 DEF Silent
  <2> QED BY <2>2, FollowSilent DEF none
<1>5. {} \ {} = {}
  OBVIOUS
<1> QED BY <1>1, <1>2, <1>3, <1>4, <1>5, NothingDeferred DEF RoundOK

\* What is out and what waits is all there was.
LEMMA AllOut ==
  ASSUME NEW h, NEW A, NEW n, NEW acc, NEW thinking, RoundOK(h, A, n, acc, thinking)
  PROVE  /\ acc.out \in Seq(ChatMessage) /\ Deferred(acc.pending, thinking) \in Seq(ChatMessage)
         /\ Conveys(acc.out \o Deferred(acc.pending, thinking), HeldTo(h, n, "text"),
                    HeldTo(h, n, "tool_use"), HeldTo(h, n, "tool_result"), thinking)
         /\ ResultsFollow(acc.out, A) =>
              ResultsFollow(acc.out \o Deferred(acc.pending, thinking), A)
<1> DEFINE D == Deferred(acc.pending, thinking)
           C == HeldTo(h, n, "tool_use")
           R == HeldTo(h, n, "tool_result")
           S == HeldTo(h, n, "text")
<1>1. PICK T : /\ Deferring(acc.pending, T) /\ T \subseteq S
               /\ Conveys(acc.out, S \ T, C, R, thinking)
  BY DEF RoundOK
<1>2. Conveys(D, T, {}, {}, thinking) /\ Silent(D)
  BY <1>1, DeferredConveys
<1> HIDE DEF D, C, R, S
<1>3. acc.out \in Seq(ChatMessage) /\ D \in Seq(ChatMessage)
  BY <1>1, <1>2 DEF Conveys
<1>4. Conveys(acc.out \o D, S, C, R, thinking)
  <2>1. (S \ T) \cap T = {} /\ C \cap {} = {} /\ R \cap {} = {}
    OBVIOUS
  <2>2. Conveys(acc.out \o D, (S \ T) \cup T, C \cup {}, R \cup {}, thinking)
    BY <1>1, <1>2, <2>1, ConveysConcat
  <2>3. (S \ T) \cup T = S /\ C \cup {} = C /\ R \cup {} = R
    BY <1>1
  <2> QED BY <2>2, <2>3
<1>5. ResultsFollow(acc.out, A) => ResultsFollow(acc.out \o D, A)
  BY <1>2, <1>3, FollowConcat, FollowSilent
<1> QED BY <1>3, <1>4, <1>5 DEF D, C, R, S

\* Of calls that stay open, nothing is asked.
LEMMA RoundUnanswered ==
  ASSUME NEW h, HistoryOK(h), NEW n \in 1..Len(h), UserIsNext(h, n),
         HeldBy(h[n], "tool_result") = {},
         NEW acc, NEW thinking, RoundOK(h, HeldTo(h, Len(h), "tool_result"), n - 1, acc, thinking)
  PROVE  ResultsFollow(acc.out, HeldTo(h, Len(h), "tool_result"))
<1> DEFINE A == HeldTo(h, Len(h), "tool_result")
<1>1. CASE n = 1
  <2>1. n - 1 = 0
    BY <1>1
  <2> QED BY <2>1 DEF RoundOK
<1>2. CASE n # 1
  <2>1. h[n - 1].role = "assistant" /\ n - 1 # 0
    BY <1>2, TurnIs
  <2>2. PICK base \in Seq(ChatMessage), c \in ChatMessage :
          acc.out = base \o <<c>> /\ ResultsFollow(base, A) /\ c.calls = CallsOf(h[n - 1])
    BY <2>1 DEF RoundOK
  <2>3. c.calls # <<>> => ~(Elements(c.calls) \subseteq A)
    BY <1>2, <2>2, NotAnswered
  <2> HIDE DEF A
  <2>4. ResultsFollow(<<c>>, A)
    BY <2>3, FollowUnanswered
  <2>5. <<c>> \in Seq(ChatMessage)
    OBVIOUS
  <2>6. ResultsFollow(base \o <<c>>, A)
    BY <2>2, <2>4, <2>5, FollowConcat
  <2> QED BY <2>2, <2>6 DEF A
<1> QED BY <1>1, <1>2

\* A turn of the model.
LEMMA RoundAssistant ==
  ASSUME NEW h, HistoryOK(h), NEW A, NEW n \in 1..Len(h), ~UserIsNext(h, n),
         NEW acc, NEW thinking, RoundOK(h, A, n - 1, acc, thinking)
  PROVE  RoundOK(h, A, n, ConvertOne(acc, h[n], thinking), thinking)
<1> DEFINE m == h[n]
           s == m.blocks
           calls == CallsOf(m)
           D == Deferred(acc.pending, thinking)
           base == acc.out \o D
           split == Split(s, thinking)
           alone == AssistantSays(s, thinking)
           r == ConvertOne(acc, m, thinking)
           S == HeldTo(h, n - 1, "text")
           C == HeldTo(h, n - 1, "tool_use")
           R == HeldTo(h, n - 1, "tool_result")
           S2 == HeldTo(h, n, "text")
           C2 == HeldTo(h, n, "tool_use")
           R2 == HeldTo(h, n, "tool_result")
<1>1. /\ AssistantTurnOK(m, n) /\ m.role = "assistant" /\ s \in Seq(TaggedBlock) /\ n \in Nat \ {0}
  BY TurnIs
<1>2. /\ Apart(s) /\ calls \in Seq(Tag) /\ Distinct(calls) /\ Elements(calls) = HeldBy(m, "tool_use")
      /\ \A b \in Elements(s) : b.type \in AssistantType
  BY <1>1, AssistantBlocks
<1>3. HeldBy(m, "tool_result") = {}
  BY <1>2 DEF HeldBy, ElementsOf, AssistantType
<1>4. ~m.plain /\ m.role # "user"
  BY <1>1 DEF AssistantTurnOK
<1>5. ResultsFollow(acc.out, A)
  <2>1. n - 1 = 0 \/ h[n - 1].role = "user"
    <3>1. n # 1
      BY DEF UserIsNext
    <3>2. n - 1 \in 1..Len(h) /\ h[n - 1].role # "assistant"
      BY <3>1, TurnIs DEF UserIsNext
    <3>3. h[n - 1] \in Turn
      BY <3>2, TurnIs
    <3> QED BY <3>2, <3>3 DEF Turn
  <2> QED BY <2>1 DEF RoundOK
<1>6. base \in Seq(ChatMessage) /\ Conveys(base, S, C, R, thinking) /\ ResultsFollow(base, A)
  <2>1. /\ acc.out \in Seq(ChatMessage) /\ D \in Seq(ChatMessage)
        /\ Conveys(base, S, C, R, thinking) /\ ResultsFollow(base, A)
    BY <1>5, AllOut
  <2> QED BY <2>1, ConcatParts
<1>7. /\ S2 = S \cup HeldBy(m, "text") /\ C2 = C \cup Elements(calls) /\ R2 = R
      /\ S \cap HeldBy(m, "text") = {} /\ C \cap Elements(calls) = {}
  <2>1. /\ S2 = S \cup HeldBy(m, "text") /\ C2 = C \cup HeldBy(m, "tool_use")
        /\ R2 = R \cup HeldBy(m, "tool_result")
    BY <1>1, HeldNext
  <2>2. S \cap HeldBy(m, "text") = {} /\ C \cap HeldBy(m, "tool_use") = {}
    BY HeldApart
  <2> HIDE DEF S, C, R, S2, C2, R2, m, calls
  <2> QED BY <1>2, <1>3, <2>1, <2>2
<1>8. n # 0 /\ m = h[n]
  BY <1>1
<1>9. HeldBy(m, "text") = ElementsOf(Elements(s), {"text"})
  BY DEF HeldBy
<1>10. calls = Tags(Of(s, {"tool_use"}))
  BY DEF CallsOf
<1>11. CASE Of(s, {"tool_use"}) # <<>>
  <2>1. r = [out |-> base \o split.out, pending |-> split.pending]
    BY <1>4, <1>1, <1>11 DEF ConvertOne
  <2>2. PICK c \in ChatMessage : \E T1, T2 :
               /\ split.out = <<c>> /\ c.calls = Tags(Of(s, {"tool_use"}))
               /\ Conveys(split.out, T1, Elements(Tags(Of(s, {"tool_use"}))), {}, thinking)
               /\ Deferring(split.pending, T2)
               /\ T1 \cap T2 = {} /\ T1 \cup T2 = ElementsOf(Elements(s), {"text"})
               /\ split.pending.ids = IF split.pending.blocks = <<>> THEN {}
                                      ELSE Elements(Tags(Of(s, {"tool_use"})))
    BY <1>2, SplitConveys
  <2>3. PICK T1, T2 :
               /\ split.out = <<c>> /\ c.calls = calls
               /\ Conveys(split.out, T1, Elements(calls), {}, thinking)
               /\ Deferring(split.pending, T2)
               /\ T1 \cap T2 = {} /\ T1 \cup T2 = HeldBy(m, "text")
               /\ split.pending.ids = IF split.pending.blocks = <<>> THEN {} ELSE Elements(calls)
    BY <1>9, <1>10, <2>2
  <2> DEFINE q == split.pending
             out == base \o <<c>>
  <2> HIDE DEF base, calls, r, q, m, S, C, R, S2, C2, R2
  <2>4. r.out = out /\ r.pending = q
    <3>1. r = [out |-> out, pending |-> q]
      BY <2>1, <2>3 DEF q
    <3> HIDE DEF out
    <3> QED BY <3>1
  <2>5. Conveys(out, S2 \ T2, C2, R2, thinking)
    <3>1. Conveys(<<c>>, T1, Elements(calls), {}, thinking)
      BY <2>3
    <3>2. S \cap T1 = {} /\ R \cap {} = {}
      BY <1>7, <2>3
    <3>3. Conveys(out, S \cup T1, C \cup Elements(calls), R \cup {}, thinking)
      BY <1>6, <1>7, <3>1, <3>2, ConveysConcat
    <3>4. S \cup T1 = S2 \ T2 /\ R \cup {} = R2
      BY <1>7, <2>3
    <3> QED BY <1>7, <3>3, <3>4
  <2>6. T2 \subseteq S2 /\ Deferring(q, T2)
    BY <1>7, <2>3 DEF q
  <2>7. c.calls = calls /\ q.ids = IF q.blocks = <<>> THEN {} ELSE Elements(c.calls)
    BY <2>3 DEF q
  <2>8. /\ \E T : /\ Deferring(r.pending, T) /\ T \subseteq S2
                  /\ Conveys(r.out, S2 \ T, C2, R2, thinking)
        /\ r.out = base \o <<c>>
        /\ r.pending.ids = IF r.pending.blocks = <<>> THEN {} ELSE Elements(c.calls)
    BY <2>4, <2>5, <2>6, <2>7
  <2> QED BY <1>1, <1>4, <1>6, <1>8, <2>7, <2>8 DEF RoundOK, r, m, S2, C2, R2, calls
<1>12. CASE Of(s, {"tool_use"}) = <<>>
  <2>1. r = [out |-> base \o <<alone>>, pending |-> NoPending]
    BY <1>4, <1>1, <1>12 DEF ConvertOne
  <2>2. /\ alone \in ChatMessage /\ alone.calls = calls
        /\ Conveys(<<alone>>, HeldBy(m, "text"), Elements(calls), {}, thinking)
    <3>1. /\ alone \in ChatMessage
          /\ alone.calls = Tags(Of(s, {"tool_use"}))
          /\ Conveys(<<alone>>, ElementsOf(Elements(s), {"text"}), ElementsOf(Elements(s), {"tool_use"}),
                     {}, thinking)
      BY <1>2, AssistantConveys
    <3>2. ElementsOf(Elements(s), {"tool_use"}) = Elements(calls)
      BY <1>2 DEF HeldBy
    <3> QED BY <1>9, <1>10, <3>1, <3>2
  <2> DEFINE out == base \o <<alone>>
  <2> HIDE DEF base, alone, calls, r, m, S, C, R, S2, C2, R2
  <2>3. r.out = out /\ r.pending = NoPending
    <3>1. r = [out |-> out, pending |-> NoPending]
      BY <2>1
    <3> HIDE DEF out
    <3> QED BY <3>1
  <2>4. Conveys(out, S2 \ {}, C2, R2, thinking)
    <3>1. R \cap {} = {} /\ R \cup {} = R2 /\ S2 \ {} = S \cup HeldBy(m, "text")
      BY <1>7
    <3>2. Conveys(out, S \cup HeldBy(m, "text"), C \cup Elements(calls), R \cup {}, thinking)
      BY <1>6, <1>7, <2>2, <3>1, ConveysConcat
    <3> QED BY <1>7, <3>1, <3>2
  <2>5. /\ \E T : /\ Deferring(r.pending, T) /\ T \subseteq S2
                  /\ Conveys(r.out, S2 \ T, C2, R2, thinking)
        /\ r.out = base \o <<alone>>
        /\ r.pending.ids = IF r.pending.blocks = <<>> THEN {} ELSE Elements(alone.calls)
    BY <2>3, <2>4, NothingDeferred
  <2> QED BY <1>1, <1>4, <1>6, <1>8, <2>2, <2>5 DEF RoundOK, r, m, S2, C2, R2, calls
<1> QED BY <1>11, <1>12

LEMMA OneText ==
  ASSUME NEW n \in Nat \ {0}, NEW m, m.blocks = <<TextOf(n)>>
  PROVE  LET tag == <<n - 1, 1>>
         IN  /\ tag \in Tag /\ Tags(m.blocks) = <<tag>>
             /\ HeldBy(m, "text") = {tag} /\ HeldBy(m, "tool_use") = {} /\ HeldBy(m, "tool_result") = {}
<1> DEFINE b == TextOf(n)
           tag == <<n - 1, 1>>
           s == <<b>>
<1>1. b \in TaggedBlock /\ b.type = "text" /\ b.tag = tag /\ tag \in Tag
  BY TextIs
<1> HIDE DEF b, tag
<1>2. Elements(s) = {b}
  BY <1>1, ElementsOne
<1>3. Tags(s) = <<tag>>
  <2>1. DOMAIN s = {1} /\ s[1] = b
    OBVIOUS
  <2> HIDE DEF s
  <2>2. Tags(s) = [i \in {1} |-> s[i].tag]
    BY <2>1 DEF Tags
  <2>3. [i \in {1} |-> s[i].tag] = [i \in {1} |-> tag]
    BY <1>1, <2>1
  <2>4. <<tag>> = [i \in {1} |-> tag]
    OBVIOUS
  <2> QED BY <2>2, <2>3, <2>4
<1>4. m.blocks = s
  BY DEF b
<1> HIDE DEF s
<1>5. HeldBy(m, "text") = {tag} /\ HeldBy(m, "tool_use") = {} /\ HeldBy(m, "tool_result") = {}
  BY <1>1, <1>2, <1>4 DEF HeldBy, ElementsOf
<1> QED BY <1>1, <1>3, <1>4, <1>5 DEF tag

\* A turn of the user that answers no call.
LEMMA RoundText ==
  ASSUME NEW h, HistoryOK(h), NEW n \in 1..Len(h), UserIsNext(h, n), h[n].blocks = <<TextOf(n)>>,
         NEW acc, NEW thinking, RoundOK(h, HeldTo(h, Len(h), "tool_result"), n - 1, acc, thinking)
  PROVE  RoundOK(h, HeldTo(h, Len(h), "tool_result"), n, ConvertOne(acc, h[n], thinking), thinking)
<1> DEFINE A == HeldTo(h, Len(h), "tool_result")
           m == h[n]
           s == m.blocks
           p == acc.pending
           D == Deferred(p, thinking)
           flushed == acc.out \o D
           tag == <<n - 1, 1>>
           says == UserSays(<<tag>>)
           r == ConvertOne(acc, m, thinking)
           S == HeldTo(h, n - 1, "text")
           C == HeldTo(h, n - 1, "tool_use")
           R == HeldTo(h, n - 1, "tool_result")
           S2 == HeldTo(h, n, "text")
           C2 == HeldTo(h, n, "tool_use")
           R2 == HeldTo(h, n, "tool_result")
<1>1. m.role = "user" /\ n \in Nat \ {0}
  BY TurnIs
<1>2. /\ tag \in Tag /\ Tags(s) = <<tag>>
      /\ HeldBy(m, "text") = {tag} /\ HeldBy(m, "tool_use") = {} /\ HeldBy(m, "tool_result") = {}
  BY <1>1, OneText
<1>3. ResultsFollow(acc.out, A)
  BY <1>2, RoundUnanswered
<1>4. /\ S2 = S \cup {tag} /\ C2 = C /\ R2 = R /\ tag \notin S
  <2>1. /\ S2 = S \cup HeldBy(m, "text") /\ C2 = C \cup HeldBy(m, "tool_use")
        /\ R2 = R \cup HeldBy(m, "tool_result")
    BY <1>1, HeldNext
  <2>2. S \cap HeldBy(m, "text") = {}
    BY HeldApart
  <2> HIDE DEF S, C, R, S2, C2, R2, m, tag
  <2> QED BY <1>2, <2>1, <2>2
<1>5. /\ says = <<Chat("user", <<tag>>, <<>>, <<>>, <<>>)>>
      /\ Conveys(says, {tag}, {}, {}, thinking) /\ Silent(says) /\ says \in Seq(ChatMessage)
  <2>1. /\ says = <<Chat("user", <<tag>>, <<>>, <<>>, <<>>)>>
        /\ Conveys(says, {tag}, {}, {}, thinking) /\ Len(says) = 1 /\ says[1].calls = <<>>
    BY <1>2, UserConveys
  <2> HIDE DEF says
  <2>2. \A i \in 1..Len(says) : i = 1
    BY <2>1
  <2>3. Silent(says)
    BY <2>1, <2>2 DEF Silent
  <2> QED BY <2>1, <2>3 DEF Conveys
<1>6. n # 0 /\ m.role = "user"
  BY <1>1
<1>7. ResultsFollow(says, A)
  BY <1>5, FollowSilent
<1>8. \A X, Y : [out |-> X, pending |-> Y].out = X /\ [out |-> X, pending |-> Y].pending = Y
  OBVIOUS
<1>9. CASE m.plain
  <2>1. r = [out |-> Append(flushed, Chat(m.role, Tags(s), <<>>, <<>>, <<>>)), pending |-> NoPending]
    BY <1>1, <1>9 DEF ConvertOne
  <2>2. /\ acc.out \in Seq(ChatMessage) /\ D \in Seq(ChatMessage)
        /\ Conveys(flushed, S, C, R, thinking) /\ ResultsFollow(flushed, A)
    BY <1>3, AllOut
  <2>3. flushed \in Seq(ChatMessage)
    BY <2>2, ConcatParts
  <2> DEFINE x == Chat("user", <<tag>>, <<>>, <<>>, <<>>)
             out == flushed \o says
  <2>4. r = [out |-> Append(flushed, x), pending |-> NoPending]
    BY <1>1, <1>2, <2>1
  <2>5. says = <<x>> /\ x \in ChatMessage
    <3>1. says = <<x>>
      BY <1>5
    <3> DEFINE one == <<x>>
    <3>2. one[1] = x /\ Len(one) = 1
      OBVIOUS
    <3> HIDE DEF x, says, one
    <3>3. one \in Seq(ChatMessage)
      BY <1>5, <3>1 DEF one
    <3>4. one[1] \in ChatMessage
      <4>1. 1 \in 1..Len(one)
        BY <3>2
      <4> QED BY <3>3, <4>1, ElementOfSeq
    <3> QED BY <3>1, <3>2, <3>4
  <2> HIDE DEF flushed, x, r, says
  <2>6. Append(flushed, x) = out
    BY <2>3, <2>5, AppendIsConcat
  <2>7. r.out = out /\ r.pending = NoPending
    BY <1>8, <2>4, <2>6
  <2> HIDE DEF S, C, R, S2, C2, R2, tag, m, A
  <2>8. Conveys(out, S2 \ {}, C2, R2, thinking)
    <3>1. S \cap {tag} = {} /\ C \cap {} = {} /\ R \cap {} = {}
      BY <1>4
    <3>2. Conveys(out, S \cup {tag}, C \cup {}, R \cup {}, thinking)
      BY <1>5, <2>2, <3>1, ConveysConcat
    <3>3. S \cup {tag} = S2 \ {} /\ C \cup {} = C2 /\ R \cup {} = R2
      BY <1>4
    <3> QED BY <3>2, <3>3
  <2>9. ResultsFollow(out, A)
    BY <1>5, <1>7, <2>2, <2>3, FollowConcat
  <2>10. \E T : /\ Deferring(r.pending, T) /\ T \subseteq S2
                /\ Conveys(r.out, S2 \ T, C2, R2, thinking)
    BY <2>7, <2>8, NothingDeferred
  <2> QED BY <1>6, <2>7, <2>9, <2>10 DEF RoundOK, r, m, S2, C2, R2, A
<1>10. CASE ~m.plain
  <2> DEFINE user == UserMessages(s, p, thinking)
             out == acc.out \o says
  <2>1. r = [out |-> acc.out \o user.out, pending |-> user.pending]
    BY <1>1, <1>10 DEF ConvertOne
  <2>2. PICK T : /\ Deferring(p, T) /\ T \subseteq S
                 /\ Conveys(acc.out, S \ T, C, R, thinking)
    BY DEF RoundOK
  <2>3. user.out = says /\ user.pending = p
    <3> DEFINE b == TextOf(n)
    <3>1. b \in TaggedBlock /\ b.type = "text" /\ b.tag = tag
      BY <1>1, TextIs
    <3> HIDE DEF b
    <3>2. /\ UserMessages(<<b>>, p, thinking).out = UserSays(<<b.tag>>)
          /\ UserMessages(<<b>>, p, thinking).pending = p
      BY <2>2, <3>1, TextTaken
    <3>3. s = <<b>>
      BY DEF b
    <3> QED BY <3>1, <3>2, <3>3
  <2> HIDE DEF user, says, r, p
  <2>4. r.out = out /\ r.pending = p
    BY <1>8, <2>1, <2>3
  <2> HIDE DEF S, C, R, S2, C2, R2, tag, m, A
  <2>5. Conveys(out, S2 \ T, C2, R2, thinking)
    <3>1. (S \ T) \cap {tag} = {} /\ C \cap {} = {} /\ R \cap {} = {}
      BY <1>4
    <3>2. Conveys(out, (S \ T) \cup {tag}, C \cup {}, R \cup {}, thinking)
      BY <1>5, <2>2, <3>1, ConveysConcat
    <3>3. (S \ T) \cup {tag} = S2 \ T /\ C \cup {} = C2 /\ R \cup {} = R2
      BY <1>4, <2>2
    <3> QED BY <3>2, <3>3
  <2>6. ResultsFollow(out, A)
    <3>1. acc.out \in Seq(ChatMessage)
      BY <2>2 DEF Conveys
    <3> QED BY <1>3, <1>5, <1>7, <3>1, FollowConcat
  <2>7. T \subseteq S2
    BY <1>4, <2>2
  <2>8. \E X : /\ Deferring(r.pending, X) /\ X \subseteq S2
               /\ Conveys(r.out, S2 \ X, C2, R2, thinking)
    BY <2>2, <2>4, <2>5, <2>7
  <2> QED BY <1>6, <2>4, <2>6, <2>8 DEF RoundOK, r, m, S2, C2, R2, A
<1> QED BY <1>9, <1>10

LEMMA FollowInParts ==
  ASSUME NEW x \in Seq(ChatMessage), NEW y \in Seq(ChatMessage), NEW z \in Seq(ChatMessage),
         NEW v \in Seq(ChatMessage), NEW w \in Seq(ChatMessage), NEW A,
         ResultsFollow(((x \o (y \o z)) \o v) \o w, A)
  PROVE  ResultsFollow((x \o y) \o ((z \o v) \o w), A)
<1> DEFINE a == x \o y
           b == z \o v
<1>1. a \in Seq(ChatMessage) /\ b \in Seq(ChatMessage)
  BY ConcatParts
<1>2. a \o z = x \o (y \o z)
  BY ConcatAssociative, SMTT(30)
<1> HIDE DEF a
<1>3. (a \o z) \o v = a \o b
  BY <1>1, ConcatAssociative, SMTT(30)
<1> HIDE DEF b
<1>4. (a \o b) \o w = a \o (b \o w)
  BY <1>1, ConcatAssociative, SMTT(30)
<1>5. ResultsFollow(a \o (b \o w), A)
  BY <1>2, <1>3, <1>4
<1> QED BY <1>5 DEF a, b

\* After a message with calls: their results, then what waited, then what is new.
LEMMA FollowTurn ==
  ASSUME NEW base \in Seq(ChatMessage), NEW c \in ChatMessage, NEW tools \in Seq(ChatMessage),
         NEW D \in Seq(ChatMessage), NEW says \in Seq(ChatMessage), NEW A,
         ResultsFollow(base, A), Silent(tools), Silent(D), Silent(says),
         Len(tools) = Len(c.calls), {tools[j].result : j \in 1..Len(tools)} = Elements(c.calls)
  PROVE  ResultsFollow((base \o <<c>>) \o ((tools \o D) \o says), A)
<1> DEFINE one == <<c>>
           new == one \o tools
           x == base \o new
           y == x \o D
<1>1. one \in Seq(ChatMessage) /\ ResultsFollow(new, A)
  <2>1. ResultsFollow(<<c>> \o tools, A)
    BY FollowAnswered
  <2>2. one \in Seq(ChatMessage)
    OBVIOUS
  <2> QED BY <2>1, <2>2
<1> HIDE DEF one
<1>2. new \in Seq(ChatMessage)
  BY <1>1, ConcatParts
<1> HIDE DEF new
<1>3. x \in Seq(ChatMessage) /\ ResultsFollow(x, A)
  BY <1>1, <1>2, FollowConcat, ConcatParts
<1>4. ResultsFollow(D, A) /\ ResultsFollow(says, A)
  BY FollowSilent
<1> HIDE DEF x
<1>5. y \in Seq(ChatMessage) /\ ResultsFollow(y, A)
  BY <1>3, <1>4, FollowConcat, ConcatParts
<1> HIDE DEF y
<1>6. ResultsFollow(y \o says, A)
  BY <1>4, <1>5, FollowConcat
<1>7. ResultsFollow(((base \o (one \o tools)) \o D) \o says, A)
  BY <1>6 DEF y, x, new
<1>8. ResultsFollow((base \o one) \o ((tools \o D) \o says), A)
  BY <1>1, <1>7, FollowInParts
<1> QED BY <1>8 DEF one

\* A turn of the user that answers the calls.
LEMMA RoundAnswers ==
  ASSUME NEW h, HistoryOK(h), NEW n \in 1..Len(h), UserIsNext(h, n), ~h[n].plain,
         NEW results, NEW also, Answering(results, OpenCalls(h, n)), also \in {<<>>, <<TextOf(n)>>},
         h[n].blocks = results \o also,
         NEW A, NEW acc, NEW thinking, RoundOK(h, A, n - 1, acc, thinking)
  PROVE  RoundOK(h, A, n, ConvertOne(acc, h[n], thinking), thinking)
<1> DEFINE m == h[n]
           s == m.blocks
           K == Len(results)
           calls == OpenCalls(h, n)
           p == acc.pending
           D == Deferred(p, thinking)
           user == UserMessages(s, p, thinking)
           says == UserSays(Tags(also))
           r == ConvertOne(acc, m, thinking)
           S == HeldTo(h, n - 1, "text")
           C == HeldTo(h, n - 1, "tool_use")
           R == HeldTo(h, n - 1, "tool_result")
           S2 == HeldTo(h, n, "text")
           C2 == HeldTo(h, n, "tool_use")
           R2 == HeldTo(h, n, "tool_result")
           new == ElementsOf(Elements(also), {"text"})
<1>1. m.role = "user" /\ n \in Nat \ {0} /\ n # 0 /\ m.role # "assistant"
  BY TurnIs
<1>2. /\ results \in Seq(TaggedBlock) /\ K = Len(calls) /\ K # 0
      /\ \A j \in 1..K : results[j].type = "tool_result"
      /\ Distinct(Tags(results)) /\ Elements(Tags(results)) = Elements(calls)
  BY DEF Answering
<1>3. K \in Nat
  BY <1>2
<1>4. n # 1
  <2> DEFINE none == <<>>
  <2>1. Len(none) = 0
    OBVIOUS
  <2>2. n = 1 => calls = none
    BY OpenCallsAre
  <2> HIDE DEF none, calls
  <2> QED BY <1>2, <2>1, <2>2
<1>5. h[n - 1].role = "assistant" /\ calls = CallsOf(h[n - 1]) /\ n - 1 # 0
  BY <1>4, TurnIs
<1>6. /\ also \in Seq(TaggedBlock) /\ (also = <<>> \/ (Len(also) = 1 /\ also[1].type = "text"))
      /\ Conveys(says, new, {}, {}, thinking) /\ Silent(says)
      /\ \A b \in Elements(also) : b.type = "text"
  <2>1. CASE also = <<>>
    <3>1. Tags(<<>>) = <<>>
      BY DEF Tags
    <3>2. says = <<>>
      BY <2>1, <3>1 DEF UserSays
    <3>3. Elements(<<>>) = {}
      BY DEF Elements
    <3>4. new = {}
      BY <2>1, <3>3 DEF ElementsOf
    <3>5. <<>> \in Seq(TaggedBlock)
      OBVIOUS
    <3>6. Silent(<<>>)
      <4> DEFINE none == <<>>
      <4>1. Len(none) = 0
        OBVIOUS
      <4> HIDE DEF none
      <4>2. Silent(none)
        BY <4>1 DEF Silent
      <4> QED BY <4>2 DEF none
    <3> QED BY <2>1, <3>2, <3>3, <3>4, <3>5, <3>6, ConveysNone
  <2>2. CASE also = <<TextOf(n)>>
    <3> DEFINE b == TextOf(n)
               tag == <<n - 1, 1>>
               mm == [blocks |-> also]
    <3>1. b \in TaggedBlock /\ b.type = "text" /\ b.tag = tag /\ tag \in Tag
      BY <1>1, TextIs
    <3> HIDE DEF b
    <3>2. also \in Seq(TaggedBlock) /\ Len(also) = 1 /\ also[1] = b /\ Elements(also) = {b}
      <4>1. also = <<b>>
        BY <2>2 DEF b
      <4> QED BY <3>1, <4>1, ElementsOne
    <3>3. mm.blocks = also
      OBVIOUS
    <3>4. mm.blocks = <<TextOf(n)>>
      BY <2>2, <3>3
    <3> HIDE DEF mm
    <3>5. Tags(mm.blocks) = <<tag>>
      BY <1>1, <3>4, OneText
    <3> HIDE DEF tag
    <3>6. says = UserSays(<<tag>>)
      BY <3>3, <3>5
    <3>7. Conveys(says, {tag}, {}, {}, thinking) /\ Len(says) = 1 /\ says[1].calls = <<>>
      BY <3>1, <3>6, UserConveys
    <3>8. new = {tag}
      BY <3>1, <3>2 DEF ElementsOf
    <3> HIDE DEF says, new
    <3>9. \A i \in 1..Len(says) : i = 1
      BY <3>7
    <3>10. Silent(says)
      BY <3>7, <3>9 DEF Silent
    <3> QED BY <3>1, <3>2, <3>7, <3>8, <3>10
  <2> QED BY <2>1, <2>2
<1>7. TagsTo(results, K) = Elements(calls)
  <2> DEFINE t == Tags(results)
  <2>1. t = [k \in 1..K |-> results[k].tag]
    BY <1>2 DEF Tags
  <2> HIDE DEF t
  <2>2. Len(t) = K /\ \A k \in 1..K : t[k] = results[k].tag
    BY <1>3, <2>1
  <2>3. Elements(t) = TagsTo(results, K)
    BY <2>2 DEF Elements, TagsTo
  <2> QED BY <1>2, <2>3 DEF t
<1>8. HeldBy(m, "text") = new /\ HeldBy(m, "tool_use") = {} /\ HeldBy(m, "tool_result") = TagsTo(results, K)
  <2> DEFINE B == Elements(results)
             B2 == Elements(also)
  <2>1. Elements(s) = B \cup B2
    BY <1>2, <1>6, ElementsConcat
  <2>2. \A b \in B : b.type = "tool_result"
    BY <1>2 DEF Elements
  <2>3. {b.tag : b \in B} = TagsTo(results, K)
    BY DEF Elements, TagsTo
  <2>4. \A b \in B2 : b.type = "text"
    BY <1>6
  <2> HIDE DEF B, B2
  <2>5. ElementsOf(B \cup B2, {"text"}) = ElementsOf(B2, {"text"})
    BY <2>2 DEF ElementsOf
  <2>6. ElementsOf(B \cup B2, {"tool_use"}) = {}
    BY <2>2, <2>4 DEF ElementsOf
  <2>7. ElementsOf(B \cup B2, {"tool_result"}) = {b.tag : b \in B}
    <3>1. {c \in B \cup B2 : c.type \in {"tool_result"}} = B
      BY <2>2, <2>4
    <3> QED BY <3>1 DEF ElementsOf
  <2> QED BY <2>1, <2>3, <2>5, <2>6, <2>7 DEF HeldBy, B2
<1>9. /\ S2 = S \cup new /\ C2 = C /\ R2 = R \cup TagsTo(results, K)
      /\ S \cap new = {} /\ R \cap TagsTo(results, K) = {}
  <2>1. /\ S2 = S \cup HeldBy(m, "text") /\ C2 = C \cup HeldBy(m, "tool_use")
        /\ R2 = R \cup HeldBy(m, "tool_result")
    BY <1>1, HeldNext
  <2>2. S \cap HeldBy(m, "text") = {} /\ R \cap HeldBy(m, "tool_result") = {}
    BY HeldApart
  <2> HIDE DEF S, C, R, S2, C2, R2, m, new
  <2> QED BY <1>8, <2>1, <2>2
<1>10. PICK T : /\ Deferring(p, T) /\ T \subseteq S
                /\ Conveys(acc.out, S \ T, C, R, thinking)
  BY DEF RoundOK
<1>11. PICK base \in Seq(ChatMessage), c \in ChatMessage :
            /\ acc.out = base \o <<c>> /\ ResultsFollow(base, A) /\ c.calls = calls
            /\ p.ids = IF p.blocks = <<>> THEN {} ELSE Elements(c.calls)
  BY <1>5 DEF RoundOK
<1>12. p.ids = IF p.blocks = <<>> THEN {} ELSE TagsTo(results, K)
  BY <1>7, <1>11
<1>13. /\ \E tools : /\ ToolsOf(tools, results, K, thinking)
                     /\ user.out = (tools \o D) \o says
       /\ user.pending.blocks = <<>> /\ Deferring(user.pending, {})
  <2>1. LET u == UserMessages(results \o also, p, thinking)
        IN  /\ \E tools : /\ ToolsOf(tools, results, Len(results), thinking)
                          /\ u.out = (tools \o Deferred(p, thinking)) \o UserSays(Tags(also))
            /\ u.pending.ids = {} /\ u.pending.blocks = <<>> /\ Deferring(u.pending, {})
    BY <1>2, <1>6, <1>10, <1>12, AnswersTaken
  <2> QED BY <2>1
<1>14. PICK tools : ToolsOf(tools, results, K, thinking) /\ user.out = (tools \o D) \o says
  BY <1>13
<1>15. r = [out |-> acc.out \o user.out, pending |-> user.pending]
  BY <1>1 DEF ConvertOne
<1>16. Conveys(D, T, {}, {}, thinking) /\ Silent(D)
  BY <1>10, DeferredConveys
<1>17. /\ Conveys(tools, {}, {}, TagsTo(results, K), thinking) /\ Silent(tools) /\ Len(tools) = K
       /\ {tools[j].result : j \in 1..Len(tools)} = TagsTo(results, K)
  BY <1>14 DEF ToolsOf
<1>18. \A X, Y : [out |-> X, pending |-> Y].out = X /\ [out |-> X, pending |-> Y].pending = Y
  OBVIOUS
<1> DEFINE out == acc.out \o ((tools \o D) \o says)
           q == user.pending
<1>19. Deferring(q, {}) /\ q.blocks = <<>>
  BY <1>13
<1>20. r = [out |-> out, pending |-> q]
  BY <1>14, <1>15
<1> HIDE DEF r, user, D, says, new, S, C, R, S2, C2, R2, m, p, K, calls, q
<1>21. r.out = out /\ r.pending = q
  BY <1>18, <1>20
<1>22. /\ acc.out \in Seq(ChatMessage) /\ D \in Seq(ChatMessage) /\ says \in Seq(ChatMessage)
       /\ tools \in Seq(ChatMessage) /\ <<c>> \in Seq(ChatMessage)
  BY <1>6, <1>10, <1>16, <1>17 DEF Conveys
<1>23. tools \o D \in Seq(ChatMessage) /\ (tools \o D) \o says \in Seq(ChatMessage)
  BY <1>22, ConcatParts
<1>24. Conveys(out, S2 \ {}, C2, R2, thinking)
  <2> DEFINE Q == TagsTo(results, K)
  <2> HIDE DEF Q
  <2>0. \A X : {} \cap X = {} /\ {} \cup X = X /\ X \cap {} = {} /\ X \cup {} = X
    OBVIOUS
  <2>1. Conveys(tools \o D, T, {}, Q, thinking)
    <3>1. Conveys(tools \o D, {} \cup T, {} \cup {}, Q \cup {}, thinking)
      BY <1>16, <1>17, <2>0, ConveysConcat DEF Q
    <3> QED BY <2>0, <3>1
  <2>2. T \cap new = {}
    BY <1>9, <1>10
  <2>3. Conveys((tools \o D) \o says, T \cup new, {}, Q, thinking)
    <3>1. Conveys((tools \o D) \o says, T \cup new, {} \cup {}, Q \cup {}, thinking)
      BY <1>6, <2>0, <2>1, <2>2, ConveysConcat
    <3> QED BY <2>0, <3>1
  <2>4. (S \ T) \cap (T \cup new) = {} /\ R \cap Q = {}
    BY <1>9 DEF Q
  <2>5. Conveys(out, (S \ T) \cup (T \cup new), C \cup {}, R \cup Q, thinking)
    BY <1>10, <2>0, <2>3, <2>4, ConveysConcat
  <2>6. (S \ T) \cup (T \cup new) = S2 \ {} /\ C \cup {} = C2 /\ R \cup Q = R2
    BY <1>9, <1>10 DEF Q
  <2> QED BY <2>5, <2>6
<1>25. ResultsFollow(out, A)
  <2>1. Len(tools) = Len(c.calls) /\ {tools[j].result : j \in 1..Len(tools)} = Elements(c.calls)
    BY <1>2, <1>7, <1>11, <1>17
  <2>2. ResultsFollow((base \o <<c>>) \o ((tools \o D) \o says), A)
    BY <1>6, <1>11, <1>16, <1>17, <1>22, <2>1, FollowTurn
  <2> QED BY <1>11, <2>2
<1> HIDE DEF out
<1>26. \E X : /\ Deferring(r.pending, X) /\ X \subseteq S2
              /\ Conveys(r.out, S2 \ X, C2, R2, thinking)
  BY <1>19, <1>21, <1>24
<1> QED BY <1>1, <1>21, <1>25, <1>26 DEF RoundOK, r, m, S2, C2, R2

\* Any turn, of a conversation without images and server tools.
LEMMA RoundNext ==
  ASSUME NEW h, HistoryOK(h), ~Unconvertible(h), NEW n \in 1..Len(h), NEW acc, NEW thinking,
         RoundOK(h, HeldTo(h, Len(h), "tool_result"), n - 1, acc, thinking)
  PROVE  RoundOK(h, HeldTo(h, Len(h), "tool_result"), n, ConvertOne(acc, h[n], thinking), thinking)
<1>1. CASE ~UserIsNext(h, n)
  BY <1>1, RoundAssistant
<1>2. CASE UserIsNext(h, n)
  <2>1. UserTurnOK(h[n], n, OpenCalls(h, n)) /\ n \in Nat \ {0} /\ h[n].blocks \in Seq(TaggedBlock)
    BY <1>2, TurnIs
  <2>2. OpenCalls(h, n) \in Seq(Tag)
    BY <1>2, OpenCallsAre
  <2>3. CASE h[n].blocks = <<TextOf(n)>>
    BY <1>2, <2>3, RoundText
  <2>4. CASE Elements(h[n].blocks) = {TextOf(n), Block("image", <<0, 2>>)}
    <3>1. ToSet(h[n].blocks) = Elements(h[n].blocks)
      BY <2>1, ToSetIs
    <3>2. Block("image", <<0, 2>>).type = "image"
      BY DEF Block
    <3>3. n \in DOMAIN h
      BY DEF HistoryOK
    <3> QED BY <2>4, <3>1, <3>2, <3>3 DEF Unconvertible
  <2>5. ASSUME ~h[n].plain, NEW results, NEW also, Answering(results, OpenCalls(h, n)),
               also \in {<<>>, <<TextOf(n)>>}, h[n].blocks = results \o also
        PROVE  RoundOK(h, HeldTo(h, Len(h), "tool_result"), n, ConvertOne(acc, h[n], thinking), thinking)
    BY <1>2, <2>5, RoundAnswers
  <2>6. TurnBlocks(h[n], n, OpenCalls(h, n))
    BY <2>1, <2>2, UserBlocks
  <2> QED BY <2>3, <2>4, <2>5, <2>6 DEF TurnBlocks
<1> QED BY <1>1, <1>2

\* Nothing of a conversation gets lost on the way to an OpenAI upstream, and the
\* results of a call come right after it.
LEMMA ConvertKeeps ==
  ASSUME NEW h, HistoryOK(h), ~Unconvertible(h), Len(h) # 0, h[Len(h)].role = "user", NEW thinking
  PROVE  LET A == HeldTo(h, Len(h), "tool_result")
         IN  /\ Conveys(Convert(h, thinking), HeldTo(h, Len(h), "text"), HeldTo(h, Len(h), "tool_use"),
                        A, thinking)
             /\ ResultsFollow(Convert(h, thinking), A)
<1> DEFINE L == Len(h)
           A == HeldTo(h, L, "tool_result")
<1>1. h \in Seq(Turn) /\ L \in Nat
  BY DEF HistoryOK
<1>2. PICK f : /\ f[0] = [out |-> <<>>, pending |-> NoPending]
               /\ \A n \in 1..L : f[n] = ConvertOne(f[n - 1], h[n], thinking)
               /\ Rounds(h, thinking) = f[L]
  BY <1>1, RoundsSteps
<1> DEFINE Q == {n \in 0..L : RoundOK(h, A, n, f[n], thinking)}
<1>3. 0 \in Q
  BY <1>1, <1>2, RoundStart
<1>4. ASSUME NEW n \in 1..L, n - 1 \in Q PROVE n \in Q
  <2>1. RoundOK(h, A, n - 1, f[n - 1], thinking)
    BY <1>4
  <2>2. RoundOK(h, A, n, ConvertOne(f[n - 1], h[n], thinking), thinking)
    BY <2>1, RoundNext
  <2>3. n \in 0..L
    BY <1>1
  <2> QED BY <1>2, <2>2, <2>3
<1>5. RoundOK(h, A, L, f[L], thinking)
  <2>1. 0..L \subseteq Q
    <3> HIDE DEF Q, L
    <3> QED BY <1>1, <1>3, <1>4, UpTo
  <2>2. L \in 0..L
    BY <1>1
  <2> QED BY <2>1, <2>2
<1> DEFINE end == f[L]
<1>6. Convert(h, thinking) = end.out \o Deferred(end.pending, thinking)
  BY <1>2 DEF Convert
<1>7. ResultsFollow(end.out, A)
  BY <1>5 DEF RoundOK
<1> HIDE DEF end
<1>8. RoundOK(h, A, L, end, thinking)
  BY <1>5 DEF end
<1>9. /\ Conveys(end.out \o Deferred(end.pending, thinking), HeldTo(h, L, "text"),
                 HeldTo(h, L, "tool_use"), HeldTo(h, L, "tool_result"), thinking)
      /\ ResultsFollow(end.out \o Deferred(end.pending, thinking), A)
  BY <1>7, <1>8, AllOut
<1> QED BY <1>6, <1>9
-----------------------------------------------------------------------------
(* The other builders.                                                       *)

\* Nothing is done to what bears no reasoning.
LEMMA SanitizedKeeps ==
  ASSUME NEW h, HistoryOK(h), NEW provider, NEW thinking, NEW i \in DOMAIN h,
         NEW b \in ToSet(h[i].blocks), b.type \in {"text", "tool_use", "tool_result", "signed"}
  PROVE  \/ b \in ToSet(Sanitized(h, provider, thinking)[i].blocks)
         \/ b.type = "signed" /\ ~thinking
<1> DEFINE m == h[i]
           s == m.blocks
           gone == IF ~thinking THEN Thinking \cup {"redacted"}
                   ELSE IF provider = "deepseek" THEN {"redacted"} ELSE {"thinking"}
           keep == {j \in DOMAIN s : s[j].type \notin gone}
           new == Sanitized(h, provider, thinking)[i]
<1>1. i \in 1..Len(h)
  BY DEF HistoryOK
<1>2. m \in Turn /\ s \in Seq(TaggedBlock) /\ DOMAIN s = 1..Len(s) /\ ToSet(s) = Elements(s)
  BY <1>1, TurnIs, ToSetIs
<1>3. new = IF m.role # "assistant" \/ m.plain THEN m
            ELSE [m EXCEPT !.blocks = Keep(s, keep)]
  BY DEF Sanitized
<1>4. CASE m.role # "assistant" \/ m.plain
  BY <1>3, <1>4
<1>5. CASE ~(m.role # "assistant" \/ m.plain)
  <2>1. new.blocks = Keep(s, keep)
    BY <1>2, <1>3, <1>5 DEF Turn
  <2>2. Keep(s, keep) \in Seq(TaggedBlock)
        /\ Elements(Keep(s, keep)) = {s[j] : j \in (1..Len(s)) \cap keep}
    BY <1>2, KeepProperties
  <2>3. ToSet(Keep(s, keep)) = Elements(Keep(s, keep))
    BY <2>2, ToSetIs
  <2>4. PICK j \in 1..Len(s) : b = s[j]
    BY <1>2 DEF Elements
  <2>5. b.type = "signed" \/ b.type \notin gone
    BY DEF Thinking
  <2>6. b.type = "signed" /\ thinking => b.type \notin gone
    OBVIOUS
  <2>7. b.type \notin gone => j \in keep
    BY <1>2, <2>4
  <2> QED BY <2>1, <2>2, <2>3, <2>4, <2>5, <2>6, <2>7
<1> QED BY <1>4, <1>5
-----------------------------------------------------------------------------
(* The conversations grow turn by turn.                                      *)

LEMMA HistoryGrows ==
  ASSUME NEW h, HistoryOK(h), NEW m \in Turn,
         IF h = <<>> \/ Last(h).role = "assistant"
         THEN UserTurnOK(m, Len(h) + 1, IF h = <<>> THEN <<>> ELSE CallsOf(Last(h)))
         ELSE AssistantTurnOK(m, Len(h) + 1)
  PROVE  HistoryOK(Append(h, m))
<1> DEFINE L == Len(h)
           g == Append(h, m)
<1>1. h \in Seq(Turn) /\ L \in Nat /\ (h = <<>> <=> L = 0)
  BY DEF HistoryOK
<1>2. g \in Seq(Turn) /\ Len(g) = L + 1 /\ g[L + 1] = m /\ \A i \in 1..L : g[i] = h[i]
  BY <1>1, AppendProperties
<1> HIDE DEF g
<1>3. ASSUME NEW i \in 1..L PROVE TurnOK(g, i)
  <2>1. i # 1 => i - 1 \in 1..L
    BY <1>1
  <2>2. i # 1 => g[i - 1] = h[i - 1]
    BY <1>2, <2>1
  <2>3. UserIsNext(g, i) <=> UserIsNext(h, i)
    BY <2>2 DEF UserIsNext
  <2>4. OpenCalls(g, i) = OpenCalls(h, i)
    BY <2>2 DEF OpenCalls
  <2>5. g[i] = h[i]
    BY <1>2
  <2>6. TurnOK(h, i)
    BY DEF HistoryOK
  <2> QED BY <2>3, <2>4, <2>5, <2>6 DEF TurnOK
<1>4. TurnOK(g, L + 1)
  <2>1. CASE L = 0
    <3>1. L + 1 = 1
      BY <2>1
    <3>2. h = <<>>
      BY <1>1, <2>1
    <3>3. UserIsNext(g, L + 1) /\ OpenCalls(g, L + 1) = <<>>
      BY <3>1 DEF UserIsNext, OpenCalls
    <3> QED BY <1>2, <3>2, <3>3 DEF TurnOK
  <2>2. CASE L # 0
    <3>1. L + 1 # 1 /\ L \in 1..L /\ (L + 1) - 1 = L
      BY <1>1, <2>2
    <3>2. g[(L + 1) - 1] = Last(h)
      BY <1>2, <3>1 DEF Last
    <3>3. UserIsNext(g, L + 1) <=> Last(h).role = "assistant"
      BY <3>1, <3>2 DEF UserIsNext
    <3>4. OpenCalls(g, L + 1) = CallsOf(Last(h))
      BY <3>1, <3>2 DEF OpenCalls
    <3>5. h # <<>>
      BY <1>1, <2>2
    <3> QED BY <1>2, <3>3, <3>4, <3>5 DEF TurnOK
  <2> QED BY <2>1, <2>2
<1>5. \A i \in 1..Len(g) : i \in 1..L \/ i = L + 1
  BY <1>1, <1>2
<1> QED BY <1>2, <1>3, <1>4, <1>5 DEF HistoryOK, g

\* A permutation of the calls gives each its result.
LEMMA Permuted ==
  ASSUME NEW calls, Apart(calls), NEW p \in [DOMAIN calls -> DOMAIN calls], IsInjective(p),
         calls # <<>>
  PROVE  Answering([i \in DOMAIN calls |-> Block("tool_result", calls[p[i]].tag)], Tags(calls))
<1> DEFINE K == Len(calls)
           results == [i \in DOMAIN calls |-> Block("tool_result", calls[p[i]].tag)]
           t == Tags(calls)
           u == Tags(results)
<1>1. /\ DOMAIN calls = 1..K /\ K \in Nat /\ K # 0
      /\ \A i \in 1..K : calls[i] \in TaggedBlock
  BY DEF Apart
<1>2. /\ t \in Seq(Tag) /\ Len(t) = K /\ \A i \in 1..K : t[i] = calls[i].tag
      /\ Distinct(t)
  BY TagsIs
<1>3. p \in [1..K -> 1..K] /\ \A i, j \in 1..K : p[i] = p[j] => i = j
  BY <1>1 DEF IsInjective
<1>4. \A k \in 1..K : \E i \in 1..K : p[i] = k
  <2>1. p \in Injection(1..K, 1..K)
    BY <1>3 DEF Injection, IsInjective
  <2>2. IsFiniteSet(1..K)
    BY <1>1, FS_Interval
  <2>3. p \in Surjection(1..K, 1..K)
    BY <2>1, <2>2, FS_Injection
  <2> QED BY <2>3 DEF Surjection
<1>5. results = [i \in 1..K |-> Block("tool_result", calls[p[i]].tag)]
  BY <1>1
<1> HIDE DEF results, t
<1>6. /\ \A i \in 1..K : /\ results[i] = Block("tool_result", calls[p[i]].tag)
                         /\ results[i].tag = t[p[i]] /\ results[i].type = "tool_result"
                         /\ results[i] \in TaggedBlock
  <2> SUFFICES ASSUME NEW i \in 1..K
               PROVE  /\ results[i] = Block("tool_result", calls[p[i]].tag)
                      /\ results[i].tag = t[p[i]] /\ results[i].type = "tool_result"
                      /\ results[i] \in TaggedBlock
    OBVIOUS
  <2>1. p[i] \in 1..K
    BY <1>3
  <2>2. calls[p[i]].tag \in Tag
    BY <1>1, <2>1 DEF TaggedBlock
  <2> DEFINE x == calls[p[i]].tag
  <2>3. t[p[i]] = x /\ results[i] = Block("tool_result", x)
    BY <1>2, <1>5, <2>1
  <2> HIDE DEF x
  <2>4. Block("tool_result", x) \in TaggedBlock /\ Block("tool_result", x).tag = x
        /\ Block("tool_result", x).type = "tool_result"
    BY <2>2 DEF Block, TaggedBlock, BlockType, x
  <2> QED BY <2>3, <2>4 DEF x
<1>7. results \in Seq(TaggedBlock) /\ Len(results) = K /\ DOMAIN results = 1..K
  BY <1>1, <1>5, <1>6
<1>8. Len(u) = K /\ \A i \in 1..K : u[i] = t[p[i]]
  <2>1. u = [i \in 1..K |-> results[i].tag]
    BY <1>7 DEF Tags
  <2> HIDE DEF u
  <2> QED BY <1>1, <1>6, <2>1
<1> HIDE DEF u
<1>9. Distinct(u)
  <2> SUFFICES ASSUME NEW i \in 1..K, NEW j \in 1..K, u[i] = u[j] PROVE i = j
    BY <1>8 DEF Distinct
  <2>1. p[i] \in 1..K /\ p[j] \in 1..K /\ t[p[i]] = t[p[j]]
    BY <1>3, <1>8
  <2>2. p[i] = p[j]
    BY <1>2, <2>1 DEF Distinct
  <2> QED BY <1>3, <2>2
<1>10. Elements(u) = Elements(t)
  <2>1. ASSUME NEW i \in 1..K PROVE u[i] \in Elements(t)
    BY <1>2, <1>3, <1>8 DEF Elements
  <2>2. ASSUME NEW k \in 1..K PROVE t[k] \in Elements(u)
    <3>1. PICK i \in 1..K : p[i] = k
      BY <1>4
    <3>2. u[i] = t[k]
      BY <1>8, <3>1
    <3> QED BY <1>8, <3>2 DEF Elements
  <2>3. Elements(u) = {u[i] : i \in 1..K} /\ Elements(t) = {t[i] : i \in 1..K}
    BY <1>2, <1>8 DEF Elements
  <2> QED BY <2>1, <2>2, <2>3
<1>11. Answering(results, t)
  BY <1>1, <1>2, <1>6, <1>7, <1>9, <1>10 DEF Answering, u
<1> QED BY <1>11 DEF results, t

LEMMA TurnOf ==
  ASSUME NEW role \in {"user", "assistant"}, NEW plain \in BOOLEAN, NEW blocks \in Seq(TaggedBlock)
  PROVE  LET m == Msg(role, plain, blocks)
         IN  m \in Turn /\ m.role = role /\ (m.plain <=> plain) /\ m.blocks = blocks
BY DEF Msg, Turn

LEMMA LastIs ==
  ASSUME NEW h, HistoryOK(h), h # <<>>
  PROVE  /\ Len(h) \in 1..Len(h) /\ Last(h) = h[Len(h)] /\ Last(h) \in Turn
         /\ Last(h).blocks \in Seq(TaggedBlock) /\ Len(h) \in Nat \ {0}
<1>1. h \in Seq(Turn) /\ Len(h) \in Nat /\ Len(h) # 0
  BY DEF HistoryOK
<1>2. Len(h) \in 1..Len(h)
  BY <1>1
<1>3. Last(h) = h[Len(h)]
  BY DEF Last
<1> QED BY <1>1, <1>2, <1>3, TurnIs

LEMMA UserGrows ==
  ASSUME HistoryOK(history), UserTurn
  PROVE  HistoryOK(history')
<1> DEFINE L == Len(history)
           calls == IF history = <<>> THEN <<>> ELSE Of(Last(history).blocks, {"tool_use"})
           text == Block("text", <<Len(history), 1>>)
           Results(p) == [i \in DOMAIN calls |-> Block("tool_result", calls[p[i]].tag)]
           orders == {p \in [DOMAIN calls -> DOMAIN calls] : IsInjective(p)}
           open == IF history = <<>> THEN <<>> ELSE CallsOf(Last(history))
<1>1. /\ history # <<>> => Last(history).role = "assistant"
      /\ \/ \E plain \in BOOLEAN : history' = Append(history, Msg("user", plain, <<text>>))
         \/ history = <<>> /\ history' = <<Msg("user", FALSE, <<text, Block("image", <<0, 2>>)>>)>>
         \/ calls # <<>> /\ \E p \in orders, also \in {<<>>, <<text>>} :
              history' = Append(history, Msg("user", FALSE, Results(p) \o also))
  BY DEF UserTurn
<1>2. L \in Nat /\ history \in Seq(Turn) /\ (history = <<>> => L = 0)
  BY DEF HistoryOK
<1>3. text = TextOf(L + 1)
  <2>1. (L + 1) - 1 = L
    BY <1>2
  <2> QED BY <2>1 DEF TextOf
<1>4. L + 1 \in Nat \ {0}
  BY <1>2
<1>5. text \in TaggedBlock /\ <<text>> \in Seq(TaggedBlock)
  BY <1>3, <1>4, TextIs
<1>6. ASSUME NEW m \in Turn, UserTurnOK(m, L + 1, open)
      PROVE  HistoryOK(Append(history, m))
  BY <1>1, <1>6, HistoryGrows
<1> HIDE DEF calls, open, text
<1>7. ASSUME NEW plain \in BOOLEAN, history' = Append(history, Msg("user", plain, <<text>>))
      PROVE  HistoryOK(history')
  <2> DEFINE one == <<text>>
             m == Msg("user", plain, one)
  <2>1. m \in Turn /\ m.role = "user" /\ m.blocks = <<text>>
    <3>1. one \in Seq(TaggedBlock) /\ "user" \in {"user", "assistant"}
      BY <1>5
    <3>2. one = <<text>>
      OBVIOUS
    <3> HIDE DEF one
    <3>3. Msg("user", plain, one) \in Turn /\ Msg("user", plain, one).role = "user"
          /\ Msg("user", plain, one).blocks = one
      BY <3>1, TurnOf
    <3> QED BY <3>2, <3>3
  <2> HIDE DEF m
  <2>2. UserTurnOK(m, L + 1, open)
    BY <1>3, <2>1 DEF UserTurnOK
  <2>3. HistoryOK(Append(history, m))
    BY <1>6, <2>1, <2>2
  <2> QED BY <1>7, <2>3 DEF m
<1>8. ASSUME history = <<>>, history' = <<Msg("user", FALSE, <<text, Block("image", <<0, 2>>)>>)>>
      PROVE  HistoryOK(history')
  <2> DEFINE g == Block("image", <<0, 2>>)
             two == <<text, g>>
             m == Msg("user", FALSE, two)
  <2>1. g \in TaggedBlock
    BY DEF Block, TaggedBlock, BlockType, Tag
  <2> HIDE DEF g
  <2>2. two \in Seq(TaggedBlock) /\ two = <<text, g>>
    BY <1>5, <2>1
  <2> HIDE DEF two
  <2>3. m \in Turn /\ m.role = "user" /\ ~m.plain /\ m.blocks = two
    BY <2>2, TurnOf
  <2> HIDE DEF m
  <2>4. UserTurnOK(m, L + 1, open)
    <3>1. L + 1 = 1
      BY <1>2, <1>8
    <3> QED BY <1>3, <2>2, <2>3, <3>1 DEF UserTurnOK, g
  <2>5. HistoryOK(Append(history, m))
    BY <1>6, <2>3, <2>4
  <2>6. Append(<<>>, m) = <<m>>
    OBVIOUS
  <2>7. history' = <<m>>
    BY <1>8 DEF m, two, g
  <2> QED BY <1>8, <2>5, <2>6, <2>7
<1>9. ASSUME calls # <<>>, NEW p \in orders, NEW also \in {<<>>, <<text>>},
             history' = Append(history, Msg("user", FALSE, Results(p) \o also))
      PROVE  HistoryOK(history')
  <2>1. history # <<>> /\ calls = Of(Last(history).blocks, {"tool_use"})
        /\ open = Tags(calls)
    BY <1>9 DEF calls, open, CallsOf
  <2>2. Apart(calls)
    <3> DEFINE m == Last(history)
    <3>1. /\ L \in 1..L /\ m = history[L] /\ m.blocks \in Seq(TaggedBlock) /\ L \in Nat \ {0}
          /\ m.role = "assistant"
      BY <1>1, <2>1, LastIs
    <3>2. AssistantTurnOK(m, L)
      BY <3>1, TurnBefore
    <3> HIDE DEF m
    <3>3. Apart(m.blocks)
      BY <3>1, <3>2, AssistantBlocks
    <3>4. Apart(Of(m.blocks, {"tool_use"}))
      BY <3>3, OfIs
    <3> QED BY <2>1, <3>4 DEF m
  <2> DEFINE results == Results(p)
  <2>3. Answering(results, open)
    BY <1>9, <2>1, <2>2, Permuted
  <2> HIDE DEF results
  <2>4. results \in Seq(TaggedBlock)
    BY <2>3 DEF Answering
  <2>5. also \in Seq(TaggedBlock)
    <3>1. <<>> \in Seq(TaggedBlock)
      OBVIOUS
    <3> QED BY <1>5, <3>1
  <2> DEFINE blocks == results \o also
             m == Msg("user", FALSE, blocks)
  <2>6. blocks \in Seq(TaggedBlock) /\ blocks = results \o also
    BY <2>4, <2>5, ConcatParts
  <2> HIDE DEF blocks
  <2>7. m \in Turn /\ m.role = "user" /\ ~m.plain /\ m.blocks = blocks
    BY <2>6, TurnOf
  <2> HIDE DEF m
  <2>8. also \in {<<>>, <<TextOf(L + 1)>>}
    BY <1>3
  <2>9. UserTurnOK(m, L + 1, open)
    BY <2>3, <2>6, <2>7, <2>8 DEF UserTurnOK
  <2>10. HistoryOK(Append(history, m))
    BY <1>6, <2>7, <2>9
  <2> QED BY <1>9, <2>10 DEF m, blocks, results
<1> QED BY <1>1, <1>7, <1>8, <1>9

LEMMA AssistantGrows ==
  ASSUME HistoryOK(history), history # <<>>, Last(history).role = "user", AssistantTurn
  PROVE  HistoryOK(history')
<1> DEFINE L == Len(history)
           Made(types) == [i \in DOMAIN types |-> Block(types[i], <<Len(history), i>>)]
<1>1. PICK n \in 1..MaxBlocks :
        \E types \in CASE request.at = "mocked"   -> {<<"text">>}
                       [] request.at = "web_tool" -> {<<ServerTool, "text">>}
                       [] OTHER -> [1..n -> AssistantBlock] \cup {<<b>> : b \in RareBlock} :
          history' = Append(history, Msg("assistant", FALSE, Made(types)))
  BY DEF AssistantTurn
<1>2. PICK types : /\ types \in {<<"text">>} \/ types \in {<<ServerTool, "text">>}
                      \/ types \in [1..n -> AssistantBlock] \cup {<<b>> : b \in RareBlock}
                   /\ history' = Append(history, Msg("assistant", FALSE, Made(types)))
  BY <1>1
<1>3. AssistantBlock \cup RareBlock \subseteq AssistantType /\ n \in Nat
  BY RequestsAssumption DEF AssistantType
<1>4. types \in Seq(AssistantType)
  <2>1. "text" \in AssistantType /\ ServerTool \in AssistantType
    BY DEF AssistantType, ServerTool
  <2>2. <<"text">> \in Seq(AssistantType) /\ <<ServerTool, "text">> \in Seq(AssistantType)
    BY <2>1
  <2>3. types \in [1..n -> AssistantBlock] => types \in Seq(AssistantType)
    <3>1. [1..n -> AssistantBlock] \subseteq [1..n -> AssistantType]
      BY <1>3
    <3>2. [1..n -> AssistantType] \subseteq Seq(AssistantType)
      BY <1>3
    <3> QED BY <3>1, <3>2
  <2>4. \A b \in RareBlock : <<b>> \in Seq(AssistantType)
    <3>1. \A b \in RareBlock : b \in AssistantType
      BY <1>3
    <3>2. \A b \in AssistantType : <<b>> \in Seq(AssistantType)
      OBVIOUS
    <3> QED BY <3>1, <3>2
  <2> QED BY <1>2, <2>2, <2>3, <2>4
<1>5. L \in Nat /\ history \in Seq(Turn)
  BY DEF HistoryOK
<1> DEFINE blocks == Made(types)
           m == Msg("assistant", FALSE, blocks)
<1>6. /\ blocks \in Seq(TaggedBlock)
      /\ \A j \in 1..Len(blocks) : blocks[j].tag = <<L, j>> /\ blocks[j].type \in AssistantType
  <2>1. DOMAIN types = 1..Len(types) /\ Len(types) \in Nat
        /\ \A j \in 1..Len(types) : types[j] \in AssistantType
    BY <1>4
  <2>2. ASSUME NEW j \in 1..Len(types)
        PROVE  LET b == Block(types[j], <<L, j>>)
               IN  b \in TaggedBlock /\ b.tag = <<L, j>> /\ b.type \in AssistantType
    <3> DEFINE tag == <<L, j>>
               type == types[j]
    <3>1. tag \in Tag
      BY <1>5 DEF Tag
    <3>2. type \in AssistantType /\ type \in BlockType
      BY <2>1 DEF AssistantType, BlockType
    <3> HIDE DEF tag, type
    <3>3. LET b == Block(type, tag)
          IN  b \in TaggedBlock /\ b.tag = tag /\ b.type = type
      BY <3>1, <3>2 DEF Block, TaggedBlock
    <3> QED BY <3>2, <3>3 DEF tag, type
  <2>3. blocks = [j \in 1..Len(types) |-> Block(types[j], <<L, j>>)]
    BY <2>1
  <2> HIDE DEF blocks
  <2>4. Len(blocks) = Len(types) /\ \A j \in 1..Len(types) : blocks[j] = Block(types[j], <<L, j>>)
    BY <2>1, <2>3
  <2>5. blocks \in Seq(TaggedBlock)
    BY <2>1, <2>2, <2>3
  <2> QED BY <2>2, <2>4, <2>5
<1> HIDE DEF blocks
<1>7. m \in Turn /\ m.role = "assistant" /\ ~m.plain /\ m.blocks = blocks
  BY <1>6, TurnOf
<1> HIDE DEF m
<1>8. AssistantTurnOK(m, L + 1)
  <2>1. (L + 1) - 1 = L
    BY <1>5
  <2> QED BY <1>6, <1>7, <2>1 DEF AssistantTurnOK
<1>9. ~(history = <<>> \/ Last(history).role = "assistant")
  OBVIOUS
<1>10. HistoryOK(Append(history, m))
  BY <1>7, <1>8, <1>9, HistoryGrows
<1> QED BY <1>2, <1>10 DEF m, blocks
-----------------------------------------------------------------------------
(* What is sent upstream.                                                    *)

LEMMA BareKeeps ==
  ASSUME NEW x, NEW T, NEW C, NEW R, NEW thinking, Conveys(x, T, C, R, thinking), NEW A,
         ResultsFollow(x, A)
  PROVE  LET bare == [i \in DOMAIN x |-> [x[i] EXCEPT !.reasoning = <<>>]]
         IN  Conveys(bare, T, C, R, thinking) /\ ResultsFollow(bare, A)
<1> DEFINE bare == [i \in DOMAIN x |-> [x[i] EXCEPT !.reasoning = <<>>]]
           none == <<>>
<1>1. x \in Seq(ChatMessage) /\ DOMAIN x = 1..Len(x) /\ Len(x) \in Nat
      /\ \A i \in 1..Len(x) : x[i] \in ChatMessage
  BY DEF Conveys
<1>2. none \in Seq(Tag)
  OBVIOUS
<1>3. bare = [i \in 1..Len(x) |-> [x[i] EXCEPT !.reasoning = none]]
  BY <1>1
<1> HIDE DEF bare, none
<1>4. ASSUME NEW i \in 1..Len(x)
      PROVE  /\ bare[i] \in ChatMessage /\ bare[i].role = x[i].role /\ bare[i].said = x[i].said
             /\ bare[i].calls = x[i].calls /\ bare[i].result = x[i].result
             /\ bare[i].reasoning = none
  <2>1. bare[i] = [x[i] EXCEPT !.reasoning = none]
    BY <1>3
  <2>2. x[i] \in ChatMessage
    BY <1>1
  <2> QED BY <1>2, <2>1, <2>2 DEF ChatMessage
<1>5. bare \in Seq(ChatMessage) /\ Len(bare) = Len(x) /\ DOMAIN bare = DOMAIN x
  BY <1>1, <1>3, <1>4
<1>6. Texts(bare) = Texts(x) /\ Calls(bare) = Calls(x) /\ Answers(bare) = Answers(x)
  BY <1>1, <1>4, <1>5 DEF Texts, Calls, Answers
<1>7. Conveys(bare, T, C, R, thinking)
  <2>1. \A i \in 1..Len(bare) : /\ bare[i].role = "tool" => bare[i].result # <<>>
                                /\ ~thinking => bare[i].reasoning = <<>>
    <3>1. \A i \in 1..Len(x) : x[i].role = "tool" => x[i].result # <<>>
      BY DEF Conveys
    <3> QED BY <1>4, <1>5, <3>1 DEF none
  <2> QED BY <1>5, <1>6, <2>1 DEF Conveys
<1>8. ResultsFollow(bare, A)
  <2> SUFFICES ASSUME NEW i \in 1..Len(x), x[i].calls # <<>>, Elements(x[i].calls) \subseteq A
               PROVE  /\ i + Len(x[i].calls) <= Len(x)
                      /\ {bare[j].result : j \in (i + 1)..(i + Len(x[i].calls))}
                           = Elements(x[i].calls)
    BY <1>4, <1>5 DEF ResultsFollow, FollowsAt
  <2> DEFINE c == x[i].calls
  <2>1. i + Len(c) <= Len(x) /\ {x[j].result : j \in (i + 1)..(i + Len(c))} = Elements(c)
    BY DEF ResultsFollow, FollowsAt
  <2>2. Len(c) \in Nat
    BY <1>1 DEF ChatMessage
  <2> HIDE DEF c
  <2>3. \A j \in (i + 1)..(i + Len(c)) : j \in 1..Len(x)
    BY <1>1, <2>1, <2>2
  <2>4. {bare[j].result : j \in (i + 1)..(i + Len(c))} = {x[j].result : j \in (i + 1)..(i + Len(c))}
    BY <1>4, <2>3
  <2> QED BY <2>1, <2>4 DEF c
<1> QED BY <1>7, <1>8 DEF bare, none

LEMMA HeldIs ==
  ASSUME HistoryOK(history), NEW type
  PROVE  InHistory(type) = HeldNow(type)
<1>1. DOMAIN history = 1..Len(history)
  BY DEF HistoryOK
<1>2. ASSUME NEW i \in 1..Len(history) PROVE TagsOf(history[i], type) = HeldBy(history[i], type)
  <2>1. ToSet(history[i].blocks) = Elements(history[i].blocks)
    BY TurnIs, ToSetIs
  <2> QED BY <2>1 DEF TagsOf, HeldBy, ElementsOf
<1> QED BY <1>1, <1>2 DEF InHistory, HeldNow, HeldTo

\* The results that follow a message with calls, all answered, are theirs.
LEMMA BodyFollows == RequestsInv => ToolResultsFollow
<1> DEFINE x == body.messages
           A == HeldNow("tool_result")
<1> SUFFICES ASSUME RequestsInv, body.format = "openai", NEW i \in DOMAIN x,
                    x[i].calls # <<>>, ToSet(x[i].calls) \subseteq InHistory("tool_result")
             PROVE  LET next == SubSeq(x, i + 1, i + Len(x[i].calls))
                    IN  {next[j].result : j \in DOMAIN next} = ToSet(x[i].calls)
  BY DEF ToolResultsFollow
<1>1. HistoryOK(history) /\ request.at \in {"sent", "retried"}
  BY DEF RequestsInv, BodyOK, BodyFits
<1>2. CASE x = BailianMessages(history)
  <2>1. x = [k \in DOMAIN history |->
               Chat(history[k].role, IF history[k].plain THEN Tags(history[k].blocks) ELSE <<>>,
                    <<>>, <<>>, <<>>)]
    BY <1>2 DEF BailianMessages
  <2>2. x[i].calls = <<>>
    BY <2>1 DEF Chat
  <2> QED BY <2>2
<1>3. CASE ResultsFollow(x, A) /\ \E T, C, R : Conveys(x, T, C, R, request.thinking)
  <2> DEFINE c == x[i].calls
             K == Len(c)
             next == SubSeq(x, i + 1, i + K)
  <2>1. x \in Seq(ChatMessage) /\ DOMAIN x = 1..Len(x) /\ Len(x) \in Nat
    BY <1>3 DEF Conveys
  <2>2. i \in 1..Len(x) /\ x[i] \in ChatMessage
    BY <2>1
  <2>3. c \in Seq(Tag) /\ K \in Nat /\ ToSet(c) = Elements(c)
    <3>1. c \in Seq(Tag)
      BY <2>2 DEF ChatMessage
    <3> HIDE DEF c
    <3> QED BY <3>1, ToSetIs
  <2>4. Elements(c) \subseteq A
    BY <1>1, <2>3, HeldIs
  <2>5. i + K <= Len(x) /\ {x[j].result : j \in (i + 1)..(i + K)} = Elements(c)
    BY <1>3, <2>2, <2>4 DEF ResultsFollow, FollowsAt
  <2> HIDE DEF c, x
  <2>6. DOMAIN next = 1..K /\ \A j \in 1..K : next[j] = x[i + j]
    <3>1. i + 1 \in Nat /\ i + K \in Nat
      BY <2>2, <2>3
    <3>2. next = [j \in 1..K |-> x[i + j]]
      <4>1. next = [j \in 1..(((i + K) - (i + 1)) + 1) |-> x[((i + 1) + j) - 1]]
        BY <2>1, <2>2, <2>3, <2>5
      <4>2. ((i + K) - (i + 1)) + 1 = K /\ \A j \in 1..K : ((i + 1) + j) - 1 = i + j
        BY <2>2, <2>3
      <4> QED BY <4>1, <4>2
    <3> QED BY <3>2
  <2> HIDE DEF next
  <2>7. {next[j].result : j \in 1..K} = {x[j].result : j \in (i + 1)..(i + K)}
    <3>1. ASSUME NEW j \in 1..K PROVE next[j].result \in {x[k].result : k \in (i + 1)..(i + K)}
      <4>1. i + j \in (i + 1)..(i + K)
        BY <2>2, <2>3
      <4> QED BY <2>6, <4>1
    <3>2. ASSUME NEW k \in (i + 1)..(i + K) PROVE x[k].result \in {next[j].result : j \in 1..K}
      <4>1. k - i \in 1..K /\ i + (k - i) = k
        BY <2>2, <2>3
      <4>2. next[k - i] = x[k]
        BY <2>6, <4>1
      <4> QED BY <4>1, <4>2
    <3> QED BY <3>1, <3>2
  <2> QED BY <2>3, <2>5, <2>6, <2>7 DEF next, c, x
<1> QED BY <1>1, <1>2, <1>3 DEF RequestsInv, BodyOK, BodyFits

\* Each text, call and result is in the body once; nothing is lost in a native body.
LEMMA BodyKeeps == RequestsInv => HistoryKept
<1> SUFFICES ASSUME RequestsInv PROVE HistoryKept
  OBVIOUS
<1>1. HistoryOK(history)
  BY DEF RequestsInv
<1>2. body.format # "none" => request.at \in {"sent", "retried"}
  BY DEF RequestsInv, BodyOK, BodyFits
<1>3. ASSUME request.provider = "nvidia_nim", body.format = "openai"
      PROVE  /\ Once(Texts(body.messages), InHistory("text"))
             /\ Once(Calls(body.messages), InHistory("tool_use"))
             /\ Once(Answers(body.messages), InHistory("tool_result"))
             /\ ~request.thinking => \A i \in DOMAIN body.messages : body.messages[i].reasoning = <<>>
  <2>1. Conveys(body.messages, HeldNow("text"), HeldNow("tool_use"), HeldNow("tool_result"),
                request.thinking)
    BY <1>2, <1>3 DEF RequestsInv, BodyOK, BodyFits
  <2>2. /\ InHistory("text") = HeldNow("text") /\ InHistory("tool_use") = HeldNow("tool_use")
        /\ InHistory("tool_result") = HeldNow("tool_result")
    BY <1>1, HeldIs
  <2>3. DOMAIN body.messages = 1..Len(body.messages)
    BY <2>1 DEF Conveys
  <2> QED BY <2>1, <2>2, <2>3 DEF Conveys
<1>4. ASSUME body.format = "anthropic", NEW i \in DOMAIN history, NEW b \in ToSet(history[i].blocks),
             b.type \in {"text", "tool_use", "tool_result", "signed"}
      PROVE  b \in ToSet(body.messages[i].blocks) \/ (b.type = "signed" /\ ~request.thinking)
  <2>1. body.messages = Sanitized(history, request.provider, request.thinking)
    BY <1>2, <1>4 DEF RequestsInv, BodyOK, BodyFits
  <2> QED BY <1>1, <1>4, <2>1, SanitizedKeeps
<1> QED BY <1>3, <1>4 DEF HistoryKept

-----------------------------------------------------------------------------
(* The induction.                                                            *)

LEMMA OutcomeIs ==
  ASSUME NEW provider, NEW tools, NEW probe, NEW credential
  PROVE  LET at == Outcome(provider, tools, probe, credential)
         IN  /\ at \in {"sent", "mocked", "web_tool", "invalid", "unavailable"}
             /\ at \in {"sent", "mocked", "web_tool"} => history # <<>>
             /\ at = "sent" => ~Refused(provider, tools)
BY DEF Outcome

LEMMA BodyFields ==
  ASSUME NEW m, NEW budget, NEW template, NEW b,
         b = OpenAIBody(m, budget, template)
           \/ b = [OpenAIBody(m, budget, template) EXCEPT !.format = "anthropic"]
  PROVE  /\ b = [format |-> b.format, messages |-> b.messages, budget |-> b.budget,
                 template |-> b.template]
         /\ b.messages = m
         /\ b = OpenAIBody(m, budget, template) => b.format = "openai"
         /\ b = [OpenAIBody(m, budget, template) EXCEPT !.format = "anthropic"] =>
              b.format = "anthropic"
BY DEF OpenAIBody

LEMMA BuildFits ==
  ASSUME HistoryOK(history), history # <<>>, Last(history).role = "user",
         NEW provider \in Provider, NEW thinking \in BOOLEAN, NEW tools, ~Refused(provider, tools)
  PROVE  BodyFits(Build(provider, thinking), provider, thinking)
<1> DEFINE b == Build(provider, thinking)
           L == Len(history)
<1>2. CASE provider = "nvidia_nim"
  <2> DEFINE x == Convert(history, thinking)
  <2>1. b = OpenAIBody(x, thinking, Template)
    BY <1>2 DEF Build
  <2>2. ~Unconvertible(history)
    BY <1>2 DEF Refused
  <2>3. L # 0 /\ history[L].role = "user"
    BY LastIs
  <2>4. /\ Conveys(x, HeldNow("text"), HeldNow("tool_use"), HeldNow("tool_result"), thinking)
        /\ ResultsFollow(x, HeldNow("tool_result"))
    BY <2>2, <2>3, ConvertKeeps DEF HeldNow
  <2> HIDE DEF b, x
  <2>5. /\ b = [format |-> b.format, messages |-> b.messages, budget |-> b.budget,
                template |-> b.template]
        /\ b.messages = x /\ b.format = "openai"
    BY <2>1, BodyFields
  <2>6. BodyFits(b, provider, thinking)
    BY <1>2, <2>4, <2>5 DEF BodyFits
  <2> QED BY <2>6 DEF b
<1>3. CASE provider = "bailian"
  <2> DEFINE x == BailianMessages(history)
             no == FALSE
  <2>1. b = OpenAIBody(x, no, no)
    BY <1>3 DEF Build
  <2> HIDE DEF b, x, no
  <2>2. /\ b = [format |-> b.format, messages |-> b.messages, budget |-> b.budget,
                template |-> b.template]
        /\ b.messages = x /\ b.format = "openai"
    BY <2>1, BodyFields
  <2>3. BodyFits(b, provider, thinking)
    BY <1>3, <2>2 DEF BodyFits, x
  <2> QED BY <2>3 DEF b
<1>4. CASE provider \notin {"nvidia_nim", "bailian"}
  <2> DEFINE x == Sanitized(history, provider, thinking)
             no == FALSE
  <2>1. b = [OpenAIBody(x, thinking, no) EXCEPT !.format = "anthropic"]
    BY <1>4 DEF Build
  <2> HIDE DEF b, x, no
  <2>2. /\ b = [format |-> b.format, messages |-> b.messages, budget |-> b.budget,
                template |-> b.template]
        /\ b.messages = x /\ b.format = "anthropic"
    BY <2>1, BodyFields
  <2>3. BodyFits(b, provider, thinking)
    BY <1>4, <2>2 DEF BodyFits, x
  <2> QED BY <2>3 DEF b
<1> QED BY <1>2, <1>3, <1>4

LEMMA NoBodyIs == NoBody.format = "none"
BY DEF NoBody, OpenAIBody

LEMMA CreateKeeps == RequestsInv /\ CreateMessage => RequestsInv'
<1> SUFFICES ASSUME RequestsInv, CreateMessage PROVE RequestsInv'
  OBVIOUS
<1>1. /\ history' = history /\ HistoryOK(history)
      /\ history # <<>> => Last(history).role = "user"
  BY DEF CreateMessage, RequestsInv
<1>2. PICK provider \in Provider, thinking \in BOOLEAN, tools \in {"none", "listed", "forced"},
           credential \in BOOLEAN : \E probe \in Probes(tools) :
         LET at == Outcome(provider, tools, probe, credential)
         IN  /\ request' = IF at = "sent" THEN [at |-> at, provider |-> provider, thinking |-> thinking]
                           ELSE [Idle EXCEPT !.at = at]
             /\ body' = IF at = "sent" THEN Build(provider, thinking) ELSE NoBody
  BY DEF CreateMessage
<1>3. PICK probe \in Probes(tools) :
         LET at == Outcome(provider, tools, probe, credential)
         IN  /\ request' = IF at = "sent" THEN [at |-> at, provider |-> provider, thinking |-> thinking]
                           ELSE [Idle EXCEPT !.at = at]
             /\ body' = IF at = "sent" THEN Build(provider, thinking) ELSE NoBody
  BY <1>2
<1> DEFINE at == Outcome(provider, tools, probe, credential)
<1>4. /\ at \in {"sent", "mocked", "web_tool", "invalid", "unavailable"}
      /\ at \in {"sent", "mocked", "web_tool"} => history # <<>>
      /\ at = "sent" => ~Refused(provider, tools)
  BY OutcomeIs
<1>5. at = "sent" => request' = [at |-> "sent", provider |-> provider, thinking |-> thinking]
                     /\ body' = Build(provider, thinking)
  BY <1>3
<1>6. at # "sent" => request' = [Idle EXCEPT !.at = at] /\ body' = NoBody
  BY <1>3
<1> HIDE DEF at
<1>7. CASE at = "sent"
  <2>1. BodyFits(Build(provider, thinking), provider, thinking)
    BY <1>1, <1>4, <1>7, BuildFits
  <2>2. request'.at = "sent" /\ request'.provider = provider /\ request'.thinking = thinking
    BY <1>5, <1>7
  <2>3. BodyFits(body', request'.provider, request'.thinking)
    BY <1>5, <1>7, <2>1, <2>2
  <2>4. BodyFits(body, request.provider, request.thinking)'
    BY <1>1, <2>3 DEF BodyFits, HeldNow
  <2>5. BodyOK'
    BY <1>1, <1>4, <1>7, <2>2, <2>4 DEF BodyOK
  <2> QED BY <1>1, <2>5 DEF RequestsInv
<1>8. CASE at # "sent"
  <2>1. request'.at = at
    BY <1>6, <1>8 DEF Idle
  <2>2. body'.format = "none"
    BY <1>6, <1>8, NoBodyIs
  <2>3. BodyOK'
    BY <1>1, <1>4, <1>8, <2>1, <2>2 DEF BodyOK
  <2> QED BY <1>1, <2>3 DEF RequestsInv
<1> QED BY <1>7, <1>8

LEMMA ComplaintKeeps == RequestsInv /\ NimComplains => RequestsInv'
<1> SUFFICES ASSUME RequestsInv, NimComplains PROVE RequestsInv'
  OBVIOUS
<1> DEFINE x == body.messages
           bare == [i \in DOMAIN x |-> [x[i] EXCEPT !.reasoning = <<>>]]
           thinking == request.thinking
<1>1. /\ history' = history /\ request.at = "sent" /\ request.provider = "nvidia_nim"
      /\ request' = [request EXCEPT !.at = "retried"]
      /\ \/ body' = [body EXCEPT !.budget = FALSE]
         \/ body' = [body EXCEPT !.template = FALSE]
         \/ body' = [body EXCEPT !.messages = bare]
  BY DEF NimComplains
<1>2. /\ body = [format |-> body.format, messages |-> x, budget |-> body.budget,
                 template |-> body.template]
      /\ body.format = "openai"
      /\ Conveys(x, HeldNow("text"), HeldNow("tool_use"), HeldNow("tool_result"), thinking)
      /\ ResultsFollow(x, HeldNow("tool_result"))
  BY <1>1 DEF RequestsInv, BodyOK, BodyFits
<1>3. /\ Conveys(bare, HeldNow("text"), HeldNow("tool_use"), HeldNow("tool_result"), thinking)
      /\ ResultsFollow(bare, HeldNow("tool_result"))
  BY <1>2, BareKeeps
<1>4. /\ request'.at = "retried" /\ request'.provider = request.provider
      /\ request'.thinking = thinking
  BY <1>1
<1> HIDE DEF x, bare
<1>5. /\ body' = [format |-> body'.format, messages |-> body'.messages, budget |-> body'.budget,
                  template |-> body'.template]
      /\ body'.format = "openai" /\ body'.messages \in {x, bare}
  BY <1>1, <1>2
<1>6. BodyFits(body', request'.provider, request'.thinking)
  BY <1>1, <1>2, <1>3, <1>4, <1>5 DEF BodyFits
<1>7. BodyFits(body, request.provider, request.thinking)'
  BY <1>1, <1>6 DEF BodyFits, HeldNow
<1>8. BodyOK'
  BY <1>1, <1>4, <1>7 DEF RequestsInv, BodyOK
<1> QED BY <1>1, <1>8 DEF RequestsInv

LEMMA RequestStep == RequestsInv /\ RequestNext => RequestsInv'
<1> SUFFICES ASSUME RequestsInv, RequestNext PROVE RequestsInv'
  OBVIOUS
<1>1. request' = Idle /\ body' = NoBody => BodyOK'
  BY NoBodyIs DEF BodyOK, Idle
<1>2. CASE RequestFails
  <2>1. history' = history /\ request' = Idle /\ body' = NoBody
    BY <1>2 DEF RequestFails
  <2> QED BY <1>1, <2>1 DEF RequestsInv
<1>3. CASE AssistantTurn
  <2>1. request' = Idle /\ body' = NoBody /\ request.at \in {"sent", "retried", "mocked", "web_tool"}
    BY <1>3 DEF AssistantTurn
  <2>2. HistoryOK(history) /\ history # <<>> /\ Last(history).role = "user"
    BY <2>1 DEF RequestsInv, BodyOK
  <2>3. HistoryOK(history')
    BY <1>3, <2>2, AssistantGrows
  <2> QED BY <1>1, <2>1, <2>3 DEF RequestsInv
<1>4. CASE UserTurn
  <2>1. request' = request /\ body' = body /\ request.at = "idle"
    BY <1>4 DEF UserTurn
  <2>2. HistoryOK(history')
    BY <1>4, UserGrows DEF RequestsInv
  <2>3. BodyOK'
    BY <2>1 DEF RequestsInv, BodyOK
  <2> QED BY <2>2, <2>3 DEF RequestsInv
<1> QED BY <1>2, <1>3, <1>4, CreateKeeps, ComplaintKeeps DEF RequestNext

\* The client's conversation keeps its form, and what was sent upstream carries all of
\* it (HistoryOK and BodyOK), in every state of the gateway.
THEOREM RequestsInductive == Spec => []RequestsInv
<1>1. Init => RequestsInv
  <2> SUFFICES ASSUME Init PROVE RequestsInv
    OBVIOUS
  <2>1. history = <<>> /\ request = Idle /\ body = NoBody
    BY DEF Init, RequestInit
  <2>2. HistoryOK(history)
    BY <2>1 DEF HistoryOK
  <2> QED BY <2>1, <2>2, NoBodyIs DEF RequestsInv, BodyOK, Idle
<1>2. RequestsInv /\ [Next]_gatewayVars => RequestsInv'
  <2> SUFFICES ASSUME RequestsInv, [Next]_gatewayVars PROVE RequestsInv'
    OBVIOUS
  <2>1. RequestNext \/ UNCHANGED requestVars
    BY DEF Next, gatewayVars
  <2>2. CASE UNCHANGED requestVars
    BY <2>2 DEF requestVars, RequestsInv, BodyOK, BodyFits, HeldNow
  <2> QED BY <2>1, <2>2, RequestStep
<1> QED BY <1>1, <1>2, PTL DEF Spec

\* ToolResultsFollow: in a body for an OpenAI upstream, the message that calls tools is
\* followed at once by the results of its calls, each its own, in whatever order the
\* client gave them and whatever the model said after the calls
\* (_convert_assistant_message_with_split and the injection after the results).
THEOREM ResultsAdjacent == Spec => []ToolResultsFollow
BY RequestsInductive, BodyFollows, PTL

\* HistoryKept: conversion and sanitizing lose nothing of the conversation and repeat
\* nothing, also when the user interrupted and when NIM's complaint makes the transport
\* send the request again (convert_messages, sanitize_native_messages_thinking_policy).
THEOREM NothingLost == Spec => []HistoryKept
BY RequestsInductive, BodyKeeps, PTL
=============================================================================
