-------------------------- MODULE Transcript_proofs --------------------------
(***************************************************************************)
(* What a reply's message guarantees for any events, ids and lengths: once   *)
(* every Task is answered nothing of the reply is hidden, and at the end the *)
(* message shows the transcript to its newest segment, within the limit.     *)
(*                                                                          *)
(* Lengths are sums, and what is visible is a filtered sequence: recursive   *)
(* functions, about which facts are proved by looking at the smallest number *)
(* at which they would fail.                                                *)
(***************************************************************************)
EXTENDS Transcript, WellFoundedInduction, TLAPS

LessThan == OpToRel(<, Nat)

\* A set of natural numbers has a smallest element.
LEMMA Smallest ==
  ASSUME NEW T \in SUBSET Nat, T # {}
  PROVE  \E x \in T : \A y \in T : x <= y
<1>1. IsWellFoundedOn(LessThan, Nat)
  BY NatLessThanWellFounded DEF LessThan
<1>2. \A x, y \in Nat : <<y, x>> \in LessThan <=> y < x
  BY DEF LessThan, OpToRel
<1>3. PICK x \in T : \A y \in T : ~(<<y, x>> \in LessThan)
  BY <1>1, WFMin
<1>4. ASSUME NEW y \in T PROVE x <= y
  <2>1. x \in Nat /\ y \in Nat
    OBVIOUS
  <2>2. <<y, x>> \in LessThan <=> y < x
    BY <1>2, <2>1
  <2> QED BY <1>3, <2>1, <2>2
<1> QED BY <1>4

\* One among 1..L has a largest.
LEMMA Largest ==
  ASSUME NEW L \in Nat, NEW T \in SUBSET (1..L), T # {}
  PROVE  \E x \in T : \A y \in T : y <= x
<1> DEFINE U == {u \in 0..L : L - u \in T}
<1>1. \A y \in T : y \in 1..L /\ L - y \in 0..L /\ L - (L - y) = y
  OBVIOUS
<1>2. \A y \in T : L - y \in U
  BY <1>1
<1>3. U \in SUBSET Nat /\ U # {}
  <2>1. PICK y \in T : TRUE
    OBVIOUS
  <2>2. U \in SUBSET Nat
    OBVIOUS
  <2>3. L - y \in U
    BY <1>2
  <2> HIDE DEF U
  <2> QED BY <2>2, <2>3
<1>4. PICK u \in U : \A v \in U : u <= v
  BY <1>3, Smallest
<1>5. L - u \in T /\ u \in 0..L
  OBVIOUS
<1> HIDE DEF U
<1>6. ASSUME NEW y \in T PROVE y <= L - u
  BY <1>1, <1>2, <1>4, <1>5
<1> QED BY <1>5, <1>6

\* What holds at 0 and goes from number to number holds up to L.
LEMMA UpTo ==
  ASSUME NEW L \in Nat, NEW T, 0 \in T, \A n \in 1..L : n - 1 \in T => n \in T
  PROVE  0..L \subseteq T
<1> DEFINE U == (0..L) \ T
<1>1. SUFFICES ASSUME U # {} PROVE FALSE
  OBVIOUS
<1>2. U \in SUBSET Nat
  OBVIOUS
<1>3. PICK m \in U : \A k \in U : m <= k
  BY <1>1, <1>2, Smallest
<1>4. m \in 1..L /\ m - 1 \in 0..L /\ m - 1 \notin U
  BY <1>3
<1> QED BY <1>3, <1>4

\* A function given by its value at 0 and the step to the next exists.
Follows(f, L, b, G) == f[0] = b /\ \A n \in 1..L : f[n] = G[n][f[n - 1]]

LEMMA Recursion ==
  ASSUME NEW L \in Nat, NEW S, NEW b \in S, NEW G \in [1..L -> [S -> S]]
  PROVE  \E f \in [0..L -> S] : Follows(f, L, b, G)
<1> DEFINE Good(m) == \E f \in [0..m -> S] : f[0] = b /\ \A n \in 1..m : f[n] = G[n][f[n - 1]]
           T == {m \in 0..L : Good(m)}
<1>1. Good(0)
  <2>1. [n \in 0..0 |-> b] \in [0..0 -> S] /\ [n \in 0..0 |-> b][0] = b
    OBVIOUS
  <2>2. \A n \in 1..0 : FALSE
    OBVIOUS
  <2> QED BY <2>1, <2>2
<1>2. ASSUME NEW m \in 1..L, Good(m - 1) PROVE Good(m)
  <2>1. PICK f \in [0..(m - 1) -> S] : f[0] = b /\ \A n \in 1..(m - 1) : f[n] = G[n][f[n - 1]]
    BY <1>2
  <2> DEFINE g == [n \in 0..m |-> IF n = m THEN G[m][f[m - 1]] ELSE f[n]]
  <2>2. f[m - 1] \in S /\ G[m][f[m - 1]] \in S
    BY <2>1
  <2>3. g \in [0..m -> S] /\ g[0] = b
    BY <2>1, <2>2
  <2>4. \A n \in 1..m : g[n] = G[n][g[n - 1]]
    BY <2>1, <2>2
  <2> HIDE DEF g
  <2> QED BY <2>3, <2>4
<1> HIDE DEF Good
<1>3. 0 \in T /\ \A n \in 1..L : n - 1 \in T => n \in T
  BY <1>1, <1>2
<1>4. 0..L \subseteq T
  <2> HIDE DEF T
  <2> QED BY <1>3, UpTo
<1>5. Good(L)
  BY <1>4
<1> QED BY <1>5 DEF Good, Follows

\* Such a function stays in the set that each step stays in.
LEMMA StaysIn ==
  ASSUME NEW L \in Nat, NEW S, NEW f, f[0] \in S, \A n \in 1..L : f[n - 1] \in S => f[n] \in S
  PROVE  \A n \in 0..L : f[n] \in S
<1> DEFINE T == {n \in 0..L : f[n] \in S}
<1>1. 0 \in T /\ \A n \in 1..L : n - 1 \in T => n \in T
  OBVIOUS
<1> HIDE DEF T
<1>2. 0..L \subseteq T
  BY <1>1, UpTo
<1> QED BY <1>2 DEF T
-----------------------------------------------------------------------------
(* Sums.                                                                    *)

SumsOf(f, seq) == f = [n \in 0..Len(seq) |-> IF n = 0 THEN 0 ELSE f[n - 1] + seq[n]]

LEMMA SumsRecursive == ASSUME NEW seq \in Seq(Nat) PROVE SumsOf(Sums(seq), seq)
<1> DEFINE L == Len(seq)
           G == [n \in 1..L |-> [v \in Nat |-> v + seq[n]]]
<1>1. G \in [1..L -> [Nat -> Nat]] /\ L \in Nat /\ 0 \in Nat
  OBVIOUS
<1>2. \A n \in 1..L : G[n] = [v \in Nat |-> v + seq[n]]
  OBVIOUS
<1>3. Sums(seq) = CHOOSE f : SumsOf(f, seq)
  BY DEF Sums, SumsOf
<1>4. Len(seq) = L
  OBVIOUS
<1> HIDE DEF G, L
<1>5. PICK f \in [0..L -> Nat] : Follows(f, L, 0, G)
  BY <1>1, Recursion
<1>6. \A n \in 1..L : f[n - 1] \in Nat
  BY <1>1
<1>7. ASSUME NEW n \in 1..L PROVE f[n] = f[n - 1] + seq[n]
  <2>1. f[n] = G[n][f[n - 1]]
    BY <1>5 DEF Follows
  <2> QED BY <1>2, <1>6, <2>1
<1>8. \A n \in 0..L : n # 0 => n \in 1..L
  BY <1>1
<1>9. SumsOf(f, seq)
  BY <1>4, <1>5, <1>7, <1>8 DEF Follows, SumsOf
<1> QED BY <1>3, <1>9

\* A sum of natural numbers is one, and not less than the last of them.
LEMMA TotalNat ==
  ASSUME NEW seq \in Seq(Nat)
  PROVE  Total(seq) \in Nat /\ (seq # <<>> => Total(seq) >= seq[Len(seq)])
<1> DEFINE L == Len(seq)
           f == Sums(seq)
<1>1. L \in Nat /\ \A n \in 1..L : seq[n] \in Nat
  OBVIOUS
<1>2. f[0] = 0 /\ \A n \in 1..L : f[n] = f[n - 1] + seq[n]
  BY SumsRecursive DEF SumsOf
<1>3. Total(seq) = f[L] /\ (seq # <<>> => L \in 1..L)
  BY DEF Total
<1> HIDE DEF f, L
<1>4. \A n \in 1..L : f[n - 1] \in Nat => f[n] \in Nat
  BY <1>1, <1>2
<1>5. \A n \in 0..L : f[n] \in Nat
  <2>1. f[0] \in Nat
    BY <1>2
  <2> QED BY <1>1, <1>4, <2>1, StaysIn
<1>6. ASSUME seq # <<>> PROVE f[L] >= seq[L]
  <2>1. f[L] = f[L - 1] + seq[L] /\ f[L - 1] \in Nat /\ seq[L] \in Nat
    BY <1>1, <1>2, <1>3, <1>5, <1>6
  <2> QED BY <2>1
<1> QED BY <1>1, <1>3, <1>5, <1>6 DEF L
-----------------------------------------------------------------------------
(* What is visible.                                                         *)

\* The pieces of a text are not empty.
Segment == [kind : {"thinking", "tool_call", "subagent", "error"}, body : Seq(Nat)]
             \cup [kind : {"text"}, body : Seq(Nat \ {0})]

Part == {s \in Segment : Rendered(s)}

VisibleOf(f, segs) ==
  f = [n \in 0..Len(segs) |->
         IF n = 0 THEN <<>>
         ELSE IF Rendered(segs[n]) THEN Append(f[n - 1], segs[n]) ELSE f[n - 1]]

LEMMA VisibleRecursive ==
  ASSUME NEW segs \in Seq(Segment) PROVE VisibleOf(VisibleUpTo(segs), segs)
<1> DEFINE L == Len(segs)
           S == Seq(Segment)
           step(n, v) == IF Rendered(segs[n]) THEN Append(v, segs[n]) ELSE v
           G == [n \in 1..L |-> [v \in S |-> step(n, v)]]
<1>1. L \in Nat /\ <<>> \in S /\ \A n \in 1..L : segs[n] \in Segment
  OBVIOUS
<1>2. \A n \in 1..L, v \in S : step(n, v) \in S
  BY <1>1
<1>3. VisibleUpTo(segs) = CHOOSE f : VisibleOf(f, segs)
  BY DEF VisibleUpTo, VisibleOf
<1>4. Len(segs) = L
  OBVIOUS
<1> HIDE DEF L, S
<1>5. G \in [1..L -> [S -> S]] /\ \A n \in 1..L : G[n] = [v \in S |-> step(n, v)]
  BY <1>2
<1> HIDE DEF G
<1>6. PICK f \in [0..L -> S] : Follows(f, L, <<>>, G)
  BY <1>1, <1>5, Recursion
<1>7. \A n \in 1..L : f[n - 1] \in S
  BY <1>1
<1>8. \A n \in 1..L : f[n] = step(n, f[n - 1])
  <2> SUFFICES ASSUME NEW n \in 1..L PROVE f[n] = step(n, f[n - 1])
    OBVIOUS
  <2>1. f[n] = G[n][f[n - 1]] /\ G[n] = [v \in S |-> step(n, v)] /\ f[n - 1] \in S
    BY <1>5, <1>6, <1>7 DEF Follows
  <2> HIDE DEF step
  <2> QED BY <2>1
<1>9. \A n \in 0..L : n # 0 => n \in 1..L
  BY <1>1
<1>10. VisibleOf(f, segs)
  BY <1>4, <1>6, <1>8, <1>9 DEF Follows, VisibleOf
<1> QED BY <1>3, <1>10

\* What is visible are segments that are not empty.
LEMMA VisibleParts ==
  ASSUME NEW tr, tr.segs \in Seq(Segment)
  PROVE  Visible(tr) \in Seq(Part)
<1> DEFINE segs == tr.segs
           L == Len(segs)
           f == VisibleUpTo(segs)
           S == Seq(Part)
<1>1. L \in Nat /\ \A n \in 1..L : segs[n] \in Segment
  OBVIOUS
<1>2. /\ f[0] = <<>>
      /\ \A n \in 1..L : f[n] = IF Rendered(segs[n]) THEN Append(f[n - 1], segs[n]) ELSE f[n - 1]
  <2>1. VisibleOf(f, segs)
    BY VisibleRecursive
  <2>2. Len(segs) = L /\ 0 \in 0..L /\ \A n \in 1..L : n \in 0..L /\ n # 0
    BY <1>1
  <2> HIDE DEF f, segs, L
  <2>3. \A n \in 0..L : f[n] = IF n = 0 THEN <<>>
                              ELSE IF Rendered(segs[n]) THEN Append(f[n - 1], segs[n]) ELSE f[n - 1]
    BY <2>1, <2>2 DEF VisibleOf
  <2> QED BY <2>2, <2>3
<1>3. Visible(tr) = f[L]
  BY DEF Visible
<1>4. <<>> \in S /\ \A v \in S, s \in Part : Append(v, s) \in S
  OBVIOUS
<1> HIDE DEF f, L, S, segs
<1>5. \A n \in 1..L : f[n - 1] \in S => f[n] \in S
  BY <1>1, <1>2, <1>4 DEF Part
<1>6. f[0] \in S
  BY <1>2, <1>4
<1>7. \A n \in 0..L : f[n] \in S
  BY <1>1, <1>5, <1>6, StaysIn
<1> QED BY <1>1, <1>3, <1>7 DEF S

\* A part takes room.
LEMMA PartTakesRoom == ASSUME NEW s \in Part PROVE PartLen(s) \in Nat \ {0}
<1>1. s.body \in Seq(Nat) /\ Total(s.body) \in Nat
  <2>1. s.body \in Seq(Nat)
    BY DEF Part, Segment
  <2> QED BY <2>1, TotalNat
<1>2. CASE s.kind = "text"
  <2>1. s.body \in Seq(Nat \ {0}) /\ s.body # <<>>
    BY <1>2 DEF Part, Segment, Rendered
  <2>2. s.body[Len(s.body)] \in Nat \ {0}
    BY <2>1
  <2>3. Total(s.body) >= s.body[Len(s.body)]
    BY <1>1, <2>1, TotalNat
  <2>4. Total(s.body) \in Nat \ {0}
    BY <1>1, <2>2, <2>3
  <2> HIDE DEF Total
  <2> QED BY <1>2, <2>4, LimitAssumption DEF PartLen, TailMax, LimitAssumption
<1>3. CASE s.kind # "text"
  BY <1>1, <1>3, LimitAssumption DEF PartLen, TailMax, LimitAssumption
<1> QED BY <1>2, <1>3

\* The length of what is shown is that of its status and more.
LEMMA LengthNat ==
  ASSUME NEW parts \in Seq(Part), NEW marker \in BOOLEAN, NEW tail \in Nat, NEW st
  PROVE  /\ Length(Shown(parts, marker, tail, st)) \in Nat
         /\ Length(Shown(parts, marker, tail, st)) >= StatusLen(st)
         /\ StatusLen(st) \in Nat /\ (st # "none" => StatusLen(st) > 0)
<1> DEFINE lens == [i \in DOMAIN parts |-> PartLen(parts[i])]
           d == Shown(parts, marker, tail, st)
<1>1. lens \in Seq(Nat)
  <2>1. \A i \in 1..Len(parts) : PartLen(parts[i]) \in Nat
    BY PartTakesRoom
  <2> QED BY <2>1
<1>2. Total(lens) \in Nat
  BY <1>1, TotalNat
<1>3. Len(parts) \in Nat /\ (parts # <<>> => Len(parts) - 1 \in Nat)
  OBVIOUS
<1>4. Overhead \in Nat
  BY LimitAssumption DEF LimitAssumption
<1>5. d.parts = parts /\ d.marker = marker /\ d.tail = tail /\ d.status = st
  BY DEF Shown
<1>6. [i \in DOMAIN d.parts |-> PartLen(d.parts[i])] = lens
  BY <1>5
<1>7. Length(d) = (IF tail > 0 THEN tail
                   ELSE Total(lens) + (IF parts = <<>> THEN 0 ELSE Len(parts) - 1))
                  + (IF marker THEN Overhead ELSE 0) + StatusLen(st)
  BY <1>5, <1>6 DEF Length
<1>8. StatusLen(st) \in Nat /\ (st # "none" => StatusLen(st) > 0)
  BY <1>4 DEF StatusLen
<1> HIDE DEF lens, d
<1> QED BY <1>2, <1>3, <1>4, <1>7, <1>8 DEF d

\* What a message must show in the end.
ShowsEnd(d, tr, st) ==
  /\ d.status = st
  /\ Visible(tr) # <<>> => d.parts # <<>> /\ Last(d.parts) = Last(Visible(tr))
  /\ Length(d) <= Limit /\ Length(d) > 0

\* Whatever the lengths, the rendering of a transcript shows its newest segment,
\* within the limit.
LEMMA RenderShowsEnd ==
  ASSUME NEW tr, tr.segs \in Seq(Segment), NEW st, st # "none"
  PROVE  ShowsEnd(Render(tr, st), tr, st)
<1> DEFINE all == Visible(tr)
           n == Len(all)
           whole == Shown(all, FALSE, 0, st)
           From(i) == Shown(SubSeq(all, i, n), TRUE, 0, st)
           fit == {i \in DOMAIN all : Length(From(i)) <= Limit}
           last == IF PartLen(Last(all)) > Budget(st) THEN Budget(st) ELSE PartLen(Last(all))
           tail == Shown(<<Last(all)>>, TRUE, last, st)
           first == CHOOSE i \in fit : \A j \in fit : i <= j
           rest == Shown(<<>>, all # <<>>, 0, st)
<1>1. all \in Seq(Part) /\ n \in Nat /\ DOMAIN all = 1..n /\ (all # <<>> <=> n # 0)
  BY VisibleParts
<1>2. Render(tr, st) = IF Length(whole) <= Limit THEN whole
                       ELSE IF fit # {} THEN From(first)
                       ELSE IF all # <<>> /\ Budget(st) > 20 /\ Length(tail) <= Limit THEN tail
                       ELSE rest
  BY DEF Render
<1>3. /\ Overhead \in Nat \ {0} /\ Limit \in Nat /\ Limit > 22 + 2 * Overhead
      /\ StatusLen(st) = 2 + Overhead /\ Budget(st) = Limit - Overhead - StatusLen(st)
  BY LimitAssumption DEF LimitAssumption, StatusLen, Budget
<1>4. whole.status = st /\ whole.parts = all
  BY DEF Shown
<1>5. Length(whole) > 0
  <2>1. /\ Length(whole) \in Nat /\ Length(whole) >= StatusLen(st)
        /\ StatusLen(st) \in Nat /\ StatusLen(st) > 0
    BY <1>1, LengthNat
  <2> HIDE DEF whole
  <2> QED BY <2>1
<1>6. CASE Length(whole) <= Limit
  <2>1. Render(tr, st) = whole /\ all = Visible(tr)
    BY <1>2, <1>6
  <2> HIDE DEF whole, all
  <2> QED BY <1>4, <1>5, <1>6, <2>1 DEF ShowsEnd
<1>7. CASE fit # {} /\ ~(Length(whole) <= Limit)
  <2>1. fit \in SUBSET Nat
    <3> HIDE DEF From, n, all
    <3> QED BY <1>1
  <2>2. \E i \in fit : \A j \in fit : i <= j
    <3> HIDE DEF fit
    <3> QED BY <1>7, <2>1, Smallest
  <2>3. first \in fit
    <3> HIDE DEF fit
    <3> QED BY <2>2
  <2>4. first \in 1..n /\ Length(From(first)) <= Limit
    BY <1>1, <2>3
  <2> HIDE DEF first
  <2>5. SubSeq(all, first, n) \in Seq(Part) /\ SubSeq(all, first, n) # <<>>
    <3> HIDE DEF n, all
    <3> QED BY <1>1, <2>4
  <2>6. Last(SubSeq(all, first, n)) = Last(all)
    <3>1. n = Len(all)
      OBVIOUS
    <3> HIDE DEF n, all
    <3>2. /\ Len(SubSeq(all, first, n)) = n - first + 1
          /\ \A j \in 1..(n - first + 1) : SubSeq(all, first, n)[j] = all[first + j - 1]
      BY <1>1, <2>4, <3>1
    <3>3. n - first + 1 \in 1..(n - first + 1) /\ first + (n - first + 1) - 1 = n
      BY <1>1, <2>4
    <3> QED BY <3>1, <3>2, <3>3 DEF Last
  <2>7. From(first).status = st /\ From(first).parts = SubSeq(all, first, n)
    BY DEF Shown
  <2>8. /\ Length(From(first)) \in Nat /\ Length(From(first)) >= StatusLen(st)
        /\ StatusLen(st) \in Nat /\ StatusLen(st) > 0
    BY <2>5, LengthNat
  <2>9. Render(tr, st) = From(first) /\ all = Visible(tr)
    BY <1>2, <1>7
  <2> HIDE DEF From, all, n, whole, fit
  <2>10. Length(From(first)) > 0
    BY <2>8
  <2>11. ShowsEnd(From(first), tr, st)
    BY <2>4, <2>5, <2>6, <2>7, <2>9, <2>10 DEF ShowsEnd
  <2> QED BY <2>9, <2>11
<1>8. CASE fit = {} /\ ~(Length(whole) <= Limit)
  <2>1. all # <<>>
    <3> SUFFICES ASSUME all = <<>> PROVE FALSE
      OBVIOUS
    <3>1. whole = Shown(<<>>, FALSE, 0, st)
      OBVIOUS
    <3>2. Length(Shown(<<>>, FALSE, 0, st)) = StatusLen(st)
      <4>1. [i \in DOMAIN <<>> |-> PartLen(<<>>[i])] = <<>> /\ <<>> \in Seq(Nat)
        OBVIOUS
      <4>2. Total(<<>>) = 0
        <5>1. SumsOf(Sums(<<>>), <<>>) /\ Len(<<>>) = 0
          BY <4>1, SumsRecursive
        <5> QED BY <5>1 DEF SumsOf, Total
      <4> QED BY <1>3, <4>1, <4>2 DEF Length, Shown
    <3>3. ~(Length(whole) <= Limit)
      BY <1>8
    <3>4. StatusLen(st) <= Limit
      BY <1>3
    <3> HIDE DEF whole, all
    <3> QED BY <3>1, <3>2, <3>3, <3>4
  <2>2. Last(all) \in Part /\ PartLen(Last(all)) \in Nat \ {0}
    <3>1. Last(all) \in Part
      <4>1. n = Len(all)
        OBVIOUS
      <4> HIDE DEF n, all
      <4> QED BY <1>1, <2>1, <4>1 DEF Last
    <3> QED BY <3>1, PartTakesRoom
  <2>3. Budget(st) \in Nat /\ Budget(st) > 20
    BY <1>3
  <2>4. last \in Nat /\ last > 0 /\ last <= Budget(st)
    <3> HIDE DEF all
    <3> QED BY <2>2, <2>3
  <2>5. tail.parts = <<Last(all)>> /\ tail.status = st /\ tail.marker /\ tail.tail = last
    BY DEF Shown
  <2> HIDE DEF tail, last
  <2>6. Length(tail) = last + Overhead + StatusLen(st)
    BY <2>4, <2>5 DEF Length
  <2>7. Length(tail) <= Limit /\ Length(tail) > 0
    BY <1>3, <2>4, <2>6
  <2>8. Render(tr, st) = tail /\ all = Visible(tr)
    BY <1>2, <1>8, <2>1, <2>3, <2>7
  <2>9. Last(<<Last(all)>>) = Last(all)
    BY DEF Last
  <2> HIDE DEF all
  <2>10. ShowsEnd(tail, tr, st)
    BY <2>5, <2>7, <2>8, <2>9 DEF ShowsEnd
  <2> QED BY <2>8, <2>10
<1> HIDE DEF whole, fit
<1> QED BY <1>6, <1>7, <1>8
-----------------------------------------------------------------------------
(* The transcript's types.                                                  *)

TextKind == {"thinking", "text"}
MadeUp == {Synthetic(n) : n \in Nat}
StackEntry == [id : (TaskId \ {<<>>}) \cup MadeUp, seg : Nat]
NamedId == (TaskId \cup ToolId) \ {<<>>}
OpenBlocks == [{"tool", "thinking", "text"} -> [Index -> Nat]]

\* Open blocks and subagents refer to segments, a subagent to its own.
Pointers(segs, stack, open) ==
  /\ \A k \in {"tool", "thinking", "text"}, i \in Index : open[k][i] <= Len(segs)
  /\ \A i \in DOMAIN stack :
       stack[i].seg \in 1..Len(segs) /\ segs[stack[i].seg].kind = "subagent"

TranscriptOK(tr) ==
  /\ tr \in [segs : Seq(Segment), stack : Seq(StackEntry), open : OpenBlocks,
             names : [NamedId -> {"none", "Task", "tool"}]]
  /\ Pointers(tr.segs, tr.stack, tr.open)

EventOK(e) ==
  /\ e.type = "start" => e.kind \in TextKind /\ e.index \in Index
  /\ e.type = "text" => e.kind \in TextKind /\ e.size # 0
  /\ e.type = "stop" => e.index \in Index
  /\ e.type = "tool_use" =>
       (e.name = "tool" /\ e.id \in ToolId) \/ (e.name = "Task" /\ e.id \in TaskId)

ParsedEvent ==
  {e \in [type : {"start", "text", "stop", "tool_use", "tool_delta", "tool_result", "error",
                  "complete"},
          kind : {"none", "tool", "thinking", "text"}, index : Index \cup {-1}, size : Nat,
          id : Seq(Word), name : {"none", "tool", "Task"}] : EventOK(e)}


\* Closing a block opens none.
LEMMA ClosedOK ==
  ASSUME NEW open \in OpenBlocks, NEW i \in Index
  PROVE  /\ CloseAt(open, i) \in OpenBlocks
         /\ \A k \in {"tool", "thinking", "text"}, j \in Index :
              CloseAt(open, i)[k][j] = open[k][j] \/ CloseAt(open, i)[k][j] = 0
<1> DEFINE first == IF "tool" \in {k \in {"tool", "thinking", "text"} : open[k][i] # 0} THEN "tool"
                    ELSE IF "thinking" \in {k \in {"tool", "thinking", "text"} : open[k][i] # 0}
                         THEN "thinking" ELSE "text"
<1>1. CloseAt(open, i) = open \/ CloseAt(open, i) = [open EXCEPT ![first][i] = 0]
  BY DEF CloseAt
<1>2. first \in {"tool", "thinking", "text"}
  OBVIOUS
<1> HIDE DEF first
<1> QED BY <1>1, <1>2 DEF OpenBlocks

\* A segment is added, and perhaps a block that refers to it.
LEMMA SegmentAdded ==
  ASSUME NEW segs \in Seq(Segment), NEW stack \in Seq(StackEntry), NEW open \in OpenBlocks,
         Pointers(segs, stack, open), NEW s \in Segment, NEW o \in OpenBlocks,
         \A k \in {"tool", "thinking", "text"}, i \in Index :
           o[k][i] <= Len(segs) \/ o[k][i] = Len(segs) + 1
  PROVE  /\ Append(segs, s) \in Seq(Segment) /\ Len(Append(segs, s)) = Len(segs) + 1
         /\ Append(segs, s)[Len(segs) + 1] = s
         /\ Pointers(Append(segs, s), stack, o)
<1> DEFINE L == Len(segs)
           q == Append(segs, s)
<1>1. /\ L \in Nat /\ q \in Seq(Segment) /\ Len(q) = L + 1 /\ q[L + 1] = s
      /\ \A j \in 1..L : q[j] = segs[j]
  OBVIOUS
<1>6. \A k \in {"tool", "thinking", "text"}, i \in Index :
        o[k][i] \in Nat /\ (o[k][i] <= L \/ o[k][i] = L + 1)
  BY DEF OpenBlocks
<1> HIDE DEF L, q
<1>2. \A k \in {"tool", "thinking", "text"}, i \in Index : o[k][i] <= Len(q)
  BY <1>1, <1>6
<1>3. \A i \in DOMAIN stack : stack[i].seg \in 1..L /\ segs[stack[i].seg].kind = "subagent"
  BY DEF Pointers, L
<1>4. \A j \in 1..L : j \in 1..Len(q)
  BY <1>1
<1>5. Pointers(q, stack, o)
  BY <1>1, <1>2, <1>3, <1>4 DEF Pointers
<1> QED BY <1>1, <1>5 DEF L, q

\* An element of a sequence is replaced.
LEMMA Replaced ==
  ASSUME NEW S, NEW q \in Seq(S), NEW at \in 1..Len(q), NEW x \in S
  PROVE  /\ [q EXCEPT ![at] = x] \in Seq(S) /\ Len([q EXCEPT ![at] = x]) = Len(q)
         /\ \A j \in 1..Len(q) : [q EXCEPT ![at] = x][j] = IF j = at THEN x ELSE q[j]
OBVIOUS

\* A piece is added to a segment.
LEMMA PieceAdded ==
  ASSUME NEW segs \in Seq(Segment), NEW stack, NEW open, Pointers(segs, stack, open),
         NEW at \in 1..Len(segs), NEW size \in Nat, size # 0 \/ segs[at].kind # "text"
  PROVE  /\ [segs EXCEPT ![at].body = Append(@, size)] \in Seq(Segment)
         /\ Len([segs EXCEPT ![at].body = Append(@, size)]) = Len(segs)
         /\ Pointers([segs EXCEPT ![at].body = Append(@, size)], stack, open)
<1> DEFINE L == Len(segs)
           s == [segs[at] EXCEPT !.body = Append(segs[at].body, size)]
           q == [segs EXCEPT ![at].body = Append(@, size)]
<1>1. L \in Nat /\ segs[at] \in Segment /\ at \in 1..L
  OBVIOUS
<1>2. q = [segs EXCEPT ![at] = s]
  OBVIOUS
<1>3. s.kind = segs[at].kind /\ s \in Segment
  <2>1. CASE segs[at].kind = "text"
    <3>1. segs[at].body \in Seq(Nat \ {0}) /\ segs[at] \in [kind : {"text"}, body : Seq(Nat \ {0})]
      BY <1>1, <2>1 DEF Segment
    <3>2. Append(segs[at].body, size) \in Seq(Nat \ {0})
      BY <2>1, <3>1
    <3> QED BY <2>1, <3>1, <3>2 DEF Segment
  <2>2. CASE segs[at].kind # "text"
    <3>1. /\ segs[at].body \in Seq(Nat)
          /\ segs[at] \in [kind : {"thinking", "tool_call", "subagent", "error"}, body : Seq(Nat)]
      BY <1>1, <2>2 DEF Segment
    <3>2. Append(segs[at].body, size) \in Seq(Nat)
      BY <3>1
    <3> QED BY <2>2, <3>1, <3>2 DEF Segment
  <2> QED BY <2>1, <2>2
<1> HIDE DEF s
<1>4. q \in Seq(Segment) /\ Len(q) = L /\ \A j \in 1..L : q[j] = IF j = at THEN s ELSE segs[j]
  <2> HIDE DEF q
  <2> QED BY <1>2, <1>3, Replaced
<1> HIDE DEF q
<1>5. Pointers(q, stack, open)
  BY <1>3, <1>4 DEF Pointers
<1> QED BY <1>4, <1>5 DEF q

\* What a pop leaves is the stack up to some entry.
LEMMA PopLeaves ==
  ASSUME NEW S, NEW stack \in Seq(S), NEW id
  PROVE  \E m \in 0..Len(stack) : Pop(stack, id) = SubSeq(stack, 1, m)
<1> DEFINE L == Len(stack)
           at == {i \in DOMAIN stack : RoughlyMatch(stack[i].id, id)}
           top == CHOOSE i \in at : \A j \in at : j <= i
<1>1. L \in Nat /\ DOMAIN stack = 1..L /\ stack = SubSeq(stack, 1, L)
  OBVIOUS
<1>2. stack # <<>> => L - 1 \in 0..L /\ Front(stack) = SubSeq(stack, 1, L - 1)
  BY <1>1 DEF Front
<1>3. ASSUME at # {} PROVE top - 1 \in 0..L
  <2>1. at \in SUBSET (1..L)
    BY <1>1
  <2> HIDE DEF at, L
  <2>2. \E i \in at : \A j \in at : j <= i
    BY <1>1, <1>3, <2>1, Largest
  <2>3. top \in at
    BY <2>2
  <2> HIDE DEF top
  <2> QED BY <1>1, <2>1, <2>3
<1>4. \/ Pop(stack, id) = stack
      \/ stack # <<>> /\ Pop(stack, id) = Front(stack)
      \/ at # {} /\ Pop(stack, id) = SubSeq(stack, 1, top - 1)
  BY DEF Pop
<1> HIDE DEF at, top
<1> QED BY <1>1, <1>2, <1>3, <1>4

\* Every operation keeps the types; most leave the stack and the names alone.
SameTasks(old, new) == new.stack = old.stack /\ new.names = old.names

LEMMA StartTextOK ==
  ASSUME NEW tr, TranscriptOK(tr), NEW e, e.kind \in TextKind, e.index \in Index
  PROVE  TranscriptOK(StartText(tr, e)) /\ SameTasks(tr, StartText(tr, e))
<1> DEFINE c == CloseAt(tr.open, e.index)
           o == [c EXCEPT ![e.kind][e.index] = Len(tr.segs) + 1]
           s == Seg(e.kind, <<>>)
           r == StartText(tr, e)
<1>1. /\ tr.segs \in Seq(Segment) /\ tr.stack \in Seq(StackEntry) /\ tr.open \in OpenBlocks
      /\ Pointers(tr.segs, tr.stack, tr.open) /\ Len(tr.segs) \in Nat
  BY DEF TranscriptOK
<1>2. /\ c \in OpenBlocks
      /\ \A k \in {"tool", "thinking", "text"}, j \in Index : c[k][j] = tr.open[k][j] \/ c[k][j] = 0
  BY <1>1, ClosedOK
<1> HIDE DEF c
<1>3. o \in OpenBlocks /\ e.kind \in {"thinking", "text"}
  BY <1>1, <1>2 DEF OpenBlocks, TextKind
<1>4. \A k \in {"tool", "thinking", "text"}, i \in Index : o[k][i] <= Len(tr.segs) \/ o[k][i] = Len(tr.segs) + 1
  <2> SUFFICES ASSUME NEW k \in {"tool", "thinking", "text"}, NEW i \in Index
               PROVE  o[k][i] <= Len(tr.segs) \/ o[k][i] = Len(tr.segs) + 1
    OBVIOUS
  <2>1. c[k][i] <= Len(tr.segs)
    <3>1. tr.open[k][i] <= Len(tr.segs)
      BY <1>1 DEF Pointers
    <3>2. 0 <= Len(tr.segs)
      BY <1>1
    <3> QED BY <1>2, <3>1, <3>2
  <2>2. o[k][i] = c[k][i] \/ o[k][i] = Len(tr.segs) + 1
    BY <1>2, <1>3 DEF OpenBlocks
  <2> QED BY <2>1, <2>2
<1>5. s \in Segment
  <2>1. <<>> \in Seq(Nat) /\ <<>> \in Seq(Nat \ {0})
    OBVIOUS
  <2> QED BY <1>3, <2>1 DEF Seg, Segment
<1>6. r.segs = Append(tr.segs, s) /\ r.open = o /\ r.stack = tr.stack /\ r.names = tr.names
  BY DEF StartText, TranscriptOK, c
<1>7. r \in [segs : {r.segs}, stack : {r.stack}, open : {r.open}, names : {r.names}]
  BY DEF StartText, TranscriptOK
<1> HIDE DEF s, o
<1>8. Append(tr.segs, s) \in Seq(Segment) /\ Pointers(Append(tr.segs, s), tr.stack, o)
  BY <1>1, <1>3, <1>4, <1>5, SegmentAdded
<1> HIDE DEF r
<1> QED BY <1>3, <1>6, <1>7, <1>8 DEF TranscriptOK, SameTasks, r

LEMMA StopOK ==
  ASSUME NEW tr, TranscriptOK(tr), NEW i \in Index, NEW r, r = [tr EXCEPT !.open = CloseAt(@, i)]
  PROVE  TranscriptOK(r) /\ SameTasks(tr, r)
<1>1. CloseAt(tr.open, i) \in OpenBlocks
      /\ \A k \in {"tool", "thinking", "text"}, j \in Index :
           CloseAt(tr.open, i)[k][j] = tr.open[k][j] \/ CloseAt(tr.open, i)[k][j] = 0
  BY ClosedOK DEF TranscriptOK
<1>2. /\ r.segs = tr.segs /\ r.open = CloseAt(tr.open, i) /\ r.stack = tr.stack /\ r.names = tr.names
      /\ r \in [segs : {r.segs}, stack : {r.stack}, open : {r.open}, names : {r.names}]
  BY DEF TranscriptOK
<1>3. Pointers(tr.segs, tr.stack, CloseAt(tr.open, i))
  <2>1. Len(tr.segs) \in Nat /\ Pointers(tr.segs, tr.stack, tr.open)
    BY DEF TranscriptOK
  <2>2. 0 <= Len(tr.segs)
    BY <2>1
  <2>3. \A k \in {"tool", "thinking", "text"}, j \in Index : CloseAt(tr.open, i)[k][j] <= Len(tr.segs)
    BY <1>1, <2>1, <2>2 DEF Pointers
  <2> QED BY <2>1, <2>3 DEF Pointers
<1> QED BY <1>1, <1>2, <1>3 DEF TranscriptOK, SameTasks

LEMMA SegmentPutOK ==
  ASSUME NEW tr, TranscriptOK(tr), NEW s \in Segment, NEW r, r = [tr EXCEPT !.segs = Append(@, s)]
  PROVE  TranscriptOK(r) /\ SameTasks(tr, r) /\ Len(r.segs) = Len(tr.segs) + 1 /\ r.open = tr.open
         /\ r.segs[Len(tr.segs) + 1] = s
<1>1. /\ r.segs = Append(tr.segs, s) /\ r.open = tr.open /\ r.stack = tr.stack /\ r.names = tr.names
      /\ r \in [segs : {r.segs}, stack : {r.stack}, open : {r.open}, names : {r.names}]
  BY DEF TranscriptOK
<1>2. /\ tr.segs \in Seq(Segment) /\ tr.stack \in Seq(StackEntry) /\ tr.open \in OpenBlocks
      /\ Pointers(tr.segs, tr.stack, tr.open)
  BY DEF TranscriptOK
<1>3. \A k \in {"tool", "thinking", "text"}, i \in Index :
        tr.open[k][i] <= Len(tr.segs) \/ tr.open[k][i] = Len(tr.segs) + 1
  BY <1>2 DEF Pointers
<1>4. /\ Append(tr.segs, s) \in Seq(Segment) /\ Len(Append(tr.segs, s)) = Len(tr.segs) + 1
      /\ Append(tr.segs, s)[Len(tr.segs) + 1] = s
      /\ Pointers(Append(tr.segs, s), tr.stack, tr.open)
  BY <1>2, <1>3, SegmentAdded
<1> QED BY <1>1, <1>4 DEF TranscriptOK, SameTasks

\* A block that the newest segment belongs to is opened.
LEMMA OpenedOK ==
  ASSUME NEW tr, TranscriptOK(tr), NEW k \in {"tool", "thinking", "text"}, NEW i \in Index,
         NEW r, r = [tr EXCEPT !.open[k][i] = Len(tr.segs)]
  PROVE  TranscriptOK(r) /\ SameTasks(tr, r)
<1> DEFINE o == [tr.open EXCEPT ![k][i] = Len(tr.segs)]
<1>1. Len(tr.segs) \in Nat /\ tr.open \in OpenBlocks /\ Pointers(tr.segs, tr.stack, tr.open)
  BY DEF TranscriptOK
<1>2. /\ r.segs = tr.segs /\ r.open = o /\ r.stack = tr.stack /\ r.names = tr.names
      /\ r \in [segs : {r.segs}, stack : {r.stack}, open : {r.open}, names : {r.names}]
  BY DEF TranscriptOK
<1>3. o \in OpenBlocks
  BY <1>1 DEF OpenBlocks
<1>4. Pointers(tr.segs, tr.stack, o)
  BY <1>1 DEF Pointers, OpenBlocks
<1> HIDE DEF o
<1> QED BY <1>2, <1>3, <1>4 DEF TranscriptOK, SameTasks

\* A piece is added to the segment at this place.
LEMMA TextAddedOK ==
  ASSUME NEW tr, TranscriptOK(tr), NEW at \in 1..Len(tr.segs), NEW size \in Nat,
         size # 0 \/ tr.segs[at].kind # "text",
         NEW r, r = [tr EXCEPT !.segs[at].body = Append(@, size)]
  PROVE  TranscriptOK(r) /\ SameTasks(tr, r) /\ Len(r.segs) = Len(tr.segs)
<1> DEFINE q == [tr.segs EXCEPT ![at].body = Append(@, size)]
<1>1. tr.segs \in Seq(Segment) /\ Pointers(tr.segs, tr.stack, tr.open)
  BY DEF TranscriptOK
<1>2. /\ r.segs = q /\ r.open = tr.open /\ r.stack = tr.stack /\ r.names = tr.names
      /\ r \in [segs : {r.segs}, stack : {r.stack}, open : {r.open}, names : {r.names}]
  BY DEF TranscriptOK
<1>3. q \in Seq(Segment) /\ Len(q) = Len(tr.segs) /\ Pointers(q, tr.stack, tr.open)
  BY <1>1, PieceAdded
<1> HIDE DEF q
<1> QED BY <1>2, <1>3 DEF TranscriptOK, SameTasks

LEMMA AddTextOK ==
  ASSUME NEW tr, TranscriptOK(tr), NEW e, e.kind \in TextKind, e.size \in Nat \ {0}
  PROVE  TranscriptOK(AddText(tr, e)) /\ SameTasks(tr, AddText(tr, e))
<1> DEFINE at == IF e.index \in Index THEN tr.open[e.kind][e.index] ELSE 0
           s == Seg(e.kind, <<e.size>>)
           put == [tr EXCEPT !.segs = Append(@, s)]
<1>1. AddText(tr, e) =
        IF at # 0 THEN [tr EXCEPT !.segs[at].body = Append(@, e.size)]
        ELSE [tr EXCEPT !.segs = Append(@, s),
                        !.open = IF e.index \in Index
                                 THEN [@ EXCEPT ![e.kind][e.index] = Len(tr.segs) + 1] ELSE @]
  BY DEF AddText
<1>2. e.kind \in {"tool", "thinking", "text"} /\ Len(tr.segs) \in Nat /\ tr.open \in OpenBlocks
  BY DEF TextKind, TranscriptOK
<1>3. at \in Nat /\ at <= Len(tr.segs)
  BY <1>2 DEF TranscriptOK, Pointers, OpenBlocks
<1>4. s \in Segment
  <2>1. <<e.size>> \in Seq(Nat) /\ <<e.size>> \in Seq(Nat \ {0})
    OBVIOUS
  <2> QED BY <2>1 DEF Seg, Segment, TextKind
<1> HIDE DEF at, s
<1>5. CASE at # 0
  <2>1. at \in 1..Len(tr.segs)
    BY <1>2, <1>3, <1>5
  <2>2. AddText(tr, e) = [tr EXCEPT !.segs[at].body = Append(@, e.size)]
    BY <1>1, <1>5
  <2> QED BY <2>1, <2>2, TextAddedOK
<1>6. CASE at = 0
  <2>1. /\ TranscriptOK(put) /\ SameTasks(tr, put) /\ Len(put.segs) = Len(tr.segs) + 1
        /\ put.open = tr.open
    BY <1>4, SegmentPutOK
  <2>2. CASE e.index \notin Index
    <3>1. AddText(tr, e) = put
      BY <1>1, <1>6, <2>2 DEF TranscriptOK
    <3> HIDE DEF put
    <3> QED BY <2>1, <3>1
  <2>3. CASE e.index \in Index
    <3>1. AddText(tr, e) = [put EXCEPT !.open[e.kind][e.index] = Len(tr.segs) + 1]
      BY <1>1, <1>6, <2>3 DEF TranscriptOK
    <3> HIDE DEF put
    <3>2. AddText(tr, e) = [put EXCEPT !.open[e.kind][e.index] = Len(put.segs)]
      BY <2>1, <3>1
    <3>3. TranscriptOK(AddText(tr, e)) /\ SameTasks(put, AddText(tr, e))
      BY <1>2, <2>1, <2>3, <3>2, OpenedOK
    <3> QED BY <2>1, <3>3 DEF SameTasks
  <2> QED BY <2>2, <2>3
<1> QED BY <1>5, <1>6

\* A Task's entry comes on top of the stack.
EntryId(stack, id) == IF id = <<>> THEN Synthetic(Len(stack) + 1) ELSE id

LEMMA PushOK ==
  ASSUME NEW tr, TranscriptOK(tr), NEW id \in TaskId
  PROVE  /\ TranscriptOK(Push(tr, id)) /\ Push(tr, id).names = tr.names
         /\ Push(tr, id).stack =
              Append(tr.stack, [id |-> EntryId(tr.stack, id), seg |-> Len(tr.segs) + 1])
<1> DEFINE s == Seg("subagent", <<>>)
           put == [tr EXCEPT !.segs = Append(@, s)]
           x == [id |-> EntryId(tr.stack, id), seg |-> Len(tr.segs) + 1]
           r == Push(tr, id)
           L == Len(tr.stack)
           q == Append(tr.stack, x)
<1>1. tr.stack \in Seq(StackEntry) /\ L \in Nat /\ Len(tr.segs) \in Nat
  BY DEF TranscriptOK
<1>2. x \in StackEntry
  BY <1>1 DEF EntryId, StackEntry, MadeUp
<1>3. s \in Segment /\ s.kind = "subagent"
  <2>1. <<>> \in Seq(Nat)
    OBVIOUS
  <2> QED BY <2>1 DEF Seg, Segment
<1>4. x.seg = Len(tr.segs) + 1
  OBVIOUS
<1>5. /\ r.segs = put.segs /\ r.open = tr.open /\ r.names = tr.names
      /\ r.stack = q
      /\ r \in [segs : {r.segs}, stack : {r.stack}, open : {r.open}, names : {r.names}]
  BY DEF Push, TranscriptOK, EntryId
<1> HIDE DEF s, x
<1>6. /\ TranscriptOK(put) /\ SameTasks(tr, put) /\ Len(put.segs) = Len(tr.segs) + 1
      /\ put.open = tr.open /\ put.segs[Len(tr.segs) + 1] = s
  BY <1>3, SegmentPutOK
<1>7. q \in Seq(StackEntry) /\ Len(q) = L + 1 /\ q[L + 1] = x /\ \A j \in 1..L : q[j] = tr.stack[j]
  BY <1>1, <1>2
<1>11. DOMAIN q = 1..(L + 1) /\ DOMAIN tr.stack = 1..L
  BY <1>1, <1>7
<1>12. q = Append(tr.stack, x)
  OBVIOUS
<1> HIDE DEF put, r, q, L
<1>8. put.stack = tr.stack /\ Pointers(put.segs, tr.stack, tr.open)
  BY <1>6 DEF TranscriptOK, SameTasks
<1>9. Pointers(put.segs, q, tr.open)
  <2> SUFFICES ASSUME NEW i \in 1..(L + 1)
               PROVE  q[i].seg \in 1..Len(put.segs) /\ put.segs[q[i].seg].kind = "subagent"
    BY <1>8, <1>11 DEF Pointers
  <2>1. CASE i \in 1..L
    BY <1>7, <1>8, <1>11, <2>1 DEF Pointers
  <2>2. CASE i = L + 1
    BY <1>1, <1>3, <1>4, <1>6, <1>7, <2>2
  <2> QED BY <1>1, <2>1, <2>2
<1>10. TranscriptOK(r)
  BY <1>5, <1>6, <1>7, <1>9 DEF TranscriptOK
<1> QED BY <1>5, <1>10, <1>12 DEF r, x

\* The name of an id that answers a Task without one is never that of a tool.
NamesOK(tr) == TaskLike \in NamedId => tr.names[TaskLike] # "tool"

\* A call names its id, and closes the block with its index.
Named(tr, e) ==
  [tr EXCEPT !.names = IF e.id = <<>> THEN @ ELSE [@ EXCEPT ![e.id] = e.name],
             !.open = IF e.index \in Index THEN CloseAt(@, e.index) ELSE @]

LEMMA NamedOK ==
  ASSUME NEW tr, TranscriptOK(tr), NamesOK(tr), NEW e, EventOK(e), e.type = "tool_use"
  PROVE  /\ TranscriptOK(Named(tr, e)) /\ NamesOK(Named(tr, e))
         /\ Named(tr, e).stack = tr.stack /\ Named(tr, e).segs = tr.segs
<1> DEFINE r == Named(tr, e)
           names == IF e.id = <<>> THEN tr.names ELSE [tr.names EXCEPT ![e.id] = e.name]
           open == IF e.index \in Index THEN CloseAt(tr.open, e.index) ELSE tr.open
           mid == [tr EXCEPT !.names = names]
<1>1. /\ names \in [NamedId -> {"none", "Task", "tool"}]
      /\ TaskLike \in NamedId => names[TaskLike] # "tool"
  <2>1. tr.names \in [NamedId -> {"none", "Task", "tool"}]
    BY DEF TranscriptOK
  <2>2. e.name \in {"tool", "Task"} /\ (e.name = "tool" => e.id # TaskLike)
    BY TaskIdAssumption DEF TaskIdAssumption, EventOK
  <2> QED BY <2>1, <2>2 DEF NamesOK
<1>2. /\ mid.segs = tr.segs /\ mid.open = tr.open /\ mid.stack = tr.stack /\ mid.names = names
      /\ mid \in [segs : {mid.segs}, stack : {mid.stack}, open : {mid.open}, names : {mid.names}]
      /\ r = [mid EXCEPT !.open = open]
  BY DEF TranscriptOK, Named
<1>6. /\ r.segs = tr.segs /\ r.open = open /\ r.stack = tr.stack /\ r.names = names
      /\ r \in [segs : {r.segs}, stack : {r.stack}, open : {r.open}, names : {r.names}]
  BY DEF TranscriptOK, Named
<1> SUFFICES TranscriptOK(r) /\ NamesOK(r) /\ r.stack = tr.stack /\ r.segs = tr.segs
  OBVIOUS
<1> HIDE DEF names, mid, r
<1>3. TranscriptOK(mid)
  BY <1>1, <1>2 DEF TranscriptOK
<1>4. CASE e.index \in Index
  <2>1. r = [mid EXCEPT !.open = CloseAt(@, e.index)]
    BY <1>2, <1>4
  <2>2. TranscriptOK(r) /\ SameTasks(mid, r)
    BY <1>3, <1>4, <2>1, StopOK
  <2>3. r.segs = mid.segs
    BY <1>2 DEF TranscriptOK
  <2> QED BY <1>1, <1>2, <2>2, <2>3 DEF SameTasks, NamesOK
<1>5. CASE e.index \notin Index
  <2>1. r.open = tr.open
    BY <1>5, <1>6
  <2> QED BY <1>1, <1>6, <2>1 DEF TranscriptOK, NamesOK
<1> QED BY <1>4, <1>5

LEMMA UseToolOK ==
  ASSUME NEW tr, TranscriptOK(tr), NamesOK(tr), NEW e, EventOK(e), e.type = "tool_use"
  PROVE  /\ TranscriptOK(UseTool(tr, e)) /\ NamesOK(UseTool(tr, e))
         /\ e.name = "tool" => UseTool(tr, e).stack = tr.stack
         /\ e.name = "Task" => UseTool(tr, e).stack =
              Append(tr.stack, [id |-> EntryId(tr.stack, e.id), seg |-> Len(tr.segs) + 1])
<1> DEFINE named == Named(tr, e)
           put == IF tr.stack # <<>>
                  THEN [named EXCEPT !.segs[Last(tr.stack).seg].body = Append(@, 0)]
                  ELSE [named EXCEPT !.segs = Append(@, Seg("tool_call", <<>>))]
<1>1. TranscriptOK(named) /\ NamesOK(named) /\ named.stack = tr.stack /\ named.segs = tr.segs
  BY NamedOK
<1>2. UseTool(tr, e) = IF e.name = "Task" THEN Push(named, e.id)
                       ELSE IF e.index \in Index
                            THEN [put EXCEPT !.open["tool"][e.index] = Len(put.segs)] ELSE put
  BY DEF UseTool, Named
<1> HIDE DEF named
<1>3. CASE e.name = "Task"
  <2>1. e.id \in TaskId
    BY <1>3 DEF EventOK
  <2>2. UseTool(tr, e) = Push(named, e.id)
    BY <1>2, <1>3
  <2>3. /\ TranscriptOK(Push(named, e.id)) /\ Push(named, e.id).names = named.names
        /\ Push(named, e.id).stack =
             Append(named.stack, [id |-> EntryId(named.stack, e.id), seg |-> Len(named.segs) + 1])
    BY <1>1, <2>1, PushOK
  <2>4. NamesOK(Push(named, e.id))
    BY <1>1, <2>3 DEF NamesOK
  <2> QED BY <1>1, <1>3, <2>2, <2>3, <2>4
<1>4. CASE e.name = "tool"
  <2>1. TranscriptOK(put) /\ SameTasks(named, put)
    <3>1. CASE tr.stack # <<>>
      <4> DEFINE at == Last(tr.stack).seg
      <4>1. Len(tr.stack) \in DOMAIN tr.stack
        BY <3>1 DEF TranscriptOK
      <4>2. at \in 1..Len(named.segs) /\ named.segs[at].kind = "subagent"
        BY <1>1, <4>1 DEF TranscriptOK, Pointers, Last
      <4>3. put = [named EXCEPT !.segs[at].body = Append(@, 0)]
        BY <3>1
      <4> HIDE DEF at, put
      <4>4. 0 \in Nat /\ named.segs[at].kind # "text"
        BY <4>2
      <4> QED BY <1>1, <4>2, <4>3, <4>4, TextAddedOK
    <3>2. CASE tr.stack = <<>>
      <4>1. put = [named EXCEPT !.segs = Append(@, Seg("tool_call", <<>>))]
        BY <3>2
      <4>2. Seg("tool_call", <<>>) \in Segment
        <5>1. <<>> \in Seq(Nat)
          OBVIOUS
        <5> QED BY <5>1 DEF Seg, Segment
      <4> HIDE DEF put
      <4> QED BY <1>1, <4>1, <4>2, SegmentPutOK
    <3> QED BY <3>1, <3>2
  <2> HIDE DEF put
  <2>2. TranscriptOK(UseTool(tr, e)) /\ SameTasks(put, UseTool(tr, e))
    <3>1. CASE e.index \in Index
      <4>1. UseTool(tr, e) = [put EXCEPT !.open["tool"][e.index] = Len(put.segs)]
        BY <1>2, <1>4, <3>1
      <4>2. "tool" \in {"tool", "thinking", "text"}
        OBVIOUS
      <4> QED BY <2>1, <3>1, <4>1, <4>2, OpenedOK
    <3>2. CASE e.index \notin Index
      <4>1. UseTool(tr, e) = put
        BY <1>2, <1>4, <3>2
      <4> QED BY <2>1, <4>1 DEF SameTasks
    <3> QED BY <3>1, <3>2
  <2> QED BY <1>1, <1>4, <2>1, <2>2 DEF SameTasks, NamesOK
<1> QED BY <1>3, <1>4 DEF EventOK

\* The stack was cut.
Cut(old, new) == \E m \in 0..Len(old) : new = SubSeq(old, 1, m)

LEMMA CutOK ==
  ASSUME NEW tr, TranscriptOK(tr), NEW stack, Cut(tr.stack, stack),
         NEW r, r = [tr EXCEPT !.stack = stack]
  PROVE  TranscriptOK(r) /\ r.stack = stack /\ r.names = tr.names
<1>1. PICK m \in 0..Len(tr.stack) : stack = SubSeq(tr.stack, 1, m)
  BY DEF Cut
<1>2. /\ r.segs = tr.segs /\ r.open = tr.open /\ r.stack = stack /\ r.names = tr.names
      /\ r \in [segs : {r.segs}, stack : {r.stack}, open : {r.open}, names : {r.names}]
  BY DEF TranscriptOK
<1>3. tr.stack \in Seq(StackEntry) /\ Pointers(tr.segs, tr.stack, tr.open)
  BY DEF TranscriptOK
<1>4. /\ stack \in Seq(StackEntry) /\ DOMAIN stack = 1..m /\ 1..m \subseteq DOMAIN tr.stack
      /\ \A i \in 1..m : stack[i] = tr.stack[i]
  BY <1>1, <1>3
<1>5. Pointers(tr.segs, stack, tr.open)
  BY <1>3, <1>4 DEF Pointers
<1> QED BY <1>2, <1>4, <1>5 DEF TranscriptOK

LEMMA ResultOK ==
  ASSUME NEW tr, TranscriptOK(tr), NEW e
  PROVE  /\ TranscriptOK(Result(tr, e)) /\ Result(tr, e).names = tr.names
         /\ Cut(tr.stack, Result(tr, e).stack)
         /\ \/ Result(tr, e).stack = Pop(tr.stack, e.id)
            \/ Pop(tr.stack, e.id) = tr.stack /\ Result(tr, e).stack = Pop(tr.stack, <<>>)
<1> DEFINE popped == Pop(tr.stack, e.id)
<1>1. tr.stack \in Seq(StackEntry)
  BY DEF TranscriptOK
<1>2. Cut(tr.stack, popped) /\ Cut(tr.stack, Pop(tr.stack, <<>>))
  BY <1>1, PopLeaves DEF Cut
<1>3. \/ Result(tr, e) = [tr EXCEPT !.stack = popped]
      \/ popped = tr.stack /\ Result(tr, e) = [tr EXCEPT !.stack = Pop(popped, <<>>)]
  BY DEF Result
<1> HIDE DEF popped
<1>4. CASE Result(tr, e) = [tr EXCEPT !.stack = popped]
  <2>1. TranscriptOK(Result(tr, e)) /\ Result(tr, e).stack = popped /\ Result(tr, e).names = tr.names
    BY <1>2, <1>4, CutOK
  <2> QED BY <1>2, <2>1 DEF popped
<1>5. CASE popped = tr.stack /\ Result(tr, e) = [tr EXCEPT !.stack = Pop(popped, <<>>)]
  <2>1. Result(tr, e) = [tr EXCEPT !.stack = Pop(tr.stack, <<>>)]
    BY <1>5
  <2>2. /\ TranscriptOK(Result(tr, e)) /\ Result(tr, e).stack = Pop(tr.stack, <<>>)
        /\ Result(tr, e).names = tr.names
    BY <1>2, <2>1, CutOK
  <2> QED BY <1>2, <1>5, <2>2 DEF popped
<1> QED BY <1>3, <1>4, <1>5

LEMMA ApplyOK ==
  ASSUME NEW tr, TranscriptOK(tr), NamesOK(tr), NEW e \in ParsedEvent
  PROVE  /\ TranscriptOK(Apply(tr, e)) /\ NamesOK(Apply(tr, e))
         /\ e.type = "tool_result" => Apply(tr, e).stack = Result(tr, e).stack
         /\ e.type = "tool_use" /\ e.name = "Task" => Apply(tr, e).stack =
              Append(tr.stack, [id |-> EntryId(tr.stack, e.id), seg |-> Len(tr.segs) + 1])
         /\ e.type # "tool_result" /\ ~(e.type = "tool_use" /\ e.name = "Task") =>
              Apply(tr, e).stack = tr.stack
<1> DEFINE r == Apply(tr, e)
<1>1. EventOK(e) /\ e.size \in Nat
  BY DEF ParsedEvent
<1>2. ASSUME TranscriptOK(r), SameTasks(tr, r), e.type # "tool_use", e.type # "tool_result"
      PROVE  /\ TranscriptOK(r) /\ NamesOK(r) /\ r.stack = tr.stack
  BY <1>2 DEF SameTasks, NamesOK
<1>3. CASE Hidden(tr, e)
  <2>1. r = tr /\ e.type # "tool_use" /\ e.type # "tool_result"
    BY <1>3 DEF Apply, Hidden
  <2> QED BY <2>1
<1>4. CASE ~Hidden(tr, e) /\ e.type = "start"
  <2>1. r = StartText(tr, e)
    BY <1>4 DEF Apply
  <2>2. TranscriptOK(r) /\ SameTasks(tr, r)
    BY <1>1, <1>4, <2>1, StartTextOK DEF EventOK
  <2> HIDE DEF r
  <2> QED BY <1>2, <1>4, <2>2 DEF r
<1>5. CASE ~Hidden(tr, e) /\ e.type = "text"
  <2>1. r = AddText(tr, e)
    BY <1>5 DEF Apply
  <2>2. TranscriptOK(r) /\ SameTasks(tr, r)
    BY <1>1, <1>5, <2>1, AddTextOK DEF EventOK
  <2> HIDE DEF r
  <2> QED BY <1>2, <1>5, <2>2 DEF r
<1>6. CASE ~Hidden(tr, e) /\ e.type = "stop"
  <2>1. r = [tr EXCEPT !.open = CloseAt(@, e.index)]
    BY <1>6 DEF Apply
  <2> HIDE DEF r
  <2>2. TranscriptOK(r) /\ SameTasks(tr, r)
    BY <1>1, <1>6, <2>1, StopOK DEF EventOK
  <2> QED BY <1>2, <1>6, <2>2 DEF r
<1>7. CASE ~Hidden(tr, e) /\ e.type = "tool_use"
  <2>1. r = UseTool(tr, e)
    BY <1>7 DEF Apply
  <2> HIDE DEF r
  <2>2. e.name \in {"tool", "Task"}
    BY <1>1, <1>7 DEF EventOK
  <2> QED BY <1>1, <1>7, <2>1, <2>2, UseToolOK DEF r
<1>8. CASE ~Hidden(tr, e) /\ e.type = "tool_result"
  <2>1. r = Result(tr, e)
    BY <1>8 DEF Apply
  <2> HIDE DEF r
  <2>2. TranscriptOK(r) /\ r.names = tr.names
    BY <2>1, ResultOK
  <2> QED BY <1>8, <2>1, <2>2 DEF NamesOK, r
<1>9. CASE ~Hidden(tr, e) /\ e.type = "error"
  <2>1. r = [tr EXCEPT !.segs = Append(@, Seg("error", <<>>))]
    BY <1>9 DEF Apply
  <2>2. Seg("error", <<>>) \in Segment
    <3>1. <<>> \in Seq(Nat)
      OBVIOUS
    <3> QED BY <3>1 DEF Seg, Segment
  <2> HIDE DEF r
  <2>3. TranscriptOK(r) /\ SameTasks(tr, r)
    BY <2>1, <2>2, SegmentPutOK
  <2> QED BY <1>2, <1>9, <2>3 DEF r
<1>10. CASE ~Hidden(tr, e) /\ e.type \notin {"start", "text", "stop", "tool_use", "tool_result", "error"}
  <2>1. r = tr
    BY <1>10 DEF Apply
  <2> QED BY <1>10, <2>1
<1> QED BY <1>3, <1>4, <1>5, <1>6, <1>7, <1>8, <1>9, <1>10
-----------------------------------------------------------------------------
(* Ids that begin alike.                                                    *)

Begins(s, u) == Len(s) <= Len(u) /\ \A i \in 1..Len(s) : s[i] = u[i]

LEMMA PrefixBegins ==
  ASSUME NEW S, NEW T, NEW s \in Seq(S), NEW u \in Seq(T)
  PROVE IsPrefix(s, u) <=> Begins(s, u)
<1>1. CASE Len(s) <= Len(u)
  <2>1. SubSeq(s, 1, Len(s)) = [i \in 1..Len(s) |-> s[i]]
    OBVIOUS
  <2>2. SubSeq(u, 1, Len(s)) = [i \in 1..Len(s) |-> u[i]]
    BY <1>1
  <2> QED BY <1>1, <2>1, <2>2 DEF IsPrefix, Begins
<1>2. CASE ~(Len(s) <= Len(u))
  BY <1>2 DEF IsPrefix, Begins
<1> QED BY <1>1, <1>2

\* An id, with a suffix or not.
LEMMA Suffixed ==
  ASSUME NEW a \in Seq(Word), NEW id \in {a, Append(a, "result")}
  PROVE  /\ id \in Seq(Word) /\ Len(id) \in {Len(a), Len(a) + 1}
         /\ \A i \in 1..Len(a) : id[i] = a[i]
<1>1. Len(a) \in Nat /\ "result" \in Word
  BY TaskIdAssumption DEF TaskIdAssumption
<1>2. CASE id = a
  BY <1>2
<1>3. CASE id = Append(a, "result")
  <2> DEFINE q == Append(a, "result")
  <2>1. q \in Seq(Word) /\ Len(q) = Len(a) + 1 /\ \A i \in 1..Len(a) : q[i] = a[i]
    BY <1>1
  <2> HIDE DEF q
  <2> QED BY <1>3, <2>1 DEF q
<1> QED BY <1>2, <1>3

\* A Task's result matches the Task's id, suffix or not, ...
LEMMA MatchesOwn ==
  ASSUME NEW a \in TaskId, a # <<>>, NEW id \in {a, Append(a, "result")}
  PROVE  RoughlyMatch(a, id)
<1>1. a \in Seq(Word) /\ id \in Seq(Word) /\ id # <<>> /\ Begins(a, id)
  <2>1. a \in Seq(Word) /\ Len(a) \in Nat \ {0}
    BY TaskIdAssumption DEF TaskIdAssumption
  <2>2. /\ id \in Seq(Word) /\ Len(id) \in {Len(a), Len(a) + 1}
        /\ \A i \in 1..Len(a) : id[i] = a[i]
    BY <2>1, Suffixed
  <2>3. id # <<>> /\ Len(a) <= Len(id)
    BY <2>1, <2>2
  <2> QED BY <2>1, <2>2, <2>3 DEF Begins
<1>2. IsPrefix(a, id)
  BY <1>1, PrefixBegins
<1> QED BY <1>1, <1>2 DEF RoughlyMatch

\* ... and no other that can stand on the stack.
LEMMA MatchesOnlyOwn ==
  ASSUME NEW a \in TaskId, a # <<>>, NEW id \in {a, Append(a, "result")},
         NEW b \in (TaskId \ {<<>>}) \cup MadeUp, RoughlyMatch(b, id)
  PROVE  b = a
<1>1. /\ a \in Seq(Word) /\ a[1] # "__task_" /\ Len(a) \in Nat \ {0}
      /\ \A c, d \in TaskId : c # d /\ c # <<>> => ~IsPrefix(c, d)
  <2>1. a \in Seq(Word) /\ "__task_" \notin Word
    BY TaskIdAssumption DEF TaskIdAssumption
  <2>2. Len(a) \in Nat \ {0} /\ a[1] \in Word
    BY <2>1
  <2> QED BY <2>1, <2>2, TaskIdAssumption DEF TaskIdAssumption
<1>2. /\ id \in Seq(Word) /\ Len(id) \in {Len(a), Len(a) + 1}
      /\ \A i \in 1..Len(a) : id[i] = a[i]
  BY <1>1, Suffixed
<1>3. CASE b \in MadeUp
  <2>1. PICK n \in Nat : b = <<"__task_", n>>
    BY <1>3 DEF MadeUp, Synthetic
  <2>2. b \in Seq({"__task_", n}) /\ Len(b) = 2 /\ b[1] = "__task_"
    BY <2>1
  <2>3. Begins(b, id) \/ Begins(id, b)
    BY <1>2, <2>2, PrefixBegins DEF RoughlyMatch
  <2>4. 1 \in 1..Len(b) /\ 1 \in 1..Len(id) /\ 1 \in 1..Len(a)
    BY <1>1, <1>2, <2>2
  <2> QED BY <1>1, <1>2, <2>2, <2>3, <2>4 DEF Begins
<1>4. CASE b \in TaskId \ {<<>>}
  <2>1. b \in Seq(Word) /\ Len(b) \in Nat
    BY <1>4, TaskIdAssumption DEF TaskIdAssumption
  <2>2. Begins(b, id) \/ Begins(id, b)
    BY <1>2, <2>1, PrefixBegins DEF RoughlyMatch
  <2>3. Begins(a, b) \/ Begins(b, a)
    <3>1. CASE Len(b) <= Len(a)
      <4>1. \A i \in 1..Len(b) : i \in 1..Len(a) /\ i \in 1..Len(id)
        BY <1>1, <1>2, <2>1, <3>1
      <4>2. \A i \in 1..Len(b) : b[i] = a[i]
        <5>1. CASE Begins(b, id)
          BY <1>2, <4>1, <5>1 DEF Begins
        <5>2. CASE Begins(id, b)
          BY <1>2, <4>1, <5>2 DEF Begins
        <5> QED BY <2>2, <5>1, <5>2
      <4> QED BY <3>1, <4>2 DEF Begins
    <3>2. CASE Len(a) <= Len(b)
      <4>1. \A i \in 1..Len(a) : i \in 1..Len(b) /\ i \in 1..Len(id)
        BY <1>1, <1>2, <2>1, <3>2
      <4>2. \A i \in 1..Len(a) : a[i] = b[i]
        <5>1. CASE Begins(b, id)
          BY <1>2, <4>1, <5>1 DEF Begins
        <5>2. CASE Begins(id, b)
          BY <1>2, <4>1, <5>2 DEF Begins
        <5> QED BY <2>2, <5>1, <5>2
      <4> QED BY <3>2, <4>2 DEF Begins
    <3> QED BY <1>1, <2>1, <3>1, <3>2
  <2>4. IsPrefix(a, b) \/ IsPrefix(b, a)
    BY <1>1, <2>1, <2>3, PrefixBegins
  <2> QED BY <1>1, <1>4, <2>4
<1> QED BY <1>3, <1>4
-----------------------------------------------------------------------------
(* The subagents on the stack are those of Tasks that wait, in their order.   *)

TaskCall == [id : TaskId, n : Nat]

\* The entry is that of the call.
EntryOf(entry, c) == IF c.id = <<>> THEN entry.id \in MadeUp ELSE entry.id = c.id

StandsBy(stack, f) ==
  /\ \A i, j \in DOMAIN stack : i < j => f[i].n < f[j].n
  /\ \A i \in DOMAIN stack : EntryOf(stack[i], f[i])

Stands(stack, calling) == \E f \in [DOMAIN stack -> calling] : StandsBy(stack, f)

\* Calls are numbered; those with an id differ in it.
AreCalls(calling) ==
  /\ calling \subseteq TaskCall
  /\ \A c, d \in calling : c.n = d.n => c = d
  /\ \A c, d \in calling : c.id = d.id /\ c.id # <<>> => c = d

NewestAmong(c, calling) == \A d \in calling : d.n <= c.n

AnswerIds(c) == IF c.id = <<>> THEN {<<>>, TaskLike} ELSE {c.id, Append(c.id, "result")}

\* A stack that was cut stands as before.
LEMMA StandsCut ==
  ASSUME NEW S, NEW stack \in Seq(S), NEW calling, Stands(stack, calling), NEW new, Cut(stack, new)
  PROVE  Stands(new, calling)
<1>1. PICK m \in 0..Len(stack) : new = SubSeq(stack, 1, m)
  BY DEF Cut
<1>2. PICK f \in [DOMAIN stack -> calling] : StandsBy(stack, f)
  BY DEF Stands
<1>3. DOMAIN new = 1..m /\ 1..m \subseteq DOMAIN stack /\ \A i \in 1..m : new[i] = stack[i]
  BY <1>1
<1> DEFINE g == [i \in 1..m |-> f[i]]
<1>4. g \in [DOMAIN new -> calling]
  BY <1>2, <1>3
<1>5. \A i \in 1..m : g[i] = f[i]
  OBVIOUS
<1> HIDE DEF g
<1>6. StandsBy(new, g)
  BY <1>2, <1>3, <1>5 DEF StandsBy
<1> QED BY <1>4, <1>6 DEF Stands

\* It stands by fewer calls if the others have no entry in it.
LEMMA StandsWithout ==
  ASSUME NEW stack, NEW calling, NEW f \in [DOMAIN stack -> calling], StandsBy(stack, f),
         NEW c, \A i \in DOMAIN stack : f[i] # c
  PROVE  Stands(stack, calling \ {c})
<1>1. f \in [DOMAIN stack -> calling \ {c}]
  OBVIOUS
<1> QED BY <1>1 DEF Stands

\* The newest call's entry comes on top.
LEMMA StandsPush ==
  ASSUME NEW stack \in Seq(StackEntry), NEW calling, AreCalls(calling), NEW c \in calling,
         NewestAmong(c, calling), Stands(stack, calling \ {c}),
         NEW x, x.id = EntryId(stack, c.id), NEW new, new = Append(stack, x)
  PROVE  Stands(new, calling)
<1> DEFINE L == Len(stack)
<1>1. PICK f \in [DOMAIN stack -> calling \ {c}] : StandsBy(stack, f)
  BY DEF Stands
<1>2. L \in Nat /\ DOMAIN stack = 1..L
  OBVIOUS
<1>3. DOMAIN new = 1..(L + 1) /\ new[L + 1] = x /\ \A i \in 1..L : new[i] = stack[i]
  BY <1>2
<1>4. EntryOf(x, c)
  BY <1>2 DEF EntryOf, EntryId, MadeUp
<1> HIDE DEF L
<1> DEFINE g == [i \in 1..(L + 1) |-> IF i = L + 1 THEN c ELSE f[i]]
<1>5. \A i \in 1..L : i \in 1..(L + 1) /\ i # L + 1
  BY <1>2
<1>6. \A i \in 1..(L + 1) : i \in 1..L \/ i = L + 1
  BY <1>2
<1>7. g[L + 1] = c /\ \A i \in 1..L : g[i] = f[i] /\ f[i] \in calling \ {c}
  BY <1>1, <1>2, <1>5
<1>8. g \in [DOMAIN new -> calling]
  BY <1>1, <1>2, <1>3, <1>6
<1> HIDE DEF g
<1>9. \A i \in 1..L : f[i].n < c.n
  <2> SUFFICES ASSUME NEW i \in 1..L PROVE f[i].n < c.n
    OBVIOUS
  <2>1. f[i] \in calling /\ f[i] # c /\ f[i].n \in Nat /\ c.n \in Nat
    BY <1>7 DEF AreCalls, TaskCall
  <2>2. f[i].n <= c.n /\ f[i].n # c.n
    BY <2>1 DEF NewestAmong, AreCalls
  <2> QED BY <2>1, <2>2
<1>10. StandsBy(new, g)
  <2>1. ASSUME NEW i \in 1..(L + 1), NEW j \in 1..(L + 1), i < j PROVE g[i].n < g[j].n
    <3>1. i \in 1..L
      BY <1>2, <2>1
    <3>2. CASE j \in 1..L
      BY <1>1, <1>2, <1>7, <2>1, <3>1, <3>2 DEF StandsBy
    <3>3. CASE j = L + 1
      BY <1>7, <1>9, <3>1, <3>3
    <3> QED BY <1>6, <3>2, <3>3
  <2>2. ASSUME NEW i \in 1..(L + 1) PROVE EntryOf(new[i], g[i])
    <3>1. CASE i \in 1..L
      BY <1>1, <1>2, <1>3, <1>7, <3>1 DEF StandsBy
    <3>2. CASE i = L + 1
      BY <1>3, <1>4, <1>7, <3>2
    <3> QED BY <1>6, <3>1, <3>2
  <2> QED BY <1>3, <2>1, <2>2 DEF StandsBy
<1> QED BY <1>8, <1>10 DEF Stands

\* A Task's result takes the Task's entry off the stack, with what lies above it.
LEMMA AnswerCuts ==
  ASSUME NEW tr, TranscriptOK(tr), NamesOK(tr), NEW calling, AreCalls(calling), NEW c \in calling,
         NEW f \in [DOMAIN tr.stack -> calling], StandsBy(tr.stack, f),
         c.id = <<>> => NewestAmong(c, calling),
         NEW e, e.id \in AnswerIds(c),
         NEW i \in DOMAIN tr.stack, f[i] = c
  PROVE  \E m \in 0..(i - 1) : Result(tr, e).stack = SubSeq(tr.stack, 1, m)
<1> DEFINE stack == tr.stack
           L == Len(stack)
           at == {j \in DOMAIN stack : RoughlyMatch(stack[j].id, e.id)}
           top == CHOOSE j \in at : \A k \in at : k <= j
<1>1. /\ stack \in Seq(StackEntry) /\ L \in Nat /\ DOMAIN stack = 1..L /\ i \in 1..L
      /\ tr.names \in [NamedId -> {"none", "Task", "tool"}]
  BY DEF TranscriptOK
<1>2. \A j \in 1..L : stack[j].id \in (TaskId \ {<<>>}) \cup MadeUp
  <2> HIDE DEF stack, L
  <2> SUFFICES ASSUME NEW j \in 1..L PROVE stack[j].id \in (TaskId \ {<<>>}) \cup MadeUp
    OBVIOUS
  <2>1. stack[j] \in StackEntry
    BY <1>1
  <2> QED BY <2>1 DEF StackEntry
<1>3. c \in TaskCall /\ c.id \in TaskId
  BY DEF AreCalls, TaskCall
<1>4. stack # <<>>
  BY <1>1
<1>5. \A j \in 1..L : f[j].n \in Nat /\ (f[j] = c => j = i)
  <2>1. \A j \in 1..L : f[j].n \in Nat
    BY <1>1 DEF AreCalls, TaskCall
  <2> SUFFICES ASSUME NEW j \in 1..L, f[j] = c PROVE j = i
    BY <2>1
  <2>2. ~(f[i].n < f[j].n) /\ ~(f[j].n < f[i].n)
    BY <1>1, <2>1
  <2>3. ~(i < j) /\ ~(j < i)
    BY <1>1, <2>2 DEF StandsBy
  <2> QED BY <1>1, <2>3
<1>6. EntryOf(stack[i], c)
  BY <1>1 DEF StandsBy
<1>7. \/ Result(tr, e).stack = Pop(stack, e.id)
      \/ Pop(stack, e.id) = stack /\ Result(tr, e).stack = Pop(stack, <<>>)
  BY ResultOK
<1>8. CASE c.id # <<>>
  <2>1. e.id \in {c.id, Append(c.id, "result")}
    BY <1>8 DEF AnswerIds
  <2>2. i \in at
    BY <1>1, <1>3, <1>6, <1>8, <2>1, MatchesOwn DEF EntryOf
  <2>3. at = {i}
    <3> SUFFICES ASSUME NEW j \in at PROVE j = i
      BY <2>2
    <3>1. j \in 1..L /\ RoughlyMatch(stack[j].id, e.id)
      BY <1>1
    <3>2. stack[j].id = c.id
      BY <1>2, <1>3, <1>8, <2>1, <3>1, MatchesOnlyOwn
    <3>3. EntryOf(stack[j], f[j]) /\ f[j] \in calling
      BY <1>1, <3>1 DEF StandsBy
    <3>4. c.id \notin MadeUp
      <4>1. c.id \in Seq(Word) /\ "__task_" \notin Word
        BY <1>3, TaskIdAssumption DEF TaskIdAssumption
      <4>2. c.id[1] \in Word
        BY <1>8, <4>1
      <4> QED BY <4>1, <4>2 DEF MadeUp, Synthetic
    <3>5. f[j].id = c.id
      BY <3>2, <3>3, <3>4 DEF EntryOf
    <3>6. f[j] = c
      BY <1>8, <3>3, <3>5 DEF AreCalls
    <3> QED BY <1>5, <3>1, <3>6
  <2>4. top = i
    <3>1. i <= i
      BY <1>1
    <3> HIDE DEF at
    <3> QED BY <2>3, <3>1
  <2>5. e.id # <<>>
    <3>1. c.id \in Seq(Word)
      BY <1>3, TaskIdAssumption DEF TaskIdAssumption
    <3>2. Len(e.id) \in {Len(c.id), Len(c.id) + 1} /\ Len(c.id) \in Nat \ {0}
      BY <1>8, <2>1, <3>1, Suffixed
    <3> QED BY <3>2
  <2>6. Pop(stack, e.id) = SubSeq(stack, 1, i - 1)
    <3>1. Pop(stack, e.id) = SubSeq(stack, 1, top - 1)
      BY <1>4, <2>3, <2>5 DEF Pop
    <3> QED BY <2>4, <3>1
  <2>7. Pop(stack, e.id) # stack
    <3>1. Len(SubSeq(stack, 1, i - 1)) = i - 1
      BY <1>1
    <3> QED BY <1>1, <2>6, <3>1
  <2>8. Result(tr, e).stack = SubSeq(stack, 1, i - 1) /\ i - 1 \in 0..(i - 1)
    BY <1>1, <1>7, <2>6, <2>7
  <2> QED BY <2>8
<1>9. CASE c.id = <<>>
  <2>1. i = L
    <3>1. L \in 1..L /\ f[L] \in calling /\ f[L].n <= c.n
      BY <1>1, <1>9 DEF NewestAmong
    <3>2. ~(i < L)
      BY <1>1, <1>5, <3>1 DEF StandsBy
    <3> QED BY <1>1, <3>2
  <2>2. IsSynthetic(Last(stack).id)
    <3>1. PICK n \in Nat : stack[i].id = <<"__task_", n>>
      BY <1>6, <1>9 DEF EntryOf, MadeUp, Synthetic
    <3>2. Last(stack) = stack[i]
      BY <2>1 DEF Last
    <3> QED BY <3>1, <3>2 DEF IsSynthetic
  <2>3. Pop(stack, <<>>) = SubSeq(stack, 1, i - 1)
    BY <1>4, <2>1, <2>2 DEF Pop, Front
  <2>4. SubSeq(stack, 1, i - 1) # stack
    <3>1. Len(SubSeq(stack, 1, i - 1)) = i - 1
      BY <1>1
    <3> QED BY <1>1, <2>1, <3>1
  <2>5. i - 1 \in 0..(i - 1)
    BY <1>1
  <2>6. CASE e.id = <<>>
    BY <1>7, <2>3, <2>4, <2>5, <2>6
  <2>7. CASE e.id = TaskLike
    <3>1. TaskLike # <<>> /\ LooksLikeTask(TaskLike)
      BY DEF LooksLikeTask, TaskLike
    <3>2. CASE at = {}
      <4>1. Pop(stack, e.id) = stack
        BY <1>4, <2>7, <3>1, <3>2 DEF Pop
      <4>2. (IF e.id \in DOMAIN tr.names THEN tr.names[e.id] ELSE "none") \in {"none", "Task"}
        BY <1>1, <2>7 DEF NamesOK
      <4>3. Result(tr, e) = [tr EXCEPT !.stack = Pop(stack, <<>>)]
        BY <1>4, <2>2, <2>7, <3>1, <4>1, <4>2 DEF Result
      <4>4. Result(tr, e).stack = Pop(stack, <<>>)
        BY <4>3 DEF TranscriptOK
      <4> QED BY <2>3, <2>5, <4>4
    <3>3. CASE at # {}
      <4>1. Pop(stack, e.id) = SubSeq(stack, 1, top - 1)
        BY <1>4, <2>7, <3>1, <3>3 DEF Pop
      <4>2. top \in 1..L
        <5>1. at \in SUBSET (1..L)
          BY <1>1
        <5>2. \E j \in at : \A k \in at : k <= j
          <6> HIDE DEF at, L
          <6> QED BY <1>1, <3>3, <5>1, Largest
        <5> HIDE DEF at
        <5>3. top \in at
          BY <5>2
        <5> QED BY <5>1, <5>3
      <4> HIDE DEF top
      <4>3. top - 1 \in 0..(i - 1)
        BY <1>1, <2>1, <4>2
      <4>4. Pop(stack, e.id) # stack
        <5>1. Len(SubSeq(stack, 1, top - 1)) = top - 1
          BY <1>1, <4>2
        <5> QED BY <1>1, <4>1, <4>2, <5>1
      <4> QED BY <1>7, <4>1, <4>3, <4>4
    <3> QED BY <3>2, <3>3
  <2> QED BY <1>9, <2>6, <2>7 DEF AnswerIds
<1> QED BY <1>8, <1>9

\* Once a call is answered, the stack stands by the others.
LEMMA AnswerStands ==
  ASSUME NEW tr, TranscriptOK(tr), NamesOK(tr), NEW W, NEW c, c \notin W,
         AreCalls(W \cup {c}), Stands(tr.stack, W \cup {c}),
         c.id = <<>> => NewestAmong(c, W), NEW e, e.id \in AnswerIds(c)
  PROVE  Stands(Result(tr, e).stack, W)
<1> DEFINE calling == W \cup {c}
           stack == tr.stack
           new == Result(tr, e).stack
<1>1. /\ c \in calling /\ calling \ {c} = W /\ AreCalls(calling) /\ Stands(stack, calling)
      /\ \A d \in calling : d.n \in Nat
  BY DEF AreCalls, TaskCall
<1>2. c.id = <<>> => NewestAmong(c, calling)
  BY <1>1 DEF NewestAmong
<1>3. stack \in Seq(StackEntry) /\ Cut(stack, new)
  BY ResultOK DEF TranscriptOK
<1> SUFFICES Stands(new, W)
  OBVIOUS
<1> HIDE DEF calling, new
<1>4. PICK f \in [DOMAIN stack -> calling] : StandsBy(stack, f)
  BY <1>1 DEF Stands
<1>5. CASE \A i \in DOMAIN stack : f[i] # c
  <2>1. Stands(stack, calling \ {c})
    BY <1>4, <1>5, StandsWithout
  <2> QED BY <1>1, <1>3, <2>1, StandsCut
<1>6. CASE \E i \in DOMAIN stack : f[i] = c
  <2>1. PICK i \in DOMAIN stack : f[i] = c
    BY <1>6
  <2>2. PICK m \in 0..(i - 1) : new = SubSeq(stack, 1, m)
    BY <1>1, <1>2, <1>4, <2>1, AnswerCuts DEF new
  <2>3. /\ DOMAIN new = 1..m /\ 1..m \subseteq DOMAIN stack
        /\ \A j \in 1..m : new[j] = stack[j] /\ j < i
    BY <1>3, <2>2
  <2> DEFINE g == [j \in 1..m |-> f[j]]
  <2>4. g \in [DOMAIN new -> calling] /\ \A j \in 1..m : g[j] = f[j]
    BY <1>4, <2>3
  <2> HIDE DEF g
  <2>5. StandsBy(new, g)
    BY <1>4, <2>3, <2>4 DEF StandsBy
  <2>6. \A j \in DOMAIN new : g[j] # c
    <3> SUFFICES ASSUME NEW j \in 1..m, f[j] = c PROVE FALSE
      BY <2>3, <2>4
    <3>1. f[j].n < f[i].n
      BY <1>4, <2>1, <2>3 DEF StandsBy
    <3> QED BY <1>1, <2>1, <3>1
  <2>7. Stands(new, calling \ {c})
    BY <2>4, <2>5, <2>6, StandsWithout
  <2> QED BY <1>1, <2>7
<1> QED BY <1>5, <1>6
-----------------------------------------------------------------------------
(* The invariant.                                                           *)

TypesOK ==
  /\ TranscriptOK(t) /\ NamesOK(t) /\ queue \in Seq(ParsedEvent)
  /\ AreCalls(waiting) /\ calls \in Nat /\ \A c \in waiting : c.n < calls

\* An event that opens no subagent.
Quiet(e) == ~(e.type = "tool_use" /\ e.name = "Task")

\* Nothing is on its way that concerns a Task, ...
NothingPending(stack, q, W) == Stands(stack, W) /\ \A i \in DOMAIN q : Quiet(q[i])

\* ... or the newest call is, ...
CallPending(stack, q, W, c) ==
  /\ c \in W /\ NewestAmong(c, W) /\ Stands(stack, W \ {c})
  /\ \E i \in Index \cup {-1} : q = <<Tool(i, c.id, "Task")>>

\* ... or the answer to a call that no longer waits.
AnswerPending(stack, q, W, c) ==
  /\ c \notin W /\ AreCalls(W \cup {c}) /\ Stands(stack, W \cup {c})
  /\ c.id = <<>> => NewestAmong(c, W)
  /\ \E id \in AnswerIds(c) : q = <<Answer(id)>>

Settled(stack, q, W) ==
  \/ NothingPending(stack, q, W)
  \/ \E c \in TaskCall : CallPending(stack, q, W, c) \/ AnswerPending(stack, q, W, c)

TInv ==
  /\ TypesOK
  /\ phase # "over" => Settled(t.stack, queue, waiting)
  /\ EndIsShown

\* What the last update shows.
LEMMA EndingShows ==
  ASSUME NEW tr, TranscriptOK(tr), t' = tr,
         NEW st \in {"complete", "error", "stopped", "cancelled", "failed", "limit"},
         Ending(tr, st)
  PROVE  /\ shown' = Render(tr, shown'.status) /\ shown'.status = st
         /\ Visible(tr) # <<>> => shown'.parts # <<>> /\ Last(shown'.parts) = Last(Visible(tr))
         /\ Length(shown') <= Limit
<1>1. tr.segs \in Seq(Segment) /\ st # "none"
  BY DEF TranscriptOK
<1>2. ShowsEnd(Render(tr, st), tr, st)
  BY <1>1, RenderShowsEnd
<1>3. shown' = IF Length(Render(tr, st)) = 0 THEN shown ELSE Render(tr, st)
  BY DEF Ending, Update
<1>4. shown' = Render(tr, st)
  <2>1. Length(Render(tr, st)) # 0
    BY <1>2 DEF ShowsEnd
  <2> QED BY <1>3, <2>1
<1> QED BY <1>2, <1>4 DEF ShowsEnd

LEMMA Over ==
  ASSUME NEW st \in {"complete", "stopped", "cancelled", "failed", "limit"},
         TranscriptOK(t'), Ending(t', st)
  PROVE  EndIsShown'
<1> DEFINE tr == t'
<1>1. TranscriptOK(tr) /\ Ending(tr, st) /\ t' = tr
  OBVIOUS
<1> HIDE DEF tr
<1>2. /\ shown' = Render(tr, shown'.status) /\ shown'.status = st
      /\ Visible(tr) # <<>> => shown'.parts # <<>> /\ Last(shown'.parts) = Last(Visible(tr))
      /\ Length(shown') <= Limit
  BY <1>1, EndingShows
<1> QED BY <1>1, <1>2 DEF EndIsShown

\* The events that the parser makes.
LEMMA EventsOK ==
  /\ \A kind \in TextKind, n \in Piece :
       /\ \A i \in Index : /\ Text("start", kind, i, 0) \in ParsedEvent
                          /\ Text("text", kind, i, n) \in ParsedEvent
       /\ Text("text", kind, -1, n) \in ParsedEvent
  /\ \A i \in Index : Text("stop", "none", i, 0) \in ParsedEvent
  /\ \A i \in Index \cup {-1} :
       /\ \A id \in ToolId : Tool(i, id, "tool") \in ParsedEvent
       /\ \A id \in TaskId : Tool(i, id, "Task") \in ParsedEvent
  /\ \A id \in Seq(Word) : Answer(id) \in ParsedEvent
  /\ \A type \in {"error", "complete", "tool_delta"} : Plain(type) \in ParsedEvent
  /\ Text("text", "text", -1, 5) \in ParsedEvent
<1>1. <<>> \in Seq(Word) /\ TaskId \cup ToolId \subseteq Seq(Word) /\ Piece \subseteq Nat \ {0}
  BY TaskIdAssumption, LimitAssumption DEF TaskIdAssumption, LimitAssumption
<1>2. \A kind \in TextKind, n \in Piece :
       /\ \A i \in Index : /\ Text("start", kind, i, 0) \in ParsedEvent
                          /\ Text("text", kind, i, n) \in ParsedEvent
       /\ Text("text", kind, -1, n) \in ParsedEvent
  <2>1. ASSUME NEW kind \in TextKind, NEW i \in Index PROVE Text("start", kind, i, 0) \in ParsedEvent
    BY <1>1 DEF Text, Parsed, ParsedEvent, EventOK, TextKind
  <2>2. ASSUME NEW kind \in TextKind, NEW i \in Index \cup {-1}, NEW n \in Piece
        PROVE  Text("text", kind, i, n) \in ParsedEvent
    <3>1. n \in Nat /\ n # 0
      BY <1>1
    <3> QED BY <1>1, <3>1 DEF Text, Parsed, ParsedEvent, EventOK, TextKind
  <2> QED BY <2>1, <2>2
<1>3. \A i \in Index : Text("stop", "none", i, 0) \in ParsedEvent
  BY <1>1 DEF Text, Parsed, ParsedEvent, EventOK, TextKind
<1>4. \A i \in Index \cup {-1} :
       /\ \A id \in ToolId : Tool(i, id, "tool") \in ParsedEvent
       /\ \A id \in TaskId : Tool(i, id, "Task") \in ParsedEvent
  <2>1. ASSUME NEW i \in Index \cup {-1}, NEW id \in ToolId PROVE Tool(i, id, "tool") \in ParsedEvent
    <3>1. id \in Seq(Word)
      BY <1>1
    <3>2. EventOK(Tool(i, id, "tool"))
      BY DEF Tool, Parsed, EventOK
    <3> QED BY <3>1, <3>2 DEF Tool, Parsed, ParsedEvent
  <2>2. ASSUME NEW i \in Index \cup {-1}, NEW id \in TaskId PROVE Tool(i, id, "Task") \in ParsedEvent
    <3>1. id \in Seq(Word)
      BY <1>1
    <3> QED BY <3>1 DEF Tool, Parsed, ParsedEvent, EventOK
  <2> QED BY <2>1, <2>2
<1>5. \A id \in Seq(Word) : Answer(id) \in ParsedEvent
  BY DEF Answer, Parsed, ParsedEvent, EventOK
<1>6. \A type \in {"error", "complete", "tool_delta"} : Plain(type) \in ParsedEvent
  BY <1>1 DEF Plain, Text, Parsed, ParsedEvent, EventOK
<1>7. Text("text", "text", -1, 5) \in ParsedEvent
  BY <1>1 DEF Text, Parsed, ParsedEvent, EventOK, TextKind
<1> QED BY <1>2, <1>3, <1>4, <1>5, <1>6, <1>7

\* A message or a streamed block gives its content, and what is not for the
\* reader nothing.
LEMMA ParseContent ==
  ASSUME NEW content
  PROVE  /\ Parse(Ev("message", content)) = content
         /\ Parse(Ev("stream", content)) = content
         /\ Parse(Ev("system", content)) = <<>>
BY DEF Parse, Ev
-----------------------------------------------------------------------------
(* The steps.                                                               *)

LEMMA ProcessOK == ASSUME TInv, Process PROVE TInv'
<1> DEFINE e == Head(queue)
           tr == Apply(t, e)
           W == waiting
<1>1. /\ phase # "over" /\ queue # <<>> /\ queue' = Tail(queue)
      /\ waiting' = waiting /\ calls' = calls
  BY DEF Process
<1>2. e \in ParsedEvent /\ queue' \in Seq(ParsedEvent)
  BY <1>1 DEF TInv, TypesOK
<1>3. TranscriptOK(t) /\ NamesOK(t) /\ t.stack \in Seq(StackEntry) /\ Settled(t.stack, queue, W)
  BY <1>1 DEF TInv, TypesOK, TranscriptOK
<1>4. TranscriptOK(tr) /\ NamesOK(tr)
  BY <1>2, <1>3, ApplyOK
<1>5. CASE e.type = "complete"
  <2> DEFINE placed == Apply(t, Text("text", "text", -1, 5))
  <2>1. t' \in {t, placed} /\ phase' = "over"
    BY <1>5 DEF Process
  <2>2. TranscriptOK(placed) /\ NamesOK(placed)
    BY <1>3, ApplyOK, EventsOK
  <2>3. TranscriptOK(t') /\ NamesOK(t')
    BY <1>3, <2>1, <2>2
  <2>4. Ending(t', "complete")
    BY <1>5 DEF Process, StatusFor
  <2>5. EndIsShown'
    BY <2>3, <2>4, Over
  <2> HIDE DEF placed
  <2> QED BY <1>1, <1>2, <2>1, <2>3, <2>5 DEF TInv, TypesOK
<1>6. CASE e.type # "complete"
  <2>1. t' = tr /\ phase' = phase
    BY <1>6 DEF Process
  <2> HIDE DEF tr
  <2>2. TypesOK'
    BY <1>1, <1>2, <1>4, <2>1 DEF TInv, TypesOK
  <2>3. EndIsShown'
    BY <1>1, <2>1 DEF EndIsShown
  <2>4. Settled(tr.stack, Tail(queue), W)
    <3>1. CASE NothingPending(t.stack, queue, W)
      <4>1. \A i \in DOMAIN Tail(queue) : Quiet(Tail(queue)[i])
        <5>1. queue \in Seq(ParsedEvent) /\ queue # <<>>
          BY <1>1 DEF TInv, TypesOK
        <5>2. ASSUME NEW i \in DOMAIN Tail(queue) PROVE Tail(queue)[i] = queue[i + 1] /\ i + 1 \in DOMAIN queue
          BY <5>1
        <5> QED BY <3>1, <5>2 DEF NothingPending
      <4>2. Quiet(e)
        <5>1. 1 \in DOMAIN queue /\ e = queue[1]
          BY <1>1 DEF TInv, TypesOK
        <5> QED BY <3>1, <5>1 DEF NothingPending
      <4>3. Cut(t.stack, tr.stack)
        <5>1. CASE e.type = "tool_result"
          <6>1. tr.stack = Result(t, e).stack
            BY <1>2, <1>3, <5>1, ApplyOK DEF tr
          <6>2. Cut(t.stack, Result(t, e).stack)
            BY <1>3, ResultOK
          <6> QED BY <6>1, <6>2
        <5>2. CASE e.type # "tool_result"
          <6>1. tr.stack = t.stack
            BY <1>2, <1>3, <4>2, <5>2, ApplyOK DEF tr, Quiet
          <6>2. Len(t.stack) \in 0..Len(t.stack) /\ t.stack = SubSeq(t.stack, 1, Len(t.stack))
            BY <1>3
          <6> QED BY <6>1, <6>2 DEF Cut
        <5> QED BY <5>1, <5>2
      <4>4. Stands(tr.stack, W)
        BY <1>3, <3>1, <4>3, StandsCut DEF NothingPending
      <4> QED BY <4>1, <4>4 DEF Settled, NothingPending
    <3>2. ASSUME NEW c \in TaskCall, CallPending(t.stack, queue, W, c)
          PROVE  Settled(tr.stack, Tail(queue), W)
      <4>1. PICK i \in Index \cup {-1} : queue = <<Tool(i, c.id, "Task")>>
        BY <3>2 DEF CallPending
      <4>2. e.type = "tool_use" /\ e.name = "Task" /\ e.id = c.id /\ Tail(queue) = <<>>
        BY <4>1 DEF Tool, Parsed
      <4> DEFINE x == [id |-> EntryId(t.stack, e.id), seg |-> Len(t.segs) + 1]
      <4>3. tr.stack = Append(t.stack, x)
        BY <1>2, <1>3, <4>2, ApplyOK DEF tr
      <4>4. x.id = EntryId(t.stack, c.id)
        BY <4>2
      <4> HIDE DEF x, e
      <4>5. Stands(tr.stack, W)
        BY <1>3, <3>2, <4>3, <4>4, StandsPush DEF CallPending, TInv, TypesOK
      <4> QED BY <4>2, <4>5 DEF Settled, NothingPending
    <3>3. ASSUME NEW c \in TaskCall, AnswerPending(t.stack, queue, W, c)
          PROVE  Settled(tr.stack, Tail(queue), W)
      <4>1. PICK id \in AnswerIds(c) : queue = <<Answer(id)>>
        BY <3>3 DEF AnswerPending
      <4>2. e.type = "tool_result" /\ e.id = id /\ Tail(queue) = <<>>
        BY <4>1 DEF Answer, Parsed
      <4>3. tr.stack = Result(t, e).stack
        BY <1>2, <1>3, <4>2, ApplyOK DEF tr
      <4> HIDE DEF e
      <4>4. Stands(tr.stack, W)
        BY <1>3, <3>3, <4>2, <4>3, AnswerStands DEF AnswerPending
      <4> QED BY <4>2, <4>4 DEF Settled, NothingPending
    <3> QED BY <1>3, <3>1, <3>2, <3>3 DEF Settled
  <2> QED BY <1>1, <2>1, <2>2, <2>3, <2>4 DEF TInv
<1> QED BY <1>5, <1>6

\* The error that a reply ends with.
LEMMA ErrorPlaced ==
  ASSUME TInv
  PROVE  TranscriptOK(Apply(t, Plain("error"))) /\ NamesOK(Apply(t, Plain("error")))
BY ApplyOK, EventsOK DEF TInv, TypesOK

LEMMA CancelOK == ASSUME TInv, Cancel PROVE TInv'
<1> DEFINE tr == Apply(t, Plain("error"))
<1>1. phase' = "over" /\ UNCHANGED <<queue, waiting, calls>>
  BY DEF Cancel
<1>2. TranscriptOK(tr) /\ NamesOK(tr) /\ TranscriptOK(t) /\ NamesOK(t)
  BY ErrorPlaced DEF TInv, TypesOK
<1>3. (t' = t \/ t' = tr) /\ (Ending(t', "stopped") \/ Ending(t', "cancelled"))
  BY DEF Cancel
<1> HIDE DEF tr
<1>4. TranscriptOK(t') /\ NamesOK(t')
  BY <1>2, <1>3
<1>5. EndIsShown'
  BY <1>3, <1>4, Over
<1> QED BY <1>1, <1>4, <1>5 DEF TInv, TypesOK

LEMMA RaiseOK == ASSUME TInv, Raise PROVE TInv'
<1> DEFINE tr == Apply(t, Plain("error"))
<1>1. phase' = "over" /\ t' = tr /\ UNCHANGED <<queue, waiting, calls>>
  BY DEF Raise
<1>2. Ending(t', "limit") \/ Ending(t', "failed")
  BY DEF Raise
<1>3. TranscriptOK(t') /\ NamesOK(t')
  BY <1>1, ErrorPlaced
<1>4. EndIsShown'
  BY <1>2, <1>3, Over
<1> QED BY <1>1, <1>3, <1>4 DEF TInv, TypesOK

\* Between two events of the CLI nothing is on its way.
LEMMA Idle ==
  ASSUME TInv, NEW e, Emit(e)
  PROVE  /\ NothingPending(t.stack, queue, waiting)
         /\ phase = "running" /\ queue' = Parse(e) /\ t' = t /\ EndIsShown'
<1>1. phase = "running" /\ queue = <<>> /\ queue' = Parse(e) /\ t' = t /\ phase' = phase
  BY DEF Emit
<1>2. Settled(t.stack, queue, waiting)
  BY <1>1 DEF TInv
<1>3. \A c \in TaskCall : ~CallPending(t.stack, queue, waiting, c) /\ ~AnswerPending(t.stack, queue, waiting, c)
  BY <1>1 DEF CallPending, AnswerPending
<1> QED BY <1>1, <1>2, <1>3 DEF Settled, EndIsShown

\* An event that has nothing to do with a Task.
LEMMA SpeakOK == ASSUME TInv, Speak \/ UseOther PROVE TInv'
<1> DEFINE Other(s) == s \in Seq(ParsedEvent) /\ \A i \in DOMAIN s : Quiet(s[i])
<1>1. waiting' = waiting /\ calls' = calls
  BY DEF Speak, UseOther
<1>2. ASSUME NEW s, Other(s),
             \/ Emit(Ev("stream", s))
             \/ Emit(Ev("message", s))
             \/ s = <<>> /\ Emit(Ev("system", s))
      PROVE  \E e : Emit(e) /\ Other(Parse(e))
  <2> HIDE DEF Other
  <2> QED BY <1>2, ParseContent
<1>3. \E e : Emit(e) /\ Other(Parse(e))
  <2>1. CASE Speak
    <3>1. PICK kind \in TextKind, size \in Piece :
            \/ \E i \in Index :
                 \/ Emit(Ev("stream", <<Text("start", kind, i, 0)>>))
                 \/ Emit(Ev("stream", <<Text("text", kind, i, size)>>))
                 \/ Emit(Ev("stream", <<Text("stop", "none", i, 0)>>))
            \/ Emit(Ev("message", <<Text("text", kind, -1, size)>>))
            \/ Emit(Ev("stream", <<Plain("error")>>))
            \/ Emit(Ev("system", <<>>))
      BY <2>1 DEF Speak, TextKind
    <3>2. ASSUME NEW x \in ParsedEvent, x.type # "tool_use" PROVE Other(<<x>>)
      BY <3>2 DEF Quiet
    <3>3. Other(<<>>)
      OBVIOUS
    <3> HIDE DEF Other
    <3>4. ASSUME NEW i \in Index
          PROVE  /\ Other(<<Text("start", kind, i, 0)>>) /\ Other(<<Text("text", kind, i, size)>>)
                 /\ Other(<<Text("stop", "none", i, 0)>>)
      BY <3>2, EventsOK DEF Text, Parsed
    <3>5. Other(<<Text("text", kind, -1, size)>>) /\ Other(<<Plain("error")>>)
      BY <3>2, EventsOK DEF Plain, Text, Parsed
    <3>6. CASE \E i \in Index :
                 \/ Emit(Ev("stream", <<Text("start", kind, i, 0)>>))
                 \/ Emit(Ev("stream", <<Text("text", kind, i, size)>>))
                 \/ Emit(Ev("stream", <<Text("stop", "none", i, 0)>>))
      <4>1. PICK i \in Index :
                 \/ Emit(Ev("stream", <<Text("start", kind, i, 0)>>))
                 \/ Emit(Ev("stream", <<Text("text", kind, i, size)>>))
                 \/ Emit(Ev("stream", <<Text("stop", "none", i, 0)>>))
        BY <3>6
      <4>2. CASE Emit(Ev("stream", <<Text("start", kind, i, 0)>>))
        BY <1>2, <3>4, <4>2
      <4>3. CASE Emit(Ev("stream", <<Text("text", kind, i, size)>>))
        BY <1>2, <3>4, <4>3
      <4>4. CASE Emit(Ev("stream", <<Text("stop", "none", i, 0)>>))
        BY <1>2, <3>4, <4>4
      <4> QED BY <4>1, <4>2, <4>3, <4>4
    <3>7. CASE Emit(Ev("message", <<Text("text", kind, -1, size)>>))
      BY <1>2, <3>5, <3>7
    <3>8. CASE Emit(Ev("stream", <<Plain("error")>>))
      BY <1>2, <3>5, <3>8
    <3>9. CASE Emit(Ev("system", <<>>))
      BY <1>2, <3>3, <3>9
    <3> QED BY <3>1, <3>6, <3>7, <3>8, <3>9
  <2>2. CASE UseOther
    <3>1. PICK id \in ToolId, i \in Index \cup {-1} :
            \/ Emit(Ev("stream", <<Tool(i, id, "tool")>>))
            \/ Emit(Ev("message", <<Answer(id), Tool(-1, id, "tool")>>))
            \/ Emit(Ev("stream", <<Plain("tool_delta")>>))
      BY <2>2 DEF UseOther
    <3>2. id \in Seq(Word)
      BY TaskIdAssumption DEF TaskIdAssumption
    <3>3. /\ Tool(i, id, "tool") \in ParsedEvent /\ Tool(-1, id, "tool") \in ParsedEvent
          /\ Answer(id) \in ParsedEvent /\ Plain("tool_delta") \in ParsedEvent
      BY <3>2, EventsOK
    <3>4. Quiet(Tool(i, id, "tool")) /\ Quiet(Tool(-1, id, "tool"))
      BY DEF Quiet, Tool, Parsed
    <3>5. Quiet(Answer(id)) /\ Quiet(Plain("tool_delta"))
      BY DEF Quiet, Answer, Plain, Text, Parsed
    <3>6. ASSUME NEW x \in ParsedEvent, Quiet(x) PROVE Other(<<x>>)
      BY <3>6
    <3>7. ASSUME NEW x \in ParsedEvent, Quiet(x), NEW y \in ParsedEvent, Quiet(y) PROVE Other(<<x, y>>)
      BY <3>7
    <3> HIDE DEF Other
    <3>8. CASE Emit(Ev("stream", <<Tool(i, id, "tool")>>))
      BY <1>2, <3>3, <3>4, <3>6, <3>8
    <3>9. CASE Emit(Ev("message", <<Answer(id), Tool(-1, id, "tool")>>))
      BY <1>2, <3>3, <3>4, <3>5, <3>7, <3>9
    <3>10. CASE Emit(Ev("stream", <<Plain("tool_delta")>>))
      BY <1>2, <3>3, <3>5, <3>6, <3>10
    <3> QED BY <3>1, <3>8, <3>9, <3>10
  <2> QED BY <2>1, <2>2
<1>4. PICK e : Emit(e) /\ Other(Parse(e))
  BY <1>3
<1>5. /\ NothingPending(t.stack, queue, waiting)
      /\ queue' = Parse(e) /\ t' = t /\ EndIsShown'
  BY <1>4, Idle
<1>6. Settled(t'.stack, queue', waiting')
  BY <1>1, <1>4, <1>5 DEF Settled, NothingPending
<1> QED BY <1>1, <1>4, <1>5, <1>6 DEF TInv, TypesOK

LEMMA CallTaskOK == ASSUME TInv, CallTask PROVE TInv'
<1>1. PICK id \in TaskId, i \in Index \cup {-1} :
        /\ ~\E c \in waiting : c.id = id /\ id # <<>>
        /\ Emit(Ev("message", <<Tool(i, id, "Task")>>))
        /\ calls' = calls + 1 /\ waiting' = waiting \cup {[id |-> id, n |-> calls]}
  BY DEF CallTask
<1> DEFINE c == [id |-> id, n |-> calls]
<1>2. /\ TranscriptOK(t) /\ NamesOK(t) /\ calls \in Nat /\ AreCalls(waiting)
      /\ \A d \in waiting : d.n < calls
  BY DEF TInv, TypesOK
<1>3. /\ NothingPending(t.stack, queue, waiting)
      /\ queue' = <<Tool(i, id, "Task")>> /\ t' = t /\ EndIsShown'
  BY <1>1, Idle, ParseContent
<1>4. c \in TaskCall /\ c.id = id /\ c.n = calls
  BY <1>2 DEF TaskCall
<1>5. waiting' = waiting \cup {c}
  BY <1>1
<1> HIDE DEF c
<1>6. \A d \in waiting : d \in TaskCall /\ d.n \in Nat /\ d.n < c.n /\ d # c
  BY <1>2, <1>4 DEF AreCalls, TaskCall
<1>7. AreCalls(waiting') /\ calls' \in Nat /\ \A d \in waiting' : d.n < calls'
  <2>1. \A d \in waiting' : d \in TaskCall /\ d.n < calls'
    BY <1>1, <1>2, <1>4, <1>5, <1>6
  <2>2. ASSUME NEW d \in waiting', NEW k \in waiting', d.n = k.n PROVE d = k
    BY <1>2, <1>5, <1>6, <2>2 DEF AreCalls
  <2>3. ASSUME NEW d \in waiting', NEW k \in waiting', d.id = k.id, d.id # <<>> PROVE d = k
    BY <1>1, <1>2, <1>4, <1>5, <2>3 DEF AreCalls
  <2> QED BY <1>1, <1>2, <2>1, <2>2, <2>3 DEF AreCalls
<1>8. Settled(t'.stack, queue', waiting')
  <2>1. waiting' \ {c} = waiting /\ c \in waiting'
    BY <1>5, <1>6
  <2>2. NewestAmong(c, waiting')
    BY <1>2, <1>4, <1>5, <1>6 DEF NewestAmong
  <2>3. CallPending(t'.stack, queue', waiting', c)
    BY <1>3, <1>4, <2>1, <2>2 DEF CallPending, NothingPending
  <2> QED BY <1>4, <2>3 DEF Settled
<1>9. queue' \in Seq(ParsedEvent)
  BY <1>3, EventsOK
<1> QED BY <1>2, <1>3, <1>7, <1>8, <1>9 DEF TInv, TypesOK

LEMMA AnswerTaskOK == ASSUME TInv, AnswerTask PROVE TInv'
<1>1. PICK c \in waiting :
        /\ c.id = <<>> => \A d \in waiting : d.n <= c.n
        /\ \E id \in AnswerIds(c) : Emit(Ev("message", <<Answer(id)>>))
        /\ waiting' = waiting \ {c} /\ calls' = calls
  BY DEF AnswerTask, AnswerIds
<1>2. PICK id \in AnswerIds(c) : Emit(Ev("message", <<Answer(id)>>))
  BY <1>1
<1>3. /\ TranscriptOK(t) /\ NamesOK(t) /\ calls \in Nat /\ AreCalls(waiting)
      /\ \A d \in waiting : d.n < calls
  BY DEF TInv, TypesOK
<1>4. /\ NothingPending(t.stack, queue, waiting)
      /\ queue' = <<Answer(id)>> /\ t' = t /\ EndIsShown'
  BY <1>2, Idle, ParseContent
<1>5. c \in TaskCall /\ c.id \in Seq(Word) /\ "result" \in Word /\ TaskLike \in Seq(Word)
  BY <1>3, TaskIdAssumption DEF AreCalls, TaskCall, TaskIdAssumption, TaskLike
<1>6. id \in Seq(Word)
  <2>1. Append(c.id, "result") \in Seq(Word) /\ <<>> \in Seq(Word)
    BY <1>5
  <2> QED BY <1>5, <2>1 DEF AnswerIds
<1>7. queue' \in Seq(ParsedEvent)
  BY <1>4, <1>6, EventsOK
<1>8. AreCalls(waiting') /\ \A d \in waiting' : d.n < calls'
  BY <1>1, <1>3 DEF AreCalls
<1>9. Settled(t'.stack, queue', waiting')
  <2>1. waiting' \cup {c} = waiting /\ c \notin waiting'
    BY <1>1
  <2>2. c.id = <<>> => NewestAmong(c, waiting')
    BY <1>1 DEF NewestAmong
  <2>3. AnswerPending(t'.stack, queue', waiting', c)
    BY <1>3, <1>4, <2>1, <2>2 DEF AnswerPending, NothingPending
  <2> QED BY <1>5, <2>3 DEF Settled
<1> QED BY <1>1, <1>3, <1>4, <1>7, <1>8, <1>9 DEF TInv, TypesOK

LEMMA ExitOK == ASSUME TInv, Exit PROVE TInv'
<1>1. /\ phase = "running" /\ phase' = "exited" /\ queue = <<>>
      /\ UNCHANGED <<t, shown, waiting, calls>>
  BY DEF Exit
<1>2. queue' = <<Plain("complete")>> \/ queue' = <<Plain("error"), Plain("complete")>>
  <2>1. PICK code \in {0, 1} : queue' = Parse([Ev("exit", <<>>) EXCEPT !.code = code])
    BY DEF Exit
  <2> DEFINE e == [Ev("exit", <<>>) EXCEPT !.code = code]
  <2>2. e.type = "exit"
    BY DEF Ev
  <2> HIDE DEF e
  <2>3. queue' = Parse(e)
    BY <2>1 DEF e
  <2> QED BY <2>2, <2>3 DEF Parse
<1>3. \A type \in {"error", "complete"} : Plain(type) \in ParsedEvent /\ Quiet(Plain(type))
  BY EventsOK DEF Quiet, Plain, Text, Parsed
<1>4. Settled(t.stack, queue, waiting)
  BY <1>1 DEF TInv
<1>5. \A c \in TaskCall : ~CallPending(t.stack, queue, waiting, c) /\ ~AnswerPending(t.stack, queue, waiting, c)
  BY <1>1 DEF CallPending, AnswerPending
<1>6. queue' \in Seq(ParsedEvent) /\ \A i \in DOMAIN queue' : Quiet(queue'[i])
  <2> DEFINE x == Plain("error")
             y == Plain("complete")
  <2>1. x \in ParsedEvent /\ y \in ParsedEvent /\ Quiet(x) /\ Quiet(y)
    BY <1>3
  <2>2. queue' = <<y>> \/ queue' = <<x, y>>
    BY <1>2
  <2> HIDE DEF x, y
  <2>3. CASE queue' = <<y>>
    BY <2>1, <2>3
  <2>4. CASE queue' = <<x, y>>
    <3>1. \A i \in 1..2 : i = 1 \/ i = 2
      OBVIOUS
    <3>2. DOMAIN queue' = 1..2 /\ queue'[1] = x /\ queue'[2] = y
      BY <2>4
    <3>3. queue' \in Seq(ParsedEvent)
      BY <2>1, <2>4
    <3> QED BY <2>1, <3>1, <3>2, <3>3
  <2> QED BY <2>2, <2>3, <2>4
<1>7. Settled(t'.stack, queue', waiting')
  BY <1>1, <1>4, <1>5, <1>6 DEF Settled, NothingPending
<1>8. EndIsShown'
  BY <1>1 DEF EndIsShown
<1> QED BY <1>1, <1>6, <1>7, <1>8 DEF TInv, TypesOK
-----------------------------------------------------------------------------
(* The theorems.                                                            *)

\* Subagents on the transcript's stack always stand, in order, for Tasks that
\* wait for their results, up to the one event that is being processed
\* (TranscriptBuffer._subagent_push and _subagent_pop), and a reply that is over
\* shows its end.
THEOREM TInductive == Spec => []TInv
<1>1. Init => TInv
  <2> SUFFICES ASSUME Init PROVE TInv
    OBVIOUS
  <2>1. /\ t.segs = <<>> /\ t.stack = <<>>
        /\ t.open = [k \in {"tool", "thinking", "text"} |-> [i \in Index |-> 0]]
        /\ t.names = [id \in NamedId |-> "none"]
        /\ t \in [segs : {t.segs}, stack : {t.stack}, open : {t.open}, names : {t.names}]
    BY DEF Init, NamedId
  <2>2. t.open \in OpenBlocks /\ t.names \in [NamedId -> {"none", "Task", "tool"}]
    BY <2>1 DEF OpenBlocks
  <2>3. Pointers(t.segs, t.stack, t.open)
    BY <2>1 DEF Pointers
  <2>4. TranscriptOK(t)
    <3>1. t.segs \in Seq(Segment) /\ t.stack \in Seq(StackEntry)
      BY <2>1
    <3> QED BY <2>1, <2>2, <2>3, <3>1 DEF TranscriptOK
  <2>8. NamesOK(t)
    BY <2>1 DEF NamesOK
  <2>5. Stands(t.stack, waiting)
    <3>1. DOMAIN t.stack = {}
      BY <2>1
    <3> DEFINE f == [i \in {} |-> 0]
    <3>2. f \in [DOMAIN t.stack -> waiting]
      BY <3>1
    <3>3. StandsBy(t.stack, f)
      BY <3>1 DEF StandsBy
    <3> QED BY <3>2, <3>3 DEF Stands
  <2>6. TypesOK
    <3>1. <<>> \in Seq(ParsedEvent)
      OBVIOUS
    <3> QED BY <2>4, <2>8, <3>1 DEF Init, TypesOK, AreCalls
  <2>7. Settled(t.stack, queue, waiting) /\ EndIsShown
    BY <2>5 DEF Init, Settled, NothingPending, EndIsShown
  <2> QED BY <2>6, <2>7 DEF TInv
<1>2. ASSUME TInv, [Next]_vars PROVE TInv'
  <2>1. CASE Tick
    <3>1. UNCHANGED <<t, queue, phase, shown, waiting, calls>>
      BY <2>1 DEF Tick
    <3> QED BY <1>2, <3>1 DEF TInv, TypesOK, EndIsShown
  <2>2. CASE StoppedByCommand
    <3>1. shown' = Shown(<<>>, FALSE, 0, "stopped") /\ UNCHANGED <<t, queue, phase, waiting, calls>>
      BY <2>2 DEF StoppedByCommand
    <3> QED BY <1>2, <3>1 DEF TInv, TypesOK, EndIsShown
  <2>3. CASE UNCHANGED vars
    <3>1. UNCHANGED <<t, queue, phase, shown, waiting, calls>>
      BY <2>3 DEF vars
    <3> QED BY <1>2, <3>1 DEF TInv, TypesOK, EndIsShown
  <2> QED BY <1>2, <2>1, <2>2, <2>3, ProcessOK, CancelOK, RaiseOK, SpeakOK, CallTaskOK, AnswerTaskOK,
             ExitOK DEF Next
<1> QED BY <1>1, <1>2, PTL DEF Spec

\* However Tasks nest, overlap and are answered, with or without ids: once none
\* waits, no subagent is left on the stack, and the reply's own text is shown.
THEOREM NothingHidden == Spec => []NothingStaysHidden
<1>1. ASSUME TInv PROVE NothingStaysHidden
  <2> SUFFICES ASSUME waiting = {}, queue = <<>>, phase # "over" PROVE t.stack = <<>>
    BY DEF NothingStaysHidden
  <2>1. Settled(t.stack, queue, waiting) /\ t.stack \in Seq(StackEntry)
    BY <1>1 DEF TInv, TypesOK, TranscriptOK
  <2>2. \A c \in TaskCall : ~CallPending(t.stack, queue, waiting, c) /\ ~AnswerPending(t.stack, queue, waiting, c)
    BY DEF CallPending, AnswerPending
  <2>3. PICK f : f \in [DOMAIN t.stack -> waiting]
    BY <2>1, <2>2 DEF Settled, NothingPending, Stands
  <2>4. DOMAIN t.stack = {}
    BY <2>3
  <2>5. DOMAIN t.stack = 1..Len(t.stack) /\ Len(t.stack) \in Nat
    BY <2>1
  <2>6. Len(t.stack) = 0
    <3>1. 1 \notin 1..Len(t.stack)
      BY <2>4, <2>5
    <3> QED BY <2>5, <3>1
  <2> QED BY <2>1, <2>6
<1> QED BY <1>1, TInductive, PTL

\* However a reply ended, the message shows its newest segment within the limit
\* (ThrottledTranscriptEditor with force, TranscriptBuffer.render), or the
\* command's "Stopped.".
THEOREM EndShown == Spec => []EndIsShown
<1>1. TInv => EndIsShown
  BY DEF TInv
<1> QED BY <1>1, TInductive, PTL
=============================================================================
