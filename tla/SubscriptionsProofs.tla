------------------------ MODULE SubscriptionsProofs ------------------------
(***************************************************************************)
(* Proofs about Subscriptions, for every set of grants with any ranks and  *)
(* durations. Whether or not transactions overlap: types, that the loop is *)
(* never stuck, that better plans stay, that no time is given twice. When  *)
(* they do not: that plans do not overlap, that the best is in force, and  *)
(* that paid time is kept.                                                 *)
(***************************************************************************)
EXTENDS Subscriptions, FiniteSetTheorems, FunctionTheorems, WellFoundedInduction, TLAPS

Segment == [of : Row, at : Nat]

\* A piece to place: some slots, all of them in the future.
Piece == [of : Row, slots : SUBSET Nat, start : Nat, round : Nat]

\* The segments that rows have from slot n on: TimelineOf, n being now.
Ahead(set, n) == {x \in [of : set, at : Nat] : n <= x.at /\ x.of.from <= x.at /\ x.at < x.of.to}

(***************************************************************************)
(* What the loop keeps, however transactions overlap.                      *)
(***************************************************************************)

\* It works on finitely many slots, from now on.
FiniteSlots ==
    /\ IsFiniteSet(Taken(TimelineOf(rows))) /\ IsFiniteSet(Taken(segments))
    /\ \A x \in segments : x.at >= now

\* What is in the queue was displaced in an earlier round, from now on.
Queued ==
    \A p \in queue : /\ p \in Piece /\ IsFiniteSet(p.slots) /\ p.slots # {}
                     /\ p.start >= now /\ p.round <= round

\* It works for one transaction at a time, and for none it is at rest.
OnePlacing ==
    /\ \A g, h \in Grant : tx[g].phase = "placing" /\ tx[h].phase = "placing" => g = h
    /\ ~Placing => segments = {} /\ queue = {}

\* What was displaced is of lesser plans than the one granted; the rows of
\* plans that are not lesser have the slots they had.
BettersKept ==
    \A g \in Grant : tx[g].phase = "placing" =>
      /\ \A p \in queue : p.of = NewOwner(g) \/ p.of.rank < Rank[g]
      /\ \A r \in Existing(g) : r.rank >= Rank[g] =>
           SlotsOf(segments, r) = Later(r.from) .. (r.to - 1)

TypeInv == TypeOK /\ FiniteSlots /\ Queued /\ OnePlacing /\ BettersKept

\* The segments of a grant: when plans overlap, more than the slots it has.
Cells(timeline, g) == {x \in timeline : x.of.grant = g}

\* The slots that wait in a queue for a new place.
Waiting(pieces, g) == {w \in pieces \X Nat : w[1].of.grant = g /\ w[2] \in w[1].slots}

\* The loop neither loses nor adds a slot to those of the rows it has read.
LoopConserves ==
    /\ \A h \in Grant : IsFiniteSet(Waiting(queue, h))
    /\ \A g, h \in Grant : tx[g].phase = "placing" =>
         Cardinality(Cells(segments, h)) + Cardinality(Waiting(queue, h)) =
           IF h = g THEN Duration[g] ELSE Cardinality(Cells(TimelineOf(Existing(g)), h))

FiniteRows == IsFiniteSet(rows) /\ IsFiniteSet(segments)

\* Of a grant that has not been made there is nothing.
NotYetMade ==
    \A g \in Grant : tx[g].phase # "done" =>
      Held(TimelineOf(rows), g) = {} /\ served[g] = 0 /\ revoked[g] = 0

\* Of a grant there are never more slots than it was for.
AtMostGranted ==
    \A g \in Grant :
      served[g] + Cardinality(Cells(TimelineOf(rows), g)) + revoked[g] <= Duration[g]

OverlapInv == FiniteRows /\ LoopConserves /\ NotYetMade /\ AtMostGranted

(***************************************************************************)
(* What holds when transactions exclude each other.                        *)
(***************************************************************************)

\* No slot has two owners.
OneOwner(timeline) == \A x, y \in timeline : x.at = y.at => x = y

\* Before a slot of a plan there are, from slot n on, only slots of the same
\* or better plans.
Covered(timeline, rank, t) == \E y \in timeline : y.at = t /\ y.of.rank >= rank

Packed(timeline, n) ==
    \A x \in timeline : \A t \in n .. x.at : Covered(timeline, x.of.rank, t)

AtWork(g) == tx[g].phase \in {"open", "placing"}

\* One transaction is at work, and sees every row.
Alone ==
    /\ \A g, h \in Grant : AtWork(g) /\ AtWork(h) => g = h
    /\ \A g \in Grant : AtWork(g) => tx[g].seen = Ids(rows)

RowsInv == OneOwner(TimelineOf(rows)) /\ Packed(TimelineOf(rows), now)

\* Before a piece of the queue there is no room for it.
SegmentsInv ==
    /\ OneOwner(segments) /\ Packed(segments, now)
    /\ \A p \in queue : \A t \in now .. (p.start - 1) : Covered(segments, p.of.rank, t)

\* The loop neither loses nor adds a slot.
Conserved ==
    /\ \A h \in Grant : IsFiniteSet(Waiting(queue, h))
    /\ \A g, h \in Grant : tx[g].phase = "placing" =>
         Cardinality(Held(segments, h)) + Cardinality(Waiting(queue, h)) =
           IF h = g THEN Duration[g] ELSE Remaining(h)

SerialInv == Alone /\ RowsInv /\ SegmentsInv /\ Conserved /\ NotYetMade /\ PaidTimeKept

-----------------------------------------------------------------------------
(***************************************************************************)
(* Sets of slots.                                                          *)
(***************************************************************************)

LEMMA MinOf ==
    ASSUME NEW S, S \subseteq Nat, S # {}
    PROVE  Min(S) \in S /\ \A x \in S : Min(S) <= x
<1>1. \E x \in S : \A y \in S : <<y, x>> \notin OpToRel(<, Nat)
  BY NatLessThanWellFounded, WFMin
<1>2. \E x \in S : \A y \in S : ~(y < x)
  BY <1>1, Zenon DEF OpToRel
<1>3. \E x \in S : \A y \in S : x =< y
  BY <1>2
<1> QED BY <1>3 DEF Min

\* The largest slot is one that the fewest slots follow.
LEMMA MaxOf ==
    ASSUME NEW S, S \subseteq Nat, S # {}, IsFiniteSet(S)
    PROVE  Max(S) \in S /\ \A x \in S : Max(S) >= x
<1> DEFINE After(s) == {u \in S : u > s}
           C == {Cardinality(After(s)) : s \in S}
<1>1. \A s \in S : IsFiniteSet(After(s)) /\ Cardinality(After(s)) \in Nat
  BY FS_Subset, FS_CardinalityType
<1>2. C \subseteq Nat /\ C # {}
  BY <1>1
<1>3. PICK x \in S : \A y \in S : Cardinality(After(x)) <= Cardinality(After(y))
  <2>1. Min(C) \in C /\ \A c \in C : Min(C) <= c
    BY <1>2, MinOf
  <2> QED BY <2>1
<1>4. ASSUME NEW y \in S, y > x  PROVE FALSE
  <2>1. After(y) \subseteq After(x) /\ y \in After(x) /\ y \notin After(y)
    <3>1. \A u \in S : u > y => u > x
      BY <1>4
    <3>2. ~(y > y)
      BY <1>4
    <3> QED BY <1>4, <3>1, <3>2
  <2>2. Cardinality(After(y)) # Cardinality(After(x))
    BY <2>1, <1>1, FS_Subset
  <2>3. Cardinality(After(y)) <= Cardinality(After(x))
    BY <2>1, <1>1, FS_Subset
  <2> HIDE DEF After
  <2> QED BY <1>1, <1>3, <2>2, <2>3
<1>5. \A y \in S : x >= y
  BY <1>4
<1> QED BY <1>5 DEF Max

\* The n earliest slots of a set are n slots, for they are those that fewer
\* than n of them precede, and the number of predecessors tells slots apart.
LEMMA EarliestCardinality ==
    ASSUME NEW S, S \subseteq Nat, IsFiniteSet(S), NEW n \in Nat, n <= Cardinality(S)
    PROVE  IsFiniteSet(Earliest(n, S)) /\ Cardinality(Earliest(n, S)) = n
<1> DEFINE Pred(s) == {u \in S : u < s}
           m == Cardinality(S)
           f == [s \in S |-> Cardinality(Pred(s))]
           E == Earliest(n, S)
<1>0. m \in Nat
  BY FS_CardinalityType
<1>1. \A s \in S : IsFiniteSet(Pred(s)) /\ Cardinality(Pred(s)) \in Nat
  BY FS_Subset, FS_CardinalityType
<1>2. \A s \in S : Cardinality(Pred(s)) < m
  <2> TAKE s \in S
  <2>1. Cardinality(Pred(s)) <= m /\ (m = Cardinality(Pred(s)) => S = Pred(s))
    BY FS_Subset
  <2>2. s \notin Pred(s)
    OBVIOUS
  <2> QED BY <2>1, <2>2, <1>0, <1>1
<1>3. \A s, t \in S : s < t => Cardinality(Pred(s)) < Cardinality(Pred(t))
  <2> SUFFICES ASSUME NEW s \in S, NEW t \in S, s < t
               PROVE  Cardinality(Pred(s)) < Cardinality(Pred(t))
    OBVIOUS
  <2>1. Pred(s) \subseteq Pred(t) /\ s \in Pred(t) /\ s \notin Pred(s)
    <3>1. \A u \in S : u < s => u < t
      OBVIOUS
    <3>2. ~(s < s)
      OBVIOUS
    <3> QED BY <3>1, <3>2
  <2>2. /\ Cardinality(Pred(s)) <= Cardinality(Pred(t))
        /\ Cardinality(Pred(s)) # Cardinality(Pred(t))
    BY <2>1, <1>1, FS_Subset
  <2> QED BY <2>2, <1>1
<1> HIDE DEF Pred, m
<1>4. f \in Injection(S, 0 .. m - 1)
  <2>1. f \in [S -> 0 .. m - 1]
    BY <1>0, <1>1, <1>2
  <2>2. \A s, t \in S : f[s] = f[t] => s = t
    BY <1>1, <1>3
  <2> QED BY <2>1, <2>2 DEF Injection, IsInjective
<1>5. IsFiniteSet(0 .. m - 1) /\ Cardinality(0 .. m - 1) = m
  BY <1>0, FS_Interval
<1>6. f \in Surjection(S, 0 .. m - 1)
  BY <1>4, <1>5, FS_Injection DEF m
<1>7. \A k \in 0 .. m - 1 : \E s \in S : Cardinality(Pred(s)) = k
  BY <1>6 DEF Surjection
<1>8. E = {s \in S : Cardinality(Pred(s)) < n}
  BY DEF Earliest, Pred
<1> DEFINE e == [s \in E |-> Cardinality(Pred(s))]
<1>9. IsFiniteSet(E)
  BY <1>8, FS_Subset
<1> HIDE DEF E
<1>10. e \in [E -> 0 .. n - 1]
  <2> SUFFICES ASSUME NEW s \in E  PROVE Cardinality(Pred(s)) \in 0 .. n - 1
    OBVIOUS
  <2>1. Cardinality(Pred(s)) \in Nat /\ Cardinality(Pred(s)) < n
    BY <1>1, <1>8
  <2> QED BY <2>1
<1>11. \A s, t \in E : e[s] = e[t] => s = t
  BY <1>1, <1>3, <1>8
<1>12. \A k \in 0 .. n - 1 : \E s \in E : e[s] = k
  BY <1>0, <1>7, <1>8 DEF m
<1>13. e \in Bijection(E, 0 .. n - 1)
  BY <1>10, <1>11, <1>12 DEF Bijection, Injection, Surjection, IsInjective
<1>14. Cardinality(0 .. n - 1) = n
  BY FS_Interval
<1>15. Cardinality(E) = n
  BY <1>9, <1>13, <1>14, FS_Bijection DEF ExistsBijection
<1> QED BY <1>9, <1>15 DEF E

\* A run is the interval from its first slot to its end, ...
LEMMA RunIsInterval ==
    ASSUME NEW S, S \subseteq Nat, IsFiniteSet(S), NEW s \in S
    PROVE  LET run == Run(S, s)
           IN  /\ s \in run /\ run \subseteq S /\ IsFiniteSet(run)
               /\ Min(run) \in run /\ Min(run) <= s
               /\ End(run) \in Nat /\ End(run) - 1 \in run /\ s < End(run)
               /\ run = Min(run) .. (End(run) - 1)
<1> DEFINE run == Run(S, s)
<1>1. s \in run /\ run \subseteq S
  BY DEF Run
<1>2. IsFiniteSet(run) /\ run \subseteq Nat
  BY <1>1, FS_Subset
<1>3. Min(run) \in run /\ \A x \in run : Min(run) <= x
  BY <1>1, <1>2, MinOf
<1>4. Max(run) \in run /\ \A x \in run : Max(run) >= x
  BY <1>1, <1>2, MaxOf
<1>5. End(run) = Max(run) + 1 /\ End(run) - 1 = Max(run)
  BY <1>2, <1>4 DEF End
<1>6. \A t \in Min(run) .. Max(run) : t \in S /\ (s .. t) \cup (t .. s) \subseteq S
  <2>1. Min(run) .. s \subseteq S /\ s .. Max(run) \subseteq S
    BY <1>3, <1>4 DEF Run
  <2>2. Min(run) \in Nat /\ Max(run) \in Nat /\ s \in Nat
    BY <1>2, <1>3, <1>4
  <2> QED BY <2>1, <2>2
<1>7. Min(run) .. Max(run) \subseteq run
  <2> SUFFICES ASSUME NEW t \in Min(run) .. Max(run)  PROVE t \in run
    OBVIOUS
  <2>1. t \in S /\ (s .. t) \cup (t .. s) \subseteq S
    BY <1>6
  <2> QED BY <2>1 DEF Run
<1>8. run \subseteq Min(run) .. Max(run)
  BY <1>2, <1>3, <1>4
<1> HIDE DEF run
<1>9. Min(run) <= s /\ s < End(run) /\ End(run) \in Nat
  <2>1. s \in Nat /\ Max(run) \in Nat /\ s <= Max(run) /\ Min(run) <= s
    BY <1>1, <1>2, <1>3, <1>4
  <2>2. Max(run) + 1 \in Nat /\ s < Max(run) + 1
    BY <2>1
  <2> QED BY <1>5, <2>1, <2>2
<1>10. run = Min(run) .. (End(run) - 1)
  BY <1>5, <1>7, <1>8
<1>11. End(run) - 1 \in run
  BY <1>4, <1>5
<1> QED BY <1>1, <1>2, <1>3, <1>9, <1>10, <1>11 DEF run

\* ... each slot is in one run, ...
LEMMA RunsAreDisjoint ==
    ASSUME NEW S, S \subseteq Nat, NEW s \in S, NEW t \in Run(S, s)
    PROVE  Run(S, t) = Run(S, s)
<1>1. t \in S /\ s .. t \subseteq S /\ t .. s \subseteq S
  BY DEF Run
<1>2. ASSUME NEW u \in S
      PROVE  /\ s .. u \subseteq S /\ u .. s \subseteq S => t .. u \subseteq S /\ u .. t \subseteq S
             /\ t .. u \subseteq S /\ u .. t \subseteq S => s .. u \subseteq S /\ u .. s \subseteq S
  BY <1>1
<1> QED BY <1>1, <1>2 DEF Run

\* ... and an interval is one run.
LEMMA IntervalIsRun ==
    ASSUME NEW a \in Nat, NEW b \in Nat, NEW s \in a .. b
    PROVE  Run(a .. b, s) = a .. b
  BY DEF Run

LEMMA DifferenceCardinality ==
    ASSUME NEW S, IsFiniteSet(S), NEW T, IsFiniteSet(T)
    PROVE  /\ IsFiniteSet(S \ T) /\ Cardinality(S \ T) \in Nat
           /\ Cardinality(S \ T) + Cardinality(T) >= Cardinality(S)
<1>1. IsFiniteSet(S \ T) /\ Cardinality(S \ T) = Cardinality(S) - Cardinality(S \cap T)
  BY FS_Difference
<1>2. S \cap T \in SUBSET T
  OBVIOUS
<1>3. IsFiniteSet(S \cap T) /\ Cardinality(S \cap T) <= Cardinality(T)
  BY <1>2, FS_Subset
<1>4. /\ Cardinality(S) \in Nat /\ Cardinality(T) \in Nat
      /\ Cardinality(S \cap T) \in Nat /\ Cardinality(S \ T) \in Nat
  BY <1>1, <1>3, FS_CardinalityType
<1> QED BY <1>1, <1>3, <1>4

\* A piece finds as many slots as it had, the first from its start on that are
\* not blocked.
LEMMA FirstFreeSlots ==
    ASSUME NEW blocked, blocked \subseteq Nat, IsFiniteSet(blocked),
           NEW piece \in Piece, IsFiniteSet(piece.slots)
    PROVE  LET free == FirstFree(blocked, piece)
           IN  /\ free \subseteq Nat /\ IsFiniteSet(free)
               /\ Cardinality(free) = Cardinality(piece.slots)
               /\ \A t \in free : t >= piece.start /\ t \notin blocked
               /\ \A t \in free : \A u \in piece.start .. t : u \in free \/ u \in blocked
<1> DEFINE n == Cardinality(piece.slots)
           m == Cardinality(blocked)
           a == piece.start
           S == (a .. a + m + n) \ blocked
           free == FirstFree(blocked, piece)
<1>1. n \in Nat /\ m \in Nat /\ a \in Nat
  BY FS_CardinalityType DEF Piece
<1>2. free = Earliest(n, S)
  BY DEF FirstFree
<1> HIDE DEF n, m, a
<1>3. IsFiniteSet(a .. a + m + n) /\ Cardinality(a .. a + m + n) = m + n + 1
  BY <1>1, FS_Interval
<1>4. IsFiniteSet(S) /\ Cardinality(S) \in Nat /\ Cardinality(S) + m >= m + n + 1
  <2> DEFINE I == a .. a + m + n
  <2>1. IsFiniteSet(I) /\ Cardinality(I) = m + n + 1
    BY <1>3
  <2> HIDE DEF I
  <2>2. /\ IsFiniteSet(I \ blocked) /\ Cardinality(I \ blocked) \in Nat
        /\ Cardinality(I \ blocked) + m >= Cardinality(I)
    BY <2>1, DifferenceCardinality DEF m
  <2> QED BY <2>1, <2>2 DEF I
<1>7. n <= Cardinality(S)
  BY <1>1, <1>4
<1>8. S \subseteq Nat
  BY <1>1
<1>9. IsFiniteSet(free) /\ Cardinality(free) = n
  BY <1>1, <1>2, <1>4, <1>7, <1>8, EarliestCardinality
<1>10. free \subseteq S
  BY <1>2 DEF Earliest
<1>11. ASSUME NEW t \in free, NEW u \in a .. t, u \notin blocked
       PROVE  u \in free
  <2>1. t \in S /\ Cardinality({v \in S : v < t}) < n
    BY <1>2 DEF Earliest
  <2>2. u \in S
    BY <1>1, <1>11, <2>1
  <2>3. {v \in S : v < u} \subseteq {v \in S : v < t}
    BY <1>1, <1>8, <2>1
  <2>4. IsFiniteSet({v \in S : v < t})
    BY <1>4, FS_Subset
  <2>5. /\ Cardinality({v \in S : v < u}) <= Cardinality({v \in S : v < t})
        /\ Cardinality({v \in S : v < u}) \in Nat /\ Cardinality({v \in S : v < t}) \in Nat
    BY <2>3, <2>4, FS_Subset, FS_CardinalityType
  <2>6. Cardinality({v \in S : v < u}) < n
    BY <1>1, <2>1, <2>5
  <2> QED BY <1>2, <2>2, <2>6 DEF Earliest
<1>12. \A t \in free : t >= a /\ t \notin blocked
  BY <1>1, <1>10
<1> HIDE DEF S, free
<1>13. free \subseteq Nat
  BY <1>8, <1>10
<1> QED BY <1>9, <1>11, <1>12, <1>13 DEF n, a, free

LEMMA DisjointUnion ==
    ASSUME NEW S, IsFiniteSet(S), NEW T, IsFiniteSet(T), S \cap T = {}
    PROVE  /\ IsFiniteSet(S \cup T)
           /\ Cardinality(S \cup T) = Cardinality(S) + Cardinality(T)
<1>1. Cardinality(S) \in Nat /\ Cardinality(T) \in Nat
  BY FS_CardinalityType
<1>2. Cardinality(S \cap T) = 0
  BY FS_EmptySet
<1>3. /\ IsFiniteSet(S \cup T)
      /\ Cardinality(S \cup T) = Cardinality(S) + Cardinality(T) - Cardinality(S \cap T)
  BY FS_Union
<1> QED BY <1>1, <1>2, <1>3

LEMMA RemovedSubset ==
    ASSUME NEW S, IsFiniteSet(S), NEW T, T \subseteq S
    PROVE  /\ IsFiniteSet(S \ T) /\ IsFiniteSet(T)
           /\ Cardinality(S) \in Nat /\ Cardinality(T) \in Nat
           /\ Cardinality(S \ T) = Cardinality(S) - Cardinality(T)
<1>1. S \cap T = T
  OBVIOUS
<1>2. IsFiniteSet(S \ T) /\ Cardinality(S \ T) = Cardinality(S) - Cardinality(T)
  BY <1>1, FS_Difference
<1> QED BY <1>2, FS_Subset, FS_CardinalityType

-----------------------------------------------------------------------------
(***************************************************************************)
(* Placing a piece.                                                        *)
(***************************************************************************)

LEMMA RunOfMore ==
    ASSUME NEW S, NEW T, T \subseteq S, NEW s \in T, NEW t \in Run(T, s)
    PROVE  t \in Run(S, s)
  BY DEF Run

LEMMA SlotsOfType ==
    ASSUME NEW timeline, timeline \subseteq Segment, IsFiniteSet(Taken(timeline)), NEW o
    PROVE  /\ SlotsOf(timeline, o) \subseteq Nat /\ IsFiniteSet(SlotsOf(timeline, o))
           /\ Held(timeline, o) \subseteq Nat /\ IsFiniteSet(Held(timeline, o))
           /\ Blocked(timeline, o) \subseteq Nat /\ IsFiniteSet(Blocked(timeline, o))
<1>1. Taken(timeline) \subseteq Nat
  BY DEF Taken, Segment
<1>2. /\ SlotsOf(timeline, o) \subseteq Taken(timeline)
      /\ Held(timeline, o) \subseteq Taken(timeline)
      /\ Blocked(timeline, o) \subseteq Taken(timeline)
  BY DEF Taken, SlotsOf, Held, Blocked
<1> QED BY <1>1, <1>2, FS_Subset

ArePieces(D, timeline, slots, owner, n) ==
    /\ \A p \in D : /\ p \in Piece /\ IsFiniteSet(p.slots) /\ p.slots # {} /\ p.round = n
                    /\ p.of.rank < owner.rank
                    /\ p.start - 1 \in slots \/ p.start - 1 \in SlotsOf(timeline, p.of)
                    /\ \A t \in p.slots : t \in slots /\ t \in SlotsOf(timeline, p.of)
    /\ \A x \in timeline : x.at \in slots /\ x.of.rank < owner.rank =>
         \E p \in D : p.of = x.of /\ x.at \in p.slots
    /\ \A p, q \in D : \A t \in Nat :
         p.of = q.of /\ t \in p.slots /\ t \in q.slots => p = q

\* The pieces that a placement displaces are the slots it takes from lesser
\* plans, each in one piece.
LEMMA DisplacedPieces ==
    ASSUME NEW timeline, timeline \subseteq Segment, IsFiniteSet(Taken(timeline)),
           NEW slots, slots \subseteq Nat, IsFiniteSet(slots),
           NEW owner \in Row, NEW n \in Nat
    PROVE  ArePieces(Displaced(timeline, slots, owner, n), timeline, slots, owner, n)
<1> DEFINE D == Displaced(timeline, slots, owner, n)
           Own(o) == SlotsOf(timeline, o)
           Lost(o) == Own(o) \cap slots
           PieceOf(o, s) == [of |-> o, slots |-> Run(Lost(o), s), round |-> n,
                             start |-> End(Run(slots, s) \cup Run(Own(o), s))]
           Lesser == {o \in Owners(timeline) : o.rank < owner.rank}
<1>1. D = UNION {{PieceOf(o, s) : s \in Lost(o)} : o \in Lesser}
  BY DEF Displaced, DisplacedOf
<1>5. \A o : Own(o) \subseteq Nat /\ IsFiniteSet(Own(o)) /\ Lost(o) \subseteq Nat /\ IsFiniteSet(Lost(o))
  BY SlotsOfType, FS_Subset
<1>5a. \A o : Lost(o) \subseteq slots /\ Lost(o) \subseteq Own(o)
  OBVIOUS
<1> HIDE DEF PieceOf, Lost, Own
<1>2. \A p \in D : \E o \in Lesser : \E s \in Lost(o) : p = PieceOf(o, s)
  BY <1>1
<1>3. \A o \in Lesser : \A s \in Lost(o) : PieceOf(o, s) \in D
  BY <1>1
<1>4. Lesser \subseteq Row
  BY DEF Owners, Segment
<1> HIDE DEF D, Lesser
<1>6. ASSUME NEW p \in D
      PROVE  /\ p \in Piece /\ IsFiniteSet(p.slots) /\ p.slots # {} /\ p.round = n
             /\ p.of.rank < owner.rank
             /\ p.start - 1 \in slots \/ p.start - 1 \in Own(p.of)
             /\ \A t \in p.slots : t \in slots /\ t \in Own(p.of)
  <2>0. PICK o \in Lesser : \E s \in Lost(o) : p = PieceOf(o, s)
    BY <1>2
  <2>1. PICK s \in Lost(o) : p = PieceOf(o, s)
    BY <2>0
  <2>2. p.of = o /\ p.slots = Run(Lost(o), s) /\ p.round = n
    BY <2>1 DEF PieceOf
  <2>3. p.slots \subseteq Lost(o) /\ p.slots \subseteq Nat /\ IsFiniteSet(p.slots) /\ p.slots # {}
    <3>1. Run(Lost(o), s) \subseteq Lost(o) /\ IsFiniteSet(Run(Lost(o), s)) /\ s \in Run(Lost(o), s)
      BY <1>5, RunIsInterval
    <3> QED BY <1>5, <2>2, <3>1
  <2> DEFINE both == Run(slots, s) \cup Run(Own(o), s)
  <2>4. both \subseteq Nat /\ IsFiniteSet(both) /\ both # {}
    <3>1. Run(slots, s) \subseteq slots /\ IsFiniteSet(Run(slots, s)) /\ s \in Run(slots, s)
      BY <1>5a, RunIsInterval
    <3>2. Run(Own(o), s) \subseteq Own(o) /\ IsFiniteSet(Run(Own(o), s))
      BY <1>5, <1>5a, RunIsInterval
    <3> QED BY <1>5, <3>1, <3>2, FS_Union
  <2>5. Max(both) \in both /\ Max(both) \in Nat
    BY <2>4, MaxOf
  <2>6. p.start = Max(both) + 1
    BY <2>1 DEF End, PieceOf
  <2>7. p.start \in Nat /\ p.start - 1 = Max(both)
    BY <2>5, <2>6
  <2>8. Max(both) \in slots \/ Max(both) \in Own(o)
    BY <2>5 DEF Run
  <2>9. p \in Piece
    BY <1>4, <2>1, <2>2, <2>3, <2>7 DEF Piece, PieceOf
  <2>10. o.rank < owner.rank
    BY DEF Lesser
  <2> QED BY <1>5a, <2>2, <2>3, <2>7, <2>8, <2>9, <2>10
<1>7. ASSUME NEW x \in timeline, x.at \in slots, x.of.rank < owner.rank
      PROVE  \E p \in D : p.of = x.of /\ x.at \in p.slots
  <2>1. x.of \in Lesser /\ x.at \in Lost(x.of)
    BY <1>7 DEF Lesser, Owners, Own, SlotsOf, Lost
  <2>2. x.at \in Run(Lost(x.of), x.at)
    BY <1>5, <2>1, RunIsInterval
  <2> QED BY <1>3, <2>1, <2>2 DEF PieceOf
<1>8. ASSUME NEW p \in D, NEW q \in D, NEW t \in Nat, p.of = q.of, t \in p.slots, t \in q.slots
      PROVE  p = q
  <2>0. PICK o \in Lesser : \E s \in Lost(o) : p = PieceOf(o, s)
    BY <1>2
  <2>1. PICK s \in Lost(o) : p = PieceOf(o, s)
    BY <2>0
  <2>9. PICK u \in Lesser : \E r \in Lost(u) : q = PieceOf(u, r)
    BY <1>2
  <2>2. PICK r \in Lost(u) : q = PieceOf(u, r)
    BY <2>9
  <2>3. u = o
    BY <1>8, <2>1, <2>2 DEF PieceOf
  <2>4. t \in Run(Lost(o), s) /\ t \in Run(Lost(o), r)
    BY <1>8, <2>1, <2>2, <2>3 DEF PieceOf
  <2>5. Run(Lost(o), s) = Run(Lost(o), t) /\ Run(Lost(o), r) = Run(Lost(o), t)
    BY <1>5, <2>2, <2>3, <2>4, RunsAreDisjoint
  <2>6. /\ t \in Run(slots, s) /\ t \in Run(slots, r)
        /\ t \in Run(Own(o), s) /\ t \in Run(Own(o), r)
    BY <1>5a, <2>3, <2>4, RunOfMore
  <2>7. Run(slots, s) = Run(slots, r)
    <3>1. s \in slots /\ r \in slots
      BY <1>5a
    <3>2. Run(slots, t) = Run(slots, s) /\ Run(slots, t) = Run(slots, r)
      BY <2>6, <3>1, RunsAreDisjoint
    <3> QED BY <3>2
  <2>8. Run(Own(o), s) = Run(Own(o), r)
    <3>1. s \in Own(o) /\ r \in Own(o)
      BY <1>5a, <2>3
    <3> QED BY <1>5, <2>6, <3>1, RunsAreDisjoint
  <2> QED BY <2>1, <2>2, <2>3, <2>5, <2>7, <2>8 DEF PieceOf
<1> QED BY <1>6, <1>7, <1>8 DEF D, Own, ArePieces

LEMMA WaitingForOne ==
    ASSUME NEW piece, piece.slots \subseteq Nat, IsFiniteSet(piece.slots), NEW h
    PROVE  /\ IsFiniteSet(Waiting({piece}, h))
           /\ Cardinality(Waiting({piece}, h)) =
                IF piece.of.grant = h THEN Cardinality(piece.slots) ELSE 0
<1>1. CASE piece.of.grant = h
  <2>1. Waiting({piece}, h) = {piece} \X piece.slots
    BY <1>1 DEF Waiting
  <2>2. IsFiniteSet({piece}) /\ Cardinality({piece}) = 1
    BY FS_Singleton
  <2>3. /\ IsFiniteSet({piece} \X piece.slots)
        /\ Cardinality({piece} \X piece.slots) = Cardinality({piece}) * Cardinality(piece.slots)
    BY <2>2, FS_Product
  <2>4. Cardinality(piece.slots) \in Nat
    BY FS_CardinalityType
  <2>5. Cardinality({piece} \X piece.slots) = Cardinality(piece.slots)
    BY <2>2, <2>3, <2>4
  <2>6. IsFiniteSet(Waiting({piece}, h)) /\ Cardinality(Waiting({piece}, h)) = Cardinality(piece.slots)
    BY <2>1, <2>3, <2>5, Zenon
  <2> QED BY <1>1, <2>6
<1>2. CASE piece.of.grant # h
  <2>1. Waiting({piece}, h) = {}
    BY <1>2 DEF Waiting
  <2> QED BY <1>2, <2>1, FS_EmptySet
<1> QED BY <1>1, <1>2

LEMMA TakenFinite ==
    ASSUME NEW timeline, IsFiniteSet(timeline)
    PROVE  IsFiniteSet(Taken(timeline))
<1> DEFINE f == [x \in timeline |-> x.at]
<1>1. f \in Surjection(timeline, Taken(timeline))
  BY DEF Taken, Surjection
<1> QED BY <1>1, FS_Surjection

\* A timeline in which no slot has two owners is finite if its slots are, and
\* has as many segments of a grant as the grant has slots; ...
LEMMA CellsOfSlots ==
    ASSUME NEW timeline, IsFiniteSet(Taken(timeline)), OneOwner(timeline), NEW h
    PROVE  /\ IsFiniteSet(timeline)
           /\ Cardinality(Cells(timeline, h)) = Cardinality(Held(timeline, h))
<1> DEFINE f == [x \in timeline |-> x.at]
           C == Cells(timeline, h)
           e == [x \in C |-> x.at]
<1>1. f \in Injection(timeline, Taken(timeline))
  BY DEF Taken, Injection, IsInjective, OneOwner
<1>2. IsFiniteSet(timeline)
  BY <1>1, FS_Injection
<1>3. e \in Bijection(C, Held(timeline, h))
  BY DEF Cells, Held, Bijection, Injection, Surjection, IsInjective, OneOwner
<1>4. IsFiniteSet(C)
  BY <1>2, FS_Subset DEF Cells
<1> HIDE DEF C
<1>5. Cardinality(Held(timeline, h)) = Cardinality(C)
  BY <1>3, <1>4, FS_Bijection DEF ExistsBijection
<1> QED BY <1>2, <1>5 DEF C

\* ... in any other it has no fewer.
LEMMA SlotsOfCells ==
    ASSUME NEW timeline, IsFiniteSet(timeline), NEW h
    PROVE  /\ IsFiniteSet(Cells(timeline, h)) /\ Cardinality(Cells(timeline, h)) \in Nat
           /\ IsFiniteSet(Held(timeline, h)) /\ Cardinality(Held(timeline, h)) \in Nat
           /\ Cardinality(Held(timeline, h)) <= Cardinality(Cells(timeline, h))
           /\ Held(timeline, h) = {} <=> Cells(timeline, h) = {}
<1> DEFINE C == Cells(timeline, h)
           e == [x \in C |-> x.at]
<1>1. e \in Surjection(C, Held(timeline, h))
  BY DEF Cells, Held, Surjection
<1>2. IsFiniteSet(C)
  BY FS_Subset DEF Cells
<1>3. Held(timeline, h) = {} <=> C = {}
  BY DEF Cells, Held
<1> HIDE DEF C
<1>4. IsFiniteSet(Held(timeline, h)) /\ Cardinality(Held(timeline, h)) <= Cardinality(C)
  BY <1>1, <1>2, FS_Surjection
<1> QED BY <1>2, <1>3, <1>4, FS_CardinalityType DEF C

\* A placement keeps the number of segments and waiting slots of every grant.
LEMMA PlacementConserves ==
    ASSUME NEW timeline, timeline \subseteq Segment, IsFiniteSet(timeline),
           NEW pieces, NEW piece \in pieces, piece \in Piece, IsFiniteSet(piece.slots),
           NEW n \in Nat, \A p \in pieces : p.round # n,
           NEW h, IsFiniteSet(Waiting(pieces, h))
    PROVE  LET slots == Allocation(timeline, piece)
               after == Insert(timeline, slots, piece.of)
               left == (pieces \ {piece}) \cup Displaced(timeline, slots, piece.of, n)
           IN  /\ IsFiniteSet(after) /\ IsFiniteSet(Waiting(left, h))
               /\ Cardinality(Cells(after, h)) + Cardinality(Waiting(left, h)) =
                    Cardinality(Cells(timeline, h)) + Cardinality(Waiting(pieces, h))
<1> DEFINE owner == piece.of
           slots == Allocation(timeline, piece)
           after == Insert(timeline, slots, owner)
           D == Displaced(timeline, slots, owner, n)
           left == (pieces \ {piece}) \cup D
           had == Cells(timeline, h)
           lost == {x \in timeline : x.at \in slots /\ x.of.rank < owner.rank /\ x.of.grant = h}
           placed == {[of |-> owner, at |-> t] : t \in slots}
           got == IF owner.grant = h THEN placed ELSE {}
           old == Waiting(pieces, h)
           out == Waiting({piece}, h)
           new == Waiting(D, h)
<1>1. owner \in Row /\ IsFiniteSet(Taken(timeline))
  BY TakenFinite DEF Piece
<1>2. /\ slots \subseteq Nat /\ IsFiniteSet(slots) /\ Cardinality(slots) = Cardinality(piece.slots)
      /\ \A t \in slots : t \notin Blocked(timeline, owner)
  BY <1>1, SlotsOfType, FirstFreeSlots DEF Allocation
<1> HIDE DEF slots
<1>3. IsFiniteSet(had)
  BY FS_Subset DEF Cells
<1>4. \A x \in timeline : x.of.rank \in Nat /\ x.at \in Nat /\ x = [of |-> x.of, at |-> x.at]
  BY DEF Segment, Row
<1>5. owner.rank \in Nat
  BY <1>1 DEF Row
<1>6. lost \subseteq had
  BY DEF Cells
<1>7. ASSUME NEW x \in timeline, x.at \in slots
      PROVE  x.of.rank < owner.rank
  BY <1>2, <1>4, <1>5, <1>7 DEF Blocked
<1>8. IsFiniteSet(placed) /\ Cardinality(placed) = Cardinality(slots)
  <2> DEFINE f == [t \in slots |-> [of |-> owner, at |-> t]]
  <2>1. \A t, u \in slots : f[t] = f[u] => t = u
    <3>1. \A t \in slots : f[t].at = t
      OBVIOUS
    <3> QED BY <3>1
  <2>2. f \in Bijection(slots, placed)
    BY <2>1 DEF Bijection, Injection, Surjection, IsInjective
  <2> HIDE DEF placed
  <2> QED BY <1>2, <2>2, FS_Bijection DEF ExistsBijection
<1>9. \A x \in placed : x.of = owner /\ x.at \in slots
  OBVIOUS
<1>10. after = {x \in timeline : x.at \notin slots} \cup placed
  <2>1. \A x \in timeline : x.at \notin slots \/ x.of.rank >= owner.rank <=> x.at \notin slots
    BY <1>4, <1>5, <1>7
  <2> QED BY <2>1 DEF Insert
<1> HIDE DEF placed
<1>11. IsFiniteSet(after)
  <2>1. IsFiniteSet({x \in timeline : x.at \notin slots})
    BY FS_Subset
  <2> QED BY <1>8, <1>10, <2>1, FS_Union
<1> HIDE DEF after
<1>12. Cells(after, h) = (had \ lost) \cup got
  BY <1>7, <1>9, <1>10 DEF Cells
<1>13. (had \ lost) \cap got = {}
  BY <1>7, <1>9 DEF Cells
<1> HIDE DEF owner
<1>14. ArePieces(D, timeline, slots, owner, n)
  BY <1>1, <1>2, DisplacedPieces
<1> HIDE DEF D
<1>15. IsFiniteSet(new) /\ Cardinality(new) = Cardinality(lost)
  <2> DEFINE f == [w \in new |-> [of |-> w[1].of, at |-> w[2]]]
  <2>1. \A w \in new : /\ w = <<w[1], w[2]>> /\ w[1] \in D /\ w[2] \in Nat
                       /\ w[1].of.grant = h /\ w[2] \in w[1].slots
    BY DEF Waiting
  <2>2. \A w \in new : \E x \in timeline : x.of = w[1].of /\ x.at = w[2]
    BY <1>14, <2>1 DEF SlotsOf, ArePieces
  <2>3. \A w \in new : [of |-> w[1].of, at |-> w[2]] \in lost
    <3> TAKE w \in new
    <3>1. PICK x \in timeline : x.of = w[1].of /\ x.at = w[2]
      BY <2>2
    <3>2. x.at \in slots /\ x.of.rank < owner.rank /\ x.of.grant = h
      BY <1>14, <2>1, <3>1 DEF ArePieces
    <3>3. x \in lost /\ x = [of |-> w[1].of, at |-> w[2]]
      BY <1>4, <3>1, <3>2
    <3> QED BY <3>3
  <2>4. \A w, v \in new : f[w] = f[v] => w = v
    <3> SUFFICES ASSUME NEW w \in new, NEW v \in new,
                        [of |-> w[1].of, at |-> w[2]] = [of |-> v[1].of, at |-> v[2]]
                 PROVE  w = v
      OBVIOUS
    <3>1. w[1].of = v[1].of /\ w[2] = v[2]
      OBVIOUS
    <3>2. w[1] = v[1]
      BY <1>14, <2>1, <3>1 DEF ArePieces
    <3> QED BY <2>1, <3>1, <3>2
  <2>5. \A x \in lost : \E w \in new : f[w] = x
    <3> TAKE x \in lost
    <3>1. PICK p \in D : p.of = x.of /\ x.at \in p.slots
      BY <1>14 DEF ArePieces
    <3>2. <<p, x.at>> \in new
      BY <1>4, <3>1 DEF Waiting
    <3>3. f[<<p, x.at>>] = x
      BY <1>4, <3>1, <3>2
    <3> QED BY <3>2, <3>3
  <2> HIDE DEF lost, new
  <2>6. f \in Bijection(new, lost)
    BY <2>3, <2>4, <2>5 DEF Bijection, Injection, Surjection, IsInjective
  <2>7. ExistsBijection(lost, new)
    BY <2>6, Fun_ExistsBijSymmetric DEF ExistsBijection
  <2>8. IsFiniteSet(lost)
    BY <1>3, <1>6, FS_Subset
  <2> QED BY <2>7, <2>8, FS_Bijection
<1>16. IsFiniteSet(out) /\ Cardinality(out) = Cardinality(got)
  <2>1. piece.slots \subseteq Nat
    BY DEF Piece
  <2>2. IsFiniteSet(out) /\ Cardinality(out) = IF owner.grant = h THEN Cardinality(piece.slots) ELSE 0
    BY <2>1, WaitingForOne DEF owner
  <2> HIDE DEF out
  <2> QED BY <1>2, <1>8, <2>2, FS_EmptySet
<1>17. out \subseteq old /\ Waiting(left, h) = (old \ out) \cup new
  BY DEF Waiting
<1>18. (old \ out) \cap new = {}
  BY <1>14 DEF Waiting, ArePieces
<1>19. IsFiniteSet(got)
  BY <1>8, FS_EmptySet
<1> HIDE DEF had, lost, got, old, out, new, left
<1>20. /\ IsFiniteSet(had \ lost) /\ Cardinality(had) \in Nat /\ Cardinality(lost) \in Nat
       /\ Cardinality(had \ lost) = Cardinality(had) - Cardinality(lost)
  BY <1>3, <1>6, RemovedSubset
<1>21. Cardinality(Cells(after, h)) = Cardinality(had \ lost) + Cardinality(got)
  BY <1>12, <1>13, <1>19, <1>20, DisjointUnion
<1>22. IsFiniteSet(old)
  BY DEF old
<1>23. /\ IsFiniteSet(old \ out) /\ Cardinality(old) \in Nat /\ Cardinality(out) \in Nat
       /\ Cardinality(old \ out) = Cardinality(old) - Cardinality(out)
  BY <1>17, <1>22, RemovedSubset
<1>24. /\ IsFiniteSet(Waiting(left, h))
       /\ Cardinality(Waiting(left, h)) = Cardinality(old \ out) + Cardinality(new)
  BY <1>15, <1>17, <1>18, <1>23, DisjointUnion
<1>25. Cardinality(Cells(after, h)) + Cardinality(Waiting(left, h)) = Cardinality(had) + Cardinality(old)
  BY <1>15, <1>16, <1>20, <1>21, <1>23, <1>24
<1> QED BY <1>11, <1>24, <1>25 DEF slots, after, left, D, had, old, owner

-----------------------------------------------------------------------------
(***************************************************************************)
(* Rows and their segments.                                                *)
(***************************************************************************)

LEMMA TimelineIsAhead ==
    ASSUME now \in Nat, NEW set, set \subseteq Row
    PROVE  TimelineOf(set) = Ahead(set, now)
<1>1. \A x \in TimelineOf(set) : x \in Ahead(set, now)
  <2> SUFFICES ASSUME NEW r \in set, NEW t \in Later(r.from) .. (r.to - 1)
               PROVE  [of |-> r, at |-> t] \in Ahead(set, now)
    BY DEF TimelineOf
  <2>1. r.from \in Nat /\ r.to \in Nat
    BY DEF Row
  <2>2. t \in Nat /\ now <= t /\ r.from <= t /\ t < r.to
    BY <2>1 DEF Later
  <2> QED BY <2>2 DEF Ahead
<1>2. \A x \in Ahead(set, now) : x \in TimelineOf(set)
  <2> SUFFICES ASSUME NEW x \in Ahead(set, now)  PROVE x \in TimelineOf(set)
    OBVIOUS
  <2>1. /\ x = [of |-> x.of, at |-> x.at] /\ x.of \in set /\ x.at \in Nat
        /\ now <= x.at /\ x.of.from <= x.at /\ x.at < x.of.to
    BY DEF Ahead
  <2>2. x.of.from \in Nat /\ x.of.to \in Nat
    BY <2>1 DEF Row
  <2>3. x.at \in Later(x.of.from) .. (x.of.to - 1)
    BY <2>1, <2>2 DEF Later
  <2> QED BY <2>1, <2>3 DEF TimelineOf
<1> QED BY <1>1, <1>2

LEMMA TimelineIsAheadNext ==
    ASSUME now' \in Nat, rows' \subseteq Row
    PROVE  TimelineOf(rows)' = Ahead(rows', now')
<1>1. \A x \in TimelineOf(rows)' : x \in Ahead(rows', now')
  <2> SUFFICES ASSUME NEW r \in rows', NEW t \in Later(r.from)' .. (r.to - 1)
               PROVE  [of |-> r, at |-> t] \in Ahead(rows', now')
    BY DEF TimelineOf
  <2>1. r.from \in Nat /\ r.to \in Nat
    BY DEF Row
  <2>2. t \in Nat /\ now' <= t /\ r.from <= t /\ t < r.to
    BY <2>1 DEF Later
  <2> QED BY <2>2 DEF Ahead
<1>2. \A x \in Ahead(rows', now') : x \in TimelineOf(rows)'
  <2> SUFFICES ASSUME NEW x \in Ahead(rows', now')  PROVE x \in TimelineOf(rows)'
    OBVIOUS
  <2>1. /\ x = [of |-> x.of, at |-> x.at] /\ x.of \in rows' /\ x.at \in Nat
        /\ now' <= x.at /\ x.of.from <= x.at /\ x.at < x.of.to
    BY DEF Ahead
  <2>2. x.of.from \in Nat /\ x.of.to \in Nat
    BY <2>1 DEF Row
  <2>3. x.at \in Later(x.of.from)' .. (x.of.to - 1)
    BY <2>1, <2>2 DEF Later
  <2> QED BY <2>1, <2>3 DEF TimelineOf
<1> QED BY <1>1, <1>2

\* What rows made of an owner's slots are: rows of its grant and plan that have
\* these slots from now on, each slot in one row.
AreRows(R, owner, slots) ==
    /\ \A r \in R : /\ r \in Row /\ r.grant = owner.grant /\ r.rank = owner.rank
                    /\ r.to > now /\ r.to > r.from
                    /\ \A t \in Nat : now <= t /\ r.from <= t /\ t < r.to => t \in slots
    /\ \A t \in slots : \E r \in R : now <= t /\ r.from <= t /\ t < r.to
    /\ \A r, q \in R : \A t \in slots :
         r.from <= t /\ t < r.to /\ q.from <= t /\ t < q.to => r = q

LEMMA RowsOfAreRows ==
    ASSUME TypeInv, NEW g \in Grant, NEW owner \in Owners(segments)
    PROVE  AreRows(RowsOf(g, segments, owner), owner, SlotsOf(segments, owner))
<1> DEFINE slots == SlotsOf(segments, owner)
           R == RowsOf(g, segments, owner)
           RowFor(run) == RowOf(g, owner, Min(run), End(run), Min(slots) \in run)
<1>1. owner \in Row /\ now \in Nat /\ segments \subseteq Segment
  BY DEF TypeInv, TypeOK, Owners, Segment
<1>2. slots \subseteq Nat /\ IsFiniteSet(slots) /\ \A t \in slots : t >= now
  <2>1. IsFiniteSet(Taken(segments)) /\ \A x \in segments : x.at >= now
    BY DEF TypeInv, FiniteSlots
  <2> QED BY <1>1, <2>1, SlotsOfType DEF SlotsOf
<1>3. /\ \A r \in R : \E s \in slots : r = RowFor(Run(slots, s))
      /\ \A s \in slots : RowFor(Run(slots, s)) \in R
  BY DEF RowsOf, Runs
<1> HIDE DEF slots, R
<1>4. ASSUME NEW s \in slots
      PROVE  LET run == Run(slots, s)
                 r == RowFor(run)
             IN  /\ r \in Row /\ r.grant = owner.grant /\ r.rank = owner.rank
                 /\ r.to = End(run) /\ r.to > now /\ r.to > r.from /\ r.from <= Min(run)
                 /\ \A t \in Nat : now <= t /\ r.from <= t <=> Min(run) <= t
                 /\ \A t \in Nat : now <= t /\ r.from <= t /\ t < r.to <=> t \in run
  <2> DEFINE run == Run(slots, s)
             r == RowFor(run)
  <2>1. /\ s \in run /\ run \subseteq slots /\ Min(run) \in run /\ Min(run) <= s
        /\ End(run) \in Nat /\ s < End(run) /\ run = Min(run) .. (End(run) - 1)
    BY <1>2, RunIsInterval
  <2> HIDE DEF run
  <2>2. Min(run) \in Nat /\ Min(run) >= now /\ Min(run) < End(run) /\ s \in Nat
    <3>1. Min(run) \in slots
      BY <2>1
    <3>2. Min(run) \in Nat /\ Min(run) >= now /\ s \in Nat
      BY <1>2, <3>1
    <3> QED BY <2>1, <3>2
  <2>3. r \in Row /\ r.grant = owner.grant /\ r.rank = owner.rank /\ r.to = End(run)
    <3>1. CASE r = [owner EXCEPT !.from = IF owner.from < now THEN owner.from ELSE Min(run),
                                 !.to = End(run)]
      BY <1>1, <2>1, <2>2, <3>1 DEF Row
    <3>2. CASE r = [owner EXCEPT !.id = <<g, owner.grant, Min(run)>>, !.from = Min(run),
                                 !.to = End(run)]
      <4>1. owner.grant \in Grant /\ <<g, owner.grant, Min(run)>> \in Id
        BY <1>1, <2>2 DEF Row, Id
      <4> QED BY <1>1, <2>1, <2>2, <3>2, <4>1 DEF Row
    <3> QED BY <3>1, <3>2 DEF RowOf
  <2>4. r.from = Min(run) \/ (r.from = owner.from /\ r.from < now /\ Min(run) = now)
    <3>1. CASE Reuses(owner, Min(run)) /\ owner.from < now
      <4>1. Min(run) = now
        BY <1>1, <2>2, <3>1 DEF Reuses
      <4> QED BY <1>1, <3>1, <4>1 DEF RowOf, Row
    <3>2. CASE ~(Reuses(owner, Min(run)) /\ owner.from < now)
      BY <1>1, <3>2 DEF RowOf, Row
    <3> QED BY <3>1, <3>2
  <2>5. r.from \in Nat /\ r.to \in Nat
    BY <2>3 DEF Row
  <2> HIDE DEF r
  <2>6. r.from <= Min(run) /\ r.to > now /\ r.to > r.from
    BY <1>1, <2>2, <2>3, <2>4, <2>5
  <2>7. \A t \in Nat : now <= t /\ r.from <= t <=> Min(run) <= t
    BY <1>1, <2>2, <2>4, <2>5
  <2>8. \A t \in Nat : Min(run) <= t /\ t < r.to <=> t \in run
    BY <2>1, <2>2, <2>3
  <2>9. \A t \in Nat : now <= t /\ r.from <= t /\ t < r.to <=> t \in run
    BY <2>7, <2>8
  <2> QED BY <2>3, <2>6, <2>7, <2>9 DEF r, run
<1>5. ASSUME NEW s \in slots
      PROVE  s \in Run(slots, s) /\ Run(slots, s) \subseteq slots
  BY <1>2, RunIsInterval
<1> HIDE DEF RowFor
<1>6. \A r \in R : /\ r \in Row /\ r.grant = owner.grant /\ r.rank = owner.rank
                   /\ r.to > now /\ r.to > r.from
                   /\ \A t \in Nat : now <= t /\ r.from <= t /\ t < r.to => t \in slots
  <2> SUFFICES ASSUME NEW s \in slots
               PROVE  LET r == RowFor(Run(slots, s))
                      IN  /\ r \in Row /\ r.grant = owner.grant /\ r.rank = owner.rank
                          /\ r.to > now /\ r.to > r.from
                          /\ \A t \in Nat : now <= t /\ r.from <= t /\ t < r.to => t \in slots
    BY <1>3
  <2> QED BY <1>4, <1>5
<1>7. \A t \in slots : \E r \in R : now <= t /\ r.from <= t /\ t < r.to
  <2> SUFFICES ASSUME NEW t \in slots
               PROVE  \E r \in R : now <= t /\ r.from <= t /\ t < r.to
    OBVIOUS
  <2>1. t \in Nat /\ t \in Run(slots, t)
    BY <1>2, <1>5
  <2> QED BY <1>3, <1>4, <2>1
<1>8. \A r, q \in R : \A t \in slots :
        r.from <= t /\ t < r.to /\ q.from <= t /\ t < q.to => r = q
  <2> SUFFICES ASSUME NEW r \in R, NEW q \in R, NEW t \in slots,
                      r.from <= t, t < r.to, q.from <= t, t < q.to
               PROVE  r = q
    OBVIOUS
  <2>1. PICK s \in slots : r = RowFor(Run(slots, s))
    BY <1>3
  <2>2. PICK u \in slots : q = RowFor(Run(slots, u))
    BY <1>3
  <2>3. t \in Nat /\ now <= t
    BY <1>2
  <2>4. t \in Run(slots, s) /\ t \in Run(slots, u)
    BY <1>4, <2>1, <2>2, <2>3
  <2>5. Run(slots, t) = Run(slots, s) /\ Run(slots, t) = Run(slots, u)
    BY <1>2, <2>4, RunsAreDisjoint
  <2> QED BY <2>1, <2>2, <2>5
<1> QED BY <1>6, <1>7, <1>8 DEF AreRows, slots, R

\* An owner that has the slots it had keeps its row.
LEMMA SameSlotsSameRow ==
    ASSUME TypeInv, NEW g \in Grant, NEW r \in rows,
           SlotsOf(segments, r) = Later(r.from) .. (r.to - 1)
    PROVE  r \in Owners(segments) /\ r \in RowsOf(g, segments, r)
<1> DEFINE a == Later(r.from)
           b == r.to - 1
           slots == SlotsOf(segments, r)
<1>1. /\ r \in Row /\ r.from \in Nat /\ r.to \in Nat /\ now \in Nat
      /\ r.to > now /\ r.to > r.from
  BY DEF TypeInv, TypeOK, Row
<1>2. a \in Nat /\ b \in Nat /\ a <= b /\ a >= now /\ b + 1 = r.to
  BY <1>1 DEF Later
<1>3. a = r.from \/ (a = now /\ r.from < now)
  BY <1>1 DEF Later
<1>4. slots = a .. b
  OBVIOUS
<1> HIDE DEF a, b
<1>5. a \in slots /\ IsFiniteSet(slots) /\ slots \subseteq Nat
  <2>1. IsFiniteSet(a .. b) /\ a \in a .. b /\ a .. b \subseteq Nat
    <3>1. IsFiniteSet(a .. b)
      BY <1>2, FS_Interval
    <3> QED BY <1>2, <3>1
  <2> QED BY <1>4, <2>1
<1>6. Run(slots, a) = slots
  BY <1>2, <1>4, IntervalIsRun
<1>7. Min(slots) \in slots /\ Min(slots) = a
  <2>1. Min(a .. b) \in a .. b /\ \A x \in a .. b : Min(a .. b) <= x
    BY <1>4, <1>5, MinOf
  <2>2. Min(a .. b) = a
    BY <1>2, <2>1
  <2> QED BY <1>4, <1>5, <2>2
<1>8. Max(slots) = b
  <2>1. Max(a .. b) \in a .. b /\ \A x \in a .. b : Max(a .. b) >= x
    BY <1>4, <1>5, MaxOf
  <2>2. Max(a .. b) = b
    BY <1>2, <2>1
  <2> QED BY <1>4, <2>2
<1>9. End(slots) = r.to
  BY <1>2, <1>8 DEF End
<1>10. r \in Owners(segments)
  BY <1>5 DEF SlotsOf, Owners
<1>11. r # NewOwner(g)
  BY <1>1 DEF NewOwner
<1>12. Reuses(r, a)
  BY <1>1, <1>2, <1>3 DEF Reuses
<1>13. RowOf(g, r, a, r.to, TRUE) = r
  BY <1>1, <1>3, <1>11, <1>12 DEF RowOf, Row
<1>14. RowOf(g, r, Min(slots), End(slots), Min(slots) \in slots) \in RowsOf(g, segments, r)
  BY <1>5, <1>6 DEF RowsOf, Runs
<1> QED BY <1>7, <1>9, <1>10, <1>13, <1>14

-----------------------------------------------------------------------------
(***************************************************************************)
(* Types, and the loop, whether or not transactions overlap.               *)
(***************************************************************************)

LEMMA TypeInit == Init => TypeInv
<1> SUFFICES ASSUME Init PROVE TypeInv
  OBVIOUS
<1>1. TypeOK
  BY GrantAssumption DEF Init, TypeOK
<1>2. TimelineOf(rows) = {}
  BY DEF Init, TimelineOf
<1>3. Taken(TimelineOf(rows)) = {} /\ Taken(segments) = {}
  BY <1>2 DEF Init, Taken
<1>4. FiniteSlots
  BY <1>3, FS_EmptySet DEF Init, FiniteSlots
<1>5. Queued /\ OnePlacing /\ BettersKept
  BY DEF Init, Queued, OnePlacing, BettersKept
<1> QED BY <1>1, <1>4, <1>5 DEF TypeInv

LEMMA TakenOfLess ==
    ASSUME NEW T, NEW U, T \subseteq U, IsFiniteSet(Taken(U))
    PROVE  IsFiniteSet(Taken(T))
<1>1. Taken(T) \subseteq Taken(U)
  BY DEF Taken
<1> QED BY <1>1, FS_Subset

LEMMA BeginType ==
    ASSUME TypeInv, NEW g \in Grant, Begin(g)
    PROVE  TypeInv'
<1>1. /\ now' = now /\ rows' = rows /\ segments' = segments /\ queue' = queue /\ round' = round
      /\ served' = served /\ revoked' = revoked
  BY DEF Begin, loop
<1>2. tx[g].phase = "none" /\ tx' = [tx EXCEPT ![g] = [phase |-> "open", seen |-> Ids(rows)]]
  BY DEF Begin
<1>3. tx \in [Grant -> [phase : {"none", "open", "placing", "done"}, seen : SUBSET Id]]
  BY DEF TypeInv, TypeOK
<1>4. Ids(rows) \subseteq Id
  BY DEF TypeInv, TypeOK, Ids, Row
<1>5. TypeOK'
  BY <1>1, <1>2, <1>4 DEF TypeInv, TypeOK
<1>6. \A h \in Grant : tx'[h].phase = "placing" <=> tx[h].phase = "placing"
  BY <1>2, <1>3
<1>7. \A h \in Grant : tx[h].phase = "placing" => tx'[h] = tx[h]
  BY <1>2, <1>3
<1>8. FiniteSlots' /\ Queued'
  BY <1>1 DEF TypeInv, FiniteSlots, Queued, TimelineOf, Later
<1>9. OnePlacing'
  BY <1>1, <1>6 DEF TypeInv, OnePlacing, Placing
<1>10. BettersKept'
  <2> SUFFICES ASSUME NEW h \in Grant, tx'[h].phase = "placing"
               PROVE  /\ \A p \in queue' : p.of = NewOwner(h)' \/ p.of.rank < Rank[h]
                      /\ \A r \in Existing(h)' : r.rank >= Rank[h] =>
                           SlotsOf(segments', r) = Later(r.from)' .. (r.to - 1)
    BY DEF BettersKept, SlotsOf
  <2>1. tx[h].phase = "placing"
    BY <1>6
  <2>2. NewOwner(h)' = NewOwner(h) /\ Existing(h)' = Existing(h)
    BY <1>1, <1>7, <2>1 DEF NewOwner, Existing
  <2>3. \A t : Later(t)' = Later(t)
    BY <1>1 DEF Later
  <2> QED BY <1>1, <2>1, <2>2, <2>3 DEF TypeInv, BettersKept
<1> QED BY <1>5, <1>8, <1>9, <1>10 DEF TypeInv

LEMMA NewOwnerType ==
    ASSUME TypeOK, NEW g \in Grant
    PROVE  NewOwner(g) \in Row /\ NewOwner(g).rank = Rank[g] /\ NewOwner(g).grant = g
<1>1. now \in Nat /\ Rank[g] \in Nat
  BY GrantAssumption DEF TypeOK
<1>2. <<g, g, now>> \in Id
  BY <1>1 DEF Id
<1> QED BY <1>1, <1>2 DEF NewOwner, Row

LEMMA GrantType ==
    ASSUME TypeInv, NEW g \in Grant, GrantSubscriptionOnTimeline(g)
    PROVE  TypeInv'
<1> DEFINE d == Duration[g]
           piece == [of |-> NewOwner(g), slots |-> now .. (now + d - 1), round |-> 0, start |-> now]
<1>1. /\ now' = now /\ rows' = rows /\ round' = 0 /\ served' = served /\ revoked' = revoked
      /\ queue' = {piece} /\ segments' = TimelineOf(Existing(g))
  BY DEF GrantSubscriptionOnTimeline
<1>2. /\ tx[g].phase = "open" /\ ~Placing
      /\ tx' = [tx EXCEPT ![g].phase = "placing"]
  BY DEF GrantSubscriptionOnTimeline
<1>3. tx \in [Grant -> [phase : {"none", "open", "placing", "done"}, seen : SUBSET Id]]
  BY DEF TypeInv, TypeOK
<1>4. /\ now \in Nat /\ d \in Nat \ {0} /\ rows \subseteq Row
      /\ NewOwner(g) \in Row
  BY GrantAssumption, NewOwnerType DEF TypeInv, TypeOK
<1>5. /\ piece \in Piece /\ IsFiniteSet(piece.slots) /\ piece.slots # {}
      /\ piece.start = now /\ piece.round = 0 /\ piece.of = NewOwner(g)
  <2>1. now .. (now + d - 1) \subseteq Nat /\ IsFiniteSet(now .. (now + d - 1))
    <3>1. now + d - 1 \in Nat
      BY <1>4
    <3>2. IsFiniteSet(now .. (now + d - 1))
      BY <1>4, <3>1, FS_Interval
    <3>3. now .. (now + d - 1) \subseteq Nat
      BY <1>4, <3>1
    <3> QED BY <3>2, <3>3
  <2>2. now \in now .. (now + d - 1)
    BY <1>4
  <2> QED BY <1>4, <2>1, <2>2 DEF Piece
<1> HIDE DEF piece
<1>6. Existing(g) \subseteq rows
  BY DEF Existing
<1>7. TimelineOf(Existing(g)) = Ahead(Existing(g), now) /\ TimelineOf(rows) = Ahead(rows, now)
  BY <1>4, <1>6, TimelineIsAhead
<1>8. segments' \subseteq TimelineOf(rows) /\ segments' \subseteq Segment
  BY <1>1, <1>4, <1>6, <1>7 DEF Ahead, Segment
<1>9. TypeOK'
  <2>1. tx' \in [Grant -> [phase : {"none", "open", "placing", "done"}, seen : SUBSET Id]]
    BY <1>2, <1>3
  <2>2. \A p \in queue' : p.of \in Row /\ p.slots \subseteq Nat /\ p.start \in Nat /\ p.round \in Nat
    BY <1>1, <1>5 DEF Piece
  <2> QED BY <1>1, <1>8, <2>1, <2>2 DEF TypeInv, TypeOK, Segment
<1>10. FiniteSlots'
  <2>1. IsFiniteSet(Taken(TimelineOf(rows)))
    BY DEF TypeInv, FiniteSlots
  <2>2. IsFiniteSet(Taken(segments'))
    BY <1>8, <2>1, TakenOfLess
  <2>3. \A x \in segments' : x.at >= now
    BY <1>1, <1>4, <1>7 DEF Ahead
  <2>4. TimelineOf(rows)' = TimelineOf(rows)
    BY <1>1 DEF TimelineOf, Later
  <2> QED BY <1>1, <2>1, <2>2, <2>3, <2>4 DEF FiniteSlots, Taken
<1>11. Queued'
  BY <1>1, <1>4, <1>5 DEF Queued
<1>12. \A h \in Grant : tx'[h].phase = "placing" <=> h = g
  BY <1>2, <1>3 DEF Placing
<1>13. OnePlacing'
  BY <1>12 DEF OnePlacing, Placing
<1>14. BettersKept'
  <2>1. NewOwner(g)' = NewOwner(g) /\ Existing(g)' = Existing(g)
    BY <1>1, <1>2, <1>3 DEF NewOwner, Existing
  <2>2. \A t : Later(t)' = Later(t)
    BY <1>1 DEF Later
  <2>3. \A r \in Existing(g) : SlotsOf(segments', r) = Later(r.from) .. (r.to - 1)
    <3> SUFFICES ASSUME NEW r \in Existing(g)
                 PROVE  SlotsOf(segments', r) = Later(r.from) .. (r.to - 1)
      OBVIOUS
    <3>1. \A x \in segments' : x.of = r => x.at \in Later(r.from) .. (r.to - 1)
      BY <1>1 DEF TimelineOf
    <3>2. \A t \in Later(r.from) .. (r.to - 1) : [of |-> r, at |-> t] \in segments'
      BY <1>1 DEF TimelineOf
    <3>3. \A t \in Later(r.from) .. (r.to - 1) : \E x \in segments' : x.of = r /\ x.at = t
      BY <3>2
    <3> QED BY <3>1, <3>3 DEF SlotsOf
  <2>4. \A p \in queue' : p.of = NewOwner(g)
    BY <1>1, <1>5
  <2>5. \A h \in Grant : tx'[h].phase = "placing" =>
          /\ \A p \in queue' : p.of = NewOwner(h)' \/ p.of.rank < Rank[h]
          /\ \A r \in Existing(h)' : r.rank >= Rank[h] =>
               SlotsOf(segments', r) = Later(r.from)' .. (r.to - 1)
    BY <1>12, <2>1, <2>2, <2>3, <2>4
  <2> QED BY <2>5 DEF BettersKept, SlotsOf
<1> QED BY <1>9, <1>10, <1>11, <1>13, <1>14 DEF TypeInv

\* What a placement does, for the proofs about it.
LEMMA PlacementStep ==
    ASSUME TypeInv, NEW piece \in queue
    PROVE  LET slots == Allocation(segments, piece)
           IN  /\ piece \in Piece /\ IsFiniteSet(piece.slots) /\ piece.of \in Row
               /\ slots \subseteq Nat /\ IsFiniteSet(slots)
               /\ \A t \in slots : t >= piece.start /\ t >= now /\ t \notin Blocked(segments, piece.of)
               /\ \A t \in slots : \A u \in piece.start .. t :
                    u \in slots \/ u \in Blocked(segments, piece.of)
               /\ ArePieces(Displaced(segments, slots, piece.of, round + 1),
                            segments, slots, piece.of, round + 1)
<1> DEFINE slots == Allocation(segments, piece)
<1>1. /\ piece \in Piece /\ IsFiniteSet(piece.slots) /\ piece.start >= now
      /\ piece.of \in Row /\ piece.start \in Nat
  BY DEF TypeInv, Queued, Piece
<1>2. segments \subseteq Segment /\ IsFiniteSet(Taken(segments)) /\ now \in Nat /\ round + 1 \in Nat
  BY DEF TypeInv, TypeOK, FiniteSlots, Segment
<1>3. Blocked(segments, piece.of) \subseteq Nat /\ IsFiniteSet(Blocked(segments, piece.of))
  BY <1>2, SlotsOfType
<1>4. /\ slots \subseteq Nat /\ IsFiniteSet(slots)
      /\ \A t \in slots : t >= piece.start /\ t \notin Blocked(segments, piece.of)
      /\ \A t \in slots : \A u \in piece.start .. t :
           u \in slots \/ u \in Blocked(segments, piece.of)
  BY <1>1, <1>3, FirstFreeSlots DEF Allocation
<1> HIDE DEF slots
<1>5. \A t \in slots : t >= now
  BY <1>1, <1>2, <1>4
<1>6. ArePieces(Displaced(segments, slots, piece.of, round + 1),
                segments, slots, piece.of, round + 1)
  BY <1>1, <1>2, <1>4, DisplacedPieces
<1> QED BY <1>1, <1>4, <1>5, <1>6 DEF slots

LEMMA PlaceType ==
    ASSUME TypeInv, NEW g \in Grant, Place(g)
    PROVE  TypeInv'
<1>1. PICK piece \in queue :
        /\ segments' = Insert(segments, Allocation(segments, piece), piece.of)
        /\ queue' = (queue \ {piece})
                      \cup Displaced(segments, Allocation(segments, piece), piece.of, round + 1)
  BY DEF Place
<1> DEFINE slots == Allocation(segments, piece)
           owner == piece.of
           D == Displaced(segments, slots, owner, round + 1)
<1>2. /\ now' = now /\ rows' = rows /\ tx' = tx /\ served' = served /\ revoked' = revoked
      /\ round' = round + 1 /\ tx[g].phase = "placing"
  BY DEF Place
<1>3. /\ piece \in Piece /\ owner \in Row /\ slots \subseteq Nat /\ IsFiniteSet(slots)
      /\ \A t \in slots : t >= now
      /\ ArePieces(D, segments, slots, owner, round + 1)
  BY PlacementStep
<1>4. segments' = Insert(segments, slots, owner) /\ queue' = (queue \ {piece}) \cup D
  BY <1>1
<1> HIDE DEF slots, D
<1>5. /\ \A x \in segments' : x \in segments \/ (x = [of |-> owner, at |-> x.at] /\ x.at \in slots)
      /\ \A x \in segments : x.of.rank >= owner.rank => x \in segments'
  BY <1>4 DEF Insert
<1>6. now \in Nat /\ round \in Nat /\ segments \subseteq Segment /\ \A x \in segments : x.at >= now
  BY DEF TypeInv, TypeOK, FiniteSlots, Segment
<1>7. \A p \in D : /\ p \in Piece /\ IsFiniteSet(p.slots) /\ p.slots # {} /\ p.round = round + 1
                   /\ p.of.rank < owner.rank /\ p.start >= now
  <2> SUFFICES ASSUME NEW p \in D  PROVE p.start >= now
    BY <1>3 DEF ArePieces
  <2>1. p \in Piece /\ (p.start - 1 \in slots \/ p.start - 1 \in SlotsOf(segments, p.of))
    BY <1>3 DEF ArePieces
  <2>2. p.start \in Nat /\ p.start - 1 >= now
    BY <1>3, <1>6, <2>1 DEF Piece, SlotsOf
  <2> QED BY <1>6, <2>2
<1>8. segments' \subseteq Segment
  BY <1>3, <1>5, <1>6 DEF Segment
<1>9. \A p \in queue' : /\ p \in Piece /\ IsFiniteSet(p.slots) /\ p.slots # {}
                        /\ p.start >= now /\ p.round <= round + 1
  <2>1. \A p \in queue : /\ p \in Piece /\ IsFiniteSet(p.slots) /\ p.slots # {} /\ p.start >= now
                         /\ p.round <= round /\ p.round \in Nat
    BY DEF TypeInv, Queued, Piece
  <2>2. \A p \in queue : p.round <= round + 1
    BY <1>6, <2>1
  <2> QED BY <1>4, <1>6, <1>7, <2>1, <2>2
<1>10. TypeOK'
  <2>1. \A p \in queue' : p.of \in Row /\ p.slots \subseteq Nat /\ p.start \in Nat /\ p.round \in Nat
    BY <1>9 DEF Piece
  <2> QED BY <1>2, <1>6, <1>8, <2>1 DEF TypeInv, TypeOK, Segment
<1>11. FiniteSlots'
  <2>1. Taken(segments') \subseteq Taken(segments) \cup slots
    BY <1>5 DEF Taken
  <2>2. IsFiniteSet(Taken(segments) \cup slots)
    BY <1>3, FS_Union DEF TypeInv, FiniteSlots
  <2>3. IsFiniteSet(Taken(segments'))
    BY <2>1, <2>2, FS_Subset
  <2>4. \A x \in segments' : x.at >= now
    BY <1>3, <1>5, <1>6
  <2>5. TimelineOf(rows)' = TimelineOf(rows)
    BY <1>2 DEF TimelineOf, Later
  <2>6. IsFiniteSet(Taken(TimelineOf(rows)))
    BY DEF TypeInv, FiniteSlots
  <2> QED BY <1>2, <2>3, <2>4, <2>5, <2>6 DEF FiniteSlots, Taken
<1>12. Queued'
  BY <1>2, <1>9 DEF Queued
<1>13. OnePlacing'
  BY <1>2 DEF TypeInv, OnePlacing, Placing
<1>14. BettersKept'
  <2>1. \A h \in Grant : tx[h].phase = "placing" => h = g
    BY <1>2 DEF TypeInv, OnePlacing
  <2>2. NewOwner(g)' = NewOwner(g) /\ Existing(g)' = Existing(g) /\ \A t : Later(t)' = Later(t)
    BY <1>2 DEF NewOwner, Existing, Later
  <2>3. \A p \in queue : p.of = NewOwner(g) \/ p.of.rank < Rank[g]
    BY <1>2 DEF TypeInv, BettersKept
  <2>4. Rank[g] \in Nat /\ NewOwner(g).rank = Rank[g] /\ owner.rank \in Nat
    BY <1>3, GrantAssumption DEF NewOwner, Row
  <2>5. owner.rank <= Rank[g] /\ (owner = NewOwner(g) \/ owner.rank < Rank[g])
    BY <2>3, <2>4
  <2>6. \A p \in queue' : p.of = NewOwner(g) \/ p.of.rank < Rank[g]
    <3>1. \A p \in D : p.of.rank \in Nat
      BY <1>7 DEF Piece, Row
    <3> QED BY <1>4, <1>7, <2>3, <2>4, <2>5, <3>1
  <2>7. ASSUME NEW r \in Existing(g), r.rank >= Rank[g]
        PROVE  SlotsOf(segments', r) = Later(r.from) .. (r.to - 1)
    <3>1. r \in rows /\ r \in Row /\ r.to > r.from
      BY DEF Existing, TypeInv, TypeOK
    <3>2. r.rank \in Nat /\ r.from \in Nat /\ r.to \in Nat
      BY <3>1 DEF Row
    <3>3. r # NewOwner(g)
      <4>1. NewOwner(g).from = NewOwner(g).to
        BY DEF NewOwner
      <4> QED BY <3>1, <3>2, <4>1
    <3>4. r # owner
      BY <2>4, <2>5, <2>7, <3>2, <3>3
    <3>5. r.rank >= owner.rank
      BY <2>4, <2>5, <2>7, <3>2
    <3>6. \A x \in segments' : x.of = r => x \in segments
      BY <1>5, <3>4
    <3>7. \A x \in segments : x.of = r => x \in segments'
      BY <1>5, <3>5
    <3>8. SlotsOf(segments', r) = SlotsOf(segments, r)
      BY <3>6, <3>7 DEF SlotsOf
    <3> QED BY <1>2, <2>7, <3>8 DEF TypeInv, BettersKept
  <2>8. \A h \in Grant : tx'[h].phase = "placing" =>
          /\ \A p \in queue' : p.of = NewOwner(h)' \/ p.of.rank < Rank[h]
          /\ \A r \in Existing(h)' : r.rank >= Rank[h] =>
               SlotsOf(segments', r) = Later(r.from)' .. (r.to - 1)
    BY <1>2, <2>1, <2>2, <2>6, <2>7
  <2> QED BY <2>8 DEF BettersKept, SlotsOf
<1> QED BY <1>10, <1>11, <1>12, <1>13, <1>14 DEF TypeInv

\* The rows that are written have the slots of the segments, and only these.
LEMMA WrittenRows ==
    ASSUME TypeInv, NEW g \in Grant
    PROVE  LET new == UNION {RowsOf(g, segments, o) : o \in Owners(segments)}
           IN  /\ \A r \in new : r \in Row /\ r.to > now /\ r.to > r.from
               /\ \A r \in new : \E o \in Owners(segments) :
                    /\ r \in RowsOf(g, segments, o)
                    /\ r.grant = o.grant /\ r.rank = o.rank
                    /\ \A t \in Nat : now <= t /\ r.from <= t /\ t < r.to => [of |-> o, at |-> t] \in segments
               /\ \A x \in segments : \E r \in new :
                    /\ r.grant = x.of.grant /\ r.rank = x.of.rank
                    /\ now <= x.at /\ r.from <= x.at /\ x.at < r.to
<1> DEFINE new == UNION {RowsOf(g, segments, o) : o \in Owners(segments)}
<1>1. /\ \A r \in new : \E o \in Owners(segments) : r \in RowsOf(g, segments, o)
      /\ \A o \in Owners(segments) : \A r \in RowsOf(g, segments, o) : r \in new
  OBVIOUS
<1> HIDE DEF new
<1>2. \A o \in Owners(segments) : AreRows(RowsOf(g, segments, o), o, SlotsOf(segments, o))
  BY RowsOfAreRows
<1>3. segments \subseteq Segment
  BY DEF TypeInv, TypeOK, Segment
<1>4. \A o : \A t \in SlotsOf(segments, o) : [of |-> o, at |-> t] \in segments
  BY <1>3 DEF SlotsOf, Segment
<1>5. ASSUME NEW r \in new
      PROVE  /\ r \in Row /\ r.to > now /\ r.to > r.from
             /\ \E o \in Owners(segments) :
                    /\ r \in RowsOf(g, segments, o)
                    /\ r.grant = o.grant /\ r.rank = o.rank
                    /\ \A t \in Nat : now <= t /\ r.from <= t /\ t < r.to => [of |-> o, at |-> t] \in segments
  <2>1. PICK o \in Owners(segments) : r \in RowsOf(g, segments, o)
    BY <1>1
  <2>2. /\ r \in Row /\ r.grant = o.grant /\ r.rank = o.rank /\ r.to > now /\ r.to > r.from
        /\ \A t \in Nat : now <= t /\ r.from <= t /\ t < r.to => t \in SlotsOf(segments, o)
    BY <1>2, <2>1 DEF AreRows
  <2> QED BY <1>4, <2>1, <2>2
<1>6. ASSUME NEW x \in segments
      PROVE  \E r \in new : /\ r.grant = x.of.grant /\ r.rank = x.of.rank
                            /\ now <= x.at /\ r.from <= x.at /\ x.at < r.to
  <2>1. x.of \in Owners(segments) /\ x.at \in SlotsOf(segments, x.of)
    BY DEF Owners, SlotsOf
  <2>2. PICK r \in RowsOf(g, segments, x.of) : now <= x.at /\ r.from <= x.at /\ x.at < r.to
    BY <1>2, <2>1 DEF AreRows
  <2>3. r.grant = x.of.grant /\ r.rank = x.of.rank
    BY <1>2, <2>1 DEF AreRows
  <2> QED BY <1>1, <2>1, <2>2, <2>3
<1> QED BY <1>5, <1>6 DEF new

LEMMA DoneType ==
    ASSUME TypeInv, NEW g \in Grant, Done(g)
    PROVE  /\ tx' \in [Grant -> [phase : {"none", "open", "placing", "done"}, seen : SUBSET Id]]
           /\ tx'[g].phase = "done"
           /\ \A h \in Grant : h # g => tx'[h] = tx[h]
<1>1. tx \in [Grant -> [phase : {"none", "open", "placing", "done"}, seen : SUBSET Id]]
  BY DEF TypeInv, TypeOK
<1> QED BY <1>1 DEF Done

LEMMA ApplyType ==
    ASSUME TypeInv, NEW g \in Grant, ApplySubscriptionTimeline(g)
    PROVE  TypeInv'
<1> DEFINE new == UNION {RowsOf(g, segments, o) : o \in Owners(segments)}
<1>1. /\ now' = now /\ served' = served /\ revoked' = revoked
      /\ rows' = (rows \ Existing(g)) \cup new
      /\ segments' = {} /\ queue' = {} /\ round' = 0
      /\ tx[g].phase = "placing" /\ Done(g)
  BY DEF ApplySubscriptionTimeline
<1>2. /\ \A r \in new : r \in Row /\ r.to > now /\ r.to > r.from
      /\ \A r \in new : \E o \in Owners(segments) :
           \A t \in Nat : now <= t /\ r.from <= t /\ t < r.to => [of |-> o, at |-> t] \in segments
  BY WrittenRows
<1> HIDE DEF new
<1>3. now \in Nat /\ rows \subseteq Row /\ \A r \in rows : r.to > now /\ r.to > r.from
  BY DEF TypeInv, TypeOK
<1>4. rows' \subseteq Row /\ \A r \in rows' : r.to > now' /\ r.to > r.from
  BY <1>1, <1>2, <1>3
<1>5. TypeOK'
  BY <1>1, <1>4, DoneType DEF TypeInv, TypeOK
<1>6. FiniteSlots'
  <2>1. TimelineOf(rows)' = Ahead(rows', now) /\ TimelineOf(rows) = Ahead(rows, now)
    BY <1>1, <1>3, <1>4, TimelineIsAhead, TimelineIsAheadNext
  <2>2. Taken(TimelineOf(rows)') \subseteq Taken(TimelineOf(rows)) \cup Taken(segments)
    <3> SUFFICES ASSUME NEW x \in Ahead(rows', now)
                 PROVE  x.at \in Taken(Ahead(rows, now)) \/ x.at \in Taken(segments)
      BY <2>1 DEF Taken
    <3>1. /\ x.of \in rows' /\ x.at \in Nat
          /\ now <= x.at /\ x.of.from <= x.at /\ x.at < x.of.to
      BY DEF Ahead
    <3>2. CASE x.of \in rows
      BY <3>1, <3>2 DEF Ahead, Taken
    <3>3. CASE x.of \in new
      <4>1. PICK o \in Owners(segments) : [of |-> o, at |-> x.at] \in segments
        BY <1>2, <3>1, <3>3
      <4>2. [of |-> o, at |-> x.at].at = x.at
        OBVIOUS
      <4> QED BY <4>1, <4>2 DEF Taken
    <3> QED BY <1>1, <3>1, <3>2, <3>3
  <2>3. IsFiniteSet(Taken(TimelineOf(rows)) \cup Taken(segments))
    BY FS_Union DEF TypeInv, FiniteSlots
  <2>4. IsFiniteSet(Taken(TimelineOf(rows)'))
    BY <2>2, <2>3, FS_Subset
  <2>5. Taken(segments') = {}
    BY <1>1 DEF Taken
  <2> QED BY <1>1, <2>4, <2>5, FS_EmptySet DEF FiniteSlots, Taken
<1>7. Queued'
  BY <1>1 DEF Queued
<1>8. \A h \in Grant : tx'[h].phase # "placing"
  BY <1>1, DoneType DEF TypeInv, OnePlacing
<1>9. OnePlacing' /\ BettersKept'
  BY <1>1, <1>8 DEF OnePlacing, BettersKept
<1> QED BY <1>5, <1>6, <1>7, <1>9 DEF TypeInv

LEMMA ReplaceType ==
    ASSUME TypeInv, NEW g \in Grant, ReplaceSubscription(g)
    PROVE  TypeInv'
<1> DEFINE row == [NewOwner(g) EXCEPT !.to = now + Duration[g]]
           lost(h) == Cardinality(Held(TimelineOf(Existing(g)), h))
<1>1. /\ now' = now /\ segments' = segments /\ queue' = queue /\ round' = round /\ served' = served
      /\ rows' = (rows \ Existing(g)) \cup {row}
      /\ revoked' = [h \in Grant |-> revoked[h] + lost(h)]
      /\ ~Placing /\ Done(g)
  BY DEF ReplaceSubscription, loop
<1>2. now \in Nat /\ rows \subseteq Row /\ \A r \in rows : r.to > now /\ r.to > r.from
  BY DEF TypeInv, TypeOK
<1>3. row \in Row /\ row.from = now /\ row.to = now + Duration[g] /\ row.to > now /\ row.to \in Nat
  <2>1. Duration[g] \in Nat \ {0}
    BY GrantAssumption
  <2>2. NewOwner(g) \in Row /\ NewOwner(g).from = now
    BY NewOwnerType DEF TypeInv, NewOwner
  <2>3. now + Duration[g] \in Nat /\ now + Duration[g] > now
    BY <1>2, <2>1
  <2> QED BY <2>2, <2>3 DEF Row
<1> HIDE DEF row
<1>4. rows' \subseteq Row /\ \A r \in rows' : r.to > now' /\ r.to > r.from
  BY <1>1, <1>2, <1>3
<1>5. \A h \in Grant : lost(h) \in Nat
  <2> TAKE h \in Grant
  <2>1. TimelineOf(rows) = Ahead(rows, now) /\ TimelineOf(Existing(g)) = Ahead(Existing(g), now)
    BY <1>2, TimelineIsAhead DEF Existing
  <2>2. TimelineOf(Existing(g)) \subseteq TimelineOf(rows) /\ TimelineOf(Existing(g)) \subseteq Segment
    BY <1>2, <2>1 DEF Ahead, Existing, Segment
  <2>3. IsFiniteSet(Taken(TimelineOf(Existing(g))))
    BY <2>2, TakenOfLess DEF TypeInv, FiniteSlots
  <2>4. IsFiniteSet(Held(TimelineOf(Existing(g)), h))
    BY <2>2, <2>3, SlotsOfType
  <2> QED BY <2>4, FS_CardinalityType
<1> HIDE DEF lost
<1>6. revoked' \in [Grant -> Nat]
  <2>1. \A h \in Grant : revoked[h] \in Nat
    BY DEF TypeInv, TypeOK
  <2> QED BY <1>1, <1>5, <2>1
<1>7. TypeOK'
  BY <1>1, <1>4, <1>6, DoneType DEF TypeInv, TypeOK
<1>8. FiniteSlots'
  <2>1. TimelineOf(rows)' = Ahead(rows', now) /\ TimelineOf(rows) = Ahead(rows, now)
    BY <1>1, <1>2, <1>4, TimelineIsAhead, TimelineIsAheadNext
  <2>2. Taken(TimelineOf(rows)') \subseteq Taken(TimelineOf(rows)) \cup (now .. row.to)
    <3> SUFFICES ASSUME NEW x \in Ahead(rows', now)
                 PROVE  x.at \in Taken(Ahead(rows, now)) \/ x.at \in now .. row.to
      BY <2>1 DEF Taken
    <3>1. /\ x.of \in rows' /\ x.at \in Nat
          /\ now <= x.at /\ x.of.from <= x.at /\ x.at < x.of.to
      BY DEF Ahead
    <3>2. CASE x.of \in rows
      BY <3>1, <3>2 DEF Ahead, Taken
    <3>3. CASE x.of = row
      BY <1>2, <1>3, <3>1, <3>3
    <3> QED BY <1>1, <3>1, <3>2, <3>3
  <2>3. IsFiniteSet(now .. row.to)
    BY <1>2, <1>3, FS_Interval
  <2>4. IsFiniteSet(Taken(TimelineOf(rows)) \cup (now .. row.to))
    BY <2>3, FS_Union DEF TypeInv, FiniteSlots
  <2>5. IsFiniteSet(Taken(TimelineOf(rows)'))
    BY <2>2, <2>4, FS_Subset
  <2> QED BY <1>1, <2>5 DEF TypeInv, FiniteSlots, Taken
<1>9. Queued'
  BY <1>1 DEF TypeInv, Queued
<1>10. \A h \in Grant : tx'[h].phase # "placing"
  BY <1>1, DoneType DEF Placing
<1>11. OnePlacing' /\ BettersKept'
  BY <1>1, <1>10 DEF TypeInv, OnePlacing, BettersKept
<1> QED BY <1>7, <1>8, <1>9, <1>11 DEF TypeInv

LEMMA TickType ==
    ASSUME TypeInv, Tick
    PROVE  TypeInv'
<1>1. /\ now < MaxTime /\ now' = now + 1 /\ tx' = tx /\ revoked' = revoked
      /\ segments' = segments /\ queue' = queue /\ round' = round
      /\ rows' = {r \in rows : r.to > now + 1}
      /\ \A g \in Grant : tx[g].phase \in {"none", "done"}
  BY DEF Tick, loop, InForce
<1>2. now \in 0 .. MaxTime /\ now \in Nat /\ rows \subseteq Row /\ \A r \in rows : r.to > now /\ r.to > r.from
  BY DEF TypeInv, TypeOK
<1>3. now' \in 0 .. MaxTime
  BY <1>1, <1>2, GrantAssumption
<1>4. rows' \subseteq rows /\ \A r \in rows' : r.to > now' /\ r.to > r.from
  BY <1>1, <1>2
<1>5. served' \in [Grant -> Nat]
  <2>1. served \in [Grant -> Nat]
    BY DEF TypeInv, TypeOK
  <2>2. ASSUME NEW c  PROVE [served EXCEPT ![c] = @ + 1] \in [Grant -> Nat]
    <3>1. [served EXCEPT ![c] = @ + 1] = [g \in Grant |-> IF g = c THEN served[g] + 1 ELSE served[g]]
      BY <2>1
    <3>2. \A g \in Grant : served[g] \in Nat /\ served[g] + 1 \in Nat
      BY <2>1
    <3> QED BY <3>1, <3>2
  <2> QED BY <2>1, <2>2 DEF Tick
<1>6. TypeOK'
  BY <1>1, <1>2, <1>3, <1>4, <1>5 DEF TypeInv, TypeOK
<1>7. \A g \in Grant : tx[g].phase # "placing"
  BY <1>1
<1>8. segments = {} /\ queue = {}
  BY <1>7 DEF TypeInv, OnePlacing, Placing
<1>9. FiniteSlots'
  <2>1. TimelineOf(rows)' = Ahead(rows', now + 1) /\ TimelineOf(rows) = Ahead(rows, now)
    <3>1. now' \in Nat /\ rows' \subseteq Row
      BY <1>1, <1>2, <1>4
    <3> QED BY <1>1, <1>2, <3>1, TimelineIsAhead, TimelineIsAheadNext
  <2>2. Taken(TimelineOf(rows)') \subseteq Taken(TimelineOf(rows))
    BY <1>2, <1>4, <2>1 DEF Taken, Ahead
  <2>3. IsFiniteSet(Taken(TimelineOf(rows)'))
    BY <2>2, FS_Subset DEF TypeInv, FiniteSlots
  <2>4. Taken(segments') = {}
    BY <1>1, <1>8 DEF Taken
  <2> QED BY <1>1, <1>8, <2>3, <2>4, FS_EmptySet DEF FiniteSlots, Taken
<1>10. Queued'
  BY <1>1, <1>8 DEF Queued
<1>11. OnePlacing' /\ BettersKept'
  BY <1>1, <1>7, <1>8 DEF OnePlacing, BettersKept
<1> QED BY <1>6, <1>9, <1>10, <1>11 DEF TypeInv

LEMMA TypeStep == TypeInv /\ [Next]_vars => TypeInv'
<1> SUFFICES ASSUME TypeInv, [Next]_vars PROVE TypeInv'
  OBVIOUS
<1>1. ASSUME NEW g \in Grant, Begin(g)  PROVE TypeInv'
  BY <1>1, BeginType
<1>2. ASSUME NEW g \in Grant, GrantSubscriptionOnTimeline(g)  PROVE TypeInv'
  BY <1>2, GrantType
<1>3. ASSUME NEW g \in Grant, Place(g)  PROVE TypeInv'
  BY <1>3, PlaceType
<1>4. ASSUME NEW g \in Grant, ApplySubscriptionTimeline(g)  PROVE TypeInv'
  BY <1>4, ApplyType
<1>5. ASSUME NEW g \in Grant, ReplaceSubscription(g)  PROVE TypeInv'
  BY <1>5, ReplaceType
<1>6. CASE Tick
  BY <1>6, TickType
<1>7. CASE UNCHANGED vars
  BY <1>7 DEF vars, loop, TypeInv, TypeOK, FiniteSlots, Queued, OnePlacing, Placing, BettersKept,
              TimelineOf, Later, Existing, NewOwner, Taken, SlotsOf
<1> QED BY <1>1, <1>2, <1>3, <1>4, <1>5, <1>6, <1>7 DEF Next

\* A queue has a head: of the pieces that were displaced last, one that was first.
QueueHasHead == queue # {} => \E piece \in queue : IsHead(piece, queue)

\* However transactions overlap, the loop of a grant is never stuck with pieces
\* left to place (buildSubscriptionTimeline goes on with queue[0], for every
\* piece that is displaced has a length).
THEOREM PlacingGoesOn == Spec => []QueueHasHead
<1>1. Spec => []TypeInv
  BY TypeInit, TypeStep, PTL DEF Spec
<1>2. TypeInv => QueueHasHead
  <2> SUFFICES ASSUME TypeInv, queue # {}
               PROVE  \E piece \in queue : IsHead(piece, queue)
    BY DEF QueueHasHead
  <2>1. \A p \in queue : /\ p.round \in Nat /\ p.round <= round /\ round \in Nat
                         /\ p.slots \subseteq Nat /\ p.slots # {}
    BY DEF TypeInv, TypeOK, Queued, Piece
  <2>2. \A p \in queue : Min(p.slots) \in Nat
    <3> TAKE p \in queue
    <3>1. p.slots \subseteq Nat /\ p.slots # {}
      BY <2>1
    <3>2. Min(p.slots) \in p.slots
      BY <3>1, MinOf
    <3> QED BY <3>1, <3>2
  <2> DEFINE Ages == {round - p.round : p \in queue}
  <2>3. Ages \subseteq Nat /\ Ages # {}
    BY <2>1
  <2>4. Min(Ages) \in Ages /\ \A n \in Ages : Min(Ages) <= n
    BY <2>3, MinOf
  <2>5. PICK p \in queue : \A q \in queue : q.round <= p.round
    <3>1. PICK p \in queue : Min(Ages) = round - p.round
      BY <2>4
    <3>2. \A q \in queue : round - p.round <= round - q.round
      BY <2>4, <3>1
    <3> QED BY <2>1, <3>2
  <2> HIDE DEF Ages
  <2> DEFINE Latest == {q \in queue : q.round = p.round}
             Firsts == {Min(q.slots) : q \in Latest}
  <2>6. Firsts \subseteq Nat /\ Firsts # {}
    BY <2>2
  <2>7. Min(Firsts) \in Firsts /\ \A n \in Firsts : Min(Firsts) <= n
    BY <2>6, MinOf
  <2>8. PICK piece \in Latest : \A q \in Latest : Min(piece.slots) <= Min(q.slots)
    <3>1. PICK piece \in Latest : Min(Firsts) = Min(piece.slots)
      BY <2>7
    <3> QED BY <2>7, <3>1
  <2>9. \A q \in queue : q.round < piece.round \/ (q \in Latest /\ q.round = piece.round)
    <3>1. \A q \in queue : q.round < p.round \/ q.round = p.round
      BY <2>1, <2>5
    <3> QED BY <3>1
  <2>10. IsHead(piece, queue)
    BY <2>8, <2>9 DEF IsHead
  <2> QED BY <2>8, <2>10
<1> QED BY <1>1, <1>2, PTL

\* Whether or not transactions overlap, the loop of every grant works on its
\* own data, and what it writes are periods that end after they begin, in the
\* future (applySubscriptionTimeline, createSubscriptionSegment).
THEOREM SubscriptionTypes == Spec => []TypeOK
<1>1. Spec => []TypeInv
  BY TypeInit, TypeStep, PTL DEF Spec
<1>2. TypeInv => TypeOK
  BY DEF TypeInv
<1> QED BY <1>1, <1>2, PTL

\* A grant does not touch the rows of the same or a better plan, not even to
\* split or replace them: nothing of them is displaced, so they have the slots
\* they had, in one run, and the first run of an owner's slots updates its row.
THEOREM BetterPlansAreKept == Spec => BetterPlansStay
<1>1. Spec => []TypeInv
  BY TypeInit, TypeStep, PTL DEF Spec
<1> DEFINE Stay == \A g \in Grant : g \notin Manual /\ tx'[g].phase # tx[g].phase =>
                     \A r \in rows : r.rank >= Rank[g] => r \in rows'
<1>2. TypeInv /\ [Next]_vars => Stay \/ UNCHANGED vars
  <2> SUFFICES ASSUME TypeInv, Next, NEW h \in Grant, h \notin Manual, tx'[h].phase # tx[h].phase,
                      NEW r \in rows, r.rank >= Rank[h]
               PROVE  r \in rows'
    OBVIOUS
  <2>1. ASSUME NEW g \in Grant, Begin(g) \/ GrantSubscriptionOnTimeline(g) \/ Place(g)
        PROVE  r \in rows'
    BY <2>1 DEF Begin, GrantSubscriptionOnTimeline, Place
  <2>2. ASSUME NEW g \in Grant, ApplySubscriptionTimeline(g)
        PROVE  r \in rows'
    <3>1. h = g
      BY <2>2, DoneType DEF ApplySubscriptionTimeline
    <3>2. CASE r \in Existing(g)
      <4>1. SlotsOf(segments, r) = Later(r.from) .. (r.to - 1)
        BY <2>2, <3>1, <3>2 DEF TypeInv, BettersKept, ApplySubscriptionTimeline
      <4>2. r \in Owners(segments) /\ r \in RowsOf(g, segments, r)
        BY <4>1, SameSlotsSameRow
      <4> QED BY <2>2, <4>2 DEF ApplySubscriptionTimeline
    <3>3. CASE r \notin Existing(g)
      BY <2>2, <3>3 DEF ApplySubscriptionTimeline
    <3> QED BY <3>2, <3>3
  <2>3. ASSUME NEW g \in Grant, ReplaceSubscription(g)
        PROVE  r \in rows'
    <3>1. h = g /\ g \in Manual
      BY <2>3, DoneType DEF ReplaceSubscription
    <3> QED BY <3>1
  <2>4. ASSUME Tick  PROVE r \in rows'
    BY <2>4 DEF Tick
  <2> QED BY <2>1, <2>2, <2>3, <2>4 DEF Next
<1>3. TypeInv /\ [Next]_vars => [Stay]_vars
  BY <1>2
<1> QED BY <1>1, <1>3, PTL DEF Spec, BetterPlansStay

-----------------------------------------------------------------------------
(***************************************************************************)
(* Transactions that may overlap: time can be wasted, but none is given    *)
(* that was not paid for.                                                  *)
(***************************************************************************)

\* What a grant has served, what is left of it and what an administrator took
\* is at most what was paid for.
NothingGivenTwice ==
    \A g \in Grant : served[g] + Remaining(g) + revoked[g] <= Duration[g]

LEMMA RowsAhead ==
    ASSUME TypeInv, FiniteRows, NEW set, set \subseteq rows
    PROVE  /\ TimelineOf(set) = Ahead(set, now) /\ IsFiniteSet(Ahead(set, now))
           /\ Ahead(set, now) \subseteq Ahead(rows, now)
<1>1. now \in Nat /\ rows \subseteq Row
  BY DEF TypeInv, TypeOK
<1>2. TimelineOf(set) = Ahead(set, now) /\ TimelineOf(rows) = Ahead(rows, now)
  BY <1>1, TimelineIsAhead
<1> DEFINE T == Ahead(rows, now)
           f == [x \in T |-> <<x.of, x.at>>]
<1>3. \A x \in T : x = [of |-> x.of, at |-> x.at] /\ x.of \in rows /\ x.at \in Taken(T)
  BY DEF Ahead, Taken
<1>4. Ahead(set, now) \subseteq T
  BY DEF Ahead
<1> HIDE DEF T
<1>5. f \in Injection(T, rows \X Taken(T))
  <2>1. \A x, y \in T : <<x.of, x.at>> = <<y.of, y.at>> => x = y
    BY <1>3
  <2>2. \A x, y \in T : f[x] = f[y] => x = y
    BY <2>1
  <2>3. f \in [T -> rows \X Taken(T)]
    BY <1>3
  <2> QED BY <2>2, <2>3 DEF Injection, IsInjective
<1>6. IsFiniteSet(rows \X Taken(T))
  BY <1>2, FS_Product DEF FiniteRows, TypeInv, FiniteSlots, T
<1>7. IsFiniteSet(T)
  BY <1>5, <1>6, FS_Injection
<1>8. IsFiniteSet(Ahead(set, now))
  BY <1>4, <1>7, FS_Subset
<1> QED BY <1>2, <1>4, <1>8 DEF T

LEMMA OverlapInit == Init => OverlapInv
<1> SUFFICES ASSUME Init PROVE OverlapInv
  OBVIOUS
<1>1. TimelineOf(rows) = {} /\ rows = {} /\ segments = {}
  BY DEF Init, TimelineOf
<1>2. \A h \in Grant : Waiting(queue, h) = {}
  BY DEF Init, Waiting
<1>3. \A g \in Grant : tx[g].phase = "none" /\ served[g] = 0 /\ revoked[g] = 0
  BY DEF Init
<1>4. FiniteRows
  BY <1>1, FS_EmptySet DEF FiniteRows
<1>5. LoopConserves
  BY <1>2, <1>3, FS_EmptySet DEF LoopConserves
<1>6. NotYetMade
  BY <1>1, <1>3 DEF NotYetMade, Held
<1>7. AtMostGranted
  <2> SUFFICES ASSUME NEW g \in Grant
               PROVE  served[g] + Cardinality(Cells(TimelineOf(rows), g)) + revoked[g] <= Duration[g]
    BY DEF AtMostGranted
  <2>1. Cells(TimelineOf(rows), g) = {}
    BY <1>1 DEF Cells
  <2>2. Duration[g] \in Nat
    BY GrantAssumption
  <2> QED BY <1>3, <2>1, <2>2, FS_EmptySet
<1> QED BY <1>4, <1>5, <1>6, <1>7 DEF OverlapInv

\* A step that changes neither the rows nor what was served keeps the accounts.
LEMMA SameRows ==
    ASSUME OverlapInv, now' = now, rows' = rows, served' = served, revoked' = revoked,
           \A g \in Grant : tx'[g].phase = "done" <=> tx[g].phase = "done"
    PROVE  /\ TimelineOf(rows)' = TimelineOf(rows)
           /\ NotYetMade' /\ AtMostGranted'
<1>1. TimelineOf(rows)' = TimelineOf(rows)
  BY DEF TimelineOf, Later
<1>2. \A h : /\ Held(TimelineOf(rows), h)' = Held(TimelineOf(rows), h)
             /\ Cells(TimelineOf(rows), h)' = Cells(TimelineOf(rows), h)
  BY <1>1 DEF Held, Cells
<1>3. NotYetMade'
  BY <1>2 DEF OverlapInv, NotYetMade
<1>4. AtMostGranted'
  BY <1>2 DEF OverlapInv, AtMostGranted
<1> QED BY <1>1, <1>3, <1>4

LEMMA BeginOverlap ==
    ASSUME TypeInv, OverlapInv, NEW g \in Grant, Begin(g)
    PROVE  OverlapInv'
<1>1. /\ now' = now /\ rows' = rows /\ segments' = segments /\ queue' = queue
      /\ served' = served /\ revoked' = revoked
      /\ tx[g].phase = "none" /\ tx' = [tx EXCEPT ![g] = [phase |-> "open", seen |-> Ids(rows)]]
  BY DEF Begin, loop
<1>2. tx'[g].phase = "open" /\ \A h \in Grant : h # g => tx'[h] = tx[h]
  BY <1>1 DEF TypeInv, TypeOK
<1>3. \A h \in Grant : tx'[h].phase = "done" <=> tx[h].phase = "done"
  BY <1>1, <1>2
<1>4. NotYetMade' /\ AtMostGranted'
  BY <1>1, <1>3, SameRows
<1>5. \A f \in Grant : tx'[f].phase = "placing" =>
         tx[f].phase = "placing" /\ TimelineOf(Existing(f))' = TimelineOf(Existing(f))
  BY <1>1, <1>2 DEF TimelineOf, Later, Existing
<1>6. LoopConserves'
  BY <1>1, <1>5 DEF OverlapInv, LoopConserves, Cells, Waiting
<1>7. FiniteRows'
  BY <1>1 DEF OverlapInv, FiniteRows
<1> QED BY <1>4, <1>6, <1>7 DEF OverlapInv

LEMMA GrantOverlap ==
    ASSUME TypeInv, OverlapInv, NEW g \in Grant, GrantSubscriptionOnTimeline(g)
    PROVE  OverlapInv'
<1> DEFINE d == Duration[g]
           piece == [of |-> NewOwner(g), slots |-> now .. (now + d - 1), round |-> 0, start |-> now]
<1>1. /\ now' = now /\ rows' = rows /\ served' = served /\ revoked' = revoked
      /\ queue' = {piece} /\ segments' = TimelineOf(Existing(g)) /\ ~Placing
      /\ tx[g].phase = "open" /\ tx' = [tx EXCEPT ![g].phase = "placing"]
  BY DEF GrantSubscriptionOnTimeline
<1>2. tx \in [Grant -> [phase : {"none", "open", "placing", "done"}, seen : SUBSET Id]]
  BY DEF TypeInv, TypeOK
<1>3. /\ tx'[g].phase = "placing" /\ tx'[g].seen = tx[g].seen
      /\ \A h \in Grant : h # g => tx'[h] = tx[h]
  BY <1>1, <1>2
<1>4. \A h \in Grant : tx'[h].phase = "placing" => h = g
  BY <1>1, <1>3 DEF Placing
<1>5. \A h \in Grant : tx'[h].phase = "done" <=> tx[h].phase = "done"
  BY <1>1, <1>3
<1>6. NotYetMade' /\ AtMostGranted'
  BY <1>1, <1>5, SameRows
<1>7. now \in Nat /\ d \in Nat \ {0} /\ NewOwner(g).grant = g
  BY GrantAssumption, NewOwnerType DEF TypeInv, TypeOK
<1>8. piece.slots = now .. (now + d - 1) /\ piece.of = NewOwner(g)
  OBVIOUS
<1> HIDE DEF piece
<1>9. /\ IsFiniteSet(piece.slots) /\ Cardinality(piece.slots) = d
      /\ piece.slots \subseteq Nat
  <2> DEFINE last == now + d - 1
  <2>1. last \in Nat /\ now <= last /\ last - now + 1 = d
    BY <1>7
  <2>2. piece.slots = now .. last
    BY <1>8
  <2> HIDE DEF last
  <2>3. IsFiniteSet(now .. last)
    BY <1>7, <2>1, FS_Interval
  <2>4. Cardinality(now .. last) = IF now > last THEN 0 ELSE last - now + 1
    BY <1>7, <2>1, FS_Interval
  <2>5. now .. last \subseteq Nat
    BY <1>7, <2>1
  <2>6. Cardinality(now .. last) = d
    BY <1>7, <2>1, <2>4
  <2> QED BY <2>2, <2>3, <2>5, <2>6
<1>10. ASSUME NEW h \in Grant
       PROVE  /\ IsFiniteSet(Waiting(queue', h))
              /\ Cardinality(Waiting(queue', h)) = IF h = g THEN d ELSE 0
  BY <1>1, <1>7, <1>8, <1>9, WaitingForOne
<1>11. /\ segments' = Ahead(Existing(g), now) /\ IsFiniteSet(segments')
       /\ segments' \subseteq Ahead(rows, now) /\ TimelineOf(rows) = Ahead(rows, now)
  BY <1>1, RowsAhead DEF OverlapInv, Existing
<1>12. FiniteRows'
  BY <1>1, <1>11 DEF OverlapInv, FiniteRows
<1>13. Cells(segments', g) = {}
  <2>1. Held(TimelineOf(rows), g) = {}
    BY <1>1 DEF OverlapInv, NotYetMade
  <2> QED BY <1>11, <2>1 DEF Held, Cells
<1>14. TimelineOf(Existing(g))' = segments'
  <2>1. Existing(g)' = Existing(g)
    BY <1>1, <1>3 DEF Existing
  <2> QED BY <1>1, <2>1 DEF TimelineOf, Later
<1>15. LoopConserves'
  <2>1. ASSUME NEW h \in Grant
        PROVE  Cardinality(Cells(segments', h)) + Cardinality(Waiting(queue', h)) =
                 IF h = g THEN d ELSE Cardinality(Cells(segments', h))
    <3>1. CASE h = g
      <4>1. Cardinality(Cells(segments', h)) = 0
        BY <1>13, <3>1, FS_EmptySet
      <4> QED BY <1>7, <1>10, <3>1, <4>1
    <3>2. CASE h # g
      <4>1. Cardinality(Cells(segments', h)) \in Nat
        BY <1>11, SlotsOfCells
      <4> QED BY <1>10, <3>2, <4>1
    <3> QED BY <3>1, <3>2
  <2> QED BY <1>4, <1>10, <1>14, <2>1 DEF LoopConserves, Waiting, Cells
<1> QED BY <1>6, <1>12, <1>15 DEF OverlapInv

LEMMA PlaceOverlap ==
    ASSUME TypeInv, OverlapInv, NEW g \in Grant, Place(g)
    PROVE  OverlapInv'
<1>1. PICK piece \in queue :
        /\ segments' = Insert(segments, Allocation(segments, piece), piece.of)
        /\ queue' = (queue \ {piece})
                      \cup Displaced(segments, Allocation(segments, piece), piece.of, round + 1)
  BY DEF Place
<1>2. /\ now' = now /\ rows' = rows /\ tx' = tx /\ served' = served /\ revoked' = revoked
      /\ tx[g].phase = "placing"
  BY DEF Place
<1>3. /\ piece \in Piece /\ IsFiniteSet(piece.slots) /\ segments \subseteq Segment
      /\ IsFiniteSet(segments) /\ round + 1 \in Nat /\ \A p \in queue : p.round # round + 1
  <2>1. round \in Nat /\ \A p \in queue : p.round \in Nat /\ p.round <= round
    BY DEF TypeInv, TypeOK, Queued, Piece
  <2>2. round + 1 \in Nat /\ \A p \in queue : p.round # round + 1
    BY <2>1
  <2> QED BY <2>2 DEF TypeInv, TypeOK, Queued, Segment, OverlapInv, FiniteRows
<1>4. ASSUME NEW h \in Grant
      PROVE  /\ IsFiniteSet(segments') /\ IsFiniteSet(Waiting(queue', h))
             /\ Cardinality(Cells(segments', h)) + Cardinality(Waiting(queue', h)) =
                  Cardinality(Cells(segments, h)) + Cardinality(Waiting(queue, h))
  <2>1. IsFiniteSet(Waiting(queue, h))
    BY DEF OverlapInv, LoopConserves
  <2> DEFINE slots == Allocation(segments, piece)
             D == Displaced(segments, slots, piece.of, round + 1)
  <2>2. /\ IsFiniteSet(Insert(segments, slots, piece.of))
        /\ IsFiniteSet(Waiting((queue \ {piece}) \cup D, h))
        /\ Cardinality(Cells(Insert(segments, slots, piece.of), h))
             + Cardinality(Waiting((queue \ {piece}) \cup D, h)) =
             Cardinality(Cells(segments, h)) + Cardinality(Waiting(queue, h))
    BY <1>3, <2>1, PlacementConserves
  <2> QED BY <1>1, <2>2
<1>5. FiniteRows'
  BY <1>2, <1>4 DEF OverlapInv, FiniteRows
<1>6. NotYetMade' /\ AtMostGranted'
  BY <1>2, SameRows
<1>7. \A f : TimelineOf(Existing(f))' = TimelineOf(Existing(f))
  BY <1>2 DEF TimelineOf, Later, Existing
<1>8. LoopConserves'
  <2>1. \A f, h \in Grant : tx[f].phase = "placing" =>
          Cardinality(Cells(segments', h)) + Cardinality(Waiting(queue', h)) =
            IF h = f THEN Duration[f] ELSE Cardinality(Cells(TimelineOf(Existing(f)), h))
    BY <1>4 DEF OverlapInv, LoopConserves
  <2>2. \A f, h \in Grant : tx'[f].phase = "placing" =>
          Cardinality(Cells(segments', h)) + Cardinality(Waiting(queue', h)) =
            IF h = f THEN Duration[f] ELSE Cardinality(Cells(TimelineOf(Existing(f))', h))
    BY <1>2, <1>7, <2>1
  <2> QED BY <1>4, <2>2 DEF LoopConserves, Cells, Waiting
<1> QED BY <1>5, <1>6, <1>8 DEF OverlapInv

\* What is written has no more segments of a grant than the timeline has: each
\* segment of a row has one of the timeline to itself.
LEMMA WrittenCells ==
    ASSUME TypeInv, IsFiniteSet(segments), NEW g \in Grant, NEW h
    PROVE  LET new == UNION {RowsOf(g, segments, o) : o \in Owners(segments)}
           IN  /\ IsFiniteSet(new) /\ new \subseteq Row /\ IsFiniteSet(Ahead(new, now))
               /\ Cardinality(Cells(Ahead(new, now), h)) \in Nat
               /\ Cardinality(Cells(Ahead(new, now), h)) <= Cardinality(Cells(segments, h))
<1> DEFINE new == UNION {RowsOf(g, segments, o) : o \in Owners(segments)}
           T == Ahead(new, now)
           From(x, y) == y.at = x.at /\ y.of.grant = x.of.grant /\ x.of \in RowsOf(g, segments, y.of)
           f == [x \in T |-> CHOOSE y \in segments : From(x, y)]
           C == Cells(T, h)
           e == [x \in C |-> f[x]]
           k == [r \in new |-> [of |-> r, at |-> Later(r.from)]]
<1>1. /\ \A r \in new : r \in Row /\ r.to > now /\ r.to > r.from
      /\ \A r \in new : \E o \in Owners(segments) :
           /\ r \in RowsOf(g, segments, o)
           /\ r.grant = o.grant /\ r.rank = o.rank
           /\ \A t \in Nat : now <= t /\ r.from <= t /\ t < r.to => [of |-> o, at |-> t] \in segments
  BY WrittenRows
<1> HIDE DEF new
<1>2. now \in Nat
  BY DEF TypeInv, TypeOK
<1>3. \A x \in T : /\ x.of \in new /\ x.at \in Nat /\ x = [of |-> x.of, at |-> x.at]
                   /\ now <= x.at /\ x.of.from <= x.at /\ x.at < x.of.to
  BY DEF Ahead
<1>4. \A r \in new : [of |-> r, at |-> Later(r.from)] \in T
  <2> TAKE r \in new
  <2>1. r.from \in Nat /\ r.to \in Nat /\ r.to > now /\ r.to > r.from
    BY <1>1 DEF Row
  <2>2. Later(r.from) \in Nat /\ now <= Later(r.from) /\ r.from <= Later(r.from) /\ Later(r.from) < r.to
    BY <1>2, <2>1 DEF Later
  <2> QED BY <2>2 DEF Ahead
<1> HIDE DEF T
<1>5. ASSUME NEW x \in T  PROVE \E y \in segments : From(x, y)
  <2>1. PICK o \in Owners(segments) :
          /\ x.of \in RowsOf(g, segments, o)
          /\ x.of.grant = o.grant
          /\ [of |-> o, at |-> x.at] \in segments
    BY <1>1, <1>3
  <2> DEFINE y == [of |-> o, at |-> x.at]
  <2>2. y.of = o /\ y.at = x.at
    OBVIOUS
  <2> HIDE DEF y
  <2>3. y \in segments
    BY <2>1 DEF y
  <2> QED BY <2>1, <2>2, <2>3
<1> HIDE DEF From
<1>6. \A x \in T : f[x] \in segments /\ From(x, f[x])
  BY <1>5
<1> HIDE DEF f
<1>7. ASSUME NEW x \in T, NEW z \in T, f[x] = f[z]
      PROVE  x = z
  <2> DEFINE y == f[x]
  <2>1. y \in segments /\ From(x, y) /\ From(z, y)
    BY <1>6, <1>7
  <2> HIDE DEF y
  <2>2. /\ y.at = x.at /\ y.at = z.at
        /\ x.of \in RowsOf(g, segments, y.of) /\ z.of \in RowsOf(g, segments, y.of)
    BY <2>1 DEF From
  <2>3. y.of \in Owners(segments) /\ x.at \in SlotsOf(segments, y.of)
    BY <2>1, <2>2 DEF Owners, SlotsOf
  <2>4. AreRows(RowsOf(g, segments, y.of), y.of, SlotsOf(segments, y.of))
    BY <2>3, RowsOfAreRows
  <2>5. /\ x.of.from <= x.at /\ x.at < x.of.to
        /\ z.of.from <= x.at /\ x.at < z.of.to
    BY <1>3, <2>2
  <2>6. x.of = z.of
    BY <2>2, <2>3, <2>4, <2>5 DEF AreRows
  <2> QED BY <1>3, <2>2, <2>6
<1>8. IsFiniteSet(T)
  <2>1. f \in [T -> segments]
    <3>1. f = [x \in T |-> f[x]]
      BY DEF f
    <3> QED BY <1>6, <3>1
  <2>2. f \in Injection(T, segments)
    BY <1>7, <2>1 DEF Injection, IsInjective
  <2> QED BY <2>2, FS_Injection
<1>9. IsFiniteSet(new)
  <2>1. \A r \in new : k[r] \in T /\ k[r].of = r
    BY <1>4
  <2>2. k \in [new -> T]
    BY <2>1
  <2> HIDE DEF k
  <2>3. k \in Injection(new, T)
    BY <2>1, <2>2 DEF Injection, IsInjective
  <2> QED BY <1>8, <2>3, FS_Injection
<1>10. \A x \in C : x \in T /\ f[x] \in Cells(segments, h)
  BY <1>6 DEF Cells, From
<1> HIDE DEF C
<1>11. e \in Injection(C, Cells(segments, h))
  <2>1. e \in [C -> Cells(segments, h)]
    BY <1>10
  <2>2. \A x, z \in C : e[x] = e[z] => x = z
    BY <1>7, <1>10
  <2> HIDE DEF e
  <2> QED BY <2>1, <2>2 DEF Injection, IsInjective
<1>12. IsFiniteSet(Cells(segments, h))
  BY SlotsOfCells
<1>13. IsFiniteSet(C) /\ Cardinality(C) <= Cardinality(Cells(segments, h))
  BY <1>11, <1>12, FS_Injection
<1>14. Cardinality(C) \in Nat /\ new \subseteq Row
  BY <1>1, <1>13, FS_CardinalityType
<1> QED BY <1>8, <1>9, <1>13, <1>14 DEF C, T, new

\* The rows that are read make room for those that are written.
LEMMA CellsReplaced ==
    ASSUME TypeInv, FiniteRows, NEW seen, seen \subseteq rows,
           NEW new, IsFiniteSet(Ahead(new, now)), NEW h
    PROVE  LET after == Ahead((rows \ seen) \cup new, now)
           IN  /\ IsFiniteSet(Cells(after, h)) /\ Cardinality(Cells(after, h)) \in Nat
               /\ Cardinality(Cells(Ahead(seen, now), h)) \in Nat
               /\ Cardinality(Cells(Ahead(rows, now), h)) \in Nat
               /\ Cardinality(Cells(after, h)) + Cardinality(Cells(Ahead(seen, now), h)) <=
                    Cardinality(Cells(Ahead(rows, now), h)) + Cardinality(Cells(Ahead(new, now), h))
<1> DEFINE all == Cells(Ahead(rows, now), h)
           old == Cells(Ahead(seen, now), h)
           got == Cells(Ahead(new, now), h)
           after == Cells(Ahead((rows \ seen) \cup new, now), h)
<1>1. IsFiniteSet(all) /\ IsFiniteSet(got) /\ old \subseteq all
  <2>1. IsFiniteSet(Ahead(rows, now)) /\ Ahead(seen, now) \subseteq Ahead(rows, now)
    BY RowsAhead
  <2>2. old \subseteq all
    BY <2>1 DEF Cells
  <2> QED BY <2>1, <2>2, SlotsOfCells
<1>2. after = (all \ old) \cup got
  BY DEF Cells, Ahead
<1> HIDE DEF all, old, got, after
<1>3. /\ IsFiniteSet(all \ old) /\ Cardinality(all) \in Nat /\ Cardinality(old) \in Nat
      /\ Cardinality(all \ old) = Cardinality(all) - Cardinality(old)
  BY <1>1, RemovedSubset
<1>4. /\ IsFiniteSet(after)
      /\ Cardinality(after) = Cardinality(all \ old) + Cardinality(got) - Cardinality((all \ old) \cap got)
  BY <1>1, <1>2, <1>3, FS_Union
<1>5. IsFiniteSet((all \ old) \cap got)
  BY <1>1, FS_Subset
<1>6. /\ Cardinality(after) \in Nat /\ Cardinality(got) \in Nat
      /\ Cardinality((all \ old) \cap got) \in Nat /\ Cardinality(all \ old) \in Nat
  BY <1>1, <1>3, <1>4, <1>5, FS_CardinalityType
<1>7. Cardinality(after) + Cardinality(old) <= Cardinality(all) + Cardinality(got)
  BY <1>3, <1>4, <1>6
<1> QED BY <1>3, <1>4, <1>6, <1>7 DEF all, old, got, after

LEMMA ApplyOverlap ==
    ASSUME TypeInv, OverlapInv, NEW g \in Grant, ApplySubscriptionTimeline(g)
    PROVE  OverlapInv'
<1> DEFINE new == UNION {RowsOf(g, segments, o) : o \in Owners(segments)}
           seen == Existing(g)
           Count(set, h) == Cardinality(Cells(Ahead(set, now), h))
<1>1. /\ now' = now /\ served' = served /\ revoked' = revoked
      /\ rows' = (rows \ seen) \cup new
      /\ queue = {} /\ segments' = {} /\ queue' = {}
      /\ tx[g].phase = "placing" /\ Done(g)
  BY DEF ApplySubscriptionTimeline
<1>2. /\ IsFiniteSet(segments) /\ IsFiniteSet(rows) /\ rows \subseteq Row /\ now \in Nat
      /\ seen \subseteq rows
  BY DEF OverlapInv, FiniteRows, TypeInv, TypeOK, Existing
<1>3. \A h : /\ IsFiniteSet(new) /\ new \subseteq Row /\ IsFiniteSet(Ahead(new, now))
             /\ Count(new, h) \in Nat /\ Count(new, h) <= Cardinality(Cells(segments, h))
  BY <1>2, WrittenCells
<1> HIDE DEF new, seen
<1>4. \A h \in Grant : Cardinality(Cells(segments, h)) =
                         IF h = g THEN Duration[g] ELSE Count(seen, h)
  <2> TAKE h \in Grant
  <2>1. Waiting(queue, h) = {}
    BY <1>1 DEF Waiting
  <2>2. Cardinality(Cells(segments, h)) \in Nat
    BY <1>2, SlotsOfCells
  <2>3. TimelineOf(seen) = Ahead(seen, now)
    BY <1>2, RowsAhead DEF OverlapInv
  <2>4. Cardinality(Cells(segments, h)) + Cardinality(Waiting(queue, h)) =
          IF h = g THEN Duration[g] ELSE Count(seen, h)
    BY <1>1, <2>3 DEF OverlapInv, LoopConserves, seen
  <2> QED BY <2>1, <2>2, <2>4, FS_EmptySet
<1>5. \A h : /\ IsFiniteSet(Cells(Ahead(rows', now), h))
             /\ Count(rows', h) \in Nat /\ Count(seen, h) \in Nat /\ Count(rows, h) \in Nat
             /\ Count(rows', h) + Count(seen, h) <= Count(rows, h) + Count(new, h)
  BY <1>1, <1>2, <1>3, CellsReplaced DEF OverlapInv
<1>6. TimelineOf(rows)' = Ahead(rows', now) /\ TimelineOf(rows) = Ahead(rows, now)
  <2>1. rows' \subseteq Row
    BY <1>1, <1>2, <1>3
  <2> QED BY <1>1, <1>2, <2>1, TimelineIsAhead, TimelineIsAheadNext
<1>7. \A h \in Grant : tx'[h].phase = "done" <=> (h = g \/ tx[h].phase = "done")
  BY <1>1, DoneType
<1>8. ASSUME NEW h \in Grant, tx[h].phase # "done"
      PROVE  Count(rows, h) = 0 /\ served[h] = 0 /\ revoked[h] = 0
  <2>1. Held(Ahead(rows, now), h) = {} /\ served[h] = 0 /\ revoked[h] = 0
    BY <1>6, <1>8 DEF OverlapInv, NotYetMade
  <2>2. Cells(Ahead(rows, now), h) = {}
    BY <2>1 DEF Held, Cells
  <2> QED BY <2>1, <2>2, FS_EmptySet
<1>9. \A h \in Grant : h # g => Count(rows', h) <= Count(rows, h)
  <2> TAKE h \in Grant
  <2> HAVE h # g
  <2>1. Count(new, h) <= Count(seen, h)
    BY <1>3, <1>4
  <2> HIDE DEF Count
  <2> QED BY <1>3, <1>5, <2>1
<1>10. Count(rows', g) <= Duration[g] /\ served[g] = 0 /\ revoked[g] = 0
  <2>1. Count(rows, g) = 0 /\ served[g] = 0 /\ revoked[g] = 0
    BY <1>1, <1>8
  <2>2. Count(new, g) <= Duration[g] /\ Duration[g] \in Nat
    BY <1>3, <1>4, GrantAssumption
  <2> HIDE DEF Count
  <2> QED BY <1>3, <1>5, <2>1, <2>2
<1>11. FiniteRows'
  <2>1. IsFiniteSet(rows \ seen)
    BY <1>2, FS_Subset
  <2>2. IsFiniteSet(rows')
    BY <1>1, <1>3, <2>1, FS_Union
  <2> QED BY <1>1, <2>2, FS_EmptySet DEF FiniteRows
<1>12. \A h \in Grant : tx'[h].phase # "placing"
  BY <1>1, DoneType DEF TypeInv, OnePlacing
<1>13. LoopConserves'
  <2>1. \A h : Waiting(queue', h) = {}
    BY <1>1 DEF Waiting
  <2> QED BY <1>12, <2>1, FS_EmptySet DEF LoopConserves, Waiting
<1>14. NotYetMade'
  <2> SUFFICES ASSUME NEW h \in Grant, tx'[h].phase # "done"
               PROVE  Held(TimelineOf(rows)', h) = {} /\ served'[h] = 0 /\ revoked'[h] = 0
    BY DEF NotYetMade, Held
  <2>1. h # g /\ tx[h].phase # "done"
    BY <1>7
  <2>2. Count(rows, h) = 0 /\ served[h] = 0 /\ revoked[h] = 0
    BY <1>8, <2>1
  <2>3. Count(rows', h) = 0
    BY <1>5, <1>9, <2>1, <2>2
  <2>4. Cells(Ahead(rows', now), h) = {}
    BY <1>5, <2>3, FS_EmptySet
  <2>5. Held(Ahead(rows', now), h) = {}
    BY <2>4 DEF Held, Cells
  <2> QED BY <1>1, <1>6, <2>2, <2>5
<1>15. AtMostGranted'
  <2> SUFFICES ASSUME NEW h \in Grant
               PROVE  served[h] + Count(rows', h) + revoked[h] <= Duration[h]
    BY <1>1, <1>6 DEF AtMostGranted, Cells
  <2>1. CASE h = g
    BY <1>5, <1>10, <2>1
  <2>2. CASE h # g
    <3>1. served[h] + Count(rows, h) + revoked[h] <= Duration[h]
      BY <1>6 DEF OverlapInv, AtMostGranted
    <3>2. served[h] \in Nat /\ revoked[h] \in Nat /\ Duration[h] \in Nat
      BY GrantAssumption DEF TypeInv, TypeOK
    <3>3. Count(rows', h) <= Count(rows, h)
      BY <1>9, <2>2
    <3> HIDE DEF Count
    <3> QED BY <1>5, <3>1, <3>2, <3>3
  <2> QED BY <2>1, <2>2
<1> QED BY <1>11, <1>13, <1>14, <1>15 DEF OverlapInv

LEMMA ReplaceOverlap ==
    ASSUME TypeInv, OverlapInv, NEW g \in Grant, ReplaceSubscription(g)
    PROVE  OverlapInv'
<1> DEFINE d == Duration[g]
           row == [NewOwner(g) EXCEPT !.to = now + d]
           seen == Existing(g)
           Count(set, h) == Cardinality(Cells(Ahead(set, now), h))
<1>1. /\ now' = now /\ segments' = segments /\ queue' = queue /\ served' = served
      /\ rows' = (rows \ seen) \cup {row}
      /\ revoked' = [h \in Grant |-> revoked[h] + Cardinality(Held(TimelineOf(seen), h))]
      /\ tx[g].phase = "open" /\ ~Placing /\ Done(g)
  BY DEF ReplaceSubscription, loop
<1>2. /\ IsFiniteSet(rows) /\ rows \subseteq Row /\ now \in Nat /\ seen \subseteq rows
  BY DEF OverlapInv, FiniteRows, TypeInv, TypeOK, Existing
<1>3. d \in Nat \ {0} /\ NewOwner(g) \in Row /\ NewOwner(g).grant = g /\ NewOwner(g).from = now
  BY GrantAssumption, NewOwnerType DEF TypeInv, NewOwner
<1>4. row \in Row /\ row.grant = g /\ row.from = now /\ row.to = now + d
  <2>1. now + d \in Nat
    BY <1>2, <1>3
  <2> QED BY <1>3, <2>1 DEF Row
<1> HIDE DEF row, seen
<1>5. /\ IsFiniteSet(Ahead({row}, now)) /\ Count({row}, g) = d
      /\ \A h : h # g => Count({row}, h) = 0
  <2> DEFINE T == Ahead({row}, now)
             last == now + d - 1
             f == [x \in T |-> x.at]
  <2>1. last \in Nat /\ now <= last /\ last - now + 1 = d
    BY <1>2, <1>3
  <2>2. \A x \in T : x = [of |-> row, at |-> x.at] /\ x.at \in now .. last /\ x.of.grant = g
    BY <1>2, <1>3, <1>4 DEF Ahead
  <2>3. \A t \in now .. last : [of |-> row, at |-> t] \in T
    <3> TAKE t \in now .. last
    <3>1. t \in Nat /\ now <= t /\ t < now + d
      BY <1>2, <1>3
    <3> QED BY <1>4, <3>1 DEF Ahead
  <2> HIDE DEF T, last
  <2>4. IsFiniteSet(now .. last)
    BY <1>2, <2>1, FS_Interval
  <2>5. Cardinality(now .. last) = IF now > last THEN 0 ELSE last - now + 1
    BY <1>2, <2>1, FS_Interval
  <2>6. Cardinality(now .. last) = d
    BY <1>2, <2>1, <2>5
  <2>7. f \in Bijection(T, now .. last)
    <3>1. \A x, y \in T : x.at = y.at => x = y
      BY <2>2
    <3>2. \A t \in now .. last : \E x \in T : x.at = t
      BY <2>3
    <3> QED BY <2>2, <3>1, <3>2 DEF Bijection, Injection, Surjection, IsInjective
  <2>8. IsFiniteSet(T)
    <3>1. f \in Injection(T, now .. last)
      BY <2>7 DEF Bijection
    <3> QED BY <2>4, <3>1, FS_Injection
  <2>9. Cardinality(T) = d
    BY <2>6, <2>7, <2>8, FS_Bijection DEF ExistsBijection
  <2>10. Cells(T, g) = T /\ \A h : h # g => Cells(T, h) = {}
    BY <2>2 DEF Cells
  <2> QED BY <2>8, <2>9, <2>10, FS_EmptySet DEF T
<1>6. \A h : /\ IsFiniteSet(Cells(Ahead(rows', now), h))
             /\ Count(rows', h) \in Nat /\ Count(seen, h) \in Nat /\ Count(rows, h) \in Nat
             /\ Count(rows', h) + Count(seen, h) <= Count(rows, h) + Count({row}, h)
  BY <1>1, <1>2, <1>5, CellsReplaced DEF OverlapInv
<1>7. TimelineOf(rows)' = Ahead(rows', now) /\ TimelineOf(rows) = Ahead(rows, now)
  <2>1. rows' \subseteq Row
    BY <1>1, <1>2, <1>4
  <2> QED BY <1>1, <1>2, <2>1, TimelineIsAhead, TimelineIsAheadNext
<1>8. \A h \in Grant : tx'[h].phase = "done" <=> (h = g \/ tx[h].phase = "done")
  BY <1>1, DoneType
<1>9. ASSUME NEW h \in Grant, tx[h].phase # "done"
      PROVE  Count(rows, h) = 0 /\ served[h] = 0 /\ revoked[h] = 0
  <2>1. Held(Ahead(rows, now), h) = {} /\ served[h] = 0 /\ revoked[h] = 0
    BY <1>7, <1>9 DEF OverlapInv, NotYetMade
  <2>2. Cells(Ahead(rows, now), h) = {}
    BY <2>1 DEF Held, Cells
  <2> QED BY <2>1, <2>2, FS_EmptySet
<1>10. ASSUME NEW h \in Grant
       PROVE  /\ revoked'[h] \in Nat /\ revoked[h] \in Nat
              /\ revoked'[h] <= revoked[h] + Count(seen, h)
  <2>1. TimelineOf(seen) = Ahead(seen, now) /\ IsFiniteSet(Ahead(seen, now))
    BY <1>2, RowsAhead DEF OverlapInv
  <2>2. /\ Cardinality(Held(Ahead(seen, now), h)) \in Nat
        /\ Cardinality(Held(Ahead(seen, now), h)) <= Count(seen, h)
    BY <2>1, SlotsOfCells
  <2>3. revoked[h] \in Nat
    BY DEF TypeInv, TypeOK
  <2>4. revoked'[h] = revoked[h] + Cardinality(Held(Ahead(seen, now), h))
    BY <1>1, <2>1
  <2> HIDE DEF Count
  <2> QED BY <1>6, <2>2, <2>3, <2>4
<1> HIDE DEF Count
<1>11. ASSUME NEW h \in Grant, h # g
       PROVE  /\ Count(rows', h) + revoked'[h] <= Count(rows, h) + revoked[h]
              /\ Count(rows', h) <= Count(rows, h)
  <2>1. Count({row}, h) = 0
    BY <1>5, <1>11
  <2> QED BY <1>6, <1>10, <2>1
<1>12. FiniteRows'
  <2>1. IsFiniteSet(rows \ seen) /\ IsFiniteSet({row})
    BY <1>2, FS_Subset, FS_Singleton
  <2>2. IsFiniteSet(rows')
    BY <1>1, <2>1, FS_Union
  <2> QED BY <1>1, <2>2 DEF OverlapInv, FiniteRows
<1>13. \A h \in Grant : tx'[h].phase # "placing"
  BY <1>1, DoneType DEF Placing
<1>14. LoopConserves'
  <2>1. \A h : Waiting(queue', h) = {}
    BY <1>1 DEF Waiting, TypeInv, OnePlacing
  <2> QED BY <1>13, <2>1, FS_EmptySet DEF LoopConserves, Waiting
<1>15. NotYetMade'
  <2> SUFFICES ASSUME NEW h \in Grant, tx'[h].phase # "done"
               PROVE  Held(TimelineOf(rows)', h) = {} /\ served'[h] = 0 /\ revoked'[h] = 0
    BY DEF NotYetMade, Held
  <2>1. h # g /\ tx[h].phase # "done"
    BY <1>8
  <2>2. Count(rows, h) = 0 /\ served[h] = 0 /\ revoked[h] = 0
    BY <1>9, <2>1
  <2>3. Count(rows', h) = 0 /\ revoked'[h] = 0
    BY <1>6, <1>10, <1>11, <2>1, <2>2
  <2>4. Cells(Ahead(rows', now), h) = {}
    BY <1>6, <2>3, FS_EmptySet DEF Count
  <2>5. Held(Ahead(rows', now), h) = {}
    BY <2>4 DEF Held, Cells
  <2> QED BY <1>1, <1>7, <2>2, <2>3, <2>5
<1>16. AtMostGranted'
  <2> SUFFICES ASSUME NEW h \in Grant
               PROVE  served[h] + Count(rows', h) + revoked'[h] <= Duration[h]
    BY <1>1, <1>7 DEF AtMostGranted, Cells, Count
  <2>1. served[h] \in Nat /\ Duration[h] \in Nat
    BY GrantAssumption DEF TypeInv, TypeOK
  <2>2. CASE h = g
    <3>1. Count(rows, g) = 0 /\ served[g] = 0 /\ revoked[g] = 0
      BY <1>1, <1>9
    <3>2. Count(rows', g) + Count(seen, g) <= d
      <4>1. Count(rows', g) + Count(seen, g) <= Count(rows, g) + Count({row}, g)
        BY <1>6
      <4>2. Count({row}, g) = d
        BY <1>5
      <4> QED BY <1>3, <1>6, <3>1, <4>1, <4>2
    <3>3. revoked'[g] <= Count(seen, g)
      BY <1>6, <1>10, <3>1
    <3> QED BY <1>6, <1>10, <2>1, <2>2, <3>1, <3>2, <3>3
  <2>3. CASE h # g
    <3>1. served[h] + Count(rows, h) + revoked[h] <= Duration[h]
      BY <1>7 DEF OverlapInv, AtMostGranted, Count
    <3> QED BY <1>6, <1>10, <1>11, <2>1, <2>3, <3>1
  <2> QED BY <2>2, <2>3
<1> QED BY <1>12, <1>14, <1>15, <1>16 DEF OverlapInv

\* Of the rows under way one comes before all others: one that the fewest
\* others come before.
LEMMA CurrentIsUnderWay ==
    ASSUME rows \subseteq Row, IsFiniteSet(rows), UnderWay # {}
    PROVE  Current \in UnderWay
<1> DEFINE Better(r) == {q \in UnderWay : ~Before(r, q)}
           C == {Cardinality(Better(r)) : r \in UnderWay}
<1>1. IsFiniteSet(UnderWay)
  BY FS_Subset DEF UnderWay
<1>2. \A r \in UnderWay : r.rank \in Nat /\ r.to \in Nat
  BY DEF UnderWay, Row
<1>3. \A r \in UnderWay : IsFiniteSet(Better(r)) /\ Cardinality(Better(r)) \in Nat
  BY <1>1, FS_Subset, FS_CardinalityType
<1>4. C \subseteq Nat /\ C # {}
  BY <1>3
<1>5. PICK x \in UnderWay : \A y \in UnderWay : Cardinality(Better(x)) <= Cardinality(Better(y))
  <2>1. Min(C) \in C /\ \A c \in C : Min(C) <= c
    BY <1>4, MinOf
  <2> QED BY <2>1
<1>6. ASSUME NEW y \in UnderWay, ~Before(x, y)  PROVE FALSE
  <2>1. Better(y) \subseteq Better(x) /\ y \in Better(x) /\ y \notin Better(y)
    <3>1. \A z \in UnderWay : ~Before(y, z) => ~Before(x, z)
      BY <1>2, <1>6 DEF Before
    <3>2. Before(y, y)
      BY <1>2 DEF Before
    <3> QED BY <1>6, <3>1, <3>2
  <2>2. Cardinality(Better(y)) <= Cardinality(Better(x)) /\ Cardinality(Better(y)) # Cardinality(Better(x))
    BY <2>1, <1>3, FS_Subset
  <2> HIDE DEF Better
  <2> QED BY <1>3, <1>5, <2>2
<1>7. \A q \in UnderWay : Before(x, q)
  BY <1>6
<1> QED BY <1>7 DEF Current

\* The slot that passes serves one grant, which had it.
LEMMA TickOverlap ==
    ASSUME TypeInv, OverlapInv, Tick
    PROVE  OverlapInv'
<1> DEFINE T == Ahead(rows, now)
           U == Ahead(rows', now + 1)
<1>1. /\ now' = now + 1 /\ tx' = tx /\ revoked' = revoked
      /\ segments' = segments /\ queue' = queue
      /\ rows' = {r \in rows : r.to > now + 1}
      /\ served' = IF UnderWay = {} THEN served ELSE [served EXCEPT ![Current.grant] = @ + 1]
      /\ \A g \in Grant : tx[g].phase \in {"none", "done"}
  BY DEF Tick, loop, InForce
<1>2. /\ now \in Nat /\ rows \subseteq Row /\ served \in [Grant -> Nat]
      /\ \A r \in rows : r.to > now /\ r.grant \in Grant
  BY DEF TypeInv, TypeOK, Row
<1>3. TimelineOf(rows) = T /\ TimelineOf(rows)' = U /\ IsFiniteSet(T)
  <2>1. now' \in Nat /\ rows' \subseteq Row
    BY <1>1, <1>2
  <2>2. IsFiniteSet(T)
    BY RowsAhead DEF OverlapInv
  <2> QED BY <1>1, <1>2, <2>1, <2>2, TimelineIsAhead, TimelineIsAheadNext
<1>4. U \subseteq T /\ \A x \in U : x.at >= now + 1
  BY <1>1, <1>2 DEF Ahead
<1>5. \A r \in UnderWay : [of |-> r, at |-> now] \in T
  BY <1>2 DEF UnderWay, Ahead
<1> HIDE DEF T, U
<1>6. ASSUME NEW h \in Grant
      PROVE  /\ Cardinality(Cells(U, h)) \in Nat /\ Cardinality(Cells(T, h)) \in Nat
             /\ served[h] \in Nat /\ served'[h] \in Nat
             /\ served'[h] + Cardinality(Cells(U, h)) <= served[h] + Cardinality(Cells(T, h))
  <2> DEFINE old == Cells(T, h)
             left == Cells(U, h)
  <2>1. IsFiniteSet(old) /\ left \subseteq old
    BY <1>3, <1>4, SlotsOfCells DEF Cells
  <2>2. /\ Cardinality(left) \in Nat /\ Cardinality(old) \in Nat
        /\ Cardinality(left) <= Cardinality(old)
        /\ Cardinality(left) = Cardinality(old) => left = old
    BY <2>1, FS_Subset, FS_CardinalityType
  <2>3. served[h] \in Nat
    BY <1>2
  <2>4. CASE UnderWay # {} /\ Current.grant = h
    <3> DEFINE x == [of |-> Current, at |-> now]
    <3>1. Current \in UnderWay
      BY <1>2, <2>4, CurrentIsUnderWay DEF OverlapInv, FiniteRows
    <3>2. x \in T /\ x.of.grant = h /\ x.at = now
      BY <1>5, <2>4, <3>1
    <3>3. ~(now >= now + 1)
      BY <1>2
    <3>4. x \in old /\ x \notin left
      BY <1>4, <3>2, <3>3 DEF Cells
    <3>5. served'[h] = served[h] + 1
      BY <1>1, <1>2, <2>4
    <3> HIDE DEF x, old, left
    <3> QED BY <2>2, <2>3, <3>4, <3>5 DEF old, left
  <2>5. CASE ~(UnderWay # {} /\ Current.grant = h)
    <3>1. served'[h] = served[h]
      BY <1>1, <1>2, <2>5
    <3> QED BY <2>2, <2>3, <3>1
  <2> QED BY <2>4, <2>5
<1>7. FiniteRows'
  BY <1>1, FS_Subset DEF OverlapInv, FiniteRows
<1>8. LoopConserves'
  <2>1. \A h : Waiting(queue', h) = {}
    BY <1>1 DEF Waiting, TypeInv, OnePlacing, Placing
  <2>2. \A h \in Grant : tx'[h].phase # "placing"
    BY <1>1
  <2> QED BY <2>1, <2>2, FS_EmptySet DEF LoopConserves, Waiting
<1>9. NotYetMade'
  <2> SUFFICES ASSUME NEW h \in Grant, tx'[h].phase # "done"
               PROVE  Held(TimelineOf(rows)', h) = {} /\ served'[h] = 0 /\ revoked'[h] = 0
    BY DEF NotYetMade, Held
  <2>1. Held(T, h) = {} /\ served[h] = 0 /\ revoked[h] = 0
    BY <1>1, <1>3 DEF OverlapInv, NotYetMade
  <2>2. Held(U, h) = {} /\ Cells(T, h) = {} /\ Cells(U, h) = {}
    BY <1>4, <2>1 DEF Held, Cells
  <2>3. served'[h] = 0
    <3>1. Cardinality(Cells(T, h)) = 0 /\ Cardinality(Cells(U, h)) = 0
      BY <2>2, FS_EmptySet
    <3> QED BY <1>6, <2>1, <3>1
  <2> QED BY <1>1, <1>3, <2>1, <2>2, <2>3
<1>10. AtMostGranted'
  <2> SUFFICES ASSUME NEW h \in Grant
               PROVE  served'[h] + Cardinality(Cells(U, h)) + revoked[h] <= Duration[h]
    BY <1>1, <1>3 DEF AtMostGranted, Cells
  <2>1. served[h] + Cardinality(Cells(T, h)) + revoked[h] <= Duration[h]
    BY <1>3 DEF OverlapInv, AtMostGranted
  <2>2. revoked[h] \in Nat /\ Duration[h] \in Nat
    BY GrantAssumption DEF TypeInv, TypeOK
  <2> QED BY <1>6, <2>1, <2>2
<1> QED BY <1>7, <1>8, <1>9, <1>10 DEF OverlapInv

LEMMA OverlapStep == TypeInv /\ OverlapInv /\ [Next]_vars => OverlapInv'
<1> SUFFICES ASSUME TypeInv, OverlapInv, [Next]_vars PROVE OverlapInv'
  OBVIOUS
<1>1. ASSUME NEW g \in Grant, Begin(g)  PROVE OverlapInv'
  BY <1>1, BeginOverlap
<1>2. ASSUME NEW g \in Grant, GrantSubscriptionOnTimeline(g)  PROVE OverlapInv'
  BY <1>2, GrantOverlap
<1>3. ASSUME NEW g \in Grant, Place(g)  PROVE OverlapInv'
  BY <1>3, PlaceOverlap
<1>4. ASSUME NEW g \in Grant, ApplySubscriptionTimeline(g)  PROVE OverlapInv'
  BY <1>4, ApplyOverlap
<1>5. ASSUME NEW g \in Grant, ReplaceSubscription(g)  PROVE OverlapInv'
  BY <1>5, ReplaceOverlap
<1>6. CASE Tick
  BY <1>6, TickOverlap
<1>7. CASE UNCHANGED vars
  <2>1. /\ now' = now /\ rows' = rows /\ tx' = tx /\ segments' = segments /\ queue' = queue
        /\ served' = served /\ revoked' = revoked
    BY <1>7 DEF vars, loop
  <2>2. NotYetMade' /\ AtMostGranted'
    BY <2>1, SameRows
  <2>3. \A f : TimelineOf(Existing(f))' = TimelineOf(Existing(f))
    BY <2>1 DEF TimelineOf, Later, Existing
  <2>4. LoopConserves' /\ FiniteRows'
    BY <2>1, <2>3 DEF OverlapInv, LoopConserves, FiniteRows, Cells, Waiting
  <2> QED BY <2>2, <2>4 DEF OverlapInv
<1> QED BY <1>1, <1>2, <1>3, <1>4, <1>5, <1>6, <1>7 DEF Next

\* However transactions overlap, no grant gives more time than was paid for:
\* what two transactions place at once is wasted, not doubled, because each row
\* is rewritten by the one that has it locked (grantSubscriptionOnTimeline,
\* applySubscriptionTimeline, ReplaceSubscription), and what is displaced is
\* placed anew only when it was taken out of the timeline
\* (insertSubscriptionTimelineSegment).
THEOREM NothingIsGivenTwice == Spec => []NothingGivenTwice
<1>1. Spec => [](TypeInv /\ OverlapInv)
  BY TypeInit, TypeStep, OverlapInit, OverlapStep, PTL DEF Spec
<1>2. TypeInv /\ OverlapInv => NothingGivenTwice
  <2> SUFFICES ASSUME TypeInv, OverlapInv, NEW h \in Grant
               PROVE  served[h] + Remaining(h) + revoked[h] <= Duration[h]
    BY DEF NothingGivenTwice
  <2>1. TimelineOf(rows) = Ahead(rows, now) /\ IsFiniteSet(Ahead(rows, now))
    BY RowsAhead DEF OverlapInv
  <2>2. /\ Remaining(h) \in Nat /\ Cardinality(Cells(TimelineOf(rows), h)) \in Nat
        /\ Remaining(h) <= Cardinality(Cells(TimelineOf(rows), h))
    BY <2>1, SlotsOfCells DEF Remaining
  <2>3. served[h] + Cardinality(Cells(TimelineOf(rows), h)) + revoked[h] <= Duration[h]
    BY DEF OverlapInv, AtMostGranted
  <2>4. served[h] \in Nat /\ revoked[h] \in Nat /\ Duration[h] \in Nat
    BY GrantAssumption DEF TypeInv, TypeOK
  <2> QED BY <2>2, <2>3, <2>4
<1> QED BY <1>1, <1>2, PTL

-----------------------------------------------------------------------------
(***************************************************************************)
(* Transactions that exclude each other.                                   *)
(***************************************************************************)

LEMMA SerialInit == Init => SerialInv
<1> SUFFICES ASSUME Init PROVE SerialInv
  OBVIOUS
<1>1. TimelineOf(rows) = {}
  BY DEF Init, TimelineOf
<1>2. \A h \in Grant : Waiting(queue, h) = {}
  BY DEF Init, Waiting
<1>3. \A g \in Grant : tx[g].phase = "none" /\ served[g] = 0 /\ revoked[g] = 0
  BY DEF Init
<1>4. Alone
  BY <1>3 DEF Alone, AtWork
<1>5. RowsInv /\ SegmentsInv
  BY <1>1 DEF Init, RowsInv, SegmentsInv, OneOwner, Packed
<1>6. Conserved
  BY <1>2, <1>3, FS_EmptySet DEF Conserved
<1>7. NotYetMade /\ PaidTimeKept
  BY <1>1, <1>3 DEF NotYetMade, PaidTimeKept, Held
<1> QED BY <1>4, <1>5, <1>6, <1>7 DEF SerialInv

LEMMA BeginSerial ==
    ASSUME Serialised, TypeInv, SerialInv, NEW g \in Grant, Begin(g)
    PROVE  SerialInv'
<1>1. /\ now' = now /\ rows' = rows /\ segments' = segments /\ queue' = queue /\ round' = round
      /\ served' = served /\ revoked' = revoked
      /\ tx[g].phase = "none" /\ tx' = [tx EXCEPT ![g] = [phase |-> "open", seen |-> Ids(rows)]]
      /\ \A h \in Grant : tx[h].phase \in {"none", "done"}
  BY DEF Begin, loop
<1>2. tx \in [Grant -> [phase : {"none", "open", "placing", "done"}, seen : SUBSET Id]]
  BY DEF TypeInv, TypeOK
<1>3. tx'[g].phase = "open" /\ tx'[g].seen = Ids(rows) /\ \A h \in Grant : h # g => tx'[h] = tx[h]
  BY <1>1, <1>2
<1>4. Alone'
  BY <1>1, <1>3 DEF Alone, AtWork, Ids
<1>5. TimelineOf(rows)' = TimelineOf(rows)
  BY <1>1 DEF TimelineOf, Later
<1>6. RowsInv'
  BY <1>1, <1>5 DEF SerialInv, RowsInv, OneOwner, Packed, Covered
<1>7. SegmentsInv'
  BY <1>1 DEF SerialInv, SegmentsInv, OneOwner, Packed, Covered
<1>8. \A h \in Grant : tx'[h].phase # "placing"
  BY <1>1, <1>3
<1>9. Conserved'
  BY <1>1, <1>8 DEF SerialInv, Conserved, Waiting
<1>10. \A h \in Grant : Held(TimelineOf(rows), h)' = Held(TimelineOf(rows), h)
  BY <1>5 DEF Held
<1>11. NotYetMade'
  <2> SUFFICES ASSUME NEW h \in Grant, tx'[h].phase # "done"
               PROVE  Held(TimelineOf(rows), h)' = {} /\ served'[h] = 0 /\ revoked'[h] = 0
    BY DEF NotYetMade
  <2>1. tx[h].phase # "done"
    BY <1>1, <1>3
  <2> QED BY <1>1, <1>10, <2>1 DEF SerialInv, NotYetMade
<1>12. PaidTimeKept'
  <2> SUFFICES ASSUME NEW h \in Grant, tx'[h].phase = "done"
               PROVE  served'[h] + Remaining(h)' + revoked'[h] = Duration[h]
    BY DEF PaidTimeKept
  <2>1. tx[h].phase = "done"
    BY <1>1, <1>3
  <2>2. Remaining(h)' = Remaining(h)
    BY <1>10 DEF Remaining
  <2> QED BY <1>1, <2>1, <2>2 DEF SerialInv, PaidTimeKept
<1> QED BY <1>4, <1>6, <1>7, <1>9, <1>11, <1>12 DEF SerialInv

\* The statement of a transaction that is alone gets every row.
LEMMA SeesEveryRow ==
    ASSUME SerialInv, NEW g \in Grant, AtWork(g)
    PROVE  Existing(g) = rows
  BY DEF SerialInv, Alone, Existing, Ids

LEMMA GrantSerial ==
    ASSUME TypeInv, SerialInv, NEW g \in Grant, GrantSubscriptionOnTimeline(g)
    PROVE  SerialInv'
<1> DEFINE d == Duration[g]
           piece == [of |-> NewOwner(g), slots |-> now .. (now + d - 1), round |-> 0, start |-> now]
<1>1. /\ now' = now /\ rows' = rows /\ round' = 0 /\ served' = served /\ revoked' = revoked
      /\ queue' = {piece} /\ segments' = TimelineOf(Existing(g))
      /\ tx[g].phase = "open" /\ tx' = [tx EXCEPT ![g].phase = "placing"]
  BY DEF GrantSubscriptionOnTimeline
<1>2. tx \in [Grant -> [phase : {"none", "open", "placing", "done"}, seen : SUBSET Id]]
  BY DEF TypeInv, TypeOK
<1>3. /\ tx'[g].phase = "placing" /\ tx'[g].seen = tx[g].seen
      /\ \A h \in Grant : h # g => tx'[h] = tx[h]
  BY <1>1, <1>2
<1>4. AtWork(g) /\ Existing(g) = rows
  BY <1>1, SeesEveryRow DEF AtWork
<1>5. segments' = TimelineOf(rows)
  BY <1>1, <1>4
<1>6. TimelineOf(rows)' = TimelineOf(rows)
  BY <1>1 DEF TimelineOf, Later
<1>7. \A h \in Grant : AtWork(h)' <=> h = g
  BY <1>3, <1>4 DEF SerialInv, Alone, AtWork
<1>8. Alone'
  BY <1>1, <1>3, <1>4, <1>7 DEF SerialInv, Alone, Ids
<1>9. RowsInv'
  BY <1>1, <1>6 DEF SerialInv, RowsInv, OneOwner, Packed, Covered
<1>10. piece.start = now /\ piece.slots = now .. (now + d - 1) /\ piece.of = NewOwner(g)
  OBVIOUS
<1> HIDE DEF piece
<1>11. SegmentsInv'
  <2>1. OneOwner(segments') /\ Packed(segments', now')
    BY <1>1, <1>5 DEF SerialInv, RowsInv
  <2>2. \A t \in now .. (piece.start - 1) : FALSE
    <3>1. now \in Nat
      BY DEF TypeInv, TypeOK
    <3> QED BY <1>10, <3>1
  <2> QED BY <1>1, <2>1, <2>2 DEF SegmentsInv, OneOwner, Packed, Covered
<1>12. now \in Nat /\ d \in Nat \ {0} /\ NewOwner(g).grant = g
  BY GrantAssumption, NewOwnerType DEF TypeInv, TypeOK
<1>13. /\ IsFiniteSet(piece.slots) /\ Cardinality(piece.slots) = d
       /\ piece.slots \subseteq Nat
  <2> DEFINE last == now + d - 1
  <2>1. last \in Nat /\ now <= last /\ last - now + 1 = d
    BY <1>12
  <2>2. piece.slots = now .. last
    BY <1>10
  <2> HIDE DEF last
  <2>3. IsFiniteSet(now .. last)
    BY <1>12, <2>1, FS_Interval
  <2>4. Cardinality(now .. last) = IF now > last THEN 0 ELSE last - now + 1
    BY <1>12, <2>1, FS_Interval
  <2>5. now .. last \subseteq Nat
    BY <1>12, <2>1
  <2>6. Cardinality(now .. last) = d
    BY <1>12, <2>1, <2>4
  <2> QED BY <2>2, <2>3, <2>5, <2>6
<1>14. ASSUME NEW h \in Grant
       PROVE  /\ IsFiniteSet(Waiting(queue', h))
              /\ Cardinality(Waiting(queue', h)) = IF h = g THEN d ELSE 0
  BY <1>1, <1>10, <1>12, <1>13, WaitingForOne
<1>15. \A h : Held(TimelineOf(rows), h)' = Held(TimelineOf(rows), h)
  BY <1>6 DEF Held
<1>16. \A h \in Grant : Remaining(h)' = Remaining(h) /\ Remaining(h) = Cardinality(Held(segments', h))
  BY <1>5, <1>15 DEF Remaining
<1>17. Held(segments', g) = {}
  BY <1>1, <1>5 DEF SerialInv, NotYetMade
<1>18. \A h \in Grant : Cardinality(Held(segments', h)) \in Nat
  <2>1. segments \subseteq Segment /\ TypeInv' 
    BY TypeStep DEF Next, TypeInv, TypeOK, Segment
  <2>2. segments' \subseteq Segment /\ IsFiniteSet(Taken(segments'))
    BY <2>1 DEF TypeInv, TypeOK, FiniteSlots, Segment, Taken
  <2> QED BY <2>2, SlotsOfType, FS_CardinalityType
<1>19. Conserved'
  <2>1. \A h \in Grant : Cardinality(Held(segments', h)) + Cardinality(Waiting(queue', h)) =
                           IF h = g THEN d ELSE Remaining(h)'
    <3> TAKE h \in Grant
    <3>1. CASE h = g
      <4>1. Cardinality(Held(segments', h)) = 0
        BY <1>17, <3>1, FS_EmptySet
      <4> QED BY <1>12, <1>14, <3>1, <4>1
    <3>2. CASE h # g
      BY <1>14, <1>16, <1>18, <3>2
    <3> QED BY <3>1, <3>2
  <2>2. \A h \in Grant : tx'[h].phase = "placing" => h = g
    BY <1>7 DEF AtWork
  <2> QED BY <1>14, <2>1, <2>2 DEF Conserved, Waiting, Held
<1>20. \A h \in Grant : tx'[h].phase = "done" <=> tx[h].phase = "done"
  BY <1>1, <1>3
<1>21. NotYetMade'
  BY <1>1, <1>15, <1>20 DEF SerialInv, NotYetMade
<1>22. PaidTimeKept'
  BY <1>1, <1>16, <1>20 DEF SerialInv, PaidTimeKept
<1> QED BY <1>8, <1>9, <1>11, <1>19, <1>21, <1>22 DEF SerialInv

LEMMA PlaceSerial ==
    ASSUME TypeInv, SerialInv, NEW g \in Grant, Place(g)
    PROVE  SerialInv'
<1>1. PICK piece \in queue :
        /\ segments' = Insert(segments, Allocation(segments, piece), piece.of)
        /\ queue' = (queue \ {piece})
                      \cup Displaced(segments, Allocation(segments, piece), piece.of, round + 1)
  BY DEF Place
<1> DEFINE slots == Allocation(segments, piece)
           owner == piece.of
           D == Displaced(segments, slots, owner, round + 1)
<1>2. /\ now' = now /\ rows' = rows /\ tx' = tx /\ served' = served /\ revoked' = revoked
      /\ tx[g].phase = "placing"
  BY DEF Place
<1>3. /\ piece \in Piece /\ IsFiniteSet(piece.slots) /\ owner \in Row /\ slots \subseteq Nat
      /\ \A t \in slots : t >= piece.start /\ t >= now /\ t \notin Blocked(segments, owner)
      /\ \A t \in slots : \A u \in piece.start .. t : u \in slots \/ u \in Blocked(segments, owner)
      /\ ArePieces(D, segments, slots, owner, round + 1)
  BY PlacementStep
<1>4. segments' = Insert(segments, slots, owner) /\ queue' = (queue \ {piece}) \cup D
  BY <1>1
<1>5. /\ segments \subseteq Segment /\ IsFiniteSet(Taken(segments)) /\ now \in Nat /\ round \in Nat
      /\ owner.rank \in Nat /\ piece.start \in Nat
      /\ \A x \in segments : x.at \in Nat /\ x.of.rank \in Nat
  BY <1>3 DEF TypeInv, TypeOK, FiniteSlots, Segment, Row, Piece
<1>6. OneOwner(segments)
  BY DEF SerialInv, SegmentsInv
<1>7. ASSUME NEW h \in Grant
      PROVE  /\ IsFiniteSet(segments') /\ IsFiniteSet(Waiting(queue', h))
             /\ Cardinality(Cells(segments', h)) + Cardinality(Waiting(queue', h)) =
                  Cardinality(Cells(segments, h)) + Cardinality(Waiting(queue, h))
  <2>1. \A p \in queue : p.round # round + 1
    <3>1. \A p \in queue : p.round \in Nat /\ p.round <= round
      BY DEF TypeInv, Queued, Piece
    <3> QED BY <1>5, <3>1
  <2>2. IsFiniteSet(Waiting(queue, h)) /\ round + 1 \in Nat
    BY <1>5 DEF SerialInv, Conserved
  <2>3. IsFiniteSet(segments)
    BY <1>5, <1>6, CellsOfSlots
  <2>4. piece \in Piece /\ IsFiniteSet(piece.slots) /\ segments \subseteq Segment
    BY <1>3, <1>5
  <2>5. /\ IsFiniteSet(Insert(segments, slots, owner))
        /\ IsFiniteSet(Waiting((queue \ {piece}) \cup D, h))
        /\ Cardinality(Cells(Insert(segments, slots, owner), h))
             + Cardinality(Waiting((queue \ {piece}) \cup D, h)) =
             Cardinality(Cells(segments, h)) + Cardinality(Waiting(queue, h))
    BY <2>1, <2>2, <2>3, <2>4, PlacementConserves
  <2> QED BY <1>1, <2>5
<1> HIDE DEF slots, D
<1>8. /\ \A x \in segments' : x \in segments \/ (x = [of |-> owner, at |-> x.at] /\ x.at \in slots)
      /\ \A t \in slots : [of |-> owner, at |-> t] \in segments'
      /\ \A x \in segments : x \in segments' \/ (x.at \in slots /\ x.of.rank < owner.rank)
  BY <1>4, <1>5 DEF Insert
<1>9. \A x \in segments : x.at \in slots => x.of.rank < owner.rank
  BY <1>3, <1>5 DEF Blocked
<1>10. \A x \in segments' : x.at \in slots => x = [of |-> owner, at |-> x.at]
  <2> SUFFICES ASSUME NEW x \in segments', x \in segments, x.at \in slots
               PROVE  x = [of |-> owner, at |-> x.at]
    BY <1>8
  <2>1. x.of.rank < owner.rank /\ ~(x.of.rank >= owner.rank)
    BY <1>5, <1>9
  <2> QED BY <1>4, <2>1 DEF Insert
<1>11. OneOwner(segments')
  <2> SUFFICES ASSUME NEW x \in segments', NEW y \in segments', x.at = y.at
               PROVE  x = y
    BY DEF OneOwner
  <2>1. CASE x.at \in slots
    BY <1>10, <2>1
  <2>2. CASE x.at \notin slots
    BY <1>6, <1>8, <2>2 DEF OneOwner
  <2> QED BY <2>1, <2>2
<1>12. ASSUME NEW r \in Nat, NEW t, Covered(segments, r, t)
       PROVE  Covered(segments', r, t)
  <2>1. PICK y \in segments : y.at = t /\ y.of.rank >= r
    BY <1>12 DEF Covered
  <2>2. CASE y \in segments'
    BY <2>1, <2>2 DEF Covered
  <2>3. CASE t \in slots /\ y.of.rank < owner.rank
    <3>1. [of |-> owner, at |-> t] \in segments' /\ owner.rank >= r
      BY <1>5, <1>8, <2>1, <2>3
    <3> QED BY <3>1 DEF Covered
  <2> QED BY <1>8, <2>1, <2>2, <2>3
<1>13. /\ \A x \in segments : \A t \in now .. x.at : Covered(segments, x.of.rank, t)
       /\ \A p \in queue : \A t \in now .. (p.start - 1) : Covered(segments, p.of.rank, t)
  BY DEF SerialInv, SegmentsInv, Packed
<1>14. \A t \in slots : Covered(segments', owner.rank, t)
  <2> TAKE t \in slots
  <2>1. [of |-> owner, at |-> t] \in segments' /\ owner.rank >= owner.rank
    BY <1>5, <1>8
  <2> QED BY <2>1 DEF Covered
<1>15. ASSUME NEW s \in slots, NEW t \in now .. s
       PROVE  Covered(segments', owner.rank, t)
  <2>1. t \in Nat /\ s \in Nat
    BY <1>3, <1>5
  <2>2. CASE t < piece.start
    <3>1. t \in now .. (piece.start - 1)
      BY <1>5, <2>1, <2>2
    <3> QED BY <1>5, <1>12, <1>13, <3>1
  <2>3. CASE t >= piece.start
    <3>1. t \in slots \/ t \in Blocked(segments, owner)
      BY <1>3, <1>5, <2>1, <2>3
    <3>2. ASSUME t \in Blocked(segments, owner)  PROVE Covered(segments, owner.rank, t)
      BY <3>2 DEF Blocked, Covered
    <3> QED BY <1>5, <1>12, <1>14, <3>1, <3>2
  <2> QED BY <1>5, <2>1, <2>2, <2>3
<1>16. Packed(segments', now)
  <2> SUFFICES ASSUME NEW x \in segments', NEW t \in now .. x.at
               PROVE  Covered(segments', x.of.rank, t)
    BY DEF Packed
  <2>1. CASE x \in segments
    BY <1>5, <1>12, <1>13, <2>1
  <2>2. CASE x = [of |-> owner, at |-> x.at] /\ x.at \in slots
    <3>1. x.of = owner
      BY <2>2
    <3> QED BY <1>15, <2>2, <3>1
  <2> QED BY <1>8, <2>1, <2>2
<1>17. ASSUME NEW p \in queue', NEW t \in now .. (p.start - 1)
       PROVE  Covered(segments', p.of.rank, t)
  <2>1. CASE p \in queue
    <3>1. p.of.rank \in Nat
      BY <2>1 DEF TypeInv, Queued, Piece, Row
    <3> QED BY <1>12, <1>13, <2>1, <3>1
  <2>2. CASE p \in D
    <3>1. /\ p.of.rank \in Nat /\ p.of.rank < owner.rank
          /\ p.start - 1 \in slots \/ p.start - 1 \in SlotsOf(segments, p.of)
      BY <1>3, <2>2 DEF ArePieces, Piece, Row
    <3>2. CASE p.start - 1 \in slots
      <4>1. Covered(segments', owner.rank, t)
        BY <1>15, <3>2
      <4>2. \A y \in segments' : y.of.rank \in Nat
        BY <1>5, <1>8
      <4> QED BY <1>5, <3>1, <4>1, <4>2 DEF Covered
    <3>3. CASE p.start - 1 \in SlotsOf(segments, p.of)
      <4>1. PICK x \in segments : x.of = p.of /\ x.at = p.start - 1
        BY <3>3 DEF SlotsOf
      <4> QED BY <1>12, <1>13, <3>1, <4>1
    <3> QED BY <3>1, <3>2, <3>3
  <2> QED BY <1>4, <2>1, <2>2
<1>18. SegmentsInv'
  BY <1>2, <1>11, <1>16, <1>17 DEF SegmentsInv, OneOwner, Packed, Covered
<1>19. Alone'
  BY <1>2 DEF SerialInv, Alone, AtWork, Ids
<1>20. TimelineOf(rows)' = TimelineOf(rows)
  BY <1>2 DEF TimelineOf, Later
<1>21. RowsInv'
  BY <1>2, <1>20 DEF SerialInv, RowsInv, OneOwner, Packed, Covered
<1>22. \A h : Held(TimelineOf(rows), h)' = Held(TimelineOf(rows), h)
  BY <1>20 DEF Held
<1>23. \A h \in Grant : Remaining(h)' = Remaining(h)
  BY <1>22 DEF Remaining
<1>24. Conserved'
  <2>1. ASSUME NEW h \in Grant
        PROVE  Cardinality(Held(segments', h)) + Cardinality(Waiting(queue', h)) =
                 Cardinality(Held(segments, h)) + Cardinality(Waiting(queue, h))
    <3>1. Cardinality(Held(segments, h)) = Cardinality(Cells(segments, h))
      BY <1>5, <1>6, CellsOfSlots
    <3>2. IsFiniteSet(Taken(segments'))
      BY <1>7, TakenFinite
    <3>3. Cardinality(Held(segments', h)) = Cardinality(Cells(segments', h))
      BY <1>11, <3>2, CellsOfSlots
    <3> QED BY <1>7, <3>1, <3>3
  <2>2. \A f, h \in Grant : tx[f].phase = "placing" =>
          Cardinality(Held(segments', h)) + Cardinality(Waiting(queue', h)) =
            IF h = f THEN Duration[f] ELSE Remaining(h)
    BY <2>1 DEF SerialInv, Conserved
  <2> QED BY <1>2, <1>7, <1>23, <2>2 DEF Conserved, Held, Waiting
<1>25. NotYetMade' /\ PaidTimeKept'
  BY <1>2, <1>22, <1>23 DEF SerialInv, NotYetMade, PaidTimeKept
<1> QED BY <1>18, <1>19, <1>21, <1>24, <1>25 DEF SerialInv

\* The slots of the rows that are written are those of the segments.
LEMMA ApplySerial ==
    ASSUME TypeInv, SerialInv, NEW g \in Grant, ApplySubscriptionTimeline(g)
    PROVE  SerialInv'
<1> DEFINE new == UNION {RowsOf(g, segments, o) : o \in Owners(segments)}
           T == Ahead(rows', now)
<1>1. /\ now' = now /\ served' = served /\ revoked' = revoked
      /\ rows' = (rows \ Existing(g)) \cup new
      /\ queue = {} /\ segments' = {} /\ queue' = {}
      /\ tx[g].phase = "placing" /\ Done(g)
  BY DEF ApplySubscriptionTimeline
<1>2. AtWork(g) /\ Existing(g) = rows
  BY <1>1, SeesEveryRow DEF AtWork
<1>3. rows' = new
  BY <1>1, <1>2
<1>4. /\ \A r \in new : r \in Row /\ r.to > now /\ r.to > r.from
      /\ \A r \in new : \E o \in Owners(segments) :
           /\ r \in RowsOf(g, segments, o)
           /\ r.grant = o.grant /\ r.rank = o.rank
           /\ \A t \in Nat : now <= t /\ r.from <= t /\ t < r.to => [of |-> o, at |-> t] \in segments
      /\ \A x \in segments : \E r \in new :
           /\ r.grant = x.of.grant /\ r.rank = x.of.rank
           /\ now <= x.at /\ r.from <= x.at /\ x.at < r.to
  BY WrittenRows
<1> HIDE DEF new
<1>5. now \in Nat /\ segments \subseteq Segment /\ rows' \subseteq Row
  BY <1>3, <1>4 DEF TypeInv, TypeOK, Segment
<1>6. TimelineOf(rows)' = T
  BY <1>1, <1>5, TimelineIsAheadNext
<1>7. \A x \in T : /\ x.of \in new /\ x.at \in Nat /\ x = [of |-> x.of, at |-> x.at]
                   /\ now <= x.at /\ x.of.from <= x.at /\ x.at < x.of.to
  BY <1>3 DEF Ahead
<1>8. \A r \in new : \A t \in Nat : now <= t /\ r.from <= t /\ t < r.to => [of |-> r, at |-> t] \in T
  BY <1>3 DEF Ahead
<1> HIDE DEF T
<1>9. ASSUME NEW x \in T
      PROVE  \E y \in segments : /\ y.at = x.at /\ y.of.grant = x.of.grant /\ y.of.rank = x.of.rank
                                 /\ x.of \in RowsOf(g, segments, y.of)
  <2>1. PICK o \in Owners(segments) :
          /\ x.of \in RowsOf(g, segments, o)
          /\ x.of.grant = o.grant /\ x.of.rank = o.rank
          /\ [of |-> o, at |-> x.at] \in segments
    BY <1>4, <1>7
  <2> DEFINE y == [of |-> o, at |-> x.at]
  <2>2. y.of = o /\ y.at = x.at
    OBVIOUS
  <2> HIDE DEF y
  <2>3. y \in segments
    BY <2>1 DEF y
  <2> QED BY <2>1, <2>2, <2>3
<1>10. ASSUME NEW y \in segments
       PROVE  \E x \in T : x.at = y.at /\ x.of.grant = y.of.grant /\ x.of.rank = y.of.rank
  <2>1. PICK r \in new : /\ r.grant = y.of.grant /\ r.rank = y.of.rank
                         /\ now <= y.at /\ r.from <= y.at /\ y.at < r.to
    BY <1>4
  <2>2. y.at \in Nat
    BY <1>5 DEF Segment
  <2>3. [of |-> r, at |-> y.at] \in T
    BY <1>8, <2>1, <2>2
  <2> QED BY <2>1, <2>3
<1>11. OneOwner(segments) /\ Packed(segments, now)
  BY DEF SerialInv, SegmentsInv
<1>12. OneOwner(T)
  <2> SUFFICES ASSUME NEW x \in T, NEW z \in T, x.at = z.at  PROVE x = z
    BY DEF OneOwner
  <2>1. PICK y \in segments : y.at = x.at /\ x.of \in RowsOf(g, segments, y.of)
    BY <1>9
  <2>2. PICK w \in segments : w.at = z.at /\ z.of \in RowsOf(g, segments, w.of)
    BY <1>9
  <2>3. y = w
    BY <1>11, <2>1, <2>2 DEF OneOwner
  <2>4. y.of \in Owners(segments) /\ x.at \in SlotsOf(segments, y.of)
    BY <2>1 DEF Owners, SlotsOf
  <2>5. AreRows(RowsOf(g, segments, y.of), y.of, SlotsOf(segments, y.of))
    BY <2>4, RowsOfAreRows
  <2>6. x.of = z.of
    BY <1>7, <2>1, <2>2, <2>3, <2>4, <2>5 DEF AreRows
  <2> QED BY <1>7, <2>6
<1>13. Packed(T, now)
  <2> SUFFICES ASSUME NEW x \in T, NEW t \in now .. x.at
               PROVE  Covered(T, x.of.rank, t)
    BY DEF Packed
  <2>1. PICK y \in segments : y.at = x.at /\ y.of.rank = x.of.rank
    BY <1>9
  <2>2. PICK w \in segments : w.at = t /\ w.of.rank >= y.of.rank
    BY <1>11, <2>1 DEF Packed, Covered
  <2>3. PICK z \in T : z.at = w.at /\ z.of.rank = w.of.rank
    BY <1>10
  <2> QED BY <2>1, <2>2, <2>3 DEF Covered
<1>14. RowsInv'
  <2>1. OneOwner(TimelineOf(rows)') /\ Packed(TimelineOf(rows)', now')
    BY <1>1, <1>6, <1>12, <1>13
  <2> QED BY <2>1 DEF RowsInv, OneOwner, Packed, Covered
<1>15. SegmentsInv'
  BY <1>1 DEF SegmentsInv, OneOwner, Packed
<1>16. \A h \in Grant : tx'[h].phase = "done" <=> (h = g \/ tx[h].phase = "done")
  BY <1>1, DoneType
<1>17. \A h \in Grant : ~AtWork(h)'
  BY <1>1, <1>2, DoneType DEF SerialInv, Alone, AtWork
<1>18. Alone'
  BY <1>17 DEF Alone
<1>19. Waiting(queue, g) = {} /\ \A h : Waiting(queue, h) = {} /\ Waiting(queue', h) = {}
  BY <1>1 DEF Waiting
<1>20. Conserved'
  BY <1>17, <1>19, FS_EmptySet DEF Conserved, AtWork, Waiting
<1>21. \A h : Held(TimelineOf(rows)', h) = Held(segments, h)
  <2> TAKE h
  <2>1. \A t \in Held(T, h) : t \in Held(segments, h)
    BY <1>9 DEF Held
  <2>2. \A t \in Held(segments, h) : t \in Held(T, h)
    BY <1>10 DEF Held
  <2> QED BY <1>6, <2>1, <2>2
<1>22. ASSUME NEW h \in Grant
       PROVE  /\ IsFiniteSet(Held(segments, h)) /\ Cardinality(Held(segments, h)) \in Nat
              /\ Cardinality(Held(segments, h)) = IF h = g THEN Duration[g] ELSE Remaining(h)
  <2>1. IsFiniteSet(Held(segments, h)) /\ Cardinality(Held(segments, h)) \in Nat
    BY <1>5, SlotsOfType, FS_CardinalityType DEF TypeInv, FiniteSlots
  <2>2. Cardinality(Held(segments, h)) + Cardinality(Waiting(queue, h)) =
          IF h = g THEN Duration[g] ELSE Remaining(h)
    BY <1>1 DEF SerialInv, Conserved
  <2>3. Cardinality(Waiting(queue, h)) = 0
    BY <1>19, FS_EmptySet
  <2> QED BY <2>1, <2>2, <2>3
<1>23. \A h \in Grant : Remaining(h)' = Cardinality(Held(segments, h))
  BY <1>21 DEF Remaining, Held
<1>24. NotYetMade'
  <2> SUFFICES ASSUME NEW h \in Grant, tx'[h].phase # "done"
               PROVE  Held(TimelineOf(rows)', h) = {} /\ served'[h] = 0 /\ revoked'[h] = 0
    BY DEF NotYetMade, Held
  <2>1. h # g /\ tx[h].phase # "done"
    BY <1>16
  <2>2. Held(TimelineOf(rows), h) = {} /\ served[h] = 0 /\ revoked[h] = 0
    BY <2>1 DEF SerialInv, NotYetMade
  <2>3. Remaining(h) = 0
    BY <2>2, FS_EmptySet DEF Remaining
  <2>4. Held(segments, h) = {}
    BY <1>22, <2>1, <2>3, FS_EmptySet
  <2> QED BY <1>1, <1>21, <2>2, <2>4
<1>25. PaidTimeKept'
  <2> SUFFICES ASSUME NEW h \in Grant, tx'[h].phase = "done"
               PROVE  served[h] + Remaining(h)' + revoked[h] = Duration[h]
    BY <1>1 DEF PaidTimeKept
  <2>1. CASE h = g
    <3>1. tx[g].phase # "done" /\ Duration[g] \in Nat
      BY <1>1, GrantAssumption
    <3>2. served[g] = 0 /\ revoked[g] = 0
      BY <3>1 DEF SerialInv, NotYetMade
    <3> QED BY <1>22, <1>23, <2>1, <3>1, <3>2
  <2>2. CASE h # g
    <3>1. served[h] + Remaining(h) + revoked[h] = Duration[h]
      BY <1>16, <2>2 DEF SerialInv, PaidTimeKept
    <3> QED BY <1>22, <1>23, <2>2, <3>1
  <2> QED BY <2>1, <2>2
<1> QED BY <1>14, <1>15, <1>18, <1>20, <1>24, <1>25 DEF SerialInv

LEMMA ReplaceSerial ==
    ASSUME TypeInv, SerialInv, NEW g \in Grant, ReplaceSubscription(g)
    PROVE  SerialInv'
<1> DEFINE d == Duration[g]
           row == [NewOwner(g) EXCEPT !.to = now + d]
           T == Ahead(rows', now)
<1>1. /\ now' = now /\ segments' = segments /\ queue' = queue /\ served' = served
      /\ rows' = (rows \ Existing(g)) \cup {row}
      /\ revoked' = [h \in Grant |-> revoked[h] + Cardinality(Held(TimelineOf(Existing(g)), h))]
      /\ tx[g].phase = "open" /\ ~Placing /\ Done(g)
  BY DEF ReplaceSubscription, loop
<1>2. AtWork(g) /\ Existing(g) = rows
  BY <1>1, SeesEveryRow DEF AtWork
<1>3. rows' = {row}
  BY <1>1, <1>2
<1>4. now \in Nat /\ d \in Nat \ {0} /\ NewOwner(g) \in Row /\ NewOwner(g).grant = g
  BY GrantAssumption, NewOwnerType DEF TypeInv, TypeOK
<1>5. row \in Row /\ row.grant = g /\ row.from = now /\ row.to = now + d /\ row.rank \in Nat
  <2>1. NewOwner(g).from = now /\ now + d \in Nat
    BY <1>4 DEF NewOwner
  <2> QED BY <1>4, <2>1 DEF Row
<1> HIDE DEF row
<1>6. TimelineOf(rows)' = T
  BY <1>1, <1>3, <1>4, <1>5, TimelineIsAheadNext
<1>7. /\ \A x \in T : x = [of |-> row, at |-> x.at] /\ x.of = row /\ x.at \in Nat /\ now <= x.at /\ x.at < now + d
      /\ \A t \in Nat : now <= t /\ t < now + d => [of |-> row, at |-> t] \in T
  BY <1>3, <1>4, <1>5 DEF Ahead
<1> HIDE DEF T
<1>8. OneOwner(T)
  BY <1>7 DEF OneOwner
<1>9. Packed(T, now)
  <2> SUFFICES ASSUME NEW x \in T, NEW t \in now .. x.at
               PROVE  Covered(T, x.of.rank, t)
    BY DEF Packed
  <2>1. t \in Nat /\ now <= t /\ t < now + d
    BY <1>4, <1>7
  <2>2. [of |-> row, at |-> t] \in T /\ x.of = row /\ row.rank >= row.rank
    BY <1>5, <1>7, <2>1
  <2> QED BY <2>2 DEF Covered
<1>10. RowsInv'
  <2>1. OneOwner(TimelineOf(rows)') /\ Packed(TimelineOf(rows)', now')
    BY <1>1, <1>6, <1>8, <1>9
  <2> QED BY <2>1 DEF RowsInv, OneOwner, Packed, Covered
<1>11. segments = {} /\ queue = {}
  BY <1>1 DEF TypeInv, OnePlacing
<1>12. SegmentsInv'
  BY <1>1, <1>11 DEF SegmentsInv, OneOwner, Packed
<1>13. \A h \in Grant : tx'[h].phase = "done" <=> (h = g \/ tx[h].phase = "done")
  BY <1>1, DoneType
<1>14. \A h \in Grant : ~AtWork(h)'
  BY <1>1, <1>2, DoneType DEF SerialInv, Alone, AtWork
<1>15. Alone'
  BY <1>14 DEF Alone
<1>16. \A h : Waiting(queue', h) = {}
  BY <1>1, <1>11 DEF Waiting
<1>17. Conserved'
  BY <1>14, <1>16, FS_EmptySet DEF Conserved, AtWork, Waiting
<1>18. \A h \in Grant : revoked'[h] = revoked[h] + Remaining(h)
  BY <1>1, <1>2 DEF Remaining
<1>19. Held(T, g) = now .. (now + d - 1)
  <2>1. \A t \in Held(T, g) : t \in now .. (now + d - 1)
    BY <1>4, <1>7 DEF Held
  <2>2. \A t \in now .. (now + d - 1) : t \in Nat /\ now <= t /\ t < now + d
    BY <1>4
  <2>3. \A t \in now .. (now + d - 1) : \E x \in T : x.of = row /\ x.at = t
    BY <1>7, <2>2
  <2>4. \A t \in now .. (now + d - 1) : t \in Held(T, g)
    BY <1>5, <2>3 DEF Held
  <2> QED BY <2>1, <2>4
<1>20. \A h : h # g => Held(T, h) = {}
  BY <1>5, <1>7 DEF Held
<1>21. Remaining(g)' = d
  <2> DEFINE last == now + d - 1
  <2>1. last \in Nat /\ now <= last /\ last - now + 1 = d
    BY <1>4
  <2>2. Held(T, g) = now .. last
    BY <1>19
  <2> HIDE DEF last
  <2>3. Cardinality(now .. last) = IF now > last THEN 0 ELSE last - now + 1
    BY <1>4, <2>1, FS_Interval
  <2>4. Cardinality(now .. last) = d
    BY <1>4, <2>1, <2>3
  <2> QED BY <1>6, <2>2, <2>4 DEF Remaining, Held
<1>22. \A h : h # g => Remaining(h)' = 0
  <2> SUFFICES ASSUME NEW h, h # g  PROVE Remaining(h)' = 0
    OBVIOUS
  <2>1. Held(T, h) = {}
    BY <1>20
  <2> QED BY <1>6, <2>1, FS_EmptySet DEF Remaining, Held
<1>23. \A h \in Grant : tx[h].phase # "done" =>
         Remaining(h) = 0 /\ served[h] = 0 /\ revoked[h] = 0
  BY FS_EmptySet DEF SerialInv, NotYetMade, Remaining
<1>24. \A h \in Grant : served[h] \in Nat /\ revoked[h] \in Nat
  BY DEF TypeInv, TypeOK
<1>25. NotYetMade'
  <2> SUFFICES ASSUME NEW h \in Grant, tx'[h].phase # "done"
               PROVE  Held(TimelineOf(rows)', h) = {} /\ served'[h] = 0 /\ revoked'[h] = 0
    BY DEF NotYetMade, Held
  <2>1. h # g /\ tx[h].phase # "done"
    BY <1>13
  <2> QED BY <1>1, <1>6, <1>18, <1>20, <1>23, <2>1
<1>26. PaidTimeKept'
  <2> SUFFICES ASSUME NEW h \in Grant, tx'[h].phase = "done"
               PROVE  served[h] + Remaining(h)' + revoked'[h] = Duration[h]
    BY <1>1 DEF PaidTimeKept
  <2>1. CASE h = g
    <3>1. Remaining(g) = 0 /\ served[g] = 0 /\ revoked[g] = 0
      BY <1>1, <1>23
    <3>2. revoked'[g] = 0
      BY <1>18, <3>1
    <3> QED BY <1>4, <1>21, <2>1, <3>1, <3>2
  <2>2. CASE h # g
    <3>1. served[h] + Remaining(h) + revoked[h] = Duration[h]
      BY <1>13, <2>2 DEF SerialInv, PaidTimeKept
    <3>2. Remaining(h)' = 0 /\ revoked'[h] = revoked[h] + Remaining(h)
      BY <1>18, <1>22, <2>2
    <3>3. Remaining(h) \in Nat
      <4>1. TimelineOf(rows) \subseteq Segment
        <5>1. rows \subseteq Row
          BY DEF TypeInv, TypeOK
        <5>2. TimelineOf(rows) = Ahead(rows, now)
          BY <1>4, <5>1, TimelineIsAhead
        <5> QED BY <5>1, <5>2 DEF Ahead, Segment
      <4>2. IsFiniteSet(Held(TimelineOf(rows), h))
        BY <4>1, SlotsOfType DEF TypeInv, FiniteSlots
      <4> QED BY <4>2, FS_CardinalityType DEF Remaining
    <3> QED BY <1>24, <3>1, <3>2, <3>3
  <2> QED BY <2>1, <2>2
<1> QED BY <1>10, <1>12, <1>15, <1>17, <1>25, <1>26 DEF SerialInv

\* The best of a user's plans is under way, and nothing else is.
LEMMA OnePlanAtATime ==
    ASSUME TypeInv, RowsInv
    PROVE  /\ NoOverlap
           /\ \A r, q \in UnderWay : r = q
           /\ \A q \in rows : \E r \in UnderWay : r.rank >= q.rank
<1> DEFINE T == Ahead(rows, now)
<1>1. now \in Nat /\ rows \subseteq Row /\ \A r \in rows : r.to > now /\ r.to > r.from
  BY DEF TypeInv, TypeOK
<1>2. \A r \in rows : r.from \in Nat /\ r.to \in Nat /\ r.rank \in Nat
  BY <1>1 DEF Row
<1>3. TimelineOf(rows) = T
  BY <1>1, TimelineIsAhead
<1>4. \A r \in rows : \A t \in Nat : now <= t /\ r.from <= t /\ t < r.to => [of |-> r, at |-> t] \in T
  BY DEF Ahead
<1>5. \A x \in T : x.of \in rows /\ x.of.from <= x.at
  BY DEF Ahead
<1> HIDE DEF T
<1>6. OneOwner(T) /\ Packed(T, now)
  BY <1>3 DEF RowsInv
<1>7. ASSUME NEW r \in rows, NEW q \in rows, NEW t \in Nat,
             now <= t, r.from <= t, t < r.to, q.from <= t, t < q.to
      PROVE  r = q
  <2>1. [of |-> r, at |-> t] \in T /\ [of |-> q, at |-> t] \in T
    BY <1>4, <1>7
  <2>2. [of |-> r, at |-> t] = [of |-> q, at |-> t]
    BY <1>6, <2>1 DEF OneOwner
  <2> QED BY <2>2
<1>8. NoOverlap
  <2> SUFFICES ASSUME NEW r \in rows, NEW q \in rows, r.to > q.from, q.to > r.from
               PROVE  r = q
    BY <1>2 DEF NoOverlap
  <2>1. \E t \in {now, r.from, q.from} : now <= t /\ r.from <= t /\ q.from <= t
    BY <1>1, <1>2
  <2>2. \A t \in {now, r.from, q.from} : t \in Nat /\ t < r.to /\ t < q.to
    BY <1>1, <1>2
  <2> QED BY <1>7, <2>1, <2>2
<1>9. \A r, q \in UnderWay : r = q
  BY <1>1, <1>2, <1>7 DEF UnderWay
<1>10. ASSUME NEW q \in rows  PROVE \E r \in UnderWay : r.rank >= q.rank
  <2>1. PICK t \in {now, q.from} : now <= t /\ q.from <= t
    BY <1>1, <1>2
  <2>2. t \in Nat /\ t < q.to
    BY <1>1, <1>2, <2>1
  <2> DEFINE x == [of |-> q, at |-> t]
  <2>3. x \in T /\ x.of = q /\ now \in now .. x.at
    BY <1>1, <1>4, <2>1, <2>2
  <2> HIDE DEF x
  <2>4. PICK y \in T : y.at = now /\ y.of.rank >= q.rank
    BY <1>6, <2>3 DEF Packed, Covered
  <2> QED BY <1>5, <2>4 DEF UnderWay
<1> QED BY <1>8, <1>9, <1>10

\* The slot that passes leaves the timeline, and serves the grant it was of.
LEMMA TickSerial ==
    ASSUME TypeInv, SerialInv, Tick
    PROVE  SerialInv'
<1> DEFINE T == Ahead(rows, now)
           U == Ahead(rows', now + 1)
<1>1. /\ now < MaxTime /\ now' = now + 1 /\ tx' = tx /\ revoked' = revoked
      /\ segments' = segments /\ queue' = queue
      /\ rows' = {r \in rows : r.to > now + 1}
      /\ served' = IF UnderWay = {} THEN served ELSE [served EXCEPT ![Current.grant] = @ + 1]
      /\ \A g \in Grant : tx[g].phase \in {"none", "done"}
  BY DEF Tick, loop, InForce
<1>2. now \in Nat /\ rows \subseteq Row /\ served \in [Grant -> Nat] /\ \A r \in rows : r.to > now
  BY DEF TypeInv, TypeOK
<1>3. TimelineOf(rows) = T /\ TimelineOf(rows)' = U
  <2>1. now' \in Nat /\ rows' \subseteq Row
    BY <1>1, <1>2
  <2> QED BY <1>1, <1>2, <2>1, TimelineIsAhead, TimelineIsAheadNext
<1>4. \A x : x \in U <=> x \in T /\ x.at >= now + 1
  <2>1. \A x \in T : x.at \in Nat /\ x.of.to \in Nat /\ x.of.from \in Nat
    BY <1>2 DEF Ahead, Row
  <2>2. \A x \in T : x.at >= now + 1 => x \in U
    BY <1>1, <1>2, <2>1 DEF Ahead
  <2>3. \A x \in U : x \in T /\ x.at >= now + 1
    BY <1>1, <1>2 DEF Ahead
  <2> QED BY <2>2, <2>3
<1>5. \A x \in T : x.at \in Nat /\ now <= x.at /\ x.of \in rows /\ x.of.from <= x.at
  BY DEF Ahead
<1>6. \A r \in UnderWay : [of |-> r, at |-> now] \in T
  BY <1>2 DEF UnderWay, Ahead
<1>7. T \subseteq Segment
  BY <1>2 DEF Ahead, Segment
<1>8. IsFiniteSet(Taken(T))
  BY <1>3 DEF TypeInv, FiniteSlots
<1> HIDE DEF T, U
<1>9. OneOwner(T) /\ Packed(T, now)
  BY <1>3 DEF SerialInv, RowsInv
<1>10. RowsInv'
  <2>1. OneOwner(U)
    BY <1>4, <1>9 DEF OneOwner
  <2>2. Packed(U, now + 1)
    <3> SUFFICES ASSUME NEW x \in U, NEW t \in (now + 1) .. x.at
                 PROVE  Covered(U, x.of.rank, t)
      BY DEF Packed
    <3>1. x \in T /\ x.at \in Nat /\ t \in now .. x.at /\ t >= now + 1
      BY <1>2, <1>4, <1>5
    <3>2. PICK y \in T : y.at = t /\ y.of.rank >= x.of.rank
      BY <1>9, <3>1 DEF Packed, Covered
    <3> QED BY <1>4, <3>1, <3>2 DEF Covered
  <2>3. OneOwner(TimelineOf(rows)') /\ Packed(TimelineOf(rows)', now')
    BY <1>1, <1>3, <2>1, <2>2
  <2> QED BY <2>3 DEF RowsInv, OneOwner, Packed, Covered
<1>11. segments = {} /\ queue = {}
  BY <1>1 DEF TypeInv, OnePlacing, Placing
<1>12. SegmentsInv'
  BY <1>1, <1>11 DEF SegmentsInv, OneOwner, Packed
<1>13. Alone' /\ \A h \in Grant : tx'[h].phase # "placing"
  BY <1>1 DEF Alone, AtWork
<1>14. \A h : Waiting(queue', h) = {}
  BY <1>1, <1>11 DEF Waiting
<1>15. Conserved'
  BY <1>13, <1>14, FS_EmptySet DEF Conserved, Waiting
<1>16. /\ \A r, q \in UnderWay : r = q
       /\ \A q \in rows : \E r \in UnderWay : r.rank >= q.rank
  BY OnePlanAtATime DEF SerialInv
<1>17. ASSUME NEW h \in Grant
       PROVE  /\ Held(U, h) = Held(T, h) \ {now}
              /\ now \in Held(T, h) <=> UnderWay # {} /\ Current.grant = h
              /\ served'[h] = served[h] + (IF now \in Held(T, h) THEN 1 ELSE 0)
  <2>1. Held(U, h) = Held(T, h) \ {now}
    <3>1. \A x \in T : x.at >= now + 1 <=> x.at # now
      BY <1>2, <1>5
    <3>2. \A t : t \in Held(U, h) <=> t \in Held(T, h) /\ t # now
      BY <1>4, <3>1 DEF Held
    <3> QED BY <3>2
  <2>2. now \in Held(T, h) <=> \E r \in UnderWay : r.grant = h
    <3>1. ASSUME NEW r \in UnderWay, r.grant = h  PROVE now \in Held(T, h)
      <4> DEFINE x == [of |-> r, at |-> now]
      <4>1. x \in T /\ x.of = r /\ x.at = now
        BY <1>6
      <4> QED BY <3>1, <4>1 DEF Held
    <3>2. ASSUME now \in Held(T, h)  PROVE \E r \in UnderWay : r.grant = h
      <4>1. PICK x \in T : x.at = now /\ x.of.grant = h
        BY <3>2 DEF Held
      <4> QED BY <1>5, <4>1 DEF UnderWay
    <3> QED BY <3>1, <3>2
  <2>3. ASSUME NEW r \in UnderWay  PROVE Current = r
    <3>1. r.rank \in Nat /\ r.to \in Nat
      BY <1>2 DEF UnderWay, Row
    <3>2. \A q \in UnderWay : Before(r, q)
      BY <1>16, <3>1 DEF Before
    <3>3. Current \in UnderWay
      BY <3>2 DEF Current
    <3> QED BY <1>16, <3>3
  <2>4. now \in Held(T, h) <=> UnderWay # {} /\ Current.grant = h
    BY <2>2, <2>3
  <2>5. served[h] \in Nat
    BY <1>2
  <2>6. CASE now \in Held(T, h)
    <3>1. served' = [served EXCEPT ![h] = @ + 1]
      BY <1>1, <2>4, <2>6
    <3>2. served'[h] = served[h] + 1
      BY <1>2, <3>1
    <3> QED BY <2>1, <2>4, <2>6, <3>2
  <2>7. CASE now \notin Held(T, h)
    <3>1. served'[h] = served[h]
      BY <1>1, <1>2, <2>4, <2>7
    <3> QED BY <2>1, <2>4, <2>5, <2>7, <3>1
  <2> QED BY <2>6, <2>7
<1>18. NotYetMade'
  <2> SUFFICES ASSUME NEW h \in Grant, tx'[h].phase # "done"
               PROVE  Held(TimelineOf(rows)', h) = {} /\ served'[h] = 0 /\ revoked'[h] = 0
    BY DEF NotYetMade, Held
  <2>1. Held(T, h) = {} /\ served[h] = 0 /\ revoked[h] = 0
    BY <1>1, <1>3 DEF SerialInv, NotYetMade
  <2> QED BY <1>1, <1>3, <1>17, <2>1
<1>19. PaidTimeKept'
  <2> SUFFICES ASSUME NEW h \in Grant, tx'[h].phase = "done"
               PROVE  served'[h] + Remaining(h)' + revoked'[h] = Duration[h]
    BY DEF PaidTimeKept
  <2>1. served[h] + Remaining(h) + revoked[h] = Duration[h]
    BY <1>1 DEF SerialInv, PaidTimeKept
  <2>2. Remaining(h) = Cardinality(Held(T, h)) /\ Remaining(h)' = Cardinality(Held(T, h) \ {now})
    BY <1>3, <1>17 DEF Remaining, Held
  <2>3. IsFiniteSet(Held(T, h))
    BY <1>7, <1>8, SlotsOfType
  <2>4. Cardinality(Held(T, h)) \in Nat
    BY <2>3, FS_CardinalityType
  <2>5. served[h] \in Nat /\ revoked[h] \in Nat
    BY DEF TypeInv, TypeOK
  <2>6. CASE now \in Held(T, h)
    <3>1. Cardinality(Held(T, h) \ {now}) = Cardinality(Held(T, h)) - 1
      BY <2>3, <2>6, FS_RemoveElement
    <3> HIDE DEF Held
    <3>2. served'[h] = served[h] + 1
      BY <1>17, <2>6
    <3> QED BY <1>1, <2>1, <2>2, <2>4, <2>5, <3>1, <3>2
  <2>7. CASE now \notin Held(T, h)
    <3>1. Held(T, h) \ {now} = Held(T, h)
      BY <2>7
    <3>2. served'[h] = served[h]
      BY <1>17, <2>5, <2>7
    <3> QED BY <1>1, <2>1, <2>2, <3>1, <3>2
  <2> QED BY <2>6, <2>7
<1> QED BY <1>10, <1>12, <1>13, <1>15, <1>18, <1>19 DEF SerialInv

LEMMA SerialStep ==
    ASSUME Serialised, TypeInv, SerialInv, [Next]_vars
    PROVE  SerialInv'
<1>1. ASSUME NEW g \in Grant, Begin(g)  PROVE SerialInv'
  BY <1>1, BeginSerial
<1>2. ASSUME NEW g \in Grant, GrantSubscriptionOnTimeline(g)  PROVE SerialInv'
  BY <1>2, GrantSerial
<1>3. ASSUME NEW g \in Grant, Place(g)  PROVE SerialInv'
  BY <1>3, PlaceSerial
<1>4. ASSUME NEW g \in Grant, ApplySubscriptionTimeline(g)  PROVE SerialInv'
  BY <1>4, ApplySerial
<1>5. ASSUME NEW g \in Grant, ReplaceSubscription(g)  PROVE SerialInv'
  BY <1>5, ReplaceSerial
<1>6. CASE Tick
  BY <1>6, TickSerial
<1>7. CASE UNCHANGED vars
  <2>1. /\ now' = now /\ rows' = rows /\ tx' = tx /\ segments' = segments /\ queue' = queue
        /\ served' = served /\ revoked' = revoked
    BY <1>7 DEF vars, loop
  <2>2. TimelineOf(rows)' = TimelineOf(rows)
    BY <2>1 DEF TimelineOf, Later
  <2>3. /\ \A h : Held(TimelineOf(rows), h)' = Held(TimelineOf(rows), h)
        /\ \A h \in Grant : Remaining(h)' = Remaining(h)
    BY <2>2 DEF Held, Remaining
  <2>4. Alone'
    BY <2>1 DEF SerialInv, Alone, AtWork, Ids
  <2>5. RowsInv' /\ SegmentsInv'
    BY <2>1, <2>2 DEF SerialInv, RowsInv, SegmentsInv, OneOwner, Packed, Covered
  <2>6. Conserved'
    BY <2>1, <2>3 DEF SerialInv, Conserved, Held, Waiting
  <2>7. NotYetMade' /\ PaidTimeKept'
    BY <2>1, <2>3 DEF SerialInv, NotYetMade, PaidTimeKept
  <2> QED BY <2>4, <2>5, <2>6, <2>7 DEF SerialInv
<1> QED BY <1>1, <1>2, <1>3, <1>4, <1>5, <1>6, <1>7 DEF Next

LEMMA SerialInvariant ==
    ASSUME Serialised
    PROVE  Spec => [](TypeInv /\ SerialInv)
<1>1. Init => TypeInv /\ SerialInv
  BY TypeInit, SerialInit
<1>2. TypeInv /\ SerialInv /\ [Next]_vars => TypeInv' /\ SerialInv'
  BY TypeStep, SerialStep
<1> QED BY <1>1, <1>2, PTL DEF Spec

\* When transactions of a user exclude each other, no two plans are in force at
\* once: what is placed takes only free slots and those it moves
\* (placeSubscriptionTimelineGrant, displaceSubscriptionTimelineConflicts).
THEOREM PlansDoNotOverlap ==
    ASSUME Serialised
    PROVE  Spec => []NoOverlap
<1>1. TypeInv /\ SerialInv => NoOverlap
  BY OnePlanAtATime DEF SerialInv
<1> QED BY <1>1, SerialInvariant, PTL

\* When they do, every grant keeps its whole duration however often it is cut
\* and pushed back: what is placed finds as many slots as it had, and what that
\* displaces is queued again until nothing is left to place
\* (buildSubscriptionTimeline), and the rows written are those slots
\* (applySubscriptionTimeline).
THEOREM PaidTimeIsKept ==
    ASSUME Serialised
    PROVE  Spec => []PaidTimeKept
<1>1. TypeInv /\ SerialInv => PaidTimeKept
  BY DEF SerialInv
<1> QED BY <1>1, SerialInvariant, PTL

\* When they do, the best of a user's plans is in force as long as there is
\* one: no lesser plan runs before it and no gap separates them, for a piece
\* starts where what is of its plan or better leaves no room
\* (placeSubscriptionTimelineGrant, selectCurrentSubscription).
THEOREM BestPlanIsInForce ==
    ASSUME Serialised
    PROVE  Spec => []BestPlanInForce
<1>1. TypeInv /\ RowsInv => BestPlanInForce
  <2> SUFFICES ASSUME TypeInv, RowsInv, NEW p \in rows
               PROVE  \E r \in UnderWay : \A q \in rows : r.rank >= q.rank
    BY DEF BestPlanInForce
  <2>1. /\ \A r, q \in UnderWay : r = q
        /\ \A q \in rows : \E r \in UnderWay : r.rank >= q.rank
    BY OnePlanAtATime
  <2> QED BY <2>1
<1>2. TypeInv /\ SerialInv => BestPlanInForce
  BY <1>1 DEF SerialInv
<1> QED BY <1>2, SerialInvariant, PTL

=============================================================================
