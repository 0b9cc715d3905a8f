------------------------ MODULE SubscriptionTimeline ------------------------
(***************************************************************************)
(* How a new plan is fitted into the plans a user already has              *)
(* (buildSubscriptionTimeline): a better plan pushes the rest of a lesser  *)
(* one back, a lesser or equal one waits for the others or fills a gap.    *)
(* Here are its helpers; its loop is Place of Subscriptions.               *)
(*                                                                         *)
(* Time is cut into slots.  A timeline is a set of [of, at] records, an    *)
(* owner and a slot, where the code keeps a list of segments: the segments *)
(* of an owner are its maximal runs of slots, which is what the code's     *)
(* normalisation makes of a list by merging what touches.  An owner is a   *)
(* row of the table, or the new grant; rank is the rank of its plan.       *)
(***************************************************************************)
EXTENDS Integers, FiniteSets, FiniteSetsExt

\* The slots an owner has, and all that are taken.
SlotsOf(timeline, owner) == {x.at : x \in {y \in timeline : y.of = owner}}

Owners(timeline) == {x.of : x \in timeline}

Taken(timeline) == {x.at : x \in timeline}

\* The maximal run of a set of slots that slot s is in, and where a run ends.
Run(slots, s) == {t \in slots : (s .. t) \cup (t .. s) \subseteq slots}

Runs(slots) == {Run(slots, s) : s \in slots}

End(run) == Max(run) + 1

Earliest(n, slots) == {t \in slots : Cardinality({u \in slots : u < t}) < n}

-----------------------------------------------------------------------------
(***************************************************************************)
(* One piece to place, a grant or what was displaced of one: its owner,    *)
(* the slots it had (of which only the number and the first one matter),   *)
(* the slot from which it is placed, and the round that displaced it.      *)
(***************************************************************************)

\* Mutant: only a better plan is in the way.
MutBlocked(timeline, owner) == {x.at : x \in {y \in timeline : y.of.rank > owner.rank}}

\* What is of the same or a better plan stays where it is.
Blocked(timeline, owner) == {x.at : x \in {y \in timeline : y.of.rank >= owner.rank}}

\* As many slots as the piece had, the first free ones from its start.
FirstFree(blocked, piece) ==
    LET last == piece.start + Cardinality(blocked) + Cardinality(piece.slots)
    IN  Earliest(Cardinality(piece.slots), (piece.start .. last) \ blocked)

\* Mutant: the piece waits for the lesser plans too.
MutAllocation(timeline, piece) == FirstFree(Taken(timeline), piece)

Allocation(timeline, piece) == FirstFree(Blocked(timeline, piece.of), piece)

\* What the slots take away from an owner, as new pieces, each of which starts
\* where both the run that displaces it and the displaced segment end.
DisplacedOf(timeline, slots, owner, round) ==
    LET own == SlotsOf(timeline, owner)
        lost == own \cap slots
    IN  {[of |-> owner, slots |-> Run(lost, s), round |-> round,
          start |-> End(Run(slots, s) \cup Run(own, s))] : s \in lost}

Displaced(timeline, slots, owner, round) ==
    UNION {DisplacedOf(timeline, slots, o, round) :
             o \in {p \in Owners(timeline) : p.rank < owner.rank}}

\* Lesser plans give way.
Insert(timeline, slots, owner) ==
    {x \in timeline : x.at \notin slots \/ x.of.rank >= owner.rank}
        \cup {[of |-> owner, at |-> t] : t \in slots}

\* queue[0]: what was displaced last comes before what still waits, and of that
\* the piece that was first (of two that began together, either).
IsHead(piece, queue) ==
    \A q \in queue : \/ q.round < piece.round
                     \/ q.round = piece.round /\ Min(piece.slots) <= Min(q.slots)

=============================================================================
