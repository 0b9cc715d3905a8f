--------------------------- MODULE Subscriptions ---------------------------
(***************************************************************************)
(* One user's subscriptions: paid orders and redeemed codes that grant     *)
(* time on a plan (grantSubscriptionOnTimeline), and administrators who    *)
(* set the plan (ReplaceSubscription).                                     *)
(*                                                                         *)
(* Both are transactions of two steps: the statement that reads, or        *)
(* expires, the user's rows works on the rows that were committed when it  *)
(* began; it waits for their locks and reads their newest versions, but    *)
(* rows that another transaction inserted meanwhile are not among them.    *)
(* With Serialised, as SQLite's single connection does it, transactions    *)
(* of a user do not overlap.                                               *)
(*                                                                         *)
(* Between reading and writing a grant computes the new timeline, one      *)
(* piece after the other.  It does so on its own data, with the rows it    *)
(* read locked, so no other transaction reads or writes in between here.   *)
(*                                                                         *)
(* A slot is a day, transactions take no time.  Rows without an end (the   *)
(* free plan) are not represented: no grant reads them and any other plan  *)
(* comes before them.                                                      *)
(***************************************************************************)
EXTENDS SubscriptionTimeline

CONSTANTS
    Grant,          \* orders, redemptions and administrators' changes
    Manual,         \* which of them are administrators' changes
    Rank,           \* the rank of the plan each is for
    Duration,       \* and for how many slots
    Serialised,     \* do transactions of a user exclude each other?
    MaxTime         \* bound on the clock

ASSUME GrantAssumption ==
    /\ Manual \subseteq Grant
    /\ Rank \in [Grant -> Nat]
    /\ Duration \in [Grant -> Nat \ {0}]
    /\ Serialised \in BOOLEAN
    /\ MaxTime \in Nat

VARIABLES
    now,
    rows,           \* billing_subscriptions, status active and not yet over
    tx,             \* transactions: phase, and the rows the statement began with
    segments,       \* buildSubscriptionTimeline: the timeline so far,
    queue,          \* what is still to be placed,
    round,          \* and how many pieces were
    served,         \* history: slots in which the user was served by each grant
    revoked         \* history: slots an administrator took away

loop == <<segments, queue, round>>

vars == <<now, rows, tx, loop, served, revoked>>

\* A row is identified by the grant whose transaction created it, the grant it
\* belongs to and where it began then.
Id == Grant \X Grant \X Nat
Row == [id : Id, grant : Grant, rank : Nat, from : Nat, to : Nat]

Init ==
    /\ now = 0
    /\ rows = {}
    /\ tx = [g \in Grant |-> [phase |-> "none", seen |-> {}]]
    /\ segments = {} /\ queue = {} /\ round = 0
    /\ served = [g \in Grant |-> 0]
    /\ revoked = [g \in Grant |-> 0]

Later(t) == IF t > now THEN t ELSE now

Ids(set) == {r.id : r \in set}

TimelineOf(set) == UNION {{[of |-> r, at |-> t] : t \in Later(r.from) .. (r.to - 1)} : r \in set}

\* The slots that a grant has.
Held(timeline, g) == {x.at : x \in {y \in timeline : y.of.grant = g}}

Remaining(g) == Cardinality(Held(TimelineOf(rows), g))

-----------------------------------------------------------------------------
(***************************************************************************)
(* Transactions.                                                           *)
(***************************************************************************)

\* The statement begins.
Begin(g) ==
    /\ tx[g].phase = "none"
    /\ Serialised => \A h \in Grant : tx[h].phase \in {"none", "done"}
    /\ tx' = [tx EXCEPT ![g] = [phase |-> "open", seen |-> Ids(rows)]]
    /\ UNCHANGED <<now, rows, loop, served, revoked>>

\* It gets the locks of its rows, if nobody is at work.
Placing == \E g \in Grant : tx[g].phase = "placing"

\* The rows it gets, in their newest version.
Existing(g) == {r \in rows : r.id \in tx[g].seen}

Done(g) == tx' = [tx EXCEPT ![g] = [phase |-> "done", seen |-> {}]]

NewOwner(g) == [id |-> <<g, g, now>>, grant |-> g, rank |-> Rank[g], from |-> now, to |-> now]

\* Mutant: a row under way is not reused where it stays.
MutReuses(owner, s) == ~(owner.from < now /\ s >= now)

\* A row cannot be reused if it is under way and the segment is not.
Reuses(owner, s) == ~(owner.from < now /\ s > now)

\* applySubscriptionTimeline: the rows that the segments of an owner become.
\* The first one updates the owner's row, which keeps its beginning if it is
\* under way; the others are new rows.
RowOf(g, owner, s, end, isFirst) ==
    IF isFirst /\ Reuses(owner, s) /\ owner # NewOwner(g)
    THEN [owner EXCEPT !.from = IF owner.from < now THEN owner.from ELSE s, !.to = end]
    ELSE [owner EXCEPT !.id = <<g, owner.grant, s>>, !.from = s, !.to = end]

RowsOf(g, timeline, owner) ==
    LET slots == SlotsOf(timeline, owner)
    IN  {RowOf(g, owner, Min(run), End(run), Min(slots) \in run) : run \in Runs(slots)}

\* The rows are read and the grant is queued.
GrantSubscriptionOnTimeline(g) ==
    /\ tx[g].phase = "open" /\ g \notin Manual /\ ~Placing
    /\ segments' = TimelineOf(Existing(g))
    /\ queue' = {[of |-> NewOwner(g), slots |-> now .. (now + Duration[g] - 1),
                  round |-> 0, start |-> now]}
    /\ round' = 0
    /\ tx' = [tx EXCEPT ![g].phase = "placing"]
    /\ UNCHANGED <<now, rows, served, revoked>>

\* Mutant: what is displaced is lost.
MutPlace(g) ==
    /\ tx[g].phase = "placing"
    /\ \E piece \in queue :
         /\ IsHead(piece, queue)
         /\ segments' = Insert(segments, Allocation(segments, piece), piece.of)
         /\ queue' = queue \ {piece}
    /\ round' = round + 1
    /\ UNCHANGED <<now, rows, tx, served, revoked>>

\* The next piece is placed, what it displaces is queued.
Place(g) ==
    /\ tx[g].phase = "placing"
    /\ \E piece \in queue :
         LET slots == Allocation(segments, piece)
         IN  /\ IsHead(piece, queue)
             /\ segments' = Insert(segments, slots, piece.of)
             /\ queue' = (queue \ {piece})
                            \cup Displaced(segments, slots, piece.of, round + 1)
    /\ round' = round + 1
    /\ UNCHANGED <<now, rows, tx, served, revoked>>

\* Nothing is left to place: the timeline is written.
ApplySubscriptionTimeline(g) ==
    /\ tx[g].phase = "placing" /\ queue = {}
    /\ rows' = (rows \ Existing(g)) \cup UNION {RowsOf(g, segments, o) : o \in Owners(segments)}
    /\ segments' = {} /\ round' = 0
    /\ Done(g)
    /\ UNCHANGED <<now, queue, served, revoked>>

\* Every row is expired and a new one takes their place.
ReplaceSubscription(g) ==
    /\ tx[g].phase = "open" /\ g \in Manual /\ ~Placing
    /\ rows' = (rows \ Existing(g)) \cup {[NewOwner(g) EXCEPT !.to = now + Duration[g]]}
    /\ revoked' = [h \in Grant |->
                     revoked[h] + Cardinality(Held(TimelineOf(Existing(g)), h))]
    /\ Done(g)
    /\ UNCHANGED <<now, loop, served>>

-----------------------------------------------------------------------------
\* selectCurrentSubscription: of the rows under way, the one of the best plan,
\* and of those the one that ends last.
UnderWay == {r \in rows : r.from <= now}

Before(r, q) == r.rank > q.rank \/ (r.rank = q.rank /\ r.to >= q.to)

Current == CHOOSE r \in UnderWay : \A q \in UnderWay : Before(r, q)

\* Mutant: a row is still selected at the moment in which it ends.
MutInForce(r, t) == r.to >= t

\* current_period_end_at > t: what ended is selected no more.
InForce(r, t) == r.to > t

\* A slot passes, served by the current subscription.
Tick ==
    /\ now < MaxTime
    /\ \A g \in Grant : tx[g].phase \in {"none", "done"}
    /\ now' = now + 1
    /\ rows' = {r \in rows : InForce(r, now + 1)}
    /\ served' = IF UnderWay = {} THEN served
                 ELSE [served EXCEPT ![Current.grant] = @ + 1]
    /\ UNCHANGED <<tx, loop, revoked>>

Next ==
    \/ \E g \in Grant : \/ Begin(g)
                        \/ GrantSubscriptionOnTimeline(g)
                        \/ Place(g)
                        \/ ApplySubscriptionTimeline(g)
                        \/ ReplaceSubscription(g)
    \/ Tick

Spec == Init /\ [][Next]_vars

-----------------------------------------------------------------------------
(***************************************************************************)
(* Properties.                                                             *)
(***************************************************************************)

\* Rows have the shape of the schema and end in the future.
TypeOK ==
    /\ now \in 0 .. MaxTime
    /\ rows \subseteq Row
    /\ \A r \in rows : r.to > now /\ r.to > r.from
    /\ tx \in [Grant -> [phase : {"none", "open", "placing", "done"}, seen : SUBSET Id]]
    /\ segments \subseteq [of : Row, at : Nat]
    /\ \A p \in queue : p.of \in Row /\ p.slots \subseteq Nat /\ p.start \in Nat /\ p.round \in Nat
    /\ round \in Nat
    /\ served \in [Grant -> Nat] /\ revoked \in [Grant -> Nat]

\* At no moment is a user on two plans at once, one of which would be wasted:
\* a grant takes only free slots and those it moves (repository.go:2803-2898).
NoOverlap ==
    \A r, q \in rows : r # q => r.to <= q.from \/ q.to <= r.from

\* Of what was paid for, nothing is lost and nothing given twice, however the
\* grant was cut and pushed back by others: the time it served, what it has
\* left and what an administrator took make up its duration.
PaidTimeKept ==
    \A g \in Grant : tx[g].phase = "done" =>
        served[g] + Remaining(g) + revoked[g] = Duration[g]

\* As long as a user has time on some plan, the best of these plans is in
\* force: no lesser plan runs before it and no gap separates them.
BestPlanInForce ==
    rows # {} => \E r \in UnderWay : \A q \in rows : r.rank >= q.rank

\* A grant does not touch the rows of the same or a better plan, not even to
\* split or replace them.
BetterPlansStay ==
    [][\A g \in Grant : g \notin Manual /\ tx'[g].phase # tx[g].phase =>
          \A r \in rows : r.rank >= Rank[g] => r \in rows']_vars

=============================================================================
