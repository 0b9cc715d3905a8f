------------------------------ MODULE Payments ------------------------------
(***************************************************************************)
(* Money and plans that come in: payment orders, which the providers'      *)
(* webhooks complete, and redemption codes.                                *)
(*                                                                         *)
(* A webhook is a handler of two database calls: it reads the order, and,  *)
(* if that is not paid, takes the time and runs the transaction that marks *)
(* it paid and credits it.  Providers call again when they get no answer   *)
(* or an error, so any number of handlers may be under way for an order.   *)
(* A redemption is a single transaction that locks the code's row, as is   *)
(* the change of a code by an administrator.                               *)
(*                                                                         *)
(* A top-up credits the balance, another order and some codes grant time   *)
(* on a plan; both are here a row that says that it was given.             *)
(***************************************************************************)
EXTENDS Integers, FiniteSets

CONSTANTS
    Order, Handler, Code, User,
    OrderTicks,          \* an order can be paid for so many ticks (30 minutes)
    CodeTicks,           \* lifetimes of codes
    Limit,               \* limits administrators choose
    MaxRedemptions       \* bound: redemptions in a behaviour

ASSUME PaymentsAssumption ==
    /\ OrderTicks \in Nat /\ CodeTicks \subseteq Nat
    /\ Limit \subseteq Nat \ {0}
    /\ MaxRedemptions \in Nat

VARIABLES
    order,               \* billing_payment_orders, and the time left of each
    webhooks,            \* requests whose handler has read the order
    credits,             \* history: how often each order was credited
    code,                \* billing_redemption_codes, and the time left of each
    redemptions          \* billing_redemptions

vars == <<order, webhooks, credits, code, redemptions>>

\* A code of Unlimited has no max_redemptions.
Unlimited == 0

OrderRow == [status : {"none", "pending", "paid", "expired"}, left : Nat]

\* late: paidAt is after the order's expiry.
WebhookType == [handler : Handler, order : Order, late : BOOLEAN]

CodeRow == [status : {"none", "active", "inactive", "deleted"}, left : Nat,
            max : Limit \cup {Unlimited}, perUser : Limit \cup {1}, redeemed : Nat]

\* no is how many redemptions of the code came before.
Redemption == [code : Code, user : User, no : Nat]

\* The redemptions of a code, and those by one user.
RedemptionsOf(c) == {x \in redemptions : x.code = c}

UserRedemptions(c, u) == {x \in redemptions : x.code = c /\ x.user = u}

Init ==
    /\ order = [o \in Order |-> [status |-> "none", left |-> 0]]
    /\ webhooks = {}
    /\ credits = [o \in Order |-> 0]
    /\ code = [c \in Code |-> [status |-> "none", left |-> 0, max |-> Unlimited,
                               perUser |-> 1, redeemed |-> 0]]
    /\ redemptions = {}

-----------------------------------------------------------------------------
(***************************************************************************)
(* Orders.                                                                 *)
(***************************************************************************)

CreatePaymentOrder(o) ==
    /\ order[o].status = "none"
    /\ order' = [order EXCEPT ![o] = [status |-> "pending", left |-> OrderTicks]]
    /\ UNCHANGED <<webhooks, credits, code, redemptions>>

\* CompletePaymentOrder up to its transaction: an order that is paid is
\* answered at once; otherwise the handler takes paidAt, against which the
\* transaction compares the order's expiry.
Webhook(h, o) ==
    /\ \A w \in webhooks : w.handler # h
    /\ order[o].status \notin {"none", "paid"}
    /\ webhooks' = webhooks \cup {[handler |-> h, order |-> o, late |-> order[o].left = 0]}
    /\ UNCHANGED <<order, credits, code, redemptions>>

\* Mutant: the status that the handler read before is trusted.
MutMarkPaymentOrderPaid(w) ==
    /\ ~w.late
    /\ order' = [order EXCEPT ![w.order].status = "paid"]
    /\ credits' = [credits EXCEPT ![w.order] = @ + 1]
    /\ webhooks' = webhooks \ {w}
    /\ UNCHANGED <<code, redemptions>>

\* The transaction finds the order pending, and credits it.  Its reply may be
\* lost, in which case the provider calls again.
MarkPaymentOrderPaid(w) ==
    /\ ~w.late /\ order[w.order].status = "pending"
    /\ order' = [order EXCEPT ![w.order].status = "paid"]
    /\ credits' = [credits EXCEPT ![w.order] = @ + 1]
    /\ webhooks' = webhooks \ {w}
    /\ UNCHANGED <<code, redemptions>>

\* paidAt is too late: the transaction sets the order expired and returns an
\* error, which rolls it back.
RefuseLate(w) ==
    /\ w.late /\ order[w.order].status = "pending"
    /\ webhooks' = webhooks \ {w}
    /\ UNCHANGED <<order, credits, code, redemptions>>

\* The order was paid by another handler meanwhile, the database failed, or the
\* plan is no longer sold.
MarkUnchanged(w) ==
    /\ webhooks' = webhooks \ {w}
    /\ UNCHANGED <<order, credits, code, redemptions>>

-----------------------------------------------------------------------------
(***************************************************************************)
(* Redemption codes.                                                       *)
(***************************************************************************)

Consistent(max, perUser) == max # Unlimited => perUser <= max

CreateRedemptionCode(c) ==
    /\ code[c].status = "none"
    /\ \E left \in CodeTicks, max \in Limit \cup {Unlimited}, perUser \in Limit :
          /\ Consistent(max, perUser)
          /\ code' = [code EXCEPT ![c] = [status |-> "active", left |-> left, max |-> max,
                                          perUser |-> perUser, redeemed |-> 0]]
    /\ UNCHANGED <<order, webhooks, credits, redemptions>>

\* Mutant: the uses so far are not looked at.
MutAcceptsMax(c, max) == TRUE

\* A maximum below what was redeemed already is refused.
AcceptsMax(c, max) == max # Unlimited => max >= code[c].redeemed

\* Each field may be left as it is; the limits are checked as they will be.
PatchRedemptionCode(c) ==
    /\ code[c].status \notin {"none", "deleted"}
    /\ \E status \in {"active", "inactive"}, left \in CodeTicks \cup {code[c].left},
          max \in Limit \cup {Unlimited, code[c].max}, perUser \in Limit \cup {code[c].perUser} :
          /\ max = code[c].max \/ AcceptsMax(c, max)
          /\ Consistent(max, perUser)
          /\ code' = [code EXCEPT ![c].status = status, ![c].left = left,
                                  ![c].max = max, ![c].perUser = perUser]
    /\ UNCHANGED <<order, webhooks, credits, redemptions>>

DeleteRedemptionCode(c) ==
    /\ code[c].status \notin {"none", "deleted"}
    /\ code' = [code EXCEPT ![c].status = "deleted"]
    /\ UNCHANGED <<order, webhooks, credits, redemptions>>

\* validateRedeemableCode.
Redeemable(c, u) ==
    /\ code[c].status = "active" /\ code[c].left > 0
    /\ code[c].max # Unlimited => code[c].redeemed < code[c].max
    /\ Cardinality(UserRedemptions(c, u)) < code[c].perUser

\* Mutant: the redemption is not counted.
MutRedeemCode(c, u) ==
    /\ Cardinality(redemptions) < MaxRedemptions
    /\ Redeemable(c, u)
    /\ redemptions' = redemptions \cup {[code |-> c, user |-> u,
                                         no |-> Cardinality(RedemptionsOf(c))]}
    /\ UNCHANGED <<order, webhooks, credits, code>>

RedeemCode(c, u) ==
    /\ Cardinality(redemptions) < MaxRedemptions
    /\ Redeemable(c, u)
    /\ redemptions' = redemptions \cup {[code |-> c, user |-> u,
                                         no |-> Cardinality(RedemptionsOf(c))]}
    /\ code' = [code EXCEPT ![c].redeemed = @ + 1]
    /\ UNCHANGED <<order, webhooks, credits>>

-----------------------------------------------------------------------------
\* What has expired stays so.
Less(row) == [row EXCEPT !.left = IF @ > 0 THEN @ - 1 ELSE 0]

Tick ==
    /\ order' = [o \in Order |-> Less(order[o])]
    /\ code' = [c \in Code |-> Less(code[c])]
    /\ UNCHANGED <<webhooks, credits, redemptions>>

Next ==
    \/ \E o \in Order : CreatePaymentOrder(o) \/ \E h \in Handler : Webhook(h, o)
    \/ \E w \in webhooks : MarkPaymentOrderPaid(w) \/ RefuseLate(w) \/ MarkUnchanged(w)
    \/ \E c \in Code : \/ CreateRedemptionCode(c) \/ PatchRedemptionCode(c)
                       \/ DeleteRedemptionCode(c)
                       \/ \E u \in User : RedeemCode(c, u)
    \/ Tick

Spec == Init /\ [][Next]_vars

-----------------------------------------------------------------------------
(***************************************************************************)
(* Properties.                                                             *)
(***************************************************************************)

\* Rows have the types of the schema.
TypeOK ==
    /\ order \in [Order -> OrderRow]
    /\ webhooks \subseteq WebhookType
    /\ credits \in [Order -> Nat]
    /\ code \in [Code -> CodeRow]
    /\ redemptions \subseteq Redemption /\ IsFiniteSet(redemptions)

\* However often and however close together the provider calls, an order is
\* credited once if it is paid, and not at all otherwise
\* (repository.go:385-471, 834-915).
CreditedOncePerOrder ==
    \A o \in Order : credits[o] = IF order[o].status = "paid" THEN 1 ELSE 0

\* The count by which a code is exhausted is that of its redemptions, and
\* neither a race for the last use nor an administrator who lowers the maximum
\* takes it beyond that (repository.go:1133-1199, 1220-1298).
CodesNotOverdrawn ==
    \A c \in Code :
        /\ code[c].redeemed = Cardinality(RedemptionsOf(c))
        /\ code[c].max # Unlimited => code[c].redeemed <= code[c].max

=============================================================================
